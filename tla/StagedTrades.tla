---------------------------- MODULE StagedTrades ----------------------------
(***************************************************************************)
(* Rows of scan_opportunities from the scan that writes them to the order  *)
(* and back: the auto-select pipeline of the daemon and of the dashboard   *)
(* (services/auto_select_pipeline.py), staging by hand in the scanner page *)
(* (agentic/scanner_api.py), execution by the daemon                       *)
(* (agentic/action_executor.py) and by the command `execute` (cli/main.py),*)
(* unstaging, and the life cycle manager that guards the state of a row    *)
(* (execution/opportunity_lifecycle.py).                                   *)
(*                                                                         *)
(* Daemon, dashboard and command are processes that share only the table.  *)
(* The pipeline reads its budget minutes before it stages.                 *)
(***************************************************************************)
EXTENDS Integers, FiniteSets, FiniteSetsExt

CONSTANTS
    Rows,        \* rows of scan_opportunities
    RowMargin,    \* row -> margin of all its contracts
    EstimateOf,  \* row -> the estimate staging by hand records
    Ceiling,     \* NLV * margin_budget_pct
    MaxBatch,    \* max_positions of the scanner settings
    MaxRuns,     \* bound on runs of `execute`
    MaxTurns     \* bound on stagings by hand and crashes of the daemon together

ASSUME StagedBounds ==
    /\ RowMargin \in [Rows -> Nat] /\ EstimateOf \in [Rows -> Nat]
    /\ Ceiling \in Nat /\ MaxBatch \in Nat
    /\ MaxRuns \in Nat /\ MaxTurns \in Nat

States == {"PENDING", "ENRICHED", "VALIDATED", "RISK_BLOCKED", "OFFERED", "APPROVED",
           "REJECTED", "SKIPPED", "EXECUTING", "EXECUTED", "FAILED", "EXPIRED",
           "STAGED", "VALIDATING", "READY", "ADJUSTING", "STALE", "CONFIRMED"}

\* VALID_TRANSITIONS: the states it names lead to the states after them, and each
\* of them to EXPIRED.
ValidTransitions ==
    ({"PENDING"} \X {"ENRICHED", "EXPIRED"})
    \cup ({"ENRICHED"} \X {"VALIDATED", "RISK_BLOCKED", "EXPIRED"})
    \cup ({"VALIDATED"} \X {"OFFERED", "RISK_BLOCKED", "EXPIRED"})
    \cup ({"OFFERED"} \X {"APPROVED", "REJECTED", "SKIPPED", "EXPIRED"})
    \cup ({"APPROVED"} \X {"EXECUTING", "STAGED", "EXPIRED"})
    \cup ({"EXECUTING"} \X {"EXECUTED", "FAILED", "EXPIRED"})
    \cup ({"STAGED"} \X {"VALIDATING", "EXECUTING", "EXPIRED"})
    \cup ({"VALIDATING"} \X {"READY", "STALE", "ADJUSTING", "CONFIRMED", "EXPIRED"})
    \cup ({"READY"} \X {"VALIDATING", "CONFIRMED", "STALE", "ADJUSTING", "EXPIRED"})
    \cup ({"ADJUSTING"} \X {"READY", "CONFIRMED", "STALE", "EXPIRED"})
    \cup ({"CONFIRMED"} \X {"EXECUTING", "EXPIRED"})

IsValidTransition(from, to) == <<from, to>> \in ValidTransitions

\* The states the end of the day and the dashboard unstage; the command `unstage`
\* leaves out the last.
PreExecution == {"STAGED", "VALIDATING", "READY", "ADJUSTING", "CONFIRMED", "EXECUTING"}
CliPreExecution == PreExecution \ {"EXECUTING"}

Absent == [state |-> "none", executed |-> FALSE, margin |-> 0]
Pipelines == {"daemon", "dashboard"}
Executors == {"daemon", "cli"}

VARIABLES
    rows,      \* row -> state, executed, staged_margin
    desk,      \* process -> where it is and the rows it holds
    sent,      \* executor -> row -> orders it has sent for the row
    filled,    \* row -> filled orders
    stagings,  \* history: row -> times STAGED was written
    cliRuns,   \* runs of `execute` so far
    turns      \* stagings by hand and crashes so far

stagedVars == <<rows, desk, sent, filled, stagings, cliRuns, turns>>

Idle == [pc |-> "idle", held |-> {}, todo |-> {}, current |-> 0, alone |-> FALSE]

\* A row of scan_opportunities: its state, executed, staged_margin.
ScanRow == [state : States \cup {"none"}, executed : BOOLEAN, margin : Nat]

StagedTypeOK ==
    /\ rows \in [Rows -> ScanRow]
    /\ desk \in [Pipelines \cup Executors ->
                    [pc : {"idle", "scanned", "chosen", "claiming", "ready", "sent"},
                     held : SUBSET Rows, todo : SUBSET Rows, current : Nat,
                     alone : BOOLEAN]]
    /\ sent \in [Executors -> [Rows -> Nat]]
    /\ filled \in [Rows -> Nat]
    /\ stagings \in [Rows -> Nat]
    /\ cliRuns \in 0..MaxRuns /\ turns \in 0..MaxTurns

StagedInit ==
    /\ rows = [r \in Rows |-> Absent]
    /\ desk = [p \in Pipelines \cup Executors |-> Idle]
    /\ sent = [e \in Executors |-> [r \in Rows |-> 0]]
    /\ filled = [r \in Rows |-> 0]
    /\ stagings = [r \in Rows |-> 0]
    /\ cliRuns = 0 /\ turns = 0

InState(S) == {r \in Rows : rows[r].state \in S}
StagedMargin == MapThenSumSet(LAMBDA r : rows[r].margin, InState({"STAGED"}))
CurrentMargin == MapThenSumSet(LAMBDA r : filled[r] * RowMargin[r], Rows)

\* transition(): EXECUTED also sets the flag; a move the table does not allow
\* leaves the row as it is.
Transition(row, from, to) ==
    IF ~IsValidTransition(from, to) THEN row
    ELSE [row EXCEPT !.state = to, !.executed = @ \/ to = "EXECUTED"]

\* STAGED is written over whatever the row holds.
Stage(S, margin) ==
    /\ rows' = [r \in Rows |-> IF r \in S
                               THEN [rows[r] EXCEPT !.state = "STAGED", !.margin = margin[r]]
                               ELSE rows[r]]
    /\ stagings' = [r \in Rows |-> IF r \in S THEN stagings[r] + 1 ELSE stagings[r]]

\* Others that stage, unstage or fill end the solitude of a pipeline under way.
Disturbed(d, p) == [q \in DOMAIN d |-> IF q = p THEN d[q] ELSE [d[q] EXCEPT !.alone = FALSE]]

-----------------------------------------------------------------------------
(* The pipeline.                                                           *)

\* run_scan_and_persist: a row per symbol found.
RunScan(p) ==
    /\ desk[p].pc = "idle"
    /\ \E found \in SUBSET InState({"none"}) :
          /\ found # {}
          /\ rows' = [r \in Rows |-> IF r \in found
                                     THEN [Absent EXCEPT !.state = "PENDING"] ELSE rows[r]]
          /\ desk' = [desk EXCEPT ![p] = [Idle EXCEPT !.pc = "scanned", !.held = found]]
    /\ UNCHANGED <<sent, filled, stagings, cliRuns, turns>>

Budget == Ceiling - CurrentMargin - StagedMargin

\* run_auto_select_pipeline: a portfolio of pending rows of the scan within the
\* budget and the position limit (AutoSelection says how it is chosen).
Select(p) ==
    /\ desk[p].pc = "scanned"
    /\ Budget > 0
    /\ \E chosen \in SUBSET {r \in desk[p].held : rows[r].state = "PENDING"} :
          /\ Cardinality(chosen) <= MaxBatch
          /\ MapThenSumSet(LAMBDA r : RowMargin[r], chosen) <= Budget
          /\ desk' = [desk EXCEPT ![p] =
                [Idle EXCEPT !.pc = "chosen", !.held = chosen, !.current = CurrentMargin,
                             !.alone = TRUE]]
    /\ UNCHANGED <<rows, sent, filled, stagings, cliRuns, turns>>

\* No budget, no data, no chains or no money for the model: the run ends.
PipelineFails(p) ==
    /\ desk[p].pc = "scanned"
    /\ desk' = [desk EXCEPT ![p] = Idle]
    /\ UNCHANGED <<rows, sent, filled, stagings, cliRuns, turns>>

\* stage_selected_candidates, in one commit, by id.
StageSelected(p) ==
    /\ desk[p].pc = "chosen"
    /\ Stage(desk[p].held, RowMargin)
    /\ desk' = Disturbed([desk EXCEPT ![p] = Idle], p)
    /\ UNCHANGED <<sent, filled, cliRuns, turns>>

\* The scanner page stages rows by id, with the contract the user has chosen
\* (_stage_with_contracts) or without.
StageByHand ==
    /\ turns < MaxTurns
    /\ turns' = turns + 1
    /\ \E r \in Rows \ InState({"none"}), m \in {RowMargin, EstimateOf} : Stage({r}, m)
    /\ desk' = Disturbed(desk, "user")
    /\ UNCHANGED <<sent, filled, cliRuns>>

-----------------------------------------------------------------------------
(* Execution.                                                              *)

\* EXECUTE_TRADES: the daemon reads the staged rows and claims them one by one.
Load(e) ==
    /\ desk[e].pc = "idle"
    /\ InState({"STAGED"}) # {}
    /\ e = "cli" => cliRuns < MaxRuns
    /\ cliRuns' = IF e = "cli" THEN cliRuns + 1 ELSE cliRuns
    /\ desk' = [desk EXCEPT ![e] =
          IF e = "daemon" THEN [Idle EXCEPT !.pc = "claiming", !.todo = InState({"STAGED"})]
          ELSE [Idle EXCEPT !.pc = "ready", !.held = InState({"STAGED"})]]
    /\ UNCHANGED <<rows, sent, filled, stagings, turns>>

\* Bug: the rows are read and submitted without a claim.
ClaimNothing(r) ==
    /\ desk["daemon"].pc = "claiming" /\ r \in desk["daemon"].todo
    /\ desk' = [desk EXCEPT !["daemon"].todo = @ \ {r}, !["daemon"].held = @ \cup {r}]
    /\ UNCHANGED <<rows, sent, filled, stagings, cliRuns, turns>>

\* The session of the daemon still holds the row as it was read: the state it
\* checks is STAGED, and EXECUTING is written over what the table holds now.
Claim(r) ==
    /\ desk["daemon"].pc = "claiming" /\ r \in desk["daemon"].todo
    /\ rows' = [rows EXCEPT ![r] = Transition(@, "STAGED", "EXECUTING")]
    /\ desk' = [desk EXCEPT !["daemon"].todo = @ \ {r}, !["daemon"].held = @ \cup {r}]
    /\ UNCHANGED <<sent, filled, stagings, cliRuns, turns>>

Claimed ==
    /\ desk["daemon"].pc = "claiming" /\ desk["daemon"].todo = {}
    /\ desk' = [desk EXCEPT !["daemon"].pc = "ready"]
    /\ UNCHANGED <<rows, sent, filled, stagings, cliRuns, turns>>

\* _pre_flight_validation looks at the batch alone: its margin and its size.
PreFlight(S) ==
    /\ MapThenSumSet(LAMBDA r : rows[r].margin, S) <= Ceiling
    /\ Cardinality(S) <= MaxBatch

\* The scheduler sends the orders of the batch; an order may be skipped or fail.
Submit(e) ==
    /\ desk[e].pc = "ready"
    /\ PreFlight(desk[e].held)
    /\ \E S \in SUBSET desk[e].held :
          sent' = [sent EXCEPT ![e] = [r \in Rows |-> @[r] + IF r \in S THEN 1 ELSE 0]]
    /\ desk' = [desk EXCEPT ![e].pc = "sent"]
    /\ UNCHANGED <<rows, filled, stagings, cliRuns, turns>>

\* A refused batch ends with an empty report: claimed rows stay EXECUTING.
Abort(e) ==
    /\ desk[e].pc = "ready"
    /\ desk' = [desk EXCEPT ![e] = Idle]
    /\ UNCHANGED <<rows, sent, filled, stagings, cliRuns, turns>>

\* _save_filled_trades_to_db, in a session of its own, for the fills the
\* scheduler saw; the row of a fill is moved to EXECUTED from what it is now.
SaveFilled(e) ==
    /\ desk[e].pc = "sent"
    /\ \E S \in SUBSET {r \in desk[e].held : sent[e][r] > 0 /\ filled[r] > 0} :
          rows' = [r \in Rows |-> IF r \in S THEN Transition(rows[r], rows[r].state, "EXECUTED")
                                  ELSE rows[r]]
    /\ desk' = [desk EXCEPT ![e] = Idle]
    /\ UNCHANGED <<sent, filled, stagings, cliRuns, turns>>

\* The scheduler raises: the session of the daemon, which holds every claimed row
\* as EXECUTING, writes FAILED whatever has been saved meanwhile.
SchedulerFails ==
    /\ desk["daemon"].pc \in {"ready", "sent"}
    /\ \E S \in SUBSET {r \in desk["daemon"].held : filled[r] > 0} :
          rows' = [r \in Rows |->
              IF r \notin desk["daemon"].held THEN rows[r]
              ELSE Transition(IF desk["daemon"].pc = "sent" /\ r \in S
                              THEN Transition(rows[r], rows[r].state, "EXECUTED")
                              ELSE rows[r], "EXECUTING", "FAILED")]
    /\ desk' = [desk EXCEPT !["daemon"] = Idle]
    /\ UNCHANGED <<sent, filled, stagings, cliRuns, turns>>

\* The broker fills an order, while somebody watches or later.
FillOrder(r) ==
    /\ filled[r] < sent["daemon"][r] + sent["cli"][r]
    /\ filled' = [filled EXCEPT ![r] = @ + 1]
    /\ desk' = Disturbed(desk, "broker")
    /\ UNCHANGED <<rows, sent, stagings, cliRuns, turns>>

-----------------------------------------------------------------------------
(* Unstaging.                                                              *)

Expired(S) ==
    rows' = [r \in Rows |-> IF r \in S THEN Transition(rows[r], rows[r].state, "EXPIRED")
                            ELSE rows[r]]

Unexecuted(S) == {r \in InState(S) : ~rows[r].executed}

StaleRows == Unexecuted(PreExecution)

\* _auto_unstage_eod at the close, on the first event of a day and, followed by
\* _recover_stuck_executing, when the daemon starts.
AutoUnstage ==
    /\ desk["daemon"].pc = "idle"
    /\ StaleRows # {}
    /\ Expired(StaleRows)
    /\ UNCHANGED <<desk, sent, filled, stagings, cliRuns, turns>>

\* One row from the dashboard, executed or not.
Unstage(r) ==
    /\ rows[r].state \in PreExecution
    /\ Expired({r})
    /\ UNCHANGED <<desk, sent, filled, stagings, cliRuns, turns>>

UnstageAll ==
    /\ StaleRows # {}
    /\ Expired(StaleRows)
    /\ UNCHANGED <<desk, sent, filled, stagings, cliRuns, turns>>

UnstageFromCli ==
    /\ Unexecuted(CliPreExecution) # {}
    /\ Expired(Unexecuted(CliPreExecution))
    /\ UNCHANGED <<desk, sent, filled, stagings, cliRuns, turns>>

\* The daemon dies wherever it is.
CrashDaemon ==
    /\ turns < MaxTurns
    /\ desk["daemon"].pc # "idle"
    /\ turns' = turns + 1
    /\ desk' = [desk EXCEPT !["daemon"] = Idle]
    /\ UNCHANGED <<rows, sent, filled, stagings, cliRuns>>

StagedDaemonStep ==
    \/ PipelineFails("daemon") \/ StageSelected("daemon")
    \/ (\E r \in Rows : Claim(r)) \/ Claimed
    \/ Abort("daemon") \/ SaveFilled("daemon")

StagedNext ==
    \/ \E p \in Pipelines : RunScan(p) \/ Select(p) \/ PipelineFails(p) \/ StageSelected(p)
    \/ \E e \in Executors : Load(e) \/ Submit(e) \/ Abort(e) \/ SaveFilled(e)
    \/ \E r \in Rows : Claim(r) \/ FillOrder(r) \/ Unstage(r)
    \/ Claimed \/ SchedulerFails \/ StageByHand \/ AutoUnstage \/ UnstageAll
    \/ UnstageFromCli \/ CrashDaemon

StagedSpec == StagedInit /\ [][StagedNext]_stagedVars

-----------------------------------------------------------------------------
(* Properties.                                                             *)

\* The daemon sends at most one order for a row each time the row is staged, with
\* a crash at any point, users who unstage between its steps and a second
\* executor on the same rows (action_executor.py:_handle_execute).
OneSubmissionPerStaging == \A r \in Rows : sent["daemon"][r] <= stagings[r]

\* A pipeline that nobody disturbed between its look at the budget and its
\* staging leaves staged and current margin within the ceiling, unless it stages
\* nothing (auto_select_pipeline.py:run_auto_select_pipeline).
AloneWithinBudget ==
    [][\A p \in Pipelines :
          desk[p].pc = "chosen" /\ desk[p].alone /\ desk[p].held # {}
          /\ stagings' # stagings /\ desk'[p].pc = "idle" =>
              StagedMargin' + desk[p].current <= Ceiling]_stagedVars

=============================================================================
