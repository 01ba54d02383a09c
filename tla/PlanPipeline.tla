---------------------------- MODULE PlanPipeline ----------------------------
(***************************************************************************)
(* TAADDaemon._process_event (agentic/daemon.py): what becomes of an event *)
(* between the claim of its row and its verdict.                           *)
(*                                                                         *)
(* The context is checked, Claude is asked for a plan in a thread of its   *)
(* own, and the actions of the plan are worked off one by one: output      *)
(* guardrails, suppression of recent duplicates, suppression of what       *)
(* already waits for a human, adversarial review, execution gate, autonomy *)
(* gate, handler, audit row, working memory.  A handler's effect, the      *)
(* commit of its audit row and the verdict on the event are separate       *)
(* steps; the process may die between them, and the event is then replayed *)
(* with a new plan.  The order in which events are taken is EventBus.tla,  *)
(* the life of a waiting row HumanApproval.tla, the autonomy gate          *)
(* AutonomyGate.tla.                                                       *)
(***************************************************************************)
EXTENDS Naturals, Sequences

CONSTANTS
    Events,       \* rows of daemon_events
    NoEvent,      \* no event in hand
    Steps,        \* what a plan may ask for: an action with its target
    ActionOf,     \* step -> its action
    Plans,        \* the answers Claude may give
    MaxCrashes    \* bound on crashes and on requested stops

Actions == {"MONITOR_ONLY", "STAGE_CANDIDATES", "EXECUTE_TRADES",
            "CLOSE_POSITION", "CLOSE_ALL_POSITIONS", "ADJUST_PARAMETERS",
            "RUN_EXPERIMENT", "REQUEST_HUMAN_REVIEW"}

ASSUME PlanAssumption ==
    /\ ActionOf \in [Steps -> Actions]
    /\ Plans \subseteq Seq(Steps)
    /\ NoEvent \notin Events
ASSUME BoundAssumption == MaxCrashes \in Nat

Closing == {"CLOSE_POSITION", "CLOSE_ALL_POSITIONS"}
Quiet == {"MONITOR_ONLY", "REQUEST_HUMAN_REVIEW"}

\* Actions suppressed when decided within the last 90 seconds, and actions
\* suppressed while a row of theirs waits for a human.
Deduped == {"EXECUTE_TRADES"} \cup Closing
Queued == {"EXECUTE_TRADES", "STAGE_CANDIDATES", "REQUEST_HUMAN_REVIEW"}

VARIABLES
    status,      \* event -> daemon_events.status
    stage,       \* where the daemon is in _process_event
    hand,        \* the event it works on, or NoEvent
    plan, pos,   \* Claude's plan and the next action of it
    outcome,     \* what the handler just returned
    stopping,    \* health.shutdown_requested
    recent,      \* Deduped actions in memory.recent_decisions, under 90 s old
    waiting,     \* Queued action -> audit rows nobody executed or decided
    crashes, stops,
    logged,      \* history: audit rows of the event in hand
    freshRuns,   \* history: action -> handler runs of the last 90 s
    decided      \* history: steps behind the entries of recent

memoryVars == <<recent, decided>>
rowVars == <<waiting, logged>>
counters == <<crashes, stops>>
vars == <<status, stage, hand, plan, pos, outcome, stopping, memoryVars,
          rowVars, counters, freshRuns>>

Init ==
    /\ status = [e \in Events |-> "pending"]
    /\ stage = "down"
    /\ hand = NoEvent
    /\ plan = << >>
    /\ pos = 1
    /\ outcome = "none"
    /\ stopping = FALSE
    /\ recent = {}
    /\ waiting = [a \in Queued |-> 0]
    /\ crashes = 0
    /\ stops = 0
    /\ logged = 0
    /\ freshRuns = [a \in Deduped |-> 0]
    /\ decided = {}

-----------------------------------------------------------------------------
(* Before the plan.                                                        *)

\* The event leaves the daemon's hands with verdict v.
Verdict(v) ==
    /\ status' = [status EXCEPT ![hand] = v]
    /\ stage' = "idle"
    /\ hand' = NoEvent
    /\ plan' = << >>
    /\ pos' = 1
    /\ UNCHANGED <<outcome, stopping, memoryVars, counters, freshRuns>>

\* Bug: nothing is reset at start-up.
RestartOnly ==
    /\ stage = "down"
    /\ stage' = "idle"
    /\ UNCHANGED <<status, hand, plan, pos, outcome, stopping, memoryVars,
                   rowVars, counters, freshRuns>>

\* reset_stale_processing_events at start-up; the memory is loaded.
Restart ==
    /\ stage = "down"
    /\ stage' = "idle"
    /\ status' = [e \in Events |->
                    IF status[e] = "processing" THEN "pending" ELSE status[e]]
    /\ UNCHANGED <<hand, plan, pos, outcome, stopping, memoryVars, rowVars,
                   counters, freshRuns>>

\* mark_processing.
Take(e) ==
    /\ stage = "idle"
    /\ ~stopping
    /\ status[e] = "pending"
    /\ status' = [status EXCEPT ![e] = "processing"]
    /\ stage' = "context"
    /\ hand' = e
    /\ logged' = 0
    /\ UNCHANGED <<plan, pos, outcome, stopping, memoryVars, waiting, counters,
                   freshRuns>>

\* A market event after hours, or stale data: completed without a row.
SkipEvent ==
    /\ stage = "context"
    /\ Verdict("completed")
    /\ UNCHANGED rowVars

\* A context guardrail blocks: one GUARDRAIL_BLOCKED row for the human.
BlockContext ==
    /\ stage = "context"
    /\ Verdict("completed")
    /\ logged' = logged + 1
    /\ UNCHANGED waiting

\* A stop seen before Claude is asked fails the event, one seen after the
\* answer completes it; either way nothing of it is executed.
StopEarly ==
    /\ stopping
    /\ \/ stage = "context" /\ Verdict("failed")
       \/ stage = "claude" /\ Verdict("completed")
    /\ UNCHANGED rowVars

AskClaude ==
    /\ stage = "context"
    /\ ~stopping
    /\ stage' = "claude"
    /\ UNCHANGED <<status, hand, plan, pos, outcome, stopping, memoryVars,
                   rowVars, counters, freshRuns>>

\* The plan arrives; a check without material changes is a plan of one
\* MONITOR_ONLY that nobody was asked for.
Answer(p) ==
    /\ stage = "claude"
    /\ ~stopping
    /\ stage' = "loop"
    /\ plan' = p
    /\ pos' = 1
    /\ UNCHANGED <<status, hand, outcome, stopping, memoryVars, rowVars,
                   counters, freshRuns>>

-----------------------------------------------------------------------------
(* One action of the plan.                                                 *)

InLoop == stage = "loop" /\ pos <= Len(plan)
Step == plan[pos]
Act == ActionOf[Step]

\* Bug: closes are not looked up in the recent decisions.
IsDuplicateOpening == Act \in Deduped \ Closing /\ Act \in recent

IsDuplicate == Act \in Deduped /\ Act \in recent

IsWaiting == Act \in Queued /\ waiting[Act] > 0
Free == ~IsDuplicate /\ ~IsWaiting

\* One audit row, waiting for a human when open; the entry under the name a
\* in the working memory; on to the next action.
Row(open) ==
    /\ logged' = logged + 1
    /\ waiting' = [a \in Queued |-> waiting[a] + IF open /\ a = Act THEN 1 ELSE 0]

Remember(a) ==
    /\ recent' = recent \cup ({a} \cap Deduped)
    /\ decided' = decided \cup (IF a \in Deduped THEN {Step} ELSE {})

Advance ==
    /\ pos' = pos + 1
    /\ stage' = "loop"
    /\ outcome' = "none"
    /\ UNCHANGED <<hand, plan, stopping, counters, freshRuns>>

\* The output guardrails block an action that adds risk, before either
\* suppression; _escalate_guardrail_block completes the event.
BlockOutput ==
    /\ InLoop
    /\ Act \notin Closing
    /\ Row(TRUE)
    /\ Remember(Act)
    /\ status' = [status EXCEPT ![hand] = "completed"]
    /\ Advance

\* Decided within the last 90 seconds, whatever its target: the row says
\* MONITOR_ONLY, the memory is left alone.
SuppressDuplicate ==
    /\ InLoop
    /\ IsDuplicate
    /\ Row(FALSE)
    /\ Advance
    /\ UNCHANGED <<status, memoryVars>>

\* Already waiting for a human (or executed without success).
SuppressWaiting ==
    /\ InLoop
    /\ ~IsDuplicate
    /\ IsWaiting
    /\ Row(FALSE)
    /\ Remember("MONITOR_ONLY")
    /\ Advance
    /\ UNCHANGED status

\* The adversarial review, the execution gate or the autonomy gate hands the
\* action to the human.
Escalate ==
    /\ InLoop
    /\ Free
    /\ Act \notin Quiet
    /\ Row(TRUE)
    /\ Remember(Act)
    /\ Advance
    /\ UNCHANGED status

\* MONITOR_ONLY does nothing, REQUEST_HUMAN_REVIEW waits for the human.
Note ==
    /\ InLoop
    /\ Free
    /\ Act \in Quiet
    /\ Row(Act = "REQUEST_HUMAN_REVIEW")
    /\ Remember(Act)
    /\ Advance
    /\ UNCHANGED status

\* The handler runs: fully, partly before an error, or not at all.
Handle(o) ==
    /\ InLoop
    /\ Free
    /\ Act \notin Quiet
    /\ outcome' = o
    /\ stage' = "acted"
    /\ freshRuns' = [a \in Deduped |->
            freshRuns[a] + IF o # "failed" /\ a = Act THEN 1 ELSE 0]
    /\ UNCHANGED <<status, hand, plan, pos, stopping, memoryVars, rowVars,
                   counters>>

\* ... and then its row and its memory entry are committed.  A row without
\* success counts as undecided.
LogHandled ==
    /\ stage = "acted"
    /\ Row(outcome # "ok")
    /\ Remember(Act)
    /\ Advance
    /\ UNCHANGED status

\* Every action was processed.
Finish ==
    /\ stage = "loop"
    /\ pos > Len(plan)
    /\ Verdict("completed")
    /\ UNCHANGED rowVars

\* An exception outside the handlers.
Fail ==
    /\ stage \in {"context", "claude", "loop"}
    /\ Verdict("failed")
    /\ UNCHANGED rowVars

-----------------------------------------------------------------------------
(* The world around.                                                       *)

\* The process dies; what it holds in memory is gone.
Crash ==
    /\ stage # "down"
    /\ crashes < MaxCrashes
    /\ crashes' = crashes + 1
    /\ stage' = "down"
    /\ hand' = NoEvent
    /\ plan' = << >>
    /\ pos' = 1
    /\ stopping' = FALSE
    /\ outcome' = "none"
    /\ UNCHANGED <<status, memoryVars, rowVars, stops, freshRuns>>

RequestStop ==
    /\ stage # "down"
    /\ ~stopping
    /\ stops < MaxCrashes
    /\ stops' = stops + 1
    /\ stopping' = TRUE
    /\ UNCHANGED <<status, stage, hand, plan, pos, outcome, memoryVars, rowVars,
                   crashes, freshRuns>>

Exit ==
    /\ stage = "idle"
    /\ stopping
    /\ stage' = "down"
    /\ stopping' = FALSE
    /\ UNCHANGED <<status, hand, plan, pos, outcome, memoryVars, rowVars,
                   counters, freshRuns>>

\* 90 seconds pass for the entries of action a.
Age(a) ==
    /\ a \in recent
    /\ recent' = recent \ {a}
    /\ decided' = {s \in decided : ActionOf[s] # a}
    /\ freshRuns' = [freshRuns EXCEPT ![a] = 0]
    /\ UNCHANGED <<status, stage, hand, plan, pos, outcome, stopping, rowVars,
                   counters>>

\* A human approves or rejects a waiting row.
Decide(a) ==
    /\ waiting[a] > 0
    /\ waiting' = [waiting EXCEPT ![a] = @ - 1]
    /\ UNCHANGED <<status, stage, hand, plan, pos, outcome, stopping,
                   memoryVars, logged, counters, freshRuns>>

-----------------------------------------------------------------------------
Pipeline ==
    \/ Restart
    \/ \E e \in Events : Take(e)
    \/ SkipEvent \/ BlockContext \/ StopEarly \/ AskClaude
    \/ \E p \in Plans : Answer(p)
    \/ BlockOutput \/ SuppressDuplicate \/ SuppressWaiting \/ Escalate \/ Note
    \/ \E o \in {"ok", "partial", "failed"} : Handle(o)
    \/ LogHandled \/ Finish \/ Fail \/ Exit

World ==
    \/ Crash
    \/ RequestStop
    \/ \E a \in Deduped : Age(a)
    \/ \E a \in Queued : Decide(a)

Next == Pipeline \/ World

Spec == Init /\ [][Next]_vars

\* The event loop keeps running and a daemon that went down is started
\* again; humans, clocks and signals owe nothing.
FairSpec == Spec /\ WF_vars(Pipeline)

-----------------------------------------------------------------------------
Stages == {"down", "idle", "context", "claude", "loop", "acted"}

\* Types; and an event is in hand exactly while it is being processed.
TypeOK ==
    /\ status \in [Events -> {"pending", "processing", "completed", "failed"}]
    /\ stage \in Stages
    /\ hand \in Events \cup {NoEvent}
    /\ hand = NoEvent <=> stage \in {"down", "idle"}
    /\ plan \in {<< >>} \cup Plans
    /\ pos \in 1..(Len(plan) + 1)
    /\ outcome \in {"none", "ok", "partial", "failed"}
    /\ stopping \in BOOLEAN
    /\ recent \subseteq Deduped
    /\ waiting \in [Queued -> Nat]
    /\ crashes \in Nat
    /\ stops \in Nat
    /\ logged \in Nat
    /\ freshRuns \in [Deduped -> Nat]
    /\ decided \subseteq Steps

\* Whichever of the exits of the loop body an action takes, it leaves exactly
\* one audit row; no continue skips it and none logs twice.
OneRowPerAction == stage \in {"loop", "acted"} => logged = pos - 1

\* Within 90 seconds the handlers of EXECUTE_TRADES, CLOSE_POSITION and
\* CLOSE_ALL_POSITIONS have an effect once, whatever plans, events, failures
\* and escalations come in between; only a crash between a handler and its
\* memory entry adds another.
RepeatsNeedACrash == \A a \in Deduped : freshRuns[a] <= 1 + crashes

\* Every event that is taken ends up completed or failed, through crashes and
\* stops.
EveryEventEnds ==
    \A e \in Events : <>[](status[e] \in {"completed", "failed"})

\* "Process each action independently": an action is only suppressed as a
\* duplicate when the same thing was decided, not another trade's close.
NothingDroppedUnseen == InLoop /\ IsDuplicate => Step \in decided
=============================================================================
