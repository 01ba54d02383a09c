---------------------------- MODULE HumanApproval ----------------------------
(***************************************************************************)
(* The life of a decision that waits for a human: rows of decision_audit   *)
(* written by the daemon, approved, rejected or flipped from the dashboard *)
(* and the command line (other processes), swept by the daemon's hooks,    *)
(* and executed by the daemon when it takes up the HUMAN_OVERRIDE event    *)
(* that an approval emits (agentic/daemon.py, agentic/dashboard_api.py,    *)
(* cli/commands/daemon_commands.py).                                       *)
(*                                                                         *)
(* Approving is three steps of the caller: the row is read and checked, it *)
(* is committed as approved, and a second commit emits the event; a        *)
(* rejection is the first two.  The                                        *)
(* daemon commits what the handler did before it completes the event.  A   *)
(* caller or the daemon may die between any two of these steps; the event  *)
(* of a dead daemon is replayed (EventBus.tla).                            *)
(***************************************************************************)
EXTENDS Naturals, FiniteSets

CONSTANTS
    Decisions,    \* rows of decision_audit that need a human
    SortsOf,      \* decision -> the kinds of row it can be
    Trades,       \* positions the CLOSE_POSITION decisions are about
    TargetOf,     \* decision -> the trade it is about
    TickerOf,     \* trade -> its ticker
    Flagged,      \* decisions whose row carries guardrail_flags
    Requests,     \* concurrent dashboard calls and CLI commands
    Channels,     \* the ways in: a subset of {"dashboard", "cli"}
    MaxOverrides, \* bound on HUMAN_OVERRIDE events
    MaxDeaths     \* bound on crashes of the daemon and deaths of callers

Sorts == {"close",      \* CLOSE_POSITION
          "trade",      \* any other action with a handler that acts
          "review",     \* REQUEST_HUMAN_REVIEW
          "context"}    \* a context guardrail block

ASSUME SortAssumption ==
    /\ Decisions # {}
    /\ SortsOf \in [Decisions -> SUBSET Sorts]
    /\ TargetOf \in [Decisions -> Trades]
    /\ Flagged \subseteq Decisions
    /\ Channels \subseteq {"dashboard", "cli"}
ASSUME BoundsAssumption ==
    MaxOverrides \in Nat /\ MaxDeaths \in Nat

Events == 1..MaxOverrides
NoEvent == 0
Nobody == "nobody"        \* human_decision IS NULL

HumanDecision == {Nobody, "approved", "rejected", "acknowledged",
                  "auto_dismissed", "auto_rejected"}

VARIABLES
    logged,     \* rows that exist
    sort,       \* row -> its kind: the action, and why it waits
    executed,   \* rows with executed = TRUE
    human,      \* row -> human_decision
    closed,     \* trades whose exit_date is set
    reqAt,      \* caller -> "idle", "checked", "committed", "rejecting"
    reqFor,     \* caller -> the decision it is about
    evFor,      \* HUMAN_OVERRIDE event -> payload's decision_id
    evStatus,   \* event -> "absent" or daemon_events.status
    stage,      \* where the daemon is in _process_human_approval
    hand,       \* the event it holds, or NoEvent
    answer,     \* what the handler returned
    runs,       \* decision -> successful runs of its handler
    reemits,    \* decision -> times its original event was emitted again
    attempted,  \* decisions whose handler has run, whatever it returned
    consented,  \* decisions a human has ever approved
    unsaved,    \* decision -> successful runs the row never recorded
    crashes, losses

rowVars == <<logged, sort, executed, human, closed>>
reqVars == <<reqAt, reqFor>>
evVars  == <<evFor, evStatus>>
runVars == <<stage, hand, answer>>
histVars == <<runs, reemits, attempted, consented, unsaved>>
countVars == <<crashes, losses>>
vars == <<logged, sort, executed, human, closed, reqAt, reqFor, evFor,
          evStatus, stage, hand, answer, runs, reemits, attempted, consented, unsaved,
          crashes, losses>>

Stages == {"down", "idle", "begun", "ran", "emitted", "saved"}

TypeOK ==
    /\ logged \subseteq Decisions
    /\ sort \in [Decisions -> Sorts]
    /\ executed \subseteq logged
    /\ human \in [Decisions -> HumanDecision]
    /\ closed \subseteq Trades
    /\ reqAt \in [Requests -> {"idle", "checked", "committed", "rejecting"}]
    /\ reqFor \in [Requests -> Decisions]
    /\ evFor \in [Events -> Decisions]
    /\ evStatus \in [Events -> {"absent", "pending", "processing",
                                "completed", "failed"}]
    /\ stage \in Stages
    /\ hand \in Events \cup {NoEvent}
    /\ hand = NoEvent <=> stage \in {"down", "idle"}
    /\ hand # NoEvent => evStatus[hand] = "processing"
    /\ answer \in {"none", "ok", "failed"}
    /\ runs \in [Decisions -> Nat]
    /\ reemits \in [Decisions -> Nat]
    /\ unsaved \in [Decisions -> Nat]
    /\ attempted \subseteq Decisions
    /\ consented \subseteq Decisions
    /\ crashes \in Nat
    /\ losses \in Nat

AnyDecision == CHOOSE d \in Decisions : TRUE

Init ==
    /\ logged = {}
    /\ sort = [d \in Decisions |-> "review"]
    /\ executed = {}
    /\ human = [d \in Decisions |-> Nobody]
    /\ closed = {}
    /\ reqAt = [r \in Requests |-> "idle"]
    /\ reqFor = [r \in Requests |-> AnyDecision]
    /\ evFor = [e \in Events |-> AnyDecision]
    /\ evStatus = [e \in Events |-> "absent"]
    /\ stage = "idle"
    /\ hand = NoEvent
    /\ answer = "none"
    /\ runs = [d \in Decisions |-> 0]
    /\ reemits = [d \in Decisions |-> 0]
    /\ unsaved = [d \in Decisions |-> 0]
    /\ attempted = {}
    /\ consented = {}
    /\ crashes = 0
    /\ losses = 0

Awaiting(d) == d \in logged /\ d \notin executed /\ human[d] = Nobody

-----------------------------------------------------------------------------
(* The daemon writes and sweeps rows between two events.                   *)

\* An escalated, blocked or failed decision: executed = FALSE, nobody decided.
Escalate(d) ==
    /\ stage = "idle"
    /\ d \notin logged
    /\ logged' = logged \cup {d}
    /\ \E kind \in SortsOf[d] : sort' = [sort EXCEPT ![d] = kind]
    /\ UNCHANGED <<executed, human, closed, reqVars, evVars, runVars,
                   histVars, countVars>>

\* The sweep looks for a trade id at the top of execution_result, where no
\* path puts one, and falls back to any closed trade whose ticker appears in
\* the reasoning.
LooksClosed(d) ==
    \E t \in closed : TickerOf[t] = TickerOf[TargetOf[d]]

Stale(d) == Awaiting(d) /\ sort[d] = "close" /\ LooksClosed(d)

\* _auto_dismiss_closed_position_decisions, before and after monitoring.
Sweep ==
    /\ stage = "idle"
    /\ \E d \in Decisions : Stale(d)
    /\ human' = [d \in Decisions |->
                    IF Stale(d) THEN "auto_dismissed" ELSE human[d]]
    /\ UNCHANGED <<logged, sort, executed, closed, reqVars, evVars, runVars,
                   histVars, countVars>>

\* _auto_reject_stale_guardrail_blocks at MARKET_CLOSE: the flagged rows of
\* prior days, here any of the flagged rows.
RejectStale ==
    /\ stage = "idle"
    /\ \E old \in (SUBSET {d \in Flagged : Awaiting(d)}) \ {{}} :
        human' = [d \in Decisions |->
                    IF d \in old THEN "auto_rejected" ELSE human[d]]
    /\ UNCHANGED <<logged, sort, executed, closed, reqVars, evVars, runVars,
                   histVars, countVars>>

\* A bracket fill, an expiry or a deterministic exit sets exit_date.
TradeCloses(t) ==
    /\ t \notin closed
    /\ closed' = closed \cup {t}
    /\ UNCHANGED <<logged, sort, executed, human, reqVars, evVars, runVars,
                   histVars, countVars>>

-----------------------------------------------------------------------------
(* Callers.                                                                *)

\* POST /api/approve reads the row ...
DashboardApproves(d) ==
    "dashboard" \in Channels /\ d \notin executed /\ human[d] = Nobody

\* ... `daemon approve` lets through what was dismissed or swept ...
CliApproves(d) ==
    "cli" \in Channels /\ d \notin executed
        /\ human[d] \notin {"approved", "rejected"}

\* ... and POST /api/override-rejection flips a rejected row.
DashboardFlips(d) ==
    "dashboard" \in Channels /\ d \notin executed /\ human[d] = "rejected"

\* Bound: every approval under way still has an event to emit.
EventsLeft ==
    Cardinality({e \in Events : evStatus[e] = "absent"})
        > Cardinality({r \in Requests : reqAt[r] \in {"checked", "committed"}})

ApproveCheck(r, d) ==
    /\ reqAt[r] = "idle"
    /\ EventsLeft
    /\ d \in logged
    /\ DashboardApproves(d) \/ CliApproves(d) \/ DashboardFlips(d)
    /\ reqAt' = [reqAt EXCEPT ![r] = "checked"]
    /\ reqFor' = [reqFor EXCEPT ![r] = d]
    /\ UNCHANGED <<rowVars, evVars, runVars, histVars, countVars>>

CommitApproval(r) ==
    /\ reqAt[r] = "checked"
    /\ human' = [human EXCEPT ![reqFor[r]] = "approved"]
    /\ consented' = consented \cup {reqFor[r]}
    /\ reqAt' = [reqAt EXCEPT ![r] = "committed"]
    /\ UNCHANGED <<logged, sort, executed, closed, reqFor, evVars, runVars, runs,
                   reemits, attempted, unsaved, countVars>>

EndCall(r) ==
    /\ reqAt' = [reqAt EXCEPT ![r] = "idle"]
    /\ reqFor' = [reqFor EXCEPT ![r] = AnyDecision]

\* A new HUMAN_OVERRIDE event for d.
NewEvent(d) ==
    \E e \in Events :
        /\ evStatus[e] = "absent"
        /\ \A f \in 1..(e - 1) : evStatus[f] # "absent"
        /\ evStatus' = [evStatus EXCEPT ![e] = "pending"]
        /\ evFor' = [evFor EXCEPT ![e] = d]

\* Bug: the event goes out before the row is committed.
EmitFirst(r) ==
    /\ reqAt[r] \in {"checked", "committed"}
    /\ NewEvent(reqFor[r])
    /\ EndCall(r)
    /\ UNCHANGED <<rowVars, runVars, histVars, countVars>>

EmitApproval(r) ==
    /\ reqAt[r] = "committed"
    /\ NewEvent(reqFor[r])
    /\ EndCall(r)
    /\ UNCHANGED <<rowVars, runVars, histVars, countVars>>

\* The dashboard or the command dies before it is through.
LoseRequest(r) ==
    /\ reqAt[r] # "idle"
    /\ crashes + losses < MaxDeaths
    /\ losses' = losses + 1
    /\ EndCall(r)
    /\ UNCHANGED <<rowVars, evVars, runVars, histVars, crashes>>

\* POST /api/reject has no guard; `daemon reject` wants an undecided row.
DashboardRejects(d) == "dashboard" \in Channels

CliRejects(d) == "cli" \in Channels /\ human[d] = Nobody

RejectCheck(r, d) ==
    /\ reqAt[r] = "idle"
    /\ d \in logged
    /\ human[d] # "rejected"
    /\ DashboardRejects(d) \/ CliRejects(d)
    /\ reqAt' = [reqAt EXCEPT ![r] = "rejecting"]
    /\ reqFor' = [reqFor EXCEPT ![r] = d]
    /\ UNCHANGED <<rowVars, evVars, runVars, histVars, countVars>>

CommitRejection(r) ==
    /\ reqAt[r] = "rejecting"
    /\ human' = [human EXCEPT ![reqFor[r]] = "rejected"]
    /\ EndCall(r)
    /\ UNCHANGED <<logged, sort, executed, closed, evVars, runVars,
                   histVars, countVars>>

-----------------------------------------------------------------------------
(* The daemon takes up a HUMAN_OVERRIDE event: _process_human_approval.    *)

Subject == evFor[hand]

Begin(e) ==
    /\ stage = "idle"
    /\ evStatus[e] = "pending"
    /\ evStatus' = [evStatus EXCEPT ![e] = "processing"]
    /\ hand' = e
    /\ stage' = "begun"
    /\ UNCHANGED <<rowVars, reqVars, evFor, answer, histVars, countVars>>

\* The row was executed by an earlier event.
AlreadyExecuted ==
    /\ stage = "begun"
    /\ Subject \in executed
    /\ stage' = "saved"
    /\ UNCHANGED <<rowVars, reqVars, evVars, hand, answer, histVars, countVars>>

\* REQUEST_HUMAN_REVIEW: noted, never executed again.
Acknowledge ==
    /\ stage = "begun"
    /\ Subject \notin executed
    /\ sort[Subject] = "review"
    /\ executed' = executed \cup {Subject}
    /\ human' = [human EXCEPT ![Subject] = "acknowledged"]
    /\ stage' = "saved"
    /\ UNCHANGED <<logged, sort, closed, reqVars, evVars, hand, answer, histVars,
                   countVars>>

\* A context block: the original event is emitted again with the override
\* flag, and the row marked approved in a second commit.
ReEmit ==
    /\ stage = "begun"
    /\ Subject \notin executed
    /\ sort[Subject] = "context"
    /\ reemits' = [reemits EXCEPT ![Subject] = @ + 1]
    /\ stage' = "emitted"
    /\ UNCHANGED <<rowVars, reqVars, evVars, hand, answer, runs, attempted,
                   consented, unsaved, countVars>>

MarkReEmitted ==
    /\ stage = "emitted"
    /\ human' = [human EXCEPT ![Subject] = "approved"]
    /\ stage' = "saved"
    /\ UNCHANGED <<logged, sort, executed, closed, reqVars, evVars, hand, answer,
                   histVars, countVars>>

\* The position closed while the approval waited.
DismissClosed ==
    /\ stage = "begun"
    /\ Subject \notin executed
    /\ sort[Subject] = "close"
    /\ TargetOf[Subject] \in closed
    /\ human' = [human EXCEPT ![Subject] = "auto_dismissed"]
    /\ stage' = "saved"
    /\ UNCHANGED <<logged, sort, executed, closed, reqVars, evVars, hand, answer,
                   histVars, countVars>>

Runnable(d) ==
    \/ sort[d] = "trade"
    \/ sort[d] = "close" /\ TargetOf[d] \notin closed

\* The handler itself: a success may close the trade at once or leave an
\* order working.
HandlerReturns ==
    /\ attempted' = attempted \cup {Subject}
    /\ stage' = "ran"
    /\ \/ /\ answer' = "ok"
          /\ runs' = [runs EXCEPT ![Subject] = @ + 1]
          /\ \/ closed' = closed
             \/ /\ sort[Subject] = "close"
                /\ closed' = closed \cup {TargetOf[Subject]}
       \/ /\ answer' = "failed"
          /\ UNCHANGED <<runs, closed>>
    /\ UNCHANGED <<logged, sort, executed, human, reqVars, evVars, hand, reemits,
                   consented, unsaved, countVars>>

\* Bug: the handler runs whether or not the row was executed before.
RunAgain ==
    /\ stage = "begun"
    /\ Runnable(Subject)
    /\ HandlerReturns

RunHandler ==
    /\ stage = "begun"
    /\ Subject \notin executed
    /\ Runnable(Subject)
    /\ HandlerReturns

\* audit.executed = result.success
SaveResult ==
    /\ stage = "ran"
    /\ executed' = IF answer = "ok" THEN executed \cup {Subject}
                   ELSE executed \ {Subject}
    /\ answer' = "none"
    /\ stage' = "saved"
    /\ UNCHANGED <<logged, sort, human, closed, reqVars, evVars, hand, histVars,
                   countVars>>

Complete ==
    /\ stage = "saved"
    /\ evStatus' = [evStatus EXCEPT ![hand] = "completed"]
    /\ hand' = NoEvent
    /\ stage' = "idle"
    /\ UNCHANGED <<rowVars, reqVars, evFor, answer, histVars, countVars>>

\* A success that is not committed yet is forgotten.
LoseResult ==
    unsaved' = IF answer = "ok" THEN [unsaved EXCEPT ![Subject] = @ + 1]
               ELSE unsaved

\* An exception anywhere after the claim: mark_failed.
Raise ==
    /\ stage \notin {"down", "idle"}
    /\ evStatus' = [evStatus EXCEPT ![hand] = "failed"]
    /\ hand' = NoEvent
    /\ stage' = "idle"
    /\ answer' = "none"
    /\ LoseResult
    /\ UNCHANGED <<rowVars, reqVars, evFor, runs, reemits, attempted, consented,
                   countVars>>

Crash ==
    /\ stage # "down"
    /\ crashes + losses < MaxDeaths
    /\ crashes' = crashes + 1
    /\ stage' = "down"
    /\ hand' = NoEvent
    /\ answer' = "none"
    /\ LoseResult
    /\ UNCHANGED <<rowVars, reqVars, evVars, runs, reemits, attempted, consented,
                   losses>>

\* Bug: a new daemon that leaves in-flight events alone.
RestartOnly ==
    /\ stage = "down"
    /\ stage' = "idle"
    /\ UNCHANGED <<rowVars, reqVars, evVars, hand, answer, histVars, countVars>>

\* A new daemon resets what was in flight.
Restart ==
    /\ stage = "down"
    /\ stage' = "idle"
    /\ evStatus' = [e \in Events |->
            IF evStatus[e] = "processing" THEN "pending" ELSE evStatus[e]]
    /\ UNCHANGED <<rowVars, reqVars, evFor, hand, answer, histVars, countVars>>

-----------------------------------------------------------------------------

CallerStep(r) ==
    \/ \E d \in Decisions : ApproveCheck(r, d)
    \/ CommitApproval(r)
    \/ EmitApproval(r)
    \/ LoseRequest(r)
    \/ \E d \in Decisions : RejectCheck(r, d)
    \/ CommitRejection(r)

ApprovalStep ==
    \/ \E e \in Events : Begin(e)
    \/ AlreadyExecuted \/ Acknowledge \/ ReEmit \/ MarkReEmitted
    \/ DismissClosed \/ RunHandler \/ SaveResult \/ Complete

Next ==
    \/ \E d \in Decisions : Escalate(d)
    \/ Sweep
    \/ RejectStale
    \/ \E t \in Trades : TradeCloses(t)
    \/ \E r \in Requests : CallerStep(r)
    \/ ApprovalStep
    \/ Raise
    \/ Crash
    \/ Restart

Spec == Init /\ [][Next]_vars

\* The daemon works through its queue and is restarted; a call that has
\* passed its check goes on unless its process dies.
Fairness ==
    /\ WF_vars(ApprovalStep)
    /\ WF_vars(Restart)
    /\ \A r \in Requests : WF_vars(CommitApproval(r)) /\ WF_vars(EmitApproval(r))

FairSpec == Spec /\ Fairness

-----------------------------------------------------------------------------
(* Properties.                                                             *)

\* A decision takes effect once, however often it is approved and whichever
\* calls race: it is run again only after a success that a crash or a failed
\* commit kept off the row.
OneRunPerApproval == \A d \in Decisions : runs[d] <= 1 + unsaved[d]

\* Nothing that waited for a human runs, or is re-emitted with the guardrail
\* override, before a human's approval is on record.
NothingWithoutConsent ==
    \A d \in Decisions : runs[d] + reemits[d] > 0 => d \in consented

\* What a human last said "no" to is not run afterwards.
NotRunWhenRejected ==
    [][\A d \in Decisions : runs'[d] > runs[d] => human[d] # "rejected"]_vars

\* An approval is acted on: the handler runs, the original event goes out
\* again, or the row is settled in another way.  No caller may have died
\* between its two commits: that approval is on the row and reaches nobody.
ApprovalTakesEffect ==
    \A d \in Decisions :
        human[d] = "approved" ~>
            \/ human[d] # "approved"
            \/ d \in executed \cup attempted
            \/ reemits[d] > 0
            \/ \E e \in Events : evStatus[e] = "failed" /\ evFor[e] = d
            \/ losses > 0

=============================================================================
