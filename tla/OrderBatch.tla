----------------------------- MODULE OrderBatch -----------------------------
(***************************************************************************)
(* One EXECUTE_TRADES of the daemon: claiming the staged opportunities,    *)
(* submitting a sell order for each, watching, cancelling and replacing    *)
(* orders, and saving trades (agentic/action_executor.py,                  *)
(* services/two_tier_execution_scheduler.py,                               *)
(* services/rapid_fire_executor.py, execution/opportunity_lifecycle.py).   *)
(*                                                                         *)
(* The handler is one coroutine; order events are delivered whenever it    *)
(* awaits and are kept only for an order id that is registered at that     *)
(* moment.  Three records of a trade have to agree with the broker: the    *)
(* executor's pending_orders, the trades table and the state of the        *)
(* opportunity, which the dashboard and the end of the day change as well. *)
(***************************************************************************)
EXTENDS Naturals, FiniteSets

CONSTANTS
    Opps,         \* opportunities
    MayRestage,   \* whether an opportunity is staged again later
    MaxOrders,    \* bound on the orders sent to the broker
    MaxTroubles   \* bound on deaths of the daemon, failed commits, failed quotes and unstagings

ASSUME BoundsAssumption ==
    /\ Opps # {}
    /\ MaxOrders \in Nat /\ MaxTroubles \in Nat /\ MayRestage \in BOOLEAN

Orders == 1..MaxOrders
NoOrder == 0
OrderOrNone == 0..MaxOrders

States == {"APPROVED", "STAGED", "EXECUTING", "EXECUTED", "FAILED", "EXPIRED"}

Stages == {"down", "idle", "claiming", "validating", "submitting", "sent",
           "watching", "saving", "recording", "waiting", "tier2",
           "cancelled", "replaced", "final"}

VARIABLES
    state,     \* opportunity -> ScanOpportunity.state
    broker,    \* order -> its state at the broker
    ordFor,    \* order -> the opportunity it is for
    news,      \* orders with a report the executor has not received yet
    withdrawn, \* working orders the executor asked to cancel
    stage,     \* where the handler is
    batch,     \* the opportunities it claimed
    todo,      \* those still to be submitted, or to be visited in a round
    cur,       \* {} or {t}: the opportunity whose order is being placed
    newest,    \* the order just placed and not registered yet
    tier,      \* who replaces orders: the monitor (1) or Tier 2 (2)
    swapped,   \* Tier 2 has changed the dict it iterates over
    tracked,   \* pending_orders: opportunity -> order id
    last,      \* PendingOrder.last_status
    first,     \* report.submitted: opportunity -> order id
    filled,    \* report.filled: opportunity -> order id
    savedIds,  \* _saved_order_ids
    row,       \* trades: opportunity -> order id of its row
    recorded,  \* rows updated with a fill
    troubles,  \* deaths, failed commits, failed quotes and unstagings so far
    unsaved    \* history: opportunities whose row a crash, a failed commit or an
               \* exception of the watch lost

brokerVars == <<broker, ordFor, news, withdrawn>>
roundVars == <<batch, todo, cur, newest, tier, swapped>>
execVars == <<tracked, last, first, filled, savedIds>>
rowVars == <<row, recorded>>
countVars == <<troubles, unsaved>>
vars == <<state, broker, ordFor, news, withdrawn, stage, batch, todo, cur,
          newest, tier, swapped, tracked, last, first, filled, savedIds, row,
          recorded, troubles, unsaved>>

None == [t \in Opps |-> NoOrder]

TypeOK ==
    /\ state \in [Opps -> States]
    /\ broker \in [Orders -> {"none", "working", "filled", "dead"}]
    /\ ordFor \in [Orders -> Opps]
    /\ news \subseteq Orders
    /\ withdrawn \subseteq Orders
    /\ stage \in Stages
    /\ batch \subseteq Opps
    /\ todo \subseteq batch
    /\ cur \in SUBSET batch
    /\ newest \in OrderOrNone
    /\ tier \in {1, 2}
    /\ swapped \in BOOLEAN
    /\ tracked \in [Opps -> OrderOrNone]
    /\ last \in [Opps -> {"Submitted", "Filled", "Cancelled"}]
    /\ first \in [Opps -> OrderOrNone]
    /\ filled \in [Opps -> OrderOrNone]
    /\ savedIds \subseteq Orders
    /\ row \in [Opps -> OrderOrNone]
    /\ recorded \subseteq Opps
    /\ troubles \in Nat
    /\ unsaved \subseteq Opps
    \* what pending_orders names is an order for that opportunity
    /\ \A t \in Opps : tracked[t] # NoOrder =>
           ordFor[tracked[t]] = t /\ broker[tracked[t]] # "none"
    \* and an execution that is over leaves nothing there
    /\ stage \in {"idle", "down"} => tracked = None /\ batch = {}

Init ==
    /\ state = [t \in Opps |-> "APPROVED"]
    /\ broker = [o \in Orders |-> "none"]
    /\ ordFor = [o \in Orders |-> CHOOSE t \in Opps : TRUE]
    /\ news = {}
    /\ withdrawn = {}
    /\ stage = "idle"
    /\ batch = {}
    /\ todo = {}
    /\ cur = {}
    /\ newest = NoOrder
    /\ tier = 1
    /\ swapped = FALSE
    /\ tracked = None
    /\ last = [t \in Opps |-> "Submitted"]
    /\ first = None
    /\ filled = None
    /\ savedIds = {}
    /\ row = None
    /\ recorded = {}
    /\ troubles = 0
    /\ unsaved = {}

-----------------------------------------------------------------------------
(* The broker and the client library (external).                           *)

\* A report about an order the executor neither tracks nor is placing reaches
\* nobody.
Report(o) ==
    news' = IF o = newest \/ \E t \in Opps : tracked[t] = o
            THEN news \cup {o} ELSE news

BrokerFill(o) ==
    /\ broker[o] = "working"
    /\ broker' = [broker EXCEPT ![o] = "filled"]
    /\ withdrawn' = withdrawn \ {o}
    /\ Report(o)
    /\ UNCHANGED <<state, ordFor, stage, roundVars, execVars,
                   rowVars, countVars>>

\* Cancelled on request, rejected, or expired with the trading day.
BrokerDrop(o) ==
    /\ broker[o] = "working"
    /\ broker' = [broker EXCEPT ![o] = "dead"]
    /\ withdrawn' = withdrawn \ {o}
    /\ Report(o)
    /\ UNCHANGED <<state, ordFor, stage, roundVars, execVars,
                   rowVars, countVars>>

\* The handler is between two awaits of its own and the events of the broker
\* connection run.
Awaiting == stage \in {"sent", "watching", "waiting", "tier2",
                       "cancelled", "replaced", "final"}

StatusName == [s \in {"working", "filled", "dead"} |->
    IF s = "working" THEN "Submitted" ELSE IF s = "filled" THEN "Filled" ELSE "Cancelled"]

\* _on_order_status: kept for the id that is registered, dropped otherwise.
Deliver(o) ==
    /\ Awaiting
    /\ o \in news
    /\ news' = news \ {o}
    /\ last' = [t \in Opps |->
            IF tracked[t] = o THEN StatusName[broker[o]] ELSE last[t]]
    /\ UNCHANGED <<state, broker, ordFor, withdrawn, stage, roundVars, tracked,
                   first, filled, savedIds, rowVars, countVars>>

-----------------------------------------------------------------------------
(* Other processes and the daemon's housekeeping.                          *)

Stageable == IF MayRestage THEN States ELSE {"APPROVED"}

\* The scanner page or the auto-select pipeline writes the state directly,
\* whatever it was.
StageOpp(t) ==
    /\ state[t] \in Stageable
    /\ state' = [state EXCEPT ![t] = "STAGED"]
    /\ UNCHANGED <<brokerVars, stage, roundVars, execVars, rowVars, countVars>>

Unstageable == {"STAGED", "EXECUTING"}

\* Bug: only what has not been claimed is swept.
ExpireStaged(s) == [t \in Opps |-> IF s[t] = "STAGED" THEN "EXPIRED" ELSE s[t]]

Expire(s) == [t \in Opps |-> IF s[t] \in Unstageable THEN "EXPIRED" ELSE s[t]]

\* POST /api/unstage, whatever orders the opportunity has.
Unstage(t) ==
    /\ state[t] \in Unstageable
    /\ troubles < MaxTroubles
    /\ troubles' = troubles + 1
    /\ state' = [state EXCEPT ![t] = "EXPIRED"]
    /\ UNCHANGED <<brokerVars, stage, roundVars, execVars, rowVars, unsaved>>

\* _auto_unstage_eod, in the MARKET_CLOSE hook.
EndOfDay ==
    /\ stage = "idle"
    /\ state' = Expire(state)
    /\ UNCHANGED <<brokerVars, stage, roundVars, execVars, rowVars, countVars>>

-----------------------------------------------------------------------------
(* _handle_execute: claim.                                                 *)

Staged == {t \in Opps : state[t] = "STAGED"}

\* The staged rows are read into the daemon's session ...
Load ==
    /\ stage = "idle"
    /\ Staged # {}
    /\ batch' = Staged
    /\ stage' = "claiming"
    /\ UNCHANGED <<state, brokerVars, todo, cur, newest, tier, swapped, execVars,
                   rowVars, countVars>>

\* ... and claimed one after the other.  The transition is checked against the
\* state as it was loaded: the session does not read a row twice.
Claim ==
    /\ stage = "claiming"
    /\ state' = [t \in Opps |-> IF t \in batch THEN "EXECUTING" ELSE state[t]]
    /\ stage' = "validating"
    /\ UNCHANGED <<brokerVars, roundVars, execVars, rowVars, countVars>>

\* The handler returns; what it left EXECUTING stays so.
HandlerEnds ==
    /\ stage' = "idle"
    /\ batch' = {}
    /\ todo' = {}
    /\ cur' = {}
    /\ newest' = NoOrder
    /\ tier' = 1
    /\ swapped' = FALSE
    /\ tracked' = None
    /\ last' = [t \in Opps |-> "Submitted"]
    /\ first' = None
    /\ filled' = None
    /\ savedIds' = {}
    /\ news' = {}

\* The scheduler raised: everything claimed is marked FAILED, again checked
\* against the daemon's own copy of the rows.
SchedulerRaises ==
    /\ state' = [t \in Opps |-> IF t \in batch THEN "FAILED" ELSE state[t]]
    /\ HandlerEnds

\* Stage 1, Stage 2 and the pre-flight checks leave some of the batch (what
\* they drop is dropped by Refuse), none of it, or raise.
Validate ==
    /\ stage = "validating"
    /\ todo' = batch
    /\ stage' = "submitting"
    /\ UNCHANGED <<state, brokerVars, batch, cur, newest, tier, swapped, execVars,
                   rowVars, countVars>>

NothingReady ==
    /\ stage = "validating"
    /\ HandlerEnds
    /\ UNCHANGED <<state, broker, ordFor, withdrawn, rowVars, countVars>>

ValidationRaises ==
    /\ stage = "validating"
    /\ SchedulerRaises
    /\ UNCHANGED <<broker, ordFor, withdrawn, rowVars, countVars>>

-----------------------------------------------------------------------------
(* RapidFireExecutor.execute_all: submit.                                  *)

Fresh == {o \in Orders : broker[o] = "none"}

Place(t) ==
    \E o \in Fresh :
        /\ \A older \in Fresh : o <= older
        /\ broker' = [broker EXCEPT ![o] = "working"]
        /\ ordFor' = [ordFor EXCEPT ![o] = t]
        /\ newest' = o
        /\ cur' = {t}

\* The order goes out and place_order sleeps for 0.3 s.
Submit(t) ==
    /\ stage = "submitting"
    /\ t \in todo
    /\ Place(t)
    /\ todo' = todo \ {t}
    /\ stage' = "sent"
    /\ UNCHANGED <<state, news, withdrawn, batch, tier, swapped, execVars, rowVars,
                   countVars>>

\* Not tradeable, spread too wide, or the order could not be placed.
Refuse(t) ==
    /\ stage = "submitting"
    /\ t \in todo
    /\ todo' = todo \ {t}
    /\ UNCHANGED <<state, brokerVars, stage, batch, cur, newest, tier, swapped,
                   execVars, rowVars, countVars>>

\* Only now is the id in pending_orders.
Register ==
    /\ stage = "sent"
    /\ tracked' = [t \in Opps |-> IF t \in cur THEN newest ELSE tracked[t]]
    /\ first' = [t \in Opps |-> IF t \in cur THEN newest ELSE first[t]]
    /\ cur' = {}
    /\ newest' = NoOrder
    /\ stage' = "submitting"
    /\ UNCHANGED <<state, brokerVars, batch, todo, tier, swapped, last, filled,
                   savedIds, rowVars, countVars>>

AllSubmitted ==
    /\ stage = "submitting"
    /\ todo = {}
    /\ stage' = "watching"
    /\ UNCHANGED <<state, brokerVars, roundVars, execVars, rowVars, countVars>>

-----------------------------------------------------------------------------
(* _monitor_and_adjust.                                                    *)

Pending == {t \in Opps : tracked[t] # NoOrder}
Over == {t \in Pending : last[t] \in {"Filled", "Cancelled"}}

Forget(S) ==
    /\ tracked' = [t \in Opps |-> IF t \in S THEN NoOrder ELSE tracked[t]]
    /\ news' = news \ {tracked[t] : t \in S}

RoundBegins == stage = "watching" /\ todo = {} /\ Pending # {}

\* Bug: whatever is over counts as filled.
ScanAllAsFilled ==
    /\ RoundBegins
    /\ filled' = [t \in Opps |-> IF t \in Over THEN tracked[t] ELSE filled[t]]
    /\ Forget(Over)
    /\ todo' \in SUBSET (Pending \ Over)
    /\ UNCHANGED <<state, broker, ordFor, withdrawn, stage, batch, cur, newest, tier,
                   swapped, last, first, savedIds, rowVars, countVars>>

\* Every two seconds: fills and cancellations leave pending_orders, and the
\* orders too far above the market are taken up.
Scan ==
    /\ RoundBegins
    /\ filled' = [t \in Opps |->
            IF t \in Over /\ last[t] = "Filled" THEN tracked[t] ELSE filled[t]]
    /\ Forget(Over)
    /\ todo' \in SUBSET (Pending \ Over)
    /\ UNCHANGED <<state, broker, ordFor, withdrawn, stage, batch, cur, newest, tier,
                   swapped, last, first, savedIds, rowVars, countVars>>

Adjustable(t) ==
    \/ stage = "watching" /\ last[t] # "Filled"
    \/ stage = "tier2" /\ last[t] = "Submitted"

\* An order that was to be adjusted is over when its turn comes.
Leave(t) ==
    /\ stage \in {"watching", "tier2"}
    /\ t \in todo
    /\ ~Adjustable(t)
    /\ todo' = todo \ {t}
    /\ UNCHANGED <<state, brokerVars, stage, batch, cur, newest, tier, swapped,
                   execVars, rowVars, countVars>>

\* Bug: the old order is not cancelled before the new one is placed.
NoWithdraw(t) ==
    /\ Adjustable(t)
    /\ t \in todo
    /\ todo' = todo \ {t}
    /\ tier' = IF stage = "tier2" THEN 2 ELSE 1
    /\ cur' = {t}
    /\ stage' = "cancelled"
    /\ UNCHANGED <<state, brokerVars, batch, newest, swapped, execVars, rowVars,
                   countVars>>

\* _modify_order_price: the cancellation is requested and not waited for.
Withdraw(t) ==
    /\ Adjustable(t)
    /\ t \in todo
    /\ todo' = todo \ {t}
    /\ tier' = IF stage = "tier2" THEN 2 ELSE 1
    /\ withdrawn' = IF broker[tracked[t]] = "working"
                    THEN withdrawn \cup {tracked[t]} ELSE withdrawn
    /\ cur' = {t}
    /\ stage' = "cancelled"
    /\ UNCHANGED <<state, broker, ordFor, news, batch, newest, swapped, execVars,
                   rowVars, countVars>>

\* ... 0.2 s later a new order goes out.
Replace(t) ==
    /\ stage = "cancelled"
    /\ t \in cur
    /\ Place(t)
    /\ news' = news \cup {newest'}
    /\ stage' = "replaced"
    /\ UNCHANGED <<state, withdrawn, batch, todo, tier, swapped, execVars,
                   rowVars, countVars>>

BackToRound ==
    /\ stage' = IF tier = 2 THEN "tier2" ELSE "watching"
    /\ cur' = {}
    /\ newest' = NoOrder

\* The new order is refused: the old id stays in pending_orders.
NotReplaced ==
    /\ stage = "cancelled"
    /\ BackToRound
    /\ UNCHANGED <<state, brokerVars, batch, todo, tier, swapped, execVars, rowVars,
                   countVars>>

\* The new id takes the entry over, with the status the old one left in it.
ReRegister ==
    /\ stage = "replaced"
    /\ news' = news \ {tracked[t] : t \in cur}
    /\ tracked' = [t \in Opps |-> IF t \in cur THEN newest ELSE tracked[t]]
    /\ swapped' = (swapped \/ tier = 2)
    /\ BackToRound
    /\ UNCHANGED <<state, broker, ordFor, withdrawn, batch, todo, tier, last, first,
                   filled, savedIds, rowVars, countVars>>

\* The quote for an order that may be adjusted raises - the connection is lost, or the
\* bid is above the ask: nothing up to the handler catches it, so a watch it breaks off
\* never comes to its first save.
QuoteRaises ==
    /\ \E t \in Pending : Adjustable(t)
    /\ troubles < MaxTroubles
    /\ troubles' = troubles + 1
    /\ unsaved' = unsaved \cup {t \in batch : row[t] = NoOrder}
    /\ SchedulerRaises
    /\ UNCHANGED <<broker, ordFor, withdrawn, rowVars>>

\* Nothing is pending or the two minutes are over, after a round: what was
\* filled or cancelled during that round is dropped without a report.
EndWatch ==
    /\ stage = "watching"
    /\ todo = {}
    /\ Forget(Over)
    /\ stage' = "saving"
    /\ UNCHANGED <<state, broker, ordFor, withdrawn, roundVars, last, first, filled, savedIds,
                   rowVars, countVars>>

-----------------------------------------------------------------------------
(* The trades table.                                                       *)

Submitted == {t \in Opps : first[t] # NoOrder}

\* Bug: only the orders still pending get a row.
SaveOnlyPending ==
    /\ stage = "saving"
    /\ savedIds' = savedIds \cup {first[t] : t \in Submitted}
    /\ row' = [t \in Opps |-> IF t \in Pending THEN first[t] ELSE row[t]]
    /\ stage' = "recording"
    /\ UNCHANGED <<state, brokerVars, roundVars, tracked, last, first, filled,
                   recorded, countVars>>

\* _save_pending_trades_to_db: one commit for all; the ids count as saved even
\* when it fails.
SavePending ==
    /\ stage = "saving"
    /\ savedIds' = savedIds \cup {first[t] : t \in Submitted}
    /\ \/ /\ row' = [t \in Opps |-> IF t \in Submitted THEN first[t] ELSE row[t]]
          /\ UNCHANGED <<troubles, unsaved>>
       \/ /\ troubles < MaxTroubles
          /\ troubles' = troubles + 1
          /\ unsaved' = unsaved \cup Submitted
          /\ UNCHANGED row
    /\ stage' = "recording"
    /\ UNCHANGED <<state, brokerVars, roundVars, tracked, last, first, filled,
                   recorded>>

\* _save_filled_trades_to_db, for the ids `ids`: a row with that order id is
\* updated, an opportunity without a row gets one, and a second row for the
\* same trade_id is refused together with the rest of the list.
Record(ids) ==
    LET listed == {t \in Opps : ids[t] # NoOrder}
        twice == {t \in listed : row[t] \notin {NoOrder, ids[t]}}
    IN  \E ok \in SUBSET (listed \ twice) :
            /\ twice = {} => ok = listed
            /\ row' = [t \in Opps |-> IF t \in ok THEN ids[t] ELSE row[t]]
            /\ recorded' = recorded \cup ok
            /\ state' = [t \in Opps |->
                    IF t \in ok /\ state[t] = "EXECUTING" THEN "EXECUTED" ELSE state[t]]

\* ... after Tier 1, for report.filled.
RecordTier1 ==
    /\ stage = "recording"
    /\ Record(filled)
    /\ savedIds' = savedIds \cup ({filled[t] : t \in Opps} \ {NoOrder})
    /\ stage' = "waiting"
    /\ UNCHANGED <<brokerVars, roundVars, tracked, last, first, filled, countVars>>

\* _get_newly_filled_trades: filled, and under an id not counted as saved.
NewlyFilled ==
    [t \in Opps |->
        IF t \in Pending /\ last[t] = "Filled" /\ tracked[t] \notin savedIds
        THEN tracked[t] ELSE NoOrder]

NoteNewlyFilled ==
    savedIds' = savedIds \cup ({NewlyFilled[t] : t \in Opps} \ {NoOrder})

-----------------------------------------------------------------------------
(* After five minutes: Tier 2 and the end.                                 *)

Working == {t \in Pending : last[t] = "Submitted"}

\* Conditions are favourable inside the window; the orders whose limit would
\* hardly change are left alone.
StartTier2 ==
    /\ stage = "waiting"
    /\ Working # {}
    /\ todo' \in SUBSET Pending
    /\ stage' = "tier2"
    /\ UNCHANGED <<state, brokerVars, batch, cur, newest, tier, swapped, execVars,
                   rowVars, countVars>>

\* Nothing works any more, or the window closes first.
SkipTier2 ==
    /\ stage = "waiting"
    /\ stage' = "final"
    /\ UNCHANGED <<state, brokerVars, roundVars, execVars, rowVars, countVars>>

EndTier2 ==
    /\ stage = "tier2"
    /\ todo = {}
    /\ ~swapped
    /\ Record(NewlyFilled)
    /\ NoteNewlyFilled
    /\ stage' = "final"
    /\ UNCHANGED <<brokerVars, roundVars, tracked, last, first, filled, countVars>>

\* A replacement has changed the keys of the dict that is being iterated: the
\* iteration raises when it comes to the new entry.
Tier2Raises ==
    /\ stage = "tier2"
    /\ todo = {}
    /\ swapped
    /\ SchedulerRaises
    /\ UNCHANGED <<broker, ordFor, withdrawn, rowVars, countVars>>

\* The final save, and cleanup.
Finish ==
    /\ stage = "final"
    /\ Record(NewlyFilled)
    /\ HandlerEnds
    /\ UNCHANGED <<broker, ordFor, withdrawn, countVars>>

-----------------------------------------------------------------------------
(* The daemon dies and a new one starts.                                   *)

Crash ==
    /\ stage # "down"
    /\ troubles < MaxTroubles
    /\ troubles' = troubles + 1
    /\ unsaved' = unsaved \cup {t \in batch : row[t] = NoOrder}
    /\ stage' = "down"
    /\ batch' = {}
    /\ todo' = {}
    /\ cur' = {}
    /\ newest' = NoOrder
    /\ tier' = 1
    /\ swapped' = FALSE
    /\ tracked' = None
    /\ last' = [t \in Opps |-> "Submitted"]
    /\ first' = None
    /\ filled' = None
    /\ savedIds' = {}
    /\ news' = {}
    /\ UNCHANGED <<state, broker, ordFor, withdrawn, rowVars>>

\* _recover_stuck_executing, after hours preceded by _auto_unstage_eod.
Restart ==
    /\ stage = "down"
    /\ stage' = "idle"
    /\ \/ state' = [t \in Opps |->
                IF state[t] = "EXECUTING" THEN "EXPIRED" ELSE state[t]]
       \/ state' = Expire(state)
    /\ UNCHANGED <<brokerVars, roundVars, execVars, rowVars, countVars>>

-----------------------------------------------------------------------------

BrokerStep == \E o \in Orders : BrokerFill(o) \/ BrokerDrop(o)

Visit(t) == Submit(t) \/ Refuse(t) \/ Leave(t) \/ Withdraw(t) \/ Replace(t)

HandlerStep ==
    \/ Load \/ Claim \/ Validate \/ NothingReady \/ ValidationRaises
    \/ \E t \in Opps : Visit(t)
    \/ Register \/ AllSubmitted
    \/ Scan \/ QuoteRaises \/ NotReplaced \/ ReRegister \/ EndWatch
    \/ SavePending \/ RecordTier1
    \/ StartTier2 \/ SkipTier2 \/ EndTier2 \/ Tier2Raises \/ Finish

Next ==
    \/ BrokerStep
    \/ \E o \in Orders : Deliver(o)
    \/ \E t \in Opps : StageOpp(t) \/ Unstage(t)
    \/ EndOfDay
    \/ HandlerStep
    \/ Crash
    \/ Restart

Spec == Init /\ [][Next]_vars

\* The daemon goes on: every await of the handler has a timeout, between two
\* executions a day ends, and a daemon that went down is started.  The rounds of
\* the monitor are bounded by its two minutes, which run out again and again.
FairSpec ==
    /\ Spec
    /\ WF_vars(HandlerStep \/ EndOfDay \/ Restart)
    /\ SF_vars(EndWatch)

-----------------------------------------------------------------------------
(* Properties.                                                             *)

\* What the books call executed was sold: a row is updated with a fill, and an
\* opportunity becomes EXECUTED, only when an order of that opportunity filled,
\* through replacements, dropped events and statuses left over from the order
\* before.
FilledIsTruth ==
    \A t \in Opps : t \in recorded \/ state[t] = "EXECUTED" =>
        \E o \in Orders : ordFor[o] = t /\ broker[o] = "filled"

\* An opportunity that is staged once never has two orders working that nobody
\* asked to cancel: not through replacements, unstaging, failed schedulers,
\* crashes or another EXECUTE_TRADES.
OneLiveOrder ==
    \A o, q \in Orders :
        /\ broker[o] = "working" /\ broker[q] = "working"
        /\ ordFor[o] = ordFor[q]
        /\ {o, q} \cap withdrawn = {}
        => o = q

\* Once a batch is through its first two minutes, every opportunity it sent an
\* order for has a row, unless the daemon died before that, the one commit that
\* writes them failed, or an exception broke the watch off before it: then the
\* orders work on without a row (rapid_fire_executor.py:_adjust_if_outside_spread).
OrdersAreOnRecord ==
    \A o \in Orders :
        broker[o] # "none" =>
            \/ row[ordFor[o]] # NoOrder
            \/ ordFor[o] \in unsaved
            \/ stage \in {"submitting", "sent", "watching", "cancelled",
                          "replaced", "saving"} /\ ordFor[o] \in batch

\* No opportunity stays in the hands of an execution for ever, whether it
\* filled, was refused, left working or lost in a crash.
ExecutingEnds == []<>(\A t \in Opps : state[t] # "EXECUTING")

\* "Final database save for any remaining fills": when a batch ends, a fill its
\* executor has seen is in the trades table.
LateFillIsRecorded ==
    [][stage = "final" /\ stage' = "idle" =>
        \A t \in Opps : t \in Pending /\ last[t] = "Filled" => t \in recorded']_vars

=============================================================================
