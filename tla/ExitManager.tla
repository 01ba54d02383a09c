----------------------------- MODULE ExitManager -----------------------------
(***************************************************************************)
(* Closing short option positions (execution/exit_manager.py, driven by    *)
(* _monitor_positions of agentic/daemon.py and by the CLOSE_POSITION       *)
(* handlers of agentic/action_executor.py).                                *)
(*                                                                         *)
(* Three views of one exit have to agree: the broker's orders and signed   *)
(* position, the client's copy of them (ib_insync, updated only while the  *)
(* event loop runs), and what the daemon keeps: an in-memory tracker that  *)
(* blocks a second order, and a marker in the trades table that hides the  *)
(* position from monitoring until the order is settled.  Every position    *)
(* starts short by one lot, and every exit order buys one lot.             *)
(*                                                                         *)
(* The wait for the first order is time.sleep on the thread of the event   *)
(* loop, so nothing reaches the client until it is over: the status read   *)
(* there is always the PendingSubmit of placeOrder, and the branches of    *)
(* execute_exit for other statuses are never taken.  Only the wait for the *)
(* retry (ib.sleep) lets messages in.                                      *)
(***************************************************************************)
EXTENDS Integers, FiniteSets

CONSTANTS
    Positions,    \* position keys with an open short and a trade row
    Keyed,        \* those whose trade_id is the position key itself
    MaxOrders,    \* bound on exit orders
    MaxBreaks     \* bound on deaths of the daemon and losses of the connection

ASSUME PositionsAssumption == Keyed \subseteq Positions /\ Positions # {}
ASSUME BoundsAssumption == MaxOrders \in Nat /\ MaxBreaks \in Nat

Orders == 1..MaxOrders
NoOrder == 0
OrderOrNone == 0..MaxOrders
Kinds == {"limit", "market"}
Callers == {"monitor", "handler"}

VARIABLES
    broker,    \* order -> its state at the broker
    ordPos,    \* order -> the position it closes
    ordKind,   \* order -> "limit" or "market"
    held,      \* position -> lots held at the broker (negative: short)
    asked,     \* orders whose cancellation was asked for
    lost,      \* orders at work that a dying daemon had not written down, or a new one
               \* could not look up
    missed,    \* orders whose fill a death or a new session keeps from the daemon
    view,      \* order -> orderStatus.status in the client
    heldView,  \* position -> lots in the client's position cache
    tracked,   \* _exit_orders_placed: position -> order
    marked,    \* trades.order_id with tws_status = "Submitted", or NoOrder
    exited,    \* positions whose trade has an exit_date
    todo,      \* exits decided in this monitoring pass: <<position, kind>>
    pc,        \* where the daemon is
    cur,       \* the order execute_exit works on
    caller,    \* who called execute_exit
    outcomes,  \* position -> outcomes counted by the governor
    breaks     \* deaths and lost connections so far

brokerVars == <<broker, ordPos, ordKind, held>>
viewVars == <<view, heldView>>
dbVars == <<marked, exited>>
lossVars == <<lost, missed>>
vars == <<broker, ordPos, ordKind, held, asked, lost, missed, view, heldView,
          tracked, marked, exited, todo, pc, cur, caller, outcomes, breaks>>

Working == {"sent", "live"}

TypeOK ==
    /\ broker \in [Orders -> {"none", "sent", "live", "filled", "dead"}]
    /\ ordPos \in [Orders -> Positions]
    /\ ordKind \in [Orders -> Kinds]
    /\ held \in [Positions -> Int]
    /\ asked \subseteq Orders
    /\ lost \subseteq Orders
    /\ missed \subseteq Orders
    /\ view \in [Orders -> {"unknown", "PendingSubmit", "Submitted",
                            "PendingCancel", "Filled", "Cancelled"}]
    /\ heldView \in [Positions -> Int]
    /\ tracked \in [Positions -> OrderOrNone]
    /\ marked \in [Positions -> OrderOrNone]
    /\ exited \subseteq Positions
    /\ todo \subseteq Positions \X Kinds
    /\ pc \in {"down", "idle", "monitoring", "placed", "waiting", "retrying"}
    /\ cur \in OrderOrNone
    /\ cur = NoOrder <=> pc \in {"down", "idle", "monitoring"}
    /\ caller \in Callers
    /\ outcomes \in [Positions -> Nat]
    /\ breaks \in Nat
    \* what the tracker names is an order for that position
    /\ \A p \in Positions : tracked[p] # NoOrder =>
           /\ ordPos[tracked[p]] = p
           /\ broker[tracked[p]] # "none"

Init ==
    /\ broker = [o \in Orders |-> "none"]
    /\ ordPos = [o \in Orders |-> CHOOSE p \in Positions : TRUE]
    /\ ordKind = [o \in Orders |-> "limit"]
    /\ held = [p \in Positions |-> -1]
    /\ asked = {}
    /\ lost = {}
    /\ missed = {}
    /\ view = [o \in Orders |-> "unknown"]
    /\ heldView = [p \in Positions |-> -1]
    /\ tracked = [p \in Positions |-> NoOrder]
    /\ marked = [p \in Positions |-> NoOrder]
    /\ exited = {}
    /\ todo = {}
    /\ pc = "idle"
    /\ cur = NoOrder
    /\ caller = "monitor"
    /\ outcomes = [p \in Positions |-> 0]
    /\ breaks = 0

-----------------------------------------------------------------------------
(* The broker and the client library (external).                           *)

BrokerAccept(o) ==
    /\ broker[o] = "sent"
    /\ broker' = [broker EXCEPT ![o] = "live"]
    /\ UNCHANGED <<ordPos, ordKind, held, asked, lossVars, viewVars, dbVars, tracked, todo,
                   pc, cur, caller, outcomes, breaks>>

BrokerFill(o) ==
    /\ broker[o] \in Working
    /\ broker' = [broker EXCEPT ![o] = "filled"]
    /\ held' = [held EXCEPT ![ordPos[o]] = @ + 1]
    /\ UNCHANGED <<ordPos, ordKind, asked, lossVars, viewVars, dbVars, tracked, todo, pc,
                   cur, caller, outcomes, breaks>>

\* Rejected, cancelled on request, or expired with the trading day.
BrokerDrop(o) ==
    /\ broker[o] \in Working
    /\ broker' = [broker EXCEPT ![o] = "dead"]
    /\ UNCHANGED <<ordPos, ordKind, held, asked, lossVars, viewVars, dbVars, tracked, todo, pc,
                   cur, caller, outcomes, breaks>>

StatusOf(o) ==
    CASE broker[o] = "filled" -> "Filled"
      [] broker[o] = "dead" -> "Cancelled"
      [] broker[o] = "live" -> "Submitted"
      [] OTHER -> "PendingSubmit"

\* The event loop runs: not while the thread sleeps in the first wait.
Listening == pc \in {"idle", "monitoring", "retrying"}

\* A status message reaches the client.
DeliverOrder(o) ==
    /\ Listening
    /\ view[o] \notin {"unknown", StatusOf(o)}
    /\ view' = [view EXCEPT ![o] = StatusOf(o)]
    /\ UNCHANGED <<brokerVars, asked, lossVars, heldView, dbVars, tracked, todo, pc, cur,
                   caller, outcomes, breaks>>

DeliverPosition(p) ==
    /\ Listening
    /\ heldView[p] # held[p]
    /\ heldView' = [heldView EXCEPT ![p] = held[p]]
    /\ UNCHANGED <<brokerVars, asked, lossVars, view, dbVars, tracked, todo, pc, cur, caller,
                   outcomes, breaks>>

\* What a new session shows: the positions and the orders at work, of those asked to
\* cancel perhaps as such; the ones that were filled may be missing, and everything is
\* when the list cannot be had.
NewSession(listed) ==
    /\ \E unseen \in IF listed THEN SUBSET {o \in Orders : broker[o] = "filled"} ELSE {Orders},
          leaving \in SUBSET asked :
        view' = [o \in Orders |->
            CASE broker[o] \in {"none", "dead"} \/ o \in unseen -> "unknown"
              [] broker[o] \in Working /\ o \in leaving -> "PendingCancel"
              [] OTHER -> StatusOf(o)]
    /\ heldView' = held
    /\ lost' = lost \cup {o \in Orders : broker[o] \in Working /\ view'[o] = "unknown"}
    /\ missed' = missed \cup {o \in Orders :
            broker[o] = "filled" /\ view'[o] = "unknown" /\ ordPos[o] \notin exited}

-----------------------------------------------------------------------------
(* The trades table and the tracker.                                       *)

\* _find_trade_by_position_id: an open trade by key, or any by trade_id.
FoundInDb(p) == p \notin exited \/ p \in Keyed

\* _record_trade_outcome finds a closed trade by trade_id only.
CountOutcome(closedNow, p) == IF p \in closedNow /\ p \in Keyed THEN 1 ELSE 0

Settled(p) == tracked[p] # NoOrder /\ view[tracked[p]] \in {"unknown", "Filled", "Cancelled"}
FillSeen(p) == tracked[p] # NoOrder /\ view[tracked[p]] = "Filled"

\* Bug: a fill is dropped from the tracker and not written.
DropFill ==
    /\ exited' = exited
    /\ tracked' = [p \in Positions |-> IF Settled(p) THEN NoOrder ELSE tracked[p]]
    /\ marked' = [p \in Positions |->
                        IF Settled(p) /\ FoundInDb(p) THEN NoOrder ELSE marked[p]]
    /\ outcomes' = [p \in Positions |->
                        outcomes[p] + IF FillSeen(p) THEN CountOutcome(exited', p) ELSE 0]

\* Bug: a fill is written without telling the governor.
RecordSilently ==
    /\ exited' = exited \cup {p \in Positions : FillSeen(p)}
    /\ tracked' = [p \in Positions |-> IF Settled(p) THEN NoOrder ELSE tracked[p]]
    /\ marked' = [p \in Positions |->
                        IF Settled(p) /\ FoundInDb(p) THEN NoOrder ELSE marked[p]]
    /\ outcomes' = outcomes

\* check_pending_exits, and POSITION_CLOSED for what was filled.
CheckPending ==
    /\ exited' = exited \cup {p \in Positions : FillSeen(p)}
    /\ tracked' = [p \in Positions |-> IF Settled(p) THEN NoOrder ELSE tracked[p]]
    /\ marked' = [p \in Positions |->
                        IF Settled(p) /\ FoundInDb(p) THEN NoOrder ELSE marked[p]]
    /\ outcomes' = [p \in Positions |->
                        outcomes[p] + IF FillSeen(p) THEN CountOutcome(exited', p) ELSE 0]

Fresh == {o \in Orders : broker[o] = "none"}

\* Bound: there is room for these exits, and for the retry of each limit order.
RoomFor(exits) ==
    Cardinality(exits) + Cardinality({e \in exits : e[2] = "limit"}) <= Cardinality(Fresh)

\* One monitoring pass: settle what was pending, then decide on everything
\* the table shows as open and not exit-pending.
BeginMonitor ==
    /\ pc = "idle"
    /\ CheckPending
    /\ \E S \in SUBSET {p \in Positions : p \notin exited' /\ marked'[p] = NoOrder},
          kind \in [Positions -> Kinds] :
            /\ todo' = {<<p, kind[p]>> : p \in S}
            /\ RoomFor(todo')
    /\ pc' = "monitoring"
    /\ UNCHANGED <<brokerVars, asked, lossVars, viewVars, cur, caller, breaks>>

EndMonitor ==
    /\ pc = "monitoring"
    /\ todo = {}
    /\ pc' = "idle"
    /\ UNCHANGED <<brokerVars, asked, lossVars, viewVars, dbVars, tracked, todo, cur, caller,
                   outcomes, breaks>>

-----------------------------------------------------------------------------
(* execute_exit.                                                           *)

\* Bug: the tracker is not asked.
MayExitAgain(p) == heldView[p] < 0

\* No exit order is tracked, the position is in the client's cache, and it
\* is short there.
MayExit(p) == tracked[p] = NoOrder /\ heldView[p] < 0

Place(p, kind) ==
    \E o \in Fresh :
        /\ \A older \in Fresh : o <= older
        /\ broker' = [broker EXCEPT ![o] = "sent"]
        /\ ordPos' = [ordPos EXCEPT ![o] = p]
        /\ ordKind' = [ordKind EXCEPT ![o] = kind]
        /\ view' = [view EXCEPT ![o] = "PendingSubmit"]
        /\ tracked' = [tracked EXCEPT ![p] = o]
        /\ cur' = o

\* The next exit of the monitoring pass, decided before the ones in front of
\* it were waited for.
MonitorExit(p, kind) ==
    /\ pc = "monitoring"
    /\ <<p, kind>> \in todo
    /\ MayExit(p)
    /\ todo' = todo \ {<<p, kind>>}
    /\ Place(p, kind)
    /\ pc' = "placed"
    /\ caller' = "monitor"
    /\ UNCHANGED <<held, asked, lossVars, heldView, dbVars, outcomes, breaks>>

\* The guard refuses, the contract is not found, or the connection is down.
MonitorPasses(p, kind) ==
    /\ pc = "monitoring"
    /\ <<p, kind>> \in todo
    /\ todo' = todo \ {<<p, kind>>}
    /\ UNCHANGED <<brokerVars, asked, lossVars, viewVars, dbVars, tracked, pc, cur, caller,
                   outcomes, breaks>>

\* CLOSE_POSITION and CLOSE_ALL_POSITIONS: an open trade, exit-pending or not.
HandlerExit(p, kind) ==
    /\ pc = "idle"
    /\ p \notin exited
    /\ MayExit(p)
    /\ RoomFor({<<p, kind>>})
    /\ Place(p, kind)
    /\ pc' = "placed"
    /\ caller' = "handler"
    /\ UNCHANGED <<held, asked, lossVars, heldView, dbVars, todo, outcomes, breaks>>

Subject == ordPos[cur]

\* The marker is a commit of its own, and its failure is only logged.
Mark ==
    /\ pc = "placed"
    /\ \/ marked' = [marked EXCEPT ![Subject] = cur]
       \/ UNCHANGED marked
    /\ pc' = "waiting"
    /\ UNCHANGED <<brokerVars, asked, lossVars, viewVars, exited, tracked, todo, cur, caller,
                   outcomes, breaks>>

Return ==
    /\ pc' = IF caller = "monitor" THEN "monitoring" ELSE "idle"
    /\ cur' = NoOrder
    /\ caller' = "monitor"
    /\ UNCHANGED <<lossVars, todo, breaks>>

\* On success the monitoring pass emits POSITION_CLOSED; the handlers do not.
EmitClosed(p, closedNow) ==
    outcomes' = IF caller = "monitor"
                THEN [outcomes EXCEPT ![p] = @ + CountOutcome(closedNow, p)]
                ELSE outcomes

\* The wait is over and the order looks unanswered, whatever became of it: it is
\* cancelled, and tried again as a market order whose id only the tracker has.
TimeoutStuckLimit ==
    /\ pc = "waiting"
    /\ ordKind[cur] = "limit"
    /\ asked' = asked \cup {cur}
    /\ Place(Subject, "market")
    /\ pc' = "retrying"
    /\ UNCHANGED <<held, lossVars, heldView, dbVars, todo, caller, outcomes, breaks>>

\* A market order is cancelled and no longer tracked; its marker stays.
TimeoutStuckMarket ==
    /\ pc = "waiting"
    /\ ordKind[cur] = "market"
    /\ asked' = asked \cup {cur}
    /\ tracked' = [tracked EXCEPT ![Subject] = NoOrder]
    /\ Return
    /\ UNCHANGED <<brokerVars, viewVars, dbVars, outcomes>>

RetryFilled ==
    /\ pc = "retrying"
    /\ view[cur] = "Filled"
    /\ exited' = exited \cup {Subject}
    /\ marked' = [marked EXCEPT ![Subject] = NoOrder]
    /\ EmitClosed(Subject, exited')
    /\ Return
    /\ UNCHANGED <<brokerVars, asked, viewVars, tracked>>

\* Refused, or not answered in time; the tracker stays for check_pending_exits.
RetryFails ==
    /\ pc = "retrying"
    /\ view[cur] \in {"Cancelled", "PendingSubmit"}
    /\ Return
    /\ UNCHANGED <<brokerVars, asked, viewVars, dbVars, tracked, outcomes>>

RetryWorking ==
    /\ pc = "retrying"
    /\ view[cur] = "Submitted"
    /\ EmitClosed(Subject, exited)
    /\ Return
    /\ UNCHANGED <<brokerVars, asked, viewVars, dbVars, tracked>>

-----------------------------------------------------------------------------
(* The connection is lost, or the daemon dies and a new one starts.        *)

Break == breaks < MaxBreaks /\ breaks' = breaks + 1

\* ensure_connected: the tracker stays, and names orders of the session before.
Reconnect ==
    /\ pc \in {"idle", "monitoring"}
    /\ Break
    /\ NewSession(TRUE)
    /\ UNCHANGED <<brokerVars, asked, dbVars, tracked, todo, pc, cur, caller, outcomes>>

Crash ==
    /\ pc # "down"
    /\ Break
    /\ LET unwritten == {o \in Orders : marked[ordPos[o]] # o /\ ordPos[o] \notin exited}
       IN  /\ lost' = lost \cup {o \in unwritten : broker[o] \in Working}
           /\ missed' = missed \cup {o \in unwritten : broker[o] = "filled"}
    /\ pc' = "down"
    /\ cur' = NoOrder
    /\ todo' = {}
    /\ tracked' = [p \in Positions |-> NoOrder]
    /\ caller' = "monitor"
    /\ UNCHANGED <<brokerVars, asked, viewVars, dbVars, outcomes>>

PendingRows == {p \in Positions : marked[p] # NoOrder /\ p \notin exited}

\* Bug: an order that is still working is not tracked again.
ReconcileFillsOnly ==
    /\ exited' = exited \cup {p \in PendingRows : view'[marked[p]] = "Filled"}
    /\ tracked' = [p \in Positions |-> NoOrder]
    /\ marked' = [p \in Positions |-> IF p \in PendingRows THEN NoOrder ELSE marked[p]]

\* _reconcile_pending_exits_on_startup
Reconcile ==
    /\ exited' = exited \cup {p \in PendingRows : view'[marked[p]] = "Filled"}
    /\ tracked' = [p \in Positions |->
            IF p \in PendingRows /\ view'[marked[p]] \in {"Submitted", "PendingSubmit"}
            THEN marked[p] ELSE NoOrder]
    /\ marked' = [p \in Positions |->
            IF p \in PendingRows /\ tracked'[p] = NoOrder THEN NoOrder ELSE marked[p]]

Restart ==
    /\ pc = "down"
    /\ \E listed \in BOOLEAN : NewSession(listed)
    /\ Reconcile
    /\ pc' = "idle"
    /\ UNCHANGED <<brokerVars, asked, todo, cur, caller, outcomes, breaks>>

-----------------------------------------------------------------------------

BrokerStep == \E o \in Orders : BrokerAccept(o) \/ BrokerFill(o) \/ BrokerDrop(o)

Deliver == (\E o \in Orders : DeliverOrder(o)) \/ (\E p \in Positions : DeliverPosition(p))

DaemonStep ==
    \/ BeginMonitor \/ EndMonitor
    \/ \E p \in Positions, kind \in Kinds : MonitorExit(p, kind) \/ MonitorPasses(p, kind)
    \/ Mark
    \/ TimeoutStuckLimit \/ TimeoutStuckMarket
    \/ RetryFilled \/ RetryFails \/ RetryWorking

Next ==
    \/ BrokerStep
    \/ Deliver
    \/ DaemonStep
    \/ \E p \in Positions, kind \in Kinds : HandlerExit(p, kind)
    \/ Reconnect
    \/ Crash
    \/ Restart

Spec == Init /\ [][Next]_vars

\* Messages arrive, the broker settles what it has, and the daemon's loop
\* keeps taking its scheduled checks.
FairSpec ==
    /\ Spec
    /\ \A o \in Orders : WF_vars(BrokerFill(o) \/ BrokerDrop(o))
    /\ WF_vars(Deliver)
    /\ WF_vars(DaemonStep)
    /\ WF_vars(Restart)

-----------------------------------------------------------------------------
(* Properties.                                                             *)

\* "SAFETY: Prevent duplicate exit orders for the same position" ... "Skipping to prevent
\* over-closing." (exit_manager.py:240, 245): no exit buys back more than was sold.
NeverOverClosed == \A p \in Positions : held[p] <= 0

\* What may still buy p back, or did, without having been asked to stop.
Wanted(p) ==
    {o \in Orders \ (asked \cup lost) : ordPos[o] = p /\ broker[o] \in Working \cup {"filled"}}

\* However waits end, markers fail to be written, connections break and daemons die,
\* tracker, marker and the look at the position keep a position to one exit order: a
\* second one works or has filled only beside orders the exit manager asked to cancel, that
\* a dying daemon had not written down or that a new one could not look up (execute_exit, check_pending_exits,
\* _reconcile_pending_exits_on_startup).
OneExitWanted == \A p \in Positions : \A o, q \in Wanted(p) : o = q

\* The governor and the learning loop hear of every close of a position whose
\* trade id is its key, as soon as the order is no longer tracked and unless
\* the daemon died, or lost its connection, with the news.
EveryCloseIsCounted ==
    pc = "idle" /\ breaks = 0 =>
        \A p \in Keyed :
            p \in exited /\ tracked[p] = NoOrder => outcomes[p] > 0

\* A fill reaches the trades table, through deaths and lost connections, unless it is of
\* an order that was given up (a first order, when its wait ends), that a dying daemon had
\* not written down, or that a new session does not show (check_pending_exits,
\* _reconcile_pending_exits_on_startup).
FillIsRecorded ==
    \A o \in Orders :
        broker[o] = "filled" ~> ordPos[o] \in exited \/ o \in asked \cup lost \cup missed

\* "Check status of all pending exit orders and update DB accordingly."
\* (exit_manager.py:662), of given-up orders too.
EveryFillIsRecorded ==
    \A p \in Positions : held[p] = 0 ~> p \in exited \/ breaks > 0

=============================================================================
