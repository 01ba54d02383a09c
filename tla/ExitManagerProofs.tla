-------------------------- MODULE ExitManagerProofs --------------------------
(***************************************************************************)
(* Proofs about ExitManager.tla, for any positions, orders and breaks,     *)
(* and about the brackets of NakedTrader.tla, for any sales.               *)
(*                                                                         *)
(* The types need to know that the order in hand is the one tracked        *)
(* (InHand) and that markers name orders of their position (Named).        *)
(* EveryCloseIsCounted also looks at the fills that are still tracked      *)
(* (Heard).  OneExitWanted is about orders at the broker; the guard looks  *)
(* at the tracker and at the client's position, and the monitoring pass at *)
(* a list made before.  Guarded says how these follow the one order that   *)
(* is meant to buy.                                                        *)
(*                                                                         *)
(* BookedAsItEnded needs that what a watch session knows of has filled,    *)
(* and that a bracket past its term is dead (Ended).                       *)
(***************************************************************************)
EXTENDS ExitManager, NakedTrader, TLAPS

\* What the table names is an order for that position.
Named ==
    \A p \in Positions : marked[p] # NoOrder =>
        ordPos[marked[p]] = p /\ broker[marked[p]] # "none"

\* The client's copy of a status is old or true; what ended does not change, and what
\* is at work is shown unless it was lost.
Lagging ==
    \A o \in Orders :
        /\ view[o] = "Filled" => broker[o] = "filled"
        /\ view[o] = "Cancelled" => broker[o] = "dead"
        /\ broker[o] \in Working /\ o \notin lost => view[o] # "unknown"

\* The order in hand is the one tracked, and nothing is heard of it in its first wait.
InHand ==
    /\ cur # NoOrder => tracked[Subject] = cur
    /\ pc \in {"placed", "waiting"} => view[cur] = "PendingSubmit"

Steady == TypeOK /\ Named /\ Lagging /\ InHand

-----------------------------------------------------------------------------
(* Types, and the client's view.                                           *)

LEMMA OrderFacts ==
    NoOrder \notin Orders /\ OrderOrNone = Orders \cup {NoOrder}
BY BoundsAssumption DEF Orders, OrderOrNone, NoOrder

LEMMA PlaceFacts ==
    ASSUME NEW p, NEW kind, Place(p, kind)
    PROVE  /\ cur' \in Orders /\ broker[cur'] = "none"
           /\ broker' = [broker EXCEPT ![cur'] = "sent"]
           /\ ordPos' = [ordPos EXCEPT ![cur'] = p]
           /\ ordKind' = [ordKind EXCEPT ![cur'] = kind]
           /\ view' = [view EXCEPT ![cur'] = "PendingSubmit"]
           /\ tracked' = [tracked EXCEPT ![p] = cur']
BY DEF Place, Fresh

LEMMA SubjectIsTracked ==
    ASSUME Steady, cur # NoOrder
    PROVE  cur \in Orders /\ Subject \in Positions /\ broker[cur] # "none"
<1>1. cur \in Orders /\ tracked[Subject] = cur
  BY OrderFacts DEF Steady, TypeOK, InHand
<1> QED
  BY <1>1 DEF Steady, TypeOK, Subject

\* An order that is placed is tracked, and its position is the one it is for.
LEMMA PlaceKeepsSteady ==
    ASSUME Steady, NEW p \in Positions, NEW kind \in Kinds, Place(p, kind),
           pc' \in {"placed", "retrying"}, held' = held, asked' \subseteq Orders,
           lost' = lost, missed' = missed,
           heldView' = heldView, marked' = marked, exited' = exited, todo' \subseteq todo,
           caller' \in Callers, outcomes' = outcomes, breaks' = breaks
    PROVE  Steady'
<1>0. /\ cur' \in Orders /\ broker[cur'] = "none"
      /\ broker' = [broker EXCEPT ![cur'] = "sent"]
      /\ ordPos' = [ordPos EXCEPT ![cur'] = p]
      /\ ordKind' = [ordKind EXCEPT ![cur'] = kind]
      /\ view' = [view EXCEPT ![cur'] = "PendingSubmit"]
      /\ tracked' = [tracked EXCEPT ![p] = cur']
  BY PlaceFacts
<1>1. /\ NoOrder \notin Orders /\ OrderOrNone = Orders \cup {NoOrder}
      /\ cur' # NoOrder
  BY <1>0, OrderFacts
<1>2. TypeOK /\ Named /\ Lagging
  BY DEF Steady
<1>3. \A q \in Positions : tracked'[q] # NoOrder =>
          ordPos'[tracked'[q]] = q /\ broker'[tracked'[q]] # "none"
  BY <1>0, <1>1, <1>2 DEF TypeOK
<1>4. TypeOK'
  <2>1. /\ broker' \in [Orders -> {"none", "sent", "live", "filled", "dead"}]
        /\ ordPos' \in [Orders -> Positions]
        /\ ordKind' \in [Orders -> Kinds]
        /\ view' \in [Orders -> {"unknown", "PendingSubmit", "Submitted",
                                 "PendingCancel", "Filled", "Cancelled"}]
        /\ tracked' \in [Positions -> OrderOrNone]
    BY <1>0, <1>1, <1>2 DEF TypeOK
  <2> QED
    BY <1>0, <1>1, <1>2, <1>3, <2>1 DEF TypeOK
<1>5. Named'
  BY <1>0, <1>1, <1>2 DEF Named, TypeOK
<1>6. Lagging'
  BY <1>0, <1>1, <1>2 DEF Lagging, Working, TypeOK
<1>7. InHand'
  BY <1>0, <1>2 DEF InHand, Subject, TypeOK
<1> QED
  BY <1>4, <1>5, <1>6, <1>7 DEF Steady

LEMMA SteadyInit == Init => Steady
<1> SUFFICES ASSUME Init PROVE Steady
  OBVIOUS
<1>1. (CHOOSE p \in Positions : TRUE) \in Positions
  BY PositionsAssumption
<1>2. TypeOK
  BY <1>1, BoundsAssumption
     DEF Init, TypeOK, Kinds, Callers, OrderOrNone, NoOrder
<1> QED
  BY <1>2 DEF Init, Steady, Named, Lagging, Working, InHand, NoOrder

LEMMA BrokerKeepsSteady == ASSUME Steady, BrokerStep PROVE Steady'
<1>1. PICK o \in Orders : BrokerAccept(o) \/ BrokerFill(o) \/ BrokerDrop(o)
  BY DEF BrokerStep
<1>2. /\ UNCHANGED <<ordPos, ordKind, asked, lossVars, viewVars, dbVars, tracked, todo, pc,
                     cur, caller, outcomes, breaks>>
      /\ broker[o] \in Working
  BY <1>1 DEF BrokerAccept, BrokerFill, BrokerDrop, Working
<1>3. PICK s \in {"live", "filled", "dead"} : broker' = [broker EXCEPT ![o] = s]
  BY <1>1 DEF BrokerAccept, BrokerFill, BrokerDrop
<1>4. held' \in [Positions -> Int]
  BY <1>1 DEF BrokerAccept, BrokerFill, BrokerDrop, Steady, TypeOK
<1> USE <1>2, <1>3, OrderFacts DEF Steady, viewVars, dbVars, lossVars
<1>6. TypeOK'
  BY <1>4 DEF TypeOK
<1>7. Named'
  BY DEF Named, TypeOK
<1>8. Lagging'
  BY DEF Lagging, TypeOK, Working
<1>9. InHand'
  BY DEF InHand, Subject
<1> QED
  BY <1>6, <1>7, <1>8, <1>9

LEMMA DeliverKeepsSteady == ASSUME Steady, Deliver PROVE Steady'
<1>0. pc \notin {"placed", "waiting"}
  BY DEF Deliver, DeliverOrder, DeliverPosition, Listening
<1>1. CASE \E o \in Orders : DeliverOrder(o)
  <2>1. PICK o \in Orders : DeliverOrder(o)
    BY <1>1
  <2>2. /\ UNCHANGED <<brokerVars, asked, lossVars, heldView, dbVars, tracked, todo, pc, cur,
                       caller, outcomes, breaks>>
        /\ view' = [view EXCEPT ![o] = StatusOf(o)]
    BY <2>1 DEF DeliverOrder
  <2>3. /\ StatusOf(o) \in {"Filled", "Cancelled", "Submitted", "PendingSubmit"}
        /\ StatusOf(o) = "Filled" => broker[o] = "filled"
        /\ StatusOf(o) = "Cancelled" => broker[o] = "dead"
    BY DEF StatusOf
  <2> USE <2>2, <2>3 DEF Steady, brokerVars, dbVars, lossVars
  <2>4. TypeOK'
    BY DEF TypeOK
  <2>5. Lagging'
    BY DEF Lagging, TypeOK
  <2> QED
    BY <1>0, <2>4, <2>5 DEF Named, InHand, Subject
<1>2. CASE \E p \in Positions : DeliverPosition(p)
  <2>1. PICK p \in Positions : DeliverPosition(p)
    BY <1>2
  <2>2. TypeOK'
    BY <2>1 DEF DeliverPosition, Steady, TypeOK, brokerVars, dbVars, lossVars
  <2> QED
    BY <2>1, <2>2 DEF DeliverPosition, Steady, Named, Lagging, InHand, Subject, brokerVars,
                      dbVars, lossVars
<1> QED
  BY <1>1, <1>2 DEF Deliver

LEMMA CheckKeepsSteady == ASSUME Steady, BeginMonitor PROVE Steady'
<1>1. /\ UNCHANGED <<brokerVars, asked, lossVars, viewVars, cur, caller, breaks>>
      /\ pc = "idle" /\ pc' = "monitoring"
      /\ exited' = exited \cup {p \in Positions : FillSeen(p)}
      /\ tracked' = [p \in Positions |-> IF Settled(p) THEN NoOrder ELSE tracked[p]]
      /\ marked' = [p \in Positions |-> IF Settled(p) /\ FoundInDb(p) THEN NoOrder ELSE marked[p]]
      /\ outcomes' = [p \in Positions |->
                        outcomes[p] + IF FillSeen(p) THEN CountOutcome(exited', p) ELSE 0]
  BY DEF BeginMonitor, CheckPending
<1>2. PICK S \in SUBSET Positions, kind \in [Positions -> Kinds] :
          todo' = {<<p, kind[p]>> : p \in S}
  BY DEF BeginMonitor
<1>3. /\ TypeOK /\ Named /\ Lagging
      /\ NoOrder \in OrderOrNone
      /\ cur = NoOrder
  BY <1>1, OrderFacts DEF Steady, TypeOK
<1>4. \A p \in Positions : CountOutcome(exited', p) \in Nat
  BY DEF CountOutcome
<1>5. /\ \A p \in Positions : tracked'[p] = NoOrder \/ tracked'[p] = tracked[p]
      /\ \A p \in Positions : marked'[p] = NoOrder \/ marked'[p] = marked[p]
      /\ tracked' \in [Positions -> OrderOrNone] /\ marked' \in [Positions -> OrderOrNone]
  BY <1>1, <1>3 DEF TypeOK
<1>6. TypeOK'
  <2>1. outcomes' \in [Positions -> Nat]
    BY <1>1, <1>3, <1>4 DEF TypeOK
  <2>2. todo' \subseteq Positions \X Kinds
    BY <1>2
  <2>3. exited' \subseteq Positions
    BY <1>1, <1>3 DEF TypeOK
  <2> QED
    BY <1>1, <1>3, <1>5, <2>1, <2>2, <2>3 DEF TypeOK, brokerVars, viewVars, lossVars
<1>7. Named'
  BY <1>1, <1>3, <1>5 DEF Named, brokerVars
<1>8. Lagging'
  BY <1>1, <1>3 DEF Lagging, brokerVars, viewVars, lossVars
<1>9. InHand'
  BY <1>1, <1>3 DEF InHand
<1> QED
  BY <1>6, <1>7, <1>8, <1>9 DEF Steady

\* The steps of execute_exit that do not place an order.
WaitStep == Mark \/ TimeoutStuckMarket \/ RetryFilled \/ RetryFails \/ RetryWorking

LEMMA WaitKeepsSteady == ASSUME Steady, WaitStep PROVE Steady'
<1>1. /\ UNCHANGED <<broker, ordPos, ordKind, held, lost, missed, view, heldView, todo, breaks>>
      /\ caller' \in {caller, "monitor"}
      /\ cur # NoOrder
  BY DEF WaitStep, Steady, TypeOK, Mark, TimeoutStuckMarket, RetryFilled, RetryFails,
         RetryWorking, Return, brokerVars, viewVars, lossVars
<1>2. /\ cur \in Orders /\ Subject \in Positions /\ broker[cur] # "none"
      /\ tracked[Subject] = cur
  BY <1>1, SubjectIsTracked DEF Steady, InHand
<1>3. \/ pc = "placed" /\ pc' = "waiting" /\ cur' = cur
      \/ pc' \in {"monitoring", "idle"} /\ cur' = NoOrder
  BY DEF WaitStep, Mark, TimeoutStuckMarket, RetryFilled, RetryFails, RetryWorking, Return
<1>4. /\ asked' \subseteq Orders
      /\ exited' = exited \/ exited' = exited \cup {Subject}
      /\ marked' = marked \/ marked' = [marked EXCEPT ![Subject] = cur]
         \/ marked' = [marked EXCEPT ![Subject] = NoOrder]
      /\ tracked' = tracked \/ (cur' = NoOrder /\ tracked' = [tracked EXCEPT ![Subject] = NoOrder])
  BY <1>2 DEF WaitStep, Mark, TimeoutStuckMarket, RetryFilled, RetryFails, RetryWorking, Return,
         brokerVars, viewVars, dbVars, lossVars, Steady, TypeOK
<1>5. outcomes' \in [Positions -> Nat]
  <2>1. \A p, closed : CountOutcome(closed, p) \in Nat
    BY DEF CountOutcome
  <2>2. \/ outcomes' = outcomes
        \/ \E closed : outcomes' = [outcomes EXCEPT ![Subject] = @ + CountOutcome(closed, Subject)]
    BY DEF WaitStep, Mark, TimeoutStuckMarket, RetryFilled, RetryFails, RetryWorking, Return,
           EmitClosed
  <2> QED
    BY <1>2, <2>1, <2>2 DEF Steady, TypeOK
<1>6. TypeOK /\ Named /\ Lagging /\ NoOrder \notin Orders /\ OrderOrNone = Orders \cup {NoOrder}
  BY OrderFacts DEF Steady
<1>7. tracked' \in [Positions -> OrderOrNone] /\ marked' \in [Positions -> OrderOrNone]
  BY <1>2, <1>4, <1>6 DEF TypeOK
<1>8. \A p \in Positions : tracked'[p] = tracked[p] \/ tracked'[p] = NoOrder
  BY <1>4, <1>6 DEF TypeOK
<1>9. TypeOK'
  <2>1. caller' \in Callers /\ exited' \subseteq Positions
    BY <1>1, <1>2, <1>4, <1>6 DEF TypeOK, Callers
  <2> QED
    BY <1>1, <1>2, <1>3, <1>4, <1>5, <1>6, <1>7, <1>8, <2>1 DEF TypeOK
<1>10. Named'
  <2>1. ordPos[cur] = Subject
    BY DEF Subject
  <2>2. \A p \in Positions : marked'[p] \in {marked[p], NoOrder} \/ (p = Subject /\ marked'[p] = cur)
    BY <1>2, <1>4, <1>6 DEF TypeOK
  <2> QED
    BY <1>1, <1>2, <1>6, <2>1, <2>2 DEF Named
<1>11. Lagging'
  BY <1>1, <1>6 DEF Lagging
<1>12. InHand'
  BY <1>1, <1>2, <1>3, <1>4 DEF InHand, Subject, Steady
<1> QED
  BY <1>9, <1>10, <1>11, <1>12 DEF Steady

LEMMA PlacingKeepsSteady ==
    ASSUME Steady, NEW p \in Positions, NEW kind \in Kinds,
           MonitorExit(p, kind) \/ HandlerExit(p, kind)
    PROVE  Steady'
<1>1. /\ Place(p, kind) /\ pc' = "placed" /\ todo' \subseteq todo
      /\ caller' \in Callers
      /\ UNCHANGED <<held, asked, lost, missed, heldView, marked, exited, outcomes, breaks>>
  BY DEF MonitorExit, HandlerExit, dbVars, lossVars, Callers
<1>2. asked' \subseteq Orders
  BY <1>1 DEF Steady, TypeOK
<1> QED
  BY <1>1, <1>2, PlaceKeepsSteady

LEMMA RetryKeepsSteady == ASSUME Steady, TimeoutStuckLimit PROVE Steady'
<1>1. cur # NoOrder
  BY DEF TimeoutStuckLimit, Steady, TypeOK
<1>2. cur \in Orders /\ Subject \in Positions
  BY <1>1, SubjectIsTracked
<1>3. asked' \subseteq Orders
  BY <1>2 DEF TimeoutStuckLimit, Steady, TypeOK
<1> QED
  BY <1>2, <1>3, PlaceKeepsSteady DEF TimeoutStuckLimit, dbVars, lossVars, Kinds, Steady, TypeOK

LEMMA EndKeepsSteady ==
    ASSUME Steady, EndMonitor \/ Crash \/ \E p \in Positions, kind \in Kinds : MonitorPasses(p, kind)
    PROVE  Steady'
<1>1. CASE EndMonitor
  BY <1>1 DEF EndMonitor, Steady, TypeOK, Named, Lagging, InHand, Subject, brokerVars, viewVars,
              dbVars, lossVars
<1>2. CASE \E p \in Positions, kind \in Kinds : MonitorPasses(p, kind)
  <2>1. PICK p \in Positions, kind \in Kinds : MonitorPasses(p, kind)
    BY <1>2
  <2> QED
    BY <2>1 DEF MonitorPasses, Steady, TypeOK, Named, Lagging, InHand, Subject, brokerVars,
                viewVars, dbVars, lossVars
<1>3. CASE Crash
  <2>1. /\ UNCHANGED <<broker, ordPos, ordKind, held, view, heldView, marked, exited, asked,
                       outcomes>>
        /\ pc' = "down" /\ cur' = NoOrder /\ todo' = {} /\ breaks' = breaks + 1
        /\ tracked' = [p \in Positions |-> NoOrder]
        /\ caller' = "monitor"
        /\ lost \subseteq lost' /\ lost' \subseteq lost \cup Orders
        /\ missed' \subseteq missed \cup Orders
    BY <1>3 DEF Crash, Break, brokerVars, viewVars, dbVars
  <2>2. TypeOK'
    BY <2>1, OrderFacts DEF Steady, TypeOK, Callers
  <2>3. Lagging'
    BY <2>1 DEF Lagging, Steady
  <2> QED
    BY <2>1, <2>2, <2>3 DEF Steady, Named, InHand
<1> QED
  BY <1>1, <1>2, <1>3

\* What a new session shows.
LEMMA SessionFacts ==
    ASSUME NEW listed \in BOOLEAN, NewSession(listed)
    PROVE  /\ view' \in [Orders -> {"unknown", "PendingSubmit", "Submitted", "PendingCancel",
                                    "Filled"}]
           /\ \A o \in Orders :
                 /\ view'[o] = "Filled" => broker[o] = "filled"
                 /\ view'[o] = "PendingCancel" => o \in asked
                 /\ broker[o] \in Working /\ o \notin lost' => view'[o] # "unknown"
                 /\ listed /\ broker[o] \in Working => view'[o] # "unknown"
           /\ heldView' = held
           /\ lost \subseteq lost' /\ lost' \subseteq lost \cup Orders
           /\ missed' \subseteq missed \cup Orders
<1>1. PICK unseen \in IF listed THEN SUBSET {o \in Orders : broker[o] = "filled"} ELSE {Orders},
           leaving \in SUBSET asked :
          view' = [o \in Orders |->
              CASE broker[o] \in {"none", "dead"} \/ o \in unseen -> "unknown"
                [] broker[o] \in Working /\ o \in leaving -> "PendingCancel"
                [] OTHER -> StatusOf(o)]
  BY DEF NewSession
<1>2. \A o \in Orders :
          /\ broker[o] \notin {"none", "dead"} =>
                 StatusOf(o) \in {"PendingSubmit", "Submitted", "Filled"}
          /\ StatusOf(o) = "Filled" => broker[o] = "filled"
  BY DEF StatusOf
<1>3. \A o \in Orders : broker[o] \in Working => broker[o] \notin {"none", "dead", "filled"}
  BY DEF Working
<1>4. ASSUME NEW o \in Orders
      PROVE  /\ view'[o] \in {"unknown", "PendingSubmit", "Submitted", "PendingCancel", "Filled"}
             /\ view'[o] = "Filled" => broker[o] = "filled"
             /\ view'[o] = "PendingCancel" => o \in asked
             /\ listed /\ broker[o] \in Working => view'[o] # "unknown"
  <2>1. CASE broker[o] \in {"none", "dead"} \/ o \in unseen
    BY <1>1, <1>3, <2>1
  <2>2. CASE ~(broker[o] \in {"none", "dead"} \/ o \in unseen) /\ broker[o] \in Working /\ o \in leaving
    BY <1>1, <2>2
  <2>3. CASE ~(broker[o] \in {"none", "dead"} \/ o \in unseen) /\ ~(broker[o] \in Working /\ o \in leaving)
    <3>1. view'[o] = StatusOf(o)
      BY <1>1, <2>3
    <3> QED
      BY <1>2, <2>3, <3>1
  <2> QED
    BY <2>1, <2>2, <2>3
<1>5. /\ lost' = lost \cup {o \in Orders : broker[o] \in Working /\ view'[o] = "unknown"}
      /\ missed' \subseteq missed \cup Orders
      /\ heldView' = held
  BY DEF NewSession
<1>6. DOMAIN view' = Orders /\ view' = [o \in Orders |-> view'[o]]
  BY <1>1
<1> QED
  BY <1>4, <1>5, <1>6

LEMMA ReconnectKeepsSteady == ASSUME Steady, Reconnect PROVE Steady'
<1>1. /\ UNCHANGED <<broker, ordPos, ordKind, held, asked, marked, exited, tracked, todo, pc,
                     cur, caller, outcomes>>
      /\ breaks' = breaks + 1 /\ pc \in {"idle", "monitoring"} /\ NewSession(TRUE)
  BY DEF Reconnect, Break, brokerVars, dbVars
<1>2. TypeOK'
  <2>1. /\ view' \in [Orders -> {"unknown", "PendingSubmit", "Submitted", "PendingCancel",
                                 "Filled", "Cancelled"}]
        /\ heldView' \in [Positions -> Int] /\ lost' \subseteq Orders /\ missed' \subseteq Orders
    <3>1. /\ view' \in [Orders -> {"unknown", "PendingSubmit", "Submitted", "PendingCancel",
                                   "Filled"}]
          /\ heldView' = held
          /\ lost' \subseteq lost \cup Orders /\ missed' \subseteq missed \cup Orders
      BY <1>1, SessionFacts
    <3>2. held \in [Positions -> Int] /\ lost \subseteq Orders /\ missed \subseteq Orders
      BY DEF Steady, TypeOK
    <3> QED
      BY ONLY <3>1, <3>2
  <2> QED
    BY <1>1, <2>1 DEF Steady, TypeOK
<1>3. Lagging'
  <2>1. \A o \in Orders : view'[o] # "Cancelled"
    BY <1>1, SessionFacts
  <2> QED
    BY <1>1, <2>1, SessionFacts DEF Lagging
<1> QED
  BY <1>1, <1>2, <1>3 DEF Steady, Named, InHand, TypeOK

\* What a new daemon makes of the table.
LEMMA RestartFacts ==
    ASSUME TypeOK, Restart
    PROVE  /\ \E listed \in BOOLEAN : NewSession(listed)
           /\ exited' = exited \cup {p \in PendingRows : view'[marked[p]] = "Filled"}
           /\ tracked' = [p \in Positions |->
                 IF p \in PendingRows /\ view'[marked[p]] \in {"Submitted", "PendingSubmit"}
                 THEN marked[p] ELSE NoOrder]
           /\ marked' = [p \in Positions |->
                 IF p \in PendingRows /\ tracked'[p] = NoOrder THEN NoOrder ELSE marked[p]]
           /\ UNCHANGED <<broker, ordPos, ordKind, held, asked, todo, cur, caller, outcomes, breaks>>
           /\ pc = "down" /\ cur = NoOrder /\ pc' = "idle"
BY DEF Restart, Reconcile, TypeOK, brokerVars

LEMMA RestartKeepsSteady == ASSUME Steady, Restart PROVE Steady'
<1>0. TypeOK /\ Named /\ NoOrder \notin Orders /\ OrderOrNone = Orders \cup {NoOrder}
  BY OrderFacts DEF Steady
<1>1. PICK listed \in BOOLEAN : NewSession(listed)
  BY <1>0, RestartFacts
<1>2. /\ UNCHANGED <<broker, ordPos, ordKind, held, asked, todo, cur, caller, outcomes, breaks>>
      /\ pc = "down" /\ cur = NoOrder /\ pc' = "idle"
  BY <1>0, RestartFacts
<1>3. /\ \A p \in Positions : tracked'[p] \in {marked[p], NoOrder}
      /\ \A p \in Positions : marked'[p] \in {marked[p], NoOrder}
      /\ tracked' \in [Positions -> OrderOrNone] /\ marked' \in [Positions -> OrderOrNone]
  BY <1>0, RestartFacts DEF TypeOK
<1>4. exited' \subseteq Positions
  BY <1>0, RestartFacts DEF TypeOK, PendingRows
<1>5. TypeOK'
  BY <1>0, <1>1, <1>2, <1>3, <1>4, SessionFacts DEF TypeOK, Named
<1>6. Named'
  BY <1>0, <1>2, <1>3 DEF Named
<1>7. Lagging'
  <2>1. \A o \in Orders : view'[o] # "Cancelled"
    BY <1>1, SessionFacts
  <2> QED
    BY <1>1, <1>2, <2>1, SessionFacts DEF Lagging
<1> QED
  BY <1>2, <1>5, <1>6, <1>7 DEF Steady, InHand

LEMMA SteadyStep == ASSUME Steady, [Next]_vars PROVE Steady'
<1>1. CASE BrokerStep \/ Deliver
  BY <1>1, BrokerKeepsSteady, DeliverKeepsSteady
<1>2. CASE DaemonStep
  BY <1>2, CheckKeepsSteady, EndKeepsSteady, PlacingKeepsSteady, WaitKeepsSteady, RetryKeepsSteady
     DEF DaemonStep, WaitStep
<1>3. CASE \E p \in Positions, kind \in Kinds : HandlerExit(p, kind)
  BY <1>3, PlacingKeepsSteady
<1>4. CASE Crash \/ Restart \/ Reconnect
  BY <1>4, EndKeepsSteady, RestartKeepsSteady, ReconnectKeepsSteady
<1>5. CASE UNCHANGED vars
  BY <1>5 DEF vars, Steady, TypeOK, Named, Lagging, InHand, Subject
<1> QED
  BY <1>1, <1>2, <1>3, <1>4, <1>5 DEF Next

\* Orders, tracker and markers keep their types: what is tracked is an order for
\* its position, and an order is in hand exactly while it is waited for.
THEOREM ExitTypeCorrect == Spec => []TypeOK
<1>1. Steady /\ [Next]_vars => Steady'
  BY SteadyStep
<1>2. Steady => TypeOK
  BY DEF Steady
<1> QED
  BY SteadyInit, <1>1, <1>2, PTL DEF Spec

-----------------------------------------------------------------------------
(* What the governor hears.                                                *)

\* A recorded close was counted, or its fill is still tracked and will be.
Heard ==
    breaks = 0 =>
        /\ pc # "down"
        /\ \A p \in Keyed : p \in exited => outcomes[p] > 0 \/ FillSeen(p)

\* An order is placed where no fill is tracked.
LEMMA PlaceKeepsHeard ==
    ASSUME Steady, Heard, NEW p \in Positions, NEW kind, Place(p, kind), ~FillSeen(p),
           pc' # "down", exited' = exited, outcomes' = outcomes, breaks' = breaks
    PROVE  Heard'
<1>0. /\ cur' \in Orders /\ broker[cur'] = "none"
      /\ view' = [view EXCEPT ![cur'] = "PendingSubmit"]
      /\ tracked' = [tracked EXCEPT ![p] = cur']
  BY PlaceFacts
<1>1. /\ NoOrder \notin Orders /\ OrderOrNone = Orders \cup {NoOrder}
      /\ TypeOK
  BY BoundsAssumption DEF Steady, Orders, OrderOrNone, NoOrder
<1>2. ASSUME NEW q \in Positions, FillSeen(q)
      PROVE  FillSeen(q)'
  <2>1. q # p /\ tracked'[q] = tracked[q] /\ tracked[q] # cur'
    BY <1>0, <1>1, <1>2 DEF TypeOK, FillSeen
  <2> QED
    BY <1>0, <1>1, <1>2, <2>1 DEF TypeOK, FillSeen
<1> QED
  BY <1>2, PositionsAssumption DEF Heard

LEMMA HeardStep == ASSUME Steady, Heard, [Next]_vars PROVE Heard'
<1>0. Keyed \subseteq Positions /\ TypeOK
  BY PositionsAssumption DEF Steady
<1>1. CASE Crash \/ Reconnect
  <2>1. breaks' = breaks + 1 /\ breaks \in Nat
    BY <1>0, <1>1 DEF Crash, Reconnect, Break, TypeOK
  <2> QED
    BY <2>1 DEF Heard
<1>2. CASE Restart
  BY <1>2 DEF Restart, Heard
<1>3. CASE \/ BrokerStep \/ EndMonitor \/ UNCHANGED vars
           \/ \E p \in Positions, kind \in Kinds : MonitorPasses(p, kind)
  <2>1. UNCHANGED <<exited, outcomes, tracked, view, breaks>> /\ (pc' = "down" => pc = "down")
    BY <1>3 DEF BrokerStep, BrokerAccept, BrokerFill, BrokerDrop, EndMonitor, MonitorPasses, vars,
                viewVars, dbVars
  <2> QED
    BY <2>1 DEF Heard, FillSeen
<1>4. CASE Deliver
  <2>1. UNCHANGED <<broker, exited, outcomes, tracked, pc, breaks>>
    BY <1>4 DEF Deliver, DeliverOrder, DeliverPosition, brokerVars, dbVars
  <2>2. \A o \in Orders : view[o] = "Filled" => view'[o] = "Filled"
    BY <1>0, <1>4 DEF Deliver, DeliverOrder, DeliverPosition, StatusOf, Steady, Lagging, TypeOK
  <2>3. OrderOrNone = Orders \cup {NoOrder}
    BY BoundsAssumption DEF Orders, OrderOrNone, NoOrder
  <2> QED
    BY <1>0, <2>1, <2>2, <2>3 DEF Heard, FillSeen, TypeOK
<1>5. CASE BeginMonitor
  <2>1. /\ pc' = "monitoring" /\ breaks' = breaks
        /\ exited' = exited \cup {p \in Positions : FillSeen(p)}
        /\ outcomes' = [p \in Positions |->
                          outcomes[p] + IF FillSeen(p) THEN CountOutcome(exited', p) ELSE 0]
    BY <1>5 DEF BeginMonitor, CheckPending
  <2>2. ASSUME breaks = 0, NEW p \in Keyed, p \in exited'
        PROVE  outcomes'[p] > 0
    <3>1. CASE FillSeen(p)
      BY <1>0, <2>1, <2>2, <3>1 DEF CountOutcome, TypeOK
    <3>2. CASE ~FillSeen(p)
      BY <1>0, <2>1, <2>2, <3>2 DEF Heard, TypeOK
    <3> QED
      BY <3>1, <3>2
  <2> QED
    BY <2>1, <2>2 DEF Heard
<1>6. ASSUME NEW p \in Positions, NEW kind \in Kinds,
             MonitorExit(p, kind) \/ HandlerExit(p, kind)
      PROVE  Heard'
  <2>1. /\ Place(p, kind) /\ pc' = "placed" /\ exited' = exited
        /\ outcomes' = outcomes /\ breaks' = breaks /\ MayExit(p)
    BY <1>6 DEF MonitorExit, HandlerExit, dbVars
  <2>2. ~FillSeen(p)
    BY <2>1 DEF MayExit, FillSeen
  <2> QED
    BY <2>1, <2>2, PlaceKeepsHeard
<1>7. CASE TimeoutStuckLimit
  <2>1. cur # NoOrder
    BY <1>0, <1>7 DEF TimeoutStuckLimit, TypeOK
  <2>2. Subject \in Positions /\ ~FillSeen(Subject)
    BY <1>7, <2>1, SubjectIsTracked DEF TimeoutStuckLimit, FillSeen, Steady, InHand
  <2> QED
    BY <1>7, <2>2, PlaceKeepsHeard DEF TimeoutStuckLimit, dbVars
<1>8. CASE WaitStep
  <2>1. cur # NoOrder /\ view' = view /\ breaks' = breaks /\ pc' # "down"
    BY <1>0, <1>8 DEF WaitStep, TypeOK, Mark, TimeoutStuckMarket, RetryFilled, RetryFails, RetryWorking, Return, brokerVars, viewVars
  <2>2. tracked[Subject] = cur /\ Subject \in Positions
    BY <2>1, SubjectIsTracked DEF Steady, InHand
  <2>3. \A p \in Positions : outcomes'[p] >= outcomes[p]
    <3>1. \A closed : CountOutcome(closed, Subject) \in {0, 1}
      BY DEF CountOutcome
    <3>2. \/ outcomes' = outcomes
          \/ \E closed : outcomes' = [outcomes EXCEPT ![Subject] = @ + CountOutcome(closed, Subject)]
      BY <1>8 DEF WaitStep, Mark, TimeoutStuckMarket,
             RetryFilled, RetryFails, RetryWorking, Return, EmitClosed
    <3> QED
      BY <1>0, <3>1, <3>2 DEF TypeOK
  <2>4. ASSUME \A p \in Positions : p \in exited' => p \in exited \/ FillSeen(p),
               \A p \in Positions : FillSeen(p) => tracked'[p] = tracked[p]
        PROVE  Heard'
    <3>1. \A p \in Positions : FillSeen(p) => FillSeen(p)'
      BY <2>1, <2>4 DEF FillSeen
    <3>2. \A p \in Positions : outcomes[p] \in Nat /\ outcomes'[p] \in Nat
      BY <1>0, SteadyStep DEF Steady, TypeOK
    <3>3. ASSUME breaks = 0, NEW p \in Keyed, p \in exited'
          PROVE  outcomes'[p] > 0 \/ FillSeen(p)'
      <4>1. p \in Positions
        BY <1>0
      <4>2. outcomes[p] > 0 \/ FillSeen(p)
        BY <2>4, <3>3, <4>1 DEF Heard
      <4>3. outcomes[p] > 0 => outcomes'[p] > 0
        BY <2>3, <3>2, <4>1
      <4> QED
        BY <3>1, <4>1, <4>2, <4>3
    <3> QED
      BY <2>1, <3>3 DEF Heard
  <2>5. CASE RetryFilled
    <3>1. exited' = exited \cup {Subject} /\ tracked' = tracked /\ FillSeen(Subject)
      BY <2>1, <2>2, <2>5 DEF RetryFilled, FillSeen
    <3> QED
      BY <2>4, <3>1
  <2>6. CASE TimeoutStuckMarket
    <3>1. /\ exited' = exited /\ tracked' = [tracked EXCEPT ![Subject] = NoOrder]
          /\ ~FillSeen(Subject)
      BY <2>2, <2>6 DEF TimeoutStuckMarket, FillSeen, Steady, InHand, dbVars
    <3>2. \A p \in Positions : FillSeen(p) => tracked'[p] = tracked[p]
      BY <1>0, <3>1 DEF TypeOK
    <3> QED
      BY <2>4, <3>1, <3>2
  <2>7. CASE Mark \/ RetryFails \/ RetryWorking
    <3>1. exited' = exited /\ tracked' = tracked
      BY <2>7 DEF Mark, RetryFails, RetryWorking, dbVars
    <3> QED
      BY <2>4, <3>1
  <2> QED
    BY <1>8, <2>5, <2>6, <2>7 DEF WaitStep
<1> QED
  BY <1>1, <1>2, <1>3, <1>4, <1>5, <1>6, <1>7, <1>8 DEF Next, DaemonStep, WaitStep

\* The governor hears of every close it can look up, whatever else goes wrong, as
\* long as the daemon lives: for any positions, orders and waits.
THEOREM ClosesAreCounted == Spec => []EveryCloseIsCounted
<1>1. Init => Steady /\ Heard
  BY SteadyInit DEF Init, Heard
<1>2. Steady /\ Heard /\ [Next]_vars => (Steady /\ Heard)'
  BY SteadyStep, HeardStep
<1>3. Steady /\ Heard => EveryCloseIsCounted
  BY DEF Heard, EveryCloseIsCounted, FillSeen
<1> QED
  BY <1>1, <1>2, <1>3, PTL DEF Spec

-----------------------------------------------------------------------------
(* One exit at a time.                                                     *)

\* What is meant to buy is tracked while the daemon lives, and marked while it does not.
\* What bought is seen: by the table, in the position, or as the fill of the tracked order.
Kept ==
    \A p \in Positions : \A o \in Wanted(p) :
        /\ broker[o] \in Working =>
               p \notin exited /\ (IF pc = "down" THEN marked[p] = o ELSE tracked[p] = o)
        /\ broker[o] = "filled" =>
               \/ p \in exited \/ pc = "down" \/ heldView[p] >= 0
               \/ tracked[p] = o /\ view[o] # "unknown"

\* While the first order of an exit is waited for, nothing else is meant to buy.
Alone == pc \in {"placed", "waiting"} => Wanted(Subject) \subseteq {cur}

\* A position that is bought back is not short.
Lots ==
    \A p \in Positions :
        /\ held[p] >= -1
        /\ \A o \in Orders : ordPos[o] = p /\ broker[o] = "filled" => held[p] >= 0

\* No exit is decided, or under way, for a position that has exited.
Decided ==
    /\ \A e \in todo : e[1] \notin exited
    /\ \A e, f \in todo : e[1] = f[1] => e = f
    /\ pc \in {"idle", "down"} \/ (cur # NoOrder /\ caller = "handler") => todo = {}
    /\ cur # NoOrder => Subject \notin exited /\ \A e \in todo : e[1] # Subject

Guarded == OneExitWanted /\ Kept /\ Alone /\ Lots /\ Decided

LEMMA GuardedInit == Init => Guarded
<1> SUFFICES ASSUME Init PROVE Guarded
  OBVIOUS
<1>1. \A p \in Positions : Wanted(p) = {}
  BY DEF Init, Wanted, Working
<1>2. Lots
  BY DEF Init, Lots
<1> QED
  BY <1>1, <1>2 DEF Init, Guarded, OneExitWanted, Kept, Alone, Decided

\* Where the guard lets an exit through, nothing is meant to buy, or did.
LEMMA NothingWanted ==
    ASSUME Steady, Guarded, NEW p \in Positions, MayExit(p), p \notin exited, pc # "down"
    PROVE  Wanted(p) = {}
<1> SUFFICES ASSUME NEW o \in Wanted(p) PROVE FALSE
  OBVIOUS
<1>1. o \in Orders /\ (broker[o] \in Working \/ broker[o] = "filled")
  BY DEF Wanted
<1>2. tracked[p] = NoOrder /\ ~(heldView[p] >= 0)
  BY DEF MayExit, Steady, TypeOK
<1> QED
  BY <1>1, <1>2, OrderFacts DEF Guarded, Kept

\* A new order is the one of its position.
LEMMA PlaceKeepsGuarded ==
    ASSUME Steady, Guarded, NEW p \in Positions, NEW kind, Place(p, kind),
           pc # "down", pc' \in {"placed", "retrying"}, p \notin exited,
           asked \subseteq asked', Wanted(p) \subseteq asked',
           \A e \in todo' : e[1] # p, todo' \subseteq todo,
           caller' = "handler" => todo' = {},
           UNCHANGED <<held, lost, heldView, exited>>
    PROVE  Guarded'
<1>0. /\ cur' \in Orders /\ broker[cur'] = "none"
      /\ broker' = [broker EXCEPT ![cur'] = "sent"]
      /\ ordPos' = [ordPos EXCEPT ![cur'] = p]
      /\ view' = [view EXCEPT ![cur'] = "PendingSubmit"]
      /\ tracked' = [tracked EXCEPT ![p] = cur']
  BY PlaceFacts
<1>1. /\ TypeOK /\ cur' # NoOrder /\ pc' # "down"
  BY <1>0, OrderFacts DEF Steady
<1>2. /\ broker'[cur'] = "sent" /\ ordPos'[cur'] = p /\ tracked'[p] = cur'
      /\ view'[cur'] = "PendingSubmit"
      /\ \A o \in Orders \ {cur'} :
            broker'[o] = broker[o] /\ ordPos'[o] = ordPos[o] /\ view'[o] = view[o]
      /\ \A q \in Positions \ {p} : tracked'[q] = tracked[q]
  BY <1>0, <1>1 DEF TypeOK
<1>3. Wanted(p)' \subseteq {cur'}
  BY <1>2 DEF Wanted
<1>4. \A q \in Positions \ {p} : Wanted(q)' \subseteq Wanted(q) /\ cur' \notin Wanted(q)'
  BY <1>2 DEF Wanted
<1>5. OneExitWanted'
  <2> SUFFICES ASSUME NEW q \in Positions, NEW o \in Wanted(q)', NEW r \in Wanted(q)'
               PROVE  o = r
    BY DEF OneExitWanted
  <2> QED
    BY <1>3, <1>4 DEF Guarded, OneExitWanted
<1>6. Kept'
  <2> SUFFICES ASSUME NEW q \in Positions, NEW o \in Wanted(q)'
               PROVE  /\ broker'[o] \in Working => q \notin exited' /\ tracked'[q] = o
                      /\ broker'[o] = "filled" =>
                            \/ q \in exited' \/ heldView'[q] >= 0
                            \/ tracked'[q] = o /\ view'[o] # "unknown"
    BY <1>1 DEF Kept
  <2>1. CASE q = p
    BY <1>2, <1>3, <2>1
  <2>2. CASE q # p
    <3>1. o \in Wanted(q) /\ o # cur' /\ o \in Orders
      BY <1>4, <2>2 DEF Wanted
    <3> QED
      BY <1>2, <2>2, <3>1 DEF Guarded, Kept
  <2> QED
    BY <2>1, <2>2
<1>7. Subject' = p
  BY <1>2 DEF Subject
<1>8. Alone'
  BY <1>3, <1>7 DEF Alone
<1>9. Lots'
  BY <1>2 DEF Guarded, Lots
<1>10. Decided'
  BY <1>1, <1>7 DEF Guarded, Decided
<1> QED
  BY <1>5, <1>6, <1>8, <1>9, <1>10 DEF Guarded

LEMMA ExitKeepsGuarded ==
    ASSUME Steady, Guarded, NEW p \in Positions, NEW kind \in Kinds,
           MonitorExit(p, kind) \/ HandlerExit(p, kind)
    PROVE  Guarded'
<1>1. /\ Place(p, kind) /\ pc' = "placed" /\ pc # "down" /\ MayExit(p)
      /\ UNCHANGED <<held, lost, heldView, exited, asked>>
      /\ cur = NoOrder
  BY DEF MonitorExit, HandlerExit, dbVars, lossVars, Steady, TypeOK
<1>2. /\ p \notin exited
      /\ \A e \in todo' : e[1] # p
      /\ todo' \subseteq todo
      /\ caller' = "handler" => todo' = {}
  <2>1. CASE MonitorExit(p, kind)
    <3>1. <<p, kind>> \in todo /\ todo' = todo \ {<<p, kind>>} /\ caller' = "monitor"
      BY <2>1 DEF MonitorExit
    <3> QED
      BY <3>1 DEF Guarded, Decided
  <2>2. CASE HandlerExit(p, kind)
    BY <2>2 DEF HandlerExit, Guarded, Decided
  <2> QED
    BY <2>1, <2>2
<1>3. Wanted(p) = {}
  BY <1>1, <1>2, NothingWanted
<1> QED
  BY <1>1, <1>2, <1>3, PlaceKeepsGuarded

LEMMA RetryKeepsGuarded == ASSUME Steady, Guarded, TimeoutStuckLimit PROVE Guarded'
<1>1. cur # NoOrder /\ pc = "waiting"
  BY DEF TimeoutStuckLimit, Steady, TypeOK
<1>2. Subject \in Positions
  BY <1>1, SubjectIsTracked
<1>3. /\ Place(Subject, "market") /\ pc' = "retrying" /\ asked' = asked \cup {cur}
      /\ UNCHANGED <<held, lost, heldView, exited, todo, caller>>
  BY DEF TimeoutStuckLimit, dbVars, lossVars
<1>4. Wanted(Subject) \subseteq {cur}
  BY <1>1 DEF Guarded, Alone
<1>5. /\ Subject \notin exited /\ \A e \in todo : e[1] # Subject
      /\ caller = "handler" => todo = {}
  BY <1>1 DEF Guarded, Decided
<1> QED
  BY <1>1, <1>2, <1>3, <1>4, <1>5, PlaceKeepsGuarded

\* A step that only lets go of orders, or writes down what they did, keeps the rest.
LEMMA LetGo ==
    ASSUME Guarded, UNCHANGED <<broker, ordPos>>, asked \subseteq asked', lost \subseteq lost'
    PROVE  /\ \A p \in Positions : Wanted(p)' \subseteq Wanted(p)
           /\ OneExitWanted'
           /\ held' = held => Lots'
<1>1. \A p \in Positions : Wanted(p)' \subseteq Wanted(p)
  BY DEF Wanted
<1>2. OneExitWanted'
  BY <1>1 DEF Guarded, OneExitWanted
<1> QED
  BY <1>1, <1>2 DEF Guarded, Lots

LEMMA BrokerKeepsGuarded == ASSUME Steady, Guarded, BrokerStep PROVE Guarded'
<1>1. PICK o \in Orders : BrokerAccept(o) \/ BrokerFill(o) \/ BrokerDrop(o)
  BY DEF BrokerStep
<1>2. /\ UNCHANGED <<ordPos, asked, lost, view, heldView, marked, exited, tracked, todo, pc,
                     cur, caller>>
      /\ broker[o] \in Working
      /\ TypeOK /\ Lagging
  BY <1>1 DEF BrokerAccept, BrokerFill, BrokerDrop, Working, Steady, lossVars, viewVars, dbVars
<1>3. PICK s \in {"live", "filled", "dead"} : broker' = [broker EXCEPT ![o] = s]
  BY <1>1 DEF BrokerAccept, BrokerFill, BrokerDrop
<1>4. /\ broker'[o] = s /\ \A q \in Orders \ {o} : broker'[q] = broker[q]
  BY <1>2, <1>3 DEF TypeOK
<1>5. \A p \in Positions : Wanted(p)' \subseteq Wanted(p)
  BY <1>2, <1>4 DEF Wanted, Working
<1>6. OneExitWanted'
  BY <1>5 DEF Guarded, OneExitWanted
<1>7. Kept'
  <2> SUFFICES ASSUME NEW p \in Positions, NEW q \in Wanted(p)'
               PROVE  /\ broker'[q] \in Working =>
                            p \notin exited /\ (IF pc = "down" THEN marked[p] = q ELSE tracked[p] = q)
                      /\ broker'[q] = "filled" =>
                            \/ p \in exited \/ pc = "down" \/ heldView[p] >= 0
                            \/ tracked[p] = q /\ view[q] # "unknown"
    BY <1>2 DEF Kept
  <2>1. q \in Wanted(p) /\ q \in Orders /\ q \notin lost
    BY <1>5 DEF Wanted
  <2>2. CASE q = o
    <3>1. p \notin exited /\ (IF pc = "down" THEN marked[p] = q ELSE tracked[p] = q)
      BY <1>2, <2>1, <2>2 DEF Guarded, Kept
    <3>2. view[q] # "unknown"
      BY <1>2, <2>1, <2>2 DEF Lagging
    <3> QED
      BY <3>1, <3>2
  <2>3. CASE q # o
    BY <1>4, <2>1, <2>3 DEF Guarded, Kept
  <2> QED
    BY <2>2, <2>3
<1>8. Alone'
  <2>1. ASSUME pc \in {"placed", "waiting"} PROVE Wanted(Subject)' \subseteq {cur}
    <3>1. cur # NoOrder
      BY <1>2, <2>1 DEF TypeOK
    <3>2. Subject \in Positions /\ Subject' = Subject
      BY <1>2, <3>1, SubjectIsTracked DEF Subject
    <3>3. Wanted(Subject) \subseteq {cur}
      BY <2>1 DEF Guarded, Alone
    <3> QED
      BY <1>2, <1>5, <3>2, <3>3 DEF Wanted, Subject
  <2> QED
    BY <1>2, <2>1 DEF Alone
<1>9. Lots'
  <2>1. CASE broker'[o] = "filled"
    <3>1. held' = [held EXCEPT ![ordPos[o]] = @ + 1]
      BY <1>1, <1>4, <2>1, <1>2 DEF BrokerAccept, BrokerFill, BrokerDrop, TypeOK
    <3>2. ordPos[o] \in Positions /\ held \in [Positions -> Int]
      BY <1>2 DEF TypeOK
    <3> QED
      BY <1>2, <1>4, <3>1, <3>2 DEF Guarded, Lots
  <2>2. CASE broker'[o] # "filled"
    <3>1. held' = held
      BY <1>1, <1>2, <2>2 DEF BrokerAccept, BrokerFill, BrokerDrop, TypeOK
    <3> QED
      BY <1>2, <1>4, <2>2, <3>1 DEF Guarded, Lots
  <2> QED
    BY <2>1, <2>2
<1>10. Decided'
  BY <1>2 DEF Guarded, Decided, Subject
<1> QED
  BY <1>6, <1>7, <1>8, <1>9, <1>10 DEF Guarded

LEMMA DeliverKeepsGuarded == ASSUME Steady, Guarded, Deliver PROVE Guarded'
<1>1. /\ UNCHANGED <<broker, ordPos, held, asked, lost, marked, exited, tracked, todo, pc, cur,
                     caller>>
      /\ TypeOK
      /\ pc \notin {"placed", "waiting"}
  BY DEF Deliver, DeliverOrder, DeliverPosition, brokerVars, dbVars, lossVars, Steady, Listening
<1>2. \A o \in Orders : view[o] # "unknown" => view'[o] # "unknown"
  <2>1. \A o \in Orders : StatusOf(o) # "unknown"
    BY DEF StatusOf
  <2> QED
    BY <1>1, <2>1 DEF Deliver, DeliverOrder, DeliverPosition, TypeOK
<1>3. \A p \in Positions : heldView'[p] \in {heldView[p], held[p]}
  BY <1>1 DEF Deliver, DeliverOrder, DeliverPosition, TypeOK
<1>4. OneExitWanted' /\ Lots' /\ \A p \in Positions : Wanted(p)' \subseteq Wanted(p)
  BY <1>1, LetGo
<1>5. Kept'
  <2> SUFFICES ASSUME NEW p \in Positions, NEW o \in Wanted(p)'
               PROVE  /\ broker[o] \in Working =>
                            p \notin exited /\ (IF pc = "down" THEN marked[p] = o ELSE tracked[p] = o)
                      /\ broker[o] = "filled" =>
                            \/ p \in exited \/ pc = "down" \/ heldView'[p] >= 0
                            \/ tracked[p] = o /\ view'[o] # "unknown"
    BY <1>1 DEF Kept
  <2>1. o \in Wanted(p) /\ o \in Orders /\ ordPos[o] = p
    BY <1>4 DEF Wanted
  <2>2. broker[o] = "filled" => held[p] >= 0
    BY <2>1 DEF Guarded, Lots
  <2> QED
    BY <1>2, <1>3, <2>1, <2>2 DEF Guarded, Kept
<1>6. Alone' /\ Decided'
  BY <1>1 DEF Guarded, Alone, Decided, Subject
<1> QED
  BY <1>4, <1>5, <1>6 DEF Guarded

LEMMA CheckKeepsGuarded == ASSUME Steady, Guarded, BeginMonitor PROVE Guarded'
<1>1. /\ UNCHANGED <<broker, ordPos, held, asked, lost, view, heldView, cur>>
      /\ pc = "idle" /\ pc' = "monitoring" /\ cur = NoOrder
      /\ exited' = exited \cup {p \in Positions : FillSeen(p)}
      /\ tracked' = [p \in Positions |-> IF Settled(p) THEN NoOrder ELSE tracked[p]]
  BY DEF BeginMonitor, CheckPending, brokerVars, viewVars, lossVars, Steady, TypeOK
<1>2. PICK S \in SUBSET {p \in Positions : p \notin exited' /\ marked'[p] = NoOrder},
           kind \in [Positions -> Kinds] : todo' = {<<p, kind[p]>> : p \in S}
  BY DEF BeginMonitor
<1>3. OneExitWanted' /\ Lots' /\ \A p \in Positions : Wanted(p)' \subseteq Wanted(p)
  BY <1>1, LetGo
<1>4. Kept'
  <2> SUFFICES ASSUME NEW p \in Positions, NEW o \in Wanted(p)'
               PROVE  /\ broker[o] \in Working => p \notin exited' /\ tracked'[p] = o
                      /\ broker[o] = "filled" =>
                            \/ p \in exited' \/ heldView[p] >= 0
                            \/ tracked'[p] = o /\ view[o] # "unknown"
    BY <1>1 DEF Kept
  <2>1. o \in Wanted(p) /\ o \in Orders /\ o \notin lost
    BY <1>3 DEF Wanted
  <2>2. Lagging
    BY DEF Steady
  <2>3. CASE broker[o] \in Working
    <3>1. p \notin exited /\ tracked[p] = o
      BY <1>1, <2>1, <2>3 DEF Guarded, Kept
    <3>2. view[o] \notin {"unknown", "Filled", "Cancelled"}
      BY <2>1, <2>2, <2>3 DEF Lagging, Working
    <3>3. ~Settled(p) /\ ~FillSeen(p)
      BY <3>1, <3>2 DEF Settled, FillSeen
    <3> QED
      BY <1>1, <2>3, <3>1, <3>3 DEF Working
  <2>4. CASE broker[o] = "filled"
    <3>1. ASSUME tracked[p] = o, view[o] # "unknown"
          PROVE  p \in exited' \/ tracked'[p] = o
      <4>1. view[o] # "Cancelled"
        BY <2>1, <2>2, <2>4 DEF Lagging
      <4>2. CASE view[o] = "Filled"
        BY <1>1, <2>1, <3>1, <4>2, OrderFacts DEF FillSeen
      <4>3. CASE view[o] # "Filled"
        BY <1>1, <3>1, <4>1, <4>3 DEF Settled
      <4> QED
        BY <4>2, <4>3
    <3> QED
      BY <1>1, <2>1, <2>4, <3>1 DEF Guarded, Kept, Working
  <2> QED
    BY <2>3, <2>4
<1>5. Alone'
  BY <1>1 DEF Alone
<1>6. Decided'
  BY <1>1, <1>2 DEF Decided
<1> QED
  BY <1>3, <1>4, <1>5, <1>6 DEF Guarded

LEMMA WaitKeepsGuarded == ASSUME Steady, Guarded, WaitStep PROVE Guarded'
<1>1. /\ UNCHANGED <<broker, ordPos, held, lost, view, heldView, todo>>
      /\ caller' \in {caller, "monitor"}
      /\ cur # NoOrder /\ pc \notin {"down", "idle"} /\ TypeOK
      /\ asked \subseteq asked'
  BY DEF WaitStep, Steady, TypeOK, Mark, TimeoutStuckMarket, RetryFilled, RetryFails,
         RetryWorking, Return, brokerVars, viewVars, lossVars
<1>2. cur \in Orders /\ Subject \in Positions /\ tracked[Subject] = cur
  BY <1>1, SubjectIsTracked DEF Steady, InHand
<1>3. \/ pc = "placed" /\ pc' = "waiting" /\ cur' = cur /\ caller' = caller /\ exited' = exited
      \/ /\ pc' = IF caller = "monitor" THEN "monitoring" ELSE "idle"
         /\ cur' = NoOrder
  BY DEF WaitStep, Mark, TimeoutStuckMarket, RetryFilled, RetryFails, RetryWorking, Return
<1>4. OneExitWanted' /\ Lots' /\ \A p \in Positions : Wanted(p)' \subseteq Wanted(p)
  BY <1>1, LetGo
<1>5. /\ exited' = exited \/ (exited' = exited \cup {Subject} /\ view[cur] = "Filled")
      /\ \/ tracked' = tracked
         \/ tracked' = [tracked EXCEPT ![Subject] = NoOrder] /\ cur \in asked'
  BY DEF WaitStep, Mark, TimeoutStuckMarket, RetryFilled, RetryFails, RetryWorking, Return, dbVars
<1>6. Kept'
  <2>0. pc' # "down" /\ pc # "down"
    BY <1>1, <1>3
  <2> SUFFICES ASSUME NEW p \in Positions, NEW o \in Wanted(p)'
               PROVE  /\ broker[o] \in Working => p \notin exited' /\ tracked'[p] = o
                      /\ broker[o] = "filled" =>
                            \/ p \in exited' \/ heldView[p] >= 0
                            \/ tracked'[p] = o /\ view[o] # "unknown"
    BY <1>1, <2>0 DEF Kept
  <2>1. o \in Wanted(p) /\ o \in Orders /\ o \notin asked'
    BY <1>4 DEF Wanted
  <2>2. tracked[p] = o => tracked'[p] = o
    BY <1>1, <1>2, <1>5, <2>1 DEF TypeOK
  <2>3. broker[o] \in Working => p \notin exited /\ tracked[p] = o
    BY <2>0, <2>1 DEF Guarded, Kept
  <2>4. broker[o] = "filled" => \/ p \in exited \/ heldView[p] >= 0
                                \/ tracked[p] = o /\ view[o] # "unknown"
    BY <2>0, <2>1 DEF Guarded, Kept
  <2>5. ASSUME broker[o] \in Working PROVE p \notin exited'
    <3>1. CASE p = Subject /\ view[cur] = "Filled"
      BY <1>2, <2>3, <2>5, <3>1 DEF Steady, Lagging, Working
    <3> QED
      BY <1>5, <2>3, <2>5, <3>1
  <2> QED
    BY <1>5, <2>2, <2>3, <2>4, <2>5
<1>7. Alone'
  <2>1. CASE pc' = "waiting"
    <3>1. pc = "placed" /\ cur' = cur /\ Subject' = Subject
      BY <1>1, <1>3, <2>1 DEF Subject
    <3>2. Wanted(Subject)' \subseteq Wanted(Subject)
      BY <1>1, <3>1 DEF Wanted, Subject
    <3> QED
      BY <3>1, <3>2 DEF Guarded, Alone
  <2>2. CASE pc' # "waiting"
    BY <1>3, <2>2 DEF Alone
  <2> QED
    BY <2>1, <2>2
<1>8. Decided'
  <2>1. /\ \A e \in todo : e[1] \notin exited /\ e[1] # Subject
        /\ \A e, f \in todo : e[1] = f[1] => e = f
        /\ caller = "handler" => todo = {}
        /\ Subject \notin exited
    BY <1>1 DEF Guarded, Decided
  <2>2. caller \in {"monitor", "handler"}
    BY <1>1 DEF TypeOK, Callers
  <2>3. CASE cur' = cur
    <3>1. pc' = "waiting" /\ caller' = caller /\ exited' = exited
      BY <1>1, <1>3, <2>3
    <3> QED
      BY <1>1, <2>1, <2>3, <3>1 DEF Decided, Subject
  <2>4. CASE cur' = NoOrder
    <3>1. pc' = IF caller = "monitor" THEN "monitoring" ELSE "idle"
      BY <1>1, <1>3, <2>4
    <3> QED
      BY <1>1, <1>5, <2>1, <2>2, <2>4, <3>1 DEF Decided
  <2> QED
    BY <1>3, <2>3, <2>4
<1> QED
  BY <1>4, <1>6, <1>7, <1>8 DEF Guarded

LEMMA EndKeepsGuarded ==
    ASSUME Steady, Guarded,
           EndMonitor \/ \E p \in Positions, kind \in Kinds : MonitorPasses(p, kind)
    PROVE  Guarded'
<1>1. /\ UNCHANGED <<broker, ordPos, held, asked, lost, view, heldView, exited, marked, tracked,
                     cur, caller>>
      /\ pc = "monitoring" /\ cur = NoOrder
      /\ pc' = "monitoring" \/ (pc' = "idle" /\ todo = {})
      /\ todo' \subseteq todo
  BY DEF EndMonitor, MonitorPasses, brokerVars, viewVars, dbVars, lossVars, Steady, TypeOK
<1>2. OneExitWanted' /\ Lots' /\ \A p \in Positions : Wanted(p)' = Wanted(p)
  BY <1>1, LetGo DEF Wanted
<1>3. Kept'
  BY <1>1, <1>2 DEF Guarded, Kept
<1>4. Alone' /\ Decided'
  BY <1>1 DEF Guarded, Alone, Decided
<1> QED
  BY <1>2, <1>3, <1>4 DEF Guarded

LEMMA ReconnectKeepsGuarded == ASSUME Steady, Guarded, Reconnect PROVE Guarded'
<1>1. /\ UNCHANGED <<broker, ordPos, held, asked, exited, marked, tracked, todo, pc, cur, caller>>
      /\ pc \in {"idle", "monitoring"} /\ NewSession(TRUE)
  BY DEF Reconnect, brokerVars, dbVars
<1>2. lost \subseteq lost' /\ heldView' = held
  BY <1>1, SessionFacts
<1>3. OneExitWanted' /\ Lots' /\ \A p \in Positions : Wanted(p)' \subseteq Wanted(p)
  BY <1>1, <1>2, LetGo
<1>4. Kept'
  BY <1>1, <1>2, <1>3 DEF Guarded, Kept, Lots, Wanted
<1>5. Alone' /\ Decided'
  BY <1>1 DEF Guarded, Alone, Decided, Subject
<1> QED
  BY <1>3, <1>4, <1>5 DEF Guarded

LEMMA CrashKeepsGuarded == ASSUME Steady, Guarded, Crash PROVE Guarded'
<1>1. /\ UNCHANGED <<broker, ordPos, held, asked, view, heldView, exited, marked>>
      /\ pc' = "down" /\ cur' = NoOrder /\ todo' = {} /\ pc # "down"
      /\ lost' = lost \cup {o \in Orders : /\ broker[o] \in Working /\ marked[ordPos[o]] # o
                                            /\ ordPos[o] \notin exited}
  BY DEF Crash, brokerVars, viewVars, dbVars
<1>2. OneExitWanted' /\ Lots' /\ \A p \in Positions : Wanted(p)' \subseteq Wanted(p)
  BY <1>1, LetGo
<1>3. Kept'
  <2> SUFFICES ASSUME NEW p \in Positions, NEW o \in Wanted(p)', broker[o] \in Working
               PROVE  p \notin exited /\ marked[p] = o
    BY <1>1 DEF Kept, Working
  <2>1. o \in Wanted(p) /\ o \in Orders /\ ordPos[o] = p /\ o \notin lost'
    BY <1>2 DEF Wanted
  <2>2. p \notin exited
    BY <2>1 DEF Guarded, Kept
  <2> QED
    BY <1>1, <2>1, <2>2
<1>4. Alone' /\ Decided'
  BY <1>1 DEF Alone, Decided
<1> QED
  BY <1>2, <1>3, <1>4 DEF Guarded

LEMMA RestartKeepsGuarded == ASSUME Steady, Guarded, Restart PROVE Guarded'
<1>0. TypeOK
  BY DEF Steady
<1>1. PICK listed \in BOOLEAN : NewSession(listed)
  BY <1>0, RestartFacts
<1>2. /\ UNCHANGED <<broker, ordPos, held, asked, todo, cur, caller>>
      /\ pc = "down" /\ cur = NoOrder /\ pc' = "idle"
      /\ exited' = exited \cup {p \in PendingRows : view'[marked[p]] = "Filled"}
      /\ tracked' = [p \in Positions |->
             IF p \in PendingRows /\ view'[marked[p]] \in {"Submitted", "PendingSubmit"}
             THEN marked[p] ELSE NoOrder]
  BY <1>0, RestartFacts
<1>3. lost \subseteq lost' /\ heldView' = held
  BY <1>1, SessionFacts
<1>4. OneExitWanted' /\ Lots' /\ \A p \in Positions : Wanted(p)' \subseteq Wanted(p)
  BY <1>2, <1>3, LetGo
<1>5. Kept'
  <2> SUFFICES ASSUME NEW p \in Positions, NEW o \in Wanted(p)'
               PROVE  /\ broker[o] \in Working => p \notin exited' /\ tracked'[p] = o
                      /\ broker[o] = "filled" => held[p] >= 0
    BY <1>2, <1>3 DEF Kept
  <2>1. o \in Wanted(p) /\ o \in Orders /\ ordPos[o] = p /\ o \notin lost' /\ o \notin asked
    BY <1>2, <1>4 DEF Wanted
  <2>2. ASSUME broker[o] \in Working PROVE p \notin exited' /\ tracked'[p] = o
    <3>1. p \notin exited /\ marked[p] = o
      BY <1>2, <2>1, <2>2 DEF Guarded, Kept
    <3>2. p \in PendingRows
      BY <2>1, <3>1, OrderFacts DEF PendingRows
    <3>3. view'[o] \in {"Submitted", "PendingSubmit"}
      <4>1. view'[o] \in {"unknown", "PendingSubmit", "Submitted", "PendingCancel", "Filled"}
        BY <1>1, <2>1, SessionFacts
      <4>2. view'[o] \notin {"unknown", "PendingCancel", "Filled"}
        BY <1>1, <2>1, <2>2, SessionFacts DEF Working
      <4> QED
        BY <4>1, <4>2
    <3> QED
      BY <1>2, <3>1, <3>2, <3>3
  <2>3. broker[o] = "filled" => held[p] >= 0
    BY <2>1 DEF Guarded, Lots
  <2> QED
    BY <2>2, <2>3
<1>6. Alone' /\ Decided'
  <2>1. todo = {}
    BY <1>2 DEF Guarded, Decided
  <2> QED
    BY <1>2, <2>1 DEF Alone, Decided
<1> QED
  BY <1>4, <1>5, <1>6 DEF Guarded

LEMMA GuardedStep == ASSUME Steady, Guarded, [Next]_vars PROVE Guarded'
<1>1. CASE BrokerStep \/ Deliver
  BY <1>1, BrokerKeepsGuarded, DeliverKeepsGuarded
<1>2. CASE DaemonStep
  BY <1>2, CheckKeepsGuarded, EndKeepsGuarded, ExitKeepsGuarded, WaitKeepsGuarded, RetryKeepsGuarded
     DEF DaemonStep, WaitStep
<1>3. CASE \E p \in Positions, kind \in Kinds : HandlerExit(p, kind)
  BY <1>3, ExitKeepsGuarded
<1>4. CASE Crash \/ Restart \/ Reconnect
  BY <1>4, CrashKeepsGuarded, RestartKeepsGuarded, ReconnectKeepsGuarded
<1>5. CASE UNCHANGED vars
  <2>1. \A p \in Positions : Wanted(p)' = Wanted(p)
    BY <1>5 DEF vars, Wanted
  <2>2. OneExitWanted' /\ Kept' /\ Lots' /\ Decided'
    BY <1>5, <2>1 DEF vars, Guarded, OneExitWanted, Kept, Lots, Decided, Subject
  <2>3. Alone'
    BY <1>5 DEF vars, Guarded, Alone, Subject, Wanted
  <2> QED
    BY <2>2, <2>3 DEF Guarded
<1> QED
  BY <1>1, <1>2, <1>3, <1>4, <1>5 DEF Next

\* Whatever waits, markers, connections and daemons do, one order at most is meant to
\* buy a position back, for any positions, orders and breaks.
THEOREM OneExitEach == Spec => []OneExitWanted
<1>1. Init => Steady /\ Guarded
  BY SteadyInit, GuardedInit
<1>2. Steady /\ Guarded /\ [Next]_vars => (Steady /\ Guarded)'
  BY SteadyStep, GuardedStep
<1>3. Steady /\ Guarded => OneExitWanted
  BY DEF Guarded
<1> QED
  BY <1>1, <1>2, <1>3, PTL DEF Spec

-----------------------------------------------------------------------------
(* Sales and how their end is booked.                                      *)

Purchases == {"profit", "stop"}
OnBook == {"held", "working"}
LegStates == {"none", "held", "working", "filled", "dead"}

Bracket == [parent : LegStates, profit : LegStates, stop : LegStates]

\* A row of the book, whatever its prices.
BookWith(x, y) == [state : {"none", "active", "closed"},
                   reason : {"none", "profit_take", "stop_loss", "expired"},
                   entry : {x}, exit : {y}]
IsBook(b) == \E x, y : b \in BookWith(x, y)

SaleTyped ==
    /\ sale \in [Sales -> [phase : {"idle", "chosen", "waiting", "filled", "unfilled", "ended"},
                           quote : SaleQuote, day : Nat]]
    /\ bracket \in [Sales -> Bracket]
    /\ DOMAIN book = Sales /\ \A s \in Sales : IsBook(book[s])
    /\ date \in Nat /\ hostDate \in {date, date + 1}

\* Nothing is at the broker or in the book before its bracket; a sale that still
\* works is of today and nothing of its bracket has filled; a put past its
\* expiration has no purchase left.
Over(s) == date > Expiration(s)
Dated(s) ==
    /\ sale[s].phase \in {"idle", "chosen"} =>
           bracket[s] = NoBracket /\ book[s].state = "none"
    /\ bracket[s].parent = "working" =>
           /\ sale[s].day = date
           /\ bracket[s].profit # "filled" /\ bracket[s].stop # "filled"
    /\ sale[s].phase \notin {"idle", "chosen"} /\ Over(s) =>
           bracket[s].profit \notin OnBook /\ bracket[s].stop \notin OnBook

\* What a watch session was told of has filled.
Told == \A s \in Sales, c \in Purchases : <<s, c>> \in pending \cup known => bracket[s][c] = "filled"

Ended == SaleTyped /\ Told /\ \A s \in Sales : Dated(s)

\* A step of one sale's command.
LEMMA CommandStep ==
    ASSUME Ended, NEW s \in Sales,
           Choose(s) \/ PlaceBracket(s) \/ EndWait(s) \/ RecordSale(s) \/ GiveUp(s)
    PROVE  Ended'
<1> USE DEF Ended
<1>0. /\ sale[s].phase \in {"idle", "chosen", "waiting", "filled", "unfilled", "ended"}
      /\ sale[s].quote \in SaleQuote /\ sale[s].day \in Nat /\ bracket[s] \in Bracket
      /\ date \in Nat
  BY DEF SaleTyped
<1>1. CASE Choose(s)
  <2>1. PICK n \in DOMAIN ChainOf[s] : \E q \in Nearest(Eligible(ChainOf[s][n])) :
            sale' = [sale EXCEPT ![s] = [phase |-> "chosen", quote |-> q, day |-> date]]
    BY <1>1 DEF Choose
  <2>9. PICK q \in Nearest(Eligible(ChainOf[s][n])) :
            sale' = [sale EXCEPT ![s] = [phase |-> "chosen", quote |-> q, day |-> date]]
    BY <2>1
  <2>2. sale[s].phase = "idle" /\ UNCHANGED <<bracket, book, pending, known, date, hostDate>>
    BY <1>1 DEF Choose
  <2>3. q \in SaleQuote
    <3>1. q \in ChainOf[s][n]
      BY <2>9 DEF Nearest, Eligible, Within
    <3> QED
      BY <2>1, <3>1, SaleFacts
  <2>4. SaleTyped'
    BY <1>0, <2>9, <2>2, <2>3 DEF SaleTyped
  <2>5. sale'[s].phase = "chosen" /\ \A u \in Sales \ {s} : sale'[u] = sale[u]
    BY <2>9 DEF SaleTyped
  <2>6. ASSUME NEW u \in Sales PROVE Dated(u)'
    BY <2>2, <2>5 DEF Dated, NoBracket, Over, Expiration
  <2> QED
    BY <2>2, <2>4, <2>6 DEF Told
<1>2. CASE PlaceBracket(s)
  <2> DEFINE b == [parent |-> "working", profit |-> "held",
                   stop |-> IF StopLoss THEN "held" ELSE "none"]
  <2>1. /\ sale[s].phase = "chosen" /\ sale[s].day = date
        /\ bracket' = [bracket EXCEPT ![s] = b]
        /\ sale' = [sale EXCEPT ![s].phase = "waiting"]
        /\ UNCHANGED <<book, pending, known, date, hostDate>>
    BY <1>2 DEF PlaceBracket
  <2>2. b \in Bracket /\ b.parent = "working" /\ b.profit # "filled" /\ b.stop # "filled"
    BY DEF Bracket, LegStates
  <2> HIDE DEF b
  <2>3. SaleTyped'
    BY <1>0, <2>1, <2>2 DEF SaleTyped
  <2>4. /\ sale'[s].phase = "waiting" /\ sale'[s].day = date /\ sale'[s].quote = sale[s].quote
        /\ bracket'[s] = b
        /\ \A u \in Sales \ {s} : sale'[u] = sale[u] /\ bracket'[u] = bracket[u]
    BY <2>1 DEF SaleTyped
  <2>5. ~Over(s)'
    BY <1>0, <2>1, <2>4 DEF Over, Expiration, SaleQuote
  <2>6. ASSUME NEW u \in Sales PROVE Dated(u)'
    BY <2>1, <2>2, <2>4, <2>5 DEF Dated, Over, Expiration
  <2>7. Told'
    <3>1. \A c \in Purchases : <<s, c>> \notin pending \cup known
      <4>1. bracket[s] = NoBracket
        BY <2>1 DEF Dated
      <4>2. \A c \in Purchases : NoBracket[c] # "filled"
        BY DEF NoBracket, Purchases
      <4> QED
        BY <4>1, <4>2 DEF Told
    <3> QED
      BY <2>1, <2>4, <3>1 DEF Told
  <2> QED
    BY <2>3, <2>6, <2>7
<1>3. CASE EndWait(s) \/ GiveUp(s)
  <2>1. PICK phase \in {"filled", "unfilled", "ended"} :
            sale' = [sale EXCEPT ![s].phase = phase]
    BY <1>3 DEF EndWait, GiveUp
  <2>2. /\ sale[s].phase # "idle" /\ UNCHANGED <<bracket, book, pending, known, date, hostDate>>
    BY <1>3 DEF EndWait, GiveUp
  <2>3. SaleTyped'
    BY <1>0, <2>1, <2>2 DEF SaleTyped
  <2>4. /\ sale'[s].phase = phase /\ sale'[s].day = sale[s].day /\ sale'[s].quote = sale[s].quote
        /\ \A u \in Sales \ {s} : sale'[u] = sale[u]
    BY <2>1 DEF SaleTyped
  <2>5. ASSUME NEW u \in Sales PROVE Dated(u)'
    BY <2>2, <2>4 DEF Dated, Over, Expiration, NoBracket, OnBook
  <2> QED
    BY <2>2, <2>3, <2>5 DEF Told
<1>4. CASE RecordSale(s)
  <2>1. PICK better : book' = [book EXCEPT ![s] = [state |-> "active", reason |-> "none",
                                     entry |-> sale[s].quote.bid + better, exit |-> 0]]
    BY <1>4 DEF RecordSale
  <2>2. /\ sale[s].phase \in {"filled", "unfilled"}
        /\ sale' = [sale EXCEPT ![s].phase = "ended"]
        /\ UNCHANGED <<bracket, pending, known, date, hostDate>>
    BY <1>4 DEF RecordSale
  <2> DEFINE b == [state |-> "active", reason |-> "none",
                   entry |-> sale[s].quote.bid + better, exit |-> 0]
  <2>3. IsBook(b) /\ book' = [book EXCEPT ![s] = b]
    BY <2>1 DEF IsBook, BookWith
  <2> HIDE DEF b
  <2>4. SaleTyped'
    BY <1>0, <2>2, <2>3 DEF SaleTyped
  <2>5. /\ sale'[s].phase = "ended" /\ sale'[s].day = sale[s].day /\ sale'[s].quote = sale[s].quote
        /\ \A u \in Sales \ {s} : sale'[u] = sale[u] /\ book'[u] = book[u]
    BY <2>2, <2>3 DEF SaleTyped
  <2>6. ASSUME NEW u \in Sales PROVE Dated(u)'
    BY <2>2, <2>5 DEF Dated, Over, Expiration
  <2> QED
    BY <2>2, <2>4, <2>6 DEF Told
<1> QED
  BY <1>1, <1>2, <1>3, <1>4

\* The broker fills and cancels.
LEMMA BrokerStepOfSale ==
    ASSUME Ended, NEW s \in Sales,
           FillParent(s) \/ Cancel(s) \/ FillChild(s, "profit") \/ FillChild(s, "stop")
    PROVE  Ended'
<1> USE DEF Ended
<1>0. bracket[s] \in Bracket /\ date \in Nat /\ sale[s].quote \in SaleQuote /\ sale[s].day \in Nat
  BY DEF SaleTyped
<1>1. CASE FillParent(s)
  <2> DEFINE b == [bracket[s] EXCEPT !.parent = "filled", !.profit = "working",
                                     !.stop = IF @ = "held" THEN "working" ELSE @]
  <2>1. /\ bracket[s].parent = "working" /\ bracket' = [bracket EXCEPT ![s] = b]
        /\ UNCHANGED <<sale, book, pending, known, date, hostDate>>
    BY <1>1 DEF FillParent, SaleTyped
  <2>2. b \in Bracket /\ b.parent = "filled"
    BY <1>0 DEF Bracket, LegStates
  <2> HIDE DEF b
  <2>3. SaleTyped' /\ bracket'[s] = b /\ \A u \in Sales \ {s} : bracket'[u] = bracket[u]
    BY <2>1, <2>2 DEF SaleTyped
  <2>4. ~Over(s) /\ sale[s].phase \notin {"idle", "chosen"}
    <3>1. sale[s].day = date
      BY <2>1 DEF Dated
    <3> QED
      BY <1>0, <2>1, <3>1 DEF Dated, NoBracket, Over, Expiration, SaleQuote
  <2>5. ASSUME NEW u \in Sales PROVE Dated(u)'
    BY <2>1, <2>2, <2>3, <2>4 DEF Dated, Over, Expiration
  <2>6. Told'
    <3>1. \A c \in Purchases : <<s, c>> \notin pending \cup known
      BY <1>0, <2>1 DEF Told, Dated, Purchases
    <3> QED
      BY <2>1, <2>3, <3>1 DEF Told
  <2> QED
    BY <2>3, <2>5, <2>6
<1>2. CASE Cancel(s)
  <2> DEFINE b == [parent |-> "dead", profit |-> "dead",
                   stop |-> IF bracket[s].stop = "none" THEN "none" ELSE "dead"]
  <2>1. /\ bracket[s].parent = "working" /\ bracket' = [bracket EXCEPT ![s] = b]
        /\ UNCHANGED <<sale, book, pending, known, date, hostDate>>
    BY <1>2 DEF Cancel, SaleTyped
  <2>2. b \in Bracket /\ b.parent = "dead" /\ b.profit \notin OnBook /\ b.stop \notin OnBook
    BY DEF Bracket, LegStates, OnBook
  <2> HIDE DEF b
  <2>3. SaleTyped' /\ bracket'[s] = b /\ \A u \in Sales \ {s} : bracket'[u] = bracket[u]
    BY <2>1, <2>2 DEF SaleTyped
  <2>4. sale[s].phase \notin {"idle", "chosen"}
    BY <2>1 DEF Dated, NoBracket
  <2>5. ASSUME NEW u \in Sales PROVE Dated(u)'
    BY <2>1, <2>2, <2>3, <2>4 DEF Dated, Over, Expiration
  <2>6. Told'
    <3>1. \A c \in Purchases : <<s, c>> \notin pending \cup known
      BY <1>0, <2>1 DEF Told, Dated, Purchases
    <3> QED
      BY <2>1, <2>3, <3>1 DEF Told
  <2> QED
    BY <2>3, <2>5, <2>6
<1>3. ASSUME NEW c \in Purchases, FillChild(s, c) PROVE Ended'
  <2> DEFINE b == [d \in DOMAIN bracket[s] |->
                      IF d = c THEN "filled"
                      ELSE IF bracket[s][d] = "working" THEN "dead" ELSE bracket[s][d]]
  <2>1. /\ bracket[s][c] = "working" /\ bracket' = [bracket EXCEPT ![s] = b]
        /\ pending' \subseteq pending \cup {<<s, c>>}
        /\ UNCHANGED <<sale, book, known, date, hostDate>>
    BY <1>3 DEF FillChild, SaleTyped
  <2>2. /\ b \in Bracket /\ b[c] = "filled" /\ b.parent # "working"
        /\ \A d \in Purchases : /\ bracket[s][d] = "filled" => b[d] = "filled"
                                /\ b[d] \in OnBook => bracket[s][d] \in OnBook
    BY <1>0, <2>1 DEF Bracket, LegStates, Purchases, OnBook
  <2> HIDE DEF b
  <2>3. SaleTyped' /\ bracket'[s] = b /\ \A u \in Sales \ {s} : bracket'[u] = bracket[u]
    BY <2>1, <2>2 DEF SaleTyped
  <2>4. sale[s].phase \notin {"idle", "chosen"}
    BY <2>1 DEF Dated, NoBracket, Purchases
  <2>5. ASSUME NEW u \in Sales PROVE Dated(u)'
    BY <2>1, <2>2, <2>3, <2>4 DEF Dated, Over, Expiration, Purchases
  <2>6. Told'
    BY <2>1, <2>2, <2>3 DEF Told
  <2> QED
    BY <2>3, <2>5, <2>6
<1> QED
  BY <1>1, <1>2, <1>3 DEF Purchases

\* At the end of a day what did not fill dies, and what has expired.
LEMMA DayStepOfSale ==
    ASSUME Ended, EndDay
    PROVE  Ended'
<1> USE DEF Ended
<1> DEFINE b(s) == [d \in DOMAIN bracket[s] |->
                      IF bracket[s][d] \in OnBook /\ (bracket[s].parent = "working" \/ Expires(s))
                      THEN "dead" ELSE bracket[s][d]]
<1>1. /\ date' = date + 1 /\ hostDate' = date + 1 /\ bracket' = [s \in Sales |-> b(s)]
      /\ UNCHANGED <<sale, book, pending, known>>
  BY DEF EndDay, OnBook
<1>2. ASSUME NEW s \in Sales
      PROVE  /\ b(s) \in Bracket /\ b(s).parent # "working"
             /\ \A c \in Purchases : /\ bracket[s][c] = "filled" => b(s)[c] = "filled"
                                     /\ b(s)[c] \in OnBook => bracket[s][c] \in OnBook /\ ~Expires(s)
             /\ bracket[s] = NoBracket => b(s) = NoBracket
  <2>1. bracket[s] \in Bracket
    BY DEF SaleTyped
  <2>2. /\ b(s) \in Bracket /\ b(s).parent # "working"
        /\ \A c \in Purchases : /\ bracket[s][c] = "filled" => b(s)[c] = "filled"
                                /\ b(s)[c] \in OnBook => bracket[s][c] \in OnBook /\ ~Expires(s)
    BY <2>1 DEF Bracket, LegStates, Purchases, OnBook
  <2>3. ASSUME bracket[s] = NoBracket PROVE b(s) = NoBracket
    <3>1. \A d \in DOMAIN bracket[s] : bracket[s][d] \notin OnBook
      BY <2>3 DEF NoBracket, OnBook
    <3>2. b(s) = [d \in DOMAIN bracket[s] |-> bracket[s][d]]
      BY <3>1
    <3> QED
      BY <2>1, <2>3, <3>2 DEF Bracket
  <2> QED
    BY <2>2, <2>3
<1> HIDE DEF b
<1>3. SaleTyped'
  BY <1>1, <1>2 DEF SaleTyped
<1>4. ASSUME NEW s \in Sales PROVE Dated(s)'
  <2>1. /\ sale[s].quote.term \in Nat /\ sale[s].day \in Nat /\ date \in Nat
    BY DEF SaleTyped, SaleQuote
  <2>2. bracket'[s] = b(s)
    BY <1>1
  <2>3. sale[s].phase # "idle" /\ Over(s)' => Expires(s)
    BY <1>1, <2>1 DEF Over, Expires, Expiration
  <2> QED
    BY <1>1, <1>2, <2>2, <2>3 DEF Dated, Purchases
<1>5. Told'
  BY <1>1, <1>2 DEF Told
<1> QED
  BY <1>3, <1>4, <1>5

LEMMA SaleStep ==
    ASSUME Ended, [SaleNext]_saleVars
    PROVE  Ended'
<1>1. ASSUME NEW s \in Sales,
             Choose(s) \/ PlaceBracket(s) \/ EndWait(s) \/ RecordSale(s) \/ GiveUp(s)
      PROVE  Ended'
  BY <1>1, CommandStep
<1>2. ASSUME NEW s \in Sales,
             FillParent(s) \/ Cancel(s) \/ FillChild(s, "profit") \/ FillChild(s, "stop")
      PROVE  Ended'
  BY <1>2, BrokerStepOfSale
<1>3. CASE EndDay
  BY <1>3, DayStepOfSale
<1>4. CASE StartWatch \/ StopWatch \/ Pump
  <2>1. UNCHANGED <<sale, bracket, book, date, hostDate>> /\ pending' \cup known' \subseteq pending \cup known
    BY <1>4 DEF StartWatch, StopWatch, Pump
  <2> QED
    BY <2>1 DEF Ended, SaleTyped, Told, Dated, Over, Expiration
<1>5. CASE WatchCycle
  <2>1. /\ UNCHANGED <<sale, bracket, pending, known, date, hostDate>>
        /\ book' = [s \in Sales |-> IF book[s].state = "active" THEN Checked(s) ELSE book[s]]
    BY <1>5 DEF WatchCycle
  <2>2. ASSUME NEW s \in Sales, NEW reason \in {"profit_take", "stop_loss", "expired"}, NEW x
        PROVE  IsBook(ClosedAs(s, reason, x))
    <3>1. PICK y, z : book[s] \in BookWith(y, z)
      BY DEF Ended, SaleTyped, IsBook
    <3>2. ClosedAs(s, reason, x) \in BookWith(y, x)
      BY <3>1 DEF ClosedAs, BookWith
    <3> QED
      BY <3>2 DEF IsBook
  <2>3. ASSUME NEW s \in Sales
        PROVE  IsBook(book'[s]) /\ (book[s].state = "none" => book'[s] = book[s])
    BY <2>1, <2>2 DEF Checked, Ended, SaleTyped
  <2>4. DOMAIN book' = Sales
    BY <2>1
  <2> QED
    BY <2>1, <2>3, <2>4 DEF Ended, SaleTyped, Told, Dated, Over, Expiration
<1>6. CASE HostMidnight
  BY <1>6 DEF HostMidnight, Ended, SaleTyped, Told, Dated, Over, Expiration
<1>7. CASE UNCHANGED saleVars
  BY <1>7 DEF saleVars, Ended, SaleTyped, Told, Dated, Over, Expiration
<1> QED
  BY <1>1, <1>2, <1>3, <1>4, <1>5, <1>6, <1>7 DEF SaleNext

LEMMA SaleStart == SaleInit => Ended
<1> SUFFICES ASSUME SaleInit PROVE Ended
  OBVIOUS
<1>1. /\ Unsold.phase = "idle" /\ NoQuoteYet \in SaleQuote
      /\ Unsold \in [phase : {"idle"}, quote : SaleQuote, day : Nat]
  BY DEF Unsold, NoQuoteYet, SaleQuote
<1>2. NoBracket \in Bracket /\ NoBracket.parent = "none"
  BY DEF NoBracket, Bracket, LegStates
<1>3. IsBook(NoBook) /\ NoBook.state = "none"
  BY DEF NoBook, IsBook, BookWith
<1>4. SaleTyped
  BY <1>1, <1>2, <1>3 DEF SaleInit, SaleTyped
<1> QED
  BY <1>1, <1>2, <1>3, <1>4 DEF SaleInit, Ended, Told, Dated

\* A sale is booked as it ended: with a price of a purchase that filled, or as
\* expired when none is known to have filled and none is left, or its last day is
\* over on the host, for any chains, terms, watch sessions and host.
THEOREM EndsAreBooked == SaleSpec => BookedAsItEnded
<1>1. ASSUME Ended, [SaleNext]_saleVars
      PROVE  \A s \in Sales : book[s].state = "active" /\ book'[s].state = "closed" =>
          /\ book'[s].reason = "profit_take" => bracket[s].profit = "filled"
          /\ book'[s].reason = "stop_loss" => bracket[s].stop = "filled"
          /\ book'[s].reason = "expired" =>
                 /\ \A c \in {"profit", "stop"} :
                       /\ <<s, c>> \notin known
                       /\ bracket[s][c] \in {"held", "working"} =>
                              date = Expiration(s) /\ hostDate > date
                 /\ book'[s].exit = 0
  <2> SUFFICES ASSUME NEW s \in Sales, book[s].state = "active", book'[s].state = "closed"
               PROVE  /\ book'[s].reason = "profit_take" => bracket[s].profit = "filled"
                      /\ book'[s].reason = "stop_loss" => bracket[s].stop = "filled"
                      /\ book'[s].reason = "expired" =>
                             /\ \A c \in {"profit", "stop"} :
                                   /\ <<s, c>> \notin known
                                   /\ bracket[s][c] \in {"held", "working"} =>
                                          date = Expiration(s) /\ hostDate > date
                             /\ book'[s].exit = 0
    OBVIOUS
  <2>1. WatchCycle
    <3>1. CASE \E u \in Sales : RecordSale(u)
      <4>1. PICK u \in Sales : RecordSale(u)
        BY <3>1
      <4>2. book'[s] = book[s] \/ book'[s].state = "active"
        BY <4>1 DEF RecordSale, Ended, SaleTyped
      <4> QED
        BY <4>2
    <3>2. book' # book
      OBVIOUS
    <3> QED
      BY <1>1, <3>1, <3>2 DEF SaleNext, saleVars, Choose, PlaceBracket, EndWait, GiveUp,
         FillParent, Cancel, FillChild, EndDay, HostMidnight, StartWatch, StopWatch, Pump
  <2>2. book'[s] = Checked(s)
    BY <2>1 DEF WatchCycle
  <2>3. PICK y, z : book[s] \in BookWith(y, z)
    BY <1>1 DEF Ended, SaleTyped, IsBook
  <2>4. \A reason, x : /\ ClosedAs(s, reason, x).reason = reason
                       /\ ClosedAs(s, reason, x).exit = x
    BY <2>3 DEF ClosedAs, BookWith
  <2>5. CASE <<s, "profit">> \in known
    <3>1. book'[s].reason = "profit_take"
      BY <2>2, <2>4, <2>5 DEF Checked
    <3> QED
      BY <1>1, <2>5, <3>1 DEF Ended, Told, Purchases
  <2>6. CASE <<s, "profit">> \notin known /\ <<s, "stop">> \in known
    <3>1. book'[s].reason = "stop_loss"
      BY <2>2, <2>4, <2>6 DEF Checked
    <3> QED
      BY <1>1, <2>6, <3>1 DEF Ended, Told, Purchases
  <2>7. CASE <<s, "profit">> \notin known /\ <<s, "stop">> \notin known
    <3>1. Overdue(s)
      BY <2>2, <2>7 DEF Checked
    <3>2. book'[s].reason = "expired" /\ book'[s].exit = 0
      BY <2>2, <2>4, <2>7, <3>1 DEF Checked
    <3>3. Expiration(s) \in Int /\ date \in Nat /\ hostDate \in {date, date + 1}
      BY <1>1 DEF Ended, SaleTyped, SaleQuote, Expiration
    <3>4. hostDate > Expiration(s)
      BY <3>1 DEF Overdue
    <3>5. Over(s) \/ (date = Expiration(s) /\ hostDate > date)
      BY <3>3, <3>4 DEF Over
    <3>6. Over(s) => \A c \in Purchases : bracket[s][c] \notin OnBook
      BY <1>1 DEF Ended, Dated, Purchases
    <3> QED
      BY <2>7, <3>2, <3>5, <3>6 DEF OnBook, Purchases
  <2> QED
    BY <2>5, <2>6, <2>7
<1> QED
  BY SaleStart, SaleStep, <1>1, PTL DEF SaleSpec, BookedAsItEnded

=============================================================================
