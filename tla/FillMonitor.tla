----------------------------- MODULE FillMonitor -----------------------------
(***************************************************************************)
(* The two loops of the command line that watch orders and replace them at *)
(* a lower limit: the fill manager after a batch of orders was submitted   *)
(* (services/fill_manager.py, the status callback of                       *)
(* rapid_fire_executor.py) and the sequential execution of the Monday      *)
(* scheduler (services/execution_scheduler.py, execution_commands.py).     *)
(*                                                                         *)
(* A cancellation is a request: the broker may fill the order before it    *)
(* takes effect.  Status events reach the program while it sleeps, so      *)
(* between any two steps of a loop.                                        *)
(***************************************************************************)
EXTENDS Integers, Sequences, FiniteSets
LOCAL INSTANCE FiniteSetsExt

CONSTANTS
    Submitted,       \* trades of the batch: 1..n
    Ordered,         \* trade -> contracts to sell (staged_contracts)
    FirstLimit,      \* limit of the first order, in steps of the adjustment
    LimitFloor,      \* min_premium_floor, in the same steps
    MaxAdjustments,
    MaxPlaced        \* bound on orders placed

ASSUME FillFacts ==
    /\ IsFiniteSet(Submitted) /\ Submitted = 1..Cardinality(Submitted)
    /\ Ordered \in [Submitted -> Nat \ {0}]
    /\ FirstLimit \in Nat /\ LimitFloor \in Nat /\ MaxAdjustments \in Nat /\ MaxPlaced \in Nat

VARIABLES
    runner,        \* "fills" (FillManager) or "monday" (ExecutionScheduler)
    brokerOrders,  \* orders at the broker, by id
    pendings,      \* pending_orders: trade -> its id, what the callback told it
    limits,        \* trade -> limit of its last order
    lowered,       \* trade -> adjustments made
    step,          \* what the loop is doing between two sleeps
    result         \* trade -> what the report says of it

fillVars == <<runner, brokerOrders, pendings, limits, lowered, step, result>>

Resting == [phase |-> "rest", trade |-> 0, qty |-> 0, order |-> 0]
NewOrder(t, q) == [trade |-> t, qty |-> q, filled |-> 0, state |-> "working",
                   seen |-> "none", news |-> TRUE]

\* An entry of pending_orders, and what a report may say of a trade.
PendingOrder == [id : 0..MaxPlaced, filled : Nat,
                 status : {"none", "open", "cancelled", "filled"}]
Outcomes == {"none", "FILLED", "WORKING", "CANCELLED", "ERROR"}

FillTypeOK ==
    /\ runner \in {"fills", "monday"}
    /\ \A n \in DOMAIN brokerOrders :
         /\ brokerOrders[n].trade \in Submitted /\ brokerOrders[n].filled \in 0..brokerOrders[n].qty
         /\ brokerOrders[n].state \in {"working", "cancelling", "cancelled", "filled"}
         /\ brokerOrders[n].seen \in {"none", "open", "cancelled", "filled"}
    /\ pendings \in [Submitted -> PendingOrder]
    /\ lowered \in [Submitted -> 0..MaxAdjustments] /\ limits \in [Submitted -> Nat]
    /\ step.phase \in {"rest", "remainder", "adjust", "register", "watch", "replace", "over"}
    /\ result \in [Submitted -> Outcomes]

\* The fill manager starts on the orders RapidFireExecutor has submitted.
FillInit ==
    /\ runner \in {"fills", "monday"}
    /\ brokerOrders = IF runner = "fills" THEN [t \in Submitted |-> NewOrder(t, Ordered[t])] ELSE <<>>
    /\ pendings = [t \in Submitted |->
                    [id |-> IF runner = "fills" THEN t ELSE 0, filled |-> 0, status |-> "none"]]
    /\ limits = [t \in Submitted |-> FirstLimit]
    /\ lowered = [t \in Submitted |-> 0]
    /\ step = Resting
    /\ result = [t \in Submitted |-> "none"]

-----------------------------------------------------------------------------
(* The broker and the status events.                                       *)

OrderFills(n) ==
    /\ brokerOrders[n].state \in {"working", "cancelling"} /\ brokerOrders[n].filled < brokerOrders[n].qty
    /\ brokerOrders' = [brokerOrders EXCEPT ![n].filled = @ + 1, ![n].news = TRUE,
                    ![n].state = IF brokerOrders[n].filled + 1 = brokerOrders[n].qty THEN "filled" ELSE @]
    /\ UNCHANGED <<runner, pendings, limits, lowered, step, result>>
CancelTakesEffect(n) ==
    /\ brokerOrders[n].state = "cancelling"
    /\ brokerOrders' = [brokerOrders EXCEPT ![n].state = "cancelled", ![n].news = TRUE]
    /\ UNCHANGED <<runner, pendings, limits, lowered, step, result>>

\* _on_order_status: an event of an id that is not in pending_orders is dropped, and the
\* count of an event is the one of its own order.
OnOrderStatus(n) ==
    /\ brokerOrders[n].news
    /\ LET status == IF brokerOrders[n].state \in {"working", "cancelling"} THEN "open" ELSE brokerOrders[n].state
           t == brokerOrders[n].trade
       IN /\ brokerOrders' = [brokerOrders EXCEPT ![n].news = FALSE, ![n].seen = status]
          /\ pendings' = IF pendings[t].id # n THEN pendings
                        ELSE [pendings EXCEPT ![t].status = status,
                                ![t].filled = IF brokerOrders[n].filled > 0 THEN brokerOrders[n].filled ELSE @]
    /\ UNCHANGED <<runner, limits, lowered, step, result>>

-----------------------------------------------------------------------------
(* The fill manager.                                                       *)

Watched(t) == pendings[t].id # 0
StillToSell(t) == Ordered[t] - pendings[t].filled
AtRest == runner = "fills" /\ step = Resting

\* An order the callback saw end is counted and no longer watched.
Settle(t) ==
    /\ AtRest /\ Watched(t) /\ pendings[t].status \in {"filled", "cancelled"}
    /\ pendings' = [pendings EXCEPT ![t].id = 0]
    /\ result' = [result EXCEPT ![t] = IF pendings[t].status = "filled" THEN "FILLED" ELSE "CANCELLED"]
    /\ UNCHANGED <<runner, brokerOrders, limits, lowered, step>>

\* Bug: the answer of cancel_order is ignored.
GoesOnAnyway(sent) == TRUE

\* cancel_order answers TRUE when the request was sent; without that nothing is replaced.
GoesOn(sent) == sent

SendCancel(t, sent, phase) ==
    /\ brokerOrders' = IF sent /\ brokerOrders[pendings[t].id].state = "working"
                 THEN [brokerOrders EXCEPT ![pendings[t].id].state = "cancelling"] ELSE brokerOrders
    /\ step' = IF GoesOn(sent)
               THEN [phase |-> phase, trade |-> t, qty |-> StillToSell(t), order |-> 0] ELSE Resting
    /\ UNCHANGED <<runner, pendings, limits, lowered, result>>

\* _adjust_for_remainder, once half of the contracts have filled: the remainder is the
\* one of before the cancellation.
StartRemainder(t, sent) ==
    /\ AtRest /\ Watched(t) /\ pendings[t].status \notin {"filled", "cancelled"}
    /\ pendings[t].filled > 0 /\ StillToSell(t) > 0 /\ 2 * pendings[t].filled >= Ordered[t]
    /\ SendCancel(t, sent, "remainder")

\* _progressive_adjust, every minute.
StartAdjust(t, sent) ==
    /\ AtRest /\ Watched(t) /\ pendings[t].status \notin {"filled", "cancelled"}
    /\ lowered[t] < MaxAdjustments /\ limits[t] - 1 >= LimitFloor
    /\ SendCancel(t, sent, "adjust")

PlaceOrder(t, q, phase) ==
    /\ brokerOrders' = Append(brokerOrders, NewOrder(t, q))
    /\ step' = [phase |-> phase, trade |-> t, qty |-> q, order |-> Len(brokerOrders) + 1]

\* After the sleep: a remainder as it was read before, an adjustment what is left now at
\* one step less.
PlaceReplacement ==
    /\ step.phase \in {"remainder", "adjust"} /\ Len(brokerOrders) < MaxPlaced
    /\ LET t == step.trade
           q == IF step.phase = "remainder" THEN step.qty ELSE StillToSell(t)
           price == IF step.phase = "remainder" THEN limits[t] ELSE limits[t] - 1
       IN IF q > 0 THEN /\ PlaceOrder(t, q, "register")
                        /\ limits' = [limits EXCEPT ![t] = price]
                        /\ lowered' = [lowered EXCEPT ![t] = IF step.phase = "adjust" THEN @ + 1 ELSE @]
          ELSE step' = Resting /\ UNCHANGED <<brokerOrders, limits, lowered>>
    /\ UNCHANGED <<runner, pendings, result>>

\* The placement raises: the entry keeps the id of the cancelled order.
PlaceFails ==
    /\ step.phase \in {"remainder", "adjust"}
    /\ step' = Resting
    /\ UNCHANGED <<runner, brokerOrders, pendings, limits, lowered, result>>

\* Another sleep later the entry takes the new id; its status stays what it was.
Register ==
    /\ step.phase = "register"
    /\ pendings' = [pendings EXCEPT ![step.trade].id = step.order]
    /\ step' = Resting
    /\ UNCHANGED <<runner, brokerOrders, limits, lowered, result>>

\* The window is over: what is left works on as an order of the day.
WindowEnds ==
    /\ AtRest
    /\ step' = [Resting EXCEPT !.phase = "over"]
    /\ result' = [t \in Submitted |->
          CASE ~Watched(t) -> result[t]
            [] Watched(t) /\ pendings[t].status = "filled" -> "FILLED"
            [] Watched(t) /\ pendings[t].status = "cancelled" -> "CANCELLED"
            [] OTHER -> "WORKING"]
    /\ UNCHANGED <<runner, brokerOrders, pendings, limits, lowered>>

-----------------------------------------------------------------------------
(* The Monday scheduler: one trade after the other.                        *)

Executing(t) ==
    /\ runner = "monday" /\ result[t] = "none"
    /\ \A u \in Submitted : u < t => result[u] # "none"

Report(t, outcome) ==
    /\ result' = [result EXCEPT ![t] = outcome]
    /\ step' = Resting

\* The first order, at the limit of a live quote.
PlaceFirst(t) ==
    /\ Executing(t) /\ step = Resting /\ Len(brokerOrders) < MaxPlaced
    /\ PlaceOrder(t, Ordered[t], "watch")
    /\ UNCHANGED <<runner, pendings, limits, lowered, result>>

\* Not tradeable, not qualified, not placed, or an error while it is watched: the order
\* that may be there is left alone.
MondayError(t) ==
    /\ Executing(t)
    /\ Report(t, "ERROR")
    /\ UNCHANGED <<runner, brokerOrders, pendings, limits, lowered>>

\* After fill_wait_seconds the status of the last order is looked at.
SeesFilled(n) == brokerOrders[n].seen = "filled"

LookFilled(t) ==
    /\ Executing(t) /\ step.phase = "watch" /\ SeesFilled(step.order)
    /\ Report(t, "FILLED")
    /\ UNCHANGED <<runner, brokerOrders, pendings, limits, lowered>>

\* The answer of cancel_order is not looked at.
LookOpen(t, sent) ==
    /\ Executing(t) /\ step.phase = "watch" /\ ~SeesFilled(step.order)
    /\ IF lowered[t] < MaxAdjustments
       THEN /\ brokerOrders' = IF sent /\ brokerOrders[step.order].state = "working"
                         THEN [brokerOrders EXCEPT ![step.order].state = "cancelling"] ELSE brokerOrders
            /\ step' = [step EXCEPT !.phase = "replace"]
            /\ UNCHANGED result
       ELSE Report(t, "WORKING") /\ UNCHANGED brokerOrders
    /\ UNCHANGED <<runner, pendings, limits, lowered>>

\* A new order for all contracts, one step lower whatever the floor.
ReplaceWhole(t) ==
    /\ Executing(t) /\ step.phase = "replace" /\ Len(brokerOrders) < MaxPlaced
    /\ PlaceOrder(t, Ordered[t], "watch")
    /\ limits' = [limits EXCEPT ![t] = IF @ > 0 THEN @ - 1 ELSE 0]
    /\ lowered' = [lowered EXCEPT ![t] = @ + 1]
    /\ UNCHANGED <<runner, pendings, result>>

FillNext ==
    \/ \E n \in DOMAIN brokerOrders : OrderFills(n) \/ CancelTakesEffect(n) \/ OnOrderStatus(n)
    \/ \E t \in Submitted : Settle(t)
    \/ \E t \in Submitted, sent \in BOOLEAN : StartRemainder(t, sent) \/ StartAdjust(t, sent)
    \/ PlaceReplacement \/ PlaceFails \/ Register \/ WindowEnds
    \/ \E t \in Submitted : PlaceFirst(t) \/ MondayError(t) \/ LookFilled(t) \/ ReplaceWhole(t)
    \/ \E t \in Submitted, sent \in BOOLEAN : LookOpen(t, sent)

FillSpec == FillInit /\ [][FillNext]_fillVars

-----------------------------------------------------------------------------
(* Properties.                                                             *)

OrdersOf(t) == {n \in DOMAIN brokerOrders : brokerOrders[n].trade = t}
SoldOf(t) == MapThenSumSet(LAMBDA n : brokerOrders[n].filled, OrdersOf(t))

\* The fill manager never has two orders of one trade at the broker unless the earlier
\* one is being cancelled, however events, refusals and failures fall
\* (fill_manager.py:_adjust_for_remainder, _progressive_adjust).
OneWorkingOrder ==
    runner = "fills" =>
        \A t \in Submitted : Cardinality({n \in OrdersOf(t) : brokerOrders[n].state = "working"}) <= 1

\* A trade reported as filled has sold its contracts, through all the orders that
\* replaced one another (fill_manager.py:FillReport, execution_scheduler.py:
\* TradeExecutionResult).
FilledIsSold ==
    \A t \in Submitted : result[t] = "FILLED" => SoldOf(t) >= Ordered[t]

\* No more contracts are sold than were staged: "Cancel current order and place new one
\* for the remaining quantity" (fill_manager.py:_adjust_for_remainder).
NeverOversold == \A t \in Submitted : SoldOf(t) <= Ordered[t]

=============================================================================
