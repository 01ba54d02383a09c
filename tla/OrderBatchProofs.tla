-------------------------- MODULE OrderBatchProofs --------------------------
(***************************************************************************)
(* Proofs about OrderBatch.tla, for any opportunities, orders and bounds.  *)
(*                                                                         *)
(* Everything rests on what the executor's table means while a round runs  *)
(* (Tracking).  FilledIsTruth needs the statuses and the report to be true *)
(* before they are written to the tables (SoldOnly); OrdersAreOnRecord     *)
(* needs to know that what has an order and no row is still in the report  *)
(* that the save will read (Reported); OneLiveOrder that whoever is about  *)
(* to get an order has none, and that the orders still working are the     *)
(* ones in the table (Unsent, Held).                                       *)
(***************************************************************************)
EXTENDS OrderBatch, TLAPS

\* What the table holds is in the batch and in the report; a round visits what
\* is in the table; the order on its way is for the opportunity being placed.
Tracking ==
    /\ \A t \in Opps : tracked[t] # NoOrder => t \in batch /\ first[t] # NoOrder
    /\ stage \in {"watching", "tier2", "cancelled", "replaced"} => todo \subseteq Pending
    /\ stage \in {"cancelled", "replaced"} => cur \subseteq Pending
    /\ stage \in {"sent", "replaced"} =>
           /\ newest # NoOrder
           /\ broker[newest] # "none"
           /\ \A t \in cur : ordFor[newest] = t

-----------------------------------------------------------------------------
(* Types.                                                                  *)

LEMMA BatchTypeInit == Init => TypeOK /\ Tracking
<1> SUFFICES ASSUME Init PROVE TypeOK /\ Tracking
  OBVIOUS
<1>1. (CHOOSE t \in Opps : TRUE) \in Opps
  BY BoundsAssumption
<1>2. /\ state \in [Opps -> States]
      /\ broker \in [Orders -> {"none", "working", "filled", "dead"}]
      /\ ordFor \in [Orders -> Opps]
      /\ tracked \in [Opps -> OrderOrNone] /\ first \in [Opps -> OrderOrNone]
      /\ filled \in [Opps -> OrderOrNone] /\ row \in [Opps -> OrderOrNone]
      /\ last \in [Opps -> {"Submitted", "Filled", "Cancelled"}]
  BY <1>1, BoundsAssumption DEF Init, States, None, NoOrder, OrderOrNone
<1> QED
  BY <1>2, BoundsAssumption DEF Init, TypeOK, Tracking, None, NoOrder, Stages, OrderOrNone

\* The order that goes out was not there before.
LEMMA PlaceFacts ==
    ASSUME TypeOK, NEW t \in Opps, Place(t)
    PROVE  /\ newest' \in Orders /\ newest' # NoOrder
           /\ broker[newest'] = "none"
           /\ broker' = [broker EXCEPT ![newest'] = "working"]
           /\ ordFor' = [ordFor EXCEPT ![newest'] = t]
           /\ cur' = {t}
BY BoundsAssumption DEF TypeOK, Place, Fresh, Orders, NoOrder

\* Placing keeps the types and leaves every order in the table as it is.
LEMMA PlaceTypes ==
    ASSUME TypeOK, NEW t \in batch, Place(t)
    PROVE  /\ broker' \in [Orders -> {"none", "working", "filled", "dead"}]
           /\ ordFor' \in [Orders -> Opps]
           /\ newest' \in OrderOrNone
           /\ cur' \in SUBSET batch
           /\ \A o \in Orders : broker[o] # "none" => broker'[o] = broker[o] /\ ordFor'[o] = ordFor[o]
<1>1. t \in Opps
  BY DEF TypeOK
<1>2. /\ newest' \in Orders
      /\ broker[newest'] = "none"
      /\ broker' = [broker EXCEPT ![newest'] = "working"]
      /\ ordFor' = [ordFor EXCEPT ![newest'] = t]
      /\ cur' = {t}
  BY <1>1, PlaceFacts
<1>3. newest' \in OrderOrNone
  BY <1>2, BoundsAssumption DEF Orders, OrderOrNone
<1> QED
  BY <1>1, <1>2, <1>3 DEF TypeOK

\* What a filled-trades save leaves in the tables.
LEMMA RecordTypes ==
    ASSUME TypeOK, NEW ids \in [Opps -> OrderOrNone], Record(ids)
    PROVE  /\ row' \in [Opps -> OrderOrNone]
           /\ recorded' \subseteq Opps
           /\ state' \in [Opps -> States]
           /\ \A t \in Opps : row[t] # NoOrder => row'[t] # NoOrder
BY DEF TypeOK, Record, States

LEMMA NewlyFilledType ==
    ASSUME TypeOK
    PROVE  NewlyFilled \in [Opps -> OrderOrNone]
BY BoundsAssumption DEF TypeOK, NewlyFilled, OrderOrNone, NoOrder

LEMMA EndTypes ==
    ASSUME HandlerEnds, TypeOK
    PROVE  /\ stage' = "idle" /\ batch' = {} /\ todo' = {} /\ cur' = {}
           /\ newest' \in OrderOrNone /\ tier' = 1 /\ swapped' = FALSE
           /\ tracked' = None /\ news' = {} /\ savedIds' = {}
           /\ tracked' \in [Opps -> OrderOrNone] /\ first' \in [Opps -> OrderOrNone]
           /\ filled' \in [Opps -> OrderOrNone]
           /\ last' \in [Opps -> {"Submitted", "Filled", "Cancelled"}]
           /\ \A t \in Opps : tracked'[t] = NoOrder
BY BoundsAssumption DEF HandlerEnds, None, NoOrder, OrderOrNone

LEMMA TrackedIsAnOrder ==
    ASSUME TypeOK, NEW t \in Opps, tracked[t] # NoOrder
    PROVE  tracked[t] \in Orders /\ ordFor[tracked[t]] = t /\ broker[tracked[t]] # "none"
<1>1. tracked[t] \in OrderOrNone
  BY DEF TypeOK
<1>2. tracked[t] \in Orders
  BY <1>1, BoundsAssumption DEF Orders, OrderOrNone, NoOrder
<1> QED
  BY <1>2 DEF TypeOK

LEMMA BatchTypeStep ==
    ASSUME TypeOK, Tracking, [Next]_vars
    PROVE  TypeOK' /\ Tracking'
<1> USE DEF TypeOK, Tracking, Pending, NoOrder, brokerVars, roundVars, execVars, rowVars,
            countVars
<1>1. CASE UNCHANGED vars
  BY <1>1 DEF vars, None
<1>2. ASSUME NEW o \in Orders, BrokerFill(o) \/ BrokerDrop(o) \/ Deliver(o)
      PROVE  TypeOK' /\ Tracking'
  <2>1. /\ broker' \in [Orders -> {"none", "working", "filled", "dead"}]
        /\ news' \subseteq Orders
        /\ withdrawn' \subseteq Orders
        /\ \A q \in Orders : broker[q] # "none" => broker'[q] # "none"
    BY <1>2 DEF BrokerFill, BrokerDrop, Deliver, Report
  <2>2. last' \in [Opps -> {"Submitted", "Filled", "Cancelled"}]
    <3>1. CASE Deliver(o)
      <4>1. \A t \in Opps : tracked[t] = o => broker[o] \in {"working", "filled", "dead"}
        BY BoundsAssumption DEF Orders
      <4>2. \A s \in {"working", "filled", "dead"} :
               StatusName[s] \in {"Submitted", "Filled", "Cancelled"}
        BY DEF StatusName
      <4> QED
        BY <3>1, <4>1, <4>2 DEF Deliver
    <3> QED
      BY <1>2, <3>1 DEF BrokerFill, BrokerDrop
  <2>3. UNCHANGED <<state, ordFor, stage, roundVars, tracked, first, filled, savedIds,
                    rowVars, countVars>>
    BY <1>2 DEF BrokerFill, BrokerDrop, Deliver
  <2>4. newest # NoOrder => newest \in Orders
    BY BoundsAssumption DEF OrderOrNone, Orders
  <2>5. \A t \in Opps : tracked[t] # NoOrder => tracked[t] \in Orders
    BY BoundsAssumption DEF OrderOrNone, Orders
  <2> QED
    BY <2>1, <2>2, <2>3, <2>4, <2>5 DEF None
<1>3. ASSUME NEW t \in Opps, StageOpp(t) \/ Unstage(t) PROVE TypeOK' /\ Tracking'
  BY <1>3 DEF StageOpp, Unstage, States, None
<1>4. CASE EndOfDay \/ Restart
  <2>1. state' \in [Opps -> States]
    BY <1>4 DEF EndOfDay, Restart, Expire, States
  <2> QED
    BY <1>4, <2>1 DEF EndOfDay, Restart, Stages, None
<1>5. CASE Load \/ Claim \/ Validate \/ AllSubmitted \/ SkipTier2
  <2>1. state' \in [Opps -> States]
    BY <1>5 DEF Load, Claim, Validate, AllSubmitted, SkipTier2, States
  <2> QED
    BY <1>5, <2>1 DEF Load, Claim, Validate, AllSubmitted, SkipTier2, Staged, Stages, None
<1>6. CASE NothingReady \/ ValidationRaises \/ Tier2Raises \/ QuoteRaises \/ Finish
  <2>1. /\ HandlerEnds /\ UNCHANGED <<broker, ordFor, withdrawn>>
        /\ troubles' \in Nat /\ unsaved' \subseteq Opps
    BY <1>6 DEF NothingReady, ValidationRaises, Tier2Raises, QuoteRaises, SchedulerRaises, Finish
  <2>2. /\ state' \in [Opps -> States]
        /\ row' \in [Opps -> OrderOrNone]
        /\ recorded' \subseteq Opps
    BY <1>6, RecordTypes, NewlyFilledType
       DEF NothingReady, ValidationRaises, Tier2Raises, QuoteRaises, SchedulerRaises, Finish, States
  <2> HIDE DEF TypeOK
  <2>3. /\ stage' = "idle" /\ batch' = {} /\ todo' = {} /\ cur' = {}
        /\ newest' \in OrderOrNone /\ tier' = 1 /\ swapped' = FALSE
        /\ tracked' = None /\ news' = {} /\ savedIds' = {}
        /\ tracked' \in [Opps -> OrderOrNone] /\ first' \in [Opps -> OrderOrNone]
        /\ filled' \in [Opps -> OrderOrNone]
        /\ last' \in [Opps -> {"Submitted", "Filled", "Cancelled"}]
        /\ \A t \in Opps : tracked'[t] = NoOrder
    BY <2>1, EndTypes
  <2> QED
    BY <2>1, <2>2, <2>3 DEF TypeOK, Stages
<1>7. ASSUME NEW t \in Opps, Submit(t) \/ Replace(t) PROVE TypeOK' /\ Tracking'
  <2>1. t \in batch /\ Place(t)
    BY <1>7 DEF Submit, Replace
  <2>2. /\ newest' \in Orders /\ newest' # NoOrder
        /\ broker'[newest'] = "working" /\ ordFor'[newest'] = t /\ cur' = {t}
    BY <2>1, PlaceFacts
  <2>3. /\ broker' \in [Orders -> {"none", "working", "filled", "dead"}]
        /\ ordFor' \in [Orders -> Opps]
        /\ newest' \in OrderOrNone
        /\ cur' \in SUBSET batch
        /\ \A o \in Orders : broker[o] # "none" => broker'[o] = broker[o] /\ ordFor'[o] = ordFor[o]
    BY <2>1, PlaceTypes
  <2>4. \A u \in Opps : tracked[u] # NoOrder => tracked[u] \in Orders
    BY BoundsAssumption DEF OrderOrNone, Orders
  <2>5. /\ news' \subseteq Orders
        /\ stage' \in {"sent", "replaced"}
        /\ stage' = "replaced" => stage = "cancelled" /\ todo' = todo /\ t \in cur
        /\ todo' \subseteq todo
        /\ UNCHANGED <<state, withdrawn, batch, tier, swapped, execVars, rowVars, countVars>>
    BY <1>7, <2>2 DEF Submit, Replace
  <2> QED
    BY <2>2, <2>3, <2>4, <2>5 DEF Stages
<1>8. ASSUME NEW t \in Opps, Refuse(t) \/ Leave(t) \/ Withdraw(t) PROVE TypeOK' /\ Tracking'
  <2>1. withdrawn' \subseteq Orders
    <3>1. CASE Withdraw(t)
      <4>1. tracked[t] # NoOrder
        BY <3>1 DEF Withdraw, Adjustable
      <4>2. tracked[t] \in Orders
        BY <4>1, BoundsAssumption DEF OrderOrNone, Orders
      <4> QED
        BY <3>1, <4>2 DEF Withdraw
    <3> QED
      BY <1>8, <3>1 DEF Refuse, Leave
  <2> QED
    BY <1>8, <2>1 DEF Refuse, Leave, Withdraw, Adjustable, Stages
<1>9. CASE Register \/ ReRegister
  <2>1. /\ tracked' \in [Opps -> OrderOrNone] /\ first' \in [Opps -> OrderOrNone]
        /\ news' \subseteq Orders
    BY <1>9 DEF Register, ReRegister
  <2>2. \A t \in Opps : tracked'[t] # NoOrder =>
           /\ t \in batch /\ first'[t] # NoOrder
           /\ ordFor[tracked'[t]] = t /\ broker[tracked'[t]] # "none"
    BY <1>9 DEF Register, ReRegister
  <2>3. \A t \in Opps : tracked[t] # NoOrder => tracked'[t] # NoOrder
    BY <1>9 DEF Register, ReRegister
  <2>4. /\ cur' = {} /\ newest' = NoOrder
        /\ stage' \in {"submitting", "watching", "tier2"}
        /\ stage' # "submitting" => stage = "replaced"
        /\ swapped' \in BOOLEAN
        /\ UNCHANGED <<state, broker, ordFor, withdrawn, batch, todo, tier, last, filled,
                       savedIds, rowVars, countVars>>
    BY <1>9 DEF Register, ReRegister, BackToRound
  <2> QED
    BY <2>1, <2>2, <2>3, <2>4, BoundsAssumption DEF Stages, OrderOrNone
<1>10. CASE Scan \/ EndWatch
  <2>1. /\ tracked' \in [Opps -> OrderOrNone] /\ filled' \in [Opps -> OrderOrNone]
        /\ news' \subseteq Orders
        /\ \A t \in Opps : tracked'[t] # NoOrder => tracked'[t] = tracked[t]
        /\ \A t \in Opps \ Over : tracked'[t] = tracked[t]
    BY <1>10, BoundsAssumption DEF Scan, EndWatch, Forget, Over, OrderOrNone
  <2> QED
    BY <1>10, <2>1 DEF Scan, EndWatch, RoundBegins, Stages
<1>11. CASE NotReplaced
  BY <1>11, BoundsAssumption DEF NotReplaced, BackToRound, Stages, OrderOrNone
<1>12. CASE SavePending
  <2>1. savedIds' \subseteq Orders
    <3>1. \A t \in Opps : first[t] # NoOrder => first[t] \in Orders
      BY BoundsAssumption DEF OrderOrNone, Orders
    <3> QED
      BY <1>12, <3>1 DEF SavePending, Submitted
  <2>2. row' \in [Opps -> OrderOrNone] /\ unsaved' \subseteq Opps /\ troubles' \in Nat
    BY <1>12 DEF SavePending, Submitted
  <2> QED
    BY <1>12, <2>1, <2>2 DEF SavePending, Stages
<1>13. CASE RecordTier1 \/ EndTier2
  <2>1. savedIds' \subseteq Orders
    <3>1. \A f \in [Opps -> OrderOrNone] : {f[t] : t \in Opps} \ {NoOrder} \subseteq Orders
      BY BoundsAssumption DEF OrderOrNone, Orders
    <3>2. NewlyFilled \in [Opps -> OrderOrNone]
      BY NewlyFilledType
    <3> QED
      BY <1>13, <3>1, <3>2 DEF RecordTier1, EndTier2, NoteNewlyFilled
  <2>2. row' \in [Opps -> OrderOrNone] /\ recorded' \subseteq Opps /\ state' \in [Opps -> States]
    BY <1>13, RecordTypes, NewlyFilledType DEF RecordTier1, EndTier2
  <2> QED
    BY <1>13, <2>1, <2>2 DEF RecordTier1, EndTier2, Stages
<1>14. CASE StartTier2
  BY <1>14 DEF StartTier2, Stages
<1>15. CASE Crash
  <2>1. tracked' \in [Opps -> OrderOrNone] /\ first' \in [Opps -> OrderOrNone]
        /\ filled' \in [Opps -> OrderOrNone]
    BY <1>15, BoundsAssumption DEF Crash, None, OrderOrNone
  <2>2. /\ stage' = "down" /\ batch' = {} /\ todo' = {} /\ cur' = {}
        /\ newest' \in OrderOrNone /\ tier' = 1 /\ swapped' = FALSE
        /\ tracked' = None /\ savedIds' = {} /\ news' = {}
        /\ last' \in [Opps -> {"Submitted", "Filled", "Cancelled"}]
        /\ troubles' \in Nat /\ unsaved' \subseteq Opps
        /\ UNCHANGED <<state, broker, ordFor, withdrawn, row, recorded>>
    BY <1>15, BoundsAssumption DEF Crash, OrderOrNone
  <2>3. \A t \in Opps : tracked'[t] = NoOrder
    BY <2>2 DEF None
  <2> QED
    BY <2>1, <2>2, <2>3 DEF Stages
<1> QED
  BY <1>1, <1>2, <1>3, <1>4, <1>5, <1>6, <1>7, <1>8, <1>9, <1>10, <1>11, <1>12, <1>13,
     <1>14, <1>15 DEF Next, BrokerStep, HandlerStep, Visit

-----------------------------------------------------------------------------
(* What is called sold was sold.                                           *)

Sold(t) == \E o \in Orders : ordFor[o] = t /\ broker[o] = "filled"

\* A status, a report, a row and a state that say "filled" each have a filled
\* order behind them, not necessarily the one the table names now.
SoldOnly ==
    \A t \in Opps :
        \/ last[t] = "Filled"
        \/ filled[t] # NoOrder
        \/ t \in recorded
        \/ state[t] = "EXECUTED"
        => Sold(t)

\* What was sold stays sold: a filled order is never placed anew.
LEMMA SoldStays ==
    ASSUME TypeOK, [Next]_vars, NEW t \in Opps, Sold(t)
    PROVE  Sold(t)'
<1> USE DEF TypeOK, Sold
<1>1. ASSUME NEW u \in Opps, Submit(u) \/ Replace(u) PROVE Sold(t)'
  <2>1. u \in batch /\ Place(u)
    BY <1>1 DEF Submit, Replace
  <2>2. \A o \in Orders : broker[o] # "none" => broker'[o] = broker[o] /\ ordFor'[o] = ordFor[o]
    BY <2>1, PlaceTypes
  <2> QED
    BY <2>2
<1>2. ASSUME NEW o \in Orders, BrokerFill(o) \/ BrokerDrop(o) PROVE Sold(t)'
  BY <1>2 DEF BrokerFill, BrokerDrop
<1>3. CASE UNCHANGED <<broker, ordFor>>
  BY <1>3
<1> QED
  BY <1>1, <1>2, <1>3
     DEF Next, vars, BrokerStep, HandlerStep, Visit, Deliver, StageOpp, Unstage, EndOfDay, Load,
         Claim, Validate, NothingReady, ValidationRaises, SchedulerRaises, HandlerEnds, Refuse,
         Leave, Withdraw, Register, AllSubmitted, Scan, NotReplaced, ReRegister, EndWatch,
         SavePending, RecordTier1, StartTier2, SkipTier2, EndTier2, Tier2Raises, QuoteRaises, Finish, Crash,
         Restart, brokerVars

\* A save of sold opportunities records sold opportunities.
LEMMA RecordSold ==
    ASSUME TypeOK, SoldOnly, NEW ids, Record(ids),
           \A t \in Opps : ids[t] # NoOrder => Sold(t)
    PROVE  \A t \in Opps : t \in recorded' \/ state'[t] = "EXECUTED" => Sold(t)
BY DEF TypeOK, SoldOnly, Record

LEMMA SoldStep ==
    ASSUME TypeOK, SoldOnly, [Next]_vars
    PROVE  SoldOnly'
<1>0. \A t \in Opps : Sold(t) => Sold(t)'
  BY SoldStays
<1>1. SUFFICES \A t \in Opps :
          last'[t] = "Filled" \/ filled'[t] # NoOrder \/ t \in recorded' \/ state'[t] = "EXECUTED"
              => Sold(t)
  BY <1>0 DEF SoldOnly
<1> USE DEF TypeOK, brokerVars, roundVars, execVars, rowVars, countVars
<1>2. ASSUME UNCHANGED <<last, filled, recorded>>,
             \A t \in Opps : state'[t] = "EXECUTED" => state[t] = "EXECUTED"
      PROVE  \A t \in Opps :
          last'[t] = "Filled" \/ filled'[t] # NoOrder \/ t \in recorded' \/ state'[t] = "EXECUTED"
              => Sold(t)
  BY <1>2 DEF SoldOnly
<1>3. ASSUME NEW o \in Orders, Deliver(o)
      PROVE  \A t \in Opps :
          last'[t] = "Filled" \/ filled'[t] # NoOrder \/ t \in recorded' \/ state'[t] = "EXECUTED"
              => Sold(t)
  <2>1. ASSUME NEW t \in Opps, tracked[t] = o, last'[t] = "Filled" PROVE Sold(t)
    <3>1. broker[o] \in {"working", "filled", "dead"} /\ ordFor[o] = t
      BY <2>1, BoundsAssumption DEF Orders, NoOrder
    <3>2. StatusName[broker[o]] = "Filled"
      BY <1>3, <2>1 DEF Deliver
    <3>3. broker[o] = "filled"
      BY <3>1, <3>2 DEF StatusName
    <3> QED
      BY <3>1, <3>3 DEF Sold
  <2> QED
    BY <1>3, <2>1 DEF Deliver, SoldOnly
<1>4. CASE Scan
  BY <1>4 DEF Scan, SoldOnly, Over
<1>5. CASE RecordTier1
  <2>1. Record(filled) /\ UNCHANGED <<last, filled>>
    BY <1>5 DEF RecordTier1
  <2>2. \A t \in Opps : t \in recorded' \/ state'[t] = "EXECUTED" => Sold(t)
    BY <2>1, RecordSold DEF SoldOnly
  <2> QED
    BY <2>1, <2>2 DEF SoldOnly
<1>6. CASE EndTier2 \/ Finish
  <2>1. Record(NewlyFilled)
    BY <1>6 DEF EndTier2, Finish
  <2>2. \A t \in Opps : NewlyFilled[t] # NoOrder => Sold(t)
    BY DEF SoldOnly, NewlyFilled
  <2>3. \A t \in Opps : t \in recorded' \/ state'[t] = "EXECUTED" => Sold(t)
    BY <2>1, <2>2, RecordSold
  <2>4. \A t \in Opps : (last'[t] = "Filled" => last[t] = "Filled")
                     /\ (filled'[t] # NoOrder => filled[t] # NoOrder)
    BY <1>6 DEF EndTier2, Finish, HandlerEnds, None, NoOrder
  <2> QED
    BY <2>3, <2>4 DEF SoldOnly
<1>7. CASE NothingReady \/ ValidationRaises \/ Tier2Raises \/ QuoteRaises \/ Crash
  <2>1. \A t \in Opps : /\ last'[t] = "Submitted" /\ filled'[t] = NoOrder
                        /\ state'[t] = "EXECUTED" => state[t] = "EXECUTED"
    BY <1>7 DEF NothingReady, ValidationRaises, Tier2Raises, QuoteRaises, SchedulerRaises, Crash,
                HandlerEnds, None, NoOrder
  <2>2. recorded' = recorded
    BY <1>7 DEF NothingReady, ValidationRaises, Tier2Raises, QuoteRaises, Crash
  <2> QED
    BY <2>1, <2>2 DEF SoldOnly
<1>8. CASE \/ UNCHANGED vars
           \/ \E o \in Orders : BrokerFill(o) \/ BrokerDrop(o)
           \/ \E t \in Opps : StageOpp(t) \/ Unstage(t) \/ Visit(t)
           \/ EndOfDay \/ Load \/ Claim \/ Validate \/ Register \/ AllSubmitted
           \/ NotReplaced \/ ReRegister \/ EndWatch \/ SavePending \/ StartTier2
           \/ SkipTier2 \/ Restart
  <2>1. UNCHANGED <<last, filled, recorded>>
    BY <1>8 DEF vars, BrokerFill, BrokerDrop, StageOpp, Unstage, Visit, Submit, Refuse, Leave,
                Withdraw, Replace, EndOfDay, Load, Claim, Validate, Register, AllSubmitted,
                NotReplaced, ReRegister, EndWatch, SavePending, StartTier2, SkipTier2, Restart
  <2>2. \A t \in Opps : state'[t] = "EXECUTED" => state[t] = "EXECUTED"
    BY <1>8 DEF vars, BrokerFill, BrokerDrop, StageOpp, Unstage, Visit, Submit, Refuse, Leave,
                Withdraw, Replace, EndOfDay, Load, Claim, Validate, Register, AllSubmitted,
                NotReplaced, ReRegister, EndWatch, SavePending, StartTier2, SkipTier2, Restart,
                Expire
  <2> QED
    BY <1>2, <2>1, <2>2
<1> QED
  BY <1>3, <1>4, <1>5, <1>6, <1>7, <1>8 DEF Next, BrokerStep, HandlerStep

-----------------------------------------------------------------------------
(* What was sent is on record.                                             *)

\* Before the first save.
FirstMinutes ==
    \/ stage \in {"submitting", "sent", "watching", "saving"}
    \/ stage \in {"cancelled", "replaced"} /\ tier = 1

\* An order has a row, its row was lost, it is in the report that the save
\* writes from, or it is the one on its way.
Reported ==
    \A o \in Orders :
        broker[o] # "none" =>
            \/ row[ordFor[o]] # NoOrder
            \/ ordFor[o] \in unsaved
            \/ FirstMinutes /\ first[ordFor[o]] # NoOrder /\ ordFor[o] \in batch
            \/ stage = "sent" /\ ordFor[o] \in cur

\* Rows are never taken back, and what was lost stays lost.
LEMMA RowsStay ==
    ASSUME TypeOK, [Next]_vars
    PROVE  /\ \A t \in Opps : row[t] # NoOrder => row'[t] # NoOrder
           /\ unsaved \subseteq unsaved'
<1>1. ASSUME NEW ids \in [Opps -> OrderOrNone], Record(ids)
      PROVE  \A t \in Opps : row[t] # NoOrder => row'[t] # NoOrder
  BY <1>1, RecordTypes
<1>2. CASE RecordTier1 \/ EndTier2 \/ Finish
  <2>1. filled \in [Opps -> OrderOrNone] /\ NewlyFilled \in [Opps -> OrderOrNone]
    BY NewlyFilledType DEF TypeOK
  <2> QED
    BY <1>1, <1>2, <2>1 DEF RecordTier1, EndTier2, Finish, countVars
<1>3. CASE SavePending
  BY <1>3 DEF SavePending, Submitted, TypeOK
<1>4. CASE row' = row /\ unsaved \subseteq unsaved'
  BY <1>4
<1>5. [Next]_vars /\ ~(RecordTier1 \/ EndTier2 \/ Finish \/ SavePending)
          => row' = row /\ unsaved \subseteq unsaved'
  BY DEF Next, vars, BrokerStep, HandlerStep, Visit, BrokerFill, BrokerDrop, Deliver, StageOpp,
         Unstage, EndOfDay, Load, Claim, Validate, NothingReady, ValidationRaises, Submit,
         Refuse, Leave, Withdraw, Replace, Register, AllSubmitted, Scan, NotReplaced, ReRegister,
         EndWatch, StartTier2, SkipTier2, Tier2Raises, QuoteRaises, Crash, Restart, rowVars, countVars
<1> QED
  BY <1>2, <1>3, <1>4, <1>5

LEMMA ReportedStep ==
    ASSUME TypeOK, Tracking, Reported, [Next]_vars
    PROVE  Reported'
<1> USE DEF TypeOK, Reported, FirstMinutes, brokerVars, roundVars, execVars, rowVars, countVars
<1>0. /\ \A t \in Opps : row[t] # NoOrder => row'[t] # NoOrder
      /\ unsaved \subseteq unsaved'
  BY RowsStay
<1>1. ASSUME \A o \in Orders : broker'[o] # "none" => broker[o] # "none",
             ordFor' = ordFor,
             FirstMinutes => FirstMinutes' /\ batch' = batch,
             stage = "sent" => stage' = "sent" /\ cur' = cur,
             \A t \in Opps : FirstMinutes /\ first[t] # NoOrder => first'[t] # NoOrder
      PROVE  Reported'
  BY <1>0, <1>1
<1>2. ASSUME NEW o \in Orders, BrokerFill(o) \/ BrokerDrop(o) PROVE Reported'
  BY <1>1, <1>2 DEF BrokerFill, BrokerDrop
<1>3. CASE \/ UNCHANGED vars
           \/ \E o \in Orders : Deliver(o)
           \/ \E t \in Opps : StageOpp(t) \/ Unstage(t) \/ Refuse(t) \/ Leave(t) \/ Withdraw(t)
           \/ EndOfDay \/ Load \/ Claim \/ Validate \/ AllSubmitted \/ Scan \/ NotReplaced
           \/ ReRegister \/ EndWatch \/ StartTier2 \/ SkipTier2 \/ RecordTier1 \/ EndTier2
           \/ Restart
  <2>1. UNCHANGED <<broker, ordFor>> \/ \E o \in Orders : Deliver(o)
    BY <1>3 DEF vars, StageOpp, Unstage, Refuse, Leave, Withdraw, EndOfDay, Load, Claim,
                Validate, AllSubmitted, Scan, NotReplaced, ReRegister, EndWatch, StartTier2,
                SkipTier2, RecordTier1, EndTier2, Restart
  <2>2. UNCHANGED <<broker, ordFor>>
    BY <2>1 DEF Deliver
  <2>3. /\ FirstMinutes => FirstMinutes' /\ batch' = batch /\ first' = first
        /\ stage = "sent" => stage' = "sent" /\ cur' = cur
    BY <1>3 DEF vars, Deliver, StageOpp, Unstage, Refuse, Leave, Withdraw, Adjustable, EndOfDay,
                Load, Claim, Validate, AllSubmitted, Scan, RoundBegins, NotReplaced, ReRegister,
                EndWatch, StartTier2, SkipTier2, RecordTier1, EndTier2, Restart, BackToRound
  <2> QED
    BY <1>1, <2>2, <2>3
<1>4. CASE NothingReady \/ ValidationRaises \/ Tier2Raises \/ Finish
  <2>1. ~FirstMinutes /\ stage # "sent" /\ UNCHANGED <<broker, ordFor>>
    BY <1>4 DEF NothingReady, ValidationRaises, Tier2Raises, Finish
  <2> QED
    BY <1>1, <2>1
<1>5. ASSUME NEW t \in Opps, Submit(t) \/ Replace(t) PROVE Reported'
  <2>1. t \in batch /\ Place(t)
    BY <1>5 DEF Submit, Replace
  <2>2. /\ newest' \in Orders
        /\ broker' = [broker EXCEPT ![newest'] = "working"]
        /\ ordFor' = [ordFor EXCEPT ![newest'] = t]
        /\ cur' = {t}
    BY <2>1, PlaceFacts
  <2>3. UNCHANGED <<batch, first, tier, row, unsaved>>
    BY <1>5 DEF Submit, Replace
  <2>4. ASSUME NEW o \in Orders, o # newest', broker'[o] # "none"
        PROVE  \/ row'[ordFor'[o]] # NoOrder
               \/ ordFor'[o] \in unsaved'
               \/ FirstMinutes' /\ first'[ordFor'[o]] # NoOrder /\ ordFor'[o] \in batch'
    <3>1. broker[o] # "none" /\ ordFor'[o] = ordFor[o]
      BY <2>2, <2>4
    <3>2. stage # "sent" /\ (FirstMinutes => FirstMinutes')
      BY <1>5 DEF Submit, Replace
    <3> QED
      BY <2>3, <3>1, <3>2
  <2>5. CASE Submit(t)
    <3>1. stage' = "sent"
      BY <2>5 DEF Submit
    <3> QED
      BY <2>2, <2>4, <3>1
  <2>6. CASE Replace(t)
    <3>1. /\ stage = "cancelled" /\ stage' = "replaced"
          /\ tracked[t] # NoOrder /\ first[t] # NoOrder
      BY <2>6 DEF Replace, Tracking, Pending
    <3>2. tracked[t] \in Orders /\ ordFor[tracked[t]] = t /\ broker[tracked[t]] # "none"
      BY <3>1, TrackedIsAnOrder
    <3>3. \/ row[t] # NoOrder
          \/ t \in unsaved
          \/ FirstMinutes /\ first[t] # NoOrder /\ t \in batch
      <4>1. \/ row[ordFor[tracked[t]]] # NoOrder
            \/ ordFor[tracked[t]] \in unsaved
            \/ FirstMinutes /\ first[ordFor[tracked[t]]] # NoOrder /\ ordFor[tracked[t]] \in batch
        BY <3>1, <3>2
      <4> QED
        BY <3>2, <4>1
    <3>4. FirstMinutes => FirstMinutes'
      BY <2>3, <3>1
    <3>5. ordFor'[newest'] = t
      BY <2>2
    <3>6. \/ row'[t] # NoOrder
          \/ t \in unsaved'
          \/ FirstMinutes' /\ first'[t] # NoOrder /\ t \in batch'
      BY <2>3, <3>3, <3>4
    <3> QED
      BY <2>4, <3>5, <3>6
  <2> QED
    BY <1>5, <2>5, <2>6
<1>6. CASE Register
  <2>1. \A t \in Opps : first[t] # NoOrder \/ t \in cur => first'[t] # NoOrder
    BY <1>6 DEF Register, Tracking
  <2>2. stage' = "submitting" /\ UNCHANGED <<broker, ordFor, row, unsaved, batch>> /\ stage = "sent"
    BY <1>6 DEF Register
  <2> QED
    BY <2>1, <2>2
<1>7. CASE SavePending
  <2>1. \A t \in Opps : first[t] # NoOrder => row'[t] # NoOrder \/ t \in unsaved'
    BY <1>7 DEF SavePending, Submitted
  <2>2. UNCHANGED <<broker, ordFor>> /\ stage = "saving"
    BY <1>7 DEF SavePending
  <2> QED
    BY <1>0, <2>1, <2>2
<1>8. CASE Crash \/ QuoteRaises
  <2>1. \A t \in batch : row[t] # NoOrder \/ t \in unsaved'
    BY <1>8 DEF Crash, QuoteRaises
  <2>2. UNCHANGED <<broker, ordFor, row>> /\ cur \subseteq batch
    BY <1>8 DEF Crash, QuoteRaises
  <2> QED
    BY <1>0, <2>1, <2>2
<1> QED
  BY <1>2, <1>3, <1>4, <1>5, <1>6, <1>7, <1>8 DEF Next, BrokerStep, HandlerStep, Visit

-----------------------------------------------------------------------------
(* One order at work.                                                      *)

\* An order of t that works and that nobody asked to cancel.
Live(o, t) == ordFor[o] = t /\ broker[o] = "working" /\ o \notin withdrawn

\* The opportunities no order was ever sent for.
ToBeSent(t) ==
    \/ state[t] \in {"APPROVED", "STAGED"}
    \/ stage \in {"claiming", "validating"} /\ t \in batch
    \/ stage \in {"submitting", "sent"} /\ t \in todo

Unsent ==
    /\ \A t \in Opps : ToBeSent(t) => \A o \in Orders : broker[o] # "none" => ordFor[o] # t
    /\ stage \notin {"idle", "down", "claiming"} =>
           \A t \in batch : state[t] \notin {"APPROVED", "STAGED"}

\* The opportunity between a withdrawal and the registration of its successor.
Between(t) == stage \in {"cancelled", "replaced"} /\ t \in cur

\* What works is in the table, except for the order just placed.
Held ==
    \A t \in Opps : \A o \in Orders : Live(o, t) =>
        /\ t \in Pending /\ ~Between(t) => o = tracked[t]
        /\ ~(stage = "cancelled" /\ t \in cur)
        /\ stage \in {"sent", "replaced"} /\ t \in cur => o = newest

OneLive == \A t \in Opps : \A o, q \in Orders : Live(o, t) /\ Live(q, t) => o = q

\* Staging is not repeated, so what left the staged states does not come back,
\* and an order goes out for what was claimed.
LEMMA UnsentStep ==
    ASSUME ~MayRestage, TypeOK, Tracking, Unsent, [Next]_vars
    PROVE  Unsent'
<1> USE DEF TypeOK, Unsent, ToBeSent, brokerVars, roundVars, execVars, rowVars, countVars
<1>0. ASSUME \A t \in Opps : ToBeSent(t)' => ToBeSent(t),
             \A o \in Orders : broker'[o] # "none" => broker[o] # "none" /\ ordFor'[o] = ordFor[o]
      PROVE  \A t \in Opps : ToBeSent(t)' => \A o \in Orders : broker'[o] # "none" => ordFor'[o] # t
  <2> HIDE DEF ToBeSent, TypeOK
  <2> QED
    BY <1>0
<1>1. ASSUME NEW t \in Opps, Submit(t) \/ Replace(t) PROVE Unsent'
  <2>1. t \in batch /\ Place(t) /\ stage \notin {"idle", "down", "claiming"}
    BY <1>1 DEF Submit, Replace
  <2>2. /\ newest' \in Orders
        /\ broker' = [broker EXCEPT ![newest'] = "working"]
        /\ ordFor' = [ordFor EXCEPT ![newest'] = t]
    BY <2>1, PlaceFacts
  <2>3. /\ state' = state /\ batch' = batch
        /\ stage' \in {"sent", "replaced"}
        /\ stage' = "sent" => stage = "submitting" /\ todo' = todo \ {t}
    BY <1>1 DEF Submit, Replace
  <2>4. ~ToBeSent(t)' /\ \A u \in Opps : ToBeSent(u)' => ToBeSent(u)
    BY <2>1, <2>3
  <2>5. \A o \in Orders : o # newest' => broker'[o] = broker[o] /\ ordFor'[o] = ordFor[o]
    BY <2>2
  <2>6. ordFor'[newest'] = t
    BY <2>2
  <2>7. \A u \in Opps : ToBeSent(u)' => \A o \in Orders : broker'[o] # "none" => ordFor'[o] # u
    <3> HIDE DEF ToBeSent, TypeOK
    <3> QED
      BY <2>4, <2>5, <2>6
  <2>8. stage' \notin {"idle", "down", "claiming"} =>
            \A u \in batch' : state'[u] \notin {"APPROVED", "STAGED"}
    BY <2>1, <2>3
  <2> HIDE DEF ToBeSent, TypeOK
  <2> QED
    BY <2>7, <2>8
<1>2. ASSUME NEW o \in Orders, BrokerFill(o) \/ BrokerDrop(o) \/ Deliver(o) PROVE Unsent'
  <2>1. UNCHANGED <<state, stage, batch, todo, ordFor>>
    BY <1>2 DEF BrokerFill, BrokerDrop, Deliver
  <2>2. \A q \in Orders : broker'[q] # "none" => broker[q] # "none"
    BY <1>2 DEF BrokerFill, BrokerDrop, Deliver
  <2> QED
    BY <2>1, <2>2
<1>3. ASSUME NEW t \in Opps, StageOpp(t) \/ Unstage(t) PROVE Unsent'
  BY <1>3 DEF StageOpp, Unstage, Stageable, Unstageable, States
<1>4. CASE EndOfDay \/ Restart
  <2>1. \A t \in Opps : state'[t] \in {"APPROVED", "STAGED"} => state[t] \in {"APPROVED", "STAGED"}
    BY <1>4 DEF EndOfDay, Restart, Expire
  <2>2. UNCHANGED <<broker, ordFor, batch, todo>> /\ stage' = "idle"
    BY <1>4 DEF EndOfDay, Restart
  <2> QED
    BY <2>1, <2>2
<1>5. CASE Load
  BY <1>5 DEF Load, Staged
<1>6. CASE Claim
  <2>1. \A t \in Opps : state'[t] \in {"APPROVED", "STAGED"} =>
            t \notin batch /\ state[t] \in {"APPROVED", "STAGED"}
    BY <1>6 DEF Claim
  <2>2. UNCHANGED <<broker, ordFor, batch, todo>> /\ stage = "claiming" /\ stage' = "validating"
    BY <1>6 DEF Claim
  <2> QED
    BY <2>1, <2>2
<1>7. CASE Validate \/ AllSubmitted \/ SkipTier2 \/ StartTier2
  BY <1>7 DEF Validate, AllSubmitted, SkipTier2, StartTier2
<1>8. CASE NothingReady \/ ValidationRaises \/ Tier2Raises \/ QuoteRaises \/ Finish \/ RecordTier1 \/ EndTier2
  <2>1. \A t \in Opps : state'[t] \in {"APPROVED", "STAGED"} => state[t] \in {"APPROVED", "STAGED"}
    BY <1>8 DEF NothingReady, ValidationRaises, Tier2Raises, QuoteRaises, SchedulerRaises, Finish,
                RecordTier1, EndTier2, Record
  <2>2. UNCHANGED <<broker, ordFor>>
    BY <1>8 DEF NothingReady, ValidationRaises, Tier2Raises, QuoteRaises, Finish, RecordTier1, EndTier2
  <2>3. \/ stage' = "idle" /\ batch' = {}
        \/ /\ stage' \in {"waiting", "final"} /\ stage \notin {"idle", "down", "claiming"}
           /\ batch' = batch
    BY <1>8 DEF NothingReady, ValidationRaises, Tier2Raises, QuoteRaises, SchedulerRaises, HandlerEnds,
                Finish, RecordTier1, EndTier2
  <2> QED
    BY <2>1, <2>2, <2>3
<1>9. CASE \/ \E t \in Opps : Refuse(t) \/ Leave(t) \/ Withdraw(t)
           \/ Register \/ Scan \/ NotReplaced \/ ReRegister \/ EndWatch \/ SavePending
  <2>1. UNCHANGED <<state, broker, ordFor, batch>>
    BY <1>9 DEF Refuse, Leave, Withdraw, Register, Scan, NotReplaced, ReRegister, EndWatch,
                SavePending
  <2>2. /\ stage \notin {"idle", "down", "claiming"}
        /\ stage' \notin {"claiming", "validating"}
        /\ stage' \in {"submitting", "sent"} =>
               stage \in {"submitting", "sent"} /\ todo' \subseteq todo
    BY <1>9 DEF Refuse, Leave, Withdraw, Adjustable, Register, Scan, RoundBegins, NotReplaced,
                ReRegister, BackToRound, EndWatch, SavePending
  <2> QED
    BY <2>1, <2>2
<1>10. CASE Crash
  <2>1. UNCHANGED <<state, broker, ordFor>> /\ stage' = "down" /\ batch' = {}
    BY <1>10 DEF Crash
  <2> QED
    BY <2>1
<1>11. CASE UNCHANGED vars
  BY <1>11 DEF vars
<1> QED
  BY <1>1, <1>2, <1>3, <1>4, <1>5, <1>6, <1>7, <1>8, <1>9, <1>10, <1>11
     DEF Next, BrokerStep, HandlerStep, Visit

\* An order is placed where none works, and what is placed is registered before
\* anything else is placed.
LEMMA HeldStep ==
    ASSUME TypeOK, Tracking, Unsent, Held, OneLive, [Next]_vars
    PROVE  Held' /\ OneLive'
<1> USE DEF Pending, Between, brokerVars, roundVars, execVars, rowVars, countVars
<1>1. ASSUME NEW t \in Opps, Submit(t) \/ Replace(t) PROVE Held' /\ OneLive'
  <2>1. t \in batch /\ Place(t)
    BY <1>1 DEF Submit, Replace, TypeOK
  <2>2. /\ newest' \in Orders /\ broker[newest'] = "none"
        /\ broker' = [broker EXCEPT ![newest'] = "working"]
        /\ ordFor' = [ordFor EXCEPT ![newest'] = t]
        /\ cur' = {t}
    BY <2>1, PlaceFacts
  <2>3. UNCHANGED <<withdrawn, tracked>>
    BY <1>1 DEF Submit, Replace
  <2>4. \A o \in Orders : ~Live(o, t)
    <3>1. CASE Submit(t)
      BY <3>1 DEF Submit, Unsent, ToBeSent, Live
    <3>2. CASE Replace(t)
      BY <3>2 DEF Replace, Held
    <3> QED
      BY <1>1, <3>1, <3>2
  <2>5. \A o \in Orders, u \in Opps : Live(o, u)' =>
            IF u = t THEN o = newest' ELSE o # newest' /\ Live(o, u)
    <3>1. \A o \in Orders : o # newest' => broker'[o] = broker[o] /\ ordFor'[o] = ordFor[o]
      BY <2>2 DEF TypeOK
    <3>2. ordFor'[newest'] = t
      BY <2>2 DEF TypeOK
    <3> QED
      BY <2>3, <2>4, <3>1, <3>2 DEF Live
  <2>6. OneLive'
    BY <2>5 DEF OneLive
  <2>7. Submit(t) => tracked[t] = NoOrder
    BY TrackedIsAnOrder DEF Submit, Unsent, ToBeSent
  <2>8. \/ stage = "submitting" /\ stage' = "sent" /\ tracked[t] = NoOrder
        \/ stage = "cancelled" /\ stage' = "replaced"
    BY <1>1, <2>7 DEF Submit, Replace
  <2> QED
    BY <2>2, <2>3, <2>5, <2>6, <2>8 DEF Held
<1>2. ASSUME \A o \in Orders, t \in Opps : Live(o, t)' => Live(o, t)
      PROVE  OneLive'
  BY <1>2 DEF OneLive
<1>3. ASSUME NEW o \in Orders, BrokerFill(o) \/ BrokerDrop(o) \/ Deliver(o)
      PROVE  Held' /\ OneLive'
  <2>1. UNCHANGED <<stage, tracked, cur, newest>>
    BY <1>3 DEF BrokerFill, BrokerDrop, Deliver
  <2>2. \A q \in Orders, t \in Opps : Live(q, t)' => Live(q, t)
    BY <1>3 DEF BrokerFill, BrokerDrop, Deliver, Live, TypeOK
  <2> QED
    BY <1>2, <2>1, <2>2 DEF Held
<1>4. ASSUME NEW t \in Opps, Withdraw(t) PROVE Held' /\ OneLive'
  <2>1. /\ stage \in {"watching", "tier2"} /\ stage' = "cancelled"
        /\ cur' = {t} /\ tracked[t] # NoOrder
        /\ UNCHANGED <<broker, ordFor, tracked, newest>>
    BY <1>4 DEF Withdraw, Adjustable, Tracking
  <2>2. \A o \in Orders, u \in Opps : Live(o, u)' => Live(o, u)
    BY <1>4 DEF Withdraw, Live
  <2>3. \A o \in Orders : ~Live(o, t)'
    <3>1. \A o \in Orders : Live(o, t) => o = tracked[t]
      BY <2>1 DEF Held
    <3> QED
      BY <1>4, <2>2, <3>1 DEF Withdraw, Live
  <2> QED
    BY <1>2, <2>1, <2>2, <2>3 DEF Held
<1>5. CASE Register \/ ReRegister
  <2>1. /\ stage \in {"sent", "replaced"}
        /\ stage' \notin {"sent", "cancelled", "replaced"}
        /\ UNCHANGED <<broker, ordFor, withdrawn>>
        /\ \A t \in Opps : tracked'[t] = IF t \in cur THEN newest ELSE tracked[t]
    BY <1>5 DEF Register, ReRegister, BackToRound, TypeOK
  <2>2. \A o \in Orders, t \in Opps : Live(o, t)' => Live(o, t)
    BY <2>1 DEF Live
  <2> QED
    BY <1>2, <2>1, <2>2 DEF Held
<1>6. CASE NotReplaced
  <2>1. /\ stage = "cancelled"
        /\ stage' \notin {"sent", "cancelled", "replaced"}
        /\ UNCHANGED <<broker, ordFor, withdrawn, tracked>>
    BY <1>6 DEF NotReplaced, BackToRound
  <2>2. \A o \in Orders, t \in Opps : Live(o, t)' => Live(o, t)
    BY <2>1 DEF Live
  <2> QED
    BY <1>2, <2>1, <2>2 DEF Held
<1>7. ASSUME stage' \notin {"sent", "cancelled", "replaced"},
             stage \notin {"cancelled", "replaced"},
             UNCHANGED <<broker, ordFor, withdrawn>>,
             \A t \in Opps : tracked'[t] \in {NoOrder, tracked[t]}
      PROVE  Held' /\ OneLive'
  <2>1. \A o \in Orders, t \in Opps : Live(o, t)' => Live(o, t)
    BY <1>7 DEF Live
  <2> QED
    BY <1>2, <1>7, <2>1 DEF Held
<1>8. CASE \/ EndOfDay \/ Restart \/ Load \/ Claim \/ Validate \/ AllSubmitted \/ SkipTier2
           \/ StartTier2 \/ SavePending \/ RecordTier1 \/ EndTier2 \/ Scan \/ EndWatch
           \/ \E t \in Opps : Refuse(t) \/ Leave(t)
  <2>1. /\ stage' \notin {"sent", "cancelled", "replaced"}
        /\ stage \notin {"cancelled", "replaced"}
        /\ UNCHANGED <<broker, ordFor, withdrawn>>
    BY <1>8 DEF EndOfDay, Restart, Load, Claim, Validate, AllSubmitted, SkipTier2, StartTier2,
                SavePending, RecordTier1, EndTier2, Scan, EndWatch, RoundBegins, Refuse, Leave
  <2>2. \A t \in Opps : tracked'[t] \in {NoOrder, tracked[t]}
    BY <1>8 DEF EndOfDay, Restart, Load, Claim, Validate, AllSubmitted, SkipTier2, StartTier2,
                SavePending, RecordTier1, EndTier2, Scan, EndWatch, Forget, Refuse, Leave
  <2> QED
    BY <1>7, <2>1, <2>2
<1>9. CASE NothingReady \/ ValidationRaises \/ Tier2Raises \/ QuoteRaises \/ Finish \/ Crash
  <2>1. /\ stage' \in {"idle", "down"}
        /\ UNCHANGED <<broker, ordFor, withdrawn>>
        /\ \A t \in Opps : tracked'[t] = NoOrder
    BY <1>9 DEF NothingReady, ValidationRaises, Tier2Raises, QuoteRaises, SchedulerRaises, HandlerEnds,
                Finish, Crash, None
  <2>2. \A o \in Orders, t \in Opps : Live(o, t)' => Live(o, t)
    BY <2>1 DEF Live
  <2> QED
    BY <1>2, <2>1, <2>2 DEF Held
<1>10. CASE UNCHANGED vars \/ \E t \in Opps : StageOpp(t) \/ Unstage(t)
  <2>1. UNCHANGED <<broker, ordFor, withdrawn, stage, tracked, cur, newest>>
    BY <1>10 DEF vars, StageOpp, Unstage
  <2>2. \A o \in Orders, t \in Opps : Live(o, t)' => Live(o, t)
    BY <2>1 DEF Live
  <2> QED
    BY <1>2, <2>1, <2>2 DEF Held
<1> QED
  BY <1>1, <1>3, <1>4, <1>5, <1>6, <1>8, <1>9, <1>10 DEF Next, BrokerStep, HandlerStep, Visit

-----------------------------------------------------------------------------

LEMMA BatchInit == Init => SoldOnly /\ Reported /\ Unsent /\ Held /\ OneLive
BY DEF Init, SoldOnly, Reported, Unsent, ToBeSent, Held, Live, OneLive, None, NoOrder

\* The tables of the executor and of the database keep their types, and what the
\* executor's table names is an order of that opportunity.
THEOREM BatchTypeCorrect == Spec => []TypeOK
<1>1. TypeOK /\ Tracking /\ [Next]_vars => (TypeOK /\ Tracking)'
  BY BatchTypeStep
<1> QED
  BY BatchTypeInit, <1>1, PTL DEF Spec

\* A fill in the trades table, and the state EXECUTED, mean that an order of that
\* opportunity filled: for any number of replacements, restagings, dropped
\* events, stale statuses and crashes.
THEOREM NothingFilledIsInvented == Spec => []FilledIsTruth
<1> DEFINE IInv == TypeOK /\ Tracking /\ SoldOnly
<1>1. Init => IInv
  BY BatchTypeInit, BatchInit
<1>2. IInv /\ [Next]_vars => IInv'
  BY BatchTypeStep, SoldStep
<1>3. IInv => FilledIsTruth
  BY DEF SoldOnly, Sold, FilledIsTruth
<1> QED
  BY <1>1, <1>2, <1>3, PTL DEF Spec

\* Every order that was sent is in the trades table once its batch is through
\* the first save, unless a crash, a failed commit or an exception of
\* the watch lost it.
THEOREM SentIsOnRecord == Spec => []OrdersAreOnRecord
<1> DEFINE IInv == TypeOK /\ Tracking /\ Reported
<1>1. Init => IInv
  BY BatchTypeInit, BatchInit
<1>2. IInv /\ [Next]_vars => IInv'
  BY BatchTypeStep, ReportedStep
<1>3. IInv => OrdersAreOnRecord
  BY DEF TypeOK, Reported, FirstMinutes, OrdersAreOnRecord
<1> QED
  BY <1>1, <1>2, <1>3, PTL DEF Spec

\* What is staged once never has two orders working that nobody asked to cancel.
THEOREM NeverTwoAtWork ==
    ASSUME ~MayRestage
    PROVE  Spec => []OneLiveOrder
<1> DEFINE IInv == TypeOK /\ Tracking /\ Unsent /\ Held /\ OneLive
<1>1. Init => IInv
  BY BatchTypeInit, BatchInit
<1>2. IInv /\ [Next]_vars => IInv'
  BY BatchTypeStep, UnsentStep, HeldStep
<1>3. IInv => OneLiveOrder
  BY DEF TypeOK, OneLive, Live, OneLiveOrder
<1> QED
  BY <1>1, <1>2, <1>3, PTL DEF Spec

=============================================================================
