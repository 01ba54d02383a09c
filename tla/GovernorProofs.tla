--------------------------- MODULE GovernorProofs ---------------------------
(***************************************************************************)
(* Proofs about what limits the daemon: the autonomy levels with their     *)
(* counters (AutonomyLevels.tla), the gate in front of every action        *)
(* (AutonomyGate.tla) and the risk governor with its halt                  *)
(* (RiskControl.tla), each for any configuration and bounds.               *)
(*                                                                         *)
(* The counters exist three times: in the governor, in the row and in the  *)
(* memory's start-up copy.  NoFreePromotion needs all three to stay below  *)
(* what was ever recorded (Backed), since a restart or a stale write may   *)
(* move any of them into any other.  PromotionEarned needs more, that the  *)
(* governor's own counters are what was earned since the level moved       *)
(* (InStep): that lasts until the daemon first dies.                       *)
(*                                                                         *)
(* HaltLasts needs that a late command carries the halt itself, and        *)
(* SeenLossBlocks that the peak of a governor covers every equity it saw   *)
(* (both in Sound).                                                        *)
(***************************************************************************)
EXTENDS AutonomyLevels, AutonomyGate, RiskControl, TLAPS

\* Every copy of the counters is covered by what was recorded.
Backed ==
    /\ trades <= recorded.trades /\ days <= recorded.days
    /\ mem.trades <= recorded.trades /\ mem.days <= recorded.days
    /\ row.trades <= recorded.trades /\ row.days <= recorded.days

IInv == LevelsTypeOK /\ Backed

\* The first daemon counts what was earned since the last move.
InStep ==
    crashes = 0 =>
        /\ ~running => /\ trades = 0 /\ row.trades = 0
                       /\ days = 0 /\ row.days = 0
        /\ trades = earned.trades
        /\ days = earned.days

-----------------------------------------------------------------------------
\* The setter of the level keeps it within 1..MaxLevel.
LEMMA ClampInRange == \A l \in Int : Clamp(l) \in 1..MaxLevel
BY ConfigAssumption DEF Clamp

\* A record of counters whose level is replaced is one again.
LEMMA SetLevelType ==
    \A c \in Counters, l \in 1..4 :
        /\ [c EXCEPT !.level = l] \in Counters
        /\ [c EXCEPT !.level = l].trades = c.trades
        /\ [c EXCEPT !.level = l].days = c.days
BY DEF Counters

\* The fields of the records, and what the updates of Record and
\* RecordCleanDay make of them.
LEMMA Fields ==
    /\ \A c \in Counters : c.trades \in Nat /\ c.days \in Nat /\ c.level \in 1..4
    /\ \A c \in Counts : c.trades \in Nat /\ c.days \in Nat
BY DEF Counters, Counts

LEMMA OneMoreTrade ==
    \A c \in Counts :
        /\ [c EXCEPT !.trades = @ + 1] \in Counts
        /\ [c EXCEPT !.trades = @ + 1].trades = c.trades + 1
        /\ [c EXCEPT !.trades = @ + 1].days = c.days
BY DEF Counts

LEMMA OneMoreDay ==
    \A c \in Counts :
        /\ [c EXCEPT !.days = @ + 1] \in Counts
        /\ [c EXCEPT !.days = @ + 1].days = c.days + 1
        /\ [c EXCEPT !.days = @ + 1].trades = c.trades
BY DEF Counts

LEMMA NewRow ==
    \A d \in Nat, t \in Nat, l \in 1..4 :
        [days |-> d, trades |-> t, level |-> l] \in Counters
BY DEF Counters

LEMMA Nothing == NoCount \in Counts /\ NoCount.trades = 0 /\ NoCount.days = 0
BY DEF Counts, NoCount

\* What Record leaves in its three cases.
LEMMA RecordCases ==
    ASSUME LevelsTypeOK, Record
    PROVE  /\ running /\ running'
           /\ \/ /\ level' = Clamp(level - 1) /\ trades' = 0 /\ days' = 0
                 /\ earned' = NoCount /\ mem' = mem
              \/ /\ MayPromote(trades + 1)
                 /\ level' = Clamp(level + 1) /\ trades' = 0 /\ days' = 0
                 /\ earned' = NoCount /\ mem' = [mem EXCEPT !.level = level']
              \/ /\ level' = level /\ trades' = trades + 1 /\ days' = days
                 /\ earned' = [earned EXCEPT !.trades = @ + 1] /\ mem' = mem
BY DEF Record, MoveTo

\* Only recording a trade moves the level of a running daemon.
LEMMA OnlyRecordMoves ==
    ASSUME [LevelsNext]_levelsVars, running, running', level' # level
    PROVE  Record
BY DEF LevelsNext, levelsVars, governor, Start, Crash, CloseTrade, MemorySave, Blemish,
       EmitClose, RecordCleanDay, CompleteClose, NextDay, SetAutonomy, Quiet

\* A move up is the promotion of check_promotion.
LEMMA PromotionMeetsCriteria ==
    ASSUME LevelsTypeOK, [LevelsNext]_levelsVars, Promoted
    PROVE  Record /\ trades + 1 >= MinTrades /\ days >= MinDays
<1>1. Record
  BY OnlyRecordMoves DEF Promoted, LevelsTypeOK
<1>2. level' # Clamp(level - 1)
  BY ConfigAssumption DEF Promoted, LevelsTypeOK, Clamp
<1>3. MayPromote(trades + 1)
  BY <1>1, <1>2, RecordCases DEF Promoted, LevelsTypeOK
<1> QED
  BY <1>1, <1>3 DEF MayPromote

-----------------------------------------------------------------------------
LEMMA InitIInv == LevelsInit => IInv
<1> SUFFICES ASSUME LevelsInit PROVE IInv
  OBVIOUS
<1>1. /\ mem \in Counters /\ mem.trades = 0 /\ mem.days = 0
      /\ row \in Counters /\ row.trades = 0 /\ row.days = 0
  BY DEF LevelsInit, Counters
<1>2. /\ recorded \in Counts /\ recorded.trades = 0 /\ recorded.days = 0
      /\ earned \in Counts
  BY Nothing DEF LevelsInit
<1>3. /\ results \in Seq(Results) /\ toRecord \in Seq(Results)
      /\ level \in 1..MaxLevel
  BY ClampInRange, ConfigAssumption DEF LevelsInit
<1>4. /\ running \in BOOLEAN /\ blemished \in BOOLEAN
      /\ market \in {"none", "pending", "hooked", "done"}
  BY DEF LevelsInit
<1>5. /\ trades = 0 /\ days = 0
      /\ crashes \in Nat /\ passed \in Nat /\ cliSets \in Nat
  BY SMT DEF LevelsInit
<1> QED
  BY <1>1, <1>2, <1>3, <1>4, <1>5 DEF IInv, LevelsTypeOK, Backed

\* One step per action; the record of a trade and the credit of a day are
\* the only ones that raise a counter, and they raise the history with it.
LEMMA StepIInv == IInv /\ [LevelsNext]_levelsVars => IInv'
<1> SUFFICES ASSUME IInv, [LevelsNext]_levelsVars PROVE IInv'
  OBVIOUS
<1>a. LevelsTypeOK /\ Backed
  BY DEF IInv
<1>b. /\ row.trades \in Nat /\ row.days \in Nat
      /\ mem.trades \in Nat /\ mem.days \in Nat
      /\ recorded.trades \in Nat /\ recorded.days \in Nat
  BY <1>a, Fields DEF LevelsTypeOK
<1>1. CASE Start
  <2>1. /\ [row EXCEPT !.level = InitialLevel] \in Counters
        /\ [row EXCEPT !.level = InitialLevel].trades = row.trades
        /\ [row EXCEPT !.level = InitialLevel].days = row.days
    BY <1>a, SetLevelType, ConfigAssumption DEF LevelsTypeOK
  <2>2. level' \in 1..MaxLevel /\ days' = row.days /\ trades' = row.trades
        /\ row' \in Counters /\ mem' \in Counters
        /\ row'.trades = row.trades /\ row'.days = row.days
        /\ mem'.trades = row.trades /\ mem'.days = row.days
        /\ market' \in {"none", "pending", "hooked", "done"}
        /\ running' \in BOOLEAN
    BY <1>1, <1>a, <2>1, ClampInRange, ConfigAssumption DEF Start, LevelsTypeOK
  <2>3. UNCHANGED <<results, toRecord, blemished, crashes, passed, cliSets,
                    earned, recorded>>
    BY <1>1 DEF Start, bounds, histories
  <2> QED
    BY <1>a, <1>b, <2>2, <2>3 DEF IInv, LevelsTypeOK, Backed
<1>2. CASE Crash
  <2>1. toRecord' \in Seq(Results) /\ crashes' \in Nat
    BY <1>2, <1>a DEF Crash, LevelsTypeOK
  <2> QED
    BY <1>2, <1>a, <2>1 DEF Crash, IInv, LevelsTypeOK, Backed, governor, histories
<1>3. ASSUME NEW o \in Results, NEW seen \in BOOLEAN, CloseTrade(o, seen)
      PROVE  IInv'
  <2>1. results' \in Seq(Results) /\ toRecord' \in Seq(Results)
    BY <1>3, <1>a DEF CloseTrade, LevelsTypeOK
  <2> QED
    BY <1>3, <1>a, <2>1
    DEF CloseTrade, IInv, LevelsTypeOK, Backed, governor, bounds, histories
<1>4. CASE Record
  <2>1. /\ recorded' = [recorded EXCEPT !.trades = @ + 1]
        /\ row' = [days |-> days', trades |-> trades', level |-> mem'.level]
        /\ toRecord' = Tail(toRecord) /\ toRecord # << >>
        /\ UNCHANGED <<running, results, market, blemished, crashes, passed,
                       cliSets>>
    BY <1>4 DEF Record, bounds
  <2>2. /\ recorded' \in Counts /\ recorded'.trades = recorded.trades + 1
        /\ recorded'.days = recorded.days
    BY <2>1, <1>a, OneMoreTrade DEF LevelsTypeOK
  <2>3. level' \in 1..MaxLevel /\ earned' \in Counts
    <3>1. Clamp(level - 1) \in 1..MaxLevel /\ Clamp(level + 1) \in 1..MaxLevel
      BY <1>a, ClampInRange, ConfigAssumption DEF LevelsTypeOK
    <3> QED
      BY <1>4, <1>a, <3>1, RecordCases, OneMoreTrade, Nothing DEF LevelsTypeOK
  <2>4. /\ trades' \in Nat /\ trades' <= recorded'.trades
        /\ days' \in Nat /\ days' <= recorded'.days
    <3>1. /\ trades \in Nat /\ trades <= recorded.trades
          /\ days \in Nat /\ days <= recorded.days
      BY <1>a DEF LevelsTypeOK, Backed
    <3>2. \/ trades' = 0 /\ days' = 0
          \/ trades' = trades + 1 /\ days' = days
      BY <1>4, <1>a, RecordCases
    <3> QED
      BY <1>b, <2>2, <3>1, <3>2
  <2>5. level' \in 1..4
    BY <2>3, ConfigAssumption
  <2>6. /\ mem' \in Counters /\ mem'.trades = mem.trades
        /\ mem'.days = mem.days
    BY <1>4, <1>a, <2>5, RecordCases, SetLevelType DEF LevelsTypeOK
  <2>7. row' \in Counters /\ row'.trades = trades' /\ row'.days = days'
    BY <2>1, <2>4, <2>6, NewRow, Fields
  <2>8. toRecord' \in Seq(Results)
    BY <2>1, <1>a DEF LevelsTypeOK
  <2>9. mem'.trades <= recorded'.trades /\ mem'.days <= recorded'.days
    BY <1>a, <1>b, <2>2, <2>6 DEF Backed
  <2> QED
    BY <1>a, <2>1, <2>2, <2>3, <2>4, <2>6, <2>7, <2>8, <2>9
    DEF IInv, LevelsTypeOK, Backed
<1>5. CASE MemorySave
  BY <1>5, <1>a
  DEF MemorySave, IInv, LevelsTypeOK, Backed, governor, bounds, histories
<1>6. CASE Blemish \/ EmitClose \/ CompleteClose
  BY <1>6, <1>a
  DEF Blemish, EmitClose, CompleteClose, IInv, LevelsTypeOK, Backed, governor,
      bounds, histories
<1>7. CASE RecordCleanDay
  <2>1. CASE blemished
    BY <1>7, <1>a, <2>1 DEF RecordCleanDay, IInv, LevelsTypeOK, Backed, bounds, histories
  <2>2. CASE ~blemished
    <3>1. /\ days' = days + 1 /\ market' = "hooked"
          /\ row' = [row EXCEPT !.days = days + 1, !.trades = trades]
          /\ earned' = [earned EXCEPT !.days = @ + 1]
          /\ recorded' = [recorded EXCEPT !.days = @ + 1]
          /\ UNCHANGED <<running, level, trades, mem, results, toRecord,
                         blemished, crashes, passed, cliSets>>
      BY <1>7, <2>2 DEF RecordCleanDay, bounds
    <3>2. /\ recorded' \in Counts /\ recorded'.days = recorded.days + 1
          /\ recorded'.trades = recorded.trades
          /\ earned' \in Counts
      BY <3>1, <1>a, OneMoreDay DEF LevelsTypeOK
    <3>3. /\ days \in Nat /\ trades \in Nat /\ days + 1 \in Nat
      BY <1>a, <3>1 DEF LevelsTypeOK
    <3>4. row' \in Counters /\ row'.days = days + 1 /\ row'.trades = trades
      <4>1. row \in Counters
        BY <1>a DEF LevelsTypeOK
      <4> DEFINE saved == [row EXCEPT !.days = days + 1, !.trades = trades]
      <4>2. saved \in Counters /\ saved.days = days + 1
            /\ saved.trades = trades
        BY <3>3, <4>1 DEF Counters
      <4> QED
        BY <3>1, <4>2
    <3>5. /\ trades <= recorded.trades /\ days <= recorded.days
          /\ mem.trades <= recorded.trades /\ mem.days <= recorded.days
      BY <1>a DEF Backed
    <3>6. Backed'
      BY <1>b, <3>1, <3>2, <3>3, <3>4, <3>5 DEF Backed
    <3> QED
      BY <1>a, <3>1, <3>2, <3>3, <3>4, <3>6 DEF IInv, LevelsTypeOK
  <2> QED
    BY <2>1, <2>2, <1>a DEF LevelsTypeOK
<1>8. CASE NextDay
  <2>1. /\ market' \in {"none", "pending", "hooked", "done"}
        /\ blemished' \in BOOLEAN
    BY <1>8, <1>a DEF NextDay, LevelsTypeOK
  <2>2. passed' \in Nat
    BY <1>8, <1>a DEF NextDay, LevelsTypeOK
  <2> QED
    BY <1>8, <1>a, <2>1, <2>2
      DEF NextDay, IInv, LevelsTypeOK, Backed, governor, histories
<1>9. ASSUME NEW l \in 1..4, SetAutonomy(l)
      PROVE  IInv'
  <2>1. /\ row' \in Counters /\ row'.trades = row.trades
        /\ row'.days = row.days
    BY <1>9, <1>a, SetLevelType DEF SetAutonomy, LevelsTypeOK
  <2> QED
    BY <1>9, <1>a, <2>1
      DEF SetAutonomy, IInv, LevelsTypeOK, Backed, governor, histories
<1>10. CASE UNCHANGED levelsVars
  BY <1>10, <1>a
  DEF levelsVars, IInv, LevelsTypeOK, Backed, governor, bounds, histories
<1> QED
  BY <1>1, <1>2, <1>3, <1>4, <1>5, <1>6, <1>7, <1>8, <1>9, <1>10 DEF LevelsNext

\* IInv holds in every reachable state.
LEMMA Invariant == LevelsSpec => []IInv
BY InitIInv, StepIInv, PTL DEF LevelsSpec

\* The level stays in 1..MaxLevel and every counter is a count, whatever the
\* configured start level, the promotions, the demotions and the restarts.
THEOREM TypeCorrect == LevelsSpec => []LevelsTypeOK
<1>1. IInv => LevelsTypeOK
  BY DEF IInv
<1> QED
  BY <1>1, Invariant, PTL

\* No promotion before MinTrades trades and MinDays days were recorded, for
\* any number of crashes, stale writes of the row and set-autonomy commands.
THEOREM PromotionsArePaidFor == LevelsSpec => NoFreePromotion
<1>1. IInv /\ [LevelsNext]_levelsVars =>
          [Promoted => /\ recorded'.trades >= MinTrades
                       /\ recorded'.days >= MinDays]_levelsVars
  <2> SUFFICES ASSUME IInv, [LevelsNext]_levelsVars, Promoted
               PROVE  /\ recorded'.trades >= MinTrades
                      /\ recorded'.days >= MinDays
    OBVIOUS
  <2>1. Record /\ trades + 1 >= MinTrades /\ days >= MinDays
    BY PromotionMeetsCriteria DEF IInv
  <2>2. /\ recorded'.trades = recorded.trades + 1
        /\ recorded'.days = recorded.days
    BY <2>1 DEF Record, IInv, LevelsTypeOK, Counts
  <2> QED
    BY <2>1, <2>2, ConfigAssumption DEF IInv, LevelsTypeOK, Backed, Counts
<1> QED
  BY <1>1, Invariant, PTL DEF LevelsSpec, NoFreePromotion

-----------------------------------------------------------------------------
LEMMA InitInStep == LevelsInit => InStep
BY DEF LevelsInit, InStep, NoCount

LEMMA StepInStep == LevelsTypeOK /\ InStep /\ [LevelsNext]_levelsVars => InStep'
<1> SUFFICES ASSUME LevelsTypeOK, InStep, [LevelsNext]_levelsVars, crashes' = 0 PROVE InStep'
  BY DEF InStep
<1> USE DEF InStep, governor, histories, bounds
<1>1. CASE Start
  <2>1. /\ [row EXCEPT !.level = InitialLevel].trades = row.trades
        /\ [row EXCEPT !.level = InitialLevel].days = row.days
    BY SetLevelType, ConfigAssumption DEF LevelsTypeOK
  <2> QED
    BY <1>1, <2>1 DEF Start
<1>2. ~Crash
  BY DEF Crash, LevelsTypeOK
<1>3. ASSUME NEW o \in Results, NEW seen \in BOOLEAN, CloseTrade(o, seen)
      PROVE  InStep'
  BY <1>3 DEF CloseTrade
<1>4. CASE Record
  <2>1. running' /\ crashes = 0
    BY <1>4 DEF Record
  <2>2. trades' = earned'.trades /\ days' = earned'.days
    BY <1>4, <2>1, RecordCases DEF NoCount, LevelsTypeOK, Counts
  <2> QED
    BY <2>1, <2>2
<1>5. CASE MemorySave
  BY <1>5 DEF MemorySave, Quiet
<1>6. CASE Blemish \/ EmitClose \/ CompleteClose
  BY <1>6 DEF Blemish, EmitClose, CompleteClose, Quiet
<1>7. CASE RecordCleanDay
  <2>1. running' /\ crashes' = crashes /\ trades' = trades
    BY <1>7 DEF RecordCleanDay, Quiet
  <2>2. earned'.trades = earned.trades /\ days' = earned'.days
    BY <1>7 DEF RecordCleanDay, LevelsTypeOK, Counts
  <2> QED
    BY <2>1, <2>2
<1>8. CASE NextDay
  BY <1>8 DEF NextDay
<1>9. ASSUME NEW l \in 1..4, SetAutonomy(l)
      PROVE  InStep'
  <2>1. row'.trades = row.trades /\ row'.days = row.days
    BY <1>9, SetLevelType DEF SetAutonomy, LevelsTypeOK
  <2> QED
    BY <1>9, <2>1 DEF SetAutonomy
<1>10. CASE UNCHANGED levelsVars
  BY <1>10 DEF levelsVars
<1> QED
  BY <1>1, <1>2, <1>3, <1>4, <1>5, <1>6, <1>7, <1>8, <1>9, <1>10 DEF LevelsNext

\* The first daemon promotes only on the trades and the clean days recorded
\* since its level last moved.
THEOREM PromotionsAreEarned == LevelsSpec => PromotionEarned
<1>1. LevelsTypeOK /\ InStep /\ [LevelsNext]_levelsVars => InStep'
  BY StepInStep
<1>2. LevelsTypeOK /\ InStep /\ [LevelsNext]_levelsVars =>
          [Promoted /\ crashes = 0 => /\ earned.trades + 1 >= MinTrades
                                      /\ earned.days >= MinDays]_levelsVars
  BY PromotionMeetsCriteria DEF InStep
<1> QED
  BY <1>1, <1>2, InitInStep, TypeCorrect, PTL DEF LevelsSpec, PromotionEarned

-----------------------------------------------------------------------------
(* The autonomy gate, for every configuration, context and confidence.     *)

\* The thresholds of the levels are in order, except that L3 never asks for
\* less than 60: an execute threshold under 60 puts L2 below L3.
LEMMA ThresholdsDescend ==
    ASSUME NEW action, ExecuteThreshold >= 60
    PROVE  Threshold(3, action) <= Threshold(2, action)
BY GateAssumption DEF Threshold, Larger

\* Without the low-confidence trigger switched off, nothing that adds risk
\* gets as far as the levels with less than 60.
LEMMA RiskNeedsConfidence ==
    ASSUME NEW action \in Actions \ (NoOp \cup Closing), NEW conf \in Confidence, NEW ctx,
           "low_confidence" \notin Disabled, ~Triggered(action, conf, ctx)
    PROVE  conf >= 60
BY DEF Triggered, Holding, Triggers, Confidence

\* One level up, what passed still passes.
LEMMA LevelsAreOrdered ==
    ASSUME ExecuteThreshold >= 60 \/ "low_confidence" \notin Disabled,
           NEW lv \in 1..3, NEW action \in Actions, NEW conf \in Confidence, NEW ctx,
           CanExecute(lv, action, conf, ctx)
    PROVE  CanExecute(lv + 1, action, conf, ctx)
<1>1. CASE action \in NoOp
  BY <1>1 DEF CanExecute
<1>2. CASE action \notin NoOp
  <2>1. ~Triggered(action, conf, ctx) /\ ~FootprintIssue(action, ctx)
    BY <1>2 DEF CanExecute
  <2>2. CASE action \in AutoExecute
    BY <2>1, <2>2 DEF CanExecute
  <2>3. CASE LevelAllows(lv, action, conf)
    <3>1. CASE lv = 3
      BY <2>1, <3>1 DEF CanExecute, LevelAllows
    <3>2. CASE lv = 2
      <4>1. conf >= Threshold(2, action)
        BY <2>3, <3>2 DEF LevelAllows
      <4>2. conf >= Threshold(3, action)
        <5>1. CASE action # "EXECUTE_TRADES"
          BY <4>1, <5>1 DEF Threshold, Confidence
        <5>2. CASE action = "EXECUTE_TRADES" /\ ExecuteThreshold >= 60
          BY <4>1, <5>2, GateAssumption DEF Threshold, Larger, Confidence
        <5>3. CASE action = "EXECUTE_TRADES" /\ "low_confidence" \notin Disabled
          <6>1. action \in Actions \ (NoOp \cup Closing)
            BY <5>3 DEF Actions, NoOp, Closing
          <6>2. conf >= 60
            BY <2>1, <5>3, <6>1, RiskNeedsConfidence
          <6>3. QED
            BY <4>1, <5>3, <6>2, GateAssumption DEF Threshold, Larger, Confidence
        <5>4. QED
          BY <5>1, <5>2, <5>3
      <4>3. QED
        BY <2>1, <3>2, <4>2 DEF CanExecute, LevelAllows
    <3>3. CASE lv = 1
      BY <2>3, <3>3 DEF LevelAllows
    <3>4. QED
      BY <3>1, <3>2, <3>3
  <2>4. QED
    BY <1>2, <2>2, <2>3 DEF CanExecute
<1>3. QED
  BY <1>1, <1>2

\* What the state says of the last decision.
Judged ==
    /\ asked \in [level : Levels, action : Actions, conf : Confidences, ctx : Grid]
    /\ answer \in {"none", "approved", "escalated"}
    /\ answer = "approved" =>
        CanExecute(asked.level, asked.action, asked.conf, asked.ctx)
    /\ answer = "escalated" =>
        ~CanExecute(asked.level, asked.action, asked.conf, asked.ctx)

LEMMA AlwaysJudged == GateSpec => []Judged
<1>1. GateInit => Judged
  BY DEF GateInit, Judged
<1>2. Judged /\ [Judge]_gateVars => Judged'
  <2>1. Judged /\ Judge => Judged'
    BY DEF Judged, Judge
  <2>2. Judged /\ UNCHANGED gateVars => Judged'
    BY DEF Judged, gateVars
  <2>3. QED
    BY <2>1, <2>2
<1>3. QED
  BY <1>1, <1>2, PTL DEF GateSpec

\* More autonomy never takes an approval away, for every configuration whose
\* execute threshold is at least 60% or that keeps the low-confidence trigger.
THEOREM GateIsMonotone ==
    ASSUME ExecuteThreshold >= 60 \/ "low_confidence" \notin Disabled
    PROVE  GateSpec => []MoreAutonomyApprovesMore
<1>1. Judged => MoreAutonomyApprovesMore
  <2>1. SUFFICES ASSUME Judged, answer = "approved", asked.level < 4
                 PROVE  CanExecute(asked.level + 1, asked.action, asked.conf, asked.ctx)
    BY DEF MoreAutonomyApprovesMore
  <2>2. /\ asked.level \in 1..3 /\ asked.action \in Actions
        /\ asked.conf \in Confidence
    BY <2>1, GridAssumption DEF Judged, Levels
  <2>3. CanExecute(asked.level, asked.action, asked.conf, asked.ctx)
    BY <2>1 DEF Judged
  <2>4. QED
    BY <2>2, <2>3, LevelsAreOrdered
<1>2. QED
  BY <1>1, AlwaysJudged, PTL

\* Whatever is opted in, whatever the level: a trigger that is switched on
\* stops every action that adds risk.
THEOREM TriggersAreMandatory == GateSpec => []TriggersHoldAtEveryLevel
<1>1. Judged => TriggersHoldAtEveryLevel
  BY DEF Judged, TriggersHoldAtEveryLevel, CanExecute, Triggered
<1>2. QED
  BY <1>1, AlwaysJudged, PTL

\* Whatever the context, closing passes from L2 on.
THEOREM ClosingPasses == GateSpec => []ClosingIsNeverHeldUp
<1>1. Judged => ClosingIsNeverHeldUp
  <2>1. SUFFICES ASSUME Judged, asked.action \in Closing, asked.level >= 2, asked.conf >= 70
                 PROVE  CanExecute(asked.level, asked.action, asked.conf, asked.ctx)
    BY DEF ClosingIsNeverHeldUp, Judged
  <2>2. asked.level \in {2, 3, 4} /\ asked.conf \in Confidence
    BY <2>1, GridAssumption DEF Judged, Levels
  <2>3. LevelAllows(asked.level, asked.action, asked.conf)
    BY <2>1, <2>2 DEF LevelAllows, Threshold, Routine, Closing, Confidence
  <2>4. QED
    BY <2>1, <2>3 DEF CanExecute, Triggered, FootprintIssue
<1>2. QED
  BY <1>1, AlwaysJudged, PTL

-----------------------------------------------------------------------------
(* The governor and its halt.                                              *)

\* What holds of one command: one started after a halt carries it, what is
\* approved fits the day, and the peak covers every equity the drawdown check saw.
Sound(p) ==
    /\ p \in late => gov[p].halted /\ gov[p].pc = "ready"
    /\ gov[p].pc \in {"approved", "sent"} => gov[p].target \in Contracts
    /\ gov[p].pc \in {"approved", "sent"} => gov[p].trades < MaxPerDay
    /\ known[p].high <= gov[p].peak
    /\ gov[p].pc = "off" => known[p] = Unseen
    /\ gov[p].pc = "approved" /\ known[p].last > 0 =>
           100 * known[p].last > 90 * known[p].high

RiskSafe ==
    /\ RiskTypeOK
    /\ latched => haltFile # "absent"
    /\ \A p \in Procs : Sound(p)

\* What a governor makes of itself while it checks.
Steady(g, h) ==
    h \in Governor /\ h.pc = g.pc /\ h.halted = g.halted /\ h.peak >= g.peak

LEMMA SummaryIsTyped ==
    \A s \in Accounts \cup {NoData} : s.nlv \in Nat
BY RiskBounds DEF Summary, NoData

LEMMA RecountSteady ==
    ASSUME NEW g \in Governor, dayOfRisk \in 0..MaxDay, RiskBounds
    PROVE  Steady(g, Recounted(g))
<1>1. g.peak \in Nat /\ 0 \in 0..MaxPerDay
  BY DEF Governor, RiskBounds
<1>2. CASE dayOfRisk > g.counted
  <2>1. Recounted(g) = [g EXCEPT !.trades = 0, !.counted = dayOfRisk]
    BY <1>2 DEF Recounted
  <2>2. Recounted(g) \in Governor
    BY <1>1, <2>1 DEF Governor
  <2>3. Recounted(g).pc = g.pc /\ Recounted(g).halted = g.halted /\ Recounted(g).peak = g.peak
    BY <2>1 DEF Governor
  <2> QED
    BY <1>1, <2>2, <2>3 DEF Steady
<1>3. CASE ~(dayOfRisk > g.counted)
  BY <1>1, <1>3 DEF Recounted, Steady
<1> QED
  BY <1>2, <1>3

LEMMA RefreshSteady ==
    ASSUME NEW g \in Governor, account \in Accounts, NEW h \in Refreshed(g)
    PROVE  Steady(g, h)
<1>1. g.peak \in Nat
  BY DEF Governor
<1>2. h = g \/ h = [g EXCEPT !.cache = account, !.cached = TRUE, !.stale = FALSE]
  BY DEF Refreshed
<1>3. h \in Governor
  BY <1>2 DEF Governor
<1>4. h.pc = g.pc /\ h.halted = g.halted /\ h.peak = g.peak
  BY <1>2 DEF Governor
<1> QED
  BY <1>1, <1>3, <1>4 DEF Steady

LEMMA WeekSteady ==
    ASSUME NEW g \in Governor, dayOfRisk \in 0..MaxDay
    PROVE  Steady(g, WeekStarted(g))
<1>1. g.peak \in Nat /\ g.cache.nlv \in Nat
  BY SummaryIsTyped DEF Governor
<1>2. \/ WeekStarted(g) = g
      \/ WeekStarted(g) = [g EXCEPT !.week = g.cache.nlv, !.weekDay = dayOfRisk]
  BY DEF WeekStarted
<1>3. WeekStarted(g) \in Governor
  BY <1>1, <1>2 DEF Governor
<1>4. /\ WeekStarted(g).pc = g.pc /\ WeekStarted(g).halted = g.halted
      /\ WeekStarted(g).peak = g.peak
  BY <1>2 DEF Governor
<1> QED
  BY <1>1, <1>3, <1>4 DEF Steady

LEMMA PeakSteady ==
    ASSUME NEW g \in Governor
    PROVE  /\ Steady(g, Peaked(g))
           /\ Peaked(g).cache = g.cache /\ Peaked(g).peak >= g.cache.nlv
<1>1. g.peak \in Nat /\ g.cache.nlv \in Nat
  BY SummaryIsTyped DEF Governor
<1>2. CASE g.cache.nlv > g.peak
  <2>1. Peaked(g) = [g EXCEPT !.peak = g.cache.nlv]
    BY <1>2 DEF Peaked
  <2> QED
    BY <1>1, <1>2, <2>1 DEF Steady, Governor
<1>3. CASE ~(g.cache.nlv > g.peak)
  BY <1>1, <1>3 DEF Peaked, Steady
<1> QED
  BY <1>2, <1>3

LEMMA SteadyChain ==
    ASSUME NEW g \in Governor, NEW h, NEW k, Steady(g, h), Steady(h, k)
    PROVE  Steady(g, k)
<1>1. g.peak \in Nat /\ h.peak \in Nat /\ k.peak \in Nat
  BY DEF Steady, Governor
<1> QED
  BY <1>1 DEF Steady

\* The one command that acts is sound after its step, the others stay so.
LEMMA OneGovernor ==
    ASSUME RiskSafe, NEW p \in Procs, NEW g \in Governor,
           gov' = [gov EXCEPT ![p] = g],
           late' \subseteq Procs, \A q \in Procs \ {p} : q \in late' => q \in late,
           known' \in [Procs -> [high : Nat, last : Nat]],
           \A q \in Procs \ {p} : known'[q] = known[q],
           Sound(p)'
    PROVE  gov' \in [Procs -> Governor] /\ (\A q \in Procs : Sound(q))'
<1>1. gov' \in [Procs -> Governor]
  BY DEF RiskSafe, RiskTypeOK
<1>2. ASSUME NEW q \in Procs, q # p PROVE Sound(q)'
  <2>1. gov'[q] = gov[q] /\ known'[q] = known[q] /\ (q \in late' => q \in late)
    BY <1>2 DEF RiskSafe, RiskTypeOK
  <2> QED
    BY <2>1 DEF RiskSafe, Sound
<1> QED
  BY <1>1, <1>2

\* A command that only looks keeps to its place; late or not it stays what it was.
LEMMA StillReady ==
    ASSUME RiskSafe, NEW p \in Procs, NEW g \in Governor, gov[p].pc = "ready",
           gov' = [gov EXCEPT ![p] = g], g.pc = "ready", gov[p].halted => g.halted,
           g.peak >= gov[p].peak, late' = late, known' = known
    PROVE  gov' \in [Procs -> Governor] /\ (\A q \in Procs : Sound(q))'
<1>1. gov'[p] = g /\ gov[p] \in Governor
  BY DEF RiskSafe, RiskTypeOK
<1>2. Sound(p)'
  <2>1. gov[p].peak \in Nat /\ g.peak \in Nat /\ known[p].high \in Nat
    BY <1>1 DEF Governor, RiskSafe, RiskTypeOK
  <2>2. known[p].high <= g.peak
    BY <2>1 DEF RiskSafe, Sound
  <2> QED
    BY <1>1, <2>2 DEF RiskSafe, Sound
<1>3. late' \subseteq Procs /\ known' \in [Procs -> [high : Nat, last : Nat]]
  BY DEF RiskSafe, RiskTypeOK
<1> QED
  BY <1>2, <1>3, OneGovernor

LEMMA HaltKeeps ==
    ASSUME RiskSafe, Halt
    PROVE  /\ haltFile' \in FileStates /\ latched' \in BOOLEAN
           /\ latched' => haltFile' # "absent"
BY DEF Halt, WriteHalt, RiskSafe, RiskTypeOK, FileStates

\* Keep and Trip write a governor down, the second halted.
LEMMA WrittenDown ==
    ASSUME RiskSafe, NEW p \in Procs, NEW h \in Governor, Keep(p, h) \/ Trip(p, h)
    PROVE  /\ haltFile' \in FileStates /\ latched' \in BOOLEAN
           /\ latched' => haltFile' # "absent"
           /\ \E g \in Governor :
                 /\ gov' = [gov EXCEPT ![p] = g]
                 /\ g.pc = h.pc /\ g.peak = h.peak /\ g.trades = h.trades
                 /\ h.halted => g.halted
<1>1. CASE Keep(p, h)
  BY <1>1 DEF Keep, RiskSafe, RiskTypeOK
<1>2. CASE Trip(p, h)
  <2> DEFINE g == [h EXCEPT !.halted = TRUE]
  <2>1. /\ g \in Governor /\ g.pc = h.pc /\ g.peak = h.peak /\ g.trades = h.trades
        /\ g.halted
    BY DEF Governor
  <2>2. gov' = [gov EXCEPT ![p] = g] /\ Halt
    BY <1>2 DEF Trip
  <2> HIDE DEF g
  <2> QED
    BY <2>1, <2>2, HaltKeeps
<1> QED
  BY <1>1, <1>2

\* A check leaves its command ready, halted, or approved below the drawdown limit.
LEMMA CheckKeeps ==
    ASSUME RiskSafe, NEW p \in Procs, NEW c \in Contracts, CheckAccount(p, c)
    PROVE  /\ haltFile' \in FileStates /\ latched' \in BOOLEAN
           /\ latched' => haltFile' # "absent"
           /\ known' \in [Procs -> [high : Nat, last : Nat]]
           /\ gov' \in [Procs -> Governor] /\ (\A q \in Procs : Sound(q))'
<1> DEFINE g == Recounted(gov[p])
<1>1. /\ gov[p] \in Governor /\ account \in Accounts /\ dayOfRisk \in 0..MaxDay
      /\ known[p] \in [high : Nat, last : Nat] /\ late \subseteq Procs
      /\ known \in [Procs -> [high : Nat, last : Nat]]
  BY DEF RiskSafe, RiskTypeOK
<1>2. gov[p].pc = "ready" /\ ~g.halted /\ late' = late
  BY DEF CheckAccount
<1>3. Steady(gov[p], g) /\ g \in Governor
  BY <1>1, RecountSteady, RiskBounds DEF Steady
<1>4. PICK list \in PositionLists, r1 \in Refreshed(g) :
        LET w == WeekStarted(r1)
        IN IF WeeklyLoss(w) THEN Trip(p, w) /\ UNCHANGED known
           ELSE \E r2 \in Refreshed(w) :
              LET k == IF r2.cache.nlv > 0 THEN Peaked(r2) ELSE r2
              IN /\ Saw(p, k.cache.nlv)
                 /\ IF Drawdown(k) THEN Trip(p, k)
                    ELSE IF TooMany(k, list, c) THEN Keep(p, k)
                    ELSE \E r3 \in Refreshed(k), required \in WhatIfQuotes(c) :
                      IF MarginRefused(r3.cache, TradeMargin[c], required)
                      THEN Keep(p, r3)
                      ELSE Keep(p, [r3 EXCEPT !.pc = "approved", !.target = c])
  BY DEF CheckAccount
<1> DEFINE w == WeekStarted(r1)
<1>5. Steady(gov[p], w) /\ w \in Governor
  <2>1. Steady(g, r1) /\ r1 \in Governor
    BY <1>1, <1>3, <1>4, RefreshSteady DEF Steady
  <2>2. Steady(r1, w)
    BY <1>1, <2>1, WeekSteady
  <2>3. Steady(g, w)
    BY <1>3, <2>1, <2>2, SteadyChain
  <2>4. Steady(gov[p], w)
    BY <1>1, <1>3, <2>3, SteadyChain
  <2> QED
    BY <2>4 DEF Steady
<1> HIDE DEF g
<1>6. CASE WeeklyLoss(w)
  <2>1. Trip(p, w) /\ known' = known
    BY <1>4, <1>6
  <2> HIDE DEF w
  <2>2. PICK h \in Governor : /\ gov' = [gov EXCEPT ![p] = h]
                              /\ h.pc = w.pc /\ h.peak = w.peak /\ (w.halted => h.halted)
    BY <1>5, <2>1, WrittenDown
  <2>3. h.pc = "ready" /\ (gov[p].halted => h.halted) /\ h.peak >= gov[p].peak
    BY <1>2, <1>5, <2>2 DEF Steady
  <2> QED
    BY <1>1, <1>2, <1>5, <2>1, <2>2, <2>3, WrittenDown, StillReady
<1>7. CASE ~WeeklyLoss(w)
  <2>1. PICK r2 \in Refreshed(w) :
          LET k == IF r2.cache.nlv > 0 THEN Peaked(r2) ELSE r2
          IN /\ Saw(p, k.cache.nlv)
             /\ IF Drawdown(k) THEN Trip(p, k)
                ELSE IF TooMany(k, list, c) THEN Keep(p, k)
                ELSE \E r3 \in Refreshed(k), required \in WhatIfQuotes(c) :
                  IF MarginRefused(r3.cache, TradeMargin[c], required)
                  THEN Keep(p, r3)
                  ELSE Keep(p, [r3 EXCEPT !.pc = "approved", !.target = c])
    BY <1>4, <1>7
  <2> DEFINE k == IF r2.cache.nlv > 0 THEN Peaked(r2) ELSE r2
  <2>2. Steady(gov[p], k) /\ k \in Governor /\ k.cache.nlv \in Nat /\ k.peak \in Nat
        /\ k.peak >= k.cache.nlv
    <3>1. Steady(w, r2) /\ r2 \in Governor
      BY <1>1, <1>5, <2>1, RefreshSteady DEF Steady
    <3>2. Steady(r2, k) /\ k \in Governor /\ k.peak >= k.cache.nlv
      <4>1. r2.cache.nlv \in Nat /\ r2.peak \in Nat
        BY <3>1, SummaryIsTyped DEF Governor
      <4>2. CASE r2.cache.nlv > 0
        BY <3>1, <4>1, <4>2, PeakSteady DEF Steady
      <4>3. CASE ~(r2.cache.nlv > 0)
        BY <3>1, <4>1, <4>3 DEF Steady
      <4> QED
        BY <4>2, <4>3
    <3>3. Steady(w, k)
      BY <1>5, <3>1, <3>2, SteadyChain
    <3>4. Steady(gov[p], k)
      BY <1>1, <1>5, <3>3, SteadyChain
    <3>5. k.cache.nlv \in Nat /\ k.peak \in Nat
      BY <3>2, SummaryIsTyped DEF Governor
    <3> QED
      BY <3>2, <3>4, <3>5
  <2>3. /\ Saw(p, k.cache.nlv)
        /\ IF Drawdown(k) THEN Trip(p, k)
           ELSE IF TooMany(k, list, c) THEN Keep(p, k)
           ELSE \E r3 \in Refreshed(k), required \in WhatIfQuotes(c) :
             IF MarginRefused(r3.cache, TradeMargin[c], required)
             THEN Keep(p, r3)
             ELSE Keep(p, [r3 EXCEPT !.pc = "approved", !.target = c])
    BY <2>1
  <2> HIDE DEF k, w
  <2>4. known[p].high <= gov[p].peak /\ gov[p].peak <= k.peak /\ gov[p].peak \in Nat
    BY <1>1, <2>2 DEF RiskSafe, Sound, Steady, Governor
  <2>5. /\ known' \in [Procs -> [high : Nat, last : Nat]]
        /\ known'[p].last = k.cache.nlv
        /\ known'[p].high <= k.peak
        /\ \A q \in Procs \ {p} : known'[q] = known[q]
    <3> DEFINE e == k.cache.nlv
               top == IF e > known[p].high THEN e ELSE known[p].high
    <3>1. known' = [known EXCEPT ![p] = [high |-> top, last |-> e]]
      BY <1>1, <2>3 DEF Saw
    <3>2. top \in Nat /\ e \in Nat /\ top <= k.peak
      BY <1>1, <2>2, <2>4
    <3> HIDE DEF top, e
    <3>3. [high |-> top, last |-> e] \in [high : Nat, last : Nat]
      BY <3>2
    <3>4. /\ known'[p] = [high |-> top, last |-> e]
          /\ \A q \in Procs \ {p} : known'[q] = known[q]
      BY <1>1, <3>1
    <3>5. known' \in [Procs -> [high : Nat, last : Nat]]
      BY <1>1, <3>1, <3>3
    <3> QED
      BY <3>2, <3>4, <3>5 DEF e
  <2>6. ASSUME NEW h \in Governor, Steady(k, h), Keep(p, h) \/ Trip(p, h)
        PROVE  /\ haltFile' \in FileStates /\ latched' \in BOOLEAN
               /\ latched' => haltFile' # "absent"
               /\ gov' \in [Procs -> Governor] /\ (\A q \in Procs : Sound(q))'
    <3>1. PICK u \in Governor : /\ gov' = [gov EXCEPT ![p] = u]
                                /\ u.pc = h.pc /\ u.peak = h.peak /\ (h.halted => u.halted)
      BY <2>6, WrittenDown
    <3>2. /\ u.pc = "ready" /\ (gov[p].halted => u.halted) /\ u.peak >= k.peak
          /\ u.peak \in Nat
      BY <1>2, <2>2, <2>6, <3>1 DEF Steady, Governor
    <3>3. gov'[p] = u
      BY <1>1, <3>1 DEF RiskSafe, RiskTypeOK
    <3>4. known'[p].high <= u.peak
      BY <2>2, <2>5, <3>2
    <3>5. Sound(p)'
      BY <1>2, <3>2, <3>3, <3>4 DEF RiskSafe, Sound
    <3> QED
      BY <1>1, <1>2, <2>5, <2>6, <3>1, <3>5, OneGovernor, WrittenDown
  <2>7. CASE Drawdown(k) \/ TooMany(k, list, c)
    <3>1. Steady(k, k)
      BY <2>2 DEF Steady
    <3> QED
      BY <2>2, <2>3, <2>5, <2>6, <2>7, <3>1
  <2>8. CASE ~Drawdown(k) /\ ~TooMany(k, list, c)
    <3>1. PICK r3 \in Refreshed(k), required \in WhatIfQuotes(c) :
             IF MarginRefused(r3.cache, TradeMargin[c], required)
             THEN Keep(p, r3)
             ELSE Keep(p, [r3 EXCEPT !.pc = "approved", !.target = c])
      BY <2>3, <2>8
    <3>2. Steady(k, r3) /\ r3 \in Governor
      BY <1>1, <2>2, RefreshSteady DEF Steady
    <3>3. CASE MarginRefused(r3.cache, TradeMargin[c], required)
      BY <2>5, <2>6, <3>1, <3>2, <3>3
    <3>4. CASE ~MarginRefused(r3.cache, TradeMargin[c], required)
      <4> DEFINE h == [r3 EXCEPT !.pc = "approved", !.target = c]
      <4>1. /\ h \in Governor
            /\ h.pc = "approved" /\ h.halted = r3.halted /\ h.peak = r3.peak
            /\ h.trades = r3.trades /\ h.target = c
        BY <3>2 DEF Governor
      <4>2. Keep(p, h)
        BY <3>1, <3>4
      <4> HIDE DEF h
      <4>3. /\ gov' = [gov EXCEPT ![p] = h] /\ gov'[p] = h
            /\ UNCHANGED <<haltFile, latched>>
        BY <1>1, <4>2 DEF Keep, RiskSafe, RiskTypeOK
      <4>4. r3.trades < MaxPerDay
        <5>1. r3.trades = k.trades
          BY <2>2, <3>1 DEF Refreshed, Governor
        <5>2. ~(k.trades >= MaxPerDay)
          BY <2>8 DEF TooMany
        <5> QED
          BY <2>2, <5>1, <5>2, RiskBounds DEF Governor
      <4>5. ~gov[p].halted
        BY <1>2, <1>3 DEF Steady
      <4>6. known'[p].high <= h.peak
        BY <2>2, <2>5, <3>2, <4>1 DEF Steady, Governor
      <4>7. known'[p].last > 0 => 100 * known'[p].last > 90 * known'[p].high
        <5>1. SUFFICES ASSUME k.cache.nlv > 0
                       PROVE  100 * k.cache.nlv > 90 * known'[p].high
          BY <2>5
        <5>2. ~(100 * (k.cache.nlv - k.peak) <= -10 * k.peak)
          BY <2>8, <5>1 DEF Drawdown, MaxDrawdown
        <5>3. known'[p].high \in Nat
          BY <2>5
        <5> QED
          BY <2>2, <2>5, <5>2, <5>3
      <4>8. Sound(p)'
        BY <1>2, <4>1, <4>3, <4>4, <4>5, <4>6, <4>7 DEF RiskSafe, Sound
      <4> QED
        BY <1>1, <1>2, <2>5, <4>1, <4>3, <4>8, OneGovernor DEF RiskSafe, RiskTypeOK
    <3> QED
      BY <3>3, <3>4
  <2> QED
    BY <2>7, <2>8
<1> QED
  BY <1>6, <1>7

\* Each other step changes one command, or none.
LEMMA RiskStep ==
    ASSUME RiskSafe, [RiskNext]_riskAll
    PROVE  RiskSafe'
<1>0. /\ gov \in [Procs -> Governor] /\ late \subseteq Procs
      /\ known \in [Procs -> [high : Nat, last : Nat]]
      /\ account \in Accounts /\ dayOfRisk \in 0..MaxDay
  BY DEF RiskSafe, RiskTypeOK
<1>1. ASSUME NEW p \in Procs, StartOrder(p) PROVE RiskSafe'
  <2> DEFINE g == [Off EXCEPT !.pc = "ready", !.halted = LoadedHalt, !.counted = dayOfRisk]
  <2>1. /\ gov' = [gov EXCEPT ![p] = g] /\ gov[p].pc = "off"
        /\ late' = IF latched THEN late \cup {p} ELSE late
        /\ UNCHANGED <<haltFile, account, open, working, dayOfRisk, sentOrders, moves,
                       latched, known>>
    BY <1>1 DEF StartOrder
  <2>2. Off \in Governor /\ Off.peak = 0
    BY RiskBounds DEF Off, Governor
  <2>3. g \in Governor
    BY <1>0, <2>2 DEF Governor, LoadedHalt
  <2>4. g.pc = "ready" /\ g.halted = LoadedHalt /\ g.peak = 0
    BY <2>2 DEF Governor
  <2> HIDE DEF g
  <2>5. p \notin late /\ known[p] = Unseen
    BY <2>1 DEF RiskSafe, Sound
  <2>6. p \in late' => LoadedHalt
    BY <2>1, <2>5 DEF RiskSafe, LoadedHalt
  <2>7. Sound(p)'
    BY <1>0, <2>1, <2>4, <2>5, <2>6 DEF Sound, Unseen
  <2>8. late' \subseteq Procs /\ \A q \in Procs \ {p} : q \in late' => q \in late
    BY <1>0, <2>1
  <2>9. gov' \in [Procs -> Governor] /\ (\A q \in Procs : Sound(q))'
    BY <1>0, <2>1, <2>3, <2>7, <2>8, OneGovernor
  <2> QED
    BY <2>1, <2>8, <2>9 DEF RiskSafe, RiskTypeOK
<1>2. ASSUME NEW p \in Procs, Drop(p) PROVE RiskSafe'
  <2> DEFINE g == [gov[p] EXCEPT !.pc = "ready", !.target = NoContract]
  <2>1. /\ gov' = [gov EXCEPT ![p] = g]
        /\ gov[p].pc = "approved"
        /\ UNCHANGED <<haltFile, account, open, working, dayOfRisk, sentOrders, moves,
                       latched, late, known>>
    BY <1>0, <1>2 DEF Drop
  <2>2. g \in Governor /\ g.pc = "ready" /\ g.peak = gov[p].peak
    BY <1>0 DEF Governor
  <2> HIDE DEF g
  <2>3. Sound(p)'
    BY <1>0, <2>1, <2>2 DEF RiskSafe, Sound
  <2>4. gov' \in [Procs -> Governor] /\ (\A q \in Procs : Sound(q))'
    BY <1>0, <2>1, <2>2, <2>3, OneGovernor
  <2> QED
    BY <2>1, <2>4 DEF RiskSafe, RiskTypeOK
<1>3. ASSUME NEW p \in Procs, Place(p) PROVE RiskSafe'
  <2> DEFINE g == [gov[p] EXCEPT !.pc = "sent"]
  <2>1. /\ gov' = [gov EXCEPT ![p] = g]
        /\ gov[p].pc = "approved"
        /\ UNCHANGED <<haltFile, account, dayOfRisk, moves, latched, late, known>>
        /\ sentOrders' = sentOrders + 1 /\ sentOrders < MaxOrders
        /\ working' \subseteq working \cup {gov[p].target}
        /\ open' \subseteq open \cup {gov[p].target}
    BY <1>0, <1>3 DEF Place
  <2>2. /\ g \in Governor /\ g.pc = "sent" /\ g.peak = gov[p].peak
        /\ g.trades = gov[p].trades /\ g.target = gov[p].target
    BY <1>0 DEF Governor
  <2> HIDE DEF g
  <2>3. Sound(p)'
    BY <1>0, <2>1, <2>2 DEF RiskSafe, Sound
  <2>4. gov' \in [Procs -> Governor] /\ (\A q \in Procs : Sound(q))'
    BY <1>0, <2>1, <2>2, <2>3, OneGovernor
  <2>5. sentOrders' \in 0..MaxOrders
    BY <2>1, RiskBounds DEF RiskSafe, RiskTypeOK
  <2>6. working' \subseteq Contracts /\ open' \subseteq Contracts
    BY <1>3 DEF Place, RiskSafe, RiskTypeOK, Sound
  <2> QED
    BY <2>1, <2>4, <2>5, <2>6 DEF RiskSafe, RiskTypeOK
<1>4. ASSUME NEW p \in Procs, RecordTrade(p) PROVE RiskSafe'
  <2> DEFINE g == Recorded(gov[p])
             h == [g EXCEPT !.halted = TRUE]
  <2>1. /\ gov[p].pc = "sent"
        /\ \/ gov' = [gov EXCEPT ![p] = g] /\ UNCHANGED <<haltFile, latched>>
           \/ gov' = [gov EXCEPT ![p] = h] /\ Halt
        /\ UNCHANGED <<account, open, working, dayOfRisk, sentOrders, moves, late, known>>
    BY <1>0, <1>4 DEF RecordTrade
  <2>2. gov[p].trades + 1 \in 0..MaxPerDay
    <3>1. gov[p].trades < MaxPerDay /\ gov[p].trades \in 0..MaxPerDay
      BY <1>0, <2>1 DEF RiskSafe, Sound, Governor
    <3> QED
      BY <3>1, RiskBounds
  <2>3. g \in Governor /\ g.pc = "ready" /\ g.peak = gov[p].peak
    BY <1>0, <2>2 DEF Governor, Recorded
  <2>4. h \in Governor /\ h.pc = "ready" /\ h.peak = gov[p].peak
    BY <2>3 DEF Governor
  <2> HIDE DEF g, h
  <2>5. PICK u \in Governor :
            gov' = [gov EXCEPT ![p] = u] /\ u.pc = "ready" /\ u.peak = gov[p].peak
    BY <2>1, <2>3, <2>4
  <2>6. p \notin late
    BY <2>1 DEF RiskSafe, Sound
  <2>7. Sound(p)'
    BY <1>0, <2>1, <2>5, <2>6 DEF RiskSafe, Sound
  <2>8. gov' \in [Procs -> Governor] /\ (\A q \in Procs : Sound(q))'
    BY <1>0, <2>1, <2>5, <2>7, OneGovernor
  <2>9. /\ haltFile' \in FileStates /\ latched' \in BOOLEAN
        /\ latched' => haltFile' # "absent"
    BY <2>1, HaltKeeps DEF RiskSafe, RiskTypeOK
  <2> QED
    BY <2>1, <2>8, <2>9 DEF RiskSafe, RiskTypeOK
<1>5. ASSUME NEW p \in Procs, Finish(p) PROVE RiskSafe'
  <2>1. /\ gov' = [gov EXCEPT ![p] = Off] /\ late' = late \ {p}
        /\ known' = [known EXCEPT ![p] = Unseen]
        /\ UNCHANGED <<haltFile, account, open, working, dayOfRisk, sentOrders, moves, latched>>
    BY <1>5 DEF Finish
  <2>2. Off \in Governor /\ Off.pc = "off" /\ Off.peak = 0
    BY RiskBounds DEF Off, Governor
  <2>3. Unseen \in [high : Nat, last : Nat] /\ Unseen.high = 0
    BY DEF Unseen
  <2>4. Sound(p)'
    <3>1. gov'[p] = Off /\ known'[p] = Unseen /\ p \notin late'
      BY <1>0, <2>1
    <3> QED
      BY <2>2, <2>3, <3>1 DEF Sound
  <2>5. gov' \in [Procs -> Governor] /\ (\A q \in Procs : Sound(q))'
    BY <1>0, <2>1, <2>2, <2>3, <2>4, OneGovernor
  <2>6. known' \in [Procs -> [high : Nat, last : Nat]] /\ late' \subseteq Procs
    BY <1>0, <2>1, <2>3
  <2> QED
    BY <2>1, <2>5, <2>6 DEF RiskSafe, RiskTypeOK
<1>6. ASSUME NEW p \in Procs, FiveMinutes(p) PROVE RiskSafe'
  <2> DEFINE g == [gov[p] EXCEPT !.stale = TRUE]
  <2>1. /\ gov' = [gov EXCEPT ![p] = g]
        /\ UNCHANGED <<haltFile, account, open, working, dayOfRisk, sentOrders, moves,
                       latched, late, known>>
    BY <1>0, <1>6 DEF FiveMinutes
  <2>2. /\ g \in Governor /\ g.pc = gov[p].pc /\ g.peak = gov[p].peak
        /\ g.trades = gov[p].trades /\ g.halted = gov[p].halted
        /\ g.target = gov[p].target
    BY <1>0 DEF Governor
  <2> HIDE DEF g
  <2>3. Sound(p)'
    BY <1>0, <2>1, <2>2 DEF RiskSafe, Sound
  <2>4. gov' \in [Procs -> Governor] /\ (\A q \in Procs : Sound(q))'
    BY <1>0, <2>1, <2>2, <2>3, OneGovernor
  <2> QED
    BY <2>1, <2>4 DEF RiskSafe, RiskTypeOK
<1>7. ASSUME NEW p \in Procs, CheckRefused(p) \/ CheckDailyLoss(p) PROVE RiskSafe'
  <2> DEFINE h == Recounted(gov[p])
  <2>1. /\ Keep(p, h) \/ Trip(p, h)
        /\ UNCHANGED <<account, open, working, dayOfRisk, sentOrders, moves, late, known>>
    BY <1>7 DEF CheckRefused, CheckDailyLoss
  <2>2. gov[p].pc = "ready"
    BY <1>7 DEF CheckRefused, CheckDailyLoss
  <2>3. Steady(gov[p], h) /\ h \in Governor
    BY <1>0, RecountSteady, RiskBounds DEF Steady
  <2> HIDE DEF h
  <2>4. PICK g \in Governor :
          /\ gov' = [gov EXCEPT ![p] = g]
          /\ g.pc = h.pc /\ g.peak = h.peak /\ (h.halted => g.halted)
    BY <2>1, <2>3, WrittenDown
  <2>5. gov' \in [Procs -> Governor] /\ (\A q \in Procs : Sound(q))'
    BY <2>1, <2>2, <2>3, <2>4, StillReady DEF Steady
  <2>6. /\ haltFile' \in FileStates /\ latched' \in BOOLEAN
        /\ latched' => haltFile' # "absent"
    BY <2>1, <2>3, WrittenDown
  <2> QED
    BY <2>1, <2>5, <2>6 DEF RiskSafe, RiskTypeOK
<1>8. ASSUME NEW p \in Procs, NEW c \in Contracts, CheckAccount(p, c) PROVE RiskSafe'
  <2>1. UNCHANGED <<account, open, working, dayOfRisk, sentOrders, moves, late>>
    BY <1>8 DEF CheckAccount
  <2> QED
    BY <1>8, <2>1, CheckKeeps DEF RiskSafe, RiskTypeOK
<1>9. ASSUME (\E p \in Procs : Interrupt(p)) \/ HaltCommand PROVE RiskSafe'
  <2>1. /\ Halt
        /\ UNCHANGED <<gov, account, open, working, dayOfRisk, sentOrders, moves, late, known>>
    BY <1>9 DEF Interrupt, HaltCommand
  <2> QED
    BY <2>1, HaltKeeps DEF RiskSafe, RiskTypeOK, Sound
<1>10. ASSUME NEW c \in Contracts, Fill(c) \/ Close(c) PROVE RiskSafe'
  <2>1. /\ UNCHANGED <<haltFile, gov, account, dayOfRisk, sentOrders, moves, latched, late,
                       known>>
        /\ open' \subseteq Contracts /\ working' \subseteq Contracts
    BY <1>10 DEF Fill, Close, RiskSafe, RiskTypeOK
  <2> QED
    BY <2>1 DEF RiskSafe, RiskTypeOK, Sound
<1>11. CASE Move
  BY <1>11, RiskBounds DEF Move, RiskSafe, RiskTypeOK, Sound
<1>12. CASE NextTradingDay
  BY <1>12, RiskBounds DEF NextTradingDay, RiskSafe, RiskTypeOK, Sound
<1>13. CASE Corrupt /\ UNCHANGED riskVars
  BY <1>13 DEF Corrupt, riskVars, FileStates, RiskSafe, RiskTypeOK, Sound
<1>14. CASE UNCHANGED riskAll
  BY <1>14 DEF riskAll, riskVars, RiskSafe, RiskTypeOK, Sound
<1> QED
  BY <1>1, <1>2, <1>3, <1>4, <1>5, <1>6, <1>7, <1>8, <1>9, <1>10, <1>11, <1>12, <1>13, <1>14
     DEF RiskNext

LEMMA RiskStart == HaltFileInit /\ RiskInit => RiskSafe
<1> SUFFICES ASSUME HaltFileInit, RiskInit PROVE RiskSafe
  OBVIOUS
<1>1. Off \in Governor /\ Off.pc = "off" /\ Off.peak = 0
  BY RiskBounds DEF Off, Governor
<1>2. Unseen \in [high : Nat, last : Nat] /\ Unseen.high = 0
  BY DEF Unseen
<1>3. RiskTypeOK
  <2>1. 0 \in 0..MaxDay /\ 0 \in 0..MaxOrders /\ 0 \in 0..MaxMoves /\ Held \subseteq Contracts
    BY RiskBounds
  <2>2. /\ gov \in [Procs -> Governor]
        /\ known \in [Procs -> [high : Nat, last : Nat]]
    BY <1>1, <1>2 DEF RiskInit
  <2> QED
    BY <2>1, <2>2 DEF HaltFileInit, RiskInit, RiskTypeOK, FileStates
<1>4. ASSUME NEW p \in Procs PROVE Sound(p)
  BY <1>1, <1>2 DEF RiskInit, Sound
<1> QED
  BY <1>3, <1>4 DEF RiskSafe, RiskInit

\* Whoever halted and why, a command started after a halt was written approves
\* nothing, even when the file has been damaged since.
THEOREM HaltsLast == RiskSpec => []HaltLasts
<1>1. RiskSafe => HaltLasts
  BY DEF RiskSafe, RiskTypeOK, Sound, HaltLasts
<1> QED
  BY RiskStart, RiskStep, <1>1, PTL DEF RiskSpec

\* What a governor approves is less than the limit below every equity its
\* drawdown check saw, for any accounts, days, failed refreshes and trips.
THEOREM SeenLossesBlock == RiskSpec => []SeenLossBlocks
<1>1. RiskSafe => SeenLossBlocks
  BY DEF RiskSafe, Sound, SeenLossBlocks, MaxDrawdown
<1> QED
  BY RiskStart, RiskStep, <1>1, PTL DEF RiskSpec

\* Governors, accounts and counts keep their types; a day's trades stay within
\* the limit of the day.
THEOREM RiskTypeCorrect == RiskSpec => []RiskTypeOK
<1>1. RiskSafe => RiskTypeOK
  BY DEF RiskSafe
<1> QED
  BY RiskStart, RiskStep, <1>1, PTL DEF RiskSpec

=============================================================================
