----------------------------- MODULE DayProofs ------------------------------
(***************************************************************************)
(* Proofs about the day of a trade: the orders sent for a staged row       *)
(* (StagedTrades.tla), the reports and questions about a position          *)
(* (EventDetector.tla, PositionWatch.tla), the review of a trade           *)
(* (TradeReview.tla), the timers of the day (TradingDay.tla), the daemon   *)
(* and its watchdog (DaemonControl.tla), each for any number of them.      *)
(*                                                                         *)
(* OneSubmissionPerStaging counts what a row may still be used for: a row  *)
(* that is staged, or that the daemon has in hand, has a staging to spare  *)
(* (Spare).  CheckKeepsItsDistance needs that the timer remembers the last *)
(* check (TimerSafe), NeverSilent the watchdog's two counters together     *)
(* (Counted), UnapprovedIsLeftAlone the type of the rows of decisions      *)
(* (RowsOfAudit).                                                          *)
(***************************************************************************)
EXTENDS StagedTrades, EventDetector, PositionWatch, TradeReview, TradingDay,
        DaemonControl, TLAPS

-----------------------------------------------------------------------------
(* Staged rows.                                                            *)

Daemon == desk["daemon"]

InHand(r) == IF r \in Daemon.todo \cup Daemon.held /\ Daemon.pc \in {"claiming", "ready"}
             THEN 1 ELSE 0

\* A staged row the daemon has not loaded.
OnTable(r) == IF rows[r].state = "STAGED" /\ r \notin Daemon.todo THEN 1 ELSE 0

Spare ==
    \A r \in Rows : sent["daemon"][r] + InHand(r) + OnTable(r) <= stagings[r]

\* A desk, whatever margin it remembers.
DeskWith(c) == [pc : {"idle", "scanned", "chosen", "claiming", "ready", "sent"},
                held : SUBSET Rows, todo : SUBSET Rows, current : {c}, alone : BOOLEAN]
IsDesk(d) == \E c : d \in DeskWith(c)

RowsTyped ==
    /\ rows \in [Rows -> ScanRow]
    /\ DOMAIN desk = Pipelines \cup Executors
    /\ IsDesk(Daemon)
    /\ sent \in [Executors -> [Rows -> Nat]]
    /\ stagings \in [Rows -> Nat]

\* What the daemon has still to claim it does not hold yet.
InOrder ==
    /\ Daemon.pc # "claiming" => Daemon.todo = {}
    /\ Daemon.todo \cap Daemon.held = {}

StagedSafe == RowsTyped /\ InOrder /\ Spare

\* No move of the life cycle manager but one to STAGED leads there.
LEMMA MovesDoNotStage ==
    ASSUME NEW row \in ScanRow, NEW from, NEW to \in States \ {"STAGED"}
    PROVE  /\ Transition(row, from, to) \in ScanRow
           /\ Transition(row, from, to).state = "STAGED" => row.state = "STAGED"
<1>1. CASE ~IsValidTransition(from, to)
  BY <1>1 DEF Transition
<1>2. CASE IsValidTransition(from, to)
  <2>1. Transition(row, from, to) = [row EXCEPT !.state = to, !.executed = @ \/ to = "EXECUTED"]
    BY <1>2 DEF Transition
  <2> QED
    BY <2>1 DEF ScanRow
<1> QED
  BY <1>1, <1>2

LEMMA IdleIsDesk ==
    IsDesk(Idle) /\ Idle.pc = "idle" /\ Idle.held = {} /\ Idle.todo = {}
BY DEF IsDesk, DeskWith, Idle

\* The flag alone is nothing to the daemon's rows.
LEMMA DisturbedDesk ==
    ASSUME NEW d, DOMAIN d = Pipelines \cup Executors, IsDesk(d["daemon"]), NEW p
    PROVE  /\ DOMAIN Disturbed(d, p) = Pipelines \cup Executors
           /\ IsDesk(Disturbed(d, p)["daemon"])
           /\ Disturbed(d, p)["daemon"].pc = d["daemon"].pc
           /\ Disturbed(d, p)["daemon"].held = d["daemon"].held
           /\ Disturbed(d, p)["daemon"].todo = d["daemon"].todo
<1>1. "daemon" \in Pipelines \cup Executors
  BY DEF Pipelines, Executors
<1>2. Disturbed(d, p)["daemon"] \in {d["daemon"], [d["daemon"] EXCEPT !.alone = FALSE]}
  BY <1>1 DEF Disturbed
<1>3. PICK c : d["daemon"] \in DeskWith(c)
  BY DEF IsDesk
<1>4. Disturbed(d, p)["daemon"] \in DeskWith(c)
  BY <1>2, <1>3 DEF DeskWith
<1>5. /\ Disturbed(d, p)["daemon"].pc = d["daemon"].pc
      /\ Disturbed(d, p)["daemon"].held = d["daemon"].held
      /\ Disturbed(d, p)["daemon"].todo = d["daemon"].todo
  BY <1>2, <1>3 DEF DeskWith
<1> QED
  BY <1>4, <1>5 DEF Disturbed, IsDesk

\* The daemon takes nothing new in hand and sends nothing, and a row that comes
\* to be staged has been staged once more.
LEMMA QuietStep ==
    ASSUME StagedSafe, RowsTyped', Daemon'.todo = Daemon.todo,
           Daemon'.held \cap Daemon'.todo = {},
           Daemon'.pc # "claiming" => Daemon'.todo = {},
           Daemon'.pc \in {"claiming", "ready"} =>
               Daemon.pc \in {"claiming", "ready"} /\ Daemon'.held = Daemon.held,
           sent'["daemon"] = sent["daemon"],
           \A r \in Rows :
               \/ stagings'[r] = stagings[r] + 1
               \/ /\ stagings'[r] = stagings[r]
                  /\ rows'[r].state = "STAGED" => rows[r].state = "STAGED"
    PROVE  StagedSafe'
<1>1. InOrder'
  BY DEF InOrder
<1>2. ASSUME NEW r \in Rows
      PROVE  (sent["daemon"][r] + InHand(r) + OnTable(r) <= stagings[r])'
  <2>1. /\ sent["daemon"][r] \in Nat /\ stagings[r] \in Nat /\ stagings'[r] \in Nat
        /\ InHand(r) \in 0..1 /\ OnTable(r) \in 0..1 /\ InHand(r)' \in 0..1 /\ OnTable(r)' \in 0..1
    BY DEF StagedSafe, RowsTyped, InHand, OnTable, Executors
  <2>2. InHand(r)' <= InHand(r)
    BY DEF InHand
  <2>3. sent["daemon"][r] + InHand(r) + OnTable(r) <= stagings[r]
    BY DEF StagedSafe, Spare
  <2>4. CASE stagings'[r] = stagings[r] + 1
    BY <2>1, <2>2, <2>3, <2>4
  <2>5. CASE stagings'[r] = stagings[r] /\ (rows'[r].state = "STAGED" => rows[r].state = "STAGED")
    <3>1. OnTable(r)' <= OnTable(r)
      BY <2>5 DEF OnTable
    <3> QED
      BY <2>1, <2>2, <2>3, <2>5, <3>1
  <2> QED
    BY <2>4, <2>5
<1> QED
  BY <1>1, <1>2 DEF StagedSafe, Spare

\* The daemon loads what is staged, claims it row by row and submits what it holds.
LEMMA DaemonWorks ==
    ASSUME StagedSafe, NEW e \in Executors,
           Load(e) \/ (\E r \in Rows : Claim(r)) \/ Claimed \/ Submit(e) \/ Abort(e) \/ CrashDaemon
    PROVE  StagedSafe'
<1> USE DEF Daemon
<1>0. /\ DOMAIN desk = Pipelines \cup Executors /\ "daemon" \in Pipelines \cup Executors
      /\ "daemon" \in Executors
      /\ rows \in [Rows -> ScanRow] /\ sent \in [Executors -> [Rows -> Nat]]
      /\ stagings \in [Rows -> Nat]
  BY DEF StagedSafe, RowsTyped, Pipelines, Executors
<1>1. PICK m : Daemon \in DeskWith(m)
  BY DEF StagedSafe, RowsTyped, IsDesk
<1>2. Daemon.todo \subseteq Rows /\ Daemon.held \subseteq Rows
  BY <1>1 DEF DeskWith
<1>3. /\ Daemon.pc # "claiming" => Daemon.todo = {}
      /\ Daemon.todo \cap Daemon.held = {}
  BY DEF StagedSafe, InOrder
<1>4. CASE Load(e) /\ e = "daemon"
  <2> DEFINE d == [Idle EXCEPT !.pc = "claiming", !.todo = InState({"STAGED"})]
  <2>1. /\ desk' = [desk EXCEPT !["daemon"] = d] /\ Daemon.pc = "idle"
        /\ UNCHANGED <<rows, sent, stagings>>
    BY <1>4 DEF Load
  <2>2. /\ d \in DeskWith(0) /\ d.pc = "claiming" /\ d.held = {}
        /\ d.todo = {r \in Rows : rows[r].state = "STAGED"}
    BY DEF Idle, DeskWith, InState
  <2> HIDE DEF d
  <2>3. Daemon' = d /\ DOMAIN desk' = Pipelines \cup Executors
    BY <1>0, <2>1
  <2>4. RowsTyped' /\ InOrder'
    BY <1>0, <2>1, <2>2, <2>3 DEF RowsTyped, IsDesk, InOrder
  <2>5. ASSUME NEW r \in Rows PROVE InHand(r)' + OnTable(r)' <= InHand(r) + OnTable(r)
    BY <1>3, <2>1, <2>2, <2>3 DEF InHand, OnTable
  <2>6. ASSUME NEW r \in Rows
        PROVE  (sent["daemon"][r] + InHand(r) + OnTable(r) <= stagings[r])'
    <3>1. sent["daemon"][r] + InHand(r) + OnTable(r) <= stagings[r]
      BY DEF StagedSafe, Spare
    <3>2. /\ sent["daemon"][r] \in Nat /\ stagings[r] \in Nat /\ InHand(r) \in 0..1
          /\ OnTable(r) \in 0..1 /\ InHand(r)' \in 0..1 /\ OnTable(r)' \in 0..1
      BY <1>0 DEF InHand, OnTable
    <3>3. sent'["daemon"][r] = sent["daemon"][r] /\ stagings'[r] = stagings[r]
      BY <2>1
    <3> QED
      BY <2>5, <3>1, <3>2, <3>3
  <2> QED
    BY <2>4, <2>6 DEF StagedSafe, Spare
<1>5. ASSUME NEW r \in Rows, Claim(r) PROVE StagedSafe'
  <2> DEFINE d == [Daemon EXCEPT !.todo = @ \ {r}, !.held = @ \cup {r}]
  <2>1. /\ desk' = [desk EXCEPT !["daemon"] = d]
        /\ Daemon.pc = "claiming" /\ r \in Daemon.todo
        /\ rows' = [rows EXCEPT ![r] = Transition(@, "STAGED", "EXECUTING")]
        /\ UNCHANGED <<sent, stagings>>
    BY <1>0, <1>5 DEF Claim
  <2>2. /\ d \in DeskWith(m) /\ d.pc = "claiming" /\ d.held = Daemon.held \cup {r}
        /\ d.todo = Daemon.todo \ {r}
    BY <1>1, <2>1 DEF DeskWith
  <2> HIDE DEF d
  <2>3. Daemon' = d /\ DOMAIN desk' = Pipelines \cup Executors
    BY <1>0, <2>1
  <2>4. /\ Transition(rows[r], "STAGED", "EXECUTING") \in ScanRow
        /\ Transition(rows[r], "STAGED", "EXECUTING").state = "EXECUTING"
    <3>1. IsValidTransition("STAGED", "EXECUTING")
      BY DEF IsValidTransition, ValidTransitions
    <3>2. rows[r] \in ScanRow
      BY <1>0
    <3>3. Transition(rows[r], "STAGED", "EXECUTING")
            = [rows[r] EXCEPT !.state = "EXECUTING", !.executed = @ \/ "EXECUTING" = "EXECUTED"]
      BY <3>1 DEF Transition
    <3> QED
      BY <3>2, <3>3 DEF ScanRow, States
  <2>5. RowsTyped' /\ InOrder'
    BY <1>0, <1>3, <2>1, <2>2, <2>3, <2>4 DEF RowsTyped, IsDesk, InOrder
  <2>6. ASSUME NEW q \in Rows PROVE InHand(q)' + OnTable(q)' <= InHand(q) + OnTable(q)
    <3>1. rows'[r].state = "EXECUTING" /\ (q # r => rows'[q] = rows[q])
      BY <1>0, <2>1, <2>4
    <3>2. InHand(q)' = InHand(q)
      BY <2>1, <2>2, <2>3 DEF InHand
    <3>3. OnTable(q)' <= OnTable(q)
      BY <2>1, <2>2, <2>3, <3>1 DEF OnTable
    <3>4. InHand(q) \in 0..1 /\ OnTable(q) \in 0..1 /\ OnTable(q)' \in 0..1
      BY DEF InHand, OnTable
    <3> QED
      BY <3>2, <3>3, <3>4
  <2>7. ASSUME NEW q \in Rows
        PROVE  (sent["daemon"][q] + InHand(q) + OnTable(q) <= stagings[q])'
    <3>1. sent["daemon"][q] + InHand(q) + OnTable(q) <= stagings[q]
      BY DEF StagedSafe, Spare
    <3>2. /\ sent["daemon"][q] \in Nat /\ stagings[q] \in Nat /\ InHand(q) \in 0..1
          /\ OnTable(q) \in 0..1 /\ InHand(q)' \in 0..1 /\ OnTable(q)' \in 0..1
      BY <1>0 DEF InHand, OnTable
    <3>3. sent'["daemon"][q] = sent["daemon"][q] /\ stagings'[q] = stagings[q]
      BY <2>1
    <3> QED
      BY <2>6, <3>1, <3>2, <3>3
  <2> QED
    BY <2>5, <2>7 DEF StagedSafe, Spare
<1>6. CASE Claimed
  <2> DEFINE d == [Daemon EXCEPT !.pc = "ready"]
  <2>1. /\ desk' = [desk EXCEPT !["daemon"] = d]
        /\ Daemon.pc = "claiming" /\ Daemon.todo = {}
        /\ UNCHANGED <<rows, sent, stagings>>
    BY <1>0, <1>6 DEF Claimed
  <2>2. d \in DeskWith(m) /\ d.pc = "ready" /\ d.held = Daemon.held /\ d.todo = {}
    BY <1>1, <2>1 DEF DeskWith
  <2> HIDE DEF d
  <2>3. Daemon' = d /\ DOMAIN desk' = Pipelines \cup Executors
    BY <1>0, <2>1
  <2>4. RowsTyped'
    BY <1>0, <2>1, <2>2, <2>3 DEF RowsTyped, IsDesk
  <2> QED
    BY <2>1, <2>2, <2>3, <2>4, QuietStep
<1>7. CASE Submit(e) /\ e = "daemon"
  <2> DEFINE d == [Daemon EXCEPT !.pc = "sent"]
  <2>1. /\ desk' = [desk EXCEPT !["daemon"] = d]
        /\ Daemon.pc = "ready" /\ UNCHANGED <<rows, stagings>>
    BY <1>0, <1>7 DEF Submit
  <2>2. PICK S \in SUBSET Daemon.held :
            sent' = [sent EXCEPT !["daemon"] =
                        [r \in Rows |-> @[r] + IF r \in S THEN 1 ELSE 0]]
    BY <1>7 DEF Submit
  <2>3. d \in DeskWith(m) /\ d.pc = "sent" /\ d.held = Daemon.held /\ d.todo = Daemon.todo
    BY <1>1, <2>1 DEF DeskWith
  <2> HIDE DEF d
  <2>4. Daemon' = d /\ DOMAIN desk' = Pipelines \cup Executors
    BY <1>0, <2>1
  <2>5. ASSUME NEW r \in Rows
        PROVE  sent'["daemon"][r] = sent["daemon"][r] + IF r \in S THEN 1 ELSE 0
    BY <1>0, <2>2
  <2>6. sent' \in [Executors -> [Rows -> Nat]]
    BY <1>0, <2>2
  <2>7. RowsTyped' /\ InOrder'
    BY <1>0, <1>3, <2>1, <2>3, <2>4, <2>6 DEF RowsTyped, IsDesk, InOrder
  <2>8. ASSUME NEW r \in Rows
        PROVE  (sent["daemon"][r] + InHand(r) + OnTable(r) <= stagings[r])'
    <3>1. sent["daemon"][r] + InHand(r) + OnTable(r) <= stagings[r]
      BY DEF StagedSafe, Spare
    <3>2. /\ sent["daemon"][r] \in Nat /\ stagings[r] \in Nat /\ InHand(r) \in 0..1
          /\ OnTable(r) \in 0..1
      BY <1>0 DEF InHand, OnTable
    <3>3. InHand(r)' = 0 /\ (r \in S => InHand(r) = 1) /\ OnTable(r)' = OnTable(r)
      BY <2>1, <2>3, <2>4 DEF InHand, OnTable
    <3>4. stagings'[r] = stagings[r]
      BY <2>1
    <3> QED
      BY <2>5, <3>1, <3>2, <3>3, <3>4
  <2> QED
    BY <2>7, <2>8 DEF StagedSafe, Spare
<1>8. CASE CrashDaemon
  <2>1. desk' = [desk EXCEPT !["daemon"] = Idle] /\ UNCHANGED <<rows, sent, stagings>>
    BY <1>8 DEF CrashDaemon
  <2>2. Daemon' = Idle /\ DOMAIN desk' = Pipelines \cup Executors
    BY <1>0, <2>1
  <2>3. RowsTyped' /\ InOrder'
    BY <1>0, <2>1, <2>2, IdleIsDesk DEF RowsTyped, InOrder
  <2>4. ASSUME NEW r \in Rows
        PROVE  (sent["daemon"][r] + InHand(r) + OnTable(r) <= stagings[r])'
    <3>1. sent["daemon"][r] + InHand(r) + OnTable(r) <= stagings[r]
      BY DEF StagedSafe, Spare
    <3>2. /\ sent["daemon"][r] \in Nat /\ stagings[r] \in Nat /\ InHand(r) \in 0..1
          /\ OnTable(r) \in 0..1 /\ OnTable(r)' \in 0..1
      BY <1>0 DEF InHand, OnTable
    <3>3. InHand(r)' = 0
      BY <2>2, IdleIsDesk DEF InHand
    <3>4. OnTable(r)' <= InHand(r) + OnTable(r)
      BY <1>3, <2>1, <2>2, IdleIsDesk DEF InHand, OnTable
    <3>5. stagings'[r] = stagings[r] /\ sent'["daemon"][r] = sent["daemon"][r]
      BY <2>1
    <3> QED
      BY <3>1, <3>2, <3>3, <3>4, <3>5
  <2> QED
    BY <2>3, <2>4 DEF StagedSafe, Spare
<1>9. CASE Abort(e) /\ e = "daemon"
  <2>1. /\ desk' = [desk EXCEPT !["daemon"] = Idle] /\ UNCHANGED <<rows, sent, stagings>>
        /\ Daemon.pc = "ready"
    BY <1>9 DEF Abort
  <2>2. Daemon' = Idle /\ DOMAIN desk' = Pipelines \cup Executors
    BY <1>0, <2>1
  <2>3. RowsTyped'
    BY <1>0, <2>1, <2>2, IdleIsDesk DEF RowsTyped
  <2> QED
    BY <1>3, <2>1, <2>2, <2>3, IdleIsDesk, QuietStep
<1>10. CASE e # "daemon" /\ (Load(e) \/ Submit(e) \/ Abort(e))
  <2>1. Daemon' = Daemon /\ DOMAIN desk' = Pipelines \cup Executors
    BY <1>0, <1>10 DEF Load, Submit, Abort
  <2>2. UNCHANGED <<rows, stagings>> /\ sent' \in [Executors -> [Rows -> Nat]]
        /\ sent'["daemon"] = sent["daemon"]
    BY <1>0, <1>10 DEF Load, Submit, Abort
  <2>3. RowsTyped'
    BY <1>0, <2>1, <2>2 DEF RowsTyped, StagedSafe
  <2> QED
    BY <1>3, <2>1, <2>2, <2>3, QuietStep
<1> QED
  BY <1>4, <1>5, <1>6, <1>7, <1>8, <1>9, <1>10

\* Pipelines, users, fills and the ends of a batch.
LEMMA StagedStep ==
    ASSUME StagedSafe, [StagedNext]_stagedVars
    PROVE  StagedSafe'
<1> USE DEF Daemon
<1>0. /\ DOMAIN desk = Pipelines \cup Executors /\ "daemon" \in Pipelines \cup Executors
      /\ IsDesk(Daemon)
      /\ rows \in [Rows -> ScanRow] /\ sent \in [Executors -> [Rows -> Nat]]
      /\ stagings \in [Rows -> Nat] /\ RowMargin \in [Rows -> Nat] /\ EstimateOf \in [Rows -> Nat]
  BY StagedBounds DEF StagedSafe, RowsTyped, Pipelines, Executors
<1>1. PICK m : Daemon \in DeskWith(m)
  BY <1>0 DEF IsDesk
<1>2. Daemon.todo \subseteq Rows /\ Daemon.held \subseteq Rows
  BY <1>1 DEF DeskWith
<1>3. /\ Daemon.pc # "claiming" => Daemon.todo = {}
      /\ Daemon.todo \cap Daemon.held = {}
  BY DEF StagedSafe, InOrder
<1>4. ASSUME NEW S, NEW margin \in [Rows -> Nat], Stage(S, margin)
      PROVE  /\ rows' \in [Rows -> ScanRow] /\ stagings' \in [Rows -> Nat]
             /\ \A r \in Rows : \/ stagings'[r] = stagings[r] + 1
                                \/ /\ stagings'[r] = stagings[r]
                                   /\ rows'[r].state = "STAGED" => rows[r].state = "STAGED"
  <2>1. \A r \in Rows : [rows[r] EXCEPT !.state = "STAGED", !.margin = margin[r]] \in ScanRow
    BY <1>0 DEF ScanRow, States
  <2>2. rows' \in [Rows -> ScanRow]
    BY <1>0, <1>4, <2>1 DEF Stage
  <2>3. stagings' \in [Rows -> Nat]
    <3>1. stagings' = [r \in Rows |-> IF r \in S THEN stagings[r] + 1 ELSE stagings[r]]
      BY <1>4 DEF Stage
    <3>2. \A r \in Rows : stagings[r] \in Nat /\ stagings[r] + 1 \in Nat
      BY <1>0
    <3> QED
      BY <3>1, <3>2
  <2> QED
    BY <1>4, <2>2, <2>3 DEF Stage
<1>5. ASSUME NEW e \in Executors,
             Load(e) \/ (\E r \in Rows : Claim(r)) \/ Claimed \/ Submit(e) \/ Abort(e)
             \/ CrashDaemon
      PROVE  StagedSafe'
  BY <1>5, DaemonWorks
<1>6. ASSUME NEW p \in Pipelines, RunScan(p) PROVE StagedSafe'
  <2>1. PICK found \in SUBSET InState({"none"}) :
          /\ rows' = [r \in Rows |-> IF r \in found
                                     THEN [Absent EXCEPT !.state = "PENDING"] ELSE rows[r]]
          /\ desk' = [desk EXCEPT ![p] = [Idle EXCEPT !.pc = "scanned", !.held = found]]
          /\ desk[p].pc = "idle" /\ UNCHANGED <<sent, stagings>>
    BY <1>6 DEF RunScan
  <2>2. /\ [Absent EXCEPT !.state = "PENDING"] \in ScanRow
        /\ [Absent EXCEPT !.state = "PENDING"].state = "PENDING"
    BY DEF Absent, ScanRow, States
  <2>3. rows' \in [Rows -> ScanRow]
    BY <1>0, <2>1, <2>2
  <2>4. \A r \in Rows : rows'[r].state = "STAGED" => rows[r].state = "STAGED"
    BY <2>1, <2>2
  <2> DEFINE d == [Idle EXCEPT !.pc = "scanned", !.held = found]
  <2>5. d \in DeskWith(0) /\ d.pc = "scanned" /\ d.todo = {}
    BY DEF Idle, DeskWith, InState
  <2>6. desk' = [desk EXCEPT ![p] = d]
    BY <2>1
  <2> HIDE DEF d
  <2>7. DOMAIN desk' = Pipelines \cup Executors
    BY <1>0, <2>6
  <2>8. CASE p = "daemon"
    <3>1. Daemon' = d
      BY <1>0, <2>6, <2>8
    <3>2. RowsTyped'
      BY <1>0, <2>1, <2>3, <2>5, <2>7, <3>1 DEF RowsTyped, IsDesk
    <3> QED
      BY <1>3, <2>1, <2>4, <2>5, <2>8, <3>1, <3>2, QuietStep
  <2>9. CASE p # "daemon"
    <3>1. Daemon' = Daemon
      BY <1>0, <2>6, <2>9
    <3>2. RowsTyped'
      BY <1>0, <2>1, <2>3, <2>7, <3>1 DEF RowsTyped
    <3> QED
      BY <1>3, <2>1, <2>4, <3>1, <3>2, QuietStep
  <2> QED
    BY <2>8, <2>9
<1>7. ASSUME NEW p \in Pipelines, Select(p) PROVE StagedSafe'
  <2>1. PICK chosen \in SUBSET desk[p].held :
          desk' = [desk EXCEPT ![p] = [Idle EXCEPT !.pc = "chosen", !.held = chosen,
                                                   !.current = CurrentMargin, !.alone = TRUE]]
    BY <1>7 DEF Select
  <2>2. desk[p].pc = "scanned" /\ UNCHANGED <<rows, sent, stagings>>
    BY <1>7 DEF Select
  <2> DEFINE d == [Idle EXCEPT !.pc = "chosen", !.held = chosen, !.current = CurrentMargin,
                               !.alone = TRUE]
  <2>3. desk' = [desk EXCEPT ![p] = d]
    BY <2>1
  <2>4. d.pc = "chosen" /\ d.todo = {}
    BY DEF Idle
  <2>5. chosen \subseteq Rows => d \in DeskWith(CurrentMargin)
    BY DEF Idle, DeskWith
  <2> HIDE DEF d
  <2>6. DOMAIN desk' = Pipelines \cup Executors
    BY <1>0, <2>3
  <2>7. CASE p = "daemon"
    <3>1. Daemon' = d
      BY <1>0, <2>3, <2>7
    <3>2. RowsTyped'
      BY <1>0, <1>2, <2>1, <2>2, <2>5, <2>6, <2>7, <3>1 DEF RowsTyped, IsDesk
    <3> QED
      BY <1>3, <2>2, <2>4, <2>7, <3>1, <3>2, QuietStep
  <2>8. CASE p # "daemon"
    <3>1. Daemon' = Daemon
      BY <1>0, <2>3, <2>8
    <3>2. RowsTyped'
      BY <1>0, <2>2, <2>6, <3>1 DEF RowsTyped
    <3> QED
      BY <1>3, <2>2, <3>1, <3>2, QuietStep
  <2> QED
    BY <2>7, <2>8
<1>8. ASSUME NEW p \in Pipelines, PipelineFails(p) PROVE StagedSafe'
  <2>1. desk' = [desk EXCEPT ![p] = Idle] /\ desk[p].pc = "scanned"
        /\ UNCHANGED <<rows, sent, stagings>>
    BY <1>8 DEF PipelineFails
  <2>2. /\ DOMAIN desk' = Pipelines \cup Executors
        /\ \/ Daemon' = Idle /\ Daemon.pc = "scanned"
           \/ Daemon' = Daemon
    BY <1>0, <2>1
  <2>3. RowsTyped'
    BY <1>0, <2>1, <2>2, IdleIsDesk DEF RowsTyped
  <2> QED
    BY <1>3, <2>1, <2>2, <2>3, IdleIsDesk, QuietStep
<1>9. ASSUME NEW p \in Pipelines, StageSelected(p) PROVE StagedSafe'
  <2> DEFINE d == [desk EXCEPT ![p] = Idle]
  <2>1. /\ desk' = Disturbed(d, p) /\ desk[p].pc = "chosen" /\ sent' = sent
        /\ Stage(desk[p].held, RowMargin)
    BY <1>9 DEF StageSelected
  <2>2. /\ DOMAIN d = Pipelines \cup Executors
        /\ \/ d["daemon"] = Idle /\ Daemon.pc = "chosen"
           \/ d["daemon"] = Daemon
    BY <1>0, <2>1
  <2> HIDE DEF d
  <2>3. IsDesk(d["daemon"])
    BY <1>0, <2>2, IdleIsDesk
  <2>4. /\ DOMAIN desk' = Pipelines \cup Executors /\ IsDesk(Daemon')
        /\ Daemon'.pc = d["daemon"].pc /\ Daemon'.held = d["daemon"].held
        /\ Daemon'.todo = d["daemon"].todo
    BY <2>1, <2>2, <2>3, DisturbedDesk
  <2>5. /\ rows' \in [Rows -> ScanRow] /\ stagings' \in [Rows -> Nat]
        /\ \A r \in Rows : \/ stagings'[r] = stagings[r] + 1
                           \/ /\ stagings'[r] = stagings[r]
                              /\ rows'[r].state = "STAGED" => rows[r].state = "STAGED"
    BY <1>0, <1>4, <2>1
  <2>6. RowsTyped'
    BY <1>0, <2>1, <2>4, <2>5 DEF RowsTyped
  <2> QED
    BY <1>3, <2>1, <2>2, <2>4, <2>5, <2>6, IdleIsDesk, QuietStep
<1>10. CASE StageByHand
  <2>1. PICK r \in Rows \ InState({"none"}), margin \in {RowMargin, EstimateOf} :
            Stage({r}, margin)
    BY <1>10 DEF StageByHand
  <2>2. desk' = Disturbed(desk, "user") /\ sent' = sent
    BY <1>10 DEF StageByHand
  <2>3. margin \in [Rows -> Nat]
    BY <1>0
  <2>4. /\ DOMAIN desk' = Pipelines \cup Executors /\ IsDesk(Daemon')
        /\ Daemon'.pc = Daemon.pc /\ Daemon'.held = Daemon.held /\ Daemon'.todo = Daemon.todo
    BY <1>0, <2>2, DisturbedDesk
  <2>5. /\ rows' \in [Rows -> ScanRow] /\ stagings' \in [Rows -> Nat]
        /\ \A q \in Rows : \/ stagings'[q] = stagings[q] + 1
                           \/ /\ stagings'[q] = stagings[q]
                              /\ rows'[q].state = "STAGED" => rows[q].state = "STAGED"
    BY <1>4, <2>1, <2>3
  <2>6. RowsTyped'
    BY <1>0, <2>2, <2>4, <2>5 DEF RowsTyped
  <2> QED
    BY <1>3, <2>2, <2>4, <2>5, <2>6, QuietStep
<1>11. ASSUME NEW e \in Executors, SaveFilled(e) PROVE StagedSafe'
  <2>1. PICK S \in SUBSET Rows :
          rows' = [r \in Rows |-> IF r \in S THEN Transition(rows[r], rows[r].state, "EXECUTED")
                                  ELSE rows[r]]
    <3>1. PICK S : rows' = [r \in Rows |-> IF r \in S
                                THEN Transition(rows[r], rows[r].state, "EXECUTED") ELSE rows[r]]
      BY <1>11 DEF SaveFilled
    <3>2. rows' = [r \in Rows |-> IF r \in S \cap Rows
                       THEN Transition(rows[r], rows[r].state, "EXECUTED") ELSE rows[r]]
      BY <3>1
    <3> QED
      BY <3>2
  <2>2. /\ desk' = [desk EXCEPT ![e] = Idle] /\ desk[e].pc = "sent"
        /\ UNCHANGED <<sent, stagings>>
    BY <1>11 DEF SaveFilled
  <2>3. "EXECUTED" \in States \ {"STAGED"}
    BY DEF States
  <2>4. /\ rows' \in [Rows -> ScanRow]
        /\ \A r \in Rows : rows'[r].state = "STAGED" => rows[r].state = "STAGED"
    BY <1>0, <2>1, <2>3, MovesDoNotStage
  <2>5. /\ DOMAIN desk' = Pipelines \cup Executors
        /\ \/ Daemon' = Idle /\ Daemon.pc = "sent"
           \/ Daemon' = Daemon
    BY <1>0, <2>2
  <2>6. RowsTyped'
    BY <1>0, <2>2, <2>4, <2>5, IdleIsDesk DEF RowsTyped
  <2> QED
    BY <1>3, <2>2, <2>4, <2>5, <2>6, IdleIsDesk, QuietStep
<1>12. CASE SchedulerFails
  <2>1. PICK S : rows' = [r \in Rows |->
              IF r \notin Daemon.held THEN rows[r]
              ELSE Transition(IF Daemon.pc = "sent" /\ r \in S
                              THEN Transition(rows[r], rows[r].state, "EXECUTED")
                              ELSE rows[r], "EXECUTING", "FAILED")]
    BY <1>12 DEF SchedulerFails
  <2>2. /\ desk' = [desk EXCEPT !["daemon"] = Idle] /\ Daemon.pc \in {"ready", "sent"}
        /\ UNCHANGED <<sent, stagings>>
    BY <1>12 DEF SchedulerFails
  <2>3. {"EXECUTED", "FAILED"} \subseteq States \ {"STAGED"}
    BY DEF States
  <2>4. ASSUME NEW r \in Rows
        PROVE  rows'[r] \in ScanRow /\ (rows'[r].state = "STAGED" => rows[r].state = "STAGED")
    <3> DEFINE row == IF Daemon.pc = "sent" /\ r \in S
                      THEN Transition(rows[r], rows[r].state, "EXECUTED") ELSE rows[r]
    <3>1. rows[r] \in ScanRow
      BY <1>0
    <3>2. row \in ScanRow /\ (row.state = "STAGED" => rows[r].state = "STAGED")
      BY <2>3, <3>1, MovesDoNotStage
    <3>3. rows'[r] = IF r \notin Daemon.held THEN rows[r]
                     ELSE Transition(row, "EXECUTING", "FAILED")
      BY <2>1
    <3> HIDE DEF row
    <3> QED
      BY <2>3, <3>1, <3>2, <3>3, MovesDoNotStage
  <2>5. Daemon' = Idle /\ DOMAIN desk' = Pipelines \cup Executors
    BY <1>0, <2>2
  <2>6. rows' \in [Rows -> ScanRow]
    BY <2>1, <2>4
  <2>7. RowsTyped'
    BY <1>0, <2>2, <2>5, <2>6, IdleIsDesk DEF RowsTyped
  <2> QED
    BY <1>3, <2>2, <2>4, <2>5, <2>7, IdleIsDesk, QuietStep
<1>13. ASSUME NEW r \in Rows, FillOrder(r) PROVE StagedSafe'
  <2>1. desk' = Disturbed(desk, "broker") /\ UNCHANGED <<rows, sent, stagings>>
    BY <1>13 DEF FillOrder
  <2>2. /\ DOMAIN desk' = Pipelines \cup Executors /\ IsDesk(Daemon')
        /\ Daemon'.pc = Daemon.pc /\ Daemon'.held = Daemon.held /\ Daemon'.todo = Daemon.todo
    BY <1>0, <2>1, DisturbedDesk
  <2>3. RowsTyped'
    BY <1>0, <2>1, <2>2 DEF RowsTyped
  <2> QED
    BY <1>3, <2>1, <2>2, <2>3, QuietStep
<1>14. CASE AutoUnstage \/ UnstageAll \/ UnstageFromCli \/ \E r \in Rows : Unstage(r)
  <2>1. UNCHANGED <<desk, sent, stagings>> /\ \E S : Expired(S)
    BY <1>14 DEF AutoUnstage, UnstageAll, UnstageFromCli, Unstage
  <2>2. PICK S : Expired(S)
    BY <2>1
  <2>3. "EXPIRED" \in States \ {"STAGED"}
    BY DEF States
  <2>4. /\ rows' \in [Rows -> ScanRow]
        /\ \A r \in Rows : rows'[r].state = "STAGED" => rows[r].state = "STAGED"
    BY <1>0, <2>2, <2>3, MovesDoNotStage DEF Expired
  <2>5. RowsTyped'
    BY <1>0, <2>1, <2>4 DEF RowsTyped
  <2> QED
    BY <1>3, <2>1, <2>4, <2>5, QuietStep
<1>15. CASE UNCHANGED stagedVars
  BY <1>15 DEF stagedVars, StagedSafe, RowsTyped, InOrder, Spare, InHand, OnTable
<1> QED
  BY <1>5, <1>6, <1>7, <1>8, <1>9, <1>10, <1>11, <1>12, <1>13, <1>14, <1>15
     DEF StagedNext, Executors

LEMMA StagedStart == StagedInit => StagedSafe
<1> SUFFICES ASSUME StagedInit PROVE StagedSafe
  OBVIOUS
<1> USE DEF Daemon
<1>1. Daemon = Idle /\ DOMAIN desk = Pipelines \cup Executors
  BY DEF StagedInit, Pipelines, Executors
<1>2. Absent \in ScanRow /\ Absent.state = "none"
  BY DEF Absent, ScanRow
<1>3. RowsTyped /\ InOrder
  BY <1>1, <1>2, IdleIsDesk DEF StagedInit, RowsTyped, InOrder
<1>4. Spare
  BY <1>1, <1>2, IdleIsDesk DEF StagedInit, Spare, InHand, OnTable, Executors
<1> QED
  BY <1>3, <1>4 DEF StagedSafe

\* The daemon sends one order per staging of a row at most, for any rows,
\* crashes, unstagings and second executors.
THEOREM OneOrderPerStaging == StagedSpec => []OneSubmissionPerStaging
<1>1. StagedSafe => OneSubmissionPerStaging
  <2> SUFFICES ASSUME StagedSafe, NEW r \in Rows
               PROVE  sent["daemon"][r] <= stagings[r]
    BY DEF OneSubmissionPerStaging
  <2>1. sent["daemon"][r] + InHand(r) + OnTable(r) <= stagings[r]
    BY DEF StagedSafe, Spare
  <2>2. /\ sent["daemon"][r] \in Nat /\ stagings[r] \in Nat
        /\ InHand(r) \in 0..1 /\ OnTable(r) \in 0..1
    BY DEF StagedSafe, RowsTyped, Executors, InHand, OnTable
  <2> QED
    BY <2>1, <2>2
<1> QED
  BY StagedStart, StagedStep, <1>1, PTL DEF StagedSpec

-----------------------------------------------------------------------------
(* Reports of the detector.                                                *)

\* What is spaced lies in the past.
Past ==
    /\ time \in Nat
    /\ \A e \in breachEvents : e.at \in Nat /\ e.at <= time

LEMMA DetectorStep ==
    ASSUME Past, BreachesAreSpaced, [DetectorNext]_detectorVars
    PROVE  Past' /\ BreachesAreSpaced'
<1>1. CASE DetectorPoll
  <2>1. PICK found, blind : time' = time /\ CheckCriticalAlerts(found, blind)
    BY <1>1 DEF DetectorPoll
  <2>2. PICK new :
          /\ breachEvents' = breachEvents \cup {[of |-> p, at |-> time] : p \in new}
          /\ unchecked' = unchecked \cup {[of |-> p, at |-> time] : p \in new \cap blind}
          /\ \A p \in new : ~RecentBreach(p, blind)
    <3> DEFINE new == {q \in {p \in Positions : Critical(found[p]) /\ ~OnCooldown(p)} :
                           ~RecentBreach(q, blind)}
    <3>1. /\ breachEvents' = breachEvents \cup {[of |-> p, at |-> time] : p \in new}
          /\ unchecked' = unchecked \cup {[of |-> p, at |-> time] : p \in new \cap blind}
      BY <2>1 DEF CheckCriticalAlerts
    <3>2. \A p \in new : ~RecentBreach(p, blind)
      OBVIOUS
    <3> HIDE DEF new
    <3> QED
      BY <3>1, <3>2
  <2>3. Past'
    BY <2>1, <2>2 DEF Past
  <2>4. ASSUME NEW e \in breachEvents', NEW f \in breachEvents' \ unchecked',
               e.of = f.of, e.at < f.at
        PROVE  f.at - e.at >= Cooldown
    <3>1. /\ e \in breachEvents \/ (e.of \in new /\ e.at = time)
          /\ f \notin unchecked
          /\ f \in breachEvents \/ (f.of \in new \ blind /\ f.at = time)
      BY <2>2
    <3>2. e \in breachEvents /\ e.at \in Nat /\ time \in Nat /\ Cooldown \in Nat
      BY <2>4, <3>1, DetectorFacts DEF Past
    <3>3. CASE f \in breachEvents
      BY <2>4, <3>1, <3>2, <3>3 DEF BreachesAreSpaced
    <3>4. CASE f.of \in new \ blind /\ f.at = time
      <4>1. ~RecentBreach(e.of, blind) /\ e.of \notin blind
        BY <2>2, <2>4, <3>4
      <4>2. ~(e.at > time - Cooldown)
        BY <3>2, <4>1 DEF RecentBreach
      <4> QED
        BY <3>2, <3>4, <4>2
    <3> QED
      BY <3>1, <3>3, <3>4
  <2> QED
    BY <2>3, <2>4 DEF BreachesAreSpaced
<1>2. CASE Sleep
  BY <1>2 DEF Sleep, Past, BreachesAreSpaced
<1>3. CASE ResetSession \/ RestartDetector \/ UNCHANGED detectorVars
  BY <1>3 DEF ResetSession, RestartDetector, detectorVars, Past, BreachesAreSpaced
<1> QED
  BY <1>1, <1>2, <1>3 DEF DetectorNext

\* A position is reported once per cooldown, for any positions, alerts, clocks
\* and restarts, unless the look-up of its last report failed: the events in the
\* database alone see to it.
THEOREM ReportsAreSpaced == DetectorSpec => []BreachesAreSpaced
<1>1. DetectorInit => Past /\ BreachesAreSpaced
  BY DEF DetectorInit, Past, BreachesAreSpaced
<1>2. Past /\ BreachesAreSpaced /\ [DetectorNext]_detectorVars => (Past /\ BreachesAreSpaced)'
  BY DetectorStep
<1> QED
  BY <1>1, <1>2, PTL DEF DetectorSpec

-----------------------------------------------------------------------------
(* Questions about a position.                                             *)

Spread ==
    /\ lapses \in Nat
    /\ exitChecks \in [Trades -> Nat]
    /\ OneQuestionAtATime

LEMMA LapsesAreCounted ==
    ASSUME NEW reads \in (0..Whole) \X (0..Whole)
    PROVE  Lapsed(reads) \in Nat /\ (reads[2] # Whole => Lapsed(reads) >= 1)
<1>1. reads[1] \in 0..3 /\ reads[2] \in 0..3 /\ Whole = 3
  BY DEF Whole
<1> QED
  BY <1>1 DEF Lapsed, Lapse

LEMMA QuestionStep ==
    ASSUME Spread, [WatchNext]_watchVars
    PROVE  Spread'
<1>1. CASE ScheduledCheck
  <2>1. PICK quote \in [Trades -> Quotes], reads \in Reads :
          /\ lapses' = lapses + Lapsed(reads)
          /\ exitChecks' = [t \in Trades |->
                 IF /\ t \notin closed' \cup Suppressed(auditRows', reads[2])
                    /\ quote[t].source = "mid" /\ GreyZone(quote[t])
                 THEN exitChecks[t] + 1 ELSE exitChecks[t]]
    BY <1>1 DEF ScheduledCheck
  <2>2. Lapsed(reads) \in Nat /\ (reads[2] # Whole => Lapsed(reads) >= 1)
    BY LapsesAreCounted DEF Reads
  <2>3. ASSUME NEW t \in Trades
        PROVE  exitChecks'[t] \in Nat /\ exitChecks'[t] <= 1 + lapses'
    <3>1. exitChecks[t] \in Nat /\ exitChecks[t] <= 1 + lapses /\ lapses \in Nat
      BY DEF Spread, OneQuestionAtATime
    <3>2. reads[2] = Whole /\ exitChecks[t] > 0 => t \in Suppressed(auditRows', reads[2])
      BY DEF Suppressed
    <3>3. exitChecks'[t] = exitChecks[t]
          \/ (exitChecks'[t] = exitChecks[t] + 1 /\ t \notin Suppressed(auditRows', reads[2]))
      BY <2>1
    <3> QED
      BY <2>1, <2>2, <3>1, <3>2, <3>3
  <2> QED
    BY <2>1, <2>2, <2>3 DEF Spread, OneQuestionAtATime
<1>2. CASE HandleExitCheck
  <2>1. PICK t \in Trades : exitChecks[t] > 0 /\ exitChecks' = [exitChecks EXCEPT ![t] = @ - 1]
    BY <1>2 DEF HandleExitCheck
  <2>2. lapses' = lapses
    BY <1>2 DEF HandleExitCheck
  <2>3. /\ exitChecks[t] - 1 \in Nat /\ exitChecks[t] - 1 <= exitChecks[t]
        /\ exitChecks[t] <= 1 + lapses
    BY <2>1 DEF Spread, OneQuestionAtATime
  <2> QED
    BY <2>1, <2>2, <2>3 DEF Spread, OneQuestionAtATime
<1>3. CASE UNCHANGED <<exitChecks, lapses>>
  BY <1>3 DEF Spread, OneQuestionAtATime
<1> QED
  BY <1>1, <1>2, <1>3
     DEF WatchNext, watchVars, Reconnect, Approve, Reject, OpenSession, EndSession

\* No position is asked about twice at once, but once more per failed look-up, for
\* any number of positions and whatever becomes of the decisions.
THEOREM QuestionsAreSingle == WatchSpec => []OneQuestionAtATime
<1>1. WatchInit => Spread
  BY DEF WatchInit, Spread, OneQuestionAtATime
<1>2. Spread => OneQuestionAtATime
  BY DEF Spread
<1> QED
  BY <1>1, <1>2, QuestionStep, PTL DEF WatchSpec

\* The rows of the decisions keep their type.
RowsOfAudit == auditRows \in Seq(AuditRows) /\ session \in 0..MaxSession /\ lapses \in Nat

LEMMA SweptFacts ==
    ASSUME NEW rs \in Seq(AuditRows), NEW gone
    PROVE  /\ Swept(rs, gone) \in Seq(AuditRows)
           /\ Len(Swept(rs, gone)) = Len(rs)
           /\ \A i \in 1..Len(rs) :
                  LET r == Swept(rs, gone)[i]
                  IN  /\ r.trade = rs[i].trade /\ r.named = rs[i].named
                      /\ r.session = rs[i].session /\ r.executed = rs[i].executed
                      /\ r.human \in {rs[i].human, "auto_dismissed"}
<1>1. \A i \in 1..Len(rs) : rs[i] \in AuditRows
  OBVIOUS
<1>2. ASSUME NEW r \in AuditRows
      PROVE  [r EXCEPT !.human = "auto_dismissed"] \in AuditRows
  BY DEF AuditRows
<1>3. Swept(rs, gone) = [i \in 1..Len(rs) |->
          IF ~rs[i].executed /\ rs[i].human = None /\ rs[i].trade \in gone
          THEN [rs[i] EXCEPT !.human = "auto_dismissed"] ELSE rs[i]]
  BY DEF Swept
<1>4. \A i \in 1..Len(rs) : Swept(rs, gone)[i] \in AuditRows
  BY <1>1, <1>2, <1>3
<1>5. Swept(rs, gone) \in Seq(AuditRows) /\ Len(Swept(rs, gone)) = Len(rs)
  BY <1>3, <1>4
<1>6. \A i \in 1..Len(rs) :
          LET r == Swept(rs, gone)[i]
          IN  /\ r.trade = rs[i].trade /\ r.named = rs[i].named
              /\ r.session = rs[i].session /\ r.executed = rs[i].executed
              /\ r.human \in {rs[i].human, "auto_dismissed"}
  BY <1>1, <1>3 DEF AuditRows
<1> QED
  BY <1>5, <1>6

LEMMA RowIsTyped ==
    ASSUME RowsOfAudit, NEW t \in Trades, NEW named \in BOOLEAN, NEW done \in BOOLEAN
    PROVE  NewRow(t, named, done) \in AuditRows
BY DEF RowsOfAudit, NewRow, AuditRows

LEMMA PlanIsTyped ==
    ASSUME RowsOfAudit, NEW open \in SUBSET Trades, NEW plan \in Plans(open)
    PROVE  plan \in Seq(AuditRows)
<1>1. \/ plan = <<>>
      \/ \E t \in Trades, named \in BOOLEAN, done \in BOOLEAN : plan = <<NewRow(t, named, done)>>
  BY DEF Plans
<1>2. CASE plan = <<>>
  BY <1>2
<1>3. CASE \E t \in Trades, named \in BOOLEAN, done \in BOOLEAN : plan = <<NewRow(t, named, done)>>
  <2>1. PICK r \in AuditRows : plan = <<r>>
    BY <1>3, RowIsTyped
  <2> QED
    BY <2>1
<1> QED
  BY <1>1, <1>2, <1>3

LEMMA RowStep ==
    ASSUME RowsOfAudit, [WatchNext]_watchVars
    PROVE  RowsOfAudit'
<1>1. CASE ScheduledCheck
  <2>1. PICK quote \in [Trades -> Quotes], reads \in Reads :
        \E exits \in RuleExits(quote, Swept(auditRows, closed), reads[1]) :
        \E plan \in Plans(Trades \ (closed \cup exits)) :
          /\ auditRows' = Swept(Swept(auditRows, closed), closed \cup exits) \o plan
          /\ lapses' = lapses + Lapsed(reads)
    BY <1>1 DEF ScheduledCheck
  <2>2. PICK exits \in RuleExits(quote, Swept(auditRows, closed), reads[1]) :
        \E plan \in Plans(Trades \ (closed \cup exits)) :
          /\ auditRows' = Swept(Swept(auditRows, closed), closed \cup exits) \o plan
          /\ lapses' = lapses + Lapsed(reads)
    BY <2>1
  <2>3. PICK plan \in Plans(Trades \ (closed \cup exits)) :
          /\ auditRows' = Swept(Swept(auditRows, closed), closed \cup exits) \o plan
          /\ lapses' = lapses + Lapsed(reads)
    BY <2>2
  <2>4. plan \in Seq(AuditRows)
    BY <2>3, PlanIsTyped
  <2>5. auditRows' \in Seq(AuditRows)
    BY <2>3, <2>4, SweptFacts DEF RowsOfAudit
  <2>6. Lapsed(reads) \in Nat
    BY LapsesAreCounted DEF Reads
  <2> QED
    BY <1>1, <2>3, <2>5, <2>6 DEF RowsOfAudit, ScheduledCheck
<1>2. CASE HandleExitCheck
  <2>1. PICK t \in Trades :
          UNCHANGED auditRows \/ \E done \in BOOLEAN :
              auditRows' = Append(auditRows, NewRow(t, TRUE, done))
    BY <1>2 DEF HandleExitCheck
  <2>2. UNCHANGED auditRows \/ \E r \in AuditRows : auditRows' = Append(auditRows, r)
    BY <2>1, RowIsTyped
  <2>3. auditRows' \in Seq(AuditRows)
    BY <2>2 DEF RowsOfAudit
  <2>4. session' = session /\ lapses' = lapses
    BY <1>2 DEF HandleExitCheck
  <2> QED
    BY <2>3, <2>4 DEF RowsOfAudit
<1>3. CASE Approve \/ Reject
  <2>1. PICK i \in DOMAIN auditRows :
          \/ auditRows' = [auditRows EXCEPT ![i].human = "auto_dismissed"]
          \/ auditRows' = [auditRows EXCEPT ![i].human = "rejected"]
          \/ \E done \in BOOLEAN :
                 auditRows' = [auditRows EXCEPT ![i].human = "approved", ![i].executed = done]
    BY <1>3 DEF Approve, Reject
  <2>2. PICK old \in AuditRows : old = auditRows[i]
    BY DEF RowsOfAudit
  <2>3. /\ [old EXCEPT !.human = "auto_dismissed"] \in AuditRows
        /\ [old EXCEPT !.human = "rejected"] \in AuditRows
        /\ \A done \in BOOLEAN : [old EXCEPT !.human = "approved", !.executed = done] \in AuditRows
    BY DEF AuditRows
  <2>4. PICK r \in AuditRows : auditRows' = [auditRows EXCEPT ![i] = r]
    <3>1. CASE auditRows' = [auditRows EXCEPT ![i].human = "auto_dismissed"]
      BY <2>2, <2>3, <3>1
    <3>2. CASE auditRows' = [auditRows EXCEPT ![i].human = "rejected"]
      BY <2>2, <2>3, <3>2
    <3>3. ASSUME NEW done \in BOOLEAN,
                 auditRows' = [auditRows EXCEPT ![i].human = "approved", ![i].executed = done]
          PROVE  \E r \in AuditRows : auditRows' = [auditRows EXCEPT ![i] = r]
      <4>1. PICK new \in AuditRows : new = [old EXCEPT !.human = "approved", !.executed = done]
        BY <2>3
      <4>2. auditRows' = [auditRows EXCEPT ![i] = new]
        BY <2>2, <3>3, <4>1 DEF RowsOfAudit
      <4> QED
        BY <4>2
    <3> QED
      BY <2>1, <3>1, <3>2, <3>3
  <2>5. auditRows' \in Seq(AuditRows)
    BY <2>4 DEF RowsOfAudit
  <2>6. session' = session /\ lapses' = lapses
    BY <1>3 DEF Approve, Reject
  <2> QED
    BY <2>5, <2>6 DEF RowsOfAudit
<1>4. CASE Reconnect \/ OpenSession \/ EndSession \/ UNCHANGED watchVars
  BY <1>4, WatchFacts DEF RowsOfAudit, Reconnect, OpenSession, EndSession, watchVars
<1> QED
  BY <1>1, <1>2, <1>3, <1>4 DEF WatchNext

LEMMA AloneStep ==
    ASSUME RowsOfAudit, [WatchNext]_watchVars, lapses' = lapses, Spread,
           NEW i \in DOMAIN auditRows,
           auditRows[i].named, ~auditRows[i].executed, auditRows[i].session = session,
           auditRows[i].human \in {None, "rejected", "auto_dismissed"}
    PROVE  /\ auditRows[i].trade \in ruleExits' => auditRows[i].trade \in ruleExits
           /\ exitChecks'[auditRows[i].trade] <= exitChecks[auditRows[i].trade]
<1> DEFINE t == auditRows[i].trade
<1>1. i \in 1..Len(auditRows) /\ t \in Trades /\ exitChecks[t] \in Nat /\ auditRows \in Seq(AuditRows)
  <2>1. auditRows \in Seq(AuditRows) /\ i \in 1..Len(auditRows)
    BY DEF RowsOfAudit
  <2>2. auditRows[i] \in AuditRows
    BY <2>1
  <2> QED
    BY <2>1, <2>2 DEF Spread, AuditRows
<1>2. CASE ScheduledCheck
  <2>1. PICK quote \in [Trades -> Quotes], reads \in Reads :
        \E exits \in RuleExits(quote, Swept(auditRows, closed), reads[1]) :
        \E plan \in Plans(Trades \ (closed \cup exits)) :
          /\ ruleExits' = ruleExits \cup exits
          /\ auditRows' = Swept(Swept(auditRows, closed), closed \cup exits) \o plan
          /\ lapses' = lapses + Lapsed(reads)
          /\ exitChecks' = [u \in Trades |->
                 IF /\ u \notin closed' \cup Suppressed(auditRows', reads[2])
                    /\ quote[u].source = "mid" /\ GreyZone(quote[u])
                 THEN exitChecks[u] + 1 ELSE exitChecks[u]]
    BY <1>2 DEF ScheduledCheck
  <2>2. PICK exits \in RuleExits(quote, Swept(auditRows, closed), reads[1]) :
        \E plan \in Plans(Trades \ (closed \cup exits)) :
          /\ ruleExits' = ruleExits \cup exits
          /\ auditRows' = Swept(Swept(auditRows, closed), closed \cup exits) \o plan
          /\ lapses' = lapses + Lapsed(reads)
          /\ exitChecks' = [u \in Trades |->
                 IF /\ u \notin closed' \cup Suppressed(auditRows', reads[2])
                    /\ quote[u].source = "mid" /\ GreyZone(quote[u])
                 THEN exitChecks[u] + 1 ELSE exitChecks[u]]
    BY <2>1
  <2>3. PICK plan \in Plans(Trades \ (closed \cup exits)) :
          /\ ruleExits' = ruleExits \cup exits
          /\ auditRows' = Swept(Swept(auditRows, closed), closed \cup exits) \o plan
          /\ lapses' = lapses + Lapsed(reads)
          /\ exitChecks' = [u \in Trades |->
                 IF /\ u \notin closed' \cup Suppressed(auditRows', reads[2])
                    /\ quote[u].source = "mid" /\ GreyZone(quote[u])
                 THEN exitChecks[u] + 1 ELSE exitChecks[u]]
    BY <2>2
  <2>4. reads[1] = Whole /\ reads[2] = Whole /\ session' = session
    <3>1. reads[1] \in 0..Whole /\ reads[2] \in 0..Whole
      BY DEF Reads
    <3> QED
      BY <1>2, <2>3, <3>1 DEF RowsOfAudit, Lapsed, Lapse, Whole, ScheduledCheck
  <2> DEFINE once == Swept(auditRows, closed)
             twice == Swept(once, closed \cup exits)
  <2>5. /\ once \in Seq(AuditRows) /\ Len(once) = Len(auditRows)
        /\ once[i].trade = t /\ once[i].named /\ ~once[i].executed
        /\ once[i].session = session /\ once[i].human \in {None, "rejected", "auto_dismissed"}
    BY <1>1, SweptFacts
  <2>6. /\ twice \in Seq(AuditRows) /\ Len(twice) = Len(auditRows)
        /\ twice[i].trade = t /\ twice[i].named /\ ~twice[i].executed
        /\ twice[i].session = session /\ twice[i].human \in {None, "rejected", "auto_dismissed"}
    <3> HIDE DEF once
    <3> QED
      BY <1>1, <2>5, SweptFacts
  <2> HIDE DEF once, twice
  <2>7. t \in Suppressed(once, Whole)
    BY <1>1, <2>5, WatchFacts DEF Suppressed, RowSuppressed, Suppresses, Whole
  <2>8. t \notin exits
    BY <2>3, <2>4, <2>7 DEF RuleExits, once
  <2>9. plan \in Seq(AuditRows)
    BY <2>3, PlanIsTyped
  <2>10. auditRows' = twice \o plan
    BY <2>3 DEF once, twice
  <2>11. i \in DOMAIN auditRows' /\ auditRows'[i] = twice[i]
    BY <1>1, <2>6, <2>9, <2>10
  <2>12. t \in Suppressed(auditRows', Whole)
    BY <2>6, <2>11, WatchFacts DEF Suppressed, RowSuppressed, Suppresses, Whole
  <2>13. exitChecks'[t] = exitChecks[t]
    BY <1>1, <2>3, <2>4, <2>12
  <2>14. ruleExits' = ruleExits \cup exits
    BY <2>3
  <2> HIDE DEF t
  <2>15. (t \in ruleExits' => t \in ruleExits) /\ exitChecks'[t] <= exitChecks[t]
    BY <1>1, <2>8, <2>13, <2>14
  <2> QED
    BY <2>15 DEF t
<1>3. CASE HandleExitCheck
  <2>1. PICK u \in Trades : exitChecks' = [exitChecks EXCEPT ![u] = @ - 1] /\ exitChecks[u] > 0
    BY <1>3 DEF HandleExitCheck
  <2> QED
    BY <1>1, <1>3, <2>1 DEF HandleExitCheck, Spread
<1>4. CASE UNCHANGED <<ruleExits, exitChecks>>
  BY <1>1, <1>4
<1> QED
  BY <1>2, <1>3, <1>4
     DEF WatchNext, watchVars, Reconnect, Approve, Reject, OpenSession, EndSession

\* Neither a rule nor a question touches a position with a decision of the session that
\* nobody approved, unless a look-up failed: for any number of positions, decisions and
\* quotes.
THEOREM UnapprovedAreLeftAlone == WatchSpec => UnapprovedIsLeftAlone
<1>1. WatchInit => RowsOfAudit /\ Spread
  BY WatchFacts DEF WatchInit, RowsOfAudit, Spread, OneQuestionAtATime
<1>2. RowsOfAudit /\ Spread /\ [WatchNext]_watchVars => (RowsOfAudit /\ Spread)'
  BY RowStep, QuestionStep
<1>3. RowsOfAudit /\ Spread /\ [WatchNext]_watchVars =>
      [lapses' = lapses =>
       \A i \in DOMAIN auditRows :
           LET r == auditRows[i]
           IN  /\ r.named /\ ~r.executed /\ r.session = session
               /\ r.human \in {None, "rejected", "auto_dismissed"}
               => /\ r.trade \in ruleExits' => r.trade \in ruleExits
                  /\ exitChecks'[r.trade] <= exitChecks[r.trade]]_watchVars
  BY AloneStep
<1> QED
  BY <1>1, <1>2, <1>3, PTL DEF WatchSpec, UnapprovedIsLeftAlone

-----------------------------------------------------------------------------
(* The review of a trade.                                                  *)

Under(t) == trade[t].status # "confirmed" => trade[t].limit = StagedLimit[t]

Sound(t) ==
    ~selector /\ trade[t].status = "confirmed" =>
        /\ OutOfTheMoney(trade[t].price, EffectiveStrike(t), MinOtm)
        /\ 2 * trade[t].limit > StagedLimit[t]

ReviewSafe ==
    /\ ReviewTypeOK
    /\ reviewStage = "select" => selector
    /\ reviewStage = "premarket" => trade = [t \in Reviewed |-> Staged(t)]
    /\ \A t \in Reviewed : Under(t) /\ Sound(t)

Judged == [status : {"staged", "ready", "pending", "confirmed", "stale"},
           adjusted : Nat, limit : Nat, price : Nat]

\* Rounding a count gives a count.
LEMMA RoundingIsNat ==
    ASSUME NEW a \in Nat, NEW b \in Nat \ {0}
    PROVE  RoundHalfEven(a, b) \in Nat
<1> DEFINE q == a \div b
           r == 2 * (a % b)
<1>1. q \in Nat
  <2>1. q \in Int /\ b > 0 /\ a >= 0
    OBVIOUS
  <2>2. a = b * q + (a % b) /\ a % b \in 0..(b - 1)
    OBVIOUS
  <2>3. q >= 0
    BY <2>1, <2>2, SMTT(30)
  <2> QED
    BY <2>1, <2>3
<1>2. RoundHalfEven(a, b) = IF r > b \/ (r = b /\ q % 2 = 1) THEN q + 1 ELSE q
  BY DEF RoundHalfEven
<1> QED
  BY <1>1, <1>2

\* The strike moved by the first check is a strike.
LEMMA AdjustmentIsNat ==
    ASSUME NEW s \in Nat, NEW p \in {MinOtm, MinOtmAggressive}
    PROVE  AdjustedStrike(s, p) \in Nat
<1> DEFINE i == StrikeInterval(s)
           k == i * RoundHalfEven(s * (100 - p), 100 * i)
<1>1. i \in {1, 5}
  BY DEF StrikeInterval
<1>2. s * (100 - p) \in Nat
  BY DEF MinOtm, MinOtmAggressive
<1>3. RoundHalfEven(s * (100 - p), 100 * i) \in Nat
  <2> HIDE DEF i
  <2>1. 100 * i \in Nat \ {0}
    BY <1>1
  <2> QED
    BY <1>2, <2>1, RoundingIsNat
<1>4. k \in Nat
  BY <1>1, <1>3
<1> QED
  BY <1>4 DEF AdjustedStrike, NoAnswer

\* A limit is never below the bid.
LEMMA LimitIsAtLeastTheBid ==
    ASSUME NEW q \in [bid : Int, ask : Int], q.bid > 0, q.ask >= q.bid
    PROVE  SellLimit(q) \in Nat /\ SellLimit(q) >= q.bid
<1> DEFINE limit == RoundHalfEven(200 * q.bid + 30 * (q.ask - q.bid), 200)
<1>1. 200 * q.bid + 30 * (q.ask - q.bid) \in Nat
  OBVIOUS
<1>2. limit \in Nat
  BY <1>1, RoundingIsNat
<1> QED
  BY <1>2 DEF SellLimit

LEMMA PremarketIsSafe == ASSUME ReviewSafe, ValidatePremarket PROVE ReviewSafe'
<1>1. PICK s \in [Reviewed -> Prices \cup {StagedPrice}] :
          trade' = [t \in Reviewed |-> PremarketStatus(t, s[t])]
  BY DEF ValidatePremarket
<1>2. ASSUME NEW t \in Reviewed
      PROVE  /\ trade'[t] \in Judged
             /\ trade'[t].status \in {"ready", "stale"}
             /\ trade'[t].limit = StagedLimit[t]
  <2>1. trade[t] = Staged(t) /\ trade[t] \in Judged
    BY DEF ReviewSafe, ReviewTypeOK, ValidatePremarket, Judged
  <2>2. s[t] \in Nat
    BY ReviewBounds
  <2>3. AdjustedStrike(s[t], MinOtm) \in Nat /\ AdjustedStrike(s[t], MinOtmAggressive) \in Nat
    BY <2>2, AdjustmentIsNat
  <2>4. trade'[t] = PremarketStatus(t, s[t])
    BY <1>1
  <2>5. Distance(s[t], StagedPrice) \in Nat
    BY <2>2, ReviewBounds DEF Distance
  <2>6. PICK k \in Nat, st \in {"ready", "stale"} :
           trade'[t] \in {[trade[t] EXCEPT !.price = s[t], !.status = st],
                          [trade[t] EXCEPT !.price = s[t], !.adjusted = k, !.status = st]}
    BY <2>3, <2>4, <2>5, ReviewBounds DEF PremarketStatus, NoAnswer
  <2>7. trade[t].limit = StagedLimit[t]
    BY <2>1 DEF Staged
  <2> QED
    BY <2>1, <2>2, <2>6, <2>7 DEF Judged
<1>3. selector' = selector /\ attempt' = attempt
  BY DEF ValidatePremarket
<1>4. reviewStage' \in {"done", "select", "open"} /\ (reviewStage' = "select" => selector)
  BY DEF ValidatePremarket
<1> QED
  BY <1>1, <1>2, <1>3, <1>4 DEF ReviewSafe, ReviewTypeOK, Judged, Under, Sound

\* One trade at the open.
LEMMA OpenIsSound ==
    ASSUME ReviewSafe, NEW t \in Reviewed, trade[t].status \in {"ready", "pending"},
           NEW s \in Nat, NEW q \in [bid : Int, ask : Int],
           q.bid > 0 /\ OutOfTheMoney(s, EffectiveStrike(t), MinOtm) => ~Crossed(q),
           NEW row, row = OpenStatus(t, s, q)
    PROVE  /\ row \in Judged /\ row.adjusted = trade[t].adjusted
           /\ row.status # "confirmed" => row.limit = StagedLimit[t]
           /\ row.status = "confirmed" =>
                /\ row.price = s /\ OutOfTheMoney(s, EffectiveStrike(t), MinOtm)
                /\ 2 * row.limit > StagedLimit[t]
<1>1. trade[t] \in Judged /\ trade[t].limit = StagedLimit[t] /\ StagedLimit[t] \in Nat \ {0}
  BY ReviewBounds DEF ReviewSafe, ReviewTypeOK, Judged, Under
<1>2. CASE q.bid <= 0
  <2>1. row = [trade[t] EXCEPT !.status = "pending"]
    BY <1>2 DEF OpenStatus
  <2> QED
    BY <1>1, <2>1 DEF Judged
<1>3. CASE q.bid > 0 /\ ~OutOfTheMoney(s, EffectiveStrike(t), MinOtm)
  <2>1. row = GoneStale(t, s)
    BY <1>3 DEF OpenStatus
  <2> QED
    BY <1>1, <2>1 DEF Judged, GoneStale
<1>4. CASE q.bid > 0 /\ OutOfTheMoney(s, EffectiveStrike(t), MinOtm)
  <2> DEFINE fall == 100 * (StagedLimit[t] - q.bid)
  <2>1. SellLimit(q) \in Nat /\ SellLimit(q) >= q.bid
    BY <1>4, LimitIsAtLeastTheBid DEF Crossed
  <2>2. row = IF \/ fall < 15 * StagedLimit[t]
                 \/ fall < 50 * StagedLimit[t] /\ SellLimit(q) >= MinPremium
              THEN Confirmed(t, s, SellLimit(q)) ELSE GoneStale(t, s)
    BY <1>1, <1>4 DEF OpenStatus, MaxPremiumConfirmed, MaxPremiumAdjust
  <2>3. CASE row = GoneStale(t, s)
    BY <1>1, <2>3 DEF Judged, GoneStale
  <2>4. CASE row = Confirmed(t, s, SellLimit(q)) /\ fall < 50 * StagedLimit[t]
    <3>1. 2 * SellLimit(q) > StagedLimit[t]
      BY <1>1, <2>1, <2>4
    <3> QED
      BY <1>1, <1>4, <2>1, <2>4, <3>1 DEF Judged, Confirmed
  <2>5. fall < 15 * StagedLimit[t] => fall < 50 * StagedLimit[t]
    BY <1>1
  <2> QED
    BY <2>2, <2>3, <2>4, <2>5
<1> QED
  BY <1>2, <1>3, <1>4

LEMMA OpenIsSafe == ASSUME ReviewSafe, ValidateAtOpen PROVE ReviewSafe'
<1> DEFINE Quote(q, t) == IF q[t] = NoQuote THEN StagedQuote(t) ELSE q[t]
           Raises(s, q, t) == /\ Quote(q, t).bid > 0 /\ Crossed(Quote(q, t))
                              /\ OutOfTheMoney(s[t], EffectiveStrike(t), MinOtm)
<1>1. PICK s \in [Remaining -> Prices \cup {StagedPrice}],
           q \in [Remaining -> OpenQuotes \cup {NoQuote}] :
        IF \E t \in Remaining : Raises(s, q, t)
        THEN reviewStage' = "failed" /\ UNCHANGED <<trade, attempt>>
        ELSE /\ trade' = [t \in Reviewed |-> IF t \in Remaining
                                             THEN OpenStatus(t, s[t], Quote(q, t)) ELSE trade[t]]
             /\ attempt' = attempt + 1
             /\ UNCHANGED reviewStage
  BY DEF ValidateAtOpen
<1>2. selector' = selector /\ reviewStage = "open" /\ attempt \in Nat /\ attempt < MaxRetries
  BY DEF ValidateAtOpen, ReviewSafe, ReviewTypeOK
<1>3. CASE \E t \in Remaining : Raises(s, q, t)
  BY <1>1, <1>2, <1>3 DEF ReviewSafe, ReviewTypeOK, Under, Sound, EffectiveStrike
<1>4. CASE ~\E t \in Remaining : Raises(s, q, t)
  <2>1. ASSUME NEW t \in Remaining
        PROVE  /\ trade[t].status \in {"ready", "pending"} /\ t \in Reviewed
               /\ s[t] \in Nat /\ Quote(q, t) \in [bid : Int, ask : Int]
               /\ Quote(q, t).bid > 0 /\ OutOfTheMoney(s[t], EffectiveStrike(t), MinOtm) =>
                      ~Crossed(Quote(q, t))
    <3>1. t \in Reviewed /\ trade[t].status \in {"ready", "pending"}
      BY DEF Remaining
    <3>2. s[t] \in Nat /\ q[t] \in OpenQuotes \cup {NoQuote}
      BY ReviewBounds
    <3>3. StagedQuote(t) \in [bid : Int, ask : Int] /\ q[t] \in [bid : Int, ask : Int]
      BY <3>1, <3>2, ReviewBounds DEF StagedQuote, NoQuote, NoAnswer
    <3> QED
      BY <1>4, <3>1, <3>2, <3>3
  <2> HIDE DEF Quote
  <2>2. ASSUME NEW t \in Reviewed
        PROVE  trade'[t] = IF t \in Remaining THEN OpenStatus(t, s[t], Quote(q, t)) ELSE trade[t]
    BY <1>1, <1>4
  <2>3. ASSUME NEW t \in Reviewed
        PROVE  trade'[t] \in Judged /\ Under(t)' /\ Sound(t)'
    <3>1. CASE t \notin Remaining
      BY <1>2, <2>2, <3>1 DEF ReviewSafe, ReviewTypeOK, Judged, Under, Sound, EffectiveStrike
    <3>2. CASE t \in Remaining
      <4>1. trade'[t] = OpenStatus(t, s[t], Quote(q, t))
        BY <2>2, <3>2
      <4> QED
        BY <1>2, <2>1, <3>2, <4>1, OpenIsSound DEF Under, Sound, EffectiveStrike
    <3> QED
      BY <3>1, <3>2
  <2>4. DOMAIN trade' = Reviewed /\ trade' = [t \in Reviewed |-> trade'[t]]
    BY <1>1, <1>4
  <2>5. attempt' \in 0..MaxRetries /\ reviewStage' = reviewStage
    BY <1>1, <1>2, <1>4, ReviewBounds
  <2>6. trade' \in [Reviewed -> Judged]
    BY <2>3, <2>4
  <2> QED
    BY <1>2, <2>3, <2>5, <2>6 DEF ReviewSafe, ReviewTypeOK, Judged
<1> QED
  BY <1>3, <1>4

\* The end of the window gives up what still waits.
LEMMA EndIsSafe == ASSUME ReviewSafe, EndOpen PROVE ReviewSafe'
<1>1. ASSUME NEW t \in Reviewed
      PROVE  trade'[t] \in Judged /\ Under(t)' /\ Sound(t)'
  <2>1. trade[t] \in Judged /\ Under(t) /\ Sound(t)
    BY DEF ReviewSafe, ReviewTypeOK, Judged
  <2>2. \/ trade'[t] = trade[t]
        \/ trade[t].status = "pending" /\ trade'[t] = [trade[t] EXCEPT !.status = "stale"]
    BY DEF EndOpen
  <2> QED
    BY <2>1, <2>2 DEF Judged, Under, Sound, EffectiveStrike, EndOpen
<1>2. trade' \in [Reviewed -> Judged]
  BY <1>1 DEF EndOpen
<1> QED
  BY <1>1, <1>2 DEF ReviewSafe, ReviewTypeOK, Judged, EndOpen

\* With a selector the property says nothing.
LEMMA SelectIsSafe == ASSUME ReviewSafe, SelectStrikes PROVE ReviewSafe'
<1>1. ASSUME NEW t \in Reviewed
      PROVE  trade'[t] \in Judged /\ Under(t)' /\ Sound(t)'
  <2>1. trade[t] \in Judged /\ Under(t) /\ Sound(t) /\ selector /\ selector' = selector
    BY DEF ReviewSafe, ReviewTypeOK, Judged, SelectStrikes
  <2>2. \/ trade'[t] = trade[t]
        \/ trade[t].status = "ready" /\ trade'[t] = [trade[t] EXCEPT !.status = "confirmed"]
    BY DEF SelectStrikes
  <2> QED
    BY <2>1, <2>2 DEF Judged, Under, Sound
<1>2. trade' \in [Reviewed -> Judged]
  BY <1>1 DEF SelectStrikes
<1> QED
  BY <1>1, <1>2 DEF ReviewSafe, ReviewTypeOK, Judged, SelectStrikes

LEMMA ReviewStart == ReviewInit => ReviewSafe
BY ReviewBounds DEF ReviewInit, ReviewSafe, ReviewTypeOK, Staged, NoAnswer, Under, Sound

LEMMA ReviewStep ==
    ASSUME ReviewSafe, [ReviewNext]_reviewVars
    PROVE  ReviewSafe'
<1>1. CASE UNCHANGED reviewVars
  BY <1>1 DEF reviewVars, ReviewSafe, ReviewTypeOK, Under, Sound, EffectiveStrike
<1> QED
  BY <1>1, PremarketIsSafe, OpenIsSafe, EndIsSafe, SelectIsSafe DEF ReviewNext

\* A trade the check at the open confirms is far enough from the money, for the
\* strike and at the price of its order, and offered at more than half of the
\* staged limit, for every number of trades, price, quote and number of attempts
\* (premarket_validator.py:_validate_at_open_single).
THEOREM ConfirmedTradesAreSound == ReviewSpec => []ConfirmedIsSound
<1>1. ReviewSafe => ConfirmedIsSound
  BY DEF ReviewSafe, Sound, ConfirmedIsSound
<1> QED
  BY <1>1, ReviewStart, ReviewStep, PTL DEF ReviewSpec

-----------------------------------------------------------------------------
(* The timers of the day.                                                  *)

\* The emitter that lives counts its quarter of an hour from the last opening or later.
TimerSafe ==
    /\ day \in Nat
    /\ \E i \in DOMAIN Instants : minute = Instants[i]
    /\ lastOpening # Unset => lastOpening \in Int /\ lastOpening <= Now
    /\ running => /\ emitter.check \in Int
                  /\ lastOpening # Unset => lastOpening <= emitter.check

\* The observed minutes are minutes of a day.
LEMMA Minutes == \A i \in DOMAIN Instants : Instants[i] \in Int /\ Instants[i] >= 0 /\ Instants[i] < 1440
<1> DEFINE M == 0..1439
<1>1. \A S, s, i : s \in Seq(S) /\ i \in DOMAIN s => s[i] \in S
  OBVIOUS
<1>2. Instants \in Seq(0..1439)
  BY DayAssumption
<1>3. \A i \in DOMAIN Instants : Instants[i] \in M
  <2>1. Instants \in Seq(M)
    BY <1>2
  <2> HIDE DEF M
  <2> QED
    BY <1>1, <2>1
<1> QED
  BY <1>3

LEMMA NowIsInt == ASSUME TimerSafe PROVE Now \in Int
<1>1. minute \in Int /\ day \in Int
  BY Minutes DEF TimerSafe
<1> QED
  BY <1>1 DEF Now, Instant

\* No step but a look at the clock touches the timer of a living daemon, and time
\* only goes on.
LEMMA TimerStep == ASSUME TimerSafe, [DayNext]_dayVars PROVE TimerSafe'
<1>0. Now \in Int
  BY NowIsInt
<1>1. CASE TimePasses
  <2>1. PICK i \in DOMAIN Instants :
           /\ minute = Instants[i]
           /\ \/ i < Len(Instants) /\ minute' = Instants[i + 1] /\ day' = day
              \/ i >= Len(Instants) /\ day' = day + 1 /\ minute' = Instants[1]
    <3>1. PICK i \in DOMAIN Instants :
           /\ minute = Instants[i]
           /\ IF i < Len(Instants) THEN minute' = Instants[i + 1] /\ day' = day
              ELSE day' = day + 1 /\ minute' = Instants[1]
      BY <1>1 DEF TimePasses
    <3> QED
      BY <3>1, DayAssumption
  <2>2. PICK j \in DOMAIN Instants : minute' = Instants[j] /\ day' \in Nat /\ Now' \in Int /\ Now <= Now'
    <3>1. CASE i < Len(Instants) /\ minute' = Instants[i + 1] /\ day' = day
      <4>1. i + 1 \in DOMAIN Instants /\ Instants[i] < Instants[i + 1]
        BY <3>1, DayAssumption
      <4>2. Instants[i] \in Int /\ Instants[i + 1] \in Int /\ day \in Nat
        BY <4>1, Minutes DEF TimerSafe
      <4> QED
        BY <2>1, <3>1, <4>1, <4>2 DEF Now, Instant
    <3>2. CASE i >= Len(Instants) /\ day' = day + 1 /\ minute' = Instants[1]
      <4>1. 1 \in DOMAIN Instants /\ day \in Nat
        BY DayAssumption DEF TimerSafe
      <4>2. /\ Instants[i] \in Int /\ Instants[i] < 1440
            /\ Instants[1] \in Int /\ Instants[1] >= 0
        BY <4>1, Minutes
      <4> QED
        BY <2>1, <3>2, <4>1, <4>2 DEF Now, Instant
    <3> QED
      BY <2>1, <3>1, <3>2
  <2>3. running' = running /\ emitter' = emitter /\ lastOpening' = lastOpening
    BY <1>1 DEF TimePasses
  <2> QED
    BY <1>0, <2>2, <2>3 DEF TimerSafe
<1>2. CASE StartDaemon
  <2>1. day' = day /\ minute' = minute /\ lastOpening' = lastOpening /\ emitter'.check = Now
    BY <1>2 DEF StartDaemon, FreshEmitter
  <2> QED
    BY <1>0, <2>1 DEF TimerSafe, Now
<1>3. CASE Poll
  <2>1. /\ day' = day /\ minute' = minute /\ running
        /\ lastOpening' = IF OpensNow THEN Now ELSE lastOpening
        /\ emitter'.check = IF ChecksNow THEN Now ELSE CheckTimer
    BY <1>3 DEF Poll
  <2>2. Now' = Now
    BY <2>1 DEF Now
  <2> QED
    BY <1>0, <2>1, <2>2 DEF TimerSafe, CheckTimer
<1>4. CASE DaemonDies
  BY <1>4 DEF DaemonDies, TimerSafe, Now
<1>5. CASE BrokerDrops \/ HandleEvent \/ UNCHANGED dayVars
  <2>1. day' = day /\ minute' = minute /\ running' = running /\ emitter' = emitter
        /\ lastOpening' = lastOpening
    BY <1>5 DEF BrokerDrops, HandleEvent, dayVars
  <2> QED
    BY <2>1 DEF TimerSafe, Now
<1> QED
  BY <1>1, <1>2, <1>3, <1>4, <1>5 DEF DayNext

LEMMA TimerStart == DayInit => TimerSafe
BY DayAssumption DEF DayInit, TimerSafe

\* The opening keeps its quarter of an hour from the check that follows, for every
\* calendar, every set of observed minutes and however often the daemon dies and comes
\* back (daemon.py:_time_based_emitter).
THEOREM ChecksKeepTheirDistance == DaySpec => CheckKeepsItsDistance
<1>1. TimerSafe /\ [DayNext]_dayVars =>
          [lastCheck' # lastCheck /\ lastOpening' # Unset => Now - lastOpening' > 15]_dayVars
  <2> SUFFICES ASSUME TimerSafe, DayNext, lastCheck' # lastCheck, lastOpening' # Unset
               PROVE  Now - lastOpening' > 15
    OBVIOUS
  <2>1. Poll
    BY DEF DayNext, TimePasses, StartDaemon, DaemonDies, BrokerDrops, HandleEvent
  <2>2. ChecksNow /\ running /\ Now \in Int
    BY <2>1, NowIsInt DEF Poll
  <2>3. ~OpensNow
    BY <2>2 DEF ChecksNow, CheckTimer
  <2>4. lastOpening' = lastOpening /\ Now - emitter.check > 15
    BY <2>1, <2>2, <2>3 DEF Poll, ChecksNow, CheckTimer
  <2> QED
    BY <2>2, <2>4 DEF TimerSafe
<1> QED
  BY <1>1, TimerStart, TimerStep, PTL DEF DaySpec, CheckKeepsItsDistance

-----------------------------------------------------------------------------
(* Processes and the watchdog.                                             *)

Watch == [last : WatchdogAlerts, fails : 0..2, muted : Nat]

\* Each muted alert is one of the failures since the last alert that went out.
Counted == dog \in Watch /\ dog.muted <= dog.fails

LEMMA AlertCounts ==
    ASSUME NEW w \in Watch, w.muted <= w.fails, NEW alert \in WatchdogAlerts
    PROVE  Alerted(w, alert) \in Watch /\ Alerted(w, alert).muted <= Alerted(w, alert).fails
<1>0. w.last \in WatchdogAlerts /\ w.fails \in 0..2 /\ w.muted \in Nat
  BY DEF Watch
<1>1. CASE alert # w.last
  <2>1. Alerted(w, alert) = [last |-> alert, fails |-> 1, muted |-> 0]
    BY <1>1 DEF Alerted
  <2> QED
    BY <2>1 DEF Watch
<1>2. CASE alert = w.last /\ w.fails < 2
  <2>1. Alerted(w, alert) = [last |-> w.last, fails |-> w.fails + 1, muted |-> w.muted + 1]
    BY <1>2 DEF Alerted, Watch
  <2>2. w.fails + 1 \in 0..2 /\ w.muted + 1 \in Nat /\ w.muted + 1 <= w.fails + 1
    BY <1>0, <1>2
  <2> QED
    BY <1>0, <2>1, <2>2 DEF Watch
<1>3. CASE alert = w.last /\ ~(w.fails < 2)
  <2>1. Alerted(w, alert) = [last |-> w.last, fails |-> 0, muted |-> 0]
    BY <1>3 DEF Alerted, Watch
  <2> QED
    BY <1>0, <2>1 DEF Watch
<1> QED
  BY <1>1, <1>2, <1>3

\* One check of a cycle after another.
LEMMA SpikeCounts ==
    ASSUME NEW w \in Watch, w.muted <= w.fails
    PROVE  WithSpike(w) \in Watch /\ WithSpike(w).muted <= WithSpike(w).fails
BY AlertCounts DEF WithSpike, WatchdogAlerts

LEMMA FindingIsAlert == Finding \in WatchdogAlerts
BY DEF Finding, WatchdogAlerts

LEMMA CalmCounts == Calm \in Watch /\ Calm.muted <= Calm.fails
BY DEF Calm, Watch, WatchdogAlerts

LEMMA WatchStep ==
    ASSUME Counted, [ControlNext]_controlAll
    PROVE  Counted'
<1> USE DEF Counted
<1>1. CASE CheckHealthy
  BY <1>1, CalmCounts, SpikeCounts DEF CheckHealthy
<1>2. CASE CheckFailed \/ \E d \in Daemons : CheckDown(d)
  <2>1. dog' = WithSpike(Alerted(dog, Finding))
    BY <1>2 DEF CheckFailed, CheckDown
  <2> QED
    BY <2>1, FindingIsAlert, AlertCounts, SpikeCounts
<1>3. CASE dog' = dog
  BY <1>3
<1> QED
  BY <1>1, <1>2, <1>3
     DEF ControlNext, DaemonStep, UserStep, controlAll, controlVars, CheckRunning, StartHealth,
         EnterLoop, Heartbeat, WorkOnEvent, HandleEmergencyStop, NoticeStop, StopHealth, Break,
         Die, StartFromCli, StartFromDashboard, StopFromDashboard, RestartStop, RestartLaunch,
         Pause, Resume, EmergencyHalt, EmergencyMark, EmergencySignal, Age

\* However the findings of the watchdog alternate, at most two alerts in a row
\* are muted.
THEOREM TroubleIsHeard == ControlSpec => []NeverSilent
<1>1. ControlInit => Counted
  BY CalmCounts DEF ControlInit, Counted
<1>2. Counted => NeverSilent
  BY DEF Counted, Watch, NeverSilent
<1> QED
  BY <1>1, <1>2, WatchStep, PTL DEF ControlSpec

=============================================================================
