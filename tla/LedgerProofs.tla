---------------------------- MODULE LedgerProofs -----------------------------
(***************************************************************************)
(* Proofs about the rows of trades: what a person approved                 *)
(* (HumanApproval.tla), the rows against the broker's positions            *)
(* (Reconciliation.tla) and the orders worked until they fill              *)
(* (FillMonitor.tla), for any decisions, trades, contracts and orders.     *)
(*                                                                         *)
(* The types of an approval need OnRows: an executed row is a row.         *)
(* Consent travels with the call and with the event, so                    *)
(* NothingWithoutConsent needs to know what every call and every event in  *)
(* flight stands for (Consented), and OneRunPerApproval where the one run  *)
(* is that no row records yet (Accounted).  OneOpenRow is inductive once   *)
(* the rows have their types.                                              *)
(***************************************************************************)
EXTENDS HumanApproval, Reconciliation, FillMonitor, FiniteSetTheorems, TLAPS

-----------------------------------------------------------------------------
(* Approvals.                                                              *)

\* A call and an event are about a row that exists: what executes is on a row.
OnRows ==
    /\ \A r \in Requests : reqAt[r] # "idle" => reqFor[r] \in logged
    /\ \A e \in Events : evStatus[e] # "absent" => evFor[e] \in logged

\* Whoever is about to emit an event, and every event, speaks for a human.
Consented ==
    /\ \A r \in Requests : reqAt[r] = "committed" => reqFor[r] \in consented
    /\ \A e \in Events : evStatus[e] # "absent" => evFor[e] \in consented

\* The handler has succeeded and the row does not say so yet.
InDoubt(d) == stage = "ran" /\ answer = "ok" /\ d = Subject

\* A answer is held only between the handler and the row; every run is on the
\* row, in doubt, or was lost on the way.
Accounted ==
    /\ answer # "none" => stage = "ran"
    /\ stage = "ran" => Subject \notin executed
    /\ \A d \in Decisions :
           /\ runs[d] <= 1 + unsaved[d]
           /\ d \notin executed /\ ~InDoubt(d) => runs[d] <= unsaved[d]

-----------------------------------------------------------------------------
(* Types.                                                                  *)

LEMMA AnyDecisionIsOne == AnyDecision \in Decisions
BY SortAssumption DEF AnyDecision

LEMMA ApprovalTypeInit == Init => TypeOK
<1> SUFFICES ASSUME Init PROVE TypeOK
  OBVIOUS
<1>1. /\ sort \in [Decisions -> Sorts]
      /\ human \in [Decisions -> HumanDecision]
      /\ evStatus \in [Events -> {"absent", "pending", "processing", "completed", "failed"}]
      /\ stage \in Stages
      /\ reqAt \in [Requests -> {"idle", "checked", "committed", "rejecting"}]
  BY DEF Init, Sorts, HumanDecision, Nobody, Stages
<1>2. /\ reqFor \in [Requests -> Decisions]
      /\ evFor \in [Events -> Decisions]
  BY AnyDecisionIsOne DEF Init
<1>3. /\ runs \in [Decisions -> Nat]
      /\ reemits \in [Decisions -> Nat]
      /\ unsaved \in [Decisions -> Nat]
  BY DEF Init
<1> QED
  BY <1>1, <1>2, <1>3 DEF Init, TypeOK, NoEvent

\* A call that ends keeps its types.
LEMMA EndCallTypes ==
    ASSUME TypeOK, NEW r \in Requests, EndCall(r)
    PROVE  /\ reqAt' \in [Requests -> {"idle", "checked", "committed", "rejecting"}]
           /\ reqFor' \in [Requests -> Decisions]
BY AnyDecisionIsOne DEF TypeOK, EndCall

\* The event that is added was not there, so it is not the one in hand.
LEMMA NewEventTypes ==
    ASSUME TypeOK, NEW d \in Decisions, NewEvent(d), UNCHANGED hand
    PROVE  /\ evFor' \in [Events -> Decisions]
           /\ evStatus' \in [Events -> {"absent", "pending", "processing",
                                        "completed", "failed"}]
           /\ hand # NoEvent => evStatus'[hand] = "processing"
BY DEF TypeOK, NewEvent

\* Begin hands over one event; the types of what the handler returns.
LEMMA ApprovalTypeStep ==
    ASSUME TypeOK, OnRows, [Next]_vars
    PROVE  TypeOK'
<1> USE SortAssumption
    DEF TypeOK, rowVars, reqVars, evVars, runVars, histVars, countVars, Stages, HumanDecision
<1>1. CASE UNCHANGED vars
  BY <1>1 DEF vars
<1>2. ASSUME NEW d \in Decisions, Escalate(d) PROVE TypeOK'
  <2>1. sort' \in [Decisions -> Sorts]
    BY <1>2 DEF Escalate
  <2> QED
    BY <1>2, <2>1 DEF Escalate
<1>3. CASE Sweep
  <2>1. human' \in [Decisions -> HumanDecision]
    BY <1>3 DEF Sweep
  <2> QED
    BY <1>3, <2>1 DEF Sweep
<1>4. CASE RejectStale
  <2>1. human' \in [Decisions -> HumanDecision]
    BY <1>4 DEF RejectStale
  <2> QED
    BY <1>4, <2>1 DEF RejectStale
<1>5. ASSUME NEW t \in Trades, TradeCloses(t) PROVE TypeOK'
  BY <1>5 DEF TradeCloses
<1>6. ASSUME NEW r \in Requests, CallerStep(r) PROVE TypeOK'
  <2>1. ASSUME NEW d \in Decisions, ApproveCheck(r, d) \/ RejectCheck(r, d) PROVE TypeOK'
    BY <2>1 DEF ApproveCheck, RejectCheck
  <2>2. CASE CommitApproval(r)
    BY <2>2 DEF CommitApproval
  <2>3. CASE EmitApproval(r)
    <3>1. reqFor[r] \in Decisions
      OBVIOUS
    <3> HIDE DEF TypeOK
    <3>2. EndCall(r) /\ NewEvent(reqFor[r]) /\ UNCHANGED <<rowVars, runVars, histVars, countVars>>
      BY <2>3 DEF EmitApproval
    <3> QED
      BY <3>1, <3>2, EndCallTypes, NewEventTypes DEF TypeOK
  <2>4. CASE LoseRequest(r)
    BY <2>4, EndCallTypes DEF LoseRequest
  <2>5. CASE CommitRejection(r)
    BY <2>5, EndCallTypes DEF CommitRejection
  <2> QED
    BY <1>6, <2>1, <2>2, <2>3, <2>4, <2>5 DEF CallerStep
<1>7. CASE ApprovalStep
  <2>0. hand # NoEvent => Subject \in logged
    BY DEF Subject, OnRows
  <2>1. ASSUME NEW e \in Events, Begin(e) PROVE TypeOK'
    BY <2>1 DEF Begin, NoEvent, Events
  <2>2. CASE AlreadyExecuted
    BY <2>2 DEF AlreadyExecuted
  <2>3. CASE Acknowledge
    <3>1. Subject \in logged
      BY <2>0, <2>3 DEF Acknowledge
    <3>2. human' \in [Decisions -> HumanDecision]
      BY <2>3 DEF Acknowledge
    <3> QED
      BY <2>3, <3>1, <3>2 DEF Acknowledge
  <2>4. CASE ReEmit \/ MarkReEmitted
    BY <2>0, <2>4 DEF ReEmit, MarkReEmitted
  <2>5. CASE DismissClosed
    BY <2>0, <2>5 DEF DismissClosed
  <2>6. CASE RunHandler
    BY <2>0, <2>6 DEF RunHandler, HandlerReturns
  <2>7. CASE SaveResult
    <3>1. Subject \in logged
      BY <2>0, <2>7 DEF SaveResult
    <3> QED
      BY <2>7, <3>1 DEF SaveResult
  <2>8. CASE Complete
    BY <2>8 DEF Complete
  <2> QED
    BY <1>7, <2>1, <2>2, <2>3, <2>4, <2>5, <2>6, <2>7, <2>8 DEF ApprovalStep
<1>8. CASE Raise \/ Crash
  <2>1. unsaved' \in [Decisions -> Nat]
    BY <1>8 DEF Raise, Crash, LoseResult
  <2> QED
    BY <1>8, <2>1 DEF Raise, Crash
<1>9. CASE Restart
  <2>1. evStatus' \in [Events -> {"absent", "pending", "processing", "completed", "failed"}]
    BY <1>9 DEF Restart
  <2> QED
    BY <1>9, <2>1 DEF Restart
<1> QED
  BY <1>1, <1>2, <1>3, <1>4, <1>5, <1>6, <1>7, <1>8, <1>9 DEF Next

-----------------------------------------------------------------------------
(* The row, the consent and the run.                                       *)

LEMMA ApprovalInit == Init => OnRows /\ Consented /\ Accounted /\ NothingWithoutConsent
BY DEF Init, OnRows, Consented, Accounted, NothingWithoutConsent, InDoubt

\* Only a call that checked its row, or committed, leads on; only a committed
\* one adds an event.
LEMMA ConsentStep ==
    ASSUME TypeOK, OnRows, Consented, [Next]_vars
    PROVE  OnRows' /\ Consented'
<1> USE DEF TypeOK, OnRows, Consented, rowVars, reqVars, evVars, runVars, histVars, countVars
<1>1. CASE UNCHANGED vars
  BY <1>1 DEF vars
<1>2. ASSUME NEW d \in Decisions, Escalate(d) PROVE OnRows' /\ Consented'
  BY <1>2 DEF Escalate
<1>3. CASE Sweep \/ RejectStale \/ \E t \in Trades : TradeCloses(t)
  BY <1>3 DEF Sweep, RejectStale, TradeCloses
<1>4. ASSUME NEW r \in Requests, CallerStep(r) PROVE OnRows' /\ Consented'
  <2>1. ASSUME NEW d \in Decisions, ApproveCheck(r, d) \/ RejectCheck(r, d)
        PROVE  OnRows' /\ Consented'
    BY <2>1 DEF ApproveCheck, RejectCheck
  <2>2. CASE CommitApproval(r)
    BY <2>2 DEF CommitApproval
  <2>3. CASE EmitApproval(r)
    BY <2>3 DEF EmitApproval, EndCall, NewEvent
  <2>4. CASE LoseRequest(r) \/ CommitRejection(r)
    BY <2>4 DEF LoseRequest, CommitRejection, EndCall
  <2> QED
    BY <1>4, <2>1, <2>2, <2>3, <2>4 DEF CallerStep
<1>5. CASE ApprovalStep
  <2>1. UNCHANGED <<logged, reqAt, reqFor, evFor, consented>>
    BY <1>5 DEF ApprovalStep, Begin, AlreadyExecuted, Acknowledge, ReEmit, MarkReEmitted,
                DismissClosed, RunHandler, HandlerReturns, SaveResult, Complete
  <2>2. \A e \in Events : evStatus'[e] # "absent" => evStatus[e] # "absent"
    BY <1>5 DEF ApprovalStep, Begin, AlreadyExecuted, Acknowledge, ReEmit, MarkReEmitted,
                DismissClosed, RunHandler, HandlerReturns, SaveResult, Complete
  <2> QED
    BY <2>1, <2>2
<1>6. CASE Raise \/ Crash \/ Restart
  BY <1>6 DEF Raise, Crash, Restart
<1> QED
  BY <1>1, <1>2, <1>3, <1>4, <1>5, <1>6 DEF Next

\* The daemon counts a run, or emits again, for what it has in hand.
LEMMA EffectStep ==
    ASSUME TypeOK, Consented, NothingWithoutConsent, [Next]_vars
    PROVE  NothingWithoutConsent'
<1> USE DEF TypeOK, NothingWithoutConsent, rowVars, reqVars, evVars, runVars, histVars, countVars
<1>1. CASE ReEmit \/ RunHandler
  <2>1. Subject \in consented
    BY <1>1 DEF ReEmit, RunHandler, Consented, Subject, Stages, NoEvent
  <2>2. consented' = consented
    BY <1>1 DEF ReEmit, RunHandler, HandlerReturns
  <2>3. \A d \in Decisions : d # Subject => runs'[d] = runs[d] /\ reemits'[d] = reemits[d]
    BY <1>1 DEF ReEmit, RunHandler, HandlerReturns
  <2> QED
    BY <2>1, <2>2, <2>3
<1>2. CASE runs' = runs /\ reemits' = reemits /\ consented \subseteq consented'
  BY <1>2
<1>3. [Next]_vars /\ ~(ReEmit \/ RunHandler) =>
          runs' = runs /\ reemits' = reemits /\ consented \subseteq consented'
  BY DEF Next, vars, Escalate, Sweep, RejectStale, TradeCloses, CallerStep, ApproveCheck,
         RejectCheck, CommitApproval, EmitApproval, LoseRequest, CommitRejection,
         ApprovalStep, Begin, AlreadyExecuted, Acknowledge, MarkReEmitted, DismissClosed,
         SaveResult, Complete, Raise, Crash, Restart
<1> QED
  BY <1>1, <1>2, <1>3

\* An event that is added is not the one in hand.
LEMMA SubjectIsHeld ==
    ASSUME TypeOK, stage = "ran", NEW r \in Requests, CallerStep(r)
    PROVE  Subject' = Subject
<1> USE DEF TypeOK
<1>1. hand \in Events /\ evStatus[hand] = "processing"
  OBVIOUS
<1>2. CASE EmitApproval(r)
  <2>1. hand' = hand /\ NewEvent(reqFor[r])
    BY <1>2 DEF EmitApproval, runVars
  <2>2. evFor'[hand] = evFor[hand]
    BY <1>1, <2>1 DEF NewEvent
  <2> QED
    BY <2>1, <2>2 DEF Subject
<1>3. CASE ~EmitApproval(r)
  BY <1>3 DEF CallerStep, ApproveCheck, RejectCheck, CommitApproval, LoseRequest,
              CommitRejection, runVars, evVars, Subject
<1> QED
  BY <1>2, <1>3

\* The only step from "begun" that runs is on a row that does not say executed;
\* the next one writes it there, and whatever forgets it counts it as unsaved.
LEMMA AccountedStep ==
    ASSUME TypeOK, Accounted, [Next]_vars
    PROVE  Accounted'
<1> USE DEF TypeOK, Accounted, InDoubt, rowVars, reqVars, evVars, runVars, histVars, countVars
<1>0. ASSUME UNCHANGED <<stage, answer, executed, runs, unsaved>>,
             stage = "ran" => Subject' = Subject
      PROVE  Accounted'
  BY <1>0
<1>1. CASE UNCHANGED vars
  BY <1>0, <1>1 DEF vars, Subject
<1>2. CASE Sweep \/ RejectStale \/ (\E d \in Decisions : Escalate(d))
             \/ (\E t \in Trades : TradeCloses(t))
  <2>1. UNCHANGED <<stage, answer, executed, runs, unsaved, hand, evFor>>
    BY <1>2 DEF Sweep, RejectStale, Escalate, TradeCloses
  <2> QED
    BY <1>0, <2>1 DEF Subject
<1>3. ASSUME NEW r \in Requests, CallerStep(r) PROVE Accounted'
  <2>1. UNCHANGED <<stage, answer, executed, runs, unsaved>>
    BY <1>3 DEF CallerStep, ApproveCheck, RejectCheck, CommitApproval, EmitApproval,
                LoseRequest, CommitRejection
  <2> QED
    BY <1>0, <1>3, <2>1, SubjectIsHeld
<1>4. CASE ApprovalStep
  <2>1. ASSUME UNCHANGED <<answer, runs, unsaved>>, stage # "ran", stage' # "ran",
               executed \subseteq executed'
        PROVE  Accounted'
    BY <2>1
  <2>2. CASE \/ \E e \in Events : Begin(e)
             \/ AlreadyExecuted \/ Acknowledge \/ ReEmit \/ MarkReEmitted
             \/ DismissClosed \/ Complete
    BY <2>1, <2>2 DEF Begin, AlreadyExecuted, Acknowledge, ReEmit, MarkReEmitted,
                      DismissClosed, Complete
  <2>3. CASE RunHandler
    <3>1. /\ Subject' = Subject /\ Subject \notin executed /\ Subject \in Decisions
          /\ executed' = executed /\ unsaved' = unsaved /\ stage' = "ran" /\ stage = "begun"
      BY <2>3 DEF RunHandler, HandlerReturns, Subject, Stages, NoEvent
    <3>2. CASE answer' = "ok" /\ runs' = [runs EXCEPT ![Subject] = @ + 1]
      <4>1. runs[Subject] <= unsaved[Subject] /\ runs'[Subject] = runs[Subject] + 1
        BY <3>1, <3>2
      <4>2. \A d \in Decisions : d # Subject => runs'[d] = runs[d]
        BY <3>1, <3>2
      <4>3. \A d \in Decisions : d # Subject => ~InDoubt(d) /\ ~InDoubt(d)'
        BY <3>1
      <4> QED
        BY <3>1, <3>2, <4>1, <4>2, <4>3
    <3>3. CASE answer' = "failed" /\ runs' = runs
      BY <3>1, <3>3
    <3> QED
      BY <2>3, <3>2, <3>3 DEF RunHandler, HandlerReturns
  <2>4. CASE SaveResult
    <3>1. /\ answer' = "none" /\ stage' = "saved" /\ stage = "ran"
          /\ runs' = runs /\ unsaved' = unsaved
          /\ executed' = IF answer = "ok" THEN executed \cup {Subject}
                         ELSE executed \ {Subject}
      BY <2>4 DEF SaveResult
    <3>2. ASSUME NEW d \in Decisions, d \notin executed' PROVE runs[d] <= unsaved[d]
      BY <3>1, <3>2
    <3> QED
      BY <3>1, <3>2
  <2> QED
    BY <1>4, <2>2, <2>3, <2>4 DEF ApprovalStep
<1>5. CASE Raise \/ Crash
  <2>1. /\ answer' = "none" /\ stage' # "ran" /\ executed' = executed /\ runs' = runs
        /\ LoseResult
    BY <1>5 DEF Raise, Crash
  <2>2. CASE answer = "ok"
    <3>1. Subject \in Decisions /\ stage = "ran"
      BY <2>2 DEF Subject, Stages, NoEvent
    <3>2. unsaved' = [unsaved EXCEPT ![Subject] = @ + 1]
      BY <2>1, <2>2 DEF LoseResult
    <3>3. \A d \in Decisions : d # Subject => unsaved'[d] = unsaved[d] /\ ~InDoubt(d)
      BY <3>2
    <3>4. unsaved'[Subject] = unsaved[Subject] + 1
      BY <3>1, <3>2
    <3>5. runs[Subject] <= 1 + unsaved[Subject]
      BY <3>1
    <3> QED
      BY <2>1, <3>1, <3>3, <3>4, <3>5
  <2>3. CASE answer # "ok"
    BY <2>1, <2>3 DEF LoseResult
  <2> QED
    BY <2>2, <2>3
<1>6. CASE Restart
  BY <1>6 DEF Restart
<1> QED
  BY <1>1, <1>2, <1>3, <1>4, <1>5, <1>6 DEF Next

\* Rows, calls, events and the daemon keep their types, and what is executed is
\* a row.
THEOREM ApprovalTypeCorrect == Spec => []TypeOK
<1>1. TypeOK /\ OnRows /\ Consented /\ [Next]_vars => (TypeOK /\ OnRows /\ Consented)'
  BY ApprovalTypeStep, ConsentStep
<1> QED
  BY ApprovalTypeInit, ApprovalInit, <1>1, PTL DEF Spec

\* No decision that waited for a human is executed, or sent on with the guardrail
\* override, before an approval of it is committed: for any callers, crashes and
\* replays of events.
THEOREM ConsentComesFirst == Spec => []NothingWithoutConsent
<1> DEFINE IInv == TypeOK /\ OnRows /\ Consented /\ NothingWithoutConsent
<1>1. Init => IInv
  BY ApprovalTypeInit, ApprovalInit
<1>2. IInv /\ [Next]_vars => IInv'
  BY ApprovalTypeStep, ConsentStep, EffectStep
<1> QED
  BY <1>1, <1>2, PTL DEF Spec

\* However often a decision is approved, by however many callers, its handler
\* succeeds once, and once more for each success a crash or a failed commit kept
\* off the row.
THEOREM OneRunEach == Spec => []OneRunPerApproval
<1> DEFINE IInv == TypeOK /\ OnRows /\ Consented /\ Accounted
<1>1. Init => IInv
  BY ApprovalTypeInit, ApprovalInit
<1>2. IInv /\ [Next]_vars => IInv'
  BY ApprovalTypeStep, ConsentStep, AccountedStep
<1>3. IInv => OneRunPerApproval
  BY DEF Accounted, OneRunPerApproval
<1> QED
  BY <1>1, <1>2, <1>3, PTL DEF Spec

-----------------------------------------------------------------------------
(* Rows and positions.                                                     *)

LEMMA PutOfId == \A i \in Ids : Put(i) \in Puts /\ SymbolOf[Put(i)] \in Symbols
BY DEF Ids, Put, Symbols

\* What the reconciliation writes are rows again.
LEMMA RowShapes ==
    ASSUME BookTypeOK
    PROVE  /\ ExpiredClosed(trades) \in [Ids -> Row]
           /\ \A is : AssignedClosed(trades, is) \in [Ids -> Row]
<1>1. ExpiredClosed(trades) \in [Ids -> Row]
  BY DEF BookTypeOK, ExpiredClosed, Row, Closed
<1>2. \A is : AssignedClosed(trades, is) \in [Ids -> Row]
  BY DEF BookTypeOK, AssignedClosed, Row, Closed
<1> QED
  BY <1>1, <1>2

\* Whoever is about to write a row of a contract found no open one, and none
\* came to be since, unless two were at it.
Clear ==
    \A c \in Puts \ raced :
        c \in sent \/ InHand(c) # {} => \A i \in Open(trades) : Put(i) # c

Apart == OneOpenRow /\ Clear

\* Nobody takes a row in hand, and what was noted of races stays.
NothingTaken ==
    /\ raced \subseteq raced' /\ sent' \subseteq sent
    /\ \A m \in Importers : sought'[m] \subseteq sought[m]

\* Rows that are only closed, or corrected, leave each contract with the open
\* row it had.
LEMMA ClosingKeepsOne ==
    ASSUME Apart, NothingTaken,
           \A i \in Ids : trades'[i].state = "open" => trades[i].state = "open"
    PROVE  Apart'
<1>1. Open(trades)' \subseteq Open(trades) /\ \A c : InHand(c)' \subseteq InHand(c)
  BY DEF NothingTaken, Open, InHand
<1>2. OneOpenRow'
  BY <1>1 DEF Apart, OneOpenRow, NothingTaken
<1>3. Clear'
  BY <1>1 DEF Apart, Clear, NothingTaken
<1> QED
  BY <1>2, <1>3 DEF Apart

\* A row is opened for a contract that has no other open one, and nobody else is
\* about to write one, unless a race is noted.
LEMMA OpeningKeepsOne ==
    ASSUME Apart, NothingTaken, NEW c \in Puts, NEW i \in Ids, Put(i) = c,
           \A j \in Ids : j # i => trades'[j].state = trades[j].state,
           c \notin raced' => /\ c \notin sent' /\ InHand(c)' = {}
                              /\ \A j \in Open(trades) : Put(j) = c => j = i
    PROVE  Apart'
<1>1. Open(trades)' \subseteq Open(trades) \cup {i} /\ \A d : InHand(d)' \subseteq InHand(d)
  BY DEF NothingTaken, Open, InHand
<1>2. OneOpenRow'
  BY <1>1 DEF Apart, OneOpenRow, NothingTaken
<1>3. Clear'
  BY <1>1 DEF Apart, Clear, NothingTaken
<1> QED
  BY <1>2, <1>3 DEF Apart

\* A row is taken in hand of a contract that has no open one.
LEMMA TakingKeepsOne ==
    ASSUME Apart, NEW c \in Puts, UNCHANGED <<trades, raced>>,
           \A d \in Puts \ {c} : /\ d \in sent' => d \in sent
                                 /\ InHand(d)' \subseteq InHand(d),
           \A i \in Open(trades) : Put(i) # c
    PROVE  Apart'
BY DEF Apart, OneOpenRow, Clear, Open

LEMMA HandTyped ==
    ASSUME BookTypeOK, NEW m \in Importers, NEW w \in sought[m]
    PROVE  w.id \in Ids /\ w.lots \in 0..MaxLots /\ Put(w.id) \in Puts
BY PutOfId DEF BookTypeOK, Finds

\* A row is written.
LEMMA EnterShape ==
    ASSUME BookTypeOK, NEW i \in Ids, NEW lots \in 0..MaxLots, Enter(i, lots)
    PROVE  /\ trades' \in [Ids -> Row] /\ today' \subseteq Ids /\ entries' \in Nat
           /\ \A j \in Ids : j # i => trades'[j] = trades[j]
<1>1. PICK r : r = [state |-> "open", lots |-> lots, entry |-> entries + 1]
  OBVIOUS
<1>2. entries \in Nat
  BY DEF BookTypeOK
<1>3. r \in Row
  BY <1>1, <1>2 DEF Row
<1> QED
  BY <1>1, <1>2, <1>3 DEF Enter, BookTypeOK

LEMMA LookUpKeeps ==
    ASSUME BookTypeOK, Apart, NEW m \in Importers, NEW c \in Puts, LookUp(m, c)
    PROVE  BookTypeOK' /\ Apart'
<1>1. listed' \in [Importers -> [Puts -> 0..MaxLots]] /\ listed[m][c] \in 0..MaxLots
  <2>1. listed[m] \in [Puts -> 0..MaxLots]
    BY DEF BookTypeOK
  <2>2. [listed[m] EXCEPT ![c] = 0] \in [Puts -> 0..MaxLots]
    BY <2>1, BookBounds
  <2> QED
    BY <2>1, <2>2 DEF LookUp, BookTypeOK
<1>2. CASE Match(trades, c) # {}
  <2>1. PICK i \in Match(trades, c) :
            trades' = [trades EXCEPT ![i] = [@ EXCEPT !.state = "open", !.lots = listed[m][c]]]
    BY <1>2 DEF LookUp
  <2>2. /\ NoteRace(c, {m}, FALSE)
        /\ UNCHANGED <<Outside, today, stock, sent, sought, report, entries, events>>
    BY <1>2 DEF LookUp
  <2>3. i \in Ids /\ Put(i) = c
    BY <2>1 DEF Match, Open
  <2>4. trades' \in [Ids -> Row] /\ \A j \in Ids : j # i => trades'[j].state = trades[j].state
    BY <1>1, <2>1, <2>3 DEF BookTypeOK, Row
  <2>5. NothingTaken
    BY <2>2 DEF NothingTaken, NoteRace
  <2>6. ASSUME c \notin raced'
        PROVE  /\ c \notin sent' /\ InHand(c)' = {}
               /\ \A j \in Open(trades) : Put(j) = c => j = i
    <3>1. InHand(c) \subseteq {m} /\ c \notin sent /\ c \notin raced
      BY <2>2, <2>6 DEF NoteRace
    <3>2. InHand(c)' = InHand(c) /\ m \notin InHand(c)
      BY <2>2 DEF InHand, LookUp
    <3>3. \A j \in Open(trades) : Put(j) = c => j = i
      BY <2>1, <3>1 DEF Match, Open, Apart, OneOpenRow
    <3> QED
      BY <2>2, <3>1, <3>2, <3>3
  <2>7. Apart'
    BY <2>3, <2>4, <2>5, <2>6, OpeningKeepsOne
  <2>8. raced' \subseteq Puts
    BY <2>2 DEF NoteRace, BookTypeOK
  <2> QED
    BY <1>1, <2>2, <2>4, <2>7, <2>8 DEF BookTypeOK, Outside, brokerVars
<1>3. CASE Match(trades, c) = {}
  <2> DEFINE w == [id |-> <<c, "imported">>, lots |-> listed[m][c]]
  <2>1. /\ sought' = [sought EXCEPT ![m] = {w}]
        /\ UNCHANGED <<Outside, trades, raced, today, stock, sent, report, entries, events>>
    BY <1>3 DEF LookUp
  <2>2. w \in Finds /\ Put(w.id) = c
    BY <1>1 DEF Finds, Ids, Kinds, Put
  <2>3. sought' \in [Importers -> SUBSET Finds]
    BY <2>1, <2>2 DEF BookTypeOK
  <2>4. \A d \in Puts \ {c} : InHand(d)' \subseteq InHand(d)
    <3> HIDE DEF w
    <3> QED
      BY <2>1, <2>2 DEF InHand, BookTypeOK
  <2>5. \A i \in Open(trades) : Put(i) # c
    BY <1>3 DEF Match, Open
  <2>6. Apart'
    BY <2>1, <2>4, <2>5, TakingKeepsOne
  <2> QED
    BY <1>1, <2>1, <2>3, <2>6 DEF BookTypeOK, Outside, brokerVars
<1> QED
  BY <1>2, <1>3

LEMMA InsertKeeps ==
    ASSUME BookTypeOK, Apart, NEW m \in Importers, Insert(m)
    PROVE  BookTypeOK' /\ Apart'
<1>1. /\ sought' = [sought EXCEPT ![m] = {}]
      /\ UNCHANGED <<Outside, stock, sent, listed, report, events>>
  BY DEF Insert
<1>2. sought' \in [Importers -> SUBSET Finds] /\ \A n \in Importers : sought'[n] \subseteq sought[n]
  BY <1>1 DEF BookTypeOK
<1>3. PICK w \in sought[m] :
          \/ /\ trades[w.id].state = "none"
             /\ Enter(w.id, w.lots) /\ NoteRace(Put(w.id), {m}, FALSE)
          \/ UNCHANGED <<trades, today, entries, raced>>
  BY DEF Insert
<1>4. CASE UNCHANGED <<trades, today, entries, raced>>
  <2>1. Apart'
    BY <1>1, <1>2, <1>4, ClosingKeepsOne DEF NothingTaken
  <2> QED
    BY <1>1, <1>2, <1>4, <2>1 DEF BookTypeOK, Outside, brokerVars
<1>5. CASE Enter(w.id, w.lots) /\ NoteRace(Put(w.id), {m}, FALSE)
  <2>1. PICK i, c, lots : i = w.id /\ c = Put(w.id) /\ lots = w.lots
    OBVIOUS
  <2>2. i \in Ids /\ c \in Puts /\ Put(i) = c /\ lots \in 0..MaxLots /\ m \in InHand(c)
    BY <2>1, HandTyped DEF InHand
  <2>3. /\ trades' \in [Ids -> Row] /\ today' \subseteq Ids /\ entries' \in Nat
        /\ \A j \in Ids : j # i => trades'[j] = trades[j]
    BY <1>5, <2>1, <2>2, EnterShape
  <2>4. NothingTaken /\ raced' \subseteq Puts
    BY <1>1, <1>2, <1>5, <2>1, <2>2 DEF NothingTaken, NoteRace, BookTypeOK
  <2>5. ASSUME c \notin raced'
        PROVE  /\ c \notin sent' /\ InHand(c)' = {}
               /\ \A j \in Open(trades) : Put(j) = c => j = i
    <3>1. InHand(c) \subseteq {m} /\ c \notin sent /\ c \notin raced
      BY <1>5, <2>1, <2>5 DEF NoteRace
    <3>2. InHand(c)' \subseteq InHand(c) /\ m \notin InHand(c)'
      BY <1>1, <1>2 DEF InHand, BookTypeOK
    <3>3. \A j \in Open(trades) : Put(j) # c
      BY <2>2, <3>1 DEF Apart, Clear
    <3> QED
      BY <1>1, <3>1, <3>2, <3>3
  <2>6. Apart'
    BY <2>2, <2>3, <2>4, <2>5, OpeningKeepsOne
  <2> QED
    BY <1>1, <1>2, <2>3, <2>4, <2>6 DEF BookTypeOK, Outside, brokerVars
<1> QED
  BY <1>3, <1>4, <1>5

LEMMA SaveKeeps ==
    ASSUME BookTypeOK, Apart, NEW c \in Puts, SaveSale(c)
    PROVE  BookTypeOK' /\ Apart'
<1>1. PICK i : i = <<c, "placed">>
  OBVIOUS
<1>2. /\ c \in sent /\ sent' = sent \ {c} /\ Enter(i, 1) /\ NoteRace(c, {}, TRUE)
      /\ UNCHANGED <<Outside, stock, listed, sought, report, events>>
  BY <1>1 DEF SaveSale
<1>3. i \in Ids /\ Put(i) = c /\ 1 \in 0..MaxLots
  BY <1>1, BookBounds DEF Ids, Kinds, Put
<1>4. /\ trades' \in [Ids -> Row] /\ today' \subseteq Ids /\ entries' \in Nat
      /\ \A j \in Ids : j # i => trades'[j] = trades[j]
  BY <1>2, <1>3, EnterShape
<1>5. NothingTaken /\ raced' \subseteq Puts
  BY <1>2 DEF NothingTaken, NoteRace, BookTypeOK
<1>6. ASSUME c \notin raced'
      PROVE  /\ c \notin sent' /\ InHand(c)' = {}
             /\ \A j \in Open(trades) : Put(j) = c => j = i
  <2>1. InHand(c) = {} /\ c \notin raced
    BY <1>2, <1>6 DEF NoteRace
  <2>2. InHand(c)' = InHand(c)
    BY <1>2 DEF InHand
  <2> QED
    BY <1>2, <2>1, <2>2 DEF Apart, Clear
<1>7. Apart'
  BY <1>3, <1>4, <1>5, <1>6, OpeningKeepsOne
<1> QED
  BY <1>2, <1>4, <1>5, <1>7 DEF BookTypeOK, Outside, brokerVars

\* An orphan order, and a put that is sold, have no open row yet.
LEMMA TakeKeeps ==
    ASSUME BookTypeOK, Apart,
           \/ \E m \in Importers, o \in orders : SyncOrders(m, o)
           \/ \E c \in Puts : Sell(c)
    PROVE  BookTypeOK' /\ Apart'
<1>1. ASSUME NEW m \in Importers, NEW o \in orders, SyncOrders(m, o)
      PROVE  BookTypeOK' /\ Apart'
  <2> DEFINE w == [id |-> o, lots |-> 1]
  <2>1. /\ sought' = [sought EXCEPT ![m] = {w}] /\ Match(trades, o[1]) = {}
        /\ UNCHANGED <<Outside, trades, today, stock, sent, listed, raced, report, entries, events>>
    BY <1>1 DEF SyncOrders, Orphan
  <2>2. o[1] \in Puts /\ Put(w.id) = o[1] /\ w \in Finds
    BY BookBounds DEF BookTypeOK, Finds, Ids, Kinds, Put
  <2>3. sought' \in [Importers -> SUBSET Finds]
    BY <2>1, <2>2 DEF BookTypeOK
  <2>4. \A d \in Puts \ {o[1]} : InHand(d)' \subseteq InHand(d)
    <3> HIDE DEF w
    <3> QED
      BY <2>1, <2>2 DEF InHand, BookTypeOK
  <2>5. \A i \in Open(trades) : Put(i) # o[1]
    BY <2>1 DEF Match, Open
  <2>6. Apart'
    BY <2>1, <2>2, <2>4, <2>5, TakingKeepsOne
  <2> QED
    BY <2>1, <2>3, <2>6 DEF BookTypeOK, Outside, brokerVars
<1>2. ASSUME NEW c \in Puts, Sell(c)
      PROVE  BookTypeOK' /\ Apart'
  <2>1. /\ sent' = sent \cup {c} /\ held' = [held EXCEPT ![c] = 1]
        /\ orders' = orders \cup {<<c, "sell">>} /\ events < MaxEvents /\ events' = events + 1
        /\ UNCHANGED <<term, assigned, shares, trades, today, stock, listed, sought, raced,
                       report, alerted, entries>>
        /\ \A j \in Ids : Put(j) = c => trades[j].state # "open"
    BY <1>2 DEF Sell, Event
  <2>2. held' \in [Puts -> 0..MaxLots] /\ orders' \subseteq Puts \X Sides
    BY <2>1, BookBounds DEF BookTypeOK, Sides
  <2>3. events' \in 0..MaxEvents
    BY <2>1, BookBounds DEF BookTypeOK
  <2>4. \A d \in Puts \ {c} : InHand(d)' \subseteq InHand(d) /\ (d \in sent' => d \in sent)
    BY <2>1 DEF InHand
  <2>5. Apart'
    BY <2>1, <2>4, TakingKeepsOne DEF Open
  <2> QED
    BY <2>1, <2>2, <2>3, <2>5 DEF BookTypeOK
<1> QED
  BY <1>1, <1>2

\* What the others write keeps the types and opens no second row.
LEMMA BookStep ==
    ASSUME BookTypeOK, Apart, [BookNext]_bookVars
    PROVE  BookTypeOK' /\ Apart'
<1> USE DEF brokerVars, Booked, Outside, writeVars
<1>1. ASSUME NEW c \in Puts,
             SellOutside(c) \/ BuyBack(c) \/ Assign(c) \/ Lapse(c) \/ Expire(c)
      PROVE  BookTypeOK' /\ Apart'
  <2>1. UNCHANGED Booked
    BY <1>1 DEF SellOutside, BuyBack, Assign, Lapse, Expire
  <2>2. shares' \in [Symbols -> Nat] /\ held' \in [Puts -> 0..MaxLots]
    BY <1>1, BookBounds DEF SellOutside, BuyBack, Assign, Lapse, Expire, BookTypeOK, Symbols
  <2>3. events' \in 0..MaxEvents
    BY <1>1, BookBounds DEF SellOutside, BuyBack, Assign, Lapse, Expire, BookTypeOK, Event
  <2>4. /\ term' \in [Puts -> {"before", "on", "past"}] /\ assigned' \subseteq Puts
        /\ orders' \subseteq Puts \X Sides
    BY <1>1 DEF SellOutside, BuyBack, Assign, Lapse, Expire, BookTypeOK, Sides
  <2>5. BookTypeOK'
    BY <2>1, <2>2, <2>3, <2>4 DEF BookTypeOK
  <2>6. Apart'
    BY <2>1, ClosingKeepsOne DEF NothingTaken
  <2> QED
    BY <2>5, <2>6
<1>2. CASE NextDay \/ \E s \in Symbols : SellStock(s)
  <2>1. /\ UNCHANGED <<held, assigned, trades, stock, writeVars, report, alerted, entries>>
        /\ shares' \in [Symbols -> Nat] /\ today' \subseteq Ids
        /\ term' \in [Puts -> {"before", "on", "past"}]
        /\ orders' \subseteq Puts \X Sides
    BY <1>2 DEF NextDay, SellStock, BookTypeOK
  <2>2. events' \in 0..MaxEvents
    BY <1>2, BookBounds DEF NextDay, SellStock, BookTypeOK, Event
  <2>3. BookTypeOK'
    BY <2>1, <2>2 DEF BookTypeOK
  <2>4. Apart'
    BY <2>1, ClosingKeepsOne DEF NothingTaken
  <2> QED
    BY <2>3, <2>4
<1>3. ASSUME NEW m \in Importers, NEW c \in Puts, LookUp(m, c)
      PROVE  BookTypeOK' /\ Apart'
  BY <1>3, LookUpKeeps
<1>4. ASSUME NEW m \in Importers, Insert(m)
      PROVE  BookTypeOK' /\ Apart'
  BY <1>4, InsertKeeps
<1>5. ASSUME NEW c \in Puts, SaveSale(c)
      PROVE  BookTypeOK' /\ Apart'
  BY <1>5, SaveKeeps
<1>6. ASSUME UNCHANGED <<brokerVars, today, entries, raced>>,
             trades' \in [Ids -> Row],
             \A i \in Ids : trades'[i].state = "open" => trades[i].state = "open",
             stock' \in [Ids -> StockStates],
             report' \in Findings,
             alerted' \subseteq Symbols,
             events' \in 0..MaxEvents,
             sent' \subseteq sent,
             listed' \in [Importers -> [Puts -> 0..MaxLots]],
             sought' \in [Importers -> SUBSET Finds],
             \A m \in Importers : sought'[m] \subseteq sought[m]
      PROVE  BookTypeOK' /\ Apart'
  <2>1. Apart'
    BY <1>6, ClosingKeepsOne DEF NothingTaken
  <2>2. BookTypeOK'
    BY <1>6 DEF BookTypeOK
  <2> QED
    BY <2>1, <2>2
<1>7. CASE SweepExpired
  <2>1. /\ trades' \in [Ids -> Row]
        /\ \A i \in Ids : trades'[i].state = "open" => trades[i].state = "open"
    BY <1>7 DEF SweepExpired, BookTypeOK, Row, Closed
  <2>2. /\ report' = NoReport
        /\ UNCHANGED <<brokerVars, today, entries, stock, alerted, writeVars, events>>
    BY <1>7 DEF SweepExpired
  <2> QED
    BY <1>6, <2>1, <2>2 DEF BookTypeOK, NoReport, Findings
<1>8. ASSUME NEW sold \in BOOLEAN, Reconcile(sold) \/ ReconcileElsewhere(sold)
      PROVE  BookTypeOK' /\ Apart'
  <2>1. /\ trades' = ExpiredClosed(trades) /\ stock' = StockClosed(sold)
        /\ UNCHANGED <<brokerVars, today, entries, alerted, writeVars, events>>
    BY <1>8 DEF Reconcile, ReconcileElsewhere
  <2>2. /\ trades' \in [Ids -> Row]
        /\ \A i \in Ids : trades'[i].state = "open" => trades[i].state = "open"
    BY <2>1, RowShapes DEF ExpiredClosed
  <2>3. stock' \in [Ids -> StockStates]
    BY <2>1 DEF BookTypeOK, StockClosed, WithoutStock, StockStates
  <2>4. report' \in Findings
    <3>1. MissingIn(trades) \subseteq Puts /\ Assignments(trades) \subseteq Ids
      BY DEF MissingIn, HeldPuts, Assignments, Open
    <3> QED
      BY <1>8, <3>1 DEF Reconcile, ReconcileElsewhere, BookTypeOK, Findings
  <2> QED
    BY <1>6, <2>1, <2>2, <2>3, <2>4 DEF BookTypeOK
<1>9. CASE BeginImport \/ ImportDone \/ ImportElsewhere \/ RestartDaemon
  <2>1. UNCHANGED <<brokerVars, today, entries, trades, stock, sent, raced>>
    BY <1>9 DEF BeginImport, ImportDone, ImportElsewhere, RestartDaemon
  <2>2. events' \in 0..MaxEvents /\ alerted' \subseteq Symbols
    BY <1>9, BookBounds
       DEF BeginImport, ImportDone, ImportElsewhere, RestartDaemon, BookTypeOK, Event
  <2>3. \/ report' = report
        \/ \E p \in {"importing", "assign"} : report' = [report EXCEPT !.phase = p]
        \/ report' = [NoReport EXCEPT !.phase = "sweep"]
    BY <1>9 DEF BeginImport, ImportDone, ImportElsewhere, RestartDaemon
  <2>4. report' \in Findings
    BY <2>3 DEF BookTypeOK, NoReport, Findings
  <2>5. listed' \in [Importers -> [Puts -> 0..MaxLots]]
    <3>1. Lacking \in [Puts -> 0..MaxLots] /\ NothingListed \in [Puts -> 0..MaxLots]
      BY BookBounds DEF Lacking, NothingListed, BookTypeOK
    <3>2. \/ listed' = listed
          \/ \E m \in Importers : listed' = [listed EXCEPT ![m] = Lacking]
          \/ listed' = [listed EXCEPT !["daemon"] = NothingListed]
      BY <1>9 DEF BeginImport, ImportDone, ImportElsewhere, RestartDaemon, Importers
    <3> QED
      BY <3>1, <3>2 DEF BookTypeOK
  <2>6. /\ sought' \in [Importers -> SUBSET Finds]
        /\ \A m \in Importers : sought'[m] \subseteq sought[m]
    BY <1>9 DEF BeginImport, ImportDone, ImportElsewhere, RestartDaemon, BookTypeOK
  <2> QED
    BY <1>6, <2>1, <2>2, <2>4, <2>5, <2>6 DEF BookTypeOK
<1>10. CASE ProcessAssignments \/ \E s \in Symbols : Detect(s)
  <2>1. PICK is : trades' = AssignedClosed(trades, is)
    BY <1>10 DEF ProcessAssignments, Detect
  <2>2. /\ trades' \in [Ids -> Row]
        /\ \A i \in Ids : trades'[i].state = "open" => trades[i].state = "open"
    BY <2>1, RowShapes DEF AssignedClosed
  <2>3. stock' \in [Ids -> StockStates]
    BY <1>10 DEF ProcessAssignments, Detect, BookTypeOK, WithStock, StockStates
  <2>4. report' \in Findings
    BY <1>10 DEF ProcessAssignments, Detect, BookTypeOK, NoReport, Findings
  <2>5. /\ alerted' \subseteq Symbols
        /\ UNCHANGED <<brokerVars, today, entries, writeVars, events>>
    BY <1>10 DEF ProcessAssignments, Detect, BookTypeOK
  <2> QED
    BY <1>6, <2>2, <2>3, <2>4, <2>5 DEF BookTypeOK
<1>11. CASE FixFromCli
  <2>1. /\ trades' \in [Ids -> Row]
        /\ \A i \in Ids : trades'[i].state = "open" => trades[i].state = "open"
    <3> DEFINE ev == Assignments(trades)
               others == Open(trades) \ ev
               bought == [i \in Ids |-> IF i \in BoughtBack(others)
                                        THEN [trades[i] EXCEPT !.state = "bought"] ELSE trades[i]]
               fixed == WithLots(bought, others)
    <3>1. trades' = AssignedClosed(fixed, ev)
      BY <1>11 DEF FixFromCli
    <3>4. /\ bought \in [Ids -> Row]
          /\ \A i \in Ids : bought[i].state = "open" => trades[i].state = "open"
      BY DEF BookTypeOK, Row, Closed
    <3> HIDE DEF bought, others
    <3>2. /\ fixed \in [Ids -> Row]
          /\ \A i \in Ids : fixed[i].state = "open" => trades[i].state = "open"
      <4>1. \A i \in Ids : held[Put(i)] \in 0..MaxLots
        BY PutOfId DEF BookTypeOK
      <4>2. ASSUME NEW i \in Ids
            PROVE  fixed[i] \in Row /\ fixed[i].state = bought[i].state
        <5>1. fixed[i] = IF i \in others /\ held[Put(i)] > 0
                         THEN [bought[i] EXCEPT !.lots = held[Put(i)]] ELSE bought[i]
          BY DEF WithLots
        <5>2. bought[i] \in Row /\ held[Put(i)] \in 0..MaxLots
          BY <3>4, <4>1
        <5> HIDE DEF fixed
        <5> QED
          BY <5>1, <5>2 DEF Row
      <4>3. fixed = [i \in Ids |-> fixed[i]]
        BY DEF WithLots
      <4> HIDE DEF fixed
      <4> QED
        BY <3>4, <4>2, <4>3
    <3> HIDE DEF fixed, ev
    <3>3. /\ AssignedClosed(fixed, ev) \in [Ids -> Row]
          /\ \A i \in Ids : AssignedClosed(fixed, ev)[i].state = "open" => fixed[i].state = "open"
      BY <3>2 DEF AssignedClosed, Row, Closed
    <3> QED
      BY <3>1, <3>2, <3>3
  <2>2. stock' \in [Ids -> StockStates]
    BY <1>11 DEF FixFromCli, BookTypeOK, WithStock, StockStates
  <2>3. UNCHANGED <<brokerVars, today, entries, report, alerted, writeVars, events>>
    BY <1>11 DEF FixFromCli
  <2> QED
    BY <1>6, <2>1, <2>2, <2>3 DEF BookTypeOK
<1>12. CASE \E c \in Puts : LoseSale(c)
  BY <1>6, <1>12, BookBounds DEF LoseSale, Event, BookTypeOK
<1>13. ASSUME NEW m \in Importers, WriteFails(m)
       PROVE  BookTypeOK' /\ Apart'
  <2>1. /\ sought' \in [Importers -> SUBSET Finds]
        /\ \A n \in Importers : sought'[n] \subseteq sought[n]
    BY <1>13 DEF WriteFails, BookTypeOK
  <2>2. events' \in 0..MaxEvents
    BY <1>13, BookBounds DEF WriteFails, Event, BookTypeOK
  <2> QED
    BY <1>6, <1>13, <2>1, <2>2 DEF WriteFails, BookTypeOK
<1>14. CASE UNCHANGED bookVars
  BY <1>14, ClosingKeepsOne DEF bookVars, BookTypeOK, NothingTaken
<1> QED
  BY <1>1, <1>2, <1>3, <1>4, <1>5, <1>7, <1>8, <1>9, <1>10, <1>11, <1>12, <1>13, <1>14, TakeKeeps
     DEF BookNext, BrokerStep, BooksDaemonStep, WriterStep, OtherStep

LEMMA BookStart == BookInit => BookTypeOK /\ Apart
<1> SUFFICES ASSUME BookInit PROVE BookTypeOK /\ Apart
  OBVIOUS
<1>1. /\ held \in [Puts -> 0..MaxLots] /\ trades \in [Ids -> Row]
      /\ entries \in Nat /\ events \in 0..MaxEvents
  BY BookBounds DEF BookInit, NoRow, Row
<1>2. /\ term \in [Puts -> {"before", "on", "past"}] /\ shares \in [Symbols -> Nat]
      /\ stock \in [Ids -> StockStates]
  BY DEF BookInit, StockStates
<1>3. report \in Findings
  BY DEF BookInit, NoReport, Findings
<1>4. listed \in [Importers -> [Puts -> 0..MaxLots]] /\ sought \in [Importers -> SUBSET Finds]
  BY BookBounds DEF BookInit, NothingListed
<1>5. Open(trades) = {}
  BY DEF BookInit, Open, NoRow
<1>6. Apart
  BY <1>5 DEF Apart, OneOpenRow, Clear
<1> QED
  BY <1>1, <1>2, <1>3, <1>4, <1>6 DEF BookInit, BookTypeOK

\* Rows, stock, reports and what the importers have in hand keep their types
\* through all the ways of writing them.
THEOREM BooksTypeCorrect == BookSpec => []BookTypeOK
<1>1. BookTypeOK /\ Apart /\ [BookNext]_bookVars => (BookTypeOK /\ Apart)'
  BY BookStep
<1> QED
  BY BookStart, <1>1, PTL DEF BookSpec

\* Two open trades on a contract come only from a row that was written while
\* another process had one in hand, for any puts, sales, orders, imports and
\* restarts.
THEOREM OneRowEach == BookSpec => []OneOpenRow
<1>1. BookTypeOK /\ Apart /\ [BookNext]_bookVars => (BookTypeOK /\ Apart)'
  BY BookStep
<1>2. Apart => OneOpenRow
  BY DEF Apart
<1> QED
  BY BookStart, <1>1, <1>2, PTL DEF BookSpec

-----------------------------------------------------------------------------
(* Fills.                                                                  *)

BrokerOrder == [trade : Submitted, qty : Int, filled : Nat,
                state : {"working", "cancelling", "cancelled", "filled"},
                seen : {"none", "open", "cancelled", "filled"}, news : BOOLEAN]

\* PendingOrder, without the bound.
Entry == [id : Nat, filled : Nat, status : {"none", "open", "cancelled", "filled"}]

WorkingOf(t) == {n \in OrdersOf(t) : brokerOrders[n].state = "working"}

\* A sequence in which one element was exchanged.
LEMMA Exchanged ==
    ASSUME NEW S, NEW s \in Seq(S), NEW n \in DOMAIN s, NEW e \in S
    PROVE  LET r == [s EXCEPT ![n] = e]
           IN  /\ r \in Seq(S) /\ Len(r) = Len(s) /\ DOMAIN r = DOMAIN s
               /\ r[n] = e /\ \A m \in DOMAIN s \ {n} : r[m] = s[m]
OBVIOUS

LEMMA OneMore ==
    ASSUME NEW b \in BrokerOrder, NEW st \in {"working", "cancelling", "cancelled", "filled"}
    PROVE  LET o == [b EXCEPT !.filled = b.filled + 1, !.news = TRUE, !.state = st]
           IN  o \in BrokerOrder /\ o.trade = b.trade /\ o.state = st
<1>1. PICK k \in Nat : k = b.filled + 1
  BY DEF BrokerOrder
<1>2. /\ [b EXCEPT !.filled = k, !.news = TRUE, !.state = st] \in BrokerOrder
      /\ [b EXCEPT !.filled = k, !.news = TRUE, !.state = st].trade = b.trade
      /\ [b EXCEPT !.filled = k, !.news = TRUE, !.state = st].state = st
  BY DEF BrokerOrder
<1> QED
  BY <1>1, <1>2

\* A replacement is under way for t: the cancellation is sent, nothing placed yet.
Replacing(t) == step.phase \in {"remainder", "adjust"} /\ step.trade = t
Placed(t) == step.phase = "register" /\ step.trade = t

FillsTyped ==
    /\ brokerOrders \in Seq(BrokerOrder)
    /\ pendings \in [Submitted -> Entry]
    /\ \A t \in Submitted : pendings[t].id <= Len(brokerOrders)
    /\ DOMAIN step = {"phase", "trade", "qty", "order"}
    /\ step.phase \in {"rest", "remainder", "adjust", "register", "over"}
    /\ step.phase \in {"remainder", "adjust", "register"} =>
           step.trade \in Submitted /\ step.qty \in Int
    /\ step.phase = "register" => step.order \in 1..Len(brokerOrders)

\* While a replacement is under way no order of the trade works; once it is placed
\* it is the one that works, and so is the watched one otherwise.
OnlyTheLatest ==
    \A t \in Submitted :
        /\ Replacing(t) => WorkingOf(t) = {}
        /\ Placed(t) => WorkingOf(t) \subseteq {step.order}
        /\ ~Replacing(t) /\ ~Placed(t) /\ Watched(t) => WorkingOf(t) \subseteq {pendings[t].id}

AtMostOne == \A t \in Submitted : \A m, n \in WorkingOf(t) : m = n

FillSafe == runner = "fills" => FillsTyped /\ OnlyTheLatest /\ AtMostOne

\* An event at the broker starts no order again.
LEMMA BrokerStepOfOrders ==
    ASSUME FillSafe, runner = "fills", NEW n \in DOMAIN brokerOrders,
           OrderFills(n) \/ CancelTakesEffect(n) \/ OnOrderStatus(n)
    PROVE  FillSafe'
<1>1. brokerOrders \in Seq(BrokerOrder) /\ brokerOrders[n] \in BrokerOrder
  BY DEF FillSafe, FillsTyped
<1>2. PICK o \in BrokerOrder : /\ brokerOrders' = [brokerOrders EXCEPT ![n] = o]
                               /\ o.trade = brokerOrders[n].trade
                               /\ o.state = "working" => brokerOrders[n].state = "working"
  <2> DEFINE b == brokerOrders[n]
  <2>1. CASE OrderFills(n)
    <3> DEFINE st == IF b.filled + 1 = b.qty THEN "filled" ELSE b.state
               o == [b EXCEPT !.filled = b.filled + 1, !.news = TRUE, !.state = st]
    <3>1. brokerOrders' = [brokerOrders EXCEPT ![n] = o]
      BY <1>1, <2>1 DEF OrderFills, BrokerOrder
    <3>3. /\ st \in {"working", "cancelling", "cancelled", "filled"}
          /\ st = "working" => b.state = "working"
      BY <1>1 DEF BrokerOrder
    <3> HIDE DEF st
    <3>2. o \in BrokerOrder /\ o.trade = b.trade /\ o.state = st
      BY <1>1, <3>3, OneMore
    <3> QED
      BY <3>1, <3>2, <3>3
  <2>2. CASE CancelTakesEffect(n)
    <3> DEFINE o == [b EXCEPT !.state = "cancelled", !.news = TRUE]
    <3>1. brokerOrders' = [brokerOrders EXCEPT ![n] = o]
      BY <1>1, <2>2 DEF CancelTakesEffect, BrokerOrder
    <3>2. o \in BrokerOrder /\ o.trade = b.trade /\ o.state = "cancelled"
      BY <1>1 DEF BrokerOrder
    <3> QED
      BY <3>1, <3>2
  <2>3. CASE OnOrderStatus(n)
    <3>1. PICK st \in {"open", "cancelled", "filled"} :
             brokerOrders' = [brokerOrders EXCEPT ![n] = [b EXCEPT !.news = FALSE, !.seen = st]]
      BY <1>1, <2>3 DEF OnOrderStatus, BrokerOrder
    <3> DEFINE o == [b EXCEPT !.news = FALSE, !.seen = st]
    <3>2. o \in BrokerOrder /\ o.trade = b.trade /\ o.state = b.state
      BY <1>1 DEF BrokerOrder
    <3> QED
      BY <3>1, <3>2
  <2> QED
    BY <2>1, <2>2, <2>3
<1>3. /\ brokerOrders' \in Seq(BrokerOrder) /\ Len(brokerOrders') = Len(brokerOrders)
      /\ DOMAIN brokerOrders' = DOMAIN brokerOrders
  BY <1>1, <1>2
<1>4. ASSUME NEW t \in Submitted PROVE WorkingOf(t)' \subseteq WorkingOf(t)
  BY <1>1, <1>2, <1>3, Exchanged DEF WorkingOf, OrdersOf
<1>5. pendings' \in [Submitted -> Entry] /\ \A t \in Submitted : pendings'[t].id = pendings[t].id
  <2>1. CASE pendings' = pendings
    BY <2>1 DEF FillSafe, FillsTyped
  <2>2. CASE pendings' # pendings
    <3>1. OnOrderStatus(n)
      BY <2>2 DEF OrderFills, CancelTakesEffect
    <3> DEFINE u == brokerOrders[n].trade
    <3>2. u \in Submitted /\ pendings[u] \in Entry
      BY <1>1 DEF BrokerOrder, FillSafe, FillsTyped
    <3>3. PICK st \in {"open", "cancelled", "filled"}, f \in Nat :
             pendings' = [pendings EXCEPT ![u] = [pendings[u] EXCEPT !.status = st, !.filled = f]]
      <4> DEFINE b == brokerOrders[n]
                 st == IF b.state \in {"working", "cancelling"} THEN "open" ELSE b.state
                 f == IF b.filled > 0 THEN b.filled ELSE pendings[u].filled
      <4>1. st \in {"open", "cancelled", "filled"} /\ f \in Nat
        BY <1>1, <3>2 DEF BrokerOrder, Entry
      <4>2. pendings' = [pendings EXCEPT ![u].status = st, ![u].filled = f]
        BY <2>2, <3>1 DEF OnOrderStatus
      <4>3. pendings \in [Submitted -> Entry]
        BY DEF FillSafe, FillsTyped
      <4>4. pendings' = [pendings EXCEPT ![u] = [pendings[u] EXCEPT !.status = st, !.filled = f]]
        <5> HIDE DEF st, f
        <5> QED
          BY <3>2, <4>2, <4>3 DEF Entry
      <4> QED
        BY <4>1, <4>4
    <3>4. [pendings[u] EXCEPT !.status = st, !.filled = f] \in Entry
      BY <3>2 DEF Entry
    <3> QED
      BY <3>2, <3>3, <3>4 DEF FillSafe, FillsTyped, Entry
  <2> QED
    BY <2>1, <2>2
<1>6. step' = step
  BY DEF OrderFills, CancelTakesEffect, OnOrderStatus
<1>7. FillsTyped'
  BY <1>3, <1>5, <1>6 DEF FillSafe, FillsTyped
<1>8. OnlyTheLatest'
  BY <1>4, <1>5, <1>6 DEF FillSafe, OnlyTheLatest, Replacing, Placed, Watched
<1>9. AtMostOne'
  BY <1>4 DEF FillSafe, AtMostOne
<1> QED
  BY <1>7, <1>8, <1>9 DEF FillSafe

\* A cancellation that is sent takes the watched order out of the working ones.
LEMMA CancelStep ==
    ASSUME FillSafe, runner = "fills", NEW t \in Submitted, NEW ok \in BOOLEAN,
           AtRest, Watched(t), NEW phase \in {"remainder", "adjust"}, SendCancel(t, ok, phase)
    PROVE  FillSafe'
<1> DEFINE id == pendings[t].id
<1>1. brokerOrders \in Seq(BrokerOrder) /\ id \in 1..Len(brokerOrders) /\ brokerOrders[id] \in BrokerOrder
  BY DEF FillSafe, FillsTyped, Watched, Entry
<1>2. /\ runner' = runner /\ pendings' = pendings
      /\ brokerOrders' = IF ok /\ brokerOrders[id].state = "working"
                         THEN [brokerOrders EXCEPT ![id].state = "cancelling"] ELSE brokerOrders
      /\ step' = IF ok THEN [phase |-> phase, trade |-> t, qty |-> StillToSell(t), order |-> 0]
                 ELSE Resting
  BY DEF SendCancel, GoesOn
<1>3. StillToSell(t) \in Int
  BY FillFacts DEF FillSafe, FillsTyped, StillToSell, Entry
<1>4. /\ brokerOrders' \in Seq(BrokerOrder) /\ Len(brokerOrders') = Len(brokerOrders)
      /\ DOMAIN brokerOrders' = DOMAIN brokerOrders
  <2>1. [brokerOrders[id] EXCEPT !.state = "cancelling"] \in BrokerOrder
    BY <1>1 DEF BrokerOrder
  <2>2. brokerOrders' \in {brokerOrders, [brokerOrders EXCEPT ![id] = [@ EXCEPT !.state = "cancelling"]]}
    BY <1>1, <1>2
  <2> QED
    BY <1>1, <2>1, <2>2
<1>5. ASSUME NEW u \in Submitted
      PROVE  /\ WorkingOf(u)' \subseteq WorkingOf(u)
             /\ ok => id \notin WorkingOf(u)'
  BY <1>1, <1>2, <1>4 DEF WorkingOf, OrdersOf, BrokerOrder
<1>6. \A u \in Submitted : Watched(u) => WorkingOf(u) \subseteq {pendings[u].id}
  BY DEF FillSafe, OnlyTheLatest, AtRest, Resting, Replacing, Placed
<1>7. FillsTyped'
  BY <1>2, <1>3, <1>4 DEF FillSafe, FillsTyped, Resting
<1>8. OnlyTheLatest'
  <2>1. CASE ok
    <3>1. WorkingOf(t)' = {}
      BY <1>5, <1>6, <2>1
    <3> QED
      BY <1>2, <1>5, <1>6, <2>1, <3>1 DEF OnlyTheLatest, Replacing, Placed, Watched
  <2>2. CASE ~ok
    BY <1>2, <1>5, <1>6, <2>2 DEF OnlyTheLatest, Replacing, Placed, Watched, Resting
  <2> QED
    BY <2>1, <2>2
<1>9. AtMostOne'
  BY <1>5 DEF FillSafe, AtMostOne
<1> QED
  BY <1>7, <1>8, <1>9 DEF FillSafe

\* The replacement is the only order of its trade that works.
LEMMA ReplacementStep ==
    ASSUME FillSafe, runner = "fills", PlaceReplacement
    PROVE  FillSafe'
<1>0. PICK t \in Submitted : t = step.trade
  BY DEF FillSafe, FillsTyped, PlaceReplacement
<1> DEFINE q == IF step.phase = "remainder" THEN step.qty ELSE StillToSell(t)
<1>1. /\ brokerOrders \in Seq(BrokerOrder) /\ step.qty \in Int
      /\ Replacing(t) /\ WorkingOf(t) = {}
  BY <1>0 DEF FillSafe, FillsTyped, PlaceReplacement, OnlyTheLatest, Replacing
<1>2. StillToSell(t) \in Int
  BY <1>1, FillFacts DEF FillSafe, FillsTyped, StillToSell, Entry
<1>3. runner' = runner /\ pendings' = pendings
  BY DEF PlaceReplacement
<1>4. CASE q > 0 /\ PlaceOrder(t, q, "register")
  <2> DEFINE new == Len(brokerOrders) + 1
  <2>1. NewOrder(t, q) \in BrokerOrder
    BY <1>1, <1>2 DEF NewOrder, BrokerOrder
  <2>2. /\ brokerOrders' = Append(brokerOrders, NewOrder(t, q))
        /\ step' = [phase |-> "register", trade |-> t, qty |-> q, order |-> new]
    BY <1>0, <1>4 DEF PlaceOrder
  <2>3. /\ brokerOrders' \in Seq(BrokerOrder) /\ Len(brokerOrders') = new
        /\ brokerOrders'[new] = NewOrder(t, q)
        /\ \A n \in DOMAIN brokerOrders : brokerOrders'[n] = brokerOrders[n]
        /\ DOMAIN brokerOrders' = DOMAIN brokerOrders \cup {new}
    BY <1>1, <2>1, <2>2
  <2>4. WorkingOf(t)' = {new}
    <3>1. brokerOrders'[new].trade = t /\ brokerOrders'[new].state = "working"
      BY <2>3 DEF NewOrder
    <3>2. \A n \in DOMAIN brokerOrders :
             ~(brokerOrders'[n].trade = t /\ brokerOrders'[n].state = "working")
      BY <1>1, <2>3 DEF WorkingOf, OrdersOf
    <3> QED
      BY <2>3, <3>1, <3>2 DEF WorkingOf, OrdersOf
  <2>5. ASSUME NEW u \in Submitted \ {t} PROVE WorkingOf(u)' = WorkingOf(u)
    <3>1. brokerOrders'[new].trade # u
      BY <2>3 DEF NewOrder
    <3> QED
      BY <2>3, <3>1 DEF WorkingOf, OrdersOf
  <2>6. FillsTyped'
    <3>1. q \in Int
      BY <1>1, <1>2
    <3> HIDE DEF q
    <3> QED
      BY <1>1, <1>3, <2>2, <2>3, <3>1 DEF FillSafe, FillsTyped, Entry
  <2>7. OnlyTheLatest'
    <3> SUFFICES ASSUME NEW u \in Submitted
                 PROVE  (/\ Replacing(u) => WorkingOf(u) = {}
                         /\ Placed(u) => WorkingOf(u) \subseteq {step.order}
                         /\ ~Replacing(u) /\ ~Placed(u) /\ Watched(u) =>
                                WorkingOf(u) \subseteq {pendings[u].id})'
      BY DEF OnlyTheLatest
    <3>1. CASE u = t
      BY <2>2, <2>4, <3>1 DEF Replacing, Placed
    <3>2. CASE u # t
      <4>1. ~Replacing(u) /\ ~Placed(u) /\ ~Replacing(u)' /\ ~Placed(u)'
        BY <1>0, <1>1, <2>2, <3>2 DEF Replacing, Placed
      <4> QED
        BY <1>3, <2>5, <3>2, <4>1 DEF FillSafe, OnlyTheLatest, Watched
    <3> QED
      BY <3>1, <3>2
  <2>8. AtMostOne'
    <3> SUFFICES ASSUME NEW u \in Submitted PROVE (\A m, n \in WorkingOf(u) : m = n)'
      BY DEF AtMostOne
    <3>1. CASE u = t
      BY <2>4, <3>1
    <3>2. CASE u # t
      BY <2>5, <3>2 DEF FillSafe, AtMostOne
    <3> QED
      BY <3>1, <3>2
  <2> QED
    BY <2>6, <2>7, <2>8 DEF FillSafe
<1>5. CASE step' = Resting /\ UNCHANGED brokerOrders
  <2>1. \A u \in Submitted : WorkingOf(u)' = WorkingOf(u)
    BY <1>5 DEF WorkingOf, OrdersOf
  <2>2. FillsTyped'
    BY <1>3, <1>5 DEF FillSafe, FillsTyped, Resting
  <2>3. OnlyTheLatest'
    BY <1>1, <1>3, <1>5, <2>1 DEF FillSafe, OnlyTheLatest, Replacing, Placed, Watched, Resting
  <2>4. AtMostOne'
    BY <2>1 DEF FillSafe, AtMostOne
  <2> QED
    BY <2>2, <2>3, <2>4 DEF FillSafe
<1> QED
  BY <1>0, <1>4, <1>5 DEF PlaceReplacement

\* The other steps of the loop.
LEMMA LoopStep ==
    ASSUME FillSafe, runner = "fills",
           (\E t \in Submitted : Settle(t)) \/ PlaceFails \/ Register \/ WindowEnds
    PROVE  FillSafe'
<1>1. runner' = runner /\ brokerOrders' = brokerOrders
  BY DEF Settle, PlaceFails, Register, WindowEnds
<1>2. \A u \in Submitted : WorkingOf(u)' = WorkingOf(u)
  BY <1>1 DEF WorkingOf, OrdersOf
<1>3. FillsTyped'
  <2>1. CASE \E t \in Submitted : Settle(t)
    <3>1. PICK t \in Submitted : Settle(t)
      BY <2>1
    <3>2. pendings \in [Submitted -> Entry] /\ pendings' = [pendings EXCEPT ![t].id = 0] /\ step' = step
      BY <3>1 DEF FillSafe, FillsTyped, Settle
    <3>3. [pendings[t] EXCEPT !.id = 0] \in Entry
      BY <3>2 DEF Entry
    <3>4. pendings' \in [Submitted -> Entry] /\ \A u \in Submitted : pendings'[u].id \in {0, pendings[u].id}
      BY <3>2, <3>3 DEF Entry
    <3> QED
      BY <1>1, <3>2, <3>4 DEF FillSafe, FillsTyped
  <2>2. CASE PlaceFails
    BY <1>1, <2>2 DEF FillSafe, FillsTyped, Entry, PlaceFails, Resting
  <2>3. CASE Register
    <3>1. PICK t \in Submitted : t = step.trade
      BY <2>3 DEF FillSafe, FillsTyped, Register
    <3>2. PICK n \in 1..Len(brokerOrders) : n = step.order
      BY <2>3 DEF FillSafe, FillsTyped, Register
    <3>3. pendings \in [Submitted -> Entry] /\ pendings' = [pendings EXCEPT ![t].id = n] /\ step' = Resting
      BY <2>3, <3>1, <3>2 DEF FillSafe, FillsTyped, Register
    <3>4. n \in Nat /\ [pendings[t] EXCEPT !.id = n] \in Entry
      <4>1. n \in Nat
        BY <3>2
      <4> QED
        BY <3>3, <4>1 DEF Entry
    <3>5. pendings' \in [Submitted -> Entry] /\ \A u \in Submitted : pendings'[u].id \in {n, pendings[u].id}
      BY <3>3, <3>4 DEF Entry
    <3> QED
      BY <1>1, <3>3, <3>5 DEF FillSafe, FillsTyped, Resting
  <2>4. CASE WindowEnds
    BY <1>1, <2>4 DEF FillSafe, FillsTyped, Entry, WindowEnds, AtRest, Resting
  <2> QED
    BY <2>1, <2>2, <2>3, <2>4
<1>4. OnlyTheLatest'
  <2>1. CASE \E t \in Submitted : Settle(t)
    BY <1>2, <2>1 DEF FillSafe, FillsTyped, OnlyTheLatest, Replacing, Placed, Watched, Entry, Settle
  <2>2. CASE PlaceFails
    BY <1>2, <2>2 DEF FillSafe, FillsTyped, OnlyTheLatest, Replacing, Placed, Watched, Entry, PlaceFails, Resting
  <2>3. CASE Register
    BY <1>2, <2>3 DEF FillSafe, FillsTyped, OnlyTheLatest, Replacing, Placed, Watched, Entry, Register, Resting
  <2>4. CASE WindowEnds
    BY <1>2, <2>4 DEF FillSafe, FillsTyped, OnlyTheLatest, Replacing, Placed, Watched, Entry, WindowEnds, AtRest, Resting
  <2> QED
    BY <2>1, <2>2, <2>3, <2>4
<1>5. AtMostOne'
  BY <1>2 DEF FillSafe, AtMostOne
<1> QED
  BY <1>3, <1>4, <1>5 DEF FillSafe

LEMMA FillStep == ASSUME FillSafe, [FillNext]_fillVars PROVE FillSafe'
<1>1. CASE runner # "fills"
  <2>1. runner' = runner
    BY DEF FillNext, fillVars, OrderFills, CancelTakesEffect, OnOrderStatus, Settle, StartRemainder,
           StartAdjust, SendCancel, PlaceReplacement, PlaceFails, Register, WindowEnds, PlaceFirst,
           MondayError, LookFilled, ReplaceWhole, LookOpen
  <2> QED
    BY <1>1, <2>1 DEF FillSafe
<1>2. CASE runner = "fills" /\ UNCHANGED fillVars
  BY <1>2 DEF fillVars, FillSafe, FillsTyped, OnlyTheLatest, AtMostOne, Replacing, Placed, Watched,
              WorkingOf, OrdersOf
<1>3. CASE runner = "fills" /\ FillNext
  <2>1. \A t \in Submitted : ~Executing(t)
    BY <1>3 DEF Executing
  <2>2. ASSUME NEW t \in Submitted, NEW ok \in BOOLEAN, StartRemainder(t, ok) \/ StartAdjust(t, ok)
        PROVE  FillSafe'
    <3>1. AtRest /\ Watched(t) /\ \E phase \in {"remainder", "adjust"} : SendCancel(t, ok, phase)
      BY <2>2 DEF StartRemainder, StartAdjust
    <3> QED
      BY <1>3, <3>1, CancelStep
  <2> QED
    BY <1>3, <2>1, <2>2, BrokerStepOfOrders, ReplacementStep, LoopStep
       DEF FillNext, PlaceFirst, MondayError, LookFilled, ReplaceWhole, LookOpen
<1> QED
  BY <1>1, <1>2, <1>3

LEMMA FillStart == FillInit => FillSafe
<1> SUFFICES ASSUME FillInit, runner = "fills" PROVE FillsTyped /\ OnlyTheLatest /\ AtMostOne
  BY DEF FillSafe
<1>1. Cardinality(Submitted) \in Nat
  BY FillFacts, FS_CardinalityType
<1>2. brokerOrders = [t \in 1..Cardinality(Submitted) |-> NewOrder(t, Ordered[t])]
  BY FillFacts DEF FillInit
<1>3. \A t \in Submitted : NewOrder(t, Ordered[t]) \in BrokerOrder
  BY FillFacts DEF NewOrder, BrokerOrder
<1>4. brokerOrders \in Seq(BrokerOrder) /\ Len(brokerOrders) = Cardinality(Submitted)
  BY <1>1, <1>2, <1>3, FillFacts
<1>5. \A t \in Submitted : WorkingOf(t) = {t} /\ pendings[t].id = t
  BY <1>2, FillFacts DEF WorkingOf, OrdersOf, NewOrder, FillInit
<1>6. FillsTyped
  BY <1>1, <1>4, FillFacts DEF FillsTyped, FillInit, Resting, Entry
<1>7. OnlyTheLatest /\ AtMostOne
  BY <1>5 DEF OnlyTheLatest, AtMostOne, Replacing, Placed, FillInit, Resting
<1> QED
  BY <1>6, <1>7

\* The fill manager never has two working orders of one trade, for any number of
\* trades, contracts, adjustments and orders, whatever the broker fills, cancels and
\* reports, and whenever (fill_manager.py:_adjust_for_remainder, _progressive_adjust).
THEOREM OneOrderWorks == FillSpec => []OneWorkingOrder
<1>1. FillSafe => OneWorkingOrder
  <2> SUFFICES ASSUME FillSafe, runner = "fills", NEW t \in Submitted
               PROVE  Cardinality(WorkingOf(t)) <= 1
    BY DEF OneWorkingOrder, WorkingOf
  <2>1. CASE WorkingOf(t) = {}
    BY <2>1, FS_EmptySet
  <2>2. CASE WorkingOf(t) # {}
    <3>1. PICK n : n \in WorkingOf(t)
      BY <2>2
    <3>2. WorkingOf(t) = {n}
      BY <3>1 DEF FillSafe, AtMostOne
    <3> QED
      BY <3>2, FS_Singleton
  <2> QED
    BY <2>1, <2>2
<1> QED
  BY <1>1, FillStart, FillStep, PTL DEF FillSpec

=============================================================================
