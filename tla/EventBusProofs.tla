--------------------------- MODULE EventBusProofs ---------------------------
(***************************************************************************)
(* Proofs about EventBus.tla, for any daemons, events, kinds and bounds.   *)
(*                                                                         *)
(* NoOrphan is not inductive: that a processing row is in somebody's hands *)
(* survives a start-up reset only because nobody else is alive then, and a *)
(* MarkDone only because the row it overwrites is the one in hand.  Safe   *)
(* adds those two facts, under the assumption that one daemon is launched  *)
(* at a time.                                                              *)
(*                                                                         *)
(* BoundedOvertaking counts what a batch may still do to an event that was *)
(* not in it: Spaced bounds the overtakings so far and those to come.      *)
(***************************************************************************)
EXTENDS EventBus, FiniteSetTheorems, TLAPS

\* One process past its launch.
OneAlive == \A d, o \in Daemons : Alive(d) /\ Alive(o) => d = o

\* A daemon has an event in hand exactly while it works, and the row says
\* that it was taken, or already what became of it.
InHand ==
    \A d \in Daemons :
        /\ pc[d] = "working" <=> cur[d] # None
        /\ cur[d] # None => status[cur[d]] \in {"processing"} \cup Terminal

Safe == ExclusiveStart => OneAlive /\ InHand /\ NoOrphan

IInv == TypeOK /\ Safe

-----------------------------------------------------------------------------

\* Every step keeps the types: every event, daemon and counter of EventBus.
THEOREM TypeCorrect == Spec => []TypeOK
<1>1. Init => TypeOK
  <2> SUFFICES ASSUME Init PROVE TypeOK
    OBVIOUS
  <2> USE DEF Init
  <2>1. /\ status \in [Ids -> Statuses]
        /\ kind \in [Ids -> Kinds \cup {NoKind}]
        /\ overtaken \in [Ids -> Nat]
        /\ skipped \in [Ids -> Nat]
    BY DEF Statuses
  <2>2. /\ pc \in [Daemons -> Places]
        /\ batch \in [Daemons -> SUBSET Ids]
        /\ cur \in [Daemons -> Ids \cup {None}]
        /\ stopping \in [Daemons -> BOOLEAN]
    BY DEF Places
  <2> QED
    BY <2>1, <2>2 DEF TypeOK
<1>2. TypeOK /\ [Next]_vars => TypeOK'
  <2> SUFFICES ASSUME TypeOK, [Next]_vars PROVE TypeOK'
    OBVIOUS
  <2> USE DEF TypeOK, Statuses, Places, queueVars, procVars, histVars
  <2>1. CASE UNCHANGED vars
    BY <2>1 DEF vars
  <2>2. ASSUME NEW k \in Kinds, Emit(k) PROVE TypeOK'
    BY <2>2 DEF Emit
  <2>3. ASSUME NEW d \in Daemons, StartStep(d) PROVE TypeOK'
    BY <2>3 DEF StartStep, CheckPid, WritePid, ResetStale
  <2>4. ASSUME NEW d \in Daemons, Poll(d) PROVE TypeOK'
    <3>1. FirstPending \in SUBSET Ids
      BY DEF FirstPending, Pending
    <3> QED
      BY <2>4, <3>1 DEF Poll
  <2>5. ASSUME NEW d \in Daemons, EndBatch(d) PROVE TypeOK'
    BY <2>5 DEF EndBatch
  <2>6. ASSUME NEW d \in Daemons, NEW e \in Ids, Offered(d, e)
        PROVE  batch' \in [Daemons -> SUBSET Ids]
    BY <2>6 DEF Offered
  <2>11. ASSUME NEW d \in Daemons, NEW e \in Ids, Claim(d, e) PROVE TypeOK'
    <3>1. overtaken' \in [Ids -> Nat]
      BY <2>11 DEF Claim
    <3>2. /\ status' \in [Ids -> Statuses]
          /\ cur' \in [Daemons -> Ids \cup {None}]
          /\ pc' \in [Daemons -> Places]
      BY <2>11 DEF Claim
    <3> QED
      BY <2>6, <2>11, <3>1, <3>2 DEF Claim
  <2>7. ASSUME NEW d \in Daemons, NEW e \in Ids, SkipPaused(d, e)
        PROVE  TypeOK'
    BY <2>6, <2>7 DEF SkipPaused
  <2>8. ASSUME NEW d \in Daemons, MarkCompleted(d) \/ MarkFailed(d) PROVE TypeOK'
    <3>1. PICK r \in {"completed", "failed"} : MarkDone(d, r)
      BY <2>8 DEF MarkCompleted, MarkFailed
    <3>2. status' \in [Ids -> Statuses]
      BY <3>1 DEF MarkDone
    <3>3. cur' \in [Daemons -> Ids \cup {None}] /\ pc' \in [Daemons -> Places]
      BY <3>1 DEF MarkDone
    <3> QED
      BY <3>1, <3>2, <3>3 DEF MarkDone
  <2>16. ASSUME NEW d \in Daemons, MarkEarly(d) PROVE TypeOK'
    BY <2>16 DEF MarkEarly
  <2>9. ASSUME NEW d \in Daemons, Gone(d)
        PROVE  /\ pc' \in [Daemons -> Places]
               /\ batch' \in [Daemons -> SUBSET Ids]
               /\ cur' \in [Daemons -> Ids \cup {None}]
               /\ stopping' \in [Daemons -> BOOLEAN]
    BY <2>9 DEF Gone
  <2>12. ASSUME NEW d \in Daemons, Crash(d) \/ Abort(d) \/ Exit(d) PROVE TypeOK'
    <3>1. Gone(d)
      BY <2>12 DEF Crash, Abort, Exit
    <3>2. pidFile' \in SUBSET Daemons /\ interrupts' \in Nat
      BY <2>12 DEF Crash, Abort, Exit
    <3>3. UNCHANGED <<status, kind, pauses, overtaken, skipped>>
      BY <2>12 DEF Crash, Abort, Exit
    <3>4. paused' \in BOOLEAN
      BY <2>12, Zenon DEF Crash, Abort, Exit
    <3> QED
      BY <2>9, <3>1, <3>2, <3>3, <3>4
  <2>13. ASSUME NEW d \in Daemons, RequestStop(d) PROVE TypeOK'
    BY <2>13 DEF RequestStop
  <2>10. CASE Pause \/ Resume
    <3>1. paused' \in BOOLEAN
      BY <2>10, Zenon DEF Pause, Resume
    <3>2. pauses' \in Nat
      BY <2>10 DEF Pause, Resume
    <3>3. UNCHANGED <<status, kind, pc, batch, cur, stopping, pidFile,
                      interrupts, overtaken, skipped>>
      BY <2>10 DEF Pause, Resume
    <3> QED
      BY <3>1, <3>2, <3>3
  <2> HIDE DEF TypeOK, queueVars, procVars, histVars
  <2>14. ASSUME NEW d \in Daemons, LoopStep(d) PROVE TypeOK'
    BY <2>4, <2>5, <2>7, <2>8, <2>11, <2>12, <2>14, <2>16 DEF LoopStep
  <2>15. ASSUME NEW d \in Daemons, Crash(d) \/ Abort(d) PROVE TypeOK'
    BY <2>12, <2>15
  <2> QED
    BY <2>1, <2>2, <2>3, <2>10, <2>13, <2>14, <2>15 DEF Next
<1> QED
  BY <1>1, <1>2, PTL DEF Spec

-----------------------------------------------------------------------------

LEMMA SafeInit == Init => Safe
BY DEF Init, Safe, OneAlive, InHand, NoOrphan, Alive, None

\* The step that matters: Safe survives every action.
LEMMA SafeStep ==
    ASSUME TypeOK, Safe, [Next]_vars
    PROVE  Safe'
<1> SUFFICES ASSUME ExclusiveStart PROVE OneAlive' /\ InHand' /\ NoOrphan'
  BY DEF Safe
<1> USE DEF OneAlive, InHand, NoOrphan, Alive
<1>0. OneAlive /\ InHand /\ NoOrphan
  BY DEF Safe
<1> USE <1>0 DEF TypeOK, Statuses, Places, queueVars, procVars, histVars
<1>1. CASE UNCHANGED vars
  BY <1>1 DEF vars
<1>2. ASSUME NEW k \in Kinds, Emit(k) PROVE OneAlive' /\ InHand' /\ NoOrphan'
  BY <1>2 DEF Emit, Terminal
<1>3. ASSUME NEW d \in Daemons, CheckPid(d) PROVE OneAlive' /\ InHand' /\ NoOrphan'
  BY <1>3 DEF CheckPid
<1>4. ASSUME NEW d \in Daemons, WritePid(d) PROVE OneAlive' /\ InHand' /\ NoOrphan'
  BY <1>4 DEF WritePid
<1>5. ASSUME NEW d \in Daemons, ResetStale(d)
      PROVE  OneAlive' /\ InHand' /\ NoOrphan'
  <2>1. \A o \in Daemons : cur[o] = None
    BY <1>5 DEF ResetStale
  <2>2. \A e \in Ids : status'[e] # "processing"
    BY <1>5 DEF ResetStale
  <2> QED
    BY <1>5, <2>1, <2>2 DEF ResetStale
<1>6. ASSUME NEW d \in Daemons, Poll(d) \/ EndBatch(d)
      PROVE  OneAlive' /\ InHand' /\ NoOrphan'
  BY <1>6 DEF Poll, EndBatch
<1>7. ASSUME NEW d \in Daemons, NEW e \in Ids, Claim(d, e)
      PROVE  OneAlive' /\ InHand' /\ NoOrphan'
  <2>1. CASE status[e] = "pending"
    <3>1. /\ pc[d] = "batch" /\ e \in Ids /\ e # None
          /\ status' = [status EXCEPT ![e] = "processing"]
          /\ cur' = [cur EXCEPT ![d] = e]
          /\ pc' = [pc EXCEPT ![d] = "working"]
      BY <1>7, <2>1 DEF Claim, Offered, None, Ids
    <3>2. \A o \in Daemons : o # d => pc'[o] = "down" /\ cur'[o] = None
      BY <3>1
    <3>3. OneAlive' /\ InHand'
      BY <3>1, <3>2
    <3>4. \A o \in Daemons : cur[o] = None
      BY <3>1
    <3>5. \A f \in Ids : status[f] # "processing"
      BY <3>1, <3>4 DEF None, Ids
    <3>6. cur'[d] = e /\ \A f \in Ids : status'[f] = "processing" => f = e
      BY <3>1, <3>5
    <3>7. NoOrphan'
      BY <3>6
    <3> QED
      BY <3>3, <3>7
  <2>2. CASE status[e] # "pending"
    <3>1. UNCHANGED <<status, cur, pc>>
      BY <1>7, <2>2 DEF Claim
    <3> QED
      BY <3>1
  <2> QED
    BY <2>1, <2>2
<1>8. ASSUME NEW d \in Daemons, NEW e \in Ids, SkipPaused(d, e)
      PROVE  OneAlive' /\ InHand' /\ NoOrphan'
  BY <1>8 DEF SkipPaused, Offered
<1>9. ASSUME NEW d \in Daemons, MarkCompleted(d) \/ MarkFailed(d)
      PROVE  OneAlive' /\ InHand' /\ NoOrphan'
  <2>1. PICK r \in Terminal : MarkDone(d, r)
    BY <1>9 DEF MarkCompleted, MarkFailed, Terminal
  <2>2. \A o \in Daemons : o # d => cur[o] = None /\ cur'[o] = None
    BY <2>1 DEF MarkDone
  <2>3. /\ pc[d] = "working" /\ pc'[d] = "batch" /\ cur'[d] = None
        /\ \A o \in Daemons : o # d => pc'[o] = pc[o]
    BY <2>1 DEF MarkDone
  <2>4. \A e \in Ids : status'[e] = "processing" =>
                          status[e] = "processing" /\ e # cur[d]
    BY <2>1 DEF MarkDone, Terminal
  <2>5. OneAlive' /\ InHand'
    BY <2>2, <2>3
  <2> QED
    BY <2>2, <2>3, <2>4, <2>5 DEF None, Ids
<1>13. ASSUME NEW d \in Daemons, MarkEarly(d)
       PROVE  OneAlive' /\ InHand' /\ NoOrphan'
  <2>1. /\ cur[d] \in Ids /\ cur' = cur /\ pc' = pc
        /\ status' = [status EXCEPT ![cur[d]] = "completed"]
    BY <1>13 DEF MarkEarly, None
  <2>2. \A o \in Daemons : o # d => cur[o] = None
    BY <1>13 DEF MarkEarly
  <2>3. \A e \in Ids : status'[e] = IF e = cur[d] THEN "completed" ELSE status[e]
    BY <2>1
  <2>4. OneAlive' /\ InHand'
    BY <2>1, <2>2, <2>3 DEF Terminal
  <2>5. NoOrphan'
    BY <2>1, <2>3
  <2> QED
    BY <2>4, <2>5
<1>10. ASSUME NEW d \in Daemons, Crash(d) \/ Abort(d) \/ Exit(d)
       PROVE  OneAlive' /\ InHand' /\ NoOrphan'
  BY <1>10 DEF Crash, Abort, Exit, Gone, None
<1>11. ASSUME NEW d \in Daemons, RequestStop(d)
       PROVE  OneAlive' /\ InHand' /\ NoOrphan'
  BY <1>11 DEF RequestStop
<1>12. CASE Pause \/ Resume
  BY <1>12 DEF Pause, Resume
<1> QED
  BY <1>1, <1>2, <1>3, <1>4, <1>5, <1>6, <1>7, <1>8, <1>9, <1>10, <1>11, <1>12,
     <1>13
  DEF Next, StartStep, LoopStep

\* The inductive invariant.
THEOREM Invariant == Spec => []IInv
<1>1. Init => Safe
  BY SafeInit
<1>2. TypeOK /\ Safe /\ [Next]_vars => Safe'
  BY SafeStep
<1> QED
  BY <1>1, <1>2, TypeCorrect, PTL DEF Spec, IInv

\* With one daemon launched at a time, no row is ever left in 'processing'
\* behind the back of a daemon that has started its event loop: what a crash
\* left there is always put back before the next daemon claims anything.
THEOREM OrphansAreRecovered == Spec => [](ExclusiveStart => NoOrphan)
<1>1. IInv => (ExclusiveStart => NoOrphan)
  BY DEF IInv, Safe
<1> QED
  BY <1>1, Invariant, PTL

\* A finished event stays finished, for any number of daemons, started
\* together or not: claims and resets look at the row before they write it,
\* and the writes that do not look only write a verdict.
THEOREM FinishedStaysFinished == Spec => NeverReopened
<1> DEFINE Kept ==
        \A e \in Ids : status[e] \in Terminal => status'[e] \in Terminal
<1>1. TypeOK /\ [Next]_vars => [Kept]_vars
  <2> SUFFICES ASSUME TypeOK, Next PROVE Kept
    OBVIOUS
  <2> USE DEF TypeOK, Terminal, queueVars, procVars, histVars
  <2>1. ASSUME NEW k \in Kinds, Emit(k) PROVE Kept
    BY <2>1 DEF Emit
  <2>2. ASSUME NEW d \in Daemons, StartStep(d) PROVE Kept
    BY <2>2 DEF StartStep, CheckPid, WritePid, ResetStale
  <2>3. ASSUME NEW d \in Daemons, NEW e \in Ids, Claim(d, e) PROVE Kept
    BY <2>3 DEF Claim
  <2>4. ASSUME NEW d \in Daemons,
               MarkEarly(d) \/ MarkCompleted(d) \/ MarkFailed(d)
        PROVE  Kept
    BY <2>4 DEF MarkEarly, MarkCompleted, MarkFailed, MarkDone
  <2>5. ASSUME NEW d \in Daemons, NEW e \in Ids, SkipPaused(d, e) PROVE Kept
    BY <2>5 DEF SkipPaused
  <2>6. ASSUME NEW d \in Daemons, Crash(d) \/ Abort(d) \/ RequestStop(d) PROVE Kept
    BY <2>6 DEF Crash, Abort, RequestStop
  <2>7. CASE Pause \/ Resume
    BY <2>7 DEF Pause, Resume
  <2>8. ASSUME NEW d \in Daemons, Poll(d) \/ EndBatch(d) \/ Exit(d) PROVE Kept
    BY <2>8 DEF Poll, EndBatch, Exit
  <2> QED
    BY <2>1, <2>2, <2>3, <2>4, <2>5, <2>6, <2>7, <2>8 DEF Next, LoopStep
<1> QED
  BY <1>1, TypeCorrect, PTL DEF Spec, NeverReopened

-----------------------------------------------------------------------------
(* Refinement of EventQueue.                                               *)

\* A step that leaves every row's status alone is a stutter of the queue.
LEMMA SameStatus == status' = status => Abstracted' = Abstracted
BY DEF Abstracted

\* A step that moves one row is the abstract step that moves that row.
LEMMA OneRow ==
    ASSUME TypeOK, NEW e \in Ids, NEW s \in Statuses,
           status' = [status EXCEPT ![e] = s]
    PROVE  /\ \A f \in Ids : f # e => Abstracted'[f] = Abstracted[f]
           /\ s = "pending" => Abstracted'[e] = "waiting"
           /\ s = "processing" => Abstracted'[e] = "taken"
           /\ s \in {"completed", "failed"} => Abstracted'[e] = "done"
BY DEF TypeOK, Abstracted, Statuses

\* Every step of the bus is a step of the queue, or a stutter.
LEMMA QueueStep ==
    ASSUME IInv, ExclusiveStart, [Next]_vars
    PROVE  [Queue!QNext]_Abstracted
<1> USE DEF IInv, Safe, Queue!Ids, Ids, Queue!Absent, Queue!Waiting, Queue!Taken,
            Queue!Done
<1> DEFINE A == Abstracted
<1>0. A \in [Ids -> {"absent", "waiting", "taken", "done"}]
  BY DEF Abstracted
<1>1. ASSUME NEW k \in Kinds, Emit(k) PROVE Queue!QNext
  <2>1. PICK e \in Ids : /\ status[e] = "absent"
                         /\ status' = [status EXCEPT ![e] = "pending"]
    BY <1>1 DEF Emit
  <2>2. /\ \A f \in Ids : f # e => A'[f] = A[f]
        /\ A'[e] = "waiting"
    BY <2>1, OneRow DEF Statuses
  <2>3. A[e] = "absent"
    BY <2>1 DEF Abstracted
  <2>4. A' = [A EXCEPT ![e] = "waiting"]
    BY <2>2 DEF Abstracted
  <2> QED
    BY <2>3, <2>4 DEF Queue!QNext, Queue!Emitted
<1>2. ASSUME NEW d \in Daemons, ResetStale(d) PROVE Queue!QNext
  <2>1. \A e \in Ids : A'[e] = IF A[e] = "taken" THEN "waiting" ELSE A[e]
    BY <1>2 DEF ResetStale, Abstracted, TypeOK, Statuses
  <2>2. A' = [e \in Ids |-> IF A[e] = "taken" THEN "waiting" ELSE A[e]]
    BY <2>1 DEF Abstracted
  <2> QED
    BY <2>2 DEF Queue!QNext, Queue!Recover
<1>3. ASSUME NEW d \in Daemons, NEW e \in Ids, Claim(d, e),
             status[e] = "pending"
      PROVE  Queue!QNext
  <2>1. /\ pc[d] = "batch" /\ status[e] = "pending"
        /\ status' = [status EXCEPT ![e] = "processing"]
    BY <1>3 DEF Claim, Offered
  <2>2. \A f \in Ids : status[f] # "processing"
    <3>1. \A o \in Daemons : cur[o] = None
      BY <2>1 DEF OneAlive, InHand, Alive
    <3> QED
      BY <2>1, <3>1 DEF NoOrphan, None
  <2>3. \A f \in Ids : A[f] # "taken"
    BY <2>2 DEF Abstracted, TypeOK, Statuses
  <2>4. /\ \A f \in Ids : f # e => A'[f] = A[f]
        /\ A'[e] = "taken"
    BY <2>1, OneRow DEF Statuses
  <2>5. A' = [A EXCEPT ![e] = "taken"] /\ A[e] = "waiting"
    BY <2>1, <2>4 DEF Abstracted
  <2> QED
    BY <2>3, <2>5 DEF Queue!QNext, Queue!Take
<1>4. ASSUME NEW d \in Daemons,
             MarkEarly(d) \/ MarkCompleted(d) \/ MarkFailed(d)
      PROVE  Queue!QNext \/ UNCHANGED A
  <2> DEFINE e == cur[d]
  <2>1. PICK r \in {"completed", "failed"} : status' = [status EXCEPT ![e] = r]
    BY <1>4 DEF MarkEarly, MarkCompleted, MarkFailed, MarkDone
  <2>2. e \in Ids /\ status[e] \in {"processing"} \cup Terminal
    BY <1>4 DEF MarkEarly, MarkCompleted, MarkFailed, MarkDone, InHand, TypeOK
  <2>4. /\ \A f \in Ids : f # e => A'[f] = A[f]
        /\ A'[e] = "done"
    BY <2>1, <2>2, OneRow DEF Statuses
  <2>3. CASE status[e] = "processing"
    <3>1. A' = [A EXCEPT ![e] = "done"] /\ A[e] = "taken"
      BY <2>2, <2>3, <2>4 DEF Abstracted
    <3> QED
      BY <2>2, <3>1 DEF Queue!QNext, Queue!Finish
  <2>5. CASE status[e] \in Terminal
    <3>1. A[e] = "done"
      BY <2>2, <2>5 DEF Abstracted, Terminal
    <3>2. A' = A
      BY <2>4, <3>1 DEF Abstracted
    <3> QED
      BY <3>2
  <2> QED
    BY <2>2, <2>3, <2>5
<1>5. ASSUME UNCHANGED status PROVE UNCHANGED A
  BY <1>5, SameStatus
<1>6. ASSUME NEW d \in Daemons, NEW e \in Ids,
             \/ CheckPid(d) \/ WritePid(d) \/ Poll(d) \/ EndBatch(d) \/ Exit(d)
             \/ SkipPaused(d, e)
             \/ Claim(d, e) /\ status[e] # "pending"
             \/ Crash(d) \/ Abort(d) \/ RequestStop(d)
      PROVE  UNCHANGED status
  BY <1>6 DEF CheckPid, WritePid, Poll, EndBatch, Exit, SkipPaused, Claim,
              Crash, Abort, RequestStop, queueVars
<1>7. ASSUME NEW d \in Daemons,
             \/ CheckPid(d) \/ WritePid(d) \/ Poll(d) \/ EndBatch(d) \/ Exit(d)
             \/ Crash(d) \/ Abort(d) \/ RequestStop(d)
      PROVE  UNCHANGED status
  BY <1>7 DEF CheckPid, WritePid, Poll, EndBatch, Exit, Crash, Abort,
              RequestStop, queueVars
<1>8. ASSUME Pause \/ Resume \/ UNCHANGED vars PROVE UNCHANGED status
  BY <1>8 DEF Pause, Resume, vars, queueVars
<1> QED
  BY <1>1, <1>2, <1>3, <1>4, <1>5, <1>6, <1>7, <1>8
  DEF Next, StartStep, LoopStep

\* With one daemon launched at a time, the durable table, its polling daemons,
\* their crashes and their restarts implement EventQueue: one event in flight,
\* finished exactly once or put back before anything else is taken.
THEOREM BusImplementsQueue == ExclusiveStart => (Spec => ImplementsQueue)
<1> SUFFICES ASSUME ExclusiveStart PROVE Spec => ImplementsQueue
  OBVIOUS
<1>1. Init => Queue!QInit
  BY DEF Init, Queue!QInit, Abstracted, Queue!Ids, Ids, Queue!Absent
<1>2. IInv /\ [Next]_vars => [Queue!QNext]_Abstracted
  BY QueueStep
<1> QED
  BY <1>1, <1>2, Invariant, PTL DEF Spec, ImplementsQueue, Queue!QSpec

-----------------------------------------------------------------------------
(* Overtaking.                                                             *)

\* What a daemon will still offer and that is less urgent than f.
Behind(d, f) == {e \in batch[d] : Urgency(f) < Urgency(e)}

Bound(f) == MaxPerCycle + (MaxPerCycle - 1) * skipped[f]

\* An event that waits outside the batch may still be overtaken by the less
\* urgent ones of the batch; inside it, by none until it is offered.
RoomLeft(f) ==
    /\ overtaken[f] <= Bound(f)
    /\ status[f] = "absent" => overtaken[f] = 0
    /\ status[f] # "absent" => kind[f] \in Kinds
    /\ \A d \in Daemons :
          status[f] = "pending" /\ f \notin batch[d] =>
              overtaken[f] + Cardinality(Behind(d, f)) <= Bound(f)

Batched(d) ==
    /\ pc[d] \notin {"batch", "working"} => batch[d] = {}
    /\ \A e \in batch[d] : status[e] # "absent"
    /\ IsFiniteSet(batch[d]) /\ Cardinality(batch[d]) <= MaxPerCycle

Spaced == (\A d \in Daemons : Batched(d)) /\ (\A f \in Ids : RoomLeft(f))

LEMMA BoundType ==
    ASSUME TypeOK, NEW f \in Ids
    PROVE  Bound(f) \in Nat /\ Bound(f) >= MaxPerCycle
<1>1. MaxPerCycle - 1 \in Nat /\ skipped[f] \in Nat
  BY BoundsAssumption DEF TypeOK
<1>2. \A a, b \in Nat : a * b \in Nat
  OBVIOUS
<1>3. (MaxPerCycle - 1) * skipped[f] \in Nat
  BY <1>1, <1>2
<1> QED
  BY <1>1, <1>3, BoundsAssumption DEF Bound

\* Urgency orders the pending rows strictly.
LEMMA Ordered ==
    ASSUME NEW e \in Ids, NEW f \in Ids, NEW g \in Ids,
           kind[e] \in Kinds, kind[f] \in Kinds, kind[g] \in Kinds
    PROVE  /\ Urgency(e) \in Nat
           /\ ~Before(e, e)
           /\ e # f => Before(e, f) \/ Before(f, e)
           /\ Before(e, f) /\ Before(f, g) => Before(e, g)
           /\ Before(e, f) => Urgency(e) <= Urgency(f)
           /\ Urgency(e) < Urgency(f) => Before(e, f)
<1>1. Urgency(e) \in Nat /\ Urgency(f) \in Nat /\ Urgency(g) \in Nat
  BY KindsAssumption DEF Urgency, Priority
<1>2. e \in Nat /\ f \in Nat /\ g \in Nat
  BY MaxEventsAssumption DEF Ids
<1> QED
  BY <1>1, <1>2 DEF Before

\* A fetched batch holds at most MaxPerCycle rows: its rows have different places in
\* the order, all below MaxPerCycle.
LEMMA BatchSize ==
    ASSUME \A f \in Ids : status[f] # "absent" => kind[f] \in Kinds
    PROVE  IsFiniteSet(FirstPending) /\ Cardinality(FirstPending) <= MaxPerCycle
<1> DEFINE Ahead(e) == {f \in Pending : Before(f, e)}
           place == [e \in FirstPending |-> Cardinality(Ahead(e))]
<1>1. IsFiniteSet(Pending)
  <2>1. IsFiniteSet(Ids) /\ Pending \subseteq Ids
    BY MaxEventsAssumption, FS_Interval DEF Ids, Pending
  <2> QED
    BY <2>1, FS_Subset
<1>2. FirstPending \subseteq Pending /\ IsFiniteSet(FirstPending)
  BY <1>1, FS_Subset DEF FirstPending
<1>3. \A e \in Pending : IsFiniteSet(Ahead(e)) /\ Cardinality(Ahead(e)) \in Nat
  <2> SUFFICES ASSUME NEW e \in Pending
               PROVE  IsFiniteSet(Ahead(e)) /\ Cardinality(Ahead(e)) \in Nat
    OBVIOUS
  <2>1. Ahead(e) \subseteq Pending
    OBVIOUS
  <2> QED
    BY <1>1, <2>1, FS_Subset, FS_CardinalityType
<1>4. ASSUME NEW e \in Pending, NEW f \in Pending, Before(e, f)
      PROVE  Cardinality(Ahead(e)) < Cardinality(Ahead(f))
  <2>1. /\ \A g \in Pending : g \in Ids /\ kind[g] \in Kinds
    BY DEF Pending
  <2>2. Ahead(e) \subseteq Ahead(f)
    BY <1>4, <2>1, Ordered
  <2>3. e \in Ahead(f) /\ e \notin Ahead(e)
    BY <1>4, <2>1, Ordered
  <2> HIDE DEF Ahead
  <2>4. Cardinality(Ahead(e)) <= Cardinality(Ahead(f)) /\ Cardinality(Ahead(e)) # Cardinality(Ahead(f))
    BY <1>3, <2>2, <2>3, FS_Subset
  <2> QED
    BY <1>3, <2>4
<1>5. IsFiniteSet(0..(MaxPerCycle - 1)) /\ Cardinality(0..(MaxPerCycle - 1)) = MaxPerCycle
  <2>1. PICK n \in Nat : n = MaxPerCycle - 1
    BY BoundsAssumption
  <2>2. IsFiniteSet(0..n) /\ Cardinality(0..n) = n + 1
    BY FS_Interval
  <2> QED
    BY <2>1, <2>2, BoundsAssumption
<1>6. place \in [FirstPending -> 0..(MaxPerCycle - 1)]
  <2> SUFFICES ASSUME NEW e \in FirstPending PROVE Cardinality(Ahead(e)) \in 0..(MaxPerCycle - 1)
    OBVIOUS
  <2>1. Cardinality(Ahead(e)) < MaxPerCycle
    BY DEF FirstPending
  <2> QED
    BY <1>2, <1>3, <2>1, BoundsAssumption
<1>7. ASSUME NEW e \in FirstPending, NEW f \in FirstPending, e # f
      PROVE  place[e] # place[f]
  <2>1. e \in Pending /\ f \in Pending /\ (Before(e, f) \/ Before(f, e))
    BY <1>2, <1>7, Ordered DEF Pending
  <2>2. Cardinality(Ahead(e)) # Cardinality(Ahead(f))
    <3> HIDE DEF Ahead
    <3> QED
      BY <1>3, <1>4, <2>1
  <2> QED
    BY <2>2
<1>8. place \in Injection(FirstPending, 0..(MaxPerCycle - 1))
  <2> HIDE DEF place
  <2> QED
    BY <1>6, <1>7 DEF Injection, IsInjective
<1>9. Cardinality(FirstPending) <= Cardinality(0..(MaxPerCycle - 1))
  BY <1>5, <1>8, FS_Injection
<1> QED
  BY <1>2, <1>5, <1>9

\* Only one daemon has a batch.
LEMMA OneBatch ==
    ASSUME ExclusiveStart, IInv, Spaced, NEW d \in Daemons, Alive(d),
           NEW o \in Daemons \ {d}
    PROVE  pc[o] = "down" /\ batch[o] = {}
BY DEF IInv, Safe, OneAlive, Alive, Spaced, Batched

\* What is behind is part of the batch.
LEMMA BehindIsSmall ==
    ASSUME Spaced, NEW d \in Daemons, NEW f
    PROVE  /\ IsFiniteSet(Behind(d, f))
           /\ Cardinality(Behind(d, f)) \in Nat
           /\ Cardinality(Behind(d, f)) <= MaxPerCycle
<1>1. IsFiniteSet(batch[d]) /\ Cardinality(batch[d]) <= MaxPerCycle
  BY DEF Spaced, Batched
<1>2. Behind(d, f) \subseteq batch[d]
  BY DEF Behind
<1>3. IsFiniteSet(Behind(d, f)) /\ Cardinality(Behind(d, f)) <= Cardinality(batch[d])
  BY <1>1, <1>2, FS_Subset
<1> QED
  BY <1>1, <1>3, FS_CardinalityType, BoundsAssumption

\* A new row has its whole bound before it.
LEMMA EmitSpaced ==
    ASSUME IInv, TypeOK', Spaced, NEW k \in Kinds, Emit(k)
    PROVE  Spaced'
<1>1. PICK e \in Ids : /\ status[e] = "absent"
                       /\ status' = [status EXCEPT ![e] = "pending"]
                       /\ kind' = [kind EXCEPT ![e] = k]
                       /\ UNCHANGED <<pc, batch, overtaken, skipped>>
  BY DEF Emit, procVars, histVars
<1>2. ASSUME NEW f \in Ids, f # e
      PROVE  status'[f] = status[f] /\ kind'[f] = kind[f] /\ Urgency(f)' = Urgency(f)
  BY <1>1, <1>2 DEF IInv, TypeOK, Urgency
<1>3. \A d \in Daemons : e \notin batch[d] /\ batch[d] \subseteq Ids
  BY <1>1 DEF Spaced, Batched, IInv, TypeOK
<1>4. ASSUME NEW d \in Daemons PROVE Batched(d)'
  BY <1>1, <1>2, <1>3 DEF Spaced, Batched
<1>5. ASSUME NEW f \in Ids PROVE RoomLeft(f)'
  <2>1. CASE f = e
    <3>1. overtaken'[e] = 0 /\ kind'[e] = k /\ Bound(e)' = Bound(e) /\ status'[e] = "pending"
      BY <1>1 DEF Spaced, RoomLeft, IInv, TypeOK, Bound
    <3>2. \A d \in Daemons : Cardinality(Behind(d, e)') <= MaxPerCycle /\ Cardinality(Behind(d, e)') \in Nat
      <4> SUFFICES ASSUME NEW d \in Daemons
                   PROVE  /\ Cardinality(Behind(d, e)') <= MaxPerCycle
                          /\ Cardinality(Behind(d, e)') \in Nat
        OBVIOUS
      <4>1. Behind(d, e)' \subseteq batch[d]
        BY <1>1 DEF Behind
      <4>2. IsFiniteSet(batch[d]) /\ Cardinality(batch[d]) <= MaxPerCycle
        BY DEF Spaced, Batched
      <4>3. /\ IsFiniteSet(Behind(d, e)')
            /\ Cardinality(Behind(d, e)') <= Cardinality(batch[d])
        BY <4>1, <4>2, FS_Subset
      <4> QED
        BY <4>2, <4>3, FS_CardinalityType, BoundsAssumption
    <3>3. Bound(e) \in Nat /\ Bound(e) >= MaxPerCycle
      BY BoundType DEF IInv
    <3> QED
      BY <2>1, <3>1, <3>2, <3>3, BoundsAssumption DEF RoomLeft
  <2>2. CASE f # e
    <3>1. status'[f] = status[f] /\ kind'[f] = kind[f] /\ Bound(f)' = Bound(f)
      BY <1>1, <1>2, <2>2 DEF Bound
    <3>2. \A d \in Daemons : Behind(d, f)' = Behind(d, f)
      BY <1>1, <1>2, <1>3, <2>2 DEF Behind
    <3> QED
      BY <1>1, <3>1, <3>2 DEF Spaced, RoomLeft
  <2> QED
    BY <2>1, <2>2
<1> QED
  BY <1>4, <1>5 DEF Spaced

\* A batch holds the most urgent rows: what is outside it is not more urgent than
\* anything in it.
LEMMA PollSpaced ==
    ASSUME ExclusiveStart, IInv, Spaced, NEW d \in Daemons, Poll(d)
    PROVE  Spaced'
<1>1. /\ batch' = [batch EXCEPT ![d] = FirstPending] /\ pc' = [pc EXCEPT ![d] = "batch"]
      /\ UNCHANGED <<status, kind, overtaken, skipped>> /\ Alive(d)
  BY DEF Poll, queueVars, histVars, Alive
<1>2. \A o \in Daemons \ {d} : batch'[o] = {} /\ pc'[o] = "down"
  BY <1>1, OneBatch DEF IInv, TypeOK
<1>3. /\ batch'[d] = FirstPending /\ pc'[d] = "batch"
      /\ \A f \in FirstPending : f \in Ids /\ status[f] = "pending"
  BY <1>1 DEF IInv, TypeOK, FirstPending, Pending
<1>4. \A f \in Ids : status[f] # "absent" => kind[f] \in Kinds
  BY DEF Spaced, RoomLeft
<1>5. ASSUME NEW o \in Daemons PROVE Batched(o)'
  BY <1>1, <1>2, <1>3, <1>4, BatchSize, FS_EmptySet, BoundsAssumption DEF Batched
<1>6. ASSUME NEW f \in Ids PROVE RoomLeft(f)'
  <2>1. overtaken[f] <= Bound(f) /\ overtaken[f] \in Nat /\ Bound(f)' = Bound(f)
    BY <1>1 DEF Spaced, RoomLeft, IInv, TypeOK, Bound
  <2>2. ASSUME NEW o \in Daemons, status[f] = "pending", f \notin batch'[o]
        PROVE  Behind(o, f)' = {}
    <3>1. CASE o # d
      BY <1>2, <3>1 DEF Behind
    <3>2. CASE o = d
      <4> SUFFICES ASSUME NEW e \in FirstPending, Urgency(f) < Urgency(e) PROVE FALSE
        BY <1>1, <1>3, <3>2 DEF Behind, Urgency
      <4> DEFINE Ahead(x) == {g \in Pending : Before(g, x)}
      <4>1. e \in Ids /\ e \in Pending /\ f \in Pending /\ kind[e] \in Kinds /\ kind[f] \in Kinds
        BY <1>3, <1>4, <2>2 DEF Pending
      <4>2. Before(f, e)
        BY <4>1, Ordered
      <4>3. Ahead(f) \subseteq Ahead(e)
        BY <1>4, <4>1, <4>2, Ordered DEF Pending
      <4>4. IsFiniteSet(Pending)
        <5>1. IsFiniteSet(Ids) /\ Pending \subseteq Ids
          BY MaxEventsAssumption, FS_Interval DEF Ids, Pending
        <5> QED
          BY <5>1, FS_Subset
      <4>5. IsFiniteSet(Ahead(e)) /\ IsFiniteSet(Ahead(f))
        BY <4>4, FS_Subset
      <4>6. Cardinality(Ahead(f)) <= Cardinality(Ahead(e))
        BY <4>3, <4>5, FS_Subset
      <4>7. Cardinality(Ahead(e)) \in Nat /\ Cardinality(Ahead(f)) \in Nat
        BY <4>5, FS_CardinalityType
      <4>8. Cardinality(Ahead(e)) < MaxPerCycle
        BY DEF FirstPending
      <4>9. Cardinality(Ahead(f)) < MaxPerCycle
        BY <4>6, <4>7, <4>8, BoundsAssumption
      <4>10. f \in FirstPending
        BY <4>1, <4>9 DEF FirstPending
      <4> QED
        BY <1>3, <2>2, <3>2, <4>10
    <3> QED
      BY <3>1, <3>2
  <2>3. ASSUME NEW o \in Daemons, status[f] = "pending", f \notin batch'[o]
        PROVE  overtaken[f] + Cardinality(Behind(o, f)') <= Bound(f)
    <3>1. Cardinality(Behind(o, f)') = 0
      BY <2>2, <2>3, FS_EmptySet
    <3> QED
      BY <2>1, <3>1
  <2> QED
    BY <1>1, <2>1, <2>3 DEF RoomLeft, Spaced
<1> QED
  BY <1>5, <1>6 DEF Spaced

\* An event that is claimed leaves the batch and overtakes what is pending, more
\* urgent and outside the batch.
LEMMA ClaimSpaced ==
    ASSUME ExclusiveStart, IInv, Spaced, NEW d \in Daemons, NEW e \in Ids, Claim(d, e)
    PROVE  Spaced'
<1>1. /\ batch' = [batch EXCEPT ![d] = @ \ {e}] /\ pc[d] = "batch" /\ e \in batch[d]
      /\ \A f \in batch[d] \ {e} : Before(e, f)
      /\ kind' = kind /\ skipped' = skipped /\ Alive(d)
  BY DEF Claim, Offered, IsHead, Alive
<1>2. /\ \A o \in Daemons \ {d} : batch'[o] = {} /\ batch[o] = {}
      /\ batch'[d] = batch[d] \ {e} /\ batch[d] \subseteq Ids
  BY <1>1, OneBatch DEF IInv, TypeOK
<1>3. /\ \A f \in Ids : status'[f] = "absent" <=> status[f] = "absent"
      /\ \A f \in Ids : status'[f] = "pending" => status[f] = "pending"
      /\ \A o \in Daemons : pc'[o] = pc[o] \/ (o = d /\ pc'[o] = "working")
  BY DEF Claim, IInv, TypeOK
<1>4. IsFiniteSet(batch[d]) /\ Cardinality(batch[d]) <= MaxPerCycle /\ kind[e] \in Kinds
  BY <1>1 DEF Spaced, Batched, RoomLeft
<1>5. ASSUME NEW o \in Daemons PROVE Batched(o)'
  <2>1. CASE o # d
    BY <1>2, <2>1, FS_EmptySet, BoundsAssumption DEF Batched
  <2>2. CASE o = d
    <3>1. IsFiniteSet(batch'[d]) /\ Cardinality(batch'[d]) <= Cardinality(batch[d])
      BY <1>2, <1>4, FS_Subset
    <3>2. Cardinality(batch'[d]) \in Nat /\ Cardinality(batch[d]) \in Nat
      BY <1>4, <3>1, FS_CardinalityType
    <3> QED
      BY <1>1, <1>2, <1>3, <1>4, <2>2, <3>1, <3>2, BoundsAssumption DEF Batched, Spaced
  <2> QED
    BY <2>1, <2>2
<1>6. ASSUME NEW f \in Ids PROVE RoomLeft(f)'
  <2> DEFINE passed == status[e] = "pending" /\ status[f] = "pending" /\ Urgency(f) < Urgency(e)
  <2>1. Bound(f)' = Bound(f) /\ overtaken[f] \in Nat
    BY <1>1 DEF Bound, IInv, TypeOK
  <2>2. overtaken'[f] = IF passed THEN overtaken[f] + 1 ELSE overtaken[f]
    BY DEF Claim, IInv, TypeOK
  <2>3. \A o \in Daemons : Behind(o, f)' = IF o = d THEN Behind(d, f) \ {e} ELSE {}
    BY <1>1, <1>2 DEF Behind, Urgency
  <2>4. passed => f \notin batch[d]
    <3> SUFFICES ASSUME passed, f \in batch[d] PROVE FALSE
      OBVIOUS
    <3>1. kind[f] \in Kinds
      BY DEF Spaced, RoomLeft
    <3>2. Urgency(f) \in Nat /\ Urgency(e) \in Nat
      BY <1>4, <3>1, Ordered
    <3>3. f # e
      BY <3>2
    <3>4. Urgency(e) <= Urgency(f)
      BY <1>1, <1>4, <3>1, <3>3, Ordered
    <3> QED
      BY <3>2, <3>4
  <2>5. /\ IsFiniteSet(Behind(d, f)) /\ Cardinality(Behind(d, f)) \in Nat
        /\ Cardinality(Behind(d, f) \ {e}) = IF e \in Behind(d, f) THEN Cardinality(Behind(d, f)) - 1
                                             ELSE Cardinality(Behind(d, f))
    BY BehindIsSmall, FS_RemoveElement
  <2>6. passed => e \in Behind(d, f) /\ Cardinality(Behind(d, f)) >= 1
    <3> SUFFICES ASSUME passed PROVE e \in Behind(d, f) /\ Cardinality(Behind(d, f)) >= 1
      OBVIOUS
    <3>1. e \in Behind(d, f)
      BY <1>1 DEF Behind
    <3>2. Cardinality(Behind(d, f)) # 0
      BY <2>5, <3>1, FS_EmptySet
    <3> QED
      BY <2>5, <3>1, <3>2
  <2>7. /\ overtaken[f] <= Bound(f)
        /\ status[f] = "pending" /\ f \notin batch[d] =>
               overtaken[f] + Cardinality(Behind(d, f)) <= Bound(f)
    BY DEF Spaced, RoomLeft
  <2>8. Bound(f) \in Nat
    BY BoundType DEF IInv
  <2>9. overtaken'[f] <= Bound(f)
    <3>1. CASE passed
      BY <2>1, <2>2, <2>4, <2>5, <2>6, <2>7, <2>8, <3>1
    <3>2. CASE ~passed
      BY <2>2, <2>7, <3>2
    <3> QED
      BY <3>1, <3>2
  <2>10. ASSUME NEW o \in Daemons, status'[f] = "pending", f \notin batch'[o]
         PROVE  overtaken'[f] + Cardinality(Behind(o, f)') <= Bound(f)
    <3>1. CASE o # d
      BY <2>1, <2>2, <2>3, <2>8, <2>9, <3>1, FS_EmptySet
    <3>2. CASE o = d
      <4>1. f # e
        <5>1. status[e] = "pending" => status'[e] = "processing"
          BY DEF Claim, IInv, TypeOK
        <5> QED
          BY <1>3, <2>10, <5>1
      <4>2. f \notin batch[d] /\ status[f] = "pending"
        BY <1>2, <1>3, <2>10, <3>2, <4>1
      <4>3. overtaken[f] + Cardinality(Behind(d, f)) <= Bound(f)
        BY <2>7, <4>2
      <4>4. Behind(o, f)' = Behind(d, f) \ {e}
        BY <2>3, <3>2
      <4>5. CASE passed
        BY <2>1, <2>2, <2>5, <2>6, <2>8, <4>3, <4>4, <4>5
      <4>6. CASE ~passed
        BY <2>1, <2>2, <2>5, <2>8, <4>3, <4>4, <4>6
      <4> QED
        BY <4>5, <4>6
    <3> QED
      BY <3>1, <3>2
  <2>11. status'[f] = "absent" => overtaken'[f] = 0
    BY <1>3, <2>2 DEF Spaced, RoomLeft
  <2>12. status'[f] # "absent" => kind'[f] \in Kinds
    BY <1>1, <1>3 DEF Spaced, RoomLeft
  <2> QED
    BY <2>1, <2>9, <2>10, <2>11, <2>12 DEF RoomLeft
<1> QED
  BY <1>5, <1>6 DEF Spaced

\* A row that a pause drops from the batch may be overtaken by the rest of it.
LEMMA SkipSpaced ==
    ASSUME ExclusiveStart, IInv, Spaced, NEW d \in Daemons, NEW e \in Ids, SkipPaused(d, e)
    PROVE  Spaced'
<1>1. /\ batch' = [batch EXCEPT ![d] = @ \ {e}] /\ pc[d] = "batch" /\ e \in batch[d]
      /\ skipped' = [skipped EXCEPT ![e] = @ + 1]
      /\ UNCHANGED <<status, kind, pc, overtaken>> /\ Alive(d)
  BY DEF SkipPaused, Offered, IsHead, Alive, queueVars
<1>2. /\ \A o \in Daemons \ {d} : batch'[o] = {}
      /\ batch'[d] = batch[d] \ {e} /\ batch[d] \subseteq Ids
  BY <1>1, OneBatch DEF IInv, TypeOK
<1>3. /\ IsFiniteSet(batch[d]) /\ Cardinality(batch[d]) <= MaxPerCycle
      /\ IsFiniteSet(batch'[d]) /\ Cardinality(batch'[d]) = Cardinality(batch[d]) - 1
      /\ Cardinality(batch[d]) \in Nat
  BY <1>1, <1>2, FS_RemoveElement, FS_CardinalityType DEF Spaced, Batched
<1>4. ASSUME NEW o \in Daemons PROVE Batched(o)'
  <2>1. CASE o # d
    BY <1>2, <2>1, FS_EmptySet, BoundsAssumption DEF Batched
  <2>2. CASE o = d
    BY <1>1, <1>2, <1>3, <2>2, BoundsAssumption DEF Batched, Spaced
  <2> QED
    BY <2>1, <2>2
<1>5. ASSUME NEW f \in Ids PROVE RoomLeft(f)'
  <2>1. overtaken[f] \in Nat /\ overtaken[f] <= Bound(f) /\ Bound(f) \in Nat /\ skipped[f] \in Nat
    BY BoundType DEF Spaced, RoomLeft, IInv, TypeOK
  <2>2. Bound(f)' = IF f = e THEN Bound(f) + (MaxPerCycle - 1) ELSE Bound(f)
    <3>1. \A a \in Nat, b \in Int : b * (a + 1) = b * a + b
      OBVIOUS
    <3>2. skipped'[f] = IF f = e THEN skipped[f] + 1 ELSE skipped[f]
      BY <1>1 DEF IInv, TypeOK
    <3>3. \A a \in Nat, b \in Int : b * a \in Int
      OBVIOUS
    <3>4. MaxPerCycle \in Nat /\ MaxPerCycle - 1 \in Int
      BY BoundsAssumption
    <3>5. (MaxPerCycle - 1) * skipped[f] \in Int
      BY <2>1, <3>3, <3>4
    <3>6. (MaxPerCycle - 1) * (skipped[f] + 1) = (MaxPerCycle - 1) * skipped[f] + (MaxPerCycle - 1)
      BY <2>1, <3>1, <3>4
    <3> QED
      BY <3>2, <3>4, <3>5, <3>6 DEF Bound
  <2>3. \A o \in Daemons : Behind(o, f)' \subseteq IF o = d THEN batch'[d] ELSE {}
    BY <1>2 DEF Behind
  <2>4. Cardinality(Behind(d, f)') \in Nat /\ Cardinality(Behind(d, f)') <= MaxPerCycle - 1
    <3>1. /\ IsFiniteSet(Behind(d, f)')
          /\ Cardinality(Behind(d, f)') <= Cardinality(batch'[d])
      BY <1>3, <2>3, FS_Subset
    <3> QED
      BY <1>3, <3>1, FS_CardinalityType, BoundsAssumption
  <2>5. ASSUME NEW o \in Daemons, status[f] = "pending", f \notin batch'[o]
        PROVE  overtaken[f] + Cardinality(Behind(o, f)') <= Bound(f)'
    <3>1. CASE o # d
      <4>1. Behind(o, f)' = {}
        BY <2>3, <3>1
      <4> QED
        BY <2>1, <2>2, <4>1, FS_EmptySet, BoundsAssumption
    <3>2. CASE o = d /\ f = e
      BY <2>1, <2>2, <2>4, <3>2, BoundsAssumption
    <3>3. CASE o = d /\ f # e
      <4>1. f \notin batch[d]
        BY <1>2, <2>5, <3>3
      <4>2. overtaken[f] + Cardinality(Behind(d, f)) <= Bound(f)
        BY <2>5, <4>1 DEF Spaced, RoomLeft
      <4>3. Behind(d, f)' \subseteq Behind(d, f)
        BY <1>1, <1>2 DEF Behind, Urgency
      <4>4. Cardinality(Behind(d, f)') <= Cardinality(Behind(d, f)) /\ Cardinality(Behind(d, f)) \in Nat
        BY <4>3, BehindIsSmall, FS_Subset
      <4> QED
        BY <2>1, <2>2, <2>4, <3>3, <4>2, <4>4
    <3> QED
      BY <3>1, <3>2, <3>3
  <2>6. overtaken[f] <= Bound(f)'
    BY <2>1, <2>2, BoundsAssumption
  <2> QED
    BY <1>1, <2>5, <2>6 DEF RoomLeft, Spaced
<1> QED
  BY <1>4, <1>5 DEF Spaced

\* The reset of a start-up finds no batch; every other step leaves the counts alone,
\* adds nothing to a batch and offers nothing again.
LEMMA ResetSpaced ==
    ASSUME ExclusiveStart, IInv, Spaced, NEW d \in Daemons, ResetStale(d)
    PROVE  Spaced'
<1>1. /\ pc[d] = "starting" /\ UNCHANGED <<kind, batch, overtaken, skipped>> /\ Alive(d)
      /\ pc' = [pc EXCEPT ![d] = "polling"]
      /\ \A f \in Ids : status'[f] = "absent" <=> status[f] = "absent"
  BY DEF ResetStale, histVars, Alive
<1>2. \A o \in Daemons : batch[o] = {}
  BY <1>1, OneBatch DEF Spaced, Batched
<1>3. \A o \in Daemons, f \in Ids : Behind(o, f)' = {}
  BY <1>1, <1>2 DEF Behind
<1>4. ASSUME NEW o \in Daemons PROVE Batched(o)'
  BY <1>1, <1>2, FS_EmptySet, BoundsAssumption DEF Batched
<1>5. ASSUME NEW f \in Ids PROVE RoomLeft(f)'
  <2>1. overtaken[f] \in Nat /\ overtaken[f] <= Bound(f) /\ Bound(f)' = Bound(f)
    BY <1>1 DEF Spaced, RoomLeft, IInv, TypeOK, Bound
  <2> QED
    BY <1>1, <1>3, <2>1, FS_EmptySet DEF RoomLeft, Spaced
<1> QED
  BY <1>4, <1>5 DEF Spaced

LEMMA QuietSpaced ==
    ASSUME IInv, Spaced, UNCHANGED <<kind, overtaken, skipped>>,
           \A f \in Ids : /\ status'[f] = "absent" <=> status[f] = "absent"
                          /\ status'[f] = "pending" => status[f] = "pending",
           \A o \in Daemons :
               \/ batch'[o] = {}
               \/ batch'[o] = batch[o] /\ (pc'[o] = pc[o] \/ pc'[o] \in {"batch", "working"}),
           \A o \in Daemons : batch[o] \subseteq Ids
    PROVE  Spaced'
<1>1. ASSUME NEW o \in Daemons PROVE Batched(o)'
  <2>1. Batched(o)
    BY DEF Spaced
  <2>2. CASE batch'[o] = {}
    BY <2>2, FS_EmptySet, BoundsAssumption DEF Batched
  <2>3. CASE batch'[o] = batch[o] /\ (pc'[o] = pc[o] \/ pc'[o] \in {"batch", "working"})
    BY <2>1, <2>3 DEF Batched
  <2> QED
    BY <2>2, <2>3
<1>2. ASSUME NEW f \in Ids PROVE RoomLeft(f)'
  <2>1. overtaken[f] \in Nat /\ overtaken[f] <= Bound(f) /\ Bound(f)' = Bound(f)
    BY DEF Spaced, RoomLeft, IInv, TypeOK, Bound
  <2>2. \A o \in Daemons : (Behind(o, f)' = Behind(o, f) /\ batch'[o] = batch[o]) \/ Behind(o, f)' = {}
    BY DEF Behind, Urgency
  <2>3. ASSUME NEW o \in Daemons, status'[f] = "pending", f \notin batch'[o]
        PROVE  overtaken[f] + Cardinality(Behind(o, f)') <= Bound(f)
    <3>1. CASE Behind(o, f)' = {}
      BY <2>1, <3>1, FS_EmptySet
    <3>2. CASE Behind(o, f)' = Behind(o, f) /\ batch'[o] = batch[o]
      BY <2>3, <3>2 DEF Spaced, RoomLeft
    <3> QED
      BY <2>2, <3>1, <3>2
  <2> QED
    BY <2>1, <2>3 DEF Spaced, RoomLeft
<1> QED
  BY <1>1, <1>2 DEF Spaced

LEMMA SpacedStep ==
    ASSUME ExclusiveStart, IInv, TypeOK', Spaced, [Next]_vars
    PROVE  Spaced'
<1> USE DEF queueVars, procVars, histVars
<1>0. TypeOK /\ InHand /\ \A o \in Daemons : batch[o] \subseteq Ids
  BY DEF IInv, Safe, TypeOK
<1>1. CASE UNCHANGED vars \/ Pause \/ Resume
  BY <1>0, <1>1, QuietSpaced DEF vars, Pause, Resume
<1>2. ASSUME NEW k \in Kinds, Emit(k) PROVE Spaced'
  BY <1>2, EmitSpaced
<1>3. ASSUME NEW d \in Daemons, CheckPid(d) \/ WritePid(d) \/ RequestStop(d) PROVE Spaced'
  <2>1. /\ UNCHANGED <<kind, status, overtaken, skipped, batch>>
        /\ \A o \in Daemons : pc'[o] = pc[o] \/ (o = d /\ pc[d] \in {"down", "checked"})
    BY <1>0, <1>3 DEF CheckPid, WritePid, RequestStop, TypeOK
  <2>2. \A o \in Daemons : batch'[o] = {} \/ (batch'[o] = batch[o] /\ pc'[o] = pc[o])
    BY <2>1 DEF Spaced, Batched
  <2> QED
    BY <1>0, <2>1, <2>2, QuietSpaced
<1>4. ASSUME NEW d \in Daemons, EndBatch(d) PROVE Spaced'
  <2>1. \A o \in Daemons : batch'[o] = {} \/ (batch'[o] = batch[o] /\ pc'[o] = pc[o])
    BY <1>0, <1>4 DEF EndBatch, TypeOK
  <2> QED
    BY <1>0, <1>4, <2>1, QuietSpaced DEF EndBatch
<1>5. ASSUME NEW d \in Daemons, MarkEarly(d) \/ MarkCompleted(d) \/ MarkFailed(d) PROVE Spaced'
  <2>1. PICK r \in Terminal : status' = [status EXCEPT ![cur[d]] = r]
    BY <1>5 DEF MarkEarly, MarkCompleted, MarkFailed, MarkDone, Terminal
  <2>2. /\ UNCHANGED <<kind, overtaken, skipped, batch>> /\ pc[d] = "working"
        /\ \A o \in Daemons : pc'[o] = pc[o] \/ pc'[o] = "batch"
    BY <1>0, <1>5 DEF MarkEarly, MarkCompleted, MarkFailed, MarkDone, TypeOK
  <2>3. cur[d] \in Ids /\ status[cur[d]] # "absent"
    BY <1>0, <2>2 DEF InHand, TypeOK, Terminal, None
  <2>4. \A f \in Ids : /\ status'[f] = "absent" <=> status[f] = "absent"
                       /\ status'[f] = "pending" => status[f] = "pending"
    BY <1>0, <2>1, <2>3 DEF TypeOK, Terminal
  <2> QED
    BY <1>0, <2>2, <2>4, QuietSpaced
<1>6. ASSUME NEW d \in Daemons, Crash(d) \/ Abort(d) \/ Exit(d) PROVE Spaced'
  <2>1. \A o \in Daemons : batch'[o] = {} \/ (batch'[o] = batch[o] /\ pc'[o] = pc[o])
    BY <1>0, <1>6 DEF Crash, Abort, Exit, Gone, TypeOK
  <2>2. UNCHANGED <<status, kind, overtaken, skipped>>
    BY <1>6 DEF Crash, Abort, Exit
  <2> QED
    BY <1>0, <2>1, <2>2, QuietSpaced
<1> QED
  BY <1>1, <1>2, <1>3, <1>4, <1>5, <1>6, PollSpaced, ClaimSpaced, SkipSpaced, ResetSpaced
     DEF Next, StartStep, LoopStep

LEMMA SpacedStart == Init => Spaced
<1> SUFFICES ASSUME Init PROVE Spaced
  OBVIOUS
<1>1. \A d \in Daemons : Batched(d)
  BY FS_EmptySet, BoundsAssumption DEF Init, Batched
<1>2. ASSUME NEW f \in Ids PROVE RoomLeft(f)
  <2>1. overtaken[f] = 0 /\ status[f] = "absent"
    BY DEF Init
  <2>2. Bound(f) \in Nat
    <3>1. skipped[f] = 0
      BY DEF Init
    <3>2. \A a \in Int : a * 0 = 0
      OBVIOUS
    <3> QED
      BY <3>1, <3>2, BoundsAssumption DEF Bound
  <2> QED
    BY <2>1, <2>2 DEF RoomLeft
<1> QED
  BY <1>1, <1>2 DEF Spaced

\* With one daemon launched at a time, an event is overtaken by less urgent ones at
\* most once for every row of a batch, and by one less for every time a pause drops it,
\* for every number of events, every size of batch and however often daemons die
\* (event_bus.py:stream, daemon.py:run).
THEOREM OvertakingIsBounded == Spec => [](ExclusiveStart => BoundedOvertaking)
<1>1. Init => (ExclusiveStart => Spaced)
  BY SpacedStart
<1>2. IInv /\ IInv' /\ (ExclusiveStart => Spaced) /\ [Next]_vars => (ExclusiveStart => Spaced)'
  BY SpacedStep DEF IInv
<1>3. (ExclusiveStart => Spaced) => (ExclusiveStart => BoundedOvertaking)
  BY DEF Spaced, RoomLeft, BoundedOvertaking, Bound
<1> QED
  BY <1>1, <1>2, <1>3, Invariant, PTL DEF Spec

=============================================================================
