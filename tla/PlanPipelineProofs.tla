------------------------- MODULE PlanPipelineProofs -------------------------
(***************************************************************************)
(* Proofs about PlanPipeline.tla and the guardrails in front of it         *)
(* (Guardrails.tla), for any events, plans, requests and crashes.          *)
(*                                                                         *)
(* RepeatsNeedACrash counts handler runs, the code looks at entries of the *)
(* working memory, and between the two lies the commit of the row.  The    *)
(* inductive invariant (Remembered) says what each run of the last 90      *)
(* seconds has left: an entry, a row about to be written, or a crash.      *)
(* NoMinuteAboveLimit looks at what was let through, the guard at a log    *)
(* that is pruned: RateSafe says that the log holds all of the last minute *)
(* and that those further apart than the limit are a minute apart.         *)
(***************************************************************************)
EXTENDS PlanPipeline, Guardrails, FiniteSetTheorems, TLAPS

\* An action is being worked on only where there is one.
AtAStep == stage = "acted" => pos <= Len(plan)

\* The handler of a had an effect and its entry is not written yet.
InDoubt(a) == stage = "acted" /\ outcome # "failed" /\ Act = a

\* Every effect but one per crash has its entry, or will get it; and what is
\* being worked on has none yet.
Remembered ==
    /\ \A a \in Deduped :
           freshRuns[a] <= crashes + (IF a \in recent \/ InDoubt(a) THEN 1 ELSE 0)
    /\ stage = "acted" => Act \notin recent

-----------------------------------------------------------------------------

LEMMA PlanTypeInit == Init => TypeOK /\ AtAStep
<1>1. Len(<< >>) = 0
  OBVIOUS
<1>2. Init => /\ waiting \in [Queued -> Nat] /\ freshRuns \in [Deduped -> Nat]
              /\ status \in [Events -> {"pending", "processing", "completed", "failed"}]
  BY DEF Init
<1>3. Init => pos \in 1..(Len(plan) + 1) /\ plan \in {<< >>} \cup Plans
  BY <1>1 DEF Init
<1>4. Init => stage \in Stages /\ hand \in Events \cup {NoEvent} /\ stopping \in BOOLEAN
  BY DEF Init, Stages
<1> QED
  BY <1>2, <1>3, <1>4 DEF Init, TypeOK, AtAStep

LEMMA StepIsOne ==
    ASSUME TypeOK, pos <= Len(plan)
    PROVE  Step \in Steps /\ Act \in Actions
<1>1. plan \in Seq(Steps)
  BY PlanAssumption DEF TypeOK
<1>2. pos \in 1..Len(plan)
  BY <1>1 DEF TypeOK
<1>3. Step \in Steps
  BY <1>1, <1>2 DEF Step
<1> QED
  BY <1>3, PlanAssumption DEF Act

\* What the exits of the loop body have in common.
LEMMA AdvanceTypes ==
    ASSUME TypeOK, pos <= Len(plan), Advance,
           NEW open \in BOOLEAN, Row(open),
           \/ UNCHANGED memoryVars
           \/ \E a \in Actions : Remember(a)
    PROVE  /\ stage' = "loop" /\ outcome' = "none" /\ plan' = plan
           /\ pos' \in 1..(Len(plan) + 1)
           /\ waiting' \in [Queued -> Nat] /\ logged' \in Nat
           /\ recent' \subseteq Deduped /\ decided' \subseteq Steps
<1>1. Step \in Steps
  BY StepIsOne
<1>2. Len(plan) \in Nat
  BY PlanAssumption DEF TypeOK
<1>3. waiting' \in [Queued -> Nat] /\ logged' \in Nat
  BY DEF TypeOK, Row
<1>4. recent' \subseteq Deduped /\ decided' \subseteq Steps
  BY <1>1 DEF TypeOK, Remember, memoryVars
<1> QED
  BY <1>2, <1>3, <1>4 DEF TypeOK, Advance

LEMMA PlanTypeStep ==
    ASSUME TypeOK, AtAStep, [Next]_vars
    PROVE  TypeOK' /\ AtAStep'
<1>0. Len(plan) \in Nat /\ Len(<< >>) = 0
  BY PlanAssumption DEF TypeOK
<1> USE DEF memoryVars, rowVars, counters
<1>1. CASE UNCHANGED vars
  BY <1>1 DEF vars, TypeOK, AtAStep
<1>2. CASE Restart \/ Exit \/ RequestStop \/ AskClaude
  <2>1. status' \in [Events -> {"pending", "processing", "completed", "failed"}]
    BY <1>2 DEF Restart, Exit, RequestStop, AskClaude, TypeOK
  <2>2. /\ stage' \in Stages /\ (hand = NoEvent <=> stage' \in {"down", "idle"})
        /\ stage' # stage => stage' # "acted"
        /\ stops' \in Nat
        /\ UNCHANGED <<hand, plan, pos, outcome, memoryVars, rowVars, crashes, freshRuns>>
    BY <1>2 DEF Restart, Exit, RequestStop, AskClaude, TypeOK, Stages
  <2>3. stopping' \in BOOLEAN
    BY <1>2 DEF Restart, Exit, RequestStop, AskClaude, TypeOK
  <2> QED
    BY <2>1, <2>2, <2>3 DEF TypeOK, AtAStep
<1>3. ASSUME NEW e \in Events, Take(e) PROVE TypeOK' /\ AtAStep'
  BY <1>3, PlanAssumption DEF Take, TypeOK, AtAStep, Stages
<1>4. CASE SkipEvent \/ BlockContext \/ StopEarly \/ Finish \/ Fail
  BY <1>0, <1>4 DEF SkipEvent, BlockContext, StopEarly, Finish, Fail, Verdict, TypeOK, AtAStep,
                    Stages
<1>5. ASSUME NEW p \in Plans, Answer(p) PROVE TypeOK' /\ AtAStep'
  <2>1. Len(p) \in Nat
    BY PlanAssumption
  <2> QED
    BY <1>5, <2>1 DEF Answer, TypeOK, AtAStep, Stages
<1>6. CASE BlockOutput \/ SuppressDuplicate \/ SuppressWaiting \/ Escalate \/ Note \/ LogHandled
  <2>1. pos <= Len(plan)
    BY <1>6 DEF BlockOutput, SuppressDuplicate, SuppressWaiting, Escalate, Note, LogHandled,
                InLoop, AtAStep
  <2>2. Act \in Actions
    BY <2>1, StepIsOne
  <2>3. /\ Advance
        /\ \E open \in BOOLEAN : Row(open)
        /\ UNCHANGED memoryVars \/ \E a \in Actions : Remember(a)
    BY <1>6, <2>2 DEF BlockOutput, SuppressDuplicate, SuppressWaiting, Escalate, Note,
                      LogHandled, Actions
  <2>4. /\ stage' = "loop" /\ outcome' = "none" /\ plan' = plan
        /\ pos' \in 1..(Len(plan) + 1)
        /\ waiting' \in [Queued -> Nat] /\ logged' \in Nat
        /\ recent' \subseteq Deduped /\ decided' \subseteq Steps
    BY <2>1, <2>3, AdvanceTypes
  <2>5. status' \in [Events -> {"pending", "processing", "completed", "failed"}]
    BY <1>6 DEF BlockOutput, SuppressDuplicate, SuppressWaiting, Escalate, Note, LogHandled,
                TypeOK
  <2>6. hand # NoEvent
    BY <1>6 DEF BlockOutput, SuppressDuplicate, SuppressWaiting, Escalate, Note, LogHandled,
                InLoop, TypeOK
  <2> QED
    BY <2>3, <2>4, <2>5, <2>6 DEF Advance, TypeOK, AtAStep, Stages
<1>7. ASSUME NEW o \in {"ok", "partial", "failed"}, Handle(o) PROVE TypeOK' /\ AtAStep'
  BY <1>7 DEF Handle, InLoop, TypeOK, AtAStep, Stages
<1>8. CASE Crash
  <2>1. /\ stage' = "down" /\ hand' = NoEvent /\ plan' = << >> /\ pos' = 1
        /\ stopping' = FALSE /\ outcome' = "none" /\ crashes' \in Nat
        /\ UNCHANGED <<status, memoryVars, rowVars, stops, freshRuns>>
    BY <1>8 DEF Crash, TypeOK
  <2>2. pos' \in 1..(Len(plan') + 1)
    BY <1>0, <2>1
  <2> QED
    BY <2>1, <2>2 DEF TypeOK, AtAStep, Stages
<1>9. ASSUME NEW a \in Deduped, Age(a) PROVE TypeOK' /\ AtAStep'
  BY <1>9 DEF Age, TypeOK, AtAStep
<1>10. ASSUME NEW a \in Queued, Decide(a) PROVE TypeOK' /\ AtAStep'
  BY <1>10 DEF Decide, TypeOK, AtAStep
<1> QED
  BY <1>1, <1>2, <1>3, <1>4, <1>5, <1>6, <1>7, <1>8, <1>9, <1>10 DEF Next, Pipeline, World

-----------------------------------------------------------------------------

LEMMA RememberedInit == Init => Remembered
BY DEF Init, Remembered, InDoubt

\* A handler only runs where there is no entry, and only its row makes the
\* entry; a crash takes the doubt and counts itself.
LEMMA RememberedStep ==
    ASSUME TypeOK, AtAStep, Remembered, [Next]_vars
    PROVE  Remembered'
<1> USE DEF Remembered, InDoubt, memoryVars, rowVars, counters
<1>0. freshRuns \in [Deduped -> Nat] /\ crashes \in Nat
  BY DEF TypeOK
<1>1. ASSUME NEW o \in {"ok", "partial", "failed"}, Handle(o) PROVE Remembered'
  <2>1. /\ stage = "loop" /\ stage' = "acted" /\ outcome' = o
        /\ UNCHANGED <<plan, pos, recent, crashes>>
        /\ Act \in Deduped => Act \notin recent
    BY <1>1 DEF Handle, InLoop, Free, IsDuplicate
  <2>2. Act' = Act
    BY <2>1 DEF Act, Step
  <2>3. \A a \in Deduped :
           freshRuns'[a] = freshRuns[a] + IF o # "failed" /\ a = Act THEN 1 ELSE 0
    BY <1>1 DEF Handle
  <2>4. Act \notin recent
    BY <2>1 DEF TypeOK
  <2> QED
    BY <1>0, <2>1, <2>2, <2>3, <2>4
<1>2. CASE LogHandled
  <2>1. /\ stage' = "loop" /\ UNCHANGED <<crashes, freshRuns>>
        /\ recent' = recent \cup ({Act} \cap Deduped)
    BY <1>2 DEF LogHandled, Advance, Remember
  <2> QED
    BY <1>0, <2>1
<1>3. CASE Crash
  <2>1. stage' = "down" /\ crashes' = crashes + 1 /\ UNCHANGED <<recent, freshRuns>>
    BY <1>3 DEF Crash
  <2> QED
    BY <1>0, <2>1
<1>4. ASSUME NEW a \in Deduped, Age(a) PROVE Remembered'
  <2>1. /\ UNCHANGED <<stage, plan, pos, outcome, crashes>>
        /\ recent' = recent \ {a} /\ freshRuns' = [freshRuns EXCEPT ![a] = 0]
    BY <1>4 DEF Age
  <2>2. Act' = Act
    BY <2>1 DEF Act, Step
  <2> QED
    BY <1>0, <2>1, <2>2
<1>5. ASSUME stage # "acted", stage' # "acted", recent \subseteq recent',
             UNCHANGED <<crashes, freshRuns>>
      PROVE  Remembered'
  BY <1>0, <1>5
<1>6. CASE \/ Restart \/ SkipEvent \/ BlockContext \/ StopEarly \/ AskClaude
           \/ \E e \in Events : Take(e)
           \/ \E p \in Plans : Answer(p)
           \/ BlockOutput \/ SuppressDuplicate \/ SuppressWaiting \/ Escalate \/ Note
           \/ Finish \/ Fail \/ Exit
  <2>1. stage # "acted" /\ stage' # "acted"
    BY <1>6 DEF Restart, SkipEvent, BlockContext, StopEarly, AskClaude, Take, Answer, BlockOutput,
                SuppressDuplicate, SuppressWaiting, Escalate, Note, Finish, Fail, Exit, Verdict,
                InLoop, Advance
  <2>2. recent \subseteq recent' /\ UNCHANGED <<crashes, freshRuns>>
    BY <1>6 DEF Restart, SkipEvent, BlockContext, StopEarly, AskClaude, Take, Answer, BlockOutput,
                SuppressDuplicate, SuppressWaiting, Escalate, Note, Finish, Fail, Exit, Verdict,
                Advance, Remember
  <2> QED
    BY <1>5, <2>1, <2>2
<1>7. CASE UNCHANGED vars \/ RequestStop \/ \E a \in Queued : Decide(a)
  <2>1. UNCHANGED <<stage, plan, pos, outcome, recent, crashes, freshRuns>>
    BY <1>7 DEF vars, RequestStop, Decide
  <2>2. Act' = Act
    BY <2>1 DEF Act, Step
  <2> QED
    BY <2>1, <2>2
<1> QED
  BY <1>1, <1>2, <1>3, <1>4, <1>6, <1>7 DEF Next, Pipeline, World

\* The stages, the plan and the place in it stay what they should be, and an
\* event is in hand exactly while it is being worked on.
THEOREM PlanTypeCorrect == Spec => []TypeOK
<1>1. TypeOK /\ AtAStep /\ [Next]_vars => (TypeOK /\ AtAStep)'
  BY PlanTypeStep
<1> QED
  BY PlanTypeInit, <1>1, PTL DEF Spec

\* Whatever the plans, the events and the failures, a handler that trades has an
\* effect once in 90 seconds, and once more per crash.
THEOREM TradesAreNotRepeated == Spec => []RepeatsNeedACrash
<1> DEFINE IInv == TypeOK /\ AtAStep /\ Remembered
<1>1. Init => IInv
  BY PlanTypeInit, RememberedInit
<1>2. IInv /\ [Next]_vars => IInv'
  BY PlanTypeStep, RememberedStep
<1>3. IInv => RepeatsNeedACrash
  BY DEF TypeOK, Remembered, RepeatsNeedACrash
<1> QED
  BY <1>1, <1>2, <1>3, PTL DEF Spec


-----------------------------------------------------------------------------
(* The guardrails.                                                         *)

Times(log) == log \in Seq(Nat) /\ \A i \in 1..Len(log) : log[i] <= clock
Sorted(log) == \A i, j \in 1..Len(log) : i <= j => log[i] <= log[j]

\* Counted from the end, every order let through is behind one of the log that is
\* not earlier, as far back as the log remembers.
Logged ==
    \A k \in 1..LogSize :
        k <= Len(letThrough) =>
            /\ k <= Len(orderLog)
            /\ letThrough[Len(letThrough) - k + 1] <= orderLog[Len(orderLog) - k + 1]

\* An order and the one MaxPerMinute before it are a minute apart.
SpacedOut ==
    \A i \in 1..Len(letThrough) :
        i > MaxPerMinute => letThrough[i - MaxPerMinute] <= letThrough[i] - Window

RateSafe ==
    /\ clock \in Nat
    /\ Times(orderLog) /\ Times(letThrough)
    /\ Sorted(orderLog) /\ Sorted(letThrough)
    /\ Len(orderLog) <= LogSize
    /\ Logged
    /\ SpacedOut

\* Below the limit, the attempt MaxPerMinute ago is more than a minute old.
LEMMA BelowTheRate ==
    ASSUME RateSafe, ~RateExceeded, Len(orderLog) >= MaxPerMinute
    PROVE  orderLog[Len(orderLog) - MaxPerMinute + 1] <= clock - Window
<1> DEFINE n == Len(orderLog)
           m == n - MaxPerMinute + 1
<1> SUFFICES ASSUME orderLog[m] > clock - Window PROVE FALSE
  <2>1. orderLog[m] \in Nat /\ clock \in Nat
    BY GuardrailAssumption DEF RateSafe, Times
  <2> QED
    BY <2>1 DEF Window
<1>1. n \in Nat /\ m \in 1..n /\ DOMAIN orderLog = 1..n /\ \A i \in 1..n : orderLog[i] \in Nat
  BY GuardrailAssumption DEF RateSafe, Times
<1>2. m..n \subseteq RecentOrders
  <2> SUFFICES ASSUME NEW i \in m..n PROVE i \in DOMAIN orderLog /\ orderLog[i] > clock - Window
    BY DEF RecentOrders
  <2>1. i \in 1..n /\ m <= i
    BY <1>1
  <2>2. orderLog[m] <= orderLog[i]
    BY <1>1, <2>1 DEF RateSafe, Sorted
  <2> QED
    BY <1>1, <2>1, <2>2 DEF RateSafe, Window
<1>3. IsFiniteSet(RecentOrders)
  <2>1. RecentOrders \subseteq 1..n
    BY <1>1 DEF RecentOrders
  <2>2. IsFiniteSet(1..n)
    BY <1>1, FS_Interval
  <2> QED
    BY <2>1, <2>2, FS_Subset
<1>4. Cardinality(m..n) = MaxPerMinute
  <2>1. m \in Int /\ n \in Int /\ m <= n /\ n - m + 1 = MaxPerMinute
    BY <1>1, GuardrailAssumption
  <2> HIDE DEF m, n
  <2> QED
    BY <2>1, FS_Interval
<1>5. Cardinality(RecentOrders) >= MaxPerMinute
  <2>1. Cardinality(m..n) <= Cardinality(RecentOrders)
    BY <1>2, <1>3, FS_Subset
  <2>2. Cardinality(RecentOrders) \in Nat
    BY <1>3, FS_CardinalityType
  <2> QED
    BY <1>4, <2>1, <2>2, GuardrailAssumption
<1> QED
  BY <1>5 DEF RateExceeded

\* An attempt that is recorded.
LEMMA LogGrows ==
    ASSUME RateSafe, NEW log, log = OrderLogged, ~RateExceeded
    PROVE  /\ Times(log) /\ Sorted(log) /\ Len(log) <= LogSize
           /\ Len(log) >= 1 /\ log[Len(log)] = clock
           /\ \A k \in 1..LogSize :
                 /\ k + 1 <= Len(log) => log[Len(log) - k] = orderLog[Len(orderLog) - k + 1]
                 /\ k <= Len(orderLog) /\ k + 1 <= LogSize => k + 1 <= Len(log)
                 /\ k <= Len(orderLog) => k <= Len(log)
<1> DEFINE n == Len(orderLog)
           all == Append(orderLog, clock)
<1>1. /\ n \in Nat /\ clock \in Nat /\ orderLog \in Seq(Nat) /\ LogSize \in Nat \ {0} /\ n <= LogSize
      /\ all \in Seq(Nat) /\ Len(all) = n + 1 /\ all[n + 1] = clock
      /\ \A i \in 1..n : all[i] = orderLog[i] /\ orderLog[i] \in Nat /\ orderLog[i] <= clock
      /\ \A i, j \in 1..n : i <= j => orderLog[i] <= orderLog[j]
  BY GuardrailAssumption DEF RateSafe, Times, Sorted
<1>2. Times(all) /\ Sorted(all)
  BY <1>1 DEF Times, Sorted
<1>3. CASE Len(all) <= LogSize
  <2>1. log = all
    BY <1>1, <1>3 DEF OrderLogged
  <2> HIDE DEF all
  <2>2. \A k \in 1..LogSize : /\ k + 1 <= n + 1 => n + 1 - k \in 1..n /\ n + 1 - k = n - k + 1
                              /\ k <= n => k + 1 <= n + 1 /\ k <= n + 1
    BY <1>1
  <2>3. \A k \in 1..LogSize : k + 1 <= n + 1 => all[n + 1 - k] = orderLog[n - k + 1]
    BY <1>1, <2>2
  <2>4. Len(log) = n + 1 /\ log[Len(log)] = clock /\ Len(log) >= 1
    BY <1>1, <2>1
  <2>5. \A k \in 1..LogSize : /\ k + 1 <= Len(log) => log[Len(log) - k] = orderLog[n - k + 1]
                              /\ k <= n => k + 1 <= Len(log) /\ k <= Len(log)
    BY <2>1, <2>2, <2>3, <2>4
  <2> QED
    BY <1>2, <1>3, <2>1, <2>4, <2>5
<1>4. CASE Len(all) > LogSize
  <2>1. log = Tail(all)
    BY <1>1, <1>4 DEF OrderLogged
  <2> HIDE DEF all
  <2>2. /\ log \in Seq(Nat) /\ Len(log) = n /\ n = LogSize
        /\ \A i \in 1..n : log[i] = all[i + 1]
    BY <1>1, <1>4, <2>1
  <2>3. Times(log) /\ Sorted(log)
    BY <1>1, <1>2, <2>2 DEF Times, Sorted
  <2> QED
    BY <1>1, <2>2, <2>3
<1> QED
  BY <1>1, <1>3, <1>4

LEMMA AttemptStep ==
    ASSUME RateSafe, clock' = clock, orderLog' = OrderLogged,
           letThrough' = letThrough \/ (~RateExceeded /\ letThrough' = Append(letThrough, clock))
    PROVE  RateSafe'
<1> DEFINE n == Len(letThrough)
<1>0. clock \in Nat /\ letThrough \in Seq(Nat) /\ n \in Nat /\ LogSize \in Nat /\ orderLog \in Seq(Nat)
  BY GuardrailAssumption DEF RateSafe, Times
<1>9. LogSize \in Nat \ {0} /\ MaxPerMinute \in 1..LogSize
  BY GuardrailAssumption
<1>1. CASE RateExceeded
  BY <1>1 DEF RateSafe, OrderLogged, Times, Sorted, Logged, SpacedOut
<1>2. CASE ~RateExceeded /\ letThrough' = letThrough
  <2>1. /\ Times(orderLog)' /\ Sorted(orderLog)' /\ Len(orderLog') <= LogSize
        /\ Len(orderLog') >= 1 /\ orderLog'[Len(orderLog')] = clock
        /\ \A k \in 1..LogSize :
              /\ k + 1 <= Len(orderLog') =>
                    orderLog'[Len(orderLog') - k] = orderLog[Len(orderLog) - k + 1]
              /\ k <= Len(orderLog) => k <= Len(orderLog')
    BY <1>2, LogGrows DEF Times, Sorted
  <2>2. Logged'
    <3> SUFFICES ASSUME NEW k \in 1..LogSize, k <= n
                 PROVE  /\ k <= Len(orderLog')
                        /\ letThrough[n - k + 1] <= orderLog'[Len(orderLog') - k + 1]
      BY <1>2 DEF Logged
    <3>1. k <= Len(orderLog) /\ letThrough[n - k + 1] <= orderLog[Len(orderLog) - k + 1]
      BY DEF RateSafe, Logged
    <3>2. k <= Len(orderLog') /\ orderLog' \in Seq(Nat) /\ k \in Nat
      BY <1>0, <2>1, <3>1 DEF Times
    <3>3. letThrough[n - k + 1] \in Nat /\ letThrough[n - k + 1] <= clock
      BY <1>0 DEF RateSafe, Times
    <3>4. CASE k = 1
      BY <2>1, <3>2, <3>3, <3>4
    <3>5. CASE k > 1
      <4>1. PICK m \in 1..LogSize : k = m + 1
        <5>1. k - 1 \in 1..LogSize /\ k = (k - 1) + 1
          BY <1>9, <3>2, <3>5
        <5> QED
          BY <5>1
      <4>2. m \in Nat /\ m >= 1
        BY <1>9, <4>1
      <4>3. PICK i \in 1..Len(orderLog) : i = Len(orderLog) - k + 1
        BY <1>0, <3>1, <3>2
      <4>4. PICK j \in 1..Len(orderLog) : j = Len(orderLog) - m + 1
        <5>1. Len(orderLog) \in Nat /\ m <= Len(orderLog)
          BY <1>0, <3>1, <4>1, <4>2
        <5>2. Len(orderLog) - m + 1 \in 1..Len(orderLog)
          BY <4>2, <5>1
        <5> QED
          BY <5>2
      <4>5. i <= j
        BY <1>0, <4>1, <4>2, <4>3, <4>4
      <4>6. orderLog[i] <= orderLog[j] /\ orderLog[i] \in Nat /\ orderLog[j] \in Nat
        BY <1>0, <4>5 DEF RateSafe, Sorted
      <4>7. orderLog'[Len(orderLog') - m] = orderLog[j]
        BY <2>1, <3>2, <4>1, <4>4
      <4>8. Len(orderLog') - k + 1 = Len(orderLog') - m
        BY <3>2, <4>1, <4>2
      <4>9. letThrough[n - k + 1] <= orderLog[i]
        BY <3>1, <4>3
      <4>10. letThrough[n - k + 1] <= orderLog[j]
        BY <3>3, <4>6, <4>9
      <4>11. orderLog'[Len(orderLog') - k + 1] = orderLog[j]
        BY <4>7, <4>8
      <4> QED
        BY <3>2, <4>10, <4>11
    <3> QED
      BY <3>4, <3>5
  <2> QED
    BY <1>0, <1>2, <2>1, <2>2 DEF RateSafe, Times, Sorted, SpacedOut
<1>3. CASE ~RateExceeded /\ letThrough' = Append(letThrough, clock)
  <2>1. /\ Times(orderLog)' /\ Sorted(orderLog)' /\ Len(orderLog') <= LogSize
        /\ Len(orderLog') >= 1 /\ orderLog'[Len(orderLog')] = clock
        /\ \A k \in 1..LogSize :
              /\ k + 1 <= Len(orderLog') =>
                    orderLog'[Len(orderLog') - k] = orderLog[Len(orderLog) - k + 1]
              /\ k <= Len(orderLog) /\ k + 1 <= LogSize => k + 1 <= Len(orderLog')
    BY <1>3, LogGrows DEF Times, Sorted
  <2>2. /\ letThrough' \in Seq(Nat) /\ Len(letThrough') = n + 1 /\ letThrough'[n + 1] = clock
        /\ \A i \in 1..n : letThrough'[i] = letThrough[i] /\ letThrough[i] \in Nat /\ letThrough[i] <= clock
    BY <1>0, <1>3 DEF RateSafe, Times
  <2>3. Times(letThrough)' /\ Sorted(letThrough)'
    <3>1. Times(letThrough)'
      <4>1. \A i \in 1..(n + 1) : i = n + 1 \/ i \in 1..n
        BY <1>0
      <4>2. \A i \in 1..(n + 1) : letThrough'[i] <= clock
        <5> HIDE DEF n
        <5> SUFFICES ASSUME NEW i \in 1..(n + 1) PROVE letThrough'[i] <= clock
          OBVIOUS
        <5>1. CASE i = n + 1
          BY <1>0, <2>2, <5>1
        <5>2. CASE i \in 1..n
          BY <2>2, <5>2
        <5> QED
          BY <4>1, <5>1, <5>2
      <4> QED
        BY <2>2, <4>2 DEF Times
    <3>2. ASSUME NEW i \in 1..(n + 1), NEW j \in 1..(n + 1), i <= j
          PROVE  letThrough'[i] <= letThrough'[j]
      <4>1. CASE j \in 1..n
        <5>1. i \in 1..n
          BY <1>0, <3>2, <4>1
        <5>2. letThrough[i] <= letThrough[j]
          BY <3>2, <4>1, <5>1 DEF RateSafe, Sorted
        <5> QED
          BY <2>2, <4>1, <5>1, <5>2
      <4>2. CASE j = n + 1 /\ i \in 1..n
        BY <2>2, <4>2
      <4>3. CASE j = n + 1 /\ i = n + 1
        BY <1>0, <2>2, <4>3
      <4> QED
        BY <1>0, <4>1, <4>2, <4>3
    <3> QED
      BY <2>2, <3>1, <3>2 DEF Sorted
  <2>4. Logged'
    <3> SUFFICES ASSUME NEW k \in 1..LogSize, k <= n + 1
                 PROVE  /\ k <= Len(orderLog')
                        /\ letThrough'[n + 1 - k + 1] <= orderLog'[Len(orderLog') - k + 1]
      BY <2>2 DEF Logged
    <3>1. orderLog' \in Seq(Nat) /\ k \in Nat
      BY <2>1 DEF Times
    <3>2. CASE k = 1
      BY <1>0, <2>1, <2>2, <3>1, <3>2
    <3>3. CASE k > 1
      <4>1. PICK m \in 1..LogSize : k = m + 1
        <5>1. k - 1 \in 1..LogSize /\ k = (k - 1) + 1
          BY <1>9, <3>1, <3>3
        <5> QED
          BY <5>1
      <4>2. m \in Nat /\ m >= 1 /\ m <= n
        BY <1>0, <1>9, <4>1
      <4>3. m <= Len(orderLog) /\ letThrough[n - m + 1] <= orderLog[Len(orderLog) - m + 1]
        BY <4>1, <4>2 DEF RateSafe, Logged
      <4>4. PICK i \in 1..n : i = n - m + 1
        <5>1. n - m + 1 \in 1..n
          <6> HIDE DEF n
          <6> QED
            BY <1>0, <4>2
        <5> QED
          BY <5>1
      <4>5. n + 1 - k + 1 = i /\ Len(orderLog') - k + 1 = Len(orderLog') - m
        BY <1>0, <3>1, <4>1, <4>2, <4>4
      <4>6. k <= LogSize
        BY <1>9
      <4>7. k <= Len(orderLog') /\ orderLog'[Len(orderLog') - m] = orderLog[Len(orderLog) - m + 1]
        BY <2>1, <4>1, <4>3, <4>6
      <4>8. letThrough'[i] = letThrough[i]
        BY <2>2
      <4> QED
        BY <4>3, <4>4, <4>5, <4>7, <4>8
    <3> QED
      BY <3>2, <3>3
  <2>5. SpacedOut'
    <3> SUFFICES ASSUME NEW i \in 1..(n + 1), i > MaxPerMinute
                 PROVE  letThrough'[i - MaxPerMinute] <= letThrough'[i] - Window
      BY <2>2 DEF SpacedOut
    <3>1. CASE i <= n
      <4>1. i \in 1..n /\ i - MaxPerMinute \in 1..n
        BY <1>0, <1>9, <3>1
      <4>2. letThrough[i - MaxPerMinute] <= letThrough[i] - Window
        BY <4>1 DEF RateSafe, SpacedOut
      <4> QED
        BY <2>2, <4>1, <4>2
    <3>2. CASE i = n + 1
      <4>1. MaxPerMinute \in 1..LogSize /\ MaxPerMinute <= n
        BY <1>0, <3>2, GuardrailAssumption
      <4>2. /\ MaxPerMinute <= Len(orderLog)
            /\ letThrough[n - MaxPerMinute + 1] <= orderLog[Len(orderLog) - MaxPerMinute + 1]
        BY <4>1 DEF RateSafe, Logged
      <4>3. orderLog[Len(orderLog) - MaxPerMinute + 1] <= clock - Window
        BY <1>3, <4>2, BelowTheRate
      <4>4. n - MaxPerMinute + 1 = i - MaxPerMinute /\ n - MaxPerMinute + 1 \in 1..n
        BY <1>0, <3>2, <4>1
      <4>5. orderLog[Len(orderLog) - MaxPerMinute + 1] \in Nat
        <5>1. Len(orderLog) - MaxPerMinute + 1 \in 1..Len(orderLog)
          BY <1>0, <1>9, <4>2
        <5> QED
          BY <1>0, <5>1
      <4>6. /\ letThrough'[i - MaxPerMinute] = letThrough[n - MaxPerMinute + 1]
            /\ letThrough[n - MaxPerMinute + 1] \in Nat
            /\ letThrough'[i] = clock
        BY <2>2, <3>2, <4>4
      <4> HIDE DEF n
      <4> QED
        BY <1>0, <4>2, <4>3, <4>5, <4>6 DEF Window
    <3> QED
      BY <1>0, <3>1, <3>2
  <2> QED
    BY <1>0, <2>1, <2>3, <2>4, <2>5 DEF RateSafe
<1> QED
  BY <1>1, <1>2, <1>3

LEMMA GuardrailStep == ASSUME RateSafe, [GuardrailNext]_guardVars PROVE RateSafe'
<1>1. CASE ClockTicks
  <2>1. PICK s \in Seconds : clock' = clock + s
    BY <1>1 DEF ClockTicks
  <2>2. clock' \in Nat /\ clock <= clock' /\ UNCHANGED <<orderLog, letThrough>>
    BY <1>1, <2>1, GuardrailAssumption DEF RateSafe, ClockTicks
  <2>3. Times(orderLog)' /\ Times(letThrough)'
    <3>1. \A i \in 1..Len(orderLog) : orderLog[i] \in Nat /\ orderLog[i] <= clock
      BY DEF RateSafe, Times
    <3>2. \A i \in 1..Len(letThrough) : letThrough[i] \in Nat /\ letThrough[i] <= clock
      BY DEF RateSafe, Times
    <3> QED
      BY <2>2, <3>1, <3>2 DEF RateSafe, Times
  <2> QED
    BY <2>2, <2>3 DEF RateSafe, Sorted, Logged, SpacedOut
<1>2. CASE ValidateContext \/ ValidateOutput \/ HumanDecides \/ UNCHANGED guardVars
  BY <1>2 DEF ValidateContext, ValidateOutput, HumanDecides, guardVars, RateSafe, Times, Sorted, Logged, SpacedOut
<1>3. CASE ValidateExecution
  <2>1. CASE decision.action \in TradeActions
    <3>1. PICK q \in LiveQuotes \cup {NoClient} :
             /\ orderLog' = OrderLogged
             /\ letThrough' = IF /\ ~HasBlock(ExecutionResults(context, q))
                                 /\ decision.action \notin RiskReducing
                              THEN Append(letThrough, clock) ELSE letThrough
      BY <1>3, <2>1 DEF ValidateExecution
    <3>2. RateExceeded => HasBlock(ExecutionResults(context, q))
      <4> SUFFICES ASSUME RateExceeded PROVE HasBlock(ExecutionResults(context, q))
        OBVIOUS
      <4>1. <<"rate_limit", "block">> \in ExecutionResults(context, q)
        BY DEF ExecutionResults, Failed
      <4> QED
        BY <4>1 DEF HasBlock
    <3>3. clock' = clock
      BY <1>3 DEF ValidateExecution
    <3> QED
      BY <3>1, <3>2, <3>3, AttemptStep
  <2>2. CASE decision.action \notin TradeActions
    BY <1>3, <2>2 DEF ValidateExecution, RateSafe, Times, Sorted, Logged, SpacedOut
  <2> QED
    BY <2>1, <2>2
<1> QED
  BY <1>1, <1>2, <1>3 DEF GuardrailNext

LEMMA SpacedIsBelowLimit == RateSafe => NoMinuteAboveLimit
<1> SUFFICES ASSUME RateSafe, NEW i \in DOMAIN letThrough
             PROVE  Cardinality({j \in 1..i : letThrough[j] > letThrough[i] - Window}) <= MaxPerMinute
  BY DEF NoMinuteAboveLimit
<1> DEFINE lately == {j \in 1..i : letThrough[j] > letThrough[i] - Window}
           first == IF i > MaxPerMinute THEN i - MaxPerMinute + 1 ELSE 1
<1>1. /\ i \in 1..Len(letThrough) /\ i \in Nat /\ Len(letThrough) \in Nat
      /\ \A j \in 1..Len(letThrough) : letThrough[j] \in Nat
  BY DEF RateSafe, Times
<1>2. first \in 1..i /\ i - first + 1 <= MaxPerMinute
  BY <1>1, GuardrailAssumption
<1>3. lately \subseteq first..i
  <2> SUFFICES ASSUME NEW j \in 1..i, j < first PROVE ~(letThrough[j] > letThrough[i] - Window)
    BY <1>1, <1>2
  <2>1. i > MaxPerMinute /\ j <= i - MaxPerMinute /\ i - MaxPerMinute \in 1..Len(letThrough)
    BY <1>1, GuardrailAssumption
  <2>2. letThrough[j] <= letThrough[i - MaxPerMinute] /\ letThrough[i - MaxPerMinute] <= letThrough[i] - Window
    BY <1>1, <2>1 DEF RateSafe, Sorted, SpacedOut
  <2> QED
    BY <1>1, <2>1, <2>2 DEF Window
<1>4. IsFiniteSet(first..i) /\ Cardinality(first..i) = i - first + 1
  <2> HIDE DEF first
  <2> QED
    BY <1>1, <1>2, FS_Interval
<1>5. IsFiniteSet(lately) /\ Cardinality(lately) <= Cardinality(first..i) /\ Cardinality(lately) \in Nat
  BY <1>3, <1>4, FS_Subset, FS_CardinalityType
<1> QED
  <2> HIDE DEF first, lately
  <2>1. first \in Int
    BY <1>2
  <2> QED
    BY <1>1, <1>2, <1>4, <1>5, <2>1, GuardrailAssumption DEF lately

LEMMA GuardrailStart == GuardrailInit => RateSafe
BY GuardrailAssumption DEF GuardrailInit, RateSafe, Times, Sorted, Logged, SpacedOut

\* The gate lets no more executions through in a minute than the limit, whatever
\* awaits a human and is approved past it, for every limit, every length of log
\* that is at least the limit, all ticks of the clock, contexts, decisions and
\* quotes (ExecutionGate.check_rate_limit).
THEOREM MinutesKeepTheLimit == GuardrailSpec => []NoMinuteAboveLimit
BY GuardrailStart, GuardrailStep, SpacedIsBelowLimit, PTL DEF GuardrailSpec

=============================================================================
