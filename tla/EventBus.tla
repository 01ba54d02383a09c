------------------------------ MODULE EventBus ------------------------------
(***************************************************************************)
(* The daemon_events table and the processes that consume it               *)
(* (agentic/event_bus.py, the loop of agentic/daemon.py, the PID file of   *)
(* agentic/health_monitor.py and cli/commands/daemon_commands.py).         *)
(*                                                                         *)
(* A daemon starts by looking at the PID file, writes its own, resets the  *)
(* events a dead predecessor left in 'processing', then repeats: fetch a   *)
(* batch of pending events in (priority, created_at) order, and offer them *)
(* one at a time to _process_event, which claims the row with one atomic   *)
(* UPDATE ... WHERE status = 'pending'.  The batch is not refreshed while  *)
(* it is being worked through.  A process may die between any two commits. *)
(***************************************************************************)
EXTENDS Naturals, FiniteSets

CONSTANTS
    Daemons,          \* process identities that may be launched
    MaxEvents,        \* bound on the rows ever inserted
    Kinds,            \* event types in play, a subset of EventType
    MaxPerCycle,      \* config.daemon.max_events_per_cycle
    MaxInterrupts,    \* bound on crashes, aborts and graceful stops
    MaxPauses,        \* bound on pauses by the user
    MaxSkips,         \* bound on the times a pause drops one event
    ExclusiveStart    \* TRUE when a supervisor launches one daemon at a time

EventType ==
    {"MARKET_OPEN", "MARKET_CLOSE", "SCHEDULED_CHECK", "EOD_REFLECTION",
     "WEEKLY_LEARNING", "ORDER_FILLED", "POSITION_CLOSED",
     "POSITION_EXIT_CHECK", "RISK_LIMIT_BREACH", "HUMAN_OVERRIDE",
     "EMERGENCY_STOP", "HEARTBEAT", "TWS_DISCONNECTED", "TWS_RECONNECTED"}

\* EVENT_PRIORITIES: 1 is the most urgent.
Priority ==
    [k \in EventType |->
        IF k \in {"EMERGENCY_STOP", "TWS_DISCONNECTED"} THEN 1
        ELSE IF k \in {"ORDER_FILLED", "POSITION_CLOSED", "RISK_LIMIT_BREACH"} THEN 2
        ELSE IF k \in {"TWS_RECONNECTED", "MARKET_OPEN", "MARKET_CLOSE",
                       "POSITION_EXIT_CHECK"} THEN 3
        ELSE IF k \in {"HUMAN_OVERRIDE", "SCHEDULED_CHECK"} THEN 4
        ELSE 5]

ASSUME MaxEventsAssumption == MaxEvents \in Nat
ASSUME KindsAssumption == Kinds \subseteq EventType
ASSUME BoundsAssumption ==
    /\ MaxPerCycle \in Nat \ {0}
    /\ MaxInterrupts \in Nat
    /\ MaxPauses \in Nat
    /\ MaxSkips \in Nat
    /\ ExclusiveStart \in BOOLEAN

Ids == 1..MaxEvents
None == 0                 \* no event in hand
NoKind == "none"          \* kind of a row not inserted yet

VARIABLES
    status,      \* event -> "absent" or the column daemon_events.status
    kind,        \* event -> its event_type
    pc,          \* daemon -> where its process is
    batch,       \* daemon -> events of the fetched batch not offered yet
    cur,         \* daemon -> the event in its hands, or None
    stopping,    \* daemon -> shutdown requested (bus.stop, shutdown_requested)
    pidFile,     \* {} or {d}: contents of run/taad.pid
    paused,      \* daemon_health.status = 'paused'
    interrupts,  \* crashes, aborts and stops so far
    pauses,      \* pauses so far
    overtaken,   \* event -> less urgent events claimed while it was pending
    skipped      \* event -> times it was dropped from a batch by a pause

queueVars == <<status, kind>>
procVars  == <<pc, batch, cur, stopping>>
histVars  == <<overtaken, skipped>>
vars == <<status, kind, pc, batch, cur, stopping, pidFile, paused,
          interrupts, pauses, overtaken, skipped>>

Statuses == {"absent", "pending", "processing", "completed", "failed"}
Places   == {"down", "checked", "starting", "polling", "batch", "working"}

TypeOK ==
    /\ status \in [Ids -> Statuses]
    /\ kind \in [Ids -> Kinds \cup {NoKind}]
    /\ pc \in [Daemons -> Places]
    /\ batch \in [Daemons -> SUBSET Ids]
    /\ cur \in [Daemons -> Ids \cup {None}]
    /\ stopping \in [Daemons -> BOOLEAN]
    /\ pidFile \in SUBSET Daemons
    /\ paused \in BOOLEAN
    /\ interrupts \in Nat
    /\ pauses \in Nat
    /\ overtaken \in [Ids -> Nat]
    /\ skipped \in [Ids -> Nat]

Init ==
    /\ status = [e \in Ids |-> "absent"]
    /\ kind = [e \in Ids |-> NoKind]
    /\ pc = [d \in Daemons |-> "down"]
    /\ batch = [d \in Daemons |-> {}]
    /\ cur = [d \in Daemons |-> None]
    /\ stopping = [d \in Daemons |-> FALSE]
    /\ pidFile = {}
    /\ paused = FALSE
    /\ interrupts = 0
    /\ pauses = 0
    /\ overtaken = [e \in Ids |-> 0]
    /\ skipped = [e \in Ids |-> 0]

-----------------------------------------------------------------------------
(* Order of the queue.                                                     *)

Urgency(e) == Priority[kind[e]]

\* ORDER BY priority, created_at: rows are created in the order of their ids.
Before(e, f) ==
    \/ Urgency(e) < Urgency(f)
    \/ Urgency(e) = Urgency(f) /\ e < f

Pending == {e \in Ids : status[e] = "pending"}

\* Bug: ORDER BY created_at alone.
FirstCreated ==
    {e \in Pending : Cardinality({f \in Pending : f < e}) < MaxPerCycle}

\* get_pending_events(limit)
FirstPending ==
    {e \in Pending : Cardinality({f \in Pending : Before(f, e)}) < MaxPerCycle}

IsHead(e, S) == e \in S /\ \A f \in S \ {e} : Before(e, f)

-----------------------------------------------------------------------------
(* Producers: detectors, the time emitter, the dashboard, the daemon.      *)

Emit(k) ==
    \E e \in Ids :
        /\ status[e] = "absent"
        /\ \A f \in 1..(e - 1) : status[f] # "absent"
        /\ status' = [status EXCEPT ![e] = "pending"]
        /\ kind' = [kind EXCEPT ![e] = k]
        /\ UNCHANGED <<procVars, pidFile, paused, interrupts, pauses, histVars>>

-----------------------------------------------------------------------------
(* Start-up.                                                               *)

Alive(d) == pc[d] # "down"

\* The PID file names a process that os.kill(pid, 0) finds.
AlreadyRunning == \E d \in pidFile : Alive(d)

\* `daemon start`: the check of the PID file ...
CheckPid(d) ==
    /\ pc[d] = "down"
    /\ ~AlreadyRunning
    /\ ExclusiveStart => \A o \in Daemons : ~Alive(o)
    /\ pc' = [pc EXCEPT ![d] = "checked"]
    /\ UNCHANGED <<queueVars, batch, cur, stopping, pidFile, paused,
                   interrupts, pauses, histVars>>

\* ... and, later, HealthMonitor.start: PID file and status 'running'.
WritePid(d) ==
    /\ pc[d] = "checked"
    /\ pc' = [pc EXCEPT ![d] = "starting"]
    /\ pidFile' = {d}
    /\ paused' = FALSE
    /\ UNCHANGED <<queueVars, batch, cur, stopping, interrupts, pauses, histVars>>

\* Bug: the start-up reset is missing.
NoReset(d) ==
    /\ pc[d] = "starting"
    /\ pc' = [pc EXCEPT ![d] = "polling"]
    /\ UNCHANGED <<queueVars, batch, cur, stopping, pidFile, paused,
                   interrupts, pauses, histVars>>

\* stream(): reset_stale_processing_events
ResetStale(d) ==
    /\ pc[d] = "starting"
    /\ status' = [e \in Ids |->
                    IF status[e] = "processing" THEN "pending" ELSE status[e]]
    /\ pc' = [pc EXCEPT ![d] = "polling"]
    /\ UNCHANGED <<kind, batch, cur, stopping, pidFile, paused, interrupts,
                   pauses, histVars>>

-----------------------------------------------------------------------------
(* The event loop.                                                         *)

Poll(d) ==
    /\ pc[d] = "polling"
    /\ ~stopping[d]
    /\ Pending # {}
    /\ batch' = [batch EXCEPT ![d] = FirstPending]
    /\ pc' = [pc EXCEPT ![d] = "batch"]
    /\ UNCHANGED <<queueVars, cur, stopping, pidFile, paused, interrupts,
                   pauses, histVars>>

\* The event offered next is the head of the batch; it leaves the batch.
Offered(d, e) ==
    /\ pc[d] = "batch"
    /\ ~stopping[d]
    /\ IsHead(e, batch[d])
    /\ batch' = [batch EXCEPT ![d] = @ \ {e}]

\* Bug: the event is handled without being claimed.
TakeUnclaimed(d, e) ==
    /\ Offered(d, e)
    /\ ~paused
    /\ cur' = [cur EXCEPT ![d] = e]
    /\ pc' = [pc EXCEPT ![d] = "working"]
    /\ UNCHANGED <<queueVars, stopping, pidFile, paused, interrupts, pauses,
                   histVars>>

\* mark_processing: UPDATE ... WHERE id = e AND status = 'pending'; when no
\* row matched, somebody else has it and the daemon goes on to the next one.
Claim(d, e) ==
    /\ Offered(d, e)
    /\ ~paused
    /\ IF status[e] = "pending"
       THEN /\ status' = [status EXCEPT ![e] = "processing"]
            /\ cur' = [cur EXCEPT ![d] = e]
            /\ pc' = [pc EXCEPT ![d] = "working"]
            /\ overtaken' = [f \in Ids |->
                    IF status[f] = "pending" /\ Urgency(f) < Urgency(e)
                    THEN overtaken[f] + 1 ELSE overtaken[f]]
       ELSE UNCHANGED <<status, cur, pc, overtaken>>
    /\ UNCHANGED <<kind, stopping, pidFile, paused, interrupts, pauses, skipped>>

\* run(): while paused the event offered is dropped and stays pending.
SkipPaused(d, e) ==
    /\ Offered(d, e)
    /\ paused
    /\ skipped[e] < MaxSkips
    /\ skipped' = [skipped EXCEPT ![e] = @ + 1]
    /\ UNCHANGED <<queueVars, pc, cur, stopping, pidFile, paused, interrupts,
                   pauses, overtaken>>

EndBatch(d) ==
    /\ pc[d] = "batch"
    /\ ~stopping[d]
    /\ batch[d] = {}
    /\ pc' = [pc EXCEPT ![d] = "polling"]
    /\ UNCHANGED <<queueVars, batch, cur, stopping, pidFile, paused, interrupts,
                   pauses, histVars>>

\* _escalate_guardrail_block: a plan whose action is blocked is marked
\* completed although its other actions are still to be worked on.
MarkEarly(d) ==
    /\ pc[d] = "working"
    /\ status[cur[d]] # "completed"
    /\ status' = [status EXCEPT ![cur[d]] = "completed"]
    /\ UNCHANGED <<kind, procVars, pidFile, paused, interrupts, pauses,
                   histVars>>

\* _process_event ends by writing the row's final status, whatever it holds.
MarkDone(d, result) ==
    /\ pc[d] = "working"
    /\ status' = [status EXCEPT ![cur[d]] = result]
    /\ cur' = [cur EXCEPT ![d] = None]
    /\ pc' = [pc EXCEPT ![d] = "batch"]
    /\ UNCHANGED <<kind, batch, stopping, pidFile, paused, interrupts, pauses,
                   histVars>>

MarkCompleted(d) == MarkDone(d, "completed")

MarkFailed(d)    == MarkDone(d, "failed")

-----------------------------------------------------------------------------
(* Ends of a process.                                                      *)

Gone(d) ==
    /\ pc' = [pc EXCEPT ![d] = "down"]
    /\ batch' = [batch EXCEPT ![d] = {}]
    /\ cur' = [cur EXCEPT ![d] = None]
    /\ stopping' = [stopping EXCEPT ![d] = FALSE]

\* kill -9, os._exit after 15 s, power loss: nothing is cleaned up.
Crash(d) ==
    /\ Alive(d)
    /\ interrupts < MaxInterrupts
    /\ interrupts' = interrupts + 1
    /\ Gone(d)
    /\ UNCHANGED <<queueVars, pidFile, paused, pauses, histVars>>

\* An exception in the hooks that run outside the try of _process_event ends
\* run(): its finally clause removes the PID file and reports 'stopped', but
\* the event stays in 'processing'.
Abort(d) ==
    /\ pc[d] = "working"
    /\ interrupts < MaxInterrupts
    /\ interrupts' = interrupts + 1
    /\ Gone(d)
    /\ pidFile' = {}
    /\ paused' = FALSE
    /\ UNCHANGED <<queueVars, pauses, histVars>>

\* SIGTERM: _async_shutdown_handler.
RequestStop(d) ==
    /\ pc[d] \in {"polling", "batch", "working"}
    /\ ~stopping[d]
    /\ interrupts < MaxInterrupts
    /\ interrupts' = interrupts + 1
    /\ stopping' = [stopping EXCEPT ![d] = TRUE]
    /\ UNCHANGED <<queueVars, pc, batch, cur, pidFile, paused, pauses, histVars>>

\* The stream ends at the next event or poll; HealthMonitor.stop.
Exit(d) ==
    /\ pc[d] \in {"polling", "batch"}
    /\ stopping[d]
    /\ Gone(d)
    /\ pidFile' = {}
    /\ paused' = FALSE
    /\ UNCHANGED <<queueVars, interrupts, pauses, histVars>>

Pause ==
    /\ ~paused
    /\ pauses < MaxPauses
    /\ \E d \in Daemons : pc[d] \notin {"down", "checked"}
    /\ paused' = TRUE
    /\ pauses' = pauses + 1
    /\ UNCHANGED <<queueVars, procVars, pidFile, interrupts, histVars>>

Resume ==
    /\ paused
    /\ paused' = FALSE
    /\ UNCHANGED <<queueVars, procVars, pidFile, interrupts, pauses, histVars>>

-----------------------------------------------------------------------------

StartStep(d) == CheckPid(d) \/ WritePid(d) \/ ResetStale(d)

LoopStep(d) ==
    \/ Poll(d)
    \/ EndBatch(d)
    \/ \E e \in Ids : Claim(d, e) \/ SkipPaused(d, e)
    \/ MarkEarly(d)
    \/ MarkCompleted(d)
    \/ MarkFailed(d)
    \/ Exit(d)

Next ==
    \/ \E k \in Kinds : Emit(k)
    \/ \E d \in Daemons : StartStep(d) \/ LoopStep(d)
    \/ \E d \in Daemons : Crash(d) \/ Abort(d) \/ RequestStop(d)
    \/ Pause
    \/ Resume

Spec == Init /\ [][Next]_vars

\* The event loop keeps running (asyncio schedules it, every call a handler
\* makes has a timeout), the watchdog or the user starts a daemon that is
\* down, and a pause ends.
Fairness ==
    /\ \A d \in Daemons : WF_vars(StartStep(d)) /\ WF_vars(LoopStep(d))
    /\ WF_vars(Resume)

FairSpec == Spec /\ Fairness

-----------------------------------------------------------------------------
(* Properties.                                                             *)

Terminal == {"completed", "failed"}

\* No two daemon processes ever have the same event in their hands
\* (the promise of mark_processing's docstring).
ExclusiveHandling ==
    \A d, o \in Daemons : cur[d] # None /\ cur[d] = cur[o] => d = o

\* A row in 'processing' is in the hands of a daemon, unless no daemon has
\* got past its start-up reset: an event whose worker died is never forgotten
\* by the daemon that comes next (reset_stale_processing_events).
NoOrphan ==
    \A e \in Ids : status[e] = "processing" =>
        \/ \E d \in Daemons : cur[d] = e
        \/ \A d \in Daemons : pc[d] \in {"down", "checked", "starting"}

\* Whatever is restarted, replayed, reset or written late, a row that was
\* completed or failed is never offered or worked on again.
NeverReopened ==
    [][\A e \in Ids : status[e] \in Terminal => status'[e] \in Terminal]_vars

\* stream() "yields events ordered by priority" only batch by batch: an urgent
\* event may be overtaken by the rest of the batch fetched before it arrived,
\* and again each time a pause drops it from a batch, but never by more.
BoundedOvertaking ==
    \A e \in Ids :
        overtaken[e] <= MaxPerCycle + (MaxPerCycle - 1) * skipped[e]

\* Every emitted event ends up completed or failed, through any bounded number
\* of crashes, aborts, stops and pauses.
EventuallyHandled ==
    \A e \in Ids : (status[e] = "pending") ~> (status[e] \in Terminal)

\* The life of a row as EventQueue.tla sees it.
Abstracted ==
    [e \in Ids |->
        CASE status[e] = "absent"     -> "absent"
          [] status[e] = "pending"    -> "waiting"
          [] status[e] = "processing" -> "taken"
          [] OTHER                    -> "done"]

Queue == INSTANCE EventQueue WITH state <- Abstracted

\* With one daemon at a time the bus implements the abstract queue: one event
\* in flight, finished exactly once or put back before anything else is taken.
ImplementsQueue == Queue!QSpec

=============================================================================
