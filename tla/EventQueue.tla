----------------------------- MODULE EventQueue -----------------------------
(***************************************************************************)
(* What the daemon's durable queue promises, without daemons, batches or   *)
(* process ids: an event that was emitted waits, is taken by one worker,   *)
(* and ends exactly once.  While one event is taken nothing else is, and   *)
(* an event whose worker died goes back to waiting before anything else is *)
(* taken.  EventBus.tla implements it.                                     *)
(***************************************************************************)
EXTENDS Naturals

CONSTANT MaxEvents      \* rows of daemon_events that may ever be inserted

VARIABLE state          \* event id -> its place in the life cycle

Ids == 1..MaxEvents

Absent == "absent"
Waiting == "waiting"
Taken == "taken"
Done == "done"

QTypeOK == state \in [Ids -> {Absent, Waiting, Taken, Done}]

QInit == state = [e \in Ids |-> Absent]

\* A new row.
Emitted(e) ==
    /\ state[e] = Absent
    /\ state' = [state EXCEPT ![e] = Waiting]

\* One worker takes one waiting event; there is never a second one in flight.
Take(e) ==
    /\ state[e] = Waiting
    /\ \A f \in Ids : state[f] # Taken
    /\ state' = [state EXCEPT ![e] = Taken]

\* The worker finishes, successfully or not.
Finish(e) ==
    /\ state[e] = Taken
    /\ state' = [state EXCEPT ![e] = Done]

\* The worker died: what it held waits again.
Recover ==
    state' = [e \in Ids |-> IF state[e] = Taken THEN Waiting ELSE state[e]]

QNext == Recover \/ \E e \in Ids : Emitted(e) \/ Take(e) \/ Finish(e)

QSpec == QInit /\ [][QNext]_state
=============================================================================
