--------------------------- MODULE DaemonControl ---------------------------
(***************************************************************************)
(* Starting, pausing, stopping and watching the daemon: its own start-up   *)
(* and shutdown and heartbeat (agentic/daemon.py, health_monitor.py), the  *)
(* dashboard's and the command line's controls (dashboard_api.py,          *)
(* daemon_commands.py) and the watchdog (services/watchdog.py).            *)
(*                                                                         *)
(* They share a PID file, the daemon_health row, the file                  *)
(* run/stop_requested and the kill switch, and nothing locks any of them.  *)
(***************************************************************************)
EXTENDS Naturals, KillSwitch

CONSTANTS
    Daemons,      \* processes that may run the daemon
    MaxCommands,  \* bound on the commands users give
    MaxCrashes    \* bound on crashes and forced exits

ASSUME ControlBounds == MaxCommands \in Nat /\ MaxCrashes \in Nat

NoPid == "nobody"
ASSUME NoPidIsNoDaemon == NoPid \notin Daemons

Phases == {"none", "launched", "booting", "starting", "running", "stopping"}

WatchdogAlerts == {"none", "daemon_stopped", "daemon_down", "no_heartbeat",
           "hung", "error_spike"}

Calm == [last |-> "none", fails |-> 0, muted |-> 0]

VARIABLES
    proc,      \* daemon -> how far its process has got
    shutdownAsked, \* daemons told to stop before their loop could be woken
    pidFile,   \* run/taad.pid
    status,    \* daemon_health.status
    beat,      \* age of daemon_health.last_heartbeat
    stopFlag,  \* run/stop_requested exists
    stopper,   \* where an emergency stop on the command line is
    restarting,\* /api/restart-daemon waits for the old process to end
    dog,       \* watchdog: last alert, consecutive failures, alerts muted since
    spike,     \* errors_today has reached the threshold
    commands,  \* commands given so far
    crashes    \* crashes so far

procVars == <<proc, shutdownAsked>>
rowVars == <<status, beat>>
userVars == <<stopper, restarting, commands>>
controlVars == <<proc, shutdownAsked, pidFile, status, beat, stopFlag, stopper, restarting,
                 dog, spike, commands, crashes>>
controlAll == <<haltFile, controlVars>>

\* daemon_health.status, and what last_heartbeat says of its age.
HealthStates == {"none", "running", "paused", "stopped", "error"}

ControlTypeOK ==
    /\ haltFile \in FileStates
    /\ proc \in [Daemons -> Phases]
    /\ shutdownAsked \subseteq {d \in Daemons : proc[d] \in {"starting", "running"}}
    /\ pidFile \in Daemons \cup {NoPid}
    /\ status \in HealthStates
    /\ beat \in {"none", "fresh", "stale"}
    /\ stopFlag \in BOOLEAN
    /\ stopper \in {"idle", "halted", "marked"}
    /\ restarting \in BOOLEAN
    /\ dog \in [last : WatchdogAlerts, fails : 0..2, muted : Nat]
    /\ spike \in BOOLEAN
    /\ commands \in 0..MaxCommands
    /\ crashes \in 0..MaxCrashes

ControlInit ==
    /\ proc = [d \in Daemons |-> "none"]
    /\ shutdownAsked = {}
    /\ pidFile = NoPid
    /\ status = "none"
    /\ beat = "none"
    /\ stopFlag = FALSE
    /\ stopper = "idle"
    /\ restarting = FALSE
    /\ dog = Calm
    /\ spike = FALSE
    /\ commands = 0
    /\ crashes = 0

\* Bug: a PID file is believed.
DaemonPidStale == pidFile

\* is_daemon_running(): the PID file names a process that exists.
DaemonPid ==
    IF pidFile \in Daemons /\ proc[pidFile] # "none" THEN pidFile ELSE NoPid

-----------------------------------------------------------------------------
(* The daemon process.                                                     *)

\* daemon start: refuse when the PID file names a live process.
CheckRunning(d) ==
    /\ proc[d] = "launched"
    /\ proc' = [proc EXCEPT ![d] = IF DaemonPid = NoPid THEN "booting" ELSE "none"]
    /\ UNCHANGED <<shutdownAsked, pidFile, rowVars, stopFlag, userVars, dog, spike,
                   crashes, haltFile>>

\* health.start(): PID file, a signal handler that only sets a flag, first
\* heartbeat.  The counters of errors start again.
StartHealth(d) ==
    /\ proc[d] = "booting"
    /\ proc' = [proc EXCEPT ![d] = "starting"]
    /\ pidFile' = d
    /\ status' = "running"
    /\ beat' = "fresh"
    /\ spike' = FALSE
    /\ UNCHANGED <<shutdownAsked, stopFlag, userVars, dog, crashes, haltFile>>

\* Start-up reconciliation is over: the loop and the heartbeat begin.
EnterLoop(d) ==
    /\ proc[d] = "starting"
    /\ proc' = [proc EXCEPT ![d] = "running"]
    /\ UNCHANGED <<shutdownAsked, pidFile, rowVars, stopFlag, userVars, dog, spike,
                   crashes, haltFile>>

\* Every minute, whatever the row holds.
Heartbeat(d) ==
    /\ proc[d] = "running"
    /\ <<status, beat>> # <<"running", "fresh">>
    /\ status' = "running"
    /\ beat' = "fresh"
    /\ UNCHANGED <<procVars, pidFile, stopFlag, userVars, dog, spike,
                   crashes, haltFile>>

\* The loop looks at the flag of the signal handler and at the row; nothing on
\* the way to an order reads the kill switch.
MayHandle(d) ==
    /\ proc[d] = "running"
    /\ d \notin shutdownAsked
    /\ status # "paused"

\* Handling an event may send orders, of which this module keeps nothing, and may
\* add to the errors of the day.
WorkOnEvent(d) ==
    /\ MayHandle(d)
    /\ spike' = TRUE
    /\ UNCHANGED <<procVars, pidFile, rowVars, stopFlag, userVars, dog, crashes,
                   haltFile>>

\* EMERGENCY_STOP in a plan halts trading and leaves the daemon running.
HandleEmergencyStop(d) ==
    /\ MayHandle(d)
    /\ haltFile = "absent"
    /\ WriteHalt
    /\ UNCHANGED controlVars

\* An event arrives after a stop that came too early to wake the loop.
NoticeStop(d) ==
    /\ proc[d] = "running"
    /\ d \in shutdownAsked
    /\ proc' = [proc EXCEPT ![d] = "stopping"]
    /\ shutdownAsked' = shutdownAsked \ {d}
    /\ UNCHANGED <<pidFile, rowVars, stopFlag, userVars, dog, spike,
                   crashes, haltFile>>

\* health.stop(): mark the row, remove the PID file whoever it names.
StopHealth(d) ==
    /\ proc[d] = "stopping"
    /\ proc' = [proc EXCEPT ![d] = "none"]
    /\ pidFile' = NoPid
    /\ status' = "stopped"
    /\ beat' = "fresh"
    /\ UNCHANGED <<shutdownAsked, stopFlag, userVars, dog, spike, crashes, haltFile>>

\* An exception that reaches run(): the row says so until health.stop().
Break(d) ==
    /\ proc[d] \in {"starting", "running"}
    /\ crashes < MaxCrashes
    /\ crashes' = crashes + 1
    /\ proc' = [proc EXCEPT ![d] = "stopping"]
    /\ shutdownAsked' = shutdownAsked \ {d}
    /\ status' = "error"
    /\ UNCHANGED <<pidFile, beat, stopFlag, userVars, dog, spike,
                   haltFile>>

\* The process dies, or is forced out 15 seconds after a stop.
Die(d) ==
    /\ proc[d] # "none"
    /\ crashes < MaxCrashes
    /\ crashes' = crashes + 1
    /\ proc' = [proc EXCEPT ![d] = "none"]
    /\ shutdownAsked' = shutdownAsked \ {d}
    /\ UNCHANGED <<pidFile, rowVars, stopFlag, userVars, dog, spike, haltFile>>

\* SIGTERM: wakes the loop once it runs; before, it only sets a flag.
Signalled(d) ==
    /\ proc' = [proc EXCEPT ![d] = IF @ = "running" THEN "stopping" ELSE @]
    /\ shutdownAsked' = IF proc[d] = "starting" THEN shutdownAsked \cup {d} ELSE shutdownAsked \ {d}

-----------------------------------------------------------------------------
(* Users: the dashboard and the command line.                              *)

Command ==
    /\ commands < MaxCommands
    /\ commands' = commands + 1

\* A new process; its pid is not the one a dead daemon left in the PID file.
Launch(d) ==
    /\ proc[d] = "none"
    /\ d # pidFile
    /\ proc' = [proc EXCEPT ![d] = "launched"]
    /\ UNCHANGED shutdownAsked

StartFromCli(d) ==
    /\ Command
    /\ Launch(d)
    /\ UNCHANGED <<pidFile, rowVars, stopFlag, stopper, restarting, dog, spike,
                   crashes, haltFile>>

\* /api/start, and /api/restart-daemon when nothing runs.
StartFromDashboard(d) ==
    /\ Command
    /\ DaemonPid = NoPid
    /\ stopFlag' = FALSE
    /\ Launch(d)
    /\ UNCHANGED <<pidFile, rowVars, stopper, restarting, dog, spike, crashes, haltFile>>

\* SIGTERM and the flag, at once: no watchdog cycle fits between the two.
StopFromDashboard(d) ==
    /\ Command
    /\ DaemonPid = d
    /\ Signalled(d)
    /\ stopFlag' = TRUE
    /\ UNCHANGED <<pidFile, rowVars, stopper, restarting, dog, spike, crashes, haltFile>>

\* /api/restart-daemon: stop, wait ten seconds at most, start another.
RestartStop(d) ==
    /\ Command
    /\ ~restarting
    /\ DaemonPid = d
    /\ Signalled(d)
    /\ restarting' = TRUE
    /\ UNCHANGED <<pidFile, rowVars, stopFlag, stopper, dog, spike, crashes, haltFile>>

RestartLaunch(d) ==
    /\ restarting
    /\ restarting' = FALSE
    /\ stopFlag' = FALSE
    /\ Launch(d)
    /\ UNCHANGED <<pidFile, rowVars, stopper, commands, dog, spike, crashes, haltFile>>

\* The dashboard pauses whatever the row says, the command line a running daemon.
Pause ==
    /\ Command
    /\ status # "none"
    /\ status' = "paused"
    /\ UNCHANGED <<procVars, pidFile, beat, stopFlag, stopper, restarting, dog,
                   spike, crashes, haltFile>>

Resume ==
    /\ Command
    /\ status # "none"
    /\ status' = "running"
    /\ UNCHANGED <<procVars, pidFile, beat, stopFlag, stopper, restarting, dog,
                   spike, crashes, haltFile>>

\* daemon emergency-stop: the kill switch, the row, the signal.  It leaves no
\* stop flag.
EmergencyHalt ==
    /\ Command
    /\ stopper = "idle"
    /\ stopper' = "halted"
    /\ WriteHalt
    /\ UNCHANGED <<procVars, pidFile, rowVars, stopFlag, restarting, dog, spike,
                   crashes>>

EmergencyMark ==
    /\ stopper = "halted"
    /\ stopper' = "marked"
    /\ status' = IF status = "none" THEN "none" ELSE "stopped"
    /\ UNCHANGED <<procVars, pidFile, beat, stopFlag, restarting, commands, dog,
                   spike, crashes, haltFile>>

EmergencySignal ==
    /\ stopper = "marked"
    /\ stopper' = "idle"
    /\ IF DaemonPid = NoPid THEN UNCHANGED procVars ELSE Signalled(DaemonPid)
    /\ UNCHANGED <<pidFile, rowVars, stopFlag, restarting, commands, dog, spike,
                   crashes, haltFile>>

-----------------------------------------------------------------------------
(* The watchdog: one check a minute.                                       *)

\* Bug: the third alert in a row is still muted.
AlertedLate(w, alert) ==
    IF alert # w.last THEN [last |-> alert, fails |-> 1, muted |-> 0]
    ELSE IF w.fails < 2 THEN [w EXCEPT !.fails = @ + 1, !.muted = @ + 1]
    ELSE [w EXCEPT !.fails = 0, !.muted = @ + 1]

\* _send_alert: an alert equal to the last one is muted until the third.
Alerted(w, alert) ==
    IF alert # w.last THEN [last |-> alert, fails |-> 1, muted |-> 0]
    ELSE IF w.fails < 2 THEN [w EXCEPT !.fails = @ + 1, !.muted = @ + 1]
    ELSE [w EXCEPT !.fails = 0, !.muted = 0]

\* What the first two checks of a cycle find.
Finding ==
    CASE DaemonPid = NoPid /\ stopFlag -> "daemon_stopped"
      [] DaemonPid = NoPid /\ ~stopFlag -> "daemon_down"
      [] DaemonPid # NoPid /\ beat = "none" -> "no_heartbeat"
      [] DaemonPid # NoPid /\ beat = "stale" -> "hung"
      [] OTHER -> "none"

\* The error check follows, whatever the others found.
WithSpike(w) == IF spike THEN Alerted(w, "error_spike") ELSE w

\* Nothing wrong: the alerts start afresh.
CheckHealthy ==
    /\ Finding = "none"
    /\ dog' = WithSpike(Calm)
    /\ UNCHANGED <<procVars, pidFile, rowVars, stopFlag, userVars, spike, crashes, haltFile>>

CheckFailed ==
    /\ Finding \notin {"none", "daemon_down"}
    /\ dog' = WithSpike(Alerted(dog, Finding))
    /\ UNCHANGED <<procVars, pidFile, rowVars, stopFlag, userVars, spike, crashes, haltFile>>

\* The process is gone and nobody asked the dashboard for it: start another.
CheckDown(d) ==
    /\ Finding = "daemon_down"
    /\ dog' = WithSpike(Alerted(dog, Finding))
    /\ Launch(d)
    /\ UNCHANGED <<pidFile, rowVars, stopFlag, userVars, spike, crashes, haltFile>>

\* Time passes without a heartbeat.  The two thresholds of the watchdog are one
\* here: the alerts they cause differ in name only.
Age ==
    /\ beat = "fresh"
    /\ beat' = "stale"
    /\ UNCHANGED <<procVars, pidFile, status, stopFlag, userVars, dog, spike,
                   crashes, haltFile>>

-----------------------------------------------------------------------------
(* Specification.                                                          *)

DaemonStep(d) ==
    \/ CheckRunning(d) \/ StartHealth(d) \/ EnterLoop(d) \/ Heartbeat(d)
    \/ WorkOnEvent(d) \/ HandleEmergencyStop(d) \/ NoticeStop(d)
    \/ StopHealth(d) \/ Break(d) \/ Die(d)

UserStep(d) ==
    \/ StartFromCli(d) \/ StartFromDashboard(d) \/ StopFromDashboard(d)
    \/ RestartStop(d) \/ RestartLaunch(d)

ControlNext ==
    \/ \E d \in Daemons : DaemonStep(d) \/ UserStep(d) \/ CheckDown(d)
    \/ Pause \/ Resume
    \/ EmergencyHalt \/ EmergencyMark \/ EmergencySignal
    \/ CheckHealthy \/ CheckFailed \/ Age

\* The processes make progress, an event arrives for a loop that should stop,
\* and the watchdog goes round.
ControlFairness ==
    /\ \A d \in Daemons :
           /\ WF_controlAll(CheckRunning(d) \/ StartHealth(d) \/ EnterLoop(d))
           /\ WF_controlAll(NoticeStop(d) \/ StopHealth(d))
    /\ WF_controlAll(\E d \in Daemons : CheckDown(d))

ControlSpec == HaltFileInit /\ ControlInit /\ [][ControlNext]_controlAll
FairControlSpec == ControlSpec /\ ControlFairness

-----------------------------------------------------------------------------
(* Properties.                                                             *)

\* However the kinds of trouble alternate, at most two alerts in a row are
\* muted: a daemon in trouble is never passed over in silence
\* (watchdog.py:_send_alert with _check_cycle).
NeverSilent == dog.muted <= 2

\* A daemon that is gone comes back while no stop flag is left: the watchdog's
\* launch, the PID check of the launched process and the PID file a dead process
\* leaves do not block each other (watchdog.py:_handle_daemon_down).
CrashIsRepaired ==
    (DaemonPid = NoPid) ~> (stopFlag \/ \E d \in Daemons : proc[d] = "running")

\* A daemon told to stop ends, even when the signal came before its loop could
\* be woken (daemon.py:_async_shutdown_handler, health_monitor.py:_handle_signal).
StopEnds ==
    \A d \in Daemons :
        (d \in shutdownAsked \/ proc[d] = "stopping") ~> (proc[d] = "none")

\* A pause ends when the user resumes, or the daemon starts or stops
\* (daemon_commands.py:daemon_pause).
PauseHolds ==
    [][status = "paused" /\ status' # "paused" =>
           commands' # commands \/ pidFile' # pidFile \/ stopper' # stopper]_controlAll

\* Once the kill switch is on no daemon goes on to events that may trade
\* (action_executor.py:_handle_emergency_stop).
HaltHolds == haltFile # "absent" => \A d \in Daemons : ~MayHandle(d)

=============================================================================
