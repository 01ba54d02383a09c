---------------------------- MODULE EventDetector ----------------------------
(***************************************************************************)
(* The detector of market events (agentic/event_detector.py): a task of    *)
(* the daemon that polls VIX and the alerts of the position monitor every  *)
(* five minutes and reports what cannot wait for the next scheduled check  *)
(* as a RISK_LIMIT_BREACH.  Every report costs a call of the reasoning     *)
(* engine, so a position is reported at most once per cooldown: the memory *)
(* of the task says when, and the events in the database say it again      *)
(* after a restart.                                                        *)
(*                                                                         *)
(* Percentages are integers.  The clock counts polls.                      *)
(***************************************************************************)
EXTENDS Integers, FiniteSets

CONSTANTS
    Positions,
    Statuses,       \* what the monitor may find: [pnl, dte, otm, delta, drop]
    Readings,       \* what VIX may be quoted at
    AlertTarget,         \* profit_target
    AlertStop,           \* stop_loss, as a positive percentage
    AlertDte,        \* time_exit_dte
    SpikeThreshold, \* vix_spike_threshold_pct
    Cooldown,       \* _breach_cooldown
    Never,
    MaxTime         \* bound: polls

ASSUME DetectorFacts == Cooldown \in Nat /\ MaxTime \in Nat

VARIABLES
    time,
    trading,        \* the market is open
    sessionOpenVix,
    spikeEmitted,
    breachEmitted,  \* memory: position -> when its cooldown began
    breachEvents,   \* the events in the database: [of, at]
    spikes,         \* history: the rises reported, [base, level]
    unchecked       \* history: the events whose look-up had failed

detectorVars == <<time, trading, sessionOpenVix, spikeEmitted, breachEmitted,
                  breachEvents, spikes, unchecked>>

\* _VIX_DEFAULT_FALLBACK, what a failed quote is read as.
Synthetic == 20

-----------------------------------------------------------------------------
(* check_alerts: the alerts of one position.                               *)

When(condition, kind, severity) ==
    IF condition THEN {[kind |-> kind, severity |-> severity]} ELSE {}

Graded(critical) == IF critical THEN "critical" ELSE "warning"

Alerts(s) ==
    When(10 * s.pnl >= 9 * AlertTarget, "profit_target",
         IF s.pnl < AlertTarget THEN "info" ELSE "warning")
    \cup When(10 * s.pnl <= -(8 * AlertStop), "stop_loss", Graded(s.pnl <= -AlertStop))
    \cup When(s.dte <= AlertDte + 1, "time_exit", Graded(s.dte <= AlertDte))
    \cup When(s.dte <= 7 /\ s.otm < 3, "assignment_risk", Graded(s.otm < 0 \/ s.dte <= 3))
    \cup When(s.delta > 30, "delta_breach", Graded(s.delta > 50))
    \cup When(s.drop > 5, "underlying_drop", Graded(s.drop > 10))

\* What the detector reports of them.
Critical(s) ==
    \E a \in Alerts(s) :
        a.severity = "critical" /\ a.kind \in {"stop_loss", "assignment_risk"}

-----------------------------------------------------------------------------
\* _is_breach_on_cooldown
OnCooldown(p) == breachEmitted[p] # Never /\ time - breachEmitted[p] < Cooldown

\* Bug: a restarted detector does not look for events in the database.
ForgottenBreach(p, blind) == FALSE

\* _has_recent_breach_event.  A row is written just before the memory is: a
\* row that is a cooldown old is older than the memory that just ran out.  A
\* look-up that raises finds nothing.
RecentBreach(p, blind) ==
    p \notin blind /\ \E e \in breachEvents : e.of = p /\ e.at > time - Cooldown

DetectorInit ==
    /\ time = 0
    /\ trading \in BOOLEAN
    /\ sessionOpenVix = Never
    /\ spikeEmitted = FALSE
    /\ breachEmitted = [p \in Positions |-> Never]
    /\ breachEvents = {}
    /\ spikes = {} /\ unchecked = {}

\* The readings the detector goes on with.
Usable(vix) == vix > 0 /\ vix # Synthetic

\* _check_vix on one reading: nothing outside market hours, nothing of a
\* reading that is no quote, and only a rise is a spike, once per session.
CheckVix(vix) ==
    IF ~trading \/ ~Usable(vix)
    THEN UNCHANGED <<sessionOpenVix, spikeEmitted, spikes>>
    ELSE LET base  == IF sessionOpenVix = Never THEN vix ELSE sessionOpenVix
             spike == ~spikeEmitted /\ 100 * (vix - base) >= SpikeThreshold * base
         IN  /\ sessionOpenVix' = base
             /\ spikeEmitted' = (spikeEmitted \/ spike)
             /\ spikes' = IF spike THEN spikes \cup {[base |-> base, level |-> vix]} ELSE spikes

\* _check_critical_alerts: who is on cooldown in memory is passed over; who is
\* known to the database is put on cooldown from now on; the others are reported.
CheckCriticalAlerts(found, blind) ==
    LET awake    == {p \in Positions : Critical(found[p]) /\ ~OnCooldown(p)}
        reported == {p \in awake : ~RecentBreach(p, blind)}
    IN  /\ breachEvents' = breachEvents \cup {[of |-> p, at |-> time] : p \in reported}
        /\ unchecked' = unchecked \cup {[of |-> p, at |-> time] : p \in reported \cap blind}
        /\ breachEmitted' = [p \in Positions |-> IF p \in awake THEN time
                                                  ELSE breachEmitted[p]]

\* One round of run while the broker is connected.  A position the monitor
\* cannot qualify raises no alert, like a calm one.  The database may fail any
\* of the look-ups.
DetectorPoll ==
    /\ \E vix \in Readings \cup {Synthetic, 0} : CheckVix(vix)
    /\ \E found \in [Positions -> Statuses], blind \in SUBSET Positions :
           CheckCriticalAlerts(found, blind)
    /\ UNCHANGED <<time, trading>>

\* reset_session, when MARKET_OPEN is handled.
ResetSession ==
    /\ trading
    /\ sessionOpenVix' = Never
    /\ spikeEmitted' = FALSE
    /\ UNCHANGED <<time, trading, breachEmitted, breachEvents, spikes, unchecked>>

\* The daemon starts again: __init__.
RestartDetector ==
    /\ sessionOpenVix' = Never
    /\ spikeEmitted' = FALSE
    /\ breachEmitted' = [p \in Positions |-> Never]
    /\ UNCHANGED <<time, trading, breachEvents, spikes, unchecked>>

\* The next round is due.
Sleep ==
    /\ time < MaxTime
    /\ time' = time + 1
    /\ trading' \in BOOLEAN
    /\ UNCHANGED <<sessionOpenVix, spikeEmitted, breachEmitted, breachEvents, spikes, unchecked>>

DetectorNext == DetectorPoll \/ ResetSession \/ RestartDetector \/ Sleep

DetectorSpec == DetectorInit /\ [][DetectorNext]_detectorVars

-----------------------------------------------------------------------------
\* Type invariant of the detector.
DetectorTypeOK ==
    /\ time \in 0..MaxTime
    /\ {trading, spikeEmitted} \subseteq BOOLEAN
    /\ sessionOpenVix \in Readings \cup {Never}
    /\ breachEmitted \in [Positions -> (0..MaxTime) \cup {Never}]
    /\ breachEvents \subseteq [of : Positions, at : 0..MaxTime]
    /\ spikes \subseteq [base : Readings, level : Readings]
    /\ unchecked \subseteq breachEvents

\* Two reports of a position are a cooldown apart, however often the daemon was
\* restarted between them (docstring of _check_critical_alerts), unless the
\* database failed the look-up that preceded the later one.
BreachesAreSpaced ==
    \A e \in breachEvents, f \in breachEvents \ unchecked :
        e.of = f.of /\ e.at < f.at => f.at - e.at >= Cooldown

\* A reported spike is a rise between two quotes: the stand-in for a failed
\* quote is neither its base nor its level (docstring of _check_vix).
SpikesAreRises ==
    \A s \in spikes :
        {s.base, s.level} \subseteq Readings \ {Synthetic} /\ s.level > s.base

\* Not so (docstring of _is_breach_on_cooldown): a position on cooldown was
\* reported within the cooldown.  After a restart the cooldown begins again
\* when the database is asked.
CooldownFollowsBreach == \A p \in Positions : OnCooldown(p) => RecentBreach(p, {})
=============================================================================
