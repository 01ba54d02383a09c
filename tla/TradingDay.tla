----------------------------- MODULE TradingDay -----------------------------
(***************************************************************************)
(* The day of the daemon: the market calendar, the emitter that turns the  *)
(* clock into events, the start-up assessment, the broker connection it    *)
(* looks after, and what the events of the day do to the market context in *)
(* working memory and to the calibration of the confidences.  The emitter  *)
(* remembers what it emitted in local variables, working memory and the    *)
(* queue of events are in the database: a restart loses the first and      *)
(* keeps the others.                                                       *)
(*                                                                         *)
(* Time is a day and a minute of that day, in exchange time; the minutes   *)
(* at which something is observed are a constant.  The order in which      *)
(* pending events are handled is EventBus's subject: here any of them may  *)
(* be next.                                                                *)
(***************************************************************************)
EXTENDS Integers, Sequences, FiniteSets, FiniteSetsExt

CONSTANTS
    Instants,       \* the minutes of a day that are observed, in order
    LastDay,        \* bound: the days are 0..LastDay, day 0 is a Monday
    Holidays,
    LearningDay,    \* weekly_learning_day, 4 for Friday
    LearningMinute, \* weekly_learning_hour in minutes
    VixLevels,      \* what VIX may be quoted at; 20 is not one of them
    Unset,
    MaxStarts       \* bound: starts of the daemon

ASSUME DayAssumption ==
    /\ Instants \in Seq(0..1439) /\ Instants # <<>>
    /\ \A i, j \in DOMAIN Instants : i < j => Instants[i] < Instants[j]

VARIABLES
    day, minute,
    level,          \* VIX, should the broker quote it
    running,        \* the daemon process lives
    polled,         \* the emitter looked at the clock in this minute
    emitter,        \* its local variables
    linked,         \* the broker connection
    warned,         \* _premarket_alert_sent_today
    queue,          \* pending events: kind -> number
    marketContext,  \* working memory: vix, session_open_vix, data_stale
    fed,            \* how often this process fed today's trades to the calibrator
    metricRows,     \* day -> samples in its calibration rows, or Unset
    starts,
    lastOpening,    \* history: instant of the last MARKET_OPEN
    lastCheck,      \* history: instant of the emitter's last SCHEDULED_CHECK
    closings,       \* history: MARKET_CLOSE events emitted for this day
    wasThere,       \* history: the daemon was there to close this day
    openVix         \* history: the baselines used on this day

dayVars == <<day, minute, level, running, polled, emitter, linked, warned, queue,
             marketContext, fed, metricRows, starts, lastOpening, lastCheck,
             closings, wasThere, openVix>>

RegularOpen  == 570
RegularClose == 960
Kinds == {"MARKET_OPEN", "MARKET_CLOSE", "EOD_REFLECTION", "WEEKLY_LEARNING",
          "SCHEDULED_CHECK"}

\* _VIX_DEFAULT_FALLBACK: stands in for a quote that did not come.
Fallback == 20

-----------------------------------------------------------------------------
(* The calendar.                                                           *)

Weekday(d) == d % 7
IsTradingDay(d) == Weekday(d) < 5 /\ d \notin Holidays

\* get_current_session
SessionAt(d, m) ==
    CASE Weekday(d) >= 5 -> "weekend"
      [] Weekday(d) < 5 /\ d \in Holidays -> "holiday"
      [] IsTradingDay(d) /\ m \in 240..(RegularOpen - 1) -> "pre_market"
      [] IsTradingDay(d) /\ m \in RegularOpen..(RegularClose - 1) -> "regular"
      [] IsTradingDay(d) /\ m \in RegularClose..1199 -> "after_hours"
      [] OTHER -> "closed"

IsMarketOpen(d, m) == SessionAt(d, m) = "regular"
Instant(d, m) == (d * 1440) + m

\* next_market_open: today's, or that of the first trading day that follows.
NextMarketOpen(d, m) ==
    IF m < RegularOpen /\ IsTradingDay(d) THEN Instant(d, RegularOpen)
    ELSE Instant(Min({e \in (d + 1)..(d + 10) : IsTradingDay(e)}), RegularOpen)

Now  == Instant(day, minute)
Open == IsMarketOpen(day, minute)

-----------------------------------------------------------------------------
FreshEmitter(now) ==
    [open |-> Unset, close |-> Unset, eod |-> Unset, weekly |-> Unset, check |-> now]

DayInit ==
    /\ day = 0
    /\ minute = Instants[1]
    /\ level \in VixLevels
    /\ running = FALSE
    /\ polled = FALSE
    /\ emitter = FreshEmitter(0)
    /\ linked = FALSE
    /\ warned = Unset
    /\ queue = [k \in Kinds |-> 0]
    /\ marketContext = [vix |-> Unset, baseline |-> Unset, stale |-> FALSE]
    /\ fed = 0
    /\ metricRows = Unset
    /\ starts = 0
    /\ lastOpening = Unset
    /\ lastCheck = Unset
    /\ closings = 0
    /\ wasThere = FALSE
    /\ openVix = {}

Emitted(kinds) == [k \in Kinds |-> queue[k] + (IF k \in kinds THEN 1 ELSE 0)]

\* The time goes on to the next observed minute.  They are a quarter of an
\* hour apart: a daemon that lives has looked at the clock by then (it does so
\* every 30 seconds) and has handled what was pending.
TimePasses ==
    /\ running => polled /\ \A k \in Kinds : queue[k] = 0
    /\ \E i \in DOMAIN Instants :
           /\ minute = Instants[i]
           /\ IF i < Len(Instants)
              THEN /\ minute' = Instants[i + 1]
                   /\ UNCHANGED <<day, fed, metricRows, closings, wasThere, openVix>>
              ELSE /\ day < LastDay
                   /\ day' = day + 1
                   /\ minute' = Instants[1]
                   /\ fed' = 0
                   /\ metricRows' = Unset
                   /\ closings' = 0
                   /\ wasThere' = FALSE
                   /\ openVix' = {}
    /\ level' \in VixLevels
    /\ polled' = FALSE
    /\ UNCHANGED <<running, emitter, linked, warned, queue, marketContext, starts,
                   lastOpening, lastCheck>>

\* TAADDaemon.run: an assessment when the market is open; the close of the
\* day when it has just ended.
StartDaemon ==
    /\ ~running
    /\ starts < MaxStarts
    /\ starts' = starts + 1
    /\ running' = TRUE
    /\ polled' = FALSE
    /\ emitter' = FreshEmitter(Now)
    /\ linked' \in BOOLEAN
    /\ warned' = Unset
    /\ fed' = 0
    /\ LET late == SessionAt(day, minute) = "after_hours"
       IN  /\ queue' = Emitted((IF Open THEN {"SCHEDULED_CHECK"} ELSE {})
                                \cup (IF late THEN {"MARKET_CLOSE"} ELSE {}))
           /\ closings' = closings + (IF late THEN 1 ELSE 0)
           /\ wasThere' = (wasThere \/ late)
    /\ UNCHANGED <<day, minute, level, marketContext, metricRows, lastOpening,
                   lastCheck, openVix>>

DaemonDies ==
    /\ running
    /\ running' = FALSE
    /\ linked' = FALSE
    /\ UNCHANGED <<day, minute, level, polled, emitter, warned, queue, marketContext,
                   fed, metricRows, starts, lastOpening, lastCheck, closings,
                   wasThere, openVix>>

BrokerDrops ==
    /\ linked
    /\ linked' = FALSE
    /\ UNCHANGED <<day, minute, level, running, polled, emitter, warned, queue,
                   marketContext, fed, metricRows, starts, lastOpening, lastCheck,
                   closings, wasThere, openVix>>

-----------------------------------------------------------------------------
(* The emitter: one look at the clock.                                     *)

AtClose == IsTradingDay(day) /\ minute \in RegularClose..(RegularClose + 29)
OpensNow  == Open /\ emitter.open # day

ClosesNow == AtClose /\ emitter.close # day

ReflectsNow ==
    /\ IsTradingDay(day) /\ emitter.eod # day
    /\ minute \in (RegularClose + 30)..(RegularClose + 34)
LearnsNow ==
    /\ IsTradingDay(day) /\ Weekday(day) = LearningDay /\ emitter.weekly # day
    /\ minute \in LearningMinute..(LearningMinute + 4)

\* Bug: the timer of the checks is not reset by the opening.
UntouchedTimer == emitter.check

\* The opening resets the timer of the checks.
CheckTimer == IF OpensNow THEN Now ELSE emitter.check

ChecksNow == Open /\ Now - CheckTimer > 15

\* _maybe_fire_premarket_alert: a quarter of an hour before the opening.
OpensSoon == ~Open /\ NextMarketOpen(day, minute) - Now <= 15

\* _time_based_emitter: reconnection on a trading day, with a warning once
\* when the market is about to open, then the events that are due.  The next
\* look in the same minute finds nothing more to emit.
Poll ==
    /\ running
    /\ ~polled
    /\ polled' = TRUE
    /\ LET looksForBroker == ~linked /\ IsTradingDay(day)
       IN  /\ linked' \in IF looksForBroker THEN BOOLEAN ELSE {linked}
           /\ warned' = IF looksForBroker /\ OpensSoon THEN day ELSE warned
    /\ queue' = Emitted({k \in Kinds :
                    \/ k = "MARKET_OPEN" /\ OpensNow
                    \/ k = "MARKET_CLOSE" /\ ClosesNow
                    \/ k = "EOD_REFLECTION" /\ ReflectsNow
                    \/ k = "WEEKLY_LEARNING" /\ LearnsNow
                    \/ k = "SCHEDULED_CHECK" /\ ChecksNow})
    /\ emitter' = [open   |-> IF OpensNow THEN day ELSE emitter.open,
                   close  |-> IF ClosesNow THEN day ELSE emitter.close,
                   eod    |-> IF ReflectsNow THEN day ELSE emitter.eod,
                   weekly |-> IF LearnsNow THEN day ELSE emitter.weekly,
                   check  |-> IF ChecksNow THEN Now ELSE CheckTimer]
    /\ lastOpening' = IF OpensNow THEN Now ELSE lastOpening
    /\ lastCheck' = IF ChecksNow THEN Now ELSE lastCheck
    /\ closings' = closings + (IF ClosesNow THEN 1 ELSE 0)
    /\ wasThere' = (wasThere \/ AtClose)
    /\ UNCHANGED <<day, minute, level, running, marketContext, fed, metricRows,
                   starts, openVix>>

-----------------------------------------------------------------------------
(* The events.                                                             *)

\* An event for the open market that is handled after hours is dropped.
Stale(k) == k \in {"MARKET_OPEN", "SCHEDULED_CHECK"} /\ ~Open

\* _enrich_market_data: VIX or its stand-in, against the first VIX since the
\* last opening was handled; without a broker the context is marked stale.
Enrich(context, quoted) ==
    IF linked'
    THEN LET vix == IF quoted THEN level ELSE Fallback
         IN  [vix      |-> vix,
              baseline |-> IF context.baseline = Unset THEN vix ELSE context.baseline,
              stale    |-> FALSE]
    ELSE [context EXCEPT !.stale = TRUE]

\* _calibrate_closed_trades: every handling of the close feeds the day's trades to
\* the calibrator again.
Calibrated(k) == fed + (IF k = "MARKET_CLOSE" THEN 1 ELSE 0)

\* _persist_guardrail_metrics: the rows of the day say what was fed so far.
Persisted(k) == IF k = "MARKET_CLOSE" THEN Calibrated(k) ELSE metricRows

\* _process_event as far as the day is concerned: the hooks of the opening and
\* of the close, then the context, except for the two events of the learning.
HandleEvent ==
    /\ running
    /\ \E k \in Kinds :
           /\ queue[k] > 0
           /\ queue' = [queue EXCEPT ![k] = @ - 1]
           /\ IF Stale(k) \/ k \in {"EOD_REFLECTION", "WEEKLY_LEARNING"}
              THEN UNCHANGED <<linked, marketContext, fed, metricRows, openVix>>
              ELSE /\ linked' \in IF linked THEN {TRUE} ELSE BOOLEAN
                   /\ \E quoted \in BOOLEAN :
                          marketContext' =
                              Enrich(IF k = "MARKET_OPEN"
                                     THEN [marketContext EXCEPT !.baseline = Unset]
                                     ELSE marketContext, quoted)
                   /\ openVix' = IF linked' /\ Open
                                 THEN openVix \cup {marketContext'.baseline}
                                 ELSE openVix
                   /\ fed' = Calibrated(k)
                   /\ metricRows' = Persisted(k)
    /\ UNCHANGED <<day, minute, level, running, polled, emitter, warned, starts,
                   lastOpening, lastCheck, closings, wasThere>>

DayNext ==
    \/ TimePasses
    \/ StartDaemon
    \/ DaemonDies
    \/ BrokerDrops
    \/ Poll
    \/ HandleEvent

DaySpec == DayInit /\ [][DayNext]_dayVars

-----------------------------------------------------------------------------
\* Type invariant of the day.
DayTypeOK ==
    /\ day \in 0..LastDay
    /\ \E i \in DOMAIN Instants : minute = Instants[i]
    /\ {running, polled, linked, wasThere} \subseteq BOOLEAN
    /\ queue \in [Kinds -> Nat]
    /\ marketContext.vix \in VixLevels \cup {Unset, Fallback}
    /\ marketContext.baseline \in VixLevels \cup {Unset, Fallback}

\* The emitter leaves the opening fifteen minutes before it asks for a check,
\* also when it is the opening of a restarted daemon: both would see the same
\* staged candidates (daemon.py, _time_based_emitter).
CheckKeepsItsDistance ==
    [][lastCheck' # lastCheck /\ lastOpening' # Unset => Now - lastOpening' > 15]_dayVars

\* A trading day on which the daemon lived at the close, or was started in
\* the evening, gets its MARKET_CLOSE, wherever it died and came back.
ClosedWhenThere ==
    IsTradingDay(day) /\ wasThere => closings > 0

\* Not so (comment of _time_based_emitter, "once per day"): one MARKET_CLOSE
\* for a day.
ClosedOncePerDay == closings <= 1

\* Not so (comment of _enrich_market_data): one baseline for a day, kept
\* across restarts.
OneBaselinePerDay == Cardinality(openVix) <= 1

\* Not so (docstring of _persist_guardrail_metrics, "idempotent"): the rows of
\* a day hold the outcomes of its trades once.
RowsHoldEachOutcomeOnce == metricRows # Unset => metricRows = 1
=============================================================================
