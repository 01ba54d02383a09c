--------------------------- MODULE StrategyHealth ---------------------------
(***************************************************************************)
(* The alpha-decay analysis (learning/alpha_decay_monitor.py) at the end of *)
(* a weekly cycle: the figures of the last 30 and 365 days, the results by *)
(* level of the VIX and a CUSUM chart of the returns are joined into one   *)
(* verdict.                                                                *)
(*                                                                         *)
(* The returns are standardised by the mean and deviation of their first   *)
(* half: the chart starts from standardised values, here in units of the   *)
(* drift.  Rates are in per cent.                                          *)
(***************************************************************************)
EXTENDS Integers, Sequences, FiniteSets, FiniteSetsExt, Functions

CONSTANTS
    Deviations,     \* standardised returns
    MinCharted,     \* returns a chart needs
    MaxReturns,     \* bound on returns
    Threshold,      \* cusum_threshold, in units of the drift
    Figures,        \* [count, win, roi, streak, losing]: the last 30 days
    YearFigures,    \* [count, win, roi]: the last 365 days
    RegimeFigures   \* [count, win]: the trades of one level of the VIX

ASSUME HealthFacts ==
    /\ Deviations \subseteq Int /\ MinCharted \in Nat \ {0} /\ MaxReturns \in Nat /\ Threshold \in Nat
    /\ Figures \subseteq [count : Nat, win : Nat, roi : Int, streak : Nat, losing : BOOLEAN]
    /\ YearFigures \subseteq [count : Nat, win : Nat, roi : Int]
    /\ RegimeFigures \subseteq [count : Nat, win : Nat]

VARIABLES
    returns,    \* standardised returns of the closed trades, oldest first
    health      \* the last report: its inputs, the alerts and the verdict

healthVars == <<returns, health>>
NoVerdict == [verdict |-> "none"]

\* VIX_REGIMES
RegimeCuts == <<15, 20, 25, 35>>
RegimeNames == <<"low", "normal", "elevated", "high", "extreme">>
RegimeOf(vix) == RegimeNames[1 + Cardinality({i \in DOMAIN RegimeCuts : vix >= RegimeCuts[i]})]

Verdicts == <<"HEALTHY", "WATCH", "WARNING", "CRITICAL">>

\* A report: what it was made of, and its verdict.
AlphaDecayReport ==
    [recent : Figures, year : YearFigures, regime : RegimeFigures,
     alerts : SUBSET [direction : {"degradation", "improvement"}, height : Nat],
     verdict : {Verdicts[i] : i \in DOMAIN Verdicts}]

HealthTypeOK ==
    /\ returns \in Seq(Deviations) /\ Len(returns) <= MaxReturns
    /\ health \in AlphaDecayReport \cup {NoVerdict}

HealthInit == returns = <<>> /\ health = NoVerdict

-----------------------------------------------------------------------------
(* CUSUM.                                                                  *)

Largest(x, y) == IF x >= y THEN x ELSE y

\* Bug: the sum may fall below zero and hide a later shift.
UnresetSums(sign) ==
    LET sum[i \in 1..Len(returns)] == IF i = 1 THEN 0 ELSE sum[i - 1] + sign * returns[i] - 1
    IN sum

\* Sums that start over at zero; the first return is not counted.
Sums(sign) ==
    LET sum[i \in 1..Len(returns)] ==
            IF i = 1 THEN 0 ELSE Largest(0, sum[i - 1] + sign * returns[i] - 1)
    IN sum

Highest(sign) == Max({Sums(sign)[i] : i \in DOMAIN returns})

\* An alert bears the highest value the chart has ever had.
Alerts ==
    IF Len(returns) < MinCharted THEN {}
    ELSE {[direction |-> IF sign = -1 THEN "degradation" ELSE "improvement", height |-> Highest(sign)]
            : sign \in {s \in {-1, 1} : Highest(s) > Threshold}}

-----------------------------------------------------------------------------
(* The verdict.                                                            *)

WinRateGrade(recent, year) ==
    IF year.count < 30 THEN 0
    ELSE LET change == recent.win - year.win
         IN IF change < -15 THEN 3 ELSE IF change < -10 THEN 2 ELSE IF change < -5 THEN 1 ELSE 0

ReturnGrade(recent, year) ==
    IF year.count < 30 \/ year.roi <= 0 THEN 0
    ELSE IF 10 * recent.roi < 3 * year.roi THEN 3 ELSE IF 2 * recent.roi < year.roi THEN 2 ELSE 0

StreakGrade(recent) == IF recent.streak >= 5 THEN 2 ELSE IF recent.streak >= 3 THEN 1 ELSE 0
SharpeGrade(recent) == IF recent.losing /\ recent.count >= 10 THEN 2 ELSE 0
ChartGrade(alerts) ==
    Max({0} \cup {IF a.height > 2 * Threshold THEN 3 ELSE 2 : a \in {b \in alerts : b.direction = "degradation"}})
RegimeGrade(regime) == IF regime.count >= 20 /\ regime.win < 50 THEN 2 ELSE 0

Severity(recent, year, regime, alerts) ==
    Max({ChartGrade(alerts), RegimeGrade(regime)} \cup
        IF recent.count < 5 THEN {}
        ELSE {WinRateGrade(recent, year), ReturnGrade(recent, year), StreakGrade(recent), SharpeGrade(recent)})

TradeReturns(z) ==
    /\ Len(returns) < MaxReturns
    /\ returns' = Append(returns, z)
    /\ UNCHANGED health

\* run_analysis
AnalyseDecay ==
    /\ \E recent \in Figures, year \in YearFigures, regime \in RegimeFigures :
         health' = [recent |-> recent, year |-> year, regime |-> regime, alerts |-> Alerts,
                    verdict |-> Verdicts[1 + Severity(recent, year, regime, Alerts)]]
    /\ UNCHANGED returns

HealthNext == (\E z \in Deviations : TradeReturns(z)) \/ AnalyseDecay

HealthSpec == HealthInit /\ [][HealthNext]_healthVars

-----------------------------------------------------------------------------
(* Properties.                                                             *)

\* What each return adds to a sum.
Drift(sign) == [j \in DOMAIN returns |-> sign * returns[j] - 1]

\* The chart's value after a return is the largest sum of the deviations, less the drift,
\* over a run of returns that ends there: no shift is hidden by good returns before it
\* (alpha_decay_monitor.py:_run_cusum).
ChartSeesEveryRun ==
    \A sign \in {-1, 1}, i \in DOMAIN returns :
        Sums(sign)[i] =
            Max({0} \cup {SumFunctionOnSet(Drift(sign), k..i) : k \in 2..i})

\* Worse figures never give a better verdict, on all else equal
\* (alpha_decay_monitor.py:_assess_health).
WorseIsNeverHealthier ==
    health # NoVerdict =>
        \A other \in Figures :
            ( /\ other.count = health.recent.count /\ other.win <= health.recent.win
              /\ other.roi <= health.recent.roi /\ other.streak >= health.recent.streak
              /\ (health.recent.losing => other.losing) )
            => Severity(other, health.year, health.regime, health.alerts)
                 >= Severity(health.recent, health.year, health.regime, health.alerts)

=============================================================================
