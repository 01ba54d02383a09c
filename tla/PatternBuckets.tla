--------------------------- MODULE PatternBuckets ---------------------------
(***************************************************************************)
(* How the learning engine sorts closed trades into groups: the buckets of *)
(* pattern_detector.py, the courses of path_analyzer.py and the            *)
(* combinations of pattern_combiner.py.                                    *)
(*                                                                         *)
(* A trade brings the columns of its snapshots that hold a value: facts is *)
(* a function whose domain is the set of those columns (a trade that       *)
(* brings any has both of its snapshots).  Ratios are in hundredths, the   *)
(* MACD histogram and the risk-adjusted return in tenths.                  *)
(***************************************************************************)
EXTENDS Integers, Sequences, FiniteSets, Functions
LOCAL INSTANCE TLC

-----------------------------------------------------------------------------
(* Pattern detector: ranges from each cut up to the next.                  *)

OptionCuts == [delta |-> <<0, 10, 15, 20, 25, 100>>, iv_rank |-> <<0, 25, 50, 75, 100>>]
MarketCuts == [dte |-> <<0, 7, 14, 21, 30, 365>>, vix |-> <<0, 15, 20, 25, 100>>]
MomentumCuts == [rsi |-> <<0, 30, 70, 100>>, macd |-> <<-1000, -5, -1, 1, 5, 1000>>,
                 adx |-> <<0, 20, 40, 100>>]
ExtensionCuts == [bb |-> <<0, 20, 80, 100>>, support |-> <<0, 5, 15, 100>>, atr |-> <<0, 2, 5, 100>>]
CalendarCuts == [fomc |-> <<0, 7, 14, 365>>]
Cuts == OptionCuts @@ MarketCuts @@ MomentumCuts @@ ExtensionCuts @@ CalendarCuts

\* The range of days to expiration is closed on both sides.
InRange(analysis, lower, upper, v) ==
    lower <= v /\ (v < upper \/ (analysis = "dte" /\ v = upper))
Buckets(analysis, v) ==
    {k \in 1..Len(Cuts[analysis]) - 1 : InRange(analysis, Cuts[analysis][k], Cuts[analysis][k + 1], v)}

\* Columns that are compared with a fixed list of values.
Listed == [trend |-> {"uptrend", "downtrend", "sideways", "unknown"},
           entry_day |-> {"Monday", "Tuesday", "Wednesday", "Thursday", "Friday"}]
ListedRegimes == [vol_regime |-> {"low", "normal", "elevated", "extreme"},
                  market_regime |-> {"bullish", "bearish", "neutral", "volatile"},
                  opex |-> {"opex_week", "non_opex_week"}]

\* A trade with an announcement outside its life is in two groups.
EarningsGroups(timing, inDte) ==
    ({timing} \cap {"BMO", "AMC"}) \cup (IF inDte THEN {} ELSE {"none"})
BreadthGroups(qqq, iwm) ==
    {g \in {"risk_on", "risk_off", "broad_strength", "broad_weakness"} :
        CASE g = "risk_on" -> iwm > qqq
          [] g = "risk_off" -> qqq > iwm
          [] g = "broad_strength" -> qqq > 0 /\ iwm > 0
          [] g = "broad_weakness" -> qqq < 0 /\ iwm < 0}

DetectorColumns == DOMAIN Cuts \cup DOMAIN Listed \cup DOMAIN ListedRegimes
                     \cup {"sector", "earnings", "breadth"}
DetectorGroups(analysis, v) ==
    CASE analysis \in DOMAIN Cuts -> Buckets(analysis, v)
      [] analysis \in DOMAIN Listed -> {v} \cap Listed[analysis]
      [] analysis \in DOMAIN ListedRegimes -> {v} \cap ListedRegimes[analysis]
      [] analysis = "sector" -> {v}
      [] analysis = "earnings" -> EarningsGroups(v.timing, v.in_dte)
      [] analysis = "breadth" -> BreadthGroups(v.qqq, v.iwm)

-----------------------------------------------------------------------------
(* Path analyser: every trade with the columns is in one class.            *)

AtLeast(cuts, v) == Cardinality({i \in DOMAIN cuts : v >= cuts[i]})
Above(cuts, v) == Cardinality({i \in DOMAIN cuts : v > cuts[i]})
Around(low, high, v) == IF v < low THEN "down" ELSE IF v <= high THEN "stable" ELSE "up"

Efficiency(v) == AtLeast(<<60, 80>>, v)
Peak(pnl) == LET seen == {pnl[i] : i \in DOMAIN pnl} \cup {0} IN CHOOSE x \in seen : \A y \in seen : y <= x
Reversal(pnl, final) ==
    IF Peak(pnl) > 50 /\ final < 20 THEN "strong"
    ELSE IF Peak(pnl) > 30 /\ final < 10 THEN "moderate" ELSE "none"

\* The rate of the second half against the one of the first, multiplied out.
Momentum(pnl) ==
    LET mid == Len(pnl) \div 2
        early == (pnl[mid + 1] - pnl[1]) * (Len(pnl) - mid)
        late == (pnl[Len(pnl)] - pnl[mid + 1]) * mid
    IN IF 10 * late > 12 * early THEN "accelerating"
       ELSE IF 2 * late < early THEN "plateauing" ELSE "steady"
Magnitude(x) == IF x < 0 THEN -x ELSE x
GreeksTurn(deltas) == Around(-5, 5, Magnitude(deltas[Len(deltas)]) - Magnitude(deltas[1]))
Proximity(v) == Above(<<5, 10>>, v)
Quality(v) == AtLeast(<<40, 70>>, v)
RiskAdjusted(v) == Above(<<15, 30>>, v)
IvTurn(v) == Around(-10, 10, v)
StockTurn(v) == AtLeast(<<-5, -2>>, v) + Above(<<2, 5>>, v)
VixTurn(v) == Around(-2, 2, v)
Drawdown(v) == Around(10, 25, Magnitude(v))

\* What each analysis of a course reads, and the class it gives.
PathNeeds ==
    [exit_efficiency |-> {"efficiency", "pnl"}, profit_reversal |-> {"pnl", "profit"}, pnl_momentum |-> {"pnl"},
     greeks_evolution |-> {"deltas"}, proximity_risk |-> {"closest"}, exit_reason |-> {"reason"},
     trade_quality |-> {"quality"}, risk_adjusted_return |-> {"rar"}, iv_change |-> {"iv_change"},
     stock_movement |-> {"stock_change"}, vix_change |-> {"vix_change"}, max_drawdown |-> {"drawdown"}]
MomentumUsers == {"pnl_momentum", "rsi_momentum_combo", "rsi_momentum_quality_combo"}
LongEnough(analysis, f) ==
    /\ analysis \in MomentumUsers => Len(f.pnl) >= 3
    /\ "deltas" \in DOMAIN f => Len(f.deltas) >= 2
PathClass(analysis, f) ==
    CASE analysis = "exit_efficiency" -> Efficiency(f.efficiency)
      [] analysis = "profit_reversal" -> Reversal(f.pnl, f.profit)
      [] analysis = "pnl_momentum" -> Momentum(f.pnl)
      [] analysis = "greeks_evolution" -> GreeksTurn(f.deltas)
      [] analysis = "proximity_risk" -> Proximity(f.closest)
      [] analysis = "exit_reason" -> f.reason
      [] analysis = "trade_quality" -> Quality(f.quality)
      [] analysis = "risk_adjusted_return" -> RiskAdjusted(f.rar)
      [] analysis = "iv_change" -> IvTurn(f.iv_change)
      [] analysis = "stock_movement" -> StockTurn(f.stock_change)
      [] analysis = "vix_change" -> VixTurn(f.vix_change)
      [] analysis = "max_drawdown" -> Drawdown(f.drawdown)

-----------------------------------------------------------------------------
(* Pattern combiner.                                                       *)

ComboNeeds ==
    [rsi_momentum_combo |-> {"rsi", "pnl"}, iv_entry_exit_combo |-> {"iv_rank", "iv_change"},
     trend_greeks_combo |-> {"trend", "deltas"}, breadth_stock_combo |-> {"breadth", "stock_change"},
     sector_exit_combo |-> {"sector", "reason"}, vix_entry_exit_combo |-> {"vix", "vix_change"},
     support_drawdown_combo |-> {"support", "drawdown"},
     iv_triple_combo |-> {"iv_rank", "iv_change", "reason"},
     rsi_momentum_quality_combo |-> {"rsi", "pnl", "quality"},
     trend_greeks_drawdown_combo |-> {"trend", "deltas", "drawdown"}]

RsiMomentum(f) == <<AtLeast(<<30, 70>>, f.rsi), Momentum(f.pnl)>>
IvEntryExit(f) == <<Above(<<50, 75>>, f.iv_rank), IvTurn(f.iv_change)>>
TrendGreeks(f) == <<f.trend, GreeksTurn(f.deltas)>>
\* Unlike the detector's groups these exclude one another, in this order.
BreadthClass(qqq, iwm) ==
    IF iwm > qqq /\ qqq > 0 THEN "risk_on"
    ELSE IF qqq > 0 /\ iwm > 0 THEN "broad_strength"
    ELSE IF qqq < 0 /\ iwm < 0 THEN "broad_weakness" ELSE "risk_off"
BreadthStock(f) == <<BreadthClass(f.breadth.qqq, f.breadth.iwm),
                     AtLeast(<<-2>>, f.stock_change) + Above(<<2, 5>>, f.stock_change)>>
SectorExit(f) == <<f.sector, f.reason>>
VixEntryExit(f) == <<AtLeast(<<15, 20, 25>>, f.vix), VixTurn(f.vix_change)>>
SupportDrawdown(f) == <<AtLeast(<<5, 15>>, f.support), Drawdown(f.drawdown)>>
IvTriple(f) == <<f.iv_rank > 50, f.iv_change < -10, f.reason = "profit_target">>
RsiTriple(f) == <<f.rsi < 30, Momentum(f.pnl) = "accelerating", f.quality >= 70>>
TrendTriple(f) == <<f.trend = "uptrend", GreeksTurn(f.deltas) = "down", Drawdown(f.drawdown) = "down">>

ComboClass(combo, f) ==
    CASE combo = "rsi_momentum_combo" -> RsiMomentum(f)
      [] combo = "iv_entry_exit_combo" -> IvEntryExit(f)
      [] combo = "trend_greeks_combo" -> TrendGreeks(f)
      [] combo = "breadth_stock_combo" -> BreadthStock(f)
      [] combo = "sector_exit_combo" -> SectorExit(f)
      [] combo = "vix_entry_exit_combo" -> VixEntryExit(f)
      [] combo = "support_drawdown_combo" -> SupportDrawdown(f)
      [] combo = "iv_triple_combo" -> IvTriple(f)
      [] combo = "rsi_momentum_quality_combo" -> RsiTriple(f)
      [] combo = "trend_greeks_drawdown_combo" -> TrendTriple(f)

-----------------------------------------------------------------------------

\* The groups of one analysis a trade belongs to.
GroupsOf(analysis, f) ==
    CASE analysis \in DetectorColumns ->
           IF analysis \in DOMAIN f THEN DetectorGroups(analysis, f[analysis]) ELSE {}
      [] analysis \in DOMAIN PathNeeds ->
           IF PathNeeds[analysis] \subseteq DOMAIN f /\ LongEnough(analysis, f) THEN {PathClass(analysis, f)} ELSE {}
      [] analysis \in DOMAIN ComboNeeds ->
           IF ComboNeeds[analysis] \subseteq DOMAIN f /\ LongEnough(analysis, f) THEN {ComboClass(analysis, f)} ELSE {}
Analyses == DetectorColumns \cup DOMAIN PathNeeds \cup DOMAIN ComboNeeds

=============================================================================
