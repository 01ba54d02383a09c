---------------------------- MODULE AutoSelection ----------------------------
(***************************************************************************)
(* What run_auto_select_pipeline does with the option chain of a symbol:   *)
(* filters, scores, the best put and its number of contracts               *)
(* (services/auto_selector.py, services/position_sizer.py,                 *)
(* services/auto_select_pipeline.py).  The portfolio is chosen from the    *)
(* best puts in GreedyPortfolio.                                           *)
(*                                                                         *)
(* Deltas are thousandths, distances and weights percent, prices cents,    *)
(* scores ten-thousandths.                                                 *)
(***************************************************************************)
EXTENDS Integers, FiniteSets, FiniteSetsExt

CONSTANTS
    Scanned,       \* symbols of the scan
    ChainPuts,     \* puts a chain may hold
    Shortest,      \* dte_prefer_shortest
    Earnings,      \* symbols with earnings before the expiration
    AiScores,      \* scores the model may give, 0 for none
    Equity,        \* NLV
    Vixes          \* values of the VIX, 0 when unknown

PutQuote == [delta : Nat, otm : Nat, interest : Nat, volume : Nat, bid : Nat, ask : Nat,
             dte : Nat, strike : Nat, stock : Nat, margin : Nat]

ASSUME SelectionBounds ==
    /\ Earnings \subseteq Scanned /\ IsFiniteSet(ChainPuts)
    /\ ChainPuts \subseteq PutQuote /\ Shortest \in BOOLEAN
    /\ AiScores \subseteq 0..10 /\ Equity \in Nat /\ Vixes \subseteq Nat

\* scanner_settings.py.
DeltaMin == 50
DeltaMax == 300
DeltaTarget == 65
ScanMinPremium == 30
ScanMinOtm == 10
EarningsOtm == 5
Weights == [safety |-> 40, liquidity |-> 30, ai |-> 20, efficiency |-> 10]

NoPut == [delta |-> 0, otm |-> 0, interest |-> 0, volume |-> 0, bid |-> 0, ask |-> 0,
          dte |-> 0, strike |-> 0, stock |-> 0, margin |-> 0]

VARIABLES
    chain,     \* symbol -> puts of its chain
    best       \* symbol -> the put picked, with its contracts and score

selectionVars == <<chain, best>>

Unpicked == [put |-> NoPut, contracts |-> 0, score |-> 0]

\* The best put of a symbol, or that there is none.
BestStrike == [put : ChainPuts \cup {NoPut}, contracts : Nat, score : Nat]

SelectionTypeOK ==
    /\ chain \in [Scanned -> SUBSET ChainPuts]
    /\ best \in [Scanned -> BestStrike]

SelectionInit ==
    /\ chain = [s \in Scanned |-> {}]
    /\ best = [s \in Scanned |-> Unpicked]

-----------------------------------------------------------------------------
(* Scores.                                                                 *)

Positive(x) == IF x > 0 THEN x ELSE 0
Least(x, y) == IF x < y THEN x ELSE y
Greatest(x, y) == IF x > y THEN x ELSE y

\* The score of the first tier whose bound x reaches.
Tier(x, tiers, otherwise) ==
    LET reached == {t \in tiers : x >= t[1]}
    IN IF reached = {} THEN otherwise ELSE (CHOOSE t \in reached : \A u \in reached : t[1] >= u[1])[2]

\* Bug: the delta itself, not its distance from the target.
SafetyScoreOfDelta(p) == 60 * (100 - (100 * p.delta) \div 300)
    + 40 * Tier(p.otm, {<<20, 100>>, <<15, 80>>, <<10, 50>>, <<5, 30>>}, 10)

SafetyScore(p) ==
    LET distance == Positive(p.delta - DeltaTarget) + Positive(DeltaTarget - p.delta)
        near == Positive(100 - (100 * distance) \div Greatest(DeltaTarget, 300))
        delta == IF p.delta > 200 THEN Least(near, 30) ELSE near
    IN 60 * delta + 40 * Tier(p.otm, {<<20, 100>>, <<15, 80>>, <<10, 50>>, <<5, 30>>}, 10)

\* The spread in percent of the middle; none is the worst.
SpreadPercent(p) ==
    IF p.bid > 0 /\ p.ask > 0 THEN (200 * (p.ask - p.bid)) \div (p.ask + p.bid) ELSE 100

LiquidityScore(p) ==
    (100 * (Tier(p.interest, {<<1000, 100>>, <<500, 70>>, <<100, 40>>}, 10)
            + Tier(-SpreadPercent(p), {<<-5, 100>>, <<-10, 70>>, <<-20, 40>>}, 10)
            + Tier(p.volume, {<<500, 100>>, <<100, 60>>, <<1, 30>>}, 10))) \div 3

\* _estimate_margin_regt, when the broker's WhatIf gives no margin.
RegT(p) ==
    Greatest((20 * p.stock) \div 100 - Positive(p.stock - p.strike) + p.bid \div 100,
             p.stock \div 10) * 100
PutMargin(p) == IF p.margin > 0 THEN p.margin ELSE RegT(p)

\* Annualised return on margin, in percent.
EfficiencyScore(p) ==
    IF PutMargin(p) = 0 \/ p.dte = 0 THEN 0
    ELSE 100 * Tier((p.bid * 36500) \div (PutMargin(p) * p.dte),
                    {<<30, 100>>, <<20, 80>>, <<10, 60>>, <<5, 40>>}, 20)

Composite(p) ==
    (Weights.safety * SafetyScore(p) + Weights.liquidity * LiquidityScore(p)
     + Weights.efficiency * EfficiencyScore(p))
        \div (Weights.safety + Weights.liquidity + Weights.efficiency)

\* compute_composite_score_4w: a missing score of the model leaves its weight out.
Composite4(p, ai) ==
    IF ai = 0 THEN Composite(p)
    ELSE (Weights.safety * SafetyScore(p) + Weights.liquidity * LiquidityScore(p)
          + Weights.efficiency * EfficiencyScore(p) + Weights.ai * ((10000 * (ai - 1)) \div 9))
             \div (Weights.safety + Weights.liquidity + Weights.efficiency + Weights.ai)

-----------------------------------------------------------------------------
(* One symbol.                                                             *)

\* filter_candidates; earnings within the term ask for more distance.
Candidates(s, puts) ==
    {p \in puts : /\ p.bid >= ScanMinPremium /\ p.bid > 0
                  /\ DeltaMin <= p.delta /\ p.delta <= DeltaMax
                  /\ p.otm >= ScanMinOtm + IF s \in Earnings THEN EarningsOtm ELSE 0}

\* select_best_per_symbol: the shortest term first, if so configured.
Contenders(puts) ==
    IF Shortest THEN {p \in puts : \A q \in puts : p.dte <= q.dte} ELSE puts
BestOf(puts) == {p \in Contenders(puts) : \A q \in Contenders(puts) : Composite(q) <= Composite(p)}

VixFactor(vix) == Tier(vix, {<<35, 25>>, <<25, 50>>, <<15, 80>>}, 100)

\* calculate_contracts: two percent of the equity against a fall of a quarter,
\* at most three or five by price, at least one.  The halt at a VIX of 40 answers
\* none, which the pipeline turns into one.
SizedContracts(p, vix) ==
    LET most == IF p.stock > 90 THEN 3 ELSE 5
        risk == (2 * Equity) \div (25 * p.strike * 100)
        plain == Greatest(1, Least(risk, most))
    IN IF vix >= 40 \/ Equity = 0 THEN 1
       ELSE Greatest(1, (plain * VixFactor(vix)) \div 100)

\* The chain of a symbol arrives and its best put is picked, sized and scored.
Pick(s) ==
    /\ chain[s] = {}
    /\ \E puts \in SUBSET ChainPuts, ai \in AiScores, vix \in Vixes :
         /\ puts # {}
         /\ chain' = [chain EXCEPT ![s] = puts]
         /\ best' = [best EXCEPT ![s] =
                       IF Candidates(s, puts) = {} THEN Unpicked
                       ELSE LET p == CHOOSE q \in BestOf(Candidates(s, puts)) : TRUE
                            IN [put |-> p, contracts |-> SizedContracts(p, vix),
                                score |-> Composite4(p, ai)]]

SelectionNext == \E s \in Scanned : Pick(s)

SelectionSpec == SelectionInit /\ [][SelectionNext]_selectionVars

-----------------------------------------------------------------------------
(* Properties.                                                             *)

Away(p) == Positive(p.delta - DeltaTarget) + Positive(DeltaTarget - p.delta)

\* A put without margin or term has no return, and no more than any other.
HasReturn(p) == PutMargin(p) > 0 /\ p.dte > 0
ReturnsAsMuch(p, q) ==
    HasReturn(q) => HasReturn(p) /\ p.bid * (PutMargin(q) * q.dte) >= q.bid * (PutMargin(p) * p.dte)

Dominates(p, q) ==
    /\ Away(p) + 3 <= Away(q) /\ p.delta <= 200
    /\ p.otm >= q.otm /\ p.interest >= q.interest /\ p.volume >= q.volume
    /\ SpreadPercent(p) <= SpreadPercent(q)
    /\ ReturnsAsMuch(p, q)
    /\ p.dte <= q.dte

\* No put of the chain that the filters let through is passed over for one that is
\* farther from the target delta and no better in any respect a score looks at: not in
\* distance from the money, open interest, volume, spread, return on margin or term
\* (auto_selector.py:select_best_per_symbol).
BestIsUndominated ==
    \A s \in Scanned : best[s] # Unpicked =>
        \A p \in Candidates(s, chain[s]) : ~Dominates(p, best[s].put)

=============================================================================
