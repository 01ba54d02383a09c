--------------------------- MODULE GreedyPortfolio ---------------------------
(***************************************************************************)
(* The two greedy portfolios: build_auto_select_portfolio, which takes     *)
(* trades by their score (services/auto_selector.py), and PortfolioBuilder *)
(* of the weekly command, which first asks the broker for each margin, a   *)
(* second time where it got none, and takes trades by premium per margin   *)
(* (services/portfolio_builder.py).  Both then run the same loop.          *)
(*                                                                         *)
(* The builder of the weekly command gets no database session, so trades   *)
(* that are staged already do not lower its budget.                        *)
(***************************************************************************)
EXTENDS Integers, FiniteSets, FiniteSetsExt, Functions

CONSTANTS
    Offers,       \* candidates
    OfferSymbol,  \* offer -> symbol
    OfferSector,  \* offer -> sector
    Estimate,     \* offer -> Reg-T estimate of the margin per contract
    Floor,        \* offer -> least margin that is believed
    Amount,       \* offer -> contracts
    Premium,      \* offer -> premium of the whole trade
    Score,        \* offer -> composite score
    Answers,      \* margins the broker may answer, 0 for none
    TradeBudget,  \* margin budget for new trades
    MaxTrades,    \* max_positions
    MaxInSector   \* max_per_sector, max_sector_concentration

Sectors == {OfferSector[o] : o \in Offers}

ASSUME OfferFacts ==
    /\ IsFiniteSet(Offers)
    /\ OfferSymbol \in [Offers -> STRING] /\ OfferSector \in [Offers -> STRING]
    /\ Estimate \in [Offers -> Nat] /\ Floor \in [Offers -> Nat \ {0}]
    /\ Amount \in [Offers -> Nat] /\ Premium \in [Offers -> Nat] /\ Score \in [Offers -> Nat]
    /\ Answers \subseteq Nat
    /\ TradeBudget \in Nat /\ MaxTrades \in Nat /\ MaxInSector \in Nat

VARIABLES
    weekly,       \* the builder of the weekly command, or of the selection
    timesAsked,        \* offer -> how often the broker was asked for its margin
    margin,       \* offer -> margin_actual, 0 for none
    ahead,        \* offers the loop has not reached
    chosen,       \* selected_trades
    passed,       \* skipped_trades
    committed,    \* cumulative_margin
    count,        \* len(selected_trades)
    sectorCount,  \* sector_counts
    seen          \* selected_symbols

greedyVars == <<weekly, timesAsked, margin, ahead, chosen, passed, committed, count, sectorCount, seen>>

GreedyTypeOK ==
    /\ weekly \in BOOLEAN
    /\ timesAsked \in [Offers -> 0..2] /\ margin \in [Offers -> Nat]
    /\ ahead \subseteq Offers /\ chosen \subseteq Offers /\ passed \subseteq Offers
    /\ committed \in Nat /\ count \in Nat
    /\ sectorCount \in [Sectors -> Nat]
    /\ seen \subseteq STRING

GreedyInit ==
    /\ weekly \in BOOLEAN
    /\ timesAsked = [o \in Offers |-> 0]
    /\ margin = [o \in Offers |-> 0]
    /\ ahead = Offers /\ chosen = {} /\ passed = {}
    /\ committed = 0 /\ count = 0
    /\ sectorCount = [s \in Sectors |-> 0]
    /\ seen = {}

-----------------------------------------------------------------------------
\* effective_margin: the broker's, or the estimate.
Effective(o) == IF margin[o] > 0 THEN margin[o] ELSE Estimate[o]
TotalMargin(o) == Effective(o) * Amount[o]

\* The retry pass begins when every offer was asked for once.
Round == IF \E o \in Offers : timesAsked[o] = 0 THEN 0 ELSE 1
Unasked == {o \in Offers : timesAsked[o] = Round /\ margin[o] = 0}

\* _get_single_margin: an answer below five percent of the notional is not believed.
AskMargin(o) ==
    /\ ahead = Offers
    /\ o \in Unasked
    /\ \E a \in Answers : margin' = [margin EXCEPT ![o] = IF a < Floor[o] THEN 0 ELSE a]
    /\ timesAsked' = [timesAsked EXCEPT ![o] = Round + 1]
    /\ UNCHANGED <<weekly, ahead, chosen, passed, committed, count, sectorCount, seen>>

\* Premium per margin, compared without dividing; a trade without margin comes last.
MoreEfficient(o, p) ==
    IF TotalMargin(p) = 0 THEN TotalMargin(o) > 0 ELSE Premium[o] * TotalMargin(p) > Premium[p] * TotalMargin(o) /\ TotalMargin(o) > 0
Before(o, p) == IF weekly THEN MoreEfficient(o, p) ELSE Score[o] > Score[p]

\* Bug: an offer over the budget is let through when it is the first of its sector.
FitsSector(o) ==
    /\ count < MaxTrades /\ OfferSymbol[o] \notin seen
    /\ sectorCount[OfferSector[o]] < MaxInSector
    /\ sectorCount[OfferSector[o]] = 0 \/ committed + TotalMargin(o) <= TradeBudget

\* _check_constraints.
Fits(o) ==
    /\ count < MaxTrades
    /\ OfferSymbol[o] \notin seen
    /\ sectorCount[OfferSector[o]] < MaxInSector
    /\ committed + TotalMargin(o) <= TradeBudget

Ready == \/ ~weekly /\ timesAsked = [o \in Offers |-> 0]
         \/ weekly /\ Unasked = {}

Take(o) ==
    /\ Fits(o)
    /\ chosen' = chosen \cup {o}
    /\ committed' = committed + TotalMargin(o)
    /\ count' = count + 1
    /\ sectorCount' = [sectorCount EXCEPT ![OfferSector[o]] = @ + 1]
    /\ seen' = seen \cup {OfferSymbol[o]}
    /\ UNCHANGED passed

Pass(o) ==
    /\ ~Fits(o)
    /\ passed' = passed \cup {o}
    /\ UNCHANGED <<chosen, committed, count, sectorCount, seen>>

\* The loop reaches the next offer; equal offers come in the order of the scan.
Reach(o) ==
    /\ Ready
    /\ o \in ahead /\ ~\E p \in ahead : Before(p, o)
    /\ ahead' = ahead \ {o}
    /\ Take(o) \/ Pass(o)
    /\ UNCHANGED <<weekly, timesAsked, margin>>

GreedyNext == \E o \in Offers : (weekly /\ AskMargin(o)) \/ Reach(o)

GreedySpec == GreedyInit /\ [][GreedyNext]_greedyVars

-----------------------------------------------------------------------------
(* Properties.                                                             *)

\* The limits of a portfolio, said of the set of its trades and not of the counters.
KeepsLimits(S) ==
    /\ Cardinality(S) <= MaxTrades
    /\ \A o, p \in S : o # p => OfferSymbol[o] # OfferSymbol[p]
    /\ \A s \in Sectors : Cardinality({o \in S : OfferSector[o] = s}) <= MaxInSector
    /\ SumFunctionOnSet([o \in Offers |-> TotalMargin(o)], S) <= TradeBudget

\* The trades chosen keep the limits together, and none that was passed over, when
\* other trades were chosen than now, could be added: the portfolio is maximal
\* (portfolio_builder.py:build_portfolio, auto_selector.py:build_auto_select_portfolio).
PortfolioIsMaximal ==
    KeepsLimits(chosen) /\ \A o \in passed : ~KeepsLimits(chosen \cup {o})

\* The same of the counters the loop keeps: what it passed over when less was
\* committed would still not fit beside all that it has chosen since, and what it
\* has chosen keeps the budget (portfolio_builder.py:build_portfolio).
PassedDoesNotFit ==
    /\ committed <= TradeBudget
    /\ \A o \in passed : ~Fits(o)

=============================================================================
