------------------------------ MODULE MCLedger ------------------------------
(***************************************************************************)
(* An instance for TLC of what follows an order and asks for safety only:  *)
(* its fills (FillMonitor), the option sold in a bracket (NakedTrader),    *)
(* the account history (TradeImport, TradeEnrichment) and what is learned  *)
(* from closed trades (PatternMining, StrategyHealth) or earned with them  *)
(* (AutonomyLevels).  They share no state: a behaviour is one of the       *)
(* component in focus.                                                     *)
(***************************************************************************)
EXTENDS FillMonitor, NakedTrader, TradeImport, TradeEnrichment, PatternMining, StrategyHealth,
        AutonomyLevels

VARIABLE focus

orderVars == <<fillVars, saleVars>>
historyVars == <<importVars, enrichmentVars>>
lessonVars == <<miningVars, healthVars, levelsVars>>
MCVars == <<focus, orderVars, historyVars, lessonVars>>

Components == {"fills", "sale", "import", "enrichment", "mining", "health", "levels"}

\* Only the component in focus starts from all its initial states.
MCInit ==
    /\ FillInit /\ SaleInit /\ ImportInit /\ EnrichmentInit /\ MiningInit /\ HealthInit
    /\ LevelsInit
    /\ focus \in Components
    /\ focus # "fills" => runner = "fills"
    /\ focus # "enrichment" => entry = [t \in Recorded |-> Live({})]

Orders ==
    \/ focus = "fills" /\ FillNext /\ UNCHANGED saleVars
    \/ focus = "sale" /\ SaleNext /\ UNCHANGED fillVars

Histories ==
    \/ focus = "import" /\ ImportNext /\ UNCHANGED enrichmentVars
    \/ focus = "enrichment" /\ EnrichmentNext /\ UNCHANGED importVars

Lessons ==
    \/ focus = "mining" /\ MiningNext /\ UNCHANGED <<healthVars, levelsVars>>
    \/ focus = "health" /\ HealthNext /\ UNCHANGED <<miningVars, levelsVars>>
    \/ focus = "levels" /\ LevelsNext /\ UNCHANGED <<miningVars, healthVars>>

MCNext ==
    /\ UNCHANGED focus
    /\ \/ Orders /\ UNCHANGED <<historyVars, lessonVars>>
       \/ Histories /\ UNCHANGED <<orderVars, lessonVars>>
       \/ Lessons /\ UNCHANGED <<orderVars, historyVars>>

MCSpec == MCInit /\ [][MCNext]_MCVars

-----------------------------------------------------------------------------
(* FillMonitor: one trade of three contracts.                              *)
MCOrdered == [t \in Submitted |-> 4 - t]

(* NakedTrader: a chain that needs the second try, and one that never fits. *)
ChainQuote(d, b, t) == [delta |-> d, bid |-> b, term |-> t]
MCChainOf ==
    [s \in Sales |->
        IF s = "s1"
        THEN <<{ChainQuote(60, 20, 1)},
               {ChainQuote(60, 40, 2), ChainQuote(72, 50, 2), ChainQuote(110, 80, 2)}>>
        ELSE <<{ChainQuote(135, 45, 1), ChainQuote(140, 60, 1)}>>]

(* TradeImport: a sale closed in two parts by way of a second one.         *)
Execution(k, q, p, d, x) == [kind |-> k, qty |-> q, price |-> p, date |-> d, expiry |-> x]
MCExec == <<Execution("sto", 2, 40, 0, 3), Execution("btc", 1, 10, 1, 3),
            Execution("sto", 1, 50, 1, 2), Execution("btc", 2, 20, 3, 3)>>

(* TradeEnrichment.                                                        *)
MCCaptured == {{}, {"bar", "otm", "option", "margin"}}
MCChains == {<<"yahoo">>, <<"yahoo", "ibkr">>}

(* PatternMining: live trades of several kinds and a paper trade.          *)
ClosedTrade(n, source, roi, facts) == [id |-> n, source |-> source, roi |-> roi, facts |-> facts]
MCTrades ==
    {ClosedTrade(1, "live", 6, [dte |-> 10, vix |-> 12]),
     ClosedTrade(2, "live", 4, [dte |-> 14, reason |-> "profit_target"]),
     ClosedTrade(3, "live", -5, [dte |-> 20, reason |-> "stop_loss"]),
     ClosedTrade(4, "live", -6, [vix |-> 18, dte |-> 21]),
     ClosedTrade(5, "paper", 9, [reason |-> "profit_target", vix |-> 12]),
     ClosedTrade(6, "live", 0, [vix |-> 16])}
MCEffectFloor(n) == IF n > 2 THEN 40 ELSE 50
MCSampleConfidence(n) == 70

(* StrategyHealth.                                                         *)
MCDeviations == {-3, 0, 4}
MCFigures == [count : {10}, win : {60, 78}, roi : {-1, 4}, streak : {0}, losing : BOOLEAN]
MCYearFigures == [count : {40}, win : {85}, roi : {-2, 9}]
MCRegimeFigures == [count : {20}, win : {60}]
=============================================================================
