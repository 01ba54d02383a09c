------------------------------- MODULE MCDay -------------------------------
(***************************************************************************)
(* An instance for TLC of a day's work that asks for safety only: from the *)
(* scan to the order (AutoSelection, GreedyPortfolio, StagedTrades,        *)
(* TradeReview), the checks on the way (RiskControl, Guardrails,           *)
(* AutonomyGate), the calendar (TradingDay), the market's events           *)
(* (EventDetector) and the positions (PositionWatch).  They share no       *)
(* state: a behaviour is one of the component in focus.                    *)
(***************************************************************************)
EXTENDS AutoSelection, GreedyPortfolio, StagedTrades, TradeReview, RiskControl,
        Guardrails, AutonomyGate, TradingDay, EventDetector, PositionWatch

VARIABLE focus

sellVars == <<selectionVars, greedyVars, stagedVars, reviewVars>>
checkVars == <<riskAll, guardVars, gateVars>>
watchingVars == <<dayVars, detectorVars, watchVars>>
MCVars == <<focus, sellVars, checkVars, watchingVars>>

Components == {"selection", "greedy", "staged", "review", "risk", "guardrails", "gate",
               "day", "detector", "watch"}

(* AutonomyGate: contexts with at most two keys off their calm value, and  *)
(* confidences on both sides of every threshold.                           *)
CalmContext ==
    [first |-> FALSE, newSymbol |-> FALSE, bigLoss |-> FALSE, stale |-> FALSE,
     acknowledged |-> FALSE, margin |-> 0, vix |-> 15, vixChange |-> 0, losses |-> 0]
Changes ==
    {[CalmContext EXCEPT !.first = TRUE], [CalmContext EXCEPT !.newSymbol = TRUE],
     [CalmContext EXCEPT !.bigLoss = TRUE], [CalmContext EXCEPT !.stale = TRUE],
     [CalmContext EXCEPT !.losses = 2], [CalmContext EXCEPT !.losses = 3]}
    \cup {[CalmContext EXCEPT !.margin = m] : m \in {60, 61, 80, 81}}
    \cup {[CalmContext EXCEPT !.vix = v, !.vixChange = c, !.acknowledged = a] :
            v \in {15, 30, 31, 41}, c \in {0, 20, 21}, a \in BOOLEAN}
MCGrid == {CalmContext} \cup Changes
          \cup {[a EXCEPT !.margin = b.margin, !.stale = b.stale, !.losses = b.losses] :
                    a \in Changes, b \in Changes}
MCConfidences == {49, 50, 59, 60, 69, 70, 79, 80}

\* Only the component in focus starts from all its initial states.
MCInit ==
    /\ SelectionInit /\ GreedyInit /\ StagedInit /\ ReviewInit
    /\ HaltFileInit /\ RiskInit /\ GuardrailInit
    /\ DayInit /\ DetectorInit /\ WatchInit
    /\ focus \in Components
    /\ focus # "greedy" => ~weekly
    /\ focus # "review" => ~selector
    /\ focus # "risk" => account = CHOOSE a \in Accounts : TRUE
    /\ focus # "detector" => trading
    /\ IF focus = "gate" THEN GateInit
       ELSE asked = [level |-> 1, action |-> "MONITOR_ONLY", conf |-> 0, ctx |-> CalmContext]
            /\ answer = "none"

Sells ==
    \/ /\ focus = "selection" /\ SelectionNext
       /\ UNCHANGED <<greedyVars, stagedVars, reviewVars>>
    \/ /\ focus = "greedy" /\ GreedyNext
       /\ UNCHANGED <<selectionVars, stagedVars, reviewVars>>
    \/ /\ focus = "staged" /\ StagedNext
       /\ UNCHANGED <<selectionVars, greedyVars, reviewVars>>
    \/ /\ focus = "review" /\ ReviewNext
       /\ UNCHANGED <<selectionVars, greedyVars, stagedVars>>

Checks ==
    \/ focus = "risk" /\ RiskNext /\ UNCHANGED <<guardVars, gateVars>>
    \/ focus = "guardrails" /\ GuardrailNext /\ UNCHANGED <<riskAll, gateVars>>
    \/ focus = "gate" /\ Judge /\ UNCHANGED <<riskAll, guardVars>>

Watches ==
    \/ focus = "day" /\ DayNext /\ UNCHANGED <<detectorVars, watchVars>>
    \/ focus = "detector" /\ DetectorNext /\ UNCHANGED <<dayVars, watchVars>>
    \/ focus = "watch" /\ WatchNext /\ UNCHANGED <<dayVars, detectorVars>>

MCNext ==
    /\ UNCHANGED focus
    /\ \/ Sells /\ UNCHANGED <<checkVars, watchingVars>>
       \/ Checks /\ UNCHANGED <<sellVars, watchingVars>>
       \/ Watches /\ UNCHANGED <<sellVars, checkVars>>

MCSpec == MCInit /\ [][MCNext]_MCVars

-----------------------------------------------------------------------------
(* TradingDay: before, at and after the opening and the closing.           *)
MCInstants == <<560, 570, 590, 600, 960, 992>>

(* EventDetector: a calm position, one in trouble, one lost, one ending.   *)
CalmStatus == [pnl |-> 10, dte |-> 30, otm |-> 10, delta |-> 20, drop |-> 0]
MCStatuses == {CalmStatus,
               [CalmStatus EXCEPT !.pnl = -250, !.delta = 40, !.drop = 8],
               [CalmStatus EXCEPT !.pnl = -310, !.otm = -4, !.delta = 70, !.drop = 20],
               [CalmStatus EXCEPT !.pnl = 70, !.dte = 3, !.otm = 2]}

(* PositionWatch: past the stop, which is asked about when the exit fails; *)
(* without a price.                                                        *)
Quoted(pnl, delta, source) ==
    [pnl |-> pnl, delta |-> delta, dte |-> 10, cheap |-> FALSE, source |-> source]
\* PositionWatch treats all trades alike.
TradeSymmetry == Permutations(Trades)
MCQuotes == {Quoted(-320, 60, "mid"), Quoted(0, 30, "none")}

(* Guardrails.                                                             *)
MCPosition == [id |-> "t1", symbol |-> "A", strike |-> 100, premium |-> 10,
               contracts |-> 2, dte |-> 5]
MCStaged(k, n, e) ==
    [symbol |-> "B", strike |-> k, premium |-> 10, contracts |-> n, stock |-> 100,
     earnings |-> e]
MCContext(v, s, st, at, opened, staged) ==
    [vix |-> v, spy |-> s, stale |-> st, enrichedAt |-> at, open |-> opened,
     staged |-> staged, recent |-> {"C"}]
MCSnapshots ==
    {MCContext(20, 500, FALSE, 0, {MCPosition}, {MCStaged(90, 2, Missing)}),
     MCContext(Missing, 0, TRUE, Missing, {}, {}),
     MCContext(200, 500, FALSE, Missing, {MCPosition}, {}),
     MCContext(34, 500, FALSE, 0, {MCPosition}, {MCStaged(60, 0, 0)})}
MCDecision(a, p, syms, claims) ==
    [action |-> a, position |-> p, symbols |-> syms, claims |-> claims,
     explained |-> p = Missing, parameter |-> FALSE, tone |-> {"monitor"},
     confidence |-> 95, factors |-> 2, long |-> FALSE]
MCDecisions ==
    {MCDecision("EXECUTE_TRADES", Missing, {"B"}, <<[field |-> "vix", value |-> 20]>>),
     MCDecision("EXECUTE_TRADES", Missing, {"Z"}, <<>>),
     MCDecision("CLOSE_POSITION", "t1", {"Z"}, <<[field |-> "dte", value |-> 9]>>),
     MCDecision("CLOSE_ALL_POSITIONS", Missing, {}, <<>>),
     MCDecision("MONITOR_ONLY", Missing, {}, <<[field |-> "strike", value |-> 200]>>),
     MCDecision("RUN_EXPERIMENT", Missing, {}, <<>>)}
MCLiveQuotes ==
    {[vix |-> 21, spy |-> 500], [vix |-> 40, spy |-> 0], [vix |-> 0, spy |-> 550]}

(* AutoSelection: two puts of equal score but for the delta, one without a *)
(* bid of note, one whose delta is outside the range.                      *)
ScannedPut(d, o, i, v, b, a, t, k, m) ==
    [delta |-> d, otm |-> o, interest |-> i, volume |-> v, bid |-> b, ask |-> a,
     dte |-> t, strike |-> k, stock |-> 100, margin |-> m]
MCPuts ==
    {ScannedPut(65, 12, 1200, 600, 40, 42, 7, 88, 1000),
     ScannedPut(52, 12, 1200, 600, 40, 42, 7, 88, 1000),
     ScannedPut(70, 22, 50, 0, 35, 60, 14, 78, 0),
     ScannedPut(220, 11, 700, 200, 90, 100, 14, 89, 2500)}

(* GreedyPortfolio: two offers of one symbol, three of one sector.         *)
MCOfferSymbol == [o \in Offers |-> IF o \in {"o1", "o2"} THEN "A" ELSE IF o = "o3" THEN "B" ELSE "C"]
MCOfferSector == [o \in Offers |-> IF o = "o4" THEN "y" ELSE "x"]
MCOfferEstimate == [o \in Offers |-> IF o = "o1" THEN 4 ELSE 3]
MCFloor == [o \in Offers |-> 2]
MCAmount == [o \in Offers |-> IF o = "o3" THEN 2 ELSE 1]
MCPremium == [o \in Offers |-> IF o \in {"o1", "o4"} THEN 3 ELSE 2]
MCScore == [o \in Offers |-> IF o = "o4" THEN 1 ELSE 2]

(* StagedTrades: each row fits, both together do not.                      *)
MCRowMargin == [r \in Rows |-> IF r = "r1" THEN 3 ELSE 2]
MCRowEstimate == [r \in Rows |-> 1]

(* TradeReview.                                                            *)
MCStagedStrike == [t \in Reviewed |-> IF t = "t1" THEN 45 ELSE 43]
MCStagedLimit == [t \in Reviewed |-> IF t = "t1" THEN 40 ELSE 22]
BidAsk(b, a) == [bid |-> b, ask |-> a]
MCOpenQuotes == {BidAsk(-1, 0), BidAsk(50, 60), BidAsk(50, 0), BidAsk(19, 21),
                 BidAsk(30, 33), BidAsk(10, 20)}

(* RiskControl: a calm account and one past the limits.                    *)
RiskAccount(n, x, f, p) == [nlv |-> n, excess |-> x, funds |-> f, power |-> 200, pnl |-> p]
MCContracts == {"c1", "c2", "c3"}
MCSectorOf == [c \in MCContracts |-> IF c \in {"c1", "c2"} THEN "tech" ELSE c]
MCTradeMargin == [c \in MCContracts |-> IF c = "c1" THEN 0 ELSE 4]
MCAccounts == {RiskAccount(100, 50, 100, 0), RiskAccount(88, 9, 60, -3)}
=============================================================================
