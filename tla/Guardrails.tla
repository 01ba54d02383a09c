----------------------------- MODULE Guardrails -----------------------------
(***************************************************************************)
(* The guardrails of the daemon (agentic/guardrails): the context is       *)
(* validated before Claude reads it, the decision after Claude made it,    *)
(* and a trade once more against the live market just before it is         *)
(* executed.  Texts are abstracted to what the checks extract from them:   *)
(* the symbols a reasoning names, the numbers it claims, its tone.  A      *)
(* check returns its failed results, each a guard with its severity.       *)
(* Prices and VIX are whole numbers, thresholds whole percents.            *)
(***************************************************************************)
EXTENDS Integers, Sequences, FiniteSets, SequencesExt

CONSTANTS
    Snapshots,       \* what the daemon may assemble
    Decisions,      \* what Claude may answer
    LiveQuotes,     \* what the broker may deliver at the gate: [vix, spy], 0 for no quote
    NoClient,       \* no broker, or the fetch raised
    Missing,        \* None
    Unknown,        \* the text "UNKNOWN"
    MaxAge,         \* data_freshness_max_age_seconds
    VixMove,        \* vix_movement_block_pct
    SpyMove,        \* spy_movement_block_pct
    VixCeiling,     \* vix_absolute_block_threshold
    MaxPerMinute,      \* max_orders_per_minute
    LogSize,        \* deque(maxlen=...)
    EarningsDays,   \* earnings_block_days
    Tolerance,      \* numerical_tolerance_pct
    MaxMismatches,  \* numerical_max_mismatches_before_block
    Seconds,        \* the ticks of the clock
    MaxClock,       \* bound: length of a behaviour in seconds
    MaxReviews      \* bound: EXECUTE_TRADES rows counted that await a human

\* The limit is below the length of the log: a log shorter than the limit
\* could never show that the limit is reached.
ASSUME GuardrailAssumption ==
    /\ MaxPerMinute \in Nat \ {0} /\ LogSize \in Nat /\ MaxPerMinute <= LogSize
    /\ Seconds \subseteq Nat \ {0} /\ MaxReviews \in Nat

VARIABLES
    clock,        \* time.time()
    phase,        \* where the event in hand is
    context,      \* the context given to Claude
    decision,     \* the decision in hand
    orderLog,     \* ExecutionGate._order_timestamps
    letThrough,   \* history: when the gate sent EXECUTE_TRADES to the executor
    undecided     \* decisions to EXECUTE_TRADES that await a human

guardVars == <<clock, phase, context, decision, orderLog, letThrough, undecided>>

TradeActions == {"EXECUTE_TRADES", "CLOSE_POSITION", "CLOSE_ALL_POSITIONS"}
RiskReducing == TradeActions \ {"EXECUTE_TRADES"}
Window == 60

GuardrailInit ==
    /\ clock = 0
    /\ phase = "idle"
    /\ context = Missing
    /\ decision = Missing
    /\ orderLog = <<>>
    /\ letThrough = <<>>
    /\ undecided = 0

\* What the checks read of a context: quotes with their age, the positions, the
\* staged candidates, the symbols of the last trades.
ReasoningContext(c) ==
    /\ DOMAIN c = {"vix", "spy", "stale", "enrichedAt", "open", "staged", "recent"}
    /\ c.stale \in BOOLEAN
    /\ \A p \in c.open : DOMAIN p = {"id", "symbol", "strike", "premium", "contracts", "dte"}
    /\ \A s \in c.staged :
           DOMAIN s = {"symbol", "strike", "premium", "contracts", "stock", "earnings"}

ASSUME ContextsAreWhole == \A c \in Snapshots : ReasoningContext(c)

Failed(guard, severity, condition) ==
    IF condition THEN {<<guard, severity>>} ELSE {}

\* GuardrailRegistry.has_block
HasBlock(results) == \E r \in results : r[2] = "block"

Apart(a, b) == IF a >= b THEN a - b ELSE b - a
Numeric(v) == v \notin {Missing, Unknown}
Moved(before, now, percent) == Apart(before, now) * 100 > percent * before

-----------------------------------------------------------------------------
(* Before Claude: the context.                                             *)

\* An enrichment that failed, or one that is too old.
DataFreshness(c) ==
    Failed("data_freshness", "block",
        c.stale \/ (c.enrichedAt # Missing /\ clock - c.enrichedAt > MaxAge))

Impossible(v, low, high) == Numeric(v) /\ v > 0 /\ ~(v \in low..high)

Consistency(c) ==
    Failed("consistency_check", "block",
           Impossible(c.vix, 5, 100) \/ Impossible(c.spy, 100, 1000))
    \cup Failed("consistency_check", "warning", Unknown \in {c.vix, c.spy})

\* check_consistency takes a zero for a missing quote, sanitize_nulls writes
\* UNKNOWN for a missing VIX.
Zeroless(v) == IF Numeric(v) /\ v <= 0 THEN Missing ELSE v
Sanitized(c) ==
    [c EXCEPT !.vix = IF Zeroless(@) = Missing THEN Unknown ELSE Zeroless(@),
              !.spy = Zeroless(@)]

ContextResults(c) == DataFreshness(c) \cup Consistency(c)

\* Events that look back at the day tolerate stale data.
OnlyFreshness(results) ==
    \A r \in results : r[2] = "block" => r[1] = "data_freshness"

-----------------------------------------------------------------------------
(* After Claude: the decision.                                             *)

Known(c) == {p.symbol : p \in c.open} \cup {s.symbol : s \in c.staged} \cup c.recent

ActionPlausibility(d, c) ==
    LET named == \E p \in c.open : d.position \in {p.id, p.symbol}
        implausible ==
            \/ d.action = "EXECUTE_TRADES" /\ c.staged = {}
            \/ d.action = "CLOSE_POSITION" /\ (d.position = Missing \/ c.open = {})
            \/ d.action = "CLOSE_ALL_POSITIONS" /\ ~d.explained
            \/ d.action = "RUN_EXPERIMENT" /\ ~d.parameter
    IN  Failed("action_plausibility", "block", implausible)
        \cup Failed("action_plausibility", "warning",
                    ~implausible /\ d.action = "CLOSE_POSITION" /\ ~named)

SymbolCrossref(d, c) ==
    Failed("symbol_crossref",
           IF d.action \in {"EXECUTE_TRADES", "STAGE_CANDIDATES"}
           THEN "block" ELSE "warning",
           ~(d.symbols \subseteq Known(c)))

ReasoningCoherence(d) ==
    Failed("reasoning_coherence", "warning",
        \/ "monitor" \in d.tone /\ d.action = "EXECUTE_TRADES"
        \/ "execute" \in d.tone /\ d.action = "MONITOR_ONLY"
        \/ d.confidence > 90 /\ (d.factors < 3 \/ ~d.long))

\* _build_truth_map: the values of the context a claim is compared with.
TruthMap(c, field) ==
    {v \in CASE field = "vix" -> {c.vix}
             [] field = "spy_price" -> {c.spy}
             [] field = "strike" -> {p.strike : p \in c.open \cup c.staged}
             [] field = "premium" -> {p.premium : p \in c.open \cup c.staged}
             [] field = "contracts" -> {p.contracts : p \in c.open \cup c.staged}
             [] field = "dte" -> {p.dte : p \in c.open}
     : Numeric(v)}

\* The nearest value; of two equally near ones CHOOSE stands for the first.
Nearest(value, truth) ==
    CHOOSE v \in truth : \A w \in truth : Apart(v, value) <= Apart(w, value)

Mismatch(claim, c) ==
    LET truth == TruthMap(c, claim.field)
        near  == Nearest(claim.value, truth)
    IN  /\ truth # {}
        /\ \/ claim.field \in {"contracts", "dte"} /\ Apart(claim.value, near) > 1
           \/ /\ claim.field \notin {"contracts", "dte"}
              /\ IF near > 0 THEN Moved(near, claim.value, Tolerance)
                             ELSE claim.value # 0

NumericalGrounding(d, c) ==
    LET wrong    == {i \in DOMAIN d.claims : Mismatch(d.claims[i], c)}
        critical == \E i \in wrong : d.claims[i].field \notin {"contracts", "dte"}
    IN  Failed("numerical_grounding",
               IF critical \/ Cardinality(wrong) >= MaxMismatches
               THEN "block" ELSE "warning",
               wrong # {})

OutputResults(d, c) ==
    ActionPlausibility(d, c) \cup SymbolCrossref(d, c)
        \cup ReasoningCoherence(d) \cup NumericalGrounding(d, c)

-----------------------------------------------------------------------------
(* Before execution: the live market.                                      *)

\* _fetch_live_data: 20 stands in for a VIX that was not quoted.
Live(q) == [vix |-> IF q.vix > 0 THEN q.vix ELSE 20, spy |-> q.spy]

LiveStateDiff(c, q) ==
    Failed("live_state_diff", "block",
        /\ q # NoClient
        /\ Numeric(c.vix) /\ Numeric(c.spy)
        /\ \/ c.vix > 0 /\ Moved(c.vix, Live(q).vix, VixMove)
           \/ c.spy > 0 /\ Live(q).spy > 0 /\ Moved(c.spy, Live(q).spy, SpyMove))

AbsoluteVix(q) ==
    Failed("absolute_vix", "block", q # NoClient /\ Live(q).vix > VixCeiling)

OrderBounds(c) ==
    Failed("order_bounds", "block",
        \E s \in c.staged :
            \/ s.contracts < 1
            \/ s.stock > 0 /\ Moved(s.stock, s.strike, 30))

EarningsProximity(c) ==
    Failed("earnings_proximity", "block",
        \E s \in c.staged : Numeric(s.earnings) /\ s.earnings <= EarningsDays)

\* Bug: the window reaches back half a minute.
HalfWindow == {i \in DOMAIN orderLog : orderLog[i] > clock - (Window \div 2)}

\* check_rate_limit: the attempts of the last 60 seconds.
RecentOrders == {i \in DOMAIN orderLog : orderLog[i] > clock - Window}

RateExceeded == Cardinality(RecentOrders) >= MaxPerMinute

\* An attempt is recorded unless the limit stops it, whatever the other
\* checks say; the deque forgets the oldest.
OrderLogged ==
    IF RateExceeded THEN orderLog
    ELSE LET log == Append(orderLog, clock)
         IN  IF Len(log) > LogSize THEN Tail(log) ELSE log

ExecutionResults(c, q) ==
    LiveStateDiff(c, q) \cup AbsoluteVix(q) \cup OrderBounds(c)
        \cup Failed("rate_limit", "block", RateExceeded) \cup EarningsProximity(c)

-----------------------------------------------------------------------------
(* The pipeline of an event.                                               *)

ClockTicks ==
    /\ \E s \in Seconds :
           /\ clock + s <= MaxClock
           /\ clock' = clock + s
    /\ UNCHANGED <<phase, context, decision, orderLog, letThrough, undecided>>

\* A context with a block goes to the human (or is reported stale), unless
\* the human overrode it or the event looks back at the day.
ValidateContext ==
    /\ phase = "idle"
    /\ \E c \in Snapshots, overridden \in BOOLEAN, retrospective \in BOOLEAN :
           LET results == ContextResults(c)
               passes  == \/ ~HasBlock(results)
                          \/ overridden
                          \/ retrospective /\ OnlyFreshness(results)
           IN  /\ phase' = IF passes THEN "reasoning" ELSE "idle"
               /\ context' = IF passes THEN Sanitized(c) ELSE Missing
    /\ UNCHANGED <<clock, decision, orderLog, letThrough, undecided>>

\* A row for the human; more than MaxReviews are not told apart.
OneMoreUndecided == IF undecided < MaxReviews THEN undecided + 1 ELSE undecided

Withheld(d) == [d EXCEPT !.action = "MONITOR_ONLY"]

\* A decision with a block goes to the human, and a trade the adversarial review
\* objects to; a close only reduces risk and goes on.  A trade is not decided
\* again while one awaits the human.
ValidateOutput ==
    /\ phase = "reasoning"
    /\ \E d \in Decisions, objected \in BOOLEAN :
           LET trade   == d.action = "EXECUTE_TRADES"
               blocked == HasBlock(OutputResults(d, context)) /\ d.action \notin RiskReducing
               pending == trade /\ undecided > 0
               human   == blocked \/ (trade /\ ~pending /\ objected)
           IN  /\ phase' = IF human THEN "idle" ELSE "gate"
               /\ decision' = IF human THEN Missing ELSE IF pending THEN Withheld(d) ELSE d
               /\ context' = IF human THEN Missing ELSE context
               /\ undecided' = IF human /\ trade THEN OneMoreUndecided ELSE undecided
    /\ UNCHANGED <<clock, orderLog, letThrough>>

\* The gate looks at trades only; a blocked trade goes to the human, a blocked
\* close to the executor all the same.  The executor may ask the human, too.
ValidateExecution ==
    /\ phase = "gate"
    /\ phase' = "idle"
    /\ context' = Missing
    /\ decision' = Missing
    /\ IF decision.action \in TradeActions
       THEN \E q \in LiveQuotes \cup {NoClient} :
                LET blocked == HasBlock(ExecutionResults(context, q))
                    trade   == decision.action \notin RiskReducing
                IN  /\ orderLog' = OrderLogged
                    /\ letThrough' = IF ~blocked /\ trade THEN Append(letThrough, clock)
                                     ELSE letThrough
                    /\ \/ undecided' = undecided /\ ~(blocked /\ trade)
                       \/ undecided' = OneMoreUndecided /\ trade
       ELSE UNCHANGED <<orderLog, letThrough, undecided>>
    /\ UNCHANGED clock

\* Between two events the human approves, and the daemon calls the handler of
\* EXECUTE_TRADES, or declines.  The approved execution neither asks the gate nor
\* enters its log.
HumanDecides ==
    /\ phase = "idle" /\ undecided > 0
    /\ undecided' = undecided - 1
    /\ UNCHANGED <<clock, phase, context, decision, orderLog, letThrough>>

GuardrailNext ==
    \/ ClockTicks
    \/ ValidateContext
    \/ ValidateOutput
    \/ ValidateExecution
    \/ HumanDecides

GuardrailSpec == GuardrailInit /\ [][GuardrailNext]_guardVars

-----------------------------------------------------------------------------
\* Type invariant of the pipeline.
GuardrailTypeOK ==
    /\ clock \in 0..MaxClock
    /\ phase \in {"idle", "reasoning", "gate"}
    /\ (phase = "idle") = (context = Missing)
    /\ (phase = "gate") = (decision # Missing)
    /\ Len(orderLog) <= LogSize /\ undecided \in 0..MaxReviews
    /\ \A i \in DOMAIN orderLog : orderLog[i] \in 0..clock

\* The gate lets no minute hold more executions than the configured limit,
\* however the attempts that other checks stop or a human is asked about, the
\* closes that pass all the same and the forgetting of the log interleave
\* (ExecutionGate.check_rate_limit).  It binds what the daemon decides alone:
\* executions a human approves pass the gate by and come on top.
NoMinuteAboveLimit ==
    \A i \in DOMAIN letThrough :
        Cardinality({j \in 1..i : letThrough[j] > letThrough[i] - Window})
            <= MaxPerMinute
=============================================================================
