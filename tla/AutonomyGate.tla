----------------------------- MODULE AutonomyGate ----------------------------
(***************************************************************************)
(* AutonomyGovernor.can_execute (agentic/autonomy_governor.py): may the    *)
(* daemon take an action at a level of autonomy, with Claude's confidence  *)
(* and what the context says of the market and the account?  Confidence,   *)
(* margin and VIX changes are whole percents.                              *)
(***************************************************************************)
EXTENDS Integers

CONSTANTS
    Disabled,          \* config.disabled_triggers
    AutoExecute,       \* config.auto_execute_actions
    ExecuteThreshold,  \* config.execute_confidence_threshold
    StreakLimit         \* config.demotion_loss_streak

Actions == {"MONITOR_ONLY", "REQUEST_HUMAN_REVIEW", "STAGE_CANDIDATES",
            "EXECUTE_TRADES", "CLOSE_POSITION", "CLOSE_ALL_POSITIONS",
            "ADJUST_PARAMETERS", "RUN_EXPERIMENT"}
Triggers == {"low_confidence", "first_trade_of_day", "new_symbol",
             "loss_exceeds_threshold", "margin_utilization_high", "vix_spike",
             "consecutive_losses", "parameter_change", "stale_data"}
Levels == 1..4
Confidence == 0..100

\* The context keys the gate reads.
Contexts == [first : BOOLEAN, newSymbol : BOOLEAN, bigLoss : BOOLEAN,
             stale : BOOLEAN, acknowledged : BOOLEAN,
             margin : Nat, vix : Nat, vixChange : Nat, losses : Nat]

ASSUME GateAssumption ==
    /\ Disabled \subseteq Triggers
    /\ AutoExecute \subseteq Actions
    /\ ExecuteThreshold \in 50..100
    /\ StreakLimit \in Nat \ {0}

NoOp == {"MONITOR_ONLY", "REQUEST_HUMAN_REVIEW"}
Closing == {"CLOSE_POSITION", "CLOSE_ALL_POSITIONS"}

\* Above 30, or a move of more than 20% in the session.
VixSpike(ctx) == ~ctx.acknowledged /\ (ctx.vix > 30 \/ ctx.vixChange > 20)

\* The mandatory triggers that hold, before any is switched off.
Holding(action, conf, ctx) ==
    {t \in Triggers :
        \/ t = "low_confidence" /\ conf < 60
        \/ t = "first_trade_of_day" /\ ctx.first
               /\ action \in {"EXECUTE_TRADES", "STAGE_CANDIDATES"}
        \/ t = "new_symbol" /\ ctx.newSymbol
        \/ t = "loss_exceeds_threshold" /\ ctx.bigLoss
        \/ t = "margin_utilization_high" /\ ctx.margin > 60
        \/ t = "vix_spike" /\ VixSpike(ctx)
        \/ t = "consecutive_losses" /\ ctx.losses >= StreakLimit
        \/ t = "parameter_change" /\ action = "ADJUST_PARAMETERS"
        \/ t = "stale_data" /\ ctx.stale}

\* Closing reduces risk and is never held up by a trigger.
Triggered(action, conf, ctx) ==
    action \notin Closing /\ Holding(action, conf, ctx) \ Disabled # {}

\* Stale data and a margin above 80% defer new risk even when the triggers
\* for them are off.
FootprintIssue(action, ctx) ==
    action \notin Closing /\ (ctx.stale \/ ctx.margin > 80)

Larger(a, b) == IF a >= b THEN a ELSE b

\* Bug: one threshold for L2 and L3, whatever the level.
FlatThreshold(level, action) == IF level = 3 THEN 85 ELSE 70

\* The confidence an action needs at L2 and at L3.
Threshold(level, action) ==
    IF action = "EXECUTE_TRADES"
    THEN IF level = 2 THEN ExecuteThreshold ELSE Larger(60, ExecuteThreshold - 20)
    ELSE IF level = 2 THEN 70 ELSE 50

Routine == {"STAGE_CANDIDATES", "EXECUTE_TRADES"} \cup Closing

LevelAllows(level, action, conf) ==
    \/ level = 2 /\ action \in Routine /\ conf >= Threshold(2, action)
    \/ level = 3 /\ conf >= Threshold(3, action)
    \/ level = 4

\* Bug: opting an action in outweighs the triggers.
OptInFirst(level, action, conf, ctx) ==
    \/ action \in NoOp \cup AutoExecute
    \/ /\ ~Triggered(action, conf, ctx)
       /\ ~FootprintIssue(action, ctx)
       /\ LevelAllows(level, action, conf)

CanExecute(level, action, conf, ctx) ==
    \/ action \in NoOp
    \/ /\ ~Triggered(action, conf, ctx)
       /\ ~FootprintIssue(action, ctx)
       /\ action \in AutoExecute \/ LevelAllows(level, action, conf)

-----------------------------------------------------------------------------
(* Any decision comes to the gate and is judged.                           *)

CONSTANTS
    Confidences,   \* the confidences that are tried
    Grid           \* the contexts that are tried

ASSUME GridAssumption ==
    /\ Confidences \subseteq Confidence
    /\ Grid \subseteq Contexts

VARIABLES
    asked,     \* the decision: level, action, confidence and context
    answer     \* AutonomyDecision.approved

gateVars == <<asked, answer>>

GateInit ==
    /\ asked \in [level : Levels, action : Actions, conf : Confidences, ctx : Grid]
    /\ answer = "none"

Judge ==
    /\ answer = "none"
    /\ answer' = IF CanExecute(asked.level, asked.action, asked.conf, asked.ctx)
                 THEN "approved" ELSE "escalated"
    /\ UNCHANGED asked

GateSpec == GateInit /\ [][Judge]_gateVars

\* More autonomy never takes an approval away: what passes at a level passes
\* at the next one.  The thresholds of the levels are set apart from each
\* other, and one of them by the configuration.
MoreAutonomyApprovesMore ==
    answer = "approved" /\ asked.level < 4 =>
        CanExecute(asked.level + 1, asked.action, asked.conf, asked.ctx)

\* Nothing that adds risk passes while a trigger that is switched on holds,
\* at any level and whether or not the action was opted in.
TriggersHoldAtEveryLevel ==
    answer = "approved" /\ asked.action \notin NoOp \cup Closing =>
        Holding(asked.action, asked.conf, asked.ctx) \subseteq Disabled

\* Closing never waits for the market to calm down: whatever the context, it
\* passes from L2 on with the confidence the level wants.
ClosingIsNeverHeldUp ==
    asked.action \in Closing /\ asked.level >= 2 /\ asked.conf >= 70 =>
        answer # "escalated"

=============================================================================
