---------------------------- MODULE PatternMining ----------------------------
(***************************************************************************)
(* The weekly learning cycle (learning/learning_orchestrator.py): groups of *)
(* closed trades become patterns (pattern_detector.py), their p-values are *)
(* corrected and judged (statistical_validator.py), the ones that pass are *)
(* proposed and applied as parameter changes (parameter_optimizer.py).     *)
(*                                                                         *)
(* Every saved row is a commit of its own, so the process may end between  *)
(* any two steps.  A p-value and the size of an effect are any value; the  *)
(* sign of an effect is the one of the difference between the two means.   *)
(* Returns are whole per cents, p-values are in thousandths, effects and   *)
(* confidences in hundredths.                                              *)
(***************************************************************************)
EXTENDS PatternBuckets, FiniteSetsExt, Functions, Ordering
LOCAL INSTANCE TLC

CONSTANTS
    Trades,             \* [id, source, roi, facts]
    MinSamples,         \* min_samples
    PValues, Effects,   \* what the tests may say
    EffectFloor(_),     \* _adaptive_effect_threshold of a sample size
    SampleConfidence(_),\* the logarithmic part of a confidence
    AutoApply,          \* auto_apply_threshold
    MaxCycles           \* bound on cycles

\* The groups of some trades by one analysis.
GroupKeys(analysis, ts) == {<<analysis, g>> : g \in UNION {GroupsOf(analysis, t.facts) : t \in ts}}

ASSUME MiningFacts ==
    /\ IsFiniteSet(UNION {GroupKeys(a, Trades) : a \in Analyses})
    /\ PValues \subseteq Nat

VARIABLES
    closed,     \* trades with an exit date
    stillHeld,       \* of these the ones whose shares are still held
    cycle,      \* [phase, todo, valid, plan, count]
    found,      \* pattern -> what the detector measured
    adjusted,   \* pattern -> corrected p-value
    table,      \* patterns table
    config,     \* the optimizer's current_config: parameter -> value, or <<>>
    applied     \* parameter_adjusted rows of the learning history

miningVars == <<closed, stillHeld, cycle, found, adjusted, table, config, applied>>

Significance == 50
NoFinding == <<>>
NoPattern == <<>>
Parameters == [delta |-> "delta_range", iv_rank |-> "preferred_iv_regime", dte |-> "dte_range",
               vix |-> "preferred_vix_regime", trend |-> "required_trend",
               entry_day |-> "preferred_entry_days"]
BaselineConfig == [p \in {Parameters[a] : a \in DOMAIN Parameters} |-> <<>>]

\* What the detector says of a pattern, and the rows of two tables as far as the
\* trades they come from.
DetectedPattern == [sample : SUBSET Trades, p : Nat, d : Int, conf : Nat]
Pattern == SUBSET Trades
CorrectedP == [of : Nat, over : Nat \ {0}]
LearningHistory == [parameter : DOMAIN BaselineConfig, value : STRING,
                    sample : Pattern, all : Pattern]

MiningTypeOK ==
    /\ closed \subseteq Trades /\ stillHeld \subseteq closed
    /\ cycle.phase \in {"idle", "correct", "validate", "propose", "apply"}
    /\ cycle.todo \subseteq DOMAIN found /\ cycle.valid \subseteq DOMAIN found
    /\ adjusted \in [DOMAIN found -> CorrectedP] \/ adjusted = NoFinding
    /\ DOMAIN config = DOMAIN BaselineConfig
    /\ \A k \in DOMAIN found : found[k] \in DetectedPattern
    /\ \A k \in DOMAIN table : table[k] \in Pattern
    /\ Range(applied) \subseteq LearningHistory

MiningInit ==
    /\ closed = {} /\ stillHeld = {}
    /\ cycle = [phase |-> "idle", todo |-> {}, valid |-> {}, plan |-> <<>>, count |-> 0]
    /\ found = NoFinding /\ adjusted = NoFinding
    /\ table = NoPattern /\ config = BaselineConfig /\ applied = <<>>

-----------------------------------------------------------------------------
(* Trades close beside the cycle.                                          *)

\* An assigned put closes while its shares are held.
TradeCloses(t) ==
    /\ t \in Trades \ closed /\ cycle.phase = "idle"
    /\ closed' = closed \cup {t}
    /\ stillHeld' \in {stillHeld} \cup (IF t.source = "live" THEN {stillHeld \cup {t}} ELSE {})
    /\ UNCHANGED <<cycle, found, adjusted, table, config, applied>>
SharesSold(t) ==
    /\ t \in stillHeld /\ cycle.phase = "idle"
    /\ stillHeld' = stillHeld \ {t}
    /\ UNCHANGED <<closed, cycle, found, adjusted, table, config, applied>>

-----------------------------------------------------------------------------
(* Detection.                                                              *)

\* _closed_trades_query
Counted == {t \in closed : t.source # "paper"} \ stillHeld

Sample(analysis) == IF analysis \in DetectorColumns THEN Counted ELSE closed
Members(key) == {t \in Sample(key[1]) : key[2] \in GroupsOf(key[1], t.facts)}
Detected ==
    {key \in UNION {GroupKeys(a, Sample(a)) : a \in Analyses} :
        Cardinality(Members(key)) >= MinSamples}

Total(ts) == MapThenSumSet(LAMBDA t : t.roi, ts)
\* mean of one set above the mean of another, multiplied out
Outdoes(ts, us, percent) ==
    100 * Total(ts) * Cardinality(us) > percent * Total(us) * Cardinality(ts)

\* The t-test and Cohen's d against the other trades; too few of those say nothing.
Measures(ts) ==
    LET others == Counted \ ts
    IN IF Cardinality(others) < 2 THEN {[p |-> 1000, d |-> 0]}
       ELSE {[p |-> x, d |-> IF Outdoes(ts, others, 100) THEN y
                             ELSE IF Outdoes(others, ts, 100) THEN -y ELSE 0]
               : x \in PValues, y \in Effects}
\* Courses and combinations are not tested: p = 1.
Untested == 1000

TestResults(key) ==
    IF key[1] \in DetectorColumns THEN Measures(Members(key))
    ELSE IF key[1] = "exit_efficiency"
         THEN {[p |-> Untested, d |-> MapThenSumSet(LAMBDA t : t.facts.efficiency, Members(key))
                                        \div Cardinality(Members(key))]}
         ELSE {[p |-> Untested, d |-> 0]}

Lower(x, y) == IF x <= y THEN x ELSE y
Confidence(n, m) ==
    (80 * (IF m.p < 50 THEN 50 - m.p ELSE 0) + 40 * Lower(100, Magnitude(m.d))
       + 20 * SampleConfidence(n)) \div 100

\* run_weekly_analysis up to the correction; without MinSamples trades nothing is found.
StartCycle ==
    /\ cycle.phase = "idle" /\ cycle.count < MaxCycles
    /\ LET keys == IF Cardinality(Counted) < MinSamples THEN {} ELSE Detected
       IN \E ms \in [keys -> UNION {TestResults(k) : k \in keys}] :
            /\ \A k \in keys : ms[k] \in TestResults(k)
            /\ found' = [k \in keys |->
                  [sample |-> Members(k), p |-> ms[k].p, d |-> ms[k].d,
                   conf |-> IF k[1] \in DetectorColumns THEN Confidence(Cardinality(Members(k)), ms[k])
                            ELSE Lower(100, (100 * Cardinality(Members(k))) \div MinSamples)]]
            /\ cycle' = [phase |-> "correct", todo |-> keys, valid |-> {}, plan |-> <<>>,
                         count |-> cycle.count + 1]
    /\ UNCHANGED <<closed, stillHeld, adjusted, table, config, applied>>

-----------------------------------------------------------------------------
(* The Benjamini-Hochberg correction.                                      *)

\* Equal elements of a sort keep some order.
Places(S) == CHOOSE place \in [S -> 1..Cardinality(S)] : IsInjective(place)

\* The patterns by p-value.
Ascending ==
    LET keys == DOMAIN found
        place == Places(keys)
    IN Sorted(keys, {c \in keys \X keys :
                  \/ found[c[1]].p < found[c[2]].p
                  \/ found[c[1]].p = found[c[2]].p /\ place[c[1]] < place[c[2]]})

\* A corrected p-value is a quotient; the p-values ps are in ascending order.
Quotient(ps, i) == [of |-> ps[i] * Len(ps), over |-> i]
LowerQuotient(x, y) == IF x.of * y.over <= y.of * x.over THEN x ELSE y
AtMost(x, n) == x.of <= n * x.over

\* Bug: the running minimum from the right is forgotten.
QuotientOnly(ps) == [i \in 1..Len(ps) |-> Quotient(ps, i)]

\* From the right, no corrected value exceeds the one after it.
StepUp(ps) ==
    LET low[i \in 1..Len(ps)] == IF i = Len(ps) THEN Quotient(ps, i) ELSE LowerQuotient(Quotient(ps, i), low[i + 1])
    IN low

CorrectPValues ==
    /\ cycle.phase = "correct"
    /\ LET order == Ascending
           low == StepUp([i \in 1..Len(order) |-> found[order[i]].p])
           rank(k) == CHOOSE i \in 1..Len(order) : order[i] = k
       IN adjusted' = [k \in DOMAIN found |->
                          IF Cardinality(DOMAIN found) < 2 THEN [of |-> found[k].p, over |-> 1]
                          ELSE LowerQuotient(low[rank(k)], [of |-> 1000, over |-> 1])]
    /\ cycle' = [cycle EXCEPT !.phase = "validate"]
    /\ UNCHANGED <<closed, stillHeld, found, table, config, applied>>

-----------------------------------------------------------------------------
(* Validation, proposals, changes.                                         *)

\* validate_pattern; consistent says whether the walk-forward score reached its minimum.
Passes(k, consistent) ==
    /\ Cardinality(found[k].sample) >= MinSamples
    /\ AtMost(adjusted[k], Significance)
    /\ Magnitude(found[k].d) >= EffectFloor(Cardinality(found[k].sample))
    /\ consistent

\* A pattern that passes takes its row of the table; every pattern leaves a candidate row.
Validate(k, consistent) ==
    /\ cycle.phase = "validate" /\ k \in cycle.todo
    /\ cycle' = [cycle EXCEPT !.todo = @ \ {k},
                              !.valid = IF Passes(k, consistent) THEN @ \cup {k} ELSE @]
    /\ table' = IF Passes(k, consistent) THEN (k :> found[k].sample) @@ table ELSE table
    /\ UNCHANGED <<closed, stillHeld, found, adjusted, config, applied>>
\* Step 3, the experiments, decides none: no trade is ever assigned to one.
ValidationDone ==
    /\ cycle.phase = "validate" /\ cycle.todo = {}
    /\ cycle' = [cycle EXCEPT !.phase = "propose"]
    /\ UNCHANGED <<closed, stillHeld, found, adjusted, table, config, applied>>

\* How much better than the baseline a group must be, in per cent.
Margin(analysis) ==
    CASE analysis \in {"delta", "vix"} -> 120
      [] analysis \in {"iv_rank", "dte"} -> 115
      [] analysis = "trend" -> 125
      [] analysis = "entry_day" -> 130

\* is_significant, and the guard of the proposal.
Proposable(k) ==
    /\ k[1] \in DOMAIN Parameters
    /\ adjusted[k].of < Significance * adjusted[k].over /\ Magnitude(found[k].d) > 50
    /\ Outdoes(found[k].sample, Counted, Margin(k[1]))

\* The largest effect first.
Propose ==
    /\ cycle.phase = "propose"
    /\ LET chosen == {k \in cycle.valid : Proposable(k)}
           place == Places(chosen)
           larger == {c \in chosen \X chosen :
                         \/ found[c[1]].d > found[c[2]].d
                         \/ found[c[1]].d = found[c[2]].d /\ place[c[1]] < place[c[2]]}
       IN cycle' = [cycle EXCEPT !.phase = "apply", !.plan = Sorted(chosen, larger)]
    /\ UNCHANGED <<closed, stillHeld, found, adjusted, table, config, applied>>

\* A proposal whose confidence reaches the threshold takes effect; a later one for the
\* same parameter replaces it.
ApplyNext ==
    /\ cycle.phase = "apply" /\ cycle.plan # <<>>
    /\ LET k == Head(cycle.plan)
           parameter == Parameters[k[1]]
       IN IF found[k].conf >= AutoApply
          THEN /\ config' = [config EXCEPT ![parameter] = <<k[2]>>]
               /\ applied' = Append(applied, [parameter |-> parameter, value |-> k[2],
                                              sample |-> found[k].sample, all |-> Counted])
          ELSE UNCHANGED <<config, applied>>
    /\ cycle' = [cycle EXCEPT !.plan = Tail(@)]
    /\ UNCHANGED <<closed, stillHeld, found, adjusted, table>>

\* What follows in the cycle reads and reports.
EndCycle ==
    /\ cycle.phase = "apply" /\ cycle.plan = <<>>
    /\ cycle' = [cycle EXCEPT !.phase = "idle", !.valid = {}]
    /\ found' = NoFinding /\ adjusted' = NoFinding
    /\ UNCHANGED <<closed, stillHeld, table, config, applied>>

\* The process ends, in the middle of a cycle or after it: the changes it applied were in
\* its memory.
ProcessEnds ==
    /\ cycle.count > 0
    /\ cycle' = [cycle EXCEPT !.phase = "idle", !.todo = {}, !.valid = {}, !.plan = <<>>]
    /\ found' = NoFinding /\ adjusted' = NoFinding
    /\ config' = BaselineConfig
    /\ UNCHANGED <<closed, stillHeld, table, applied>>

MiningNext ==
    \/ \E t \in Trades : TradeCloses(t) \/ SharesSold(t)
    \/ StartCycle \/ CorrectPValues
    \/ \E k \in cycle.todo, consistent \in BOOLEAN : Validate(k, consistent)
    \/ ValidationDone \/ Propose \/ ApplyNext \/ EndCycle \/ ProcessEnds

MiningSpec == MiningInit /\ [][MiningNext]_miningVars

-----------------------------------------------------------------------------
(* Properties.                                                             *)

\* The correction keeps exactly the patterns the step-up procedure rejects at the level:
\* those at most as large as some p-value t with m * t <= level * #{p <= t}
\* (statistical_validator.py:apply_fdr_correction).
SurvivorsAreStepUp ==
    cycle.phase \in {"validate", "propose", "apply"} =>
        LET P(k) == found[k].p
            UpTo(t) == Cardinality({k \in DOMAIN found : P(k) <= t})
        IN \A k \in DOMAIN found :
             AtMost(adjusted[k], Significance)
               <=> \E l \in DOMAIN found :
                      /\ P(k) <= P(l)
                      /\ Cardinality(DOMAIN found) * P(l) <= Significance * UpTo(P(l))

\* No saved pattern rests on a paper trade or on a put whose shares are still held,
\* although courses and combinations are counted over all closed trades and take part in
\* the correction (pattern_detector.py:_closed_trades_query).
LearnedFromRealTrades ==
    \A k \in DOMAIN table : \A t \in table[k] : t.source # "paper" /\ t \notin stillHeld

\* Every change that was applied rests on a group with a better mean return than all
\* trades: "Only propose if this range significantly outperforms baseline"
\* (parameter_optimizer.py).
AppliedOutperforms ==
    \A i \in DOMAIN applied : Outdoes(applied[i].sample, applied[i].all, 100)

\* The same where the trades did not lose on the whole.
AppliedOutperformsGains ==
    \A i \in DOMAIN applied :
        Total(applied[i].all) >= 0 => Outdoes(applied[i].sample, applied[i].all, 100)

=============================================================================
