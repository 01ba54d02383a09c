--------------------------- MODULE AutonomyLevels ---------------------------
(***************************************************************************)
(* How the daemon's autonomy level moves (agentic/autonomy_governor.py,    *)
(* agentic/working_memory.py and their callers in agentic/daemon.py).      *)
(*                                                                         *)
(* The governor counts the trades recorded and the clean days credited at  *)
(* the current level, promotes when both suffice and demotes on a streak   *)
(* of losses.  Its counters and the strategy state of the working memory   *)
(* share one JSON column of the row working_memory(1): the governor merges *)
(* its counters into the row, the memory writes back the copy it loaded at *)
(* start-up.  Every handler below runs to its end on the event loop; the   *)
(* process may die between any two of them.                                *)
(***************************************************************************)
EXTENDS Integers, Sequences, FiniteSets

CONSTANTS
    InitialLevel,     \* config.autonomy.initial_level
    MaxLevel,         \* config.autonomy.max_level
    MinTrades,        \* config.autonomy.promotion_min_trades
    MinDays,          \* config.autonomy.promotion_clean_days
    MinWinPct,        \* config.autonomy.promotion_min_win_rate, in percent
    LossStreak,       \* config.autonomy.demotion_loss_streak
    MaxTrades,        \* bound on the trades ever closed
    MaxDays,          \* bound on the days that pass
    MaxCrashes,       \* bound on deaths of the daemon
    MaxCliSets        \* bound on uses of "daemon set-autonomy"

ASSUME ConfigAssumption ==
    /\ InitialLevel \in 1..4
    /\ MaxLevel \in 1..4
    /\ MinTrades \in Nat \ {0}
    /\ MinDays \in Nat \ {0}
    /\ MinWinPct \in 0..100
    /\ LossStreak \in Nat \ {0}
ASSUME BoundsAssumption ==
    /\ MaxTrades \in Nat
    /\ MaxDays \in Nat
    /\ MaxCrashes \in Nat
    /\ MaxCliSets \in Nat

Results == {"win", "flat", "loss"}     \* sign of Trade.profit_loss
StreakWindow == 10                      \* .limit(10) of the streak query

VARIABLES
    running,      \* the daemon process is alive
    level,        \* governor._level
    days,         \* governor._consecutive_clean_days
    trades,       \* governor._trades_at_current_level
    mem,          \* working memory: strategy counters and level it holds
    row,          \* working_memory(1): the same three columns
    results,       \* outcomes of the closed trades, oldest first
    toRecord,     \* outcomes whose POSITION_CLOSED is about to be emitted
    market,       \* today's MARKET_CLOSE: "none", "pending", "hooked", "done"
    blemished,    \* a failed event or a human override was created today
    crashes, passed, cliSets,       \* bounded histories
    earned,       \* history: trades and days recorded since the last move
    recorded      \* history: trades and days recorded since the beginning

governor == <<level, days, trades>>
histories == <<earned, recorded>>
bounds == <<crashes, passed, cliSets>>
levelsVars == <<running, governor, mem, row, results, toRecord, market, blemished,
                bounds, histories>>

\* The setter of AutonomyGovernor.level.
Clamp(l) == IF l < 1 THEN 1 ELSE IF l > MaxLevel THEN MaxLevel ELSE l

\* Nothing else runs on the event loop while a batch of exits is emitted.
Quiet == running /\ toRecord = << >>

NoCount == [trades |-> 0, days |-> 0]

LevelsInit ==
    /\ running = FALSE
    /\ level = Clamp(InitialLevel)
    /\ days = 0
    /\ trades = 0
    /\ mem = [days |-> 0, trades |-> 0, level |-> 1]
    /\ row = [days |-> 0, trades |-> 0, level |-> 1]
    /\ results = << >>
    /\ toRecord = << >>
    /\ market = "none"
    /\ blemished = FALSE
    /\ crashes = 0
    /\ passed = 0
    /\ cliSets = 0
    /\ earned = NoCount
    /\ recorded = NoCount

-----------------------------------------------------------------------------
\* _init_components: memory and governor load the row, and the configured
\* level replaces whatever level was persisted.  A MARKET_CLOSE that was
\* being handled is offered again.
Start ==
    /\ ~running
    /\ running' = TRUE
    /\ level' = Clamp(InitialLevel)
    /\ days' = row.days
    /\ trades' = row.trades
    /\ mem' = [row EXCEPT !.level = InitialLevel]
    /\ row' = [row EXCEPT !.level = InitialLevel]
    /\ market' = IF market = "hooked" THEN "pending" ELSE market
    /\ UNCHANGED <<results, toRecord, blemished, bounds, histories>>

\* The process dies; the emissions it still had to make are gone.
Crash ==
    /\ running
    /\ crashes < MaxCrashes
    /\ crashes' = crashes + 1
    /\ running' = FALSE
    /\ toRecord' = << >>
    /\ UNCHANGED <<governor, mem, row, results, market, blemished, passed,
                   cliSets, histories>>

\* A trade closes: either the daemon sees its exit fill and will emit
\* POSITION_CLOSED under the trade's id, or not (it expired, and is emitted
\* under a shorter key; it was closed by hand or by the reconciliation).
CloseTrade(o, seen) ==
    /\ seen => running
    /\ Len(results) < MaxTrades
    /\ results' = Append(results, o)
    /\ toRecord' = IF seen THEN Append(toRecord, o) ELSE toRecord
    /\ UNCHANGED <<running, governor, mem, row, market, blemished, bounds,
                   histories>>

\* _count_recent_consecutive_losses, over every closed trade.
RecentLosses ==
    LET tail(n) == (Len(results) - n + 1)..Len(results)
        fits == {n \in 0..StreakWindow :
                    /\ n <= Len(results)
                    /\ \A i \in tail(n) : results[i] = "loss"}
    IN  CHOOSE n \in fits : \A m \in fits : m <= n

\* _calculate_recent_win_rate: all the trades lie within its 30 days.
WinRateReached ==
    LET wins == {i \in DOMAIN results : results[i] = "win"}
    IN  /\ results # << >> \/ MinWinPct = 0
        /\ 100 * Cardinality(wins) >= MinWinPct * Len(results)

\* record_trade_outcome after its counter was increased: a losing streak.
StreakDemotes(o) == o # "win" /\ RecentLosses >= LossStreak

\* Bug: either criterion suffices.
MayPromoteEither(t) ==
    /\ level < MaxLevel
    /\ t >= MinTrades \/ days >= MinDays
    /\ WinRateReached

\* check_promotion, when the counter of trades stands at t.
MayPromote(t) ==
    /\ level < MaxLevel
    /\ t >= MinTrades
    /\ days >= MinDays
    /\ WinRateReached

\* Bug: the counters are carried over to the new level.
MoveOnly(l) ==
    /\ level' = Clamp(l)
    /\ UNCHANGED <<days, trades>>

\* _demote and _promote: the level moves, the counters start again.
MoveTo(l) ==
    /\ level' = Clamp(l)
    /\ days' = 0
    /\ trades' = 0

\* _record_trade_outcome: the learning loop notes a decision, the governor
\* counts and moves, a promotion (not a demotion) reaches the memory, and
\* the counters are saved last.
Record ==
    /\ running
    /\ toRecord # << >>
    /\ toRecord' = Tail(toRecord)
    /\ \/ /\ StreakDemotes(Head(toRecord))
          /\ MoveTo(level - 1)
          /\ earned' = NoCount
          /\ mem' = mem
       \/ /\ ~StreakDemotes(Head(toRecord))
          /\ MayPromote(trades + 1)
          /\ MoveTo(level + 1)
          /\ earned' = NoCount
          /\ mem' = [mem EXCEPT !.level = level']
       \/ /\ ~StreakDemotes(Head(toRecord))
          /\ ~MayPromote(trades + 1)
          /\ trades' = trades + 1
          /\ earned' = [earned EXCEPT !.trades = @ + 1]
          /\ UNCHANGED <<level, days, mem>>
    /\ row' = [days |-> days', trades |-> trades', level |-> mem'.level]
    /\ recorded' = [recorded EXCEPT !.trades = @ + 1]
    /\ UNCHANGED <<running, results, market, blemished, bounds>>

\* WorkingMemory.save, on every decision, context or anomaly noted.
MemorySave ==
    /\ Quiet
    /\ row' = mem
    /\ UNCHANGED <<running, governor, mem, results, toRecord, market,
                   blemished, bounds, histories>>

-----------------------------------------------------------------------------
\* An event fails, or a human overrides a decision, today.
Blemish ==
    /\ Quiet
    /\ ~blemished
    /\ blemished' = TRUE
    /\ UNCHANGED <<running, governor, mem, row, results, toRecord, market,
                   bounds, histories>>

\* The time emitter queues MARKET_CLOSE.
EmitClose ==
    /\ Quiet
    /\ market = "none"
    /\ market' = "pending"
    /\ UNCHANGED <<running, governor, mem, row, results, toRecord, blemished,
                   bounds, histories>>

\* The MARKET_CLOSE hook: _record_clean_day, before the event is reasoned
\* about and completed.
RecordCleanDay ==
    /\ Quiet
    /\ market = "pending"
    /\ market' = "hooked"
    /\ \/ /\ ~blemished
          /\ days' = days + 1
          /\ row' = [row EXCEPT !.days = days', !.trades = trades]
          /\ earned' = [earned EXCEPT !.days = @ + 1]
          /\ recorded' = [recorded EXCEPT !.days = @ + 1]
       \/ /\ blemished
          /\ UNCHANGED <<days, row, histories>>
    /\ UNCHANGED <<running, level, trades, mem, results, toRecord, blemished,
                   bounds>>

\* The rest of _process_event: the event is completed.
CompleteClose ==
    /\ Quiet
    /\ market = "hooked"
    /\ market' = "done"
    /\ UNCHANGED <<running, governor, mem, row, results, toRecord, blemished,
                   bounds, histories>>

\* Midnight.  A MARKET_CLOSE that was not completed is still in the queue.
NextDay ==
    /\ passed < MaxDays
    /\ passed' = passed + 1
    /\ market' = IF market = "done" THEN "none" ELSE market
    /\ blemished' = FALSE
    /\ UNCHANGED <<running, governor, mem, row, results, toRecord, crashes,
                   cliSets, histories>>

\* "daemon set-autonomy", in another process: it writes the row.
SetAutonomy(l) ==
    /\ cliSets < MaxCliSets
    /\ cliSets' = cliSets + 1
    /\ row' = [row EXCEPT !.level = l]
    /\ UNCHANGED <<running, governor, mem, results, toRecord, market,
                   blemished, crashes, passed, histories>>

-----------------------------------------------------------------------------
LevelsNext ==
    \/ Start
    \/ Crash
    \/ \E o \in Results, seen \in BOOLEAN : CloseTrade(o, seen)
    \/ Record
    \/ MemorySave
    \/ Blemish
    \/ EmitClose
    \/ RecordCleanDay
    \/ CompleteClose
    \/ NextDay
    \/ \E l \in 1..4 : SetAutonomy(l)

LevelsSpec == LevelsInit /\ [][LevelsNext]_levelsVars

-----------------------------------------------------------------------------
Counters == [days : Nat, trades : Nat, level : 1..4]
Counts == [trades : Nat, days : Nat]

\* Every variable has its type; above all the level stays within 1..MaxLevel
\* whatever the configuration, the promotions and the demotions ask for.
LevelsTypeOK ==
    /\ running \in BOOLEAN
    /\ level \in 1..MaxLevel
    /\ days \in Nat
    /\ trades \in Nat
    /\ mem \in Counters
    /\ row \in Counters
    /\ results \in Seq(Results)
    /\ toRecord \in Seq(Results)
    /\ market \in {"none", "pending", "hooked", "done"}
    /\ blemished \in BOOLEAN
    /\ crashes \in Nat
    /\ passed \in Nat
    /\ cliSets \in Nat
    /\ earned \in Counts
    /\ recorded \in Counts

Promoted == running /\ running' /\ level' > level

\* A promotion follows at least MinTrades trades and MinDays clean days
\* recorded since the level last moved: nothing earned at another level, or
\* before a demotion, counts twice (check_promotion, _promote, _demote).  The
\* first daemon keeps to that; one that was restarted may take its counters
\* from a row that the working memory wrote back.
PromotionEarned ==
    [][Promoted /\ crashes = 0 => /\ earned.trades + 1 >= MinTrades
                                  /\ earned.days >= MinDays]_levelsVars

\* Whatever crashes and stale writes do to the counters, no daemon is ever
\* promoted before MinTrades trades and MinDays days have been recorded.
NoFreePromotion ==
    [][Promoted => /\ recorded'.trades >= MinTrades
                   /\ recorded'.days >= MinDays]_levelsVars

=============================================================================
