# TAAD: a verification project

TAAD (`src/src`) is a Python program that sells naked puts through Interactive
Brokers. Its daemon reacts to events, asks Claude for a plan, passes every action
of the plan through guardrails and an autonomy gate, and then acts: it stages and
executes trades, closes positions, changes its parameters, or waits for a human. A
dashboard, a command line and a watchdog work on the same database and the same
account. This directory holds TLA+ models of it, the TLC configurations that check
them on small instances, and TLAPS proofs for every value of the constants.

Lines are given as `file:line`, relative to `src/src`. `PROJECT.json` lists, for
every definition, the lines it models; for every hazard, the properties that
would catch it going wrong.

## 1. The system

### Processes and what they share

| process | how it runs | writes |
|---|---|---|
| daemon | one asyncio loop: event loop, heartbeat, detectors, time emitter, position monitor; a thread while Claude is asked | everything |
| dashboard | FastAPI, one thread per request | decisions, events, opportunities, daemon status, trades |
| command line | one process per command | decisions, events, opportunities, daemon status, working memory, trades |
| watchdog | a process that starts the daemon when its heartbeat is old | the PID file |
| broker | TWS / Gateway through `ib_insync` | orders and positions; its events run whenever the program awaits |

They share one SQL database (sessions with `expire_on_commit=False`: an object
keeps the values it was loaded with), the PID file, the stop flag, the kill switch
file and the broker. No lock spans a read and the write that depends on it, except
the one conditional `UPDATE` that claims an event.

### Components

| component (code) | state | operations | interacts with | what is hard | what makes it correct | module |
|---|---|---|---|---|---|---|
| Event bus (`agentic/event_bus.py`) | `daemon_events` | emit, poll, claim, complete, fail, reset | every producer; the plan pipeline | crashes between claim and verdict, batches | no event lost, urgent ones not starved | `EventBus`, `EventQueue` |
| Plan pipeline (`agentic/daemon.py:_process_event`, `action_executor.py`) | event in hand, plan, recent decisions, audit rows | guard, ask, deduplicate, escalate, run, log | bus, gate, approval, exit, batch | effect, log and verdict are separate commits; replay with another plan | no repeated effects | `PlanPipeline` |
| Human approval (`daemon.py:_process_human_approval`, `dashboard_api.py`, `daemon_commands.py`) | `decision_audit` rows, HUMAN_OVERRIDE events | escalate, approve, reject, flip, sweep, execute | bus, handlers | callers race with each other and with the sweeps | consent before effect, one effect per approval | `HumanApproval` |
| Autonomy gate (`autonomy_governor.py:can_execute`) | none | judge | pipeline | three thresholds, triggers, opt-ins, exceptions | more autonomy allows more; triggers bind | `AutonomyGate` |
| Autonomy levels (`autonomy_governor.py`, `working_memory.py`) | level, counters, one JSON column | record, promote, demote, save, load | exits, emitter, CLI | two writers of one column, one with a stale copy | promotions are earned | `AutonomyLevels` |
| Exit manager (`execution/exit_manager.py`, `daemon.py:_monitor_positions`) | tracker, marker in `trades`, broker orders | evaluate, place, wait, cancel, retry, adopt | broker, levels | a wait that nothing reaches, cancelled orders that fill, crash with a live order | one order meant to buy per position | `ExitManager` |
| Position monitor (`position_monitor.py`, `daemon.py:_emit_material_position_checks`) | staleness counter, pending questions | read, close by rule, ask, suppress, dismiss | exit manager, approval, bus | questions that wait for a human through sessions, look-ups that fail | one question at a time, the unapproved left alone | `PositionWatch` |
| Detector (`event_detector.py`) | cooldowns, VIX baseline | poll, report, reset | bus | restart between two reports, a look-up that fails | reports are spaced | `EventDetector` |
| Emitters (`daemon.py`, `market_calendar.py`) | last-emitted flags, market context | tick, start-up assessment, daily hooks | bus, guardrails | restarts, day change, lost connection | periodic work neither doubled nor starved | `TradingDay` |
| Guardrails (`agentic/guardrails/`) | rate-limit log, market snapshot | validate context, output, execution | pipeline | boundary of the window, missing data, approvals that bypass the gate | the gate lets no minute pass its limit | `Guardrails` |
| Selection (`auto_select_pipeline.py`, `auto_selector.py`, `position_sizer.py`, `portfolio_builder.py`) | candidates, counters | filter, score, pick, size, build | staging | filters and scores disagree; margins answered twice | best pick, maximal portfolio | `AutoSelection`, `GreedyPortfolio` |
| Opportunity lifecycle (`opportunity_lifecycle.py`, `opportunity_state.py`, `scanner_api.py`, `action_executor.py`, `cli/main.py`) | `scan_opportunities` | scan, stage, claim, submit, save, unstage, recover | batch, dashboard, CLI | unchecked writes, stale copies, two executors | one order per staging | `StagedTrades` |
| Staged trade validation (`premarket_validator.py`, `live_strike_selector.py`, `limit_price_calculator.py`) | the staged strike and limit | first check, second check, live choice | batch | the price moves between the checks | a confirmed trade is far enough out of the money | `TradeReview` |
| Order batch (`two_tier_execution_scheduler.py`, `rapid_fire_executor.py`) | pending orders, saved ids, `trades` | claim, submit, watch, cancel-and-replace, save | broker, staging, end of day | events before registration, replacements, failed commits | books agree with the broker, one live order each | `OrderBatch` |
| Fill management (`fill_manager.py`, `execution_scheduler.py`) | pending orders, limits | watch, lower, replace the rest | broker | a cancelled order fills | one working order per trade | `FillMonitor` |
| Risk governor (`risk_governor.py`, `order_executor.py`) | copies of account and equity, counters | check, trip, halt, record | broker, kill switch | stale copies, failed refreshes | a halt lasts; a loss seen blocks | `RiskControl` |
| Kill switch (`kill_switch.py`) | `data/kill_switch.json` | load, halt | governor, emergency stop | a copy per process, damaged file | unreadable is halted | `KillSwitch` |
| Health and control (`health_monitor.py`, `watchdog.py`, `daemon_commands.py`, `dashboard_api.py`) | status row, PID file, stop flag, watchdog counters | start, beat, pause, stop, kill, restart, alert | everybody | five writers without a lock | a daemon that is gone comes back, trouble is heard | `DaemonControl` |
| Reconciliation, assignments (`order_reconciliation.py`, `assignment_detector.py`, `stock_position_service.py`) | trades, stock positions, report between phases | import, match, close expired, assign, sell stock | broker, daemon, CLI, dashboard | three phases with stale reports, rows written after the look-up or minutes after the sale, several callers | a held put gets a row, a second one only by overlap | `Reconciliation` |
| NakedTrader (`nakedtrader/`) | bracket orders, its trades | choose, place, wait, record, watch | broker | a watcher that knows its own session only and goes by the date of its host | trades are booked as they ended | `NakedTrader` |
| Trade archaeology (`taad/`) | raw imports, matching log, trades, snapshots | fetch, import, match FIFO, promote, enrich | database | overlapping and repeated reports, partial closes | each contract matched once; nothing known is lost | `TradeImport`, `TradeEnrichment` |
| Learning (`learning/`, `learning_loop.py`) | patterns, proposals, configuration | group, test, correct, propose, apply, judge health | trades | many tests, ties, constants as p-values | the correction is the step-up procedure | `PatternBuckets`, `PatternMining`, `StrategyHealth` |

### How they fit together

    emitters, detector, dashboard, CLI --emit--> EventBus --claim--> PlanPipeline --+-- audit row
       (TradingDay, EventDetector,                        (Guardrails, AutonomyGate) +-- escalate --> HumanApproval --emit--> EventBus
        PositionWatch)                                                               +-- close ----> ExitManager --closes--> AutonomyLevels
                                                                                     +-- stage ----> AutoSelection, GreedyPortfolio, StagedTrades
                                                                                     +-- execute --> TradeReview, OrderBatch
    DaemonControl, KillSwitch around the daemon; RiskControl, FillMonitor, NakedTrader on the command line;
    Reconciliation, TradeImport, TradeEnrichment after the trade; PatternMining, StrategyHealth from its results

Each module takes its neighbours' visible behaviour as free choices: `PlanPipeline`
lets the gate and the handlers answer anything, `HumanApproval` lets a handler
succeed, fail or raise, `EventBus` lets the work on an event end in any verdict,
`PositionWatch` lets an exit succeed or fail, `AutonomyLevels` lets trades close
with any result. A property of a module therefore holds whatever the neighbours do
within those choices. Where components work on one state they are one module, or a
module extends the other: `DaemonControl` and `RiskControl` extend `KillSwitch`,
whose file is how an emergency stop reaches the commands; `PatternMining` extends
`PatternBuckets`; `StagedTrades` has all writers of an opportunity, `Reconciliation`
all writers of the open trades, `HumanApproval` all writers of a decision.

## 2. Modules

| module | what its actions are | abstraction |
|---|---|---|
| `EventBus` | `Emit`; `CheckPid`, `WritePid`, `ResetStale` (start-up); `Poll`, `Claim`, `SkipPaused`, `EndBatch`, `MarkEarly`, `MarkCompleted`, `MarkFailed` (loop); `Crash`, `Abort`, `RequestStop`, `Exit`, `Pause`, `Resume` | an event is an id and its type; a batch is the set of rows the query returned |
| `EventQueue` | `Emitted`, `Take`, `Finish`, `Recover`: at most one element taken, a finished one stays finished | what the bus promises |
| `HumanApproval` | `Escalate`, `Sweep`, `RejectStale`; per caller: check, commit, emit; the daemon's branch for each sort of row | a row is its sort, target trade and flags |
| `AutonomyGate` | the function `CanExecute`; one `Judge` step per decision | percents are integers |
| `AutonomyLevels` | `Start`, `CloseTrade`, `Record`, `RecordCleanDay`, `MemorySave`, `EmitClose`, `CompleteClose`, `NextDay`, `SetAutonomy`, `Crash` | an outcome is the sign of the profit |
| `ExitManager` | decide, pass the guard, place, `Mark`, the end of a wait (`TimeoutStuckLimit`, `TimeoutStuckMarket`), the retry, `CheckPending`, `Reconnect`, `Crash`, `Restart` with `Reconcile`; broker fills and drops; delivery of the client's view, never while a wait sleeps | every position is short one lot; orders fill whole |
| `PlanPipeline` | one action per exit of the loop body, plus context, question, verdict, stop, crash, restart | a step of a plan is an action with its target |
| `OrderBatch` | `Load`, `Claim`, validation, `Submit`/`Register`, `Scan`, `QuoteRaises`, `Withdraw`/`Replace`/`ReRegister`, `SavePending`, `RecordTier1`, Tier 2, `Finish`; `StageOpp`, `Unstage`, `EndOfDay`; `Crash`, `Restart` | an order fills whole; prices only decide which orders are adjusted |
| `KillSwitch` | `LoadedHalt`, `WriteHalt`, `Corrupt` | the file is absent, says halted, or is damaged |
| `DaemonControl` | the process (`CheckRunning`, `StartHealth`, `EnterLoop`, `Heartbeat`, `NoticeStop`, `StopHealth`, `Die`), users (start, stop, restart, pause, resume, emergency stop in its steps), watchdog (`CheckHealthy`, `CheckFailed`, `CheckDown`) | the age of a heartbeat is fresh or old |
| `RiskControl` | `CheckAccount` (pre_trade_check as a whole), `CheckDailyLoss`, `CheckRefused`, `Place`, `RecordTrade`, the market's moves, five minutes passing, days | an account is five integers |
| `Reconciliation` | the broker's steps; `Sell`, then `SaveSale` or `LoseSale`; look-up and write of an import as steps of their own (`SyncOrders`, `LookUp`, `Insert`, `WriteFails`), by the daemon and by one other process; `Reconcile`, `BeginImport`, `ImportDone`, `ProcessAssignments`, `SweepExpired` of the daemon; what others do in one session (`ReconcileElsewhere`, `FixFromCli`, `Detect`) | a put is a symbol and a term; prices are left out |
| `AutoSelection` | `Pick`: filters, scores, the best put, its contracts | deltas in thousandths, scores in ten-thousandths |
| `GreedyPortfolio` | `AskMargin`, `Reach` | margins and premiums are small integers |
| `StagedTrades` | scan, select, stage (pipelines); load, claim, submit, save (executors); hand, end of day, command line; crash | an opportunity is its state and the flags the writers read |
| `TradeReview` | `ValidatePremarket`, `ValidateAtOpen`, `EndOpen`, `SelectStrikes` | dollars and cents |
| `Guardrails` | `ValidateContext`, `ValidateOutput`, `ValidateExecution`, `HumanDecides`, the clock | a text is the symbols, numbers and tone the checks take from it |
| `TradingDay` | `TimePasses`, `Poll`, `HandleEvent`, `StartDaemon`, `DaemonDies`, `BrokerDrops` | a day is the minutes at which something is observed |
| `EventDetector` | `DetectorPoll`, `ResetSession`, `RestartDetector`, `Sleep` | a position is the five numbers the alerts read |
| `PositionWatch` | `ScheduledCheck` (sweep, rules, plan, questions; each of its two look-ups may be cut short), `HandleExitCheck`, `Approve`, `Reject`, sessions, reconnects | an exit succeeds or fails |
| `FillMonitor` | `StartRemainder`, `StartAdjust`, `PlaceReplacement`, `Register`, `Settle` (fill manager); `PlaceFirst`, `LookOpen`, `LookFilled`, `ReplaceWhole` (Monday scheduler); the broker; status events | a limit is an integer that is lowered by one |
| `NakedTrader` | `Choose`, `PlaceBracket`, `EndWait`, `RecordSale`, `GiveUp`; the broker; `HostMidnight`; `StartWatch`, `Pump`, `WatchCycle`, `StopWatch` | a chain is a list of the sets of quotes each try gets |
| `TradeImport` | `SendRequest`, `PollAgain`, `ImportReport`, `ImportFile`, `Promote` | one account and contract; a command is one transaction |
| `TradeEnrichment` | `Enrich` | a snapshot is the source of each group of columns |
| `PatternBuckets` | operators only: the groups of the detector, the path analyser and the combiner | a trade is the columns that hold a value |
| `PatternMining` | `StartCycle`, `CorrectPValues`, `Validate`, `Propose`, `ApplyNext`, `ProcessEnds` | a p-value and the size of an effect are any value; corrected ones are exact fractions |
| `Ordering` | an operator only: rows in the order of a sort, for `TradeImport` and `PatternMining` | the order is a set of pairs |
| `StrategyHealth` | `TradeReturns`, `AnalyseDecay` | deviations in units of the drift |

`MC*` modules give the constants that a `.cfg` cannot write. `MCDay`, `MCLedger` and
`MCControl` instantiate several components that share no variable: a behaviour puts
one of them in focus, which moves while the others keep their initial state, so the
state space is the sum of the components' and not their product. A component's
specification is the module's own (`RiskSpec`, `StagedSpec`, ...), and that is what
the theorems are about. `*Proofs` modules hold theorems. Operators marked `Bug:` are
changed versions of the definition that follows them; they are used by no
specification and serve to show, one per property, that the property can fail.

Database commits succeed unless the module says otherwise (`OrderBatch`,
`ExitManager` with markers that may not be written, `HumanApproval` with a failing
commit of the result, `Reconciliation` with failing imports and rows). A crash may come
at any point between two commits.

## 3. Runs

| run | instance | checks |
|---|---|---|
| `bus` | 1 daemon, 3 events of 2 priorities, batches of 2, 2 interruptions, 1 pause, 1 event dropped while paused | `NoOrphan`: a row in processing is in a daemon's hands or nobody has passed its start-up. `BoundedOvertaking`: an event is overtaken at most by the rest of a batch, and again per pause. `ImplementsQueue`: refinement of `EventQueue`. `EventuallyHandled` (liveness) |
| `approval` | a close/trade/review row and a flagged context row, 2 trades, 2 callers, both channels, 2 events, 1 death | `OneRunPerApproval`, `NothingWithoutConsent`, `ApprovalTakesEffect` (liveness) |
| `exit` | 1 position, 3 orders, 1 death or lost connection, markers that may fail | `OneExitWanted`: one exit order at most works or filled without having been cancelled. `EveryCloseIsCounted`. `FillIsRecorded` (liveness): a fill reaches the table unless its order was given up |
| `plan` | 2 events, plans over 5 steps, 2 crashes and stops | `RepeatsNeedACrash`, `EveryEventEnds` (liveness) |
| `batch` | 2 opportunities, 3 orders, 1 death, failed commit, failed quote or unstaging | `FilledIsTruth`, `OneLiveOrder`, `OrdersAreOnRecord`, `ExecutingEnds` (liveness) |
| `control` | 2 processes that may run the daemon, 2 commands of users, 1 crash, the watchdog; 1 put, never traded or once sold and bought back, the daemon and 1 other importer, 2 trades at the broker, failed writes or restarts | `NeverSilent`: at most two alerts in a row are muted. `CrashIsRepaired` (liveness): a daemon that is gone comes back unless it was stopped. `OneOpenRow`: a put has two open trades only where two writers overlapped. `HeldIsTracked` (liveness): a held put gets a trade |
| `day` | ten components, see the `.cfg` | selection `BestIsUndominated`; portfolio `PortfolioIsMaximal`; staging `OneSubmissionPerStaging`; review `ConfirmedIsSound`; governor `HaltLasts`; guardrails `NoMinuteAboveLimit`; gate `MoreAutonomyApprovesMore`, `TriggersHoldAtEveryLevel`; emitters `CheckKeepsItsDistance`; detector `BreachesAreSpaced`; positions `OneQuestionAtATime`, `UnapprovedIsLeftAlone` |
| `ledger` | seven components, see the `.cfg` | fills `OneWorkingOrder`; bracket `BookedAsItEnded`; import `EachContractMatchedOnce`; snapshots `NothingKnownIsLost`; patterns `SurvivorsAreStepUp`; health chart `ChartSeesEveryRun`; autonomy levels `PromotionEarned`, `NoFreePromotion` |
| `exit_overclosed` | 1 position, 2 orders, nothing goes wrong | **violated** `NeverOverClosed` (finding) |
| `batch_late_fill` | 1 opportunity, 1 order, nothing goes wrong | **violated** `LateFillIsRecorded` (finding) |
| `control_halt` | 1 process, 2 commands | **violated** `HaltHolds` (finding) |
| `control_assigned` | 2 puts on one symbol, 2 trades at the broker | **violated** `AssignedIsNotExpired` (finding) |

More is stated in the modules than is listed here. These hold on the same
instances (add them to the `.cfg` to repeat): each module's `TypeOK`;
`NeverReopened`, `OneRowPerAction`, `ClosingIsNeverHeldUp`, `StopEnds`, `SeenLossBlocks`, `AloneWithinBudget`,
`PassedDoesNotFit`, `FilledIsSold`, `OneTradePerSale`, `NoSilentGap`,
`LearnedFromRealTrades`, `AppliedOutperformsGains`, `WorseIsNeverHealthier`. Those that
fail are in section 5.

Deadlock is not checked where the bounds let the system come to rest (everything
closed, every event handled, every order spent). The longest runs are `day` (1.1 million
states), `exit` and `control`, two to three minutes each with two workers.

### Why the bounds are enough

* `bus`: three events of two priorities are the least that lets an urgent event
  arrive behind a batch of two and be overtaken; two interruptions let the
  recovery itself be interrupted.
* `approval`: one row per sort and two callers give every pair of racing calls;
  two events, the double approval; one death, each crash window.
* `exit`: three orders are a limit order, its market retry and an exit after it; a
  fourth would only repeat one. One position is enough: what a second one adds is the
  time between its decision and its order, and messages arrive in that time with one
  position too. The proof is for any number.
* `plan`: a plan is at most three steps because an entry of the memory only
  concerns a later step of the same action; two events replay it.
* `batch`: two opportunities and three orders let one be replaced while the other
  fills, in the monitor and in Tier 2, and let a replaced order block the save of
  the other's fill. One disturbance at a time.
* `control`: two processes are a daemon and one launched while it lives; two
  commands are a stop against a start or a restart, and every pair of them. One put can
  be sold by the program and outside it, imported by two processes at once, assigned, and
  sold again after it was bought back; a second put on its symbol, to which an assignment can be laid wrongly, is
  in `control_assigned` and in the proof.
* `day`: the gate reads at most two keys of its context per clause. The portfolio
  has two offers of one symbol and three of one sector, so each limit binds and an
  offer passed over may come back within the budget. Two staged rows fit singly and
  not together, with two pipelines and two executors. The reviewed prices lie on both
  sides of each limit. Three contracts, two of one sector, meet every check of the
  governor. The guardrails' clock has whole and partial windows, with a limit of two
  orders. The emitters see two days before, at and after the opening and the
  closing, through two starts; the detector outlives its cooldown twice, with look-ups
  that fail at any poll. The watch has two positions (`SYMMETRY`, which is sound for what
  is checked: nothing tells them apart), two decisions, two sessions and one failed
  look-up; one decision may await the human in the guardrails.
* `ledger`: three contracts can fill in any parts across an order and two
  replacements. The chains of NakedTrader succeed at the second try or never. Four
  executions are a sale closed in two parts across a second sale. Six trades give
  groups of two, ties among the p-values and the constant 1. Three closed trades with a
  day change allow a promotion and a demotion, or a promotion on counters that a crash,
  a stale write or `set-autonomy` has changed.

### Fairness

* `bus`: weak fairness of each daemon's start-up and loop: asyncio schedules the
  loop, every await of a handler has a timeout, and the watchdog or the user starts
  a daemon that is down. Weak fairness of `Resume`: the user ends a pause (in fact
  the next heartbeat does). Crashes, stops and pauses are bounded, so they cannot
  starve the loop; no fairness is assumed of producers.
* `approval`: the daemon works its queue and is restarted; a call past its check
  commits and emits unless its process dies, which `losses` records.
* `exit`: the broker settles a working order, messages arrive, scheduled checks are
  taken, the daemon is restarted.
* `plan`: weak fairness of the pipeline as a whole. Humans, clocks and signals owe
  nothing.
* `batch`: weak fairness of the daemon as a whole (an execution goes on, a day
  ends, a restart happens), strong fairness of `EndWatch`, since the two minutes of
  the monitor run out however often it starts another round. None of the broker:
  orders may work for ever.
* `control`: weak fairness of a process's start-up and of its stop once asked, and of
  the watchdog's check of a daemon that is down: each is a loop of its own that only a
  crash ends. Weak fairness of the daemon's three phases of reconciliation, which it
  runs at every start and after every close. Users and the broker owe nothing. `MCFairSpec` gives these
  conditions to the component in focus.
* `day`, `ledger`: none; they ask for safety only.

## 4. What is proved

All with TLAPS, for every value of the constants that satisfies the modules'
assumptions (each named, in the module that declares the constants, and evaluated
by TLC in the runs).

**Event bus** (`EventBusProofs`). `TypeCorrect`; `FinishedStaysFinished`
(`NeverReopened`) for any number of daemons, overlapping or not;
`OrphansAreRecovered` (`NoOrphan`) and `BusImplementsQueue` for daemons launched
one at a time (`ExclusiveStart`, which a supervisor such as the watchdog provides
and the PID check alone does not: section 5). `NoOrphan` is not inductive: that
a processing row is in somebody's hands survives a start-up reset only because
nobody else is alive then (`OneAlive`), and a verdict only because the row it
overwrites is the one in hand (`InHand`). `Safe` adds both, and the refinement
follows from it action by action: `Emit` is `Emitted`, `Claim` is `Take`, a verdict is
`Finish`, the reset is `Recover`, everything else a stutter. `OvertakingIsBounded`
(`BoundedOvertaking`), under `ExclusiveStart` too: the bound alone is not inductive,
since a batch goes on being offered after an urgent event has come. `RoomLeft` counts
what is still to come: an event that waits outside the batch has, with those in the
batch that are less urgent, not passed its bound. Inside a batch nothing less urgent
comes first, because the poll sorts by urgency.

**Autonomy gate** (`GovernorProofs`). `TriggersAreMandatory` and `ClosingPasses`
for every configuration. `GateIsMonotone` (`MoreAutonomyApprovesMore`) from the
condition, in its statement, on the configured threshold and the switched-off
triggers; without it the code is not monotone (section 5). `AlwaysJudged` reduces
the three to facts about `CanExecute`.

**Autonomy levels** (`GovernorProofs`). `TypeCorrect` (above all the level stays
within `1..MaxLevel`), `PromotionsArePaidFor` (`NoFreePromotion`) and
`PromotionsAreEarned` (`PromotionEarned`). The counters exist three times: in the
governor, in the row and in the memory's start-up copy, and any may be copied into
any other; `Backed` bounds all of them by what was ever recorded. The stronger
property needs `InStep`, that the governor's own counters are what was earned since
the level last moved, which lasts until the daemon first dies.

**Human approval** (`LedgerProofs`). `ApprovalTypeCorrect`,
`ConsentComesFirst` (`NothingWithoutConsent`), `OneRunEach` (`OneRunPerApproval`). Consent
travels with the call and then with the event, so the first needs to know what every
call and event in flight stands for (`Consented`, over `OnRows`). The second counts
runs against what the row says, and between the handler and the commit the row does
not say it yet: `Accounted` gives each row one run at most while it is in doubt or
executed, none before, and one more for each result that was lost.

**Plan pipeline** (`PlanPipelineProofs`). `PlanTypeCorrect`, `TradesAreNotRepeated`
(`RepeatsNeedACrash`). Handlers run before their entry is written, and the entry is what
a later step looks at. `Remembered`: each run of the last 90 seconds has left an entry,
a row about to be written, or a crash.

**Guardrails** (`PlanPipelineProofs`). `MinutesKeepTheLimit` (`NoMinuteAboveLimit`), for
every limit up to the length of the log. It is a promise of the gate: what a human
approves passes neither the gate nor its log and comes on top (section 5). The property
counts what was let through, the guard what its log
still holds. `RateSafe`: both rise with the clock, what was let through in the last
minute is in the log (`Logged`), and an order and the one `MaxPerMinute` before it are a minute
apart (`SpacedOut`), from which no window of a minute holds more.

**Order batch** (`OrderBatchProofs`). `BatchTypeCorrect`, `NothingFilledIsInvented`
(`FilledIsTruth`), `SentIsOnRecord` (`OrdersAreOnRecord`) hold with restaging allowed;
a row may be lost to a death, a failed commit or a quote that raises out of the watch
before the first save (`unsaved`), and to nothing else.
`NeverTwoAtWork` (`OneLiveOrder`) assumes `~MayRestage`, as the run does and section 5
explains. All rest on `Tracking`, what the executor's table means while a round runs.
`SoldOnly` says that statuses, report, rows and states are true before and after they
are copied into each other; `Reported`, that what has an order and no row is still in
the report the save will read; `Unsent`, that whoever is about to get an order has
none; `Held`, that what works is in the table, except for the order on its way.

**Exit manager** (`ExitManagerProofs`). `ExitTypeCorrect` and `ClosesAreCounted`
(`EveryCloseIsCounted`) hold whatever goes wrong: the order in hand is the tracked one
(`Steady`), and a fill that was written and not yet counted is still tracked (`Heard`).
`OneExitEach` (`OneExitWanted`) needs no assumption: two exit orders of a position never
both work or have filled unless one of them was cancelled by the exit manager, was not
written down by a dying daemon, or could not be looked up by a new one. That two orders
*fill* is possible, since a cancelled one may; section 5 says when. The guard knows
nothing of orders: it looks at the tracker and at a cached position. `Guarded` connects
them: the order that is meant to buy is tracked, or marked while no daemon runs, or its
position is settled in the table or seen as closed (`Kept`); while an order is placed
and waited for, nothing else of its position is wanted (`Alone`); the lots bought follow from it
(`Lots`); and what a monitoring pass decided before it waited is of
positions not closed yet, and not of the one it waits for (`Decided`).

**Books and fills** (`LedgerProofs`). `BooksTypeCorrect` and `OneRowEach`
(`OneOpenRow`). Rows come minutes after their sale and a look-up after the import's, so the
property does not stand alone: `Clear` says that whoever has a row in hand looked when
the contract had no open row, or that someone else has written since, which `raced`
remembers. With it each way of writing (insertion, reopening, closing, a sale's row)
keeps `Apart`. `OneOrderWorks` (`OneWorkingOrder`): while the fill manager replaces an order,
none of the trade works until the new one is placed, and then only that one; otherwise
only the order it watches does (`OnlyTheLatest`). A fill of the order being cancelled
does not disturb this: it makes an order stop, and none start again.

**Control and risk** (`DayProofs`, `GovernorProofs`). `TroubleIsHeard` (`NeverSilent`): the watchdog's count of
muted alerts never passes its count of failures (`Counted`). `HaltsLast` (`HaltLasts`), `SeenLossesBlock` (`SeenLossBlocks`),
`RiskTypeCorrect`: `Sound` says of each command that, if it started after the halt was
written, it carries the halt itself, and that its peak covers every equity it looked
at; `RiskSafe` adds that a latched halt has left its mark on the file.

**The day** (`DayProofs`). `OneOrderPerStaging` (`OneSubmissionPerStaging`): a row that is
staged, or that the daemon has in hand, has a staging to spare (`Spare`); unstaging in
between does not matter, since the daemon's claim reads the state again. This is about
the daemon's orders; a second executor sends its own (section 5). `ReportsAreSpaced`
(`BreachesAreSpaced`): the reports lie in the past (`Past`), so the look into the
database alone keeps them apart, whatever the memory of the task has lost, and a report
whose look-up failed is exempt as the later of two.
`QuestionsAreSingle` (`OneQuestionAtATime`): a second question needs a look-up that did
not come to the events, and each of these is counted (`Spread`). `UnapprovedAreLeftAlone`
(`UnapprovedIsLeftAlone`): sweeping and answering keep a row's trade, session and kind, so
a row that suppressed before a pass does in both of its look-ups (`SweptFacts`). `ConfirmedTradesAreSound` (`ConfirmedIsSound`): `ReviewSafe` keeps the staged
limit with a trade until it is confirmed, and says of a confirmed one what its check saw.
`ChecksKeepTheirDistance` (`CheckKeepsItsDistance`): the emitter that lives counts its
quarter of an hour from the last opening or later (`TimerSafe`), so a restart can delay a
check and never hurry it. `EndsAreBooked` (`BookedAsItEnded`, in `ExitManagerProofs`): what a watch
session was told of has filled (`Told`), and a bracket past its term at the exchange is dead
(`Dated`); a host ahead of it may book a put whose purchases still work (section 5).

**Computations over data** (`LearningProofs`). Selection, portfolio, import, snapshots,
health chart and correction sum, sort and walk over sets of any size. The library's
induction theorems take an operator as a parameter and cannot be used; induction is said
of a set instead: the sizes for which a fact holds are a set of numbers, and one that has
0 and every successor holds all of `Nat` (`Induction`, from the well-foundedness of `<`).
From it come what a sum over a finite set is when an element is added or taken out
(`SumFunctionOnSet` of the community modules) and that the rows of a sort are a list of
the set, each once and in order (`SortedIsList`).

* `BestPutsAreUndominated` (`BestIsUndominated`): the scores are steps; each is monotone
  in its column (`Stairs`), so a put that is better in every column has no lower score.
* `PortfoliosAreMaximal` (`PortfolioIsMaximal`): `GreedySafe` says that the counters of
  the loop are the counts and sums of what it chose, and that what it passed over does
  not fit; as the counters only grow, it never fits again.
* `ContractsAreMatchedOnce` (`EachContractMatchedOnce`) and `SalesHaveOneTrade`
  (`OneTradePerSale`): in one walk, what the pairs take from an execution and what is left of it fit in
  its quantity (`WithinQuantities`). Between imports, an execution not yet marked is in no
  match (`MatchedOnce`), so the next walk starts with its whole quantity.
* `SnapshotsOnlyGain` (`NothingKnownIsLost`): a snapshot is none or complete
  (`Complete`), and a run of the merge keeps what it finds (`Keeps`).
* `EveryRunIsSeen` (`ChartSeesEveryRun`): for any returns, the chart at i is the greatest
  sum of a run of deviations that ends at i, or 0; by induction over i.
* `SurvivorsAreTheStepUp` (`SurvivorsAreStepUp`): the running minimum from the right of
  the quotients m*p/rank is at most the level exactly if some p-value not below it meets the
  level at the number of p-values up to it, ties included. `MiningSound` carries it
  through the phases of a cycle.

Proving corrected the models in three places. A put with no days left or no margin has no
return, and comparing returns by multiplying out compared nothing for it: `HasReturn` now
says so in `BestIsUndominated`. `SortSeq`, which leaves the order of ties to `CHOOSE`, gave way to `Ordering`,
where what stands at a rank is determined by the order alone. Corrected p-values are pairs of a numerator
and a denominator, where rounded integers made the step-up property true of the
rounding only.

Every safety invariant and action property of the passing runs is thus a theorem. Checked
by TLC only are the seven liveness properties, since TLAPS does not reach `ENABLED` here:
`EventuallyHandled`, `ApprovalTakesEffect`, `FillIsRecorded`, `EveryEventEnds`,
`ExecutingEnds`, `CrashIsRepaired`, `HeldIsTracked`. Of what the modules state beyond the
runs, `NeverReopened`, `ClosingIsNeverHeldUp`, `SeenLossBlocks`, `OneTradePerSale` and
most of the `TypeOK` are proved.

## 5. Where the code disagrees with its documentation

Four disagreements are findings of `PROJECT.json`, each with a run that shows it. An exit
may buy twice: the wait for the first order sleeps on the event loop's own thread, so the
status read afterwards is that of the sending (`exit_manager.py:377`, `388`); the order is
cancelled as unanswered and a market order follows, although the first may have filled
(`exit_overclosed`, `exit_manager.py:485`, against "Skipping to prevent over-closing.",
`exit_manager.py:245`). A
fill after the first two minutes is never recorded (`batch_late_fill`,
`two_tier_execution_scheduler.py:1052`). An emergency stop sets the kill switch, but
nothing the daemon does reads it, so it handles events until the signal reaches it
(`control_halt`, `action_executor.py:583`). A put that was assigned is booked as expired
with its whole premium, because the sweep of expired trades comes before the look at
the stock positions (`control_assigned`, `daemon.py:267`).

The others met while modelling. In brackets the property that fails, to be put in a
`.cfg` of its own, and the instance where it is not the one of the runs.

*Bus.* Two daemons can handle one event: "Uses a SQL-level UPDATE WHERE
status='pending' so that two daemon processes running simultaneously cannot both
claim the same event" (`event_bus.py:163`), but the start-up of the second resets what
the first is working on (`event_bus.py:232`) [two daemons: `ExclusiveHandling`].

*Approval.* "Reject a pending decision." (`dashboard_api.py:647`): a rejection checks
nothing, and the daemon does not read it (`daemon.py:1262`), so an approval already
emitted runs [`NotRunWhenRejected`]. The sweep matches closed trades by ticker, not by
trade (`daemon.py:1743` against `1782`). An approval is lost when its caller dies between the commit
and the event (`dashboard_api.py:607`, `623`) [drop `losses > 0` from
`ApprovalTakesEffect`].

*Exits.* As nothing is delivered during the first wait, every exit is cancelled when it
ends, limit or market; the branches for other statuses are never taken. A market order
is then no longer tracked, and a limit order that fills while its market retry works is
not looked at again: their fills never reach the table ("Check status of all pending exit
orders and update DB accordingly.", `exit_manager.py:662`) [`EveryFillIsRecorded`]. Nor
does the fill of an order that a session after a reconnection does not show: "order not
found" clears the marker (`exit_manager.py:693`). A failed commit of the marker is only
logged, and the daemon that dies after it knows nothing of the order
(`exit_manager.py:343`): hence `lost` in `OneExitWanted` and `missed` in `FillIsRecorded`.
A market exit leaves its marker when its wait ends, so the position is hidden and
unwatched until a restart (`exit_manager.py:496`, `position_monitor.py:261`). The fill of
a retry is recorded and counted twice, since the tracker keeps it
(`exit_manager.py:505`, `518`, `daemon.py:2541`). Closes of positions whose `trade_id` is not the position key are never counted
(`daemon.py:2512`, `2556`): hence `Keyed`.

*Gate.* With an execute threshold below 60% and `low_confidence` switched off, L2
executes what L3 escalates (`autonomy_governor.py:33`, `211`) [`ExecuteThreshold = 50`,
`Disabled = {"low_confidence"}`: `MoreAutonomyApprovesMore`].

*Levels.* Counters are lost when the working memory writes its start-up copy back
(`autonomy_governor.py:411`, `working_memory.py:270`): hence `crashes = 0` in
`PromotionEarned`. "Consecutive" clean days need not be consecutive
(`autonomy_governor.py:12`, `daemon.py:2785`). A day is credited twice when the daemon
dies between its hook and the verdict (`daemon.py:495`, `2754`). A demotion is not
persisted (`daemon.py:2541`, `2573`). `set-autonomy` is overwritten at the next start
(`daemon_commands.py:196`, `daemon.py:220`). Expired trades are reported under
`{symbol}_{strike}` and looked up by `trade_id`, so they are never counted.

*Plan.* "Process each action independently" (`daemon.py:624`): the duplicate check
compares the name of the action only, so a second close within 90 seconds is dropped
even for another position (`daemon.py:663`) [plans that close two trades:
`NothingDroppedUnseen`]. An output block completes the event while actions of the plan
remain (`daemon.py:956`, `1066`). The audit row is committed after the handler, so a
crash in between repeats the effect (`daemon.py:873`): hence `crashes` in
`RepeatsNeedACrash`. Output guardrails queue rows before the check for waiting ones
(`daemon.py:632`, `683`).

*Order batch.* When the scheduler raises, FAILED is written over EXECUTED or EXPIRED,
and a claim over an unstaging, because the daemon's session checks its stale copy
(`action_executor.py:254`, `309`; "Terminal states that cannot transition further",
`opportunity_state.py:135`). Staging writes the state directly, over any state
(`scanner_api.py:741`, `876`, `auto_select_pipeline.py:846`) [`MayRestage = TRUE`:
`OneLiveOrder`]. PENDING rows, "called immediately after order submission so that even
if the system crashes", are written after up to two minutes of monitoring
(`two_tier_execution_scheduler.py:595`), and nothing catches an error of a quote or of the
limit made from it (a lost connection, a bid above the ask) in between
(`rapid_fire_executor.py:635`): the orders work without rows, and their opportunities
become FAILED. Hence `unsaved`. The status of a cancelled
order stays in the entry of its replacement, which is then dropped from
`pending_orders` while it works (`rapid_fire_executor.py:712`). A replaced order's id is
not its row's, so its fill is refused as a second row and stops the rest of the list
(`two_tier_execution_scheduler.py:1173`). Tier 2 changes the dict it iterates over
(`two_tier_execution_scheduler.py:777`, `rapid_fire_executor.py:712`): an adjustment
that succeeds raises, and everything claimed is marked FAILED. The cancellation of a
replaced order is not awaited, so both orders may fill.

*Staging.* The command `execute` never claims rows, and what it fills cannot become
EXECUTED (STAGED to EXECUTED is not in `VALID_TRANSITIONS`;
`two_tier_execution_scheduler.py:1075`, `1237`): run twice it sells twice, and it may
submit what the daemon submits. A row re-staged after its execution is not unstaged
again and is submitted daily. A refused pre-flight leaves claimed rows EXECUTING until
the end of the day; the pre-flight counts its batch only. Every scan makes rows of its
own, so one symbol can be staged and executed twice a day. The budget ignores EXECUTING
rows and is read minutes before staging: hence "nobody disturbed" in
`AloneWithinBudget`. The staged margin is not multiplied by the contracts.

*Selection and review.* A VIX above the halt level still gives one contract: the
factor 0 ends in `max(1, ...)` (`position_sizer.py` with `auto_select_pipeline.py`). The
command `execute` skips the second check since "The strike selector validates delta,
premium, OTM%, spread, and liquidity" (`two_tier_execution_scheduler.py:231`), but the
selector reads an attribute no staged trade has (`option_type`,
`live_strike_selector.py:268`) and answers UNCHANGED for all
[`OrderedIsFarOut`]. The minimum premium is not enforced for small moves of the share. An
ask below the bid raises and ends the run. The weekly builder gets no session
(`portfolio_commands.py:334`), so staged trades do not lower its budget.

*Processes.* "A pause": the heartbeat writes `running` each minute over whatever the row
holds (`health_monitor.py:84`) [`PauseHolds`]. The command line's stop leaves no stop
flag, so the watchdog starts the daemon again; the dashboard's flag is not cleared by
the command line's start. A restart from the dashboard may launch a second daemon while
the first still ends; `health.stop()` removes the PID file whoever it names. Kinds of
alerts that alternate are all sent, against the de-bouncing the module promises
(`watchdog.py:41`).

*Risk.* Only the commands `trade`, `execute-one` and `halt` consult the governor; the
daemon and `execute` never do. "To resume trading, restart the application"
(`main.py:2046`), but the halt is read from the file again and nothing calls
`resume_trading`. SIGINT writes the file and leaves the governor's own copy. The
weekly loss and the drawdown start anew with each command, and equity fetched by the
margin check alone is never a peak. Without account data all account checks pass;
`get_all_positions` answers an error with no positions, so the duplicate, count, sector
and loss checks pass as well. `ib.openOrders()` gives orders without contracts, so the
check against pending orders sees none.

*Books.* Long stock is laid to the most recently entered open put, whether it is still
held or not, and an import opens the trade again, so shares are counted twice
(`order_reconciliation.py:_detect_assignments`; "without double-counting",
`stock_position_service.py:5`). Orders are matched by contract and not by side: the fill
of an exit overwrites `entry_premium`. A trade whose order was cancelled stays open
and is booked as expired. A failed import rolls back the uncommitted imports before it,
and the start-up does not commit its imports. An import writes its row with the commit of
an entry snapshot, seconds after its look-up (`order_reconciliation.py:1272`,
`repositories.py:40`), and a sale its row minutes after the order: whoever imports the put
in between gives it a second open row. Hence `raced` in `OneOpenRow`. "RECONCILIATION COMPLETE - Database now
matches IBKR!" is printed also when a review by hand is left to do.

*Emitters and guardrails.* A restart in market hours emits MARKET_OPEN again, whose
handler drops the opening VIX that is "Stored in working memory so it survives daemon
restarts mid-session" (`daemon.py:3377`) [`OneBaselinePerDay`]. A start between 16:00 and
16:30 emits MARKET_CLOSE twice, and a restart in the evening again: a day's trades are
fed to the calibrator twice and the "Idempotent" rows of the metrics hold doubled
samples (`daemon.py:_persist_guardrail_metrics`) [`ClosedOncePerDay`,
`RowsHoldEachOutcomeOnce`]. A VIX that could not be read counts as 20: the gate's breaker
passes, and the enrichment stores it as fresh although `event_detector.py:31` says to
reject it. The VIX "UNKNOWN" of a context raises in the closing hook. The log of the rate
limit keeps 100 entries, so a larger limit never binds, and counts attempts other
checks stopped. What a human approves is executed past the gate and its log
(`daemon.py:1387`), so a minute may hold more executions than `max_orders_per_minute`;
`NoMinuteAboveLimit` is about what the gate lets through. After a restart the detector's cooldown runs from the event it finds,
not from the breach, so the silence lasts up to twice as long as "no new event is
emitted for 2 hours" [`CooldownFollowsBreach`]. The look-up of earlier reports answers no
on any database error (`event_detector.py:260`), so a position is then reported again at
once: hence `unchecked` in `BreachesAreSpaced`.

*Positions.* "Rejected this session: CLOSE_POSITION decisions the user rejected since
the current trading session started — persists until the next trading day's market open"
(`daemon.py:2370`) is judged by the time of the decision, not of the rejection: an old
decision rejected today suppresses nothing. The look-up goes on with what it has read when
the database raises (`daemon.py:2448`), and then rules and questions reach a position that
waits for its human: hence `lapses`. A failed automatic close
leaves a row that looks undecided and suppresses the stop-loss of its position in all
later sessions. A decision that names `position_id` instead of `trade_id` suppresses
nothing. The counter of stale checks is lost at every reconnect, and stale data are
priced at the entry premium, so the loss is zero. `position_monitor.get_position_price`
does not exist.

*Fills.* "Cancel current order and place new one for the remaining quantity"
(`fill_manager.py:_adjust_for_remainder`): the cancellation is not awaited, and both may
fill [`NeverOversold`]. A "Cancelled" of the old id drops the replacement from the
table, and events of a new id that come before its registration are lost. The Monday
scheduler does not look at the answer to its cancellation, replaces the full quantity,
has no floor for the price, and reads a member `ExecutionStatus.FAILED` that does not
exist.

*NakedTrader.* The stop-loss is a limit order to buy at three times the premium, which
the market fills at once. A sale whose order timed out is recorded as active and later
booked expired with its full premium. A crash between placing and recording loses the
trade. The list of trades shows the fills of this connection only (`watcher.py:69`): a
purchase filled in an earlier watch is booked as expired; `known` in `BookedAsItEnded`
excuses this. The expiration is compared with the date of the host (`watcher.py:88`), not
with `us_trading_date()` of `utils/timezone.py`: on a host in Australia it passes while
New York trades, and a put whose purchases still work is booked as expired. The
property excuses that window, and nothing else with a purchase at work.

*History.* A sale closed in parts is promoted with its whole quantity at the first
price; a purchase larger than the sale, and a sale closed in part, count as matched. The
match type "assignment" is never produced, so assigned puts are booked as expired. A sale
booked as expired before a late purchase arrives stays so. The net profit of an exit
snapshot subtracts the commission twice. `_update_trade_columns` overwrites
`vix_at_entry` with nothing. `gaps` compares each
session with the one that began before it only, so it also reports days that a longer
session covers; it misses none (`NoSilentGap`).

*Learning.* The patterns of courses and combinations have the constant p-value 1: they
are always rejected, and still count in the correction. They also count paper trades
and puts whose shares are held. The limits of the buckets of days to expiration belong
to both neighbours, top values and negative deltas to none. Several proposals for one
parameter are applied best first, so the weakest stays. "Only propose if this range
significantly outperforms baseline" (`parameter_optimizer.py`) is passed by worse groups
when the baseline is negative [`AppliedOutperforms`]. The applied configuration lives in
memory only. `RUN_EXPERIMENT` always fails on its arguments.

## 6. What is not modelled, and what could come next

Not modelled, because there is no protocol in it: pages and command parsing, prompts
and the parsing of answers, the scanners that fetch lists of symbols and chains,
snapshots (copies of market data, best effort; what they hold is a free choice where it
is read), the analysis package and the tests of significance (floating point formulas),
the broker wrapper, ORM classes and migrations, the loading of the configuration (its
values are the constants). Not modelled because nothing calls it: experiments
(`assign_trade`, `record_trade_assignment`, `stop_experiment`), the regime adapter
(`on_vix_update`), `OrderTimingHandler`, `resume_trading`, `check_calibration`,
`check_stagnation`.

Left out of a module, and named in the notes of `PROJECT.json`: partial fills in
`OrderBatch` (`FillMonitor` has them), quantities and prices in `Reconciliation`, several
contracts in `TradeImport`, half days in `TradingDay`.

Some properties are silent where the code has a hazard they do not reach. `EveryCloseIsCounted` is
about keyed positions; `NoFreePromotion` counts a hook that is repeated after a crash as
recorded; `OneLiveOrder` and `OneExitWanted` allow the cancelled order and its replacement
both to fill; `ImplementsQueue` and `NoOrphan` are for one daemon at a time.

Next: an abstract exit (short, closing, flat), which `ExitManager` would implement up to
its given-up orders; an abstract life of an opportunity that both
`StagedTrades` and `OrderBatch` implement; theorems for what is stated outside the runs
(`PassedDoesNotFit`, `NoSilentGap`, `WorseIsNeverHealthier`, `LearnedFromRealTrades`).
