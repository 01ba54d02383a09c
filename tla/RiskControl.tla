---------------------------- MODULE RiskControl ----------------------------
(***************************************************************************)
(* The risk governor of the commands `trade`, `execute-one` and `halt`:    *)
(* the checks before an order, the circuit breakers that trip during them, *)
(* the order itself and the margin check after a fill                      *)
(* (execution/risk_governor.py, execution/order_executor.py, cli/main.py). *)
(*                                                                         *)
(* A governor lives as long as its command.  It keeps its own copy of the  *)
(* halt, of the account (five minutes old at most, or older when the       *)
(* refresh fails), of the highest equity it has seen and of the equity its *)
(* week began with; commands share only the kill switch and the account.   *)
(***************************************************************************)
EXTENDS Integers, FiniteSets, KillSwitch

CONSTANTS
    Procs,          \* commands that have a governor
    Contracts,      \* option contracts
    SectorOf,       \* contract -> sector
    TradeMargin,    \* contract -> margin_required, 0 when it is not known
    Held,           \* contracts held at the start
    Accounts,       \* account summaries the broker may report
    MaxPositions,   \* MAX_POSITIONS
    MaxPerDay,      \* MAX_POSITIONS_PER_DAY
    MaxOrders,      \* bound on sentOrders
    MaxMoves,       \* bound on changes of the account
    MaxDay,         \* the last day
    Mondays         \* the days that are Mondays

\* A summary: net liquidation value, excess liquidity, available funds, buying
\* power and the profit of the open positions.
Summary == [nlv : Nat, excess : Int, funds : Int, power : Nat, pnl : Int]

ASSUME RiskBounds ==
    /\ SectorOf \in [Contracts -> STRING]
    /\ TradeMargin \in [Contracts -> Nat]
    /\ Held \subseteq Contracts
    /\ Accounts \subseteq Summary /\ Accounts # {}
    /\ MaxPositions \in Nat /\ MaxPerDay \in Nat /\ MaxOrders \in Nat
    /\ MaxMoves \in Nat /\ MaxDay \in Nat /\ Mondays \subseteq 0..MaxDay

\* Percentages of scanner_settings.yaml and .env; MIN_EXCESS_LIQUIDITY_PCT.
MaxDailyLoss == 2
MaxWeeklyLoss == 5
MaxDrawdown == 10
MaxSectorShare == 30
MaxMarginShare == 80
MaxTradeShare == 10
MinExcessShare == 10

NoData == [nlv |-> 0, excess |-> 0, funds |-> 0, power |-> 0, pnl |-> 0]
NoContract == "none"

VARIABLES
    gov,       \* command -> its governor and executor
    account,   \* the account at the broker
    open,      \* contracts with an open position
    working,   \* contracts with an order that works
    dayOfRisk,       \* the trading day
    sentOrders, \* orders sent so far
    moves,     \* changes of the account so far
    latched,   \* history: a halt has been written
    late,      \* history: commands started after that
    known      \* history: command -> highest and last equity its drawdown check saw

riskVars == <<gov, account, open, working, dayOfRisk, sentOrders, moves, latched, late, known>>
riskAll == <<haltFile, riskVars>>

Off == [pc |-> "off", halted |-> FALSE, cache |-> NoData, cached |-> FALSE,
        stale |-> FALSE, peak |-> 0, week |-> 0, weekDay |-> 0, trades |-> 0,
        counted |-> 0, target |-> NoContract]

Governor ==
    [pc : {"off", "ready", "approved", "sent"}, halted : BOOLEAN,
     cache : Accounts \cup {NoData}, cached : BOOLEAN, stale : BOOLEAN,
     peak : Nat, week : Nat, weekDay : 0..MaxDay, trades : 0..MaxPerDay,
     counted : 0..MaxDay, target : Contracts \cup {NoContract}]

Unseen == [high |-> 0, last |-> 0]

RiskTypeOK ==
    /\ haltFile \in FileStates
    /\ gov \in [Procs -> Governor]
    /\ account \in Accounts
    /\ open \subseteq Contracts
    /\ working \subseteq Contracts
    /\ dayOfRisk \in 0..MaxDay
    /\ sentOrders \in 0..MaxOrders
    /\ moves \in 0..MaxMoves
    /\ latched \in BOOLEAN
    /\ late \subseteq Procs
    /\ known \in [Procs -> [high : Nat, last : Nat]]

RiskInit ==
    /\ gov = [p \in Procs |-> Off]
    /\ account \in Accounts
    /\ open = Held
    /\ working = {}
    /\ dayOfRisk = 0
    /\ sentOrders = 0
    /\ moves = 0
    /\ latched = FALSE
    /\ late = {}
    /\ known = [p \in Procs |-> Unseen]

-----------------------------------------------------------------------------
(* The checks, in the order of pre_trade_check.                            *)

Recounted(g) ==
    IF dayOfRisk > g.counted THEN [g EXCEPT !.trades = 0, !.counted = dayOfRisk] ELSE g

\* get_all_positions: the open trades, with a price at the broker or without; the
\* list is empty when they cannot be read.  Each check reads it anew; for the two
\* counts that is no more than one reading.
PositionLists == {open, {}}

\* _check_duplicate_contract, against positions and, when the broker gives them
\* with their contracts, its open orders.
OrderLists == {working, {}}

NotDuplicate(c) ==
    \E list \in PositionLists, orders \in OrderLists : c \notin list \cup orders

\* _check_daily_loss_limit asks the broker, not the cache, for the profit of the
\* positions listed.
DailyLoss(list) ==
    /\ account.nlv > 0
    /\ 100 * (IF list = {} THEN 0 ELSE account.pnl) <= -MaxDailyLoss * account.nlv

\* _get_cached_account_summary: a copy younger than five minutes is used; a
\* refresh that fails leaves what there was.
Refreshed(g) ==
    IF g.cached /\ ~g.stale THEN {g}
    ELSE {g, [g EXCEPT !.cache = account, !.cached = TRUE, !.stale = FALSE]}

\* The week begins with the first equity seen and on every Monday.
WeekStarted(g) ==
    IF /\ g.cache.nlv > 0
       /\ g.week = 0 \/ (dayOfRisk \in Mondays /\ g.weekDay # dayOfRisk)
    THEN [g EXCEPT !.week = g.cache.nlv, !.weekDay = dayOfRisk]
    ELSE g

WeeklyLoss(g) ==
    g.cache.nlv > 0 /\ 100 * (g.cache.nlv - g.week) <= -MaxWeeklyLoss * g.week

Peaked(g) ==
    IF g.cache.nlv > g.peak THEN [g EXCEPT !.peak = g.cache.nlv] ELSE g

Drawdown(g) ==
    g.cache.nlv > 0 /\ 100 * (g.cache.nlv - g.peak) <= -MaxDrawdown * g.peak

\* _check_sector_concentration: not below four positions.
Concentrated(list, c) ==
    LET total == Cardinality(list) + 1
        same == Cardinality({o \in list : SectorOf[o] = SectorOf[c]}) + 1
    IN total > 3 /\ 100 * same > MaxSectorShare * total

\* _check_max_positions, _check_max_positions_per_day and the sectors.
TooMany(g, list, c) ==
    \/ Cardinality(list) >= MaxPositions
    \/ g.trades >= MaxPerDay
    \/ Concentrated(list, c)

\* _check_margin_utilization for an estimate and what the broker's WhatIf asks
\* (the estimate again when it does not answer).  Without data every test that
\* divides is skipped.
MarginRefused(s, estimate, required) ==
    \/ estimate > s.funds \/ required > s.funds
    \/ s.nlv > 0 /\ 100 * required > MaxTradeShare * s.nlv
    \/ s.power > 0 /\ 100 * (s.power - s.funds + required) > MaxMarginShare * s.power
    \/ s.nlv > 0 /\ 100 * s.excess < MinExcessShare * s.nlv

WhatIfQuotes(c) == {TradeMargin[c], TradeMargin[c] + 5}

-----------------------------------------------------------------------------
(* A command.                                                              *)

\* emergency_halt() in the process, and the file if it can be written.
Halt ==
    /\ WriteHalt
    /\ latched' = (latched \/ haltFile' = "halted")

Keep(p, g) ==
    /\ gov' = [gov EXCEPT ![p] = g]
    /\ UNCHANGED <<haltFile, latched>>

Trip(p, g) ==
    /\ gov' = [gov EXCEPT ![p] = [g EXCEPT !.halted = TRUE]]
    /\ Halt

\* The drawdown check has looked at the equity e.
Saw(p, e) ==
    known' = [known EXCEPT ![p] = [high |-> IF e > @.high THEN e ELSE @.high, last |-> e]]

StartOrder(p) ==
    /\ gov[p].pc = "off"
    /\ gov' = [gov EXCEPT ![p] =
                   [Off EXCEPT !.pc = "ready", !.halted = LoadedHalt, !.counted = dayOfRisk]]
    /\ late' = IF latched THEN late \cup {p} ELSE late
    /\ UNCHANGED <<haltFile, account, open, working, dayOfRisk, sentOrders, moves, latched, known>>

\* What stops a check before it looks at the account: a halt, a duplicate, or
\* earnings within the term, which may be so for any contract.
CheckRefused(p) ==
    /\ gov[p].pc = "ready"
    /\ Keep(p, Recounted(gov[p]))
    /\ UNCHANGED <<account, open, working, dayOfRisk, sentOrders, moves, late, known>>

CheckDailyLoss(p) ==
    LET g == Recounted(gov[p])
    IN /\ gov[p].pc = "ready"
       /\ ~g.halted
       /\ \E c \in Contracts : NotDuplicate(c)
       /\ \E list \in PositionLists : DailyLoss(list)
       /\ Trip(p, g)
       /\ UNCHANGED <<account, open, working, dayOfRisk, sentOrders, moves, late, known>>

\* The rest: two circuit breakers, the counts, the margin; the summary may be
\* fetched before each of the three that use it.
CheckAccount(p, c) ==
    LET g == Recounted(gov[p])
    IN /\ gov[p].pc = "ready"
       /\ ~g.halted
       /\ NotDuplicate(c)
       /\ \E list \in PositionLists : ~DailyLoss(list)
       /\ \E list \in PositionLists, r1 \in Refreshed(g) :
            LET w == WeekStarted(r1)
            IN IF WeeklyLoss(w) THEN Trip(p, w) /\ UNCHANGED known
               ELSE \E r2 \in Refreshed(w) :
                  LET k == IF r2.cache.nlv > 0 THEN Peaked(r2) ELSE r2
                  IN /\ Saw(p, k.cache.nlv)
                     /\ IF Drawdown(k) THEN Trip(p, k)
                        ELSE IF TooMany(k, list, c) THEN Keep(p, k)
                        ELSE \E r3 \in Refreshed(k), required \in WhatIfQuotes(c) :
                          IF MarginRefused(r3.cache, TradeMargin[c], required)
                          THEN Keep(p, r3)
                          ELSE Keep(p, [r3 EXCEPT !.pc = "approved", !.target = c])
       /\ UNCHANGED <<account, open, working, dayOfRisk, sentOrders, moves, late>>

\* The user declines, the market is closed, the order is invalid or refused.
Drop(p) ==
    /\ gov[p].pc = "approved"
    /\ gov' = [gov EXCEPT ![p].pc = "ready", ![p].target = NoContract]
    /\ UNCHANGED <<haltFile, account, open, working, dayOfRisk, sentOrders, moves, latched,
                   late, known>>

\* placeOrder; two seconds later the order works or is filled.
Place(p) ==
    /\ gov[p].pc = "approved"
    /\ sentOrders < MaxOrders
    /\ sentOrders' = sentOrders + 1
    /\ gov' = [gov EXCEPT ![p].pc = "sent"]
    /\ \/ working' = working \cup {gov[p].target} /\ UNCHANGED open
       \/ open' = open \cup {gov[p].target} /\ UNCHANGED working
    /\ UNCHANGED <<haltFile, account, dayOfRisk, moves, latched, late, known>>

\* record_trade; a fill is followed by verify_post_trade_margin, which trips when
\* the excess liquidity is at ten percent or less.
Recorded(g) == [g EXCEPT !.pc = "ready", !.trades = @ + 1, !.target = NoContract]

RecordTrade(p) ==
    /\ gov[p].pc = "sent"
    /\ \/ gov' = [gov EXCEPT ![p] = Recorded(@)] /\ UNCHANGED <<haltFile, latched>>
       \/ /\ gov[p].target \in open
          /\ 10 * account.excess <= account.nlv
          /\ gov' = [gov EXCEPT ![p] = [Recorded(@) EXCEPT !.halted = TRUE]]
          /\ Halt
    /\ UNCHANGED <<account, open, working, dayOfRisk, sentOrders, moves, late, known>>

\* Ctrl-C: the kill switch of the governor writes the file and the command goes
\* on with the governor's copy.
Interrupt(p) ==
    /\ gov[p].pc # "off"
    /\ haltFile # "halted"
    /\ Halt
    /\ UNCHANGED <<gov, account, open, working, dayOfRisk, sentOrders, moves, late, known>>

Finish(p) ==
    /\ gov[p].pc = "ready"
    /\ gov' = [gov EXCEPT ![p] = Off]
    /\ late' = late \ {p}
    /\ known' = [known EXCEPT ![p] = Unseen]
    /\ UNCHANGED <<haltFile, account, open, working, dayOfRisk, sentOrders, moves, latched>>

\* The command `halt`, whose own governor ends with it.
HaltCommand ==
    /\ haltFile # "halted"
    /\ Halt
    /\ UNCHANGED <<gov, account, open, working, dayOfRisk, sentOrders, moves, late, known>>

-----------------------------------------------------------------------------
(* The market.                                                             *)

Fill(c) ==
    /\ c \in working
    /\ working' = working \ {c}
    /\ open' = open \cup {c}
    /\ UNCHANGED <<haltFile, gov, account, dayOfRisk, sentOrders, moves, latched, late, known>>

Close(c) ==
    /\ c \in open
    /\ open' = open \ {c}
    /\ UNCHANGED <<haltFile, gov, account, working, dayOfRisk, sentOrders, moves, latched,
                   late, known>>

Move ==
    /\ moves < MaxMoves
    /\ moves' = moves + 1
    /\ account' \in Accounts \ {account}
    /\ UNCHANGED <<haltFile, gov, open, working, dayOfRisk, sentOrders, latched, late, known>>

FiveMinutes(p) ==
    /\ gov[p].cached /\ ~gov[p].stale
    /\ gov' = [gov EXCEPT ![p].stale = TRUE]
    /\ UNCHANGED <<haltFile, account, open, working, dayOfRisk, sentOrders, moves, latched,
                   late, known>>

NextTradingDay ==
    /\ dayOfRisk < MaxDay
    /\ dayOfRisk' = dayOfRisk + 1
    /\ UNCHANGED <<haltFile, gov, account, open, working, sentOrders, moves, latched,
                   late, known>>

RiskNext ==
    \/ \E p \in Procs :
         \/ StartOrder(p) \/ Drop(p) \/ Place(p) \/ RecordTrade(p) \/ Interrupt(p)
         \/ Finish(p) \/ FiveMinutes(p) \/ CheckRefused(p) \/ CheckDailyLoss(p)
         \/ \E c \in Contracts : CheckAccount(p, c)
    \/ \E c \in Contracts : Fill(c) \/ Close(c)
    \/ HaltCommand \/ Move \/ NextTradingDay
    \/ Corrupt /\ UNCHANGED riskVars

RiskSpec == HaltFileInit /\ RiskInit /\ [][RiskNext]_riskAll

-----------------------------------------------------------------------------
(* Properties.                                                             *)

\* A command started after a halt was written approves nothing, whoever halted,
\* for whatever reason, and even when the file has been damaged since
\* (kill_switch.py:_load_from_file, risk_governor.py:emergency_halt).
HaltLasts == \A p \in late : gov[p].pc \notin {"approved", "sent"}

\* An order is approved only if the equity the drawdown check looked at is less
\* than the limit below every equity that check ever looked at in this command:
\* no failed refresh, stale copy, trip of another breaker or new day forgets a
\* peak (risk_governor.py:_check_max_drawdown, _get_cached_account_summary).
SeenLossBlocks ==
    \A p \in Procs :
        gov[p].pc = "approved" /\ known[p].last > 0 =>
            100 * known[p].last > (100 - MaxDrawdown) * known[p].high

=============================================================================
