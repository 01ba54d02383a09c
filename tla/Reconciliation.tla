--------------------------- MODULE Reconciliation ---------------------------
(***************************************************************************)
(* The books against the broker: the trades table and the stock positions  *)
(* of assigned puts, brought in line with what IBKR reports                *)
(* (services/order_reconciliation.py, assignment_detector.py,              *)
(* stock_position_service.py, PositionMonitor.close_expired_positions,     *)
(* with the callers in agentic/daemon.py, dashboard_api.py, cli/main.py).  *)
(*                                                                         *)
(* The daemon reconciles at start-up and after the close in three phases   *)
(* with a report between them; the dashboard and the command line do it    *)
(* whenever they are asked, each in one session of its own.  A row is      *)
(* written after the look-up that did not find it, and that of a put the   *)
(* program sold minutes after the sale: nothing keeps the others out in    *)
(* between.                                                                *)
(***************************************************************************)
EXTENDS Integers, FiniteSets

CONSTANTS
    Puts,         \* put contracts the program may sell
    SymbolOf,     \* put -> its underlying
    MaxLots,      \* bound on the lots of one put at the broker
    MaxEvents     \* bound on trades at the broker, failed writes and restarts

ASSUME BookBounds ==
    /\ MaxLots \in Nat \ {0} /\ MaxEvents \in Nat

Symbols == {SymbolOf[c] : c \in Puts}

\* A trade is named after its contract and where its row came from: the order
\* of the program, an order found in TWS, a position found in TWS.
Sides == {"sell", "buy"}
Kinds == {"placed", "imported"} \cup Sides
Ids == Puts \X Kinds
Put(i) == i[1]

\* Whoever imports: the daemon, and the dashboard or the command line.
Importers == {"daemon", "other"}

\* entry is the order in which rows were entered.
NoRow == [state |-> "none", lots |-> 0, entry |-> 0]

Closed == {"expired", "assigned", "bought"}

Row == [state : Closed \cup {"none", "open"}, lots : 0..MaxLots,
        entry : Nat]

NoReport == [phase |-> "idle", missing |-> {}, events |-> {}]

VARIABLES
    held,      \* put -> lots held short at the broker
    term,      \* put -> before, on (after the close) or past its expiration
    assigned,  \* puts the broker has assigned
    shares,    \* symbol -> lots of stock held at the broker
    orders,    \* orders TWS still reports: <<put, side>>
    trades,    \* id -> row of trades
    today,     \* ids entered today
    stock,     \* id -> its stock position: none, held or closed
    sent,      \* puts the program sold and has not entered yet
    listed,    \* importer -> put -> lots it found missing when it began
    sought,    \* importer -> the row it looked for in vain and is about to write
    raced,     \* history: puts whose row was written while another process had one in hand
    report,    \* what the daemon's reconciliation has found so far
    alerted,   \* symbols the detector has already reported
    entries,   \* rows written so far
    events     \* trades at the broker, failed writes and restarts so far

brokerVars == <<held, term, assigned, shares, orders>>
writeVars == <<sent, listed, sought, raced>>
bookVars == <<brokerVars, trades, today, stock, writeVars, report, alerted, entries, events>>

\* The shares an assignment left, as stock_positions has them.
StockStates == {"none", "held", "closed"}

\* PositionReconciliationReport, between the phases that act on it.
Findings == [phase : {"idle", "import", "importing", "assign", "sweep"},
             missing : SUBSET Puts, events : SUBSET Ids]

\* A row that is about to be written.
Finds == [id : Ids, lots : 0..MaxLots]
NothingListed == [c \in Puts |-> 0]

BookTypeOK ==
    /\ held \in [Puts -> 0..MaxLots]
    /\ term \in [Puts -> {"before", "on", "past"}]
    /\ assigned \subseteq Puts
    /\ shares \in [Symbols -> Nat]
    /\ orders \subseteq Puts \X Sides
    /\ trades \in [Ids -> Row]
    /\ today \subseteq Ids
    /\ stock \in [Ids -> StockStates]
    /\ sent \subseteq Puts /\ raced \subseteq Puts
    /\ listed \in [Importers -> [Puts -> 0..MaxLots]]
    /\ sought \in [Importers -> SUBSET Finds]
    /\ report \in Findings
    /\ alerted \subseteq Symbols
    /\ entries \in Nat /\ events \in 0..MaxEvents

BookInit ==
    /\ held = [c \in Puts |-> 0]
    /\ term = [c \in Puts |-> "before"]
    /\ assigned = {}
    /\ shares = [s \in Symbols |-> 0]
    /\ orders = {}
    /\ trades = [i \in Ids |-> NoRow]
    /\ today = {}
    /\ stock = [i \in Ids |-> "none"]
    /\ sent = {} /\ raced = {}
    /\ listed = [m \in Importers |-> NothingListed]
    /\ sought = [m \in Importers |-> {}]
    /\ report = [NoReport EXCEPT !.phase = "sweep"]
    /\ alerted = {}
    /\ entries = 0
    /\ events = 0

-----------------------------------------------------------------------------
(* The broker.                                                             *)

Event == events < MaxEvents /\ events' = events + 1

Booked == <<trades, today, stock, writeVars, report, alerted, entries>>

\* Somebody sells a put in TWS.
SellOutside(c) ==
    /\ Event
    /\ term[c] = "before"
    /\ held[c] < MaxLots
    /\ held' = [held EXCEPT ![c] = @ + 1]
    /\ orders' = orders \cup {<<c, "sell">>}
    /\ UNCHANGED <<term, assigned, shares, Booked>>

\* The program sells a put it holds no trade in.
Sell(c) ==
    /\ Event
    /\ term[c] = "before"
    /\ held[c] = 0 /\ c \notin sent
    /\ trades[<<c, "placed">>].state = "none"
    /\ \A j \in Ids : Put(j) = c => trades[j].state # "open"
    /\ held' = [held EXCEPT ![c] = 1]
    /\ orders' = orders \cup {<<c, "sell">>}
    /\ sent' = sent \cup {c}
    /\ UNCHANGED <<term, assigned, shares, trades, today, stock, listed, sought, raced,
                   report, alerted, entries>>

BuyBack(c) ==
    /\ Event
    /\ held[c] > 0
    /\ held' = [held EXCEPT ![c] = 0]
    /\ orders' = orders \cup {<<c, "buy">>}
    /\ UNCHANGED <<term, assigned, shares, Booked>>

\* The broker takes the put away and delivers the stock, at any time or after
\* the expiration.
Assign(c) ==
    /\ Event
    /\ held[c] > 0
    /\ held' = [held EXCEPT ![c] = 0]
    /\ assigned' = assigned \cup {c}
    /\ shares' = [shares EXCEPT ![SymbolOf[c]] = @ + held[c]]
    /\ UNCHANGED <<term, orders, Booked>>

Lapse(c) ==
    /\ term[c] # "before"
    /\ held[c] > 0
    /\ held' = [held EXCEPT ![c] = 0]
    /\ UNCHANGED <<term, assigned, shares, orders, events, Booked>>

Expire(c) ==
    /\ term[c] = "before"
    /\ term' = [term EXCEPT ![c] = "on"]
    /\ UNCHANGED <<held, assigned, shares, orders, events, Booked>>

SellStock(s) ==
    /\ Event
    /\ shares[s] > 0
    /\ shares' = [shares EXCEPT ![s] = 0]
    /\ UNCHANGED <<held, term, assigned, orders, Booked>>

\* Overnight a put that expired is gone; TWS may still report the orders of the
\* last sessions.
NextDay ==
    /\ sent = {}
    /\ \A c \in Puts : term[c] # "before" => held[c] = 0
    /\ today # {} \/ orders # {} \/ \E c \in Puts : term[c] = "on"
    /\ orders' \in {{}, orders}
    /\ today' = {}
    /\ term' = [c \in Puts |-> IF term[c] = "on" THEN "past" ELSE term[c]]
    /\ UNCHANGED <<held, assigned, shares, trades, stock, writeVars, report, alerted,
                   entries, events>>

-----------------------------------------------------------------------------
(* Comparing: reconcile_positions.                                         *)

Open(ts) == {i \in Ids : ts[i].state = "open"}
HeldPuts == {c \in Puts : held[c] > 0}

MissingIn(ts) == HeldPuts \ {Put(i) : i \in Open(ts)}

\* _detect_assignments: any stock in lots of a hundred is laid to the open put
\* on that symbol that was entered last, whether the put is still held or not.
Assignments(ts) ==
    {i \in Open(ts) :
        /\ shares[SymbolOf[Put(i)]] > 0
        /\ \A j \in Open(ts) :
               SymbolOf[Put(j)] = SymbolOf[Put(i)] => ts[j].entry <= ts[i].entry}

\* _close_if_expired, for what the broker no longer holds and was not laid to an
\* assignment.
ExpiredClosed(ts) ==
    [i \in Ids |->
        IF /\ i \in Open(ts) \ Assignments(ts)
           /\ held[Put(i)] = 0 /\ term[Put(i)] # "before"
        THEN [ts[i] EXCEPT !.state = "expired"] ELSE ts[i]]

\* close_position of the stock service.
WithoutStock(st, is) == [i \in Ids |-> IF i \in is THEN "closed" ELSE st[i]]

\* _check_stock_position_closures: stock that is gone was sold, if the sale is
\* still among the fills of the session.
StockClosed(sold) ==
    WithoutStock(stock, {i \in Ids : stock[i] = "held" /\ shares[SymbolOf[Put(i)]] = 0 /\ sold})

\* create_from_assignment: one stock position for a trade.
WithStock(st, is) == [i \in Ids |-> IF i \in is /\ st[i] = "none" THEN "held" ELSE st[i]]

\* Closing at intrinsic value what is still open.
AssignedClosed(ts, is) ==
    [i \in Ids |-> IF i \in is /\ ts[i].state = "open"
                   THEN [ts[i] EXCEPT !.state = "assigned"] ELSE ts[i]]

-----------------------------------------------------------------------------
(* Writing a row: look-up, then insertion.                                 *)

Outside == <<brokerVars, alerted>>

\* A row of the contract, an open one first.
Match(ts, c) ==
    LET same == {i \in Ids : Put(i) = c /\ ts[i].state # "none"}
        opened == same \cap Open(ts)
    IN IF opened # {} THEN opened ELSE same

InHand(c) == {m \in Importers : \E w \in sought[m] : Put(w.id) = c}

\* A row of c is written by `writers` while others have one in hand.
NoteRace(c, writers, seller) ==
    raced' = IF InHand(c) \subseteq writers /\ (seller \/ c \notin sent)
             THEN raced ELSE raced \cup {c}

Enter(i, lots) ==
    /\ trades' = [trades EXCEPT ![i] = [state |-> "open", lots |-> lots, entry |-> entries + 1]]
    /\ today' = today \cup {i}
    /\ entries' = entries + 1

\* import_orphan_positions begins with the lists of the broker and of the table.
Lacking == [c \in Puts |-> IF c \in MissingIn(trades) THEN held[c] ELSE 0]

\* Bug: a row that is found is taken for a duplicate, even if it is closed.
SkipKnown(m, c) ==
    /\ listed[m][c] > 0 /\ sought[m] = {}
    /\ listed' = [listed EXCEPT ![m][c] = 0]
    /\ sought' = IF Match(trades, c) # {} THEN sought
                 ELSE [sought EXCEPT ![m] = {[id |-> <<c, "imported">>, lots |-> listed[m][c]]}]
    /\ UNCHANGED <<Outside, trades, today, stock, sent, raced, report, entries, events>>

\* get_by_canonical_key: a row that is found is brought in line and reopened.
LookUp(m, c) ==
    /\ listed[m][c] > 0 /\ sought[m] = {}
    /\ listed' = [listed EXCEPT ![m][c] = 0]
    /\ \/ /\ \E i \in Match(trades, c) :
               trades' = [trades EXCEPT ![i] = [@ EXCEPT !.state = "open", !.lots = listed[m][c]]]
          /\ NoteRace(c, {m}, FALSE)
          /\ UNCHANGED sought
       \/ /\ Match(trades, c) = {}
          /\ sought' = [sought EXCEPT ![m] = {[id |-> <<c, "imported">>, lots |-> listed[m][c]]}]
          /\ UNCHANGED <<trades, raced>>
    /\ UNCHANGED <<Outside, today, stock, sent, report, entries, events>>

\* TradeRepository.create only flushes; the row is there for others with the commit of
\* its entry snapshot, seconds later.  Trade ids are unique.
Insert(m) ==
    /\ \E w \in sought[m] :
          \/ /\ trades[w.id].state = "none"
             /\ Enter(w.id, w.lots)
             /\ NoteRace(Put(w.id), {m}, FALSE)
          \/ /\ trades[w.id].state # "none"
             /\ UNCHANGED <<trades, today, entries, raced>>
    /\ sought' = [sought EXCEPT ![m] = {}]
    /\ UNCHANGED <<Outside, stock, sent, listed, report, events>>

\* The write, or that snapshot, fails and is rolled back.
WriteFails(m) ==
    /\ sought[m] # {}
    /\ Event
    /\ sought' = [sought EXCEPT ![m] = {}]
    /\ UNCHANGED <<Outside, trades, today, stock, sent, listed, raced, report, entries>>

\* _save_pending_trades_to_db, when the watch is over: whatever has been entered since.
SaveSale(c) ==
    /\ c \in sent
    /\ sent' = sent \ {c}
    /\ Enter(<<c, "placed">>, 1)
    /\ NoteRace(c, {}, TRUE)
    /\ UNCHANGED <<Outside, stock, listed, sought, report, events>>

\* The seller dies or raises before that, or its commit fails.
LoseSale(c) ==
    /\ c \in sent
    /\ Event
    /\ sent' = sent \ {c}
    /\ UNCHANGED <<Outside, trades, today, stock, listed, sought, raced, report, entries>>

-----------------------------------------------------------------------------
(* The daemon.                                                             *)

Idle == report.phase = "idle" /\ sought["daemon"] = {}

\* close_expired_positions, first thing at start-up and at the open, last thing
\* after the close: every open trade past its expiration kept its premium.
SweepExpired ==
    /\ \/ report.phase = "sweep"
       \/ Idle /\ \E i \in Open(trades) : term[Put(i)] = "past"
    /\ report' = NoReport
    /\ trades' = [i \in Ids |->
                     IF i \in Open(trades) /\ term[Put(i)] = "past"
                     THEN [trades[i] EXCEPT !.state = "expired"] ELSE trades[i]]
    /\ UNCHANGED <<Outside, today, stock, writeVars, entries, events>>

Reconcile(sold) ==
    /\ Idle
    /\ \/ MissingIn(trades) # {} \/ Assignments(trades) # {}
       \/ ExpiredClosed(trades) # trades \/ StockClosed(sold) # stock
    /\ trades' = ExpiredClosed(trades)
    /\ stock' = StockClosed(sold)
    /\ report' = [phase |-> "import", missing |-> MissingIn(trades),
                  events |-> Assignments(trades)]
    /\ UNCHANGED <<Outside, today, writeVars, entries, events>>

\* The import looks again at the broker and at the table.
BeginImport ==
    /\ report.phase = "import"
    /\ report.missing # {}
    /\ listed' = [listed EXCEPT !["daemon"] = Lacking]
    /\ report' = [report EXCEPT !.phase = "importing"]
    /\ UNCHANGED <<Outside, trades, today, stock, sent, sought, raced, entries, events>>

ImportDone ==
    /\ \/ report.phase = "import" /\ report.missing = {}
       \/ report.phase = "importing" /\ listed["daemon"] = NothingListed /\ sought["daemon"] = {}
    /\ report' = [report EXCEPT !.phase = "assign"]
    /\ UNCHANGED <<Outside, trades, today, stock, writeVars, entries, events>>

\* _process_assignments.
ProcessAssignments ==
    /\ report.phase = "assign"
    /\ trades' = AssignedClosed(trades, report.events)
    /\ stock' = WithStock(stock, report.events)
    /\ report' = [NoReport EXCEPT !.phase = "sweep"]
    /\ UNCHANGED <<Outside, today, writeVars, entries, events>>

\* sync_all_orders and import_orphan_orders: an order that meets a row of today, by its
\* contract and whatever its side, gives it its price; a filled order without a row,
\* unless its contract is known, becomes a trade.
RowsMet(o) == {i \in today : Put(i) = o[1]}

\* Bug: an order that meets no row of today is an orphan.
OrphanToday(o) == RowsMet(o) = {} /\ trades[o].state = "none"

Orphan(o) == RowsMet(o) = {} /\ Match(trades, o[1]) = {}

SyncOrders(m, o) ==
    /\ o \in orders /\ sought[m] = {}
    /\ m = "daemon" => Idle
    /\ Orphan(o)
    /\ sought' = [sought EXCEPT ![m] = {[id |-> o, lots |-> 1]}]
    /\ UNCHANGED <<Outside, trades, today, stock, sent, listed, raced, report, entries, events>>

\* A new process: nothing is reported yet.
RestartDaemon ==
    /\ Event
    /\ report' = [NoReport EXCEPT !.phase = "sweep"]
    /\ alerted' = {}
    /\ listed' = [listed EXCEPT !["daemon"] = NothingListed]
    /\ sought' = [sought EXCEPT !["daemon"] = {}]
    /\ UNCHANGED <<brokerVars, trades, today, stock, sent, raced, entries>>

-----------------------------------------------------------------------------
(* The others.                                                             *)

\* check_for_assignments in the position monitor: the last open put on the
\* symbol, or one closed in the last days, once per process.
Detect(s) ==
    LET opened == {i \in Open(trades) : SymbolOf[Put(i)] = s}
        recent == {i \in Ids : SymbolOf[Put(i)] = s /\ trades[i].state \in Closed}
    IN /\ shares[s] > 0
       /\ s \notin alerted
       /\ opened \cup recent # {}
       /\ alerted' = alerted \cup {s}
       /\ \E i \in IF opened # {} THEN opened ELSE recent :
             /\ trades' = AssignedClosed(trades, {i})
             /\ stock' = IF i \in opened THEN WithStock(stock, {i}) ELSE stock
       /\ UNCHANGED <<brokerVars, today, writeVars, report, entries, events>>

\* /api/reconcile-positions and the end of the day of `watch`: the report, then
\* the import; assignments are displayed only.
ReconcileElsewhere(sold) ==
    /\ trades' = ExpiredClosed(trades)
    /\ stock' = StockClosed(sold)
    /\ trades' # trades \/ stock' # stock
    /\ UNCHANGED <<Outside, today, writeVars, report, entries, events>>

ImportElsewhere ==
    /\ listed["other"] = NothingListed /\ sought["other"] = {}
    /\ MissingIn(trades) # {}
    /\ listed' = [listed EXCEPT !["other"] = Lacking]
    /\ UNCHANGED <<Outside, trades, today, stock, sent, sought, raced, report, entries, events>>

\* `reconcile --live` also closes what was assigned, closes what was bought back
\* while IBKR still knows the fill, and corrects the lots.
BoughtBack(is) ==
    {i \in is : term[Put(i)] = "before" /\ held[Put(i)] = 0 /\ <<Put(i), "buy">> \in orders}
WithLots(ts, is) ==
    [i \in Ids |-> IF i \in is /\ held[Put(i)] > 0 THEN [ts[i] EXCEPT !.lots = held[Put(i)]]
                   ELSE ts[i]]
FixFromCli ==
    LET ev == Assignments(trades)
        others == Open(trades) \ ev
        bought == [i \in Ids |-> IF i \in BoughtBack(others)
                                 THEN [trades[i] EXCEPT !.state = "bought"] ELSE trades[i]]
    IN /\ trades' = AssignedClosed(WithLots(bought, others), ev)
       /\ stock' = WithStock(stock, ev)
       /\ trades' # trades
       /\ UNCHANGED <<Outside, today, writeVars, report, entries, events>>

-----------------------------------------------------------------------------
(* Specification.                                                          *)

BrokerStep ==
    \/ \E c \in Puts : SellOutside(c) \/ Sell(c) \/ BuyBack(c) \/ Assign(c)
                       \/ Lapse(c) \/ Expire(c)
    \/ \E s \in Symbols : SellStock(s)
    \/ NextDay

BooksDaemonStep ==
    \/ \E sold \in BOOLEAN : Reconcile(sold)
    \/ SweepExpired \/ BeginImport \/ ImportDone \/ ProcessAssignments \/ RestartDaemon

WriterStep ==
    \/ \E c \in Puts : SaveSale(c) \/ LoseSale(c)
    \/ \E m \in Importers :
          \/ \E c \in Puts : LookUp(m, c)
          \/ \E o \in orders : SyncOrders(m, o)
          \/ Insert(m) \/ WriteFails(m)

OtherStep ==
    \/ \E s \in Symbols : Detect(s)
    \/ \E sold \in BOOLEAN : ReconcileElsewhere(sold)
    \/ ImportElsewhere \/ FixFromCli

BookNext == BrokerStep \/ BooksDaemonStep \/ WriterStep \/ OtherStep

\* The daemon goes on with its import.
ImportGoesOn ==
    \/ BeginImport \/ ImportDone \/ Insert("daemon")
    \/ \E c \in Puts : LookUp("daemon", c)

\* The daemon finishes a reconciliation it began and begins another in the end.
BookFairness ==
    /\ WF_bookVars(SweepExpired)
    /\ WF_bookVars(\E sold \in BOOLEAN : Reconcile(sold))
    /\ WF_bookVars(ImportGoesOn)
    /\ WF_bookVars(ProcessAssignments)

BookSpec == BookInit /\ [][BookNext]_bookVars /\ BookFairness

-----------------------------------------------------------------------------
(* Properties.                                                             *)

\* However the daemon, the dashboard, the command line, the detector and a sale
\* interleave, a contract has two open trades only where one was written while
\* another process was about to write its own: between the look-up and the write
\* of an import, or between a sale and its row (order_reconciliation.py:
\* import_orphan_positions, import_orphan_orders, two_tier_execution_scheduler.py:
\* _save_pending_trades_to_db).
OneOpenRow ==
    \A i, j \in Open(trades) : Put(i) = Put(j) => i = j \/ Put(i) \in raced

\* A put held at the broker comes to have an open trade, whoever sold it, and
\* even when an import fails or an assignment is laid to it by mistake.
HeldIsTracked ==
    \A c \in Puts :
        held[c] > 0 ~> (held[c] = 0 \/ \E i \in Open(trades) : Put(i) = c)

\* A put that was assigned is not booked as expired with its whole premium kept.
AssignedIsNotExpired ==
    \A i \in Ids : Put(i) \in assigned => trades[i].state # "expired"

=============================================================================
