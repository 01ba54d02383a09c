----------------------------- MODULE NakedTrader -----------------------------
(***************************************************************************)
(* The daily seller of index puts: the choice of a strike by its delta,    *)
(* the bracket of a sale and two purchases, the record of the trade and    *)
(* the watcher that books its end (nakedtrader/workflow.py,                *)
(* strike_selector.py, order_manager.py, trade_recorder.py, watcher.py).   *)
(*                                                                         *)
(* `sell` and `watch` are separate commands with separate connections: the *)
(* watcher sees a fill only if its own connection was there when the order *)
(* filled, and it reads the date of its host, which passes hours before    *)
(* the broker's where the host is in Australia (utils/timezone.py).  The   *)
(* stop-loss is a limit order to buy above the market, so it may fill as   *)
(* soon as the sale has.  Prices are cents.                                *)
(***************************************************************************)
EXTENDS Integers, FiniteSets

CONSTANTS
    Sales,       \* runs of `sell`
    ChainOf,     \* sale -> chains of its expirations, shortest term first
    StopLoss,    \* stop_loss_enabled
    LastDay      \* bound on days

\* daily_spx_options.yaml: thousandths of delta, cents.
SaleDeltaMin == 50
SaleDeltaMax == 120
SaleDeltaTarget == 65
SaleWidening == 20
SaleMinPremium == 30
ProfitFloor == 10
ProfitLeft == 30
StopMultiplier == 3

SaleQuote == [delta : Nat, bid : Nat, term : Nat]
NoQuoteYet == [delta |-> 0, bid |-> 0, term |-> 0]

ASSUME SaleFacts ==
    /\ \A s \in Sales : \A n \in DOMAIN ChainOf[s] : ChainOf[s][n] \subseteq SaleQuote
    /\ StopLoss \in BOOLEAN /\ LastDay \in Nat

VARIABLES
    sale,      \* sale -> where its command is, the quote it chose, the day it sold
    bracket,   \* sale -> its orders at the broker
    book,      \* sale -> its row in the trades
    watching,  \* a watch session is connected
    pending,   \* fills of the session that its loop has not processed yet
    known,     \* fills the session's list of trades shows
    date,      \* the day at the exchange
    hostDate   \* the day on the watcher's host

saleVars == <<sale, bracket, book, watching, pending, known, date, hostDate>>

Unsold == [phase |-> "idle", quote |-> NoQuoteYet, day |-> 0]
NoBracket == [parent |-> "none", profit |-> "none", stop |-> "none"]
NoBook == [state |-> "none", reason |-> "none", entry |-> 0, exit |-> 0]

SaleTypeOK ==
    /\ sale \in [Sales -> [phase : {"idle", "chosen", "waiting", "filled", "unfilled", "ended"},
                           quote : SaleQuote, day : Nat]]
    /\ bracket \in [Sales -> [parent : {"none", "working", "filled", "dead"},
                              profit : {"none", "held", "working", "filled", "dead"},
                              stop : {"none", "held", "working", "filled", "dead"}]]
    /\ book \in [Sales -> [state : {"none", "active", "closed"},
                           reason : {"none", "profit_take", "stop_loss", "expired"},
                           entry : Nat, exit : Nat]]
    /\ watching \in BOOLEAN
    /\ pending \subseteq Sales \X {"profit", "stop"} /\ known \subseteq Sales \X {"profit", "stop"}
    /\ date \in 0..LastDay /\ hostDate \in date..(date + 1)

SaleInit ==
    /\ sale = [s \in Sales |-> Unsold]
    /\ bracket = [s \in Sales |-> NoBracket]
    /\ book = [s \in Sales |-> NoBook]
    /\ watching = FALSE /\ pending = {} /\ known = {}
    /\ date = 0 /\ hostDate = 0

-----------------------------------------------------------------------------
(* The command `sell`.                                                     *)

\* _filter_candidates, and the second try with a wider range.
Within(quotes, low, high) ==
    {q \in quotes : low <= q.delta /\ q.delta <= high /\ q.bid >= SaleMinPremium}
Eligible(quotes) ==
    LET strict == Within(quotes, SaleDeltaMin, SaleDeltaMax)
    IN IF strict # {} THEN strict
       ELSE Within(quotes, SaleDeltaMin - SaleWidening, SaleDeltaMax + SaleWidening)

OffTarget(q) ==
    IF q.delta > SaleDeltaTarget THEN q.delta - SaleDeltaTarget ELSE SaleDeltaTarget - q.delta
Nearest(quotes) == {q \in quotes : \A r \in quotes : OffTarget(q) <= OffTarget(r)}

\* The first expiration whose chain has an eligible strike; the user may decline.
Choose(s) ==
    /\ sale[s].phase = "idle"
    /\ \E n \in DOMAIN ChainOf[s] :
         /\ Eligible(ChainOf[s][n]) # {}
         /\ \A m \in DOMAIN ChainOf[s] : m < n => Eligible(ChainOf[s][m]) = {}
         /\ \E q \in Nearest(Eligible(ChainOf[s][n])) :
              sale' = [sale EXCEPT ![s] = [phase |-> "chosen", quote |-> q, day |-> date]]
    /\ UNCHANGED <<bracket, book, watching, pending, known, date, hostDate>>

\* place_bracket_order: the children are held until the sale fills.
PlaceBracket(s) ==
    /\ sale[s].phase = "chosen" /\ sale[s].day = date
    /\ bracket' = [bracket EXCEPT ![s] = [parent |-> "working", profit |-> "held",
                                          stop |-> IF StopLoss THEN "held" ELSE "none"]]
    /\ sale' = [sale EXCEPT ![s].phase = "waiting"]
    /\ UNCHANGED <<book, watching, pending, known, date, hostDate>>

\* wait_for_fill: the price of the fill, or nothing after a cancellation or five minutes.
EndWait(s) ==
    /\ sale[s].phase = "waiting"
    /\ \/ bracket[s].parent = "filled" /\ sale' = [sale EXCEPT ![s].phase = "filled"]
       \/ bracket[s].parent # "filled" /\ sale' = [sale EXCEPT ![s].phase = "unfilled"]
    /\ UNCHANGED <<bracket, book, watching, pending, known, date, hostDate>>

\* record_trade: whatever became of the sale, an active trade; without a fill the bid
\* is its premium.
RecordSale(s) ==
    /\ sale[s].phase \in {"filled", "unfilled"}
    /\ \E better \in IF sale[s].phase = "filled" THEN 0..1 ELSE {0} :
          book' = [book EXCEPT ![s] = [state |-> "active", reason |-> "none",
                                       entry |-> sale[s].quote.bid + better, exit |-> 0]]
    /\ sale' = [sale EXCEPT ![s].phase = "ended"]
    /\ UNCHANGED <<bracket, watching, pending, known, date, hostDate>>

\* The user declines, or the command dies before it records.
GiveUp(s) ==
    /\ sale[s].phase \in {"chosen", "waiting", "filled", "unfilled"}
    /\ sale' = [sale EXCEPT ![s].phase = "ended"]
    /\ UNCHANGED <<bracket, book, watching, pending, known, date, hostDate>>

-----------------------------------------------------------------------------
(* The broker.                                                             *)

ProfitPrice(s) ==
    LET price == (sale[s].quote.bid * ProfitLeft + 50) \div 100
    IN IF price > ProfitFloor THEN price ELSE ProfitFloor
StopPrice(s) == StopMultiplier * sale[s].quote.bid

FillParent(s) ==
    /\ bracket[s].parent = "working"
    /\ bracket' = [bracket EXCEPT ![s].parent = "filled", ![s].profit = "working",
                                  ![s].stop = IF @ = "held" THEN "working" ELSE @]
    /\ UNCHANGED <<sale, book, watching, pending, known, date, hostDate>>

\* One child fills and the broker cancels the other.
FillChild(s, c) ==
    /\ bracket[s][c] = "working"
    /\ bracket' = [bracket EXCEPT ![s] = [d \in DOMAIN @ |->
                      IF d = c THEN "filled" ELSE IF @[d] = "working" THEN "dead" ELSE @[d]]]
    /\ pending' = IF watching THEN pending \cup {<<s, c>>} ELSE pending
    /\ UNCHANGED <<sale, book, watching, known, date, hostDate>>

Cancel(s) ==
    /\ bracket[s].parent = "working"
    /\ bracket' = [bracket EXCEPT ![s] = [parent |-> "dead", profit |-> "dead",
                                          stop |-> IF @.stop = "none" THEN "none" ELSE "dead"]]
    /\ UNCHANGED <<sale, book, watching, pending, known, date, hostDate>>

\* The day ends: a sale that did not fill dies, and so do the orders of a put that expires.
Expiration(s) == sale[s].day + sale[s].quote.term
Expires(s) == sale[s].phase # "idle" /\ date >= Expiration(s)
EndDay ==
    /\ date < LastDay
    /\ date' = date + 1 /\ hostDate' = date + 1
    /\ bracket' = [s \in Sales |-> [d \in DOMAIN bracket[s] |->
          IF bracket[s][d] \in {"held", "working"} /\ (bracket[s].parent = "working" \/ Expires(s))
          THEN "dead" ELSE bracket[s][d]]]
    /\ UNCHANGED <<sale, book, watching, pending, known>>

\* On a host ahead of the exchange the day passes first.
HostMidnight ==
    /\ hostDate = date
    /\ hostDate' = date + 1
    /\ UNCHANGED <<sale, bracket, book, watching, pending, known, date>>

-----------------------------------------------------------------------------
(* The command `watch`.                                                    *)

StartWatch ==
    /\ ~watching
    /\ watching' = TRUE
    /\ UNCHANGED <<sale, bracket, book, pending, known, date, hostDate>>
StopWatch ==
    /\ watching
    /\ watching' = FALSE /\ pending' = {} /\ known' = {}
    /\ UNCHANGED <<sale, bracket, book, date, hostDate>>

\* The event loop runs only while quotes are fetched, after the check of the cycle.
Pump ==
    /\ watching /\ pending # {}
    /\ known' = known \cup pending /\ pending' = {}
    /\ UNCHANGED <<sale, bracket, book, watching, date, hostDate>>

Overdue(s) == hostDate > Expiration(s)
ClosedAs(s, reason, price) ==
    [book[s] EXCEPT !.state = "closed", !.reason = reason, !.exit = price]

\* Bug: the expiration is looked at before the fills.
CheckedExpiryFirst(s) ==
    CASE Overdue(s) -> ClosedAs(s, "expired", 0)
      [] ~Overdue(s) /\ <<s, "profit">> \in known -> ClosedAs(s, "profit_take", ProfitPrice(s))
      [] ~Overdue(s) /\ <<s, "profit">> \notin known /\ <<s, "stop">> \in known ->
            ClosedAs(s, "stop_loss", StopPrice(s))
      [] OTHER -> book[s]

\* check_bracket_status.
Checked(s) ==
    IF <<s, "profit">> \in known THEN ClosedAs(s, "profit_take", ProfitPrice(s))
    ELSE IF <<s, "stop">> \in known THEN ClosedAs(s, "stop_loss", StopPrice(s))
    ELSE IF Overdue(s) THEN ClosedAs(s, "expired", 0)
    ELSE book[s]

\* run_watch_cycle.
WatchCycle ==
    /\ watching
    /\ book' = [s \in Sales |-> IF book[s].state = "active" THEN Checked(s) ELSE book[s]]
    /\ book' # book
    /\ UNCHANGED <<sale, bracket, watching, pending, known, date, hostDate>>

SaleNext ==
    \/ \E s \in Sales :
          Choose(s) \/ PlaceBracket(s) \/ EndWait(s) \/ RecordSale(s) \/ GiveUp(s)
    \/ \E s \in Sales : FillParent(s) \/ Cancel(s) \/ FillChild(s, "profit") \/ FillChild(s, "stop")
    \/ EndDay \/ HostMidnight \/ StartWatch \/ StopWatch \/ Pump \/ WatchCycle

SaleSpec == SaleInit /\ [][SaleNext]_saleVars

-----------------------------------------------------------------------------
(* Properties.                                                             *)

\* A trade the watcher closes has ended, and the way it is booked: with the price of an
\* order that filled, or as expired when no purchase of it is known to have filled and
\* none can fill any more - save in the hours of its last day that are the next day on
\* the host, when the purchases still work (watcher.py:check_bracket_status).
BookedAsItEnded ==
    [][\A s \in Sales : book[s].state = "active" /\ book'[s].state = "closed" =>
          /\ book'[s].reason = "profit_take" => bracket[s].profit = "filled"
          /\ book'[s].reason = "stop_loss" => bracket[s].stop = "filled"
          /\ book'[s].reason = "expired" =>
                 /\ \A c \in {"profit", "stop"} :
                       /\ <<s, c>> \notin known
                       /\ bracket[s][c] \in {"held", "working"} =>
                              date = Expiration(s) /\ hostDate > date
                 /\ book'[s].exit = 0]_saleVars

=============================================================================
