----------------------------- MODULE TradeReview -----------------------------
(***************************************************************************)
(* From a staged trade to an order: the pre-market check of the share      *)
(* price, then either the check of the premium at the open or the live     *)
(* choice of a strike, and the limit price                                 *)
(* (services/premarket_validator.py, services/live_strike_selector.py,     *)
(* services/limit_price_calculator.py, the first half of                   *)
(* run_monday_morning in services/two_tier_execution_scheduler.py).        *)
(*                                                                         *)
(* The daemon's scheduler has no strike selector and takes the second      *)
(* check, the command `execute` has one and skips it.  Share prices and    *)
(* strikes are whole dollars, option prices are cents.                     *)
(***************************************************************************)
EXTENDS Integers, FiniteSets

CONSTANTS
    Reviewed,        \* staged trades of one run
    StagedPrice,   \* share price when the trades were staged
    StagedStrike,  \* trade -> strike
    StagedLimit,   \* trade -> limit price
    Prices,        \* share prices the broker may report
    OpenQuotes,        \* quotes of the option: bid and ask, ask 0 when absent
    MaxRetries     \* attempts of the check at the open

ASSUME ReviewBounds ==
    /\ StagedPrice \in Nat \ {0} /\ Prices \subseteq Nat \ {0}
    /\ StagedStrike \in [Reviewed -> Nat \ {0}] /\ StagedLimit \in [Reviewed -> Nat \ {0}]
    /\ OpenQuotes \subseteq [bid : Int, ask : Nat]
    /\ MaxRetries \in Nat \ {0}

\* ValidationConfig, in percent and cents.
MaxDeviationReady == 3
MaxDeviationAdjust == 5
MaxDeviationStale == 10
MaxPremiumConfirmed == 15
MaxPremiumAdjust == 50
MinOtm == 10
MinOtmAggressive == 12
MinPremium == 20

NoAnswer == 0

VARIABLES
    selector,  \* the run has a strike selector
    reviewStage,     \* where the run is
    trade,     \* trade -> what the run knows of it
    attempt    \* attempts of the check at the open

reviewVars == <<selector, reviewStage, trade, attempt>>

Staged(t) == [status |-> "staged", adjusted |-> NoAnswer, limit |-> StagedLimit[t], price |-> NoAnswer]

ReviewTypeOK ==
    /\ selector \in BOOLEAN
    /\ reviewStage \in {"premarket", "open", "select", "done", "failed"}
    /\ trade \in [Reviewed -> [status : {"staged", "ready", "pending", "confirmed", "stale"},
                             adjusted : Nat, limit : Nat, price : Nat]]
    /\ attempt \in 0..MaxRetries

ReviewInit ==
    /\ selector \in BOOLEAN
    /\ reviewStage = "premarket"
    /\ trade = [t \in Reviewed |-> Staged(t)]
    /\ attempt = 0

-----------------------------------------------------------------------------
Distance(a, b) == IF a > b THEN a - b ELSE b - a

\* A put at strike k is at least p percent out of the money at share price s.
OutOfTheMoney(s, k, p) == 100 * (s - k) >= p * s

EffectiveStrike(t) == IF trade[t].adjusted # NoAnswer THEN trade[t].adjusted ELSE StagedStrike[t]

\* Python's round(a / b): halves go to the even neighbour.
RoundHalfEven(a, b) ==
    LET q == a \div b
        r == 2 * (a % b)
    IN IF r > b \/ (r = b /\ q % 2 = 1) THEN q + 1 ELSE q

\* Fallback intervals for whole dollars: half dollars below 25, one dollar below 500.
StrikeInterval(s) == IF s < 500 THEN 1 ELSE 5

\* _try_adjust_strike: the strike nearest to the least distance, if it is far
\* enough; rounding up may end it.
AdjustedStrike(s, p) ==
    LET i == StrikeInterval(s)
        k == i * RoundHalfEven(s * (100 - p), 100 * i)
    IN IF OutOfTheMoney(s, k, p) THEN k ELSE NoAnswer

\* calculate_sell_limit, which raises when the ask is missing or below the bid:
\* thirty percent of the way from the bid to the middle.
Crossed(q) == q.bid > q.ask
SellLimit(q) ==
    LET limit == RoundHalfEven(200 * q.bid + 30 * (q.ask - q.bid), 200)
    IN IF limit > q.bid THEN limit ELSE q.bid

-----------------------------------------------------------------------------
(* Stage 1: the share price before the open.                               *)

PremarketStatus(t, s) ==
    LET moved == 100 * Distance(s, StagedPrice)
        After(k) == [trade[t] EXCEPT !.price = s, !.adjusted = k,
                                     !.status = IF k = NoAnswer THEN "stale" ELSE "ready"]
    IN CASE moved < MaxDeviationReady * StagedPrice ->
              [trade[t] EXCEPT !.price = s, !.status = "ready"]
         [] moved >= MaxDeviationReady * StagedPrice
            /\ moved < MaxDeviationAdjust * StagedPrice -> After(AdjustedStrike(s, MinOtm))
         [] moved >= MaxDeviationAdjust * StagedPrice
            /\ moved < MaxDeviationStale * StagedPrice ->
              After(AdjustedStrike(s, MinOtmAggressive))
         [] OTHER -> [trade[t] EXCEPT !.price = s, !.status = "stale"]

\* Without a price the trade is measured against the price it was staged at.
ValidatePremarket ==
    /\ reviewStage = "premarket"
    /\ \E s \in [Reviewed -> Prices \cup {StagedPrice}] :
          trade' = [t \in Reviewed |-> PremarketStatus(t, s[t])]
    /\ reviewStage' = IF \A t \in Reviewed : trade'[t].status = "stale" THEN "done"
                ELSE IF selector THEN "select" ELSE "open"
    /\ UNCHANGED <<selector, attempt>>

-----------------------------------------------------------------------------
(* Stage 2: the premium at the open.                                       *)

Remaining == {t \in Reviewed : trade[t].status \in IF attempt = 0 THEN {"ready"} ELSE {"pending"}}

\* Without a quote the staged limit stands in for the bid; without a share price
\* an earlier one is used.
NoQuote == [bid |-> NoAnswer, ask |-> NoAnswer]
StagedQuote(t) == [bid |-> StagedLimit[t], ask |-> (11 * StagedLimit[t]) \div 10]

Confirmed(t, s, limit) ==
    [trade[t] EXCEPT !.status = "confirmed", !.limit = limit, !.price = s]
GoneStale(t, s) == [trade[t] EXCEPT !.status = "stale", !.price = s]

\* Bug: the distance to the money is not looked at again.
OpenStatusUnchecked(t, s, q) ==
    IF q.bid <= 0 THEN [trade[t] EXCEPT !.status = "pending"] ELSE Confirmed(t, s, SellLimit(q))

\* A premium that rises is taken; one that falls is taken below fifteen percent,
\* below fifty if the new limit is worth the trade, and else gives the trade up.
OpenStatus(t, s, q) ==
    LET was == trade[t].limit
        fall == 100 * (was - q.bid)
    IN CASE q.bid <= 0 -> [trade[t] EXCEPT !.status = "pending"]
         [] q.bid > 0 /\ ~OutOfTheMoney(s, EffectiveStrike(t), MinOtm) -> GoneStale(t, s)
         [] OTHER ->
              IF \/ fall < MaxPremiumConfirmed * was
                 \/ fall < MaxPremiumAdjust * was /\ SellLimit(q) >= MinPremium
              THEN Confirmed(t, s, SellLimit(q))
              ELSE GoneStale(t, s)

\* One pass over the trades that remain.  A quote without a sound ask raises for a
\* trade that is far enough from the money, and the whole run ends with it.
ValidateAtOpen ==
    /\ reviewStage = "open" /\ attempt < MaxRetries
    /\ \E s \in [Remaining -> Prices \cup {StagedPrice}], q \in [Remaining -> OpenQuotes \cup {NoQuote}] :
         LET Quote(t) == IF q[t] = NoQuote THEN StagedQuote(t) ELSE q[t]
             Raises(t) == /\ Quote(t).bid > 0 /\ Crossed(Quote(t))
                          /\ OutOfTheMoney(s[t], EffectiveStrike(t), MinOtm)
         IN IF \E t \in Remaining : Raises(t)
            THEN reviewStage' = "failed" /\ UNCHANGED <<trade, attempt>>
            ELSE /\ trade' = [t \in Reviewed |-> IF t \in Remaining
                                               THEN OpenStatus(t, s[t], Quote(t)) ELSE trade[t]]
                 /\ attempt' = attempt + 1
                 /\ UNCHANGED reviewStage
    /\ UNCHANGED selector

\* No trade waits for a bid, or it has waited for three attempts.
EndOpen ==
    /\ reviewStage = "open"
    /\ attempt = MaxRetries \/ (attempt > 0 /\ Remaining = {})
    /\ trade' = [t \in Reviewed |-> IF trade[t].status = "pending"
                                  THEN [trade[t] EXCEPT !.status = "stale"] ELSE trade[t]]
    /\ reviewStage' = "done"
    /\ UNCHANGED <<selector, attempt>>

-----------------------------------------------------------------------------
(* The live strike selector.                                               *)

\* _select_for_symbol reads option_type of a staged trade, which has no such
\* field, as soon as the chain has strikes: whatever the chain and the Greeks
\* are, the result is UNCHANGED and the trade goes on as it is.
SelectStrikes ==
    /\ reviewStage = "select"
    /\ trade' = [t \in Reviewed |-> IF trade[t].status = "ready"
                                  THEN [trade[t] EXCEPT !.status = "confirmed"] ELSE trade[t]]
    /\ reviewStage' = "done"
    /\ UNCHANGED <<selector, attempt>>

ReviewNext == ValidatePremarket \/ ValidateAtOpen \/ EndOpen \/ SelectStrikes

ReviewSpec == ReviewInit /\ [][ReviewNext]_reviewVars

-----------------------------------------------------------------------------
(* Properties.                                                             *)

\* A trade the second check confirms is ten percent out of the money for the
\* strike that will be ordered, at the last price the run has seen, however the
\* first check moved the strike, and is offered at more than half of the limit it
\* was staged with (premarket_validator.py:_validate_at_open_single).
ConfirmedIsSound ==
    \A t \in Reviewed :
        ~selector /\ trade[t].status = "confirmed" =>
            /\ OutOfTheMoney(trade[t].price, EffectiveStrike(t), MinOtm)
            /\ 2 * trade[t].limit > StagedLimit[t]

\* The same of every trade that goes to an order, as the comment on the selector
\* has it: "The strike selector validates delta, premium, OTM%, spread, and
\* liquidity" (two_tier_execution_scheduler.py:231).
OrderedIsFarOut ==
    \A t \in Reviewed :
        reviewStage = "done" /\ trade[t].status = "confirmed" =>
            OutOfTheMoney(trade[t].price, EffectiveStrike(t), MinOtm)

=============================================================================
