--------------------------- MODULE MCHumanApproval ---------------------------
(***************************************************************************)
(* Instances of HumanApproval for TLC.                                     *)
(***************************************************************************)
EXTENDS HumanApproval

CONSTANTS c1, g1          \* decisions
CONSTANTS t1, t2          \* trades
CONSTANTS aaa, bbb        \* tickers

AllSorts == [d \in Decisions |->
               IF d = g1 THEN {"context"} ELSE {"close", "trade", "review"}]
FirstTrade == [d \in Decisions |-> t1]
OneTickerEach == [t \in Trades |-> IF t = t1 THEN aaa ELSE bbb]
=============================================================================
