----------------------------- MODULE TradeImport -----------------------------
(***************************************************************************)
(* Trade archaeology: executions fetched from the broker's Flex service    *)
(* are stored once each, opening sales are matched with closing purchases  *)
(* in the order of their dates, and each match is promoted to a trade      *)
(* (taad/flex_query_client.py, importer.py, trade_matcher.py,              *)
(* trade_promoter.py, cli/commands/taad_commands.py).                      *)
(*                                                                         *)
(* Every command works in one transaction that it commits at its end, so a *)
(* command that dies or fails leaves nothing; the steps inside it are one  *)
(* action here.  The executions have one account and one contract, the     *)
(* matching key; they are numbered in the order a report lists them.       *)
(***************************************************************************)
EXTENDS Sequences, FiniteSetsExt, Functions, Ordering

CONSTANTS
    Execs,        \* the broker's executions: natural numbers
    Exec,         \* execution -> its record
    MaxWait,      \* polls before the client gives up (max_wait / poll_interval)
    LastImport,   \* bound on imports
    LastDate      \* bound on dates

\* A row of the raw imports, of one account and one contract.
RawImport == [kind : {"sto", "btc", "other"}, qty : Nat \ {0},
              price : Nat, date : 0..LastDate, expiry : 0..LastDate]

ASSUME ImportFacts ==
    /\ Execs \subseteq Nat \ {0} /\ IsFiniteSet(Execs)
    /\ \A e \in Execs : Exec[e] \in RawImport
    /\ MaxWait \in Nat /\ LastImport \in Nat

VARIABLES
    client,     \* the polls the Flex client has made, Idle when it has no request
    raw,        \* executions in the table, in the order of their rows
    matched,    \* executions marked as matched
    matchLog,   \* the matching log
    tradeRows,     \* trades promoted from the log
    imports,    \* completed imports: the date range of each
    importDay

importVars == <<client, raw, matched, matchLog, tradeRows, imports, importDay>>

Idle == -1
NoClose == 0
NoRange == <<>>

ImportTypeOK ==
    /\ client \in Idle..MaxWait
    /\ raw \in Seq(Execs) /\ matched \subseteq Execs
    /\ \A m \in matchLog : /\ m.open \in Execs /\ m.close \in Execs \cup {NoClose}
                           /\ m.qty \in Nat \ {0} /\ m.batch \in 1..LastImport
                           /\ m.trade \in Execs \cup {NoClose}
    /\ \A t \in tradeRows : t.open \in Execs /\ t.contracts \in Nat
    /\ Len(imports) <= LastImport
    /\ importDay \in 0..LastDate

ImportInit ==
    /\ client = Idle
    /\ raw = <<>> /\ matched = {} /\ matchLog = {} /\ tradeRows = {} /\ imports = <<>>
    /\ importDay = 0

Reported == {e \in Execs : Exec[e].date <= importDay}
Stored == Range(raw)

-----------------------------------------------------------------------------
(* The Flex client: one request, then polls until the report is ready.     *)

SendRequest ==
    /\ client = Idle /\ Len(imports) < LastImport
    /\ client' = 0
    /\ UNCHANGED <<raw, matched, matchLog, tradeRows, imports, importDay>>

\* Error code 1019: the report is not ready.
PollAgain ==
    /\ client # Idle /\ client < MaxWait
    /\ client' = client + 1
    /\ UNCHANGED <<raw, matched, matchLog, tradeRows, imports, importDay>>

\* Any other error, an unreadable answer, the deadline, a row that cannot be
\* written or the death of the command: the transaction is not committed.
RequestFails ==
    /\ client # Idle
    /\ client' = Idle
    /\ UNCHANGED <<raw, matched, matchLog, tradeRows, imports, importDay>>

-----------------------------------------------------------------------------
(* Matching.                                                               *)

\* Rows of one kind by trade date and row.
RowOf(rows, e) == CHOOSE n \in DOMAIN rows : rows[n] = e
ByDate(rows, S) ==
    Sorted(S, {p \in S \X S : \/ Exec[p[1]].date < Exec[p[2]].date
                              \/ /\ Exec[p[1]].date = Exec[p[2]].date
                                 /\ RowOf(rows, p[1]) < RowOf(rows, p[2])})

\* The walk of match_trades over sales and purchases: the place in each list, the
\* contracts left of each execution, and the matches so far, each
\* <<sale, purchase, contracts>>.
WalkStart == [i |-> 1, j |-> 1, left |-> [e \in Execs |-> Exec[e].qty], pairs |-> {}]

MatchPair(sale, purchase, w) ==
    LET n == IF w.left[sale] < w.left[purchase] THEN w.left[sale] ELSE w.left[purchase]
    IN [i |-> IF w.left[sale] = n THEN w.i + 1 ELSE w.i,
        j |-> IF w.left[purchase] = n THEN w.j + 1 ELSE w.j,
        left |-> [w.left EXCEPT ![sale] = @ - n, ![purchase] = @ - n],
        pairs |-> w.pairs \cup {<<sale, purchase, n>>}]

\* One turn of its loop; it has stopped at the end of either list.
WalkTurn(opens, closes, w) ==
    IF w.i > Len(opens) \/ w.j > Len(closes) THEN w
    ELSE IF Exec[closes[w.j]].date < Exec[opens[w.i]].date THEN [w EXCEPT !.j = @ + 1]
    ELSE MatchPair(opens[w.i], closes[w.j], w)

Walk(opens, closes) ==
    LET turns == Len(opens) + Len(closes)
        walk[n \in 0..turns] == IF n = 0 THEN WalkStart ELSE WalkTurn(opens, closes, walk[n - 1])
    IN walk[turns]

\* What is left of a sale whose option has expired ends as an expiration.
Matches(rows) ==
    LET free(kind) == {e \in Range(rows) \ matched : Exec[e].kind = kind}
        end == Walk(ByDate(rows, free("sto")), ByDate(rows, free("btc")))
        lapsed == {e \in free("sto") : end.left[e] > 0 /\ Exec[e].expiry < importDay}
    IN end.pairs \cup {<<e, NoClose, end.left[e]>> : e \in lapsed}

\* Bug: only the sales are marked.
UsedOpens(matches) == {m[1] : m \in matches}

\* persist_matches: both executions of a match are marked, however much of them it used.
Used(matches) == {m[1] : m \in matches} \cup ({m[2] : m \in matches} \ {NoClose})

\* run_import: executions already in the table are skipped; the range is that of the
\* report.  --no-match leaves the matching to a later import.
StoreNew(file) ==
    LET new == file \ Stored IN raw \o Sorted(new, {p \in new \X new : p[1] < p[2]})

RangeOf(file) ==
    IF file = {} THEN NoRange
    ELSE <<Min({Exec[e].date : e \in file}), Max({Exec[e].date : e \in file})>>

FinishImport(file, matching) ==
    LET rows == StoreNew(file)
        found == IF matching THEN Matches(rows) ELSE {}
    IN /\ raw' = rows
       /\ matched' = matched \cup Used(found)
       /\ matchLog' = matchLog \cup
             {[open |-> m[1], close |-> m[2], qty |-> m[3], batch |-> Len(imports) + 1,
               trade |-> NoClose] : m \in found}
       /\ imports' = Append(imports, RangeOf(file))

ImportReport(file, matching) ==
    /\ client # Idle
    /\ client' = Idle
    /\ FinishImport(file, matching)
    /\ UNCHANGED <<tradeRows, importDay>>

\* --file: the report is read from a file.
ImportFile(file, matching) ==
    /\ client = Idle /\ Len(imports) < LastImport
    /\ FinishImport(file, matching)
    /\ UNCHANGED <<client, tradeRows, importDay>>

-----------------------------------------------------------------------------
(* Promotion.                                                              *)

\* _build_trade_from_match: all contracts of the sale, at the price of this close.
TradeFrom(m) ==
    [open |-> m.open, contracts |-> Exec[m.open].qty,
     exit |-> IF m.close = NoClose THEN 0 ELSE Exec[m.close].price,
     from |-> m]

Unpromoted == {m \in matchLog : m.trade = NoClose}
Promotable(m) == \A t \in tradeRows : t.open # m.open

\* promote_matches_to_trades: of the matches of one sale, in an order the query leaves
\* open, the first becomes the trade and the others are linked to it.
PromotedFrom(first) == {first[o] : o \in DOMAIN first}

Promote ==
    /\ Unpromoted # {}
    /\ LET opens == {m.open : m \in {n \in Unpromoted : Promotable(n)}}
       IN \E first \in [opens -> Unpromoted] :
            /\ \A o \in opens : first[o].open = o
            /\ tradeRows' = tradeRows \cup {TradeFrom(m) : m \in PromotedFrom(first)}
    /\ matchLog' = {[m EXCEPT !.trade = m.open] : m \in matchLog}
    /\ UNCHANGED <<client, raw, matched, imports, importDay>>

NewDate ==
    /\ importDay < LastDate
    /\ importDay' = importDay + 1
    /\ UNCHANGED <<client, raw, matched, matchLog, tradeRows, imports>>

ImportNext ==
    \/ SendRequest \/ PollAgain \/ RequestFails
    \/ \E file \in SUBSET Reported, matching \in BOOLEAN :
          ImportReport(file, matching) \/ ImportFile(file, matching)
    \/ Promote
    \/ NewDate

ImportSpec == ImportInit /\ [][ImportNext]_importVars

-----------------------------------------------------------------------------
(* The gaps command.                                                       *)

\* Completed imports with a range, by the start of the range.
Ranges == {imports[n] : n \in DOMAIN imports} \ {NoRange}
ByStart ==
    LET ranged == {n \in DOMAIN imports : imports[n] # NoRange}
        order == Sorted(ranged, {p \in ranged \X ranged :
                    \/ imports[p[1]][1] < imports[p[2]][1]
                    \/ imports[p[1]][1] = imports[p[2]][1] /\ p[1] < p[2]})
    IN [n \in DOMAIN order |-> imports[order[n]]]
Gaps == {<<ByStart[n][2], ByStart[n + 1][1]>> : n \in 1..Len(ByStart) - 1}

Reportable(gap) == gap[2] - gap[1] > 1

GapDays == UNION {(g[1] + 1)..(g[2] - 1) : g \in {h \in Gaps : Reportable(h)}}
-----------------------------------------------------------------------------
(* Properties.                                                             *)

MatchesOf(e) == {m \in matchLog : e \in {m.open, m.close}}
Contracts(log) == SumFunctionOnSet([m \in log |-> m.qty], log)

\* However reports overlap, repeat or arrive out of order, the matches of an execution
\* never use more contracts than it had, on either side
\* (importer.py:run_import, trade_matcher.py:match_trades).
EachContractMatchedOnce ==
    /\ \A n, k \in DOMAIN raw : raw[n] = raw[k] => n = k
    /\ \A e \in Execs : Contracts(MatchesOf(e)) <= Exec[e].qty

\* Each opening sale has at most one trade, and every promoted match is linked to the
\* trade of its own sale, whatever the order of imports and promotions
\* (trade_promoter.py:promote_matches_to_trades).
OneTradePerSale ==
    /\ \A t, u \in tradeRows : t.open = u.open => t = u
    /\ \A m \in matchLog : m.trade # NoClose => \E t \in tradeRows : t.open = m.open

\* No day between two imported ranges that neither covers goes unreported
\* (taad_commands.py:run_taad_gaps).
NoSilentGap ==
    \A d \in 0..LastDate :
       (\E r, s \in Ranges : r[2] < d /\ d < s[1]) /\ (\A r \in Ranges : d \notin r[1]..r[2])
          => d \in GapDays

=============================================================================
