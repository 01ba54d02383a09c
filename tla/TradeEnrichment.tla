--------------------------- MODULE TradeEnrichment ---------------------------
(***************************************************************************)
(* Reconstruction of the market context of past trades: snapshots built    *)
(* from the first data provider that answers, merged into the ones that    *)
(* exist (taad/enrichment/engine.py, providers.py, bs_iv_solver.py).       *)
(*                                                                         *)
(* A snapshot is abstracted to groups of columns that are written          *)
(* together; the value of a group is its source, since the past a source   *)
(* reports does not change.  The command commits once, at its end.         *)
(***************************************************************************)
EXTENDS Integers, Sequences

CONSTANTS
    Recorded,       \* trades in the database
    Captured,     \* sets of groups a live entry snapshot may have, {} for no snapshot
    Solvable,     \* trades whose premium and term (over 5 days) Black-Scholes can use
    Chains        \* provider chains of the command: sequences of providers

Facets == {"bar", "bars", "context"}     \* get_stock_bar, get_historical_bars, the indices
Groups == {"bar", "otm", "trend", "context", "option", "ratio", "margin"}
ExitGroups == {"stock", "change"}
Missing == <<>>                          \* a NULL column
Zero == <<"zero">>                       \* the price 0.0 of a snapshot without a bar

ProviderNames == UNION {{c[n] : n \in DOMAIN c} : c \in Chains}

ASSUME EnrichmentFacts ==
    /\ Captured \subseteq SUBSET Groups
    /\ Solvable \subseteq Recorded
    /\ \A c \in Chains : c \in Seq(STRING)

VARIABLES
    entry,      \* trade -> its entry snapshot: {} before, else one function of Groups and the price
    exit,       \* trade -> its exit snapshot
    ended,     \* trades that have ended
    enriched    \* trade -> context copied into the trade's own columns

enrichmentVars == <<entry, exit, ended, enriched>>

TradeEntrySnapshot == [Groups \cup {"price"} -> Seq(STRING)]
TradeExitSnapshot == [ExitGroups -> Seq(STRING)]
NoEntry == [g \in {} |-> Missing]
Live(captured) ==
    IF captured = {} THEN NoEntry
    ELSE [g \in Groups \cup {"price"} |->
            IF g = "price" \/ g \in captured THEN <<"live">> ELSE Missing]

EnrichmentTypeOK ==
    /\ DOMAIN entry = Recorded /\ DOMAIN exit = Recorded /\ ended \subseteq Recorded
    /\ \A t \in Recorded : /\ entry[t] \in TradeEntrySnapshot \cup {NoEntry}
                         /\ exit[t] \in TradeExitSnapshot \cup {NoEntry}
                         /\ enriched[t] \in Seq(STRING)

EnrichmentInit ==
    /\ entry \in [Recorded -> {Live(captured) : captured \in Captured}]
    /\ exit = [t \in Recorded |-> NoEntry]
    /\ ended = {}
    /\ enriched = [t \in Recorded |-> <<"pending">>]

-----------------------------------------------------------------------------
(* Fresh snapshots.                                                        *)

\* FallbackChainProvider: the first provider of the chain that answers; one that
\* raises is passed over.
Source(chain, up, facet) ==
    LET answering == {n \in DOMAIN chain : <<chain[n], facet>> \in up}
    IN IF answering = {} THEN Missing
       ELSE <<chain[CHOOSE n \in answering : \A m \in answering : n <= m]>>

\* _build_entry_snapshot.  No provider has option quotes, so volatility and greeks are
\* solved from the price of the stock.
FreshEntry(t, chain, up) ==
    LET bar == Source(chain, up, "bar")
        trend == Source(chain, up, "bars")
        option == IF bar # Missing /\ t \in Solvable THEN bar ELSE Missing
    IN [g \in Groups \cup {"price"} |->
          CASE g = "price" -> IF bar = Missing THEN Zero ELSE bar
            [] g \in {"bar", "otm"} -> bar
            [] g = "trend" -> trend
            [] g = "context" -> Source(chain, up, "context")
            [] g = "option" -> option
            [] g = "ratio" -> IF option = Missing \/ trend = Missing THEN Missing
                              ELSE option \o trend
            [] g = "margin" -> Missing]

\* _build_exit_snapshot.
FreshExit(start, chain, up) ==
    LET bar == Source(chain, up, "bar")
    IN [g \in ExitGroups |->
          IF g = "stock" \/ (start # NoEntry /\ start["price"] # Zero) THEN bar ELSE Missing]

-----------------------------------------------------------------------------
(* Merging.                                                                *)

\* Bug: the fresh values replace the old ones, the ones it lacks included.
Replaced(old, fresh, force) == fresh

\* _merge_snapshot_fields and its three variants: the price identifies an entry and is
\* never touched.
Merged(old, fresh, force) ==
    [g \in DOMAIN old |->
       CASE g = "price" -> old[g]
         [] g # "price" /\ force -> IF fresh[g] # Missing THEN fresh[g] ELSE old[g]
         [] g # "price" /\ ~force -> IF old[g] = Missing THEN fresh[g] ELSE old[g]]

NewEntry(t, chain, up, force) ==
    LET fresh == FreshEntry(t, chain, up)
    IN IF entry[t] = NoEntry THEN fresh ELSE Merged(entry[t], fresh, force)

\* A merge takes the entry just built for its comparison, a first exit the stored one.
NewExit(t, chain, up, force) ==
    CASE t \notin ended -> exit[t]
      [] t \in ended /\ exit[t] = NoEntry -> FreshExit(NewEntry(t, chain, up, force), chain, up)
      [] OTHER -> Merged(exit[t], FreshExit(FreshEntry(t, chain, up), chain, up), force)

\* enrich_batch over the trades the command selects; one that fails is left as it was.
Enrich(selected, chain, up, force) ==
    /\ entry' = [t \in Recorded |->
                   IF t \in selected THEN NewEntry(t, chain, up, force) ELSE entry[t]]
    /\ exit' = [t \in Recorded |->
                   IF t \in selected THEN NewExit(t, chain, up, force) ELSE exit[t]]
    /\ enriched' = [t \in Recorded |-> IF t \in selected THEN entry'[t]["context"] ELSE enriched[t]]
    /\ UNCHANGED ended

TradeEnds(t) ==
    /\ t \notin ended
    /\ ended' = ended \cup {t}
    /\ UNCHANGED <<entry, exit, enriched>>

EnrichmentNext ==
    \/ \E selected \in SUBSET Recorded, chain \in Chains, force \in BOOLEAN,
          up \in SUBSET (ProviderNames \X Facets) : Enrich(selected, chain, up, force)
    \/ \E t \in Recorded : TradeEnds(t)

EnrichmentSpec == EnrichmentInit /\ [][EnrichmentNext]_enrichmentVars

-----------------------------------------------------------------------------
(* Properties.                                                             *)

\* However often the command runs, with whatever providers answering, a group of
\* columns a snapshot has is never lost, what was captured live and no provider can
\* report stays as it was, and only a source can take the place of another
\* (engine.py:_merge_snapshot_fields and the variants).
NothingKnownIsLost ==
    [][\A t \in Recorded :
         /\ \A g \in DOMAIN entry[t] : entry[t][g] # Missing => entry'[t][g] # Missing
         /\ \A g \in DOMAIN exit[t] : exit[t][g] # Missing => exit'[t][g] # Missing
         /\ entry[t] # NoEntry => /\ entry'[t]["price"] = entry[t]["price"]
                                  /\ entry'[t]["margin"] = entry[t]["margin"]]_enrichmentVars

=============================================================================
