---------------------------- MODULE PositionWatch ----------------------------
(***************************************************************************)
(* How the daemon watches its positions between entry and exit.  Every     *)
(* scheduled check dismisses what has become stale, closes the positions   *)
(* past a hard threshold, lets the reasoning engine plan, and then asks it *)
(* about each position in the grey zone with an event of its own           *)
(* (_emit_material_position_checks).  A decision to close may wait for a   *)
(* human; while it does, and for the rest of the session in which it was   *)
(* not approved, the daemon leaves the position alone                      *)
(* (_get_suppressed_close_trade_ids).                                      *)
(*                                                                         *)
(* Placing and filling the exits is ExitManager's subject, the approval's  *)
(* own races are HumanApproval's.  Percentages are integers.               *)
(***************************************************************************)
EXTENDS Integers, Sequences, FiniteSets

CONSTANTS
    Trades,
    Quotes,         \* what the market may say of a trade: see Unquoted
    Target, Stop,   \* the exit rules, as percentages
    ExitDte,        \* time_exit_dte
    StaleLimit,     \* stale_emergency_threshold
    None,
    MaxSession,     \* bound: sessions
    MaxRows,        \* bound: decisions to close
    MaxLapses       \* bound: look-ups the database fails

ASSUME WatchFacts ==
    /\ {StaleLimit, MaxSession, MaxRows, MaxLapses} \subseteq Nat
    /\ None # "approved"

VARIABLES
    session,        \* the session that began last
    inSession,      \* the market is open
    closed,
    auditRows,           \* decision_audit, the CLOSE_POSITION rows
    exitChecks,     \* trade -> its POSITION_EXIT_CHECK events not yet processed
    staleChecks,    \* _stale_check_count, up to StaleLimit
    ruleExits,      \* history: trades closed by a threshold
    lapses          \* history: look-ups of suppressed trades that failed

watchVars == <<session, inSession, closed, auditRows, exitChecks, staleChecks,
              ruleExits, lapses>>

\* A row: the trade it is about, whether its metadata names that trade by its
\* trade_id (or by the position key, which is another string), the session of
\* its timestamp, and what became of it.
AuditRows == [trade : Trades, named : BOOLEAN, session : 0..MaxSession,
         human : {None, "approved", "rejected", "auto_dismissed"}, executed : BOOLEAN]

WatchInit ==
    /\ session = 0
    /\ inSession = TRUE
    /\ closed = {}
    /\ auditRows = <<>>
    /\ exitChecks = [t \in Trades |-> 0]
    /\ staleChecks = [t \in Trades |-> 0]
    /\ ruleExits = {}
    /\ lapses = 0

-----------------------------------------------------------------------------
\* A quote is [pnl, delta, dte, cheap, source]: the price comes from bid and
\* ask ("mid"), from the last trade ("last"), or from nowhere ("none").
Unquoted(q) == q.source = "none"

\* _evaluate_position, n being the stale checks in a row with this one: without
\* a price only the calendar counts, until the blindness has lasted too long.
Decision(q, n) ==
    CASE Unquoted(q) /\ q.dte <= ExitDte -> "time_exit"
      [] Unquoted(q) /\ q.dte > ExitDte /\ n >= StaleLimit -> "stale_emergency"
      [] Unquoted(q) /\ q.dte > ExitDte /\ n < StaleLimit -> "stale_data"
      [] ~Unquoted(q) /\ q.pnl >= Target -> "profit_target"
      [] ~Unquoted(q) /\ q.pnl <= -Stop -> "stop_loss"
      [] ~Unquoted(q) /\ -Stop < q.pnl /\ q.pnl < Target /\ q.dte <= ExitDte ->
             IF q.cheap THEN "let_expire" ELSE "time_exit"
      [] OTHER -> "holding"

ShouldExit(decision) == decision \notin {"stale_data", "let_expire", "holding"}

StaleNow(quote, t) ==
    IF ~Unquoted(quote[t]) THEN 0
    ELSE IF staleChecks[t] = StaleLimit THEN StaleLimit ELSE staleChecks[t] + 1

\* _build_escalation_context: material, and not settled by a rule.
GreyZone(q) ==
    \/ 50 <= q.pnl /\ q.pnl < 75
    \/ -300 < q.pnl /\ q.pnl <= -100
    \/ q.delta > 35
    \/ q.delta > 25 /\ q.pnl <= -70

\* _auto_dismiss_closed_position_decisions: what still waits for a human about
\* a trade that is closed.
Swept(rs, gone) ==
    [i \in DOMAIN rs |->
        IF ~rs[i].executed /\ rs[i].human = None /\ rs[i].trade \in gone
        THEN [rs[i] EXCEPT !.human = "auto_dismissed"] ELSE rs[i]]

\* Bug: what a human refused does not count.
SuppressesUndecided(r) == ~r.executed /\ r.named /\ r.human = None

\* A row keeps the rules and the questions away from its trade: in the session
\* of its timestamp until it is approved, later as long as nobody answered.
Suppresses(r) ==
    /\ ~r.executed
    /\ r.named
    /\ IF r.session = session THEN r.human # "approved" ELSE r.human = None

\* The look-up reads the rows of this session, the earlier ones and the events; an
\* error ends it with what it has read by then.
Whole == 3
RowSuppressed(rs, read) ==
    {rs[i].trade : i \in {j \in DOMAIN rs :
        Suppresses(rs[j]) /\ read >= IF rs[j].session = session THEN 1 ELSE 2}}

\* Bug: only the decisions are looked at.
DecidedOnly(rs, read) == RowSuppressed(rs, read)

\* _get_suppressed_close_trade_ids
Suppressed(rs, read) ==
    RowSuppressed(rs, read) \cup {t \in Trades : read = Whole /\ exitChecks[t] > 0}

\* How far the look-ups for the rules and for the questions get.
Lapse(read) == IF read < Whole THEN 1 ELSE 0
Lapsed(reads) == Lapse(reads[1]) + Lapse(reads[2])
Reads == {reads \in (0..Whole) \X (0..Whole) : lapses + Lapsed(reads) <= MaxLapses}

\* A decision to close that was carried out, that failed, or that waits.
NewRow(t, named, done) ==
    [trade |-> t, named |-> named, session |-> session, human |-> None,
     executed |-> done]

-----------------------------------------------------------------------------
\* The rules of _monitor_positions on trades nothing suppresses; an exit may fail.
RuleExits(quote, rs, read) ==
    SUBSET {t \in Trades \ (closed \cup Suppressed(rs, read)) :
                ShouldExit(Decision(quote[t], StaleNow(quote, t)))}

\* The plan closes one position at most: a second close within 90 seconds is
\* taken for a duplicate (_is_duplicate_decision).
Plans(open) ==
    {<<>>} \cup IF Len(auditRows) < MaxRows
                THEN {<<NewRow(t, named, done)>> :
                          t \in open, named \in BOOLEAN, done \in BOOLEAN}
                ELSE {}

CarriedOut(plan) == {plan[i].trade : i \in {j \in DOMAIN plan : plan[j].executed}}

\* SCHEDULED_CHECK: sweep, rules, sweep, plan, questions.  Only bid and ask
\* price the questions.
ScheduledCheck ==
    /\ inSession
    /\ \E quote \in [Trades -> Quotes], reads \in Reads :
       \E exits \in RuleExits(quote, Swept(auditRows, closed), reads[1]) :
       \E plan \in Plans(Trades \ (closed \cup exits)) :
           /\ closed' = closed \cup exits \cup CarriedOut(plan)
           /\ ruleExits' = ruleExits \cup exits
           /\ auditRows' = Swept(Swept(auditRows, closed), closed \cup exits) \o plan
           /\ exitChecks' = [t \in Trades |->
                  IF /\ t \notin closed' \cup Suppressed(auditRows', reads[2])
                     /\ quote[t].source = "mid" /\ GreyZone(quote[t])
                  THEN exitChecks[t] + 1 ELSE exitChecks[t]]
           /\ staleChecks' = [t \in Trades |->
                  IF t \in closed \/ Decision(quote[t], StaleNow(quote, t)) = "time_exit"
                  THEN 0 ELSE StaleNow(quote, t)]
           /\ lapses' = lapses + Lapsed(reads)
    /\ UNCHANGED <<session, inSession>>

\* POSITION_EXIT_CHECK: dropped after hours, else the engine holds or closes.
\* The answer names the trade (ClaudeReasoningEngine.reason sees to it).
HandleExitCheck ==
    \E t \in Trades :
        /\ exitChecks[t] > 0
        /\ exitChecks' = [exitChecks EXCEPT ![t] = @ - 1]
        /\ \/ UNCHANGED <<closed, auditRows>>
           \/ /\ inSession
              /\ Len(auditRows) < MaxRows
              /\ \E done \in BOOLEAN :
                     /\ t \in closed => done
                     /\ auditRows' = Append(auditRows, NewRow(t, TRUE, done))
                     /\ closed' = IF done THEN closed \cup {t} ELSE closed
        /\ UNCHANGED <<session, inSession, staleChecks, ruleExits, lapses>>

\* /api/approve and /api/override-rejection with the HUMAN_OVERRIDE that follows:
\* the close is carried out, fails, or is dismissed as the trade is closed.
Approve ==
    \E i \in DOMAIN auditRows :
        /\ ~auditRows[i].executed
        /\ auditRows[i].human \in {None, "rejected"}
        /\ IF auditRows[i].trade \in closed
           THEN /\ auditRows' = [auditRows EXCEPT ![i].human = "auto_dismissed"]
                /\ UNCHANGED closed
           ELSE \E done \in BOOLEAN :
                    /\ auditRows' = [auditRows EXCEPT ![i].human = "approved", ![i].executed = done]
                    /\ closed' = IF done THEN closed \cup {auditRows[i].trade} ELSE closed
        /\ UNCHANGED <<session, inSession, exitChecks, staleChecks, ruleExits, lapses>>

\* /api/reject
Reject ==
    \E i \in DOMAIN auditRows :
        /\ ~auditRows[i].executed
        /\ auditRows[i].human = None
        /\ auditRows' = [auditRows EXCEPT ![i].human = "rejected"]
        /\ UNCHANGED <<session, inSession, closed, exitChecks, staleChecks, ruleExits, lapses>>

\* A session begins at the opening of a trading day and is the current one until
\* the next (_current_session_start).
OpenSession ==
    /\ ~inSession
    /\ session < MaxSession
    /\ session' = session + 1
    /\ inSession' = TRUE
    /\ UNCHANGED <<closed, auditRows, exitChecks, staleChecks, ruleExits, lapses>>

EndSession ==
    /\ inSession
    /\ inSession' = FALSE
    /\ UNCHANGED <<session, closed, auditRows, exitChecks, staleChecks, ruleExits, lapses>>

\* _init_ibkr_dependents after a reconnection: a new exit manager that knows of
\* no stale checks.
Reconnect ==
    /\ staleChecks' = [t \in Trades |-> 0]
    /\ UNCHANGED <<session, inSession, closed, auditRows, exitChecks, ruleExits, lapses>>

WatchNext ==
    \/ ScheduledCheck
    \/ Reconnect
    \/ HandleExitCheck
    \/ Approve
    \/ Reject
    \/ OpenSession
    \/ EndSession

WatchSpec == WatchInit /\ [][WatchNext]_watchVars

-----------------------------------------------------------------------------
\* Type invariant of the watch.
WatchTypeOK ==
    /\ session \in 0..MaxSession /\ inSession \in BOOLEAN
    /\ ruleExits \subseteq closed /\ closed \subseteq Trades
    /\ \A i \in DOMAIN auditRows : auditRows[i] \in AuditRows
    /\ exitChecks \in [Trades -> Nat]
    /\ staleChecks \in [Trades -> 0..StaleLimit]
    /\ lapses \in 0..MaxLapses

\* A position is not asked about while a question about it is unanswered
\* (docstring of _get_suppressed_close_trade_ids), but once more for each look-up
\* the database failed.
OneQuestionAtATime == \A t \in Trades : exitChecks[t] <= 1 + lapses

\* A trade with a decision of this session that nobody approved is left alone:
\* neither a rule nor a question touches it (same docstring), unless the look-up
\* failed.
UnapprovedIsLeftAlone ==
    [][lapses' = lapses =>
       \A i \in DOMAIN auditRows :
           LET r == auditRows[i]
           IN  /\ r.named /\ ~r.executed /\ r.session = session
               /\ r.human \in {None, "rejected", "auto_dismissed"}
               => /\ r.trade \in ruleExits' => r.trade \in ruleExits
                  /\ exitChecks'[r.trade] <= exitChecks[r.trade]]_watchVars
=============================================================================
