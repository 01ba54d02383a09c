----------------------------- MODULE MCControl -----------------------------
(***************************************************************************)
(* An instance for TLC of what a daemon that starts must put in order: the *)
(* processes around it (DaemonControl), and the books against the broker   *)
(* (Reconciliation).  They share no state: a behaviour is one of the       *)
(* component in focus.                                                     *)
(***************************************************************************)
EXTENDS DaemonControl, Reconciliation

VARIABLE focus

MCVars == <<focus, controlAll, bookVars>>

\* Days after a put was sold outside and its trade closed as bought back.
SoldBefore(c) ==
    /\ held = [p \in Puts |-> 0] /\ term = [p \in Puts |-> "before"]
    /\ assigned = {} /\ shares = [s \in Symbols |-> 0] /\ orders = {}
    /\ trades = [i \in Ids |-> IF i = <<c, "sell">>
                               THEN [state |-> "bought", lots |-> 1, entry |-> 1] ELSE NoRow]
    /\ today = {} /\ stock = [i \in Ids |-> "none"]
    /\ sent = {} /\ raced = {}
    /\ listed = [m \in Importers |-> NothingListed] /\ sought = [m \in Importers |-> {}]
    /\ report = NoReport /\ alerted = {} /\ entries = 1 /\ events = 0

\* The books are looked at while the daemon was stopped in the dashboard.
MCInit ==
    /\ HaltFileInit
    /\ \/ focus = "control" /\ ControlInit /\ BookInit
       \/ /\ focus = "books"
          /\ BookInit \/ \E c \in Puts : SoldBefore(c)
          /\ stopFlag = TRUE
          /\ proc = [d \in Daemons |-> "none"] /\ shutdownAsked = {} /\ pidFile = NoPid
          /\ status = "stopped" /\ beat = "none" /\ stopper = "idle" /\ restarting = FALSE
          /\ dog = Calm /\ spike = FALSE /\ commands = 0 /\ crashes = 0

MCNext ==
    /\ UNCHANGED focus
    /\ \/ focus = "control" /\ ControlNext /\ UNCHANGED bookVars
       \/ focus = "books" /\ BookNext /\ UNCHANGED controlAll

MCSpec == MCInit /\ [][MCNext]_MCVars

\* ControlFairness and BookFairness, each for the behaviours of its component.
MCFairness ==
    /\ \A d \in Daemons :
           /\ WF_controlAll(/\ focus = "control"
                            /\ CheckRunning(d) \/ StartHealth(d) \/ EnterLoop(d))
           /\ WF_controlAll(focus = "control" /\ (NoticeStop(d) \/ StopHealth(d)))
    /\ WF_controlAll(focus = "control" /\ \E d \in Daemons : CheckDown(d))
    /\ WF_bookVars(focus = "books" /\ SweepExpired)
    /\ WF_bookVars(focus = "books" /\ \E sold \in BOOLEAN : Reconcile(sold))
    /\ WF_bookVars(focus = "books" /\ ImportGoesOn)
    /\ WF_bookVars(focus = "books" /\ ProcessAssignments)

MCFairSpec == MCSpec /\ MCFairness

\* Reconciliation: two puts on one symbol.
MCPuts == {"p1", "p2"}
MCSymbolOf == [c \in MCPuts |-> "S"]
=============================================================================
