--------------------------- MODULE MCPlanPipeline ---------------------------
(***************************************************************************)
(* Small instances of PlanPipeline: two events, and plans over the closes  *)
(* of two trades, the execution of the staged trades, a scan and a no-op.  *)
(***************************************************************************)
EXTENDS PlanPipeline

CONSTANTS c1, c2, x, g, m

\* Two closes differ in their trade; the other actions have one target.
KindOfStep ==
    [s \in Steps |->
        CASE s \in {c1, c2} -> "CLOSE_POSITION"
          [] s = x -> "EXECUTE_TRADES"
          [] s = g -> "STAGE_CANDIDATES"
          [] s = m -> "MONITOR_ONLY"]

\* Plans that do nothing and open, that scan, close and open, and that close
\* two trades.
AllPlans == {<<m, x>>, <<g, c1, x>>, <<c1, c2>>}
=============================================================================
