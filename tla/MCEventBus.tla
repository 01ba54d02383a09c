----------------------------- MODULE MCEventBus -----------------------------
(***************************************************************************)
(* Instances of EventBus for TLC.                                          *)
(***************************************************************************)
EXTENDS EventBus

\* An urgent and an ordinary kind.
MCKinds == {"EMERGENCY_STOP", "SCHEDULED_CHECK"}

=============================================================================
