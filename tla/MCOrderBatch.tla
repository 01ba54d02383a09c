---------------------------- MODULE MCOrderBatch ----------------------------
(***************************************************************************)
(* Instances of OrderBatch for TLC.                                        *)
(***************************************************************************)
EXTENDS OrderBatch

=============================================================================
