-------------------------- MODULE MCWarmupExecutor --------------------------
(***************************************************************************)
(* Instances of WarmupExecutor for TLC.  A call ends for good when it has  *)
(* returned.                                                               *)
(***************************************************************************)
EXTENDS WarmupExecutor

OneToFive == 1 .. 5
=============================================================================
