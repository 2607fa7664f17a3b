----------------------------- MODULE MCExecutor -----------------------------
(***************************************************************************)
(* The instances of Executor that TLC checks: the constants are in the     *)
(* configurations.                                                         *)
(***************************************************************************)
EXTENDS Executor
=============================================================================
