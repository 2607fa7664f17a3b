----------------------------- MODULE MCSampler ------------------------------
(***************************************************************************)
(* The instances of Sampler that TLC checks.                               *)
(***************************************************************************)
EXTENDS Sampler
=============================================================================
