------------------------------ MODULE MCEvent -------------------------------
(***************************************************************************)
(* The instance of Event that TLC checks: seconds of two milliseconds of   *)
(* three nanoseconds, and timeouts of a second and of more than a second.  *)
(***************************************************************************)
EXTENDS Event

MCClock == {[tv_sec |-> 0, tv_nsec |-> 4]}
=============================================================================
