---------------------------- MODULE MCRingBuffer ----------------------------
(***************************************************************************)
(* The instance of RingBuffer that TLC checks: three getters, so that two  *)
(* can sleep while a third takes the element one was woken for, and a      *)
(* buffer of three, so that both indices wrap.                             *)
(***************************************************************************)
EXTENDS RingBuffer
=============================================================================
