------------------------------ MODULE MCCycle ------------------------------
(***************************************************************************)
(* Small instances of Cycle: a few campaigns over one or two lives of the  *)
(* daemon.                                                                 *)
(***************************************************************************)
EXTENDS Cycle
=============================================================================
