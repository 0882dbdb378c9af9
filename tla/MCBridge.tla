------------------------------ MODULE MCBridge ------------------------------
(***************************************************************************)
(* One connection through both relays, with buffers smaller than what is   *)
(* sent, so that every send can block.                                     *)
(***************************************************************************)
EXTENDS Bridge
=============================================================================
