------------------------------ MODULE MCArena ------------------------------
(***************************************************************************)
(* A remote arena with two endpoints, one of which has a client: start may *)
(* fail at one of them with the other already served.                      *)
(***************************************************************************)
EXTENDS Arena

MCEndpoints == {"core_rest", "core_grpc"}

OneConn == {<<"core_rest", 1>>}
=============================================================================
