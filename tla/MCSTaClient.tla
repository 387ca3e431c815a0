----------------------------- MODULE MCSTaClient -----------------------------
(***************************************************************************)
(* A call without a deadline on a Diameter client that may be connected    *)
(* twice, with the watchdogs of both connections.                          *)
(***************************************************************************)
EXTENDS STaClient

CONSTANT c1
=============================================================================
