----------------------------- MODULE MCAuthCache -----------------------------
(***************************************************************************)
(* The authentication cache for two subscribers who share a device, or for *)
(* one subscriber.                                                         *)
(***************************************************************************)
EXTENDS AuthCache, TLC

CONSTANTS i1, i2, m1, g1, g2

Symmetry == Permutations(Proc) \cup Permutations(IMSI)

=============================================================================
