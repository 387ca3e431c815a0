----------------------------- MODULE MCRecovery -----------------------------
(***************************************************************************)
(* One subscriber with two devices.                                        *)
(***************************************************************************)
EXTENDS Recovery, TLC

CONSTANTS m1, m2, i1

MC_MAC == {m1, m2}
MC_IMSI == {i1}
MC_Client == {<<m1, i1>>, <<m2, i1>>}
\* The devices are interchangeable, and so are the goroutines.
DeviceSymmetry == Permutations(MC_MAC) \cup Permutations(Proc)
=============================================================================
