--------------------------- MODULE MCSessionManager ---------------------------
(***************************************************************************)
(* The session store on a small instance: sessions that share an IMSI, a   *)
(* MAC, an address and a TEID.                                             *)
(***************************************************************************)
EXTENDS SessionManager, TLC

CONSTANTS i1, i2, m1, m2, a1, p1, t1

MC_IMSI == {i1, i2}
MC_MAC == {m1, m2}
MC_APN == {a1}
MC_IP == {p1}
MC_TEID == {t1}

\* One input names its subscriber, the other learns the IMSI from the AAA and
\* expires; two sessions made from the same input share their keys.
MC_Input == {[imsi |-> i1, mac |-> m1, apn |-> a1, ttl |-> FALSE],
             [imsi |-> None, mac |-> m2, apn |-> a1, ttl |-> TRUE]}

MC_Bearer == {[gtpc |-> t1, gtpu |-> t1], [gtpc |-> None, gtpu |-> None]}
=============================================================================
