----------------------------- MODULE MCLifecycle -----------------------------
(***************************************************************************)
(* Small instances of the lifecycle service.  A run picks one of the sets  *)
(* of events below: what each goroutine may be started for.                *)
(***************************************************************************)
EXTENDS Lifecycle, TLC

CONSTANTS i1, i2, m1, m2, a1, ip1, ip2, ip3, t1, t2, t3, g1, g2, g3

MC_IMSI == {i1, i2}
MC_MAC == {m1, m2}
MC_APN == {a1}
MC_Proc == {g1, g2, g3}

Attach(i, m) == [kind |-> "attach", imsi |-> i, mac |-> m, apn |-> a1, teid |-> None]
AcctStop(m) == [kind |-> "acct_stop", imsi |-> None, mac |-> m, apn |-> None, teid |-> None]
GTPUError(t) == [kind |-> "gtpu_error", imsi |-> None, mac |-> None, apn |-> None, teid |-> t]
PGWDel(t) == [kind |-> "pgw_delete", imsi |-> None, mac |-> None, apn |-> None, teid |-> t]
AAADisc(i) == [kind |-> "aaa_disconnect", imsi |-> i, mac |-> None, apn |-> None, teid |-> None]

\* One device: attaches, Accounting-Stops, GTP-U errors and a shutdown, and
\* every installation may fail.
OneDevice ==
  [events |-> [p \in MC_Proc |-> {Attach(i1, m1)} \cup
                 (IF p = g1 THEN {} ELSE {AcctStop(m1), GTPUError(t1)}) \cup
                 (IF p = g3 THEN {NoEvent} ELSE {})],
   faults |-> {"reject_create", "no_paa", "route", "user", "access"},
   replace |-> FALSE]

\* Two subscribers: the second on a device m of its own, or on the device of the
\* first, whose SIM is changed.
TwoSubscribers(m) ==
  [events |-> [p \in MC_Proc |->
                 CASE p = g1 -> {Attach(i1, m1)}
                   [] p = g2 -> {Attach(i2, m)}
                   [] p = g3 -> {Attach(i1, m1), AcctStop(m1), GTPUError(t1), NoEvent}],
   faults |-> {"reject_create", "access"},
   replace |-> TRUE]

MC_Attaches == {OneDevice, TwoSubscribers(m1), TwoSubscribers(m2)}

\* The theorems about orderly setups speak of these.
ASSUME AttachesAreOrderly == \A s \in MC_Attaches : Orderly(s)

\* The handlers that take no lock against an attach and a shutdown.
MC_Unlocked ==
  {[events |-> [p \in MC_Proc |->
                  CASE p = g1 -> {Attach(i1, m1)}
                    [] p = g2 -> {AAADisc(i1), PGWDel(t1)}
                    [] p = g3 -> {Attach(i1, m1), AAADisc(i1), PGWDel(t1),
                                  GTPUError(t1), NoEvent}],
    faults |-> FaultKind,
    replace |-> FALSE]}

\* What a goroutine may have to wait for: the lock, the PGW, another goroutine.
MC_Waiting ==
  {[events |-> [p \in MC_Proc |->
                  CASE p = g1 -> {Attach(i1, m1)}
                    [] p = g2 -> {Attach(i1, m1), AAADisc(i1)}
                    [] p = g3 -> {AcctStop(m1), PGWDel(t1), NoEvent}],
    faults |-> {"lost_create", "access"},
    replace |-> FALSE]}

\* One subscriber on two devices.
MC_TwoDevices ==
  {[events |-> [p \in MC_Proc |-> {Attach(i1, IF p = g1 THEN m1 ELSE m2)}],
    faults |-> {}, replace |-> FALSE]}

\* One device that attaches again and again.
MC_Reattach ==
  {[events |-> [p \in MC_Proc |-> {Attach(i1, m1)}],
    faults |-> {"reject_create"}, replace |-> FALSE]}

\* The addresses are interchangeable, no property or event names one.
IPSymmetry == Permutations(IP)

MC_Input == {[imsi |-> i, mac |-> m, apn |-> a1, ttl |-> FALSE] :
               i \in MC_IMSI, m \in MC_MAC}
MC_Bearer == {Answer(t) : t \in TEID} \cup {NoBearer}
=============================================================================
