--------------------------- MODULE SessionManager ---------------------------
(***************************************************************************)
(* The session store of internal/session: the table of sessions (byID) and *)
(* the four secondary indexes over it (byIMSI, byMAC, byIP, byTEID).       *)
(*                                                                         *)
(* Every exported method of Manager runs under one mutex, so it is one     *)
(* action.  A method that returns an error changes nothing; the callers    *)
(* see the error as the negation of CanTransition or of id \in byID.       *)
(*                                                                         *)
(* The Go maps hold pointers to Session objects.  sess is the heap of the  *)
(* objects created so far, numbered by the counter m.next that also makes  *)
(* the ids unique; byID is the set of the ids the table holds; an index    *)
(* maps a key to the id of the object it points to, or to NoSession.  A    *)
(* field that is empty in Go ("", nil or 0) is None.  MAC addresses and    *)
(* APNs are canonical values (macMatches and sameAPN compare normalised    *)
(* strings); gtpu stands for the pair of user-plane TEIDs, which is always *)
(* assigned together.  Timestamps, names, RADIUS attributes and accounting *)
(* counters are left out: no state change depends on them.                 *)
(***************************************************************************)
EXTENDS Naturals, SessionStates

CONSTANTS IMSI, MAC, APN, IP, TEID,  \* the values of the keys of a session
          None,                      \* the empty value of a field
          Input,                     \* what callers of Create supply
          Bearer,                    \* the TEIDs callers of ApplyPGWResult supply
          MaxSessions                \* bound on the number of sessions created

ASSUME NoneAssumption == None \notin IMSI \cup MAC \cup APN \cup IP \cup TEID
ASSUME BoundAssumption == MaxSessions \in Nat

OrNone(S) == S \cup {None}

\* What the caller of Create supplies; ttl says whether the session expires.
CreateInput == [imsi: OrNone(IMSI), mac: OrNone(MAC), apn: OrNone(APN),
                ttl: BOOLEAN]

\* The control and the user plane TEIDs of a PGW answer.
PGWBearer == [gtpc: OrNone(TEID), gtpu: OrNone(TEID)]

ASSUME InputAssumption == Input \subseteq CreateInput /\ Bearer \subseteq PGWBearer

NoSession == 0

VARIABLES
  next,    \* m.next: how many sessions were created
  sess,    \* the Session objects, by number
  byID,    \* the ids the table holds
  byIMSI,  \* the secondary indexes
  byMAC,
  byIP,
  byTEID

mgrVars == <<next, sess, byID, byIMSI, byMAC, byIP, byTEID>>

Session == [state: State, imsi: OrNone(IMSI), mac: OrNone(MAC),
            apn: OrNone(APN), ip: OrNone(IP), gtpc: OrNone(TEID),
            gtpu: OrNone(TEID), authorized: BOOLEAN, gtpuErr: BOOLEAN,
            ttl: BOOLEAN]

MgrTypeOK ==
  /\ next \in Nat
  /\ sess \in [1..next -> Session]
  /\ byID \subseteq 1..next
  /\ byIMSI \in [IMSI -> 0..next]
  /\ byMAC \in [MAC -> 0..next]
  /\ byIP \in [IP -> 0..next]
  /\ byTEID \in [TEID -> 0..next]

-----------------------------------------------------------------------------
(* The index maps. *)

\* The assignment idx[key] = s of the code, skipped for an empty key.
Put(idx, key, id) ==
  IF key = None THEN idx ELSE [idx EXCEPT ![key] = id]

\* delete(idx, key): whatever session the entry points to.
Drop(idx, key) ==
  IF key = None THEN idx ELSE [idx EXCEPT ![key] = NoSession]

\* m.byID is looked up by update and transition before anything else.
CanTransition(id, to) ==
  id \in byID /\ validTransition(sess[id].state, to)

SetState(id, to) == sess' = [sess EXCEPT ![id].state = to]

-----------------------------------------------------------------------------
(* The operations. *)

MgrInit ==
  /\ next = 0
  /\ sess = [i \in 1..0 |-> <<>>]
  /\ byID = {}
  /\ byIMSI = [k \in IMSI |-> NoSession]
  /\ byMAC = [k \in MAC |-> NoSession]
  /\ byIP = [k \in IP |-> NoSession]
  /\ byTEID = [k \in TEID |-> NoSession]

NewSession(in) ==
  [state |-> Pending, imsi |-> in.imsi, mac |-> in.mac, apn |-> in.apn,
   ip |-> None, gtpc |-> None, gtpu |-> None, authorized |-> FALSE,
   gtpuErr |-> FALSE, ttl |-> in.ttl]

\* Mutant: m.next is not advanced.
Create_SameID(in) ==
  /\ next < MaxSessions
  /\ sess' = [i \in 1..next + 1 |->
                IF i = next + 1 THEN NewSession(in) ELSE sess[i]]
  /\ byID' = byID \cup {next + 1}
  /\ byIMSI' = Put(byIMSI, in.imsi, next + 1)
  /\ byMAC' = Put(byMAC, in.mac, next + 1)
  /\ UNCHANGED <<next, byIP, byTEID>>

Create(in) ==
  /\ next < MaxSessions
  /\ next' = next + 1
  /\ sess' = [i \in 1..next + 1 |->
                IF i = next + 1 THEN NewSession(in) ELSE sess[i]]
  /\ byID' = byID \cup {next + 1}
  /\ byIMSI' = Put(byIMSI, in.imsi, next + 1)
  /\ byMAC' = Put(byMAC, in.mac, next + 1)
  /\ UNCHANGED <<byIP, byTEID>>

\* MarkAuthPending, MarkPGWPending, MarkActive, MarkTerminating,
\* MarkRecovering and MarkFailed: transition with no effect on the indexes.
Mark(id, to) ==
  /\ CanTransition(id, to)
  /\ SetState(id, to)
  /\ UNCHANGED <<next, byID, byIMSI, byMAC, byIP, byTEID>>

MarkAuthorized(id) ==
  /\ CanTransition(id, Authorized)
  /\ sess' = [sess EXCEPT ![id].state = Authorized, ![id].authorized = TRUE]
  /\ UNCHANGED <<next, byID, byIMSI, byMAC, byIP, byTEID>>

\* A non-empty value from the AAA replaces the one of the request.
Coalesce(a, b) == IF a # None THEN a ELSE b

\* Mutant: indexLocked is not called after the change.
ApplyAuthResult_NotReindexed(id, imsi, apn) ==
  LET s == sess[id]
      t == [s EXCEPT !.imsi = Coalesce(imsi, s.imsi),
                     !.apn = Coalesce(apn, s.apn),
                     !.authorized = TRUE, !.state = Authorized]
  IN /\ CanTransition(id, Authorized)
     /\ sess' = [sess EXCEPT ![id] = t]
     /\ byIMSI' = Drop(byIMSI, s.imsi)
     /\ byMAC' = Drop(byMAC, s.mac)
     /\ byIP' = Drop(byIP, s.ip)
     /\ byTEID' = Drop(byTEID, s.gtpc)
     /\ UNCHANGED <<next, byID>>

\* unindexLocked and indexLocked frame the change of IMSI and APN, so the
\* session also takes over the entries of its other keys.
ApplyAuthResult(id, imsi, apn) ==
  LET s == sess[id]
      t == [s EXCEPT !.imsi = Coalesce(imsi, s.imsi),
                     !.apn = Coalesce(apn, s.apn),
                     !.authorized = TRUE, !.state = Authorized]
  IN /\ CanTransition(id, Authorized)
     /\ sess' = [sess EXCEPT ![id] = t]
     /\ byIMSI' = Put(Drop(byIMSI, s.imsi), t.imsi, id)
     /\ byMAC' = Put(byMAC, s.mac, id)
     /\ byIP' = Put(byIP, s.ip, id)
     /\ byTEID' = Put(byTEID, s.gtpc, id)
     /\ UNCHANGED <<next, byID>>

\* The transition used when TWAG allocates the address itself.
SetSubscriberIP(id, ip) ==
  /\ CanTransition(id, IPAllocated)
  /\ sess' = [sess EXCEPT ![id].ip = ip, ![id].state = IPAllocated]
  /\ byIP' = Put(Drop(byIP, sess[id].ip), ip, id)
  /\ UNCHANGED <<next, byID, byIMSI, byMAC, byTEID>>

\* The update used when the PGW assigns the address: any state will do.
UpdateSubscriberIP(id, ip) ==
  /\ id \in byID
  /\ sess' = [sess EXCEPT ![id].ip = ip]
  /\ byIP' = Put(Drop(byIP, sess[id].ip), ip, id)
  /\ UNCHANGED <<next, byID, byIMSI, byMAC, byTEID>>

\* BindTEIDs and ApplyPGWResult.
ApplyPGWResult(id, bearer) ==
  /\ id \in byID
  /\ sess' = [sess EXCEPT ![id].gtpc = bearer.gtpc,
                       ![id].gtpu = bearer.gtpu]
  /\ byTEID' = Put(Drop(byTEID, sess[id].gtpc), bearer.gtpc, id)
  /\ UNCHANGED <<next, byID, byIMSI, byMAC, byIP>>

\* Mutant: the error is written through a Session pointer looked up earlier.
RecordGTPUError_Held(id) ==
  /\ sess' = [sess EXCEPT ![id].gtpuErr = TRUE]
  /\ UNCHANGED <<next, byID, byIMSI, byMAC, byIP, byTEID>>

RecordGTPUError(id) ==
  /\ id \in byID
  /\ sess' = [sess EXCEPT ![id].gtpuErr = TRUE]
  /\ UNCHANGED <<next, byID, byIMSI, byMAC, byIP, byTEID>>

\* Mutant: unindexLocked forgets the index by MAC.
UnindexAll_KeepsMAC(D) ==
  /\ byID' = byID \ D
  /\ byIMSI' = [k \in IMSI |-> IF \E d \in D : sess[d].imsi = k
                               THEN NoSession ELSE byIMSI[k]]
  /\ byIP' = [k \in IP |-> IF \E d \in D : sess[d].ip = k
                           THEN NoSession ELSE byIP[k]]
  /\ byTEID' = [k \in TEID |-> IF \E d \in D : sess[d].gtpc = k
                               THEN NoSession ELSE byTEID[k]]
  /\ UNCHANGED byMAC

\* unindexLocked of every session of D: the entries of their keys go,
\* whichever session they point to.
UnindexAll(D) ==
  /\ byID' = byID \ D
  /\ byIMSI' = [k \in IMSI |-> IF \E d \in D : sess[d].imsi = k
                               THEN NoSession ELSE byIMSI[k]]
  /\ byMAC' = [k \in MAC |-> IF \E d \in D : sess[d].mac = k
                             THEN NoSession ELSE byMAC[k]]
  /\ byIP' = [k \in IP |-> IF \E d \in D : sess[d].ip = k
                           THEN NoSession ELSE byIP[k]]
  /\ byTEID' = [k \in TEID |-> IF \E d \in D : sess[d].gtpc = k
                               THEN NoSession ELSE byTEID[k]]

Delete(id) ==
  /\ CanTransition(id, Terminated)
  /\ UnindexAll({id})
  /\ SetState(id, Terminated)
  /\ UNCHANGED next

\* The sessions of D are the ones whose ExpiresAt has passed; their state is
\* not looked at.
ExpireInactive(D) ==
  /\ D # {}
  /\ \A d \in D : sess[d].ttl
  /\ UnindexAll(D)
  /\ sess' = [i \in 1..next |-> IF i \in D
                                THEN [sess[i] EXCEPT !.state = Terminated]
                                ELSE sess[i]]
  /\ UNCHANGED next

\* The targets of Mark.
MarkTarget == {AuthPending, PGWPending, Active, Recovering, Terminating, Failed}

\* A caller may hold the id of a session that is gone.
SessionStep(id) ==
  \/ \E to \in MarkTarget : Mark(id, to)
  \/ MarkAuthorized(id)
  \/ \E imsi \in OrNone(IMSI), apn \in OrNone(APN) :
        ApplyAuthResult(id, imsi, apn)
  \/ \E ip \in IP : SetSubscriberIP(id, ip)
  \/ \E ip \in OrNone(IP) : UpdateSubscriberIP(id, ip)
  \/ \E bearer \in Bearer : ApplyPGWResult(id, bearer)
  \/ RecordGTPUError(id)
  \/ Delete(id)

MgrNext ==
  \/ \E in \in Input : Create(in)
  \/ \E id \in 1..next : SessionStep(id)
  \/ \E D \in SUBSET byID : ExpireInactive(D)

MgrSpec == MgrInit /\ [][MgrNext]_mgrVars

-----------------------------------------------------------------------------
(* The lookups of the store that scan the table, as the set of sessions    *)
(* they may return: Go iterates over a map in a random order.              *)

\* subscriberMatches: no key of the query may contradict the session, and
\* the IMSI or the MAC must agree.
subscriberMatches(s, imsi, mac, apn) ==
  /\ imsi = None \/ s.imsi = None \/ s.imsi = imsi
  /\ mac = None \/ s.mac = None \/ s.mac = mac
  /\ apn = None \/ s.apn = None \/ s.apn = apn
  /\ \/ imsi # None /\ s.imsi = imsi
     \/ mac # None /\ s.mac = mac

FindAnyBySubscriber(imsi, mac, apn) ==
  {i \in byID : subscriberMatches(sess[i], imsi, mac, apn)}

FindByMAC(mac) == {i \in byID : mac # None /\ sess[i].mac = mac}

FindByIMSIAPN(imsi, apn) == {i \in byID : sess[i].imsi = imsi /\ sess[i].apn = apn}

LookupByRemoteGTPUTEID(teid) == {i \in byID : sess[i].gtpu = teid}

-----------------------------------------------------------------------------
(* Properties. *)

\* An index never dangles: an entry points to a session the table holds, and
\* that session carries the key.  LookupByIMSI, LookupByMAC, LookupByIP and
\* LookupByTEID return what the entry points to without checking it.
IMSISound == \A k \in IMSI : byIMSI[k] # NoSession =>
                byIMSI[k] \in byID /\ sess[byIMSI[k]].imsi = k
MACSound == \A k \in MAC : byMAC[k] # NoSession =>
                byMAC[k] \in byID /\ sess[byMAC[k]].mac = k
IPSound == \A k \in IP : byIP[k] # NoSession =>
                byIP[k] \in byID /\ sess[byIP[k]].ip = k
TEIDSound == \A k \in TEID : byTEID[k] # NoSession =>
                byTEID[k] \in byID /\ sess[byTEID[k]].gtpc = k
IndexSound == IMSISound /\ MACSound /\ IPSound /\ TEIDSound

\* A session gets past authentication only with the authorization recorded:
\* no chain of transitions skips MarkAuthorized and ApplyAuthResult.
AuthorizedBeforeService ==
  \A i \in byID :
    sess[i].state \in {Authorized, IPAllocated, PGWPending, Active, Recovering}
      => sess[i].authorized

\* A stored session whose MAC no other session ever used is found under its
\* MAC, which is how DHCP, ARP and the GTP error handlers find it: the
\* unconditional deletes of unindexLocked can only hide sessions that share
\* a key.
UnsharedMACFound ==
  \A i \in byID :
    (sess[i].mac # None /\ \A j \in 1..next : j # i => sess[j].mac # sess[i].mac)
      => byMAC[sess[i].mac] = i

\* A session that left the table is Terminated.  (The converse is the type of
\* byID and of its guards: what the callers rely on is that a deleted session
\* cannot be revived, so it must not be in a state that admits transitions.)
GoneIsTerminated ==
  \A i \in 1..next : i \notin byID <=> sess[i].state = Terminated

\* A session that left the table never changes and never comes back, although
\* indexLocked writes byID again; and a failed session stays failed for as
\* long as it is stored.
NoResurrection ==
  [][\A i \in 1..next :
       /\ i \notin byID => i \notin byID' /\ sess'[i] = sess[i]
       /\ sess[i].state = Failed /\ i \in byID' => sess'[i].state = Failed]_mgrVars
=============================================================================
