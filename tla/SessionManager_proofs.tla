------------------------ MODULE SessionManager_proofs ------------------------
(***************************************************************************)
(* Proofs about the session store, for every set of keys, inputs and       *)
(* bearers and any number of sessions.                                     *)
(***************************************************************************)
EXTENDS SessionManager, TLAPS

\* A larger range for an index.
LEMMA WidenIndex ==
  ASSUME NEW K, NEW n \in Nat, NEW idx \in [K -> 0..n]
  PROVE  idx \in [K -> 0..n + 1]
BY SMT

\* The field updates of the store keep a session a session.
LEMMA SessionUpdate ==
  ASSUME NEW s \in Session
  PROVE  /\ \A st \in State : [s EXCEPT !.state = st] \in Session
         /\ \A ip \in OrNone(IP) : [s EXCEPT !.ip = ip] \in Session
         /\ [s EXCEPT !.gtpuErr = TRUE] \in Session
BY DEF Session

\* update and transition look the session up first: an operation with an
\* effect works on a stored session.
LEMMA StepIsStored ==
  ASSUME NEW id, SessionStep(id)
  PROVE  id \in byID
BY DEF SessionStep, Mark, MarkAuthorized, ApplyAuthResult, SetSubscriberIP,
       UpdateSubscriberIP, ApplyPGWResult, RecordGTPUError, Delete, CanTransition

\* Type correctness is inductive.
LEMMA TypeStep == MgrTypeOK /\ [MgrNext]_mgrVars => MgrTypeOK'
<1> SUFFICES ASSUME MgrTypeOK, [MgrNext]_mgrVars PROVE MgrTypeOK'
  OBVIOUS
<1>n. 0 \in 0..next /\ \A i \in 1..next : i \in 0..next
  BY DEF MgrTypeOK
<1> USE NoneAssumption
<1>1. CASE \E in \in Input : Create(in)
  <2> PICK in \in Input : Create(in)
    BY <1>1
  <2>1. in \in CreateInput
    BY InputAssumption
  <2>2. NewSession(in) \in Session
    BY <2>1 DEF NewSession, CreateInput, Session, State, Pending, OrNone
  <2>3. next' \in Nat /\ sess' \in [1..next' -> Session] /\ byID' \subseteq 1..next'
    <3>1. next' = next + 1 /\ next \in Nat
      BY DEF Create, MgrTypeOK
    <3>2. \A i \in 1..next + 1 : i # next + 1 => i \in 1..next
      BY <3>1
    <3>3. sess' \in [1..next + 1 -> Session]
      BY <2>2, <3>2 DEF Create, MgrTypeOK
    <3>4. byID' \subseteq 1..next + 1
      BY <3>1 DEF Create, MgrTypeOK
    <3>5. next' \in Nat
      BY <3>1
    <3>6. QED BY <3>1, <3>3, <3>4, <3>5
  <2>4. byIMSI' \in [IMSI -> 0..next'] /\ byMAC' \in [MAC -> 0..next']
    <3>1. byIMSI \in [IMSI -> 0..next + 1] /\ byMAC \in [MAC -> 0..next + 1]
      BY WidenIndex DEF MgrTypeOK
    <3>2. in.imsi \in IMSI \cup {None} /\ in.mac \in MAC \cup {None} /\ next + 1 \in 0..next + 1
      BY <2>1 DEF CreateInput, OrNone, MgrTypeOK
    <3>3. Put(byIMSI, in.imsi, next + 1) \in [IMSI -> 0..next + 1]
      BY <3>1, <3>2 DEF Put
    <3>4. Put(byMAC, in.mac, next + 1) \in [MAC -> 0..next + 1]
      BY <3>1, <3>2 DEF Put
    <3>5. QED BY <3>3, <3>4 DEF Create
  <2>5. byIP' \in [IP -> 0..next'] /\ byTEID' \in [TEID -> 0..next']
    BY WidenIndex DEF Create, MgrTypeOK
  <2>6. QED BY <2>3, <2>4, <2>5 DEF MgrTypeOK
<1>2. CASE \E id \in 1..next : SessionStep(id)
  <2> PICK id \in byID : SessionStep(id)
    BY <1>2, StepIsStored
  <2>0. id \in 1..next /\ sess[id] \in Session
    BY DEF MgrTypeOK
  <2>1. CASE \E to \in MarkTarget : Mark(id, to)
    <3> PICK to \in MarkTarget : Mark(id, to)
      BY <2>1
    <3>1. to \in State
      BY DEF MarkTarget, State
    <3>2. sess' \in [1..next -> Session]
      BY <2>0, <3>1 DEF Mark, SetState, MgrTypeOK, Session
    <3>3. QED BY <3>2 DEF Mark, MgrTypeOK
  <2>2. CASE MarkAuthorized(id)
    BY <2>0, <2>2 DEF MarkAuthorized, MgrTypeOK, Session, State
  <2>3. CASE \E imsi \in OrNone(IMSI), apn \in OrNone(APN) : ApplyAuthResult(id, imsi, apn)
    <3> PICK imsi \in OrNone(IMSI), apn \in OrNone(APN) : ApplyAuthResult(id, imsi, apn)
      BY <2>3
    <3> DEFINE i2 == Coalesce(imsi, sess[id].imsi)
    <3> DEFINE a2 == Coalesce(apn, sess[id].apn)
    <3>1. i2 \in OrNone(IMSI) /\ a2 \in OrNone(APN)
      BY <2>0 DEF Coalesce, Session
    <3> HIDE DEF i2, a2
    <3>2. sess' = [sess EXCEPT ![id] = [sess[id] EXCEPT !.imsi = i2, !.apn = a2,
                                          !.authorized = TRUE, !.state = Authorized]]
      BY DEF ApplyAuthResult, i2, a2
    <3>3. sess' \in [1..next -> Session]
      BY <2>0, <3>1, <3>2 DEF MgrTypeOK, Session, State
    <3>4. byIMSI' = Put(Drop(byIMSI, sess[id].imsi), i2, id)
      BY <2>0, <3>1 DEF ApplyAuthResult, i2, Session
    <3>5. Drop(byIMSI, sess[id].imsi) \in [IMSI -> 0..next]
      BY <1>n, <2>0 DEF Drop, MgrTypeOK, Session, OrNone, NoSession
    <3>6. byIMSI' \in [IMSI -> 0..next]
      BY <1>n, <2>0, <3>1, <3>4, <3>5 DEF Put, OrNone
    <3>7. byMAC' \in [MAC -> 0..next] /\ byIP' \in [IP -> 0..next] /\ byTEID' \in [TEID -> 0..next]
      BY <1>n, <2>0 DEF Put, ApplyAuthResult, MgrTypeOK, Session, OrNone
    <3>8. QED BY <3>3, <3>6, <3>7 DEF ApplyAuthResult, MgrTypeOK
  <2>4. CASE \E ip \in IP : SetSubscriberIP(id, ip)
    <3> PICK ip \in IP : SetSubscriberIP(id, ip)
      BY <2>4
    <3>1. sess' \in [1..next -> Session]
      BY <2>0 DEF SetSubscriberIP, MgrTypeOK, Session, State, OrNone
    <3>2. Drop(byIP, sess[id].ip) \in [IP -> 0..next]
      BY <1>n, <2>0 DEF Drop, MgrTypeOK, Session, OrNone, NoSession
    <3>3. byIP' \in [IP -> 0..next]
      BY <1>n, <2>0, <3>2 DEF SetSubscriberIP, Put
    <3>4. QED BY <3>1, <3>3 DEF SetSubscriberIP, MgrTypeOK
  <2>5. CASE \E ip \in OrNone(IP) : UpdateSubscriberIP(id, ip)
    <3> PICK ip \in OrNone(IP) : UpdateSubscriberIP(id, ip)
      BY <2>5
    <3>1. sess' \in [1..next -> Session]
      BY <2>0 DEF UpdateSubscriberIP, MgrTypeOK, Session, State, OrNone
    <3>2. Drop(byIP, sess[id].ip) \in [IP -> 0..next]
      BY <1>n, <2>0 DEF Drop, MgrTypeOK, Session, OrNone, NoSession
    <3>3. byIP' \in [IP -> 0..next]
      BY <1>n, <2>0, <3>2 DEF Put, UpdateSubscriberIP, OrNone
    <3>4. QED BY <3>1, <3>3 DEF UpdateSubscriberIP, MgrTypeOK
  <2>6. CASE \E bearer \in Bearer : ApplyPGWResult(id, bearer)
    <3> PICK bearer \in Bearer : ApplyPGWResult(id, bearer)
      BY <2>6
    <3>0. bearer.gtpc \in OrNone(TEID) /\ bearer.gtpu \in OrNone(TEID)
      BY InputAssumption DEF PGWBearer
    <3>1. sess' \in [1..next -> Session]
      <4>1. sess \in [1..next -> Session] /\ sess[id] \in Session
        BY <2>0 DEF MgrTypeOK
      <4>2. sess' = [sess EXCEPT ![id] = [sess[id] EXCEPT !.gtpc = bearer.gtpc,
                                                          !.gtpu = bearer.gtpu]]
        BY <2>0, <4>1 DEF ApplyPGWResult
      <4>3. [sess[id] EXCEPT !.gtpc = bearer.gtpc, !.gtpu = bearer.gtpu] \in Session
        BY <3>0, <4>1 DEF Session
      <4>4. QED BY <4>1, <4>2, <4>3
    <3>2. Drop(byTEID, sess[id].gtpc) \in [TEID -> 0..next]
      BY <1>n, <2>0 DEF Drop, MgrTypeOK, Session, OrNone, NoSession
    <3>3. byTEID' \in [TEID -> 0..next]
      BY <1>n, <2>0, <3>0, <3>2 DEF Put, ApplyPGWResult, OrNone
    <3>4. QED BY <3>1, <3>3 DEF ApplyPGWResult, MgrTypeOK
  <2>7. CASE RecordGTPUError(id)
    BY <2>0, <2>7, SessionUpdate DEF RecordGTPUError, MgrTypeOK
  <2>8. CASE Delete(id)
    BY <1>n, <2>0, <2>8, SessionUpdate DEF Delete, UnindexAll, SetState, MgrTypeOK, State, NoSession
  <2>9. QED BY <2>1, <2>2, <2>3, <2>4, <2>5, <2>6, <2>7, <2>8 DEF SessionStep
<1>3. CASE \E D \in SUBSET byID : ExpireInactive(D)
  <2> PICK D \in SUBSET byID : ExpireInactive(D)
    BY <1>3
  <2>1. sess' \in [1..next -> Session]
    BY SessionUpdate DEF ExpireInactive, MgrTypeOK, State
  <2>2. QED BY <1>n, <2>1 DEF ExpireInactive, UnindexAll, MgrTypeOK, NoSession
<1>4. CASE UNCHANGED mgrVars
  BY <1>4 DEF mgrVars, MgrTypeOK
<1>5. QED BY <1>1, <1>2, <1>3, <1>4 DEF MgrNext

\* The empty store of NewManager is well typed.
LEMMA TypeInit == MgrInit => MgrTypeOK
BY DEF MgrInit, MgrTypeOK, NoSession

\* The store's fields and indexes always have the types of the Go structures.
THEOREM TypeCorrect == MgrSpec => []MgrTypeOK
<1>1. QED BY TypeInit, TypeStep, PTL DEF MgrSpec

-----------------------------------------------------------------------------
(* The inductive invariant.  IndexSound alone is not inductive: a step on a *)
(* session must find it in the table (byID), and Terminated must mean gone. *)

\* Every operation of the store keeps every index sound.
LEMMA SoundStep ==
  ASSUME MgrTypeOK, IndexSound, [MgrNext]_mgrVars
  PROVE  IndexSound'
<1> USE NoneAssumption DEF IndexSound, NoSession
<1>1. CASE \E in \in Input : Create(in)
  <2> PICK in \in Input : Create(in)
    BY <1>1
  <2>0. /\ in.imsi \in OrNone(IMSI) /\ in.mac \in OrNone(MAC)
        /\ next \in Nat /\ next' = next + 1
        /\ byID' = byID \cup {next + 1} /\ byID \subseteq 1..next
        /\ \A i \in 1..next : sess'[i] = sess[i]
        /\ sess'[next + 1] = NewSession(in)
    BY InputAssumption DEF CreateInput, Create, MgrTypeOK
  <2>1. IMSISound'
    BY <2>0 DEF IMSISound, MgrTypeOK, Create, Put, NewSession, OrNone
  <2>2. MACSound'
    BY <2>0 DEF MACSound, MgrTypeOK, Create, Put, NewSession, OrNone
  <2>3. IPSound' /\ TEIDSound'
    BY <2>0 DEF IPSound, TEIDSound, MgrTypeOK, Create
  <2>4. QED BY <2>1, <2>2, <2>3
<1>2. CASE \E id \in 1..next : SessionStep(id)
  <2> PICK id \in byID : SessionStep(id)
    BY <1>2, StepIsStored
  <2>0. id \in 1..next /\ sess[id] \in Session /\ id # 0
    BY DEF MgrTypeOK
  <2>1. CASE \E to \in MarkTarget : Mark(id, to)
    BY <2>0, <2>1 DEF Mark, SetState, MgrTypeOK, IMSISound, MACSound, IPSound, TEIDSound, Session
  <2>2. CASE MarkAuthorized(id)
    BY <2>0, <2>2 DEF MarkAuthorized, MgrTypeOK, IMSISound, MACSound, IPSound, TEIDSound, Session
  <2>3. CASE \E imsi \in OrNone(IMSI), apn \in OrNone(APN) : ApplyAuthResult(id, imsi, apn)
    <3> PICK imsi \in OrNone(IMSI), apn \in OrNone(APN) : ApplyAuthResult(id, imsi, apn)
      BY <2>3
    <3> DEFINE i2 == Coalesce(imsi, sess[id].imsi)
    <3> DEFINE a2 == Coalesce(apn, sess[id].apn)
    <3>1. i2 \in OrNone(IMSI) /\ a2 \in OrNone(APN)
      BY <2>0 DEF Coalesce, Session
    <3>2. /\ sess' = [sess EXCEPT ![id] = [sess[id] EXCEPT !.imsi = i2, !.apn = a2,
                                             !.authorized = TRUE, !.state = Authorized]]
          /\ byID' = byID
          /\ byIMSI' = Put(Drop(byIMSI, sess[id].imsi), i2, id)
          /\ byMAC' = Put(byMAC, sess[id].mac, id)
          /\ byIP' = Put(byIP, sess[id].ip, id)
          /\ byTEID' = Put(byTEID, sess[id].gtpc, id)
      BY <2>0 DEF ApplyAuthResult, Session
    <3> HIDE DEF i2, a2
    <3>3. /\ \A j \in 1..next : j # id => sess'[j] = sess[j]
          /\ sess'[id].imsi = i2 /\ sess'[id].mac = sess[id].mac
          /\ sess'[id].ip = sess[id].ip /\ sess'[id].gtpc = sess[id].gtpc
      BY <2>0, <3>2 DEF MgrTypeOK, Session
    <3>4. IMSISound'
      BY <2>0, <3>1, <3>2, <3>3 DEF IMSISound, MgrTypeOK, Put, Drop, OrNone, Session
    <3>5. MACSound'
      BY <2>0, <3>2, <3>3 DEF MACSound, MgrTypeOK, Put, OrNone, Session
    <3>6. IPSound'
      BY <2>0, <3>2, <3>3 DEF IPSound, MgrTypeOK, Put, OrNone, Session
    <3>7. TEIDSound'
      BY <2>0, <3>2, <3>3 DEF TEIDSound, MgrTypeOK, Put, OrNone, Session
    <3>8. QED BY <3>4, <3>5, <3>6, <3>7
  <2>4. ASSUME NEW ip \in OrNone(IP),
               \/ sess' = [sess EXCEPT ![id].ip = ip]
               \/ sess' = [sess EXCEPT ![id].ip = ip, ![id].state = IPAllocated],
               byIP' = Put(Drop(byIP, sess[id].ip), ip, id),
               UNCHANGED <<next, byID, byIMSI, byMAC, byTEID>>
        PROVE  IndexSound'
    <3>1. /\ \A j \in 1..next : j # id => sess'[j] = sess[j]
          /\ sess'[id].imsi = sess[id].imsi /\ sess'[id].mac = sess[id].mac
          /\ sess'[id].ip = ip /\ sess'[id].gtpc = sess[id].gtpc
      BY <2>0, <2>4 DEF MgrTypeOK, Session
    <3>2. IPSound'
      BY <2>0, <2>4, <3>1 DEF IPSound, MgrTypeOK, Put, Drop, OrNone, Session
    <3>3. \A j \in 1..next : /\ sess'[j].imsi = sess[j].imsi /\ sess'[j].mac = sess[j].mac
                              /\ sess'[j].gtpc = sess[j].gtpc
      BY <3>1
    <3>4. byID \subseteq 1..next
      BY DEF MgrTypeOK
    <3>5. IMSISound'
      BY <2>4, <3>3, <3>4 DEF IMSISound
    <3>6. MACSound'
      BY <2>4, <3>3, <3>4 DEF MACSound
    <3>7. TEIDSound'
      BY <2>4, <3>3, <3>4 DEF TEIDSound
    <3>8. QED BY <3>2, <3>5, <3>6, <3>7
  <2>5. CASE \E ip \in IP : SetSubscriberIP(id, ip)
    BY <2>4, <2>5 DEF SetSubscriberIP, OrNone
  <2>6. CASE \E ip \in OrNone(IP) : UpdateSubscriberIP(id, ip)
    BY <2>4, <2>6 DEF UpdateSubscriberIP
  <2>7. CASE \E bearer \in Bearer : ApplyPGWResult(id, bearer)
    <3> PICK bearer \in Bearer : ApplyPGWResult(id, bearer)
      BY <2>7
    <3>0. bearer.gtpc \in OrNone(TEID)
      BY InputAssumption DEF PGWBearer
    <3>1. /\ \A j \in 1..next : j # id => sess'[j] = sess[j]
          /\ sess'[id].imsi = sess[id].imsi /\ sess'[id].mac = sess[id].mac
          /\ sess'[id].ip = sess[id].ip /\ sess'[id].gtpc = bearer.gtpc
      BY <2>0 DEF ApplyPGWResult, MgrTypeOK, Session
    <3>2. TEIDSound'
      BY <2>0, <3>0, <3>1 DEF ApplyPGWResult, TEIDSound, MgrTypeOK, Put, Drop, OrNone, Session
    <3>3. IMSISound' /\ MACSound' /\ IPSound'
      BY <2>0, <3>1 DEF ApplyPGWResult, IMSISound, MACSound, IPSound, MgrTypeOK
    <3>4. QED BY <3>2, <3>3
  <2>8. CASE RecordGTPUError(id)
    BY <2>0, <2>8 DEF RecordGTPUError, MgrTypeOK, IMSISound, MACSound, IPSound, TEIDSound, Session
  <2>9. CASE Delete(id)
    <3>1. /\ \A j \in 1..next : j # id => sess'[j] = sess[j]
          /\ byID' = byID \ {id}
      BY <2>0, <2>9 DEF Delete, UnindexAll, SetState, MgrTypeOK
    <3>2. IMSISound'
      BY <2>0, <2>9, <3>1 DEF Delete, UnindexAll, MgrTypeOK, IMSISound
    <3>3. MACSound'
      BY <2>0, <2>9, <3>1 DEF Delete, UnindexAll, MgrTypeOK, MACSound
    <3>4. IPSound'
      BY <2>0, <2>9, <3>1 DEF Delete, UnindexAll, MgrTypeOK, IPSound
    <3>5. TEIDSound'
      BY <2>0, <2>9, <3>1 DEF Delete, UnindexAll, MgrTypeOK, TEIDSound
    <3>6. QED BY <3>2, <3>3, <3>4, <3>5
  <2>10. QED BY <2>1, <2>2, <2>3, <2>5, <2>6, <2>7, <2>8, <2>9 DEF SessionStep
<1>3. CASE \E D \in SUBSET byID : ExpireInactive(D)
  <2> PICK D \in SUBSET byID : ExpireInactive(D)
    BY <1>3
  <2>1. /\ \A j \in 1..next : j \notin D => sess'[j] = sess[j]
        /\ byID' = byID \ D
    BY DEF ExpireInactive, UnindexAll, MgrTypeOK
  <2>2. IMSISound'
    BY <2>1 DEF ExpireInactive, UnindexAll, MgrTypeOK, IMSISound
  <2>3. MACSound'
    BY <2>1 DEF ExpireInactive, UnindexAll, MgrTypeOK, MACSound
  <2>4. IPSound'
    BY <2>1 DEF ExpireInactive, UnindexAll, MgrTypeOK, IPSound
  <2>5. TEIDSound'
    BY <2>1 DEF ExpireInactive, UnindexAll, MgrTypeOK, TEIDSound
  <2>6. QED BY <2>2, <2>3, <2>4, <2>5
<1>4. CASE UNCHANGED mgrVars
  BY <1>4 DEF mgrVars, IMSISound, MACSound, IPSound, TEIDSound
<1>5. QED BY <1>1, <1>2, <1>3, <1>4 DEF MgrNext

\* Every lookup through an index returns a stored session that carries the
\* key it was looked up by.
THEOREM IndexesSound == MgrSpec => []IndexSound
<1>1. MgrInit => IndexSound
  BY DEF MgrInit, IndexSound, IMSISound, MACSound, IPSound, TEIDSound, NoSession
<1>2. QED BY <1>1, SoundStep, TypeCorrect, PTL DEF MgrSpec

-----------------------------------------------------------------------------
(* What a step does to one session. *)

\* The state part of the inductive invariant.
StateInv == GoneIsTerminated /\ AuthorizedBeforeService

\* A step on session id leaves the others alone, and moves id along a valid
\* transition that is Terminated only when id leaves the table.
SessionFrame(id) ==
  /\ next' = next
  /\ \A j \in 1..next : j # id => sess'[j] = sess[j]
  /\ validTransition(sess[id].state, sess'[id].state)
  /\ \/ byID' = byID /\ sess'[id].state # Terminated
     \/ byID' = byID \ {id} /\ sess'[id].state = Terminated
  /\ sess[id].authorized => sess'[id].authorized
  /\ sess'[id].state = Authorized => sess'[id].authorized \/ sess'[id].state = sess[id].state
  /\ sess'[id].mac = sess[id].mac

\* What an operation on one session leaves alone: the other sessions, and
\* the table except for the session itself.
LEMMA StepFrame ==
  ASSUME MgrTypeOK, GoneIsTerminated, NEW id \in byID, SessionStep(id)
  PROVE  SessionFrame(id)
<1>0. id \in 1..next /\ sess[id] \in Session /\ sess[id].state # Terminated
  BY DEF MgrTypeOK, GoneIsTerminated
<1>1. CASE \E to \in MarkTarget : Mark(id, to)
  BY <1>0, <1>1 DEF Mark, MarkTarget, CanTransition, SetState, SessionFrame, MgrTypeOK, Session,
     AuthPending, PGWPending, Active, Recovering, Terminating, Failed, Terminated, Authorized
<1>2. CASE MarkAuthorized(id)
  BY <1>0, <1>2 DEF MarkAuthorized, CanTransition, SessionFrame, MgrTypeOK, Session, Authorized, Terminated
<1>3. CASE \E imsi \in OrNone(IMSI), apn \in OrNone(APN) : ApplyAuthResult(id, imsi, apn)
  BY <1>0, <1>3 DEF ApplyAuthResult, CanTransition, SessionFrame, MgrTypeOK, Session, Authorized, Terminated
<1>4. CASE \E ip \in IP : SetSubscriberIP(id, ip)
  BY <1>0, <1>4 DEF SetSubscriberIP, CanTransition, SessionFrame, MgrTypeOK, Session, IPAllocated,
     Authorized, Terminated
<1>5. ASSUME UNCHANGED <<next, byID>>,
             \A j \in 1..next : j # id => sess'[j] = sess[j],
             sess'[id].state = sess[id].state,
             sess'[id].authorized = sess[id].authorized,
             sess'[id].mac = sess[id].mac
      PROVE  SessionFrame(id)
  BY <1>0, <1>5 DEF SessionFrame, validTransition
<1>6. CASE \E ip \in OrNone(IP) : UpdateSubscriberIP(id, ip)
  BY <1>0, <1>5, <1>6 DEF UpdateSubscriberIP, MgrTypeOK, Session
<1>7. CASE \E bearer \in Bearer : ApplyPGWResult(id, bearer)
  BY <1>0, <1>5, <1>7 DEF ApplyPGWResult, MgrTypeOK, Session
<1>8. CASE RecordGTPUError(id)
  BY <1>0, <1>5, <1>8 DEF RecordGTPUError, MgrTypeOK, Session
<1>9. CASE Delete(id)
  BY <1>0, <1>9 DEF Delete, UnindexAll, SetState, CanTransition, SessionFrame, MgrTypeOK, Session,
     Authorized, Terminated
<1>10. QED BY <1>1, <1>2, <1>3, <1>4, <1>6, <1>7, <1>8, <1>9 DEF SessionStep

\* What Create and ExpireInactive do to the table and to the states.
LEMMA CreateFrame ==
  ASSUME MgrTypeOK, NEW in \in Input, Create(in)
  PROVE  /\ next \in Nat /\ next' = next + 1 /\ byID' = byID \cup {next + 1}
         /\ \A j \in 1..next : sess'[j] = sess[j]
         /\ sess'[next + 1].state = Pending /\ sess'[next + 1].mac = in.mac
BY DEF Create, NewSession, MgrTypeOK

\* ExpireInactive takes sessions out of the table as Terminated ones.
LEMMA ExpireFrame ==
  ASSUME MgrTypeOK, NEW D \in SUBSET byID, ExpireInactive(D)
  PROVE  /\ next' = next /\ byID' = byID \ D
         /\ \A j \in 1..next : j \notin D => sess'[j] = sess[j]
         /\ \A j \in D : sess'[j].state = Terminated /\ sess'[j].mac = sess[j].mac
BY DEF ExpireInactive, UnindexAll, MgrTypeOK, Session

\* Only Terminated and Failed itself follow Failed, and only an authorized
\* state precedes the states of a session in service.
LEMMA TransitionFacts ==
  ASSUME NEW from \in State, NEW to \in State, validTransition(from, to)
  PROVE  /\ from = Failed => to = Failed
         /\ to \in {IPAllocated, PGWPending, Active, Recovering} =>
              from \in {Authorized, IPAllocated, PGWPending, Active, Recovering}
BY DEF validTransition, Successors, State, Pending, AuthPending, Authorized, IPAllocated,
   PGWPending, Active, Recovering, Terminating, Terminated, Failed

\* Authorization before service and Terminated exactly for what is gone are
\* inductive together.
LEMMA StateStep ==
  ASSUME MgrTypeOK, MgrTypeOK', StateInv, [MgrNext]_mgrVars
  PROVE  StateInv'
<1>1. CASE \E in \in Input : Create(in)
  <2> PICK in \in Input : Create(in)
    BY <1>1
  <2>1. GoneIsTerminated'
    BY CreateFrame DEF StateInv, GoneIsTerminated, MgrTypeOK, Pending, Terminated
  <2>2. AuthorizedBeforeService'
    BY CreateFrame DEF StateInv, AuthorizedBeforeService, MgrTypeOK, Pending, Authorized,
       IPAllocated, PGWPending, Active, Recovering
  <2>3. QED BY <2>1, <2>2 DEF StateInv
<1>2. CASE \E id \in 1..next : SessionStep(id)
  <2> PICK id \in byID : SessionStep(id)
    BY <1>2, StepIsStored
  <2>0. SessionFrame(id) /\ id \in 1..next
    BY StepFrame DEF StateInv, MgrTypeOK
  <2>1. GoneIsTerminated'
    BY <2>0 DEF SessionFrame, StateInv, GoneIsTerminated, MgrTypeOK
  <2>2. sess[id].state \in State /\ sess'[id].state \in State
    BY <2>0 DEF MgrTypeOK, SessionFrame, Session
  <2>3. sess'[id].state \in {Authorized, IPAllocated, PGWPending, Active, Recovering}
           => sess'[id].authorized
    BY <2>0, <2>2, TransitionFacts DEF SessionFrame, StateInv, AuthorizedBeforeService
  <2>4. AuthorizedBeforeService'
    BY <2>0, <2>3 DEF SessionFrame, StateInv, AuthorizedBeforeService, MgrTypeOK
  <2>5. QED BY <2>1, <2>4 DEF StateInv
<1>3. CASE \E D \in SUBSET byID : ExpireInactive(D)
  <2> PICK D \in SUBSET byID : ExpireInactive(D)
    BY <1>3
  <2>1. GoneIsTerminated'
    BY ExpireFrame DEF StateInv, GoneIsTerminated, MgrTypeOK
  <2>2. AuthorizedBeforeService'
    BY ExpireFrame DEF StateInv, AuthorizedBeforeService, MgrTypeOK
  <2>3. QED BY <2>1, <2>2 DEF StateInv
<1>4. CASE UNCHANGED mgrVars
  BY <1>4 DEF mgrVars, StateInv, GoneIsTerminated, AuthorizedBeforeService
<1>5. QED BY <1>1, <1>2, <1>3, <1>4 DEF MgrNext

\* The two invariants on states hold of the store.
LEMMA StateInvariant == MgrSpec => []StateInv
<1>1. MgrInit => StateInv
  BY DEF MgrInit, StateInv, GoneIsTerminated, AuthorizedBeforeService
<1>2. QED BY <1>1, StateStep, TypeCorrect, PTL DEF MgrSpec

\* No sequence of calls brings a session into service without the
\* authorization recorded by ApplyAuthResult or MarkAuthorized.
THEOREM ServiceIsAuthorized == MgrSpec => []AuthorizedBeforeService
<1>1. StateInv => AuthorizedBeforeService
  BY DEF StateInv
<1>2. QED BY <1>1, StateInvariant, PTL

\* A session is out of the table exactly when it is Terminated.
THEOREM GoneMeansTerminated == MgrSpec => []GoneIsTerminated
<1>1. StateInv => GoneIsTerminated
  BY DEF StateInv
<1>2. QED BY <1>1, StateInvariant, PTL

\* A session that left the table neither changes nor returns, and Failed is
\* final for as long as the session is stored.
THEOREM NoSessionResurrected == MgrSpec => NoResurrection
<1> DEFINE Kept == \A i \in 1..next :
       /\ i \notin byID => i \notin byID' /\ sess'[i] = sess[i]
       /\ sess[i].state = Failed /\ i \in byID' => sess'[i].state = Failed
<1>1. ASSUME MgrTypeOK, MgrTypeOK', StateInv, [MgrNext]_mgrVars
      PROVE  [Kept]_mgrVars
  <2>1. CASE \E in \in Input : Create(in)
    BY <1>1, <2>1, CreateFrame DEF MgrTypeOK
  <2>2. CASE \E id \in 1..next : SessionStep(id)
    <3> PICK id \in byID : SessionStep(id)
      BY <2>2, StepIsStored
    <3>0. SessionFrame(id) /\ id \in 1..next
      BY <1>1, StepFrame DEF StateInv, MgrTypeOK
    <3>1. sess[id].state \in State /\ sess'[id].state \in State
      BY <1>1, <3>0 DEF MgrTypeOK, SessionFrame, Session
    <3>2. sess[id].state = Failed => sess'[id].state = Failed
      BY <3>0, <3>1, TransitionFacts DEF SessionFrame
    <3>3. QED BY <1>1, <3>0, <3>2 DEF SessionFrame, MgrTypeOK
  <2>3. CASE \E D \in SUBSET byID : ExpireInactive(D)
    BY <1>1, <2>3, ExpireFrame DEF MgrTypeOK
  <2>4. CASE UNCHANGED mgrVars
    BY <2>4
  <2>5. QED BY <1>1, <2>1, <2>2, <2>3, <2>4 DEF MgrNext
<1>2. QED BY <1>1, StateInvariant, TypeCorrect, PTL DEF MgrSpec, NoResurrection

-----------------------------------------------------------------------------
(* A step only ever writes the byMAC entries of the MACs of the sessions it *)
(* works on, and a session keeps its MAC for life.                          *)

\* No operation on a session changes its MAC or hands its MAC's entry to
\* another session.
LEMMA MACFrame ==
  ASSUME MgrTypeOK, NEW id \in byID, SessionStep(id)
  PROVE  \/ byMAC' = byMAC
         \/ byMAC' = Put(byMAC, sess[id].mac, id)
         \/ /\ id \notin byID'
            /\ \A k \in MAC : k # sess[id].mac => byMAC'[k] = byMAC[k]
<1>1. CASE Delete(id)
  BY <1>1 DEF Delete, UnindexAll
<1>2. CASE \E imsi \in OrNone(IMSI), apn \in OrNone(APN) : ApplyAuthResult(id, imsi, apn)
  BY <1>2 DEF ApplyAuthResult
<1>3. CASE ~Delete(id) /\ ~\E imsi \in OrNone(IMSI), apn \in OrNone(APN) : ApplyAuthResult(id, imsi, apn)
  BY <1>3 DEF SessionStep, Mark, MarkAuthorized, SetSubscriberIP, UpdateSubscriberIP,
     ApplyPGWResult, RecordGTPUError
<1>4. QED BY <1>1, <1>2, <1>3

\* Every operation keeps a session with a MAC of its own under that MAC.
LEMMA UnsharedStep ==
  ASSUME MgrTypeOK, MgrTypeOK', StateInv, UnsharedMACFound, [MgrNext]_mgrVars
  PROVE  UnsharedMACFound'
<1> USE NoneAssumption
<1> SUFFICES ASSUME NEW i \in byID', sess'[i].mac # None,
                    \A j \in 1..next' : j # i => sess'[j].mac # sess'[i].mac
             PROVE  byMAC'[sess'[i].mac] = i
  BY DEF UnsharedMACFound
<1>0. i \in 1..next' /\ sess'[i].mac \in MAC
  BY DEF MgrTypeOK, Session, OrNone
<1>1. CASE \E in \in Input : Create(in)
  <2> PICK in \in Input : Create(in)
    BY <1>1
  <2>0. /\ next \in Nat /\ next' = next + 1 /\ byID' = byID \cup {next + 1}
        /\ \A j \in 1..next : sess'[j] = sess[j]
        /\ sess'[next + 1].mac = in.mac
        /\ byMAC' = Put(byMAC, in.mac, next + 1)
    BY CreateFrame DEF Create
  <2>1. CASE i = next + 1
    BY <1>0, <2>0, <2>1 DEF Put, MgrTypeOK
  <2>2. CASE i # next + 1
    <3>1. i \in byID /\ i \in 1..next /\ next + 1 \in 1..next'
      BY <1>0, <2>0, <2>2
    <3>2. in.mac # sess[i].mac /\ sess'[i] = sess[i]
      BY <2>0, <2>2, <3>1
    <3>3. \A j \in 1..next : j # i => sess[j].mac # sess[i].mac
      BY <2>0, <3>1
    <3>4. byMAC[sess[i].mac] = i
      BY <3>1, <3>2, <3>3 DEF UnsharedMACFound
    <3>5. byMAC'[sess[i].mac] = byMAC[sess[i].mac]
      <4>1. CASE in.mac = None
        BY <2>0, <4>1 DEF Put
      <4>2. CASE in.mac # None
        BY <1>0, <2>0, <3>2, <4>2 DEF Put, MgrTypeOK
      <4>3. QED BY <4>1, <4>2
    <3>6. QED BY <3>2, <3>4, <3>5
  <2>3. QED BY <2>1, <2>2
<1>2. CASE \E id \in 1..next : SessionStep(id)
  <2> PICK id \in byID : SessionStep(id)
    BY <1>2, StepIsStored
  <2>0. SessionFrame(id) /\ id \in 1..next
    BY StepFrame DEF StateInv, MgrTypeOK
  <2>1. next' = next /\ i \in byID /\ \A j \in 1..next : sess'[j].mac = sess[j].mac
    BY <2>0 DEF SessionFrame
  <2>2. byMAC[sess[i].mac] = i /\ sess'[i].mac = sess[i].mac
    BY <1>0, <2>1 DEF UnsharedMACFound
  <2>3. CASE id = i
    BY <1>0, <2>1, <2>2, <2>3, MACFrame DEF Put, MgrTypeOK
  <2>4. CASE id # i
    <3>1. sess[id].mac # sess[i].mac
      BY <2>0, <2>1, <2>4, <1>0
    <3>2. byMAC'[sess[i].mac] = byMAC[sess[i].mac]
      BY <1>0, <2>1, <2>2, <3>1, MACFrame DEF Put, MgrTypeOK
    <3>3. QED BY <2>2, <3>2
  <2>5. QED BY <2>3, <2>4
<1>3. CASE \E D \in SUBSET byID : ExpireInactive(D)
  <2> PICK D \in SUBSET byID : ExpireInactive(D)
    BY <1>3
  <2>1. /\ next' = next /\ i \in byID /\ i \notin D
        /\ \A j \in 1..next : sess'[j].mac = sess[j].mac
    <3>1. /\ next' = next /\ byID' = byID \ D
          /\ \A j \in 1..next : j \notin D => sess'[j] = sess[j]
          /\ \A j \in D : sess'[j].state = Terminated /\ sess'[j].mac = sess[j].mac
      BY ExpireFrame
    <3>2. QED BY <3>1
  <2>2. byMAC[sess[i].mac] = i /\ sess'[i].mac = sess[i].mac
    BY <1>0, <2>1 DEF UnsharedMACFound
  <2>3. \A d \in D : sess[d].mac # sess[i].mac
    BY <1>0, <2>1 DEF MgrTypeOK
  <2>4. QED BY <1>0, <2>2, <2>3 DEF ExpireInactive, UnindexAll
<1>4. CASE UNCHANGED mgrVars
  BY <1>4 DEF mgrVars, UnsharedMACFound
<1>5. QED BY <1>1, <1>2, <1>3, <1>4 DEF MgrNext

\* A session with a MAC of its own is always found by DHCP, ARP and the
\* accounting handler, whatever is created, deleted or expired around it.
THEOREM UnsharedMACIsFound == MgrSpec => []UnsharedMACFound
<1>1. MgrInit => UnsharedMACFound
  BY DEF MgrInit, UnsharedMACFound
<1>2. QED BY <1>1, UnsharedStep, StateInvariant, TypeCorrect, PTL DEF MgrSpec
=============================================================================
