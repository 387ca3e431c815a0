-------------------------- MODULE Lifecycle_proofs --------------------------
(***************************************************************************)
(* Proofs about the lifecycle service, for any subscribers, goroutines,    *)
(* setups and faults: when nothing is at work no session is left half way  *)
(* and every lock is free, a subscriber lock excludes, and the service     *)
(* uses the session store only as the store's specification allows.        *)
(*                                                                         *)
(* LInv is the inductive invariant.  Acts says what a step of one          *)
(* goroutine may do to what it shares with the others; ActsKeep shows that *)
(* this keeps LInv, the lemmas called ...Acts show it for each action, and *)
(* the lemmas called ...Moves what an action does to the locals of its     *)
(* goroutine.                                                              *)
(***************************************************************************)
EXTENDS Lifecycle, SessionManager_proofs

\* Where a goroutine is before it has the lock or after it has returned it, ...
Outside == {"idle", "lock", "done", "next", "shutdown", "acct_stop", "gtpu_error",
            "gtpu_record", "pgw_delete", "aaa_disconnect"}

\* ... where it relies on what it has read before, ...
Informed == {"find", "create", "update_ip", "apply_pgw", "install", "user_add"}

\* ... and everywhere else.
Plain == Label \ (Outside \cup Informed)

\* A goroutine at l will bring a session in state st further: no other has to.
Tending(l, st) ==
  \/ st = Pending /\ l = "auth_pending"
  \/ st = AuthPending /\ l = "authorize"
  \/ st = Authorized /\ l = "pgw_pending"
  \/ st = PGWPending /\ l \in {"check_imsi", "check_mac", "pgw_create", "update_ip", "apply_pgw",
                               "install", "user_add", "mark_active", "undo_route", "undo_pgw",
                               "fail"}
  \/ st = Recovering /\ l = "terminate"
  \/ st = Terminating /\ l \in {"del_pgw", "del_route", "del_user", "del_access", "del_session",
                                "hung"}

\* p will bring session i further.
Tends(p, i) == job[p].id = i /\ Tending(job[p].pc, sess[i].state)

\* A session is in service, has failed, or a goroutine will bring it further.
Settled == {Active, Failed}

\* This is so for every stored session.
Tended == \A i \in byID : sess[i].state \notin Settled => \E p \in Proc : Tends(p, i)

\* What the locals of goroutine p are, by the place where it is.
Knows(p) ==
  LET j == job[p]
  IN /\ j.id \in 0..next
     /\ j.pc # "idle" => j.ev \in setup.events[p]
     /\ j.pc \in Outside /\ j.pc # "lock" => j.key = None /\ j.then = "done"
     /\ j.pc \in {"find", "create"} \/ j.then \in {"find", "create"} => j.ev.kind = "attach"
     /\ j.pc = "lock" => /\ j.then \in {"find", "acct_recheck", "gtpu_recheck", "terminate"}
                         /\ j.key \in LockKey
     /\ j.pc \in {"pgw_delete", "aaa_disconnect"} => j.ev.kind = j.pc
     /\ j.pc \in {"update_ip", "apply_pgw"} => j.bearer \in {Answer(t) : t \in TEID}
     /\ j.pc \in {"install", "user_add"} => j.c.ip \in IP

\* So does every goroutine.
Known == \A p \in Proc : Knows(p)

\* p is in the section that the lock of k protects.
Inside(p, k) == job[p].key = k /\ job[p].pc \notin Outside

\* The owner of a lock is the goroutine in the section it protects.
Held == \A k \in LockKey, p \in Proc : lock[k] = p <=> Inside(p, k)

\* The inductive invariant.  NoHalfOpen speaks of a quiet service only; that it
\* comes to be so needs to be known of every session while it is worked on
\* (Tended), and of every lock (Held).  Known is what the calls on the store need.
LInv == LcTypeOK /\ Known /\ Held /\ Tended
-----------------------------------------------------------------------------
\* Goroutine p alone changes its job.
Turns(p) == job' \in [Proc -> Job] /\ \A q \in Proc : q # p => job'[q] = job[q]

\* What the service has at the PGW and in the kernel.
EnvOK == /\ ctx \subseteq Context /\ route \subseteq IP /\ rule \subseteq IP
         /\ pdp \in [IP -> 0..next] /\ neigh \in [IP -> OrNone(MAC)]

\* No session is left alone: one that p does not bring further is settled, or is
\* as it was and was not p's.
Hands(p) ==
  \A i \in byID' :
    \/ sess'[i].state \in Settled
    \/ Tends(p, i)'
    \/ i \in byID /\ sess'[i].state = sess[i].state /\ ~Tends(p, i)

\* p takes a lock that is free, gives its own back, or keeps what it has.
LockKept(p) == lock' = lock /\ \A k \in LockKey : Inside(p, k)' <=> Inside(p, k)

LockTaken(p) ==
  \E k \in LockKey : /\ lock[k] = None /\ lock' = [lock EXCEPT ![k] = p]
                     /\ job[p].pc \in Outside /\ Inside(p, k)'

LockGiven(p) ==
  \E k \in LockKey : /\ Inside(p, k) /\ lock' = [lock EXCEPT ![k] = None]
                     /\ job'[p].pc \in Outside

\* What a step of goroutine p does.
Acts(p) ==
  /\ Turns(p) /\ setup' = setup
  /\ [MgrNext]_mgrVars
  /\ EnvOK'
  /\ Knows(p)'
  /\ Hands(p)
  /\ LockKept(p) \/ LockTaken(p) \/ LockGiven(p)

\* The store only adds sessions.
LEMMA NextGrows ==
  ASSUME MgrTypeOK, [MgrNext]_mgrVars
  PROVE  next' \in Nat /\ next \in Nat /\ next <= next'
<1>1. CASE \E in \in Input : Create(in)
  BY <1>1 DEF Create, MgrTypeOK
<1>2. CASE \E id \in 1..next : SessionStep(id)
  <2>1. next' = next
    BY <1>2, Zenon DEF SessionStep, Mark, MarkAuthorized, ApplyAuthResult, SetSubscriberIP,
       UpdateSubscriberIP, ApplyPGWResult, RecordGTPUError, Delete
  <2> QED BY <2>1 DEF MgrTypeOK
<1>3. CASE \E D \in SUBSET byID : ExpireInactive(D)
  BY <1>3 DEF ExpireInactive, MgrTypeOK
<1>4. CASE UNCHANGED mgrVars
  BY <1>4 DEF mgrVars, MgrTypeOK
<1> QED BY <1>1, <1>2, <1>3, <1>4 DEF MgrNext

\* What the other goroutines know stays true: sessions are only added.
LEMMA ActsKnown ==
  ASSUME LInv, NEW p \in Proc, Acts(p)
  PROVE  Known'
<1> SUFFICES ASSUME NEW q \in Proc, q # p PROVE Knows(q)'
  BY DEF Known, Acts
<1>1. job'[q] = job[q] /\ setup' = setup /\ Knows(q)
  BY DEF Acts, Turns, LInv, Known
<1>2. next \in Nat /\ next' \in Nat /\ next <= next'
  BY NextGrows DEF LInv, LcTypeOK, Acts
<1>3. job[q].id \in 0..next'
  BY <1>1, <1>2 DEF Knows
<1> QED BY <1>1, <1>3 DEF Knows

\* A lock is taken when it is free and given back by its owner.
LEMMA ActsHeld ==
  ASSUME LInv, NEW p \in Proc, Acts(p)
  PROVE  Held'
<1>0. /\ Held /\ lock \in [LockKey -> OrNone(Proc)] /\ None \notin Proc
      /\ \A q \in Proc : q # p => \A k \in LockKey : Inside(q, k)' <=> Inside(q, k)
  BY SetupsAssumption DEF LInv, LcTypeOK, Acts, Turns, Inside
<1>1. CASE LockKept(p)
  BY <1>0, <1>1 DEF LockKept, Held
<1>2. CASE LockTaken(p)
  <2> PICK k \in LockKey : /\ lock[k] = None /\ lock' = [lock EXCEPT ![k] = p]
                           /\ job[p].pc \in Outside /\ Inside(p, k)'
    BY <1>2 DEF LockTaken
  <2>1. \A q \in Proc : ~Inside(q, k)
    BY <1>0 DEF Held
  <2>2. \A h \in LockKey : ~Inside(p, h) /\ (Inside(p, h)' <=> h = k)
    BY DEF Inside
  <2> QED BY <1>0, <2>1, <2>2 DEF Held
<1>3. CASE LockGiven(p)
  <2> PICK k \in LockKey : /\ Inside(p, k) /\ lock' = [lock EXCEPT ![k] = None]
                           /\ job'[p].pc \in Outside
    BY <1>3 DEF LockGiven
  <2>1. \A h \in LockKey : ~Inside(p, h)' /\ (Inside(p, h) <=> h = k)
    BY DEF Inside
  <2> QED BY <1>0, <2>1 DEF Held
<1> QED BY <1>1, <1>2, <1>3 DEF Acts

\* A session that p leaves unsettled is tended by p or was tended by another, who
\* has not moved.
LEMMA ActsTended ==
  ASSUME LInv, NEW p \in Proc, Acts(p)
  PROVE  Tended'
<1> SUFFICES ASSUME NEW i \in byID', sess'[i].state \notin Settled
             PROVE  \E q \in Proc : Tends(q, i)'
  BY DEF Tended
<1>1. CASE Tends(p, i)'
  BY <1>1
<1>2. CASE i \in byID /\ sess'[i].state = sess[i].state /\ ~Tends(p, i)
  <2>1. PICK q \in Proc : Tends(q, i)
    BY <1>2 DEF LInv, Tended
  <2>2. q # p /\ job'[q] = job[q]
    BY <1>2, <2>1 DEF Acts, Turns
  <2> QED BY <1>2, <2>1, <2>2 DEF Tends
<1> QED BY <1>1, <1>2 DEF Acts, Hands

\* A step of a goroutine keeps the invariant.
LEMMA ActsKeep ==
  ASSUME LInv, NEW p \in Proc, Acts(p)
  PROVE  LInv'
<1>1. MgrTypeOK'
  BY TypeStep DEF LInv, LcTypeOK, Acts
<1>2. lock' \in [LockKey -> OrNone(Proc)]
  BY DEF LInv, LcTypeOK, Acts, LockKept, LockTaken, LockGiven, OrNone
<1>3. LcTypeOK'
  BY <1>1, <1>2 DEF LInv, LcTypeOK, Acts, Turns, EnvOK
<1> QED BY <1>3, ActsKnown, ActsHeld, ActsTended DEF LInv
-----------------------------------------------------------------------------
(* Updates of a job. *)

\* An assignment to the locals of p.
LEMMA Rewrites ==
  ASSUME job \in [Proc -> Job], NEW p \in Proc, NEW r \in Job, job' = [job EXCEPT ![p] = r]
  PROVE  Turns(p) /\ job'[p] = r
BY DEF Turns

\* The locals keep their types, field by field.
LEMMA JobFields ==
  ASSUME NEW j \in Job
  PROVE  /\ \A v \in Label : [j EXCEPT !.pc = v] \in Job /\ [j EXCEPT !.then = v] \in Job
         /\ \A v \in Event : [j EXCEPT !.ev = v] \in Job
         /\ \A v \in Nat : [j EXCEPT !.id = v] \in Job
         /\ \A v \in Session : [j EXCEPT !.c = v] \in Job
         /\ \A v \in OrNone(LockKey) : [j EXCEPT !.key = v] \in Job
         /\ \A v \in BOOLEAN : [j EXCEPT !.err = v] \in Job /\ [j EXCEPT !.expired = v] \in Job
         /\ \A v \in {"none", "accept", "blocked", "error"} : [j EXCEPT !.out = v] \in Job
         /\ \A v \in OrNone(IP) : [j EXCEPT !.ip = v] \in Job
         /\ \A v \in PGWBearer : [j EXCEPT !.bearer = v] \in Job
         /\ \A v \in SUBSET Nat : [j EXCEPT !.todo = v] \in Job
<1>1. \A v \in Label : [j EXCEPT !.pc = v] \in Job /\ [j EXCEPT !.then = v] \in Job
  BY DEF Job
<1>2. \A v \in Event : [j EXCEPT !.ev = v] \in Job
  BY DEF Job
<1>3. \A v \in Nat : [j EXCEPT !.id = v] \in Job
  BY DEF Job
<1>4. \A v \in Session : [j EXCEPT !.c = v] \in Job
  BY DEF Job
<1>5. \A v \in OrNone(LockKey) : [j EXCEPT !.key = v] \in Job
  BY DEF Job
<1>6. \A v \in BOOLEAN : [j EXCEPT !.err = v] \in Job /\ [j EXCEPT !.expired = v] \in Job
  BY DEF Job
<1>7. \A v \in {"none", "accept", "blocked", "error"} : [j EXCEPT !.out = v] \in Job
  BY DEF Job
<1>8. \A v \in OrNone(IP) : [j EXCEPT !.ip = v] \in Job
  BY DEF Job
<1>9. \A v \in PGWBearer : [j EXCEPT !.bearer = v] \in Job
  BY DEF Job
<1>10. \A v \in SUBSET Nat : [j EXCEPT !.todo = v] \in Job
  BY DEF Job
<1> QED BY <1>1, <1>2, <1>3, <1>4, <1>5, <1>6, <1>7, <1>8, <1>9, <1>10

\* Goroutine p goes on to l, with its session, its event and its lock.
Moved(p, l) ==
  /\ Turns(p) /\ job'[p].pc = l
  /\ job'[p].id = job[p].id /\ job'[p].ev = job[p].ev /\ job'[p].key = job[p].key
  /\ job'[p].then \in {job[p].then, "unlock"}

\* The labels by kind.
LEMMA LabelFacts ==
  /\ Plain \subseteq Label
  /\ \A l \in {"auth_pending", "authorize", "pgw_pending", "check_imsi", "check_mac",
               "pgw_create", "mark_active", "access_add", "validate", "undo_user", "undo_route",
               "undo_pgw", "fail", "terminate", "del_pgw", "del_route", "del_user", "del_access",
               "del_session", "unlock", "acct_recheck", "gtpu_recheck", "mark_recovering",
               "hung"} : l \in Plain
  /\ Outside \subseteq Label /\ Informed \subseteq Label /\ Outside \cap Informed = {}
BY DEF Plain, Label, Outside, Informed

\* p goes on and changes nothing else.
LEMMA GotoMoves ==
  ASSUME job \in [Proc -> Job], NEW p \in Proc, NEW l \in Label, Goto(p, l)
  PROVE  /\ Moved(p, l) /\ job'[p].c = job[p].c /\ job'[p].bearer = job[p].bearer
         /\ job'[p].expired = job[p].expired /\ job'[p].out = job[p].out
<1> DEFINE r == [job[p] EXCEPT !.pc = l]
<1>1. r \in Job /\ job' = [job EXCEPT ![p] = r]
  BY JobFields DEF Goto
<1>2. /\ r.pc = l /\ r.id = job[p].id /\ r.ev = job[p].ev /\ r.key = job[p].key
      /\ r.then = job[p].then /\ r.c = job[p].c /\ r.bearer = job[p].bearer
      /\ r.expired = job[p].expired /\ r.out = job[p].out
  BY DEF Job
<1> HIDE DEF r
<1> QED BY <1>1, <1>2, Rewrites DEF Moved

\* p goes on with the copy that the store returned.
LEMMA GotoWithMoves ==
  ASSUME job \in [Proc -> Job], NEW p \in Proc, NEW l \in Label, NEW s \in Session,
         GotoWith(p, l, s)
  PROVE  /\ Moved(p, l) /\ job'[p].c = s /\ job'[p].bearer = job[p].bearer
         /\ job'[p].expired = job[p].expired /\ job'[p].out = job[p].out
<1> DEFINE r == [job[p] EXCEPT !.pc = l, !.c = s]
<1>1. r \in Job
  BY JobFields
<1>2. job' = [job EXCEPT ![p] = r]
  BY DEF GotoWith
<1>3. /\ r.pc = l /\ r.id = job[p].id /\ r.ev = job[p].ev /\ r.key = job[p].key
      /\ r.then = job[p].then /\ r.c = s /\ r.bearer = job[p].bearer
      /\ r.expired = job[p].expired /\ r.out = job[p].out
  BY DEF Job
<1> HIDE DEF r
<1> QED BY <1>1, <1>2, <1>3, Rewrites DEF Moved

\* p goes on with a result.
LEMMA OutMoves ==
  ASSUME job \in [Proc -> Job], NEW p \in Proc, NEW l \in Label,
         NEW o \in {"none", "accept", "blocked", "error"},
         job' = [job EXCEPT ![p].pc = l, ![p].out = o]
  PROVE  /\ Moved(p, l) /\ job'[p].c = job[p].c
         /\ job'[p].expired = job[p].expired /\ job'[p].out = o
<1> DEFINE r == [job[p] EXCEPT !.pc = l, !.out = o]
<1>1. r \in Job
  BY JobFields
<1>2. job' = [job EXCEPT ![p] = r]
  OBVIOUS
<1>3. /\ r.pc = l /\ r.id = job[p].id /\ r.ev = job[p].ev /\ r.key = job[p].key
      /\ r.then = job[p].then /\ r.c = job[p].c /\ r.expired = job[p].expired
      /\ r.out = o
  BY DEF Job
<1> HIDE DEF r
<1> QED BY <1>1, <1>2, <1>3, Rewrites DEF Moved

\* p goes on with an error or without, and a result.
LEMMA ErrOutMoves ==
  ASSUME job \in [Proc -> Job], NEW p \in Proc, NEW l \in Label, NEW e \in BOOLEAN,
         NEW o \in {"none", "accept", "blocked", "error"},
         job' = [job EXCEPT ![p].pc = l, ![p].err = e, ![p].out = o]
  PROVE  /\ Moved(p, l) /\ job'[p].c = job[p].c
         /\ job'[p].expired = job[p].expired /\ job'[p].out = o
<1> DEFINE r == [job[p] EXCEPT !.pc = l, !.err = e, !.out = o]
<1>1. r \in Job
  BY JobFields
<1>2. job' = [job EXCEPT ![p] = r]
  OBVIOUS
<1>3. /\ r.pc = l /\ r.id = job[p].id /\ r.ev = job[p].ev /\ r.key = job[p].key
      /\ r.then = job[p].then /\ r.c = job[p].c /\ r.expired = job[p].expired
      /\ r.out = o
  BY DEF Job
<1> HIDE DEF r
<1> QED BY <1>1, <1>2, <1>3, Rewrites DEF Moved

\* p goes on with an error or without.
LEMMA ErrMoves ==
  ASSUME job \in [Proc -> Job], NEW p \in Proc, NEW l \in Label, NEW e \in BOOLEAN,
         job' = [job EXCEPT ![p].pc = l, ![p].err = e]
  PROVE  /\ Moved(p, l) /\ job'[p].c = job[p].c
         /\ job'[p].expired = job[p].expired /\ job'[p].out = job[p].out
<1> DEFINE r == [job[p] EXCEPT !.pc = l, !.err = e]
<1>1. r \in Job
  BY JobFields
<1>2. job' = [job EXCEPT ![p] = r]
  OBVIOUS
<1>3. /\ r.pc = l /\ r.id = job[p].id /\ r.ev = job[p].ev /\ r.key = job[p].key
      /\ r.then = job[p].then /\ r.c = job[p].c /\ r.expired = job[p].expired
      /\ r.out = job[p].out
  BY DEF Job
<1> HIDE DEF r
<1> QED BY <1>1, <1>2, <1>3, Rewrites DEF Moved

\* p goes on and its deadline has passed.
LEMMA ExpiredMoves ==
  ASSUME job \in [Proc -> Job], NEW p \in Proc, NEW l \in Label,
         job' = [job EXCEPT ![p].pc = l, ![p].expired = TRUE]
  PROVE  Moved(p, l)
<1> DEFINE r == [job[p] EXCEPT !.pc = l, !.expired = TRUE]
<1>1. r \in Job
  BY JobFields
<1>2. job' = [job EXCEPT ![p] = r]
  OBVIOUS
<1>3. /\ r.pc = l /\ r.id = job[p].id /\ r.ev = job[p].ev /\ r.key = job[p].key
      /\ r.then = job[p].then
  BY DEF Job
<1> HIDE DEF r
<1> QED BY <1>1, <1>2, <1>3, Rewrites DEF Moved

\* p goes on with an error and its deadline has passed.
LEMMA ErrExpiredMoves ==
  ASSUME job \in [Proc -> Job], NEW p \in Proc, NEW l \in Label,
         job' = [job EXCEPT ![p].pc = l, ![p].err = TRUE, ![p].expired = TRUE]
  PROVE  Moved(p, l)
<1> DEFINE r == [job[p] EXCEPT !.pc = l, !.err = TRUE, !.expired = TRUE]
<1>1. r \in Job
  BY JobFields
<1>2. job' = [job EXCEPT ![p] = r]
  OBVIOUS
<1>3. /\ r.pc = l /\ r.id = job[p].id /\ r.ev = job[p].ev /\ r.key = job[p].key
      /\ r.then = job[p].then
  BY DEF Job
<1> HIDE DEF r
<1> QED BY <1>1, <1>2, <1>3, Rewrites DEF Moved

\* p is going to tear down the session it has just read.
LEMMA ThenMoves ==
  ASSUME job \in [Proc -> Job], NEW p \in Proc, NEW l \in Label, NEW s \in Session,
         job' = [job EXCEPT ![p].pc = l, ![p].then = "unlock", ![p].c = s]
  PROVE  /\ Moved(p, l) /\ job'[p].c = s
         /\ job'[p].expired = job[p].expired /\ job'[p].out = job[p].out
         /\ job'[p].then = "unlock"
<1> DEFINE r == [job[p] EXCEPT !.pc = l, !.then = "unlock", !.c = s]
<1>0. "unlock" \in Label
  BY DEF Label
<1>1. r \in Job
  BY <1>0, JobFields
<1>2. job' = [job EXCEPT ![p] = r]
  OBVIOUS
<1>3. /\ r.pc = l /\ r.id = job[p].id /\ r.ev = job[p].ev /\ r.key = job[p].key
      /\ r.then = "unlock" /\ r.c = s /\ r.expired = job[p].expired
      /\ r.out = job[p].out
  BY DEF Job
<1> HIDE DEF r
<1> QED BY <1>1, <1>2, <1>3, Rewrites DEF Moved

\* p is going to tear down its own session and return an error.
LEMMA ThenOutMoves ==
  ASSUME job \in [Proc -> Job], NEW p \in Proc, NEW l \in Label,
         job' = [job EXCEPT ![p].pc = l, ![p].then = "unlock", ![p].out = "error"]
  PROVE  /\ Moved(p, l) /\ job'[p].c = job[p].c
         /\ job'[p].expired = job[p].expired /\ job'[p].out = "error"
<1> DEFINE r == [job[p] EXCEPT !.pc = l, !.then = "unlock", !.out = "error"]
<1>0. "unlock" \in Label
  BY DEF Label
<1>1. r \in Job
  BY <1>0, JobFields
<1>2. job' = [job EXCEPT ![p] = r]
  OBVIOUS
<1>3. /\ r.pc = l /\ r.id = job[p].id /\ r.ev = job[p].ev /\ r.key = job[p].key
      /\ r.then = "unlock" /\ r.c = job[p].c /\ r.expired = job[p].expired
      /\ r.out = "error"
  BY DEF Job
<1> HIDE DEF r
<1> QED BY <1>1, <1>2, <1>3, Rewrites DEF Moved

\* p returns an error.
LEMMA FailMoves ==
  ASSUME job \in [Proc -> Job], NEW p \in Proc, Fail(p)
  PROVE  Moved(p, "unlock")
BY ErrOutMoves DEF Fail, Label
-----------------------------------------------------------------------------
(* Steps of a goroutine inside a protected section that leave the store alone. *)

\* p still tends what it has tended.
Stays(p) == \A i \in byID : Tends(p, i) => Tends(p, i)'

\* What the service has installed keeps its types while the store grows.
LEMMA EnvKept ==
  ASSUME LInv, UNCHANGED envVars, next' \in Nat, next <= next'
  PROVE  EnvOK' /\ setup' = setup
<1>1. next \in Nat /\ pdp \in [IP -> 0..next]
  BY DEF LInv, LcTypeOK, MgrTypeOK
<1>2. pdp \in [IP -> 0..next']
  BY <1>1
<1> QED BY <1>2 DEF LInv, LcTypeOK, EnvOK, envVars

\* With the store as it is, p leaves nothing alone as long as it tends what it did.
LEMMA StaysHands ==
  ASSUME LInv, NEW p \in Proc, UNCHANGED mgrVars, Stays(p)
  PROVE  Hands(p)
BY DEF mgrVars, Stays, Hands

\* At most labels a goroutine need only know its event and its session.
LEMMA KnowsPlain ==
  ASSUME LInv, NEW p \in Proc, job[p].pc # "idle", setup' = setup,
         job'[p].pc \in Plain, job'[p].id \in 0..next', job'[p].ev = job[p].ev,
         job'[p].then \in {"find", "create"} => job[p].ev.kind = "attach"
  PROVE  Knows(p)'
<1>1. job'[p].ev \in setup'.events[p]
  BY DEF LInv, Known, Knows
<1>2. job'[p].pc \notin Outside \cup Informed
  BY DEF Plain
<1> QED BY <1>1, <1>2 DEF Knows, Outside, Informed

\* So a goroutine that goes on to such a label still knows them.
LEMMA MovedKnows ==
  ASSUME LInv, NEW p \in Proc, NEW l \in Plain, Moved(p, l), job[p].pc \notin Outside,
         setup' = setup, next' \in Nat, next <= next'
  PROVE  Knows(p)'
<1>1. job[p].id \in 0..next /\ (job[p].then \in {"find", "create"} => job[p].ev.kind = "attach")
  BY DEF LInv, Known, Knows
<1>2. job'[p].id \in 0..next'
  BY <1>1 DEF Moved, LInv, LcTypeOK, MgrTypeOK
<1>3. job[p].pc # "idle"
  BY DEF Outside
<1> QED BY <1>1, <1>2, <1>3, KnowsPlain DEF Moved

\* Going on inside the protected section keeps the lock.
LEMMA MovedLock ==
  ASSUME NEW p \in Proc, NEW l \in Label \ Outside, Moved(p, l), job[p].pc \notin Outside,
         lock' = lock
  PROVE  LockKept(p)
BY DEF Moved, LockKept, Inside

\* A step of a goroutine in its section that leaves the store alone.
LEMMA MovedActs ==
  ASSUME LInv, NEW p \in Proc, NEW l \in Plain, Moved(p, l), job[p].pc \notin Outside,
         UNCHANGED <<mgrVars, lock>>, setup' = setup, EnvOK', Stays(p)
  PROVE  Acts(p)
<1>1. next' = next /\ next \in Nat
  BY DEF mgrVars, LInv, LcTypeOK, MgrTypeOK
<1>2. Knows(p)'
  BY <1>1, MovedKnows
<1>3. LockKept(p)
  BY MovedLock DEF Plain
<1> QED BY <1>2, <1>3, StaysHands DEF Acts, Moved

\* The types of what a step leaves alone.
LEMMA Unchanged ==
  ASSUME LInv, UNCHANGED mgrVars
  PROVE  /\ next' = next /\ next \in Nat /\ byID' = byID /\ sess' = sess
         /\ EnvOK /\ job \in [Proc -> Job] /\ next <= next' /\ next' \in Nat
BY DEF mgrVars, LInv, LcTypeOK, EnvOK, MgrTypeOK

\* findLiveSessionDifferentFrom: on a hit the session is marked failed by its own
\* attach.
LEMMA FindLiveActs ==
  ASSUME LInv, NEW p \in Proc, findLiveSessionDifferentFrom(p)
  PROVE  Acts(p)
<1> DEFINE S(l, l2) == /\ At(p, l) /\ UNCHANGED <<mgrVars, lock, envVars>>
                       /\ \/ job' = [job EXCEPT ![p].pc = "fail", ![p].out = "blocked"]
                          \/ Goto(p, l2)
<1>1. S("check_imsi", "check_mac") \/ S("check_mac", "pgw_create")
  BY DEF findLiveSessionDifferentFrom, findLiveSession
<1>2. UNCHANGED <<mgrVars, lock, envVars>> /\ job[p].pc \in {"check_imsi", "check_mac"}
  BY <1>1 DEF At
<1>3. Moved(p, "fail") \/ Moved(p, "check_mac") \/ Moved(p, "pgw_create")
  BY <1>1, <1>2, Unchanged, GotoMoves, OutMoves, LabelFacts
<1>4. Stays(p)
  BY <1>2, <1>3, Unchanged DEF Stays, Tends, Tending, Moved
<1>5. EnvOK' /\ setup' = setup /\ job[p].pc \notin Outside
  BY <1>2, Unchanged, EnvKept DEF Outside
<1> HIDE DEF S
<1> QED BY <1>2, <1>3, <1>4, <1>5, MovedActs, LabelFacts

\* The context the PGW makes.
LEMMA ContextAdded ==
  ASSUME EnvOK, NEW c \in Session, NEW ip \in OrNone(IP), NEW teid \in TEID,
         PGWAccepts(c, ip, teid)
  PROVE  ctx' \subseteq Context
<1>1. [sub |-> Sub(c), teid |-> teid, ip |-> ip] \in Context
  BY DEF Context, Sub, Session
<1> QED BY <1>1 DEF PGWAccepts, EnvOK

\* The answer of the PGW.
Hears(p, ip, b) ==
  job' = [job EXCEPT ![p].pc = "update_ip", ![p].ip = ip, ![p].bearer = b]

\* p goes on with it.
LEMMA AnswerMoves ==
  ASSUME job \in [Proc -> Job], NEW p \in Proc, NEW ip \in OrNone(IP), NEW b \in PGWBearer,
         Hears(p, ip, b)
  PROVE  /\ Moved(p, "update_ip") /\ job'[p].bearer = b /\ job'[p].then = job[p].then
         /\ job'[p].ip = ip /\ job'[p].c = job[p].c
         /\ job'[p].expired = job[p].expired /\ job'[p].out = job[p].out
<1> DEFINE r == [job[p] EXCEPT !.pc = "update_ip", !.ip = ip, !.bearer = b]
<1>0. "update_ip" \in Label
  BY DEF Label
<1>1. r \in Job
  BY <1>0, JobFields
<1>2. job' = [job EXCEPT ![p] = r]
  BY DEF Hears
<1>3. /\ r.pc = "update_ip" /\ r.id = job[p].id /\ r.ev = job[p].ev /\ r.key = job[p].key
      /\ r.then = job[p].then /\ r.bearer = b
      /\ r.ip = ip /\ r.c = job[p].c /\ r.expired = job[p].expired /\ r.out = job[p].out
  BY DEF Job
<1> HIDE DEF r
<1> QED BY <1>1, <1>2, <1>3, Rewrites DEF Moved

\* pgw.CreateSession: accepted, refused or lost, the attach still has the session.
LEMMA CreateActs ==
  ASSUME LInv, NEW p \in Proc, pgwCreateSession(p)
  PROVE  Acts(p)
<1>1. /\ UNCHANGED <<mgrVars, lock>> /\ UNCHANGED <<route, rule, pdp, neigh, setup>>
      /\ job[p].pc = "pgw_create" /\ UNCHANGED mgrVars
  BY DEF pgwCreateSession, At
<1>2. /\ job[p].c \in Session /\ None \in OrNone(IP) /\ IP \subseteq OrNone(IP)
      /\ job[p].pc \notin Outside
  BY <1>1, Unchanged DEF Job, OrNone, Outside
<1>3. ctx' \subseteq Context => EnvOK'
  BY <1>1, Unchanged DEF EnvOK
<1>4. CASE \E ip \in OrNone(IP), teid \in TEID :
             /\ PGWAccepts(job[p].c, ip, teid)
             /\ job' = [job EXCEPT ![p].pc = "update_ip", ![p].ip = ip, ![p].bearer = Answer(teid)]
  <2> PICK ip \in OrNone(IP), teid \in TEID :
             /\ PGWAccepts(job[p].c, ip, teid)
             /\ job' = [job EXCEPT ![p].pc = "update_ip", ![p].ip = ip, ![p].bearer = Answer(teid)]
    BY <1>4
  <2>0. Answer(teid) \in PGWBearer
    BY DEF Answer, PGWBearer, OrNone
  <2> PICK b \in PGWBearer : b = Answer(teid)
    BY <2>0
  <2>7. Hears(p, ip, b)
    BY DEF Hears
  <2>1. /\ Moved(p, "update_ip") /\ job'[p].bearer = b /\ job'[p].then = job[p].then
        /\ job'[p].ip = ip /\ job'[p].c = job[p].c
        /\ job'[p].expired = job[p].expired /\ job'[p].out = job[p].out
    BY <1>1, <2>7, Unchanged, AnswerMoves
  <2>2. Knows(p)'
    BY <1>1, <2>1, Unchanged DEF Knows, Moved, LInv, Known, Outside
  <2>3. EnvOK'
    BY <1>1, <1>2, <1>3, Unchanged, ContextAdded
  <2>4. Stays(p)
    BY <1>1, <2>1, Unchanged DEF Stays, Tends, Tending, Moved
  <2>5. Hands(p)
    BY <1>1, <2>4, StaysHands
  <2>6. LockKept(p)
    BY <1>1, <1>2, <2>1, MovedLock DEF Label, Outside
  <2> QED BY <1>1, <2>1, <2>2, <2>3, <2>5, <2>6 DEF Acts, Moved
<1>5. ASSUME Moved(p, "fail"), ctx' \subseteq Context PROVE Acts(p)
  <2>1. Stays(p)
    BY <1>1, <1>5, Unchanged DEF Stays, Tends, Tending, Moved
  <2> QED BY <1>1, <1>2, <1>3, <1>5, <2>1, MovedActs, LabelFacts
<1>6. CASE Goto(p, "fail") /\ UNCHANGED ctx
  BY <1>1, <1>5, <1>6, Unchanged, GotoMoves, LabelFacts DEF EnvOK
<1>7. CASE /\ \E ip \in IP, teid \in TEID : PGWAccepts(job[p].c, ip, teid)
           /\ job' = [job EXCEPT ![p].pc = "fail", ![p].expired = TRUE]
  <2>1. ctx' \subseteq Context
    BY <1>1, <1>2, <1>7, Unchanged, ContextAdded
  <2>2. Moved(p, "fail")
    BY <1>1, <1>7, Unchanged, ExpiredMoves, LabelFacts
  <2> QED BY <1>5, <2>1, <2>2
<1> QED BY <1>4, <1>6, <1>7 DEF pgwCreateSession, OrNone

\* routing.Install.
LEMMA InstallActs ==
  ASSUME LInv, NEW p \in Proc, routingInstall(p)
  PROVE  Acts(p)
<1>1. /\ UNCHANGED <<mgrVars, lock>> /\ UNCHANGED <<ctx, rule, pdp, neigh, setup>>
      /\ job[p].pc = "install" /\ UNCHANGED mgrVars
  BY DEF routingInstall, At
<1>2. job[p].c.ip \in IP /\ job[p].pc \notin Outside
  BY <1>1 DEF LInv, Known, Knows, Outside
<1>3. CASE route' = route \cup {job[p].c.ip} /\ Goto(p, "user_add")
  <2>1. Moved(p, "user_add") /\ job'[p].c = job[p].c
    BY <1>1, <1>3, Unchanged, GotoMoves DEF Label
  <2>2. EnvOK'
    BY <1>1, <1>2, <1>3, Unchanged DEF EnvOK
  <2>3. Knows(p)'
    BY <1>1, <1>2, <2>1, Unchanged DEF Knows, Moved, LInv, Known, Outside
  <2>4. Stays(p)
    BY <1>1, <2>1, Unchanged DEF Stays, Tends, Tending, Moved
  <2>5. LockKept(p)
    BY <1>1, <1>2, <2>1, MovedLock DEF Label, Outside
  <2> QED BY <1>1, <2>1, <2>2, <2>3, <2>4, <2>5, StaysHands DEF Acts, Moved
<1>4. CASE Goto(p, "undo_pgw") /\ UNCHANGED route
  <2>1. Moved(p, "undo_pgw")
    BY <1>1, <1>4, Unchanged, GotoMoves, LabelFacts
  <2>2. EnvOK'
    BY <1>1, <1>4, Unchanged DEF EnvOK
  <2>3. Stays(p)
    BY <1>1, <2>1, Unchanged DEF Stays, Tends, Tending, Moved
  <2> QED BY <1>1, <1>2, <2>1, <2>2, <2>3, MovedActs, LabelFacts
<1> QED BY <1>3, <1>4 DEF routingInstall

\* user.AddSession.
LEMMA UserAddActs ==
  ASSUME LInv, NEW p \in Proc, userAddSession(p)
  PROVE  Acts(p)
<1>1. /\ UNCHANGED <<mgrVars, lock>> /\ UNCHANGED <<ctx, route, neigh, setup>>
      /\ job[p].pc = "user_add" /\ UNCHANGED mgrVars
  BY DEF userAddSession, At
<1>2. job[p].c.ip \in IP /\ job[p].id \in 0..next /\ job[p].pc \notin Outside
  BY <1>1 DEF LInv, Known, Knows, Outside
<1>3. CASE /\ pdp' = [pdp EXCEPT ![job[p].c.ip] = IF @ = NoSession THEN job[p].id ELSE @]
           /\ rule' = rule \cup {job[p].c.ip} /\ Goto(p, "mark_active")
  <2>1. Moved(p, "mark_active")
    BY <1>1, <1>3, Unchanged, GotoMoves, LabelFacts
  <2>2. EnvOK'
    BY <1>1, <1>2, <1>3, Unchanged DEF EnvOK
  <2>3. Stays(p)
    BY <1>1, <2>1, Unchanged DEF Stays, Tends, Tending, Moved
  <2> QED BY <1>1, <1>2, <2>1, <2>2, <2>3, MovedActs, LabelFacts
<1>4. CASE Goto(p, "undo_route") /\ UNCHANGED <<pdp, rule>>
  <2>1. Moved(p, "undo_route")
    BY <1>1, <1>4, Unchanged, GotoMoves, LabelFacts
  <2>2. EnvOK'
    BY <1>1, <1>4, Unchanged DEF EnvOK
  <2>3. Stays(p)
    BY <1>1, <2>1, Unchanged DEF Stays, Tends, Tending, Moved
  <2> QED BY <1>1, <1>2, <2>1, <2>2, <2>3, MovedActs, LabelFacts
<1> QED BY <1>3, <1>4 DEF userAddSession

\* access.AddSession; the session is active by then.
LEMMA AccessAddActs ==
  ASSUME LInv, NEW p \in Proc, accessAddSession(p)
  PROVE  Acts(p)
<1>1. /\ UNCHANGED <<mgrVars, lock>> /\ UNCHANGED <<ctx, route, rule, pdp, setup>>
      /\ job[p].pc = "access_add" /\ UNCHANGED mgrVars
  BY DEF accessAddSession, At
<1>2. job[p].c.mac \in OrNone(MAC) /\ job[p].pc \notin Outside
  BY <1>1, Unchanged DEF Job, Session, Outside
<1>3. Moved(p, "validate") \/ Moved(p, "undo_user")
  BY <1>1, Unchanged, GotoMoves, LabelFacts DEF accessAddSession
<1>4. neigh' \in [IP -> OrNone(MAC)]
  BY <1>1, <1>2, Unchanged DEF accessAddSession, EnvOK
<1>5. EnvOK'
  BY <1>1, <1>4, Unchanged DEF EnvOK
<1>6. Stays(p)
  BY <1>1, <1>3, Unchanged DEF Stays, Tends, Tending, Moved
<1> QED BY <1>1, <1>2, <1>3, <1>5, <1>6, MovedActs, LabelFacts

\* validatePostActivation: the session is accepted, or torn down.
LEMMA ValidateActs ==
  ASSUME LInv, NEW p \in Proc, validatePostActivation(p)
  PROVE  Acts(p)
<1>1. /\ UNCHANGED <<mgrVars, lock, envVars>> /\ UNCHANGED mgrVars
      /\ job[p].pc = "validate" /\ job[p].pc \notin Outside
  BY DEF validatePostActivation, At, Outside
<1>2. Moved(p, "unlock") \/ Moved(p, "terminate")
  BY <1>1, Unchanged, OutMoves, ThenOutMoves, LabelFacts DEF validatePostActivation
<1>3. Stays(p)
  BY <1>1, <1>2, Unchanged DEF Stays, Tends, Tending, Moved
<1>4. EnvOK' /\ setup' = setup
  BY <1>1, Unchanged, EnvKept
<1> QED BY <1>1, <1>2, <1>3, <1>4, MovedActs, LabelFacts

\* What is removed from the kernel and the PGW.
LEMMA Removals ==
  ASSUME EnvOK, NEW s \in Session, NEW i, next \in Nat
  PROVE  /\ UserRemove(s, i) => rule' \subseteq IP /\ pdp' \in [IP -> 0..next]
         /\ RouteRemove(s) => route' \subseteq IP
         /\ \A t : PGWDelete(t) => ctx' \subseteq Context
BY DEF EnvOK, UserRemove, RouteRemove, PGWDelete, NoSession

\* The rollback of an attach ends in MarkFailed whatever fails in it.
LEMMA UndoActs ==
  ASSUME LInv, NEW p \in Proc, undoUser(p) \/ undoRoute(p) \/ undoPGW(p)
  PROVE  Acts(p)
<1>1. /\ UNCHANGED <<mgrVars, lock>> /\ setup' = setup /\ UNCHANGED mgrVars
      /\ job[p].pc \in {"undo_user", "undo_route", "undo_pgw"} /\ job[p].pc \notin Outside
  BY DEF undoUser, undoRoute, undoPGW, At, Outside
<1>2. job[p].c \in Session
  BY <1>1, Unchanged DEF Job
<1>3. EnvOK'
  <2>1. CASE undoUser(p)
    BY <1>1, <1>2, <2>1, Unchanged, Removals DEF undoUser, EnvOK
  <2>2. CASE undoRoute(p)
    BY <1>1, <1>2, <2>2, Unchanged, Removals DEF undoRoute, EnvOK
  <2>3. CASE undoPGW(p)
    BY <1>1, <1>2, <2>3, Unchanged, Removals DEF undoPGW, EnvOK
  <2> QED BY <2>1, <2>2, <2>3
<1>4. \/ job[p].pc = "undo_user" /\ Moved(p, "undo_route")
      \/ job[p].pc = "undo_route" /\ Moved(p, "undo_pgw")
      \/ job[p].pc = "undo_pgw" /\ Moved(p, "fail")
  BY <1>1, Unchanged, GotoMoves, ExpiredMoves, LabelFacts DEF undoUser, undoRoute, undoPGW, At
<1>5. Stays(p)
  BY <1>1, <1>4, Unchanged DEF Stays, Tends, Tending, Moved
<1> QED BY <1>1, <1>3, <1>4, <1>5, MovedActs, LabelFacts

\* The steps of a detach go on to the next whatever fails in them, or hang.
LEMMA DetachActs ==
  ASSUME LInv, NEW p \in Proc,
         detachPGW(p) \/ detachRoute(p) \/ detachUser(p) \/ detachAccess(p)
  PROVE  Acts(p)
<1>1. /\ UNCHANGED <<mgrVars, lock>> /\ setup' = setup /\ UNCHANGED mgrVars
      /\ job[p].pc \in {"del_pgw", "del_route", "del_user", "del_access"}
      /\ job[p].pc \notin Outside
  BY DEF detachPGW, detachRoute, detachUser, detachAccess, At, Outside
<1>2. job[p].c \in Session /\ job[p].err \in BOOLEAN /\ job[p].expired \in BOOLEAN
  BY <1>1, Unchanged DEF Job
<1>3. EnvOK'
  <2>1. CASE detachPGW(p)
    BY <1>1, <1>2, <2>1, Unchanged, Removals DEF detachPGW, EnvOK
  <2>2. CASE detachRoute(p)
    BY <1>1, <1>2, <2>2, Unchanged, Removals DEF detachRoute, EnvOK
  <2>3. CASE detachUser(p)
    BY <1>1, <1>2, <2>3, Unchanged, Removals DEF detachUser, EnvOK
  <2>4. CASE detachAccess(p)
    BY <1>1, <1>2, <2>4, Unchanged DEF detachAccess, EnvOK, OrNone
  <2> QED BY <2>1, <2>2, <2>3, <2>4
<1>4. \E l \in {"del_route", "del_user", "del_access", "del_session", "hung"} : Moved(p, l)
  <2>1. CASE detachPGW(p)
    BY <1>1, <2>1, Unchanged, ErrMoves, ErrExpiredMoves, GotoMoves, LabelFacts DEF detachPGW
  <2>2. CASE detachRoute(p)
    <3>1. PICK e \in BOOLEAN : job' = [job EXCEPT ![p].pc = "del_user", ![p].err = e]
      BY <1>1, <2>2, Unchanged DEF detachRoute
    <3> QED BY <1>1, <3>1, Unchanged, ErrMoves, LabelFacts
  <2>3. CASE detachUser(p)
    <3>1. PICK e \in BOOLEAN : job' = [job EXCEPT ![p].pc = "del_access", ![p].err = e]
      BY <1>1, <2>3, Unchanged DEF detachUser
    <3> QED BY <1>1, <3>1, Unchanged, ErrMoves, LabelFacts
  <2>4. CASE detachAccess(p)
    <3>1. PICK e \in BOOLEAN : job' = [job EXCEPT ![p].pc = "del_session", ![p].err = e]
      BY <1>1, <2>4, Unchanged DEF detachAccess
    <3> QED BY <1>1, <3>1, Unchanged, ErrMoves, LabelFacts
  <2> QED BY <2>1, <2>2, <2>3, <2>4
<1>5. Stays(p)
  BY <1>1, <1>4, Unchanged DEF Stays, Tends, Tending, Moved
<1> QED BY <1>1, <1>3, <1>4, <1>5, MovedActs, LabelFacts

\* Under the lock the session is read again, and left alone or torn down.
LEMMA RecheckActs ==
  ASSUME LInv, NEW p \in Proc, recheckAccountingStop(p) \/ recheckGTPUError(p)
  PROVE  Acts(p)
<1>1. /\ UNCHANGED <<mgrVars, lock, envVars>> /\ UNCHANGED mgrVars
      /\ job[p].pc \in {"acct_recheck", "gtpu_recheck"} /\ job[p].pc \notin Outside
  BY DEF recheckAccountingStop, recheckGTPUError, At, Outside
<1>2. \A i \in byID : sess[i] \in Session
  BY DEF LInv, LcTypeOK, MgrTypeOK
<1>3. \E l \in {"terminate", "mark_recovering", "unlock"} : Moved(p, l)
  BY <1>1, <1>2, Unchanged, GotoMoves, ThenMoves, LabelFacts
  DEF recheckAccountingStop, recheckGTPUError
<1>4. Stays(p)
  BY <1>1, Unchanged DEF Stays, Tends, Tending
<1>5. EnvOK' /\ setup' = setup
  BY <1>1, Unchanged, EnvKept
<1> QED BY <1>1, <1>3, <1>4, <1>5, MovedActs, LabelFacts
-----------------------------------------------------------------------------
(* Steps that change the store. *)

\* An operation on session id of the store is one of its specification.
LEMMA StoreSteps ==
  ASSUME LInv, NEW id, SessionStep(id)
  PROVE  /\ [MgrNext]_mgrVars /\ MgrTypeOK' /\ id \in byID /\ id \in 1..next /\ next \in Nat
         /\ MgrTypeOK
<1>1. id \in byID /\ MgrTypeOK
  BY StepIsStored DEF LInv, LcTypeOK
<1>2. id \in 1..next /\ next \in Nat
  BY <1>1 DEF MgrTypeOK
<1>3. MgrNext
  BY <1>2 DEF MgrNext
<1> QED BY <1>1, <1>2, <1>3, TypeStep

\* What a transition of the store does.
LEMMA Marked ==
  ASSUME LInv, NEW id, NEW to \in MarkTarget, Mark(id, to)
  PROVE  /\ [MgrNext]_mgrVars /\ id \in byID /\ byID' = byID /\ next' = next /\ next \in Nat
         /\ sess'[id].state = to /\ sess'[id] \in Session
         /\ \A j \in byID : j # id => sess'[j] = sess[j]
<1>1. SessionStep(id)
  BY DEF SessionStep
<1>2. /\ [MgrNext]_mgrVars /\ MgrTypeOK' /\ id \in byID /\ id \in 1..next /\ next \in Nat
      /\ MgrTypeOK
  BY <1>1, StoreSteps
<1>3. byID' = byID /\ next' = next /\ sess' = [sess EXCEPT ![id].state = to]
  BY DEF Mark, SetState
<1>4. sess'[id] \in Session
  BY <1>2, <1>3 DEF MgrTypeOK
<1>5. sess'[id].state = to /\ \A j \in byID : j # id => sess'[j] = sess[j]
  BY <1>2, <1>3 DEF MgrTypeOK, Session
<1> QED BY <1>2, <1>3, <1>4, <1>5

\* A step on p's session after which p tends it, or nobody has to.
LEMMA HandsOwn ==
  ASSUME NEW p \in Proc, NEW i, i = job[p].id, byID' \subseteq byID,
         \A j \in byID : j # i => sess'[j].state = sess[j].state,
         \/ i \notin byID'
         \/ sess'[i].state \in Settled
         \/ Tends(p, i)'
         \/ sess'[i].state = sess[i].state /\ ~Tends(p, i)
  PROVE  Hands(p)
<1> SUFFICES ASSUME NEW k \in byID'
             PROVE  \/ sess'[k].state \in Settled
                    \/ Tends(p, k)'
                    \/ k \in byID /\ sess'[k].state = sess[k].state /\ ~Tends(p, k)
  BY DEF Hands
<1>1. CASE k = i
  BY <1>1
<1>2. CASE k # i
  BY <1>2 DEF Tends
<1> QED BY <1>1, <1>2

\* A transition after which p tends the session, or nobody has to.
LEMMA MarkActs ==
  ASSUME LInv, NEW p \in Proc, NEW to \in MarkTarget, NEW l \in Plain,
         Mark(job[p].id, to), Moved(p, l), job[p].pc \notin Outside,
         UNCHANGED <<lock, envVars>>, to \in Settled \/ Tending(l, to)
  PROVE  Acts(p)
<1>1. /\ [MgrNext]_mgrVars /\ job[p].id \in byID /\ byID' = byID /\ next' = next /\ next \in Nat
      /\ sess'[job[p].id].state = to
      /\ \A j \in byID : j # job[p].id => sess'[j] = sess[j]
  BY Marked
<1>2. EnvOK' /\ setup' = setup
  BY <1>1, EnvKept
<1>3. Knows(p)'
  BY <1>1, <1>2, MovedKnows
<1>4. LockKept(p)
  BY MovedLock DEF Plain
<1>5. PICK i \in byID : i = job[p].id
  BY <1>1
<1>6. Hands(p)
  <2>1. Tending(l, to) => Tends(p, i)'
    BY <1>1, <1>5 DEF Tends, Moved
  <2>2. sess'[i].state = to /\ \A j \in byID : j # i => sess'[j].state = sess[j].state
    BY <1>1, <1>5
  <2> QED BY <1>1, <1>5, <2>1, <2>2, HandsOwn
<1> QED BY <1>1, <1>2, <1>3, <1>4, <1>6 DEF Acts, Moved

\* A step that the store refuses.
LEMMA RefusedActs ==
  ASSUME LInv, NEW p \in Proc, NEW l \in Plain, Moved(p, l), job[p].pc \notin Outside,
         UNCHANGED mgrVars, UNCHANGED <<lock, envVars>>, Stays(p)
  PROVE  Acts(p)
BY Unchanged, EnvKept, MovedActs

\* The transitions from the state that a goroutine tends are valid.
LEMMA NextStates ==
  /\ validTransition(Pending, AuthPending) /\ validTransition(AuthPending, Authorized)
  /\ validTransition(Authorized, PGWPending) /\ validTransition(PGWPending, Active)
  /\ validTransition(PGWPending, Failed) /\ validTransition(Recovering, Terminating)
  /\ validTransition(Terminating, Terminated)
BY DEF validTransition, Successors, Pending, AuthPending, Authorized, IPAllocated, PGWPending,
   Active, Recovering, Terminating, Terminated, Failed

\* A transition of p's session with the handling of its error.
LEMMA TransitionActs ==
  ASSUME LInv, NEW p \in Proc, NEW to \in MarkTarget, NEW ok \in Plain, NEW bad,
         Transition(p, to, ok, bad), job[p].pc \notin Outside, to \in Settled \/ Tending(ok, to),
         ASSUME bad, UNCHANGED mgrVars, ~CanTransition(job[p].id, to)
         PROVE  Stays(p) /\ \E l \in Plain : Moved(p, l)
  PROVE  Acts(p)
<1>0. job \in [Proc -> Job] /\ ok \in Label
  BY DEF LInv, LcTypeOK, Plain
<1>1. CASE Mark(job[p].id, to) /\ GotoWith(p, ok, sess'[job[p].id]) /\ UNCHANGED <<lock, envVars>>
  <2>1. sess'[job[p].id] \in Session
    BY <1>1, Marked
  <2>2. Moved(p, ok)
    BY <1>0, <1>1, <2>1, GotoWithMoves
  <2> QED BY <1>1, <2>2, MarkActs
<1>2. CASE /\ ~CanTransition(job[p].id, to) /\ bad /\ UNCHANGED mgrVars
           /\ UNCHANGED <<lock, envVars>>
  BY <1>2, RefusedActs
<1> QED BY <1>1, <1>2 DEF Transition

\* MarkAuthPending, MarkPGWPending and MarkActive: they are refused only if another
\* goroutine has moved the session on, and then that one tends it.
LEMMA MarkStepActs ==
  ASSUME LInv, NEW p \in Proc,
         markAuthPending(p) \/ markPGWPending(p) \/ markActive(p)
  PROVE  Acts(p)
<1>0. job \in [Proc -> Job] /\ "unlock" \in Plain
  BY LabelFacts DEF LInv, LcTypeOK
<1>1. ASSUME Fail(p), UNCHANGED mgrVars, ~\E i \in byID : Tends(p, i)
      PROVE  Stays(p) /\ \E l \in Plain : Moved(p, l)
  BY <1>0, <1>1, FailMoves DEF Stays
<1>2. CASE markAuthPending(p)
  <2>1. ~CanTransition(job[p].id, AuthPending) => ~\E i \in byID : Tends(p, i)
    BY <1>2, NextStates DEF markAuthPending, At, CanTransition, Tends, Tending
  <2>2. /\ AuthPending \in MarkTarget /\ Tending("authorize", AuthPending)
        /\ job[p].pc \notin Outside /\ Transition(p, AuthPending, "authorize", Fail(p))
    BY <1>2 DEF MarkTarget, Tending, Outside, At, markAuthPending
  <2> QED BY <1>1, <2>1, <2>2, TransitionActs, LabelFacts
<1>3. CASE markPGWPending(p)
  <2>1. ~CanTransition(job[p].id, PGWPending) => ~\E i \in byID : Tends(p, i)
    BY <1>3, NextStates DEF markPGWPending, At, CanTransition, Tends, Tending
  <2>2. /\ PGWPending \in MarkTarget /\ Tending("check_imsi", PGWPending)
        /\ job[p].pc \notin Outside /\ Transition(p, PGWPending, "check_imsi", Fail(p))
    BY <1>3 DEF MarkTarget, Tending, Outside, At, markPGWPending
  <2> QED BY <1>1, <2>1, <2>2, TransitionActs, LabelFacts
<1>4. CASE markActive(p)
  <2>1. ~CanTransition(job[p].id, Active) => ~\E i \in byID : Tends(p, i)
    BY <1>4, NextStates DEF markActive, At, CanTransition, Tends, Tending
  <2>2. /\ Active \in MarkTarget /\ Active \in Settled
        /\ job[p].pc \notin Outside /\ Transition(p, Active, "access_add", Fail(p))
    BY <1>4 DEF MarkTarget, Settled, Outside, At, markActive
  <2> QED BY <1>1, <2>1, <2>2, TransitionActs, LabelFacts
<1> QED BY <1>2, <1>3, <1>4

\* MarkRecovering, whose error is ignored: the teardown goes on.
LEMMA RecoveringActs ==
  ASSUME LInv, NEW p \in Proc, markRecovering(p)
  PROVE  Acts(p)
<1>0. job \in [Proc -> Job] /\ "terminate" \in Plain /\ job[p].pc = "mark_recovering"
  BY LabelFacts DEF LInv, LcTypeOK, markRecovering, At
<1>1. ASSUME Goto(p, "terminate"), UNCHANGED mgrVars
      PROVE  Stays(p) /\ \E l \in Plain : Moved(p, l)
  BY <1>0, <1>1, GotoMoves, LabelFacts DEF Stays, Tends, Tending
<1>2. /\ Recovering \in MarkTarget /\ Tending("terminate", Recovering)
      /\ job[p].pc \notin Outside /\ Transition(p, Recovering, "terminate", Goto(p, "terminate"))
  BY <1>0 DEF MarkTarget, Tending, Outside, At, markRecovering
<1> QED BY <1>0, <1>1, <1>2, TransitionActs

\* The end of a detach: the goroutine returns, or an attach goes on.
LEMMA DetachedMoves ==
  ASSUME LInv, NEW p \in Proc, NEW e \in BOOLEAN, Detached(p, e)
  PROVE  /\ \/ Moved(p, "unlock")
            \/ /\ Moved(p, "create") /\ job[p].then = "create" /\ ~e
               /\ job'[p].then \in {"create", "unlock"}
         /\ job'[p].expired = job[p].expired /\ job'[p].out \in {job[p].out, "error"}
<1>0. job \in [Proc -> Job] /\ "unlock" \in Label /\ "create" \in Label /\ FALSE \in BOOLEAN
  BY DEF LInv, LcTypeOK, Label
<1>1. job[p].out \in {"none", "accept", "blocked", "error"}
  BY <1>0 DEF Job
<1> DEFINE o == IF e THEN "error" ELSE job[p].out
<1>2. o \in {"none", "accept", "blocked", "error"}
  BY <1>1
<1>6. o \in {job[p].out, "error"}
  OBVIOUS
<1>3. job' = [job EXCEPT ![p].pc = AfterDetach(p, e), ![p].err = FALSE, ![p].out = o]
  BY <1>0 DEF Detached, Job
<1>4. \/ AfterDetach(p, e) = "create" /\ job[p].then = "create" /\ ~e
      \/ AfterDetach(p, e) = "unlock"
  BY DEF AfterDetach
<1> HIDE DEF o
<1>5. /\ Moved(p, AfterDetach(p, e)) /\ job'[p].expired = job[p].expired
      /\ job'[p].out = o
  <2>1. PICK l \in Label : l = AfterDetach(p, e)
    BY <1>0, <1>4
  <2>2. job' = [job EXCEPT ![p].pc = l, ![p].err = FALSE, ![p].out = o]
    BY <1>3, <2>1
  <2> HIDE DEF AfterDetach
  <2> QED BY <1>0, <1>2, <2>1, <2>2, ErrOutMoves
<1> QED BY <1>4, <1>5, <1>6 DEF Moved

\* p goes on with the attach after the session it replaces is gone.
LEMMA ResumesKnows ==
  ASSUME LInv, NEW p \in Proc, job[p].then = "create", Moved(p, "create"), job[p].pc \notin Outside,
         setup' = setup, next' = next
  PROVE  Knows(p)' /\ (lock' = lock => LockKept(p))
<1>1. /\ job[p].id \in 0..next /\ job[p].ev.kind = "attach" /\ job[p].pc # "idle"
      /\ job[p].ev \in setup.events[p]
  BY DEF LInv, Known, Knows, Outside
<1>2. Knows(p)'
  BY <1>1 DEF Knows, Moved, Outside
<1>3. lock' = lock => LockKept(p)
  BY MovedLock DEF Label, Outside
<1> QED BY <1>2, <1>3

\* MarkTerminating: refused only for a session that has failed or is gone.
LEMMA TerminatingActs ==
  ASSUME LInv, NEW p \in Proc, markTerminating(p)
  PROVE  Acts(p)
<1>0. /\ job \in [Proc -> Job] /\ "del_pgw" \in Plain /\ job[p].pc = "terminate"
      /\ job[p].pc \notin Outside
  BY LabelFacts DEF LInv, LcTypeOK, markTerminating, At, Outside
<1>1. CASE /\ Mark(job[p].id, Terminating) /\ GotoWith(p, "del_pgw", sess'[job[p].id])
           /\ UNCHANGED <<lock, envVars>>
  <2>0. Terminating \in MarkTarget /\ Tending("del_pgw", Terminating)
    BY DEF MarkTarget, Tending
  <2>1. sess'[job[p].id] \in Session
    BY <1>1, <2>0, Marked
  <2>2. Moved(p, "del_pgw")
    BY <1>0, <1>1, <2>1, GotoWithMoves, LabelFacts
  <2> QED BY <1>0, <1>1, <2>0, <2>2, MarkActs
<1>2. CASE /\ ~CanTransition(job[p].id, Terminating) /\ Detached(p, TRUE) /\ UNCHANGED mgrVars
           /\ UNCHANGED <<lock, envVars>>
  <2>1. ~\E i \in byID : Tends(p, i)
    BY <1>0, <1>2, NextStates DEF CanTransition, Tends, Tending
  <2>2. Stays(p)
    BY <2>1 DEF Stays
  <2>3. CASE Moved(p, "unlock")
    BY <1>0, <1>2, <2>2, <2>3, RefusedActs, LabelFacts
  <2>4. CASE Moved(p, "create") /\ job[p].then = "create"
    <3>1. EnvOK' /\ setup' = setup /\ next' = next
      BY <1>2, Unchanged, EnvKept
    <3>2. Knows(p)' /\ LockKept(p)
      BY <1>0, <1>2, <2>4, <3>1, ResumesKnows
    <3> QED BY <1>2, <2>2, <2>4, <3>1, <3>2, StaysHands DEF Acts, Moved
  <2> QED BY <1>2, <2>3, <2>4, DetachedMoves
<1> QED BY <1>1, <1>2 DEF markTerminating, Transition

\* store.Delete at the end of a detach.
LEMMA DeleteActs ==
  ASSUME LInv, NEW p \in Proc, deleteSession(p)
  PROVE  Acts(p)
<1>0. /\ job \in [Proc -> Job] /\ job[p].pc = "del_session" /\ job[p].pc \notin Outside
      /\ UNCHANGED <<lock, envVars>> /\ Detached(p, job[p].err) /\ job[p].err \in BOOLEAN
  BY DEF LInv, LcTypeOK, deleteSession, At, Outside, Job
<1>1. /\ [MgrNext]_mgrVars /\ next' = next /\ next \in Nat /\ Hands(p)
  <2>1. CASE Delete(job[p].id)
    <3>1. SessionStep(job[p].id)
      BY <2>1 DEF SessionStep
    <3>2. [MgrNext]_mgrVars /\ next \in Nat /\ job[p].id \in 1..next /\ MgrTypeOK
      BY <3>1, StoreSteps
    <3>3. /\ next' = next /\ byID' = byID \ {job[p].id}
          /\ sess' = [sess EXCEPT ![job[p].id].state = Terminated]
      BY <2>1 DEF Delete, UnindexAll, SetState
    <3>4. \A j \in byID : j # job[p].id => sess'[j].state = sess[j].state
      BY <3>2, <3>3 DEF MgrTypeOK
    <3>5. Hands(p)
      <4>1. PICK i \in 1..next : i = job[p].id
        BY <3>2
      <4> QED BY <3>3, <3>4, <4>1, HandsOwn
    <3> QED BY <3>2, <3>3, <3>5
  <2>2. CASE ~CanTransition(job[p].id, Terminated) /\ UNCHANGED mgrVars
    <3>1. ~\E i \in byID : Tends(p, i)
      BY <1>0, <2>2, NextStates DEF CanTransition, Tends, Tending
    <3>2. Stays(p)
      BY <3>1 DEF Stays
    <3> QED BY <2>2, <3>2, Unchanged, StaysHands
  <2> QED BY <2>1, <2>2 DEF deleteSession
<1>2. EnvOK' /\ setup' = setup
  BY <1>0, <1>1, EnvKept
<1>3. CASE Moved(p, "unlock")
  <2>1. Knows(p)' /\ LockKept(p)
    BY <1>0, <1>1, <1>2, <1>3, MovedKnows, MovedLock, LabelFacts DEF Plain
  <2> QED BY <1>1, <1>2, <1>3, <2>1 DEF Acts, Moved
<1>4. CASE Moved(p, "create") /\ job[p].then = "create"
  <2>1. Knows(p)' /\ LockKept(p)
    BY <1>0, <1>1, <1>2, <1>4, ResumesKnows
  <2> QED BY <1>1, <1>2, <1>4, <2>1 DEF Acts, Moved
<1> QED BY <1>0, <1>3, <1>4, DetachedMoves

\* ApplyAuthResult.
LEMMA AuthorizeActs ==
  ASSUME LInv, NEW p \in Proc, applyAuthResult(p)
  PROVE  Acts(p)
<1>0. /\ job \in [Proc -> Job] /\ job[p].pc = "authorize" /\ job[p].pc \notin Outside
      /\ UNCHANGED <<lock, envVars>>
  BY DEF LInv, LcTypeOK, applyAuthResult, At, Outside
<1>1. CASE /\ ApplyAuthResult(job[p].id, job[p].ev.imsi, job[p].ev.apn)
           /\ GotoWith(p, "pgw_pending", sess'[job[p].id])
  <2>0. PICK i : i = job[p].id
    OBVIOUS
  <2>1. job[p].ev.imsi \in OrNone(IMSI) /\ job[p].ev.apn \in OrNone(APN)
    BY <1>0 DEF Job, Event
  <2>2. SessionStep(i)
    BY <1>1, <2>0, <2>1 DEF SessionStep
  <2>3. /\ [MgrNext]_mgrVars /\ MgrTypeOK' /\ i \in byID /\ i \in 1..next /\ next \in Nat
        /\ MgrTypeOK
    BY <2>2, StoreSteps
  <2>4. /\ next' = next /\ byID' = byID
        /\ \E s : sess' = [sess EXCEPT ![i] = [s EXCEPT !.state = Authorized]]
    BY <1>1, <2>0 DEF ApplyAuthResult
  <2>5. sess'[i] \in Session
    BY <2>3, <2>4 DEF MgrTypeOK
  <2>6. Moved(p, "pgw_pending")
    BY <1>0, <1>1, <2>0, <2>5, GotoWithMoves, LabelFacts
  <2>7. sess'[i].state = Authorized
    <3> DEFINE u == [sess[i] EXCEPT !.imsi = Coalesce(job[p].ev.imsi, sess[i].imsi),
                                    !.apn = Coalesce(job[p].ev.apn, sess[i].apn),
                                    !.authorized = TRUE, !.state = Authorized]
    <3>1. sess' = [sess EXCEPT ![i] = u]
      BY <1>1, <2>0 DEF ApplyAuthResult
    <3>2. u.state = Authorized
      BY <2>3 DEF MgrTypeOK, Session
    <3> HIDE DEF u
    <3> QED BY <2>3, <3>1, <3>2 DEF MgrTypeOK
  <2>8. \A j \in byID : j # i => sess'[j].state = sess[j].state
    BY <2>3, <2>4 DEF MgrTypeOK
  <2>9. Tends(p, i)'
    BY <2>0, <2>6, <2>7 DEF Tends, Tending, Moved
  <2>10. Hands(p)
    BY <2>0, <2>4, <2>8, <2>9, HandsOwn
  <2>11. EnvOK' /\ setup' = setup
    BY <1>0, <2>3, <2>4, EnvKept
  <2>12. Knows(p)' /\ LockKept(p)
    BY <1>0, <2>3, <2>4, <2>6, <2>11, MovedKnows, MovedLock, LabelFacts DEF Plain
  <2> QED BY <2>3, <2>6, <2>10, <2>11, <2>12 DEF Acts, Moved
<1>2. CASE ~CanTransition(job[p].id, Authorized) /\ Fail(p) /\ UNCHANGED mgrVars
  <2>1. ~\E i \in byID : Tends(p, i)
    BY <1>0, <1>2, NextStates DEF CanTransition, Tends, Tending
  <2>2. Stays(p)
    BY <2>1 DEF Stays
  <2>3. Moved(p, "unlock")
    BY <1>0, <1>2, FailMoves
  <2> QED BY <1>0, <1>2, <2>2, <2>3, RefusedActs, LabelFacts
<1> QED BY <1>1, <1>2 DEF applyAuthResult

\* An operation that leaves the states of the sessions alone, while p goes from
\* one place where it tends its session to another.
LEMMA UpdateHands ==
  ASSUME NEW p \in Proc, byID' = byID, \A j \in byID : sess'[j].state = sess[j].state,
         \A i \in byID : Tends(p, i) => Tends(p, i)'
  PROVE  Hands(p)
BY DEF Hands

\* UpdateSubscriberIP.
LEMMA UpdateIPActs ==
  ASSUME LInv, NEW p \in Proc, updateSubscriberIP(p)
  PROVE  Acts(p)
<1>0. /\ job \in [Proc -> Job] /\ job[p].pc = "update_ip" /\ job[p].pc \notin Outside
      /\ UNCHANGED <<lock, envVars>> /\ job[p].ip \in OrNone(IP) /\ Knows(p)
  BY DEF LInv, LcTypeOK, updateSubscriberIP, At, Outside, Job, Known
<1>1. ASSUME Moved(p, "apply_pgw"), job'[p].bearer = job[p].bearer, next' = next, byID' = byID,
             [MgrNext]_mgrVars, \A j \in byID : sess'[j].state = sess[j].state
      PROVE  Acts(p)
  <2>1. next \in Nat
    BY DEF LInv, LcTypeOK, MgrTypeOK
  <2>2. EnvOK' /\ setup' = setup
    BY <1>0, <1>1, <2>1, EnvKept
  <2>3. Hands(p)
    BY <1>0, <1>1, UpdateHands DEF Tends, Tending, Moved
  <2>4. Knows(p)'
    BY <1>0, <1>1, <2>2 DEF Knows, Moved, Outside
  <2>5. LockKept(p)
    BY <1>0, <1>1, MovedLock DEF Label, Outside
  <2> QED BY <1>1, <2>2, <2>3, <2>4, <2>5 DEF Acts, Moved
<1>2. CASE Goto(p, "apply_pgw") /\ UNCHANGED mgrVars
  <2>1. Moved(p, "apply_pgw") /\ job'[p].bearer = job[p].bearer
    BY <1>0, <1>2, GotoMoves DEF Label
  <2> QED BY <1>1, <1>2, <2>1, Unchanged
<1>3. CASE UpdateSubscriberIP(job[p].id, job[p].ip) /\ GotoWith(p, "apply_pgw", sess'[job[p].id])
  <2>0. PICK i : i = job[p].id
    OBVIOUS
  <2>1. SessionStep(i)
    BY <1>0, <1>3, <2>0 DEF SessionStep
  <2>2. /\ [MgrNext]_mgrVars /\ MgrTypeOK' /\ i \in byID /\ i \in 1..next /\ next \in Nat
        /\ MgrTypeOK
    BY <2>1, StoreSteps
  <2>3. next' = next /\ byID' = byID /\ sess' = [sess EXCEPT ![i].ip = job[p].ip]
    BY <1>3, <2>0 DEF UpdateSubscriberIP
  <2>4. sess'[i] \in Session
    BY <2>2, <2>3 DEF MgrTypeOK
  <2>5. \A j \in byID : sess'[j].state = sess[j].state
    BY <2>2, <2>3 DEF MgrTypeOK, Session
  <2>6. Moved(p, "apply_pgw") /\ job'[p].bearer = job[p].bearer
    BY <1>0, <1>3, <2>0, <2>4, GotoWithMoves DEF Label
  <2> QED BY <1>1, <2>2, <2>3, <2>5, <2>6
<1>4. CASE job[p].id \notin byID /\ Fail(p) /\ UNCHANGED mgrVars
  <2>1. Stays(p)
    BY <1>4 DEF Stays, Tends
  <2>2. Moved(p, "unlock")
    BY <1>0, <1>4, FailMoves
  <2> QED BY <1>0, <1>4, <2>1, <2>2, RefusedActs, LabelFacts
<1> QED BY <1>2, <1>3, <1>4 DEF updateSubscriberIP

\* ApplyPGWResult; without an address the attach is undone.
LEMMA ApplyPGWActs ==
  ASSUME LInv, NEW p \in Proc, applyPGWResult(p)
  PROVE  Acts(p)
<1>0. /\ job \in [Proc -> Job] /\ job[p].pc = "apply_pgw" /\ job[p].pc \notin Outside
      /\ UNCHANGED <<lock, envVars>> /\ Knows(p)
  BY DEF LInv, LcTypeOK, applyPGWResult, At, Outside, Known
<1>1. CASE /\ ApplyPGWResult(job[p].id, job[p].bearer)
           /\ GotoWith(p, IF sess'[job[p].id].ip = None THEN "undo_pgw" ELSE "install",
                       sess'[job[p].id])
  <2>0. PICK i : i = job[p].id
    OBVIOUS
  <2>1. job[p].bearer \in Bearer
    BY <1>0, CallerAssumption DEF Knows
  <2>2. SessionStep(i)
    BY <1>1, <2>0, <2>1 DEF SessionStep
  <2>3. /\ [MgrNext]_mgrVars /\ MgrTypeOK' /\ i \in byID /\ i \in 1..next /\ next \in Nat
        /\ MgrTypeOK
    BY <2>2, StoreSteps
  <2>4. /\ next' = next /\ byID' = byID
        /\ sess' = [sess EXCEPT ![i].gtpc = job[p].bearer.gtpc, ![i].gtpu = job[p].bearer.gtpu]
    BY <1>1, <2>0 DEF ApplyPGWResult
  <2>5. sess'[i] \in Session
    BY <2>3, <2>4 DEF MgrTypeOK
  <2>6. \A j \in byID : sess'[j].state = sess[j].state
    BY <2>3, <2>4 DEF MgrTypeOK, Session
  <2>7. EnvOK' /\ setup' = setup
    BY <1>0, <2>3, <2>4, EnvKept
  <2>8. CASE sess'[i].ip = None
    <3>1. Moved(p, "undo_pgw")
      BY <1>0, <1>1, <2>0, <2>5, <2>8, GotoWithMoves, LabelFacts
    <3>2. Hands(p)
      BY <1>0, <2>4, <2>6, <3>1, UpdateHands DEF Tends, Tending, Moved
    <3>3. Knows(p)' /\ LockKept(p)
      BY <1>0, <2>3, <2>4, <2>7, <3>1, MovedKnows, MovedLock, LabelFacts DEF Plain
    <3> QED BY <2>3, <2>7, <3>1, <3>2, <3>3 DEF Acts, Moved
  <2>9. CASE sess'[i].ip # None
    <3>1. Moved(p, "install") /\ job'[p].c = sess'[i]
      BY <1>0, <1>1, <2>0, <2>5, <2>9, GotoWithMoves DEF Label
    <3>2. Hands(p)
      BY <1>0, <2>4, <2>6, <3>1, UpdateHands DEF Tends, Tending, Moved
    <3>3. job'[p].c.ip \in IP
      BY <2>5, <2>9, <3>1 DEF Session, OrNone
    <3>4. Knows(p)'
      BY <1>0, <2>4, <2>7, <3>1, <3>3 DEF Knows, Moved, Outside
    <3>5. LockKept(p)
      BY <1>0, <3>1, MovedLock DEF Label, Outside
    <3> QED BY <2>3, <2>7, <3>1, <3>2, <3>4, <3>5 DEF Acts, Moved
  <2> QED BY <2>8, <2>9
<1>2. CASE job[p].id \notin byID /\ Fail(p) /\ UNCHANGED mgrVars
  <2>1. Stays(p)
    BY <1>2 DEF Stays, Tends
  <2>2. Moved(p, "unlock")
    BY <1>0, <1>2, FailMoves
  <2> QED BY <1>0, <1>2, <2>1, <2>2, RefusedActs, LabelFacts
<1> QED BY <1>1, <1>2 DEF applyPGWResult

\* MarkFailed at the end of an attach that did not succeed.
LEMMA MarkFailedActs ==
  ASSUME LInv, NEW p \in Proc, markFailed(p)
  PROVE  Acts(p)
<1>0. /\ job \in [Proc -> Job] /\ job[p].pc = "fail" /\ job[p].pc \notin Outside
      /\ UNCHANGED <<lock, envVars>> /\ job[p].out \in {"none", "accept", "blocked", "error"}
  BY DEF LInv, LcTypeOK, markFailed, At, Outside, Job
<1>1. Moved(p, "unlock")
  <2>1. PICK o \in {"blocked", "error"} : o = IF job[p].out = "blocked" THEN job[p].out ELSE "error"
    OBVIOUS
  <2>2. job' = [job EXCEPT ![p].pc = "unlock", ![p].out = o]
    BY <1>0, <2>1 DEF markFailed, Job
  <2> QED BY <1>0, <2>2, OutMoves, LabelFacts
<1>2. CASE Mark(job[p].id, Failed)
  BY <1>0, <1>1, <1>2, MarkActs, LabelFacts DEF MarkTarget, Settled
<1>3. CASE ~CanTransition(job[p].id, Failed) /\ UNCHANGED mgrVars
  <2>1. ~\E i \in byID : Tends(p, i)
    BY <1>0, <1>3, NextStates DEF CanTransition, Tends, Tending
  <2>2. Stays(p)
    BY <2>1 DEF Stays
  <2> QED BY <1>0, <1>1, <1>3, <2>2, RefusedActs, LabelFacts
<1> QED BY <1>2, <1>3 DEF markFailed

\* A goroutine turns to session i, of which it has copy s.
Takes(p, l, i, s) == job' = [job EXCEPT ![p].pc = l, ![p].id = i, ![p].c = s]

\* What that does to the locals.
LEMMA TakesUp ==
  ASSUME job \in [Proc -> Job], NEW p \in Proc, NEW l \in Label, NEW i \in Nat, NEW s \in Session,
         Takes(p, l, i, s)
  PROVE  /\ Turns(p) /\ job'[p].pc = l /\ job'[p].id = i /\ job'[p].c = s
         /\ job'[p].ev = job[p].ev /\ job'[p].key = job[p].key /\ job'[p].then = job[p].then
         /\ job'[p].expired = job[p].expired /\ job'[p].out = job[p].out
<1> DEFINE r == [job[p] EXCEPT !.pc = l, !.id = i, !.c = s]
<1>1. r \in Job
  BY JobFields
<1>2. job' = [job EXCEPT ![p] = r]
  BY DEF Takes
<1>3. /\ r.pc = l /\ r.id = i /\ r.c = s /\ r.ev = job[p].ev /\ r.key = job[p].key
      /\ r.then = job[p].then /\ r.expired = job[p].expired /\ r.out = job[p].out
  BY DEF Job
<1> HIDE DEF r
<1> QED BY <1>1, <1>2, <1>3, Rewrites

\* store.Create: the attach that made the session tends it.
LEMMA CreateSessionActs ==
  ASSUME LInv, NEW p \in Proc, createSession(p)
  PROVE  Acts(p)
<1> DEFINE in == [imsi |-> job[p].ev.imsi, mac |-> job[p].ev.mac, apn |-> job[p].ev.apn,
                  ttl |-> FALSE]
<1>0. /\ job \in [Proc -> Job] /\ job[p].pc = "create" /\ UNCHANGED <<lock, envVars>>
      /\ Create(in) /\ MgrTypeOK /\ Knows(p) /\ setup \in Setups
  BY DEF LInv, LcTypeOK, createSession, At, Known
<1>1. in \in Input
  BY <1>0, CallerAssumption DEF Knows
<1>2. [MgrNext]_mgrVars /\ MgrTypeOK'
  BY <1>0, <1>1, TypeStep DEF MgrNext
<1>3. PICK n : n = next + 1
  OBVIOUS
<1>4. /\ next \in Nat /\ next' = n /\ byID' = byID \cup {n} /\ byID \subseteq 1..next
      /\ \A j \in 1..next : sess'[j] = sess[j]
      /\ sess'[n].state = Pending
  BY <1>0, <1>1, <1>3, CreateFrame DEF MgrTypeOK
<1>5. sess'[n] \in Session /\ n \in Nat /\ n \in 0..next' /\ next <= next'
  BY <1>2, <1>3, <1>4 DEF MgrTypeOK
<1>6. PICK s \in Session : Takes(p, "auth_pending", n, s)
  BY <1>3, <1>5 DEF createSession, Takes
<1>7. /\ Turns(p) /\ job'[p].pc = "auth_pending" /\ job'[p].id = n /\ job'[p].ev = job[p].ev
      /\ job'[p].key = job[p].key /\ job'[p].then = job[p].then
  <2>1. "auth_pending" \in Label /\ job \in [Proc -> Job] /\ n \in Nat
    BY <1>0, <1>5 DEF Label
  <2> HIDE DEF in
  <2> QED BY <1>6, <2>1, TakesUp
<1>8. EnvOK' /\ setup' = setup
  BY <1>0, <1>2, <1>5, EnvKept DEF MgrTypeOK
<1>9. Hands(p)
  <2>1. \A i : ~Tends(p, i)
    BY <1>0 DEF Tends, Tending
  <2>2. Tends(p, n)'
    BY <1>4, <1>7 DEF Tends, Tending
  <2>3. \A i \in byID : sess'[i].state = sess[i].state
    BY <1>4
  <2> QED BY <1>4, <2>1, <2>2, <2>3 DEF Hands
<1>10. Knows(p)'
  BY <1>0, <1>5, <1>7, <1>8, KnowsPlain, LabelFacts DEF Knows
<1>11. LockKept(p)
  BY <1>0, <1>7 DEF LockKept, Inside, Outside
<1> QED BY <1>2, <1>7, <1>8, <1>9, <1>10, <1>11 DEF Acts
-----------------------------------------------------------------------------
(* The lock, and the steps outside the sections it protects. *)

\* The locals of a goroutine that has not begun, or has nothing left to do.
LEMMA FreshJob ==
  /\ Fresh \in Job
  /\ Fresh.id = 0 /\ Fresh.key = None /\ Fresh.then = "done" /\ Fresh.pc = "idle"
  /\ Fresh.expired = FALSE /\ Fresh.out = "none"
<1>1. {"idle", "done"} \subseteq Label
  BY DEF Label
<1>2. NoBearer \in PGWBearer /\ Blank \in Session
  BY DEF NoBearer, PGWBearer, Blank, Session, OrNone, State
<1>3. NoEvent \in Event
  BY DEF NoEvent, Event, OrNone
<1>4. Fresh \in Job
  BY <1>1, <1>2, <1>3 DEF Job, OrNone, Fresh, NoSession
<1> QED BY <1>4 DEF Fresh, NoSession

\* The locals of a handler that has returned.
LEMMA ReturnMoves ==
  ASSUME job \in [Proc -> Job], NEW p \in Proc,
         NEW o \in {"none", "accept", "blocked", "error"}, Return(p, o)
  PROVE  /\ Turns(p) /\ job'[p].pc = "done" /\ job'[p].ev = job[p].ev /\ job'[p].id = 0
         /\ job'[p].key = None /\ job'[p].then = "done"
         /\ ~job'[p].expired /\ job'[p].out = o
<1> DEFINE r == [Fresh EXCEPT !.pc = "done", !.ev = job[p].ev, !.out = o]
<1>1. job[p].ev \in Event /\ "done" \in Label
  BY DEF Job, Label
<1>2. r \in Job
  BY <1>1, FreshJob, JobFields
<1>3. /\ r.pc = "done" /\ r.ev = job[p].ev /\ r.id = 0 /\ r.key = None /\ r.then = "done"
      /\ r.expired = FALSE /\ r.out = o
  BY FreshJob DEF Job
<1>4. job' = [job EXCEPT ![p] = r]
  BY DEF Return
<1> HIDE DEF r
<1> QED BY <1>2, <1>3, <1>4, Rewrites

\* The locals of a shutdown between two sessions.
LEMMA NextMoves ==
  ASSUME job \in [Proc -> Job], NEW p \in Proc,
         job' = [job EXCEPT ![p] = [Fresh EXCEPT !.pc = "next", !.ev = job[p].ev,
                                                 !.expired = job[p].expired,
                                                 !.todo = job[p].todo]]
  PROVE  /\ Turns(p) /\ job'[p].pc = "next" /\ job'[p].ev = job[p].ev /\ job'[p].id = 0
         /\ job'[p].key = None /\ job'[p].then = "done"
         /\ job'[p].expired = job[p].expired /\ job'[p].out = "none"
<1> DEFINE r == [Fresh EXCEPT !.pc = "next", !.ev = job[p].ev, !.expired = job[p].expired,
                              !.todo = job[p].todo]
<1>1. /\ job[p].ev \in Event /\ "next" \in Label /\ job[p].expired \in BOOLEAN
      /\ job[p].todo \in SUBSET Nat
  BY DEF Job, Label
<1>2. r \in Job
  BY <1>1, FreshJob, JobFields
<1>3. /\ r.pc = "next" /\ r.ev = job[p].ev /\ r.id = 0 /\ r.key = None /\ r.then = "done"
      /\ r.expired = job[p].expired /\ r.out = "none"
  BY FreshJob DEF Job
<1>4. job' = [job EXCEPT ![p] = r]
  OBVIOUS
<1> HIDE DEF r
<1> QED BY <1>2, <1>3, <1>4, Rewrites

\* p is outside and has no lock and nothing to go on with.
Rests(p, l) ==
  /\ Turns(p) /\ job'[p].pc = l /\ job'[p].ev = job[p].ev /\ job'[p].id \in 0..next
  /\ job'[p].key = None /\ job'[p].then = "done"

\* A handler that returns has no lock.
LEMMA LeaveRests ==
  ASSUME LInv, NEW p \in Proc, NEW o \in {"none", "accept", "blocked", "error"},
         LeaveLock(p, o) \/ Return(p, o)
  PROVE  /\ Rests(p, "next") \/ Rests(p, "done")
         /\ job'[p].expired => job[p].expired
         /\ job'[p].out \in {o, "none"}
<1>1. job \in [Proc -> Job] /\ 0 \in 0..next
  BY DEF LInv, LcTypeOK, MgrTypeOK
<1> QED BY <1>1, ReturnMoves, NextMoves DEF LeaveLock, Rests

\* What it knows then.
LEMMA RestsKnows ==
  ASSUME LInv, NEW p \in Proc, NEW l \in {"next", "done", "gtpu_record"}, Rests(p, l),
         UNCHANGED mgrVars, setup' = setup, job[p].pc # "idle"
  PROVE  Knows(p)'
BY Unchanged DEF Rests, Knows, LInv, Known

\* A step from outside to outside.
LEMMA RestsActs ==
  ASSUME LInv, NEW p \in Proc, NEW l \in {"next", "done", "gtpu_record"}, Rests(p, l),
         UNCHANGED mgrVars, UNCHANGED <<lock, envVars>>, job[p].pc \in Outside, job[p].pc # "idle"
  PROVE  Acts(p)
<1>1. EnvOK' /\ setup' = setup
  BY Unchanged, EnvKept
<1>2. Hands(p)
  BY StaysHands DEF Stays, Tends, Tending, Outside
<1>3. LockKept(p)
  BY DEF LockKept, Inside, Rests, Outside
<1> QED BY <1>1, <1>2, <1>3, RestsKnows DEF Acts, Rests

\* The wait for a lock ends without it.
LEMMA LockTimeoutActs ==
  ASSUME LInv, NEW p \in Proc, lockTimeout(p)
  PROVE  Acts(p)
<1>1. /\ job[p].pc = "lock" /\ LeaveLock(p, "error") /\ UNCHANGED mgrVars
      /\ UNCHANGED <<lock, envVars>> /\ job[p].pc \in Outside
  BY DEF lockTimeout, At, Outside
<1> QED BY <1>1, LeaveRests, RestsActs

\* The lock is taken.
LEMMA LockActs ==
  ASSUME LInv, NEW p \in Proc, lockSubscriber(p)
  PROVE  Acts(p)
<1>1. /\ job[p].pc = "lock" /\ UNCHANGED mgrVars /\ UNCHANGED envVars
      /\ lock[job[p].key] = None /\ lock' = [lock EXCEPT ![job[p].key] = p]
      /\ Goto(p, job[p].then) /\ Knows(p)
  BY DEF lockSubscriber, At, LInv, Known
<1>2. /\ job[p].then \in {"find", "acct_recheck", "gtpu_recheck", "terminate"}
      /\ job[p].key \in LockKey /\ (job[p].then = "find" => job[p].ev.kind = "attach")
  BY <1>1 DEF Knows
<1>3. PICK l \in {"find", "acct_recheck", "gtpu_recheck", "terminate"} : l = job[p].then
  BY <1>2
<1>4. Moved(p, l) /\ job'[p].then \in {l, "unlock"}
  <2>1. job \in [Proc -> Job] /\ l \in Label /\ Goto(p, l)
    BY <1>1, <1>3 DEF LInv, LcTypeOK, Label
  <2>2. Moved(p, l)
    BY <2>1, GotoMoves
  <2> QED BY <1>3, <2>2 DEF Moved
<1>5. EnvOK' /\ setup' = setup
  BY <1>1, Unchanged, EnvKept
<1>6. Hands(p)
  BY <1>1, StaysHands DEF Stays, Tends, Tending
<1>7. Knows(p)'
  BY <1>1, <1>2, <1>3, <1>4, <1>5, Unchanged DEF Knows, Moved, Outside
<1>8. LockTaken(p)
  BY <1>1, <1>2, <1>4 DEF LockTaken, Inside, Moved, Outside
<1> QED BY <1>1, <1>4, <1>5, <1>6, <1>7, <1>8 DEF Acts, Moved

\* The lock is given back by its owner; a handler without a lock gives none.
LEMMA UnlockActs ==
  ASSUME LInv, NEW p \in Proc, unlock(p)
  PROVE  Acts(p)
<1>1. /\ job[p].pc = "unlock" /\ UNCHANGED mgrVars /\ UNCHANGED envVars
      /\ lock' = IF job[p].key = None THEN lock ELSE [lock EXCEPT ![job[p].key] = None]
      /\ LeaveLock(p, job[p].out)
  BY DEF unlock, At
<1>2. job[p].key \in OrNone(LockKey) /\ job[p].out \in {"none", "accept", "blocked", "error"}
  BY <1>1, Unchanged DEF Job
<1>3. PICK l \in {"next", "done"} : Rests(p, l)
  BY <1>1, <1>2, LeaveRests
<1>4. EnvOK' /\ setup' = setup
  BY <1>1, Unchanged, EnvKept
<1>5. Hands(p)
  BY <1>1, StaysHands DEF Stays, Tends, Tending
<1>6. Knows(p)'
  BY <1>1, <1>3, <1>4, RestsKnows
<1>7. LockKept(p) \/ LockGiven(p)
  <2>1. CASE job[p].key = None
    BY <1>1, <1>3, <2>1, LockKeyAssumption DEF LockKept, Inside, Rests, Outside
  <2>2. CASE job[p].key # None
    BY <1>1, <1>2, <1>3, <2>2 DEF LockGiven, Inside, Rests, Outside, OrNone
  <2> QED BY <2>1, <2>2
<1> QED BY <1>1, <1>3, <1>4, <1>5, <1>6, <1>7 DEF Acts, Rests

\* The key of a session or of an event is a key of the lock table.
LEMMA Keys ==
  /\ \A i \in OrNone(IMSI), m \in OrNone(MAC), a \in OrNone(APN) :
        subscriberLockKey(i, m, a) \in LockKey
  /\ \A s \in Session : KeyOf(s) \in LockKey
<1>1. \A i \in OrNone(IMSI), m \in OrNone(MAC), a \in OrNone(APN) :
        subscriberLockKey(i, m, a) \in LockKey
  BY DEF LockKey
<1>2. \A s \in Session : s.imsi \in OrNone(IMSI) /\ s.mac \in OrNone(MAC) /\ s.apn \in OrNone(APN)
  BY DEF Session
<1> QED BY <1>1, <1>2 DEF KeyOf

\* p waits for the lock of session i.
Waits(p, l) ==
  /\ Turns(p) /\ job'[p].pc = "lock" /\ job'[p].ev = job[p].ev /\ job'[p].id \in 0..next
  /\ job'[p].key \in LockKey /\ job'[p].then = l

\* A handler has found a session and waits for its lock.
LEMMA WaitsActs ==
  ASSUME LInv, NEW p \in Proc, NEW l \in {"acct_recheck", "gtpu_recheck", "terminate"},
         Waits(p, l), [MgrNext]_mgrVars, Hands(p), next' = next, UNCHANGED <<lock, envVars>>,
         job[p].pc \in Outside, job[p].pc # "idle"
  PROVE  Acts(p)
<1>1. next \in Nat
  BY DEF LInv, LcTypeOK, MgrTypeOK
<1>2. EnvOK' /\ setup' = setup
  BY <1>1, EnvKept
<1>3. Knows(p)'
  BY <1>2 DEF Knows, Waits, LInv, Known
<1>4. LockKept(p)
  BY DEF LockKept, Inside, Waits, Outside
<1> QED BY <1>2, <1>3, <1>4 DEF Acts, Waits

\* AwaitLock does that.
LEMMA AwaitWaits ==
  ASSUME LInv, NEW p \in Proc, NEW s \in Session, NEW i \in 0..next,
         NEW l \in {"acct_recheck", "gtpu_recheck", "terminate"}, AwaitLock(p, s, i, l)
  PROVE  /\ Waits(p, l) /\ job'[p].id = i /\ job'[p].c = s /\ job'[p].key = KeyOf(s)
         /\ job'[p].expired = job[p].expired /\ job'[p].out = job[p].out
<1> DEFINE r == [job[p] EXCEPT !.pc = "lock", !.key = KeyOf(s), !.then = l, !.c = s, !.id = i]
<1>1. job \in [Proc -> Job] /\ "lock" \in Label /\ l \in Label /\ i \in Nat
  BY DEF LInv, LcTypeOK, MgrTypeOK, Label
<1>2. KeyOf(s) \in LockKey /\ KeyOf(s) \in OrNone(LockKey)
  BY Keys DEF OrNone
<1>3. job' = [job EXCEPT ![p] = r]
  BY <1>1 DEF AwaitLock
<1> HIDE DEF KeyOf
<1>4. r \in Job
  BY <1>1, <1>2, JobFields
<1>5. r.pc = "lock" /\ r.key = KeyOf(s) /\ r.then = l /\ r.id = i /\ r.ev = job[p].ev
      /\ r.c = s /\ r.expired = job[p].expired /\ r.out = job[p].out
  BY <1>1 DEF Job
<1> HIDE DEF r
<1> QED BY <1>1, <1>2, <1>3, <1>4, <1>5, Rewrites DEF Waits

\* HandleAccounting for a Stop.
LEMMA AccountingActs ==
  ASSUME LInv, NEW p \in Proc, handleAccountingStop(p)
  PROVE  Acts(p)
<1>1. /\ job[p].pc = "acct_stop" /\ UNCHANGED mgrVars /\ UNCHANGED <<lock, envVars>>
      /\ job[p].pc \in Outside
  BY DEF handleAccountingStop, At, Outside
<1>2. CASE Return(p, "none")
  BY <1>1, <1>2, LeaveRests, RestsActs
<1>3. CASE \E i \in byID : AwaitLock(p, sess[i], i, "acct_recheck")
  <2>1. PICK i \in byID : AwaitLock(p, sess[i], i, "acct_recheck")
    BY <1>3
  <2>2. i \in 0..next /\ sess[i] \in Session
    BY DEF LInv, LcTypeOK, MgrTypeOK
  <2>3. Waits(p, "acct_recheck")
    BY <2>1, <2>2, AwaitWaits
  <2>4. Hands(p)
    BY <1>1, StaysHands DEF Stays, Tends, Tending
  <2> QED BY <1>1, <2>3, <2>4, Unchanged, WaitsActs
<1> QED BY <1>2, <1>3 DEF handleAccountingStop, FindByMAC

\* The lookup of HandleGTPUErrorIndication.
LEMMA GTPUErrorActs ==
  ASSUME LInv, NEW p \in Proc, handleGTPUError(p)
  PROVE  Acts(p)
<1>1. /\ job[p].pc = "gtpu_error" /\ UNCHANGED mgrVars /\ UNCHANGED <<lock, envVars>>
      /\ job[p].pc \in Outside
  BY DEF handleGTPUError, At, Outside
<1>2. CASE Return(p, "none")
  BY <1>1, <1>2, LeaveRests, RestsActs
<1>3. CASE \E i \in byID : job' = [job EXCEPT ![p].pc = "gtpu_record", ![p].id = i, ![p].c = sess[i]]
  <2>1. PICK i \in byID : Takes(p, "gtpu_record", i, sess[i])
    BY <1>3 DEF Takes
  <2>2. i \in 0..next /\ i \in Nat /\ sess[i] \in Session /\ "gtpu_record" \in Label
    BY DEF LInv, LcTypeOK, MgrTypeOK, Label
  <2>3. job[p].key = None /\ job[p].then = "done"
    BY <1>1 DEF LInv, Known, Knows
  <2>4. Rests(p, "gtpu_record")
    <3>1. job \in [Proc -> Job]
      BY DEF LInv, LcTypeOK
    <3>2. /\ Turns(p) /\ job'[p].pc = "gtpu_record" /\ job'[p].id = i /\ job'[p].c = sess[i]
          /\ job'[p].ev = job[p].ev /\ job'[p].key = job[p].key /\ job'[p].then = job[p].then
      BY <2>1, <2>2, <3>1, TakesUp
    <3> QED BY <2>2, <2>3, <3>2 DEF Rests
  <2> QED BY <1>1, <2>4, RestsActs
<1> QED BY <1>2, <1>3 DEF handleGTPUError, LookupByRemoteGTPUTEID

\* RecordGTPUError, and the wait for the lock of an active session.
LEMMA RecordActs ==
  ASSUME LInv, NEW p \in Proc, recordGTPUError(p)
  PROVE  Acts(p)
<1> DEFINE act(c) == IF c.state = Active THEN AwaitLock(p, c, job[p].id, "gtpu_recheck")
                                         ELSE Return(p, "none")
<1>1. /\ job[p].pc = "gtpu_record" /\ UNCHANGED <<lock, envVars>> /\ job[p].pc \in Outside
      /\ job[p].id \in 0..next /\ job[p].c \in Session /\ MgrTypeOK
      /\ job[p].ev \in setup.events[p] /\ job[p].pc # "idle"
  BY DEF recordGTPUError, At, Outside, LInv, Known, Knows, LcTypeOK, Job
<1>2. ASSUME NEW s \in Session, act(s), [MgrNext]_mgrVars, next' = next, byID' = byID,
             \A j \in byID : sess'[j].state = sess[j].state
      PROVE  Acts(p)
  <2>1. Hands(p)
    BY <1>1, <1>2, UpdateHands DEF Tends, Tending
  <2>2. CASE AwaitLock(p, s, job[p].id, "gtpu_recheck")
    <3>1. Waits(p, "gtpu_recheck")
      BY <1>1, <2>2, AwaitWaits
    <3> QED BY <1>1, <1>2, <2>1, <3>1, WaitsActs
  <2>3. CASE Return(p, "none")
    <3>0. PICK l \in {"next", "done"} : Rests(p, l)
      BY <2>3, LeaveRests
    <3>1. EnvOK' /\ setup' = setup
      BY <1>1, <1>2, EnvKept DEF MgrTypeOK
    <3>2. Knows(p)'
      BY <1>1, <1>2, <3>0, <3>1 DEF Rests, Knows
    <3>3. LockKept(p)
      BY <1>1, <3>0 DEF LockKept, Inside, Rests, Outside
    <3> QED BY <1>2, <2>1, <3>0, <3>1, <3>2, <3>3 DEF Acts, Rests
  <2> QED BY <1>2, <2>2, <2>3
<1>3. CASE RecordGTPUError(job[p].id) /\ act(sess'[job[p].id])
  <2>0. PICK i : i = job[p].id
    OBVIOUS
  <2>1. SessionStep(i)
    BY <1>3, <2>0 DEF SessionStep
  <2>2. /\ [MgrNext]_mgrVars /\ MgrTypeOK' /\ i \in byID /\ i \in 1..next /\ next \in Nat
    BY <2>1, StoreSteps
  <2>3. next' = next /\ byID' = byID /\ sess' = [sess EXCEPT ![i].gtpuErr = TRUE]
    BY <1>3, <2>0 DEF RecordGTPUError
  <2>4. \A j \in byID : sess'[j].state = sess[j].state
    BY <1>1, <2>2, <2>3 DEF MgrTypeOK, Session
  <2>5. PICK s \in Session : s = sess'[i]
    BY <2>2, <2>3 DEF MgrTypeOK
  <2>6. act(s)
    BY <1>3, <2>0, <2>5
  <2> HIDE DEF act
  <2> QED BY <1>2, <2>2, <2>3, <2>4, <2>6
<1>4. CASE act(job[p].c) /\ UNCHANGED mgrVars
  <2> HIDE DEF act
  <2>1. PICK s \in Session : s = job[p].c
    BY <1>1
  <2>2. act(s)
    BY <1>4, <2>1 DEF act
  <2> QED BY <1>2, <1>4, <2>2, Unchanged
<1> QED BY <1>3, <1>4 DEF recordGTPUError

\* A goroutine turns to session i in order to tear it down.
Seizes(p, l, t, i, s) ==
  job' = [job EXCEPT ![p].pc = l, ![p].then = t, ![p].id = i, ![p].c = s]

\* What that does to the locals.
LEMMA SeizeMoves ==
  ASSUME job \in [Proc -> Job], NEW p \in Proc, NEW l \in Label, NEW t \in Label, NEW i \in Nat,
         NEW s \in Session, Seizes(p, l, t, i, s)
  PROVE  /\ Turns(p) /\ job'[p].pc = l /\ job'[p].id = i
         /\ job'[p].ev = job[p].ev /\ job'[p].key = job[p].key /\ job'[p].then = t
<1> DEFINE r == [job[p] EXCEPT !.pc = l, !.then = t, !.id = i, !.c = s]
<1>1. r \in Job
  BY JobFields
<1>2. job' = [job EXCEPT ![p] = r]
  BY DEF Seizes
<1>3. r.pc = l /\ r.id = i /\ r.ev = job[p].ev /\ r.key = job[p].key /\ r.then = t
  BY DEF Job
<1> HIDE DEF r
<1> QED BY <1>1, <1>2, <1>3, Rewrites

\* The handlers without the lock.
LEMMA SeizeActs ==
  ASSUME LInv, NEW p \in Proc, NEW l \in {"mark_recovering", "terminate"}, NEW i \in 1..next,
         Seizes(p, l, "unlock", i, sess[i]), job[p].pc \in {"pgw_delete", "aaa_disconnect"},
         UNCHANGED mgrVars, UNCHANGED <<lock, envVars>>
  PROVE  Acts(p)
<1>1. /\ job \in [Proc -> Job] /\ sess[i] \in Session /\ l \in Label /\ "unlock" \in Label
      /\ i \in Nat /\ l \in Plain /\ i \in 0..next
  BY LabelFacts DEF LInv, LcTypeOK, MgrTypeOK
<1>2. /\ Turns(p) /\ job'[p].pc = l /\ job'[p].id = i
      /\ job'[p].ev = job[p].ev /\ job'[p].key = job[p].key /\ job'[p].then = "unlock"
  <2>1. PICK s \in Session : s = sess[i]
    BY <1>1
  <2>2. Seizes(p, l, "unlock", i, s)
    BY <2>1
  <2> QED BY <1>1, <2>2, SeizeMoves
<1>3. EnvOK' /\ setup' = setup /\ next' = next
  BY Unchanged, EnvKept
<1>4. Hands(p)
  BY StaysHands DEF Stays, Tends, Tending
<1>5. Knows(p)'
  BY <1>1, <1>2, <1>3, KnowsPlain
<1>6. job[p].key = None
  BY DEF LInv, Known, Knows, Outside
<1>7. LockKept(p)
  BY <1>2, <1>6, LockKeyAssumption DEF LockKept, Inside
<1> QED BY <1>2, <1>3, <1>4, <1>5, <1>7 DEF Acts

\* HandlePGWInitiatedDelete and HandleAAAInitiatedDisconnect.
LEMMA InitiatedActs ==
  ASSUME LInv, NEW p \in Proc, handlePGWDelete(p) \/ handleAAADisconnect(p)
  PROVE  Acts(p)
<1>1. /\ UNCHANGED mgrVars /\ UNCHANGED <<lock, envVars>> /\ job[p].pc \in Outside
      /\ job[p].pc \in {"pgw_delete", "aaa_disconnect"}
  BY DEF handlePGWDelete, handleAAADisconnect, At, Outside
<1>2. /\ job[p].ev \in setup.events[p] /\ job[p].ev.kind = job[p].pc /\ setup \in Setups
      /\ job \in [Proc -> Job] /\ MgrTypeOK
  BY <1>1 DEF LInv, Known, Knows, LcTypeOK
<1>3. /\ job[p].ev \in Event
      /\ job[p].pc = "pgw_delete" => job[p].ev.teid # None
      /\ job[p].pc = "aaa_disconnect" => job[p].ev.imsi # None
  BY <1>2, SetupsAssumption DEF Job
<1>4. CASE Return(p, "none")
  BY <1>1, <1>4, LeaveRests, RestsActs
<1>5. CASE handlePGWDelete(p) /\ ~Return(p, "none")
  <2>1. job[p].pc = "pgw_delete"
    BY <1>5 DEF handlePGWDelete, At
  <2>2. job[p].ev.teid \in TEID
    BY <1>3, <2>1 DEF Event, OrNone
  <2>3. PICK i \in 1..next : i = byTEID[job[p].ev.teid]
    <3>1. byTEID[job[p].ev.teid] \in 0..next /\ next \in Nat
      BY <1>2, <2>2 DEF MgrTypeOK
    <3>2. byTEID[job[p].ev.teid] # 0
      BY <1>5 DEF handlePGWDelete, NoSession
    <3> QED BY <3>1, <3>2
  <2>4. Seizes(p, "mark_recovering", "unlock", i, sess[i])
    BY <1>5, <2>3 DEF handlePGWDelete, Seizes
  <2> QED BY <1>1, <2>4, SeizeActs
<1>6. CASE handleAAADisconnect(p) /\ ~Return(p, "none")
  <2>1. job[p].pc = "aaa_disconnect"
    BY <1>6 DEF handleAAADisconnect, At
  <2>2. job[p].ev.imsi \in IMSI
    BY <1>3, <2>1 DEF Event, OrNone
  <2>3. PICK i \in 1..next : i = byIMSI[job[p].ev.imsi]
    <3>1. byIMSI[job[p].ev.imsi] \in 0..next /\ next \in Nat
      BY <1>2, <2>2 DEF MgrTypeOK
    <3>2. byIMSI[job[p].ev.imsi] # 0
      BY <1>6 DEF handleAAADisconnect, NoSession
    <3> QED BY <3>1, <3>2
  <2>4. Seizes(p, "terminate", "unlock", i, sess[i])
    BY <1>6, <2>3 DEF handleAAADisconnect, Seizes
  <2> QED BY <1>1, <2>4, SeizeActs
<1> QED BY <1>4, <1>5, <1>6

\* findAttachExisting and handleExistingBeforeAttach.
LEMMA FindActs ==
  ASSUME LInv, NEW p \in Proc, findAttachExisting(p)
  PROVE  Acts(p)
<1>1. /\ UNCHANGED mgrVars /\ UNCHANGED <<lock, envVars>> /\ job[p].pc = "find"
      /\ job \in [Proc -> Job] /\ Knows(p) /\ job[p].pc \notin Outside
  BY DEF findAttachExisting, At, LInv, LcTypeOK, Known, Outside
<1>2. EnvOK' /\ setup' = setup /\ next' = next
  BY <1>1, Unchanged, EnvKept
<1>3. Hands(p)
  BY <1>1, StaysHands DEF Stays, Tends, Tending
<1>4. ASSUME NEW l \in Plain, Turns(p), job'[p].pc = l, job'[p].id \in 0..next,
             job'[p].ev = job[p].ev, job'[p].key = job[p].key
      PROVE  Acts(p)
  <2>1. job[p].ev.kind = "attach" /\ job[p].pc # "idle"
    BY <1>1 DEF Knows
  <2>2. Knows(p)'
    BY <1>2, <1>4, <2>1, KnowsPlain
  <2>3. LockKept(p)
    BY <1>1, <1>4 DEF LockKept, Inside, Plain
  <2> QED BY <1>1, <1>2, <1>3, <1>4, <2>2, <2>3 DEF Acts
<1>5. \A i \in byID : i \in 0..next /\ i \in Nat /\ sess[i] \in Session
  BY DEF LInv, LcTypeOK, MgrTypeOK
<1>6. CASE Goto(p, "create")
  <2>1. Moved(p, "create")
    BY <1>1, <1>6, GotoMoves DEF Label
  <2>2. Knows(p)'
    BY <1>1, <1>2, <2>1 DEF Knows, Moved, Outside
  <2>3. LockKept(p)
    BY <1>1, <2>1, MovedLock DEF Label, Outside
  <2> QED BY <1>1, <1>2, <1>3, <2>1, <2>2, <2>3 DEF Acts, Moved
<1>7. CASE \E i \in byID : job' = [job EXCEPT ![p].pc = "terminate", ![p].id = i,
                                              ![p].c = sess[i], ![p].then = "create"]
  <2>1. PICK i \in byID : job' = [job EXCEPT ![p].pc = "terminate", ![p].id = i,
                                             ![p].c = sess[i], ![p].then = "create"]
    BY <1>7
  <2> DEFINE r == [job[p] EXCEPT !.pc = "terminate", !.id = i, !.c = sess[i], !.then = "create"]
  <2>2. r \in Job
    BY <1>1, <1>5, JobFields DEF Label
  <2>3. job' = [job EXCEPT ![p] = r]
    BY <1>1, <2>1
  <2>4. r.pc = "terminate" /\ r.id = i /\ r.ev = job[p].ev /\ r.key = job[p].key
    BY <1>1 DEF Job
  <2> HIDE DEF r
  <2> QED BY <1>1, <1>4, <1>5, <2>2, <2>3, <2>4, Rewrites, LabelFacts
<1>8. CASE \E i \in byID : job' = [job EXCEPT ![p].pc = "unlock", ![p].id = i,
                                              ![p].c = sess[i], ![p].out = "accept"]
  <2>1. PICK i \in byID : job' = [job EXCEPT ![p].pc = "unlock", ![p].id = i,
                                             ![p].c = sess[i], ![p].out = "accept"]
    BY <1>8
  <2> DEFINE r == [job[p] EXCEPT !.pc = "unlock", !.id = i, !.c = sess[i], !.out = "accept"]
  <2>2. r \in Job
    BY <1>1, <1>5, JobFields DEF Label
  <2>3. job' = [job EXCEPT ![p] = r]
    BY <1>1, <2>1
  <2>4. r.pc = "unlock" /\ r.id = i /\ r.ev = job[p].ev /\ r.key = job[p].key
    BY <1>1 DEF Job
  <2> HIDE DEF r
  <2> QED BY <1>1, <1>4, <1>5, <2>2, <2>3, <2>4, Rewrites, LabelFacts
<1> QED BY <1>6, <1>7, <1>8 DEF findAttachExisting, FindAnyBySubscriber

\* Shutdown lists the sessions.
LEMMA ShutdownActs ==
  ASSUME LInv, NEW p \in Proc, shutdown(p)
  PROVE  Acts(p)
<1>1. /\ UNCHANGED mgrVars /\ UNCHANGED <<lock, envVars>> /\ job[p].pc = "shutdown"
      /\ job[p].pc \in Outside /\ job \in [Proc -> Job] /\ Knows(p)
  BY DEF shutdown, At, LInv, LcTypeOK, Known, Outside
<1>2. PICK d \in SUBSET Nat : job' = [job EXCEPT ![p].pc = "next", ![p].todo = d]
  <2>0. byID \subseteq Nat
    BY DEF LInv, LcTypeOK, MgrTypeOK
  <2>1. {i \in byID : shutdownShouldDetach(sess[i].state)} \in SUBSET Nat
    BY <2>0
  <2> QED BY <2>1 DEF shutdown
<1> DEFINE r == [job[p] EXCEPT !.pc = "next", !.todo = d]
<1>3. r \in Job
  BY <1>1, JobFields DEF Label
<1>4. job' = [job EXCEPT ![p] = r]
  BY <1>1, <1>2
<1>5. /\ r.pc = "next" /\ r.id = job[p].id /\ r.ev = job[p].ev /\ r.key = job[p].key
      /\ r.then = job[p].then
  BY <1>1 DEF Job
<1>6. Rests(p, "next")
  <2>1. job[p].id \in 0..next /\ job[p].key = None /\ job[p].then = "done"
    BY <1>1 DEF Knows
  <2> HIDE DEF r
  <2> QED BY <1>1, <1>3, <1>4, <1>5, <2>1, Rewrites DEF Rests
<1> QED BY <1>1, <1>6, RestsActs

\* Shutdown goes on with the next session.
LEMMA ShutdownNextActs ==
  ASSUME LInv, NEW p \in Proc, shutdownNext(p)
  PROVE  Acts(p)
<1>1. /\ UNCHANGED mgrVars /\ UNCHANGED <<lock, envVars>> /\ job[p].pc = "next"
      /\ job[p].pc \in Outside /\ job \in [Proc -> Job] /\ Knows(p) /\ job[p].pc # "idle"
  BY DEF shutdownNext, At, LInv, LcTypeOK, Known, Outside
<1>2. /\ job[p].todo \in SUBSET Nat /\ job[p].id \in 0..next
      /\ job[p].key = None /\ job[p].then = "done"
  BY <1>1 DEF Knows, Job
<1>3. CASE Return(p, "none")
  BY <1>1, <1>3, LeaveRests, RestsActs
<1>4. CASE \E i \in byID : job' = [job EXCEPT ![p].pc = "lock", ![p].key = KeyOf(sess[i]),
                                              ![p].then = "terminate", ![p].c = sess[i],
                                              ![p].id = i, ![p].todo = job[p].todo \ {i}]
  <2>1. PICK i \in byID : job' = [job EXCEPT ![p].pc = "lock", ![p].key = KeyOf(sess[i]),
                                              ![p].then = "terminate", ![p].c = sess[i],
                                              ![p].id = i, ![p].todo = job[p].todo \ {i}]
    BY <1>4
  <2>2. i \in Nat /\ i \in 0..next /\ sess[i] \in Session
    BY DEF LInv, LcTypeOK, MgrTypeOK
  <2>3. PICK k \in LockKey : k = KeyOf(sess[i])
    BY <2>2, Keys
  <2>4. PICK d \in SUBSET Nat : d = job[p].todo \ {i}
    BY <1>2
  <2> DEFINE r == [job[p] EXCEPT !.pc = "lock", !.key = k, !.then = "terminate", !.c = sess[i],
                                 !.id = i, !.todo = d]
  <2>5. job' = [job EXCEPT ![p] = r]
    BY <1>1, <2>1, <2>3, <2>4
  <2>6. r \in Job
    <3>1. /\ job[p] \in Job /\ "lock" \in Label /\ "terminate" \in Label
          /\ k \in OrNone(LockKey) /\ sess[i] \in Session /\ i \in Nat
      BY <1>1, <2>2 DEF Label, OrNone
    <3> QED BY <3>1, JobFields
  <2>7. r.pc = "lock" /\ r.key = k /\ r.then = "terminate" /\ r.id = i /\ r.ev = job[p].ev
    BY <1>1 DEF Job
  <2>8. Waits(p, "terminate")
    <3> HIDE DEF r
    <3> QED BY <1>1, <2>2, <2>5, <2>6, <2>7, Rewrites DEF Waits
  <2>9. Hands(p)
    BY <1>1, StaysHands DEF Stays, Tends, Tending
  <2> QED BY <1>1, <2>8, <2>9, Unchanged, WaitsActs
<1>5. CASE \E i : job' = [job EXCEPT ![p].todo = job[p].todo \ {i}]
  <2>1. PICK d \in SUBSET Nat : job' = [job EXCEPT ![p].todo = d]
    BY <1>2, <1>5
  <2> DEFINE r == [job[p] EXCEPT !.todo = d]
  <2>2. r \in Job
    BY <1>1, JobFields
  <2>3. job' = [job EXCEPT ![p] = r]
    BY <1>1, <2>1
  <2>4. /\ r.pc = "next" /\ r.id = job[p].id /\ r.ev = job[p].ev /\ r.key = job[p].key
        /\ r.then = job[p].then
    BY <1>1 DEF Job
  <2>5. Rests(p, "next")
    <3> HIDE DEF r
    <3> QED BY <1>1, <1>2, <2>2, <2>3, <2>4, Rewrites DEF Rests
  <2> QED BY <1>1, <2>5, RestsActs
<1> QED BY <1>3, <1>4, <1>5 DEF shutdownNext

\* A deadline passes.
LEMMA ExpireActs ==
  ASSUME LInv, NEW p \in Proc, expireContext(p)
  PROVE  Acts(p)
<1>1. /\ UNCHANGED mgrVars /\ UNCHANGED <<lock, envVars>> /\ job \in [Proc -> Job] /\ Knows(p)
      /\ job' = [job EXCEPT ![p].expired = TRUE]
  BY DEF expireContext, LInv, LcTypeOK, Known
<1> DEFINE r == [job[p] EXCEPT !.expired = TRUE]
<1>2. r \in Job /\ job' = [job EXCEPT ![p] = r]
  BY <1>1, JobFields
<1>3. /\ r.pc = job[p].pc /\ r.id = job[p].id /\ r.ev = job[p].ev /\ r.key = job[p].key
      /\ r.then = job[p].then /\ r.c = job[p].c /\ r.bearer = job[p].bearer
  BY <1>1 DEF Job
<1>4. Turns(p) /\ job'[p] = r
  <2> HIDE DEF r
  <2> QED BY <1>1, <1>2, Rewrites
<1> HIDE DEF r
<1>5. EnvOK' /\ setup' = setup /\ next' = next /\ sess' = sess /\ byID' = byID
  BY <1>1, Unchanged, EnvKept
<1>6. Knows(p)'
  BY <1>1, <1>3, <1>4, <1>5 DEF Knows
<1>7. Hands(p)
  BY <1>1, <1>3, <1>4, <1>5, StaysHands DEF Stays, Tends
<1>8. LockKept(p)
  BY <1>1, <1>3, <1>4 DEF LockKept, Inside
<1> QED BY <1>1, <1>4, <1>5, <1>6, <1>7, <1>8 DEF Acts

\* An event arrives.
LEMMA StartActs ==
  ASSUME LInv, NEW p \in Proc, Start(p)
  PROVE  Acts(p)
<1>1. /\ UNCHANGED mgrVars /\ lock' = lock /\ UNCHANGED <<route, rule, pdp, neigh, setup>>
      /\ job[p].pc = "idle" /\ job \in [Proc -> Job] /\ Knows(p) /\ setup \in Setups
  BY DEF Start, At, LInv, LcTypeOK, Known
<1>2. PICK e \in setup.events[p] :
        LET new == [job[p] EXCEPT !.ev = e, !.pc = e.kind]
            locked == [new EXCEPT !.pc = "lock", !.then = "find",
                                  !.key = subscriberLockKey(e.imsi, e.mac, e.apn)]
        IN /\ job' = [job EXCEPT ![p] = IF e.kind = "attach" THEN locked ELSE new]
           /\ IF e.kind = "pgw_delete" THEN PGWDelete(e.teid) ELSE UNCHANGED ctx
  BY DEF Start
<1>3. e \in Event
  BY <1>1, SetupsAssumption DEF Setup
<1>4. PICK k \in LockKey : k = subscriberLockKey(e.imsi, e.mac, e.apn)
  BY <1>3, Keys DEF Event
<1>5. job[p].id \in 0..next /\ job[p].key = None /\ job[p].then = "done"
  BY <1>1 DEF Knows, Outside
<1>6. EnvOK'
  <2>1. ctx' \subseteq Context
    BY <1>1, <1>2, Unchanged DEF EnvOK, PGWDelete
  <2> QED BY <1>1, <2>1, Unchanged DEF EnvOK
<1>7. Hands(p)
  BY <1>1, StaysHands DEF Stays, Tends, Tending
<1>8. CASE e.kind = "attach"
  <2> DEFINE n == [job[p] EXCEPT !.ev = e, !.pc = e.kind]
             r == [n EXCEPT !.pc = "lock", !.then = "find", !.key = k]
             m == [job[p] EXCEPT !.ev = e, !.pc = "lock", !.then = "find", !.key = k]
  <2>1. job' = [job EXCEPT ![p] = r]
    BY <1>2, <1>4, <1>8
  <2>2. r = m
    BY <1>1 DEF Job
  <2>3. m \in Job
    BY <1>1, <1>3, JobFields DEF Label, OrNone
  <2>4. m.pc = "lock" /\ m.then = "find" /\ m.key = k /\ m.ev = e /\ m.id = job[p].id
    BY <1>1 DEF Job
  <2> HIDE DEF m, r
  <2>5. Turns(p) /\ job'[p] = m
    BY <1>1, <2>1, <2>2, <2>3, Rewrites
  <2>6. Knows(p)'
    BY <1>1, <1>5, <1>8, <2>4, <2>5, Unchanged DEF Knows
  <2>7. LockKept(p)
    BY <1>1, <2>4, <2>5 DEF LockKept, Inside, Outside
  <2> QED BY <1>1, <1>6, <1>7, <2>5, <2>6, <2>7 DEF Acts
<1>9. CASE e.kind # "attach"
  <2> DEFINE n == [job[p] EXCEPT !.ev = e, !.pc = e.kind]
  <2>1. job' = [job EXCEPT ![p] = n]
    BY <1>2, <1>9
  <2>2. e.kind \in {"acct_stop", "gtpu_error", "pgw_delete", "aaa_disconnect", "shutdown"}
    BY <1>3, <1>9 DEF Event
  <2>3. n \in Job
    BY <1>1, <1>3, <2>2, JobFields DEF Label
  <2>4. /\ n.pc = e.kind /\ n.then = job[p].then /\ n.key = job[p].key /\ n.ev = e
        /\ n.id = job[p].id
    BY <1>1 DEF Job
  <2> HIDE DEF n
  <2>5. Turns(p) /\ job'[p] = n
    BY <1>1, <2>1, <2>3, Rewrites
  <2>6. Knows(p)'
    BY <1>1, <1>5, <2>2, <2>4, <2>5, Unchanged DEF Knows
  <2>7. LockKept(p)
    BY <1>1, <2>2, <2>4, <2>5 DEF LockKept, Inside, Outside
  <2> QED BY <1>1, <1>6, <1>7, <2>5, <2>6, <2>7 DEF Acts
<1> QED BY <1>8, <1>9
-----------------------------------------------------------------------------
(* The theorems. *)

\* Every step of a goroutine is one of those.
LEMMA StepActs ==
  ASSUME LInv, NEW p \in Proc, Start(p) \/ Step(p) \/ expireContext(p)
  PROVE  Acts(p)
<1>1. CASE AttachStep(p)
  BY <1>1, FindActs, CreateSessionActs, MarkStepActs, AuthorizeActs, FindLiveActs, CreateActs,
     UpdateIPActs, ApplyPGWActs, InstallActs, UserAddActs, AccessAddActs, ValidateActs, UndoActs,
     MarkFailedActs DEF AttachStep
<1>2. CASE DetachStep(p)
  BY <1>2, TerminatingActs, DetachActs, DeleteActs DEF DetachStep
<1>3. CASE HandlerStep(p)
  BY <1>3, AccountingActs, RecheckActs, GTPUErrorActs, RecordActs, RecoveringActs, InitiatedActs,
     ShutdownActs, ShutdownNextActs DEF HandlerStep
<1> QED BY <1>1, <1>2, <1>3, LockActs, LockTimeoutActs, UnlockActs, StartActs, ExpireActs DEF Step

\* The invariant holds at the start.
LEMMA LcInitInv == LcInit => LInv
<1> SUFFICES ASSUME LcInit PROVE LInv
  OBVIOUS
<1>1. \A p \in Proc : job[p] = Fresh
  BY DEF LcInit
<1>2. LcTypeOK
  <2>1. job \in [Proc -> Job] /\ MgrTypeOK /\ next = 0
    BY FreshJob, TypeInit DEF LcInit, MgrInit
  <2> QED BY <2>1 DEF LcInit, LcTypeOK, OrNone, NoSession
<1>3. Known
  BY <1>1, FreshJob DEF Known, Knows, LcInit, MgrInit
<1>4. Held
  BY <1>1, FreshJob, SetupsAssumption DEF Held, Inside, LcInit, Outside
<1>5. Tended
  BY DEF Tended, LcInit, MgrInit
<1> QED BY <1>2, <1>3, <1>4, <1>5 DEF LInv

\* Every step keeps the invariant and is, for the store, one of its operations.
LEMMA LcStepInv == LInv /\ [LcNext]_vars => LInv' /\ [MgrNext]_mgrVars
<1> SUFFICES ASSUME LInv, [LcNext]_vars PROVE LInv' /\ [MgrNext]_mgrVars
  OBVIOUS
<1>1. CASE \E p \in Proc : Start(p) \/ Step(p) \/ expireContext(p)
  <2> PICK p \in Proc : Start(p) \/ Step(p) \/ expireContext(p)
    BY <1>1
  <2>1. Acts(p)
    BY StepActs
  <2> QED BY <2>1, ActsKeep DEF Acts
<1>2. CASE UNCHANGED vars
  <2>1. UNCHANGED mgrVars /\ UNCHANGED <<job, lock, ctx, route, rule, pdp, neigh, setup>>
    BY <1>2 DEF vars, envVars
  <2>2. LcTypeOK'
    BY <2>1 DEF mgrVars, LInv, LcTypeOK, MgrTypeOK
  <2>3. Known' /\ Held' /\ Tended'
    BY <2>1 DEF mgrVars, LInv, Known, Knows, Held, Inside, Tended, Tends
  <2> QED BY <2>1, <2>2, <2>3 DEF LInv
<1> QED BY <1>1, <1>2 DEF LcNext, AllDone

\* The invariant holds: every stored session that is neither active nor failed is in
\* the hands of a goroutine whose next steps bring it there or delete it, whatever
\* other handlers do to it meanwhile, with the lock or without.
THEOREM LifecycleInvariant == LcSpec => []LInv
BY LcInitInv, LcStepInv, PTL DEF LcSpec

\* The locals of the handlers, the locks, the contexts and what is installed in the
\* kernel have their types.
THEOREM LifecycleTypes == LcSpec => []LcTypeOK
<1>1. LInv => LcTypeOK
  BY DEF LInv
<1> QED BY <1>1, LifecycleInvariant, PTL

\* When no goroutine is at work every stored session is active or failed and every
\* subscriber lock is free, whatever was started, failed, expired or interfered.
THEOREM NothingHalfOpen == LcSpec => []NoHalfOpen
<1>1. LInv => NoHalfOpen
  <2> SUFFICES ASSUME LInv, Quiet
               PROVE  /\ \A i \in byID : sess[i].state \in {Active, Failed}
                      /\ \A k \in LockKey : lock[k] = None
    BY DEF NoHalfOpen
  <2>1. \A p \in Proc : job[p].pc \in {"idle", "done"}
    BY DEF Quiet
  <2>2. \A i \in byID : sess[i].state \in {Active, Failed}
    BY <2>1 DEF LInv, Tended, Tends, Tending, Settled
  <2>3. \A k \in LockKey : lock[k] = None
    BY <2>1 DEF LInv, LcTypeOK, Held, Inside, Outside, OrNone
  <2> QED BY <2>2, <2>3
<1> QED BY <1>1, LifecycleInvariant, PTL

\* Of the goroutines in the section that a subscriber lock protects there is one.
Exclusive ==
  \A k \in LockKey : \A p, q \in Proc : Inside(p, k) /\ Inside(q, k) => p = q

\* No two handlers are in the section of one subscriber: lockSubscriber excludes,
\* also across timeouts, failures and the shutdown, which takes one lock after the
\* other.
THEOREM LockExcludes == LcSpec => []Exclusive
<1>1. LInv => Exclusive
  BY DEF LInv, Held, Exclusive
<1> QED BY <1>1, LifecycleInvariant, PTL

\* The service implements the store's specification: every step of AttachAuthorized,
\* a detach or a handler is one operation of the Manager, with arguments the store
\* expects, or leaves the store alone.
THEOREM ServiceUsesStore == LcSpec => UsesStoreAsSpecified
<1>1. LcInit => MgrInit
  BY DEF LcInit
<1> QED BY <1>1, LcStepInv, LifecycleInvariant, PTL DEF LcSpec, MgrSpec, UsesStoreAsSpecified

\* What is proved of the store holds in the service: sound indexes, no service
\* without authorization, sessions found by an unshared MAC, none brought back.
THEOREM ServiceKeepsStore ==
  LcSpec => [](IndexSound /\ AuthorizedBeforeService /\ UnsharedMACFound) /\ NoResurrection
<1>1. LcSpec => MgrSpec
  BY ServiceUsesStore DEF UsesStoreAsSpecified
<1> QED
  BY <1>1, IndexesSound, ServiceIsAuthorized, UnsharedMACIsFound, NoSessionResurrected, PTL
=============================================================================
