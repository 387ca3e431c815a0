--------------------------- MODULE Runtime_proofs ---------------------------
(***************************************************************************)
(* Proofs about the program, for any number of handlers, stations, packets *)
(* and sessions: an Access-Accept is granted by the AAA, the Stops are in  *)
(* an order in which they wait for whom they should, and a clean exit      *)
(* leaves nothing behind.                                                  *)
(*                                                                         *)
(* The proof follows the goroutines.  Effect says what a step of one       *)
(* worker may do to what it shares with the others; the lemmas before      *)
(* SessionsKept show it for each action, those after it that each part of  *)
(* RtInv is kept.                                                          *)
(***************************************************************************)
EXTENDS Runtime, TLAPS

\* Where a worker holds the lock of its subscriber, ...
Locked == {"find", "pending", "create", "activate", "recheck", "delete"}

\* ... where it has a device ...
WithDevice == Locked \cup {"exchange", "attach", "detach"}

\* ... and where it works on one session.
WithSession == {"pending", "create", "activate", "detach", "recheck", "delete"}

\* The states that session can be in.
Expected(l) == CASE l = "pending" -> {"authorized"}
                 [] l \in {"create", "activate"} -> {"pgw_pending"}
                 [] l = "delete" -> {"terminating"}
                 [] OTHER -> State \ {"unused"}

\* Where Main can be, and where a handler can.
MainLabel == {"idle", "list", "next", "detach", "recheck", "delete"}

HandlerLabel == {"idle", "exchange", "attach", "find", "pending", "create",
                 "activate", "detach", "recheck", "delete", "reply"}

\* Where access was granted: on every way from the exchange to an Access-Accept.
Permission(g) ==
  /\ work[g].srv \in {"auth", "acct"}
  /\ work[g].pc = "exchange" => work[g].srv = "auth"
  /\ work[g].pc \in {"detach", "recheck", "delete"} => work[g].srv = "acct"
  /\ work[g].srv = "auth"
       /\ work[g].pc \in {"attach", "find", "pending", "create", "activate"}
     => work[g].granted
  /\ work[g].pc = "reply" /\ work[g].out = "accept" => work[g].granted

\* The workers are where they can be.
Labels ==
  /\ work[Main].pc \in MainLabel
  /\ \A g \in Handler : work[g].pc \in HandlerLabel /\ Permission(g)

\* The lock is held by the worker that is in the section it protects.
Owner(w) ==
  /\ work[w].pc \in WithDevice => work[w].dev \in Station
  /\ work[w].pc \in Locked => lock[work[w].dev] = w

\* The session a worker works on is of its device, and in the state it expects:
\* others cannot change it meanwhile.
Session(w) ==
  work[w].pc \in WithSession =>
     /\ work[w].id \in ID
     /\ sess[work[w].id].dev = work[w].dev
     /\ sess[work[w].id].state \in Expected(work[w].pc)

\* All of this for all workers, and what Shutdown has listed is in use.
Sessions ==
  /\ \A w \in Worker : Owner(w) /\ Session(w)
  /\ \A i \in ID : sess[i].state # "unused" => sess[i].dev \in Station
  /\ \A i \in work[Main].todo : sess[i].state # "unused"

\* The servers are closed and every handler has returned.
Quiet == open = {} /\ \A g \in Handler : work[g].pc = "idle"

\* Which part is next; nothing is stopped before the signal, and the watchdog is
\* not started before its turn.
Counter ==
  /\ main.phase \in {"start", "wait"} => main.n <= 7
  /\ main.phase \in {"start", "run"} \/ (main.phase = "stop" /\ main.n = 1)
       => \A p \in Part : stop[p] = "no"
  /\ main.phase = "start" /\ main.n <= 5 => watchdog = "off"

\* What is stopped after RADIUS is stopped when all is quiet: if the Stop of
\* RADIUS was given up, the time is over and the others are skipped.
Order ==
  /\ main.phase = "stop" /\ main.n >= 3 => budget \/ Quiet
  /\ main.phase = "wait" /\ main.n >= 3 => Quiet
  /\ stop["radius"] = "returned" => budget \/ Quiet
  /\ (main.phase = "stop" /\ main.n <= 5) \/ (main.phase = "wait" /\ main.n < 5)
       => stop["pgw"] = "no"
  /\ stop["pgw"] # "no" => Quiet
  /\ ~gtpc => stop["pgw"] = "returned"

\* The Stop of the user plane has waited for its goroutines.
Plane == stop["userplane"] = "returned" => Ended /\ (failed \/ ~link)

\* Session i is detached, at the PGW too.
Clean(i) == sess[i].state = "terminated" /\ i \notin pgw

\* While no detach has failed, a session that Shutdown has listed is still to be
\* detached, is being detached, or is clean.
Detached ==
  /\ stop["sessions"] = "running" <=> ~At(Main, "idle")
  /\ stop["sessions"] = "no" \/ At(Main, "list") => listed = {}
  /\ ~At(Main, "idle") /\ work[Main].out # "error" =>
       \A i \in listed : \/ i \in work[Main].todo
                         \/ i = work[Main].id /\ work[Main].pc \in WithSession
                         \/ Clean(i)
  /\ stop["sessions"] = "returned" /\ ~failed => \A i \in listed : Clean(i)

\* Without an error so far, the Stop of every part before the next has returned.
Completed ==
  ~failed /\ main.phase \in {"stop", "wait", "exit"} =>
    /\ \A m \in 1..(main.n - 1) : stop[StopOrder[m]] = "returned"
    /\ main.phase = "exit" => main.n = 8

\* The inductive invariant.
RtInv == /\ RtTypeOK /\ Labels /\ Sessions /\ Counter /\ Order /\ Plane
         /\ Detached /\ Completed
-----------------------------------------------------------------------------

\* The type of a session.
SessionType == [dev: Station \cup {None}, state: State]

\* What a step of worker w does to the locks: nothing, it takes a free one, or
\* it gives its own back.
LockEffect(w) ==
  \/ /\ lock' = lock
     /\ work'[w].pc \in Locked => work[w].pc \in Locked /\ work'[w].dev = work[w].dev
  \/ /\ work[w].dev \in Station /\ lock[work[w].dev] = None
     /\ lock' = [lock EXCEPT ![work[w].dev] = w]
     /\ work'[w].dev = work[w].dev
  \/ /\ work[w].pc \in Locked
     /\ lock' = [lock EXCEPT ![work[w].dev] = None]
     /\ work'[w].pc \notin Locked

\* What it does to the sessions: only those of the device whose lock it holds
\* change, or one that is new.
SessEffect(w) ==
  \A i \in ID :
    \/ sess'[i] = sess[i]
    \/ /\ work[w].pc \in Locked
       /\ sess[i].dev = work[w].dev \/ sess[i].state = "unused"
       /\ sess[i].state # "terminated"
       /\ sess'[i].dev = work[w].dev /\ sess'[i].state # "unused"

\* What it does to all that workers share.
Effect(w) ==
  /\ work' \in [Worker -> Work]
  /\ \A v \in Worker : v # w => work'[v] = work[v]
  /\ packets' \in 0..MaxPacket /\ cached' \subseteq Station
  /\ sess' \in [ID -> SessionType]
  /\ lock' \in [Station -> Worker \cup {None}]
  /\ pgw' \subseteq ID
  /\ LockEffect(w)
  /\ work'[w].pc \in WithDevice => work'[w].dev \in Station
  /\ SessEffect(w)
  /\ \A i \in pgw' : i \in pgw \/ sess[i].state = "pgw_pending"
  /\ work'[w].pc \in WithSession =>
       /\ work'[w].id \in ID
       /\ sess'[work'[w].id].dev = work'[w].dev
       /\ sess'[work'[w].id].state \in Expected(work'[w].pc)
  /\ w = Main => \A i \in work'[w].todo : i \in work[w].todo \/ sess[i].state # "unused"

\* What a step does to a handler.
HandlerEffect(g) ==
  /\ work'[g].pc \in HandlerLabel
  /\ Permission(g)'
  /\ work[g].pc = "idle" => open # {}

\* Shutdown is not done with session i.
Left(i) == i \in work[Main].todo \/ (i = work[Main].id /\ work[Main].pc \in WithSession)

\* What a step does to the goroutine of Shutdown.
MainEffect ==
  /\ work[Main].pc \in {"next", "detach", "recheck", "delete"}
  /\ work'[Main].pc \in {"next", "detach", "recheck", "delete"}
  /\ work[Main].out = "error" => work'[Main].out = "error"
  /\ work'[Main].out # "error" => \A i \in ID : Left(i) => Left(i)' \/ Clean(i)'

\* A step of worker w.
Step(w) == Effect(w) /\ (w \in Handler => HandlerEffect(w)) /\ (w = Main => MainEffect)

\* What the invariant says of one worker.
LEMMA Facts ==
  ASSUME RadiusTypeOK, Labels, Sessions, NEW w \in Worker
  PROVE  /\ work[w] \in Work /\ Owner(w) /\ Session(w)
         /\ w = Main => w \notin Handler /\ work[w].pc \in MainLabel
         /\ w # Main => w \in Handler /\ work[w].pc \in HandlerLabel /\ Permission(w)
BY RadiusAssumption DEF RadiusTypeOK, Labels, Sessions, Worker

\* A worker without a packet.
LEMMA IdleWork ==
  ASSUME NEW v \in {"auth", "acct", "main"}
  PROVE  /\ Idle(v) \in Work /\ Idle(v).pc = "idle" /\ Idle(v).srv = v /\ Idle(v).todo = {}
         /\ Idle(v).out = "none" /\ Idle(v).dev = None /\ Idle(v).id = NoSession
BY RadiusAssumption DEF Idle, Work, NoSession

\* A handler that replies keeps its server and whether access was granted.
LEMMA ReplyEffect ==
  ASSUME RadiusTypeOK, NEW g \in Handler,
         NEW o \in {"accept", "challenge", "reject", "response", "error"}, Reply(g, o)
  PROVE  /\ work' \in [Worker -> Work]
         /\ \A v \in Worker : v # g => work'[v] = work[v]
         /\ work'[g].pc = "reply" /\ work'[g].out = o
         /\ work'[g].srv = work[g].srv /\ work'[g].granted = work[g].granted
         /\ work'[g].todo = {}
<1>1. g \in Worker /\ work[g] \in Work /\ work \in [Worker -> Work]
  BY DEF RadiusTypeOK, Worker
<1> DEFINE r == [Idle(work[g].srv) EXCEPT !.pc = "reply", !.out = o,
                                          !.granted = work[g].granted]
<1>2. work' = [work EXCEPT ![g] = r]
  BY DEF Reply
<1>3. /\ r \in Work /\ r.pc = "reply" /\ r.out = o /\ r.srv = work[g].srv
      /\ r.granted = work[g].granted /\ r.todo = {}
  <2>1. Idle(work[g].srv) \in Work /\ Idle(work[g].srv).srv = work[g].srv
        /\ Idle(work[g].srv).todo = {}
    BY <1>1, IdleWork DEF Work
  <2>2. work[g].granted \in BOOLEAN
    BY <1>1 DEF Work
  <2> DEFINE w == Idle(work[g].srv)
  <2>3. w \in Work /\ w.srv = work[g].srv /\ w.todo = {}
    BY <2>1
  <2> HIDE DEF w
  <2>4. LET x == [w EXCEPT !.pc = "reply", !.out = o, !.granted = work[g].granted]
        IN /\ x \in Work /\ x.pc = "reply" /\ x.out = o /\ x.srv = work[g].srv
           /\ x.granted = work[g].granted /\ x.todo = {}
    BY <2>2, <2>3 DEF Work
  <2> QED
    BY <2>4 DEF w
<1> HIDE DEF r
<1> QED
  BY <1>1, <1>2, <1>3

\* What follows a detach or attach: only an Access-Request is accepted, and only
\* when nothing failed; Main remembers a failure.
LEMMA AfterEffect ==
  ASSUME RadiusTypeOK, Labels, NEW w \in Worker, NEW f \in BOOLEAN, After(w, f)
  PROVE  /\ work' \in [Worker -> Work]
         /\ \A v \in Worker : v # w => work'[v] = work[v]
         /\ w = Main => /\ work'[w].pc = "next" /\ work'[w].todo = work[w].todo
                        /\ work'[w].out = IF f THEN "error" ELSE work[w].out
         /\ w # Main => /\ work'[w].pc = "reply" /\ work'[w].srv = work[w].srv
                        /\ work'[w].granted = work[w].granted
                        /\ work'[w].out = "accept" => ~f /\ work[w].srv # "acct"
<1>0. work[w] \in Work /\ work \in [Worker -> Work]
  BY DEF RadiusTypeOK
<1>1. CASE w = Main
  <2> DEFINE r == [work[w] EXCEPT !.pc = "next", !.out = IF f THEN "error" ELSE work[w].out]
  <2>1. work' = [work EXCEPT ![w] = r]
    BY <1>0, <1>1 DEF After, Work
  <2>2. r \in Work /\ r.pc = "next" /\ r.todo = work[w].todo
        /\ r.out = IF f THEN "error" ELSE work[w].out
    BY <1>0 DEF Work
  <2> HIDE DEF r
  <2> QED
    BY <1>0, <1>1, <2>1, <2>2
<1>2. CASE w # Main
  <2> DEFINE o == IF work[w].srv = "acct" THEN "response" ELSE IF f THEN "reject" ELSE "accept"
  <2>1. w \in Handler /\ Reply(w, o)
    BY <1>2 DEF After, Worker
  <2>2. /\ o \in {"accept", "challenge", "reject", "response", "error"}
        /\ o = "accept" => ~f /\ work[w].srv # "acct"
    OBVIOUS
  <2> HIDE DEF o
  <2> QED
    BY <1>2, <2>1, <2>2, ReplyEffect
<1> QED
  BY <1>1, <1>2

\* The lock is free again.
LEMMA UnlockEffect ==
  ASSUME RadiusTypeOK, NEW w \in Worker, Unlock(w)
  PROVE  lock' = [lock EXCEPT ![work[w].dev] = None] /\ lock' \in [Station -> Worker \cup {None}]
BY DEF RadiusTypeOK, Unlock

\* One session changes its state, and no session its device.
LEMMA SetStateEffect ==
  ASSUME RadiusTypeOK, NEW i \in ID, NEW s \in State, SetState(i, s)
  PROVE  /\ sess' \in [ID -> SessionType]
         /\ \A j \in ID : j # i => sess'[j] = sess[j]
         /\ sess'[i].state = s /\ sess'[i].dev = sess[i].dev
BY DEF RadiusTypeOK, SetState, SessionType

\* lockSubscriber is a step.
LEMMA LockSteps ==
  ASSUME RadiusTypeOK, Labels, Sessions, NEW w \in Worker, lockSubscriber(w)
  PROVE  Step(w)
<1>0. /\ work[w] \in Work /\ work \in [Worker -> Work] /\ Owner(w) /\ Session(w)
      /\ w = Main => w \notin Handler /\ work[w].pc \in MainLabel
      /\ w # Main => w \in Handler /\ work[w].pc \in HandlerLabel /\ Permission(w)
  BY Facts DEF RadiusTypeOK
<1> DEFINE l == IF At(w, "attach") THEN "find" ELSE "recheck"
<1>1. work' = [work EXCEPT ![w] = [work[w] EXCEPT !.pc = l]]
  BY <1>0 DEF lockSubscriber, Goto, Work
<1>2. /\ work' \in [Worker -> Work]
      /\ \A v \in Worker : v # w => work'[v] = work[v]
      /\ work'[w] = [work[w] EXCEPT !.pc = l]
  BY <1>0, <1>1 DEF Work
<1>3. /\ work'[w].pc = l /\ work'[w].dev = work[w].dev /\ work'[w].id = work[w].id
      /\ work'[w].todo = work[w].todo /\ work'[w].out = work[w].out
      /\ work'[w].srv = work[w].srv /\ work'[w].granted = work[w].granted
  BY <1>0, <1>2 DEF Work
<1>4. work[w].dev \in Station /\ lock[work[w].dev] = None
  BY <1>0 DEF Owner, lockSubscriber, WithDevice, Locked
<1>5. Effect(w)
  <2>1. LockEffect(w) /\ lock' \in [Station -> Worker \cup {None}]
    BY <1>3, <1>4 DEF LockEffect, lockSubscriber, RadiusTypeOK
  <2>2. sess' = sess /\ pgw' = pgw /\ packets' = packets /\ cached' = cached
    BY DEF lockSubscriber
  <2>3. SessEffect(w)
    BY <2>2 DEF SessEffect
  <2>4. work'[w].pc \in WithSession =>
         /\ work'[w].id \in ID
         /\ sess'[work'[w].id].dev = work'[w].dev
         /\ sess'[work'[w].id].state \in Expected(work'[w].pc)
    BY <1>0, <1>3, <2>2 DEF Session, WithSession, Expected, lockSubscriber, At
  <2> QED
    BY <1>2, <1>3, <1>4, <2>1, <2>2, <2>3, <2>4 DEF Effect, RadiusTypeOK, SessionType
<1>6. w \in Handler => HandlerEffect(w)
  BY <1>0, <1>3 DEF HandlerEffect, HandlerLabel, Permission, lockSubscriber, At
<1>7. w = Main => MainEffect
  BY <1>0, <1>3 DEF MainEffect, Left, lockSubscriber, MainLabel, At, WithSession
<1> QED
  BY <1>5, <1>6, <1>7 DEF Step

\* lockTimeout is a step.
LEMMA TimeoutSteps ==
  ASSUME RadiusTypeOK, Labels, Sessions, NEW w \in Worker, lockTimeout(w)
  PROVE  Step(w)
<1>0. /\ work[w] \in Work /\ work \in [Worker -> Work] /\ Owner(w) /\ Session(w)
      /\ w = Main => w \notin Handler /\ work[w].pc \in MainLabel
      /\ w # Main => w \in Handler /\ work[w].pc \in HandlerLabel /\ Permission(w)
  BY Facts DEF RadiusTypeOK
<1>1. After(w, TRUE) /\ work[w].pc \in {"attach", "detach"}
      /\ UNCHANGED <<packets, sess, cached, lock, pgw>>
  BY DEF lockTimeout
<1>2. /\ work' \in [Worker -> Work]
      /\ \A v \in Worker : v # w => work'[v] = work[v]
      /\ w = Main => /\ work'[w].pc = "next" /\ work'[w].todo = work[w].todo
                     /\ work'[w].out = "error"
      /\ w # Main => /\ work'[w].pc = "reply" /\ work'[w].srv = work[w].srv
                     /\ work'[w].granted = work[w].granted
                     /\ work'[w].out # "accept"
  BY <1>1, AfterEffect
<1>5. Effect(w)
  BY <1>1, <1>2
     DEF Effect, RadiusTypeOK, SessionType, LockEffect, SessEffect, Locked, WithDevice,
         WithSession
<1>6. w \in Handler => HandlerEffect(w)
  BY <1>0, <1>1, <1>2 DEF HandlerEffect, HandlerLabel, Permission
<1>7. w = Main => MainEffect
  BY <1>0, <1>1, <1>2 DEF MainEffect, MainLabel
<1> QED
  BY <1>5, <1>6, <1>7 DEF Step

\* markTerminating is a step.
LEMMA TerminatingSteps ==
  ASSUME RadiusTypeOK, Labels, Sessions, NEW w \in Worker, markTerminating(w)
  PROVE  Step(w)
<1>0. /\ work[w] \in Work /\ work \in [Worker -> Work] /\ Owner(w) /\ Session(w)
      /\ w = Main => w \notin Handler /\ work[w].pc \in MainLabel
      /\ w # Main => w \in Handler /\ work[w].pc \in HandlerLabel /\ Permission(w)
  BY Facts DEF RadiusTypeOK
<1>a. /\ work[w].pc = "recheck" /\ work[w].id \in ID /\ work[w].dev \in Station
      /\ sess[work[w].id].dev = work[w].dev /\ lock[work[w].dev] = w
      /\ UNCHANGED <<packets, cached, pgw>>
  BY <1>0 DEF markTerminating, At, Owner, Session, Locked, WithDevice, WithSession
<1>1. CASE /\ sess[work[w].id].state \in {"authorized", "pgw_pending", "active"}
           /\ SetState(work[w].id, "terminating") /\ Goto(w, "delete") /\ UNCHANGED lock
  <2>1. work' = [work EXCEPT ![w] = [work[w] EXCEPT !.pc = "delete"]]
    BY <1>0, <1>1 DEF Goto, Work
  <2>2. /\ work' \in [Worker -> Work]
        /\ \A v \in Worker : v # w => work'[v] = work[v]
        /\ work'[w].pc = "delete" /\ work'[w].dev = work[w].dev /\ work'[w].id = work[w].id
        /\ work'[w].todo = work[w].todo /\ work'[w].out = work[w].out
        /\ work'[w].srv = work[w].srv /\ work'[w].granted = work[w].granted
    BY <1>0, <2>1 DEF Work
  <2>3. /\ sess' \in [ID -> SessionType]
        /\ \A j \in ID : j # work[w].id => sess'[j] = sess[j]
        /\ sess'[work[w].id].state = "terminating"
        /\ sess'[work[w].id].dev = sess[work[w].id].dev
    BY <1>a, <1>1, SetStateEffect DEF State
  <2>5. Effect(w)
    <3>1. LockEffect(w) /\ lock' \in [Station -> Worker \cup {None}]
      BY <1>a, <1>1, <2>2 DEF LockEffect, RadiusTypeOK, Locked, WithDevice
    <3>2. SessEffect(w)
      BY <1>a, <1>1, <2>3 DEF SessEffect, Locked, WithDevice
    <3> QED
      BY <1>a, <2>2, <2>3, <3>1, <3>2 DEF Effect, RadiusTypeOK, Expected, WithDevice, Locked
  <2>6. w \in Handler => HandlerEffect(w)
    BY <1>0, <1>a, <2>2 DEF HandlerEffect, HandlerLabel, Permission
  <2>7. w = Main => MainEffect
    BY <1>a, <2>2 DEF MainEffect, Left, WithSession
  <2> QED
    BY <2>5, <2>6, <2>7 DEF Step
<1>2. CASE Unlock(w) /\ After(w, TRUE) /\ UNCHANGED sess
  <2>2. /\ work' \in [Worker -> Work]
        /\ \A v \in Worker : v # w => work'[v] = work[v]
        /\ w = Main => /\ work'[w].pc = "next" /\ work'[w].todo = work[w].todo
                       /\ work'[w].out = "error"
        /\ w # Main => /\ work'[w].pc = "reply" /\ work'[w].srv = work[w].srv
                       /\ work'[w].granted = work[w].granted
                       /\ work'[w].out # "accept"
    BY <1>2, AfterEffect
  <2>3. lock' = [lock EXCEPT ![work[w].dev] = None] /\ lock' \in [Station -> Worker \cup {None}]
    BY <1>2, UnlockEffect
  <2>5. Effect(w)
    BY <1>a, <1>2, <2>2, <2>3
       DEF Effect, RadiusTypeOK, SessionType, LockEffect, SessEffect, Locked, WithDevice,
           WithSession
  <2>6. w \in Handler => HandlerEffect(w)
    BY <1>0, <1>a, <2>2 DEF HandlerEffect, HandlerLabel, Permission
  <2>7. w = Main => MainEffect
    BY <1>a, <2>2 DEF MainEffect
  <2> QED
    BY <2>5, <2>6, <2>7 DEF Step
<1> QED
  BY <1>1, <1>2 DEF markTerminating

\* deleteSession is a step: without an error the session is clean.
LEMMA DeleteSteps ==
  ASSUME RadiusTypeOK, Labels, Sessions, NEW w \in Worker, deleteSession(w)
  PROVE  Step(w)
<1>0. /\ work[w] \in Work /\ work \in [Worker -> Work] /\ Owner(w) /\ Session(w)
      /\ w = Main => w \notin Handler /\ work[w].pc \in MainLabel
      /\ w # Main => w \in Handler /\ work[w].pc \in HandlerLabel /\ Permission(w)
  BY Facts DEF RadiusTypeOK
<1>a. /\ work[w].pc = "delete" /\ work[w].id \in ID /\ work[w].dev \in Station
      /\ sess[work[w].id].dev = work[w].dev /\ lock[work[w].dev] = w
      /\ sess[work[w].id].state = "terminating"
      /\ UNCHANGED <<packets, cached>>
  BY <1>0 DEF deleteSession, At, Owner, Session, Locked, WithDevice, WithSession, Expected
<1>1. /\ sess' \in [ID -> SessionType]
      /\ \A j \in ID : j # work[w].id => sess'[j] = sess[j]
      /\ sess'[work[w].id].state = "terminated"
      /\ sess'[work[w].id].dev = sess[work[w].id].dev
  <2>1. SetState(work[w].id, "terminated")
    BY DEF deleteSession
  <2> QED
    BY <1>a, <2>1, SetStateEffect DEF State
<1>2. lock' = [lock EXCEPT ![work[w].dev] = None] /\ lock' \in [Station -> Worker \cup {None}]
  BY UnlockEffect DEF deleteSession
<1>3. PICK f \in BOOLEAN : /\ After(w, f) /\ pgw' \subseteq pgw
                           /\ ~f => pgw' = pgw \ {work[w].id}
  BY DEF deleteSession
<1>4. /\ work' \in [Worker -> Work]
      /\ \A v \in Worker : v # w => work'[v] = work[v]
      /\ w = Main => /\ work'[w].pc = "next" /\ work'[w].todo = work[w].todo
                     /\ work'[w].out = IF f THEN "error" ELSE work[w].out
      /\ w # Main => /\ work'[w].pc = "reply" /\ work'[w].srv = work[w].srv
                     /\ work'[w].granted = work[w].granted
                     /\ work'[w].out = "accept" => ~f /\ work[w].srv # "acct"
  BY <1>3, AfterEffect
<1>5. Effect(w)
  <2>1. LockEffect(w)
    BY <1>a, <1>2, <1>4 DEF LockEffect, Locked, WithDevice
  <2>2. SessEffect(w)
    BY <1>a, <1>1 DEF SessEffect, Locked, WithDevice
  <2> QED
    BY <1>a, <1>1, <1>2, <1>3, <1>4, <2>1, <2>2
       DEF Effect, RadiusTypeOK, Locked, WithDevice, WithSession
<1>6. w \in Handler => HandlerEffect(w)
  BY <1>0, <1>a, <1>4 DEF HandlerEffect, HandlerLabel, Permission
<1>7. w = Main => MainEffect
  BY <1>a, <1>1, <1>3, <1>4 DEF MainEffect, Left, Clean, WithSession
<1> QED
  BY <1>5, <1>6, <1>7 DEF Step

\* pgwDeletes is a step.
LEMMA PgwDeletesSteps ==
  ASSUME RadiusTypeOK, Labels, Sessions, NEW w \in Worker, pgwDeletes(w)
  PROVE  Step(w)
<1>0. /\ work[w] \in Work /\ work \in [Worker -> Work] /\ Owner(w) /\ Session(w)
      /\ w = Main => w \notin Handler /\ work[w].pc \in MainLabel
      /\ w # Main => w \in Handler /\ work[w].pc \in HandlerLabel /\ Permission(w)
  BY Facts DEF RadiusTypeOK
<1>1. /\ work[w].pc = "delete" /\ pgw' \subseteq pgw
      /\ UNCHANGED <<work, packets, open, sta, gtpc, sess, cached, lock>>
  BY DEF pgwDeletes, At
<1>5. Effect(w)
  BY <1>0, <1>1 DEF Effect, RadiusTypeOK, SessionType, LockEffect, SessEffect, Owner, Session
<1>6. w \in Handler => HandlerEffect(w)
  BY <1>0, <1>1 DEF HandlerEffect, HandlerLabel, Permission
<1>7. w = Main => MainEffect
  BY <1>1 DEF MainEffect, Left
<1> QED
  BY <1>5, <1>6, <1>7 DEF Step

\* findAttachExisting is a step.
LEMMA FindSteps ==
  ASSUME RadiusTypeOK, Labels, Sessions, NEW g \in Handler, findAttachExisting(g)
  PROVE  Step(g)
<1>0. /\ g \in Worker /\ g # Main /\ work[g] \in Work /\ work \in [Worker -> Work]
      /\ Owner(g) /\ Session(g) /\ work[g].pc \in HandlerLabel /\ Permission(g)
  BY Facts, RadiusAssumption DEF RadiusTypeOK, Worker
<1>a. /\ work[g].pc = "find" /\ work[g].dev \in Station /\ lock[work[g].dev] = g
      /\ UNCHANGED <<packets, cached, pgw>>
  BY <1>0 DEF findAttachExisting, At, Owner, Locked, WithDevice
<1>1. CASE After(g, FALSE) /\ Unlock(g) /\ UNCHANGED sess
  <2>2. /\ work' \in [Worker -> Work]
        /\ \A v \in Worker : v # g => work'[v] = work[v]
        /\ work'[g].pc = "reply" /\ work'[g].srv = work[g].srv
        /\ work'[g].granted = work[g].granted
        /\ work'[g].out = "accept" => ~FALSE /\ work[g].srv # "acct"
    BY <1>0, <1>1, AfterEffect
  <2>3. lock' = [lock EXCEPT ![work[g].dev] = None] /\ lock' \in [Station -> Worker \cup {None}]
    BY <1>0, <1>1, UnlockEffect
  <2>5. Effect(g)
    BY <1>0, <1>a, <1>1, <2>2, <2>3
       DEF Effect, RadiusTypeOK, SessionType, LockEffect, SessEffect, Locked, WithDevice,
           WithSession
  <2>6. HandlerEffect(g)
    BY <1>0, <1>a, <2>2 DEF HandlerEffect, HandlerLabel, Permission
  <2> QED
    BY <1>0, <2>5, <2>6 DEF Step
<1>2. ASSUME NEW new \in ID, sess[new].state = "unused",
             sess' = [sess EXCEPT ![new] = [dev |-> work[g].dev, state |-> "authorized"]],
             work' = [work EXCEPT ![g].pc = "pending", ![g].id = new],
             UNCHANGED lock
      PROVE  Step(g)
  <2>1. work' = [work EXCEPT ![g] = [work[g] EXCEPT !.pc = "pending", !.id = new]]
    BY <1>0, <1>2 DEF Work
  <2>2. /\ work' \in [Worker -> Work]
        /\ \A v \in Worker : v # g => work'[v] = work[v]
        /\ work'[g].pc = "pending" /\ work'[g].dev = work[g].dev /\ work'[g].id = new
        /\ work'[g].srv = work[g].srv /\ work'[g].granted = work[g].granted
    <3>1. new \in 0..MaxSession
      BY DEF ID
    <3> QED
      BY <1>0, <2>1, <3>1 DEF Work
  <2>3. /\ sess' \in [ID -> SessionType]
        /\ \A j \in ID : j # new => sess'[j] = sess[j]
        /\ sess'[new].state = "authorized" /\ sess'[new].dev = work[g].dev
    BY <1>a, <1>2 DEF RadiusTypeOK, SessionType, State
  <2>5. Effect(g)
    <3>1. LockEffect(g) /\ lock' \in [Station -> Worker \cup {None}]
      BY <1>a, <1>2, <2>2 DEF LockEffect, RadiusTypeOK, Locked, WithDevice
    <3>2. SessEffect(g)
      BY <1>a, <1>2, <2>3 DEF SessEffect, Locked, WithDevice
    <3> QED
      BY <1>0, <1>a, <2>2, <2>3, <3>1, <3>2
         DEF Effect, RadiusTypeOK, Expected, WithDevice, Locked
  <2>6. HandlerEffect(g)
    BY <1>0, <1>a, <2>2 DEF HandlerEffect, HandlerLabel, Permission
  <2> QED
    BY <1>0, <2>5, <2>6 DEF Step
<1> QED
  BY <1>1, <1>2 DEF findAttachExisting

\* markPGWPending is a step.
LEMMA PendingSteps ==
  ASSUME RadiusTypeOK, Labels, Sessions, NEW g \in Handler, markPGWPending(g)
  PROVE  Step(g)
<1>0. /\ g \in Worker /\ g # Main /\ work[g] \in Work /\ work \in [Worker -> Work]
      /\ Owner(g) /\ Session(g) /\ work[g].pc \in HandlerLabel /\ Permission(g)
  BY Facts, RadiusAssumption DEF RadiusTypeOK, Worker
<1>a. /\ work[g].pc = "pending" /\ work[g].id \in ID /\ work[g].dev \in Station
      /\ sess[work[g].id].dev = work[g].dev /\ lock[work[g].dev] = g
      /\ sess[work[g].id].state = "authorized"
      /\ UNCHANGED <<packets, cached, pgw, lock>>
  BY <1>0 DEF markPGWPending, At, Owner, Session, Locked, WithDevice, WithSession, Expected
<1>1. work' = [work EXCEPT ![g] = [work[g] EXCEPT !.pc = "create"]]
  BY <1>0 DEF markPGWPending, Goto, Work
<1>2. /\ work' \in [Worker -> Work]
      /\ \A v \in Worker : v # g => work'[v] = work[v]
      /\ work'[g].pc = "create" /\ work'[g].dev = work[g].dev /\ work'[g].id = work[g].id
      /\ work'[g].srv = work[g].srv /\ work'[g].granted = work[g].granted
  BY <1>0, <1>1 DEF Work
<1>3. /\ sess' \in [ID -> SessionType]
      /\ \A j \in ID : j # work[g].id => sess'[j] = sess[j]
      /\ sess'[work[g].id].state = "pgw_pending"
      /\ sess'[work[g].id].dev = sess[work[g].id].dev
  <2>1. SetState(work[g].id, "pgw_pending")
    BY DEF markPGWPending
  <2> QED
    BY <1>a, <2>1, SetStateEffect DEF State
<1>5. Effect(g)
  <2>1. LockEffect(g)
    BY <1>a, <1>2 DEF LockEffect, Locked, WithDevice
  <2>2. SessEffect(g)
    BY <1>a, <1>3 DEF SessEffect, Locked, WithDevice
  <2> QED
    BY <1>0, <1>a, <1>2, <1>3, <2>1, <2>2 DEF Effect, RadiusTypeOK, Expected, WithDevice, Locked
<1>6. HandlerEffect(g)
  BY <1>0, <1>a, <1>2 DEF HandlerEffect, HandlerLabel, Permission
<1> QED
  BY <1>0, <1>5, <1>6 DEF Step

\* pgwAccepts is a step: the PGW only gets a context for a session that waits for
\* it.
LEMMA AcceptSteps ==
  ASSUME RadiusTypeOK, Labels, Sessions, NEW g \in Handler, pgwAccepts(g)
  PROVE  Step(g)
<1>0. /\ g \in Worker /\ g # Main /\ work[g] \in Work /\ work \in [Worker -> Work]
      /\ Owner(g) /\ Session(g) /\ work[g].pc \in HandlerLabel /\ Permission(g)
  BY Facts, RadiusAssumption DEF RadiusTypeOK, Worker
<1>a. /\ work[g].pc = "create" /\ work[g].id \in ID /\ work[g].dev \in Station
      /\ sess[work[g].id].dev = work[g].dev /\ lock[work[g].dev] = g
      /\ sess[work[g].id].state = "pgw_pending"
      /\ UNCHANGED <<packets, cached, lock, sess>>
  BY <1>0 DEF pgwAccepts, At, Owner, Session, Locked, WithDevice, WithSession, Expected
<1>1. pgw' \subseteq pgw \cup {work[g].id}
  BY DEF pgwAccepts
<1>2. PICK l \in {"create", "activate"} : work' = [work EXCEPT ![g] = [work[g] EXCEPT !.pc = l]]
  <2>1. CASE Goto(g, "activate")
    BY <1>0, <2>1 DEF Goto, Work
  <2>2. CASE UNCHANGED work
    <3>1. work[g] = [work[g] EXCEPT !.pc = "create"]
      BY <1>0, <1>a DEF Work
    <3>2. work' = [work EXCEPT ![g] = work[g]]
      BY <1>0, <2>2
    <3> QED
      BY <3>1, <3>2
  <2> QED
    BY <2>1, <2>2 DEF pgwAccepts
<1>3. /\ work' \in [Worker -> Work]
      /\ \A v \in Worker : v # g => work'[v] = work[v]
      /\ work'[g].pc = l /\ work'[g].dev = work[g].dev /\ work'[g].id = work[g].id
      /\ work'[g].srv = work[g].srv /\ work'[g].granted = work[g].granted
  BY <1>0, <1>2 DEF Work
<1>5. Effect(g)
  <2>1. LockEffect(g) /\ SessEffect(g)
    BY <1>a, <1>3 DEF LockEffect, SessEffect, Locked, WithDevice
  <2> QED
    BY <1>0, <1>a, <1>1, <1>3, <2>1 DEF Effect, RadiusTypeOK, Expected, SessionType
<1>6. HandlerEffect(g)
  BY <1>0, <1>a, <1>3 DEF HandlerEffect, HandlerLabel, Permission
<1> QED
  BY <1>0, <1>5, <1>6 DEF Step

\* createFails and activate are steps.
LEMMA CreateFailsSteps ==
  ASSUME RadiusTypeOK, Labels, Sessions, NEW g \in Handler, createFails(g) \/ activate(g)
  PROVE  Step(g)
<1>0. /\ g \in Worker /\ g # Main /\ work[g] \in Work /\ work \in [Worker -> Work]
      /\ Owner(g) /\ Session(g) /\ work[g].pc \in HandlerLabel /\ Permission(g)
  BY Facts, RadiusAssumption DEF RadiusTypeOK, Worker
<1>a. /\ work[g].pc \in {"create", "activate"} /\ work[g].id \in ID /\ work[g].dev \in Station
      /\ sess[work[g].id].dev = work[g].dev /\ lock[work[g].dev] = g
      /\ sess[work[g].id].state = "pgw_pending"
      /\ UNCHANGED packets
  BY <1>0
     DEF createFails, activate, At, Owner, Session, Locked, WithDevice, WithSession, Expected
<1>b. PICK s \in {"active", "failed"}, f \in BOOLEAN : SetState(work[g].id, s) /\ After(g, f)
  BY DEF createFails, activate
<1>c. Unlock(g) /\ pgw' \subseteq pgw /\ cached' \subseteq Station
  BY <1>a DEF createFails, activate, RadiusTypeOK
<1>1. /\ sess' \in [ID -> SessionType]
      /\ \A j \in ID : j # work[g].id => sess'[j] = sess[j]
      /\ sess'[work[g].id].state = s
      /\ sess'[work[g].id].dev = sess[work[g].id].dev
  BY <1>a, <1>b, SetStateEffect DEF State
<1>2. /\ work' \in [Worker -> Work]
      /\ \A v \in Worker : v # g => work'[v] = work[v]
      /\ work'[g].pc = "reply" /\ work'[g].srv = work[g].srv
      /\ work'[g].granted = work[g].granted
      /\ work'[g].out = "accept" => ~f /\ work[g].srv # "acct"
  BY <1>0, <1>b, AfterEffect
<1>3. lock' = [lock EXCEPT ![work[g].dev] = None] /\ lock' \in [Station -> Worker \cup {None}]
  BY <1>0, <1>c, UnlockEffect
<1>5. Effect(g)
  <2>1. LockEffect(g)
    BY <1>a, <1>2, <1>3 DEF LockEffect, Locked, WithDevice
  <2>2. SessEffect(g)
    BY <1>a, <1>1 DEF SessEffect, Locked, WithDevice
  <2> QED
    BY <1>0, <1>a, <1>c, <1>1, <1>2, <1>3, <2>1, <2>2
       DEF Effect, RadiusTypeOK, Locked, WithDevice, WithSession
<1>6. HandlerEffect(g)
  BY <1>0, <1>a, <1>2 DEF HandlerEffect, HandlerLabel, Permission
<1> QED
  BY <1>0, <1>5, <1>6 DEF Step

\* expire is a step.
LEMMA ExpireSteps ==
  ASSUME RadiusTypeOK, Labels, Sessions, NEW g \in Handler, expire(g)
  PROVE  Step(g)
<1>0. /\ g \in Worker /\ g # Main /\ work[g] \in Work /\ work \in [Worker -> Work]
      /\ Owner(g) /\ Session(g) /\ work[g].pc \in HandlerLabel /\ Permission(g)
  BY Facts, RadiusAssumption DEF RadiusTypeOK, Worker
<1>1. work' = [work EXCEPT ![g] = [work[g] EXCEPT !.ctxDone = TRUE]]
  BY <1>0 DEF expire, Work
<1>2. /\ work' \in [Worker -> Work]
      /\ \A v \in Worker : v # g => work'[v] = work[v]
      /\ work'[g].pc = work[g].pc /\ work'[g].dev = work[g].dev /\ work'[g].id = work[g].id
      /\ work'[g].srv = work[g].srv /\ work'[g].granted = work[g].granted
      /\ work'[g].out = work[g].out
  BY <1>0, <1>1 DEF Work
<1>3. work[g].pc # "idle" /\ UNCHANGED <<packets, open, sta, gtpc, sess, cached, lock, pgw>>
  BY DEF expire
<1>5. Effect(g)
  <2>1. LockEffect(g) /\ SessEffect(g)
    BY <1>2, <1>3 DEF LockEffect, SessEffect
  <2> QED
    BY <1>0, <1>2, <1>3, <2>1 DEF Effect, RadiusTypeOK, SessionType, Owner, Session
<1>6. HandlerEffect(g)
  BY <1>0, <1>2, <1>3 DEF HandlerEffect, HandlerLabel, Permission
<1> QED
  BY <1>0, <1>5, <1>6 DEF Step

\* reply is a step.
LEMMA ReplySteps ==
  ASSUME RadiusTypeOK, Labels, Sessions, NEW g \in Handler, reply(g)
  PROVE  Step(g)
<1>0. /\ g \in Worker /\ g # Main /\ work[g] \in Work /\ work \in [Worker -> Work]
      /\ Owner(g) /\ Session(g) /\ work[g].pc \in HandlerLabel /\ Permission(g)
  BY Facts, RadiusAssumption DEF RadiusTypeOK, Worker
<1>1. work' = [work EXCEPT ![g] = Idle("acct")]
  BY <1>0 DEF reply, Return
<1>2. /\ work' \in [Worker -> Work]
      /\ \A v \in Worker : v # g => work'[v] = work[v]
      /\ work'[g].pc = "idle" /\ work'[g].srv = "acct"
  BY <1>0, <1>1, IdleWork
<1>3. work[g].pc = "reply" /\ UNCHANGED <<packets, open, sta, gtpc, sess, cached, lock, pgw>>
  BY DEF reply, At
<1>5. Effect(g)
  BY <1>0, <1>2, <1>3
     DEF Effect, RadiusTypeOK, SessionType, LockEffect, SessEffect, Locked, WithDevice,
         WithSession
<1>6. HandlerEffect(g)
  BY <1>0, <1>2, <1>3 DEF HandlerEffect, HandlerLabel, Permission
<1> QED
  BY <1>0, <1>5, <1>6 DEF Step

\* The three layers between the AAA and the handler: whatever the AAA answers, an
\* attach follows only when it granted access.
LEMMA OutcomeIsGranted ==
  ASSUME NEW a \in Answer
  PROVE  LET o == exchangeOutcome(eapExchangeResult(a))
         IN /\ o \in {"attach", "challenge", "reject"}
            /\ o = "attach" => Granted(a)
BY DEF Answer, exchangeOutcome, eapExchangeResult, providerRejects, Granted

\* ExchangeEAP and exchangeFails are steps.
LEMMA ExchangeSteps ==
  ASSUME RadiusTypeOK, Labels, Sessions, NEW g \in Handler, ExchangeEAP(g) \/ exchangeFails(g)
  PROVE  Step(g)
<1>0. /\ g \in Worker /\ g # Main /\ work[g] \in Work /\ work \in [Worker -> Work]
      /\ Owner(g) /\ Session(g) /\ work[g].pc \in HandlerLabel /\ Permission(g)
  BY Facts, RadiusAssumption DEF RadiusTypeOK, Worker
<1>a. /\ work[g].pc = "exchange" /\ work[g].srv = "auth"
      /\ UNCHANGED <<packets, open, sta, gtpc, sess, cached, lock, pgw>>
  BY <1>0 DEF ExchangeEAP, exchangeFails, At, Permission
<1>1. ASSUME NEW o \in {"challenge", "reject"}, Reply(g, o)
      PROVE  Step(g)
  <2>2. /\ work' \in [Worker -> Work]
        /\ \A v \in Worker : v # g => work'[v] = work[v]
        /\ work'[g].pc = "reply" /\ work'[g].srv = work[g].srv /\ work'[g].out = o
    BY <1>1, ReplyEffect
  <2>5. Effect(g)
    BY <1>0, <1>a, <2>2
       DEF Effect, RadiusTypeOK, SessionType, LockEffect, SessEffect, Locked, WithDevice,
           WithSession
  <2>6. HandlerEffect(g)
    BY <1>0, <1>a, <2>2 DEF HandlerEffect, HandlerLabel, Permission
  <2> QED
    BY <1>0, <2>5, <2>6 DEF Step
<1>2. ASSUME work' = [work EXCEPT ![g].pc = "attach", ![g].granted = TRUE],
             work[g].dev \in Station
      PROVE  Step(g)
  <2>1. work' = [work EXCEPT ![g] = [work[g] EXCEPT !.pc = "attach", !.granted = TRUE]]
    BY <1>0, <1>2 DEF Work
  <2>2. /\ work' \in [Worker -> Work]
        /\ \A v \in Worker : v # g => work'[v] = work[v]
        /\ work'[g].pc = "attach" /\ work'[g].srv = work[g].srv /\ work'[g].granted
        /\ work'[g].dev = work[g].dev
    BY <1>0, <2>1 DEF Work
  <2>5. Effect(g)
    BY <1>0, <1>a, <1>2, <2>2
       DEF Effect, RadiusTypeOK, SessionType, LockEffect, SessEffect, Locked, WithDevice,
           WithSession
  <2>6. HandlerEffect(g)
    BY <1>0, <1>a, <2>2 DEF HandlerEffect, HandlerLabel, Permission
  <2> QED
    BY <1>0, <2>5, <2>6 DEF Step
<1>3. CASE exchangeFails(g)
  BY <1>1, <1>3 DEF exchangeFails
<1>4. CASE ExchangeEAP(g)
  <2>1. PICK a \in Answer :
          IF exchangeOutcome(eapExchangeResult(a)) = "attach"
          THEN work' = [work EXCEPT ![g].pc = "attach", ![g].granted = Granted(a)]
          ELSE Reply(g, exchangeOutcome(eapExchangeResult(a)))
    BY <1>4 DEF ExchangeEAP
  <2>2. CASE exchangeOutcome(eapExchangeResult(a)) = "attach"
    <3>1. Granted(a) = TRUE
      BY <2>2, OutcomeIsGranted DEF Granted, Answer
    <3> QED
      BY <1>0, <1>a, <1>2, <2>1, <2>2, <3>1 DEF Owner, WithDevice
  <2>3. CASE exchangeOutcome(eapExchangeResult(a)) # "attach"
    BY <1>1, <2>1, <2>3, OutcomeIsGranted
  <2> QED
    BY <2>2, <2>3
<1> QED
  BY <1>3, <1>4

\* A handler that begins.
LEMMA BeginEffect ==
  ASSUME RadiusTypeOK, NEW g \in Handler, NEW r \in Work, work' = [work EXCEPT ![g] = r]
  PROVE  /\ work' \in [Worker -> Work] /\ work'[g] = r
         /\ \A v \in Worker : v # g => work'[v] = work[v]
BY DEF RadiusTypeOK, Worker

\* receive is a step: a packet is handled when a server listens.
LEMMA ReceiveSteps ==
  ASSUME RadiusTypeOK, Labels, Sessions, NEW g \in Handler, receive(g)
  PROVE  Step(g)
<1>0. /\ g \in Worker /\ g # Main /\ work[g] \in Work /\ work \in [Worker -> Work]
      /\ Owner(g) /\ Session(g) /\ work[g].pc \in HandlerLabel /\ Permission(g)
  BY Facts, RadiusAssumption DEF RadiusTypeOK, Worker
<1>a. /\ work[g].pc = "idle" /\ packets' \in 0..MaxPacket
      /\ UNCHANGED <<open, sta, gtpc, sess, cached, lock, pgw>>
  BY RadiusAssumption DEF receive, At, RadiusTypeOK
<1>b. open # {}
  BY DEF receive
<1>1. CASE UNCHANGED work
  <2>5. Effect(g)
    BY <1>0, <1>a, <1>1
       DEF Effect, RadiusTypeOK, SessionType, LockEffect, SessEffect, Locked, WithDevice,
           WithSession
  <2>6. HandlerEffect(g)
    BY <1>0, <1>a, <1>b, <1>1 DEF HandlerEffect, HandlerLabel, Permission
  <2> QED
    BY <1>0, <2>5, <2>6 DEF Step
<1>2. ASSUME NEW v \in {"auth", "acct"}, NEW o \in {"reject", "response"}, Respond(g, v, o)
      PROVE  Step(g)
  <2> DEFINE r == [Idle(v) EXCEPT !.pc = "reply", !.out = o]
  <2>1. r \in Work /\ r.pc = "reply" /\ r.out = o /\ r.srv = v
    <3> DEFINE w == Idle(v)
    <3>1. w \in Work /\ w.srv = v
      BY IdleWork
    <3> HIDE DEF w
    <3>2. LET x == [w EXCEPT !.pc = "reply", !.out = o]
          IN x \in Work /\ x.pc = "reply" /\ x.out = o /\ x.srv = v
      BY <3>1 DEF Work
    <3> QED
      BY <3>2 DEF w
  <2>2. work' = [work EXCEPT ![g] = r]
    BY <1>2 DEF Respond
  <2> HIDE DEF r
  <2>3. /\ work' \in [Worker -> Work] /\ work'[g] = r
        /\ \A x \in Worker : x # g => work'[x] = work[x]
    BY <2>1, <2>2, BeginEffect
  <2>5. Effect(g)
    BY <1>0, <1>a, <2>1, <2>3
       DEF Effect, RadiusTypeOK, SessionType, LockEffect, SessEffect, Locked, WithDevice,
           WithSession
  <2>6. HandlerEffect(g)
    BY <1>0, <1>a, <1>b, <2>1, <2>3 DEF HandlerEffect, HandlerLabel, Permission
  <2> QED
    BY <1>0, <2>5, <2>6 DEF Step
<1>3. ASSUME NEW v \in {"auth", "acct"}, NEW l \in {"exchange", "attach"},
             l = "exchange" <=> v = "auth", NEW d \in Station, Begin(g, v, l, d)
      PROVE  Step(g)
  <2> DEFINE r == [Idle(v) EXCEPT !.pc = l, !.dev = d]
  <2>1. r \in Work /\ r.pc = l /\ r.dev = d /\ r.srv = v /\ r.out = "none"
    <3> DEFINE w == Idle(v)
    <3>1. w \in Work /\ w.srv = v /\ w.out = "none"
      BY IdleWork
    <3> HIDE DEF w
    <3>2. LET x == [w EXCEPT !.pc = l, !.dev = d]
          IN x \in Work /\ x.pc = l /\ x.dev = d /\ x.srv = v /\ x.out = "none"
      BY <3>1 DEF Work
    <3> QED
      BY <3>2 DEF w
  <2>2. work' = [work EXCEPT ![g] = r]
    BY <1>3 DEF Begin
  <2> HIDE DEF r
  <2>3. /\ work' \in [Worker -> Work] /\ work'[g] = r
        /\ \A x \in Worker : x # g => work'[x] = work[x]
    BY <2>1, <2>2, BeginEffect
  <2>5. Effect(g)
    BY <1>0, <1>a, <1>3, <2>1, <2>3
       DEF Effect, RadiusTypeOK, SessionType, LockEffect, SessEffect, Locked, WithDevice,
           WithSession
  <2>6. HandlerEffect(g)
    BY <1>0, <1>a, <1>b, <1>3, <2>1, <2>3 DEF HandlerEffect, HandlerLabel, Permission
  <2> QED
    BY <1>0, <2>5, <2>6 DEF Step
<1>4. ASSUME NEW d \in Station, NEW i \in SessionOf(d),
             work' = [work EXCEPT ![g] = [Idle("acct") EXCEPT !.pc = "detach", !.dev = d, !.id = i]]
      PROVE  Step(g)
  <2> DEFINE r == [Idle("acct") EXCEPT !.pc = "detach", !.dev = d, !.id = i]
  <2>0. i \in ID /\ i \in 0..MaxSession /\ sess[i].dev = d /\ sess[i].state # "unused"
        /\ sess[i].state \in State
    BY <1>4 DEF SessionOf, ID, RadiusTypeOK
  <2>1. r \in Work /\ r.pc = "detach" /\ r.dev = d /\ r.srv = "acct" /\ r.id = i
        /\ r.out = "none"
    BY <2>0, IdleWork DEF Work
  <2>2. work' = [work EXCEPT ![g] = r]
    BY <1>4
  <2> HIDE DEF r
  <2>3. /\ work' \in [Worker -> Work] /\ work'[g] = r
        /\ \A x \in Worker : x # g => work'[x] = work[x]
    BY <2>1, <2>2, BeginEffect
  <2>5. Effect(g)
    BY <1>0, <1>a, <2>0, <2>1, <2>3
       DEF Effect, RadiusTypeOK, SessionType, LockEffect, SessEffect, Locked, WithDevice,
           WithSession, Expected
  <2>6. HandlerEffect(g)
    BY <1>0, <1>a, <1>b, <2>1, <2>3 DEF HandlerEffect, HandlerLabel, Permission
  <2> QED
    BY <1>0, <2>5, <2>6 DEF Step
<1>5. PICK k \in Kind, d \in Station : handle(g, k, d) \/ handleAccounting(g, k, d)
  BY DEF receive
<1>6. CASE handle(g, k, d)
  BY <1>1, <1>2, <1>3, <1>6 DEF handle
<1>7. CASE handleAccounting(g, k, d)
  BY <1>2, <1>3, <1>4, <1>7 DEF handleAccounting
<1> QED
  BY <1>5, <1>6, <1>7

\* detachNext is a step of Main.
LEMMA NextSteps ==
  ASSUME RadiusTypeOK, Labels, Sessions, detachNext
  PROVE  Step(Main)
<1>0. /\ Main \in Worker /\ work[Main] \in Work /\ work \in [Worker -> Work] /\ Main \notin Handler
  BY Facts, RadiusAssumption DEF RadiusTypeOK, Worker
<1>a. work[Main].pc = "next" /\ UNCHANGED <<packets, open, sta, gtpc, sess, cached, lock, pgw>>
  BY DEF detachNext, At
<1>1. PICK i \in work[Main].todo :
        IF sess[i].state = "terminated"
        THEN work' = [work EXCEPT ![Main].todo = work[Main].todo \ {i}, ![Main].out = "error"]
        ELSE work' = [work EXCEPT ![Main].todo = work[Main].todo \ {i}, ![Main].pc = "detach",
                                  ![Main].id = i, ![Main].dev = sess[i].dev]
  BY DEF detachNext
<1>2. /\ i \in ID /\ i \in 0..MaxSession /\ sess[i].state # "unused" /\ sess[i].dev \in Station
      /\ sess[i].state \in State
  BY <1>0 DEF ID, Work, Sessions, RadiusTypeOK
<1>3. CASE sess[i].state = "terminated"
  <2>1. work' = [work EXCEPT ![Main] = [work[Main] EXCEPT !.todo = work[Main].todo \ {i},
                                                          !.out = "error"]]
    BY <1>0, <1>1, <1>3 DEF Work
  <2>2. /\ work' \in [Worker -> Work]
        /\ \A v \in Worker : v # Main => work'[v] = work[v]
        /\ work'[Main].pc = work[Main].pc /\ work'[Main].out = "error"
        /\ work'[Main].todo \subseteq work[Main].todo
    BY <1>0, <2>1 DEF Work
  <2>5. Effect(Main)
    BY <1>0, <1>a, <2>2
       DEF Effect, RadiusTypeOK, SessionType, LockEffect, SessEffect, Locked, WithDevice,
           WithSession
  <2>6. MainEffect
    BY <1>a, <2>2 DEF MainEffect
  <2> QED
    BY <1>0, <2>5, <2>6 DEF Step
<1>4. CASE sess[i].state # "terminated"
  <2> DEFINE r == [work[Main] EXCEPT !.todo = work[Main].todo \ {i}, !.pc = "detach",
                                     !.id = i, !.dev = sess[i].dev]
  <2>1. work' = [work EXCEPT ![Main] = r]
    BY <1>0, <1>1, <1>4 DEF Work
  <2>2. /\ r \in Work /\ r.pc = "detach" /\ r.out = work[Main].out
        /\ r.todo = work[Main].todo \ {i} /\ r.id = i /\ r.dev = sess[i].dev
    BY <1>0, <1>2 DEF Work
  <2> HIDE DEF r
  <2>3. /\ work' \in [Worker -> Work] /\ work'[Main] = r
        /\ \A v \in Worker : v # Main => work'[v] = work[v]
    BY <1>0, <2>1, <2>2
  <2>5. Effect(Main)
    BY <1>0, <1>a, <1>2, <2>2, <2>3
       DEF Effect, RadiusTypeOK, SessionType, LockEffect, SessEffect, Locked, WithDevice,
           WithSession, Expected
  <2>6. MainEffect
    BY <1>a, <2>2, <2>3 DEF MainEffect, Left, WithSession
  <2> QED
    BY <1>0, <2>5, <2>6 DEF Step
<1> QED
  BY <1>3, <1>4
-----------------------------------------------------------------------------

\* A step of one worker leaves the locks and the sessions of the others alone.
LEMMA SessionsKept ==
  ASSUME RadiusTypeOK, Sessions, NEW w \in Worker, Effect(w)
  PROVE  Sessions'
<1>0. work \in [Worker -> Work] /\ work' \in [Worker -> Work] /\ Owner(w) /\ Session(w)
      /\ None \notin Worker
  BY RadiusAssumption DEF RadiusTypeOK, Effect, Sessions, Worker
<1>1. ASSUME NEW v \in Worker, v # w
      PROVE  Owner(v)'
  <2>1. work'[v] = work[v] /\ Owner(v)
    BY <1>1 DEF Effect, Sessions
  <2>2. work[v].pc \in Locked => /\ work[v].dev \in Station /\ lock[work[v].dev] = v
    BY <2>1 DEF Owner, WithDevice
  <2>3. work[v].pc \in Locked => lock'[work[v].dev] = v
    <3>1. LockEffect(w) /\ lock \in [Station -> Worker \cup {None}]
      BY DEF Effect, RadiusTypeOK
    <3>2. work[w].pc \in Locked => lock[work[w].dev] = w
      BY <1>0 DEF Owner
    <3> QED
      BY <1>0, <1>1, <2>2, <3>1, <3>2 DEF LockEffect
  <2> QED
    BY <2>1, <2>3 DEF Owner
<1>2. Owner(w)'
  <2>1. work'[w].pc \in WithDevice => work'[w].dev \in Station
    BY DEF Effect
  <2>2. work'[w].pc \in Locked => lock'[work'[w].dev] = w
    <3>1. LockEffect(w) /\ lock \in [Station -> Worker \cup {None}]
      BY DEF Effect, RadiusTypeOK
    <3> QED
      BY <1>0, <3>1 DEF LockEffect, Owner
  <2> QED
    BY <2>1, <2>2 DEF Owner
<1>a. /\ work[w].pc \in Locked => work[w].dev \in Station /\ lock[work[w].dev] = w
      /\ SessEffect(w) /\ sess' \in [ID -> SessionType]
  BY <1>0 DEF Owner, WithDevice, Effect
<1>3. ASSUME NEW v \in Worker, v # w
      PROVE  Session(v)'
  <2>1. work'[v] = work[v] /\ Owner(v) /\ Session(v)
    BY <1>3 DEF Effect, Sessions
  <2>2. SUFFICES ASSUME work[v].pc \in WithSession
                 PROVE  /\ work[v].id \in ID
                        /\ sess'[work[v].id].dev = work[v].dev
                        /\ sess'[work[v].id].state \in Expected(work[v].pc)
    BY <2>1 DEF Session
  <2>3. /\ work[v].id \in ID /\ sess[work[v].id].dev = work[v].dev
        /\ sess[work[v].id].state \in Expected(work[v].pc)
        /\ sess[work[v].id].state # "unused"
    BY <2>1, <2>2 DEF Session, Expected, WithSession
  <2>4. CASE work[v].pc \in Locked
    <3>1. work[v].dev \in Station /\ lock[work[v].dev] = v
      BY <2>1, <2>4 DEF Owner, WithDevice
    <3>2. sess'[work[v].id] = sess[work[v].id]
      BY <1>a, <1>3, <2>3, <3>1 DEF SessEffect
    <3> QED
      BY <2>3, <3>2
  <2>5. CASE work[v].pc = "detach"
    BY <1>a, <2>3, <2>5 DEF SessEffect, Expected, SessionType
  <2> QED
    BY <2>2, <2>4, <2>5 DEF WithSession, Locked
<1>4. Session(w)'
  BY DEF Effect, Session
<1>5. \A i \in ID : sess'[i].state # "unused" => sess'[i].dev \in Station
  BY <1>a DEF SessEffect, Sessions
<1>6. \A i \in work'[Main].todo : sess'[i].state # "unused"
  <2>1. \A i \in work'[Main].todo : i \in ID /\ sess[i].state # "unused"
    BY <1>0, RadiusAssumption DEF Effect, Sessions, Worker, Work
  <2> QED
    BY <1>a, <2>1 DEF SessEffect
<1> QED
  BY <1>1, <1>2, <1>3, <1>4, <1>5, <1>6 DEF Sessions

\* A step of one worker leaves the others where they are.
LEMMA LabelsKept ==
  ASSUME RadiusTypeOK, Labels, NEW w \in Worker, Effect(w), w \in Handler => HandlerEffect(w),
         w = Main => work'[Main].pc \in MainLabel
  PROVE  Labels'
<1>1. Main \notin Handler /\ Main \in Worker /\ \A v \in Worker : v # w => work'[v] = work[v]
  BY RadiusAssumption DEF Worker, Effect
<1>2. work'[Main].pc \in MainLabel
  BY <1>1 DEF Labels
<1>3. ASSUME NEW g \in Handler
      PROVE  work'[g].pc \in HandlerLabel /\ Permission(g)'
  <2>1. CASE g = w
    BY <1>3, <2>1 DEF HandlerEffect
  <2>2. CASE g # w
    <3>1. work'[g] = work[g] /\ work[g].pc \in HandlerLabel /\ Permission(g)
      BY <1>1, <1>3, <2>2 DEF Labels, Worker
    <3> QED
      BY <3>1 DEF Permission
  <2> QED
    BY <2>1, <2>2
<1> QED
  BY <1>2, <1>3 DEF Labels
-----------------------------------------------------------------------------

\* The parts by their numbers.
LEMMA Orders ==
  /\ Len(StartOrder) = 7 /\ Len(StopOrder) = 7
  /\ StopOrder[1] = "sessions" /\ StopOrder[2] = "radius" /\ StopOrder[3] = "accessside"
  /\ StopOrder[4] = "userplane" /\ StopOrder[5] = "pgw" /\ StopOrder[6] = "aaa"
  /\ StopOrder[7] = "access_driver"
  /\ StartOrder[1] = "aaa" /\ StartOrder[2] = "access_driver" /\ StartOrder[3] = "routing"
  /\ StartOrder[4] = "userplane" /\ StartOrder[5] = "echo" /\ StartOrder[6] = "accessside"
  /\ StartOrder[7] = "radius"
BY DEF StartOrder, StopOrder

\* What is stopped is a part.
LEMMA Parts ==
  /\ \A n \in 1..7 : StopOrder[n] \in Part
  /\ {"sessions", "radius", "accessside", "userplane", "pgw", "aaa", "access_driver"}
       \subseteq Part
<1>1. DOMAIN StopOrder = 1..7
  BY DEF StopOrder
<1>2. \A n \in 1..7 : StopOrder[n] \in Part
  BY <1>1 DEF Part
<1> QED
  BY <1>2, Orders

\* A step of worker w that main does not take part in.
WorkMoves(w) == Step(w) /\ UNCHANGED <<open, sta, gtpc, echoVars, mainVars>>

\* Every action of the workers and of what they call is a step of one of them.
LEMMA WorkSteps ==
  ASSUME RadiusTypeOK, Labels, Sessions,
         \/ \E w \in Worker : RadiusStep(w) \/ CallReturns(w)
         \/ \E g \in Handler : DeadlinePasses(g)
         \/ Environment
  PROVE  \E w \in Worker : WorkMoves(w)
<1>0. Handler \subseteq Worker /\ Main \in Worker
  BY DEF Worker
<1>1. ASSUME NEW w \in Worker, RadiusStep(w)
      PROVE  WorkMoves(w)
  <2>1. UNCHANGED <<open, sta, gtpc, echoVars, mainVars>>
    BY <1>1
       DEF RadiusStep, WorkerStep, HandlerStep, lockSubscriber, lockTimeout, markTerminating,
           reply, findAttachExisting, markPGWPending, activate, detachNext
  <2>2. Step(w)
    BY <1>1, LockSteps, TimeoutSteps, TerminatingSteps, ReplySteps, FindSteps, PendingSteps,
       CreateFailsSteps, NextSteps DEF RadiusStep, WorkerStep, HandlerStep
  <2> QED
    BY <2>1, <2>2 DEF WorkMoves
<1>2. ASSUME NEW w \in Worker, CallReturns(w)
      PROVE  WorkMoves(w)
  <2>1. UNCHANGED <<open, sta, gtpc, echoVars, mainVars>>
    BY <1>2 DEF CallReturns, deleteSession, Awaits, ExchangeEAP, exchangeFails, createFails
  <2>2. Step(w)
    BY <1>2, DeleteSteps, ExchangeSteps, CreateFailsSteps DEF CallReturns, Awaits
  <2> QED
    BY <2>1, <2>2 DEF WorkMoves
<1>3. ASSUME NEW g \in Handler, DeadlinePasses(g)
      PROVE  WorkMoves(g)
  <2>1. UNCHANGED <<open, sta, gtpc, echoVars, mainVars>>
    BY <1>3 DEF DeadlinePasses, expire
  <2> QED
    BY <1>3, <2>1, ExpireSteps DEF WorkMoves, DeadlinePasses
<1>4. ASSUME Environment
      PROVE  \E w \in Worker : WorkMoves(w)
  <2>1. ASSUME NEW g \in Handler, receive(g)
        PROVE  WorkMoves(g)
    <3>1. UNCHANGED <<open, sta, gtpc, echoVars, mainVars>>
      BY <1>4, <2>1 DEF Environment, receive
    <3> QED
      BY <2>1, <3>1, ReceiveSteps DEF WorkMoves
  <2>2. ASSUME NEW g \in Handler, pgwAccepts(g)
        PROVE  WorkMoves(g)
    <3>1. UNCHANGED <<open, sta, gtpc, echoVars, mainVars>>
      BY <1>4, <2>2 DEF Environment, pgwAccepts
    <3> QED
      BY <2>2, <3>1, AcceptSteps DEF WorkMoves
  <2>3. ASSUME NEW w \in Worker, pgwDeletes(w)
        PROVE  WorkMoves(w)
    <3>1. UNCHANGED <<open, sta, gtpc, echoVars, mainVars>>
      BY <1>4, <2>3 DEF Environment, pgwDeletes
    <3> QED
      BY <2>3, <3>1, PgwDeletesSteps DEF WorkMoves
  <2> QED
    BY <1>0, <1>4, <2>1, <2>2, <2>3 DEF Environment
<1> QED
  BY <1>0, <1>1, <1>2, <1>3, <1>4

\* The goroutine of Shutdown is started, ends, lists the sessions, or its
\* context ends.
LEMMA MainMoves ==
  ASSUME RadiusTypeOK, Labels, Sessions,
         NEW r \in Work, work' = [work EXCEPT ![Main] = r],
         \/ r.pc \in {"idle", "list", "next"}
         \/ r.pc = work[Main].pc /\ r.dev = work[Main].dev /\ r.id = work[Main].id,
         \A i \in r.todo : i \in work[Main].todo \/ sess[i].state # "unused",
         UNCHANGED <<packets, cached, sess, lock, pgw>>
  PROVE  Effect(Main) /\ work'[Main] = r /\ work'[Main].pc \in MainLabel
<1>0. /\ Main \in Worker /\ work[Main] \in Work /\ work \in [Worker -> Work]
      /\ Owner(Main) /\ Session(Main) /\ work[Main].pc \in MainLabel
  BY Facts DEF RadiusTypeOK, Worker
<1>1. /\ work' \in [Worker -> Work] /\ work'[Main] = r
      /\ \A v \in Worker : v # Main => work'[v] = work[v]
  BY <1>0
<1>2. r.pc \in MainLabel
  BY <1>0 DEF MainLabel
<1>3. LockEffect(Main) /\ SessEffect(Main)
  BY <1>1 DEF LockEffect, SessEffect, Locked
<1>4. /\ r.pc \in WithDevice => r.dev \in Station
      /\ r.pc \in WithSession => /\ r.id \in ID
                                 /\ sess[r.id].dev = r.dev
                                 /\ sess[r.id].state \in Expected(r.pc)
  BY <1>0 DEF Owner, Session, WithDevice, WithSession, Locked
<1> QED
  BY <1>1, <1>2, <1>3, <1>4 DEF Effect, RadiusTypeOK, SessionType
-----------------------------------------------------------------------------

\* A step keeps what is said of the RADIUS servers.
LEMMA RadiusKept ==
  ASSUME RadiusTypeOK, Labels, Sessions, NEW w \in Worker, Effect(w),
         w \in Handler => HandlerEffect(w), w = Main => work'[Main].pc \in MainLabel,
         open' \subseteq {"auth", "acct"}, sta' \in BOOLEAN, gtpc' \in BOOLEAN
  PROVE  RadiusTypeOK' /\ Labels' /\ Sessions'
<1>1. Labels' /\ Sessions'
  BY LabelsKept, SessionsKept
<1>2. RadiusTypeOK'
  BY DEF RadiusTypeOK, Effect, SessionType
<1> QED
  BY <1>1, <1>2

\* So does one that leaves the workers and the sessions alone.
LEMMA SameRadius ==
  ASSUME RadiusTypeOK, Labels, Sessions, UNCHANGED <<work, packets, sess, cached, lock, pgw>>,
         open' \subseteq {"auth", "acct"}, sta' \in BOOLEAN, gtpc' \in BOOLEAN
  PROVE  RadiusTypeOK' /\ Labels' /\ Sessions'
<1>1. RadiusTypeOK'
  BY DEF RadiusTypeOK
<1>2. Labels'
  BY DEF Labels, Permission
<1>3. Sessions'
  BY DEF Sessions, Owner, Session
<1> QED
  BY <1>1, <1>2, <1>3

\* The three things stopNext can do.
LEMMA StopCases ==
  ASSUME RtInv, stopNext
  PROVE  /\ main \in [phase: {"stop"}, n: 1..8]
         /\ \/ /\ main.n = 8 /\ main' = [main EXCEPT !.phase = "exit"]
               /\ UNCHANGED <<stop, failed, work>>
            \/ /\ main' = [main EXCEPT !.phase = "exit"] /\ failed'
               /\ UNCHANGED <<stop, work>>
            \/ /\ main.n \in 1..7 /\ ~budget
               /\ main' = [main EXCEPT !.phase = "wait"]
               /\ stop' = [stop EXCEPT ![StopOrder[main.n]] = "running"]
               /\ IF main.n = 1
                  THEN work' = [work EXCEPT ![Main] = [work[Main] EXCEPT !.pc = "list"]]
                  ELSE work' = work
               /\ UNCHANGED failed
<1>1. main \in [phase: {"stop"}, n: 1..8] /\ work \in [Worker -> Work] /\ Main \in Worker
  BY DEF RtInv, RtTypeOK, stopNext, RadiusTypeOK, Worker
<1>2. \A n \in 1..7 : StopOrder[n] = "sessions" <=> n = 1
  BY Orders
<1>3. work[Main] \in Work
  BY <1>1
<1>4. [work EXCEPT ![Main].pc = "list"] = [work EXCEPT ![Main] = [work[Main] EXCEPT !.pc = "list"]]
  BY <1>1, <1>3 DEF Work
<1> QED
  BY <1>1, <1>2, <1>4, Orders DEF stopNext

\* Every action keeps what is said of the RADIUS servers.
LEMMA RadiusInvariants ==
  ASSUME RtInv, RtNext
  PROVE  RadiusTypeOK' /\ Labels' /\ Sessions'
<1>0. RadiusTypeOK /\ Labels /\ Sessions /\ Main \in Worker /\ Main \notin Handler
      /\ work[Main] \in Work /\ work \in [Worker -> Work]
      /\ open \subseteq {"auth", "acct"} /\ sta \in BOOLEAN /\ gtpc \in BOOLEAN
  BY RadiusAssumption DEF RtInv, RtTypeOK, RadiusTypeOK, Worker
<1>1. CASE \/ \E w \in Worker : RadiusStep(w) \/ CallReturns(w)
           \/ \E g \in Handler : DeadlinePasses(g)
           \/ Environment
  <2>1. PICK w \in Worker : WorkMoves(w)
    BY <1>0, <1>1, WorkSteps
  <2>2. /\ Effect(w) /\ (w \in Handler => HandlerEffect(w))
        /\ (w = Main => work'[Main].pc \in MainLabel)
        /\ UNCHANGED <<open, sta, gtpc>>
    BY <2>1 DEF WorkMoves, Step, MainEffect, MainLabel
  <2> QED
    BY <1>0, <2>2, RadiusKept
<1>2. CASE UNCHANGED radiusVars
  BY <1>0, <1>2, SameRadius DEF radiusVars
<1>3. CASE startPart \/ partReturns \/ staEnds
  <2>1. /\ UNCHANGED <<work, packets, sess, cached, lock, pgw>>
        /\ open' \subseteq {"auth", "acct"} /\ sta' \in BOOLEAN /\ gtpc' \in BOOLEAN
    BY <1>0, <1>3 DEF startPart, partReturns, staEnds
  <2> QED
    BY <1>0, <2>1, SameRadius
<1>4. ASSUME NEW r \in Work, work' = [work EXCEPT ![Main] = r],
             \/ r.pc \in {"idle", "list", "next"}
             \/ r.pc = work[Main].pc /\ r.dev = work[Main].dev /\ r.id = work[Main].id,
             \A i \in r.todo : i \in work[Main].todo \/ sess[i].state # "unused",
             UNCHANGED <<packets, cached, sess, lock, pgw, open, sta, gtpc>>
      PROVE  RadiusTypeOK' /\ Labels' /\ Sessions'
  <2>1. Effect(Main) /\ work'[Main].pc \in MainLabel
    BY <1>0, <1>4, MainMoves
  <2> QED
    BY <1>0, <1>4, <2>1, RadiusKept
<1>5. CASE stopNext
  <2>1. UNCHANGED <<packets, cached, sess, lock, pgw, open, sta, gtpc>>
    BY <1>5 DEF stopNext
  <2>2. CASE work' = work
    BY <1>0, <2>1, <2>2, SameRadius
  <2>3. CASE work' = [work EXCEPT ![Main] = [work[Main] EXCEPT !.pc = "list"]]
    <3> DEFINE r == [work[Main] EXCEPT !.pc = "list"]
    <3>1. r \in Work /\ r.pc = "list" /\ r.todo = work[Main].todo
      BY <1>0 DEF Work
    <3>2. work' = [work EXCEPT ![Main] = r]
      BY <2>3
    <3> HIDE DEF r
    <3> QED
      BY <1>4, <2>1, <3>1, <3>2
  <2> QED
    BY <1>5, <2>2, <2>3, StopCases
<1>6. CASE budgetEnds
  <2> DEFINE r == [work[Main] EXCEPT !.ctxDone = TRUE]
  <2>1. UNCHANGED <<packets, cached, sess, lock, pgw, open, sta, gtpc>>
    BY <1>6 DEF budgetEnds
  <2>2. /\ r \in Work /\ r.pc = work[Main].pc /\ r.todo = work[Main].todo
        /\ r.dev = work[Main].dev /\ r.id = work[Main].id
    BY <1>0 DEF Work
  <2>3. work' = [work EXCEPT ![Main] = r]
    BY <1>0, <1>6 DEF budgetEnds, Work
  <2> HIDE DEF r
  <2> QED
    BY <1>4, <2>1, <2>2, <2>3
<1>7. CASE shutdownLists
  <2> DEFINE r == [work[Main] EXCEPT !.pc = "next",
                       !.todo = {i \in ID : shutdownShouldDetach(sess[i].state)}]
  <2>1. UNCHANGED <<packets, cached, sess, lock, pgw, open, sta, gtpc>>
    BY <1>7 DEF shutdownLists, listSessions
  <2>2. r \in Work /\ r.pc = "next" /\ r.todo = {i \in ID : shutdownShouldDetach(sess[i].state)}
    BY <1>0 DEF Work
  <2>3. work' = [work EXCEPT ![Main] = r]
    BY <1>0, <1>7 DEF shutdownLists, listSessions, Work
  <2> HIDE DEF r
  <2>4. \A i \in r.todo : sess[i].state # "unused"
    BY <2>2 DEF shutdownShouldDetach
  <2> QED
    BY <1>4, <2>1, <2>2, <2>3, <2>4
<1>8. CASE shutdownReturns
  <2> DEFINE r == Idle("main")
  <2>1. UNCHANGED <<packets, cached, sess, lock, pgw, open, sta, gtpc>>
    BY <1>8 DEF shutdownReturns
  <2>2. r \in Work /\ r.pc = "idle" /\ r.todo = {}
    BY IdleWork
  <2>3. work' = [work EXCEPT ![Main] = r]
    BY <1>8 DEF shutdownReturns
  <2> HIDE DEF r
  <2> QED
    BY <1>4, <2>1, <2>2, <2>3
<1>9. ASSUME NEW v \in {"auth", "acct"}, radiusClose(v)
      PROVE  RadiusTypeOK' /\ Labels' /\ Sessions'
  <2>1. /\ UNCHANGED <<packets, cached, sess, lock, pgw, sta, gtpc>>
        /\ open' \subseteq {"auth", "acct"}
    BY <1>0, <1>9 DEF radiusClose
  <2>2. \A g \in Worker : /\ work'[g] \in Work
                          /\ work'[g].pc = work[g].pc /\ work'[g].srv = work[g].srv
                          /\ work'[g].dev = work[g].dev /\ work'[g].id = work[g].id
                          /\ work'[g].granted = work[g].granted
                          /\ work'[g].out = work[g].out /\ work'[g].todo = work[g].todo
    <3>1. SUFFICES ASSUME NEW g \in Worker
                   PROVE  /\ work'[g] \in Work
                          /\ work'[g].pc = work[g].pc /\ work'[g].srv = work[g].srv
                          /\ work'[g].dev = work[g].dev /\ work'[g].id = work[g].id
                          /\ work'[g].granted = work[g].granted
                          /\ work'[g].out = work[g].out /\ work'[g].todo = work[g].todo
      OBVIOUS
    <3> DEFINE b == work[g].ctxDone \/ g \in Busy(v)
    <3>2. work[g] \in Work /\ work'[g] = [work[g] EXCEPT !.ctxDone = b]
      BY <1>0, <1>9 DEF radiusClose, Work
    <3>3. b \in BOOLEAN
      OBVIOUS
    <3> HIDE DEF b
    <3> QED
      BY <3>2, <3>3 DEF Work
  <2>3. work' \in [Worker -> Work]
    BY <1>9, <2>2 DEF radiusClose
  <2>4. RadiusTypeOK'
    BY <1>0, <2>1, <2>3 DEF RadiusTypeOK
  <2>5. Labels'
    BY <1>0, <2>2 DEF Labels, Permission, Worker
  <2>6. Sessions'
    BY <1>0, <2>1, <2>2 DEF Sessions, Owner, Session
  <2> QED
    BY <2>4, <2>5, <2>6
<1>10. CASE ReaderStep \/ WatchdogStep \/ PlaneFails \/ awaitStop \/ radiusReturns
            \/ userplaneCancels \/ userplaneReturns \/ startFails \/ signal \/ Exited
  BY <1>2, <1>10 DEF ReaderStep, WatchdogStep, PlaneFails, awaitStop, radiusReturns,
     userplaneCancels, userplaneReturns, startFails, signal, Exited, vars
<1> QED
  BY <1>1, <1>3, <1>5, <1>6, <1>7, <1>8, <1>9, <1>10 DEF RtNext, MainStep, StopStep

\* Every action keeps what is said of the reader and the watchdog.
LEMMA EchoInvariants ==
  ASSUME RtInv, RtNext
  PROVE  EchoTypeOK'
<1>0. /\ EchoTypeOK /\ Counter
      /\ main \in [phase: {"start", "run", "stop", "wait", "exit"}, n: 1..8]
      /\ cfg.echo \in BOOLEAN
  BY ConfigsAssumption DEF RtInv, RtTypeOK
<1>1. CASE UNCHANGED echoVars
  BY <1>0, <1>1 DEF echoVars, EchoTypeOK
<1>2. CASE readResponse \/ observeUserEchoResponse
  BY <1>0, <1>2, EchoAssumption DEF readResponse, observeUserEchoResponse, EchoTypeOK
<1>3. CASE offerResponse
  BY <1>0, <1>3 DEF offerResponse, EchoTypeOK
<1>4. CASE readerEnds \/ peerDies \/ kernelCancel \/ kernelRelease \/ watchdogEnds
  <2>1. CASE readerEnds \/ watchdogEnds
    BY <1>0, <2>1 DEF readerEnds, watchdogEnds, EchoTypeOK
  <2>2. CASE peerDies \/ kernelCancel \/ kernelRelease
    <3>1. peerUp' \in BOOLEAN /\ link' \in BOOLEAN
      BY <1>0, <2>2 DEF peerDies, kernelCancel, kernelRelease, EchoTypeOK
    <3>2. kctx' \in {"none", "live", "cancelled"}
      BY <1>0, <2>2 DEF peerDies, kernelCancel, kernelRelease, EchoTypeOK
    <3>3. UNCHANGED <<rootDone, reader, watchdog, pending, supported, health, failures, answers>>
      BY <2>2 DEF peerDies, kernelCancel, kernelRelease
    <3> QED
      BY <1>0, <3>1, <3>2, <3>3 DEF EchoTypeOK
  <2> QED
    BY <1>4, <2>1, <2>2
<1>5. CASE tick
  BY <1>0, <1>5 DEF tick, EchoTypeOK
<1>6. CASE triggerUserEchoRequest
  <2>1. CASE /\ watchdog' = "probe" /\ UNCHANGED <<reader, pending, supported, health, failures>>
             /\ answers' \in {answers} \cup
                             (IF peerUp /\ answers < MaxAnswer THEN {answers + 1} ELSE {})
    <3>1. answers' \in 0..MaxAnswer
      BY <1>0, <2>1, EchoAssumption DEF EchoTypeOK
    <3> QED
      BY <1>0, <1>6, <2>1, <3>1 DEF triggerUserEchoRequest, EchoTypeOK
  <2>2. CASE recordUserEchoFailure /\ probeOver /\ UNCHANGED <<supported, answers>>
    BY <1>0, <1>6, <2>2, EchoAssumption
       DEF triggerUserEchoRequest, probeOver, recordUserEchoFailure, EchoTypeOK
  <2>3. CASE supported' = FALSE /\ probeOver /\ UNCHANGED <<health, failures, answers>>
    <3>1. UNCHANGED <<rootDone, link, kctx, peerUp, health, failures, answers>>
      BY <1>6, <2>3 DEF triggerUserEchoRequest
    <3>2. reader' \in {"off", "read", "look", "late", "ended"} /\ watchdog' = "wait" /\ pending' = "nil"
      BY <1>0, <2>3 DEF probeOver, EchoTypeOK
    <3>3. supported' \in BOOLEAN
      BY <2>3
    <3> QED
      BY <1>0, <3>1, <3>2, <3>3 DEF EchoTypeOK
  <2> QED
    BY <1>6, <2>1, <2>2, <2>3 DEF triggerUserEchoRequest
<1>7. CASE probeAnswered
  BY <1>0, <1>7, EchoAssumption DEF probeAnswered, probeOver, EchoTypeOK
<1>8. CASE probeFails
  BY <1>0, <1>8, EchoAssumption
     DEF probeFails, probeOver, recordUserEchoFailure, EchoTypeOK
<1>9. CASE startPart
  <2>1. main.phase = "start" /\ main.n \in 1..7
    BY <1>0, <1>9 DEF startPart, Counter
  <2>2. CASE main.n = 4
    <3>1. kernelStart(cfg.echo)
      BY <1>9, <2>2, Orders DEF startPart
    <3> QED
      BY <1>0, <3>1 DEF kernelStart, EchoTypeOK
  <2>3. CASE main.n = 5 /\ cfg.echo
    <3>1. StartUserEchoWatchdog
      BY <1>9, <2>3, Orders DEF startPart
    <3>2. watchdog = "off"
      BY <1>0, <2>1, <2>3 DEF Counter
    <3> QED
      BY <1>0, <3>1, <3>2 DEF StartUserEchoWatchdog, EchoTypeOK
  <2>4. CASE main.n # 4 /\ ~(main.n = 5 /\ cfg.echo)
    <3>1. StartOrder[main.n] # "userplane" /\ ~(StartOrder[main.n] = "echo" /\ cfg.echo)
      BY <2>1, <2>4, Orders
    <3> QED
      BY <1>1, <1>9, <3>1 DEF startPart
  <2> QED
    BY <2>2, <2>3, <2>4
<1>10. CASE startFails \/ signal
  <2>1. link' \in BOOLEAN /\ rootDone' \in BOOLEAN
    BY <1>0, <1>10 DEF startFails, signal, EchoTypeOK
  <2>2. UNCHANGED <<kctx, reader, watchdog, pending, supported, health, failures, peerUp, answers>>
    BY <1>10 DEF startFails, signal
  <2> QED
    BY <1>0, <2>1, <2>2 DEF EchoTypeOK
<1>11. CASE \/ \E w \in Worker : RadiusStep(w) \/ CallReturns(w)
            \/ \E g \in Handler : DeadlinePasses(g)
            \/ Environment
            \/ stopNext \/ awaitStop \/ shutdownLists \/ shutdownReturns \/ radiusReturns
            \/ partReturns \/ (\E v \in {"auth", "acct"} : radiusClose(v))
            \/ budgetEnds \/ staEnds \/ Exited
  BY <1>1, <1>11 DEF RadiusStep, CallReturns, DeadlinePasses, Environment, stopNext, awaitStop,
     shutdownLists, shutdownReturns, radiusReturns, partReturns, radiusClose, budgetEnds, staEnds,
     Exited, vars
<1>12. CASE ReaderStep \/ WatchdogStep \/ PlaneFails \/ userplaneCancels \/ userplaneReturns
  BY <1>2, <1>3, <1>4, <1>5, <1>6, <1>7, <1>8, <1>12 DEF ReaderStep, WatchdogStep, PlaneFails,
     userplaneCancels, userplaneReturns, Reads, Probes
<1> QED
  BY <1>9, <1>10, <1>11, <1>12 DEF RtNext, MainStep, StopStep

\* Goroutines that ended stay so.
LEMMA EndedKept ==
  ASSUME Ended, Reads \/ Probes \/ readerEnds \/ peerDies
  PROVE  Ended' /\ link' = link
BY
   DEF Ended, Reads, Probes, readResponse, observeUserEchoResponse,
       offerResponse, readerEnds, peerDies, tick,
       watchdogEnds,
   triggerUserEchoRequest, probeAnswered, probeFails

\* Every action keeps the types of the variables of main.
LEMMA MainTypes ==
  ASSUME RtInv, RtNext
  PROVE  /\ cfg' = cfg
         /\ main' \in [phase: {"start", "run", "stop", "wait", "exit"}, n: 1..8]
         /\ stop' \in [Part -> {"no", "running", "returned"}]
         /\ budget' \in BOOLEAN /\ failed' \in BOOLEAN /\ listed' \subseteq ID
<1>0. /\ main \in [phase: {"start", "run", "stop", "wait", "exit"}, n: 1..8]
      /\ stop \in [Part -> {"no", "running", "returned"}]
      /\ budget \in BOOLEAN /\ failed \in BOOLEAN /\ listed \subseteq ID
      /\ Counter /\ work[Main] \in Work
  BY DEF RtInv, RtTypeOK, RadiusTypeOK, Worker
<1>1. CASE UNCHANGED mainVars
  BY <1>0, <1>1 DEF mainVars
<1>2. CASE startPart
  <2>1. main.phase = "start" /\ main.n \in 1..7
    BY <1>0, <1>2 DEF startPart, Counter
  <2>2. main' = IF main.n = 7 THEN [phase |-> "run", n |-> 1] ELSE [main EXCEPT !.n = main.n + 1]
    BY <1>2, Orders DEF startPart
  <2>3. main' \in [phase: {"start", "run", "stop", "wait", "exit"}, n: 1..8]
    BY <1>0, <2>1, <2>2
  <2> QED
    BY <1>0, <1>2, <2>3 DEF startPart
<1>3. CASE startFails \/ signal
  <2>1. main' \in [phase: {"start", "run", "stop", "wait", "exit"}, n: 1..8]
    <3>1. main' = [main EXCEPT !.phase = "exit"] \/ main' = [phase |-> "stop", n |-> 1]
      BY <1>3 DEF startFails, signal
    <3> QED
      BY <1>0, <3>1
  <2> QED
    BY <1>0, <1>3, <2>1 DEF startFails, signal
<1>4. CASE stopNext
  <2>1. UNCHANGED <<cfg, budget, listed>>
    BY <1>4 DEF stopNext
  <2>2. /\ main' \in [phase: {"start", "run", "stop", "wait", "exit"}, n: 1..8]
        /\ failed' \in BOOLEAN
    <3>1. failed' = TRUE \/ failed' = failed
      BY <1>4 DEF stopNext
    <3>2. \/ main' = [main EXCEPT !.phase = "exit"]
          \/ main' = [main EXCEPT !.phase = "wait"]
      BY <1>4 DEF stopNext
    <3> QED
      BY <1>0, <3>1, <3>2
  <2>3. stop' \in [Part -> {"no", "running", "returned"}]
    BY <1>0, <1>4, StopCases, Parts
  <2> QED
    BY <1>0, <2>1, <2>2, <2>3
<1>5. CASE awaitStop
  <2>1. main.phase = "wait" /\ main.n \in 1..7 /\ main' = [phase |-> "stop", n |-> main.n + 1]
    BY <1>0, <1>5 DEF awaitStop, Counter
  <2>2. main' \in [phase: {"start", "run", "stop", "wait", "exit"}, n: 1..8]
    BY <2>1
  <2>3. failed' \in BOOLEAN /\ UNCHANGED <<cfg, stop, budget, listed>>
    BY <1>0, <1>5 DEF awaitStop
  <2> QED
    BY <1>0, <2>2, <2>3
<1>6. CASE budgetEnds
  BY <1>0, <1>6 DEF budgetEnds
<1>7. CASE shutdownLists
  <2>1. listed' \subseteq ID
    <3>1. RadiusTypeOK'
      BY RadiusInvariants
    <3> QED
      BY <1>7, <3>1 DEF shutdownLists, RadiusTypeOK, Work, Worker
  <2> QED
    BY <1>0, <1>7, <2>1 DEF shutdownLists
<1>8. ASSUME NEW p \in Part, NEW e, Returned(p, e), UNCHANGED <<cfg, main, budget, listed>>
      PROVE  /\ cfg' = cfg
             /\ main' \in [phase: {"start", "run", "stop", "wait", "exit"}, n: 1..8]
             /\ stop' \in [Part -> {"no", "running", "returned"}]
             /\ budget' \in BOOLEAN /\ failed' \in BOOLEAN /\ listed' \subseteq ID
  <2>1. failed' \in BOOLEAN
    BY <1>8 DEF Returned
  <2> QED
    BY <1>0, <1>8, <2>1 DEF Returned
<1>9. CASE shutdownReturns \/ radiusReturns \/ userplaneReturns \/ partReturns
  BY <1>8, <1>9, Parts DEF shutdownReturns, radiusReturns, userplaneReturns, partReturns
<1>10. CASE \/ \E w \in Worker : RadiusStep(w) \/ CallReturns(w)
            \/ \E g \in Handler : DeadlinePasses(g)
            \/ Environment
            \/ ReaderStep \/ WatchdogStep \/ PlaneFails \/ userplaneCancels
            \/ (\E v \in {"auth", "acct"} : radiusClose(v)) \/ staEnds \/ Exited
  BY <1>1, <1>10
     DEF RadiusStep, CallReturns, DeadlinePasses, Environment, ReaderStep, WatchdogStep,
     PlaneFails, userplaneCancels, radiusClose, staEnds, Exited, vars
<1> QED
  BY <1>2, <1>3, <1>4, <1>5, <1>6, <1>7, <1>9, <1>10 DEF RtNext, MainStep, StopStep

\* Every action keeps Counter.
LEMMA CounterKept ==
  ASSUME RtInv, RtNext
  PROVE  Counter'
<1>0. /\ main \in [phase: {"start", "run", "stop", "wait", "exit"}, n: 1..8]
      /\ stop \in [Part -> {"no", "running", "returned"}] /\ Counter
  BY DEF RtInv, RtTypeOK
<1>1. CASE UNCHANGED <<main, stop>> /\ (watchdog = "off" => watchdog' = "off")
  BY <1>0, <1>1 DEF Counter
<1>2. CASE startPart
  <2>1. main.phase = "start" /\ main.n \in 1..7 /\ UNCHANGED stop
    BY <1>0, <1>2 DEF startPart, Counter
  <2>2. main' = IF main.n = 7 THEN [phase |-> "run", n |-> 1] ELSE [main EXCEPT !.n = main.n + 1]
    BY <1>2, Orders DEF startPart
  <2>3. \/ main'.phase = "run"
        \/ main'.phase = "start" /\ main'.n = main.n + 1 /\ main.n # 7
    BY <1>0, <2>1, <2>2
  <2>4. main.n <= 4 => watchdog' = watchdog
    <3>1. main.n <= 4 => StartOrder[main.n] # "echo"
      BY <2>1, Orders
    <3> QED
      BY <1>2, <3>1 DEF startPart, kernelStart, echoVars
  <2> QED
    BY <1>0, <2>1, <2>3, <2>4 DEF Counter
<1>3. CASE startFails
  BY <1>0, <1>3 DEF startFails, Counter
<1>4. CASE signal
  BY <1>0, <1>4 DEF signal, Counter
<1>5. CASE stopNext
  <2>1. \/ main'.phase = "exit"
        \/ main'.phase = "wait" /\ main'.n = main.n /\ main.n <= 7
    BY <1>5, StopCases
  <2> QED
    BY <2>1 DEF Counter
<1>6. CASE awaitStop
  <2>1. main.phase = "wait" /\ main.n \in 1..7 /\ main' = [phase |-> "stop", n |-> main.n + 1]
    BY <1>0, <1>6 DEF awaitStop, Counter
  <2> QED
    BY <2>1 DEF Counter
<1>7. CASE budgetEnds \/ shutdownLists
  BY <1>1, <1>7 DEF budgetEnds, shutdownLists, echoVars
<1>8. ASSUME NEW p \in Part, Running(p), UNCHANGED main, UNCHANGED watchdog
      PROVE  Counter'
  <2>1. ~(main.phase \in {"start", "run"} \/ (main.phase = "stop" /\ main.n = 1))
    BY <1>0, <1>8 DEF Counter, Running
  <2> QED
    BY <1>0, <1>8, <2>1 DEF Counter
<1>9. CASE shutdownReturns \/ radiusReturns \/ userplaneReturns \/ partReturns
  BY <1>8, <1>9, Parts
     DEF shutdownReturns, radiusReturns, userplaneReturns, partReturns, echoVars,
     kernelRelease
<1>10. CASE \/ \E w \in Worker : RadiusStep(w) \/ CallReturns(w)
            \/ \E g \in Handler : DeadlinePasses(g)
            \/ Environment
            \/ ReaderStep \/ WatchdogStep \/ PlaneFails \/ userplaneCancels
            \/ (\E v \in {"auth", "acct"} : radiusClose(v)) \/ staEnds \/ Exited
  <2>1. UNCHANGED <<main, stop>>
    BY <1>10 DEF RadiusStep, CallReturns, DeadlinePasses, Environment, ReaderStep, WatchdogStep,
       PlaneFails, userplaneCancels, radiusClose, staEnds, Exited, vars, mainVars
  <2>2. watchdog = "off" => watchdog' = "off"
    <3>1. CASE UNCHANGED echoVars
      BY <3>1 DEF echoVars
    <3>2. CASE ReaderStep \/ WatchdogStep \/ PlaneFails \/ userplaneCancels
      BY <3>2 DEF ReaderStep, WatchdogStep, PlaneFails, userplaneCancels, Reads, readResponse,
         observeUserEchoResponse, offerResponse, readerEnds, peerDies, kernelCancel, Probes, tick, watchdogEnds,
         triggerUserEchoRequest, probeAnswered, probeFails
    <3> QED
      BY <1>10, <3>1, <3>2
         DEF RadiusStep, CallReturns, DeadlinePasses, Environment, radiusClose,
         staEnds, Exited, vars
  <2> QED
    BY <1>1, <2>1, <2>2
<1> QED
  BY <1>2, <1>3, <1>4, <1>5, <1>6, <1>7, <1>9, <1>10 DEF RtNext, MainStep, StopStep

\* Every action keeps Plane.
LEMMA PlaneKept ==
  ASSUME RtInv, RtNext
  PROVE  Plane'
<1>0. /\ main \in [phase: {"start", "run", "stop", "wait", "exit"}, n: 1..8]
      /\ stop \in [Part -> {"no", "running", "returned"}] /\ Counter /\ Plane
      /\ "userplane" \in Part
  BY Parts DEF RtInv, RtTypeOK
<1>1. CASE /\ stop'["userplane"] = "returned" => stop["userplane"] = "returned"
           /\ (failed => failed') /\ UNCHANGED echoVars
  BY <1>0, <1>1 DEF Plane, Ended, echoVars
<1>2. CASE startPart \/ startFails \/ signal
  <2>1. stop'["userplane"] # "returned"
    BY <1>0, <1>2 DEF startPart, startFails, signal, Counter
  <2> QED
    BY <2>1 DEF Plane
<1>3. CASE stopNext
  <2>1. \A n \in 1..7 : StopOrder[n] \in Part
    BY Parts
  <2> QED
    BY <1>0, <1>1, <1>3, <2>1, StopCases DEF stopNext
<1>4. CASE awaitStop \/ budgetEnds \/ shutdownLists
  BY <1>1, <1>4 DEF awaitStop, budgetEnds, shutdownLists
<1>5. CASE shutdownReturns \/ radiusReturns \/ partReturns
  <2>1. \A p \in Part : \A e : p # "userplane" /\ Returned(p, e)
                           => stop'["userplane"] = stop["userplane"] /\ (failed => failed')
    BY <1>0 DEF Returned
  <2> QED
    BY <1>1, <1>5, <2>1, Parts DEF shutdownReturns, radiusReturns, partReturns
<1>6. CASE userplaneReturns
  BY <1>0, <1>6 DEF userplaneReturns, Returned, kernelRelease, Plane, Ended
<1>7. CASE ReaderStep \/ WatchdogStep \/ PlaneFails
  <2>1. /\ UNCHANGED <<stop, failed>>
        /\ Reads \/ Probes \/ readerEnds \/ peerDies
    BY <1>7 DEF ReaderStep, WatchdogStep, PlaneFails, mainVars
  <2> QED
    BY <1>0, <2>1, EndedKept DEF Plane
<1>8. CASE userplaneCancels
  BY <1>0, <1>8 DEF userplaneCancels, kernelCancel, Plane, mainVars, Ended
<1>9. CASE \/ \E w \in Worker : RadiusStep(w) \/ CallReturns(w)
           \/ \E g \in Handler : DeadlinePasses(g)
           \/ Environment
           \/ (\E v \in {"auth", "acct"} : radiusClose(v)) \/ staEnds \/ Exited
  BY <1>1, <1>9 DEF RadiusStep, CallReturns, DeadlinePasses, Environment, radiusClose, staEnds,
     Exited, vars, mainVars
<1> QED
  BY <1>2, <1>3, <1>4, <1>5, <1>6, <1>7, <1>8, <1>9 DEF RtNext, MainStep, StopStep

\* Once the servers are closed and their handlers have returned, none begins.
LEMMA QuietKept ==
  ASSUME RtInv, RtNext, Quiet, main.phase # "start"
  PROVE  Quiet'
<1>0. RadiusTypeOK /\ Labels /\ Sessions /\ Main \in Worker /\ Main \notin Handler
      /\ Handler \subseteq Worker /\ work \in [Worker -> Work]
  BY RadiusAssumption DEF RtInv, RtTypeOK, RadiusTypeOK, Worker
<1>1. CASE \/ \E w \in Worker : RadiusStep(w) \/ CallReturns(w)
           \/ \E g \in Handler : DeadlinePasses(g)
           \/ Environment
  <2>1. PICK w \in Worker : WorkMoves(w)
    BY <1>0, <1>1, WorkSteps
  <2>2. w = Main
    BY <2>1 DEF WorkMoves, Step, HandlerEffect, Quiet, Worker
  <2> QED
    BY <1>0, <2>1, <2>2 DEF WorkMoves, Step, Effect, Quiet
<1>2. CASE UNCHANGED <<work, open>>
  BY <1>2 DEF Quiet
<1>3. CASE stopNext \/ budgetEnds \/ shutdownLists \/ shutdownReturns
  <2>1. open' = open
    BY <1>3 DEF stopNext, budgetEnds, shutdownLists, shutdownReturns, listSessions
  <2>2. \A g \in Handler : work'[g] = work[g]
    <3>1. CASE stopNext
      BY <1>0, <3>1, StopCases
    <3>2. CASE budgetEnds \/ shutdownLists \/ shutdownReturns
      BY <1>0, <3>2 DEF budgetEnds, shutdownLists, shutdownReturns, listSessions
    <3> QED
      BY <1>3, <3>1, <3>2
  <2> QED
    BY <2>1, <2>2 DEF Quiet
<1>4. ASSUME NEW v \in {"auth", "acct"}, radiusClose(v)
      PROVE  FALSE
  BY <1>4 DEF radiusClose, Quiet
<1>5. CASE startPart
  BY <1>5 DEF startPart
<1>6. CASE ReaderStep \/ WatchdogStep \/ PlaneFails \/ awaitStop \/ radiusReturns \/ partReturns
           \/ userplaneCancels \/ userplaneReturns \/ startFails \/ signal \/ staEnds \/ Exited
  BY <1>2, <1>6 DEF ReaderStep, WatchdogStep, PlaneFails, awaitStop, radiusReturns, partReturns,
     userplaneCancels, userplaneReturns, startFails, signal, staEnds, Exited, vars, radiusVars
<1> QED
  BY <1>1, <1>3, <1>4, <1>5, <1>6 DEF RtNext, MainStep, StopStep

\* Every action keeps Order.
LEMMA OrderKept ==
  ASSUME RtInv, RtNext
  PROVE  Order'
<1>0. /\ main \in [phase: {"start", "run", "stop", "wait", "exit"}, n: 1..8]
      /\ stop \in [Part -> {"no", "running", "returned"}] /\ Counter /\ Order
      /\ "pgw" \in Part /\ "radius" \in Part /\ \A n \in 1..7 : StopOrder[n] \in Part
  BY Parts DEF RtInv, RtTypeOK
<1>q. main.phase # "start" /\ Quiet => Quiet'
  BY QuietKept
<1>s. main.phase = "start" => stop["pgw"] = "no" /\ stop["radius"] = "no"
  BY <1>0 DEF Counter
<1>1. CASE UNCHANGED <<main, stop, gtpc>> /\ (budget => budget')
  BY <1>0, <1>1, <1>q, <1>s DEF Order
<1>2. CASE startPart \/ startFails \/ signal
  <2>1. /\ stop'["pgw"] = "no" /\ stop'["radius"] = "no" /\ gtpc' = gtpc
    BY <1>0, <1>2 DEF startPart, startFails, signal, Counter, radiusVars
  <2>2. gtpc
    BY <1>0, <1>2 DEF startPart, startFails, signal, Counter, Order
  <2>3. ~(main'.phase = "stop" /\ main'.n >= 3) /\ main'.phase # "wait"
    <3>1. CASE startPart
      BY <1>0, <3>1 DEF startPart
    <3>2. CASE startFails \/ signal
      <4>1. main' = [main EXCEPT !.phase = "exit"] \/ main' = [phase |-> "stop", n |-> 1]
        BY <3>2 DEF startFails, signal
      <4> QED
        BY <1>0, <4>1
    <3> QED
      BY <1>2, <3>1, <3>2
  <2> QED
    BY <2>1, <2>2, <2>3 DEF Order
<1>3. CASE stopNext
  <2>1. UNCHANGED <<gtpc, budget>> /\ main.phase = "stop"
    BY <1>3 DEF stopNext
  <2>2. CASE main'.phase = "exit" /\ UNCHANGED stop
    BY <1>0, <1>q, <2>1, <2>2 DEF Order
  <2>3. CASE /\ main.n \in 1..7 /\ ~budget
             /\ main' = [main EXCEPT !.phase = "wait"]
             /\ stop' = [stop EXCEPT ![StopOrder[main.n]] = "running"]
    <3>1. main'.phase = "wait" /\ main'.n = main.n
      BY <1>0, <2>3
    <3>2. main.n >= 3 => Quiet
      BY <1>0, <1>3, <2>3 DEF Order, stopNext
    <3>3. /\ main.n # 5 => stop'["pgw"] = stop["pgw"]
          /\ main.n = 5 => stop'["pgw"] = "running" /\ stop["pgw"] # "returned"
      <4>1. main.n # 5 => StopOrder[main.n] # "pgw"
        BY <2>3, Orders
      <4>2. main.n = 5 => StopOrder[main.n] = "pgw"
        BY Orders
      <4> QED
        BY <1>0, <1>3, <2>3, <4>1, <4>2 DEF Order, stopNext
    <3>4. stop'["radius"] = "returned" => stop["radius"] = "returned"
      BY <1>0, <2>3
    <3> QED
      BY <1>0, <1>q, <2>1, <2>3, <3>1, <3>2, <3>3, <3>4 DEF Order
  <2> QED
    BY <1>3, <2>2, <2>3, StopCases
<1>4. CASE awaitStop
  <2>1. main.phase = "wait" /\ main.n \in 1..7 /\ main' = [phase |-> "stop", n |-> main.n + 1]
        /\ UNCHANGED <<gtpc, budget, stop>>
    BY <1>0, <1>4 DEF awaitStop, Counter, radiusVars
  <2>2. main.n = 2 => budget \/ Quiet
    <3>1. stop[StopOrder[main.n]] = "returned" \/ budget
      BY <1>4 DEF awaitStop
    <3> QED
      BY <1>0, <3>1, Orders DEF Order
  <2>3. main.n >= 3 => Quiet
    BY <1>0, <2>1 DEF Order
  <2>4. main'.phase = "stop" /\ main'.n = main.n + 1
    BY <2>1
  <2> QED
    BY <1>0, <1>q, <2>1, <2>2, <2>3, <2>4 DEF Order
<1>5. CASE budgetEnds \/ shutdownLists
  BY <1>1, <1>5 DEF budgetEnds, shutdownLists, listSessions
<1>6. CASE shutdownReturns \/ userplaneReturns
  <2>1. UNCHANGED <<main, gtpc, budget>> /\ UNCHANGED <<stop["pgw"], stop["radius"]>>
    BY <1>0, <1>6, Parts DEF shutdownReturns, userplaneReturns, Returned, radiusVars
  <2> QED
    BY <1>0, <1>q, <1>s, <2>1 DEF Order
<1>7. CASE radiusReturns
  <2>1. UNCHANGED <<main, gtpc, budget>> /\ stop'["pgw"] = stop["pgw"] /\ stop["radius"] = "running"
    BY <1>0, <1>7 DEF radiusReturns, Returned, radiusVars, Running
  <2>2. budget \/ Quiet
    <3>1. CASE budget
      BY <3>1
    <3>2. CASE open = {} /\ Busy("auth") \cup Busy("acct") = {}
      <4>1. \A g \in Handler : work[g].srv \in {"auth", "acct"}
        BY DEF RtInv, Labels, Permission
      <4> QED
        BY <3>2, <4>1 DEF Busy, At, Quiet
    <3> QED
      BY <1>7, <3>1, <3>2 DEF radiusReturns
  <2> QED
    BY <1>0, <1>q, <1>s, <2>1, <2>2 DEF Order
<1>8. CASE partReturns
  <2>1. PICK p \in {"accessside", "pgw", "aaa", "access_driver"} :
          /\ Running(p) /\ stop' = [stop EXCEPT ![p] = "returned"]
          /\ gtpc' = (gtpc /\ p # "pgw")
    BY <1>8 DEF partReturns, Returned
  <2>2. UNCHANGED <<main, budget>>
    BY <1>8 DEF partReturns
  <2>3. stop'["radius"] = stop["radius"]
    BY <1>0, <2>1
  <2>4. CASE p # "pgw"
    <3>1. stop'["pgw"] = stop["pgw"] /\ (~gtpc' => ~gtpc)
      BY <1>0, <2>1, <2>4
    <3> QED
      BY <1>0, <1>q, <1>s, <2>2, <2>3, <3>1 DEF Order
  <2>5. CASE p = "pgw"
    <3>1. stop'["pgw"] = "returned" /\ stop["pgw"] = "running"
      BY <1>0, <2>1, <2>5 DEF Running
    <3> QED
      BY <1>0, <1>q, <1>s, <2>2, <2>3, <3>1 DEF Order
  <2> QED
    BY <2>4, <2>5
<1>9. CASE \/ \E w \in Worker : RadiusStep(w) \/ CallReturns(w)
           \/ \E g \in Handler : DeadlinePasses(g)
           \/ Environment
  <2>1. PICK w \in Worker : WorkMoves(w)
    BY <1>9, WorkSteps DEF RtInv, RtTypeOK
  <2> QED
    BY <1>1, <2>1 DEF WorkMoves, mainVars
<1>10. CASE ReaderStep \/ WatchdogStep \/ PlaneFails \/ userplaneCancels
            \/ (\E v \in {"auth", "acct"} : radiusClose(v)) \/ staEnds \/ Exited
  BY <1>1, <1>10
     DEF ReaderStep, WatchdogStep, PlaneFails, userplaneCancels, radiusClose, staEnds,
     Exited, vars, mainVars, radiusVars
<1> QED
  BY <1>2, <1>3, <1>4, <1>5, <1>6, <1>7, <1>8, <1>9, <1>10 DEF RtNext, MainStep, StopStep

\* Every action keeps Completed.
LEMMA CompletedKept ==
  ASSUME RtInv, RtNext
  PROVE  Completed'
<1>0. /\ main \in [phase: {"start", "run", "stop", "wait", "exit"}, n: 1..8]
      /\ stop \in [Part -> {"no", "running", "returned"}] /\ Counter /\ Completed
      /\ \A n \in 1..7 : StopOrder[n] \in Part
  BY Parts DEF RtInv, RtTypeOK
<1>1. CASE /\ UNCHANGED main /\ (failed => failed')
           /\ \A p \in Part : stop[p] = "returned" => stop'[p] = "returned"
  BY <1>0, <1>1 DEF Completed
<1>2. CASE startPart
  <2>1. main'.phase \notin {"stop", "wait", "exit"}
    BY <1>0, <1>2 DEF startPart
  <2> QED
    BY <2>1 DEF Completed
<1>3. CASE startFails
  BY <1>3 DEF startFails, Completed
<1>4. CASE signal
  BY <1>4 DEF signal, Completed
<1>5. CASE stopNext
  <2>1. CASE main.n = 8 /\ main' = [main EXCEPT !.phase = "exit"] /\ UNCHANGED <<stop, failed>>
    BY <1>0, <1>5, <2>1 DEF Completed, stopNext
  <2>2. CASE failed'
    BY <2>2 DEF Completed
  <2>3. CASE /\ main.n \in 1..7 /\ main' = [main EXCEPT !.phase = "wait"]
             /\ stop' = [stop EXCEPT ![StopOrder[main.n]] = "running"] /\ UNCHANGED failed
    <3>1. main.phase = "stop" /\ main'.phase = "wait" /\ main'.n = main.n
      BY <1>0, <1>5, <2>3 DEF stopNext
    <3>2. ASSUME NEW m \in 1..(main.n - 1)
          PROVE  stop'[StopOrder[m]] = stop[StopOrder[m]]
      <4>1. StopOrder[m] # StopOrder[main.n] /\ m \in 1..7
        BY <2>3, Orders
      <4> QED
        BY <1>0, <2>3, <4>1
    <3> QED
      BY <1>0, <2>3, <3>1, <3>2 DEF Completed
  <2> QED
    BY <1>5, <2>1, <2>2, <2>3, StopCases
<1>6. CASE awaitStop
  <2>1. main.phase = "wait" /\ main.n \in 1..7 /\ main' = [phase |-> "stop", n |-> main.n + 1]
        /\ UNCHANGED stop
    BY <1>0, <1>6 DEF awaitStop, Counter
  <2>2. CASE failed' = TRUE
    BY <2>2 DEF Completed
  <2>3. CASE stop[StopOrder[main.n]] = "returned" /\ UNCHANGED failed
    BY <1>0, <2>1, <2>3 DEF Completed
  <2> QED
    BY <1>6, <2>2, <2>3 DEF awaitStop
<1>7. CASE budgetEnds \/ shutdownLists
  BY <1>1, <1>7 DEF budgetEnds, shutdownLists
<1>8. CASE shutdownReturns \/ userplaneReturns \/ radiusReturns \/ partReturns
  <2>1. \A p \in Part : \A e : Returned(p, e) =>
          /\ failed => failed'
          /\ \A q \in Part : stop[q] = "returned" => stop'[q] = "returned"
    BY <1>0 DEF Returned
  <2> QED
    BY <1>1, <1>8, <2>1, Parts DEF shutdownReturns, userplaneReturns, radiusReturns, partReturns
<1>9. CASE \/ \E w \in Worker : RadiusStep(w) \/ CallReturns(w)
           \/ \E g \in Handler : DeadlinePasses(g)
           \/ Environment
           \/ ReaderStep \/ WatchdogStep \/ PlaneFails \/ userplaneCancels
           \/ (\E v \in {"auth", "acct"} : radiusClose(v)) \/ staEnds \/ Exited
  <2>1. UNCHANGED mainVars
    BY <1>9 DEF RadiusStep, CallReturns, DeadlinePasses, Environment, ReaderStep, WatchdogStep,
       PlaneFails, userplaneCancels, radiusClose, staEnds, Exited, vars
  <2> QED
    BY <1>1, <2>1 DEF mainVars
<1> QED
  BY <1>2, <1>3, <1>4, <1>5, <1>6, <1>7, <1>8, <1>9 DEF RtNext, MainStep, StopStep

\* No action gives a session that is detached a context at the PGW again.
LEMMA CleanKept ==
  ASSUME RtInv, RtNext, NEW i \in ID, Clean(i)
  PROVE  Clean(i)'
<1>0. RadiusTypeOK /\ Labels /\ Sessions
  BY DEF RtInv, RtTypeOK
<1>1. CASE \/ \E w \in Worker : RadiusStep(w) \/ CallReturns(w)
           \/ \E g \in Handler : DeadlinePasses(g)
           \/ Environment
  <2>1. PICK w \in Worker : WorkMoves(w)
    BY <1>0, <1>1, WorkSteps
  <2>2. SessEffect(w) /\ \A j \in pgw' : j \in pgw \/ sess[j].state = "pgw_pending"
    BY <2>1 DEF WorkMoves, Step, Effect
  <2> QED
    BY <2>2 DEF SessEffect, Clean
<1>2. CASE UNCHANGED <<sess, pgw>>
  BY <1>2 DEF Clean
<1>3. CASE ReaderStep \/ WatchdogStep \/ PlaneFails \/ awaitStop \/ radiusReturns
           \/ userplaneCancels \/ userplaneReturns \/ startFails \/ signal \/ Exited
  BY <1>2, <1>3 DEF ReaderStep, WatchdogStep, PlaneFails, awaitStop, radiusReturns,
     userplaneCancels, userplaneReturns, startFails, signal, Exited, vars, radiusVars
<1>4. CASE \/ startPart \/ stopNext \/ shutdownLists \/ shutdownReturns \/ partReturns
           \/ (\E v \in {"auth", "acct"} : radiusClose(v)) \/ budgetEnds \/ staEnds
  BY <1>2, <1>4
     DEF startPart, stopNext, shutdownLists, listSessions, shutdownReturns, partReturns,
     radiusClose, budgetEnds, staEnds
<1> QED
  BY <1>1, <1>3, <1>4 DEF RtNext, MainStep, StopStep

\* Every action keeps Detached.
LEMMA DetachedKept ==
  ASSUME RtInv, RtNext
  PROVE  Detached'
<1>0. /\ main \in [phase: {"start", "run", "stop", "wait", "exit"}, n: 1..8]
      /\ stop \in [Part -> {"no", "running", "returned"}] /\ Counter /\ Detached
      /\ "sessions" \in Part /\ \A n \in 1..7 : StopOrder[n] \in Part
      /\ listed \subseteq ID /\ work \in [Worker -> Work] /\ Main \in Worker
      /\ Main \notin Handler
  BY Parts, RadiusAssumption DEF RtInv, RtTypeOK, RadiusTypeOK, Worker
<1>c. \A i \in ID : Clean(i) => Clean(i)'
  BY CleanKept
<1>1. CASE /\ UNCHANGED <<stop["sessions"], listed>> /\ (failed => failed')
           /\ work'[Main].pc = work[Main].pc /\ work'[Main].out = work[Main].out
           /\ work'[Main].todo = work[Main].todo /\ work'[Main].id = work[Main].id
  <2>1. \A i \in listed : Clean(i) => Clean(i)'
    BY <1>0, <1>c
  <2> QED
    BY <1>0, <1>1, <2>1 DEF Detached, At
<1>2. CASE \/ \E w \in Worker : RadiusStep(w) \/ CallReturns(w)
           \/ \E g \in Handler : DeadlinePasses(g)
           \/ Environment
  <2>1. PICK w \in Worker : WorkMoves(w)
    BY <1>2, WorkSteps DEF RtInv, RtTypeOK
  <2>2. CASE w # Main
    BY <1>0, <1>1, <2>1, <2>2 DEF WorkMoves, Step, Effect, mainVars
  <2>3. CASE w = Main
    <3>1. MainEffect /\ UNCHANGED <<stop, listed, failed>>
      BY <2>1, <2>3 DEF WorkMoves, Step, mainVars
    <3>2. stop["sessions"] = "running"
      BY <1>0, <3>1 DEF Detached, MainEffect, At
    <3>3. work'[Main].out # "error" =>
            \A i \in listed : \/ i \in work'[Main].todo
                              \/ i = work'[Main].id /\ work'[Main].pc \in WithSession
                              \/ Clean(i)'
      <4>1. SUFFICES ASSUME work'[Main].out # "error", NEW i \in listed
                     PROVE  Left(i)' \/ Clean(i)'
        BY DEF Left
      <4>2. Left(i) \/ Clean(i)
        BY <1>0, <3>1, <4>1 DEF Detached, MainEffect, Left, At
      <4> QED
        BY <1>0, <1>c, <3>1, <4>1, <4>2 DEF MainEffect
    <3> QED
      BY <3>1, <3>2, <3>3 DEF Detached, MainEffect, At
  <2> QED
    BY <2>2, <2>3
<1>3. CASE stopNext
  <2>1. UNCHANGED listed
    BY <1>3 DEF stopNext
  <2>2. CASE /\ main.n \in 1..7 /\ main.n = 1 /\ UNCHANGED failed
             /\ stop' = [stop EXCEPT ![StopOrder[main.n]] = "running"]
             /\ work' = [work EXCEPT ![Main] = [work[Main] EXCEPT !.pc = "list"]]
    <3>1. stop'["sessions"] = "running"
      BY <1>0, <2>2, Orders
    <3>2. listed = {}
      BY <1>0, <1>3, <2>2 DEF Counter, Detached, stopNext
    <3>3. work'[Main].pc = "list"
      BY <1>0, <2>2 DEF Work
    <3> QED
      BY <2>1, <3>1, <3>2, <3>3 DEF Detached, At
  <2>3. CASE /\ main.n \in 1..7 /\ main.n # 1 /\ UNCHANGED failed
             /\ stop' = [stop EXCEPT ![StopOrder[main.n]] = "running"] /\ work' = work
    <3>1. stop'["sessions"] = stop["sessions"]
      BY <1>0, <2>3, Orders
    <3> QED
      BY <1>1, <2>1, <2>3, <3>1
  <2>4. CASE UNCHANGED <<stop, work>> /\ (failed => failed')
    BY <1>1, <2>1, <2>4
  <2> QED
    BY <1>3, <2>2, <2>3, <2>4, StopCases
<1>4. CASE budgetEnds
  <2>1. UNCHANGED <<stop, listed, failed>>
    BY <1>4 DEF budgetEnds
  <2>2. /\ work'[Main].pc = work[Main].pc /\ work'[Main].out = work[Main].out
        /\ work'[Main].todo = work[Main].todo /\ work'[Main].id = work[Main].id
    BY <1>0, <1>4 DEF budgetEnds, Work
  <2> QED
    BY <1>1, <2>1, <2>2
<1>5. CASE shutdownLists
  <2>1. UNCHANGED <<stop, failed>> /\ listed' = work'[Main].todo /\ work[Main].pc = "list"
    BY <1>5 DEF shutdownLists, listSessions, At
  <2>2. work'[Main].pc = "next"
    BY <1>0, <1>5 DEF shutdownLists, listSessions, Work
  <2> QED
    BY <1>0, <2>1, <2>2 DEF Detached, At
<1>6. CASE shutdownReturns
  <2>1. /\ UNCHANGED listed /\ work[Main].pc = "next" /\ work[Main].todo = {}
        /\ stop'["sessions"] = "returned"
        /\ ~failed' => ~failed /\ work[Main].out # "error"
    BY <1>0, <1>6 DEF shutdownReturns, Returned, At
  <2>2. work'[Main].pc = "idle"
    BY <1>0, <1>6, IdleWork DEF shutdownReturns
  <2>3. ~failed' => \A i \in listed : Clean(i)
    BY <1>0, <2>1 DEF Detached, At, WithSession
  <2> QED
    BY <1>0, <1>c, <2>1, <2>2, <2>3 DEF Detached, At
<1>7. CASE radiusReturns \/ userplaneReturns \/ partReturns
  <2>1. \A p \in Part : \A e : Returned(p, e) /\ p # "sessions" =>
          /\ failed => failed'
          /\ stop'["sessions"] = stop["sessions"]
    BY <1>0 DEF Returned
  <2>2. UNCHANGED <<work, listed>>
    BY <1>7 DEF radiusReturns, userplaneReturns, partReturns, radiusVars
  <2>3. (failed => failed') /\ stop'["sessions"] = stop["sessions"]
    BY <1>7, <2>1, Parts DEF radiusReturns, userplaneReturns, partReturns
  <2> QED
    BY <1>1, <2>2, <2>3
<1>8. ASSUME NEW v \in {"auth", "acct"}, radiusClose(v)
      PROVE  Detached'
  <2>1. UNCHANGED <<stop, listed, failed>>
    BY <1>8 DEF radiusClose, mainVars
  <2>2. work'[Main] = [work[Main] EXCEPT !.ctxDone = work[Main].ctxDone \/ Main \in Busy(v)]
    BY <1>0, <1>8 DEF radiusClose, Work
  <2>3. /\ work'[Main].pc = work[Main].pc /\ work'[Main].out = work[Main].out
        /\ work'[Main].todo = work[Main].todo /\ work'[Main].id = work[Main].id
    BY <1>0, <2>2 DEF Work
  <2> QED
    BY <1>1, <2>1, <2>3
<1>9. CASE \/ ReaderStep \/ WatchdogStep \/ PlaneFails \/ userplaneCancels \/ awaitStop
           \/ startPart \/ startFails \/ signal \/ staEnds \/ Exited
  <2>1. UNCHANGED <<work, stop, listed>>
    BY <1>9 DEF ReaderStep, WatchdogStep, PlaneFails, userplaneCancels, awaitStop, startPart,
       startFails, signal, staEnds, Exited, vars, mainVars, radiusVars
  <2>2. failed => failed'
    BY <1>9 DEF ReaderStep, WatchdogStep, PlaneFails, userplaneCancels, awaitStop, startPart,
       startFails, signal, staEnds, Exited, vars, mainVars
  <2> QED
    BY <1>1, <2>1, <2>2
<1> QED
  BY <1>2, <1>3, <1>4, <1>5, <1>6, <1>7, <1>8, <1>9 DEF RtNext, MainStep, StopStep
-----------------------------------------------------------------------------

\* RtInv holds initially ...
LEMMA InvInit == RtInit => RtInv
<1> SUFFICES ASSUME RtInit
             PROVE  RtInv
  OBVIOUS
<1> DEFINE first(w) == Idle(IF w = Main THEN "main" ELSE "acct")
<1>1. work = [w \in Worker |-> first(w)]
  BY DEF RtInit, RadiusInit
<1>2. ASSUME NEW w \in Worker
      PROVE  /\ work[w] \in Work /\ work[w].pc = "idle" /\ work[w].todo = {}
             /\ work[w].out = "none" /\ (w # Main => work[w].srv = "acct")
  <2>1. CASE w = Main
    BY <1>1, <2>1, IdleWork
  <2>2. CASE w # Main
    BY <1>1, <2>2, IdleWork
  <2> QED
    BY <2>1, <2>2
<1>3. Main \in Worker /\ Main \notin Handler /\ Handler \subseteq Worker
  BY RadiusAssumption DEF Worker
<1>4. RtTypeOK
  <2>1. work \in [Worker -> Work]
    BY <1>1, <1>2
  <2>2. RadiusTypeOK
    <3>1. sta \in BOOLEAN /\ gtpc \in BOOLEAN
      BY DEF RtInit, RadiusInit
    <3>2. packets \in 0..MaxPacket
      BY RadiusAssumption DEF RtInit, RadiusInit
    <3>3. /\ open = {} /\ cached = {} /\ pgw = {}
          /\ sess = [i \in ID |-> [dev |-> None, state |-> "unused"]]
          /\ lock = [d \in Station |-> None]
      BY DEF RtInit, RadiusInit
    <3> QED
      BY <2>1, <3>1, <3>2, <3>3 DEF RadiusTypeOK, State
  <2>3. EchoTypeOK
    <3>1. /\ rootDone \in BOOLEAN /\ link \in BOOLEAN /\ supported \in BOOLEAN
          /\ peerUp \in BOOLEAN
      BY DEF RtInit, EchoInit
    <3>2. /\ failures = 0 /\ answers = 0 /\ kctx = "none" /\ reader = "off" /\ watchdog = "off"
          /\ pending = "nil" /\ health = "unknown"
      BY DEF RtInit, EchoInit
    <3> QED
      BY <3>1, <3>2, EchoAssumption DEF EchoTypeOK
  <2>4. budget \in BOOLEAN /\ failed \in BOOLEAN
    BY DEF RtInit
  <2>5. /\ cfg \in Configs /\ main = [phase |-> "start", n |-> 1]
        /\ stop = [p \in Part |-> "no"] /\ listed = {}
    BY DEF RtInit
  <2> QED
    BY <2>2, <2>3, <2>4, <2>5 DEF RtTypeOK
<1>5. Labels
  BY <1>2, <1>3 DEF Labels, Permission, MainLabel, HandlerLabel
<1>6. Sessions
  BY <1>2, <1>3
     DEF Sessions, Owner, Session, WithDevice, WithSession, Locked, RtInit, RadiusInit
<1>7. Counter /\ Order /\ Plane /\ Completed
  BY Parts DEF Counter, Order, Plane, Completed, RtInit, RadiusInit, EchoInit
<1>8. Detached
  BY <1>2, <1>3, Parts DEF Detached, At, RtInit, EchoInit
<1> QED
  BY <1>4, <1>5, <1>6, <1>7, <1>8 DEF RtInv

\* ... and is inductive.
LEMMA InvStep == RtInv /\ [RtNext]_vars => RtInv'
<1>1. ASSUME RtInv, RtNext
      PROVE  RtInv'
  <2>1. RtTypeOK'
    BY <1>1, RadiusInvariants, EchoInvariants, MainTypes DEF RtTypeOK, RtInv
  <2> QED
    BY <1>1, <2>1, RadiusInvariants, EchoInvariants, CounterKept, OrderKept, PlaneKept,
       DetachedKept, CompletedKept DEF RtInv
<1>2. ASSUME RtInv, UNCHANGED vars
      PROVE  RtInv'
  <2>1. RadiusTypeOK' /\ Labels' /\ Sessions'
    BY <1>2, SameRadius DEF RtInv, RtTypeOK, vars, radiusVars, RadiusTypeOK
  <2>2. EchoTypeOK' /\ Plane'
    BY <1>2 DEF RtInv, RtTypeOK, vars, echoVars, mainVars, EchoTypeOK, Plane, Ended
  <2>3. RtTypeOK' /\ Counter' /\ Completed'
    BY <1>2, <2>1, <2>2 DEF RtInv, RtTypeOK, vars, mainVars, echoVars, Counter, Completed
  <2>4. Order' /\ Detached'
    BY <1>2 DEF RtInv, vars, mainVars, radiusVars, Order, Quiet, Detached, At, Clean
  <2> QED
    BY <2>1, <2>2, <2>3, <2>4 DEF RtInv
<1> QED
  BY <1>1, <1>2

\* RtInv is an invariant of the program.
THEOREM RuntimeInvariant == RtSpec => []RtInv
<1> QED
  BY InvInit, InvStep, PTL DEF RtSpec

\* The types of the program's variables.
THEOREM RuntimeTypes == RtSpec => []RtTypeOK
<1>1. RtInv => RtTypeOK
  BY DEF RtInv
<1> QED
  BY <1>1, RuntimeInvariant, PTL

\* An Access-Accept is only sent when the AAA granted access in this exchange:
\* what the STa client, the provider and the lifecycle service make of its answer
\* leads to an attach only then, and the handler remembers it over all that
\* follows.
THEOREM AcceptsAreGranted == RtSpec => []AcceptIsGranted
<1>1. RtInv => AcceptIsGranted
  BY DEF RtInv, Labels, Permission, AcceptIsGranted, At
<1> QED
  BY <1>1, RuntimeInvariant, PTL

\* stopRuntime closes the GTP-C client only when no RADIUS handler is left, and the
\* kernel user plane only when its reader and its watchdog have ended, although
\* the 15 seconds may pass at any point.  Of other goroutines nothing is said: no
\* Stop waits for the handlers of Error Indications, PGW deletes, AAA disconnects
\* and DHCP recoveries.
THEOREM StopsKeepOrder == RtSpec => []StopsInOrder
<1>1. RtInv => StopsInOrder
  BY DEF RtInv, Order, Quiet, Plane, Ended, StopsInOrder, At
<1> QED
  BY <1>1, RuntimeInvariant, PTL

\* When run returns without an error, the sessions that Shutdown listed have no
\* context at the PGW and the GTP device is gone, whatever the handlers that still
\* run did to those sessions.
THEOREM CleanExitIsClean == RtSpec => []CleanExitReleases
<1>1. ASSUME RtInv
      PROVE  CleanExitReleases
  <2>1. SUFFICES ASSUME main.phase = "exit", ~failed
                 PROVE  listed \cap pgw = {} /\ ~link
    BY DEF CleanExitReleases, Alive
  <2>2. main.n = 8 /\ \A m \in 1..7 : stop[StopOrder[m]] = "returned"
    BY <1>1, <2>1 DEF RtInv, Completed
  <2>3. stop["sessions"] = "returned" /\ stop["userplane"] = "returned"
    BY <2>2, Orders
  <2> QED
    BY <1>1, <2>1, <2>3 DEF RtInv, Detached, Clean, Plane
<1> QED
  BY <1>1, RuntimeInvariant, PTL
=============================================================================
