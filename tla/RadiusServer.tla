---------------------------- MODULE RadiusServer ----------------------------
(***************************************************************************)
(* The RADIUS servers of internal/radius/server.go: one goroutine for      *)
(* every packet, the EAP exchange it makes with the AAA (ExchangeEAP of    *)
(* internal/lifecycle and of internal/aaa), and the sessions that come and *)
(* go with it.  Of an attach and a detach, which Lifecycle follows call by *)
(* call, only what a request can wait for is kept here: the lock of the    *)
(* subscriber and the PGW.                                                 *)
(*                                                                         *)
(* The goroutine in which main detaches the sessions is a worker as well,  *)
(* it takes the same locks and waits for the same PGW.                     *)
(***************************************************************************)
EXTENDS Naturals, FiniteSets

CONSTANTS
  Handler,     \* the goroutines of the two packet servers
  Station,     \* the subscribers, each with one device
  Main,        \* the goroutine of lifecycle.Shutdown
  None,
  MaxPacket,   \* bound: the number of packets that arrive
  MaxSession   \* bound: the number of sessions that are created

ASSUME RadiusAssumption ==
  /\ MaxPacket \in Nat /\ MaxSession \in Nat
  /\ Main \notin Handler /\ None \notin Handler \cup Station \cup {Main}

Worker == Handler \cup {Main}
ID == 1..MaxSession
NoSession == 0

\* The packets: from a source that is not allowed, of a wrong type or without
\* an EAP-Message, with one; Accounting-Start, Interim-Update (likewise -On and
\* -Off), -Stop.
Kind == {"foreign", "malformed", "access", "start", "update", "stop"}

ServerOf(k) == IF k \in {"foreign", "malformed", "access"} THEN "auth" ELSE "acct"

\* A DEA: whether its Result-Code is 2001 or 2002, and its EAP-Payload, of which
\* an invalid or unknown one is handled as a failure.
Answer == [success: BOOLEAN, eap: {"absent", "request", "success", "failure"}]

\* The AAA grants access: the Result-Code is a success and no EAP-Payload but an
\* EAP-Success contradicts it.
Granted(a) == a.success /\ a.eap \in {"success", "absent"}

VARIABLES
  work,    \* the workers: program counter and locals
  packets, \* how many packets have arrived
  open,    \* the servers that listen
  sta,     \* the connection to the AAA can be used
  gtpc,    \* the GTP-C client is not closed
  sess,    \* the session store
  cached,  \* the stations in the authentication cache
  lock,    \* the owner of each subscriber's lock
  pgw      \* the sessions that have a context at the PGW

radiusVars == <<work, packets, open, sta, gtpc, sess, cached, lock, pgw>>

State == {"unused", "authorized", "pgw_pending", "active", "terminating",
          "terminated", "failed"}

\* ctxDone: the deadline of the context passed or the server was shut down.
\* granted: the AAA granted access, see Granted; out is what the handler answers
\* or, of Main, whether a detach failed; todo the sessions Main has left.
Work == [pc: {"idle", "exchange", "attach", "find", "pending", "create",
              "activate", "detach", "recheck", "delete", "reply", "list", "next"},
         srv: {"auth", "acct", "main"}, dev: Station \cup {None}, id: 0..MaxSession,
         granted: BOOLEAN, ctxDone: BOOLEAN, todo: SUBSET ID,
         out: {"none", "accept", "challenge", "reject", "response", "error"}]

Idle(v) == [pc |-> "idle", srv |-> v, dev |-> None, id |-> NoSession,
            granted |-> FALSE, ctxDone |-> FALSE, todo |-> {}, out |-> "none"]

RadiusInit ==
  /\ work = [w \in Worker |-> Idle(IF w = Main THEN "main" ELSE "acct")]
  /\ packets = 0 /\ open = {} /\ sta = FALSE /\ gtpc = TRUE
  /\ sess = [i \in ID |-> [dev |-> None, state |-> "unused"]]
  /\ cached = {} /\ pgw = {}
  /\ lock = [d \in Station |-> None]

RadiusTypeOK ==
  /\ work \in [Worker -> Work]
  /\ packets \in 0..MaxPacket
  /\ open \subseteq {"auth", "acct"} /\ sta \in BOOLEAN /\ gtpc \in BOOLEAN
  /\ sess \in [ID -> [dev: Station \cup {None}, state: State]]
  /\ cached \subseteq Station /\ pgw \subseteq ID
  /\ lock \in [Station -> Worker \cup {None}]

At(w, l) == work[w].pc = l

Goto(w, l) == work' = [work EXCEPT ![w].pc = l]

\* The handler is about to answer o, and has no use for its other locals.
Reply(g, o) ==
  work' = [work EXCEPT ![g] = [Idle(@.srv) EXCEPT !.pc = "reply", !.out = o,
                                                   !.granted = work[g].granted]]

\* The goroutine ends.
Return(g) == work' = [work EXCEPT ![g] = Idle("acct")]

\* The session of the station, if it has one that is neither failed nor gone.
SessionOf(d) ==
  {i \in ID : sess[i].dev = d
              /\ sess[i].state \in {"authorized", "pgw_pending", "active", "terminating"}}

SetState(i, s) == sess' = [sess EXCEPT ![i].state = s]
-----------------------------------------------------------------------------
(* The packet servers. *)

\* A handler that starts at label l, or answers at once.
Begin(g, v, l, d) ==
  work' = [work EXCEPT ![g] = [Idle(v) EXCEPT !.pc = l, !.dev = d]]
Respond(g, v, o) ==
  work' = [work EXCEPT ![g] = [Idle(v) EXCEPT !.pc = "reply", !.out = o]]

\* handle up to ExchangeEAP: nothing is sent to a source that is not allowed, and
\* a packet that is no Access-Request or has no EAP-Message is rejected.
handle(g, k, d) ==
  \/ k = "foreign" /\ UNCHANGED work
  \/ k = "malformed" /\ Respond(g, "auth", "reject")
  \/ k = "access" /\ Begin(g, "auth", "exchange", d)

\* handleAccounting up to the attach or detach that HandleAccounting makes.  A
\* Start without a session recovers the station from the cache, when it is in it
\* and the limiter lets it; a Stop detaches it.  The Disconnect-Request that
\* answers a Start without authorization is left out: it ends with the context of
\* the handler and changes no state.
handleAccounting(g, k, d) ==
  \/ k \in {"start", "update"} /\ Respond(g, "acct", "response")
  \/ k = "start" /\ SessionOf(d) = {} /\ d \in cached /\ Begin(g, "acct", "attach", d)
  \/ k = "stop" /\ SessionOf(d) = {} /\ Respond(g, "acct", "response")
  \/ /\ k = "stop"
     /\ \E i \in SessionOf(d) :
          IF sess[i].state = "terminating" THEN Respond(g, "acct", "response")
          ELSE work' = [work EXCEPT ![g] = [Idle("acct") EXCEPT !.pc = "detach",
                                                                !.dev = d, !.id = i]]

\* External (layeh.com/radius): a listening server starts a goroutine for a
\* packet.  A retransmission is dropped while the first one is handled, and like
\* a new packet afterwards.
receive(g) ==
  /\ At(g, "idle") /\ packets < MaxPacket
  /\ packets' = packets + 1
  /\ \E k \in Kind, d \in Station :
       /\ ServerOf(k) \in open
       /\ handle(g, k, d) \/ handleAccounting(g, k, d)
  /\ UNCHANGED <<open, sta, gtpc, sess, cached, lock, pgw>>

\* Mutant: the context of an Access-Request has no deadline.
expire_Accounting(g) ==
  /\ work[g].pc \notin {"idle", "reply"} /\ ~work[g].ctxDone /\ work[g].srv = "acct"
  /\ work' = [work EXCEPT ![g].ctxDone = TRUE]
  /\ UNCHANGED <<packets, open, sta, gtpc, sess, cached, lock, pgw>>

\* The 45 s of an Access-Request or the 15 s of an Accounting-Request have passed.
expire(g) ==
  /\ work[g].pc \notin {"idle", "reply"} /\ ~work[g].ctxDone
  /\ work' = [work EXCEPT ![g].ctxDone = TRUE]
  /\ UNCHANGED <<packets, open, sta, gtpc, sess, cached, lock, pgw>>

\* The response is written, if its socket is still open.  (An Access-Accept whose
\* attributes cannot be encoded becomes an Access-Reject here.)
reply(g) ==
  /\ At(g, "reply")
  /\ Return(g)
  /\ UNCHANGED <<packets, open, sta, gtpc, sess, cached, lock, pgw>>
-----------------------------------------------------------------------------
(* The EAP exchange. *)

\* Mutant: an EAP-Success is taken for permission whatever the Result-Code is.
eapExchangeResult_AnyCode(a) ==
  [state |-> CASE a.eap = "request" -> "challenge"
               [] a.eap = "success" \/ (a.eap = "absent" /\ a.success) -> "success"
               [] OTHER -> "failure",
   allowed |-> a.eap = "success" \/ (a.eap = "absent" /\ a.success)]

\* What the STa client makes of a DEA.
eapExchangeResult(a) ==
  [state |-> CASE a.eap = "request" -> "challenge"
               [] a.eap = "success" \/ (a.eap = "absent" /\ a.success) -> "success"
               [] OTHER -> "failure",
   allowed |-> a.eap \in {"success", "absent"} /\ a.success]

\* STaProvider.ExchangeEAP returns ErrRejected.
providerRejects(r) == r.state = "failure" \/ (~r.allowed /\ r.state # "challenge")

\* Service.ExchangeEAP: a challenge is passed on, then errors are, and only a
\* success that is allowed leads to AttachAuthorized.
exchangeOutcome(r) ==
  CASE r.state = "challenge" -> "challenge"
    [] providerRejects(r) \/ r.state # "success" \/ ~r.allowed -> "reject"
    [] OTHER -> "attach"

\* The AAA answers.
ExchangeEAP(g) ==
  /\ At(g, "exchange") /\ sta /\ ~work[g].ctxDone
  /\ \E a \in Answer :
       LET o == exchangeOutcome(eapExchangeResult(a))
       IN IF o = "attach"
          THEN work' = [work EXCEPT ![g].pc = "attach", ![g].granted = Granted(a)]
          ELSE Reply(g, o)
  /\ UNCHANGED <<packets, open, sta, gtpc, sess, cached, lock, pgw>>

\* The call returns an error: no connection, a connection that was lost, or the
\* end of the context.
exchangeFails(g) ==
  /\ At(g, "exchange")
  /\ Reply(g, "reject")
  /\ UNCHANGED <<packets, open, sta, gtpc, sess, cached, lock, pgw>>
-----------------------------------------------------------------------------
(* AttachAuthorized. *)

lockSubscriber(w) ==
  LET d == work[w].dev
  IN /\ work[w].pc \in {"attach", "detach"} /\ lock[d] = None
     /\ lock' = [lock EXCEPT ![d] = w]
     /\ Goto(w, IF At(w, "attach") THEN "find" ELSE "recheck")
     /\ UNCHANGED <<packets, open, sta, gtpc, sess, cached, pgw>>

\* What follows a call that failed or ended: Main goes on with the next session,
\* and an Accounting-Request is answered whatever came of it.
After(w, failed) ==
  IF w = Main
  THEN work' = [work EXCEPT ![w].pc = "next",
                            ![w].out = IF failed THEN "error" ELSE @]
  ELSE Reply(w, IF work[w].srv = "acct" THEN "response"
                ELSE IF failed THEN "reject" ELSE "accept")

\* The timer, or the end of the context.
lockTimeout(w) ==
  /\ work[w].pc \in {"attach", "detach"}
  /\ lock[work[w].dev] # None \/ work[w].ctxDone
  /\ After(w, TRUE)
  /\ UNCHANGED <<packets, open, sta, gtpc, sess, cached, lock, pgw>>

Unlock(w) == lock' = [lock EXCEPT ![work[w].dev] = None]

\* An active session is reused; otherwise one is created and authorized.
findAttachExisting(g) ==
  LET d == work[g].dev
  IN /\ At(g, "find")
     /\ \/ SessionOf(d) # {} /\ After(g, FALSE) /\ Unlock(g) /\ UNCHANGED sess
        \/ /\ SessionOf(d) = {}
           /\ \E new \in ID :
                /\ sess[new].state = "unused"
                /\ \A j \in 1..(new - 1) : sess[j].state # "unused"
                /\ sess' = [sess EXCEPT ![new] = [dev |-> d, state |-> "authorized"]]
                /\ work' = [work EXCEPT ![g].pc = "pending", ![g].id = new]
           /\ UNCHANGED lock
     /\ UNCHANGED <<packets, open, sta, gtpc, cached, pgw>>

markPGWPending(g) ==
  /\ At(g, "pending")
  /\ SetState(work[g].id, "pgw_pending")
  /\ Goto(g, "create")
  /\ UNCHANGED <<packets, open, sta, gtpc, cached, lock, pgw>>

\* External: the PGW accepts, in place of a context the station already has;
\* its answer arrives, at once or never.
pgwAccepts(g) ==
  LET i == work[g].id
  IN /\ At(g, "create") /\ gtpc
     /\ pgw' = {j \in pgw : sess[j].dev # work[g].dev} \cup {i}
     /\ \/ ~work[g].ctxDone /\ Goto(g, "activate")
        \/ i \notin pgw /\ UNCHANGED work
     /\ UNCHANGED <<packets, open, sta, gtpc, sess, cached, lock>>

\* pgw.CreateSession returns an error: the PGW refuses, the context ends, the
\* client is closed.  Nothing is deleted at the PGW.
createFails(g) ==
  /\ At(g, "create")
  /\ work[g].ctxDone \/ ~gtpc \/ work[g].id \notin pgw
  /\ SetState(work[g].id, "failed")
  /\ Unlock(g) /\ After(g, TRUE)
  /\ UNCHANGED <<packets, open, sta, gtpc, cached, pgw>>

\* The kernel's state is installed and the authentication cached.  When an
\* installation fails the context is deleted again, the error of which is
\* ignored.
activate(g) ==
  LET i == work[g].id
  IN /\ At(g, "activate")
     /\ \/ /\ ~work[g].ctxDone
           /\ SetState(i, "active")
           /\ cached' = cached \cup {work[g].dev}
           /\ After(g, FALSE)
           /\ UNCHANGED pgw
        \/ /\ SetState(i, "failed")
           /\ After(g, TRUE)
           /\ IF work[g].ctxDone THEN UNCHANGED pgw ELSE pgw' \in {pgw, pgw \ {i}}
           /\ UNCHANGED cached
     /\ Unlock(g)
     /\ UNCHANGED <<packets, open, sta, gtpc>>
-----------------------------------------------------------------------------
(* detachSessionLocked, for an Accounting-Stop and for Shutdown. *)

\* Both look at the session again once they have the lock: it may have failed or
\* gone since, which for Shutdown is an error.
markTerminating(w) ==
  LET i == work[w].id
  IN /\ At(w, "recheck")
     /\ \/ /\ sess[i].state \in {"authorized", "pgw_pending", "active"}
           /\ SetState(i, "terminating") /\ Goto(w, "delete")
           /\ UNCHANGED lock
        \/ /\ sess[i].state \in {"terminated", "failed"}
           /\ Unlock(w) /\ After(w, TRUE)
           /\ UNCHANGED sess
     /\ UNCHANGED <<packets, open, sta, gtpc, cached, pgw>>

\* Mutant: the error of the PGW is only logged.
deleteSession_Ignored(w) ==
  LET i == work[w].id
  IN /\ At(w, "delete")
     /\ pgw' \in {pgw, pgw \ {i}}
     /\ SetState(i, "terminated") /\ Unlock(w) /\ After(w, FALSE)
     /\ UNCHANGED <<packets, open, sta, gtpc, cached>>

\* pgw.DeleteSession returns: the PGW has deleted the context; or it refuses, the
\* context of the caller ends or the client is closed, and the detach goes on and
\* returns the error.  (When the context had ended before, no request is sent,
\* which is no error, but the calls on the kernel that follow return one.)
deleteSession(w) ==
  LET i == work[w].id
  IN /\ At(w, "delete")
     /\ \/ ~work[w].ctxDone /\ gtpc /\ pgw' = pgw \ {i} /\ After(w, FALSE)
        \/ UNCHANGED pgw /\ After(w, TRUE)
     /\ SetState(i, "terminated") /\ Unlock(w)
     /\ UNCHANGED <<packets, open, sta, gtpc, cached>>

\* External: the PGW deletes the context and its answer is lost.
pgwDeletes(w) ==
  /\ At(w, "delete") /\ gtpc /\ work[w].id \in pgw
  /\ pgw' = pgw \ {work[w].id}
  /\ UNCHANGED <<work, packets, open, sta, gtpc, sess, cached, lock>>

shutdownShouldDetach(s) == s \in {"pgw_pending", "active"}

\* Shutdown lists the sessions once.
listSessions ==
  /\ At(Main, "list")
  /\ work' = [work EXCEPT ![Main].pc = "next",
                          ![Main].todo = {i \in ID : shutdownShouldDetach(sess[i].state)}]
  /\ UNCHANGED <<packets, open, sta, gtpc, sess, cached, lock, pgw>>

\* Detach of the next one; one that is gone is an error.
detachNext ==
  /\ At(Main, "next")
  /\ \E i \in work[Main].todo :
       LET rest == work[Main].todo \ {i}
       IN IF sess[i].state = "terminated"
          THEN work' = [work EXCEPT ![Main].todo = rest, ![Main].out = "error"]
          ELSE work' = [work EXCEPT ![Main].todo = rest, ![Main].pc = "detach",
                                    ![Main].id = i, ![Main].dev = sess[i].dev]
  /\ UNCHANGED <<packets, open, sta, gtpc, sess, cached, lock, pgw>>
-----------------------------------------------------------------------------
\* What a worker does by itself.
HandlerStep(g) == reply(g) \/ findAttachExisting(g) \/ markPGWPending(g) \/ activate(g)

WorkerStep(w) == lockSubscriber(w) \/ lockTimeout(w) \/ markTerminating(w)

\* What it waits for: the AAA and the PGW.
Awaits(g) == ExchangeEAP(g) \/ exchangeFails(g) \/ createFails(g)
=============================================================================
