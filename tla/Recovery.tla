------------------------------ MODULE Recovery ------------------------------
(***************************************************************************)
(* The recovery of a lost session: a GTP-U error, a delete from the PGW or *)
(* a disconnect from the AAA leaves a tombstone, the access point is told  *)
(* to disconnect the client (RADIUS dynamic authorization), the session is *)
(* torn down, and the next attach of the client, by EAP or by a DHCP       *)
(* Discover that finds the tombstone, completes the recovery.              *)
(*                                                                         *)
(* A client is a MAC with the IMSI of its SIM: one subscriber may have     *)
(* several devices, and they share the tombstone index by IMSI.  The one   *)
(* APN is left out, and so are the indexes by address and by TEID, which   *)
(* nothing reads.  A tombstone is named by its OldSessionID: a second one  *)
(* of the same session takes every index entry of the first.  Attach and   *)
(* detach are one step each here; their parts are module Lifecycle.  The   *)
(* configuration is the normalised one: fallback_to_recovery_tombstone is  *)
(* always set.                                                             *)
(***************************************************************************)
EXTENDS Naturals, FiniteSets

CONSTANTS MAC, IMSI, None,
          Client,       \* the devices with their SIM, a set of <<mac, imsi>>
          Proc,         \* the goroutines of the lifecycle service
          Window,       \* recovery.recovery_window_seconds
          TTL,          \* Session-Timeout of an Access-Accept
          WaitForStop,  \* radius_disconnect.wait_for_accounting_stop
          Disconnect,   \* radius_disconnect.enabled
          MaxSessions,  \* bound on the sessions
          MaxTime       \* bound on the clock

ASSUME RecoveryAssumption ==
  /\ Client \subseteq MAC \X IMSI
  /\ \A c, d \in Client : c[1] = d[1] => c = d
  /\ {Window, TTL, MaxSessions, MaxTime} \subseteq Nat
  /\ {WaitForStop, Disconnect} \subseteq BOOLEAN
  /\ None \notin MAC \cup IMSI \cup Nat \cup Client \cup Proc

OrNone(S) == S \cup {None}
SessionID == 1..MaxSessions

RecoveryState == {"required", "disconnecting", "waiting_accounting_stop",
                  "waiting_reauth", "fallback"}

Tombstone == [state: RecoveryState, exp: Nat]

ASSUME TombstoneAssumption == None \notin Tombstone

Tombstones == [of: [SessionID -> OrNone(Tombstone)],
               mac: [MAC -> OrNone(SessionID)], imsi: [IMSI -> OrNone(SessionID)]]

VARIABLES
  now,    \* the clock
  next,   \* the session created last
  sess,   \* the sessions: client, state, ExpiresAt
  rec,    \* the tombstones: of the state and expiry of the one of a session,
          \*   mac and imsi (recoveryByMAC, recoveryByIMSI) its OldSessionID
  lock,   \* the owner of a subscriber's lock
  job,    \* the goroutines
  timer   \* how many waitForAccountingStopTimeout of a session are running

rVars == <<now, next, sess, rec, lock, job, timer>>

Label == {"idle", "lock", "recheck", "mark", "tombstone", "disconnect",
          "exchange", "detach", "stop", "find", "activate",
          "complete"}

\* The events.  The handlers of a delete by the PGW and of a disconnect by the
\* AAA take no lock and are not told apart once they have started.
Handler == {"gtpu_error", "unlocked", "acct_stop", "attach"}

\* kind is the event, id the session, c the client, found whether the attach
\* found a tombstone.
Job == [pc: Label, kind: Handler, id: OrNone(SessionID), c: OrNone(Client),
        found: BOOLEAN]

Fresh == [pc |-> "idle", kind |-> "attach", id |-> None, c |-> None,
          found |-> FALSE]

RTypeOK ==
  /\ now \in Nat /\ next \in 0..MaxSessions
  /\ sess \in [SessionID -> [c: OrNone(Client), exp: Nat,
                             st: {"unused", "active", "recovering", "gone"}]]
  /\ rec \in Tombstones
  /\ lock \in [IMSI -> OrNone(Proc)]
  /\ job \in [Proc -> Job]
  /\ timer \in [SessionID -> Nat]

RInit ==
  /\ now = 0 /\ next = 0
  /\ sess = [i \in SessionID |-> [c |-> None, exp |-> 0, st |-> "unused"]]
  /\ rec = [of |-> [i \in SessionID |-> None],
            mac |-> [m \in MAC |-> None], imsi |-> [s \in IMSI |-> None]]
  /\ lock = [s \in IMSI |-> None]
  /\ job = [p \in Proc |-> Fresh]
  /\ timer = [i \in SessionID |-> 0]

-----------------------------------------------------------------------------
(* The tombstones of session.Manager. *)

MacOf(i) == sess[i].c[1]
ImsiOf(i) == sess[i].c[2]
Stored(c) == {i \in SessionID : sess[i].c = c /\ sess[i].st \in {"active", "recovering"}}
ActiveOf(c) == {i \in Stored(c) : sess[i].st = "active"}

indexRecovery(r, i, t) ==
  [r EXCEPT !.of[i] = t, !.mac[MacOf(i)] = i, !.imsi[ImsiOf(i)] = i]

\* Deletes the entries of the keys whichever tombstone they name.
unindexRecovery(r, i) ==
  [r EXCEPT !.of[i] = None, !.mac[MacOf(i)] = None, !.imsi[ImsiOf(i)] = None]

recoveryExpired(i) == i # None /\ now > rec.of[i].exp

\* What a lookup that comes upon tombstone i leaves, and what it returns.
Looked(i) == IF recoveryExpired(i) THEN unindexRecovery(rec, i) ELSE rec
Found(i) == i # None /\ ~recoveryExpired(i)

Indexed(i) == (\E m \in MAC : rec.mac[m] = i) \/ (\E s \in IMSI : rec.imsi[s] = i)

\* What the callers of UpdateRecovery do with the state.
To(st) == [x \in RecoveryState |-> st]
After(st, new) == [x \in RecoveryState |-> IF x = st THEN new ELSE x]

\* Mutant: indexRecoveryLocked is not called after the change.
UpdateRecovery_NotReindexed(i, new) ==
  rec' = IF ~Indexed(i) THEN rec ELSE
         IF recoveryExpired(i) THEN unindexRecovery(rec, i) ELSE
         LET t == rec.of[i]
         IN [unindexRecovery(rec, i) EXCEPT !.of[i] = [t EXCEPT !.state = new[t.state]]]

\* A tombstone nobody can find is not updated; an expired one is dropped.
UpdateRecovery(i, new) ==
  rec' = IF ~Indexed(i) THEN rec ELSE
         IF recoveryExpired(i) THEN unindexRecovery(rec, i) ELSE
         LET t == rec.of[i]
         IN indexRecovery(unindexRecovery(rec, i), i, [t EXCEPT !.state = new[t.state]])

\* FindRecovery and CompleteRecoveryFor look by MAC, then by IMSI.
FindRecovery(c) == IF rec.mac[c[1]] # None THEN rec.mac[c[1]] ELSE rec.imsi[c[2]]

\* Mutant: the entry by IMSI is kept.
CompleteRecoveryFor_MACOnly(c) ==
  LET i == FindRecovery(c)
  IN IF i = None THEN rec ELSE [rec EXCEPT !.mac[MacOf(i)] = None]

\* What completing the recovery of client c leaves; an expired one goes too.
CompleteRecoveryFor(c) ==
  LET i == FindRecovery(c)
  IN IF i = None THEN rec ELSE unindexRecovery(rec, i)

-----------------------------------------------------------------------------
(* The handlers of the lifecycle service.  Goroutine p is at a label. *)

At(p, l) == job[p].pc = l
Goto(p, l) == job' = [job EXCEPT ![p].pc = l]
Imsi(p) == job[p].c[2]

\* An event arrives.  The session it is about is looked up at once; a GTP-U
\* error and a delete by the PGW, which marks the session recovering, only
\* concern an active one.  A disconnect by the AAA leaves its state alone.
Begin(p, kind, l, i, c) ==
  job' = [job EXCEPT ![p] = [Fresh EXCEPT !.pc = l, !.kind = kind, !.id = i, !.c = c]]

Start(p) ==
  /\ At(p, "idle")
  /\ \/ \E c \in Client : Begin(p, "attach", "lock", None, c)
     \/ \E c \in Client : \E i \in ActiveOf(c) :
          \/ Begin(p, "gtpu_error", "lock", i, c)
          \/ Begin(p, "unlocked", "mark", i, c)
     \/ \E c \in Client : \E i \in Stored(c) :
          \/ Begin(p, "unlocked", "tombstone", i, c)
          \/ Begin(p, "acct_stop", "stop", i, c)
  /\ UNCHANGED <<now, next, sess, rec, lock, timer>>

lockSubscriber(p) ==
  /\ At(p, "lock") /\ lock[Imsi(p)] = None
  /\ lock' = [lock EXCEPT ![Imsi(p)] = p]
  /\ Goto(p, IF job[p].kind = "attach" THEN "find" ELSE "recheck")
  /\ UNCHANGED <<now, next, sess, rec, timer>>

\* The wait for the lock is bounded.
lockTimeout(p) ==
  /\ At(p, "lock") /\ lock[Imsi(p)] # None
  /\ job' = [job EXCEPT ![p] = Fresh]
  /\ UNCHANGED <<now, next, sess, rec, lock, timer>>

\* The deferred release of the lock, if the handler has it, as it returns.
unlock(p) == lock' = [s \in IMSI |-> IF lock[s] = p THEN None ELSE lock[s]]
Leave(p) == unlock(p) /\ job' = [job EXCEPT ![p] = Fresh]
Continue(p, l) == Goto(p, l) /\ UNCHANGED lock

\* Mutant: the session looked up before the lock is used.
recheck_Skipped(p) ==
  /\ At(p, "recheck")
  /\ Goto(p, IF job[p].kind = "gtpu_error" THEN "mark" ELSE "detach")
  /\ UNCHANGED <<now, next, sess, rec, lock, timer>>

\* With the lock the session is read again: a GTP-U error goes on with an
\* active one, an Accounting-Stop with one that is not yet torn down.
recheck(p) ==
  LET st == sess[job[p].id].st
  IN /\ At(p, "recheck")
     /\ CASE job[p].kind = "gtpu_error" /\ st = "active" -> Continue(p, "mark")
          [] job[p].kind = "acct_stop" /\ st \in {"active", "recovering"} -> Continue(p, "detach")
          [] OTHER -> Leave(p)
     /\ UNCHANGED <<now, next, sess, rec, timer>>

\* The error of MarkRecovering is ignored.
markRecovering(p) ==
  LET i == job[p].id
  IN /\ At(p, "mark")
     /\ sess' = IF sess[i].st = "active" THEN [sess EXCEPT ![i].st = "recovering"] ELSE sess
     /\ Goto(p, "tombstone")
     /\ UNCHANGED <<now, next, rec, lock, timer>>

\* The window, or what is left of the session when that is more.
recoveryTombstoneTTL(i) ==
  IF sess[i].exp > now + Window THEN sess[i].exp - now ELSE Window

\* From the handler's copy: the session may be gone already.
AddRecoveryTombstone(p) ==
  LET i == job[p].id
      ttl == recoveryTombstoneTTL(i)
  IN /\ At(p, "tombstone")
     /\ IF ttl > 0
        THEN /\ rec' = indexRecovery(rec, i, [state |-> "required", exp |-> now + ttl])
             /\ Goto(p, "disconnect")
        ELSE rec' = rec /\ Goto(p, "detach")
     /\ UNCHANGED <<now, next, sess, lock, timer>>

\* attemptDynamicAuthorization up to the request.
attemptDynamicAuthorization(p) ==
  /\ At(p, "disconnect")
  /\ UpdateRecovery(job[p].id, To(IF Disconnect THEN "disconnecting" ELSE "fallback"))
  /\ Goto(p, IF Disconnect THEN "exchange" ELSE "detach")
  /\ UNCHANGED <<now, next, sess, lock, timer>>

\* The access point refuses, or answers none of the attempts; without an
\* address of it there is nothing to ask.
setRecoveryFallback(p) ==
  /\ At(p, "exchange")
  /\ UpdateRecovery(job[p].id, To("fallback"))
  /\ Goto(p, "detach")
  /\ UNCHANGED <<now, next, sess, lock, timer>>

\* It acknowledges.  The timer is started whether or not the tombstone was still there.
acceptDynamicAuthorization(p) ==
  LET i == job[p].id
  IN /\ At(p, "exchange")
     /\ UpdateRecovery(i, To(IF WaitForStop THEN "waiting_accounting_stop"
                                           ELSE "waiting_reauth"))
     /\ timer' = IF WaitForStop THEN [timer EXCEPT ![i] = @ + 1] ELSE timer
     /\ Goto(p, "detach")
     /\ UNCHANGED <<now, next, sess, lock>>

\* Mutant: an exchange without an answer is not treated as a failure.
DisconnectOrCoA_TimeoutIgnored(p) ==
  \/ acceptDynamicAuthorization(p) \/ setRecoveryFallback(p)
  \/ /\ At(p, "exchange") /\ Goto(p, "detach")
     /\ UNCHANGED <<now, next, sess, rec, lock, timer>>

\* The end of the exchange with the access point and what its caller does then.
DisconnectOrCoA(p) == acceptDynamicAuthorization(p) \/ setRecoveryFallback(p)

waitForAccountingStopTimeout(i) ==
  /\ timer[i] > 0
  /\ timer' = [timer EXCEPT ![i] = @ - 1]
  /\ UpdateRecovery(i, After("waiting_accounting_stop", "fallback"))
  /\ UNCHANGED <<now, next, sess, lock, job>>

\* An Accounting-Stop for a session that is still stored.
accountingStop(p) ==
  LET i == job[p].id
  IN /\ At(p, "stop")
     /\ UpdateRecovery(i, After("waiting_accounting_stop", "waiting_reauth"))
     /\ Goto(p, "lock")
     /\ UNCHANGED <<now, next, sess, lock, timer>>

detachSession(p) ==
  /\ At(p, "detach")
  /\ sess' = [sess EXCEPT ![job[p].id].st = "gone"]
  /\ Leave(p)
  /\ UNCHANGED <<now, next, rec, timer>>

-----------------------------------------------------------------------------
(* AttachAuthorized, with what it does about a tombstone. *)

logRecoveryAttachIfPresent(p) ==
  LET i == FindRecovery(job[p].c)
  IN /\ At(p, "find")
     /\ rec' = Looked(i)
     /\ job' = [job EXCEPT ![p].pc = "activate", ![p].found = Found(i)]
     /\ UNCHANGED <<now, next, sess, lock, timer>>

\* The session of the client is reused, or replaced by a new one, or the
\* attach fails, before or after it has torn down the old one.
activateAuthorizedSession(p) ==
  LET c == job[p].c
      cleared == [i \in SessionID |-> IF i \in Stored(c) THEN [sess[i] EXCEPT !.st = "gone"]
                                                        ELSE sess[i]]
  IN /\ At(p, "activate")
     /\ \/ \E i \in ActiveOf(c) :
             /\ job' = [job EXCEPT ![p].pc = "complete", ![p].id = i]
             /\ UNCHANGED <<sess, next, lock>>
        \/ /\ next < MaxSessions
           /\ next' = next + 1
           /\ sess' = [cleared EXCEPT ![next'] = [c |-> c, exp |-> now + TTL, st |-> "active"]]
           /\ job' = [job EXCEPT ![p].pc = "complete", ![p].id = next']
           /\ UNCHANGED lock
        \/ sess' \in {sess, cleared} /\ Leave(p) /\ UNCHANGED next
     /\ UNCHANGED <<now, rec, timer>>

\* Completes the recovery if the attach found one and its session is still
\* stored.
completeRecovery(p) ==
  /\ At(p, "complete")
  /\ rec' = IF job[p].found /\ job[p].id \in Stored(job[p].c)
            THEN CompleteRecoveryFor(job[p].c) ELSE rec
  /\ Leave(p)
  /\ UNCHANGED <<now, next, sess, timer>>

-----------------------------------------------------------------------------
(* DHCP and ARP.  What they send back is left out, and so is the pause     *)
(* between two reattaches DHCP starts: an attach may begin at any time.    *)

authorizedSession(m) == \E c \in Client : c[1] = m /\ ActiveOf(c) # {}

\* A Discover of a client without an active session, for which a tombstone is
\* found: a new goroutine attaches the client the tombstone names.
dhcpDiscover(m) ==
  LET i == rec.mac[m]
  IN /\ ~authorizedSession(m)
     /\ Found(i)
     /\ \E p \in Proc : At(p, "idle") /\ Begin(p, "attach", "lock", None, sess[i].c)
     /\ UNCHANGED <<now, next, sess, rec, lock, timer>>

\* Any other DHCP or ARP request of such a client is refused; the lookup of
\* the tombstone drops an expired one.
refuseStale(m) ==
  /\ ~authorizedSession(m)
  /\ rec' = Looked(rec.mac[m])
  /\ UNCHANGED <<now, next, sess, lock, job, timer>>

Tick ==
  /\ now < MaxTime
  /\ now' = now + 1
  /\ UNCHANGED <<next, sess, rec, lock, job, timer>>

Step(p) ==
  \/ lockSubscriber(p) \/ lockTimeout(p) \/ recheck(p)
  \/ markRecovering(p) \/ AddRecoveryTombstone(p) \/ attemptDynamicAuthorization(p)
  \/ DisconnectOrCoA(p)
  \/ accountingStop(p) \/ detachSession(p) \/ logRecoveryAttachIfPresent(p)
  \/ activateAuthorizedSession(p) \/ completeRecovery(p)

RNext ==
  \/ \E p \in Proc : Start(p) \/ Step(p)
  \/ \E i \in SessionID : waitForAccountingStopTimeout(i)
  \/ \E m \in MAC : dhcpDiscover(m) \/ refuseStale(m)
  \/ Tick

RSpec == RInit /\ [][RNext]_rVars

-----------------------------------------------------------------------------
(* Properties. *)

\* The two indexes agree although devices of one subscriber share the entry by
\* IMSI and unindexRecoveryLocked deletes it whichever tombstone it names: an
\* entry names a tombstone with that key, and a tombstone found by IMSI is the
\* one found by its own MAC.
TombstonesIndexed ==
  /\ \A m \in MAC : rec.mac[m] # None => MacOf(rec.mac[m]) = m
  /\ \A s \in IMSI : rec.imsi[s] # None =>
       /\ ImsiOf(rec.imsi[s]) = s
       /\ rec.mac[MacOf(rec.imsi[s])] = rec.imsi[s]

\* A tombstone stays findable by the MAC of its client until it expires, a
\* newer one takes its place, or an attach of the subscriber completes the
\* recovery, whatever the access point answers and whoever else recovers.
TombstoneKept ==
  [][\A m \in MAC : rec.mac[m] # None /\ rec'.mac[m] # rec.mac[m] =>
       \/ recoveryExpired(rec.mac[m])
       \/ rec'.mac[m] # None /\ \E p \in Proc : At(p, "tombstone") /\ job[p].id = rec'.mac[m]
       \/ \E p \in Proc : /\ At(p, "complete") /\ job[p].found
                          /\ Imsi(p) = ImsiOf(rec.mac[m])]_rVars

\* A recovery that was completed or has expired is over: no late answer of the
\* access point, timeout or Accounting-Stop brings its tombstone back, only a
\* handler that has lost the session anew.
NoTombstoneRevived ==
  [][\A m \in MAC : rec'.mac[m] \notin {None, rec.mac[m]} =>
       \E p \in Proc : At(p, "tombstone") /\ job[p].id = rec'.mac[m]]_rVars

\* While a GTP-U error is being handled no Disconnect-Request goes out for a
\* client that is connected again: the subscriber lock, and the second look at
\* the session once it is held, cover the exchange with the access point.
DisconnectSparesRecovered ==
  \A p \in Proc : At(p, "exchange") /\ job[p].kind = "gtpu_error" => ActiveOf(job[p].c) = {}

\* A tombstone that can be found is disconnecting only while a handler is at
\* the exchange with the access point: however handlers of one session overlap,
\* the last one to end leaves it in a state that waits for the client.
DisconnectingHasHandler ==
  \A m \in MAC : LET i == rec.mac[m] IN
    i # None /\ rec.of[i].state = "disconnecting" =>
      \E p \in Proc : job[p].id = i /\ At(p, "exchange")
=============================================================================
