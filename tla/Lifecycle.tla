------------------------------ MODULE Lifecycle ------------------------------
(***************************************************************************)
(* The lifecycle service of internal/lifecycle over the session store: the *)
(* goroutines that attach and tear down sessions, the per-subscriber lock, *)
(* the PGW's contexts and what TWAG installs in the kernel for a session.  *)
(*                                                                         *)
(* A process of Proc is the goroutine that handles one event: an attach    *)
(* (AttachAuthorized, which every EAP success and every recovery goes      *)
(* through), a RADIUS Accounting-Stop, a GTP-U Error Indication, a delete  *)
(* from the PGW, a disconnect from the AAA, or the shutdown.  A step is    *)
(* one call on the store, on the PGW or on the kernel; the code between    *)
(* two such calls works on copies (store methods return clones), which is  *)
(* what c holds.                                                           *)
(*                                                                         *)
(* The configuration modelled is the production one (pgw type gtp, no      *)
(* ipam, post-activation validation with trigger_recovery) with            *)
(* recovery.enabled and auth_cache.enabled false: the calls those add touch*)
(* the tombstones and the authentication cache only.                       *)
(***************************************************************************)
EXTENDS SessionManager

CONSTANTS
  Proc,             \* the goroutines
  Setups,           \* what may be configured, happen and fail: see Setup
  ReuseIP           \* the PGW may hand out an address it has just released

\* What may go wrong: the PGW rejects a request, its answer is lost, or carries
\* no address; an installation in the kernel fails; a deadline passes.
FaultKind == {"reject_create", "reject_delete", "lost_create", "lost_delete",
              "no_paa", "route", "user", "access", "expire"}

Event == [kind: {"attach", "acct_stop", "gtpu_error", "pgw_delete",
                 "aaa_disconnect", "shutdown"},
          imsi: OrNone(IMSI), mac: OrNone(MAC), apn: OrNone(APN),
          teid: OrNone(TEID)]

\* The events each goroutine may be started for, the calls that may fail, and
\* whether lifecycle.duplicate_attach_policy is replace_existing.
Setup == [events: [Proc -> SUBSET Event], faults: SUBSET FaultKind, replace: BOOLEAN]

\* A delete from the PGW carries a TEID and a disconnect from the AAA an IMSI.
ASSUME SetupsAssumption ==
  /\ Setups \subseteq Setup
  /\ ReuseIP \in BOOLEAN
  /\ None \notin Proc
  /\ \A s \in Setups : \A p \in Proc : \A e \in s.events[p] :
       /\ e.kind = "pgw_delete" => e.teid # None
       /\ e.kind = "aaa_disconnect" => e.imsi # None

VARIABLES
  job,    \* job[p]: program counter and locals of goroutine p
  lock,   \* the owner of each subscriber lock, None when free
  ctx,    \* the contexts at the PGW
  route,  \* the addresses with a route to the access side,
  rule,   \*   with a route or rule into the GTP device,
  pdp,    \*   per address the session whose PDP context the kernel holds
  neigh,  \*   and the MAC of the permanent neighbour entry
  setup   \* the setup, which never changes

envVars == <<ctx, route, rule, pdp, neigh, setup>>
vars == <<mgrVars, job, lock, envVars>>

\* imsi||apn, or |mac|apn for a subscriber whose IMSI is unknown.
subscriberLockKey(imsi, mac, apn) ==
  IF imsi # None THEN <<imsi, None, apn>> ELSE <<None, mac, apn>>

LockKey == {subscriberLockKey(i, m, a) :
              i \in OrNone(IMSI), m \in OrNone(MAC), a \in OrNone(APN)}

ASSUME LockKeyAssumption == None \notin LockKey

KeyOf(s) == subscriberLockKey(s.imsi, s.mac, s.apn)

Blank == [state |-> Terminated, imsi |-> None, mac |-> None, apn |-> None,
          ip |-> None, gtpc |-> None, gtpu |-> None, authorized |-> FALSE,
          gtpuErr |-> FALSE, ttl |-> FALSE]

NoEvent == [kind |-> "shutdown", imsi |-> None, mac |-> None, apn |-> None,
            teid |-> None]

NoBearer == [gtpc |-> None, gtpu |-> None]

Label == {"idle", "lock", "find", "create", "auth_pending", "authorize",
          "pgw_pending", "check_imsi", "check_mac", "pgw_create", "update_ip",
          "apply_pgw", "install", "user_add", "mark_active", "access_add",
          "validate", "undo_user", "undo_route", "undo_pgw", "fail",
          "terminate", "del_pgw", "del_route", "del_user", "del_access",
          "del_session", "unlock", "acct_stop", "acct_recheck", "gtpu_error",
          "gtpu_record", "gtpu_recheck", "mark_recovering", "pgw_delete",
          "aaa_disconnect", "shutdown", "next", "hung", "done"}

Job == [pc: Label, ev: Event, id: Nat, c: Session, key: OrNone(LockKey),
        then: Label, err: BOOLEAN, out: {"none", "accept", "blocked", "error"},
        ip: OrNone(IP), bearer: PGWBearer, expired: BOOLEAN, todo: SUBSET Nat]

Context == [sub: OrNone(IMSI) \X OrNone(APN), teid: TEID, ip: OrNone(IP)]

\* pc and id aside, the locals of a goroutine: ev its event, c its copy of the
\* session, key the lock it holds or waits for, then where it goes once it has
\* the lock or the detach is over, err whether the detach failed, out what the
\* attach returned, ip and bearer the answer of the PGW, expired whether the
\* deadline of its context passed, todo what Shutdown has left.
Fresh == [pc |-> "idle", ev |-> NoEvent, id |-> NoSession, c |-> Blank,
          key |-> None, then |-> "done", err |-> FALSE, out |-> "none",
          ip |-> None, bearer |-> NoBearer, expired |-> FALSE, todo |-> {}]

LcInit ==
  /\ MgrInit
  /\ job = [p \in Proc |-> Fresh]
  /\ lock = [k \in LockKey |-> None]
  /\ ctx = {} /\ route = {} /\ rule = {}
  /\ pdp = [a \in IP |-> NoSession]
  /\ neigh = [a \in IP |-> None]
  /\ setup \in Setups

LcTypeOK ==
  /\ MgrTypeOK
  /\ job \in [Proc -> Job]
  /\ lock \in [LockKey -> OrNone(Proc)]
  /\ ctx \subseteq Context
  /\ route \subseteq IP /\ rule \subseteq IP
  /\ pdp \in [IP -> 0..next]
  /\ neigh \in [IP -> OrNone(MAC)]
  /\ setup \in Setups

At(p, l) == job[p].pc = l

Goto(p, l) == job' = [job EXCEPT ![p].pc = l]

\* The handler returns; its locals are gone.
Return(p, out) ==
  job' = [job EXCEPT ![p] = [Fresh EXCEPT !.pc = "done", !.ev = job[p].ev, !.out = out]]

\* The end of one Detach: Shutdown goes on with the next session.
LeaveLock(p, out) ==
  IF job[p].ev.kind = "shutdown"
  THEN job' = [job EXCEPT ![p] = [Fresh EXCEPT !.pc = "next", !.ev = job[p].ev,
                                               !.expired = job[p].expired,
                                               !.todo = job[p].todo]]
  ELSE Return(p, out)

\* The call returned the copy new of the session.
GotoWith(p, l, new) == job' = [job EXCEPT ![p].pc = l, ![p].c = new]

\* The handler returns an error.
Fail(p) == job' = [job EXCEPT ![p].pc = "unlock", ![p].err = TRUE, ![p].out = "error"]

\* A transition of the session p works on: on success p goes to ok with the
\* new copy, on an error to the handling of bad.
Transition(p, to, ok, bad) ==
  /\ \/ /\ Mark(job[p].id, to)
        /\ GotoWith(p, ok, sess'[job[p].id])
     \/ /\ ~CanTransition(job[p].id, to)
        /\ bad
        /\ UNCHANGED mgrVars
  /\ UNCHANGED <<lock, envVars>>

-----------------------------------------------------------------------------
(* The subscriber lock. *)

\* Wait for the lock of session s, then go to l.
AwaitLock(p, s, i, l) ==
  job' = [job EXCEPT ![p].pc = "lock", ![p].key = KeyOf(s), ![p].then = l,
                     ![p].c = s, ![p].id = i]

lockSubscriber(p) ==
  /\ At(p, "lock") /\ lock[job[p].key] = None
  /\ lock' = [lock EXCEPT ![job[p].key] = p]
  /\ Goto(p, job[p].then)
  /\ UNCHANGED <<mgrVars, envVars>>

\* The timer or the caller's context ends the wait.
lockTimeout(p) ==
  /\ At(p, "lock")
  /\ lock[job[p].key] # None \/ job[p].expired
  /\ LeaveLock(p, "error")
  /\ UNCHANGED <<mgrVars, lock, envVars>>

\* Mutant: the lock is only released when the handler succeeds.
unlock_OnSuccess(p) ==
  /\ At(p, "unlock")
  /\ lock' = IF job[p].key = None \/ job[p].out = "error" THEN lock
             ELSE [lock EXCEPT ![job[p].key] = None]
  /\ LeaveLock(p, job[p].out)
  /\ UNCHANGED <<mgrVars, envVars>>

\* The deferred unlock, and the return of the handler.
unlock(p) ==
  /\ At(p, "unlock")
  /\ lock' = IF job[p].key = None THEN lock ELSE [lock EXCEPT ![job[p].key] = None]
  /\ LeaveLock(p, job[p].out)
  /\ UNCHANGED <<mgrVars, envVars>>

-----------------------------------------------------------------------------
(* AttachAuthorized. *)

shouldReplaceExisting(s, apn) ==
  \/ setup.replace
  \/ s.state # Active
  \/ s.ip = None
  \/ s.gtpuErr
  \/ apn # None /\ s.apn # None /\ apn # s.apn

\* findAttachExisting and handleExistingBeforeAttach.  The table is scanned in
\* a random order and the first match decides, even when it is a failed one.
findAttachExisting(p) ==
  LET e == job[p].ev
      M == FindAnyBySubscriber(e.imsi, e.mac, e.apn)
  IN /\ At(p, "find")
     /\ \/ M = {} /\ Goto(p, "create")
        \/ \E i \in M :
             \/ /\ sess[i].state \in {Failed, Terminated}
                /\ Goto(p, "create")
             \/ /\ sess[i].state \notin {Failed, Terminated}
                /\ shouldReplaceExisting(sess[i], e.apn)
                /\ job' = [job EXCEPT ![p].pc = "terminate", ![p].id = i,
                                      ![p].c = sess[i], ![p].then = "create"]
             \/ /\ sess[i].state \notin {Failed, Terminated}
                /\ ~shouldReplaceExisting(sess[i], e.apn)
                /\ job' = [job EXCEPT ![p].pc = "unlock", ![p].id = i,
                                      ![p].c = sess[i], ![p].out = "accept"]
     /\ UNCHANGED <<mgrVars, lock, envVars>>

createSession(p) ==
  LET e == job[p].ev
  IN /\ At(p, "create")
     /\ Create([imsi |-> e.imsi, mac |-> e.mac, apn |-> e.apn, ttl |-> FALSE])
     /\ job' = [job EXCEPT ![p].pc = "auth_pending", ![p].id = next + 1,
                           ![p].c = sess'[next + 1]]
     /\ UNCHANGED <<lock, envVars>>

markAuthPending(p) ==
  At(p, "auth_pending") /\ Transition(p, AuthPending, "authorize", Fail(p))

\* Mutant: the fields of the session are set behind the store's back.
applyAuthResult_Direct(p) ==
  /\ At(p, "authorize")
  /\ sess' = [sess EXCEPT ![job[p].id].state = Authorized, ![job[p].id].authorized = TRUE]
  /\ GotoWith(p, "pgw_pending", sess'[job[p].id])
  /\ UNCHANGED <<next, byID, byIMSI, byMAC, byIP, byTEID, lock, envVars>>

applyAuthResult(p) ==
  /\ At(p, "authorize")
  /\ \/ /\ ApplyAuthResult(job[p].id, job[p].ev.imsi, job[p].ev.apn)
        /\ GotoWith(p, "pgw_pending", sess'[job[p].id])
     \/ /\ ~CanTransition(job[p].id, Authorized)
        /\ Fail(p)
        /\ UNCHANGED mgrVars
  /\ UNCHANGED <<lock, envVars>>

markPGWPending(p) ==
  At(p, "pgw_pending") /\ Transition(p, PGWPending, "check_imsi", Fail(p))

subscriberSame(a, b) ==
  /\ a.imsi = None \/ b.imsi = None \/ a.imsi = b.imsi
  /\ a.mac = None \/ b.mac = None \/ a.mac = b.mac
  /\ a.apn = None \/ b.apn = None \/ a.apn = b.apn
  /\ \/ a.imsi # None /\ a.imsi = b.imsi
     \/ a.mac # None /\ a.mac = b.mac

\* findLiveSessionDifferentFrom: the sessions with the same IMSI and APN are
\* read first, then the ones with the same MAC.
findLiveSession(p, l, candidates, l2) ==
  LET other == {i \in candidates : /\ i # job[p].id
                                   /\ isLivePGWOwner(sess[i].state)
                                   /\ subscriberSame(sess[i], job[p].c)}
  IN /\ At(p, l)
     /\ IF other # {}
        THEN job' = [job EXCEPT ![p].pc = "fail", ![p].out = "blocked"]
        ELSE Goto(p, l2)
     /\ UNCHANGED <<mgrVars, lock, envVars>>

findLiveSessionDifferentFrom(p) ==
  LET c == job[p].c
  IN \/ findLiveSession(p, "check_imsi", FindByIMSIAPN(c.imsi, c.apn), "check_mac")
     \/ findLiveSession(p, "check_mac", FindByMAC(c.mac), "pgw_create")

\* The subscriber's IMSI and APN: what the PGW knows a default bearer by.
Sub(c) == <<c.imsi, c.apn>>

\* The PGW accepts: it replaces a context of the same subscriber, and picks an
\* address and TEIDs that no other context of it has.
PGWAccepts(c, ip, teid) ==
  LET kept == {x \in ctx : x.sub # Sub(c)}
  IN /\ \A x \in kept : x.teid # teid /\ (ip = None \/ x.ip # ip)
     /\ ReuseIP \/ ip = None \/ \A i \in 1..next : sess[i].ip # ip
     /\ ctx' = kept \cup {[sub |-> Sub(c), teid |-> teid, ip |-> ip]}

Answer(teid) == [gtpc |-> teid, gtpu |-> teid]

\* The service is the caller of the store that Input and Bearer stand for.
ASSUME CallerAssumption ==
  /\ \A s \in Setups : \A p \in Proc : \A e \in s.events[p] :
       e.kind = "attach" =>
         [imsi |-> e.imsi, mac |-> e.mac, apn |-> e.apn, ttl |-> FALSE] \in Input
  /\ \A teid \in TEID : Answer(teid) \in Bearer

\* A setup in which the subscriber lock protects a subscriber: every handler that
\* may be started takes it, an attach names its IMSI and APN and both are used
\* from one device.  The PGW answers every request and accepts every delete, and
\* no deadline passes; a create may be refused, and any installation may fail.
Orderly(s) ==
  LET attaches == {e \in UNION {s.events[p] : p \in Proc} : e.kind = "attach"}
  IN /\ \A p \in Proc : \A e \in s.events[p] : e.kind \notin {"pgw_delete", "aaa_disconnect"}
     /\ \A e \in attaches : e.imsi # None /\ e.apn # None
     /\ \A e, f \in attaches : e.imsi = f.imsi /\ e.apn = f.apn => e.mac = f.mac
     /\ s.faults \subseteq {"reject_create", "no_paa", "route", "user", "access"}

\* The contexts with a deadline: RADIUS requests, recoveries and the shutdown.
\* The handlers of the GTP and Diameter sockets run without one.
HasDeadline(p) == job[p].ev.kind \in {"attach", "acct_stop", "shutdown"}

\* Mutant: the request is made with a context that has no deadline.
pgwCreateSession_NoDeadline(p) ==
  /\ At(p, "pgw_create")
  /\ \/ \E ip \in IP, teid \in TEID :
          /\ PGWAccepts(job[p].c, ip, teid)
          /\ job' = [job EXCEPT ![p].pc = "update_ip", ![p].ip = ip,
                                ![p].bearer = Answer(teid)]
     \/ /\ "lost_create" \in setup.faults
        /\ \E ip \in IP, teid \in TEID : PGWAccepts(job[p].c, ip, teid)
        /\ Goto(p, "hung")
  /\ UNCHANGED <<mgrVars, lock, route, rule, pdp, neigh, setup>>

\* pgw.CreateSession: accepted; rejected or not sent; or accepted with the
\* answer lost, which doTransaction notices only when the context expires.
pgwCreateSession(p) ==
  /\ At(p, "pgw_create")
  /\ \/ /\ ~job[p].expired
        /\ \E ip \in IP \cup (IF "no_paa" \in setup.faults THEN {None} ELSE {}), teid \in TEID :
             /\ PGWAccepts(job[p].c, ip, teid)
             /\ job' = [job EXCEPT ![p].pc = "update_ip", ![p].ip = ip,
                                   ![p].bearer = Answer(teid)]
     \/ /\ job[p].expired \/ "reject_create" \in setup.faults
        /\ Goto(p, "fail")
        /\ UNCHANGED ctx
     \/ /\ "lost_create" \in setup.faults /\ ~job[p].expired
        /\ \E ip \in IP, teid \in TEID : PGWAccepts(job[p].c, ip, teid)
        /\ job' = [job EXCEPT ![p].pc = "fail", ![p].expired = TRUE]
  /\ UNCHANGED <<mgrVars, lock, route, rule, pdp, neigh, setup>>

\* An error here returns without deleting the context at the PGW.
updateSubscriberIP(p) ==
  /\ At(p, "update_ip")
  /\ \/ /\ job[p].ip = None
        /\ Goto(p, "apply_pgw")
        /\ UNCHANGED mgrVars
     \/ /\ job[p].ip # None
        /\ UpdateSubscriberIP(job[p].id, job[p].ip)
        /\ GotoWith(p, "apply_pgw", sess'[job[p].id])
     \/ /\ job[p].ip # None /\ job[p].id \notin byID
        /\ Fail(p)
        /\ UNCHANGED mgrVars
  /\ UNCHANGED <<lock, envVars>>

\* Without an address the context is deleted again and the session fails.
applyPGWResult(p) ==
  /\ At(p, "apply_pgw")
  /\ \/ /\ ApplyPGWResult(job[p].id, job[p].bearer)
        /\ GotoWith(p, IF sess'[job[p].id].ip = None THEN "undo_pgw" ELSE "install",
                    sess'[job[p].id])
     \/ /\ job[p].id \notin byID
        /\ Fail(p)
        /\ UNCHANGED mgrVars
  /\ UNCHANGED <<lock, envVars>>

\* routing.Install: RouteReplace of the host route of the address.
routingInstall(p) ==
  /\ At(p, "install")
  /\ \/ /\ route' = route \cup {job[p].c.ip}
        /\ Goto(p, "user_add")
     \/ /\ "route" \in setup.faults
        /\ Goto(p, "undo_pgw")
        /\ UNCHANGED route
  /\ UNCHANGED <<mgrVars, lock, ctx, rule, pdp, neigh, setup>>

\* user.AddSession: a PDP context that the address already has is tolerated.
userAddSession(p) ==
  LET a == job[p].c.ip
  IN /\ At(p, "user_add")
     /\ \/ /\ ~job[p].expired
           /\ pdp' = [pdp EXCEPT ![a] = IF @ = NoSession THEN job[p].id ELSE @]
           /\ rule' = rule \cup {a}
           /\ Goto(p, "mark_active")
        \/ /\ job[p].expired \/ "user" \in setup.faults
           /\ Goto(p, "undo_route")
           /\ UNCHANGED <<pdp, rule>>
     /\ UNCHANGED <<mgrVars, lock, ctx, route, neigh, setup>>

\* An error here returns with the route, the PDP context and the PGW's
\* context in place.
markActive(p) == At(p, "mark_active") /\ Transition(p, Active, "access_add", Fail(p))

accessAddSession(p) ==
  /\ At(p, "access_add")
  /\ \/ /\ ~job[p].expired
        /\ neigh' = IF job[p].c.mac = None THEN neigh
                    ELSE [neigh EXCEPT ![job[p].c.ip] = job[p].c.mac]
        /\ Goto(p, "validate")
     \/ /\ job[p].expired \/ "access" \in setup.faults
        /\ Goto(p, "undo_user")
        /\ UNCHANGED neigh
  /\ UNCHANGED <<mgrVars, lock, ctx, route, rule, pdp, setup>>

\* The checks of validatePostActivation on the copy and on the context; when
\* they fail the session is detached and the attach returns the error.
validatePostActivation(p) ==
  LET c == job[p].c
      valid == /\ ~job[p].expired
               /\ c.ip # None /\ c.gtpc # None /\ c.gtpu # None /\ c.authorized
  IN /\ At(p, "validate")
     /\ IF valid
        THEN job' = [job EXCEPT ![p].pc = "unlock", ![p].out = "accept"]
        ELSE job' = [job EXCEPT ![p].pc = "terminate", ![p].then = "unlock",
                                ![p].out = "error"]
     /\ UNCHANGED <<mgrVars, lock, envVars>>

-----------------------------------------------------------------------------
(* What is undone when an attach fails, and what a detach removes. *)

\* Mutant: the PDP context stays.
UserRemove_RuleOnly(s, i) == rule' = rule \ {s.ip} /\ UNCHANGED pdp

\* user.RemoveSession: the rule goes by address, the PDP context by the local
\* TEID of the session.
UserRemove(s, i) ==
  /\ rule' = rule \ {s.ip}
  /\ pdp' = [a \in IP |-> IF s.gtpu # None /\ pdp[a] = i THEN NoSession ELSE pdp[a]]

\* Mutant: the routes of the access interface are flushed.
RouteRemove_Flush(s) == route' = {}

\* routing.Remove: by address.
RouteRemove(s) == route' = route \ {s.ip}

PGWDelete(teid) == ctx' = {x \in ctx : x.teid # teid}

undoUser(p) ==
  /\ At(p, "undo_user")
  /\ IF job[p].expired THEN UNCHANGED <<rule, pdp>> ELSE UserRemove(job[p].c, job[p].id)
  /\ Goto(p, "undo_route")
  /\ UNCHANGED <<mgrVars, lock, ctx, route, neigh, setup>>

undoRoute(p) ==
  /\ At(p, "undo_route")
  /\ RouteRemove(job[p].c)
  /\ Goto(p, "undo_pgw")
  /\ UNCHANGED <<mgrVars, lock, ctx, rule, pdp, neigh, setup>>

\* Mutants: the rollback forgets the context at the PGW, or the session.
undoPGW_ContextKept(p) ==
  /\ At(p, "undo_pgw")
  /\ Goto(p, "fail")
  /\ UNCHANGED <<mgrVars, lock, envVars>>
undoPGW_NotFailed(p) ==
  /\ At(p, "undo_pgw")
  /\ PGWDelete(job[p].c.gtpc)
  /\ Fail(p)
  /\ UNCHANGED <<mgrVars, lock, route, rule, pdp, neigh, setup>>

\* The error of pgw.DeleteSession is ignored.
undoPGW(p) ==
  /\ At(p, "undo_pgw")
  /\ \/ ~job[p].expired /\ PGWDelete(job[p].c.gtpc) /\ Goto(p, "fail")
     \/ /\ job[p].expired \/ "reject_delete" \in setup.faults
        /\ Goto(p, "fail")
        /\ UNCHANGED ctx
     \/ /\ ~job[p].expired /\ "lost_delete" \in setup.faults
        /\ PGWDelete(job[p].c.gtpc) \/ UNCHANGED ctx
        /\ job' = [job EXCEPT ![p].pc = "fail", ![p].expired = TRUE]
  /\ UNCHANGED <<mgrVars, lock, route, rule, pdp, neigh, setup>>

\* MarkFailed; blocked keeps the reason the attach was refused for.
markFailed(p) ==
  LET back == job' = [job EXCEPT ![p].pc = "unlock",
                                 ![p].out = IF @ = "blocked" THEN @ ELSE "error"]
  IN /\ At(p, "fail")
     /\ \/ Mark(job[p].id, Failed) /\ back
        \/ ~CanTransition(job[p].id, Failed) /\ back /\ UNCHANGED mgrVars
     /\ UNCHANGED <<lock, envVars>>

\* The end of detachSessionLocked: an attach that replaces a session goes on
\* only when nothing failed.
AfterDetach(p, err) == IF job[p].then = "create" /\ ~err THEN "create" ELSE "unlock"

Detached(p, err) ==
  job' = [job EXCEPT ![p].pc = AfterDetach(p, err), ![p].err = FALSE,
                     ![p].out = IF err THEN "error" ELSE @]

markTerminating(p) ==
  At(p, "terminate") /\ Transition(p, Terminating, "del_pgw", Detached(p, TRUE))

\* pgw.DeleteSession.  A session without a control TEID is an error, and so is
\* a refusal; a context the PGW does not know and an expired context of the
\* caller are not.  When the request or its answer is lost doTransaction waits
\* for the deadline: its error then is not one nonFatalPGWDeleteError knows,
\* and the calls that follow find the context expired.  Without a deadline the
\* wait has no end.
detachPGW(p) ==
  LET c == job[p].c
      sent == ~job[p].expired /\ c.gtpc # None
      continue(failed) == job' = [job EXCEPT ![p].pc = "del_route", ![p].err = failed]
  IN /\ At(p, "del_pgw")
     /\ \/ job[p].expired /\ continue(FALSE) /\ UNCHANGED ctx
        \/ ~job[p].expired /\ c.gtpc = None /\ continue(TRUE) /\ UNCHANGED ctx
        \/ sent /\ continue(FALSE) /\ PGWDelete(c.gtpc)
        \/ sent /\ "reject_delete" \in setup.faults /\ continue(TRUE) /\ UNCHANGED ctx
        \/ /\ sent /\ "lost_delete" \in setup.faults
           /\ PGWDelete(c.gtpc) \/ UNCHANGED ctx
           /\ IF HasDeadline(p)
              THEN job' = [job EXCEPT ![p].pc = "del_route", ![p].err = TRUE,
                                      ![p].expired = TRUE]
              ELSE Goto(p, "hung")
     /\ UNCHANGED <<mgrVars, lock, route, rule, pdp, neigh, setup>>

detachRoute(p) ==
  /\ At(p, "del_route")
  /\ RouteRemove(job[p].c)
  /\ job' = [job EXCEPT ![p].pc = "del_user", ![p].err = @ \/ job[p].c.ip = None]
  /\ UNCHANGED <<mgrVars, lock, ctx, rule, pdp, neigh, setup>>

detachUser(p) ==
  /\ At(p, "del_user")
  /\ IF job[p].expired THEN UNCHANGED <<rule, pdp>> ELSE UserRemove(job[p].c, job[p].id)
  /\ job' = [job EXCEPT ![p].pc = "del_access", ![p].err = @ \/ job[p].expired]
  /\ UNCHANGED <<mgrVars, lock, ctx, route, neigh, setup>>

\* Mutant: the neighbours of the access interface are flushed.
detachAccess_Flush(p) ==
  /\ At(p, "del_access")
  /\ neigh' = [a \in IP |-> None]
  /\ Goto(p, "del_session")
  /\ UNCHANGED <<mgrVars, lock, ctx, route, rule, pdp, setup>>

\* access.RemoveSession: the kernel deletes the neighbour by its address.
detachAccess(p) ==
  LET c == job[p].c
  IN /\ At(p, "del_access")
     /\ neigh' = IF job[p].expired \/ c.ip = None \/ c.mac = None THEN neigh
                 ELSE [neigh EXCEPT ![c.ip] = None]
     /\ job' = [job EXCEPT ![p].pc = "del_session", ![p].err = @ \/ job[p].expired]
     /\ UNCHANGED <<mgrVars, lock, ctx, route, rule, pdp, setup>>

\* Mutant: an error of the teardown keeps the session in the table.
deleteSession_UnlessError(p) ==
  /\ At(p, "del_session")
  /\ \/ ~job[p].err /\ Delete(job[p].id)
     \/ job[p].err /\ UNCHANGED mgrVars
     \/ ~CanTransition(job[p].id, Terminated) /\ UNCHANGED mgrVars
  /\ Detached(p, job[p].err)
  /\ UNCHANGED <<lock, envVars>>

deleteSession(p) ==
  /\ At(p, "del_session")
  /\ \/ Delete(job[p].id)
     \/ ~CanTransition(job[p].id, Terminated) /\ UNCHANGED mgrVars
  /\ Detached(p, job[p].err)
  /\ UNCHANGED <<lock, envVars>>

-----------------------------------------------------------------------------
(* The other handlers. *)

\* HandleAccounting for a Stop.  findAccountingSession tries Class, Acct-Session-Id,
\* IMSI and Framed-IP-Address too; here the Stop carries the MAC only.
handleAccountingStop(p) ==
  LET M == FindByMAC(job[p].ev.mac)
  IN /\ At(p, "acct_stop")
     /\ \/ M = {} /\ Return(p, "none")
        \/ \E i \in M :
             IF accountingStopShouldDetach(sess[i].state)
             THEN AwaitLock(p, sess[i], i, "acct_recheck")
             ELSE Return(p, "none")
     /\ UNCHANGED <<mgrVars, lock, envVars>>

\* With the lock the session is read again.
recheckAccountingStop(p) ==
  LET i == job[p].id
  IN /\ At(p, "acct_recheck")
     /\ IF i \in byID /\ accountingStopShouldDetach(sess[i].state)
        THEN job' = [job EXCEPT ![p].pc = "terminate", ![p].then = "unlock", ![p].c = sess[i]]
        ELSE Goto(p, "unlock")
     /\ UNCHANGED <<mgrVars, lock, envVars>>

\* HandleGTPUErrorIndication: the session is looked up by the TEID the peer
\* rejected.
handleGTPUError(p) ==
  LET M == LookupByRemoteGTPUTEID(job[p].ev.teid)
  IN /\ At(p, "gtpu_error")
     /\ \/ M = {} /\ Return(p, "none")
        \/ \E i \in M :
             job' = [job EXCEPT ![p].pc = "gtpu_record", ![p].id = i, ![p].c = sess[i]]
     /\ UNCHANGED <<mgrVars, lock, envVars>>

\* The error is counted; only an active session is cleaned up.
recordGTPUError(p) ==
  LET i == job[p].id
      act(c) == IF c.state = Active THEN AwaitLock(p, c, i, "gtpu_recheck")
                                    ELSE Return(p, "none")
  IN /\ At(p, "gtpu_record")
     /\ \/ RecordGTPUError(i) /\ act(sess'[i])
        \/ i \notin byID /\ act(job[p].c) /\ UNCHANGED mgrVars
     /\ UNCHANGED <<lock, envVars>>

recheckGTPUError(p) ==
  LET i == job[p].id
  IN /\ At(p, "gtpu_recheck")
     /\ IF i \in byID /\ sess[i].state = Active
        THEN job' = [job EXCEPT ![p].pc = "mark_recovering", ![p].then = "unlock", ![p].c = sess[i]]
        ELSE Goto(p, "unlock")
     /\ UNCHANGED <<mgrVars, lock, envVars>>

\* The error of MarkRecovering is ignored.
markRecovering(p) ==
  At(p, "mark_recovering") /\ Transition(p, Recovering, "terminate", Goto(p, "terminate"))

\* HandlePGWInitiatedDelete: no subscriber lock.
handlePGWDelete(p) ==
  LET i == byTEID[job[p].ev.teid]
  IN /\ At(p, "pgw_delete")
     /\ IF i # NoSession /\ sess[i].state = Active
        THEN job' = [job EXCEPT ![p].pc = "mark_recovering", ![p].then = "unlock",
                                ![p].id = i, ![p].c = sess[i]]
        ELSE Return(p, "none")
     /\ UNCHANGED <<mgrVars, lock, envVars>>

\* HandleAAAInitiatedDisconnect: no subscriber lock, whatever the state.
handleAAADisconnect(p) ==
  LET i == byIMSI[job[p].ev.imsi]
  IN /\ At(p, "aaa_disconnect")
     /\ IF i # NoSession
        THEN job' = [job EXCEPT ![p].pc = "terminate", ![p].then = "unlock",
                                ![p].id = i, ![p].c = sess[i]]
        ELSE Return(p, "none")
     /\ UNCHANGED <<mgrVars, lock, envVars>>

\* Shutdown lists the sessions once and detaches them one by one.
shutdown(p) ==
  /\ At(p, "shutdown")
  /\ job' = [job EXCEPT ![p].pc = "next",
                        ![p].todo = {i \in byID : shutdownShouldDetach(sess[i].state)}]
  /\ UNCHANGED <<mgrVars, lock, envVars>>

\* Detach of the next session: found by id, then locked, then detached.
shutdownNext(p) ==
  LET left == job[p].todo
  IN /\ At(p, "next")
     /\ \/ left = {} /\ Return(p, "none")
        \/ \E i \in left :
             IF i \in byID
             THEN job' = [job EXCEPT ![p].pc = "lock", ![p].key = KeyOf(sess[i]),
                                     ![p].then = "terminate", ![p].c = sess[i],
                                     ![p].id = i, ![p].todo = left \ {i}]
             ELSE job' = [job EXCEPT ![p].todo = left \ {i}]
     /\ UNCHANGED <<mgrVars, lock, envVars>>

-----------------------------------------------------------------------------
(* The environment: an event arrives, a deadline passes. *)

\* A delete from the PGW comes after the PGW dropped the context.
Start(p) ==
  /\ At(p, "idle")
  /\ \E e \in setup.events[p] :
       LET new == [job[p] EXCEPT !.ev = e, !.pc = e.kind]
           locked == [new EXCEPT !.pc = "lock", !.then = "find",
                                 !.key = subscriberLockKey(e.imsi, e.mac, e.apn)]
       IN /\ job' = [job EXCEPT ![p] = IF e.kind = "attach" THEN locked ELSE new]
          /\ IF e.kind = "pgw_delete" THEN PGWDelete(e.teid) ELSE UNCHANGED ctx
  /\ UNCHANGED <<mgrVars, lock, route, rule, pdp, neigh, setup>>

\* A deadline passes while the goroutine is at work.
expireContext(p) ==
  /\ "expire" \in setup.faults /\ HasDeadline(p)
  /\ job[p].pc \notin {"idle", "done"} /\ ~job[p].expired
  /\ job' = [job EXCEPT ![p].expired = TRUE]
  /\ UNCHANGED <<mgrVars, lock, envVars>>

AttachStep(p) ==
  \/ findAttachExisting(p) \/ createSession(p) \/ markAuthPending(p)
  \/ applyAuthResult(p) \/ markPGWPending(p) \/ findLiveSessionDifferentFrom(p)
  \/ pgwCreateSession(p) \/ updateSubscriberIP(p) \/ applyPGWResult(p)
  \/ routingInstall(p) \/ userAddSession(p) \/ markActive(p)
  \/ accessAddSession(p) \/ validatePostActivation(p)
  \/ undoUser(p) \/ undoRoute(p) \/ undoPGW(p) \/ markFailed(p)

DetachStep(p) ==
  \/ markTerminating(p) \/ detachPGW(p) \/ detachRoute(p) \/ detachUser(p)
  \/ detachAccess(p) \/ deleteSession(p)

HandlerStep(p) ==
  \/ handleAccountingStop(p) \/ recheckAccountingStop(p)
  \/ handleGTPUError(p) \/ recordGTPUError(p) \/ recheckGTPUError(p)
  \/ markRecovering(p) \/ handlePGWDelete(p) \/ handleAAADisconnect(p)
  \/ shutdown(p) \/ shutdownNext(p)

\* What a goroutine that was started does by itself.
Step(p) == lockSubscriber(p) \/ lockTimeout(p) \/ unlock(p)
           \/ AttachStep(p) \/ DetachStep(p) \/ HandlerStep(p)

\* Every event was handled, or its goroutine waits for the PGW for ever.
AllDone == (\A p \in Proc : job[p].pc \in {"done", "hung"}) /\ UNCHANGED vars

LcNext == (\E p \in Proc : Start(p) \/ Step(p) \/ expireContext(p)) \/ AllDone

LcSpec == LcInit /\ [][LcNext]_vars

\* A goroutine that can run does: the wait for the lock is bounded by a timer,
\* every call on the PGW and the kernel returns.
FairLcSpec == LcSpec /\ \A p \in Proc : WF_vars(Step(p))
-----------------------------------------------------------------------------
(* Properties. *)

\* Nothing is left to do for the events that arrived.
Quiet == \A p \in Proc : job[p].pc \in {"idle", "done"}

\* Session i is active and everything its traffic needs is in place.
Bound(i) ==
  LET s == sess[i]
  IN /\ i \in byID /\ s.state = Active
     /\ s.ip \in route /\ s.ip \in rule
     /\ pdp[s.ip] = i /\ neigh[s.ip] = s.mac
     /\ \E x \in ctx : x.sub = Sub(s) /\ x.teid = s.gtpc /\ x.ip = s.ip

\* The PGW never gets a Create Session Request for an IMSI and APN it already
\* has a context for: the per-subscriber lock, the check for an existing
\* session and findLiveSessionDifferentFrom together prevent the context
\* replacement.
NoContextReplacement ==
  [][\A y \in ctx' \ ctx : \A x \in ctx : x.sub # y.sub]_vars

\* When an attach returns success (the RADIUS server then sends the
\* Access-Accept) the session it returns is active with its PGW context,
\* route, rule, PDP context and neighbour entry in place, whether it is new or
\* an existing one that is reused.
AcceptReady ==
  [][\A p \in Proc : job[p].out # "accept" /\ job'[p].out = "accept"
                       => Bound(job[p].id)']_vars

\* An active session stays connected until a goroutine has marked it
\* otherwise, the attach that is still activating it aside.
ActiveIsBound ==
  \A i \in byID :
    sess[i].state = Active =>
      \/ Bound(i)
      \/ \E p \in Proc : /\ job[p].id = i
                         /\ job[p].pc \in {"access_add", "undo_user", "undo_route",
                                           "undo_pgw", "fail"}

\* When no goroutine is at work, every context at the PGW and everything in
\* the kernel belongs to a stored active session: no failed attach and no
\* detach left something behind.
Owner(i) == i \in byID /\ sess[i].state = Active
NoPGWLeak ==
  Quiet => \A x \in ctx : \E i \in byID : Owner(i) /\ sess[i].gtpc = x.teid
NoLocalLeak ==
  Quiet =>
    /\ \A a \in route \cup rule : \E i \in byID : Owner(i) /\ sess[i].ip = a
    /\ \A a \in IP : pdp[a] # NoSession => Owner(pdp[a])
    /\ \A a \in IP : neigh[a] # None => \E i \in byID : Owner(i) /\ sess[i].ip = a
NoLeak == NoPGWLeak /\ NoLocalLeak

\* When no goroutine is at work no session is left half way: every stored
\* session is active or failed, and every subscriber lock is free.
NoHalfOpen ==
  Quiet => /\ \A i \in byID : sess[i].state \in {Active, Failed}
           /\ \A k \in LockKey : lock[k] = None

\* A duplicate attach of a device whose session is active is never refused.
DuplicateAttachReused ==
  \A p \in Proc : job[p].out = "blocked" /\ job[p].pc = "unlock" =>
    ~\E i \in byID : /\ sess[i].state = Active
                     /\ sess[i].imsi = job[p].ev.imsi
                     /\ sess[i].mac = job[p].ev.mac
                     /\ sess[i].apn = job[p].ev.apn

\* Every event is handled: no goroutine waits for ever on a lock, on the PGW
\* or on another goroutine.
EveryEventHandled ==
  \A p \in Proc : job[p].pc # "idle" ~> job[p].pc = "done"

\* A teardown that has begun ends: a session marked recovering or terminating
\* leaves the table with its local state, or is failed by its own attach.
BeingTornDown(i) ==
  i \in byID /\ sess[i].state \in {Recovering, Terminating}
TeardownEnds ==
  \A i \in 1..MaxSessions :
    BeingTornDown(i) ~> (i \notin byID \/ sess[i].state = Failed)

\* The service implements the store's specification: every step of every
\* goroutine is one operation of the Manager or leaves the store alone, so
\* what holds of the store under its own operations holds in the service.
UsesStoreAsSpecified == MgrSpec
=============================================================================
