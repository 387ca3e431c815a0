------------------------------ MODULE AuthCache ------------------------------
(***************************************************************************)
(* The RADIUS authentication cache and the recovery it allows: when a      *)
(* client the cache knows shows up (Accounting-Start or DHCP) without a    *)
(* data session, recoverFromAuthCache attaches it again without EAP, under *)
(* the limiter of beginAuthCacheRecovery.                                  *)
(*                                                                         *)
(* A key is a MAC and an IMSI; the one APN of the configuration is left    *)
(* out, and so is the index by Acct-Session-Id, a last resort of the       *)
(* lookups.  The cache methods of Manager and the two halves of the        *)
(* limiter run under a mutex: each is one action.  The attach itself is    *)
(* module Lifecycle; here it is one step with its outcome.  Time is        *)
(* counted in ticks from 1, and its order is all that matters.             *)
(***************************************************************************)
EXTENDS Naturals, FiniteSets

CONSTANTS MAC, IMSI, None,
          Proc,         \* the goroutines that recover
          TTL,          \* Session-Timeout of an Access-Accept
          Cooldown,     \* accounting_start_recovery.cooldown_seconds
          MaxAttempts,  \* accounting_start_recovery.max_attempts_per_minute
          Minute,       \* the window of the limiter
          ClearOnStop,  \* radius.accounting.clear_auth_cache_on_stop
          MaxTime       \* bound on the clock

ASSUME CacheAssumption ==
  /\ None \notin MAC \cup IMSI \cup Nat \cup (MAC \X IMSI)
  /\ {TTL, Cooldown, MaxAttempts, Minute, MaxTime} \subseteq Nat \ {0}
  /\ ClearOnStop \in BOOLEAN

Key == MAC \X IMSI
OrNone(S) == S \cup {None}

Cache == [exp: [Key -> OrNone(Nat)], mac: [MAC -> OrNone(Key)], imsi: [IMSI -> OrNone(Key)]]

VARIABLES
  now,     \* the clock
  cache,   \* the cache: exp (authByKey) says when the entry of a key expires,
           \*   mac and imsi (authByMAC, authByIMSI) the key of an entry
  until,   \* ExpiresAt of the active session of a key
  rec,     \* recoveryByKey: the limiter's state of a key
  job,     \* the goroutines
  eap,     \* history: when a key last succeeded in EAP
  starts   \* history: when recoveries of a key began

acVars == <<now, cache, until, rec, job, eap, starts>>

ACTypeOK ==
  /\ now \in Nat
  /\ cache \in Cache
  /\ until \in [Key -> OrNone(Nat)]
  /\ rec \in [Key -> [pending: BOOLEAN, lastAt: OrNone(Nat), attempts: SUBSET Nat]]
  /\ job \in [Proc -> [pc: {"idle", "begin", "attach", "finish"}, key: OrNone(Key)]]
  /\ eap \in [Key -> OrNone(Nat)]
  /\ starts \in [Key -> SUBSET Nat]

ACInit ==
  /\ now = 1
  /\ cache = [exp |-> [k \in Key |-> None], mac |-> [m \in MAC |-> None],
              imsi |-> [i \in IMSI |-> None]]
  /\ until = [k \in Key |-> None]
  /\ rec = [k \in Key |-> [pending |-> FALSE, lastAt |-> None, attempts |-> {}]]
  /\ job = [p \in Proc |-> [pc |-> "idle", key |-> None]]
  /\ eap = [k \in Key |-> None]
  /\ starts = [k \in Key |-> {}]

-----------------------------------------------------------------------------
(* The cache.  The operators return the cache the method leaves behind. *)

\* UpsertAuthCache with a new expiry: a new entry, or the old one unindexed
\* and indexed again under the same keys.
UpsertAuthCache(c, k, exp) ==
  [c EXCEPT !.exp[k] = exp, !.mac[k[1]] = k, !.imsi[k[2]] = k]

\* Mutant: the entry leaves authByKey only.
unindexAuthCache_KeyOnly(c, k) == [c EXCEPT !.exp[k] = None]

\* unindexAuthCacheLocked: the entries of the MAC and of the IMSI go, whichever
\* key they point to.
unindexAuthCache(c, k) ==
  [c EXCEPT !.exp[k] = None, !.mac[k[1]] = None, !.imsi[k[2]] = None]

\* The entry LookupValidAuthCache finds: under the key, else under the MAC,
\* else under the IMSI.
CacheEntry(c, mac, imsi) ==
  IF imsi # None /\ c.exp[<<mac, imsi>>] # None THEN <<mac, imsi>>
  ELSE IF c.mac[mac] # None THEN c.mac[mac]
  ELSE IF imsi # None THEN c.imsi[imsi]
  ELSE None

Valid(c, e) == e # None /\ now < c.exp[e]

\* What else the lookup does: an entry found expired is removed.
PurgeExpired(c, e) ==
  IF e # None /\ ~Valid(c, e) THEN unindexAuthCache(c, e) ELSE c

\* DeleteAuthCache: the entry of the key, else the one of the MAC.
DeleteAuthCache(c, k) ==
  LET e == IF c.exp[k] # None THEN k ELSE c.mac[k[1]]
  IN IF e = None THEN c ELSE unindexAuthCache(c, e)

-----------------------------------------------------------------------------
(* The RADIUS server. *)

\* An EAP success: AttachAuthorized creates the session and writes the cache;
\* when the subscriber's session is reused it returns before that.
AccessAccept(k) ==
  /\ eap' = [eap EXCEPT ![k] = now]
  /\ IF until[k] # None
     THEN UNCHANGED <<until, cache>>
     ELSE /\ until' = [until EXCEPT ![k] = now + TTL]
          /\ cache' = UpsertAuthCache(cache, k, now + TTL)
  /\ UNCHANGED <<now, rec, job, starts>>

\* findAccountingSession: by MAC, then by IMSI.
AccountingSessions(mac, imsi) ==
  LET live == {k \in Key : until[k] # None}
      same == {k \in live : k[1] = mac}
  IN IF same # {} THEN same ELSE {k \in live : k[2] = imsi}

\* updateAuthCacheFromAccounting: the expiry is the one of the entry found, if
\* it is still valid, else the session's; without either nothing is written.
UpdateFromAccounting(k, expiry) ==
  LET e == CacheEntry(cache, k[1], k[2])
      c == PurgeExpired(cache, e)
  IN IF Valid(cache, e) THEN UpsertAuthCache(c, k, cache.exp[e])
     ELSE IF expiry # None THEN UpsertAuthCache(c, k, expiry)
     ELSE c

\* A client whose entry was found starts to recover.
StartRecovery(p, e) ==
  /\ job' = IF Valid(cache, e) THEN [job EXCEPT ![p] = [pc |-> "begin", key |-> e]]
            ELSE job
  /\ cache' = PurgeExpired(cache, e)

\* The key of a request about session s.
RequestKey(mac, imsi, s) == <<mac, IF imsi # None THEN imsi ELSE s[2]>>

\* HandleAccounting for a Start, and handleAccountingStartWithoutSession.
AccountingStart(p, mac, imsi) ==
  LET S == AccountingSessions(mac, imsi)
  IN /\ job[p].pc = "idle"
     /\ \/ \E s \in S :
             /\ cache' = UpdateFromAccounting(RequestKey(mac, imsi, s), until[s])
             /\ UNCHANGED job
        \/ S = {} /\ StartRecovery(p, CacheEntry(cache, mac, imsi))
     /\ UNCHANGED <<now, until, rec, eap, starts>>

\* HandleAccounting for a Stop of session s, which is detached.
AccountingStop(mac, imsi) ==
  /\ \E s \in AccountingSessions(mac, imsi) :
       LET c == UpdateFromAccounting(RequestKey(mac, imsi, s), until[s])
       IN /\ until' = [until EXCEPT ![s] = None]
          /\ cache' = IF ClearOnStop THEN DeleteAuthCache(c, s) ELSE c
  /\ UNCHANGED <<now, rec, job, eap, starts>>

\* A Stop for a session that is already gone.
AccountingStopUnknown(mac, imsi) ==
  /\ AccountingSessions(mac, imsi) = {} /\ imsi # None
  /\ LET k == <<mac, imsi>>
         c == UpdateFromAccounting(k, None)
     IN cache' = IF ClearOnStop /\ c.exp[k] # None THEN DeleteAuthCache(c, k) ELSE c
  /\ UNCHANGED <<now, until, rec, job, eap, starts>>

\* HandleDHCPAuthCacheRecovery, for a client without a session.
DHCPRecovery(p, mac) ==
  /\ job[p].pc = "idle" /\ AccountingSessions(mac, None) = {}
  /\ StartRecovery(p, CacheEntry(cache, mac, None))
  /\ UNCHANGED <<now, until, rec, eap, starts>>

-----------------------------------------------------------------------------
(* recoverFromAuthCache. *)

\* The attempts of the last minute.
Recent(k) == {t \in rec[k].attempts : t + Minute > now}

\* A duplicate: a recovery of the key is pending or has just ended.
Suppressed(k) ==
  \/ rec[k].pending
  \/ rec[k].lastAt # None /\ now - rec[k].lastAt < Cooldown

\* Mutants: the pending recovery is not looked at; one attempt too many.
Admitted_WhilePending(k) ==
  /\ rec[k].lastAt # None => now - rec[k].lastAt >= Cooldown
  /\ Cardinality(Recent(k)) < MaxAttempts
Admitted_OffByOne(k) == ~Suppressed(k) /\ Cardinality(Recent(k)) <= MaxAttempts

\* The tests of beginAuthCacheRecovery.
Admitted(k) == ~Suppressed(k) /\ Cardinality(Recent(k)) < MaxAttempts

\* The old attempts are dropped unless the request is a duplicate.
beginAuthCacheRecovery(p) ==
  LET k == job[p].key
  IN /\ job[p].pc = "begin"
     /\ \/ /\ Admitted(k)
           /\ rec' = [rec EXCEPT ![k] = [pending |-> TRUE, lastAt |-> now,
                                         attempts |-> Recent(k) \cup {now}]]
           /\ starts' = [starts EXCEPT ![k] = @ \cup {now}]
           /\ job' = [job EXCEPT ![p].pc = "attach"]
        \/ /\ ~Admitted(k)
           /\ rec' = IF Suppressed(k) THEN rec
                     ELSE [rec EXCEPT ![k].attempts = Recent(k)]
           /\ job' = [job EXCEPT ![p] = [pc |-> "idle", key |-> None]]
           /\ UNCHANGED starts
     /\ UNCHANGED <<now, cache, until, eap>>

\* AttachAuthorized with the cached identity: it fails, finds the session of
\* another attach, or creates one and writes the cache as after an EAP success.
recoveryAttach(p) ==
  LET k == job[p].key
  IN /\ job[p].pc = "attach"
     /\ \/ UNCHANGED <<until, cache>>
        \/ /\ until[k] = None
           /\ until' = [until EXCEPT ![k] = now + TTL]
           /\ cache' = UpsertAuthCache(cache, k, now + TTL)
     /\ job' = [job EXCEPT ![p].pc = "finish"]
     /\ UNCHANGED <<now, rec, eap, starts>>

\* Mutant: the pending mark is not cleared.
finishAuthCacheRecovery_KeepsMark(p) ==
  LET k == job[p].key
  IN /\ job[p].pc = "finish"
     /\ rec' = [rec EXCEPT ![k].lastAt = now]
     /\ job' = [job EXCEPT ![p] = [pc |-> "idle", key |-> None]]
     /\ UNCHANGED <<now, cache, until, eap, starts>>

\* Deferred, so it runs whatever the attach returned.
finishAuthCacheRecovery(p) ==
  LET k == job[p].key
  IN /\ job[p].pc = "finish"
     /\ rec' = [rec EXCEPT ![k].pending = FALSE, ![k].lastAt = now]
     /\ job' = [job EXCEPT ![p] = [pc |-> "idle", key |-> None]]
     /\ UNCHANGED <<now, cache, until, eap, starts>>

-----------------------------------------------------------------------------
Tick ==
  /\ now < MaxTime
  /\ now' = now + 1
  /\ UNCHANGED <<cache, until, rec, job, eap, starts>>

RecoveryStep(p) ==
  beginAuthCacheRecovery(p) \/ recoveryAttach(p) \/ finishAuthCacheRecovery(p)

\* Accounting comes from clients that have authenticated at some time; the
\* User-Name of a request may or may not yield the IMSI.
ACNext ==
  \/ Tick
  \/ \E k \in Key : AccessAccept(k)
  \/ \E k \in Key, named \in BOOLEAN :
       /\ eap[k] # None
       /\ LET imsi == IF named THEN k[2] ELSE None
          IN \/ \E p \in Proc : AccountingStart(p, k[1], imsi)
             \/ AccountingStop(k[1], imsi)
             \/ AccountingStopUnknown(k[1], imsi)
  \/ \E p \in Proc, mac \in MAC : DHCPRecovery(p, mac)
  \/ \E p \in Proc : RecoveryStep(p)

ACSpec == ACInit /\ [][ACNext]_acVars

-----------------------------------------------------------------------------
(* Properties. *)

\* The indexes of the cache never dangle: an entry points to a key the cache
\* holds and that has the MAC or the IMSI.
CacheIndexSound ==
  /\ \A m \in MAC : LET k == cache.mac[m]
                    IN k # None => cache.exp[k] # None /\ k[1] = m
  /\ \A i \in IMSI : LET k == cache.imsi[i]
                     IN k # None => cache.exp[k] # None /\ k[2] = i

\* The goroutines between the two halves of the limiter.
Recovering(p, k) == job[p].pc \in {"attach", "finish"} /\ job[p].key = k

\* However many Accounting-Starts and DHCP requests arrive at once, one
\* recovery of a subscriber runs at a time.
SingleRecovery ==
  \A k \in Key, p, q \in Proc : Recovering(p, k) /\ Recovering(q, k) => p = q

\* The pending mark always has a goroutine that will clear it; a mark left
\* behind would suppress every later recovery of the subscriber.
PendingHasOwner ==
  \A k \in Key : rec[k].pending <=> \E p \in Proc : Recovering(p, k)

\* In no window of a minute do more recoveries of a subscriber begin than
\* configured, although the limiter forgets old attempts.
RateLimited ==
  \A k \in Key : \A t \in 1..MaxTime :
    Cardinality({s \in starts[k] : s <= t /\ s + Minute > t}) <= MaxAttempts

\* The cache never outlives the Session-Timeout of the last Access-Accept.
CacheWithinSessionTimeout ==
  \A k \in Key : cache.exp[k] # None => eap[k] # None /\ cache.exp[k] <= eap[k] + TTL
=============================================================================
