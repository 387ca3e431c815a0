--------------------------- MODULE AuthCache_proofs ---------------------------
(***************************************************************************)
(* Proofs about the cache and the limiter of the recoveries: indexes that  *)
(* never dangle, one recovery of a subscriber at a time, and never more of *)
(* them in a minute than configured, for any number of goroutines and any  *)
(* configuration.                                                          *)
(***************************************************************************)
EXTENDS AuthCache, FiniteSetTheorems, TLAPS

\* The cache operators return a cache, the lookup a key or nothing.
LEMMA CacheOperators ==
  ASSUME NEW c \in Cache
  PROVE  /\ \A k \in Key, e \in OrNone(Nat) : UpsertAuthCache(c, k, e) \in Cache
         /\ \A k \in Key : unindexAuthCache(c, k) \in Cache
         /\ \A m \in MAC, i \in OrNone(IMSI) : CacheEntry(c, m, i) \in OrNone(Key)
<1>1. \A k \in Key : k[1] \in MAC /\ k[2] \in IMSI
  BY DEF Key
<1>2. ASSUME NEW k \in Key, NEW e \in OrNone(Nat) PROVE UpsertAuthCache(c, k, e) \in Cache
  BY <1>1 DEF UpsertAuthCache, Cache, OrNone
<1>3. ASSUME NEW k \in Key PROVE unindexAuthCache(c, k) \in Cache
  BY <1>1 DEF unindexAuthCache, Cache, OrNone
<1>4. ASSUME NEW m \in MAC, NEW i \in OrNone(IMSI) PROVE CacheEntry(c, m, i) \in OrNone(Key)
  <2>1. i # None => <<m, i>> \in Key
    BY DEF Key, OrNone
  <2>2. c.mac[m] \in OrNone(Key) /\ (i # None => c.imsi[i] \in OrNone(Key))
    BY DEF Cache, OrNone
  <2>3. QED BY <2>1, <2>2 DEF CacheEntry, OrNone
<1>5. QED BY <1>2, <1>3, <1>4

\* The rest of what happens to the cache.
LEMMA CacheUpdates ==
  ASSUME ACTypeOK
  PROVE  /\ \A e \in OrNone(Key) : PurgeExpired(cache, e) \in Cache
         /\ \A c \in Cache, k \in Key : DeleteAuthCache(c, k) \in Cache
         /\ \A k \in Key, x \in OrNone(Nat) : UpdateFromAccounting(k, x) \in Cache
<1>1. cache \in Cache
  BY DEF ACTypeOK
<1>2. ASSUME NEW e \in OrNone(Key) PROVE PurgeExpired(cache, e) \in Cache
  BY <1>1, CacheOperators DEF PurgeExpired, OrNone
<1>3. ASSUME NEW c \in Cache, NEW k \in Key PROVE DeleteAuthCache(c, k) \in Cache
  <2>1. k[1] \in MAC /\ c.mac[k[1]] \in OrNone(Key)
    BY DEF Key, Cache
  <2>2. QED BY <2>1, CacheOperators DEF DeleteAuthCache, OrNone
<1>4. ASSUME NEW k \in Key, NEW x \in OrNone(Nat) PROVE UpdateFromAccounting(k, x) \in Cache
  <2> DEFINE e == CacheEntry(cache, k[1], k[2])
             c == PurgeExpired(cache, e)
  <2>1. k[1] \in MAC /\ k[2] \in OrNone(IMSI)
    BY DEF Key, OrNone
  <2>2. e \in OrNone(Key)
    BY <1>1, <2>1, CacheOperators
  <2>3. c \in Cache
    BY <2>2, <1>2
  <2>4. Valid(cache, e) => cache.exp[e] \in OrNone(Nat)
    BY <1>1, <2>2 DEF Valid, Cache, OrNone
  <2>5. Valid(cache, e) => UpsertAuthCache(c, k, cache.exp[e]) \in Cache
    BY <2>3, <2>4, CacheOperators
  <2>6. UpsertAuthCache(c, k, x) \in Cache
    BY <2>3, CacheOperators
  <2> HIDE DEF c, e
  <2>7. (IF Valid(cache, e) THEN UpsertAuthCache(c, k, cache.exp[e])
         ELSE IF x # None THEN UpsertAuthCache(c, k, x) ELSE c) \in Cache
    BY <2>3, <2>5, <2>6
  <2>8. QED BY <2>7 DEF UpdateFromAccounting, c, e
<1>5. QED BY <1>2, <1>3, <1>4

\* A goroutine that recovers has a key.
KeyKnown == \A p \in Proc : job[p].pc # "idle" => job[p].key \in Key

\* A goroutine is started for the key of an entry that was found.
LEMMA RecoveryStarts ==
  ASSUME ACTypeOK, KeyKnown, NEW p \in Proc, NEW e \in OrNone(Key), StartRecovery(p, e)
  PROVE  /\ cache' \in Cache
         /\ job' \in [Proc -> [pc: {"idle", "begin", "attach", "finish"}, key: OrNone(Key)]]
         /\ KeyKnown'
<1>1. cache' \in Cache
  BY CacheUpdates DEF StartRecovery
<1>2. Valid(cache, e) => e \in Key
  BY DEF Valid, OrNone
<1>3. job' \in [Proc -> [pc: {"idle", "begin", "attach", "finish"}, key: OrNone(Key)]]
  BY DEF ACTypeOK, StartRecovery
<1>4. KeyKnown'
  BY <1>2 DEF ACTypeOK, StartRecovery, KeyKnown
<1>5. QED BY <1>1, <1>3, <1>4

\* The sessions a request is about belong to keys.
LEMMA AccountingSessionIsKey ==
  ASSUME NEW m, NEW i, NEW s \in AccountingSessions(m, i)
  PROVE  s \in Key
BY DEF AccountingSessions

\* Type correctness is inductive.
LEMMA ACTypeStep ==
  ACTypeOK /\ KeyKnown /\ [ACNext]_acVars => ACTypeOK' /\ KeyKnown'
<1> SUFFICES ASSUME ACTypeOK, KeyKnown, [ACNext]_acVars PROVE ACTypeOK' /\ KeyKnown'
  OBVIOUS
<1> DEFINE JobType == [pc: {"idle", "begin", "attach", "finish"}, key: OrNone(Key)]
           RecType == [pending: BOOLEAN, lastAt: OrNone(Nat), attempts: SUBSET Nat]
<1>a. TTL \in Nat
  BY CacheAssumption
<1>b. \A k \in Key : k[1] \in MAC /\ k[2] \in IMSI
  BY DEF Key
<1>c. now \in Nat /\ now \in OrNone(Nat) /\ now + TTL \in OrNone(Nat) /\ cache \in Cache
  BY <1>a DEF ACTypeOK, OrNone
<1>1. CASE Tick
  BY <1>1 DEF Tick, ACTypeOK, KeyKnown
<1>2. ASSUME NEW k \in Key, AccessAccept(k) PROVE ACTypeOK' /\ KeyKnown'
  <2>1. cache' \in Cache
    BY <1>2, <1>c, CacheOperators DEF AccessAccept
  <2>2. until' \in [Key -> OrNone(Nat)] /\ eap' \in [Key -> OrNone(Nat)]
    BY <1>2, <1>c DEF AccessAccept, ACTypeOK
  <2>3. QED BY <1>2, <2>1, <2>2 DEF AccessAccept, ACTypeOK, KeyKnown
<1>3. ASSUME NEW p \in Proc, NEW m \in MAC, NEW i \in OrNone(IMSI), AccountingStart(p, m, i)
      PROVE  ACTypeOK' /\ KeyKnown'
  <2>1. CASE \E s \in AccountingSessions(m, i) :
                /\ cache' = UpdateFromAccounting(RequestKey(m, i, s), until[s])
                /\ UNCHANGED job
    <3> PICK s \in AccountingSessions(m, i) :
                /\ cache' = UpdateFromAccounting(RequestKey(m, i, s), until[s])
                /\ UNCHANGED job
      BY <2>1
    <3>1. s \in Key /\ until[s] \in OrNone(Nat)
      BY AccountingSessionIsKey DEF ACTypeOK
    <3>2. RequestKey(m, i, s) \in Key
      BY <3>1, <1>b DEF RequestKey, Key, OrNone
    <3>3. cache' \in Cache
      BY <3>1, <3>2, CacheUpdates
    <3>4. QED BY <1>3, <3>3 DEF AccountingStart, ACTypeOK, KeyKnown
  <2>2. CASE StartRecovery(p, CacheEntry(cache, m, i))
    <3>1. CacheEntry(cache, m, i) \in OrNone(Key)
      BY <1>c, CacheOperators
    <3>2. cache' \in Cache /\ job' \in [Proc -> JobType] /\ KeyKnown'
      BY <2>2, <3>1, RecoveryStarts
    <3>3. QED BY <1>3, <3>2 DEF AccountingStart, ACTypeOK
  <2>3. QED BY <1>3, <2>1, <2>2 DEF AccountingStart
<1>4. ASSUME NEW m \in MAC, NEW i \in OrNone(IMSI), AccountingStop(m, i)
      PROVE  ACTypeOK' /\ KeyKnown'
  <2> PICK s \in AccountingSessions(m, i) :
        LET c == UpdateFromAccounting(RequestKey(m, i, s), until[s])
        IN /\ until' = [until EXCEPT ![s] = None]
           /\ cache' = IF ClearOnStop THEN DeleteAuthCache(c, s) ELSE c
    BY <1>4 DEF AccountingStop
  <2>1. s \in Key /\ until[s] \in OrNone(Nat)
    BY AccountingSessionIsKey DEF ACTypeOK
  <2>2. RequestKey(m, i, s) \in Key
    BY <2>1, <1>b DEF RequestKey, Key, OrNone
  <2>3. UpdateFromAccounting(RequestKey(m, i, s), until[s]) \in Cache
    BY <2>1, <2>2, CacheUpdates
  <2>4. cache' \in Cache
    BY <2>1, <2>3, CacheUpdates
  <2>5. until' \in [Key -> OrNone(Nat)]
    BY <2>1 DEF ACTypeOK, OrNone
  <2>6. QED BY <1>4, <2>4, <2>5 DEF AccountingStop, ACTypeOK, KeyKnown
<1>5. ASSUME NEW m \in MAC, NEW i \in OrNone(IMSI), AccountingStopUnknown(m, i)
      PROVE  ACTypeOK' /\ KeyKnown'
  <2>1. <<m, i>> \in Key
    BY <1>5 DEF AccountingStopUnknown, Key, OrNone
  <2>2. UpdateFromAccounting(<<m, i>>, None) \in Cache
    BY <2>1, CacheUpdates DEF OrNone
  <2>3. cache' \in Cache
    BY <1>5, <2>1, <2>2, CacheUpdates DEF AccountingStopUnknown
  <2>4. QED BY <1>5, <2>3 DEF AccountingStopUnknown, ACTypeOK, KeyKnown
<1>6. ASSUME NEW p \in Proc, NEW m \in MAC, DHCPRecovery(p, m) PROVE ACTypeOK' /\ KeyKnown'
  <2>1. CacheEntry(cache, m, None) \in OrNone(Key)
    BY <1>c, CacheOperators DEF OrNone
  <2>2. cache' \in Cache /\ job' \in [Proc -> JobType] /\ KeyKnown'
    BY <1>6, <2>1, RecoveryStarts DEF DHCPRecovery
  <2>3. QED BY <1>6, <2>2 DEF DHCPRecovery, ACTypeOK
<1>7. ASSUME NEW p \in Proc, beginAuthCacheRecovery(p) PROVE ACTypeOK' /\ KeyKnown'
  <2>1. job[p].key \in Key
    BY <1>7 DEF beginAuthCacheRecovery, KeyKnown
  <2>2. Recent(job[p].key) \subseteq Nat
    BY <2>1 DEF Recent, ACTypeOK
  <2>3. CASE Admitted(job[p].key)
    <3>1. job' = [job EXCEPT ![p].pc = "attach"]
      BY <1>7, <2>3 DEF beginAuthCacheRecovery
    <3>2. job' \in [Proc -> JobType] /\ KeyKnown'
      BY <3>1, <2>1 DEF ACTypeOK, KeyKnown
    <3>3. starts' = [starts EXCEPT ![job[p].key] = @ \cup {now}]
      BY <1>7, <2>3 DEF beginAuthCacheRecovery
    <3>4. starts' \in [Key -> SUBSET Nat]
      BY <3>3, <1>c, <2>1 DEF ACTypeOK
    <3>5. rec' = [rec EXCEPT ![job[p].key] = [pending |-> TRUE, lastAt |-> now,
                                              attempts |-> Recent(job[p].key) \cup {now}]]
      BY <1>7, <2>3 DEF beginAuthCacheRecovery
    <3>6. rec' \in [Key -> RecType]
      BY <3>5, <1>c, <2>1, <2>2 DEF ACTypeOK
    <3>7. QED BY <1>7, <3>2, <3>4, <3>6 DEF beginAuthCacheRecovery, ACTypeOK
  <2>4. CASE ~Admitted(job[p].key)
    <3>1. job' = [job EXCEPT ![p] = [pc |-> "idle", key |-> None]] /\ UNCHANGED starts
      BY <1>7, <2>4 DEF beginAuthCacheRecovery
    <3>2. job' \in [Proc -> JobType] /\ KeyKnown'
      BY <3>1 DEF ACTypeOK, OrNone, KeyKnown
    <3>3. \/ rec' = rec
          \/ rec' = [rec EXCEPT ![job[p].key].attempts = Recent(job[p].key)]
      BY <1>7, <2>4 DEF beginAuthCacheRecovery
    <3>4. rec' \in [Key -> RecType]
      BY <3>3, <2>1, <2>2 DEF ACTypeOK
    <3>5. QED BY <1>7, <3>1, <3>2, <3>4 DEF beginAuthCacheRecovery, ACTypeOK
  <2>5. QED BY <2>3, <2>4
<1>8. ASSUME NEW p \in Proc, recoveryAttach(p) PROVE ACTypeOK' /\ KeyKnown'
  <2>1. job[p].key \in Key
    BY <1>8 DEF recoveryAttach, KeyKnown
  <2>2. cache' \in Cache
    BY <1>8, <1>c, <2>1, CacheOperators DEF recoveryAttach
  <2>3. until' \in [Key -> OrNone(Nat)]
    BY <1>8, <1>c, <2>1 DEF recoveryAttach, ACTypeOK
  <2>4. job' \in [Proc -> JobType] /\ KeyKnown'
    BY <1>8, <2>1 DEF recoveryAttach, ACTypeOK, KeyKnown
  <2>5. QED BY <1>8, <2>2, <2>3, <2>4 DEF recoveryAttach, ACTypeOK
<1>9. ASSUME NEW p \in Proc, finishAuthCacheRecovery(p) PROVE ACTypeOK' /\ KeyKnown'
  <2>1. job[p].key \in Key
    BY <1>9 DEF finishAuthCacheRecovery, KeyKnown
  <2>2. rec' \in [Key -> RecType]
    <3>1. rec \in [Key -> RecType] /\ rec[job[p].key] \in RecType /\ now \in Nat
      BY <2>1 DEF ACTypeOK
    <3>2. QED BY <1>9, <1>c, <2>1, <3>1 DEF finishAuthCacheRecovery
  <2>3. job' \in [Proc -> JobType] /\ KeyKnown'
    BY <1>9 DEF finishAuthCacheRecovery, ACTypeOK, OrNone, KeyKnown
  <2>4. QED BY <1>9, <2>2, <2>3 DEF finishAuthCacheRecovery, ACTypeOK
<1>10. CASE UNCHANGED acVars
  BY <1>10 DEF acVars, ACTypeOK, KeyKnown
<1>11. ASSUME NEW k \in Key, NEW named \in BOOLEAN
       PROVE  k[1] \in MAC /\ (IF named THEN k[2] ELSE None) \in OrNone(IMSI)
  BY <1>b DEF OrNone
<1>12. QED BY <1>1, <1>2, <1>3, <1>4, <1>5, <1>6, <1>7, <1>8, <1>9, <1>10, <1>11
           DEF ACNext, RecoveryStep

\* The cache, the limiter and the goroutines keep their types.
THEOREM CacheTypeCorrect == ACSpec => []ACTypeOK
<1>1. ACInit => ACTypeOK /\ KeyKnown
  BY DEF ACInit, ACTypeOK, KeyKnown, Cache, OrNone
<1>2. QED BY <1>1, ACTypeStep, PTL DEF ACSpec

-----------------------------------------------------------------------------
(* The indexes of the cache. *)

\* CacheIndexSound, of any cache.
Sound(c) ==
  /\ \A m \in MAC : c.mac[m] # None => c.exp[c.mac[m]] # None /\ c.mac[m][1] = m
  /\ \A i \in IMSI : c.imsi[i] # None => c.exp[c.imsi[i]] # None /\ c.imsi[i][2] = i

\* What indexing an entry, and unindexing one, writes.
LEMMA CacheWrites ==
  ASSUME NEW c \in Cache, NEW k \in Key, NEW e \in Nat
  PROVE  /\ LET d == UpsertAuthCache(c, k, e)
            IN /\ \A j \in Key : d.exp[j] = IF j = k THEN e ELSE c.exp[j]
               /\ \A m \in MAC : d.mac[m] = IF m = k[1] THEN k ELSE c.mac[m]
               /\ \A i \in IMSI : d.imsi[i] = IF i = k[2] THEN k ELSE c.imsi[i]
         /\ LET d == unindexAuthCache(c, k)
            IN /\ \A j \in Key : d.exp[j] = IF j = k THEN None ELSE c.exp[j]
               /\ \A m \in MAC : d.mac[m] = IF m = k[1] THEN None ELSE c.mac[m]
               /\ \A i \in IMSI : d.imsi[i] = IF i = k[2] THEN None ELSE c.imsi[i]
<1>1. k[1] \in MAC /\ k[2] \in IMSI
  BY DEF Key
<1>2. QED BY <1>1 DEF UpsertAuthCache, unindexAuthCache, Cache

\* Both leave the indexes sound, and what a lookup finds is in the cache:
\* unindexAuthCacheLocked deletes the entries of the MAC and of the IMSI even
\* when they belong to another key, so it may forget but never dangle.
LEMMA SoundOperators ==
  ASSUME NEW c \in Cache, Sound(c)
  PROVE  /\ \A k \in Key, e \in Nat : Sound(UpsertAuthCache(c, k, e))
         /\ \A k \in Key : Sound(unindexAuthCache(c, k))
         /\ \A m \in MAC, i \in OrNone(IMSI) :
              CacheEntry(c, m, i) # None => c.exp[CacheEntry(c, m, i)] # None
<1>0. /\ \A m \in MAC : c.mac[m] \in OrNone(Key)
      /\ \A i \in IMSI : c.imsi[i] \in OrNone(Key)
      /\ \A k \in Key : k # None
      /\ None \notin Nat
  BY CacheAssumption DEF Cache, Key
<1>1. ASSUME NEW k \in Key, NEW e \in Nat PROVE Sound(UpsertAuthCache(c, k, e))
  <2> DEFINE d == UpsertAuthCache(c, k, e)
  <2>1. /\ \A j \in Key : d.exp[j] = IF j = k THEN e ELSE c.exp[j]
        /\ \A m \in MAC : d.mac[m] = IF m = k[1] THEN k ELSE c.mac[m]
        /\ \A i \in IMSI : d.imsi[i] = IF i = k[2] THEN k ELSE c.imsi[i]
    BY CacheWrites
  <2> HIDE DEF d
  <2>2. QED BY <1>0, <2>1 DEF Sound, OrNone, d
<1>2. ASSUME NEW k \in Key PROVE Sound(unindexAuthCache(c, k))
  <2> DEFINE d == unindexAuthCache(c, k)
  <2>1. /\ \A j \in Key : d.exp[j] = IF j = k THEN None ELSE c.exp[j]
        /\ \A m \in MAC : d.mac[m] = IF m = k[1] THEN None ELSE c.mac[m]
        /\ \A i \in IMSI : d.imsi[i] = IF i = k[2] THEN None ELSE c.imsi[i]
    BY CacheWrites, 0 \in Nat
  <2> HIDE DEF d
  <2>2. QED BY <1>0, <2>1 DEF Sound, OrNone, d
<1>3. ASSUME NEW m \in MAC, NEW i \in OrNone(IMSI), CacheEntry(c, m, i) # None
      PROVE  c.exp[CacheEntry(c, m, i)] # None
  BY <1>3 DEF CacheEntry, Sound, OrNone
<1>4. QED BY <1>1, <1>2, <1>3

\* So do the compound operations, from a lookup on.
LEMMA SoundUpdates ==
  ASSUME ACTypeOK, Sound(cache)
  PROVE  /\ \A e \in OrNone(Key) : Sound(PurgeExpired(cache, e))
         /\ \A c \in Cache, k \in Key : Sound(c) => Sound(DeleteAuthCache(c, k))
         /\ \A k \in Key, x \in OrNone(Nat) : Sound(UpdateFromAccounting(k, x))
<1>1. cache \in Cache
  BY DEF ACTypeOK
<1>2. ASSUME NEW e \in OrNone(Key) PROVE Sound(PurgeExpired(cache, e))
  BY <1>1, SoundOperators DEF PurgeExpired, OrNone
<1>3. ASSUME NEW c \in Cache, NEW k \in Key, Sound(c) PROVE Sound(DeleteAuthCache(c, k))
  <2>1. k[1] \in MAC /\ c.mac[k[1]] \in OrNone(Key)
    BY DEF Key, Cache
  <2>2. QED BY <1>3, <2>1, SoundOperators DEF DeleteAuthCache, OrNone
<1>4. ASSUME NEW k \in Key, NEW x \in OrNone(Nat) PROVE Sound(UpdateFromAccounting(k, x))
  <2> DEFINE e == CacheEntry(cache, k[1], k[2])
             c == PurgeExpired(cache, e)
  <2>1. k[1] \in MAC /\ k[2] \in OrNone(IMSI)
    BY DEF Key, OrNone
  <2>2. e \in OrNone(Key) /\ (e # None => cache.exp[e] # None)
    BY <1>1, <2>1, CacheOperators, SoundOperators
  <2>3. c \in Cache /\ Sound(c)
    BY <2>2, <1>2, CacheUpdates
  <2>4. Valid(cache, e) => cache.exp[e] \in Nat
    BY <1>1, <2>2 DEF Valid, Cache, OrNone
  <2> HIDE DEF e, c
  <2>5. UpdateFromAccounting(k, x) \in
          {c} \cup {UpsertAuthCache(c, k, y) : y \in Nat}
    BY <2>4 DEF UpdateFromAccounting, OrNone, e, c
  <2>6. QED BY <2>3, <2>5, SoundOperators
<1>5. QED BY <1>2, <1>3, <1>4

\* The inductive invariant of the cache: no more than its types, for every
\* method leaves the indexes sound whatever it is called with.
SoundInv == ACTypeOK /\ KeyKnown /\ Sound(cache)

\* Every step leaves the indexes sound.
LEMMA SoundStep == SoundInv /\ [ACNext]_acVars => SoundInv'
<1> SUFFICES ASSUME SoundInv, [ACNext]_acVars PROVE Sound(cache')
  BY ACTypeStep DEF SoundInv, Sound
<1>0. ACTypeOK /\ KeyKnown /\ Sound(cache) /\ cache \in Cache /\ now + TTL \in Nat
  BY CacheAssumption DEF SoundInv, ACTypeOK
<1>1. \A m \in MAC, i \in OrNone(IMSI) : CacheEntry(cache, m, i) \in OrNone(Key)
  BY <1>0, CacheOperators
<1>2. \A m \in MAC, i \in OrNone(IMSI) :
        /\ AccountingSessions(m, i) \subseteq Key
        /\ \A s \in AccountingSessions(m, i) :
             RequestKey(m, i, s) \in Key /\ until[s] \in OrNone(Nat)
  BY <1>0 DEF AccountingSessions, RequestKey, Key, OrNone, ACTypeOK
<1>3. ASSUME NEW k \in Key, AccessAccept(k) PROVE Sound(cache')
  BY <1>0, <1>3, SoundOperators DEF AccessAccept
<1>4. ASSUME NEW p \in Proc, NEW e \in OrNone(Key), StartRecovery(p, e) PROVE Sound(cache')
  BY <1>0, <1>4, SoundUpdates DEF StartRecovery
<1>5. ASSUME NEW p \in Proc, NEW m \in MAC, NEW i \in OrNone(IMSI), AccountingStart(p, m, i)
      PROVE  Sound(cache')
  BY <1>0, <1>1, <1>2, <1>4, <1>5, SoundUpdates DEF AccountingStart
<1>6. ASSUME NEW m \in MAC, NEW i \in OrNone(IMSI), AccountingStop(m, i) PROVE Sound(cache')
  <2>1. PICK s \in AccountingSessions(m, i) :
          LET c == UpdateFromAccounting(RequestKey(m, i, s), until[s])
          IN cache' = IF ClearOnStop THEN DeleteAuthCache(c, s) ELSE c
    BY <1>6 DEF AccountingStop
  <2>2. QED BY <1>0, <1>2, <2>1, SoundUpdates, CacheUpdates
<1>7. ASSUME NEW m \in MAC, NEW i \in OrNone(IMSI), AccountingStopUnknown(m, i)
      PROVE  Sound(cache')
  <2>1. <<m, i>> \in Key
    BY <1>7 DEF AccountingStopUnknown, Key, OrNone
  <2>2. None \in OrNone(Nat)
    BY DEF OrNone
  <2>3. QED BY <1>0, <1>7, <2>1, <2>2, SoundUpdates, CacheUpdates DEF AccountingStopUnknown
<1>8. ASSUME NEW p \in Proc, NEW m \in MAC, DHCPRecovery(p, m) PROVE Sound(cache')
  <2>1. None \in OrNone(IMSI)
    BY DEF OrNone
  <2>2. QED BY <1>1, <1>4, <1>8, <2>1 DEF DHCPRecovery
<1>9. ASSUME NEW p \in Proc, recoveryAttach(p) PROVE Sound(cache')
  <2>1. job[p].key \in Key
    BY <1>0, <1>9 DEF recoveryAttach, KeyKnown
  <2>2. QED BY <1>0, <1>9, <2>1, SoundOperators DEF recoveryAttach
<1>10. ASSUME NEW p \in Proc, beginAuthCacheRecovery(p) \/ finishAuthCacheRecovery(p)
       PROVE  Sound(cache')
  <2>1. cache' = cache
    BY <1>10 DEF beginAuthCacheRecovery, finishAuthCacheRecovery
  <2>2. QED BY <1>0, <2>1
<1>11. CASE Tick \/ UNCHANGED acVars
  <2>1. cache' = cache
    BY <1>11 DEF Tick, acVars
  <2>2. QED BY <1>0, <2>1
<1>12. ASSUME NEW k \in Key, NEW named \in BOOLEAN
       PROVE  k[1] \in MAC /\ (IF named THEN k[2] ELSE None) \in OrNone(IMSI)
  BY DEF Key, OrNone
<1>13. QED BY <1>3, <1>5, <1>6, <1>7, <1>8, <1>9, <1>10, <1>11, <1>12 DEF ACNext, RecoveryStep

\* No index of the cache ever dangles, in any order of Access-Accepts,
\* Accounting requests, expiries and recoveries: what a lookup finds under a
\* MAC or an IMSI is an entry the cache still holds.
THEOREM CacheIndexesSound == ACSpec => []CacheIndexSound
<1>1. ACInit => SoundInv
  BY DEF ACInit, ACTypeOK, KeyKnown, Cache, OrNone, SoundInv, Sound
<1>2. SoundInv => CacheIndexSound
  BY DEF SoundInv, Sound, CacheIndexSound
<1>3. QED BY <1>1, <1>2, SoundStep, PTL DEF ACSpec

-----------------------------------------------------------------------------
(* The limiter. *)

\* What the limiter remembers of the recoveries that began: none of the last
\* minute is missing from attempts.
AttemptsKept ==
  \A k \in Key :
    /\ IsFiniteSet(starts[k]) /\ \A s \in starts[k] : s <= now
    /\ rec[k].attempts \subseteq starts[k]
    /\ {s \in starts[k] : s + Minute > now} \subseteq rec[k].attempts

\* The inductive invariant of the limiter.  PendingHasOwner makes two
\* goroutines exclude each other, AttemptsKept ties what the limiter counts
\* to what happened.
LimiterInv ==
  ACTypeOK /\ KeyKnown /\ PendingHasOwner /\ SingleRecovery /\ AttemptsKept /\ RateLimited

\* The steps that leave the limiter alone and move no goroutine in or out of
\* a recovery.
LEMMA OtherSteps ==
  ASSUME LimiterInv, [ACNext]_acVars,
         ~\E p \in Proc : beginAuthCacheRecovery(p) \/ finishAuthCacheRecovery(p)
  PROVE  /\ rec' = rec /\ starts' = starts /\ now' \in Nat /\ now' >= now
         /\ \A p \in Proc, k \in Key : Recovering(p, k)' <=> Recovering(p, k)
<1> USE DEF LimiterInv, ACTypeOK
<1>1. CASE Tick
  BY <1>1 DEF Tick, Recovering
<1>2. ASSUME NEW k \in Key, AccessAccept(k)
      PROVE  rec' = rec /\ starts' = starts /\ now' = now /\ job' = job
  BY <1>2 DEF AccessAccept
<1>3. ASSUME NEW p \in Proc, job[p].pc = "idle", NEW e, StartRecovery(p, e)
      PROVE  \A q \in Proc, k \in Key : Recovering(q, k)' <=> Recovering(q, k)
  BY <1>3 DEF StartRecovery, Recovering
<1>4. ASSUME NEW p \in Proc, NEW m, NEW i, AccountingStart(p, m, i)
      PROVE  /\ rec' = rec /\ starts' = starts /\ now' = now
             /\ \A q \in Proc, k \in Key : Recovering(q, k)' <=> Recovering(q, k)
  <2>1. CASE UNCHANGED job
    BY <1>4, <2>1 DEF AccountingStart, Recovering
  <2>2. CASE StartRecovery(p, CacheEntry(cache, m, i))
    BY <1>4, <2>2, <1>3 DEF AccountingStart
  <2>3. QED BY <1>4, <2>1, <2>2 DEF AccountingStart
<1>5. ASSUME NEW m, NEW i, AccountingStop(m, i) \/ AccountingStopUnknown(m, i)
      PROVE  rec' = rec /\ starts' = starts /\ now' = now /\ job' = job
  BY <1>5 DEF AccountingStop, AccountingStopUnknown
<1>6. ASSUME NEW p \in Proc, NEW m, DHCPRecovery(p, m)
      PROVE  /\ rec' = rec /\ starts' = starts /\ now' = now
             /\ \A q \in Proc, k \in Key : Recovering(q, k)' <=> Recovering(q, k)
  BY <1>6, <1>3 DEF DHCPRecovery
<1>7. ASSUME NEW p \in Proc, recoveryAttach(p)
      PROVE  /\ rec' = rec /\ starts' = starts /\ now' = now
             /\ \A q \in Proc, k \in Key : Recovering(q, k)' <=> Recovering(q, k)
  BY <1>7 DEF recoveryAttach, Recovering
<1>8. CASE UNCHANGED acVars
  BY <1>8 DEF acVars, Recovering
<1>9. job' = job => \A q \in Proc, k \in Key : Recovering(q, k)' <=> Recovering(q, k)
  BY DEF Recovering
<1>10. QED BY <1>1, <1>2, <1>4, <1>5, <1>6, <1>7, <1>8, <1>9 DEF ACNext, RecoveryStep

\* The window that ends at t.
Window(S, t) == {s \in S : s <= t /\ s + Minute > t}

\* One more start now: the windows that end before now are as they were, the
\* others hold nothing but the recent attempts and this one.
LEMMA OneMoreStart ==
  ASSUME LimiterInv, NEW k \in Key, Admitted(k), NEW t \in 1..MaxTime
  PROVE  Cardinality(Window(starts[k] \cup {now}, t)) <= MaxAttempts
<1> DEFINE W == Window(starts[k] \cup {now}, t)
<1>1. now \in Nat /\ starts[k] \subseteq Nat /\ MaxAttempts \in Nat /\ Minute \in Nat /\ MaxTime \in Nat /\ t \in Nat
  BY CacheAssumption DEF LimiterInv, ACTypeOK
<1>2. CASE t < now
  <2>1. W = {s \in starts[k] : s <= t /\ s + Minute > t}
    BY <1>1, <1>2 DEF Window
  <2>2. QED BY <2>1 DEF LimiterInv, RateLimited
<1>3. CASE ~(t < now)
  <2>1. Recent(k) \subseteq starts[k] /\ IsFiniteSet(starts[k])
    BY DEF Recent, LimiterInv, AttemptsKept
  <2>2. IsFiniteSet(Recent(k))
    BY <2>1, FS_Subset
  <2>3. W \subseteq Recent(k) \cup {now}
    <3> SUFFICES ASSUME NEW s \in W, s # now PROVE s \in Recent(k)
      OBVIOUS
    <3>1. s \in starts[k] /\ s + Minute > t
      BY DEF Window
    <3>2. s \in Nat /\ s + Minute > now
      BY <3>1, <1>1, <1>3
    <3>3. QED BY <3>1, <3>2 DEF Recent, LimiterInv, AttemptsKept
  <2>4. /\ IsFiniteSet(Recent(k) \cup {now})
        /\ Cardinality(Recent(k) \cup {now}) <= Cardinality(Recent(k)) + 1
        /\ Cardinality(Recent(k)) \in Nat
    <3>1. Cardinality(Recent(k)) \in Nat
      BY <2>2, FS_CardinalityType
    <3>2. /\ IsFiniteSet(Recent(k) \cup {now})
          /\ Cardinality(Recent(k) \cup {now}) =
               IF now \in Recent(k) THEN Cardinality(Recent(k)) ELSE Cardinality(Recent(k)) + 1
      BY <2>2, FS_AddElement
    <3>3. QED BY <3>1, <3>2
  <2>5. IsFiniteSet(W) /\ Cardinality(W) <= Cardinality(Recent(k) \cup {now})
    BY <2>3, <2>4, FS_Subset
  <2>6. Cardinality(W) \in Nat /\ Cardinality(Recent(k) \cup {now}) \in Nat
    BY <2>4, <2>5, FS_CardinalityType
  <2>7. Cardinality(Recent(k)) < MaxAttempts
    BY DEF Admitted
  <2>8. QED BY <1>1, <2>4, <2>5, <2>6, <2>7
<1>4. QED BY <1>2, <1>3

\* The limiter's invariant is inductive.
LEMMA LimiterStep == LimiterInv /\ [ACNext]_acVars => LimiterInv'
<1> SUFFICES ASSUME LimiterInv, [ACNext]_acVars PROVE LimiterInv'
  OBVIOUS
<1>a. ACTypeOK /\ KeyKnown /\ ACTypeOK' /\ KeyKnown'
  BY ACTypeStep DEF LimiterInv
<1>b. Minute \in Nat /\ now \in Nat /\ \A k \in Key : starts[k] \subseteq Nat
  BY <1>a, CacheAssumption DEF ACTypeOK
<1>1. ASSUME NEW p \in Proc, beginAuthCacheRecovery(p), Admitted(job[p].key)
      PROVE  PendingHasOwner' /\ SingleRecovery' /\ AttemptsKept' /\ RateLimited'
  <2> DEFINE k == job[p].key
  <2>1. /\ k \in Key /\ job[p].pc = "begin" /\ now' = now
        /\ job' = [job EXCEPT ![p].pc = "attach"]
        /\ rec' = [rec EXCEPT ![k] = [pending |-> TRUE, lastAt |-> now,
                                      attempts |-> Recent(k) \cup {now}]]
        /\ starts' = [starts EXCEPT ![k] = @ \cup {now}]
    BY <1>1, <1>a DEF beginAuthCacheRecovery, KeyKnown
  <2>2. ~rec[k].pending /\ ~\E q \in Proc : Recovering(q, k)
    BY <1>1, <2>1 DEF Admitted, Suppressed, LimiterInv, PendingHasOwner
  <2>3. \A q \in Proc, j \in Key : Recovering(q, j)' <=> Recovering(q, j) \/ (q = p /\ j = k)
    BY <2>1, <1>a DEF Recovering, ACTypeOK
  <2>4. \A j \in Key : rec'[j].pending <=> (rec[j].pending \/ j = k)
    BY <2>1, <1>a DEF ACTypeOK
  <2>5. PendingHasOwner' /\ SingleRecovery'
    BY <2>2, <2>3, <2>4 DEF LimiterInv, PendingHasOwner, SingleRecovery
  <2>6. ASSUME NEW j \in Key, j # k PROVE rec'[j] = rec[j] /\ starts'[j] = starts[j]
    BY <2>1, <2>6, <1>a DEF ACTypeOK
  <2>7. starts'[k] = starts[k] \cup {now} /\ rec'[k].attempts = Recent(k) \cup {now}
    BY <2>1, <1>a DEF ACTypeOK
  <2>8. AttemptsKept'
    <3> SUFFICES ASSUME NEW j \in Key
                 PROVE  /\ IsFiniteSet(starts'[j]) /\ \A s \in starts'[j] : s <= now
                        /\ rec'[j].attempts \subseteq starts'[j]
                        /\ {s \in starts'[j] : s + Minute > now} \subseteq rec'[j].attempts
      BY <2>1 DEF AttemptsKept
    <3>1. /\ IsFiniteSet(starts[j]) /\ \A s \in starts[j] : s <= now
          /\ rec[j].attempts \subseteq starts[j]
          /\ {s \in starts[j] : s + Minute > now} \subseteq rec[j].attempts
      BY DEF LimiterInv, AttemptsKept
    <3>2. CASE j # k
      BY <3>1, <3>2, <2>6
    <3>3. CASE j = k
      <4>1. IsFiniteSet(starts[k] \cup {now})
        BY <3>1, <3>3, FS_AddElement
      <4>2. \A s \in starts[k] \cup {now} : s <= now
        BY <3>1, <3>3, <1>b
      <4>3. Recent(k) \subseteq starts[k]
        BY <3>1, <3>3 DEF Recent
      <4>4. {s \in starts[k] \cup {now} : s + Minute > now} \subseteq Recent(k) \cup {now}
        BY <3>1, <3>3 DEF Recent
      <4>5. QED BY <3>3, <2>7, <4>1, <4>2, <4>3, <4>4
    <3>4. QED BY <3>2, <3>3
  <2>9. RateLimited'
    <3> SUFFICES ASSUME NEW j \in Key, NEW t \in 1..MaxTime
                 PROVE  Cardinality({s \in starts'[j] : s <= t /\ s + Minute > t}) <= MaxAttempts
      BY DEF RateLimited
    <3>1. CASE j # k
      BY <3>1, <2>6 DEF LimiterInv, RateLimited
    <3>2. CASE j = k
      BY <3>2, <2>1, <2>7, <1>1, OneMoreStart DEF Window
    <3>3. QED BY <3>1, <3>2
  <2>10. QED BY <2>5, <2>8, <2>9
<1>2. ASSUME NEW p \in Proc, beginAuthCacheRecovery(p), ~Admitted(job[p].key)
      PROVE  PendingHasOwner' /\ SingleRecovery' /\ AttemptsKept' /\ RateLimited'
  <2> DEFINE k == job[p].key
  <2>1. /\ k \in Key /\ job[p].pc = "begin" /\ now' = now /\ starts' = starts
        /\ job' = [job EXCEPT ![p] = [pc |-> "idle", key |-> None]]
        /\ rec' = rec \/ rec' = [rec EXCEPT ![k].attempts = Recent(k)]
    BY <1>2, <1>a DEF beginAuthCacheRecovery, KeyKnown
  <2>2. \A q \in Proc, j \in Key : Recovering(q, j)' <=> Recovering(q, j)
    BY <2>1, <1>a DEF Recovering, ACTypeOK
  <2>3. \A j \in Key : /\ rec'[j].pending <=> rec[j].pending
                       /\ rec'[j].attempts \in {rec[j].attempts, Recent(j)}
    BY <2>1, <1>a DEF ACTypeOK
  <2>4. PendingHasOwner' /\ SingleRecovery'
    BY <2>2, <2>3 DEF LimiterInv, PendingHasOwner, SingleRecovery
  <2>5. AttemptsKept'
    BY <2>1, <2>3, <1>b DEF LimiterInv, AttemptsKept, Recent
  <2>6. QED BY <2>1, <2>4, <2>5 DEF LimiterInv, RateLimited
<1>3. ASSUME NEW p \in Proc, finishAuthCacheRecovery(p)
      PROVE  PendingHasOwner' /\ SingleRecovery' /\ AttemptsKept' /\ RateLimited'
  <2> DEFINE k == job[p].key
  <2>1. /\ k \in Key /\ job[p].pc = "finish" /\ now' = now /\ starts' = starts
        /\ job' = [job EXCEPT ![p] = [pc |-> "idle", key |-> None]]
        /\ rec' = [rec EXCEPT ![k].pending = FALSE, ![k].lastAt = now]
    BY <1>3, <1>a DEF finishAuthCacheRecovery, KeyKnown
  <2>2. Recovering(p, k)
    BY <2>1 DEF Recovering
  <2>3. \A q \in Proc, j \in Key : Recovering(q, j)' <=> Recovering(q, j) /\ q # p
    BY <2>1, <1>a, CacheAssumption DEF Recovering, ACTypeOK
  <2>4. \A j \in Key : /\ rec'[j].pending <=> rec[j].pending /\ j # k
                       /\ rec'[j].attempts = rec[j].attempts
    BY <2>1, <1>a DEF ACTypeOK
  <2>5. \A j \in Key : Recovering(p, j) => j = k
    BY DEF Recovering
  <2>6. PendingHasOwner' /\ SingleRecovery'
    BY <2>2, <2>3, <2>4, <2>5 DEF LimiterInv, PendingHasOwner, SingleRecovery
  <2>7. QED BY <2>1, <2>4, <2>6 DEF LimiterInv, AttemptsKept, RateLimited
<1>4. ASSUME ~\E p \in Proc : beginAuthCacheRecovery(p) \/ finishAuthCacheRecovery(p)
      PROVE  PendingHasOwner' /\ SingleRecovery' /\ AttemptsKept' /\ RateLimited'
  <2>1. /\ rec' = rec /\ starts' = starts /\ now' \in Nat /\ now' >= now
        /\ \A p \in Proc, k \in Key : Recovering(p, k)' <=> Recovering(p, k)
    BY <1>4, OtherSteps
  <2>2. PendingHasOwner' /\ SingleRecovery'
    BY <2>1 DEF LimiterInv, PendingHasOwner, SingleRecovery
  <2>3. AttemptsKept'
    BY <2>1, <1>b DEF LimiterInv, AttemptsKept
  <2>4. QED BY <2>1, <2>2, <2>3 DEF LimiterInv, RateLimited
<1>5. QED BY <1>a, <1>1, <1>2, <1>3, <1>4 DEF LimiterInv

\* The limiter starts out idle.
LEMMA LimiterInit == ACInit => LimiterInv
<1> SUFFICES ASSUME ACInit PROVE LimiterInv
  OBVIOUS
<1>1. ACTypeOK /\ KeyKnown
  BY DEF ACInit, ACTypeOK, KeyKnown, Cache, OrNone
<1>2. PendingHasOwner /\ SingleRecovery
  BY DEF ACInit, PendingHasOwner, SingleRecovery, Recovering
<1>3. AttemptsKept
  BY FS_EmptySet DEF ACInit, AttemptsKept
<1>4. \A k \in Key, t \in 1..MaxTime : {s \in starts[k] : s <= t /\ s + Minute > t} = {}
  BY DEF ACInit
<1>5. Cardinality({}) = 0 /\ MaxAttempts \in Nat
  BY FS_EmptySet, CacheAssumption
<1>6. RateLimited
  BY <1>4, <1>5 DEF RateLimited
<1>7. QED BY <1>1, <1>2, <1>3, <1>6 DEF LimiterInv

\* One recovery of a subscriber runs at a time, for any number of goroutines.
THEOREM OneRecoveryAtATime == ACSpec => []SingleRecovery
<1>1. LimiterInv => SingleRecovery
  BY DEF LimiterInv
<1>2. QED BY <1>1, LimiterInit, LimiterStep, PTL DEF ACSpec

\* The pending mark of the limiter is never left behind: as long as it is set
\* a goroutine is between the two halves and will clear it.
THEOREM PendingMarkOwned == ACSpec => []PendingHasOwner
<1>1. LimiterInv => PendingHasOwner
  BY DEF LimiterInv
<1>2. QED BY <1>1, LimiterInit, LimiterStep, PTL DEF ACSpec

\* No window of a minute holds more recoveries of a subscriber than configured,
\* whatever the cooldown, the window and the limit are.
THEOREM RecoveriesAreLimited == ACSpec => []RateLimited
<1>1. LimiterInv => RateLimited
  BY DEF LimiterInv
<1>2. QED BY <1>1, LimiterInit, LimiterStep, PTL DEF ACSpec
=============================================================================
