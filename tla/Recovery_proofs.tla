-------------------------- MODULE Recovery_proofs --------------------------
(***************************************************************************)
(* Proofs about the recovery of lost sessions, for any clients, goroutines *)
(* and sessions: the two tombstone indexes agree, a tombstone is found     *)
(* until it expires, is replaced or completed, none is brought back, and a *)
(* Disconnect-Request for a GTP-U error never goes to a recovered client.  *)
(*                                                                         *)
(* RInv is the inductive invariant.  Moves says what a step of one         *)
(* goroutine does to everything but the tombstones; the lemmas called      *)
(* ...Moves show it for each action, and MovesBase that it keeps Base.     *)
(* Tombs says what a step does to the tombstones; the lemmas called        *)
(* ...Tombs show it for each action.                                       *)
(***************************************************************************)
EXTENDS Recovery, TLAPS

\* Where a goroutine works on one session, ...
Owning == {"recheck", "mark", "tombstone", "disconnect", "exchange", "detach", "stop",
           "complete"}

\* ... which was created.
Used(i) == i \in SessionID /\ i <= next

\* The sessions up to next were created, each for a client.
Sessions ==
  \A i \in SessionID : /\ sess[i].st # "unused" <=> i <= next
                       /\ i <= next => sess[i].c \in Client

\* The goroutine knows its client, and the session it works on is of that client.
Named(p) ==
  /\ job[p].pc # "idle" => job[p].c \in Client
  /\ job[p].pc \in Owning \/ (job[p].pc = "lock" /\ job[p].kind # "attach")
       => Used(job[p].id) /\ sess[job[p].id].c = job[p].c

\* So does every goroutine.
Names == \A p \in Proc : Named(p)

\* Tombstones r are indexed soundly: an entry names a session with that key, by
\* MAC one that has a tombstone, and what is found by IMSI is found by its own MAC.
Sound(r) ==
  /\ r \in Tombstones
  /\ \A m \in MAC : r.mac[m] # None =>
       Used(r.mac[m]) /\ MacOf(r.mac[m]) = m /\ r.of[r.mac[m]] # None
  /\ \A s \in IMSI : r.imsi[s] # None =>
       /\ Used(r.imsi[s]) /\ ImsiOf(r.imsi[s]) = s
       /\ r.mac[MacOf(r.imsi[s])] = r.imsi[s]

\* Where a goroutine is inside the section the subscriber lock protects ...
Holds(p) ==
  \/ job[p].pc \in {"find", "activate", "complete"}
  \/ /\ job[p].kind = "gtpu_error"
     /\ job[p].pc \in {"recheck", "mark", "tombstone", "disconnect", "exchange", "detach"}

\* ... it holds that lock.
Locks == \A p \in Proc : Holds(p) => lock[Imsi(p)] = p

\* A client has at most one active session.
Single == \A c \in Client : \A i, j \in ActiveOf(c) : i = j

\* A GTP-U error is handled for the only active session of the client, and once
\* that is marked there is none.
Lost(p) ==
  job[p].kind = "gtpu_error" =>
    /\ job[p].pc = "mark" => ActiveOf(job[p].c) \subseteq {job[p].id}
    /\ job[p].pc \in {"tombstone", "disconnect", "exchange"} => ActiveOf(job[p].c) = {}

\* This is so for every goroutine.
Losses == \A p \in Proc : Lost(p)

\* The inductive invariant.  TombstonesIndexed and DisconnectSparesRecovered speak
\* of entries and of goroutines at one label; to keep them one must know whose
\* session a goroutine works on, which lock it holds and that a client has one
\* active session.
RInv == /\ RTypeOK /\ Sessions /\ Names /\ Sound(rec) /\ Locks /\ Single /\ Losses
        /\ DisconnectingHasHandler
-----------------------------------------------------------------------------

\* A client has a MAC and an IMSI, and the MAC is its own.
LEMMA ClientKeys ==
  ASSUME NEW c \in Client
  PROVE  /\ c[1] \in MAC /\ c[2] \in IMSI
         /\ \A d \in Client : c[1] = d[1] => c[2] = d[2] /\ c = d
BY RecoveryAssumption

\* A session that was created has the keys of a client, and sessions with one
\* MAC are of one client: the indexes of two tombstones with one MAC agree on the
\* IMSI.
LEMMA UsedKeys ==
  ASSUME Sessions, NEW i, Used(i)
  PROVE  /\ i \in SessionID /\ i # None /\ MacOf(i) \in MAC /\ ImsiOf(i) \in IMSI
         /\ sess[i].c \in Client
         /\ \A j : Used(j) /\ MacOf(j) = MacOf(i) => ImsiOf(j) = ImsiOf(i) /\ sess[j].c = sess[i].c
<1>1. i \in SessionID /\ sess[i].c \in Client /\ i # None
  BY RecoveryAssumption DEF Used, Sessions, SessionID
<1>2. \A j : Used(j) => sess[j].c \in Client
  BY DEF Used, Sessions
<1> QED
  BY <1>1, <1>2, ClientKeys DEF MacOf, ImsiOf

\* indexRecoveryLocked: the tombstone and its two index entries, and nothing else.
LEMMA IndexFields ==
  ASSUME Sessions, NEW i, Used(i), NEW r \in Tombstones, NEW t \in Tombstone
  PROVE  LET x == indexRecovery(r, i, t)
         IN /\ x \in Tombstones
            /\ x.of = [r.of EXCEPT ![i] = t]
            /\ x.mac = [r.mac EXCEPT ![MacOf(i)] = i]
            /\ x.imsi = [r.imsi EXCEPT ![ImsiOf(i)] = i]
<1>1. i \in SessionID /\ MacOf(i) \in MAC /\ ImsiOf(i) \in IMSI
  BY UsedKeys
<1> HIDE DEF MacOf, ImsiOf
<1> DEFINE x == [r EXCEPT !.of = [r.of EXCEPT ![i] = t], !.mac = [r.mac EXCEPT ![MacOf(i)] = i],
                          !.imsi = [r.imsi EXCEPT ![ImsiOf(i)] = i]]
<1>2. indexRecovery(r, i, t) = x
  BY DEF indexRecovery, Tombstones
<1>3. /\ [r.of EXCEPT ![i] = t] \in [SessionID -> OrNone(Tombstone)]
      /\ [r.mac EXCEPT ![MacOf(i)] = i] \in [MAC -> OrNone(SessionID)]
      /\ [r.imsi EXCEPT ![ImsiOf(i)] = i] \in [IMSI -> OrNone(SessionID)]
  BY <1>1 DEF Tombstones, OrNone
<1>4. /\ x \in Tombstones
      /\ x.of = [r.of EXCEPT ![i] = t]
      /\ x.mac = [r.mac EXCEPT ![MacOf(i)] = i]
      /\ x.imsi = [r.imsi EXCEPT ![ImsiOf(i)] = i]
  BY <1>3 DEF Tombstones
<1> QED
  BY <1>2, <1>4

\* unindexRecoveryLocked: the tombstone and its two index entries, and nothing else.
LEMMA UnindexFields ==
  ASSUME Sessions, NEW i, Used(i), NEW r \in Tombstones
  PROVE  LET x == unindexRecovery(r, i)
         IN /\ x \in Tombstones
            /\ x.of = [r.of EXCEPT ![i] = None]
            /\ x.mac = [r.mac EXCEPT ![MacOf(i)] = None]
            /\ x.imsi = [r.imsi EXCEPT ![ImsiOf(i)] = None]
<1>1. i \in SessionID /\ MacOf(i) \in MAC /\ ImsiOf(i) \in IMSI
  BY UsedKeys
<1> DEFINE x == [r EXCEPT !.of = [r.of EXCEPT ![i] = None],
                          !.mac = [r.mac EXCEPT ![MacOf(i)] = None],
                          !.imsi = [r.imsi EXCEPT ![ImsiOf(i)] = None]]
<1>2. unindexRecovery(r, i) = x
  BY DEF unindexRecovery, Tombstones
<1>3. /\ [r.of EXCEPT ![i] = None] \in [SessionID -> OrNone(Tombstone)]
      /\ [r.mac EXCEPT ![MacOf(i)] = None] \in [MAC -> OrNone(SessionID)]
      /\ [r.imsi EXCEPT ![ImsiOf(i)] = None] \in [IMSI -> OrNone(SessionID)]
  BY <1>1 DEF Tombstones, OrNone
<1>4. /\ x \in Tombstones
      /\ x.of = [r.of EXCEPT ![i] = None]
      /\ x.mac = [r.mac EXCEPT ![MacOf(i)] = None]
      /\ x.imsi = [r.imsi EXCEPT ![ImsiOf(i)] = None]
  BY <1>3 DEF Tombstones
<1> QED
  BY <1>2, <1>4

\* indexRecoveryLocked keeps the indexes sound: the entry by IMSI it takes from
\* another device of the subscriber leaves that device its entry by MAC.
LEMMA IndexSoundly ==
  ASSUME Sessions, NEW i, Used(i), NEW r, Sound(r), NEW t \in Tombstone
  PROVE  Sound(indexRecovery(r, i, t))
<1> DEFINE x == indexRecovery(r, i, t)
<1>1. /\ x \in Tombstones
      /\ x.of = [r.of EXCEPT ![i] = t]
      /\ x.mac = [r.mac EXCEPT ![MacOf(i)] = i]
      /\ x.imsi = [r.imsi EXCEPT ![ImsiOf(i)] = i]
  BY IndexFields DEF Sound
<1>2. /\ i \in SessionID /\ MacOf(i) \in MAC /\ ImsiOf(i) \in IMSI /\ i # None
      /\ \A j : Used(j) /\ MacOf(j) = MacOf(i) => ImsiOf(j) = ImsiOf(i)
  BY UsedKeys
<1>3. /\ r.of \in [SessionID -> OrNone(Tombstone)] /\ r.mac \in [MAC -> OrNone(SessionID)]
      /\ r.imsi \in [IMSI -> OrNone(SessionID)]
  BY DEF Sound, Tombstones
<1>n. t # None
  BY TombstoneAssumption
<1> HIDE DEF x
<1>4. ASSUME NEW m \in MAC, x.mac[m] # None
      PROVE  Used(x.mac[m]) /\ MacOf(x.mac[m]) = m /\ x.of[x.mac[m]] # None
  <2>1. CASE m = MacOf(i)
    BY <1>1, <1>2, <1>3, <1>n, <2>1
  <2>2. CASE m # MacOf(i)
    <3>1. x.mac[m] = r.mac[m] /\ r.mac[m] # i /\ Used(r.mac[m]) /\ MacOf(r.mac[m]) = m
          /\ r.of[r.mac[m]] # None
      BY <1>1, <1>2, <1>3, <1>4, <2>2 DEF Sound
    <3>2. r.mac[m] \in SessionID
      BY <3>1 DEF Used
    <3> QED
      BY <1>1, <1>2, <1>3, <3>1, <3>2
  <2> QED
    BY <2>1, <2>2
<1>5. ASSUME NEW s \in IMSI, x.imsi[s] # None
      PROVE  /\ Used(x.imsi[s]) /\ ImsiOf(x.imsi[s]) = s
             /\ x.mac[MacOf(x.imsi[s])] = x.imsi[s]
  <2>1. CASE s = ImsiOf(i)
    BY <1>1, <1>2, <1>3, <2>1
  <2>2. CASE s # ImsiOf(i)
    <3>1. x.imsi[s] = r.imsi[s] /\ Used(r.imsi[s]) /\ ImsiOf(r.imsi[s]) = s
          /\ r.mac[MacOf(r.imsi[s])] = r.imsi[s]
      BY <1>1, <1>2, <1>3, <1>5, <2>2 DEF Sound
    <3>2. MacOf(r.imsi[s]) \in MAC /\ MacOf(r.imsi[s]) # MacOf(i)
      BY <1>2, <2>2, <3>1, UsedKeys
    <3> QED
      BY <1>1, <1>2, <1>3, <3>1, <3>2
  <2> QED
    BY <2>1, <2>2
<1>6. Sound(x)
  BY <1>1, <1>4, <1>5 DEF Sound
<1> QED
  BY <1>6 DEF x

\* unindexRecoveryLocked keeps the indexes sound, although the entry by IMSI it
\* deletes may name the tombstone of another device.
LEMMA UnindexSoundly ==
  ASSUME Sessions, NEW i, Used(i), NEW r, Sound(r)
  PROVE  Sound(unindexRecovery(r, i))
<1> DEFINE x == unindexRecovery(r, i)
<1>1. /\ x \in Tombstones
      /\ x.of = [r.of EXCEPT ![i] = None]
      /\ x.mac = [r.mac EXCEPT ![MacOf(i)] = None]
      /\ x.imsi = [r.imsi EXCEPT ![ImsiOf(i)] = None]
  BY UnindexFields DEF Sound
<1>2. /\ i \in SessionID /\ MacOf(i) \in MAC /\ ImsiOf(i) \in IMSI /\ i # None
      /\ \A j : Used(j) /\ MacOf(j) = MacOf(i) => ImsiOf(j) = ImsiOf(i)
  BY UsedKeys
<1>3. /\ r.of \in [SessionID -> OrNone(Tombstone)] /\ r.mac \in [MAC -> OrNone(SessionID)]
      /\ r.imsi \in [IMSI -> OrNone(SessionID)]
  BY DEF Sound, Tombstones
<1> HIDE DEF x
<1>4. ASSUME NEW m \in MAC, x.mac[m] # None
      PROVE  Used(x.mac[m]) /\ MacOf(x.mac[m]) = m /\ x.of[x.mac[m]] # None
  <2>1. m # MacOf(i)
    BY <1>1, <1>2, <1>3, <1>4
  <2>2. x.mac[m] = r.mac[m] /\ r.mac[m] # i /\ Used(r.mac[m]) /\ MacOf(r.mac[m]) = m
        /\ r.of[r.mac[m]] # None
    BY <1>1, <1>2, <1>3, <1>4, <2>1 DEF Sound
  <2>3. r.mac[m] \in SessionID
    BY <2>2 DEF Used
  <2> QED
    BY <1>1, <1>2, <1>3, <2>2, <2>3
<1>5. ASSUME NEW s \in IMSI, x.imsi[s] # None
      PROVE  /\ Used(x.imsi[s]) /\ ImsiOf(x.imsi[s]) = s
             /\ x.mac[MacOf(x.imsi[s])] = x.imsi[s]
  <2>1. s # ImsiOf(i)
    BY <1>1, <1>2, <1>3, <1>5
  <2>2. x.imsi[s] = r.imsi[s] /\ Used(r.imsi[s]) /\ ImsiOf(r.imsi[s]) = s
        /\ r.mac[MacOf(r.imsi[s])] = r.imsi[s]
    BY <1>1, <1>2, <1>3, <1>5, <2>1 DEF Sound
  <2>3. MacOf(r.imsi[s]) \in MAC /\ MacOf(r.imsi[s]) # MacOf(i)
    BY <1>2, <2>1, <2>2, UsedKeys
  <2> QED
    BY <1>1, <1>2, <1>3, <2>2, <2>3
<1>6. Sound(x)
  BY <1>1, <1>4, <1>5 DEF Sound
<1> QED
  BY <1>6 DEF x

\* A tombstone that is found at all is found by its own MAC.
LEMMA IndexedByMAC ==
  ASSUME Sessions, Sound(rec), NEW i \in SessionID, Indexed(i)
  PROVE  Used(i) /\ rec.mac[MacOf(i)] = i /\ rec.of[i] \in Tombstone
<1>1. i # None
  BY RecoveryAssumption DEF SessionID
<1>2. Used(i) /\ rec.mac[MacOf(i)] = i
  BY <1>1 DEF Indexed, Sound
<1>3. MacOf(i) \in MAC
  BY <1>2, UsedKeys
<1> QED
  BY <1>1, <1>2, <1>3 DEF Sound, Tombstones, OrNone

\* What dropping tombstone i, the one its MAC finds, leaves.
Dropped(i) ==
  /\ Sound(rec')
  /\ \A m \in MAC : \/ rec'.mac[m] = rec.mac[m] /\ rec.mac[m] # i
                    \/ rec'.mac[m] = None /\ rec.mac[m] = i
  /\ \A j \in SessionID : j # i => rec'.of[j] = rec.of[j]

\* Dropping a tombstone that is found leaves the others and their entries by MAC.
LEMMA DropEffect ==
  ASSUME Sessions, Sound(rec), NEW i \in SessionID, Indexed(i), rec' = unindexRecovery(rec, i)
  PROVE  Dropped(i)
<1>1. Used(i) /\ rec.mac[MacOf(i)] = i
  BY IndexedByMAC
<1>2. Sound(rec')
  BY <1>1, UnindexSoundly
<1>3. /\ rec'.of = [rec.of EXCEPT ![i] = None]
      /\ rec'.mac = [rec.mac EXCEPT ![MacOf(i)] = None]
  <2>1. rec \in Tombstones
    BY DEF Sound
  <2> DEFINE x == unindexRecovery(rec, i)
  <2>2. /\ x \in Tombstones
        /\ x.of = [rec.of EXCEPT ![i] = None]
        /\ x.mac = [rec.mac EXCEPT ![MacOf(i)] = None]
        /\ x.imsi = [rec.imsi EXCEPT ![ImsiOf(i)] = None]
    BY <1>1, <2>1, UnindexFields
  <2> QED
    BY <2>2
<1>4. /\ rec.of \in [SessionID -> OrNone(Tombstone)] /\ rec.mac \in [MAC -> OrNone(SessionID)]
  BY DEF Sound, Tombstones
<1>5. \A m \in MAC : m # MacOf(i) => rec.mac[m] # i
  BY UsedKeys, <1>1 DEF Sound
<1>6. i # None /\ MacOf(i) \in MAC
  BY <1>1, UsedKeys
<1>7. \A m \in MAC : \/ rec'.mac[m] = rec.mac[m] /\ rec.mac[m] # i
                     \/ rec'.mac[m] = None /\ rec.mac[m] = i
  BY <1>1, <1>3, <1>4, <1>5, <1>6
<1>8. \A j \in SessionID : j # i => rec'.of[j] = rec.of[j]
  BY <1>3, <1>4
<1> QED
  BY <1>2, <1>7, <1>8 DEF Dropped

\* What indexing a tombstone of session i leaves.
Placed(i, t) ==
  /\ Sound(rec')
  /\ \A m \in MAC : IF m = MacOf(i) THEN rec'.mac[m] = i ELSE rec'.mac[m] = rec.mac[m]
  /\ \A j \in SessionID : IF j = i THEN rec'.of[j] = t ELSE rec'.of[j] = rec.of[j]

\* Indexing a tombstone, with or without removing its old entries first, leaves the
\* others and their entries by MAC.
LEMMA PlaceEffect ==
  ASSUME Sessions, Sound(rec), NEW i, Used(i), NEW t \in Tombstone,
         \/ rec' = indexRecovery(rec, i, t)
         \/ rec' = indexRecovery(unindexRecovery(rec, i), i, t)
  PROVE  Placed(i, t)
<1>1. /\ rec.of \in [SessionID -> OrNone(Tombstone)] /\ rec.mac \in [MAC -> OrNone(SessionID)]
      /\ rec \in Tombstones
  BY DEF Sound, Tombstones
<1>2. i \in SessionID /\ MacOf(i) \in MAC
  BY UsedKeys
<1>3. CASE rec' = indexRecovery(rec, i, t)
  <2>1. Sound(rec')
    BY <1>3, IndexSoundly
  <2>2. rec'.of = [rec.of EXCEPT ![i] = t] /\ rec'.mac = [rec.mac EXCEPT ![MacOf(i)] = i]
    <3> DEFINE x == indexRecovery(rec, i, t)
    <3>1. /\ x \in Tombstones
          /\ x.of = [rec.of EXCEPT ![i] = t]
          /\ x.mac = [rec.mac EXCEPT ![MacOf(i)] = i]
          /\ x.imsi = [rec.imsi EXCEPT ![ImsiOf(i)] = i]
      BY <1>1, IndexFields
    <3> QED
      BY <1>3, <3>1
  <2> QED
    BY <1>1, <1>2, <2>1, <2>2 DEF Placed
<1>4. CASE rec' = indexRecovery(unindexRecovery(rec, i), i, t)
  <2> DEFINE r == unindexRecovery(rec, i)
  <2>1. /\ Sound(r) /\ r \in Tombstones
        /\ r.of = [rec.of EXCEPT ![i] = None] /\ r.mac = [rec.mac EXCEPT ![MacOf(i)] = None]
    BY <1>1, UnindexSoundly, UnindexFields
  <2>2. rec' = indexRecovery(r, i, t)
    BY <1>4
  <2> HIDE DEF r
  <2>3. Sound(rec')
    BY <2>1, <2>2, IndexSoundly
  <2>4. rec'.of = [r.of EXCEPT ![i] = t] /\ rec'.mac = [r.mac EXCEPT ![MacOf(i)] = i]
    <3> DEFINE x == indexRecovery(r, i, t)
    <3>1. /\ x \in Tombstones
          /\ x.of = [r.of EXCEPT ![i] = t]
          /\ x.mac = [r.mac EXCEPT ![MacOf(i)] = i]
          /\ x.imsi = [r.imsi EXCEPT ![ImsiOf(i)] = i]
      BY <2>1, IndexFields
    <3> QED
      BY <2>2, <3>1
  <2> QED
    BY <1>1, <1>2, <2>1, <2>3, <2>4 DEF Placed
<1> QED
  BY <1>3, <1>4

\* UpdateRecovery leaves all as it is, drops the tombstone because it has expired,
\* or gives it the new state: it never creates one.
LEMMA UpdateEffect ==
  ASSUME Sessions, Sound(rec), NEW i \in SessionID,
         NEW new \in [RecoveryState -> RecoveryState], UpdateRecovery(i, new)
  PROVE  \/ ~Indexed(i) /\ rec' = rec
         \/ Indexed(i) /\ recoveryExpired(i) /\ Dropped(i)
         \/ Indexed(i) /\ \E t \in Tombstone : t.state = new[rec.of[i].state] /\ Placed(i, t)
<1>1. CASE ~Indexed(i)
  BY <1>1 DEF UpdateRecovery
<1>2. CASE Indexed(i) /\ recoveryExpired(i)
  BY <1>2, DropEffect DEF UpdateRecovery
<1>3. CASE Indexed(i) /\ ~recoveryExpired(i)
  <2> DEFINE t == [rec.of[i] EXCEPT !.state = new[rec.of[i].state]]
  <2>1. Used(i) /\ rec.of[i] \in Tombstone
    BY <1>3, IndexedByMAC
  <2>2. t \in Tombstone /\ t.state = new[rec.of[i].state]
    BY <2>1 DEF Tombstone
  <2>3. rec' = indexRecovery(unindexRecovery(rec, i), i, t)
    BY <1>3 DEF UpdateRecovery
  <2> HIDE DEF t
  <2> QED
    BY <1>3, <2>1, <2>2, <2>3, PlaceEffect
<1> QED
  BY <1>1, <1>2, <1>3

\* What FindRecovery returns is indexed.
LEMMA FoundIsIndexed ==
  ASSUME Sound(rec), NEW c \in Client
  PROVE  /\ FindRecovery(c) \in OrNone(SessionID)
         /\ FindRecovery(c) # None => Indexed(FindRecovery(c))
BY ClientKeys DEF Sound, Tombstones, FindRecovery, Indexed

\* A lookup changes nothing or drops the expired tombstone it came upon.
LEMMA LookEffect ==
  ASSUME Sessions, Sound(rec), NEW i \in OrNone(SessionID), i # None => Indexed(i),
         rec' = Looked(i)
  PROVE  rec' = rec \/ (i \in SessionID /\ recoveryExpired(i) /\ Dropped(i))
<1>1. CASE recoveryExpired(i)
  <2>1. i \in SessionID /\ Indexed(i)
    BY <1>1 DEF recoveryExpired, OrNone
  <2> QED
    BY <1>1, <2>1, DropEffect DEF Looked
<1>2. CASE ~recoveryExpired(i)
  BY <1>2 DEF Looked
<1> QED
  BY <1>1, <1>2
-----------------------------------------------------------------------------
\* The type of a session.
SessionType == [c: OrNone(Client), exp: Nat, st: {"unused", "active", "recovering", "gone"}]

\* No session begins.
Ends ==
  /\ next' = next
  /\ \A i \in SessionID : /\ sess'[i].c = sess[i].c
                          /\ sess'[i].st = "unused" <=> sess[i].st = "unused"
                          /\ sess'[i].st = "active" => sess[i].st = "active"

\* The session of client c that is created in place of the others.
Begins(c) ==
  /\ next < MaxSessions /\ next' = next + 1
  /\ sess'[next + 1].c = c /\ sess'[next + 1].st = "active"
  /\ \A i \in SessionID : i # next + 1 =>
       /\ sess'[i].c = sess[i].c
       /\ sess'[i].st = "unused" <=> sess[i].st = "unused"
       /\ sess'[i].st = "active" => sess[i].st = "active" /\ sess[i].c # c

\* What a step of goroutine p does to everything but the tombstones: it keeps to its
\* own job, takes a free lock or releases its own, creates a session only with the
\* lock, and leaves what the invariant says of p in order.
Moves(p) ==
  /\ job' \in [Proc -> Job] /\ \A q \in Proc : q # p => job'[q] = job[q]
  /\ now' = now /\ timer' \in [SessionID -> Nat]
  /\ sess' \in [SessionID -> SessionType]
  /\ lock' \in [IMSI -> OrNone(Proc)]
  /\ \A s \in IMSI : \/ lock'[s] = lock[s]
                     \/ lock[s] = None /\ lock'[s] = p
                     \/ lock[s] = p
  /\ Ends \/ (job[p].pc = "activate" /\ Begins(job[p].c))
  /\ Named(p)' /\ Lost(p)'
  /\ Holds(p)' => lock'[job'[p].c[2]] = p

\* The part of the invariant that does not speak of tombstones.
Base == RTypeOK /\ Sessions /\ Names /\ Locks /\ Single /\ Losses

\* The facts the action lemmas start from.
LEMMA BaseFacts ==
  ASSUME Base, NEW p \in Proc
  PROVE  /\ job[p] \in Job /\ job \in [Proc -> Job] /\ Named(p) /\ Lost(p)
         /\ Holds(p) => lock[job[p].c[2]] = p
         /\ sess \in [SessionID -> SessionType] /\ lock \in [IMSI -> OrNone(Proc)]
         /\ timer \in [SessionID -> Nat] /\ next \in 0..MaxSessions /\ now \in Nat
         /\ Fresh \in Job /\ p # None
BY RecoveryAssumption DEF Base, RTypeOK, Names, Losses, Locks, Imsi, SessionType, Fresh, Job,
   Label, Handler, OrNone

\* Goto changes the label of one goroutine.
LEMMA GotoEffect ==
  ASSUME Base, NEW p \in Proc, NEW l \in Label, Goto(p, l)
  PROVE  /\ job' \in [Proc -> Job] /\ \A q \in Proc : q # p => job'[q] = job[q]
         /\ job'[p].pc = l /\ job'[p].kind = job[p].kind /\ job'[p].id = job[p].id
         /\ job'[p].c = job[p].c /\ job'[p].found = job[p].found
<1>1. job[p] \in Job /\ job \in [Proc -> Job]
  BY BaseFacts
<1>2. job' = [job EXCEPT ![p] = [job[p] EXCEPT !.pc = l]]
  BY <1>1 DEF Goto, Job
<1> QED
  BY <1>1, <1>2 DEF Job

\* Where the sessions do not change, none begins.
LEMMA SameSessions ==
  ASSUME UNCHANGED <<sess, next>>
  PROVE  Ends /\ \A c \in Client : ActiveOf(c)' = ActiveOf(c)
BY DEF Ends, ActiveOf, Stored

\* A handler that returns, with the lock released or without one.
LEMMA FreshMoves ==
  ASSUME Base, NEW p \in Proc, job' = [job EXCEPT ![p] = Fresh],
         UNCHANGED <<now, timer>>, sess' \in [SessionID -> SessionType], Ends,
         lock' = lock \/ unlock(p)
  PROVE  Moves(p)
<1>0. /\ job \in [Proc -> Job] /\ Fresh \in Job /\ lock \in [IMSI -> OrNone(Proc)]
      /\ timer \in [SessionID -> Nat]
  BY BaseFacts
<1>1. job' \in [Proc -> Job] /\ (\A q \in Proc : q # p => job'[q] = job[q]) /\ job'[p] = Fresh
  BY <1>0
<1>2. /\ lock' \in [IMSI -> OrNone(Proc)]
      /\ \A s \in IMSI : lock'[s] = lock[s] \/ lock[s] = p
  BY <1>0 DEF unlock, OrNone
<1>3. Named(p)' /\ Lost(p)' /\ ~Holds(p)'
  BY <1>1 DEF Named, Lost, Holds, Fresh, Owning
<1> QED
  BY <1>0, <1>1, <1>2, <1>3 DEF Moves

\* An event that begins, with the session that was looked up for it.
LEMMA BeginMoves ==
  ASSUME Base, NEW p \in Proc, NEW kind \in Handler,
         NEW l \in {"lock", "mark", "tombstone", "stop"},
         NEW i \in OrNone(SessionID), NEW c \in Client, Begin(p, kind, l, i, c),
         kind # "attach" => Used(i) /\ sess[i].c = c,
         kind = "attach" => l = "lock",
         kind = "gtpu_error" => l = "lock",
         UNCHANGED <<now, next, sess, lock, timer>>
  PROVE  Moves(p)
<1>0. /\ job \in [Proc -> Job] /\ Fresh \in Job /\ lock \in [IMSI -> OrNone(Proc)]
      /\ timer \in [SessionID -> Nat] /\ sess \in [SessionID -> SessionType]
  BY BaseFacts
<1> DEFINE r == [Fresh EXCEPT !.pc = l, !.kind = kind, !.id = i, !.c = c]
<1>1. r \in Job /\ r.pc = l /\ r.kind = kind /\ r.id = i /\ r.c = c
  <2>1. l \in Label /\ c \in OrNone(Client)
    BY DEF Label, OrNone
  <2> QED
    BY <1>0, <2>1 DEF Job
<1>2. job' = [job EXCEPT ![p] = r]
  BY DEF Begin
<1> HIDE DEF r
<1>3. job' \in [Proc -> Job] /\ (\A q \in Proc : q # p => job'[q] = job[q]) /\ job'[p] = r
  BY <1>0, <1>1, <1>2
<1>4. Named(p)'
  BY <1>1, <1>3 DEF Named, Owning, Used
<1>5. Lost(p)' /\ ~Holds(p)'
  BY <1>1, <1>3 DEF Lost, Holds
<1> QED
  BY <1>0, <1>3, <1>4, <1>5, SameSessions DEF Moves

\* Start: an event looks up the session first, so the goroutine knows a session of its client.
LEMMA StartMoves ==
  ASSUME Base, NEW p \in Proc, Start(p)
  PROVE  Moves(p)
<1>0. UNCHANGED <<now, next, sess, lock, timer>>
  BY DEF Start
<1>1. ASSUME NEW c \in Client, NEW i \in Stored(c)
      PROVE  i \in OrNone(SessionID) /\ Used(i) /\ sess[i].c = c
  BY DEF Stored, Used, Base, Sessions, OrNone
<1>2. \A c \in Client : ActiveOf(c) \subseteq Stored(c)
  BY DEF ActiveOf
<1>3. ASSUME NEW c \in Client, Begin(p, "attach", "lock", None, c)
      PROVE  Moves(p)
  BY <1>0, <1>3, BeginMoves DEF OrNone, Handler
<1>4. ASSUME NEW c \in Client, NEW i \in Stored(c),
             \/ Begin(p, "gtpu_error", "lock", i, c) \/ Begin(p, "unlocked", "mark", i, c)
             \/ Begin(p, "unlocked", "tombstone", i, c) \/ Begin(p, "acct_stop", "stop", i, c)
      PROVE  Moves(p)
  BY <1>0, <1>1, <1>4, BeginMoves DEF Handler
<1> QED
  BY <1>2, <1>3, <1>4 DEF Start

\* lockSubscriber: the lock is free and now the goroutine has it.
LEMMA LockMoves ==
  ASSUME Base, NEW p \in Proc, lockSubscriber(p)
  PROVE  Moves(p)
<1>0. /\ job[p] \in Job /\ job \in [Proc -> Job] /\ Named(p) /\ Lost(p)
      /\ Holds(p) => lock[job[p].c[2]] = p
      /\ sess \in [SessionID -> SessionType] /\ lock \in [IMSI -> OrNone(Proc)]
      /\ timer \in [SessionID -> Nat] /\ next \in 0..MaxSessions /\ now \in Nat
  BY BaseFacts
<1> DEFINE l == IF job[p].kind = "attach" THEN "find" ELSE "recheck"
<1>1. job[p].pc = "lock" /\ Goto(p, l) /\ UNCHANGED <<now, next, sess, timer>>
      /\ lock[job[p].c[2]] = None /\ lock' = [lock EXCEPT ![job[p].c[2]] = p]
  BY DEF lockSubscriber, At, Imsi
<1>2. l \in Label
  BY DEF Label
<1>3. /\ job' \in [Proc -> Job] /\ \A q \in Proc : q # p => job'[q] = job[q]
      /\ job'[p].pc = l /\ job'[p].kind = job[p].kind /\ job'[p].id = job[p].id
      /\ job'[p].c = job[p].c
  BY <1>1, <1>2, GotoEffect
<1>4. job[p].c \in Client /\ job[p].c[2] \in IMSI
  BY <1>0, <1>1, ClientKeys DEF Named
<1>5. Named(p)'
  BY <1>0, <1>1, <1>3, <1>4 DEF Named, Owning, Used
<1>6. Lost(p)'
  BY <1>3 DEF Lost
<1>7. /\ lock' \in [IMSI -> OrNone(Proc)] /\ lock'[job[p].c[2]] = p
      /\ \A s \in IMSI : lock'[s] = lock[s] \/ (lock[s] = None /\ lock'[s] = p)
  BY <1>0, <1>1, <1>4 DEF OrNone
<1> QED
  BY <1>0, <1>1, <1>3, <1>5, <1>6, <1>7, SameSessions DEF Moves

\* A handler that goes on without touching lock or sessions.  From recheck to mark
\* the active session is the only one of its client.
LEMMA OnMoves ==
  ASSUME Base, NEW p \in Proc, NEW l \in Label, Goto(p, l),
         UNCHANGED <<now, next, sess, lock>>, timer' \in [SessionID -> Nat],
         \/ /\ job[p].pc = "recheck" /\ l = "mark" /\ sess[job[p].id].st = "active"
            /\ job[p].kind = "gtpu_error"
         \/ job[p].pc = "recheck" /\ l = "detach" /\ job[p].kind = "acct_stop"
         \/ job[p].pc = "tombstone" /\ l \in {"disconnect", "detach"}
         \/ job[p].pc = "disconnect" /\ l \in {"exchange", "detach"}
         \/ job[p].pc = "exchange" /\ l = "detach"
         \/ job[p].pc = "stop" /\ l = "lock"
  PROVE  Moves(p)
<1>0. /\ job[p] \in Job /\ job \in [Proc -> Job] /\ Named(p) /\ Lost(p)
      /\ Holds(p) => lock[job[p].c[2]] = p
      /\ sess \in [SessionID -> SessionType] /\ lock \in [IMSI -> OrNone(Proc)]
      /\ timer \in [SessionID -> Nat] /\ next \in 0..MaxSessions /\ now \in Nat
  BY BaseFacts
<1>1. /\ job' \in [Proc -> Job] /\ \A q \in Proc : q # p => job'[q] = job[q]
      /\ job'[p].pc = l /\ job'[p].kind = job[p].kind /\ job'[p].id = job[p].id
      /\ job'[p].c = job[p].c
  BY GotoEffect
<1>2. Named(p)'
  BY <1>0, <1>1 DEF Named, Owning, Used
<1>3. Holds(p)' => lock'[job'[p].c[2]] = p
  BY <1>0, <1>1 DEF Holds
<1>4. Lost(p)'
  <2>1. job[p].c \in Client
    BY <1>0 DEF Named, Owning
  <2>2. sess' = sess
    OBVIOUS
  <2>3. CASE l = "mark"
    <3>1. Used(job[p].id) /\ sess[job[p].id].c = job[p].c /\ sess[job[p].id].st = "active"
      BY <1>0, <2>3 DEF Named, Owning
    <3>2. job[p].id \in ActiveOf(job[p].c)
      BY <3>1 DEF ActiveOf, Stored, Used
    <3>3. \A i \in ActiveOf(job[p].c) : i = job[p].id
      BY <2>1, <3>2 DEF Base, Single
    <3> QED
      BY <1>1, <2>2, <2>3, <3>3 DEF Lost, ActiveOf, Stored
  <2>4. CASE l # "mark"
    BY <1>0, <1>1, <2>2, <2>4 DEF Lost, ActiveOf, Stored
  <2> QED
    BY <2>3, <2>4
<1> QED
  BY <1>0, <1>1, <1>2, <1>3, <1>4, SameSessions DEF Moves

\* recheck goes on or returns.
LEMMA RecheckMoves ==
  ASSUME Base, NEW p \in Proc, recheck(p)
  PROVE  Moves(p)
<1>1. job[p].pc = "recheck" /\ UNCHANGED <<now, next, sess, timer>>
  BY DEF recheck, At
<1>2. CASE Leave(p)
  BY <1>1, <1>2, FreshMoves, SameSessions, BaseFacts DEF Leave
<1>3. CASE /\ job[p].kind = "gtpu_error" /\ sess[job[p].id].st = "active"
           /\ Continue(p, "mark")
  BY <1>1, <1>3, OnMoves, BaseFacts DEF Continue, Label
<1>4. CASE job[p].kind = "acct_stop" /\ Continue(p, "detach")
  BY <1>1, <1>4, OnMoves, BaseFacts DEF Continue, Label
<1> QED
  BY <1>2, <1>3, <1>4 DEF recheck

\* markRecovering: a GTP-U error has the only active session of the client, which
\* is then no longer active.
LEMMA MarkMoves ==
  ASSUME Base, NEW p \in Proc, markRecovering(p)
  PROVE  Moves(p)
<1>0. /\ job[p] \in Job /\ job \in [Proc -> Job] /\ Named(p) /\ Lost(p)
      /\ Holds(p) => lock[job[p].c[2]] = p
      /\ sess \in [SessionID -> SessionType] /\ lock \in [IMSI -> OrNone(Proc)]
      /\ timer \in [SessionID -> Nat] /\ next \in 0..MaxSessions /\ now \in Nat
  BY BaseFacts
<1> DEFINE i == job[p].id
<1>1. job[p].pc = "mark" /\ Goto(p, "tombstone") /\ UNCHANGED <<now, next, lock, timer>>
      /\ sess' = IF sess[i].st = "active" THEN [sess EXCEPT ![i].st = "recovering"] ELSE sess
  BY DEF markRecovering, At
<1>2. /\ job' \in [Proc -> Job] /\ \A q \in Proc : q # p => job'[q] = job[q]
      /\ job'[p].pc = "tombstone" /\ job'[p].kind = job[p].kind /\ job'[p].id = i
      /\ job'[p].c = job[p].c
  BY <1>1, GotoEffect DEF Label
<1>3. i \in SessionID /\ i <= next /\ sess[i].c = job[p].c /\ job[p].c \in Client
  BY <1>0, <1>1 DEF Named, Owning, Used
<1>4. /\ sess' \in [SessionID -> SessionType] /\ sess'[i].c = sess[i].c
      /\ \A j \in SessionID : j # i => sess'[j] = sess[j]
      /\ sess'[i].st # "active" /\ (sess'[i].st = "unused" <=> sess[i].st = "unused")
  <2>1. CASE sess[i].st = "active"
    <3>1. sess' = [sess EXCEPT ![i] = [sess[i] EXCEPT !.st = "recovering"]]
      BY <1>0, <1>1, <1>3, <2>1 DEF SessionType
    <3> QED
      BY <1>0, <1>3, <2>1, <3>1 DEF SessionType
  <2>2. CASE sess[i].st # "active"
    BY <1>0, <1>1, <2>2
  <2> QED
    BY <2>1, <2>2
<1> HIDE DEF i
<1>5. Ends
  BY <1>1, <1>4 DEF Ends
<1>6. Named(p)'
  BY <1>1, <1>2, <1>3, <1>4 DEF Named, Used
<1>7. Holds(p)' => lock'[job'[p].c[2]] = p
  BY <1>0, <1>1, <1>2 DEF Holds
<1>8. Lost(p)'
  <2>1. job[p].kind = "gtpu_error" => ActiveOf(job[p].c) \subseteq {i}
    BY <1>0, <1>1 DEF Lost, i
  <2>2. ASSUME job[p].kind = "gtpu_error", NEW j \in SessionID, sess'[j].c = job[p].c,
               sess'[j].st = "active"
        PROVE  FALSE
    <3>1. j # i /\ sess'[j] = sess[j]
      BY <1>4, <2>2
    <3>2. j \in ActiveOf(job[p].c)
      BY <2>2, <3>1 DEF ActiveOf, Stored
    <3> QED
      BY <2>1, <2>2, <3>1, <3>2
  <2> QED
    BY <1>2, <2>2 DEF Lost, ActiveOf, Stored
<1> QED
  BY <1>0, <1>1, <1>2, <1>4, <1>5, <1>6, <1>7, <1>8 DEF Moves

\* The steps of a recovery between the marked session and its detach only change
\* tombstones and timers.
LEMMA RecoveryMoves ==
  ASSUME Base, NEW p \in Proc,
         \/ AddRecoveryTombstone(p) \/ attemptDynamicAuthorization(p) \/ DisconnectOrCoA(p)
         \/ accountingStop(p)
  PROVE  Moves(p)
<1>0. /\ job[p] \in Job /\ job \in [Proc -> Job] /\ Named(p) /\ Lost(p)
      /\ Holds(p) => lock[job[p].c[2]] = p
      /\ sess \in [SessionID -> SessionType] /\ lock \in [IMSI -> OrNone(Proc)]
      /\ timer \in [SessionID -> Nat] /\ next \in 0..MaxSessions /\ now \in Nat
  BY BaseFacts
<1>1. UNCHANGED <<now, next, sess, lock>>
  BY DEF AddRecoveryTombstone, attemptDynamicAuthorization, accountingStop, DisconnectOrCoA,
     acceptDynamicAuthorization, setRecoveryFallback
<1>2. timer' \in [SessionID -> Nat]
  <2>1. CASE acceptDynamicAuthorization(p)
    <3>1. job[p].id \in SessionID
      BY <1>0, <2>1 DEF acceptDynamicAuthorization, At, Named, Owning, Used
    <3>2. timer[job[p].id] + 1 \in Nat
      BY <1>0, <3>1
    <3> QED
      BY <1>0, <2>1, <3>1, <3>2 DEF acceptDynamicAuthorization
  <2>2. CASE UNCHANGED timer
    BY <1>0, <2>2
  <2> QED
    BY <2>1, <2>2 DEF AddRecoveryTombstone, attemptDynamicAuthorization, accountingStop,
       DisconnectOrCoA, setRecoveryFallback
<1>3. CASE AddRecoveryTombstone(p)
  <2>1. job[p].pc = "tombstone" /\ (Goto(p, "disconnect") \/ Goto(p, "detach"))
    BY <1>3 DEF AddRecoveryTombstone, At
  <2> QED
    BY <1>1, <1>2, <2>1, OnMoves DEF Label
<1>4. CASE attemptDynamicAuthorization(p)
  <2>1. job[p].pc = "disconnect" /\ (Goto(p, "exchange") \/ Goto(p, "detach"))
    BY <1>4 DEF attemptDynamicAuthorization, At
  <2> QED
    BY <1>1, <1>2, <2>1, OnMoves DEF Label
<1>5. CASE DisconnectOrCoA(p)
  <2>1. job[p].pc = "exchange" /\ Goto(p, "detach")
    BY <1>5 DEF DisconnectOrCoA, acceptDynamicAuthorization, setRecoveryFallback, At
  <2> QED
    BY <1>1, <1>2, <2>1, OnMoves DEF Label
<1>6. CASE accountingStop(p)
  <2>1. job[p].pc = "stop" /\ Goto(p, "lock")
    BY <1>6 DEF accountingStop, At
  <2> QED
    BY <1>1, <1>2, <2>1, OnMoves DEF Label
<1> QED
  BY <1>3, <1>4, <1>5, <1>6

\* detachSession: the session ends, and the lock is released.
LEMMA DetachMoves ==
  ASSUME Base, NEW p \in Proc, detachSession(p)
  PROVE  Moves(p)
<1>0. /\ job[p] \in Job /\ job \in [Proc -> Job] /\ Named(p) /\ Lost(p)
      /\ Holds(p) => lock[job[p].c[2]] = p
      /\ sess \in [SessionID -> SessionType] /\ lock \in [IMSI -> OrNone(Proc)]
      /\ timer \in [SessionID -> Nat] /\ next \in 0..MaxSessions /\ now \in Nat
  BY BaseFacts
<1> DEFINE i == job[p].id
<1>1. job[p].pc = "detach" /\ Leave(p) /\ UNCHANGED <<now, next, timer>>
      /\ sess' = [sess EXCEPT ![i].st = "gone"]
  BY DEF detachSession, At
<1>2. i \in SessionID /\ i <= next
  BY <1>0, <1>1 DEF Named, Owning, Used
<1>3. sess[i].st # "unused"
  BY <1>2 DEF Base, Sessions
<1>4. sess' = [sess EXCEPT ![i] = [sess[i] EXCEPT !.st = "gone"]]
  BY <1>0, <1>1, <1>2 DEF SessionType
<1> HIDE DEF i
<1>5. sess' \in [SessionID -> SessionType] /\ Ends
  BY <1>0, <1>1, <1>2, <1>3, <1>4 DEF SessionType, Ends
<1> QED
  BY <1>1, <1>5, FreshMoves DEF Leave

\* logRecoveryAttachIfPresent goes on with the lock.
LEMMA FindMoves ==
  ASSUME Base, NEW p \in Proc, logRecoveryAttachIfPresent(p)
  PROVE  Moves(p)
<1>0. /\ job[p] \in Job /\ job \in [Proc -> Job] /\ Named(p) /\ Lost(p)
      /\ Holds(p) => lock[job[p].c[2]] = p
      /\ sess \in [SessionID -> SessionType] /\ lock \in [IMSI -> OrNone(Proc)]
      /\ timer \in [SessionID -> Nat] /\ next \in 0..MaxSessions /\ now \in Nat
  BY BaseFacts
<1> DEFINE f == Found(FindRecovery(job[p].c))
<1>1. job[p].pc = "find" /\ UNCHANGED <<now, next, sess, lock, timer>>
      /\ job' = [job EXCEPT ![p].pc = "activate", ![p].found = f]
  BY DEF logRecoveryAttachIfPresent, At
<1>2. f \in BOOLEAN
  BY DEF Found
<1> HIDE DEF f
<1>3. job' = [job EXCEPT ![p] = [job[p] EXCEPT !.pc = "activate", !.found = f]]
  BY <1>0, <1>1 DEF Job
<1>4. /\ job' \in [Proc -> Job] /\ \A q \in Proc : q # p => job'[q] = job[q]
      /\ job'[p].pc = "activate" /\ job'[p].c = job[p].c
  BY <1>0, <1>2, <1>3 DEF Job, Label
<1>5. Named(p)' /\ Lost(p)'
  BY <1>0, <1>1, <1>4 DEF Named, Lost, Owning
<1>6. Holds(p)' => lock'[job'[p].c[2]] = p
  BY <1>0, <1>1, <1>4 DEF Holds
<1> QED
  BY <1>0, <1>1, <1>4, <1>5, <1>6, SameSessions DEF Moves

\* completeRecovery and lockTimeout return.
LEMMA CompleteMoves ==
  ASSUME Base, NEW p \in Proc, completeRecovery(p) \/ lockTimeout(p)
  PROVE  Moves(p)
<1>1. UNCHANGED <<now, next, sess, timer>> /\ job' = [job EXCEPT ![p] = Fresh]
      /\ (lock' = lock \/ unlock(p))
  BY DEF completeRecovery, lockTimeout, Leave
<1> QED
  BY <1>1, FreshMoves, SameSessions, BaseFacts

\* activateAuthorizedSession reuses the session, creates one in place of those of
\* the client, or fails.
LEMMA ActivateMoves ==
  ASSUME Base, NEW p \in Proc, activateAuthorizedSession(p)
  PROVE  Moves(p)
<1>0. /\ job[p] \in Job /\ job \in [Proc -> Job] /\ Named(p) /\ Lost(p)
      /\ Holds(p) => lock[job[p].c[2]] = p
      /\ sess \in [SessionID -> SessionType] /\ lock \in [IMSI -> OrNone(Proc)]
      /\ timer \in [SessionID -> Nat] /\ next \in 0..MaxSessions /\ now \in Nat
  BY BaseFacts
<1> DEFINE c == job[p].c
           cleared == [i \in SessionID |-> IF i \in Stored(c) THEN [sess[i] EXCEPT !.st = "gone"]
                                                              ELSE sess[i]]
<1>a. job[p].pc = "activate" /\ c \in Client /\ UNCHANGED <<now, timer>> /\ Holds(p)
      /\ lock[c[2]] = p
  BY <1>0 DEF activateAuthorizedSession, At, Named, Holds
<1>b. /\ cleared \in [SessionID -> SessionType]
      /\ \A i \in SessionID : /\ cleared[i].c = sess[i].c
                              /\ cleared[i].st = "unused" <=> sess[i].st = "unused"
                              /\ cleared[i].st = "active" => sess[i].st = "active" /\ sess[i].c # c
  <2>1. ASSUME NEW i \in SessionID
        PROVE  /\ cleared[i] \in SessionType /\ cleared[i].c = sess[i].c
               /\ cleared[i].st = "unused" <=> sess[i].st = "unused"
               /\ cleared[i].st = "active" => sess[i].st = "active" /\ sess[i].c # c
    <3>1. CASE i \in Stored(c)
      BY <1>0, <2>1, <3>1 DEF Stored, SessionType
    <3>2. CASE i \notin Stored(c)
      BY <1>0, <2>1, <3>2 DEF Stored
    <3> QED
      BY <3>1, <3>2
  <2> QED
    BY <2>1
<1>1. ASSUME NEW i \in ActiveOf(c), job' = [job EXCEPT ![p].pc = "complete", ![p].id = i],
             UNCHANGED <<sess, next, lock>>
      PROVE  Moves(p)
  <2>1. i \in SessionID /\ i \in OrNone(SessionID) /\ Used(i) /\ sess[i].c = c
    BY <1>1 DEF ActiveOf, Stored, Base, Sessions, Used, OrNone
  <2>2. job' = [job EXCEPT ![p] = [job[p] EXCEPT !.pc = "complete", !.id = i]]
    BY <1>0, <1>1 DEF Job
  <2>3. /\ job' \in [Proc -> Job] /\ \A q \in Proc : q # p => job'[q] = job[q]
        /\ job'[p].pc = "complete" /\ job'[p].c = c /\ job'[p].id = i
    BY <1>0, <2>1, <2>2 DEF Job, Label
  <2>4. Named(p)' /\ Lost(p)'
    BY <1>a, <1>1, <2>1, <2>3 DEF Named, Lost, Used
  <2> QED
    BY <1>0, <1>a, <1>1, <2>3, <2>4, SameSessions DEF Moves
<1>2. ASSUME next < MaxSessions, next' = next + 1,
             sess' = [cleared EXCEPT ![next'] = [c |-> c, exp |-> now + TTL, st |-> "active"]],
             job' = [job EXCEPT ![p].pc = "complete", ![p].id = next'], UNCHANGED lock
      PROVE  Moves(p)
  <2>1. next + 1 \in SessionID /\ next + 1 \in OrNone(SessionID) /\ next' = next + 1
    BY <1>0, <1>2, RecoveryAssumption DEF SessionID, OrNone
  <2>2. job' = [job EXCEPT ![p] = [job[p] EXCEPT !.pc = "complete", !.id = next + 1]]
    BY <1>0, <1>2 DEF Job
  <2>3. /\ job' \in [Proc -> Job] /\ \A q \in Proc : q # p => job'[q] = job[q]
        /\ job'[p].pc = "complete" /\ job'[p].c = c /\ job'[p].id = next + 1
    BY <1>0, <2>1, <2>2 DEF Job, Label
  <2>4. [c |-> c, exp |-> now + TTL, st |-> "active"] \in SessionType
    BY <1>0, <1>a, RecoveryAssumption DEF SessionType, OrNone
  <2> HIDE DEF cleared
  <2>5. sess' \in [SessionID -> SessionType] /\ Begins(c)
    BY <1>b, <1>2, <2>1, <2>4 DEF Begins
  <2>6. Named(p)' /\ Lost(p)'
    <3>1. sess'[next + 1].c = c
      BY <2>5 DEF Begins
    <3> QED
      BY <1>0, <1>a, <2>1, <2>3, <3>1 DEF Named, Lost, Used, SessionID
  <2> QED
    BY <1>0, <1>a, <1>2, <2>3, <2>5, <2>6 DEF Moves
<1>3. ASSUME sess' \in {sess, cleared}, Leave(p), UNCHANGED next
      PROVE  Moves(p)
  <2>1. sess' \in [SessionID -> SessionType] /\ Ends
    <3> HIDE DEF cleared
    <3> QED
      BY <1>0, <1>b, <1>3 DEF Ends
  <2> QED
    BY <1>a, <1>3, <2>1, FreshMoves DEF Leave
<1> QED
  BY <1>1, <1>2, <1>3 DEF activateAuthorizedSession
-----------------------------------------------------------------------------
\* What a session that was created has for good.
Lasts == \A i \in SessionID : i <= next => i <= next' /\ sess'[i].c = sess[i].c

\* A step of a goroutine keeps what a session has for good.
LEMMA MovesLast ==
  ASSUME Base, NEW p \in Proc, Moves(p)
  PROVE  Lasts /\ next' \in 0..MaxSessions
<1>1. next \in 0..MaxSessions /\ MaxSessions \in Nat
  BY BaseFacts, RecoveryAssumption
<1>2. CASE Ends
  BY <1>1, <1>2 DEF Ends, Lasts
<1>3. CASE Begins(job[p].c)
  BY <1>1, <1>3 DEF Begins, Lasts, SessionID
<1> QED
  BY <1>2, <1>3 DEF Moves

\* A session that is active after a step was active before, or was created by an
\* attach that has cleared the others of its client.
LEMMA MovesActive ==
  ASSUME Base, NEW p \in Proc, Moves(p), NEW i \in SessionID, sess'[i].st = "active"
  PROVE  \/ sess[i].st = "active" /\ sess'[i].c = sess[i].c
            /\ (Begins(job[p].c) => sess[i].c # job[p].c)
         \/ job[p].pc = "activate" /\ Begins(job[p].c) /\ i = next + 1 /\ sess'[i].c = job[p].c
<1>1. next \in 0..MaxSessions /\ MaxSessions \in Nat
  BY BaseFacts, RecoveryAssumption
<1>2. CASE Ends
  <2>1. ~Begins(job[p].c)
    BY <1>1, <1>2 DEF Ends, Begins
  <2> QED
    BY <1>2, <2>1 DEF Ends
<1>3. CASE job[p].pc = "activate" /\ Begins(job[p].c)
  BY <1>3 DEF Begins
<1> QED
  BY <1>2, <1>3 DEF Moves

\* A step of a goroutine keeps Sessions.
LEMMA MovesSessions ==
  ASSUME Base, NEW p \in Proc, Moves(p)
  PROVE  Sessions'
<1>1. next \in 0..MaxSessions /\ MaxSessions \in Nat /\ Named(p)
  BY BaseFacts, RecoveryAssumption
<1>2. CASE Ends
  BY <1>2 DEF Ends, Sessions, Base
<1>3. CASE job[p].pc = "activate" /\ Begins(job[p].c)
  <2>1. job[p].c \in Client
    BY <1>1, <1>3 DEF Named
  <2>2. ASSUME NEW i \in SessionID
        PROVE  /\ sess'[i].st # "unused" <=> i <= next'
               /\ i <= next' => sess'[i].c \in Client
    <3>1. CASE i = next + 1
      BY <1>1, <1>3, <2>1, <3>1 DEF Begins
    <3>2. CASE i # next + 1
      <4>1. i <= next' <=> i <= next
        BY <1>1, <1>3, <3>2 DEF Begins, SessionID
      <4>2. sess'[i].c = sess[i].c /\ (sess'[i].st = "unused" <=> sess[i].st = "unused")
        BY <1>3, <3>2 DEF Begins
      <4>3. (sess[i].st # "unused" <=> i <= next) /\ (i <= next => sess[i].c \in Client)
        BY DEF Base, Sessions
      <4> QED
        BY <4>1, <4>2, <4>3
    <3> QED
      BY <3>1, <3>2
  <2> QED
    BY <2>2 DEF Sessions
<1> QED
  BY <1>2, <1>3 DEF Moves

\* A step of a goroutine keeps Names: the others still know a session of their client.
LEMMA MovesNames ==
  ASSUME Base, NEW p \in Proc, Moves(p)
  PROVE  Names'
<1>1. Lasts
  BY MovesLast
<1>2. ASSUME NEW q \in Proc, q # p
      PROVE  Named(q)'
  <2>1. job'[q] = job[q] /\ Named(q)
    BY <1>2 DEF Moves, Base, Names
  <2> QED
    BY <1>1, <2>1 DEF Named, Lasts, Used
<1>3. Named(p)'
  BY DEF Moves
<1> QED
  BY <1>2, <1>3 DEF Names

\* A step of a goroutine keeps Locks: it takes a free lock or releases its own.
LEMMA MovesLocks ==
  ASSUME Base, NEW p \in Proc, Moves(p)
  PROVE  Locks'
<1>1. ASSUME NEW q \in Proc, q # p, Holds(q)'
      PROVE  lock'[job'[q].c[2]] = q
  <2>1. job'[q] = job[q] /\ Holds(q)
    BY <1>1 DEF Moves, Holds
  <2>2. job[q].c[2] \in IMSI
    BY <2>1, BaseFacts, ClientKeys DEF Named, Holds
  <2>3. lock[job[q].c[2]] = q /\ q # None
    BY <2>1, BaseFacts
  <2> QED
    BY <1>1, <2>1, <2>2, <2>3 DEF Moves
<1>2. Holds(p)' => lock'[job'[p].c[2]] = p
  BY DEF Moves
<1> QED
  BY <1>1, <1>2 DEF Locks, Imsi

\* A step of a goroutine keeps Single: a client has one active session.
LEMMA MovesSingle ==
  ASSUME Base, NEW p \in Proc, Moves(p)
  PROVE  Single'
<1>1. ASSUME NEW c \in Client, NEW i \in SessionID, NEW j \in SessionID,
             sess'[i].c = c, sess'[i].st = "active", sess'[j].c = c, sess'[j].st = "active"
      PROVE  i = j
  <2>1. CASE ~(job[p].pc = "activate" /\ Begins(job[p].c))
    <3>1. i \in ActiveOf(c) /\ j \in ActiveOf(c)
      BY <1>1, <2>1, MovesActive DEF ActiveOf, Stored
    <3> QED
      BY <3>1 DEF Base, Single
  <2>2. CASE job[p].pc = "activate" /\ Begins(job[p].c)
    <3>1. CASE c = job[p].c
      BY <1>1, <2>2, <3>1, MovesActive
    <3>2. CASE c # job[p].c
      <4>1. i \in ActiveOf(c) /\ j \in ActiveOf(c)
        BY <1>1, <3>2, MovesActive DEF ActiveOf, Stored
      <4> QED
        BY <4>1 DEF Base, Single
    <3> QED
      BY <3>1, <3>2
  <2> QED
    BY <2>1, <2>2
<1> QED
  BY <1>1 DEF Single, ActiveOf, Stored

\* A step of a goroutine keeps Losses: the attach that creates a session holds the
\* lock of its subscriber, so no GTP-U error of that client is past it.
LEMMA MovesLosses ==
  ASSUME Base, NEW p \in Proc, Moves(p)
  PROVE  Losses'
<1>1. ASSUME NEW q \in Proc, q # p
      PROVE  Lost(q)'
  <2>1. job'[q] = job[q] /\ Lost(q) /\ Named(q)
    BY <1>1, BaseFacts DEF Moves
  <2>2. ASSUME job[q].kind = "gtpu_error",
               job[q].pc \in {"mark", "tombstone", "disconnect", "exchange"},
               NEW i \in SessionID, sess'[i].c = job[q].c, sess'[i].st = "active"
        PROVE  i \in ActiveOf(job[q].c)
    <3>1. CASE job[p].pc = "activate" /\ Begins(job[p].c) /\ sess'[i].c = job[p].c
      <4>1. Holds(p) /\ Holds(q)
        BY <2>2, <3>1 DEF Holds
      <4>2. lock[job[p].c[2]] = p /\ lock[job[q].c[2]] = q
        BY <4>1, BaseFacts
      <4> QED
        BY <1>1, <2>2, <3>1, <4>2
    <3>2. CASE sess[i].st = "active" /\ sess'[i].c = sess[i].c
      BY <2>2, <3>2 DEF ActiveOf, Stored
    <3> QED
      BY <2>2, <3>1, <3>2, MovesActive
  <2> QED
    BY <2>1, <2>2 DEF Lost, ActiveOf, Stored
<1>2. Lost(p)'
  BY DEF Moves
<1> QED
  BY <1>1, <1>2 DEF Losses

\* A step of a goroutine keeps everything but the tombstones in order.
LEMMA MovesBase ==
  ASSUME Base, NEW p \in Proc, Moves(p), rec' \in Tombstones
  PROVE  Base'
<1>1. RTypeOK'
  <2>1. now' \in Nat /\ next' \in 0..MaxSessions
    BY BaseFacts, MovesLast DEF Moves
  <2> QED
    BY <2>1 DEF RTypeOK, Moves, SessionType
<1> QED
  BY <1>1, MovesSessions, MovesNames, MovesLocks, MovesSingle, MovesLosses DEF Base

\* So does a step that no goroutine takes: the clock, a timer, a refused request.
LEMMA QuietBase ==
  ASSUME Base, UNCHANGED <<next, sess, lock, job>>, now' \in Nat,
         timer' \in [SessionID -> Nat], rec' \in Tombstones
  PROVE  Base' /\ Lasts
<1>1. RTypeOK' /\ Sessions' /\ Lasts
  BY DEF Base, RTypeOK, Sessions, Lasts
<1>2. Names' /\ Locks'
  BY DEF Base, Names, Locks, Named, Used, Holds, Imsi
<1>3. Single' /\ Losses'
  BY DEF Base, Single, Losses, Lost, ActiveOf, Stored
<1> QED
  BY <1>1, <1>2, <1>3 DEF Base

\* The indexes are still sound when sessions are created or end.
LEMMA SoundLasts ==
  ASSUME Sound(rec'), Lasts
  PROVE  Sound(rec)'
<1>1. \A i : Used(i) => Used(i)' /\ MacOf(i)' = MacOf(i) /\ ImsiOf(i)' = ImsiOf(i)
  BY DEF Lasts, Used, MacOf, ImsiOf
<1> QED
  BY <1>1 DEF Sound
-----------------------------------------------------------------------------
\* The entry of MAC m and the tombstone it finds do not change.
Same(m) ==
  /\ rec'.mac[m] = rec.mac[m]
  /\ rec.mac[m] # None => rec'.of[rec.mac[m]] = rec.of[rec.mac[m]]

\* Dropped, from where the entries by MAC stand.
LEMMA DropByMAC ==
  ASSUME Sound(rec), NEW i \in SessionID, Dropped(i), NEW m \in MAC
  PROVE  \/ Same(m) /\ rec.mac[m] # i
         \/ rec.mac[m] = i /\ rec'.mac[m] = None
<1>1. rec.mac[m] # None => rec.mac[m] \in SessionID
  BY DEF Sound, Used
<1> QED
  BY <1>1 DEF Dropped, Same

\* Placed, from where the entries by MAC stand.
LEMMA PlaceByMAC ==
  ASSUME Sessions, Sound(rec), NEW i, Used(i), NEW t, Placed(i, t), NEW m \in MAC
  PROVE  \/ Same(m) /\ rec.mac[m] # i
         \/ m = MacOf(i) /\ rec'.mac[m] = i /\ rec'.of[i] = t
<1>1. rec.mac[m] # None => rec.mac[m] \in SessionID /\ MacOf(rec.mac[m]) = m
  BY DEF Sound, Used
<1>2. i \in SessionID /\ i # None
  BY UsedKeys
<1>3. CASE m = MacOf(i)
  BY <1>2, <1>3 DEF Placed
<1>4. CASE m # MacOf(i)
  <2>1. rec'.mac[m] = rec.mac[m] /\ rec.mac[m] # i
    BY <1>1, <1>2, <1>4 DEF Placed
  <2> QED
    BY <1>1, <2>1 DEF Placed, Same
<1> QED
  BY <1>3, <1>4

\* UpdateRecovery, from where the entries by MAC stand: the one of i stays, or goes
\* because the tombstone has expired.
LEMMA UpdateByMAC ==
  ASSUME Sessions, Sound(rec), NEW i \in SessionID,
         NEW new \in [RecoveryState -> RecoveryState], UpdateRecovery(i, new)
  PROVE  /\ Sound(rec')
         /\ \A m \in MAC :
              \/ Same(m) /\ rec.mac[m] # i
              \/ rec.mac[m] = i /\ rec'.mac[m] = None /\ recoveryExpired(i)
              \/ /\ rec.mac[m] = i /\ rec'.mac[m] = i /\ rec.of[i] \in Tombstone
                 /\ rec'.of[i].state = new[rec.of[i].state]
<1>1. CASE ~Indexed(i) /\ rec' = rec
  BY <1>1 DEF Indexed, Same
<1>2. CASE Indexed(i) /\ recoveryExpired(i) /\ Dropped(i)
  BY <1>2, DropByMAC DEF Dropped
<1>3. ASSUME Indexed(i), NEW t \in Tombstone, t.state = new[rec.of[i].state], Placed(i, t)
      PROVE  /\ Sound(rec')
             /\ \A m \in MAC :
                  \/ Same(m) /\ rec.mac[m] # i
                  \/ /\ rec.mac[m] = i /\ rec'.mac[m] = i /\ rec.of[i] \in Tombstone
                     /\ rec'.of[i].state = new[rec.of[i].state]
  <2>1. Used(i) /\ rec.mac[MacOf(i)] = i /\ rec.of[i] \in Tombstone
    BY <1>3, IndexedByMAC
  <2>2. Sound(rec')
    BY <1>3 DEF Placed
  <2>3. ASSUME NEW m \in MAC
        PROVE  \/ Same(m) /\ rec.mac[m] # i
               \/ m = MacOf(i) /\ rec'.mac[m] = i /\ rec'.of[i] = t
    BY <1>3, <2>1, PlaceByMAC
  <2> QED
    BY <1>3, <2>1, <2>2, <2>3
<1> QED
  BY <1>1, <1>2, <1>3, UpdateEffect

\* The step keeps every tombstone that is neither expired, nor replaced, nor
\* completed (the action of TombstoneKept).
Keeps ==
  \A m \in MAC : rec.mac[m] # None /\ rec'.mac[m] # rec.mac[m] =>
    \/ recoveryExpired(rec.mac[m])
    \/ rec'.mac[m] # None /\ \E p \in Proc : At(p, "tombstone") /\ job[p].id = rec'.mac[m]
    \/ \E p \in Proc : /\ At(p, "complete") /\ job[p].found
                       /\ Imsi(p) = ImsiOf(rec.mac[m])

\* The step brings no tombstone back (the action of NoTombstoneRevived).
RevivesNone ==
  \A m \in MAC : rec'.mac[m] \notin {None, rec.mac[m]} =>
    \E p \in Proc : At(p, "tombstone") /\ job[p].id = rec'.mac[m]

\* What every step does to the tombstones.
Tombs == Sound(rec') /\ Keeps /\ RevivesNone /\ DisconnectingHasHandler'

\* A tombstone that is disconnecting has a handler, if each one has the goroutine
\* that just went to the exchange, or was disconnecting before and lost no handler.
\* p is None when no goroutine takes the step.
LEMMA HandlerStays ==
  ASSUME DisconnectingHasHandler, NEW p, \A q \in Proc : q # p => job'[q] = job[q],
         \A m \in MAC : rec'.mac[m] # None /\ rec'.of[rec'.mac[m]].state = "disconnecting" =>
           \/ p \in Proc /\ job'[p].id = rec'.mac[m] /\ job'[p].pc = "exchange"
           \/ /\ rec'.mac[m] = rec.mac[m] /\ rec.of[rec.mac[m]].state = "disconnecting"
              /\ ~(p \in Proc /\ job[p].pc = "exchange" /\ job[p].id = rec.mac[m])
  PROVE  DisconnectingHasHandler'
<1> SUFFICES ASSUME NEW m \in MAC, rec'.mac[m] # None,
                    rec'.of[rec'.mac[m]].state = "disconnecting"
             PROVE  \E q \in Proc : job'[q].id = rec'.mac[m] /\ job'[q].pc = "exchange"
  BY DEF DisconnectingHasHandler, At
<1>1. CASE p \in Proc /\ job'[p].id = rec'.mac[m] /\ job'[p].pc = "exchange"
  BY <1>1
<1>2. CASE /\ rec'.mac[m] = rec.mac[m] /\ rec.of[rec.mac[m]].state = "disconnecting"
           /\ ~(p \in Proc /\ job[p].pc = "exchange" /\ job[p].id = rec.mac[m])
  <2>1. PICK q \in Proc : job[q].id = rec.mac[m] /\ job[q].pc = "exchange"
    BY <1>2 DEF DisconnectingHasHandler, At
  <2>2. job'[q] = job[q]
    BY <1>2, <2>1
  <2> QED
    BY <1>2, <2>1, <2>2
<1> QED
  BY <1>1, <1>2

\* A step that leaves the tombstones and is not at the exchange.
LEMMA QuietTombs ==
  ASSUME Sound(rec), DisconnectingHasHandler, rec' = rec, NEW p,
         \A q \in Proc : q # p => job'[q] = job[q],
         p \in Proc => job[p].pc # "exchange"
  PROVE  Tombs
<1>1. Sound(rec') /\ Keeps /\ RevivesNone
  BY DEF Keeps, RevivesNone
<1>2. DisconnectingHasHandler'
  BY HandlerStays
<1> QED
  BY <1>1, <1>2 DEF Tombs

\* A step that looks up a tombstone and may drop an expired one.
LEMMA LookTombs ==
  ASSUME Sessions, Sound(rec), DisconnectingHasHandler, NEW i \in OrNone(SessionID),
         i # None => Indexed(i), rec' = Looked(i), NEW p,
         \A q \in Proc : q # p => job'[q] = job[q],
         p \in Proc => job[p].pc # "exchange"
  PROVE  Tombs
<1>1. CASE rec' = rec
  BY <1>1, QuietTombs
<1>2. CASE i \in SessionID /\ recoveryExpired(i) /\ Dropped(i)
  <2>1. \A m \in MAC : \/ Same(m) /\ rec.mac[m] # i
                       \/ rec.mac[m] = i /\ rec'.mac[m] = None
    BY <1>2, DropByMAC
  <2>2. Keeps /\ RevivesNone
    BY <1>2, <2>1 DEF Keeps, RevivesNone, Same
  <2>3. DisconnectingHasHandler'
    BY <2>1, HandlerStays DEF Same
  <2> QED
    BY <1>2, <2>2, <2>3 DEF Tombs, Dropped
<1> QED
  BY <1>1, <1>2, LookEffect

\* A step that updates the tombstone of i: it only makes it disconnecting as it
\* goes to the exchange, and at the exchange it leaves another state.
LEMMA UpdateTombs ==
  ASSUME Sessions, Sound(rec), DisconnectingHasHandler, NEW i \in SessionID,
         NEW new \in [RecoveryState -> RecoveryState], UpdateRecovery(i, new), NEW p,
         \A q \in Proc : q # p => job'[q] = job[q],
         p \in Proc => job[p].pc # "exchange" \/ job[p].id = i,
         \A x \in RecoveryState : new[x] = "disconnecting" =>
           \/ p \in Proc /\ job'[p].id = i /\ job'[p].pc = "exchange"
           \/ x = "disconnecting" /\ (p \in Proc => job[p].pc # "exchange")
  PROVE  Tombs
<1>1. /\ Sound(rec')
      /\ \A m \in MAC :
           \/ Same(m) /\ rec.mac[m] # i
           \/ rec.mac[m] = i /\ rec'.mac[m] = None /\ recoveryExpired(i)
           \/ /\ rec.mac[m] = i /\ rec'.mac[m] = i /\ rec.of[i] \in Tombstone
              /\ rec'.of[i].state = new[rec.of[i].state]
  BY UpdateByMAC
<1>2. Keeps /\ RevivesNone
  BY <1>1 DEF Keeps, RevivesNone, Same
<1>3. ASSUME NEW m \in MAC, rec'.mac[m] # None, rec'.of[rec'.mac[m]].state = "disconnecting"
      PROVE  \/ p \in Proc /\ job'[p].id = rec'.mac[m] /\ job'[p].pc = "exchange"
             \/ /\ rec'.mac[m] = rec.mac[m] /\ rec.of[rec.mac[m]].state = "disconnecting"
                /\ ~(p \in Proc /\ job[p].pc = "exchange" /\ job[p].id = rec.mac[m])
  <2>1. CASE Same(m) /\ rec.mac[m] # i
    BY <1>3, <2>1 DEF Same
  <2>2. CASE /\ rec.mac[m] = i /\ rec'.mac[m] = i /\ rec.of[i] \in Tombstone
             /\ rec'.of[i].state = new[rec.of[i].state]
    <3>1. rec.of[i].state \in RecoveryState
      BY <2>2 DEF Tombstone
    <3> QED
      BY <1>3, <2>2, <3>1
  <2> QED
    BY <1>1, <1>3, <2>1, <2>2
<1>4. DisconnectingHasHandler'
  BY <1>3, HandlerStays
<1> QED
  BY <1>1, <1>2, <1>4 DEF Tombs
-----------------------------------------------------------------------------

\* The two parts of the invariant.
LEMMA InvParts ==
  RInv <=> Base /\ Sound(rec) /\ DisconnectingHasHandler
BY DEF RInv, Base

\* What the actions of a goroutine that knows its session use.
LEMMA HandlerFacts ==
  ASSUME RInv, NEW p \in Proc, job[p].pc \in Owning
  PROVE  /\ Base /\ Sessions /\ Sound(rec) /\ DisconnectingHasHandler
         /\ job[p].id \in SessionID /\ Used(job[p].id)
         /\ sess[job[p].id].c = job[p].c /\ job[p].c \in Client
<1>1. Base /\ Sessions /\ Sound(rec) /\ DisconnectingHasHandler
  BY DEF RInv, Base
<1>2. Named(p)
  BY <1>1, BaseFacts
<1> QED
  BY <1>1, <1>2 DEF Named, Used, Owning

\* AddRecoveryTombstone replaces the tombstone of the MAC by one that is required.
LEMMA AddTombs ==
  ASSUME RInv, NEW p \in Proc, AddRecoveryTombstone(p)
  PROVE  Tombs
<1> DEFINE i == job[p].id
           ttl == recoveryTombstoneTTL(i)
           t == [state |-> "required", exp |-> now + ttl]
<1>1. job[p].pc = "tombstone"
  BY DEF AddRecoveryTombstone, At
<1>2. /\ Base /\ Sessions /\ Sound(rec) /\ DisconnectingHasHandler /\ i \in SessionID /\ Used(i)
  BY <1>1, HandlerFacts DEF Owning
<1>3. \A q \in Proc : q # p => job'[q] = job[q]
  <2>1. Moves(p)
    BY <1>2, RecoveryMoves
  <2> QED
    BY <2>1 DEF Moves
<1>4. CASE rec' = rec
  BY <1>1, <1>2, <1>3, <1>4, QuietTombs
<1>5. CASE ttl > 0 /\ rec' = indexRecovery(rec, i, t)
  <2>1. now \in Nat /\ sess[i].exp \in Nat /\ Window \in Nat
    BY <1>2, BaseFacts, RecoveryAssumption DEF SessionType
  <2>2. ttl \in Nat
    BY <2>1 DEF recoveryTombstoneTTL
  <2> HIDE DEF ttl
  <2>3. t \in Tombstone /\ t.state = "required"
    BY <2>1, <2>2 DEF Tombstone, RecoveryState
  <2> HIDE DEF t
  <2>4. Placed(i, t)
    BY <1>2, <1>5, <2>3, PlaceEffect
  <2> HIDE DEF i
  <2>5. \A m \in MAC : \/ Same(m) /\ rec.mac[m] # i
                       \/ m = MacOf(i) /\ rec'.mac[m] = i /\ rec'.of[i] = t
    BY <1>2, <2>4, PlaceByMAC
  <2>6. Keeps /\ RevivesNone
    BY <1>1, <2>5, UsedKeys, <1>2 DEF Keeps, RevivesNone, Same, At, i
  <2>7. DisconnectingHasHandler'
    BY <1>1, <1>2, <1>3, <2>3, <2>5, HandlerStays DEF Same
  <2> QED
    BY <2>4, <2>6, <2>7 DEF Tombs, Placed
<1> QED
  BY <1>4, <1>5 DEF AddRecoveryTombstone

\* What the functions given to UpdateRecovery return.
LEMMA NewStates ==
  /\ \A st \in RecoveryState : /\ To(st) \in [RecoveryState -> RecoveryState]
                               /\ \A x \in RecoveryState : To(st)[x] = st
  /\ \A st \in RecoveryState : \A new \in RecoveryState :
       /\ After(st, new) \in [RecoveryState -> RecoveryState]
       /\ \A x \in RecoveryState : After(st, new)[x] \in {new, x}
BY DEF To, After

\* attemptDynamicAuthorization: disconnecting, and then at the exchange.
LEMMA AttemptTombs ==
  ASSUME RInv, NEW p \in Proc, attemptDynamicAuthorization(p)
  PROVE  Tombs
<1> DEFINE st == IF Disconnect THEN "disconnecting" ELSE "fallback"
           l == IF Disconnect THEN "exchange" ELSE "detach"
<1>1. job[p].pc = "disconnect" /\ UpdateRecovery(job[p].id, To(st)) /\ Goto(p, l)
  BY DEF attemptDynamicAuthorization, At
<1>2. /\ Base /\ Sessions /\ Sound(rec) /\ DisconnectingHasHandler /\ job[p].id \in SessionID
  BY <1>1, HandlerFacts DEF Owning
<1>3. st \in RecoveryState /\ l \in Label /\ (st = "disconnecting" => l = "exchange")
  BY DEF RecoveryState, Label
<1> HIDE DEF st, l
<1>4. /\ \A q \in Proc : q # p => job'[q] = job[q]
      /\ job'[p].pc = l /\ job'[p].id = job[p].id
  BY <1>1, <1>2, <1>3, GotoEffect
<1>5. To(st) \in [RecoveryState -> RecoveryState] /\ \A x \in RecoveryState : To(st)[x] = st
  BY <1>3, NewStates
<1> QED
  BY <1>1, <1>2, <1>3, <1>4, <1>5, UpdateTombs

\* The end of the exchange leaves the tombstone in a state that waits for the client.
LEMMA ExchangeTombs ==
  ASSUME RInv, NEW p \in Proc, DisconnectOrCoA(p)
  PROVE  Tombs
<1>1. /\ job[p].pc = "exchange" /\ Goto(p, "detach")
      /\ \E st \in RecoveryState : st # "disconnecting" /\ UpdateRecovery(job[p].id, To(st))
  BY DEF DisconnectOrCoA, acceptDynamicAuthorization, setRecoveryFallback, At, RecoveryState
<1>2. /\ Base /\ Sessions /\ Sound(rec) /\ DisconnectingHasHandler /\ job[p].id \in SessionID
  BY <1>1, HandlerFacts DEF Owning
<1>3. PICK st \in RecoveryState : st # "disconnecting" /\ UpdateRecovery(job[p].id, To(st))
  BY <1>1
<1>4. \A q \in Proc : q # p => job'[q] = job[q]
  BY <1>1, <1>2, GotoEffect DEF Label
<1>5. To(st) \in [RecoveryState -> RecoveryState] /\ \A x \in RecoveryState : To(st)[x] = st
  BY NewStates
<1> QED
  BY <1>1, <1>2, <1>3, <1>4, <1>5, UpdateTombs

\* An Accounting-Stop moves a tombstone that waits for it on, and no other.
LEMMA StopTombs ==
  ASSUME RInv, NEW p \in Proc, accountingStop(p)
  PROVE  Tombs
<1> DEFINE new == After("waiting_accounting_stop", "waiting_reauth")
<1>1. job[p].pc = "stop" /\ UpdateRecovery(job[p].id, new) /\ Goto(p, "lock")
  BY DEF accountingStop, At
<1>2. /\ Base /\ Sessions /\ Sound(rec) /\ DisconnectingHasHandler /\ job[p].id \in SessionID
  BY <1>1, HandlerFacts DEF Owning
<1>3. /\ new \in [RecoveryState -> RecoveryState]
      /\ \A x \in RecoveryState : new[x] = "disconnecting" => x = "disconnecting"
  <2>1. "waiting_accounting_stop" \in RecoveryState /\ "waiting_reauth" \in RecoveryState
    BY DEF RecoveryState
  <2> QED
    BY <2>1, NewStates
<1> HIDE DEF new
<1>4. \A q \in Proc : q # p => job'[q] = job[q]
  BY <1>1, <1>2, GotoEffect DEF Label
<1> QED
  BY <1>1, <1>2, <1>3, <1>4, UpdateTombs

\* Its timeout does so too, however late it comes.
LEMMA TimerTombs ==
  ASSUME RInv, NEW i \in SessionID, waitForAccountingStopTimeout(i)
  PROVE  Tombs
<1> DEFINE new == After("waiting_accounting_stop", "fallback")
<1>1. UpdateRecovery(i, new) /\ job' = job
  BY DEF waitForAccountingStopTimeout
<1>2. Sessions /\ Sound(rec) /\ DisconnectingHasHandler /\ None \notin Proc
  BY RecoveryAssumption DEF RInv
<1>3. /\ new \in [RecoveryState -> RecoveryState]
      /\ \A x \in RecoveryState : new[x] = "disconnecting" => x = "disconnecting"
  <2>1. "waiting_accounting_stop" \in RecoveryState /\ "fallback" \in RecoveryState
    BY DEF RecoveryState
  <2> QED
    BY <2>1, NewStates
<1> HIDE DEF new
<1> DEFINE p == None
<1>4. p \notin Proc /\ \A q \in Proc : q # p => job'[q] = job[q]
  BY <1>1, <1>2
<1> HIDE DEF p
<1> QED
  BY <1>1, <1>2, <1>3, <1>4, UpdateTombs

\* The lookup of an attach drops at most an expired tombstone.
LEMMA FindTombs ==
  ASSUME RInv, NEW p \in Proc, logRecoveryAttachIfPresent(p)
  PROVE  Tombs
<1>1. job[p].pc = "find" /\ rec' = Looked(FindRecovery(job[p].c))
  BY DEF logRecoveryAttachIfPresent, At
<1>2. Base /\ Sessions /\ Sound(rec) /\ DisconnectingHasHandler
  BY InvParts DEF Base
<1>3. job[p].c \in Client
  BY <1>1, <1>2, BaseFacts DEF Named
<1>4. \A q \in Proc : q # p => job'[q] = job[q]
  <2>1. Moves(p)
    BY <1>2, FindMoves
  <2> QED
    BY <2>1 DEF Moves
<1>5. /\ FindRecovery(job[p].c) \in OrNone(SessionID)
      /\ FindRecovery(job[p].c) # None => Indexed(FindRecovery(job[p].c))
  BY <1>2, <1>3, FoundIsIndexed
<1> QED
  BY <1>1, <1>2, <1>4, <1>5, LookTombs

\* And so does that of DHCP and ARP.
LEMMA RefuseTombs ==
  ASSUME RInv, NEW m \in MAC, refuseStale(m)
  PROVE  Tombs
<1>1. Sessions /\ Sound(rec) /\ DisconnectingHasHandler /\ None \notin Proc
  BY RecoveryAssumption DEF RInv
<1>2. rec' = Looked(rec.mac[m]) /\ job' = job
  BY DEF refuseStale
<1>3. rec.mac[m] \in OrNone(SessionID) /\ (rec.mac[m] # None => Indexed(rec.mac[m]))
  BY <1>1 DEF Sound, Tombstones, Indexed
<1> DEFINE p == None
<1>4. p \notin Proc /\ \A q \in Proc : q # p => job'[q] = job[q]
  BY <1>1, <1>2
<1> HIDE DEF p
<1> QED
  BY <1>1, <1>2, <1>3, <1>4, LookTombs

\* Completing a recovery removes the tombstone found by MAC or by IMSI: one of the
\* subscriber that attaches.
LEMMA CompleteTombs ==
  ASSUME RInv, NEW p \in Proc, completeRecovery(p)
  PROVE  Tombs
<1> DEFINE c == job[p].c
           i == FindRecovery(c)
<1>1. /\ job[p].pc = "complete"
      /\ rec' = rec \/ (job[p].found /\ i # None /\ rec' = unindexRecovery(rec, i))
  BY DEF completeRecovery, At, CompleteRecoveryFor
<1>2. /\ Base /\ Sessions /\ Sound(rec) /\ DisconnectingHasHandler /\ c \in Client
  BY <1>1, HandlerFacts DEF Owning
<1>3. \A q \in Proc : q # p => job'[q] = job[q]
  <2>1. Moves(p)
    BY <1>2, CompleteMoves
  <2> QED
    BY <2>1 DEF Moves
<1>4. CASE rec' = rec
  BY <1>1, <1>2, <1>3, <1>4, QuietTombs
<1>5. CASE job[p].found /\ i # None /\ rec' = unindexRecovery(rec, i)
  <2>1. i \in SessionID /\ Indexed(i)
    BY <1>2, <1>5, FoundIsIndexed DEF OrNone
  <2>2. Dropped(i)
    BY <1>2, <1>5, <2>1, DropEffect
  <2>3. c[2] = ImsiOf(i)
    <3>1. c[1] \in MAC /\ c[2] \in IMSI
      BY <1>2, ClientKeys
    <3>2. CASE rec.mac[c[1]] # None
      <4>1. i = rec.mac[c[1]] /\ Used(i) /\ MacOf(i) = c[1]
        BY <1>2, <3>1, <3>2 DEF FindRecovery, Sound
      <4>2. sess[i].c \in Client
        BY <1>2, <4>1, UsedKeys
      <4> HIDE DEF c, i
      <4> QED
        BY <1>2, <4>1, <4>2, ClientKeys DEF MacOf, ImsiOf
    <3>3. CASE rec.mac[c[1]] = None
      <4>1. i = rec.imsi[c[2]]
        BY <3>3 DEF FindRecovery
      <4> HIDE DEF i
      <4> QED
        BY <1>2, <1>5, <3>1, <4>1 DEF Sound
    <3> QED
      BY <3>2, <3>3
  <2> HIDE DEF i
  <2>4. \A m \in MAC : \/ Same(m) /\ rec.mac[m] # i
                       \/ rec.mac[m] = i /\ rec'.mac[m] = None
    BY <1>2, <2>1, <2>2, DropByMAC
  <2>5. Keeps /\ RevivesNone
    BY <1>1, <1>5, <2>3, <2>4 DEF Keeps, RevivesNone, Same, At, Imsi
  <2>6. DisconnectingHasHandler'
    BY <1>1, <1>2, <1>3, <2>4, HandlerStays DEF Same
  <2> QED
    BY <2>2, <2>5, <2>6 DEF Tombs, Dropped
<1> QED
  BY <1>1, <1>4, <1>5
-----------------------------------------------------------------------------

\* dhcpDiscover: a goroutine that was idle begins an attach of the client the
\* tombstone names.
LEMMA DiscoverMoves ==
  ASSUME RInv, NEW m \in MAC, dhcpDiscover(m)
  PROVE  \E p \in Proc : job[p].pc = "idle" /\ Moves(p)
<1> DEFINE c == sess[rec.mac[m]].c
<1>1. Base /\ Sessions /\ Sound(rec)
  BY InvParts DEF Base
<1>2. UNCHANGED <<now, next, sess, lock, timer>> /\ rec.mac[m] # None
  BY DEF dhcpDiscover, Found
<1>3. Used(rec.mac[m])
  BY <1>1, <1>2 DEF Sound
<1>4. c \in Client
  BY <1>1, <1>3, UsedKeys
<1>5. PICK p \in Proc : At(p, "idle") /\ Begin(p, "attach", "lock", None, c)
  BY DEF dhcpDiscover
<1> HIDE DEF c
<1>6. None \in OrNone(SessionID) /\ "attach" \in Handler
  BY DEF OrNone, Handler
<1>7. Moves(p)
  BY <1>1, <1>2, <1>4, <1>5, <1>6, BeginMoves
<1> QED
  BY <1>5, <1>7 DEF At

\* Every action of a goroutine is a move.
LEMMA StepMoves ==
  ASSUME RInv, NEW p \in Proc, Start(p) \/ Step(p)
  PROVE  Moves(p)
<1>1. Base
  BY InvParts
<1> QED
  BY <1>1, StartMoves, LockMoves, RecheckMoves, MarkMoves, RecoveryMoves, DetachMoves, FindMoves,
     CompleteMoves, ActivateMoves DEF Step

\* Every action of a goroutine treats the tombstones as Tombs says.
LEMMA StepTombs ==
  ASSUME RInv, NEW p \in Proc, Start(p) \/ Step(p)
  PROVE  Tombs
<1>1. \A q \in Proc : q # p => job'[q] = job[q]
  BY StepMoves DEF Moves
<1>2. Sound(rec) /\ DisconnectingHasHandler
  BY InvParts
<1>3. CASE \/ Start(p) \/ lockSubscriber(p) \/ lockTimeout(p) \/ recheck(p) \/ markRecovering(p)
           \/ detachSession(p) \/ activateAuthorizedSession(p)
  <2>1. rec' = rec /\ job[p].pc # "exchange"
    BY <1>3 DEF Start, lockSubscriber, lockTimeout, recheck, markRecovering, detachSession,
       activateAuthorizedSession, At
  <2> QED
    BY <1>1, <1>2, <2>1, QuietTombs
<1> QED
  BY <1>3, AddTombs, AttemptTombs, ExchangeTombs, StopTombs, FindTombs, CompleteTombs DEF Step

\* The invariant holds at the start.
LEMMA InvInit ==
  RInit => RInv
<1> SUFFICES ASSUME RInit
             PROVE  RInv
  OBVIOUS
<1>1. \A p \in Proc : job[p] = Fresh
  BY DEF RInit
<1>2. Fresh \in Job
  BY DEF Fresh, Job, Label, Handler, OrNone
<1>3. rec \in Tombstones
  BY DEF RInit, Tombstones, OrNone
<1>4. sess \in [SessionID -> SessionType]
  BY DEF RInit, SessionType, OrNone
<1>5. RTypeOK
  BY <1>2, <1>3, <1>4, RecoveryAssumption DEF RInit, RTypeOK, SessionType, OrNone
<1>6. Sessions
  BY DEF RInit, Sessions, SessionID
<1>7. Names /\ Locks /\ Losses
  BY <1>1 DEF Names, Named, Locks, Holds, Losses, Lost, Fresh, Owning
<1>8. Single
  BY DEF RInit, Single, ActiveOf, Stored
<1>9. Sound(rec) /\ DisconnectingHasHandler
  BY <1>3 DEF RInit, Sound, DisconnectingHasHandler
<1> QED
  BY <1>5, <1>6, <1>7, <1>8, <1>9 DEF RInv

\* Every step treats the tombstones as Tombs says.
LEMMA TombStep ==
  ASSUME RInv, RNext
  PROVE  Tombs
<1>1. Sound(rec) /\ DisconnectingHasHandler /\ None \notin Proc
  BY InvParts, RecoveryAssumption
<1>2. ASSUME NEW m \in MAC, dhcpDiscover(m)
      PROVE  Tombs
  <2>1. PICK p \in Proc : job[p].pc = "idle" /\ Moves(p)
    BY <1>2, DiscoverMoves
  <2>2. rec' = rec /\ \A q \in Proc : q # p => job'[q] = job[q]
    BY <1>2, <2>1 DEF dhcpDiscover, Moves
  <2> QED
    BY <1>1, <2>1, <2>2, QuietTombs
<1>3. CASE Tick
  <2> DEFINE p == None
  <2>1. rec' = rec /\ p \notin Proc /\ \A q \in Proc : q # p => job'[q] = job[q]
    BY <1>1, <1>3 DEF Tick
  <2> HIDE DEF p
  <2> QED
    BY <1>1, <2>1, QuietTombs
<1> QED
  BY <1>2, <1>3, StepTombs, TimerTombs, RefuseTombs DEF RNext

\* Every step keeps the invariant.
LEMMA InvStep ==
  RInv /\ [RNext]_rVars => RInv'
<1> SUFFICES ASSUME RInv, [RNext]_rVars
             PROVE  RInv'
  OBVIOUS
<1>1. Base /\ Sound(rec) /\ DisconnectingHasHandler
  BY InvParts
<1>2. now \in Nat /\ timer \in [SessionID -> Nat]
  BY <1>1 DEF Base, RTypeOK
<1>3. CASE UNCHANGED rVars
  <2>1. /\ UNCHANGED <<next, sess, lock, job>> /\ now' \in Nat /\ timer' \in [SessionID -> Nat]
        /\ rec' = rec
    BY <1>2, <1>3 DEF rVars
  <2>2. Base' /\ Lasts
    BY <1>1, <2>1, QuietBase DEF Sound
  <2>3. Sound(rec)'
    BY <1>1, <2>1, <2>2, SoundLasts
  <2>4. DisconnectingHasHandler'
    BY <1>1, <2>1 DEF DisconnectingHasHandler, At
  <2> QED
    BY <2>2, <2>3, <2>4 DEF RInv, Base
<1>4. CASE RNext
  <2>1. Sound(rec') /\ DisconnectingHasHandler'
    BY <1>4, TombStep DEF Tombs
  <2>2. rec' \in Tombstones
    BY <2>1 DEF Sound
  <2>3. ASSUME NEW p \in Proc, Moves(p)
        PROVE  Base' /\ Lasts
    BY <1>1, <2>2, <2>3, MovesBase, MovesLast
  <2>4. ASSUME NEW i \in SessionID, waitForAccountingStopTimeout(i)
        PROVE  Base' /\ Lasts
    <3>1. UNCHANGED <<now, next, sess, lock, job>> /\ timer' = [timer EXCEPT ![i] = @ - 1]
          /\ timer[i] > 0
      BY <2>4 DEF waitForAccountingStopTimeout
    <3>2. timer' \in [SessionID -> Nat]
      <4>1. timer[i] - 1 \in Nat
        BY <1>2, <3>1
      <4> QED
        BY <1>2, <3>1, <4>1
    <3> QED
      BY <1>1, <1>2, <2>2, <3>1, <3>2, QuietBase
  <2>5. ASSUME Tick \/ \E m \in MAC : refuseStale(m)
        PROVE  Base' /\ Lasts
    <3>1. UNCHANGED <<next, sess, lock, job, timer>> /\ now' \in Nat
      BY <1>2, <2>5 DEF Tick, refuseStale
    <3> QED
      BY <1>1, <1>2, <2>2, <3>1, QuietBase
  <2>6. Base' /\ Lasts
    BY <1>4, <2>3, <2>4, <2>5, StepMoves, DiscoverMoves DEF RNext
  <2>7. Sound(rec)'
    BY <2>1, <2>6, SoundLasts
  <2> QED
    BY <2>1, <2>6, <2>7 DEF RInv, Base
<1> QED
  BY <1>3, <1>4

\* RInv holds in every state of the recovery.
THEOREM RecoveryInvariant == RSpec => []RInv
<1> QED
  BY InvInit, InvStep, PTL DEF RSpec

\* Every variable of the recovery keeps its type.
THEOREM RecoveryTypes == RSpec => []RTypeOK
<1>1. RInv => RTypeOK
  BY DEF RInv
<1> QED
  BY <1>1, RecoveryInvariant, PTL

\* The indexes by MAC and by IMSI agree, for any number of devices of a subscriber
\* and whatever the interleaving, although unindexRecoveryLocked deletes entries
\* without looking whose they are.
THEOREM TombstoneIndexesAgree == RSpec => []TombstonesIndexed
<1>1. RInv => TombstonesIndexed
  BY DEF RInv, Sound, TombstonesIndexed
<1> QED
  BY <1>1, RecoveryInvariant, PTL

\* While handleGTPUError is at the exchange with the access point its client has no
\* active session: the lock, and the second look at the session under it, cover the
\* exchange.
THEOREM RecoveredNotDisconnected == RSpec => []DisconnectSparesRecovered
<1>1. RInv => DisconnectSparesRecovered
  BY DEF RInv, Losses, Lost, DisconnectSparesRecovered, At
<1> QED
  BY <1>1, RecoveryInvariant, PTL

\* No tombstone that can be found is left disconnecting by a handler that has gone:
\* however many handlers of one session overlap, each end of an exchange leaves a
\* state that waits for the client.
THEOREM DisconnectingIsHandled == RSpec => []DisconnectingHasHandler
<1>1. RInv => DisconnectingHasHandler
  BY DEF RInv
<1> QED
  BY <1>1, RecoveryInvariant, PTL

\* No step takes away a tombstone that has not expired, unless a newer loss replaces
\* it or an attach of the subscriber completes it.
THEOREM TombstonesKept == RSpec => TombstoneKept
<1>1. RInv /\ [RNext]_rVars => [Keeps]_rVars
  BY TombStep DEF Tombs
<1>2. RSpec => [][Keeps]_rVars
  BY <1>1, RecoveryInvariant, PTL DEF RSpec
<1> QED
  BY <1>2 DEF Keeps, TombstoneKept

\* No step but AddRecoveryTombstone makes a tombstone findable: UpdateRecovery by a
\* late answer, timeout or Accounting-Stop never revives one.
THEOREM TombstonesStayDown == RSpec => NoTombstoneRevived
<1>1. RInv /\ [RNext]_rVars => [RevivesNone]_rVars
  BY TombStep DEF Tombs
<1>2. RSpec => [][RevivesNone]_rVars
  BY <1>1, RecoveryInvariant, PTL DEF RSpec
<1> QED
  BY <1>2 DEF RevivesNone, NoTombstoneRevived
=============================================================================
