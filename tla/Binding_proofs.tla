--------------------------- MODULE Binding_proofs ---------------------------
(***************************************************************************)
(* Proofs about Lifecycle: the binding of a session.  In an orderly setup  *)
(* what the PGW and the kernel have is what the sessions have come to:     *)
(* Control says where the goroutines are and which session each works on,  *)
(* Contexts what the PGW has, Local what the kernel has.                   *)
(*                                                                         *)
(* A step of a goroutine is one of a few deeds (Deed), which forget the    *)
(* details of the action and keep what matters to the three.  The lemmas   *)
(* called ...Does show for each action which deed it is; those called      *)
(* ...Control, ...Contexts and ...Local show for the deeds that they keep  *)
(* the three.  The theorems are at the end.                                *)
(***************************************************************************)
EXTENDS Lifecycle_proofs

\* The labels of the work on a session before it has an address, ...
Early == {"auth_pending", "authorize", "pgw_pending", "check_imsi", "check_mac", "pgw_create",
          "update_ip"}

\* ... and of all the work on it.
Mind == Early \cup {"apply_pgw", "install", "user_add", "mark_active", "access_add", "validate",
                    "undo_user", "undo_route", "undo_pgw", "fail", "mark_recovering",
                    "terminate", "del_pgw", "del_route", "del_user", "del_access",
                    "del_session"}

\* p works on session i.
Minds(p, i) == job[p].id = i /\ job[p].pc \in Mind

\* The states of a session that is worked on at l.
StatesAt(l) ==
  CASE l = "auth_pending" -> {Pending}
    [] l = "authorize" -> {AuthPending}
    [] l = "pgw_pending" -> {Authorized}
    [] l \in {"check_imsi", "check_mac", "pgw_create", "update_ip", "apply_pgw", "install",
              "user_add", "mark_active"} -> {PGWPending}
    [] l \in {"access_add", "validate", "undo_user", "mark_recovering"} -> {Active}
    [] l \in {"undo_route", "undo_pgw", "fail"} -> {PGWPending, Active}
    [] l = "terminate" -> {Active, Recovering, Failed}
    [] OTHER -> {Terminating}

\* Two copies of a session agree: subscriber, address and TEIDs.
Like(a, b) ==
  /\ a.imsi = b.imsi /\ a.mac = b.mac /\ a.apn = b.apn
  /\ a.ip = b.ip /\ a.gtpc = b.gtpc /\ a.gtpu = b.gtpu

\* What a goroutine that works on a session has.
Works(p) ==
  LET j == job[p]
      s == sess[j.id]
  IN j.pc \in Mind =>
       /\ j.id \in 1..next /\ j.key = KeyOf(s)
       /\ j.id \in byID => s.state \in StatesAt(j.pc)
       /\ j.pc # "terminate" => j.id \in byID /\ Like(j.c, s)
       /\ j.pc \in Early => s.ip = None /\ j.key = KeyOf(j.ev)

\* What a goroutine that does not has.
Attends(p) ==
  LET j == job[p]
      s == sess[j.id]
  IN /\ ~j.expired /\ j.pc # "hung"
     /\ j.pc \in {"find", "create"} \/ j.then \in {"find", "create"} => j.key = KeyOf(j.ev)
     /\ \/ j.pc \in {"acct_recheck", "gtpu_recheck"}
        \/ j.pc = "lock" /\ j.then # "find"
        => j.id \in 1..next /\ j.key = KeyOf(s)
     /\ j.pc = "gtpu_record" => j.id \in 1..next /\ KeyOf(j.c) = KeyOf(s)

\* Every session stems from an attach.
Stems(s) ==
  \E q \in Proc : \E e \in setup.events[q] :
    e.kind = "attach" /\ e.imsi = s.imsi /\ e.mac = s.mac /\ e.apn = s.apn

\* So does every session ever stored.
Stemming == \A i \in 1..next : Stems(sess[i])

\* The first part of the invariant: where everybody is.
Control ==
  /\ \A p \in Proc : Works(p)
  /\ \A p \in Proc : Attends(p)
  /\ Stemming
-----------------------------------------------------------------------------
\* Session i is at rest or is worked on at a label of L.
StageIn(i, L) == \A p \in Proc : Minds(p, i) => job[p].pc \in L

\* It is, and it has not failed.
Has(i, L) == sess[i].state # Failed /\ StageIn(i, L)

\* The labels by what a session worked on there has.  One being torn down still has
\* everything, ...
Torn == {"mark_recovering", "terminate", "del_pgw"}

\* ... these have a context that the session knows of, ...
Full == {"install", "user_add", "mark_active", "access_add", "validate", "undo_user",
         "undo_route", "undo_pgw"} \cup Torn

\* ... and these have one.
Owning == Full \cup {"update_ip", "apply_pgw"}

\* The context that session i knows of.
CtxOf(i) == [sub |-> Sub(sess[i]), teid |-> sess[i].gtpc, ip |-> sess[i].ip]

\* No two contexts have a subscriber, a TEID or an address in common.
Distinct ==
  \A x, y \in ctx : x.sub = y.sub \/ x.teid = y.teid \/ (x.ip = y.ip /\ x.ip # None) => x = y

\* What a session knows of is there.
Holds == \A i \in byID : Has(i, Full) => CtxOf(i) \in ctx /\ sess[i].gtpu # None

\* So is what a goroutine was answered and has not recorded yet.
Asked(p) ==
  LET j == job[p]
      s == sess[j.id]
  IN /\ j.pc = "update_ip" =>
          [sub |-> Sub(s), teid |-> j.bearer.gtpc, ip |-> j.ip] \in ctx
     /\ j.pc = "apply_pgw" =>
          [sub |-> Sub(s), teid |-> j.bearer.gtpc, ip |-> s.ip] \in ctx

\* Every context belongs to a stored session, ...
Owned == \A x \in ctx : \E i \in byID : Sub(sess[i]) = x.sub /\ Has(i, Owning)

\* ... and of the sessions of one subscriber to one only.
OneOwner ==
  \A i, k \in byID : Sub(sess[i]) = Sub(sess[k]) /\ Has(i, Owning) /\ Has(k, Owning) => i = k

\* What the first half of findLiveSessionDifferentFrom has found stays true up to the
\* request.
Alone(p) ==
  LET j == job[p]
  IN j.pc \in {"check_mac", "pgw_create"} =>
       \A i \in byID : i # j.id /\ Sub(sess[i]) = Sub(sess[j.id]) => sess[i].state = Failed

\* The second part of the invariant: what the PGW has.
Contexts ==
  /\ Distinct /\ Holds /\ Owned /\ OneOwner
  /\ \A p \in Proc : Asked(p) /\ Alone(p)
-----------------------------------------------------------------------------
\* The labels by what the kernel has for a session worked on there: a route, ...
Routing == {"user_add", "mark_active", "access_add", "validate", "undo_user", "undo_route",
            "del_route"} \cup Torn

\* ... a rule and a PDP context, ...
Ruling == {"mark_active", "access_add", "validate", "undo_user", "del_route", "del_user"} \cup Torn

\* ... and a neighbour entry.
Neighbouring == {"validate", "del_route", "del_user", "del_access"} \cup Torn

\* The labels at which a session surely has an address.
Addressed ==
  Routing \cup {"install", "del_user", "del_access", "del_session"}

\* No two sessions had the same address, ...
OneAddress ==
  \A i, k \in 1..next : sess[i].ip = sess[k].ip /\ sess[i].ip # None => i = k

\* ... and the one in an answer of the PGW is new.
FreshAddress ==
  \A p \in Proc : job[p].pc = "update_ip" /\ job[p].ip # None =>
    \A i \in 1..next : sess[i].ip # job[p].ip

\* A session that has come to be installed has an address.
HasAddress == \A i \in byID : Has(i, Addressed) => sess[i].ip # None

\* The kernel has for the address of session i what the label says.
Installed(i) ==
  LET a == sess[i].ip
  IN /\ a \in route <=> Has(i, Routing)
     /\ a \in rule <=> Has(i, Ruling)
     /\ pdp[a] = IF Has(i, Ruling) THEN i ELSE NoSession
     /\ neigh[a] = IF Has(i, Neighbouring) THEN sess[i].mac ELSE None

\* It has so for every stored session.
Kernel == \A i \in byID : sess[i].ip # None => Installed(i)

\* The address belongs to a stored session.
Taken(a) == \E i \in byID : sess[i].ip = a

\* What the kernel has belongs to stored sessions.
InUse ==
  \A a \in IP : a \in route \/ a \in rule \/ pdp[a] # NoSession \/ neigh[a] # None => Taken(a)

\* A session with a rule has its data TEID.
Tunnelled == \A i \in byID : Has(i, Ruling) => sess[i].gtpu # None

\* The third part of the invariant: what the kernel has.
Local == OneAddress /\ FreshAddress /\ HasAddress /\ Kernel /\ InUse /\ Tunnelled
-----------------------------------------------------------------------------
(* What a step does. *)

\* The table is as it was, GTP-U errors aside.
StoreKept ==
  /\ next' = next /\ byID' = byID
  /\ \A j \in 1..next : sess'[j].state = sess[j].state /\ Like(sess'[j], sess[j])

\* Session i alone changes.
OnlyOwn(i) ==
  /\ next' = next
  /\ \A j \in 1..next : j # i => /\ sess'[j].state = sess[j].state /\ Like(sess'[j], sess[j])
                                 /\ j \in byID' <=> j \in byID

\* Nothing is installed or removed.
KernelKept == UNCHANGED <<route, rule, pdp, neigh>>

\* p works on no session.
Aside(p) ==
  /\ StoreKept /\ ctx' = ctx /\ KernelKept
  /\ job[p].pc \notin Mind /\ job'[p].pc \notin Mind
  /\ Attends(p)'

\* p turns to a session in order to detach it.
TakesOn(p) ==
  /\ StoreKept /\ ctx' = ctx /\ KernelKept
  /\ job[p].pc \notin Mind /\ job'[p].pc \in {"terminate", "mark_recovering"}
  /\ job'[p].id \in 1..next /\ job'[p].key = KeyOf(sess[job'[p].id])
  /\ job'[p].pc = "mark_recovering" => /\ job'[p].id \in byID
                                       /\ sess[job'[p].id].state = Active
                                       /\ Like(job'[p].c, sess[job'[p].id])
  /\ Attends(p)'

\* p stores a new session.
Adds(p) ==
  /\ ctx' = ctx /\ KernelKept
  /\ job[p].pc = "create" /\ job'[p].pc = "auth_pending"
  /\ next' = next + 1 /\ byID' = byID \cup {next + 1}
  /\ \A j \in 1..next : sess'[j] = sess[j]
  /\ LET s == sess'[next + 1]
         e == job[p].ev
     IN /\ s.state = Pending /\ s.ip = None
        /\ s.imsi = e.imsi /\ s.mac = e.mac /\ s.apn = e.apn
        /\ Like(job'[p].c, s)
  /\ job'[p].id = next + 1 /\ job'[p].key = job[p].key /\ job'[p].ev = job[p].ev
  /\ job'[p].then = job[p].then /\ ~job'[p].expired

\* p goes on from l to l2.
Goes(p, l, l2) ==
  /\ job[p].pc = l /\ Moved(p, l2) /\ ~job'[p].expired
  /\ l2 \in Mind \ {"terminate"} => Like(job'[p].c, sess'[job'[p].id])

\* It does nothing else.
Walks(p, l, l2) == Goes(p, l, l2) /\ StoreKept /\ ctx' = ctx /\ KernelKept

\* No other session of the subscriber lives.
NoOther(i) == \A j \in byID : j # i /\ Sub(sess[j]) = Sub(sess[i]) => sess[j].state = Failed

\* A check, or a call that failed.
Passes(p) ==
  \/ Walks(p, "check_imsi", "check_mac") /\ NoOther(job[p].id)
  \/ Walks(p, "check_mac", "pgw_create")
  \/ Walks(p, "check_imsi", "fail")
  \/ Walks(p, "check_mac", "fail")
  \/ Walks(p, "pgw_create", "fail")
  \/ Walks(p, "install", "undo_pgw")
  \/ Walks(p, "user_add", "undo_route")
  \/ Walks(p, "access_add", "undo_user")
  \/ Walks(p, "validate", "unlock")
  \/ Walks(p, "validate", "terminate")
  \/ /\ Walks(p, "terminate", "unlock")
     /\ job[p].id \notin byID \/ sess[job[p].id].state = Failed

\* p brings its session to the state to.
Marks(p, l, l2, to) ==
  /\ Goes(p, l, l2) /\ ctx' = ctx /\ KernelKept
  /\ OnlyOwn(job[p].id) /\ byID' = byID /\ job[p].id \in byID
  /\ sess'[job[p].id].state = to /\ Like(sess'[job[p].id], sess[job[p].id])

\* The transitions that are made.
Proceeds(p) ==
  \/ Marks(p, "auth_pending", "authorize", AuthPending)
  \/ Marks(p, "authorize", "pgw_pending", Authorized)
  \/ Marks(p, "pgw_pending", "check_imsi", PGWPending)
  \/ Marks(p, "mark_active", "access_add", Active)
  \/ Marks(p, "mark_recovering", "terminate", Recovering)
  \/ Marks(p, "terminate", "del_pgw", Terminating) /\ sess[job[p].id].state # Failed
  \/ Marks(p, "fail", "unlock", Failed)

\* pgw.CreateSession was accepted.
Asks(p) ==
  /\ Goes(p, "pgw_create", "update_ip") /\ StoreKept /\ KernelKept
  /\ \E ip \in OrNone(IP), teid \in TEID :
       /\ PGWAccepts(sess[job[p].id], ip, teid)
       /\ job'[p].ip = ip /\ job'[p].bearer = Answer(teid)

\* UpdateSubscriberIP sets the address, or the answer had none.
Addresses(p) ==
  /\ Goes(p, "update_ip", "apply_pgw") /\ OnlyOwn(job[p].id) /\ byID' = byID
  /\ ctx' = ctx /\ KernelKept
  /\ job'[p].bearer = job[p].bearer
  /\ LET s == sess[job[p].id]
         t == sess'[job[p].id]
     IN /\ t.state = s.state /\ t.imsi = s.imsi /\ t.mac = s.mac /\ t.apn = s.apn
        /\ t.ip = job[p].ip

\* ApplyPGWResult sets the TEIDs.
Binds(p) ==
  /\ OnlyOwn(job[p].id) /\ byID' = byID /\ ctx' = ctx /\ KernelKept
  /\ LET s == sess[job[p].id]
         t == sess'[job[p].id]
     IN /\ t.state = s.state /\ t.imsi = s.imsi /\ t.mac = s.mac /\ t.apn = s.apn
        /\ t.ip = s.ip /\ t.gtpc = job[p].bearer.gtpc /\ t.gtpu = job[p].bearer.gtpu
        /\ \/ s.ip # None /\ Goes(p, "apply_pgw", "install")
           \/ s.ip = None /\ Goes(p, "apply_pgw", "undo_pgw")

\* routing.Install.
AddsRoute(p) ==
  /\ Goes(p, "install", "user_add") /\ StoreKept /\ ctx' = ctx
  /\ route' = route \cup {sess[job[p].id].ip} /\ UNCHANGED <<rule, pdp, neigh>>

\* user.AddSession.
AddsUser(p) ==
  LET a == sess[job[p].id].ip
  IN /\ Goes(p, "user_add", "mark_active") /\ StoreKept /\ ctx' = ctx
     /\ rule' = rule \cup {a}
     /\ pdp' = [pdp EXCEPT ![a] = IF @ = NoSession THEN job[p].id ELSE @]
     /\ UNCHANGED <<route, neigh>>

\* access.AddSession.
AddsNeighbour(p) ==
  LET s == sess[job[p].id]
  IN /\ Goes(p, "access_add", "validate") /\ StoreKept /\ ctx' = ctx
     /\ neigh' = IF s.mac = None THEN neigh ELSE [neigh EXCEPT ![s.ip] = s.mac]
     /\ UNCHANGED <<route, rule, pdp>>

\* pgw.DeleteSession.
DropsContext(p) ==
  /\ Goes(p, "undo_pgw", "fail") \/ Goes(p, "del_pgw", "del_route")
  /\ StoreKept /\ KernelKept
  /\ PGWDelete(sess[job[p].id].gtpc)

\* routing.Remove.
DropsRoute(p) ==
  /\ Goes(p, "undo_route", "undo_pgw") \/ Goes(p, "del_route", "del_user")
  /\ StoreKept /\ ctx' = ctx
  /\ RouteRemove(sess[job[p].id]) /\ UNCHANGED <<rule, pdp, neigh>>

\* user.RemoveSession.
DropsUser(p) ==
  /\ Goes(p, "undo_user", "undo_route") \/ Goes(p, "del_user", "del_access")
  /\ StoreKept /\ ctx' = ctx
  /\ UserRemove(sess[job[p].id], job[p].id) /\ UNCHANGED <<route, neigh>>

\* access.RemoveSession.
DropsNeighbour(p) ==
  LET s == sess[job[p].id]
  IN /\ Goes(p, "del_access", "del_session") /\ StoreKept /\ ctx' = ctx
     /\ neigh' = IF s.ip = None \/ s.mac = None THEN neigh ELSE [neigh EXCEPT ![s.ip] = None]
     /\ UNCHANGED <<route, rule, pdp>>

\* store.Delete.
Removes(p) ==
  /\ \/ Goes(p, "del_session", "unlock")
     \/ Goes(p, "del_session", "create") /\ job[p].then = "create"
  /\ OnlyOwn(job[p].id) /\ byID' = byID \ {job[p].id} /\ ctx' = ctx /\ KernelKept
  /\ LET s == sess[job[p].id]
         t == sess'[job[p].id]
     IN t.imsi = s.imsi /\ t.mac = s.mac /\ t.apn = s.apn /\ t.ip = s.ip

\* What a step of p is.
Deed(p) ==
  \/ Aside(p) \/ TakesOn(p) \/ Adds(p) \/ Passes(p) \/ Proceeds(p) \/ Asks(p)
  \/ Addresses(p) \/ Binds(p) \/ AddsRoute(p) \/ AddsUser(p) \/ AddsNeighbour(p)
  \/ DropsContext(p) \/ DropsRoute(p) \/ DropsUser(p) \/ DropsNeighbour(p) \/ Removes(p)
-----------------------------------------------------------------------------
(* Exclusion. *)

\* The types that the lemmas use.
LEMMA Types ==
  ASSUME LInv
  PROVE  /\ next \in Nat /\ sess \in [1..next -> Session] /\ byID \subseteq 1..next
         /\ job \in [Proc -> Job] /\ ctx \subseteq Context
         /\ route \subseteq IP /\ rule \subseteq IP
         /\ pdp \in [IP -> 0..next] /\ neigh \in [IP -> OrNone(MAC)] /\ setup \in Setups
BY DEF LInv, LcTypeOK, MgrTypeOK

\* Working on a session and not doing so are told apart by the label.
LEMMA MindFacts ==
  /\ Mind \subseteq Label /\ Mind \cap Outside = {} /\ Early \subseteq Mind
  /\ "unlock" \notin Mind /\ "create" \notin Mind /\ "find" \notin Mind /\ "lock" \notin Mind
  /\ "acct_recheck" \notin Mind /\ "gtpu_recheck" \notin Mind /\ "gtpu_record" \notin Mind
  /\ "hung" \notin Mind /\ "idle" \notin Mind /\ "done" \notin Mind /\ "next" \notin Mind
BY DEF Mind, Early, Label, Outside

\* A session is worked on by one goroutine: the others wait for the lock of its
\* subscriber.
LEMMA OneMinder ==
  ASSUME LInv, Control, NEW p \in Proc, NEW q \in Proc, NEW i, Minds(p, i), Minds(q, i)
  PROVE  p = q
<1>1. /\ i \in 1..next /\ job[p].key = KeyOf(sess[i]) /\ job[q].key = KeyOf(sess[i])
      /\ job[p].pc \notin Outside /\ job[q].pc \notin Outside
  BY MindFacts DEF Control, Works, Minds
<1>2. KeyOf(sess[i]) \in LockKey
  BY <1>1, Types, Keys
<1>3. PICK k \in LockKey : k = KeyOf(sess[i])
  BY <1>2
<1>4. Inside(p, k) /\ Inside(q, k)
  BY <1>1, <1>3 DEF Inside
<1> QED BY <1>4 DEF LInv, Held

\* Where a goroutine that goes on brings its session.
LEMMA GoesStage ==
  ASSUME LInv, Control, NEW p \in Proc, NEW l \in Mind, NEW l2 \in Label, Goes(p, l, l2),
         NEW i, i = job[p].id, NEW L
  PROVE  /\ StageIn(i, L) <=> l \in L
         /\ StageIn(i, L)' <=> (l2 \in Mind => l2 \in L)
         /\ \A j : j # i => (StageIn(j, L)' <=> StageIn(j, L))
<1>0. /\ \A q \in Proc : q # p => job'[q] = job[q]
      /\ job[p].pc = l /\ job'[p].pc = l2 /\ job'[p].id = i
  BY DEF Goes, Moved, Turns
<1>1. Minds(p, i) /\ \A q \in Proc : Minds(q, i) => q = p
  BY <1>0, OneMinder DEF Minds
<1>2. \A q \in Proc : Minds(q, i)' => q = p
  BY <1>0, <1>1 DEF Minds
<1>3. Minds(p, i)' <=> l2 \in Mind
  BY <1>0 DEF Minds
<1>4. \A j : j # i => \A q \in Proc : /\ Minds(q, j)' <=> Minds(q, j)
                                      /\ Minds(q, j) => q # p
  BY <1>0 DEF Minds
<1>5. StageIn(i, L) <=> l \in L
  BY <1>0, <1>1 DEF StageIn
<1>6. StageIn(i, L)' <=> (l2 \in Mind => l2 \in L)
  BY <1>0, <1>2, <1>3 DEF StageIn
<1>7. \A j : j # i => (StageIn(j, L)' <=> StageIn(j, L))
  BY <1>0, <1>4 DEF StageIn
<1> QED BY <1>5, <1>6, <1>7

\* What the others have stays true when p changes no session but the one it works on.
Spares(p) ==
  /\ next' \in Nat /\ next <= next'
  /\ \A j \in 1..next :
       /\ KeyOf(sess'[j]) = KeyOf(sess[j])
       /\ \/ Minds(p, j)
          \/ /\ sess'[j].state = sess[j].state /\ Like(sess'[j], sess[j])
             /\ j \in byID' <=> j \in byID

\* The other goroutines keep the session they work on and what they know of it.
LEMMA OthersKept ==
  ASSUME LInv, Control, NEW p \in Proc, Turns(p), Spares(p), NEW q \in Proc, q # p
  PROVE  Works(q)' /\ Attends(q)'
<1>0. job'[q] = job[q] /\ Works(q) /\ Attends(q) /\ next \in Nat
  BY Types DEF Turns, Control
<1>1. PICK j : j = job[q].id
  OBVIOUS
<1>2. j \in 1..next => j \in 1..next' /\ KeyOf(sess'[j]) = KeyOf(sess[j])
  BY <1>0 DEF Spares
<1>3. Attends(q)'
  BY <1>0, <1>1, <1>2 DEF Attends
<1>4. ASSUME job[q].pc \in Mind PROVE Works(q)'
  <2>1. Minds(q, j) /\ j \in 1..next /\ ~Minds(p, j)
    BY <1>0, <1>1, <1>4, OneMinder DEF Minds, Works
  <2>2. /\ sess'[j].state = sess[j].state /\ Like(sess'[j], sess[j])
        /\ j \in byID' <=> j \in byID
    BY <2>1 DEF Spares
  <2>3. job[q].key = KeyOf(sess'[j]) /\ j \in 1..next'
    BY <1>0, <1>1, <1>2, <1>4, <2>1 DEF Works
  <2>4. j \in byID' => sess'[j].state \in StatesAt(job[q].pc)
    BY <1>0, <1>1, <1>4, <2>2 DEF Works
  <2>5. job[q].pc # "terminate" => j \in byID' /\ Like(job[q].c, sess'[j])
    BY <1>0, <1>1, <1>4, <2>2 DEF Works, Like
  <2>6. job[q].pc \in Early => sess'[j].ip = None /\ job[q].key = KeyOf(job[q].ev)
    BY <1>0, <1>1, <1>4, <2>2 DEF Works, Like
  <2> QED BY <1>0, <1>1, <2>3, <2>4, <2>5, <2>6 DEF Works
<1>5. job[q].pc \notin Mind => Works(q)'
  BY <1>0 DEF Works
<1> QED BY <1>3, <1>4, <1>5

\* StatesAt, label by label.
LEMMA StateTable ==
  /\ StatesAt("auth_pending") = {Pending} /\ StatesAt("authorize") = {AuthPending}
  /\ StatesAt("pgw_pending") = {Authorized}
  /\ \A l \in {"check_imsi", "check_mac", "pgw_create", "update_ip", "apply_pgw", "install",
               "user_add", "mark_active"} : StatesAt(l) = {PGWPending}
  /\ \A l \in {"access_add", "validate", "undo_user", "mark_recovering"} : StatesAt(l) = {Active}
  /\ \A l \in {"undo_route", "undo_pgw", "fail"} : StatesAt(l) = {PGWPending, Active}
  /\ StatesAt("terminate") = {Active, Recovering, Failed}
  /\ \A l \in {"del_pgw", "del_route", "del_user", "del_access", "del_session"} :
       StatesAt(l) = {Terminating}
BY DEF StatesAt

\* The sessions keep their subscriber.
SameSubscriber(s, t) == t.imsi = s.imsi /\ t.mac = s.mac /\ t.apn = s.apn

\* The sessions stem from the attaches they did.
LEMMA StemsKept ==
  ASSUME Stemming, next' = next, setup' = setup,
         \A j \in 1..next : SameSubscriber(sess[j], sess'[j])
  PROVE  Stemming'
BY DEF Stemming, Stems, SameSubscriber

\* The lock and the context of a session are those of its subscriber.
LEMMA SameKey ==
  ASSUME NEW s, NEW t, SameSubscriber(s, t)
  PROVE  KeyOf(t) = KeyOf(s) /\ Sub(t) = Sub(s)
BY DEF SameSubscriber, KeyOf, Sub

\* A goroutine that goes on keeps what it has, if its session is where it should be.
LEMMA GoesControl ==
  ASSUME LInv, Control, NEW p \in Proc, NEW l \in Mind, NEW l2 \in Label, Goes(p, l, l2),
         NEW i, i = job[p].id, setup' = setup,
         OnlyOwn(i) \/ StoreKept, SameSubscriber(sess[i], sess'[i]),
         l2 # "find" /\ l2 # "lock" /\ l2 # "acct_recheck" /\ l2 # "gtpu_recheck" /\ l2 # "gtpu_record"
            /\ l2 # "hung",
         l2 = "create" => job[p].then = "create",
         l2 \in Mind => /\ i \in byID' => sess'[i].state \in StatesAt(l2)
                        /\ l2 # "terminate" => i \in byID'
                        /\ l2 \in Early => l \in Early /\ sess'[i].ip = None
  PROVE  Control'
<1>0. /\ next' = next /\ next \in Nat /\ i \in 1..next
      /\ job[p].pc = l /\ job'[p].pc = l2 /\ job'[p].id = i /\ job[p].key = KeyOf(sess[i])
      /\ job'[p].key = job[p].key /\ job'[p].ev = job[p].ev
      /\ job'[p].then \in {job[p].then, "unlock"} /\ ~job'[p].expired /\ Turns(p)
      /\ l2 \in Mind \ {"terminate"} => Like(job'[p].c, sess'[i])
  BY Types DEF Control, Works, Goes, Moved, OnlyOwn, StoreKept
<1>1. Minds(p, i)
  BY <1>0 DEF Minds
<1>2. \A j \in 1..next : SameSubscriber(sess[j], sess'[j])
  BY <1>0 DEF OnlyOwn, StoreKept, SameSubscriber, Like
<1>3. \A j \in 1..next : KeyOf(sess'[j]) = KeyOf(sess[j])
  BY <1>2, SameKey
<1>4. Spares(p)
  BY <1>0, <1>1, <1>3 DEF Spares, OnlyOwn, StoreKept
<1>5. \A q \in Proc : q # p => Works(q)' /\ Attends(q)'
  BY <1>0, <1>4, OthersKept
<1>6. Works(p)'
  <2>1. l \in Early => job[p].key = KeyOf(job[p].ev)
    BY <1>0 DEF Control, Works
  <2> QED BY <1>0, <1>3, <2>1 DEF Works
<1>7. Attends(p)'
  <2>1. job[p].then \in {"find", "create"} => job[p].key = KeyOf(job[p].ev)
    BY DEF Control, Attends
  <2> QED BY <1>0, <2>1 DEF Attends
<1>8. Stemming'
  BY <1>0, <1>2, StemsKept DEF Control
<1> QED BY <1>5, <1>6, <1>7, <1>8 DEF Control
-----------------------------------------------------------------------------
(* Every deed keeps Control. *)

\* The labels that the deeds name.
LEMMA LabelsOfDeeds ==
  /\ {"auth_pending", "authorize", "pgw_pending", "check_imsi", "check_mac", "pgw_create",
      "update_ip"} = Early
  /\ \A l \in {"apply_pgw", "install", "user_add", "mark_active", "access_add", "validate",
               "undo_user", "undo_route", "undo_pgw", "fail", "mark_recovering", "terminate",
               "del_pgw", "del_route", "del_user", "del_access", "del_session"} :
       l \in Mind /\ l \notin Early
  /\ "unlock" \in Label /\ "create" \in Label /\ "unlock" \notin Early /\ "create" \notin Early
BY DEF Mind, Early, Label

\* A goroutine that works on no session disturbs none.
LEMMA AsideControl ==
  ASSUME LInv, Control, NEW p \in Proc, Turns(p), setup' = setup, Aside(p)
  PROVE  Control'
<1>1. next' = next /\ next \in Nat
  BY Types DEF Aside, StoreKept
<1>2. \A j \in 1..next : SameSubscriber(sess[j], sess'[j])
  BY DEF Aside, StoreKept, SameSubscriber, Like
<1>3. Spares(p)
  BY <1>1, <1>2, SameKey DEF Spares, Aside, StoreKept
<1>4. \A q \in Proc : q # p => Works(q)' /\ Attends(q)'
  BY <1>3, OthersKept
<1>5. Works(p)' /\ Attends(p)'
  BY DEF Aside, Works
<1>6. Stemming'
  BY <1>1, <1>2, StemsKept DEF Control
<1> QED BY <1>4, <1>5, <1>6 DEF Control

\* A session that nobody works on is in service or has failed.
LEMMA AtRest ==
  ASSUME LInv, Control, NEW i \in byID, \A q \in Proc : ~Minds(q, i)
  PROVE  sess[i].state \in Settled
<1> SUFFICES ASSUME sess[i].state \notin Settled PROVE FALSE
  OBVIOUS
<1>1. PICK q \in Proc : Tends(q, i)
  BY DEF LInv, Tended
<1>2. job[q].pc \in Mind
  BY <1>1 DEF Tends, Tending, Mind, Early, Control, Attends
<1> QED BY <1>1, <1>2 DEF Tends, Minds

\* A goroutine inside the section of a subscriber is alone with its sessions.
LEMMA InsideAlone ==
  ASSUME LInv, Control, NEW p \in Proc, job[p].pc \notin Outside, job[p].pc \notin Mind,
         NEW i \in 1..next, job[p].key = KeyOf(sess[i])
  PROVE  \A q \in Proc : ~Minds(q, i)
<1> SUFFICES ASSUME NEW q \in Proc, Minds(q, i) PROVE FALSE
  OBVIOUS
<1>1. job[q].key = KeyOf(sess[i]) /\ job[q].pc \notin Outside /\ q # p
  BY MindFacts DEF Minds, Control, Works
<1>2. PICK k \in LockKey : k = KeyOf(sess[i])
  BY Types, Keys
<1>3. Inside(p, k) /\ Inside(q, k)
  BY <1>1, <1>2 DEF Inside
<1> QED BY <1>1, <1>3 DEF LInv, Held

\* A goroutine turns to a session that nobody works on.
LEMMA TakesOnAlone ==
  ASSUME LInv, LInv', Control, NEW p \in Proc, Turns(p), TakesOn(p),
         NEW i, i = job'[p].id
  PROVE  /\ i \in 1..next
         /\ \A q \in Proc : ~Minds(q, i)
         /\ i \in byID => sess[i].state \in Settled
<1>1. /\ i \in 1..next /\ job'[p].key = KeyOf(sess[i]) /\ job'[p].pc \in Mind
      /\ job[p].pc \notin Mind
  BY LabelsOfDeeds DEF TakesOn
<1>2. PICK k \in LockKey : k = KeyOf(sess[i])
  BY <1>1, Types, Keys
<1>3. Inside(p, k)'
  BY <1>1, <1>2, MindFacts DEF Inside
<1>4. ASSUME NEW q \in Proc, Minds(q, i) PROVE FALSE
  <2>1. q # p /\ job'[q] = job[q]
    BY <1>1, <1>4 DEF Minds, Turns
  <2>2. job[q].key = k /\ job[q].pc \notin Outside
    BY <1>2, <1>4, MindFacts DEF Minds, Control, Works
  <2>3. Inside(q, k)'
    BY <2>1, <2>2 DEF Inside
  <2>4. lock'[k] = p /\ lock'[k] = q
    BY <1>3, <2>3 DEF LInv, Held
  <2> QED BY <2>1, <2>4
<1> QED BY <1>1, <1>4, AtRest

\* Nor does one that turns to a session: nobody else works on that.
LEMMA TakesOnControl ==
  ASSUME LInv, LInv', Control, NEW p \in Proc, Turns(p), setup' = setup, TakesOn(p)
  PROVE  Control'
<1>1. next' = next /\ next \in Nat /\ byID' = byID
  BY Types DEF TakesOn, StoreKept
<1>2. \A j \in 1..next : SameSubscriber(sess[j], sess'[j])
  BY DEF TakesOn, StoreKept, SameSubscriber, Like
<1>3. Spares(p)
  BY <1>1, <1>2, SameKey DEF Spares, TakesOn, StoreKept
<1>4. \A q \in Proc : q # p => Works(q)' /\ Attends(q)'
  BY <1>3, OthersKept
<1>5. PICK i : i = job'[p].id
  OBVIOUS
<1>6. i \in 1..next /\ (i \in byID => sess[i].state \in Settled)
  BY <1>5, TakesOnAlone
<1>7. job'[p].key = KeyOf(sess'[i])
  BY <1>2, <1>5, <1>6, SameKey DEF TakesOn
<1>8. i \in byID => sess'[i].state \in StatesAt(job'[p].pc)
  BY <1>5, <1>6, StateTable DEF TakesOn, StoreKept, Settled
<1>9. job'[p].pc # "terminate" => i \in byID /\ Like(job'[p].c, sess'[i])
  BY <1>5, <1>6 DEF TakesOn, StoreKept, Like
<1>10. Works(p)'
  BY <1>1, <1>5, <1>6, <1>7, <1>8, <1>9, LabelsOfDeeds DEF Works, TakesOn
<1>11. Stemming'
  BY <1>1, <1>2, StemsKept DEF Control
<1> QED BY <1>4, <1>10, <1>11 DEF Control, TakesOn

\* store.Create: nobody else knows of the new session.
LEMMA AddsControl ==
  ASSUME LInv, LInv', Control, NEW p \in Proc, Turns(p), setup' = setup, Adds(p)
  PROVE  Control'
<1>0. PICK n : n = next + 1
  OBVIOUS
<1>1. /\ next \in Nat /\ next' = n /\ n \in 1..n /\ byID' = byID \cup {n} /\ byID \subseteq 1..next
      /\ \A j \in 1..next : sess'[j] = sess[j]
  BY <1>0, Types DEF Adds
<1>2. Spares(p)
  <2>1. \A j \in 1..next : j # n
    BY <1>0, <1>1
  <2>2. \A j \in 1..next : j \in byID' <=> j \in byID
    BY <1>1, <2>1
  <2>3. next' \in Nat /\ next <= next'
    BY <1>0, <1>1
  <2> QED BY <1>1, <2>2, <2>3 DEF Spares, Like
<1>3. \A q \in Proc : q # p => Works(q)' /\ Attends(q)'
  BY <1>2, OthersKept
<1>4. /\ job[p].ev \in setup.events[p] /\ job[p].ev.kind = "attach"
      /\ job[p].key = KeyOf(job[p].ev)
  BY DEF Adds, LInv, Known, Knows, Control, Attends
<1>5. SameSubscriber(job[p].ev, sess'[n])
  BY <1>0 DEF Adds, SameSubscriber
<1>6. job'[p].key = KeyOf(sess'[n]) /\ job'[p].key = KeyOf(job'[p].ev)
  BY <1>4, <1>5, SameKey DEF Adds
<1>7. Works(p)'
  BY <1>0, <1>1, <1>6, StateTable DEF Adds, Works
<1>8. Attends(p)'
  BY <1>6, MindFacts DEF Adds, Attends
<1>9. Stemming'
  <2> SUFFICES ASSUME NEW j \in 1..n PROVE Stems(sess[j])'
    BY <1>1 DEF Stemming
  <2>1. CASE j = n
    BY <1>4, <1>5, <2>1 DEF Stems, SameSubscriber
  <2>2. CASE j # n
    <3>1. j \in 1..next /\ sess'[j] = sess[j]
      BY <1>0, <1>1, <2>2
    <3> QED BY <3>1 DEF Control, Stemming, Stems
  <2> QED BY <2>1, <2>2
<1> QED BY <1>3, <1>7, <1>8, <1>9 DEF Control

\* What a goroutine has at the label where its step begins.
LEMMA GoesFrom ==
  ASSUME LInv, Control, NEW p \in Proc, NEW l \in Mind, NEW l2, Goes(p, l, l2),
         NEW i, i = job[p].id
  PROVE  /\ i \in 1..next /\ job[p].pc = l /\ job'[p].pc = l2 /\ job'[p].id = i
         /\ i \in byID => sess[i].state \in StatesAt(l)
         /\ l # "terminate" => i \in byID
         /\ l \in Early => sess[i].ip = None
BY DEF Control, Works, Goes, Moved

\* Going on with the table as it is.
LEMMA KeptControl ==
  ASSUME LInv, Control, NEW p \in Proc, NEW l \in Mind, NEW l2 \in Mind \cup {"unlock"},
         Goes(p, l, l2), setup' = setup, StoreKept,
         l2 \in Mind => /\ StatesAt(l) \subseteq StatesAt(l2)
                        /\ l = "terminate" => l2 = "terminate"
                        /\ l2 \in Early => l \in Early
  PROVE  Control'
<1>1. PICK i : i = job[p].id
  OBVIOUS
<1>2. /\ i \in 1..next
      /\ i \in byID => sess[i].state \in StatesAt(l)
      /\ l # "terminate" => i \in byID
      /\ l \in Early => sess[i].ip = None
  BY <1>1, GoesFrom
<1>3. SameSubscriber(sess[i], sess'[i]) /\ sess'[i].ip = sess[i].ip /\ byID' = byID
      /\ sess'[i].state = sess[i].state
  BY <1>2 DEF StoreKept, SameSubscriber, Like
<1>4. l2 \in Label /\ l2 \notin {"find", "lock", "acct_recheck", "gtpu_recheck", "gtpu_record", "hung", "create"}
  BY MindFacts, LabelsOfDeeds
<1> QED BY <1>1, <1>2, <1>3, <1>4, GoesControl

\* Going on after a transition.
LEMMA MarksControl ==
  ASSUME LInv, Control, NEW p \in Proc, NEW l \in Mind, NEW l2 \in Mind \cup {"unlock"}, NEW to,
         Marks(p, l, l2, to), setup' = setup,
         l2 \in Mind => /\ to \in StatesAt(l2)
                        /\ l2 \in Early => l \in Early
  PROVE  Control'
<1>1. PICK i : i = job[p].id
  OBVIOUS
<1>2. /\ Goes(p, l, l2) /\ OnlyOwn(i) /\ byID' = byID /\ i \in byID
      /\ sess'[i].state = to /\ Like(sess'[i], sess[i])
  BY <1>1 DEF Marks
<1>3. i \in 1..next /\ (l \in Early => sess[i].ip = None)
  BY <1>1, <1>2, GoesFrom
<1>4. SameSubscriber(sess[i], sess'[i]) /\ sess'[i].ip = sess[i].ip
  BY <1>2 DEF SameSubscriber, Like
<1>5. l2 \in Label /\ l2 \notin {"find", "lock", "acct_recheck", "gtpu_recheck", "gtpu_record", "hung", "create"}
  BY MindFacts, LabelsOfDeeds
<1> QED BY <1>1, <1>2, <1>3, <1>4, <1>5, GoesControl

\* A check, or a call that failed, brings the goroutine to the next label only.
LEMMA PassesControl ==
  ASSUME LInv, Control, NEW p \in Proc, setup' = setup, Passes(p)
  PROVE  Control'
<1>1. ASSUME NEW l \in Mind, NEW l2 \in Mind \cup {"unlock"}, Walks(p, l, l2),
             l2 \in Mind => /\ StatesAt(l) \subseteq StatesAt(l2)
                            /\ l = "terminate" => l2 = "terminate"
                            /\ l2 \in Early => l \in Early
      PROVE  Control'
  BY <1>1, KeptControl DEF Walks
<1>2. Early \subseteq Mind /\ "unlock" \notin Mind
  BY MindFacts
<1>3. CASE Walks(p, "check_imsi", "check_mac") \/ Walks(p, "check_mac", "pgw_create")
  BY <1>1, <1>2, <1>3, LabelsOfDeeds, StateTable
<1>4. CASE Walks(p, "check_imsi", "fail") \/ Walks(p, "check_mac", "fail") \/ Walks(p, "pgw_create", "fail")
  BY <1>1, <1>2, <1>4, LabelsOfDeeds, StateTable
<1>5. CASE Walks(p, "install", "undo_pgw") \/ Walks(p, "user_add", "undo_route") \/ Walks(p, "access_add", "undo_user")
  BY <1>1, <1>2, <1>5, LabelsOfDeeds, StateTable
<1>6. CASE Walks(p, "validate", "unlock") \/ Walks(p, "validate", "terminate") \/ Walks(p, "terminate", "unlock")
  BY <1>1, <1>2, <1>6, LabelsOfDeeds, StateTable
<1> QED BY <1>3, <1>4, <1>5, <1>6 DEF Passes

\* A transition of the store brings session and goroutine on together.
LEMMA ProceedsControl ==
  ASSUME LInv, Control, NEW p \in Proc, setup' = setup, Proceeds(p)
  PROVE  Control'
<1>2. Early \subseteq Mind /\ "unlock" \notin Mind
  BY MindFacts
<1>3. CASE \/ Marks(p, "auth_pending", "authorize", AuthPending)
           \/ Marks(p, "authorize", "pgw_pending", Authorized)
           \/ Marks(p, "pgw_pending", "check_imsi", PGWPending)
  BY <1>2, <1>3, LabelsOfDeeds, StateTable, MarksControl
<1>4. CASE \/ Marks(p, "mark_active", "access_add", Active)
           \/ Marks(p, "mark_recovering", "terminate", Recovering)
  BY <1>2, <1>4, LabelsOfDeeds, StateTable, MarksControl
<1>5. CASE \/ Marks(p, "terminate", "del_pgw", Terminating)
           \/ Marks(p, "fail", "unlock", Failed)
  BY <1>2, <1>5, LabelsOfDeeds, StateTable, MarksControl
<1> QED BY <1>3, <1>4, <1>5 DEF Proceeds

\* A call that installs something leaves the table alone.
LEMMA InstallsControl ==
  ASSUME LInv, Control, NEW p \in Proc, setup' = setup,
         Asks(p) \/ AddsRoute(p) \/ AddsUser(p) \/ AddsNeighbour(p)
  PROVE  Control'
<1>1. StoreKept
  BY DEF Asks, AddsRoute, AddsUser, AddsNeighbour
<1>2. Early \subseteq Mind
  BY MindFacts
<1>3. \/ Goes(p, "pgw_create", "update_ip") \/ Goes(p, "install", "user_add")
      \/ Goes(p, "user_add", "mark_active") \/ Goes(p, "access_add", "validate")
  BY DEF Asks, AddsRoute, AddsUser, AddsNeighbour
<1> QED BY <1>1, <1>2, <1>3, LabelsOfDeeds, StateTable, KeptControl

\* So does one that removes something.
LEMMA DropsControl ==
  ASSUME LInv, Control, NEW p \in Proc, setup' = setup,
         DropsContext(p) \/ DropsRoute(p) \/ DropsUser(p) \/ DropsNeighbour(p)
  PROVE  Control'
<1>1. StoreKept
  BY DEF DropsContext, DropsRoute, DropsUser, DropsNeighbour
<1>2. \/ Goes(p, "undo_pgw", "fail") \/ Goes(p, "del_pgw", "del_route")
      \/ Goes(p, "undo_route", "undo_pgw") \/ Goes(p, "del_route", "del_user")
      \/ Goes(p, "undo_user", "undo_route") \/ Goes(p, "del_user", "del_access")
      \/ Goes(p, "del_access", "del_session")
  BY DEF DropsContext, DropsRoute, DropsUser, DropsNeighbour
<1>3. CASE \/ Goes(p, "undo_pgw", "fail") \/ Goes(p, "undo_route", "undo_pgw")
           \/ Goes(p, "undo_user", "undo_route")
  BY <1>1, <1>3, LabelsOfDeeds, StateTable, KeptControl
<1>4. CASE \/ Goes(p, "del_pgw", "del_route") \/ Goes(p, "del_route", "del_user")
           \/ Goes(p, "del_user", "del_access") \/ Goes(p, "del_access", "del_session")
  BY <1>1, <1>4, LabelsOfDeeds, StateTable, KeptControl
<1> QED BY <1>2, <1>3, <1>4

\* UpdateSubscriberIP: the session keeps its subscriber and its state.
LEMMA AddressesControl ==
  ASSUME LInv, Control, NEW p \in Proc, setup' = setup, Addresses(p)
  PROVE  Control'
<1>1. PICK i : i = job[p].id
  OBVIOUS
<1>2. /\ Goes(p, "update_ip", "apply_pgw") /\ OnlyOwn(i) /\ byID' = byID
      /\ sess'[i].state = sess[i].state /\ SameSubscriber(sess[i], sess'[i])
  BY <1>1 DEF Addresses, SameSubscriber
<1>3. "update_ip" \in Mind /\ "apply_pgw" \in Mind /\ "apply_pgw" \in Label
  BY LabelsOfDeeds, MindFacts
<1>4. i \in byID /\ sess[i].state = PGWPending
  BY <1>1, <1>2, <1>3, GoesFrom, StateTable
<1> QED BY <1>1, <1>2, <1>3, <1>4, GoesControl, LabelsOfDeeds, StateTable

\* So it does when ApplyPGWResult sets its TEIDs.
LEMMA BindsControl ==
  ASSUME LInv, Control, NEW p \in Proc, setup' = setup, Binds(p)
  PROVE  Control'
<1>1. PICK i : i = job[p].id
  OBVIOUS
<1>2. /\ Goes(p, "apply_pgw", "install") \/ Goes(p, "apply_pgw", "undo_pgw")
      /\ OnlyOwn(i) /\ byID' = byID
      /\ sess'[i].state = sess[i].state /\ SameSubscriber(sess[i], sess'[i])
  BY <1>1 DEF Binds, SameSubscriber
<1>3. /\ "apply_pgw" \in Mind /\ "install" \in Mind /\ "install" \in Label
      /\ "undo_pgw" \in Mind /\ "undo_pgw" \in Label
  BY LabelsOfDeeds, MindFacts
<1>4. i \in byID /\ sess[i].state = PGWPending
  BY <1>1, <1>2, <1>3, GoesFrom, StateTable
<1>5. CASE Goes(p, "apply_pgw", "install")
  BY <1>1, <1>2, <1>3, <1>4, <1>5, GoesControl, LabelsOfDeeds, StateTable
<1>6. CASE Goes(p, "apply_pgw", "undo_pgw")
  BY <1>1, <1>2, <1>3, <1>4, <1>6, GoesControl, LabelsOfDeeds, StateTable
<1> QED BY <1>2, <1>5, <1>6

\* store.Delete: the goroutine is done with the session.
LEMMA RemovesControl ==
  ASSUME LInv, Control, NEW p \in Proc, setup' = setup, Removes(p)
  PROVE  Control'
<1>1. PICK i : i = job[p].id
  OBVIOUS
<1>2. /\ OnlyOwn(i) /\ SameSubscriber(sess[i], sess'[i])
      /\ \/ Goes(p, "del_session", "unlock")
         \/ Goes(p, "del_session", "create") /\ job[p].then = "create"
  BY <1>1 DEF Removes, SameSubscriber
<1>3. CASE Goes(p, "del_session", "unlock")
  BY <1>1, <1>2, <1>3, GoesControl, LabelsOfDeeds, MindFacts
<1>4. CASE Goes(p, "del_session", "create") /\ job[p].then = "create"
  BY <1>1, <1>2, <1>4, GoesControl, LabelsOfDeeds, MindFacts
<1> QED BY <1>2, <1>3, <1>4

\* A step keeps what the invariant says of the goroutines.
LEMMA DeedControl ==
  ASSUME LInv, LInv', Control, NEW p \in Proc, Turns(p), setup' = setup, Deed(p)
  PROVE  Control'
BY AsideControl, TakesOnControl, AddsControl, PassesControl, ProceedsControl, InstallsControl,
   DropsControl, AddressesControl, BindsControl, RemovesControl DEF Deed
-----------------------------------------------------------------------------
(* Every deed keeps the contexts of the PGW. *)

\* In an orderly setup the sessions of one IMSI and APN share their lock and device.
LEMMA StemTells ==
  ASSUME Orderly(setup), NEW s, NEW t, Stems(s), Stems(t), Sub(s) = Sub(t)
  PROVE  KeyOf(s) = KeyOf(t) /\ s.mac = t.mac /\ s.imsi # None
<1> DEFINE A == {e \in UNION {setup.events[p] : p \in Proc} : e.kind = "attach"}
<1>1. /\ \A e \in A : e.imsi # None /\ e.apn # None
      /\ \A e, f \in A : e.imsi = f.imsi /\ e.apn = f.apn => e.mac = f.mac
  BY DEF Orderly
<1>2. PICK e \in A : e.imsi = s.imsi /\ e.mac = s.mac /\ e.apn = s.apn
  BY DEF Stems
<1>3. PICK f \in A : f.imsi = t.imsi /\ f.mac = t.mac /\ f.apn = t.apn
  BY DEF Stems
<1>4. s.imsi = t.imsi /\ s.apn = t.apn
  BY DEF Sub
<1>5. s.mac = t.mac /\ s.imsi # None
  BY <1>1, <1>2, <1>3, <1>4
<1> QED BY <1>4, <1>5 DEF KeyOf, subscriberLockKey

\* So do two sessions of the table.
LEMMA SubTells ==
  ASSUME Orderly(setup), Stemming, NEW i \in 1..next, NEW k \in 1..next,
         Sub(sess[i]) = Sub(sess[k])
  PROVE  KeyOf(sess[i]) = KeyOf(sess[k]) /\ sess[i].mac = sess[k].mac
<1>1. Stems(sess[i]) /\ Stems(sess[k])
  BY DEF Stemming
<1> QED BY <1>1, StemTells

\* So two goroutines at work do so for two subscribers.
LEMMA SubExcludes ==
  ASSUME LInv, Control, Orderly(setup), NEW p \in Proc, NEW q \in Proc, q # p,
         NEW i, NEW k, Minds(p, i), Minds(q, k)
  PROVE  Sub(sess[i]) # Sub(sess[k])
<1> SUFFICES ASSUME Sub(sess[i]) = Sub(sess[k]) PROVE FALSE
  OBVIOUS
<1>1. /\ i \in 1..next /\ k \in 1..next /\ job[p].key = KeyOf(sess[i])
      /\ job[q].key = KeyOf(sess[k]) /\ job[p].pc \notin Outside /\ job[q].pc \notin Outside
  BY MindFacts DEF Control, Works, Minds
<1>2. KeyOf(sess[i]) = KeyOf(sess[k])
  BY <1>1, SubTells DEF Control
<1>3. PICK h \in LockKey : h = KeyOf(sess[i])
  BY <1>1, Types, Keys
<1>4. Inside(p, h) /\ Inside(q, h)
  BY <1>1, <1>2, <1>3 DEF Inside
<1> QED BY <1>4 DEF LInv, Held

\* What Has says of the sessions when a goroutine brings session i from l to l2.
Brings(i, l, l2, L) ==
  /\ Has(i, L) <=> sess[i].state # Failed /\ l \in L
  /\ Has(i, L)' <=> sess'[i].state # Failed /\ (l2 \in Mind => l2 \in L)
  /\ \A j \in 1..next : j # i => (Has(j, L)' <=> Has(j, L))

\* A goroutine that goes on does so.
LEMMA GoesBrings ==
  ASSUME LInv, Control, NEW p \in Proc, NEW l \in Mind, NEW l2 \in Label, Goes(p, l, l2),
         NEW i, i = job[p].id, OnlyOwn(i) \/ StoreKept, NEW L
  PROVE  Brings(i, l, l2, L)
<1>1. /\ StageIn(i, L) <=> l \in L
      /\ StageIn(i, L)' <=> (l2 \in Mind => l2 \in L)
      /\ \A j : j # i => (StageIn(j, L)' <=> StageIn(j, L))
  BY GoesStage
<1>2. \A j \in 1..next : j # i => sess'[j].state = sess[j].state
  BY DEF OnlyOwn, StoreKept
<1> QED BY <1>1, <1>2 DEF Has, Brings

\* The same, spelled out.
LEMMA GoesHas ==
  ASSUME LInv, Control, NEW p \in Proc, NEW l \in Mind, NEW l2 \in Label, Goes(p, l, l2),
         NEW i, i = job[p].id, OnlyOwn(i) \/ StoreKept, NEW L
  PROVE  /\ Has(i, L) <=> sess[i].state # Failed /\ l \in L
         /\ Has(i, L)' <=> sess'[i].state # Failed /\ (l2 \in Mind => l2 \in L)
         /\ \A j \in 1..next : j # i => (Has(j, L)' <=> Has(j, L))
<1>1. Brings(i, l, l2, L)
  BY GoesBrings
<1> QED BY <1>1 DEF Brings

\* A goroutine that works on no session before and after the step moves none.
LEMMA AsideHas ==
  ASSUME NEW p \in Proc, Turns(p), StoreKept, job[p].pc \notin Mind, job'[p].pc \notin Mind, NEW L
  PROVE  \A j \in 1..next : Has(j, L)' <=> Has(j, L)
<1>1. \A j : \A q \in Proc : /\ Minds(q, j)' <=> Minds(q, j)
                             /\ Minds(q, j) => job'[q] = job[q]
  BY DEF Turns, Minds
<1>2. \A j : StageIn(j, L)' <=> StageIn(j, L)
  BY <1>1 DEF StageIn
<1> QED BY <1>2 DEF Has, StoreKept

\* One that turns to a session at rest does not change what that has.
LEMMA TakesOnHas ==
  ASSUME LInv, LInv', Control, NEW p \in Proc, Turns(p), TakesOn(p), NEW L, Torn \subseteq L
  PROVE  \A j \in 1..next : Has(j, L)' <=> Has(j, L)
<1>1. PICK i : i = job'[p].id
  OBVIOUS
<1>2. /\ i \in 1..next /\ \A q \in Proc : ~Minds(q, i)
      /\ job[p].pc \notin Mind /\ job'[p].pc \in L
  BY <1>1, TakesOnAlone DEF TakesOn, Torn
<1>3. \A j : \A q \in Proc : q # p => (/\ Minds(q, j)' <=> Minds(q, j)
                                       /\ job'[q] = job[q])
  BY DEF Turns, Minds
<1>4. StageIn(i, L) /\ StageIn(i, L)'
  BY <1>2, <1>3 DEF StageIn
<1>5. \A j : j # i => ~Minds(p, j)' /\ ~Minds(p, j)
  BY <1>1, <1>2 DEF Minds
<1>6. \A j : j # i => (StageIn(j, L)' <=> StageIn(j, L))
  BY <1>3, <1>5 DEF StageIn
<1> QED BY <1>4, <1>6 DEF Has, StoreKept, TakesOn

\* The others keep their contexts, and their subscribers to themselves, as long as
\* the sessions they work on are left alone.
LEMMA OthersAsked ==
  ASSUME LInv, Control, Contexts, NEW p \in Proc, Turns(p), Spares(p), NEW q \in Proc, q # p,
         \A j \in 1..next : SameSubscriber(sess[j], sess'[j]),
         \A x \in ctx : x \in ctx' \/ \E i : Minds(p, i) /\ x.sub = Sub(sess[i]),
         Orderly(setup)
  PROVE  Asked(q)'
<1>0. job'[q] = job[q] /\ Asked(q)
  BY DEF Turns, Contexts
<1> SUFFICES ASSUME job[q].pc \in {"update_ip", "apply_pgw"} PROVE Asked(q)'
  BY <1>0 DEF Asked
<1>1. PICK j : j = job[q].id
  OBVIOUS
<1>2. Minds(q, j) /\ j \in 1..next /\ ~Minds(p, j)
  BY <1>1, LabelsOfDeeds, MindFacts, OneMinder DEF Minds, Control, Works
<1>3. Sub(sess'[j]) = Sub(sess[j]) /\ sess'[j].ip = sess[j].ip
  BY <1>2, SameKey DEF Spares, Like
<1>4. \A x \in ctx : x.sub = Sub(sess[j]) => x \in ctx'
  BY <1>2, SubExcludes
<1>5. CASE job[q].pc = "update_ip"
  BY <1>0, <1>1, <1>3, <1>4, <1>5 DEF Asked
<1>6. CASE job[q].pc = "apply_pgw"
  BY <1>0, <1>1, <1>3, <1>4, <1>6 DEF Asked
<1> QED BY <1>5, <1>6

\* What the others have found of their subscriber stays true: no session is added
\* or brought back behind their back.
LEMMA OthersAlone ==
  ASSUME LInv, Control, Contexts, NEW p \in Proc, Turns(p), Spares(p), NEW q \in Proc, q # p,
         \A j \in 1..next : SameSubscriber(sess[j], sess'[j]),
         \A j \in byID' : j \in 1..next,
         Orderly(setup)
  PROVE  Alone(q)'
<1>0. job'[q] = job[q] /\ Alone(q)
  BY DEF Turns, Contexts
<1> SUFFICES ASSUME job[q].pc \in {"check_mac", "pgw_create"},
                    NEW i \in byID', i # job[q].id, Sub(sess'[i]) = Sub(sess'[job[q].id])
             PROVE  sess'[i].state = Failed
  BY <1>0 DEF Alone
<1>1. PICK j : j = job[q].id
  OBVIOUS
<1>2. Minds(q, j) /\ j \in 1..next /\ i \in 1..next
  BY <1>1, LabelsOfDeeds, MindFacts DEF Minds, Control, Works
<1>3. Sub(sess'[j]) = Sub(sess[j]) /\ Sub(sess'[i]) = Sub(sess[i])
  BY <1>2, SameKey
<1>4. ~Minds(p, i)
  BY <1>1, <1>2, <1>3, SubExcludes
<1>5. sess'[i].state = sess[i].state /\ i \in byID
  BY <1>2, <1>4 DEF Spares
<1> QED BY <1>0, <1>1, <1>3, <1>5 DEF Alone

\* A step that leaves the PGW alone keeps its contexts, as long as the sessions that
\* own one do.
LEMMA ContextsKept ==
  ASSUME LInv, Control, Contexts, Orderly(setup), NEW p \in Proc, Turns(p), Spares(p), ctx' = ctx,
         \A j \in 1..next : SameSubscriber(sess[j], sess'[j]),
         \A j \in byID' : /\ j \in byID
                          /\ Has(j, Full)' => CtxOf(j)' \in ctx /\ sess'[j].gtpu # None
                          /\ Has(j, Owning)' => Has(j, Owning),
         \A j \in byID : Has(j, Owning) => j \in byID' /\ Has(j, Owning)',
         Asked(p)', Alone(p)'
  PROVE  Contexts'
<1>0. byID \subseteq 1..next
  BY Types
<1>1. \A j \in byID : Sub(sess'[j]) = Sub(sess[j])
  BY <1>0, SameKey
<1>2. \A q \in Proc : Asked(q)' /\ Alone(q)'
  BY <1>0, OthersAsked, OthersAlone
<1>3. Distinct' /\ Holds'
  BY DEF Contexts, Distinct, Holds
<1>4. Owned'
  BY <1>1 DEF Contexts, Owned
<1>5. OneOwner'
  BY <1>1 DEF Contexts, OneOwner
<1> QED BY <1>2, <1>3, <1>4, <1>5 DEF Contexts

\* Going on with what the session had.
LEMMA GoesContexts ==
  ASSUME LInv, Control, Contexts, Orderly(setup), NEW p \in Proc, NEW l \in Mind,
         NEW l2 \in Label, Goes(p, l, l2), NEW i, i = job[p].id, OnlyOwn(i) \/ StoreKept,
         byID' = byID, ctx' = ctx, Like(sess'[i], sess[i]),
         i \in byID => \A L \in {Full, Owning} :
            (sess[i].state # Failed /\ l \in L)
               <=> (sess'[i].state # Failed /\ (l2 \in Mind => l2 \in L)),
         l2 \notin {"update_ip", "apply_pgw"},
         l2 \in {"check_mac", "pgw_create"} => NoOther(i)
  PROVE  Contexts'
<1>0. /\ i \in 1..next /\ next' = next /\ next \in Nat /\ byID \subseteq 1..next
      /\ job'[p].pc = l2 /\ job'[p].id = i /\ Turns(p) /\ Minds(p, i)
  BY GoesFrom, Types DEF Goes, Moved, OnlyOwn, StoreKept, Minds
<1>1. \A j \in 1..next : SameSubscriber(sess[j], sess'[j])
  BY DEF OnlyOwn, StoreKept, SameSubscriber, Like
<1>2. Spares(p)
  BY <1>0, <1>1, SameKey DEF Spares, OnlyOwn, StoreKept
<1>3. \A j \in 1..next : Like(sess'[j], sess[j]) /\ CtxOf(j)' = CtxOf(j)
  <2>1. \A j \in 1..next : Like(sess'[j], sess[j])
    BY DEF OnlyOwn, StoreKept
  <2> QED BY <2>1 DEF CtxOf, Like, Sub
<1>4. \A L \in {Full, Owning} : \A j \in byID : Has(j, L)' <=> Has(j, L)
  <2> SUFFICES ASSUME NEW L \in {Full, Owning}, NEW j \in byID PROVE Has(j, L)' <=> Has(j, L)
    OBVIOUS
  <2>1. /\ Has(i, L) <=> sess[i].state # Failed /\ l \in L
        /\ Has(i, L)' <=> sess'[i].state # Failed /\ (l2 \in Mind => l2 \in L)
        /\ \A k \in 1..next : k # i => (Has(k, L)' <=> Has(k, L))
    BY GoesHas
  <2> QED BY <1>0, <2>1
<1>5. \A j \in byID : Has(j, Full) => CtxOf(j) \in ctx /\ sess'[j].gtpu # None
  BY <1>0, <1>3 DEF Contexts, Holds, Like
<1>6. Asked(p)'
  BY <1>0 DEF Asked
<1>7. Alone(p)'
  <2> SUFFICES ASSUME l2 \in {"check_mac", "pgw_create"}, NEW k \in byID, k # i,
                      Sub(sess'[k]) = Sub(sess'[i])
               PROVE  sess'[k].state = Failed
    BY <1>0 DEF Alone
  <2>1. Sub(sess[k]) = Sub(sess[i]) /\ sess'[k].state = sess[k].state
    BY <1>0, <1>1, SameKey DEF OnlyOwn, StoreKept
  <2> QED BY <2>1 DEF NoOther
<1> QED BY <1>0, <1>1, <1>2, <1>3, <1>4, <1>5, <1>6, <1>7, ContextsKept

\* A goroutine that works on no session, or turns to one, changes no context.
LEMMA AsideContexts ==
  ASSUME LInv, LInv', Control, Contexts, Orderly(setup), NEW p \in Proc, Turns(p),
         Aside(p) \/ TakesOn(p)
  PROVE  Contexts'
<1>0. /\ StoreKept /\ ctx' = ctx /\ next' = next /\ byID' = byID /\ next \in Nat
      /\ byID \subseteq 1..next
  BY Types DEF Aside, TakesOn, StoreKept
<1>1. \A j \in 1..next : SameSubscriber(sess[j], sess'[j])
  BY <1>0 DEF StoreKept, SameSubscriber, Like
<1>2. Spares(p)
  BY <1>0, <1>1, SameKey DEF Spares, StoreKept
<1>3. \A j \in 1..next : sess'[j].gtpu = sess[j].gtpu /\ CtxOf(j)' = CtxOf(j)
  BY <1>0 DEF StoreKept, CtxOf, Like, Sub
<1>4. Torn \subseteq Full /\ Torn \subseteq Owning
  BY DEF Full, Owning
<1>5. \A L \in {Full, Owning} : \A j \in 1..next : Has(j, L)' <=> Has(j, L)
  <2>1. CASE Aside(p)
    BY <1>0, <2>1, AsideHas DEF Aside
  <2>2. CASE TakesOn(p)
    BY <1>4, <2>2, TakesOnHas
  <2> QED BY <2>1, <2>2
<1>6. \A j \in byID : Has(j, Full) => CtxOf(j) \in ctx /\ sess'[j].gtpu # None
  BY <1>0, <1>3 DEF Contexts, Holds
<1>7. job'[p].pc \notin {"update_ip", "apply_pgw", "check_mac", "pgw_create"}
  BY LabelsOfDeeds, MindFacts DEF Aside, TakesOn
<1>8. Asked(p)' /\ Alone(p)'
  BY <1>7 DEF Asked, Alone
<1> QED BY <1>0, <1>1, <1>2, <1>3, <1>5, <1>6, <1>8, ContextsKept

\* The labels by what a session worked on there has.
LEMMA StageFacts ==
  /\ Full \subseteq Mind /\ Owning \subseteq Mind /\ Full \subseteq Owning
  /\ \A l \in {"auth_pending", "authorize", "pgw_pending", "check_imsi", "check_mac",
               "pgw_create", "fail", "del_route", "del_user", "del_access", "del_session"} :
       l \in Mind /\ l \notin Owning /\ l \notin Full
  /\ \A l \in {"install", "user_add", "mark_active", "access_add", "validate", "undo_user",
               "undo_route", "undo_pgw", "mark_recovering", "terminate", "del_pgw"} :
       l \in Mind /\ l \in Owning /\ l \in Full
  /\ \A l \in {"update_ip", "apply_pgw"} : l \in Mind /\ l \in Owning /\ l \notin Full
  /\ Mind \subseteq Label /\ "unlock" \in Label /\ "unlock" \notin Mind /\ "create" \notin Mind
BY DEF Full, Owning, Torn, Mind, Early, Label

\* The states of a session that lives are not Failed.
LEMMA States ==
  \A a \in {Pending, AuthPending, Authorized, PGWPending, Active, Recovering, Terminating} :
    a # Failed
BY DEF Pending, AuthPending, Authorized, PGWPending, Active, Recovering, Terminating, Failed

\* A step that leaves the table and the PGW alone.
LEMMA KeptContexts ==
  ASSUME LInv, Control, Contexts, Orderly(setup), NEW p \in Proc, NEW l \in Mind,
         NEW l2 \in Label, Goes(p, l, l2), StoreKept, ctx' = ctx,
         \/ l2 \in Mind /\ \A L \in {Full, Owning} : l \in L <=> l2 \in L
         \/ l2 \notin Mind /\ l \in Full /\ l \in Owning
         \/ l2 \notin Mind /\ (job[p].id \in byID => sess[job[p].id].state = Failed),
         l2 \notin {"update_ip", "apply_pgw"},
         l2 \in {"check_mac", "pgw_create"} => NoOther(job[p].id)
  PROVE  Contexts'
<1>1. PICK i : i = job[p].id
  OBVIOUS
<1>2. i \in 1..next
  BY <1>1, GoesFrom
<1>3. byID' = byID /\ Like(sess'[i], sess[i]) /\ sess'[i].state = sess[i].state
  BY <1>2 DEF StoreKept
<1>4. i \in byID => \A L \in {Full, Owning} :
        (sess[i].state # Failed /\ l \in L)
           <=> (sess'[i].state # Failed /\ (l2 \in Mind => l2 \in L))
  BY <1>1, <1>3
<1> QED BY <1>1, <1>3, <1>4, GoesContexts

\* A check, or a call that failed, changes none; one that found no other session of
\* the subscriber alive goes on alone.
LEMMA PassesContexts ==
  ASSUME LInv, Control, Contexts, Orderly(setup), NEW p \in Proc, Passes(p)
  PROVE  Contexts'
<1>1. CASE Walks(p, "check_imsi", "check_mac") /\ NoOther(job[p].id)
  BY <1>1, KeptContexts, StageFacts DEF Walks
<1>2. CASE Walks(p, "check_mac", "pgw_create")
  <2>1. NoOther(job[p].id)
    BY <1>2 DEF Contexts, Alone, NoOther, Walks, Goes
  <2> QED BY <1>2, <2>1, KeptContexts, StageFacts DEF Walks
<1>3. CASE Walks(p, "check_imsi", "fail") \/ Walks(p, "check_mac", "fail") \/ Walks(p, "pgw_create", "fail")
  BY <1>3, KeptContexts, StageFacts DEF Walks
<1>4. CASE Walks(p, "install", "undo_pgw") \/ Walks(p, "user_add", "undo_route") \/ Walks(p, "access_add", "undo_user")
  BY <1>4, KeptContexts, StageFacts DEF Walks
<1>5. CASE Walks(p, "validate", "unlock") \/ Walks(p, "validate", "terminate")
  BY <1>5, KeptContexts, StageFacts DEF Walks
<1>6. CASE /\ Walks(p, "terminate", "unlock")
           /\ job[p].id \notin byID \/ sess[job[p].id].state = Failed
  BY <1>6, KeptContexts, StageFacts DEF Walks
<1> QED BY <1>1, <1>2, <1>3, <1>4, <1>5, <1>6 DEF Passes

\* A transition of the store that keeps what the session has.
LEMMA MarksContexts ==
  ASSUME LInv, Control, Contexts, Orderly(setup), NEW p \in Proc, NEW l \in Mind,
         NEW l2 \in Label, NEW to, Marks(p, l, l2, to),
         \A L \in {Full, Owning} :
            (sess[job[p].id].state # Failed /\ l \in L) <=> (to # Failed /\ (l2 \in Mind => l2 \in L)),
         l2 \notin {"update_ip", "apply_pgw", "check_mac", "pgw_create"}
  PROVE  Contexts'
<1>1. PICK i : i = job[p].id
  OBVIOUS
<1>2. /\ Goes(p, l, l2) /\ OnlyOwn(i) /\ byID' = byID /\ i \in byID /\ ctx' = ctx
      /\ sess'[i].state = to /\ Like(sess'[i], sess[i])
  BY <1>1 DEF Marks
<1> QED BY <1>1, <1>2, GoesContexts

\* The transitions do: a session that fails has nothing any more.
LEMMA ProceedsContexts ==
  ASSUME LInv, Control, Contexts, Orderly(setup), NEW p \in Proc, Proceeds(p)
  PROVE  Contexts'
<1>1. CASE Marks(p, "auth_pending", "authorize", AuthPending)
  BY <1>1, MarksContexts, StageFacts
<1>2. CASE Marks(p, "authorize", "pgw_pending", Authorized)
  BY <1>2, MarksContexts, StageFacts
<1>3. CASE Marks(p, "pgw_pending", "check_imsi", PGWPending)
  BY <1>3, MarksContexts, StageFacts
<1>4. CASE Marks(p, "mark_active", "access_add", Active)
  <2>1. sess[job[p].id].state # Failed
    BY <1>4, GoesFrom, StageFacts, StateTable, States DEF Marks
  <2> QED BY <1>4, <2>1, MarksContexts, StageFacts, States
<1>5. CASE Marks(p, "mark_recovering", "terminate", Recovering)
  <2>1. sess[job[p].id].state # Failed
    BY <1>5, GoesFrom, StageFacts, StateTable, States DEF Marks
  <2> QED BY <1>5, <2>1, MarksContexts, StageFacts, States
<1>6. CASE Marks(p, "terminate", "del_pgw", Terminating) /\ sess[job[p].id].state # Failed
  BY <1>6, MarksContexts, StageFacts, States
<1>7. CASE Marks(p, "fail", "unlock", Failed)
  BY <1>7, MarksContexts, StageFacts
<1> QED BY <1>1, <1>2, <1>3, <1>4, <1>5, <1>6, <1>7 DEF Proceeds

\* What is installed in the kernel does not matter to the PGW.
LEMMA KernelContexts ==
  ASSUME LInv, Control, Contexts, Orderly(setup), NEW p \in Proc,
         AddsRoute(p) \/ AddsUser(p) \/ AddsNeighbour(p) \/ DropsRoute(p) \/ DropsUser(p)
         \/ DropsNeighbour(p)
  PROVE  Contexts'
<1>1. StoreKept /\ ctx' = ctx
  BY DEF AddsRoute, AddsUser, AddsNeighbour, DropsRoute, DropsUser, DropsNeighbour
<1>2. \/ Goes(p, "install", "user_add") \/ Goes(p, "user_add", "mark_active")
      \/ Goes(p, "access_add", "validate")
      \/ Goes(p, "undo_route", "undo_pgw") \/ Goes(p, "undo_user", "undo_route")
      \/ Goes(p, "del_route", "del_user") \/ Goes(p, "del_user", "del_access")
      \/ Goes(p, "del_access", "del_session")
  BY DEF AddsRoute, AddsUser, AddsNeighbour, DropsRoute, DropsUser, DropsNeighbour
<1>3. CASE \/ Goes(p, "install", "user_add") \/ Goes(p, "user_add", "mark_active")
           \/ Goes(p, "access_add", "validate")
           \/ Goes(p, "undo_route", "undo_pgw") \/ Goes(p, "undo_user", "undo_route")
  BY <1>1, <1>3, KeptContexts, StageFacts
<1>4. CASE \/ Goes(p, "del_route", "del_user") \/ Goes(p, "del_user", "del_access")
           \/ Goes(p, "del_access", "del_session")
  BY <1>1, <1>4, KeptContexts, StageFacts
<1> QED BY <1>2, <1>3, <1>4

\* UpdateSubscriberIP: the session has the address that the answer carried.
LEMMA AddressesContexts ==
  ASSUME LInv, Control, Contexts, Orderly(setup), NEW p \in Proc, Addresses(p)
  PROVE  Contexts'
<1>1. PICK i : i = job[p].id
  OBVIOUS
<1>2. /\ Goes(p, "update_ip", "apply_pgw") /\ OnlyOwn(i) /\ byID' = byID /\ ctx' = ctx
      /\ sess'[i].state = sess[i].state /\ SameSubscriber(sess[i], sess'[i])
      /\ sess'[i].ip = job[p].ip /\ job'[p].bearer = job[p].bearer
  BY <1>1 DEF Addresses, SameSubscriber
<1>3. /\ i \in 1..next /\ next' = next /\ next \in Nat /\ byID \subseteq 1..next
      /\ job[p].pc = "update_ip" /\ job'[p].pc = "apply_pgw" /\ job'[p].id = i
      /\ Turns(p) /\ Minds(p, i)
  BY <1>1, <1>2, GoesFrom, StageFacts, Types DEF Goes, Moved, OnlyOwn, Minds
<1>4. \A j \in 1..next : SameSubscriber(sess[j], sess'[j])
  BY <1>2 DEF OnlyOwn, SameSubscriber, Like
<1>5. Spares(p)
  BY <1>2, <1>3, <1>4, SameKey DEF Spares, OnlyOwn
<1>6. \A L \in {Full, Owning} :
        /\ Has(i, L) <=> sess[i].state # Failed /\ "update_ip" \in L
        /\ Has(i, L)' <=> sess'[i].state # Failed /\ ("apply_pgw" \in Mind => "apply_pgw" \in L)
        /\ \A k \in 1..next : k # i => (Has(k, L)' <=> Has(k, L))
  BY <1>1, <1>2, GoesHas, StageFacts
<1>7. \A j \in byID : Has(j, Owning)' <=> Has(j, Owning)
  BY <1>2, <1>3, <1>6, StageFacts
<1>8. \A j \in byID : Has(j, Full)' => CtxOf(j)' \in ctx /\ sess'[j].gtpu # None
  <2> SUFFICES ASSUME NEW j \in byID, Has(j, Full)' PROVE CtxOf(j)' \in ctx /\ sess'[j].gtpu # None
    OBVIOUS
  <2>1. j # i /\ Has(j, Full)
    BY <1>3, <1>6, StageFacts
  <2>2. CtxOf(j)' = CtxOf(j) /\ sess'[j].gtpu = sess[j].gtpu
    BY <1>2, <1>3, <2>1 DEF OnlyOwn, CtxOf, Like, Sub
  <2> QED BY <2>1, <2>2 DEF Contexts, Holds
<1>9. Asked(p)' /\ Alone(p)'
  <2>1. [sub |-> Sub(sess[i]), teid |-> job[p].bearer.gtpc, ip |-> job[p].ip] \in ctx
    BY <1>1, <1>3 DEF Contexts, Asked
  <2>2. Sub(sess'[i]) = Sub(sess[i])
    BY <1>2, SameKey
  <2> QED BY <1>2, <1>3, <2>1, <2>2 DEF Asked, Alone
<1> QED BY <1>2, <1>3, <1>4, <1>5, <1>7, <1>8, <1>9, ContextsKept

\* ApplyPGWResult: the session has the context of the answer.
LEMMA BindsContexts ==
  ASSUME LInv, Control, Contexts, Orderly(setup), NEW p \in Proc, Binds(p)
  PROVE  Contexts'
<1>1. PICK i : i = job[p].id
  OBVIOUS
<1>2. /\ OnlyOwn(i) /\ byID' = byID /\ ctx' = ctx
      /\ sess'[i].state = sess[i].state /\ SameSubscriber(sess[i], sess'[i])
      /\ sess'[i].ip = sess[i].ip
      /\ sess'[i].gtpc = job[p].bearer.gtpc /\ sess'[i].gtpu = job[p].bearer.gtpu
  BY <1>1 DEF Binds, SameSubscriber
<1>3. PICK l2 \in {"install", "undo_pgw"} : Goes(p, "apply_pgw", l2)
  BY <1>1 DEF Binds
<1>4. /\ i \in 1..next /\ next' = next /\ next \in Nat /\ byID \subseteq 1..next
      /\ job[p].pc = "apply_pgw" /\ job'[p].pc = l2 /\ job'[p].id = i
      /\ Turns(p) /\ Minds(p, i)
  BY <1>1, <1>2, <1>3, GoesFrom, StageFacts, Types DEF Goes, Moved, OnlyOwn, Minds
<1>5. \A j \in 1..next : SameSubscriber(sess[j], sess'[j])
  BY <1>2 DEF OnlyOwn, SameSubscriber, Like
<1>6. Spares(p)
  BY <1>2, <1>4, <1>5, SameKey DEF Spares, OnlyOwn
<1>7. \A L \in {Full, Owning} :
        /\ Has(i, L) <=> sess[i].state # Failed /\ "apply_pgw" \in L
        /\ Has(i, L)' <=> sess'[i].state # Failed /\ (l2 \in Mind => l2 \in L)
        /\ \A k \in 1..next : k # i => (Has(k, L)' <=> Has(k, L))
  <2> TAKE L \in {Full, Owning}
  <2>1. PICK l \in Mind : l = "apply_pgw"
    BY StageFacts
  <2>2. l2 \in Label /\ Goes(p, l, l2)
    BY <1>3, <2>1, StageFacts
  <2>3. Brings(i, l, l2, L)
    BY <1>1, <1>2, <2>2, GoesBrings
  <2> QED BY <2>1, <2>3 DEF Brings
<1>8. \A j \in byID : Has(j, Owning)' <=> Has(j, Owning)
  BY <1>2, <1>3, <1>4, <1>7, StageFacts
<1>9. \A j \in byID : Has(j, Full)' => CtxOf(j)' \in ctx /\ sess'[j].gtpu # None
  <2> SUFFICES ASSUME NEW j \in byID, Has(j, Full)' PROVE CtxOf(j)' \in ctx /\ sess'[j].gtpu # None
    OBVIOUS
  <2>1. CASE j = i
    <3>1. [sub |-> Sub(sess[i]), teid |-> job[p].bearer.gtpc, ip |-> sess[i].ip] \in ctx
      BY <1>1, <1>4 DEF Contexts, Asked
    <3>2. Sub(sess'[i]) = Sub(sess[i])
      BY <1>2, SameKey
    <3>3. job[p].bearer.gtpu \in TEID
      BY <1>4 DEF LInv, Known, Knows, Answer
    <3>4. CtxOf(i)' = [sub |-> Sub(sess[i]), teid |-> job[p].bearer.gtpc, ip |-> sess[i].ip]
      BY <1>2, <3>2 DEF CtxOf
    <3> QED BY <1>2, <2>1, <3>1, <3>3, <3>4, NoneAssumption
  <2>2. CASE j # i
    <3>1. Has(j, Full)
      BY <1>4, <1>7, <2>2
    <3>2. CtxOf(j)' = CtxOf(j) /\ sess'[j].gtpu = sess[j].gtpu
      BY <1>2, <1>4, <2>2 DEF OnlyOwn, CtxOf, Like, Sub
    <3> QED BY <3>1, <3>2 DEF Contexts, Holds
  <2> QED BY <2>1, <2>2
<1>10. Asked(p)' /\ Alone(p)'
  BY <1>4 DEF Asked, Alone
<1> QED BY <1>2, <1>4, <1>5, <1>6, <1>8, <1>9, <1>10, ContextsKept

\* store.Delete: the session had no context any more.
LEMMA RemovesContexts ==
  ASSUME LInv, Control, Contexts, Orderly(setup), NEW p \in Proc, Removes(p)
  PROVE  Contexts'
<1>1. PICK i : i = job[p].id
  OBVIOUS
<1>2. /\ OnlyOwn(i) /\ byID' = byID \ {i} /\ ctx' = ctx /\ SameSubscriber(sess[i], sess'[i])
  BY <1>1 DEF Removes, SameSubscriber
<1>3. PICK l2 \in {"unlock", "create"} : Goes(p, "del_session", l2)
  BY DEF Removes
<1>4. /\ i \in 1..next /\ next' = next /\ next \in Nat /\ byID \subseteq 1..next
      /\ job[p].pc = "del_session" /\ job'[p].pc = l2 /\ job'[p].id = i
      /\ Turns(p) /\ Minds(p, i)
  BY <1>1, <1>2, <1>3, GoesFrom, StageFacts, Types DEF Goes, Moved, OnlyOwn, Minds
<1>5. \A j \in 1..next : SameSubscriber(sess[j], sess'[j])
  BY <1>2 DEF OnlyOwn, SameSubscriber, Like
<1>6. Spares(p)
  BY <1>2, <1>4, <1>5, SameKey DEF Spares, OnlyOwn
<1>7. \A L \in {Full, Owning} :
        /\ Has(i, L) <=> sess[i].state # Failed /\ "del_session" \in L
        /\ \A k \in 1..next : k # i => (Has(k, L)' <=> Has(k, L))
  <2> TAKE L \in {Full, Owning}
  <2>1. PICK l \in Mind : l = "del_session"
    BY StageFacts
  <2>2. l2 \in Label /\ Goes(p, l, l2)
    BY <1>3, <2>1, LabelsOfDeeds
  <2>3. Brings(i, l, l2, L)
    BY <1>1, <1>2, <2>2, GoesBrings
  <2> QED BY <2>1, <2>3 DEF Brings
<1>8. \A j \in byID' : j \in byID /\ j # i /\ j \in 1..next
  BY <1>2, <1>4
<1>9. \A j \in byID : j # i => j \in byID' /\ sess'[j].gtpu = sess[j].gtpu /\ CtxOf(j)' = CtxOf(j)
  BY <1>2, <1>4 DEF OnlyOwn, CtxOf, Like, Sub
<1>10. \A j \in byID' : Has(j, Full)' => CtxOf(j)' \in ctx /\ sess'[j].gtpu # None
  BY <1>7, <1>8, <1>9 DEF Contexts, Holds
<1>11. \A j \in byID : Has(j, Owning) => j \in byID' /\ Has(j, Owning)'
  BY <1>4, <1>7, <1>9, StageFacts
<1>12. Asked(p)' /\ Alone(p)'
  BY <1>4 DEF Asked, Alone
<1> QED BY <1>2, <1>4, <1>5, <1>6, <1>7, <1>8, <1>10, <1>11, <1>12, ContextsKept

\* store.Create: the new session owns nothing.
LEMMA AddsContexts ==
  ASSUME LInv, LInv', Control, Control', Contexts, Orderly(setup), NEW p \in Proc, Turns(p),
         setup' = setup, Adds(p)
  PROVE  Contexts'
<1>0. PICK n : n = next + 1
  OBVIOUS
<1>1. /\ next \in Nat /\ next' = n /\ n \notin 1..next /\ byID' = byID \cup {n}
      /\ byID \subseteq 1..next /\ ctx' = ctx
      /\ \A j \in 1..next : sess'[j] = sess[j]
      /\ job[p].pc = "create" /\ job'[p].pc = "auth_pending" /\ job'[p].id = n
  BY <1>0, Types DEF Adds
<1>2. \A q \in Proc : q # p => job'[q] = job[q]
  BY DEF Turns
<1>3. Minds(p, n)'
  BY <1>1, StageFacts DEF Minds
<1>4. \A L \in {Full, Owning} : \A j \in 1..next : Has(j, L)' <=> Has(j, L)
  <2> TAKE L \in {Full, Owning}
  <2> TAKE j \in 1..next
  <2>1. \A q \in Proc : (Minds(q, j)' <=> Minds(q, j)) /\ (Minds(q, j) => job'[q] = job[q])
    BY <1>1, <1>2, MindFacts DEF Minds
  <2>2. StageIn(j, L)' <=> StageIn(j, L)
    BY <2>1 DEF StageIn
  <2> QED BY <1>1, <2>2 DEF Has
<1>5. ~Has(n, Full)' /\ ~Has(n, Owning)'
  BY <1>1, <1>3, StageFacts DEF Has, StageIn
<1>6. \A j \in 1..next : CtxOf(j)' = CtxOf(j) /\ Sub(sess'[j]) = Sub(sess[j])
  BY <1>1 DEF CtxOf
<1>7. Distinct'
  BY <1>1 DEF Contexts, Distinct
<1>8. Holds'
  BY <1>1, <1>4, <1>5, <1>6 DEF Contexts, Holds
<1>9. Owned'
  <2> SUFFICES ASSUME NEW x \in ctx PROVE \E i \in byID' : Sub(sess'[i]) = x.sub /\ Has(i, Owning)'
    BY <1>1 DEF Owned
  <2>1. PICK i \in byID : Sub(sess[i]) = x.sub /\ Has(i, Owning)
    BY DEF Contexts, Owned
  <2> QED BY <1>1, <1>4, <1>6, <2>1
<1>10. OneOwner'
  BY <1>1, <1>4, <1>5, <1>6 DEF Contexts, OneOwner
<1>11. ASSUME NEW q \in Proc PROVE Asked(q)' /\ Alone(q)'
  <2>1. CASE q = p
    BY <1>1, <2>1 DEF Asked, Alone
  <2>2. CASE q # p
    <3>0. job'[q] = job[q] /\ Asked(q) /\ Alone(q)
      BY <1>2, <2>2 DEF Contexts
    <3>1. PICK k : k = job[q].id
      OBVIOUS
    <3>2. ASSUME job[q].pc \in {"update_ip", "apply_pgw", "check_mac", "pgw_create"}
          PROVE  k \in 1..next /\ Minds(q, k)'
      BY <1>1, <3>0, <3>1, <3>2, StageFacts DEF Minds, Control, Works
    <3>3. Asked(q)'
      BY <1>1, <3>0, <3>1, <3>2 DEF Asked
    <3>4. Alone(q)'
      <4> SUFFICES ASSUME job[q].pc \in {"check_mac", "pgw_create"}, NEW i \in byID', i # k,
                          Sub(sess'[i]) = Sub(sess'[k])
                   PROVE  sess'[i].state = Failed
        BY <3>0, <3>1 DEF Alone
      <4>1. k \in 1..next /\ Minds(q, k)'
        BY <3>2
      <4>2. i # n
        <5> SUFFICES ASSUME i = n PROVE FALSE
          OBVIOUS
        <5>1. Stems(sess'[n]) /\ Stems(sess[k]) /\ sess'[k] = sess[k]
          <6>1. Stems(sess[n])' /\ Stems(sess[k]) /\ sess'[k] = sess[k]
            BY <1>0, <1>1, <4>1 DEF Control, Stemming
          <6> QED BY <6>1 DEF Stems
        <5>2. KeyOf(sess'[n]) = KeyOf(sess[k])
          BY <5>1, StemTells
        <5>3. KeyOf(sess'[n]) = job[p].key
          BY <1>0, <1>1 DEF Control, Attends, Adds, KeyOf
        <5>4. job[q].key = KeyOf(sess[k]) /\ job[p].pc \notin Outside /\ job[q].pc \notin Outside
          BY <1>1, <3>1, StageFacts, MindFacts DEF Control, Works, Outside
        <5>5. PICK h \in LockKey : h = KeyOf(sess[k])
          BY <4>1, Types, Keys
        <5>6. Inside(p, h) /\ Inside(q, h)
          BY <5>2, <5>3, <5>4, <5>5 DEF Inside
        <5> QED BY <2>2, <5>6 DEF LInv, Held
      <4>3. i \in byID /\ i \in 1..next
        BY <1>1, <4>2
      <4>4. Sub(sess[i]) = Sub(sess[k]) /\ sess'[i] = sess[i]
        BY <1>1, <1>6, <4>1, <4>3
      <4> QED BY <3>0, <3>1, <4>3, <4>4 DEF Alone
    <3> QED BY <3>3, <3>4
  <2> QED BY <2>1, <2>2
<1> QED BY <1>7, <1>8, <1>9, <1>10, <1>11 DEF Contexts

\* pgw.CreateSession: the PGW had no context of the subscriber.
LEMMA NothingReplaced ==
  ASSUME LInv, Control, Contexts, NEW p \in Proc, job[p].pc = "pgw_create", NEW x \in ctx
  PROVE  x.sub # Sub(sess[job[p].id])
<1>1. PICK i : i = job[p].id
  OBVIOUS
<1> SUFFICES ASSUME x.sub = Sub(sess[i]) PROVE FALSE
  BY <1>1
<1>2. PICK k \in byID : Sub(sess[k]) = x.sub /\ Has(k, Owning)
  BY DEF Contexts, Owned
<1>3. Minds(p, i)
  BY <1>1, StageFacts DEF Minds
<1>4. k # i
  BY <1>2, <1>3, StageFacts DEF Has, StageIn
<1>5. sess[k].state = Failed
  BY <1>1, <1>2, <1>4 DEF Contexts, Alone
<1> QED BY <1>2, <1>5 DEF Has

\* So its answer adds the only context of the subscriber.
LEMMA AsksContexts ==
  ASSUME LInv, Control, Contexts, Orderly(setup), NEW p \in Proc, Asks(p)
  PROVE  Contexts'
<1>1. PICK i : i = job[p].id
  OBVIOUS
<1>2. Goes(p, "pgw_create", "update_ip") /\ StoreKept
  BY DEF Asks
<1>3. PICK ip \in OrNone(IP), teid \in TEID :
        /\ PGWAccepts(sess[i], ip, teid) /\ job'[p].ip = ip /\ job'[p].bearer = Answer(teid)
  BY <1>1 DEF Asks
<1>4. /\ i \in 1..next /\ next' = next /\ next \in Nat /\ byID \subseteq 1..next /\ i \in byID
      /\ job[p].pc = "pgw_create" /\ job'[p].pc = "update_ip" /\ job'[p].id = i
      /\ Turns(p) /\ Minds(p, i) /\ byID' = byID /\ sess[i].state # Failed
  <2>1. PICK l \in Mind : l = "pgw_create" /\ l # "terminate" /\ StatesAt(l) = {PGWPending}
    BY StageFacts, StateTable
  <2>2. Goes(p, l, "update_ip")
    BY <1>2, <2>1
  <2>3. /\ i \in 1..next /\ job[p].pc = l /\ job'[p].pc = "update_ip" /\ job'[p].id = i
        /\ i \in byID /\ sess[i].state \in StatesAt(l)
    BY <1>1, <2>1, <2>2, GoesFrom
  <2>4. /\ next \in Nat /\ byID \subseteq 1..next /\ next' = next /\ byID' = byID
        /\ Turns(p)
    BY <1>2, Types DEF StoreKept, Goes, Moved
  <2> QED BY <1>1, <2>1, <2>3, <2>4, States DEF Minds
<1> DEFINE y == [sub |-> Sub(sess[i]), teid |-> teid, ip |-> ip]
<1>5. \A x \in ctx : x.sub # Sub(sess[i])
  BY <1>1, <1>4, NothingReplaced
<1>6. /\ ctx' = ctx \cup {y}
      /\ \A x \in ctx : x.sub # y.sub /\ x.teid # y.teid /\ (x.ip # y.ip \/ y.ip = None)
  BY <1>3, <1>5 DEF PGWAccepts
<1> HIDE DEF y
<1>7. \A j \in 1..next : SameSubscriber(sess[j], sess'[j])
  BY <1>2 DEF StoreKept, SameSubscriber, Like
<1>8. Spares(p)
  BY <1>2, <1>4, <1>7, SameKey DEF Spares, StoreKept
<1>9. \A L \in {Full, Owning} :
        /\ Has(i, L) <=> sess[i].state # Failed /\ "pgw_create" \in L
        /\ Has(i, L)' <=> sess'[i].state # Failed /\ "update_ip" \in L
        /\ \A k \in 1..next : k # i => (Has(k, L)' <=> Has(k, L))
  <2> TAKE L \in {Full, Owning}
  <2>1. PICK l \in Mind, l2 \in Label : l = "pgw_create" /\ l2 = "update_ip" /\ l2 \in Mind
    BY StageFacts
  <2>2. Goes(p, l, l2)
    BY <1>2, <2>1
  <2>3. Brings(i, l, l2, L)
    BY <1>1, <1>2, <2>2, GoesBrings
  <2> QED BY <2>1, <2>3 DEF Brings
<1>10. \A j \in 1..next : /\ CtxOf(j)' = CtxOf(j) /\ Sub(sess'[j]) = Sub(sess[j])
                          /\ sess'[j].gtpu = sess[j].gtpu /\ sess'[j].state = sess[j].state
  BY <1>2 DEF StoreKept, CtxOf, Like, Sub
<1>11. Distinct'
  BY <1>6 DEF Contexts, Distinct
<1>12. ~Has(i, Full)' /\ Has(i, Owning)' /\ ~Has(i, Owning)
  BY <1>4, <1>9, <1>10, StageFacts
<1>13. Holds'
  BY <1>4, <1>6, <1>9, <1>10, <1>12 DEF Contexts, Holds
<1>14. Owned'
  <2> SUFFICES ASSUME NEW x \in ctx' PROVE \E k \in byID : Sub(sess'[k]) = x.sub /\ Has(k, Owning)'
    BY <1>4 DEF Owned
  <2>1. CASE x = y
    BY <1>4, <1>10, <1>12, <2>1 DEF y
  <2>2. CASE x \in ctx
    <3>1. PICK k \in byID : Sub(sess[k]) = x.sub /\ Has(k, Owning)
      BY <2>2 DEF Contexts, Owned
    <3> QED BY <1>4, <1>9, <1>10, <1>12, <3>1
  <2> QED BY <1>6, <2>1, <2>2
<1>15. OneOwner'
  <2>1. \A k \in byID : k # i /\ Sub(sess[k]) = Sub(sess[i]) => sess[k].state = Failed
    BY <1>1, <1>4 DEF Contexts, Alone
  <2>2. \A k \in byID : k # i /\ Sub(sess[k]) = Sub(sess[i]) => ~Has(k, Owning)'
    BY <1>4, <1>10, <2>1 DEF Has
  <2>3. \A j, k \in byID : j # i /\ k # i /\ Sub(sess'[j]) = Sub(sess'[k])
                           /\ Has(j, Owning)' /\ Has(k, Owning)' => j = k
    BY <1>4, <1>9, <1>10 DEF Contexts, OneOwner
  <2> QED BY <1>4, <1>10, <2>2, <2>3 DEF OneOwner
<1>16. Asked(p)' /\ Alone(p)'
  <2>1. y = [sub |-> Sub(sess'[i]), teid |-> job'[p].bearer.gtpc, ip |-> job'[p].ip]
    BY <1>3, <1>4, <1>10 DEF y, Answer
  <2> QED BY <1>4, <1>6, <2>1 DEF Asked, Alone
<1>17. \A q \in Proc : q # p => Asked(q)' /\ Alone(q)'
  <2>1. \A x \in ctx : x \in ctx'
    BY <1>6
  <2>2. \A j \in byID' : j \in 1..next
    BY <1>4
  <2> QED BY <1>4, <1>7, <1>8, <2>1, <2>2, OthersAsked, OthersAlone
<1> QED BY <1>11, <1>13, <1>14, <1>15, <1>16, <1>17 DEF Contexts

\* pgw.DeleteSession: the context of the session goes, and no other.
LEMMA DropsContextContexts ==
  ASSUME LInv, Control, Contexts, Orderly(setup), NEW p \in Proc, DropsContext(p)
  PROVE  Contexts'
<1>1. PICK i : i = job[p].id
  OBVIOUS
<1>2. StoreKept /\ ctx' = {x \in ctx : x.teid # sess[i].gtpc}
  BY <1>1 DEF DropsContext, PGWDelete
<1>3. PICK l \in {"undo_pgw", "del_pgw"}, l2 \in {"fail", "del_route"} : Goes(p, l, l2)
  BY DEF DropsContext
<1>4. l \in Mind /\ l2 \in Label /\ l \in Full /\ l \in Owning /\ l2 \notin Owning /\ l2 \notin Full
      /\ l2 \in Mind /\ Full \subseteq Owning
  BY StageFacts
<1>5. /\ i \in 1..next /\ next' = next /\ next \in Nat /\ byID \subseteq 1..next /\ i \in byID
      /\ job'[p].pc = l2 /\ job'[p].id = i
      /\ Turns(p) /\ Minds(p, i) /\ byID' = byID /\ sess[i].state # Failed
  <2>1. /\ i \in 1..next /\ job[p].pc = l /\ job'[p].pc = l2 /\ job'[p].id = i
        /\ i \in byID /\ sess[i].state \in StatesAt(l)
    BY <1>1, <1>3, <1>4, GoesFrom
  <2>2. /\ next \in Nat /\ byID \subseteq 1..next /\ next' = next /\ byID' = byID
        /\ Turns(p)
    BY <1>2, <1>3, Types DEF StoreKept, Goes, Moved
  <2>3. sess[i].state # Failed
    BY <1>3, <1>4, <2>1, StateTable, States
  <2> QED BY <1>1, <1>4, <2>1, <2>2, <2>3 DEF Minds
<1>7. \A j \in 1..next : SameSubscriber(sess[j], sess'[j])
  BY <1>2 DEF StoreKept, SameSubscriber, Like
<1>8. Spares(p)
  BY <1>2, <1>5, <1>7, SameKey DEF Spares, StoreKept
<1>9. \A L \in {Full, Owning} :
        /\ Has(i, L) <=> sess[i].state # Failed /\ l \in L
        /\ Has(i, L)' <=> sess'[i].state # Failed /\ (l2 \in Mind => l2 \in L)
        /\ \A k \in 1..next : k # i => (Has(k, L)' <=> Has(k, L))
  <2> TAKE L \in {Full, Owning}
  <2>1. Brings(i, l, l2, L)
    BY <1>1, <1>2, <1>3, <1>4, GoesBrings
  <2> QED BY <2>1 DEF Brings
<1>10. \A j \in 1..next : /\ CtxOf(j)' = CtxOf(j) /\ Sub(sess'[j]) = Sub(sess[j])
                          /\ sess'[j].gtpu = sess[j].gtpu
  BY <1>2 DEF StoreKept, CtxOf, Like, Sub
<1>11. Has(i, Full) /\ Has(i, Owning) /\ ~Has(i, Full)' /\ ~Has(i, Owning)'
  BY <1>4, <1>5, <1>9
<1>12. CtxOf(i) \in ctx /\ CtxOf(i).sub = Sub(sess[i]) /\ CtxOf(i).teid = sess[i].gtpc
  BY <1>5, <1>11 DEF Contexts, Holds, CtxOf
<1>13. \A x \in ctx : x.sub = Sub(sess[i]) \/ x.teid = sess[i].gtpc => x = CtxOf(i)
  BY <1>12 DEF Contexts, Distinct
<1>14. \A x \in ctx : x.sub # Sub(sess[i]) => x \in ctx'
  BY <1>2, <1>12, <1>13
<1>15. \A x \in ctx' : x \in ctx /\ x.sub # Sub(sess[i])
  BY <1>2, <1>12, <1>13
<1>16. Distinct'
  BY <1>2 DEF Contexts, Distinct
<1>17. Holds'
  <2> SUFFICES ASSUME NEW j \in byID, Has(j, Full)' PROVE CtxOf(j)' \in ctx' /\ sess'[j].gtpu # None
    BY <1>5 DEF Holds
  <2>1. j # i /\ Has(j, Full) /\ Has(j, Owning)
    BY <1>4, <1>5, <1>9, <1>11 DEF Has, StageIn
  <2>2. CtxOf(j) \in ctx /\ sess[j].gtpu # None
    BY <2>1 DEF Contexts, Holds
  <2>3. Sub(sess[j]) # Sub(sess[i])
    BY <1>5, <1>11, <2>1 DEF Contexts, OneOwner
  <2>4. CtxOf(j).sub = Sub(sess[j])
    BY DEF CtxOf
  <2> QED BY <1>5, <1>10, <1>14, <2>2, <2>3, <2>4
<1>18. Owned'
  <2> SUFFICES ASSUME NEW x \in ctx' PROVE \E k \in byID : Sub(sess'[k]) = x.sub /\ Has(k, Owning)'
    BY <1>5 DEF Owned
  <2>1. x \in ctx /\ x.sub # Sub(sess[i])
    BY <1>15
  <2>2. PICK k \in byID : Sub(sess[k]) = x.sub /\ Has(k, Owning)
    BY <2>1 DEF Contexts, Owned
  <2> QED BY <1>5, <1>9, <1>10, <2>1, <2>2
<1>19. OneOwner'
  BY <1>5, <1>9, <1>10, <1>11 DEF Contexts, OneOwner
<1>20. Asked(p)' /\ Alone(p)'
  BY <1>5 DEF Asked, Alone
<1>21. \A q \in Proc : q # p => Asked(q)' /\ Alone(q)'
  <2>1. \A x \in ctx : x \in ctx' \/ \E k : Minds(p, k) /\ x.sub = Sub(sess[k])
    BY <1>5, <1>14
  <2>2. \A j \in byID' : j \in 1..next
    BY <1>5
  <2> QED BY <1>5, <1>7, <1>8, <2>1, <2>2, OthersAsked, OthersAlone
<1> QED BY <1>16, <1>17, <1>18, <1>19, <1>20, <1>21 DEF Contexts

\* A step keeps what the invariant says of the contexts.
LEMMA DeedContexts ==
  ASSUME LInv, LInv', Control, Control', Contexts, Orderly(setup), NEW p \in Proc, Turns(p),
         setup' = setup, Deed(p)
  PROVE  Contexts'
BY AsideContexts, AddsContexts, PassesContexts, ProceedsContexts, AsksContexts,
   AddressesContexts, BindsContexts, KernelContexts, DropsContextContexts, RemovesContexts DEF Deed
-----------------------------------------------------------------------------
(* Every deed keeps what is installed in the kernel. *)

\* The sets of labels that say what is installed.
Spots == {Routing, Ruling, Neighbouring}

\* The kernel has for a what it had.
SameAt(a) ==
  /\ a \in route' <=> a \in route
  /\ a \in rule' <=> a \in rule
  /\ pdp'[a] = pdp[a] /\ neigh'[a] = neigh[a]

\* Where the sessions are known by what the kernel has for them.
LEMMA SpotFacts ==
  /\ Torn \subseteq Routing /\ Torn \subseteq Ruling /\ Torn \subseteq Neighbouring
  /\ Torn \subseteq Addressed /\ Routing \subseteq Addressed
  /\ \A l \in {"auth_pending", "authorize", "pgw_pending", "check_imsi", "check_mac",
               "pgw_create", "update_ip", "apply_pgw", "undo_pgw", "fail"} :
       l \notin Routing /\ l \notin Ruling /\ l \notin Neighbouring /\ l \notin Addressed
  /\ \A l \in {"install", "del_session"} :
       l \notin Routing /\ l \notin Ruling /\ l \notin Neighbouring /\ l \in Addressed
  /\ \A l \in {"user_add", "undo_route"} :
       l \in Routing /\ l \notin Ruling /\ l \notin Neighbouring /\ l \in Addressed
  /\ \A l \in {"mark_active", "access_add", "undo_user"} :
       l \in Routing /\ l \in Ruling /\ l \notin Neighbouring /\ l \in Addressed
  /\ \A l \in {"validate", "mark_recovering", "terminate", "del_pgw", "del_route"} :
       l \in Routing /\ l \in Ruling /\ l \in Neighbouring /\ l \in Addressed
  /\ "del_user" \notin Routing /\ "del_user" \in Ruling /\ "del_user" \in Neighbouring
  /\ "del_user" \in Addressed
  /\ "del_access" \notin Routing /\ "del_access" \notin Ruling
  /\ "del_access" \in Neighbouring /\ "del_access" \in Addressed
BY DEF Routing, Ruling, Neighbouring, Addressed, Torn

\* Nothing is installed for another address than before, or it is a session's.
LEMMA LocalFrame ==
  ASSUME LInv, Local, NEW p \in Proc, Turns(p), next' = next, byID' = byID,
         \A j \in 1..next : sess'[j].ip = sess[j].ip,
         job'[p].pc = "update_ip" /\ job'[p].ip # None =>
            \A j \in 1..next : sess[j].ip # job'[p].ip,
         \A j \in byID : /\ sess[j].ip # None => Installed(j)'
                         /\ Has(j, Addressed)' => sess[j].ip # None
                         /\ Has(j, Ruling)' => sess'[j].gtpu # None,
         \A a \in IP : SameAt(a) \/ Taken(a)
  PROVE  Local'
<1>0. byID \subseteq 1..next
  BY Types
<1>1. OneAddress'
  BY DEF Local, OneAddress
<1>2. FreshAddress'
  <2> SUFFICES ASSUME NEW q \in Proc, job'[q].pc = "update_ip", job'[q].ip # None, NEW j \in 1..next
               PROVE  sess[j].ip # job'[q].ip
    BY DEF FreshAddress
  <2>1. CASE q = p
    BY <2>1
  <2>2. CASE q # p
    BY <2>2 DEF Local, FreshAddress, Turns
  <2> QED BY <2>1, <2>2
<1>3. HasAddress' /\ Tunnelled'
  BY <1>0 DEF HasAddress, Tunnelled
<1>4. Kernel'
  BY <1>0 DEF Kernel
<1>5. \A a \in IP : Taken(a) => Taken(a)'
  BY <1>0 DEF Taken
<1>6. InUse'
  <2> SUFFICES ASSUME NEW a \in IP,
                      a \in route' \/ a \in rule' \/ pdp'[a] # NoSession \/ neigh'[a] # None
               PROVE  Taken(a)'
    BY DEF InUse, NoSession
  <2>1. CASE SameAt(a)
    BY <1>5, <2>1 DEF SameAt, Local, InUse
  <2> QED BY <1>5, <2>1
<1> QED BY <1>1, <1>2, <1>3, <1>4, <1>6 DEF Local

\* What is installed for a session stays if its address and its place do.
LEMMA StaysInstalled ==
  ASSUME Local, NEW j \in byID, sess[j].ip # None, sess'[j].ip = sess[j].ip,
         sess'[j].mac = sess[j].mac, SameAt(sess[j].ip),
         \A L \in Spots : Has(j, L)' <=> Has(j, L)
  PROVE  Installed(j)'
<1>1. Installed(j)
  BY DEF Local, Kernel
<1>2. /\ Has(j, Routing)' <=> Has(j, Routing)
      /\ Has(j, Ruling)' <=> Has(j, Ruling)
      /\ Has(j, Neighbouring)' <=> Has(j, Neighbouring)
  BY DEF Spots
<1> QED BY <1>1, <1>2 DEF Installed, SameAt, NoSession

\* The address of a stored session.
LEMMA AddressType ==
  ASSUME LInv, NEW i \in 1..next, sess[i].ip # None
  PROVE  sess[i].ip \in IP
BY Types DEF Session, OrNone

\* A goroutine that changes the kernel for its own address only.
LEMMA OwnLocal ==
  ASSUME LInv, Control, Local, NEW p \in Proc, NEW l \in Mind, NEW l2 \in Label, Goes(p, l, l2),
         NEW i, i = job[p].id, OnlyOwn(i) \/ StoreKept, byID' = byID,
         sess'[i].ip = sess[i].ip, sess'[i].mac = sess[i].mac,
         l2 = "update_ip" /\ job'[p].ip # None =>
            \A j \in 1..next : sess[j].ip # job'[p].ip,
         \A a \in IP : SameAt(a) \/ (i \in byID /\ a = sess[i].ip),
         i \in byID => /\ sess[i].ip # None => Installed(i)'
                       /\ Has(i, Addressed)' => sess[i].ip # None
                       /\ Has(i, Ruling)' => sess'[i].gtpu # None
  PROVE  Local'
<1>0. /\ i \in 1..next /\ next' = next /\ byID \subseteq 1..next /\ Turns(p) /\ job'[p].pc = l2
  BY GoesFrom, Types DEF Goes, Moved, OnlyOwn, StoreKept
<1>1. \A j \in 1..next : /\ sess'[j].ip = sess[j].ip /\ sess'[j].mac = sess[j].mac
                         /\ j # i => sess'[j].gtpu = sess[j].gtpu
  BY DEF OnlyOwn, StoreKept, Like
<1>2. ASSUME NEW L PROVE \A j \in 1..next : j # i => (Has(j, L)' <=> Has(j, L))
  <2>1. Brings(i, l, l2, L)
    BY GoesBrings
  <2> QED BY <2>1 DEF Brings
<1>3. ASSUME NEW j \in byID, j # i
      PROVE  /\ sess[j].ip # None => Installed(j)'
             /\ Has(j, Addressed)' => sess[j].ip # None
             /\ Has(j, Ruling)' => sess'[j].gtpu # None
  <2>1. ASSUME sess[j].ip # None PROVE Installed(j)'
    <3>1. sess[j].ip \in IP
      BY <1>0, <2>1, AddressType
    <3>2. i \in byID => sess[j].ip # sess[i].ip
      BY <1>0, <1>3, <2>1 DEF Local, OneAddress
    <3>3. SameAt(sess[j].ip)
      BY <3>1, <3>2
    <3> QED BY <1>0, <1>1, <1>2, <1>3, <2>1, <3>3, StaysInstalled
  <2>2. Has(j, Addressed)' => sess[j].ip # None
    BY <1>0, <1>2, <1>3 DEF Local, HasAddress
  <2>3. Has(j, Ruling)' => sess'[j].gtpu # None
    BY <1>0, <1>1, <1>2, <1>3 DEF Local, Tunnelled
  <2> QED BY <2>1, <2>2, <2>3
<1>4. \A a \in IP : SameAt(a) \/ Taken(a)
  BY DEF Taken
<1> QED BY <1>0, <1>1, <1>3, <1>4, LocalFrame

\* One that leaves the kernel alone.
LEMMA WalkLocal ==
  ASSUME LInv, Control, Local, NEW p \in Proc, NEW l \in Mind, NEW l2 \in Label, Goes(p, l, l2),
         NEW i, i = job[p].id, OnlyOwn(i) \/ StoreKept, byID' = byID, KernelKept,
         Like(sess'[i], sess[i]),
         l2 = "update_ip" /\ job'[p].ip # None =>
            \A j \in 1..next : sess[j].ip # job'[p].ip,
         i \in byID => \A L \in Spots :
            (sess[i].state # Failed /\ l \in L)
               <=> (sess'[i].state # Failed /\ (l2 \in Mind => l2 \in L)),
         i \in byID /\ sess'[i].state # Failed /\ (l2 \in Mind => l2 \in Addressed) =>
            sess[i].state # Failed /\ l \in Addressed
  PROVE  Local'
<1>1. \A a : SameAt(a)
  BY DEF KernelKept, SameAt
<1>2. ASSUME NEW L
      PROVE  /\ Has(i, L) <=> sess[i].state # Failed /\ l \in L
             /\ Has(i, L)' <=> sess'[i].state # Failed /\ (l2 \in Mind => l2 \in L)
  BY GoesHas
<1>3. i \in byID => /\ \A L \in Spots : Has(i, L)' <=> Has(i, L)
                    /\ Has(i, Addressed)' => Has(i, Addressed)
  BY <1>2
<1>4. sess'[i].ip = sess[i].ip /\ sess'[i].mac = sess[i].mac /\ sess'[i].gtpu = sess[i].gtpu
  BY DEF Like
<1>5. i \in byID /\ sess[i].ip # None => Installed(i)'
  BY <1>1, <1>3, <1>4, StaysInstalled
<1>6. i \in byID /\ Has(i, Addressed)' => sess[i].ip # None
  BY <1>3 DEF Local, HasAddress
<1>7. i \in byID /\ Has(i, Ruling)' => sess'[i].gtpu # None
  BY <1>3, <1>4 DEF Local, Tunnelled, Spots
<1> QED BY <1>1, <1>4, <1>5, <1>6, <1>7, OwnLocal

\* A goroutine that works on no session, or turns to one, changes nothing in the
\* kernel.
LEMMA AsideLocal ==
  ASSUME LInv, LInv', Control, Local, NEW p \in Proc, Turns(p), Aside(p) \/ TakesOn(p)
  PROVE  Local'
<1>0. /\ StoreKept /\ KernelKept /\ next' = next /\ byID' = byID /\ byID \subseteq 1..next
  BY Types DEF Aside, TakesOn, StoreKept
<1>1. \A j \in 1..next : /\ sess'[j].ip = sess[j].ip /\ sess'[j].mac = sess[j].mac
                         /\ sess'[j].gtpu = sess[j].gtpu
  BY <1>0 DEF StoreKept, Like
<1>2. \A a : SameAt(a)
  BY <1>0 DEF KernelKept, SameAt
<1>3. ASSUME NEW L, Torn \subseteq L PROVE \A j \in 1..next : Has(j, L)' <=> Has(j, L)
  <2>1. CASE Aside(p)
    BY <1>0, <2>1, AsideHas DEF Aside
  <2>2. CASE TakesOn(p)
    BY <1>3, <2>2, TakesOnHas
  <2> QED BY <2>1, <2>2
<1>4. \A j \in 1..next : /\ \A L \in Spots : Has(j, L)' <=> Has(j, L)
                         /\ Has(j, Addressed)' <=> Has(j, Addressed)
                         /\ Has(j, Ruling)' <=> Has(j, Ruling)
  BY <1>3, SpotFacts DEF Spots
<1>5. \A j \in byID : sess[j].ip # None => Installed(j)'
  BY <1>0, <1>1, <1>2, <1>4, StaysInstalled
<1>6. \A j \in byID : /\ Has(j, Addressed)' => sess[j].ip # None
                      /\ Has(j, Ruling)' => sess'[j].gtpu # None
  BY <1>0, <1>1, <1>4 DEF Local, HasAddress, Tunnelled
<1>7. job'[p].pc # "update_ip"
  BY LabelsOfDeeds, MindFacts DEF Aside, TakesOn
<1> QED BY <1>0, <1>1, <1>2, <1>5, <1>6, <1>7, LocalFrame

\* A check, or a call that failed, leaves what is installed as it is.
LEMMA PassesLocal ==
  ASSUME LInv, Control, Local, NEW p \in Proc, Passes(p)
  PROVE  Local'
<1>1. ASSUME NEW l \in Mind, NEW l2 \in Mind \cup {"unlock"}, Walks(p, l, l2), l2 # "update_ip",
             \/ l2 \in Mind /\ (\A L \in Spots : l \in L <=> l2 \in L)
                            /\ (l2 \in Addressed => l \in Addressed)
             \/ l2 \notin Mind /\ (\A L \in Spots : l \in L) /\ l \in Addressed
             \/ l2 \notin Mind /\ (job[p].id \in byID => sess[job[p].id].state = Failed)
      PROVE  Local'
  <2>1. PICK i : i = job[p].id
    OBVIOUS
  <2>2. Goes(p, l, l2) /\ StoreKept /\ KernelKept /\ l2 \in Label
    BY <1>1, StageFacts DEF Walks
  <2>3. i \in 1..next
    BY <2>1, <2>2, GoesFrom
  <2>4. byID' = byID /\ Like(sess'[i], sess[i]) /\ sess'[i].state = sess[i].state
    BY <2>2, <2>3 DEF StoreKept
  <2>5. i \in byID => \A L \in Spots :
          (sess[i].state # Failed /\ l \in L)
             <=> (sess'[i].state # Failed /\ (l2 \in Mind => l2 \in L))
    BY <1>1, <2>1, <2>4
  <2>6. i \in byID /\ sess'[i].state # Failed /\ (l2 \in Mind => l2 \in Addressed) =>
          sess[i].state # Failed /\ l \in Addressed
    BY <1>1, <2>1, <2>4
  <2> QED BY <1>1, <2>1, <2>2, <2>4, <2>5, <2>6, WalkLocal
<1>2. CASE \/ Walks(p, "check_imsi", "check_mac") \/ Walks(p, "check_mac", "pgw_create")
  BY <1>1, <1>2, StageFacts, SpotFacts DEF Spots
<1>3. CASE \/ Walks(p, "check_imsi", "fail") \/ Walks(p, "check_mac", "fail") \/ Walks(p, "pgw_create", "fail")
  BY <1>1, <1>3, StageFacts, SpotFacts DEF Spots
<1>4. CASE \/ Walks(p, "install", "undo_pgw") \/ Walks(p, "user_add", "undo_route") \/ Walks(p, "access_add", "undo_user")
  BY <1>1, <1>4, StageFacts, SpotFacts DEF Spots
<1>5. CASE Walks(p, "validate", "unlock") \/ Walks(p, "validate", "terminate")
  BY <1>1, <1>5, StageFacts, SpotFacts DEF Spots
<1>6. CASE /\ Walks(p, "terminate", "unlock")
           /\ job[p].id \notin byID \/ sess[job[p].id].state = Failed
  BY <1>1, <1>6, StageFacts, SpotFacts DEF Spots
<1> QED BY <1>2, <1>3, <1>4, <1>5, <1>6 DEF Passes

\* So does a transition of the store.
LEMMA ProceedsLocal ==
  ASSUME LInv, Control, Local, NEW p \in Proc, Proceeds(p)
  PROVE  Local'
<1>1. ASSUME NEW l \in Mind, NEW l2 \in Mind \cup {"unlock"}, NEW to, Marks(p, l, l2, to),
             l2 # "update_ip",
             \A L \in Spots \cup {Addressed} :
                (sess[job[p].id].state # Failed /\ l \in L)
                   <=> (to # Failed /\ (l2 \in Mind => l2 \in L))
      PROVE  Local'
  <2>1. PICK i : i = job[p].id
    OBVIOUS
  <2>2. /\ Goes(p, l, l2) /\ OnlyOwn(i) /\ byID' = byID /\ i \in byID /\ KernelKept
        /\ sess'[i].state = to /\ Like(sess'[i], sess[i]) /\ l2 \in Label
    BY <1>1, <2>1, StageFacts DEF Marks
  <2>5. i \in byID => \A L \in Spots :
          (sess[i].state # Failed /\ l \in L)
             <=> (sess'[i].state # Failed /\ (l2 \in Mind => l2 \in L))
    BY <1>1, <2>1, <2>2
  <2>6. i \in byID /\ sess'[i].state # Failed /\ (l2 \in Mind => l2 \in Addressed) =>
          sess[i].state # Failed /\ l \in Addressed
    BY <1>1, <2>1, <2>2
  <2> QED BY <1>1, <2>1, <2>2, <2>5, <2>6, WalkLocal
<1>2. CASE Marks(p, "auth_pending", "authorize", AuthPending) \/ Marks(p, "authorize", "pgw_pending", Authorized)
           \/ Marks(p, "pgw_pending", "check_imsi", PGWPending)
  BY <1>1, <1>2, StageFacts, SpotFacts DEF Spots
<1>3. CASE Marks(p, "mark_active", "access_add", Active)
  <2>1. sess[job[p].id].state # Failed
    BY <1>3, GoesFrom, StageFacts, StateTable, States DEF Marks
  <2> QED BY <1>1, <1>3, <2>1, StageFacts, SpotFacts, States DEF Spots
<1>4. CASE Marks(p, "mark_recovering", "terminate", Recovering)
  <2>1. sess[job[p].id].state # Failed
    BY <1>4, GoesFrom, StageFacts, StateTable, States DEF Marks
  <2> QED BY <1>1, <1>4, <2>1, StageFacts, SpotFacts, States DEF Spots
<1>5. CASE Marks(p, "terminate", "del_pgw", Terminating) /\ sess[job[p].id].state # Failed
  BY <1>1, <1>5, StageFacts, SpotFacts, States DEF Spots
<1>6. CASE Marks(p, "fail", "unlock", Failed)
  BY <1>1, <1>6, StageFacts, SpotFacts DEF Spots
<1> QED BY <1>2, <1>3, <1>4, <1>5, <1>6 DEF Proceeds
\* pgw.CreateSession: the address is one that no session has.
LEMMA AsksLocal ==
  ASSUME LInv, Control, Local, ~ReuseIP, NEW p \in Proc, Asks(p)
  PROVE  Local'
<1>1. PICK i : i = job[p].id
  OBVIOUS
<1>2. PICK l \in Mind, l2 \in Label : l = "pgw_create" /\ l2 = "update_ip" /\ l2 \in Mind
  BY StageFacts
<1>3. Goes(p, l, l2) /\ StoreKept /\ KernelKept /\ byID' = byID
  BY <1>2 DEF Asks, StoreKept
<1>4. i \in 1..next
  BY <1>1, <1>3, GoesFrom
<1>5. Like(sess'[i], sess[i]) /\ sess'[i].state = sess[i].state
  BY <1>3, <1>4 DEF StoreKept
<1>6. job'[p].ip # None => \A j \in 1..next : sess[j].ip # job'[p].ip
  BY DEF Asks, PGWAccepts
<1>7. l \notin Addressed /\ l2 \notin Addressed /\ \A L \in Spots : l \notin L /\ l2 \notin L
  BY <1>2, SpotFacts DEF Spots
<1> QED BY <1>1, <1>2, <1>3, <1>5, <1>6, <1>7, WalkLocal

\* So does pgw.DeleteSession.
LEMMA DropsContextLocal ==
  ASSUME LInv, Control, Local, NEW p \in Proc, DropsContext(p)
  PROVE  Local'
<1>1. PICK i : i = job[p].id
  OBVIOUS
<1>2. PICK l \in Mind, l2 \in Label :
        /\ Goes(p, l, l2) /\ l2 \in Mind /\ l2 # "update_ip"
        /\ (l = "undo_pgw" /\ l2 = "fail") \/ (l = "del_pgw" /\ l2 = "del_route")
  BY StageFacts DEF DropsContext
<1>3. StoreKept /\ KernelKept /\ byID' = byID
  BY DEF DropsContext, StoreKept
<1>4. i \in 1..next
  BY <1>1, <1>2, GoesFrom
<1>5. Like(sess'[i], sess[i]) /\ sess'[i].state = sess[i].state
  BY <1>3, <1>4 DEF StoreKept
<1>6. (l2 \in Addressed => l \in Addressed) /\ \A L \in Spots : l \in L <=> l2 \in L
  BY <1>2, SpotFacts DEF Spots
<1> QED BY <1>1, <1>2, <1>3, <1>5, <1>6, WalkLocal

\* store.ApplyPGWResult: installing begins only with an address.
LEMMA BindsLocal ==
  ASSUME LInv, Control, Local, NEW p \in Proc, Binds(p)
  PROVE  Local'
<1>1. PICK i : i = job[p].id
  OBVIOUS
<1>2. PICK l \in Mind, l2 \in Label :
        /\ Goes(p, l, l2) /\ l2 \in Mind /\ l2 # "update_ip" /\ l = "apply_pgw"
        /\ (l2 = "undo_pgw" /\ sess[i].ip = None) \/ (l2 = "install" /\ sess[i].ip # None)
  BY <1>1, StageFacts DEF Binds
<1>3. /\ OnlyOwn(i) /\ KernelKept /\ byID' = byID /\ sess'[i].ip = sess[i].ip
      /\ sess'[i].mac = sess[i].mac /\ sess'[i].state = sess[i].state
  BY <1>1 DEF Binds
<1>4. \A a : SameAt(a)
  BY <1>3 DEF KernelKept, SameAt
<1>5. ASSUME NEW L
      PROVE  /\ Has(i, L) <=> sess[i].state # Failed /\ l \in L
             /\ Has(i, L)' <=> sess'[i].state # Failed /\ (l2 \in Mind => l2 \in L)
  BY <1>1, <1>2, <1>3, GoesHas
<1>6. \A L \in Spots : ~Has(i, L)' /\ ~Has(i, L)
  BY <1>2, <1>5, SpotFacts DEF Spots
<1>7. i \in byID /\ sess[i].ip # None => Installed(i)'
  BY <1>3, <1>4, <1>6, StaysInstalled
<1>8. Has(i, Addressed)' => sess[i].ip # None
  BY <1>2, <1>5, SpotFacts
<1>9. ~Has(i, Ruling)'
  BY <1>6 DEF Spots
<1> QED BY <1>1, <1>2, <1>3, <1>4, <1>7, <1>8, <1>9, OwnLocal

\* store.UpdateSubscriberIP: nothing is installed for the new address, and no other
\* goroutine is about to set it.
LEMMA AddressesLocal ==
  ASSUME LInv, Control, Contexts, Orderly(setup), Local, NEW p \in Proc, Addresses(p)
  PROVE  Local'
<1>1. PICK i : i = job[p].id
  OBVIOUS
<1>2. PICK l \in Mind, l2 \in Label :
        Goes(p, l, l2) /\ l2 \in Mind /\ l = "update_ip" /\ l2 = "apply_pgw"
  BY StageFacts DEF Addresses
<1>3. /\ OnlyOwn(i) /\ KernelKept /\ byID' = byID /\ sess'[i].ip = job[p].ip
      /\ sess'[i].mac = sess[i].mac /\ sess'[i].state = sess[i].state
  BY <1>1 DEF Addresses
<1>4. /\ i \in 1..next /\ next' = next /\ byID \subseteq 1..next /\ Turns(p) /\ i \in byID
      /\ job[p].pc = "update_ip" /\ job'[p].pc = "apply_pgw" /\ sess[i].ip = None
      /\ job[p].ip \in OrNone(IP)
  <2>1. next' = next /\ byID \subseteq 1..next /\ job[p] \in Job
    BY <1>3, Types DEF OnlyOwn
  <2>2. job[p].ip \in OrNone(IP)
    BY <2>1 DEF Job
  <2>3. Turns(p)
    BY <1>2 DEF Goes, Moved
  <2>4. /\ i \in 1..next /\ job[p].pc = l /\ job'[p].pc = l2 /\ i \in byID
        /\ l \in Early => sess[i].ip = None
    BY <1>1, <1>2, GoesFrom
  <2> QED BY <1>2, <2>1, <2>2, <2>3, <2>4, LabelsOfDeeds
<1>5. \A j \in 1..next : j # i => /\ sess'[j].ip = sess[j].ip /\ sess'[j].mac = sess[j].mac
                                  /\ sess'[j].gtpu = sess[j].gtpu
  BY <1>3 DEF OnlyOwn, Like
<1>6. \A a : SameAt(a)
  BY <1>3 DEF KernelKept, SameAt
<1>7. ASSUME NEW L
      PROVE  /\ Has(i, L)' <=> sess'[i].state # Failed /\ (l2 \in Mind => l2 \in L)
             /\ \A j \in 1..next : j # i => (Has(j, L)' <=> Has(j, L))
  BY <1>1, <1>2, <1>3, GoesHas
<1>8. job[p].ip # None => \A j \in 1..next : sess[j].ip # job[p].ip
  BY <1>4 DEF Local, FreshAddress
<1>9. OneAddress'
  BY <1>3, <1>4, <1>5, <1>8 DEF Local, OneAddress
<1>10. FreshAddress'
  <2> SUFFICES ASSUME NEW q \in Proc, job'[q].pc = "update_ip", job'[q].ip # None, NEW j \in 1..next
               PROVE  sess'[j].ip # job'[q].ip
    BY <1>4 DEF FreshAddress
  <2>1. q # p /\ job'[q] = job[q]
    BY <1>4 DEF Turns
  <2>2. sess[j].ip # job[q].ip
    BY <2>1 DEF Local, FreshAddress
  <2>3. job[q].ip # job[p].ip
    <3> SUFFICES ASSUME job[q].ip = job[p].ip PROVE FALSE
      OBVIOUS
    <3>1. PICK k : k = job[q].id
      OBVIOUS
    <3>2. Minds(p, i) /\ Minds(q, k)
      BY <1>1, <1>4, <2>1, <3>1, StageFacts DEF Minds
    <3>3. Sub(sess[i]) # Sub(sess[k])
      BY <2>1, <3>2, SubExcludes
    <3>4. PICK x \in ctx : x.sub = Sub(sess[i]) /\ x.ip = job[p].ip
      BY <1>1, <1>4 DEF Contexts, Asked
    <3>5. PICK y \in ctx : y.sub = Sub(sess[k]) /\ y.ip = job[q].ip
      BY <2>1, <3>1 DEF Contexts, Asked
    <3> QED BY <2>1, <3>3, <3>4, <3>5 DEF Contexts, Distinct
  <2> QED BY <1>3, <1>5, <2>1, <2>2, <2>3
<1>11. l2 \notin Addressed /\ l2 \notin Routing /\ l2 \notin Ruling /\ l2 \notin Neighbouring
  BY <1>2, SpotFacts
<1>12. ~Has(i, Addressed)' /\ ~Has(i, Routing)' /\ ~Has(i, Ruling)' /\ ~Has(i, Neighbouring)'
  BY <1>2, <1>7, <1>11
<1>13. HasAddress' /\ Tunnelled'
  <2>1. ASSUME NEW j \in byID, j # i
        PROVE  /\ Has(j, Addressed)' => sess'[j].ip # None
               /\ Has(j, Ruling)' => sess'[j].gtpu # None
    BY <1>4, <1>5, <1>7, <2>1 DEF Local, HasAddress, Tunnelled
  <2> QED BY <1>3, <1>12, <2>1 DEF HasAddress, Tunnelled
<1>14. \A a \in IP : Taken(a) => Taken(a)'
  <2> SUFFICES ASSUME NEW a \in IP, NEW j \in byID, sess[j].ip = a PROVE Taken(a)'
    BY DEF Taken
  <2>1. j # i
    BY <1>4, NoneAssumption
  <2> QED BY <1>3, <1>4, <1>5, <2>1 DEF Taken
<1>15. InUse'
  BY <1>3, <1>14 DEF Local, InUse, KernelKept, NoSession
<1>16. Kernel'
  <2> SUFFICES ASSUME NEW j \in byID, sess'[j].ip # None PROVE Installed(j)'
    BY <1>3 DEF Kernel
  <2>1. CASE j = i
    <3>1. PICK a \in IP : a = job[p].ip
      BY <1>3, <1>4, <2>1 DEF OrNone
    <3>2. ~Taken(a)
      BY <1>3, <1>4, <1>8, <2>1, <3>1 DEF Taken
    <3>3. a \notin route /\ a \notin rule /\ pdp[a] = NoSession /\ neigh[a] = None
      BY <3>2 DEF Local, InUse
    <3> QED BY <1>3, <1>6, <1>12, <2>1, <3>1, <3>3 DEF Installed, SameAt, NoSession
  <2>2. CASE j # i
    <3>1. /\ sess'[j].ip = sess[j].ip /\ sess'[j].mac = sess[j].mac
          /\ \A L \in Spots : Has(j, L)' <=> Has(j, L)
      BY <1>4, <1>5, <1>7, <2>2
    <3> QED BY <1>6, <3>1, StaysInstalled
  <2> QED BY <2>1, <2>2
<1> QED BY <1>9, <1>10, <1>13, <1>15, <1>16 DEF Local

\* What a goroutine at work finds in the kernel for its session.
LEMMA OwnInstalled ==
  ASSUME LInv, Control, Local, NEW p \in Proc, NEW l \in Mind, NEW l2 \in Mind, Goes(p, l, l2),
         NEW i, i = job[p].id, l # "terminate", StoreKept
  PROVE  /\ i \in byID /\ i \in 1..next /\ sess[i].state \in StatesAt(l)
         /\ sess'[i].state = sess[i].state /\ sess'[i].ip = sess[i].ip
         /\ sess'[i].mac = sess[i].mac /\ sess'[i].gtpu = sess[i].gtpu /\ byID' = byID
         /\ sess[i].ip # None => Installed(i) /\ sess[i].ip \in IP
         /\ sess[i].state # Failed /\ l \in Addressed => sess[i].ip # None
         /\ sess[i].state # Failed /\ l \in Ruling => sess[i].gtpu # None
         /\ \A L \in Spots : /\ Has(i, L) <=> sess[i].state # Failed /\ l \in L
                             /\ Has(i, L)' <=> sess[i].state # Failed /\ l2 \in L
         /\ Has(i, Addressed)' <=> sess[i].state # Failed /\ l2 \in Addressed
<1>1. i \in byID /\ i \in 1..next /\ sess[i].state \in StatesAt(l)
  BY GoesFrom
<1>2. /\ sess'[i].state = sess[i].state /\ sess'[i].ip = sess[i].ip
      /\ sess'[i].mac = sess[i].mac /\ sess'[i].gtpu = sess[i].gtpu /\ byID' = byID
  BY <1>1 DEF StoreKept, Like
<1>3. ASSUME NEW L
      PROVE  /\ Has(i, L) <=> sess[i].state # Failed /\ l \in L
             /\ Has(i, L)' <=> sess[i].state # Failed /\ l2 \in L
  <2>0. l2 \in Label
    BY StageFacts
  <2>1. Brings(i, l, l2, L)
    BY <2>0, GoesBrings
  <2> QED BY <1>2, <2>1 DEF Brings
<1>4. sess[i].ip # None => Installed(i) /\ sess[i].ip \in IP
  BY <1>1, AddressType DEF Local, Kernel
<1>5. Has(i, Addressed) => sess[i].ip # None
  BY <1>1 DEF Local, HasAddress
<1>6. Has(i, Ruling) => sess[i].gtpu # None
  BY <1>1 DEF Local, Tunnelled
<1>7. /\ sess[i].state # Failed /\ l \in Addressed => sess[i].ip # None
      /\ sess[i].state # Failed /\ l \in Ruling => sess[i].gtpu # None
  BY <1>3, <1>5, <1>6
<1> QED BY <1>1, <1>2, <1>3, <1>4, <1>7
\* A session is installed where it is, if the kernel has it so for its address.
LEMMA NowInstalled ==
  ASSUME NEW i, NEW a, sess'[i].ip = a,
         a \in route' <=> Has(i, Routing)', a \in rule' <=> Has(i, Ruling)',
         pdp'[a] = IF Has(i, Ruling)' THEN i ELSE 0,
         neigh'[a] = IF Has(i, Neighbouring)' THEN sess'[i].mac ELSE None
  PROVE  Installed(i)'
BY DEF Installed, NoSession

\* routing.Install.
LEMMA AddsRouteLocal ==
  ASSUME LInv, Control, Local, NEW p \in Proc, AddsRoute(p)
  PROVE  Local'
<1>1. PICK i, a : i = job[p].id /\ a = sess[i].ip
  OBVIOUS
<1>2. PICK l \in Mind, l2 \in Mind : Goes(p, l, l2) /\ l = "install" /\ l2 = "user_add"
  BY StageFacts DEF AddsRoute
<1>3. StoreKept /\ route' = route \cup {a} /\ rule' = rule /\ pdp' = pdp /\ neigh' = neigh
  BY <1>1 DEF AddsRoute
<1>4. l \in Addressed /\ \A L \in Spots : (l \in L <=> FALSE) /\ (l2 \in L <=> L = Routing)
  BY <1>2, SpotFacts DEF Spots
<1>5. /\ i \in byID /\ i \in 1..next /\ sess[i].state \in StatesAt(l)
      /\ sess'[i].ip = a /\ sess'[i].mac = sess[i].mac /\ byID' = byID
      /\ a # None => Installed(i) /\ a \in IP
      /\ sess[i].state # Failed /\ l \in Addressed => a # None
      /\ \A L \in Spots : /\ Has(i, L) <=> sess[i].state # Failed /\ l \in L
                          /\ Has(i, L)' <=> sess[i].state # Failed /\ l2 \in L
  BY <1>1, <1>2, <1>3, OwnInstalled
<1>6. sess[i].state # Failed /\ a \in IP /\ Installed(i)
  BY <1>2, <1>4, <1>5, StateTable, States
<1>7. /\ Has(i, Routing)' /\ ~Has(i, Ruling)' /\ ~Has(i, Neighbouring)'
      /\ ~Has(i, Ruling) /\ ~Has(i, Neighbouring)
  BY <1>2, <1>5, <1>6, SpotFacts DEF Spots
<1>8. a \notin rule /\ pdp[a] = 0 /\ neigh[a] = None
  BY <1>1, <1>6, <1>7 DEF Installed, NoSession
<1>9. Installed(i)'
  BY <1>3, <1>5, <1>7, <1>8, NowInstalled
<1>10. \A b \in IP : SameAt(b) \/ b = a
  BY <1>3 DEF SameAt
<1>11. l2 \in Label /\ l2 # "update_ip" /\ a # None
  BY <1>2, <1>4, <1>5, <1>6, StageFacts
<1> QED BY <1>1, <1>2, <1>3, <1>5, <1>7, <1>9, <1>10, <1>11, OwnLocal

\* user.AddSession: the address has no other PDP context.
LEMMA AddsUserLocal ==
  ASSUME LInv, Control, Contexts, Local, NEW p \in Proc, AddsUser(p)
  PROVE  Local'
<1>1. PICK i, a : i = job[p].id /\ a = sess[i].ip
  OBVIOUS
<1>2. PICK l \in Mind, l2 \in Mind : Goes(p, l, l2) /\ l = "user_add" /\ l2 = "mark_active"
  BY StageFacts DEF AddsUser
<1>3. /\ StoreKept /\ route' = route /\ rule' = rule \cup {a} /\ neigh' = neigh
      /\ pdp' = [pdp EXCEPT ![a] = IF pdp[a] = NoSession THEN i ELSE pdp[a]]
  BY <1>1 DEF AddsUser
<1>4. l \in Addressed
  BY <1>2, SpotFacts
<1>5. /\ i \in byID /\ i \in 1..next /\ sess[i].state \in StatesAt(l)
      /\ sess'[i].ip = a /\ sess'[i].mac = sess[i].mac /\ byID' = byID
      /\ sess'[i].gtpu = sess[i].gtpu
      /\ a # None => Installed(i) /\ a \in IP
      /\ sess[i].state # Failed /\ l \in Addressed => a # None
      /\ \A L \in Spots : /\ Has(i, L) <=> sess[i].state # Failed /\ l \in L
                          /\ Has(i, L)' <=> sess[i].state # Failed /\ l2 \in L
  BY <1>1, <1>2, <1>3, OwnInstalled
<1>6. sess[i].state # Failed /\ a \in IP /\ Installed(i)
  BY <1>2, <1>4, <1>5, StateTable, States
<1>7. /\ Has(i, Routing)' /\ Has(i, Ruling)' /\ ~Has(i, Neighbouring)'
      /\ Has(i, Routing) /\ ~Has(i, Ruling) /\ ~Has(i, Neighbouring)
  BY <1>2, <1>5, <1>6, SpotFacts DEF Spots
<1>8. a \in route /\ pdp[a] = NoSession /\ neigh[a] = None
  BY <1>1, <1>6, <1>7 DEF Installed
<1>9. pdp'[a] = i /\ a \in rule' /\ a \in route' /\ neigh'[a] = None
  BY <1>3, <1>6, <1>8, Types
<1>10. Installed(i)'
  BY <1>5, <1>7, <1>9, NowInstalled
<1>11. \A b \in IP : SameAt(b) \/ b = a
  BY <1>3, Types DEF SameAt
<1>12. sess'[i].gtpu # None
  <2>1. StageIn(i, Full) <=> l \in Full
    BY <1>1, <1>2, GoesStage, StageFacts
  <2>2. Has(i, Full)
    BY <1>2, <1>6, <2>1, StageFacts DEF Has
  <2> QED BY <1>5, <2>2 DEF Contexts, Holds
<1>13. l2 \in Label /\ l2 # "update_ip" /\ a # None
  BY <1>2, <1>4, <1>5, <1>6, StageFacts
<1> QED BY <1>1, <1>2, <1>3, <1>5, <1>10, <1>11, <1>12, <1>13, OwnLocal

\* access.AddSession.
LEMMA AddsNeighbourLocal ==
  ASSUME LInv, Control, Local, NEW p \in Proc, AddsNeighbour(p)
  PROVE  Local'
<1>1. PICK i, a : i = job[p].id /\ a = sess[i].ip
  OBVIOUS
<1>2. PICK l \in Mind, l2 \in Mind : Goes(p, l, l2) /\ l = "access_add" /\ l2 = "validate"
  BY StageFacts DEF AddsNeighbour
<1>3. /\ StoreKept /\ route' = route /\ rule' = rule /\ pdp' = pdp
      /\ neigh' = IF sess[i].mac = None THEN neigh ELSE [neigh EXCEPT ![a] = sess[i].mac]
  BY <1>1 DEF AddsNeighbour
<1>4. l \in Addressed /\ l \in Ruling
  BY <1>2, SpotFacts
<1>5. /\ i \in byID /\ i \in 1..next /\ sess[i].state \in StatesAt(l)
      /\ sess'[i].ip = a /\ sess'[i].mac = sess[i].mac /\ byID' = byID
      /\ sess'[i].gtpu = sess[i].gtpu
      /\ a # None => Installed(i) /\ a \in IP
      /\ sess[i].state # Failed /\ l \in Addressed => a # None
      /\ sess[i].state # Failed /\ l \in Ruling => sess[i].gtpu # None
      /\ \A L \in Spots : /\ Has(i, L) <=> sess[i].state # Failed /\ l \in L
                          /\ Has(i, L)' <=> sess[i].state # Failed /\ l2 \in L
  BY <1>1, <1>2, <1>3, OwnInstalled
<1>6. sess[i].state # Failed /\ a \in IP /\ Installed(i)
  BY <1>2, <1>4, <1>5, StateTable, States
<1>7. /\ Has(i, Routing)' /\ Has(i, Ruling)' /\ Has(i, Neighbouring)'
      /\ Has(i, Routing) /\ Has(i, Ruling) /\ ~Has(i, Neighbouring)
  BY <1>2, <1>5, <1>6, SpotFacts DEF Spots
<1>8. a \in route /\ a \in rule /\ pdp[a] = i /\ neigh[a] = None
  BY <1>1, <1>6, <1>7 DEF Installed
<1>9. neigh'[a] = sess[i].mac
  BY <1>3, <1>6, <1>8, Types
<1>10. Installed(i)'
  BY <1>3, <1>5, <1>7, <1>8, <1>9, NowInstalled
<1>11. \A b \in IP : SameAt(b) \/ b = a
  BY <1>3, Types DEF SameAt
<1>12. sess'[i].gtpu # None /\ l2 \in Label /\ l2 # "update_ip" /\ a # None
  BY <1>2, <1>4, <1>5, <1>6, StageFacts
<1> QED BY <1>1, <1>2, <1>3, <1>5, <1>10, <1>11, <1>12, OwnLocal

\* routing.Remove.
LEMMA DropsRouteLocal ==
  ASSUME LInv, Control, Local, NEW p \in Proc, DropsRoute(p)
  PROVE  Local'
<1>1. PICK i, a : i = job[p].id /\ a = sess[i].ip
  OBVIOUS
<1>2. PICK l \in Mind, l2 \in Mind :
        /\ Goes(p, l, l2)
        /\ (l = "undo_route" /\ l2 = "undo_pgw") \/ (l = "del_route" /\ l2 = "del_user")
  BY StageFacts DEF DropsRoute
<1>3. StoreKept /\ route' = route \ {a} /\ rule' = rule /\ pdp' = pdp /\ neigh' = neigh
  BY <1>1 DEF DropsRoute, RouteRemove
<1>4. l \in Addressed /\ l2 \notin Routing /\ l \in Routing
      /\ (l \in Ruling <=> l2 \in Ruling) /\ (l \in Neighbouring <=> l2 \in Neighbouring)
  BY <1>2, SpotFacts
<1>5. /\ i \in byID /\ i \in 1..next /\ sess[i].state \in StatesAt(l)
      /\ sess'[i].ip = a /\ sess'[i].mac = sess[i].mac /\ byID' = byID
      /\ sess'[i].gtpu = sess[i].gtpu
      /\ a # None => Installed(i) /\ a \in IP
      /\ sess[i].state # Failed /\ l \in Addressed => a # None
      /\ sess[i].state # Failed /\ l \in Ruling => sess[i].gtpu # None
      /\ \A L \in Spots : /\ Has(i, L) <=> sess[i].state # Failed /\ l \in L
                          /\ Has(i, L)' <=> sess[i].state # Failed /\ l2 \in L
  BY <1>1, <1>2, <1>3, OwnInstalled
<1>6. sess[i].state # Failed /\ a \in IP /\ Installed(i)
  BY <1>2, <1>4, <1>5, StateTable, States
<1>7. /\ ~Has(i, Routing)' /\ (Has(i, Ruling)' <=> Has(i, Ruling))
      /\ (Has(i, Neighbouring)' <=> Has(i, Neighbouring))
  BY <1>4, <1>5, <1>6 DEF Spots
<1>8. Installed(i)'
  BY <1>1, <1>3, <1>5, <1>6, <1>7 DEF Installed, NoSession
<1>9. \A b \in IP : SameAt(b) \/ b = a
  BY <1>3 DEF SameAt
<1>10. Has(i, Ruling)' => sess'[i].gtpu # None
  BY <1>4, <1>5 DEF Spots
<1>11. l2 \in Label /\ l2 # "update_ip" /\ a # None
  BY <1>2, <1>4, <1>5, <1>6, StageFacts
<1> QED BY <1>1, <1>2, <1>3, <1>5, <1>8, <1>9, <1>10, <1>11, OwnLocal

\* user.RemoveSession: the only PDP context of the session is the one of its address.
LEMMA DropsUserLocal ==
  ASSUME LInv, Control, Local, NEW p \in Proc, DropsUser(p)
  PROVE  Local'
<1>1. PICK i, a : i = job[p].id /\ a = sess[i].ip
  OBVIOUS
<1>2. PICK l \in Mind, l2 \in Mind :
        /\ Goes(p, l, l2)
        /\ (l = "undo_user" /\ l2 = "undo_route") \/ (l = "del_user" /\ l2 = "del_access")
  BY StageFacts DEF DropsUser
<1>3. /\ StoreKept /\ route' = route /\ rule' = rule \ {a} /\ neigh' = neigh
      /\ pdp' = [b \in IP |-> IF sess[i].gtpu # None /\ pdp[b] = i THEN NoSession ELSE pdp[b]]
  BY <1>1 DEF DropsUser, UserRemove
<1>4. l \in Addressed /\ l2 \notin Ruling /\ l \in Ruling
      /\ (l \in Routing <=> l2 \in Routing) /\ (l \in Neighbouring <=> l2 \in Neighbouring)
  BY <1>2, SpotFacts
<1>5. /\ i \in byID /\ i \in 1..next /\ sess[i].state \in StatesAt(l)
      /\ sess'[i].ip = a /\ sess'[i].mac = sess[i].mac /\ byID' = byID
      /\ sess'[i].gtpu = sess[i].gtpu
      /\ a # None => Installed(i) /\ a \in IP
      /\ sess[i].state # Failed /\ l \in Addressed => a # None
      /\ sess[i].state # Failed /\ l \in Ruling => sess[i].gtpu # None
      /\ \A L \in Spots : /\ Has(i, L) <=> sess[i].state # Failed /\ l \in L
                          /\ Has(i, L)' <=> sess[i].state # Failed /\ l2 \in L
  BY <1>1, <1>2, <1>3, OwnInstalled
<1>6. sess[i].state # Failed /\ a \in IP /\ Installed(i) /\ sess[i].gtpu # None
  BY <1>2, <1>4, <1>5, StateTable, States
<1>7. /\ ~Has(i, Ruling)' /\ Has(i, Ruling) /\ (Has(i, Routing)' <=> Has(i, Routing))
      /\ (Has(i, Neighbouring)' <=> Has(i, Neighbouring))
  BY <1>4, <1>5, <1>6 DEF Spots
<1>8. pdp[a] = i /\ pdp'[a] = NoSession
  BY <1>1, <1>3, <1>6, <1>7 DEF Installed
<1>9. Installed(i)'
  BY <1>1, <1>3, <1>5, <1>6, <1>7, <1>8 DEF Installed, NoSession
<1>10. ASSUME NEW b \in IP, b # a PROVE SameAt(b)
  <2>1. pdp[b] # i
    <3> SUFFICES ASSUME pdp[b] = i PROVE FALSE
      OBVIOUS
    <3>1. i # NoSession
      BY <1>5, Types DEF NoSession
    <3>2. PICK k \in byID : sess[k].ip = b
      BY <3>1 DEF Local, InUse, Taken
    <3>3. Installed(k)
      BY <3>2, NoneAssumption DEF Local, Kernel
    <3>4. k = i
      BY <3>1, <3>2, <3>3 DEF Installed
    <3> QED BY <1>1, <1>10, <3>2, <3>4
  <2> QED BY <1>3, <1>10, <2>1 DEF SameAt
<1>11. l2 \in Label /\ l2 # "update_ip" /\ a # None
  BY <1>2, <1>4, <1>5, <1>6, StageFacts
<1> QED BY <1>1, <1>2, <1>3, <1>5, <1>7, <1>9, <1>10, <1>11, OwnLocal

\* access.RemoveSession.
LEMMA DropsNeighbourLocal ==
  ASSUME LInv, Control, Local, NEW p \in Proc, DropsNeighbour(p)
  PROVE  Local'
<1>1. PICK i, a : i = job[p].id /\ a = sess[i].ip
  OBVIOUS
<1>2. PICK l \in Mind, l2 \in Mind : Goes(p, l, l2) /\ l = "del_access" /\ l2 = "del_session"
  BY StageFacts DEF DropsNeighbour
<1>3. /\ StoreKept /\ route' = route /\ rule' = rule /\ pdp' = pdp
      /\ neigh' = IF a = None \/ sess[i].mac = None THEN neigh ELSE [neigh EXCEPT ![a] = None]
  BY <1>1 DEF DropsNeighbour
<1>4. l \in Addressed
  BY <1>2, SpotFacts
<1>5. /\ i \in byID /\ i \in 1..next /\ sess[i].state \in StatesAt(l)
      /\ sess'[i].ip = a /\ sess'[i].mac = sess[i].mac /\ byID' = byID
      /\ sess'[i].gtpu = sess[i].gtpu
      /\ a # None => Installed(i) /\ a \in IP
      /\ sess[i].state # Failed /\ l \in Addressed => a # None
      /\ \A L \in Spots : /\ Has(i, L) <=> sess[i].state # Failed /\ l \in L
                          /\ Has(i, L)' <=> sess[i].state # Failed /\ l2 \in L
  BY <1>1, <1>2, <1>3, OwnInstalled
<1>6. sess[i].state # Failed /\ a \in IP /\ Installed(i)
  BY <1>2, <1>4, <1>5, StateTable, States
<1>7. /\ ~Has(i, Routing)' /\ ~Has(i, Ruling)' /\ ~Has(i, Neighbouring)'
      /\ ~Has(i, Routing) /\ ~Has(i, Ruling) /\ Has(i, Neighbouring)
  BY <1>2, <1>5, <1>6, SpotFacts DEF Spots
<1>8. a \notin route /\ a \notin rule /\ pdp[a] = 0 /\ neigh[a] = sess[i].mac
  BY <1>1, <1>6, <1>7 DEF Installed, NoSession
<1>9. neigh'[a] = None
  BY <1>3, <1>6, <1>8, Types, NoneAssumption
<1>10. Installed(i)'
  BY <1>3, <1>5, <1>7, <1>8, <1>9, NowInstalled
<1>11. \A b \in IP : SameAt(b) \/ b = a
  BY <1>3, Types DEF SameAt
<1>12. l2 \in Label /\ l2 # "update_ip" /\ a # None
  BY <1>2, <1>4, <1>5, <1>6, StageFacts
<1> QED BY <1>1, <1>2, <1>3, <1>5, <1>7, <1>10, <1>11, <1>12, OwnLocal

\* store.Delete: nothing was left of the session.
LEMMA RemovesLocal ==
  ASSUME LInv, Control, Local, NEW p \in Proc, Removes(p)
  PROVE  Local'
<1>1. PICK i : i = job[p].id
  OBVIOUS
<1>2. /\ OnlyOwn(i) /\ byID' = byID \ {i} /\ KernelKept /\ sess'[i].ip = sess[i].ip
  BY <1>1 DEF Removes
<1>3. PICK l \in Mind, l2 \in Label :
        Goes(p, l, l2) /\ l = "del_session" /\ l2 \in {"unlock", "create"}
  BY StageFacts, LabelsOfDeeds DEF Removes
<1>4. /\ next' = next /\ byID \subseteq 1..next /\ Turns(p) /\ job'[p].pc # "update_ip"
  BY <1>2, <1>3, Types DEF Goes, Moved, OnlyOwn
<1>5. i \in 1..next /\ i \in byID
  BY <1>1, <1>3, GoesFrom
<1>6. \A j \in 1..next : /\ sess'[j].ip = sess[j].ip
                         /\ j # i => sess'[j].mac = sess[j].mac /\ sess'[j].gtpu = sess[j].gtpu
  BY <1>2 DEF OnlyOwn, Like
<1>7. ASSUME NEW L
      PROVE  /\ Has(i, L) <=> sess[i].state # Failed /\ l \in L
             /\ \A j \in 1..next : j # i => (Has(j, L)' <=> Has(j, L))
  BY <1>1, <1>2, <1>3, GoesHas
<1>8. \A a : SameAt(a)
  BY <1>2 DEF KernelKept, SameAt
<1>9. OneAddress' /\ FreshAddress'
  BY <1>4, <1>6 DEF Local, OneAddress, FreshAddress, Turns
<1>10. HasAddress' /\ Tunnelled'
  BY <1>2, <1>4, <1>6, <1>7 DEF Local, HasAddress, Tunnelled
<1>11. Kernel'
  <2> SUFFICES ASSUME NEW j \in byID, j # i, sess'[j].ip # None PROVE Installed(j)'
    BY <1>2 DEF Kernel
  <2> QED BY <1>4, <1>6, <1>7, <1>8, StaysInstalled
<1>12. ~Has(i, Routing) /\ ~Has(i, Ruling) /\ ~Has(i, Neighbouring)
  BY <1>3, <1>7, SpotFacts
<1>13. InUse'
  <2> SUFFICES ASSUME NEW a \in IP,
                      a \in route \/ a \in rule \/ pdp[a] # NoSession \/ neigh[a] # None
               PROVE  Taken(a)'
    BY <1>2 DEF InUse, KernelKept, NoSession
  <2>1. PICK k \in byID : sess[k].ip = a
    BY DEF Local, InUse, Taken
  <2>2. Installed(k)
    BY <2>1, NoneAssumption DEF Local, Kernel
  <2>3. k # i
    BY <1>12, <2>1, <2>2 DEF Installed
  <2> QED BY <1>2, <1>4, <1>6, <2>1, <2>3 DEF Taken
<1> QED BY <1>9, <1>10, <1>11, <1>13 DEF Local

\* store.Create: the new session has no address.
LEMMA AddsLocal ==
  ASSUME LInv, LInv', Control, Local, NEW p \in Proc, Turns(p), Adds(p)
  PROVE  Local'
<1>0. PICK n : n = next + 1
  OBVIOUS
<1>1. /\ next \in Nat /\ next' = n /\ n \notin 1..next /\ byID' = byID \cup {n}
      /\ byID \subseteq 1..next /\ KernelKept
      /\ \A j \in 1..next : sess'[j] = sess[j]
      /\ job[p].pc = "create" /\ job'[p].pc = "auth_pending" /\ job'[p].id = n
      /\ sess'[n].ip = None
  BY <1>0, Types DEF Adds
<1>2. \A j \in 1..n : j = n \/ j \in 1..next
  BY <1>0, <1>1
<1>3. \A q \in Proc : q # p => job'[q] = job[q]
  BY DEF Turns
<1>4. \A L, j : j \in 1..next => (Has(j, L)' <=> Has(j, L))
  <2> SUFFICES ASSUME NEW L, NEW j \in 1..next PROVE Has(j, L)' <=> Has(j, L)
    OBVIOUS
  <2>1. \A q \in Proc : (Minds(q, j)' <=> Minds(q, j)) /\ (Minds(q, j) => job'[q] = job[q])
    BY <1>1, <1>3, MindFacts DEF Minds
  <2>2. StageIn(j, L)' <=> StageIn(j, L)
    BY <2>1 DEF StageIn
  <2> QED BY <1>1, <2>2 DEF Has
<1>5. ~Has(n, Addressed)' /\ ~Has(n, Ruling)'
  <2>1. Minds(p, n)'
    BY <1>1, StageFacts DEF Minds
  <2> QED BY <1>1, <2>1, SpotFacts DEF Has, StageIn
<1>6. \A a : SameAt(a)
  BY <1>1 DEF KernelKept, SameAt
<1>7. OneAddress'
  BY <1>1, <1>2 DEF Local, OneAddress
<1>8. FreshAddress'
  <2> SUFFICES ASSUME NEW q \in Proc, job'[q].pc = "update_ip", job'[q].ip # None, NEW j \in 1..n
               PROVE  sess'[j].ip # job'[q].ip
    BY <1>1 DEF FreshAddress
  <2>1. q # p /\ job'[q] = job[q]
    BY <1>1, <1>3
  <2> QED BY <1>1, <1>2, <2>1 DEF Local, FreshAddress
<1>9. HasAddress' /\ Tunnelled'
  BY <1>1, <1>4, <1>5 DEF Local, HasAddress, Tunnelled
<1>10. Kernel'
  <2> SUFFICES ASSUME NEW j \in byID', sess'[j].ip # None PROVE Installed(j)'
    BY DEF Kernel
  <2>1. j \in byID /\ j \in 1..next
    BY <1>1
  <2> QED BY <1>1, <1>4, <1>6, <2>1, StaysInstalled
<1>11. InUse'
  <2> SUFFICES ASSUME NEW a \in IP,
                      a \in route \/ a \in rule \/ pdp[a] # NoSession \/ neigh[a] # None
               PROVE  Taken(a)'
    BY <1>1 DEF InUse, KernelKept, NoSession
  <2>1. PICK k \in byID : sess[k].ip = a
    BY DEF Local, InUse, Taken
  <2> QED BY <1>1, <2>1 DEF Taken
<1> QED BY <1>7, <1>8, <1>9, <1>10, <1>11 DEF Local

\* A step keeps what the invariant says of the kernel.
LEMMA DeedLocal ==
  ASSUME LInv, LInv', Control, Contexts, Orderly(setup), ~ReuseIP, Local, NEW p \in Proc,
         Turns(p), Deed(p)
  PROVE  Local'
BY AsideLocal, AddsLocal, PassesLocal, ProceedsLocal, AsksLocal, AddressesLocal, BindsLocal,
   AddsRouteLocal, AddsUserLocal, AddsNeighbourLocal, DropsContextLocal, DropsRouteLocal,
   DropsUserLocal, DropsNeighbourLocal, RemovesLocal DEF Deed
-----------------------------------------------------------------------------
(* Each action of the service is a deed. *)

\* p returns success: at the end of its own attach, or with a session it has found
\* active under the lock.
Accepts(p) ==
  /\ UNCHANGED mgrVars /\ UNCHANGED envVars
  /\ \/ Goes(p, "validate", "unlock")
     \/ /\ job[p].pc = "find" /\ job'[p].id \in byID /\ sess[job'[p].id].state = Active
        /\ job[p].key = KeyOf(sess[job'[p].id]) /\ job'[p].pc = "unlock"

\* It does so in no other step.
Honest(p) == job[p].out # "accept" /\ job'[p].out = "accept" => Accepts(p)

\* A step of p is a deed, and success is returned in no other.
Does(p) == Deed(p) /\ Honest(p)

\* What a goroutine at work on a session has, once more.
LEMMA WorksAt ==
  ASSUME LInv, Control, NEW p \in Proc, NEW l \in Mind, job[p].pc = l, NEW i, i = job[p].id
  PROVE  /\ i \in 1..next /\ job[p].key = KeyOf(sess[i]) /\ ~job[p].expired /\ Minds(p, i)
         /\ i \in byID => sess[i].state \in StatesAt(l)
         /\ l # "terminate" => i \in byID /\ Like(job[p].c, sess[i])
         /\ l \in Early => sess[i].ip = None /\ job[p].key = KeyOf(job[p].ev)
BY DEF Control, Works, Attends, Minds

\* The store is as it was.
LEMMA Untouched ==
  ASSUME LInv, UNCHANGED mgrVars
  PROVE  StoreKept /\ sess' = sess /\ byID' = byID /\ next' = next
BY Unchanged DEF StoreKept, Like

\* p goes on with the copy it has, and the store is as it was.
LEMMA GoesOn ==
  ASSUME LInv, Control, NEW p \in Proc, NEW l \in Mind, NEW l2 \in Label, job[p].pc = l,
         Moved(p, l2), job'[p].c = job[p].c, job'[p].expired = job[p].expired,
         UNCHANGED mgrVars, l = "terminate" => l2 \notin Mind
  PROVE  Goes(p, l, l2) /\ StoreKept
<1>1. PICK i : i = job[p].id
  OBVIOUS
<1>2. /\ ~job[p].expired /\ l # "terminate" => Like(job[p].c, sess[i])
  BY <1>1, WorksAt
<1>3. StoreKept /\ sess' = sess
  BY Untouched
<1>4. job'[p].id = i
  BY <1>1 DEF Moved
<1>5. ~job[p].expired
  BY <1>1, WorksAt
<1> QED BY <1>1, <1>2, <1>3, <1>4, <1>5 DEF Goes

\* p goes on with the copy that the store returned.
LEMMA GoesWith ==
  ASSUME LInv, Control, NEW p \in Proc, NEW l \in Mind, NEW l2 \in Label, job[p].pc = l,
         Moved(p, l2), NEW i, i = job[p].id, job'[p].c = sess'[i],
         job'[p].expired = job[p].expired
  PROVE  Goes(p, l, l2)
<1>1. ~job[p].expired
  BY WorksAt
<1>2. job'[p].id = i
  BY DEF Moved
<1> QED BY <1>1, <1>2 DEF Goes, Like

\* What a transition of the store leaves alone.
LEMMA MarkKeeps ==
  ASSUME LInv, NEW id, NEW to \in MarkTarget, Mark(id, to)
  PROVE  /\ OnlyOwn(id) /\ byID' = byID /\ id \in byID /\ sess'[id] \in Session
         /\ sess'[id].state = to /\ Like(sess'[id], sess[id])
<1>1. /\ id \in byID /\ byID' = byID /\ next' = next /\ next \in Nat
      /\ sess'[id].state = to /\ sess'[id] \in Session
  BY Marked
<1>2. sess' = [sess EXCEPT ![id].state = to] /\ sess \in [1..next -> Session] /\ id \in 1..next
  BY <1>1, Types DEF Mark, SetState
<1>3. \A j \in 1..next : j # id => sess'[j] = sess[j]
  BY <1>2
<1>4. Like(sess'[id], sess[id])
  BY <1>2 DEF Like, Session
<1>5. OnlyOwn(id)
  BY <1>1, <1>3 DEF OnlyOwn, Like
<1> QED BY <1>1, <1>4, <1>5

\* A transition that is granted.
LEMMA Granted ==
  ASSUME LInv, Control, NEW p \in Proc, NEW l \in Mind, NEW l2 \in Mind, NEW to \in MarkTarget,
         job[p].pc = l, Mark(job[p].id, to), GotoWith(p, l2, sess'[job[p].id]), UNCHANGED envVars
  PROVE  Marks(p, l, l2, to) /\ Honest(p)
<1>0. PICK i : i = job[p].id
  OBVIOUS
<1>1. /\ OnlyOwn(i) /\ byID' = byID /\ i \in byID /\ sess'[i] \in Session
      /\ sess'[i].state = to /\ Like(sess'[i], sess[i])
  BY <1>0, MarkKeeps
<1>2. job \in [Proc -> Job] /\ l2 \in Label
  BY Types, MindFacts
<1>3. PICK s \in Session : s = sess'[i]
  BY <1>1
<1>4. GotoWith(p, l2, s)
  BY <1>0, <1>3
<1>5. /\ Moved(p, l2) /\ job'[p].c = s /\ job'[p].bearer = job[p].bearer
      /\ job'[p].expired = job[p].expired /\ job'[p].out = job[p].out
  BY <1>2, <1>4, GotoWithMoves
<1>6. Goes(p, l, l2)
  BY <1>0, <1>2, <1>3, <1>5, GoesWith
<1>7. ctx' = ctx /\ KernelKept
  BY DEF envVars, KernelKept
<1>8. Honest(p)
  BY <1>5 DEF Honest
<1>9. Marks(p, l, l2, to)
  BY <1>0, <1>1, <1>6, <1>7 DEF Marks
<1> QED BY <1>8, <1>9

\* The other transitions that a goroutine at work asks for.
LEMMA Allowed ==
  /\ validTransition(Active, Recovering) /\ validTransition(Active, Terminating)
  /\ validTransition(Active, Failed) /\ ~validTransition(Failed, Terminating)
BY DEF validTransition, Successors, Pending, AuthPending, Authorized, IPAllocated, PGWPending,
   Active, Recovering, Terminating, Terminated, Failed

\* MarkAuthPending, MarkPGWPending, MarkActive and MarkRecovering are granted.
LEMMA MarkStepDoes ==
  ASSUME LInv, Control, NEW p \in Proc,
         markAuthPending(p) \/ markPGWPending(p) \/ markActive(p) \/ markRecovering(p)
  PROVE  Does(p)
<1>0. /\ {"auth_pending", "authorize", "pgw_pending", "check_imsi", "mark_active", "access_add",
          "mark_recovering", "terminate"} \subseteq Mind
      /\ {AuthPending, PGWPending, Active, Recovering} \subseteq MarkTarget
  BY LabelsOfDeeds, MindFacts DEF MarkTarget, Early
<1>1. ASSUME NEW l \in Mind, NEW to \in MarkTarget, l # "terminate", job[p].pc = l,
             \A st \in StatesAt(l) : validTransition(st, to)
      PROVE  CanTransition(job[p].id, to)
  <2>1. PICK i : i = job[p].id
    OBVIOUS
  <2>2. i \in byID /\ sess[i].state \in StatesAt(l)
    BY <1>1, <2>1, WorksAt
  <2> QED BY <1>1, <2>1, <2>2 DEF CanTransition
<1>2. ASSUME NEW l \in Mind, NEW l2 \in Mind, NEW to \in MarkTarget, NEW bad, l # "terminate",
             job[p].pc = l, \A st \in StatesAt(l) : validTransition(st, to),
             Transition(p, to, l2, bad)
      PROVE  Marks(p, l, l2, to) /\ Honest(p)
  <2>1. CanTransition(job[p].id, to)
    BY <1>1, <1>2
  <2>2. Mark(job[p].id, to) /\ GotoWith(p, l2, sess'[job[p].id]) /\ UNCHANGED envVars
    BY <1>2, <2>1 DEF Transition
  <2> QED BY <1>2, <2>2, Granted
<1>3. CASE markAuthPending(p)
  <2>1. \A st \in StatesAt("auth_pending") : validTransition(st, AuthPending)
    BY StateTable, NextStates
  <2>2. Marks(p, "auth_pending", "authorize", AuthPending) /\ Honest(p)
    BY <1>0, <1>2, <1>3, <2>1 DEF markAuthPending, At
  <2> QED BY <2>2 DEF Does, Deed, Proceeds
<1>4. CASE markPGWPending(p)
  <2>1. \A st \in StatesAt("pgw_pending") : validTransition(st, PGWPending)
    BY StateTable, NextStates
  <2>2. Marks(p, "pgw_pending", "check_imsi", PGWPending) /\ Honest(p)
    BY <1>0, <1>2, <1>4, <2>1 DEF markPGWPending, At
  <2> QED BY <2>2 DEF Does, Deed, Proceeds
<1>5. CASE markActive(p)
  <2>1. \A st \in StatesAt("mark_active") : validTransition(st, Active)
    BY StateTable, NextStates
  <2>2. Marks(p, "mark_active", "access_add", Active) /\ Honest(p)
    BY <1>0, <1>2, <1>5, <2>1 DEF markActive, At
  <2> QED BY <2>2 DEF Does, Deed, Proceeds
<1>6. CASE markRecovering(p)
  <2>1. \A st \in StatesAt("mark_recovering") : validTransition(st, Recovering)
    BY StateTable, Allowed
  <2>2. Marks(p, "mark_recovering", "terminate", Recovering) /\ Honest(p)
    BY <1>0, <1>2, <1>6, <2>1 DEF markRecovering, At
  <2> QED BY <2>2 DEF Does, Deed, Proceeds
<1> QED BY <1>3, <1>4, <1>5, <1>6

\* MarkTerminating is refused for a session that has failed or is gone.
LEMMA TerminatingDoes ==
  ASSUME LInv, Control, NEW p \in Proc, markTerminating(p)
  PROVE  Does(p)
<1>0. /\ job[p].pc = "terminate" /\ "terminate" \in Mind /\ "del_pgw" \in Mind
      /\ Terminating \in MarkTarget /\ "unlock" \in Label /\ "unlock" \notin Mind
  BY LabelsOfDeeds, MindFacts DEF markTerminating, At, MarkTarget
<1>1. PICK i : i = job[p].id
  OBVIOUS
<1>2. i \in byID => sess[i].state \in {Active, Recovering, Failed}
  BY <1>0, <1>1, WorksAt, StateTable
<1>3. ASSUME Mark(job[p].id, Terminating), GotoWith(p, "del_pgw", sess'[job[p].id]),
             UNCHANGED envVars
      PROVE  Does(p)
  <2>1. Marks(p, "terminate", "del_pgw", Terminating) /\ Honest(p)
    BY <1>0, <1>3, Granted
  <2>2. sess[i].state # Failed
    BY <1>1, <1>3, Allowed DEF Mark, CanTransition
  <2> QED BY <1>1, <2>1, <2>2 DEF Does, Deed, Proceeds
<1>4. ASSUME ~CanTransition(job[p].id, Terminating), Detached(p, TRUE), UNCHANGED mgrVars,
             UNCHANGED envVars
      PROVE  Does(p)
  <2>1. i \notin byID \/ sess[i].state = Failed
    BY <1>1, <1>2, <1>4, Allowed, NextStates DEF CanTransition
  <2>2. /\ Moved(p, "unlock")
        /\ job'[p].expired = job[p].expired /\ job'[p].out \in {job[p].out, "error"}
    BY <1>4, DetachedMoves
  <2>3. Goes(p, "terminate", "unlock") /\ StoreKept
    <3>1. ~job[p].expired /\ StoreKept
      BY <1>0, <1>1, <1>4, WorksAt, Untouched
    <3> QED BY <1>0, <2>2, <3>1 DEF Goes
  <2>4. Walks(p, "terminate", "unlock")
    BY <1>4, <2>3 DEF Walks, KernelKept, envVars
  <2>5. Honest(p)
    BY <2>2 DEF Honest
  <2> QED BY <1>1, <2>1, <2>4, <2>5 DEF Does, Deed, Passes
<1> QED BY <1>3, <1>4 DEF markTerminating, Transition

\* MarkFailed is granted.
LEMMA MarkFailedDoes ==
  ASSUME LInv, Control, NEW p \in Proc, markFailed(p)
  PROVE  Does(p)
<1>0. /\ job[p].pc = "fail" /\ "fail" \in Mind /\ "unlock" \in Label /\ "unlock" \notin Mind
      /\ Failed \in MarkTarget /\ UNCHANGED envVars /\ job \in [Proc -> Job]
      /\ job[p].out \in {"none", "accept", "blocked", "error"}
  BY LabelsOfDeeds, MindFacts, Types DEF markFailed, At, MarkTarget, Job
<1>1. PICK i : i = job[p].id
  OBVIOUS
<1>2. i \in byID /\ sess[i].state \in {PGWPending, Active} /\ ~job[p].expired
  BY <1>0, <1>1, WorksAt, StateTable
<1>3. CanTransition(i, Failed)
  BY <1>2, Allowed, NextStates DEF CanTransition
<1>4. Mark(i, Failed)
  BY <1>1, <1>3 DEF markFailed
<1>5. /\ OnlyOwn(i) /\ byID' = byID /\ i \in byID /\ sess'[i] \in Session
      /\ sess'[i].state = Failed /\ Like(sess'[i], sess[i])
  BY <1>0, <1>4, MarkKeeps
<1>6. PICK o \in {"blocked", "error"} : o = IF job[p].out = "blocked" THEN job[p].out ELSE "error"
  OBVIOUS
<1>7. job' = [job EXCEPT ![p].pc = "unlock", ![p].out = o]
  BY <1>0, <1>6 DEF markFailed, Job
<1>8. /\ Moved(p, "unlock") /\ job'[p].c = job[p].c
      /\ job'[p].expired = job[p].expired /\ job'[p].out = o
  BY <1>0, <1>7, OutMoves
<1>9. Goes(p, "fail", "unlock") /\ Honest(p)
  BY <1>0, <1>2, <1>8 DEF Goes, Honest
<1>10. Marks(p, "fail", "unlock", Failed)
  BY <1>0, <1>1, <1>5, <1>9 DEF Marks, KernelKept, envVars
<1> QED BY <1>9, <1>10 DEF Does, Deed, Proceeds

\* An attach names its IMSI and APN, and so does every session that stems from one.
LEMMA StemNames ==
  ASSUME Orderly(setup), NEW s, Stems(s)
  PROVE  s.imsi # None /\ s.apn # None
<1> PICK q \in Proc : \E e \in setup.events[q] :
        e.kind = "attach" /\ e.imsi = s.imsi /\ e.mac = s.mac /\ e.apn = s.apn
  BY DEF Stems
<1>1. PICK e \in setup.events[q] :
        e.kind = "attach" /\ e.imsi = s.imsi /\ e.mac = s.mac /\ e.apn = s.apn
  OBVIOUS
<1>2. e \in {f \in UNION {setup.events[q2] : q2 \in Proc} : f.kind = "attach"}
  BY <1>1
<1> QED BY <1>1, <1>2 DEF Orderly

\* The lock key of a subscriber with an IMSI tells its IMSI and its APN.
LEMMA KeyTells ==
  ASSUME NEW s, NEW e, KeyOf(s) = KeyOf(e), s.imsi # None
  PROVE  e.imsi = s.imsi /\ e.apn = s.apn
BY DEF KeyOf, subscriberLockKey

\* ApplyAuthResult is granted, and the session keeps its subscriber.
LEMMA AuthorizeDoes ==
  ASSUME LInv, Control, Orderly(setup), NEW p \in Proc, applyAuthResult(p)
  PROVE  Does(p)
<1>0. /\ job[p].pc = "authorize" /\ "authorize" \in Mind /\ "pgw_pending" \in Mind
      /\ "pgw_pending" \in Label /\ "authorize" \in Early /\ "authorize" # "terminate"
      /\ UNCHANGED envVars /\ job \in [Proc -> Job]
  BY LabelsOfDeeds, MindFacts, Types DEF applyAuthResult, At, Early
<1>1. PICK i : i = job[p].id
  OBVIOUS
<1>2. /\ i \in byID /\ i \in 1..next /\ sess[i].state = AuthPending
      /\ KeyOf(sess[i]) = KeyOf(job[p].ev)
  BY <1>0, <1>1, WorksAt, StateTable
<1>3. CanTransition(i, Authorized)
  BY <1>2, NextStates DEF CanTransition
<1>4. /\ ApplyAuthResult(i, job[p].ev.imsi, job[p].ev.apn)
      /\ GotoWith(p, "pgw_pending", sess'[job[p].id])
  BY <1>1, <1>3 DEF applyAuthResult
<1>5. Stems(sess[i])
  BY <1>2 DEF Control, Stemming
<1>6. sess[i].imsi # None /\ sess[i].apn # None
  BY <1>5, StemNames
<1>7. job[p].ev.imsi = sess[i].imsi /\ job[p].ev.apn = sess[i].apn
  BY <1>2, <1>6, KeyTells
<1> DEFINE u == [sess[i] EXCEPT !.imsi = sess[i].imsi, !.apn = sess[i].apn,
                                !.authorized = TRUE, !.state = Authorized]
<1>8. sess' = [sess EXCEPT ![i] = u] /\ next' = next /\ byID' = byID
  BY <1>4, <1>6, <1>7 DEF ApplyAuthResult, Coalesce
<1>9. sess \in [1..next -> Session] /\ sess[i] \in Session
  BY <1>2, Types
<1>10. u \in Session /\ u.state = Authorized /\ Like(u, sess[i])
  BY <1>9 DEF Session, State, Authorized, Like
<1> HIDE DEF u
<1>11. sess'[i] = u /\ \A j \in 1..next : j # i => sess'[j] = sess[j]
  BY <1>2, <1>8, <1>9
<1>12. OnlyOwn(i)
  BY <1>8, <1>11 DEF OnlyOwn, Like
<1>13. GotoWith(p, "pgw_pending", u)
  BY <1>1, <1>4, <1>11
<1>14. /\ Moved(p, "pgw_pending") /\ job'[p].c = u /\ job'[p].bearer = job[p].bearer
       /\ job'[p].expired = job[p].expired /\ job'[p].out = job[p].out
  BY <1>0, <1>10, <1>13, GotoWithMoves
<1>15. Goes(p, "authorize", "pgw_pending") /\ Honest(p)
  BY <1>0, <1>1, <1>11, <1>14, GoesWith DEF Honest
<1>16. Marks(p, "authorize", "pgw_pending", Authorized)
  BY <1>0, <1>1, <1>2, <1>8, <1>10, <1>11, <1>12, <1>15 DEF Marks, KernelKept, envVars
<1> QED BY <1>15, <1>16 DEF Does, Deed, Proceeds

\* A session in the table has not ended.
LEMMA StoredLives ==
  ASSUME LInv, Control, NEW i \in byID
  PROVE  sess[i].state # Terminated
<1>1. CASE \A q \in Proc : ~Minds(q, i)
  BY <1>1, AtRest DEF Settled, Active, Failed, Terminated
<1>2. CASE \E q \in Proc : Minds(q, i)
  <2>1. PICK q \in Proc : Minds(q, i)
    BY <1>2
  <2>2. PICK l \in Mind : l = job[q].pc
    BY <2>1 DEF Minds
  <2>3. sess[i].state \in StatesAt(l)
    BY <2>1, <2>2, WorksAt DEF Minds
  <2> QED BY <2>3 DEF StatesAt, Pending, AuthPending, Authorized, PGWPending, Active, Recovering,
          Terminating, Terminated, Failed
<1> QED BY <1>1, <1>2

\* findLiveSessionDifferentFrom: when it finds none by IMSI and APN there is none.
LEMMA FindLiveDoes ==
  ASSUME LInv, Control, Orderly(setup), NEW p \in Proc, findLiveSessionDifferentFrom(p)
  PROVE  Does(p)
<1>0. /\ UNCHANGED mgrVars /\ UNCHANGED envVars /\ job \in [Proc -> Job]
      /\ {"check_imsi", "check_mac", "pgw_create", "fail"} \subseteq Mind
      /\ {"check_imsi", "check_mac", "pgw_create", "fail"} \subseteq Label
  BY LabelsOfDeeds, MindFacts, Types DEF findLiveSessionDifferentFrom, findLiveSession, Early
<1>1. PICK i : i = job[p].id
  OBVIOUS
<1>2. ASSUME NEW l \in {"check_imsi", "check_mac"}, job[p].pc = l,
             job' = [job EXCEPT ![p].pc = "fail", ![p].out = "blocked"]
      PROVE  Walks(p, l, "fail") /\ Honest(p)
  <2>1. /\ Moved(p, "fail") /\ job'[p].c = job[p].c
        /\ job'[p].expired = job[p].expired /\ job'[p].out = "blocked"
    BY <1>0, <1>2, OutMoves
  <2>2. Goes(p, l, "fail") /\ StoreKept
    BY <1>0, <1>2, <2>1, GoesOn
  <2> QED BY <1>0, <2>1, <2>2 DEF Walks, KernelKept, envVars, Honest
<1>3. ASSUME NEW l \in {"check_imsi", "check_mac"}, NEW l2 \in {"check_mac", "pgw_create"},
             job[p].pc = l, Goto(p, l2)
      PROVE  Walks(p, l, l2) /\ Honest(p)
  <2>1. /\ Moved(p, l2) /\ job'[p].c = job[p].c /\ job'[p].bearer = job[p].bearer
        /\ job'[p].expired = job[p].expired /\ job'[p].out = job[p].out
    BY <1>0, <1>3, GotoMoves
  <2>2. Goes(p, l, l2) /\ StoreKept
    BY <1>0, <1>3, <2>1, GoesOn
  <2> QED BY <1>0, <2>1, <2>2 DEF Walks, KernelKept, envVars, Honest
<1>4. ASSUME findLiveSession(p, "check_imsi", FindByIMSIAPN(job[p].c.imsi, job[p].c.apn), "check_mac"),
             Goto(p, "check_mac"),
             ~\E k \in FindByIMSIAPN(job[p].c.imsi, job[p].c.apn) :
                 /\ k # job[p].id /\ isLivePGWOwner(sess[k].state)
                 /\ subscriberSame(sess[k], job[p].c)
      PROVE  NoOther(i)
  <2>1. job[p].pc = "check_imsi"
    BY <1>4 DEF findLiveSession, At
  <2>2. i \in 1..next /\ Like(job[p].c, sess[i])
    BY <1>0, <1>1, <2>1, WorksAt
  <2> SUFFICES ASSUME NEW k \in byID, k # i, Sub(sess[k]) = Sub(sess[i])
               PROVE  sess[k].state = Failed
    BY DEF NoOther
  <2>3. k \in 1..next /\ sess[k].state \in State
    BY Types DEF Session
  <2>4. sess[k].imsi = sess[i].imsi /\ sess[k].apn = sess[i].apn
    BY DEF Sub
  <2>5. sess[k].mac = sess[i].mac /\ sess[k].imsi # None
    <3>1. Stems(sess[k]) /\ Stemming
      BY <2>3 DEF Control, Stemming
    <3> QED BY <2>2, <2>3, <3>1, SubTells, StemNames
  <2>6. k \in FindByIMSIAPN(job[p].c.imsi, job[p].c.apn)
    BY <2>2, <2>4 DEF FindByIMSIAPN, Like
  <2>7. subscriberSame(sess[k], job[p].c)
    BY <2>2, <2>4, <2>5 DEF subscriberSame, Like
  <2>8. ~isLivePGWOwner(sess[k].state)
    BY <1>1, <1>4, <2>6, <2>7
  <2>9. sess[k].state # Terminated
    BY StoredLives
  <2> QED BY <2>3, <2>8, <2>9 DEF isLivePGWOwner, State
<1>5. CASE findLiveSession(p, "check_imsi", FindByIMSIAPN(job[p].c.imsi, job[p].c.apn), "check_mac")
  <2>1. job[p].pc = "check_imsi"
    BY <1>5 DEF findLiveSession, At
  <2>2. \/ job' = [job EXCEPT ![p].pc = "fail", ![p].out = "blocked"]
        \/ Goto(p, "check_mac") /\ NoOther(i)
    BY <1>4, <1>5 DEF findLiveSession
  <2>3. \/ Walks(p, "check_imsi", "fail") /\ Honest(p)
        \/ Walks(p, "check_imsi", "check_mac") /\ Honest(p) /\ NoOther(i)
    BY <1>2, <1>3, <2>1, <2>2
  <2> QED BY <1>1, <2>3 DEF Does, Deed, Passes
<1>6. CASE findLiveSession(p, "check_mac", FindByMAC(job[p].c.mac), "pgw_create")
  <2>1. job[p].pc = "check_mac"
    BY <1>6 DEF findLiveSession, At
  <2>2. \/ job' = [job EXCEPT ![p].pc = "fail", ![p].out = "blocked"]
        \/ Goto(p, "pgw_create")
    BY <1>6 DEF findLiveSession
  <2>3. \/ Walks(p, "check_mac", "fail") /\ Honest(p)
        \/ Walks(p, "check_mac", "pgw_create") /\ Honest(p)
    BY <1>2, <1>3, <2>1, <2>2
  <2> QED BY <2>3 DEF Does, Deed, Passes
<1> QED BY <1>5, <1>6 DEF findLiveSessionDifferentFrom

\* pgw.CreateSession is answered or refused.
LEMMA CreateDoes ==
  ASSUME LInv, Control, Orderly(setup), NEW p \in Proc, pgwCreateSession(p)
  PROVE  Does(p)
<1>0. /\ job[p].pc = "pgw_create" /\ "pgw_create" \in Mind /\ {"fail", "update_ip"} \subseteq Label
      /\ UNCHANGED mgrVars /\ KernelKept /\ job \in [Proc -> Job] /\ "lost_create" \notin setup.faults
  BY LabelsOfDeeds, MindFacts, Types
  DEF pgwCreateSession, At, Early, Label, KernelKept, Orderly
<1>1. PICK i : i = job[p].id
  OBVIOUS
<1>2. i \in byID /\ Like(job[p].c, sess[i])
  BY <1>0, <1>1, WorksAt
<1>3. ASSUME NEW ip \in OrNone(IP), NEW teid \in TEID, PGWAccepts(job[p].c, ip, teid),
             job' = [job EXCEPT ![p].pc = "update_ip", ![p].ip = ip, ![p].bearer = Answer(teid)]
      PROVE  Asks(p) /\ Honest(p)
  <2>1. PICK b \in PGWBearer : b = Answer(teid)
    BY DEF Answer, PGWBearer, OrNone
  <2>2. Hears(p, ip, b)
    BY <1>3, <2>1 DEF Hears
  <2>3. /\ Moved(p, "update_ip") /\ job'[p].bearer = b /\ job'[p].then = job[p].then
        /\ job'[p].ip = ip /\ job'[p].c = job[p].c
        /\ job'[p].expired = job[p].expired /\ job'[p].out = job[p].out
    BY <1>0, <2>2, AnswerMoves
  <2>4. Goes(p, "pgw_create", "update_ip") /\ StoreKept
    BY <1>0, <2>3, GoesOn
  <2>5. Sub(job[p].c) = Sub(sess[i])
    BY <1>2 DEF Like, Sub
  <2>6. PGWAccepts(sess[i], ip, teid)
    BY <1>3, <2>5 DEF PGWAccepts
  <2> QED BY <1>0, <1>1, <2>1, <2>3, <2>4, <2>6 DEF Asks, Honest
<1>4. ASSUME Goto(p, "fail"), ctx' = ctx
      PROVE  Walks(p, "pgw_create", "fail") /\ Honest(p)
  <2>1. /\ Moved(p, "fail") /\ job'[p].c = job[p].c /\ job'[p].bearer = job[p].bearer
        /\ job'[p].expired = job[p].expired /\ job'[p].out = job[p].out
    BY <1>0, <1>4, GotoMoves
  <2>2. Goes(p, "pgw_create", "fail") /\ StoreKept
    BY <1>0, <2>1, GoesOn
  <2> QED BY <1>0, <1>4, <2>1, <2>2 DEF Walks, Honest
<1>5. \/ \E ip \in OrNone(IP), teid \in TEID :
           /\ PGWAccepts(job[p].c, ip, teid)
           /\ job' = [job EXCEPT ![p].pc = "update_ip", ![p].ip = ip, ![p].bearer = Answer(teid)]
      \/ Goto(p, "fail") /\ ctx' = ctx
  BY <1>0 DEF pgwCreateSession, OrNone
<1>6. (Asks(p) /\ Honest(p)) \/ (Walks(p, "pgw_create", "fail") /\ Honest(p))
  BY <1>3, <1>4, <1>5
<1> QED BY <1>6 DEF Does, Deed, Passes

\* UpdateSubscriberIP finds the session.
LEMMA UpdateIPDoes ==
  ASSUME LInv, Control, NEW p \in Proc, updateSubscriberIP(p)
  PROVE  Does(p)
<1>0. /\ job[p].pc = "update_ip" /\ "update_ip" \in Mind /\ "update_ip" \in Early
      /\ "apply_pgw" \in Label /\ UNCHANGED envVars /\ job \in [Proc -> Job]
      /\ job[p].ip \in OrNone(IP)
  BY LabelsOfDeeds, MindFacts, Types DEF updateSubscriberIP, At, Early, Job
<1>1. PICK i : i = job[p].id
  OBVIOUS
<1>2. i \in byID /\ i \in 1..next /\ sess[i].ip = None
  BY <1>0, <1>1, WorksAt
<1>3. ASSUME Goto(p, "apply_pgw"), UNCHANGED mgrVars, job[p].ip = None
      PROVE  Does(p)
  <2>1. /\ Moved(p, "apply_pgw") /\ job'[p].c = job[p].c /\ job'[p].bearer = job[p].bearer
        /\ job'[p].expired = job[p].expired /\ job'[p].out = job[p].out
    BY <1>0, <1>3, GotoMoves
  <2>2. Goes(p, "update_ip", "apply_pgw") /\ StoreKept /\ sess' = sess
    BY <1>0, <1>3, <2>1, GoesOn, Untouched
  <2>3. OnlyOwn(i) /\ byID' = byID
    BY <2>2 DEF OnlyOwn, StoreKept
  <2>4. Addresses(p) /\ Honest(p)
    BY <1>0, <1>1, <1>2, <1>3, <2>1, <2>2, <2>3 DEF Addresses, KernelKept, envVars, Honest
  <2> QED BY <2>4 DEF Does, Deed
<1>4. ASSUME UpdateSubscriberIP(i, job[p].ip), GotoWith(p, "apply_pgw", sess'[job[p].id])
      PROVE  Does(p)
  <2>1. /\ next' = next /\ byID' = byID /\ sess' = [sess EXCEPT ![i].ip = job[p].ip]
        /\ sess \in [1..next -> Session]
    BY <1>4, Types DEF UpdateSubscriberIP
  <2>2. /\ sess'[i] = [sess[i] EXCEPT !.ip = job[p].ip] /\ sess[i] \in Session
        /\ \A j \in 1..next : j # i => sess'[j] = sess[j]
    BY <1>2, <2>1
  <2>3. /\ sess'[i] \in Session /\ sess'[i].state = sess[i].state /\ sess'[i].imsi = sess[i].imsi
        /\ sess'[i].mac = sess[i].mac /\ sess'[i].apn = sess[i].apn /\ sess'[i].ip = job[p].ip
    BY <1>0, <2>2 DEF Session
  <2>4. PICK s \in Session : s = sess'[i]
    BY <2>3
  <2>5. GotoWith(p, "apply_pgw", s)
    BY <1>1, <1>4, <2>4
  <2>6. /\ Moved(p, "apply_pgw") /\ job'[p].c = s /\ job'[p].bearer = job[p].bearer
        /\ job'[p].expired = job[p].expired /\ job'[p].out = job[p].out
    BY <1>0, <2>5, GotoWithMoves
  <2>7. Goes(p, "update_ip", "apply_pgw")
    BY <1>0, <1>1, <2>4, <2>6, GoesWith
  <2>8. OnlyOwn(i)
    BY <2>1, <2>2 DEF OnlyOwn, Like
  <2>9. Addresses(p) /\ Honest(p)
    BY <1>0, <1>1, <2>1, <2>3, <2>6, <2>7, <2>8 DEF Addresses, KernelKept, envVars, Honest
  <2> QED BY <2>9 DEF Does, Deed
<1> QED BY <1>1, <1>2, <1>3, <1>4 DEF updateSubscriberIP

\* ApplyPGWResult finds the session.
LEMMA ApplyPGWDoes ==
  ASSUME LInv, Control, NEW p \in Proc, applyPGWResult(p)
  PROVE  Does(p)
<1>0. /\ job[p].pc = "apply_pgw" /\ "apply_pgw" \in Mind /\ "undo_pgw" \in Label
      /\ "install" \in Label /\ UNCHANGED envVars /\ job \in [Proc -> Job]
      /\ job[p].bearer \in PGWBearer
  BY LabelsOfDeeds, MindFacts, Types DEF applyPGWResult, At, Job
<1>1. PICK i : i = job[p].id
  OBVIOUS
<1>2. i \in byID /\ i \in 1..next
  BY <1>0, <1>1, WorksAt
<1>3. /\ ApplyPGWResult(i, job[p].bearer)
      /\ GotoWith(p, IF sess'[job[p].id].ip = None THEN "undo_pgw" ELSE "install",
                  sess'[job[p].id])
  BY <1>1, <1>2 DEF applyPGWResult
<1>4. /\ next' = next /\ byID' = byID /\ sess \in [1..next -> Session]
      /\ sess' = [sess EXCEPT ![i].gtpc = job[p].bearer.gtpc, ![i].gtpu = job[p].bearer.gtpu]
  BY <1>3, Types DEF ApplyPGWResult
<1>5. /\ sess'[i] = [sess[i] EXCEPT !.gtpc = job[p].bearer.gtpc, !.gtpu = job[p].bearer.gtpu]
      /\ sess[i] \in Session /\ \A j \in 1..next : j # i => sess'[j] = sess[j]
  BY <1>2, <1>4
<1>6. /\ sess'[i] \in Session /\ sess'[i].state = sess[i].state /\ sess'[i].imsi = sess[i].imsi
      /\ sess'[i].mac = sess[i].mac /\ sess'[i].apn = sess[i].apn /\ sess'[i].ip = sess[i].ip
      /\ sess'[i].gtpc = job[p].bearer.gtpc /\ sess'[i].gtpu = job[p].bearer.gtpu
  BY <1>0, <1>5 DEF Session, PGWBearer
<1>7. PICK s \in Session : s = sess'[i]
  BY <1>6
<1>8. PICK l2 \in {"undo_pgw", "install"} : l2 = IF s.ip = None THEN "undo_pgw" ELSE "install"
  OBVIOUS
<1>9. GotoWith(p, l2, s)
  BY <1>1, <1>3, <1>7, <1>8
<1>10. /\ Moved(p, l2) /\ job'[p].c = s /\ job'[p].bearer = job[p].bearer
       /\ job'[p].expired = job[p].expired /\ job'[p].out = job[p].out
  BY <1>0, <1>9, GotoWithMoves
<1>11. Goes(p, "apply_pgw", l2)
  BY <1>0, <1>1, <1>7, <1>10, GoesWith
<1>12. OnlyOwn(i)
  BY <1>4, <1>5 DEF OnlyOwn, Like
<1>13. \/ sess[i].ip # None /\ Goes(p, "apply_pgw", "install")
       \/ sess[i].ip = None /\ Goes(p, "apply_pgw", "undo_pgw")
  BY <1>6, <1>7, <1>8, <1>11
<1>14. Binds(p)
  BY <1>0, <1>1, <1>4, <1>6, <1>12, <1>13 DEF Binds, KernelKept, envVars
<1>15. Honest(p)
  BY <1>10 DEF Honest
<1> QED BY <1>14, <1>15 DEF Does, Deed

\* A goroutine that goes on with the copy it has and leaves the store alone.
LEMMA GotoDoes ==
  ASSUME LInv, Control, NEW p \in Proc, NEW l \in Mind, NEW l2 \in Label, job[p].pc = l,
         Goto(p, l2), UNCHANGED mgrVars, l # "terminate", NEW i, i = job[p].id
  PROVE  /\ Goes(p, l, l2) /\ StoreKept /\ Honest(p) /\ ~job[p].expired
         /\ i \in byID /\ Like(job[p].c, sess[i])
<1>1. job \in [Proc -> Job]
  BY Types
<1>2. /\ Moved(p, l2) /\ job'[p].c = job[p].c /\ job'[p].bearer = job[p].bearer
      /\ job'[p].expired = job[p].expired /\ job'[p].out = job[p].out
  BY <1>1, GotoMoves
<1>3. Goes(p, l, l2) /\ StoreKept
  BY <1>2, GoesOn
<1>4. Honest(p)
  BY <1>2 DEF Honest
<1> QED BY <1>3, <1>4, WorksAt

\* routing.Install.
LEMMA InstallDoes ==
  ASSUME LInv, Control, NEW p \in Proc, routingInstall(p)
  PROVE  Does(p)
<1>0. /\ job[p].pc = "install" /\ UNCHANGED mgrVars /\ UNCHANGED <<ctx, rule, pdp, neigh>>
  BY DEF routingInstall, At
<1>1. PICK i : i = job[p].id
  OBVIOUS
<1>2. PICK l \in Mind : l = "install"
  BY LabelsOfDeeds
<1>3. ASSUME Goto(p, "user_add"), route' = route \cup {job[p].c.ip}
      PROVE  Does(p)
  <2>1. PICK l2 \in Label : l2 = "user_add"
    BY LabelsOfDeeds, MindFacts
  <2>2. /\ Goes(p, l, l2) /\ StoreKept /\ Honest(p) /\ ~job[p].expired
        /\ i \in byID /\ Like(job[p].c, sess[i])
    BY <1>0, <1>1, <1>2, <1>3, <2>1, GotoDoes
  <2>3. AddsRoute(p)
    BY <1>0, <1>1, <1>2, <1>3, <2>1, <2>2 DEF AddsRoute, Like
  <2> QED BY <2>2, <2>3 DEF Does, Deed
<1>4. ASSUME Goto(p, "undo_pgw"), route' = route
      PROVE  Does(p)
  <2>1. PICK l2 \in Label : l2 = "undo_pgw"
    BY LabelsOfDeeds, MindFacts
  <2>2. /\ Goes(p, l, l2) /\ StoreKept /\ Honest(p) /\ ~job[p].expired
        /\ i \in byID /\ Like(job[p].c, sess[i])
    BY <1>0, <1>1, <1>2, <1>4, <2>1, GotoDoes
  <2>3. Walks(p, "install", "undo_pgw")
    BY <1>0, <1>2, <1>4, <2>1, <2>2 DEF Walks, KernelKept
  <2> QED BY <2>2, <2>3 DEF Does, Deed, Passes
<1> QED BY <1>3, <1>4 DEF routingInstall

\* user.AddSession.
LEMMA UserAddDoes ==
  ASSUME LInv, Control, NEW p \in Proc, userAddSession(p)
  PROVE  Does(p)
<1>0. /\ job[p].pc = "user_add" /\ UNCHANGED mgrVars /\ UNCHANGED <<ctx, route, neigh>>
  BY DEF userAddSession, At
<1>1. PICK i : i = job[p].id
  OBVIOUS
<1>2. PICK l \in Mind : l = "user_add"
  BY LabelsOfDeeds
<1>3. ASSUME Goto(p, "mark_active"), rule' = rule \cup {job[p].c.ip},
             pdp' = [pdp EXCEPT ![job[p].c.ip] = IF @ = NoSession THEN job[p].id ELSE @]
      PROVE  Does(p)
  <2>1. PICK l2 \in Label : l2 = "mark_active"
    BY LabelsOfDeeds, MindFacts
  <2>2. /\ Goes(p, l, l2) /\ StoreKept /\ Honest(p) /\ ~job[p].expired
        /\ i \in byID /\ Like(job[p].c, sess[i])
    BY <1>0, <1>1, <1>2, <1>3, <2>1, GotoDoes
  <2>3. job[p].c.ip = sess[job[p].id].ip
    BY <1>1, <2>2 DEF Like
  <2>4. AddsUser(p)
    BY <1>0, <1>2, <1>3, <2>1, <2>2, <2>3 DEF AddsUser
  <2> QED BY <2>2, <2>4 DEF Does, Deed
<1>4. ASSUME Goto(p, "undo_route"), UNCHANGED <<pdp, rule>>
      PROVE  Does(p)
  <2>1. PICK l2 \in Label : l2 = "undo_route"
    BY LabelsOfDeeds, MindFacts
  <2>2. /\ Goes(p, l, l2) /\ StoreKept /\ Honest(p) /\ ~job[p].expired
        /\ i \in byID /\ Like(job[p].c, sess[i])
    BY <1>0, <1>1, <1>2, <1>4, <2>1, GotoDoes
  <2>3. Walks(p, "user_add", "undo_route")
    BY <1>0, <1>2, <1>4, <2>1, <2>2 DEF Walks, KernelKept
  <2> QED BY <2>2, <2>3 DEF Does, Deed, Passes
<1> QED BY <1>3, <1>4 DEF userAddSession

\* access.AddSession.
LEMMA AccessAddDoes ==
  ASSUME LInv, Control, NEW p \in Proc, accessAddSession(p)
  PROVE  Does(p)
<1>0. /\ job[p].pc = "access_add" /\ UNCHANGED mgrVars /\ UNCHANGED <<ctx, route, rule, pdp>>
  BY DEF accessAddSession, At
<1>1. PICK i : i = job[p].id
  OBVIOUS
<1>2. PICK l \in Mind : l = "access_add"
  BY LabelsOfDeeds
<1>3. ASSUME Goto(p, "validate"),
             neigh' = IF job[p].c.mac = None THEN neigh
                      ELSE [neigh EXCEPT ![job[p].c.ip] = job[p].c.mac]
      PROVE  Does(p)
  <2>1. PICK l2 \in Label : l2 = "validate"
    BY LabelsOfDeeds, MindFacts
  <2>2. /\ Goes(p, l, l2) /\ StoreKept /\ Honest(p) /\ ~job[p].expired
        /\ i \in byID /\ Like(job[p].c, sess[i])
    BY <1>0, <1>1, <1>2, <1>3, <2>1, GotoDoes
  <2>3. job[p].c.ip = sess[job[p].id].ip /\ job[p].c.mac = sess[job[p].id].mac
    BY <1>1, <2>2 DEF Like
  <2>4. AddsNeighbour(p)
    BY <1>0, <1>2, <1>3, <2>1, <2>2, <2>3 DEF AddsNeighbour
  <2> QED BY <2>2, <2>4 DEF Does, Deed
<1>4. ASSUME Goto(p, "undo_user"), neigh' = neigh
      PROVE  Does(p)
  <2>1. PICK l2 \in Label : l2 = "undo_user"
    BY LabelsOfDeeds, MindFacts
  <2>2. /\ Goes(p, l, l2) /\ StoreKept /\ Honest(p) /\ ~job[p].expired
        /\ i \in byID /\ Like(job[p].c, sess[i])
    BY <1>0, <1>1, <1>2, <1>4, <2>1, GotoDoes
  <2>3. Walks(p, "access_add", "undo_user")
    BY <1>0, <1>2, <1>4, <2>1, <2>2 DEF Walks, KernelKept
  <2> QED BY <2>2, <2>3 DEF Does, Deed, Passes
<1> QED BY <1>3, <1>4 DEF accessAddSession

\* validatePostActivation.
LEMMA ValidateDoes ==
  ASSUME LInv, Control, NEW p \in Proc, validatePostActivation(p)
  PROVE  Does(p)
<1>0. /\ job[p].pc = "validate" /\ UNCHANGED mgrVars /\ UNCHANGED envVars
      /\ "validate" \in Mind /\ job \in [Proc -> Job] /\ "unlock" \in Label /\ "terminate" \in Label
      /\ ctx' = ctx /\ KernelKept
  BY LabelsOfDeeds, MindFacts, Types DEF validatePostActivation, At, KernelKept, envVars
<1>1. CASE job' = [job EXCEPT ![p].pc = "unlock", ![p].out = "accept"]
  <2>1. /\ Moved(p, "unlock") /\ job'[p].c = job[p].c
        /\ job'[p].expired = job[p].expired /\ job'[p].out = "accept"
    BY <1>0, <1>1, OutMoves
  <2>2. Goes(p, "validate", "unlock") /\ StoreKept
    BY <1>0, <2>1, GoesOn
  <2>3. Walks(p, "validate", "unlock") /\ Accepts(p)
    BY <1>0, <2>2 DEF Walks, Accepts
  <2> QED BY <2>3 DEF Does, Deed, Passes, Honest
<1>2. CASE job' = [job EXCEPT ![p].pc = "terminate", ![p].then = "unlock", ![p].out = "error"]
  <2>1. /\ Moved(p, "terminate") /\ job'[p].c = job[p].c
        /\ job'[p].expired = job[p].expired /\ job'[p].out = "error"
    BY <1>0, <1>2, ThenOutMoves
  <2>2. Goes(p, "validate", "terminate") /\ StoreKept
    BY <1>0, <2>1, GoesOn
  <2>3. Walks(p, "validate", "terminate")
    BY <1>0, <2>2 DEF Walks
  <2> QED BY <2>1, <2>3 DEF Does, Deed, Passes, Honest
<1> QED BY <1>1, <1>2 DEF validatePostActivation

\* The rollback of an attach.
LEMMA UndoDoes ==
  ASSUME LInv, Control, Orderly(setup), NEW p \in Proc, undoUser(p) \/ undoRoute(p) \/ undoPGW(p)
  PROVE  Does(p)
<1>0. /\ UNCHANGED mgrVars /\ setup.faults \cap {"reject_delete", "lost_delete"} = {}
  BY DEF undoUser, undoRoute, undoPGW, Orderly
<1>1. PICK i : i = job[p].id
  OBVIOUS
<1>2. CASE undoUser(p)
  <2>1. PICK l \in Mind, l2 \in Label : l = "undo_user" /\ l2 = "undo_route"
    BY LabelsOfDeeds, MindFacts
  <2>2. /\ job[p].pc = l /\ Goto(p, l2) /\ UNCHANGED <<ctx, route, neigh>>
        /\ job[p].expired \/ UserRemove(job[p].c, job[p].id)
    BY <1>2, <2>1 DEF undoUser, At
  <2>3. /\ Goes(p, l, l2) /\ StoreKept /\ Honest(p) /\ ~job[p].expired
        /\ i \in byID /\ Like(job[p].c, sess[i])
    BY <1>0, <1>1, <2>1, <2>2, GotoDoes
  <2>4. UserRemove(sess[i], i)
    BY <1>1, <2>2, <2>3 DEF UserRemove, Like
  <2>5. DropsUser(p)
    BY <1>1, <2>1, <2>2, <2>3, <2>4 DEF DropsUser
  <2> QED BY <2>3, <2>5 DEF Does, Deed
<1>3. CASE undoRoute(p)
  <2>1. PICK l \in Mind, l2 \in Label : l = "undo_route" /\ l2 = "undo_pgw"
    BY LabelsOfDeeds, MindFacts
  <2>2. /\ job[p].pc = l /\ Goto(p, l2) /\ UNCHANGED <<ctx, rule, pdp, neigh>>
        /\ RouteRemove(job[p].c)
    BY <1>3, <2>1 DEF undoRoute, At
  <2>3. /\ Goes(p, l, l2) /\ StoreKept /\ Honest(p) /\ ~job[p].expired
        /\ i \in byID /\ Like(job[p].c, sess[i])
    BY <1>0, <1>1, <2>1, <2>2, GotoDoes
  <2>4. RouteRemove(sess[i])
    BY <2>2, <2>3 DEF RouteRemove, Like
  <2>5. DropsRoute(p)
    BY <1>1, <2>1, <2>2, <2>3, <2>4 DEF DropsRoute
  <2> QED BY <2>3, <2>5 DEF Does, Deed
<1>4. CASE undoPGW(p)
  <2>1. PICK l \in Mind, l2 \in Label : l = "undo_pgw" /\ l2 = "fail"
    BY LabelsOfDeeds, MindFacts
  <2>2. job[p].pc = l /\ UNCHANGED <<route, rule, pdp, neigh>>
    BY <1>4, <2>1 DEF undoPGW, At
  <2>3. ~job[p].expired
    BY <1>1, <2>2, WorksAt
  <2>4. PGWDelete(job[p].c.gtpc) /\ Goto(p, l2)
    BY <1>0, <1>4, <2>1, <2>3 DEF undoPGW
  <2>5. /\ Goes(p, l, l2) /\ StoreKept /\ Honest(p) /\ ~job[p].expired
        /\ i \in byID /\ Like(job[p].c, sess[i])
    BY <1>0, <1>1, <2>1, <2>2, <2>4, GotoDoes
  <2>6. PGWDelete(sess[i].gtpc)
    BY <2>4, <2>5 DEF Like
  <2>7. DropsContext(p)
    BY <1>1, <2>1, <2>2, <2>5, <2>6 DEF DropsContext, KernelKept
  <2> QED BY <2>5, <2>7 DEF Does, Deed
<1> QED BY <1>2, <1>3, <1>4

\* A step of a detach goes on to the next, whether it failed or not.
LEMMA ErrDoes ==
  ASSUME LInv, Control, NEW p \in Proc, NEW l \in Mind, NEW l2 \in Label, job[p].pc = l,
         NEW e \in BOOLEAN, job' = [job EXCEPT ![p].pc = l2, ![p].err = e], UNCHANGED mgrVars,
         l # "terminate", NEW i, i = job[p].id
  PROVE  /\ Goes(p, l, l2) /\ StoreKept /\ Honest(p) /\ ~job[p].expired
         /\ i \in byID /\ Like(job[p].c, sess[i])
<1>1. job \in [Proc -> Job]
  BY Types
<1>2. /\ Moved(p, l2) /\ job'[p].c = job[p].c
      /\ job'[p].expired = job[p].expired /\ job'[p].out = job[p].out
  BY <1>1, ErrMoves
<1>3. Goes(p, l, l2) /\ StoreKept
  BY <1>2, GoesOn
<1>4. Honest(p)
  BY <1>2 DEF Honest
<1> QED BY <1>3, <1>4, WorksAt

\* A session that is going to be deleted at the PGW has its context there.
LEMMA HasContext ==
  ASSUME LInv, Control, Contexts, NEW p \in Proc, job[p].pc = "del_pgw", NEW i, i = job[p].id
  PROVE  sess[i].gtpc # None
<1>1. "del_pgw" \in Mind /\ "del_pgw" # "terminate"
  BY LabelsOfDeeds
<1>2. i \in byID /\ sess[i].state = Terminating /\ Minds(p, i)
  BY <1>1, WorksAt, StateTable
<1>3. \A q \in Proc : Minds(q, i) => q = p
  BY <1>2, OneMinder
<1>4. Has(i, Full)
  BY <1>2, <1>3 DEF Has, StageIn, Full, Torn, Terminating, Failed
<1>5. CtxOf(i) \in Context
  BY <1>2, <1>4, Types DEF Contexts, Holds
<1>6. sess[i].gtpc \in TEID
  BY <1>5 DEF CtxOf, Context
<1> QED BY <1>6, NoneAssumption

\* pgw.DeleteSession is sent and accepted.
LEMMA DetachPGWDoes ==
  ASSUME LInv, Control, Contexts, Orderly(setup), NEW p \in Proc, detachPGW(p)
  PROVE  Does(p)
<1>0. /\ UNCHANGED mgrVars /\ UNCHANGED <<route, rule, pdp, neigh>> /\ job[p].pc = "del_pgw"
      /\ "reject_delete" \notin setup.faults /\ "lost_delete" \notin setup.faults
  BY DEF detachPGW, At, Orderly
<1>1. PICK i : i = job[p].id
  OBVIOUS
<1>2. PICK l \in Mind, l2 \in Label : l = "del_pgw" /\ l2 = "del_route"
  BY LabelsOfDeeds, MindFacts
<1>3. ~job[p].expired /\ Like(job[p].c, sess[i])
  BY <1>0, <1>1, <1>2, WorksAt
<1>4. job[p].c.gtpc = sess[i].gtpc /\ sess[i].gtpc # None
  BY <1>0, <1>1, <1>3, HasContext DEF Like
<1>5. job' = [job EXCEPT ![p].pc = l2, ![p].err = FALSE] /\ PGWDelete(sess[i].gtpc)
  BY <1>0, <1>2, <1>3, <1>4 DEF detachPGW
<1>6. PICK e \in BOOLEAN : e = FALSE
  OBVIOUS
<1>7. /\ Goes(p, l, l2) /\ StoreKept /\ Honest(p) /\ ~job[p].expired
      /\ i \in byID /\ Like(job[p].c, sess[i])
  BY <1>0, <1>1, <1>2, <1>5, <1>6, ErrDoes
<1>8. DropsContext(p)
  BY <1>0, <1>1, <1>2, <1>5, <1>7 DEF DropsContext, KernelKept
<1> QED BY <1>7, <1>8 DEF Does, Deed

\* The other steps of a detach.
LEMMA DetachDoes ==
  ASSUME LInv, Control, NEW p \in Proc, detachRoute(p) \/ detachUser(p) \/ detachAccess(p)
  PROVE  Does(p)
<1>0. /\ UNCHANGED mgrVars /\ job[p].pc \in {"del_route", "del_user", "del_access"}
      /\ job \in [Proc -> Job] /\ job[p].err \in BOOLEAN /\ job[p].expired \in BOOLEAN
  BY Types DEF detachRoute, detachUser, detachAccess, At, Job
<1>1. PICK i : i = job[p].id
  OBVIOUS
<1>2. CASE detachRoute(p)
  <2>1. PICK l \in Mind, l2 \in Label : l = "del_route" /\ l2 = "del_user"
    BY LabelsOfDeeds, MindFacts
  <2>2. job[p].pc = l /\ UNCHANGED <<ctx, rule, pdp, neigh>> /\ RouteRemove(job[p].c)
    BY <1>2, <2>1 DEF detachRoute, At
  <2>3. PICK e \in BOOLEAN : job' = [job EXCEPT ![p].pc = l2, ![p].err = e]
    BY <1>0, <1>2, <2>1 DEF detachRoute
  <2>4. /\ Goes(p, l, l2) /\ StoreKept /\ Honest(p) /\ ~job[p].expired
        /\ i \in byID /\ Like(job[p].c, sess[i])
    BY <1>0, <1>1, <2>1, <2>2, <2>3, ErrDoes
  <2>5. RouteRemove(sess[i])
    BY <2>2, <2>4 DEF RouteRemove, Like
  <2>6. DropsRoute(p)
    BY <1>1, <2>1, <2>2, <2>4, <2>5 DEF DropsRoute
  <2> QED BY <2>4, <2>6 DEF Does, Deed
<1>3. CASE detachUser(p)
  <2>1. PICK l \in Mind, l2 \in Label : l = "del_user" /\ l2 = "del_access"
    BY LabelsOfDeeds, MindFacts
  <2>2. /\ job[p].pc = l /\ UNCHANGED <<ctx, route, neigh>>
        /\ job[p].expired \/ UserRemove(job[p].c, job[p].id)
    BY <1>3, <2>1 DEF detachUser, At
  <2>3. PICK e \in BOOLEAN : job' = [job EXCEPT ![p].pc = l2, ![p].err = e]
    BY <1>0, <1>3, <2>1 DEF detachUser
  <2>4. /\ Goes(p, l, l2) /\ StoreKept /\ Honest(p) /\ ~job[p].expired
        /\ i \in byID /\ Like(job[p].c, sess[i])
    BY <1>0, <1>1, <2>1, <2>2, <2>3, ErrDoes
  <2>5. UserRemove(sess[i], i)
    BY <1>1, <2>2, <2>4 DEF UserRemove, Like
  <2>6. DropsUser(p)
    BY <1>1, <2>1, <2>2, <2>4, <2>5 DEF DropsUser
  <2> QED BY <2>4, <2>6 DEF Does, Deed
<1>4. CASE detachAccess(p)
  <2>1. PICK l \in Mind, l2 \in Label : l = "del_access" /\ l2 = "del_session"
    BY LabelsOfDeeds, MindFacts
  <2>2. /\ job[p].pc = l /\ UNCHANGED <<ctx, route, rule, pdp>>
        /\ neigh' = IF job[p].expired \/ job[p].c.ip = None \/ job[p].c.mac = None THEN neigh
                    ELSE [neigh EXCEPT ![job[p].c.ip] = None]
    BY <1>4, <2>1 DEF detachAccess, At
  <2>3. PICK e \in BOOLEAN : job' = [job EXCEPT ![p].pc = l2, ![p].err = e]
    BY <1>0, <1>4, <2>1 DEF detachAccess
  <2>4. /\ Goes(p, l, l2) /\ StoreKept /\ Honest(p) /\ ~job[p].expired
        /\ i \in byID /\ Like(job[p].c, sess[i])
    BY <1>0, <1>1, <2>1, <2>2, <2>3, ErrDoes
  <2>5. job[p].c.ip = sess[job[p].id].ip /\ job[p].c.mac = sess[job[p].id].mac
    BY <1>1, <2>4 DEF Like
  <2>6. DropsNeighbour(p)
    BY <2>1, <2>2, <2>4, <2>5 DEF DropsNeighbour
  <2> QED BY <2>4, <2>6 DEF Does, Deed
<1> QED BY <1>2, <1>3, <1>4

\* store.Delete at the end of a detach is granted.
LEMMA DeleteDoes ==
  ASSUME LInv, Control, NEW p \in Proc, deleteSession(p)
  PROVE  Does(p)
<1>0. /\ job[p].pc = "del_session" /\ "del_session" \in Mind /\ "del_session" # "terminate"
      /\ UNCHANGED envVars /\ Detached(p, job[p].err) /\ job[p].err \in BOOLEAN
      /\ "unlock" \notin Mind /\ "create" \notin Mind
  BY LabelsOfDeeds, MindFacts, Types DEF deleteSession, At, Job
<1>1. PICK i : i = job[p].id
  OBVIOUS
<1>2. i \in byID /\ i \in 1..next /\ sess[i].state = Terminating /\ ~job[p].expired
  BY <1>0, <1>1, WorksAt, StateTable
<1>3. Delete(i)
  BY <1>1, <1>2, NextStates DEF deleteSession, CanTransition
<1>4. /\ next' = next /\ byID' = byID \ {i} /\ sess' = [sess EXCEPT ![i].state = Terminated]
      /\ sess \in [1..next -> Session]
  BY <1>3, Types DEF Delete, UnindexAll, SetState
<1>5. /\ sess'[i] = [sess[i] EXCEPT !.state = Terminated] /\ sess[i] \in Session
      /\ \A j \in 1..next : j # i => sess'[j] = sess[j]
  BY <1>2, <1>4
<1>6. /\ sess'[i].imsi = sess[i].imsi /\ sess'[i].mac = sess[i].mac
      /\ sess'[i].apn = sess[i].apn /\ sess'[i].ip = sess[i].ip
  BY <1>5 DEF Session
<1>7. OnlyOwn(i)
  BY <1>4, <1>5 DEF OnlyOwn, Like
<1>8. /\ \/ Moved(p, "unlock")
         \/ Moved(p, "create") /\ job[p].then = "create"
      /\ job'[p].expired = job[p].expired /\ job'[p].out \in {job[p].out, "error"}
  BY <1>0, DetachedMoves
<1>9. \/ Goes(p, "del_session", "unlock")
      \/ Goes(p, "del_session", "create") /\ job[p].then = "create"
  BY <1>0, <1>2, <1>8 DEF Goes
<1>10. Removes(p)
  BY <1>0, <1>1, <1>4, <1>6, <1>7, <1>9 DEF Removes, KernelKept, envVars
<1>11. Honest(p)
  BY <1>8 DEF Honest
<1> QED BY <1>10, <1>11 DEF Does, Deed

\* store.Create.
LEMMA CreateSessionDoes ==
  ASSUME LInv, Control, NEW p \in Proc, createSession(p)
  PROVE  Does(p)
<1> DEFINE in == [imsi |-> job[p].ev.imsi, mac |-> job[p].ev.mac, apn |-> job[p].ev.apn,
                  ttl |-> FALSE]
<1>0. /\ job \in [Proc -> Job] /\ job[p].pc = "create" /\ UNCHANGED envVars
      /\ Create(in) /\ MgrTypeOK /\ Knows(p) /\ setup \in Setups /\ ~job[p].expired
  BY DEF LInv, LcTypeOK, createSession, At, Known, Control, Attends
<1>1. in \in Input
  BY <1>0, CallerAssumption DEF Knows
<1>2. MgrTypeOK'
  BY <1>0, <1>1, TypeStep DEF MgrNext
<1>3. /\ next \in Nat /\ next' = next + 1 /\ byID' = byID \cup {next + 1}
      /\ \A j \in 1..next : sess'[j] = sess[j]
  BY <1>0, <1>1, CreateFrame
<1>4. PICK n : n = next + 1
  OBVIOUS
<1>5. n \in Nat /\ n \in 1..next' /\ sess'[n] \in Session
  BY <1>2, <1>3, <1>4 DEF MgrTypeOK
<1>6. sess'[n] = NewSession(in)
  BY <1>0, <1>3, <1>4, <1>5 DEF Create
<1>7. /\ sess'[n].state = Pending /\ sess'[n].ip = None /\ sess'[n].imsi = job[p].ev.imsi
      /\ sess'[n].mac = job[p].ev.mac /\ sess'[n].apn = job[p].ev.apn
  BY <1>6 DEF NewSession
<1> HIDE DEF in
<1>8. PICK s \in Session : s = sess'[n]
  BY <1>5
<1>9. Takes(p, "auth_pending", n, s)
  BY <1>4, <1>8 DEF createSession, Takes
<1>10. /\ Turns(p) /\ job'[p].pc = "auth_pending" /\ job'[p].id = n /\ job'[p].c = s
       /\ job'[p].ev = job[p].ev /\ job'[p].key = job[p].key /\ job'[p].then = job[p].then
       /\ job'[p].expired = job[p].expired /\ job'[p].out = job[p].out
  <2>1. "auth_pending" \in Label
    BY DEF Label
  <2> QED BY <1>0, <1>5, <1>9, <2>1, TakesUp
<1>11. Adds(p)
  <2>1. Like(job'[p].c, sess'[next + 1])
    BY <1>4, <1>8, <1>10 DEF Like
  <2>2. ctx' = ctx /\ KernelKept
    BY <1>0 DEF envVars, KernelKept
  <2> QED BY <1>0, <1>3, <1>4, <1>7, <1>10, <2>1, <2>2 DEF Adds
<1>12. Honest(p)
  BY <1>10 DEF Honest
<1> QED BY <1>11, <1>12 DEF Does, Deed

\* A goroutine that is not at work on a session does not come to be.
LEMMA AsideDoes ==
  ASSUME LInv, NEW p \in Proc, StoreKept, UNCHANGED envVars, job[p].pc \notin Mind,
         job'[p].pc \notin Mind, Attends(p)', job'[p].out \in {job[p].out, "none", "error"}
  PROVE  Does(p)
<1>1. Aside(p)
  BY DEF Aside, envVars, KernelKept
<1>2. Honest(p)
  BY DEF Honest
<1> QED BY <1>1, <1>2 DEF Does, Deed

\* It turns to one.
LEMMA TakesOnDoes ==
  ASSUME LInv, Control, NEW p \in Proc, StoreKept, UNCHANGED envVars, job[p].pc \notin Mind,
         job'[p].pc \in {"terminate", "mark_recovering"}, NEW i \in 1..next, job'[p].id = i,
         job'[p].key = KeyOf(sess[i]), ~job'[p].expired, job'[p].out = job[p].out,
         job'[p].then \in {"find", "create"} => job'[p].key = KeyOf(job'[p].ev),
         job'[p].pc = "mark_recovering" => /\ i \in byID /\ sess[i].state = Active
                                           /\ Like(job'[p].c, sess[i])
  PROVE  Does(p)
<1>1. Attends(p)'
  BY DEF Attends
<1>2. TakesOn(p)
  BY <1>1 DEF TakesOn, envVars, KernelKept
<1>3. Honest(p)
  BY DEF Honest
<1> QED BY <1>2, <1>3 DEF Does, Deed

\* A handler returns, or waits for its next session.
LEMMA RestDoes ==
  ASSUME LInv, Control, NEW p \in Proc, NEW o \in {"none", "accept", "blocked", "error"},
         LeaveLock(p, o) \/ Return(p, o), o \in {job[p].out, "none", "error"},
         StoreKept, UNCHANGED envVars, job[p].pc \notin Mind
  PROVE  Does(p)
<1>1. /\ Rests(p, "next") \/ Rests(p, "done")
      /\ job'[p].expired => job[p].expired
      /\ job'[p].out \in {o, "none"}
  BY LeaveRests
<1>2. ~job[p].expired
  BY DEF Control, Attends
<1>3. Attends(p)'
  BY <1>1, <1>2 DEF Rests, Attends
<1>4. job'[p].pc \notin Mind
  BY <1>1, MindFacts DEF Rests
<1> QED BY <1>1, <1>3, <1>4, AsideDoes

\* The lock is taken: a detach begins, or what was read before is read again.
LEMMA LockDoes ==
  ASSUME LInv, Control, NEW p \in Proc, lockSubscriber(p)
  PROVE  Does(p)
<1>1. /\ job[p].pc = "lock" /\ UNCHANGED mgrVars /\ UNCHANGED envVars
      /\ Goto(p, job[p].then) /\ Knows(p) /\ Attends(p) /\ job \in [Proc -> Job]
  BY Types DEF lockSubscriber, At, LInv, Known, Control
<1>2. PICK l \in {"find", "acct_recheck", "gtpu_recheck", "terminate"} : l = job[p].then
  BY <1>1 DEF Knows
<1>3. l \in Label
  BY DEF Label
<1>4. Goto(p, l)
  BY <1>1, <1>2
<1>5. /\ Moved(p, l) /\ job'[p].c = job[p].c /\ job'[p].bearer = job[p].bearer
      /\ job'[p].expired = job[p].expired /\ job'[p].out = job[p].out
  BY <1>1, <1>3, <1>4, GotoMoves
<1>6. StoreKept /\ sess' = sess /\ next' = next
  BY <1>1, Untouched
<1>7. PICK i : i = job[p].id
  OBVIOUS
<1>8. /\ ~job'[p].expired /\ (l # "find" => i \in 1..next /\ job[p].key = KeyOf(sess[i]))
      /\ l = "find" => job[p].key = KeyOf(job[p].ev)
  BY <1>1, <1>2, <1>5, <1>7 DEF Attends
<1>9. /\ job'[p].pc = l /\ job'[p].id = i /\ job'[p].key = job[p].key /\ job'[p].ev = job[p].ev
      /\ job'[p].then \in {l, "unlock"}
  BY <1>2, <1>5, <1>7 DEF Moved
<1>10. "lock" \notin Mind /\ (l # "terminate" => l \notin Mind)
  BY MindFacts
<1>11. CASE l = "terminate"
  BY <1>1, <1>5, <1>6, <1>8, <1>9, <1>10, <1>11, TakesOnDoes
<1>12. CASE l # "terminate"
  <2>1. Attends(p)'
    BY <1>6, <1>8, <1>9, <1>12 DEF Attends
  <2> QED BY <1>1, <1>5, <1>6, <1>9, <1>10, <1>12, <2>1, AsideDoes
<1> QED BY <1>11, <1>12

\* The wait for the lock ends, or it is given back.
LEMMA LeaveDoes ==
  ASSUME LInv, Control, NEW p \in Proc, lockTimeout(p) \/ unlock(p)
  PROVE  Does(p)
<1>1. /\ UNCHANGED mgrVars /\ UNCHANGED envVars /\ job[p].pc \notin Mind
      /\ LeaveLock(p, "error") \/ LeaveLock(p, job[p].out)
  BY MindFacts DEF lockTimeout, unlock, At
<1>2. job[p].out \in {"none", "accept", "blocked", "error"} /\ StoreKept
  BY <1>1, Types, Untouched DEF Job
<1>3. PICK o \in {"none", "accept", "blocked", "error"} :
        LeaveLock(p, o) /\ o \in {job[p].out, "none", "error"}
  BY <1>1, <1>2
<1> QED BY <1>1, <1>2, <1>3, RestDoes

\* HandleAccounting finds a session and waits for its lock.
LEMMA AccountingDoes ==
  ASSUME LInv, Control, NEW p \in Proc, handleAccountingStop(p)
  PROVE  Does(p)
<1>1. /\ job[p].pc = "acct_stop" /\ UNCHANGED mgrVars /\ UNCHANGED envVars
      /\ job[p].pc \notin Mind /\ ~job[p].expired
  BY MindFacts DEF handleAccountingStop, At, Mind, Early, Control, Attends
<1>2. StoreKept /\ sess' = sess /\ next' = next
  BY <1>1, Untouched
<1>3. CASE Return(p, "none")
  BY <1>1, <1>2, <1>3, RestDoes
<1>4. CASE \E i \in byID : AwaitLock(p, sess[i], i, "acct_recheck")
  <2>1. PICK i \in byID : AwaitLock(p, sess[i], i, "acct_recheck")
    BY <1>4
  <2>2. i \in 0..next /\ i \in 1..next /\ sess[i] \in Session
    BY Types
  <2>3. PICK s \in Session : s = sess[i]
    BY <2>2
  <2>4. AwaitLock(p, s, i, "acct_recheck")
    BY <2>1, <2>3
  <2>5. /\ Waits(p, "acct_recheck") /\ job'[p].id = i /\ job'[p].c = s /\ job'[p].key = KeyOf(s)
        /\ job'[p].expired = job[p].expired /\ job'[p].out = job[p].out
    BY <2>2, <2>4, AwaitWaits
  <2>6. Attends(p)'
    BY <1>1, <1>2, <2>2, <2>3, <2>5 DEF Attends, Waits
  <2>7. job'[p].pc \notin Mind
    BY <2>5, MindFacts DEF Waits
  <2> QED BY <1>1, <1>2, <2>5, <2>6, <2>7, AsideDoes
<1> QED BY <1>3, <1>4 DEF handleAccountingStop, FindByMAC

\* Under the lock the session is read again.
LEMMA RecheckDoes ==
  ASSUME LInv, Control, NEW p \in Proc, recheckAccountingStop(p) \/ recheckGTPUError(p)
  PROVE  Does(p)
<1>1. /\ UNCHANGED mgrVars /\ UNCHANGED envVars /\ Attends(p) /\ job \in [Proc -> Job]
      /\ job[p].pc \in {"acct_recheck", "gtpu_recheck"} /\ job[p].pc \notin Mind
  BY MindFacts, Types DEF recheckAccountingStop, recheckGTPUError, At, Control
<1>2. StoreKept /\ sess' = sess /\ next' = next
  BY <1>1, Untouched
<1>3. PICK i : i = job[p].id
  OBVIOUS
<1>4. i \in 1..next /\ job[p].key = KeyOf(sess[i]) /\ ~job[p].expired
  BY <1>1, <1>3 DEF Attends
<1>5. CASE Goto(p, "unlock")
  <2>1. "unlock" \in Label /\ "unlock" \notin Mind
    BY LabelsOfDeeds, MindFacts
  <2>2. /\ Moved(p, "unlock") /\ job'[p].c = job[p].c /\ job'[p].bearer = job[p].bearer
        /\ job'[p].expired = job[p].expired /\ job'[p].out = job[p].out
    BY <1>1, <1>5, <2>1, GotoMoves
  <2>3. Attends(p)'
    BY <1>1, <1>4, <2>2 DEF Attends, Moved
  <2>4. job'[p].pc \notin Mind
    BY <2>1, <2>2 DEF Moved
  <2> QED BY <1>1, <1>2, <2>2, <2>3, <2>4, AsideDoes
<1>6. ASSUME NEW l \in {"terminate", "mark_recovering"}, i \in byID,
             l = "mark_recovering" => sess[i].state = Active,
             job' = [job EXCEPT ![p].pc = l, ![p].then = "unlock", ![p].c = sess[i]]
      PROVE  Does(p)
  <2>1. l \in Label /\ sess[i] \in Session
    BY <1>4, LabelsOfDeeds, MindFacts, Types
  <2>2. PICK s \in Session : s = sess[i]
    BY <2>1
  <2>3. job' = [job EXCEPT ![p].pc = l, ![p].then = "unlock", ![p].c = s]
    BY <1>6, <2>2
  <2>4. /\ Moved(p, l) /\ job'[p].c = s
        /\ job'[p].expired = job[p].expired /\ job'[p].out = job[p].out
        /\ job'[p].then = "unlock"
    BY <1>1, <2>1, <2>3, ThenMoves
  <2>5. /\ job'[p].pc = l /\ job'[p].id = i /\ job'[p].key = KeyOf(sess[i])
        /\ Like(job'[p].c, sess[i])
    BY <1>3, <1>4, <2>2, <2>4 DEF Moved, Like
  <2> QED BY <1>1, <1>2, <1>4, <1>6, <2>4, <2>5, TakesOnDoes
<1>7. CASE recheckAccountingStop(p)
  BY <1>3, <1>5, <1>6, <1>7 DEF recheckAccountingStop
<1>8. CASE recheckGTPUError(p)
  BY <1>3, <1>5, <1>6, <1>8 DEF recheckGTPUError
<1> QED BY <1>7, <1>8

\* The lookup of HandleGTPUErrorIndication.
LEMMA GTPUErrorDoes ==
  ASSUME LInv, Control, NEW p \in Proc, handleGTPUError(p)
  PROVE  Does(p)
<1>1. /\ job[p].pc = "gtpu_error" /\ UNCHANGED mgrVars /\ UNCHANGED envVars
      /\ job[p].pc \notin Mind /\ ~job[p].expired /\ job \in [Proc -> Job] /\ job[p].then = "done"
  BY MindFacts, Types
  DEF handleGTPUError, At, Mind, Early, Control, Attends, LInv, Known, Knows, Outside
<1>2. StoreKept /\ sess' = sess /\ next' = next
  BY <1>1, Untouched
<1>3. CASE Return(p, "none")
  BY <1>1, <1>2, <1>3, RestDoes
<1>4. CASE \E i \in byID : Takes(p, "gtpu_record", i, sess[i])
  <2>1. PICK i \in byID : Takes(p, "gtpu_record", i, sess[i])
    BY <1>4
  <2>2. i \in 1..next /\ i \in Nat /\ sess[i] \in Session /\ "gtpu_record" \in Label
    BY Types DEF Label
  <2>3. PICK s \in Session : s = sess[i]
    BY <2>2
  <2>4. Takes(p, "gtpu_record", i, s)
    BY <2>1, <2>3
  <2>5. /\ Turns(p) /\ job'[p].pc = "gtpu_record" /\ job'[p].id = i /\ job'[p].c = s
        /\ job'[p].ev = job[p].ev /\ job'[p].key = job[p].key /\ job'[p].then = job[p].then
        /\ job'[p].expired = job[p].expired /\ job'[p].out = job[p].out
    BY <1>1, <2>2, <2>4, TakesUp
  <2>6. Attends(p)'
    BY <1>1, <1>2, <2>2, <2>3, <2>5 DEF Attends
  <2>7. job'[p].pc \notin Mind
    BY <2>5, MindFacts
  <2> QED BY <1>1, <1>2, <2>5, <2>6, <2>7, AsideDoes
<1> QED BY <1>3, <1>4 DEF handleGTPUError, LookupByRemoteGTPUTEID, Takes

\* RecordGTPUError, and the wait for the lock.
LEMMA RecordDoes ==
  ASSUME LInv, Control, NEW p \in Proc, recordGTPUError(p)
  PROVE  Does(p)
<1> DEFINE act(c) == IF c.state = Active THEN AwaitLock(p, c, job[p].id, "gtpu_recheck")
                                         ELSE Return(p, "none")
<1>1. /\ job[p].pc = "gtpu_record" /\ UNCHANGED envVars /\ job[p].pc \notin Mind
      /\ job[p].c \in Session /\ Attends(p) /\ next \in Nat /\ sess \in [1..next -> Session]
  BY MindFacts, Types DEF recordGTPUError, At, Control, Job
<1>2. PICK i : i = job[p].id
  OBVIOUS
<1>3. i \in 1..next /\ i \in 0..next /\ KeyOf(job[p].c) = KeyOf(sess[i]) /\ ~job[p].expired
  BY <1>1, <1>2 DEF Attends
<1>4. ASSUME NEW s \in Session, act(s), StoreKept, KeyOf(s) = KeyOf(sess'[i])
      PROVE  Does(p)
  <2>1. CASE Return(p, "none")
    BY <1>1, <1>4, <2>1, RestDoes
  <2>2. CASE AwaitLock(p, s, i, "gtpu_recheck")
    <3>1. /\ Waits(p, "gtpu_recheck") /\ job'[p].id = i /\ job'[p].c = s /\ job'[p].key = KeyOf(s)
          /\ job'[p].expired = job[p].expired /\ job'[p].out = job[p].out
      BY <1>3, <2>2, AwaitWaits
    <3>2. next' = next
      BY <1>4 DEF StoreKept
    <3>3. Attends(p)'
      BY <1>3, <1>4, <3>1, <3>2 DEF Attends, Waits
    <3>4. job'[p].pc \notin Mind
      BY <3>1, MindFacts DEF Waits
    <3> QED BY <1>1, <1>4, <3>1, <3>3, <3>4, AsideDoes
  <2> QED BY <1>2, <1>4, <2>1, <2>2
<1>5. CASE RecordGTPUError(i) /\ act(sess'[i])
  <2>1. /\ next' = next /\ byID' = byID /\ sess' = [sess EXCEPT ![i].gtpuErr = TRUE]
    BY <1>5 DEF RecordGTPUError
  <2>2. /\ sess'[i] = [sess[i] EXCEPT !.gtpuErr = TRUE] /\ sess[i] \in Session
        /\ \A j \in 1..next : j # i => sess'[j] = sess[j]
    BY <1>1, <1>3, <2>1
  <2>3. sess'[i] \in Session /\ sess'[i].state = sess[i].state /\ Like(sess'[i], sess[i])
    BY <2>2 DEF Session, Like
  <2>4. StoreKept
    BY <2>1, <2>2, <2>3 DEF StoreKept, Like
  <2>5. PICK s \in Session : s = sess'[i]
    BY <2>3
  <2>6. act(s) /\ KeyOf(s) = KeyOf(sess'[i])
    BY <1>5, <2>5
  <2> HIDE DEF act
  <2> QED BY <1>4, <2>4, <2>6
<1>6. CASE act(job[p].c) /\ UNCHANGED mgrVars
  <2>1. StoreKept /\ sess' = sess
    BY <1>6, Untouched
  <2>2. PICK s \in Session : s = job[p].c
    BY <1>1
  <2>3. act(s) /\ KeyOf(s) = KeyOf(sess'[i])
    BY <1>3, <1>6, <2>1, <2>2
  <2> HIDE DEF act
  <2> QED BY <1>4, <2>1, <2>3
<1> QED BY <1>2, <1>5, <1>6 DEF recordGTPUError

\* A session that an attach finds is one of its own lock.
LEMMA FoundKey ==
  ASSUME LInv, Control, Orderly(setup), NEW p \in Proc, job[p].pc = "find",
         NEW i \in FindAnyBySubscriber(job[p].ev.imsi, job[p].ev.mac, job[p].ev.apn)
  PROVE  i \in byID /\ i \in 1..next /\ job[p].key = KeyOf(sess[i])
<1>0. PICK e : e = job[p].ev
  OBVIOUS
<1>1. /\ i \in byID /\ i \in 1..next /\ subscriberMatches(sess[i], e.imsi, e.mac, e.apn)
  BY <1>0, Types DEF FindAnyBySubscriber
<1>2. e.kind = "attach" /\ e \in setup.events[p] /\ job[p].key = KeyOf(e)
  BY <1>0 DEF LInv, Known, Knows, Control, Attends
<1>3. Stems(e)
  BY <1>2 DEF Stems
<1>4. Stems(sess[i])
  BY <1>1 DEF Control, Stemming
<1>5. e.imsi # None /\ e.apn # None /\ sess[i].imsi # None /\ sess[i].apn # None
  BY <1>3, <1>4, StemNames
<1>6. e.imsi = sess[i].imsi /\ e.apn = sess[i].apn
  BY <1>1, <1>5 DEF subscriberMatches
<1>7. KeyOf(e) = KeyOf(sess[i])
  BY <1>5, <1>6 DEF KeyOf, subscriberLockKey
<1> QED BY <1>1, <1>2, <1>7

\* findAttachExisting and handleExistingBeforeAttach.
LEMMA FindDoes ==
  ASSUME LInv, Control, Orderly(setup), NEW p \in Proc, findAttachExisting(p)
  PROVE  Does(p)
<1> DEFINE M == FindAnyBySubscriber(job[p].ev.imsi, job[p].ev.mac, job[p].ev.apn)
<1>1. /\ UNCHANGED mgrVars /\ UNCHANGED envVars /\ job[p].pc = "find" /\ job \in [Proc -> Job]
      /\ "find" \notin Mind /\ "create" \notin Mind /\ "unlock" \notin Mind
      /\ ~job[p].expired /\ job[p].key = KeyOf(job[p].ev)
  BY MindFacts, Types DEF findAttachExisting, At, Control, Attends
<1>2. StoreKept /\ sess' = sess /\ next' = next
  BY <1>1, Untouched
<1>3. \A i \in M : i \in byID /\ i \in 1..next /\ job[p].key = KeyOf(sess[i])
                   /\ sess[i] \in Session /\ i \in Nat
  BY <1>1, FoundKey, Types
<1>4. CASE Goto(p, "create")
  <2>1. "create" \in Label
    BY LabelsOfDeeds
  <2>2. /\ Moved(p, "create") /\ job'[p].c = job[p].c /\ job'[p].bearer = job[p].bearer
        /\ job'[p].expired = job[p].expired /\ job'[p].out = job[p].out
    BY <1>1, <1>4, <2>1, GotoMoves
  <2>3. Attends(p)'
    BY <1>1, <2>2 DEF Attends, Moved
  <2>4. job'[p].pc \notin Mind
    BY <1>1, <2>2 DEF Moved
  <2> QED BY <1>1, <1>2, <2>2, <2>3, <2>4, AsideDoes
<1>5. ASSUME NEW i \in M, job' = [job EXCEPT ![p].pc = "terminate", ![p].id = i,
                                             ![p].c = sess[i], ![p].then = "create"]
      PROVE  Does(p)
  <2> DEFINE r == [job[p] EXCEPT !.pc = "terminate", !.id = i, !.c = sess[i], !.then = "create"]
  <2>1. r \in Job
    BY <1>1, <1>3, JobFields DEF Label
  <2>2. job' = [job EXCEPT ![p] = r]
    BY <1>1, <1>5
  <2>3. /\ r.pc = "terminate" /\ r.id = i /\ r.ev = job[p].ev /\ r.key = job[p].key
        /\ r.expired = job[p].expired /\ r.out = job[p].out
    BY <1>1 DEF Job
  <2> HIDE DEF r
  <2>4. job'[p] = r
    BY <1>1, <2>1, <2>2, Rewrites
  <2> HIDE DEF M
  <2> QED BY <1>1, <1>2, <1>3, <2>3, <2>4, TakesOnDoes
<1>6. ASSUME NEW i \in M, sess[i].state = Active,
             job' = [job EXCEPT ![p].pc = "unlock", ![p].id = i,
                                ![p].c = sess[i], ![p].out = "accept"]
      PROVE  Does(p)
  <2> DEFINE r == [job[p] EXCEPT !.pc = "unlock", !.id = i, !.c = sess[i], !.out = "accept"]
  <2>1. r \in Job
    BY <1>1, <1>3, JobFields DEF Label
  <2>2. job' = [job EXCEPT ![p] = r]
    BY <1>1, <1>6
  <2>3. /\ r.pc = "unlock" /\ r.id = i /\ r.ev = job[p].ev /\ r.key = job[p].key
        /\ r.expired = job[p].expired
    BY <1>1 DEF Job
  <2> HIDE DEF r
  <2>4. job'[p] = r
    BY <1>1, <2>1, <2>2, Rewrites
  <2>5. Attends(p)'
    BY <1>1, <2>3, <2>4 DEF Attends
  <2>6. Aside(p)
    BY <1>1, <1>2, <2>3, <2>4, <2>5 DEF Aside, envVars, KernelKept
  <2>7. Accepts(p)
    BY <1>1, <1>3, <1>6, <2>3, <2>4 DEF Accepts
  <2> QED BY <2>6, <2>7 DEF Does, Deed, Honest
<1>7. \A i \in M : ~shouldReplaceExisting(sess[i], job[p].ev.apn) => sess[i].state = Active
  BY DEF shouldReplaceExisting
<1> QED BY <1>4, <1>5, <1>6, <1>7 DEF findAttachExisting

\* Shutdown lists the sessions.
LEMMA ShutdownDoes ==
  ASSUME LInv, Control, NEW p \in Proc, shutdown(p)
  PROVE  Does(p)
<1>1. /\ UNCHANGED mgrVars /\ UNCHANGED envVars /\ job[p].pc = "shutdown" /\ job \in [Proc -> Job]
      /\ job[p].pc \notin Mind /\ ~job[p].expired /\ job[p].then = "done"
  BY MindFacts, Types
  DEF shutdown, At, Control, Attends, LInv, Known, Knows, Outside, Mind, Early
<1>2. PICK d \in SUBSET Nat : job' = [job EXCEPT ![p].pc = "next", ![p].todo = d]
  <2>0. byID \subseteq Nat
    BY Types
  <2>1. {i \in byID : shutdownShouldDetach(sess[i].state)} \in SUBSET Nat
    BY <2>0
  <2> QED BY <2>1 DEF shutdown
<1> DEFINE r == [job[p] EXCEPT !.pc = "next", !.todo = d]
<1>3. r \in Job
  BY <1>1, JobFields DEF Label
<1>4. job' = [job EXCEPT ![p] = r]
  BY <1>1, <1>2
<1>5. /\ r.pc = "next" /\ r.then = job[p].then /\ r.expired = job[p].expired /\ r.out = job[p].out
  BY <1>1 DEF Job
<1> HIDE DEF r
<1>6. job'[p] = r
  BY <1>1, <1>3, <1>4, Rewrites
<1>7. Attends(p)' /\ job'[p].pc \notin Mind
  BY <1>1, <1>5, <1>6, MindFacts DEF Attends
<1>8. StoreKept
  BY <1>1, Untouched
<1> QED BY <1>1, <1>5, <1>6, <1>7, <1>8, AsideDoes

\* Shutdown waits for the lock of its next session.
LEMMA ShutdownNextDoes ==
  ASSUME LInv, Control, NEW p \in Proc, shutdownNext(p)
  PROVE  Does(p)
<1>1. /\ UNCHANGED mgrVars /\ UNCHANGED envVars /\ job[p].pc = "next" /\ job \in [Proc -> Job]
      /\ job[p].pc \notin Mind /\ ~job[p].expired /\ job[p].then = "done"
      /\ job[p].todo \in SUBSET Nat
  BY MindFacts, Types DEF shutdownNext, At, Control, Attends, LInv, Known, Knows, Outside, Job
<1>2. StoreKept /\ sess' = sess /\ next' = next
  BY <1>1, Untouched
<1>3. CASE Return(p, "none")
  BY <1>1, <1>2, <1>3, RestDoes
<1>4. CASE \E i \in byID : job' = [job EXCEPT ![p].pc = "lock", ![p].key = KeyOf(sess[i]),
                                              ![p].then = "terminate", ![p].c = sess[i],
                                              ![p].id = i, ![p].todo = job[p].todo \ {i}]
  <2>1. PICK i \in byID : job' = [job EXCEPT ![p].pc = "lock", ![p].key = KeyOf(sess[i]),
                                              ![p].then = "terminate", ![p].c = sess[i],
                                              ![p].id = i, ![p].todo = job[p].todo \ {i}]
    BY <1>4
  <2>2. i \in Nat /\ i \in 1..next /\ sess[i] \in Session
    BY Types
  <2>3. PICK k \in LockKey : k = KeyOf(sess[i])
    BY <2>2, Keys
  <2>4. PICK d \in SUBSET Nat : d = job[p].todo \ {i}
    BY <1>1
  <2> DEFINE r == [job[p] EXCEPT !.pc = "lock", !.key = k, !.then = "terminate", !.c = sess[i],
                                 !.id = i, !.todo = d]
  <2>5. job' = [job EXCEPT ![p] = r]
    BY <1>1, <2>1, <2>3, <2>4
  <2>6. r \in Job
    <3>1. /\ job[p] \in Job /\ "lock" \in Label /\ "terminate" \in Label
          /\ k \in OrNone(LockKey) /\ sess[i] \in Session /\ i \in Nat
      BY <1>1, <2>2 DEF Label, OrNone
    <3> QED BY <3>1, JobFields
  <2>7. /\ r.pc = "lock" /\ r.key = k /\ r.then = "terminate" /\ r.id = i
        /\ r.expired = job[p].expired /\ r.out = job[p].out
    BY <1>1 DEF Job
  <2> HIDE DEF r
  <2>8. job'[p] = r
    BY <1>1, <2>5, <2>6, Rewrites
  <2>9. Attends(p)' /\ job'[p].pc \notin Mind
    BY <1>1, <1>2, <2>2, <2>3, <2>7, <2>8, MindFacts DEF Attends
  <2> QED BY <1>1, <1>2, <2>7, <2>8, <2>9, AsideDoes
<1>5. CASE \E i : job' = [job EXCEPT ![p].todo = job[p].todo \ {i}]
  <2>1. PICK d \in SUBSET Nat : job' = [job EXCEPT ![p].todo = d]
    BY <1>1, <1>5
  <2> DEFINE r == [job[p] EXCEPT !.todo = d]
  <2>2. r \in Job
    BY <1>1, JobFields
  <2>3. job' = [job EXCEPT ![p] = r]
    BY <1>1, <2>1
  <2>4. r.pc = "next" /\ r.then = job[p].then /\ r.expired = job[p].expired /\ r.out = job[p].out
    BY <1>1 DEF Job
  <2> HIDE DEF r
  <2>5. job'[p] = r
    BY <1>1, <2>2, <2>3, Rewrites
  <2>6. Attends(p)' /\ job'[p].pc \notin Mind
    BY <1>1, <2>4, <2>5, MindFacts DEF Attends
  <2> QED BY <1>1, <1>2, <2>4, <2>5, <2>6, AsideDoes
<1> QED BY <1>3, <1>4, <1>5 DEF shutdownNext

\* An event arrives.
LEMMA StartDoes ==
  ASSUME LInv, Control, Orderly(setup), NEW p \in Proc, Start(p)
  PROVE  Does(p)
<1>1. /\ UNCHANGED mgrVars /\ UNCHANGED <<route, rule, pdp, neigh, setup>> /\ setup \in Setups
      /\ job[p].pc = "idle" /\ job[p].pc \notin Mind /\ job \in [Proc -> Job]
      /\ ~job[p].expired /\ job[p].then = "done"
  BY MindFacts, Types DEF Start, At, Control, Attends, LInv, Known, Knows, Outside
<1>2. PICK e \in setup.events[p] :
        LET new == [job[p] EXCEPT !.ev = e, !.pc = e.kind]
            locked == [new EXCEPT !.pc = "lock", !.then = "find",
                                  !.key = subscriberLockKey(e.imsi, e.mac, e.apn)]
        IN /\ job' = [job EXCEPT ![p] = IF e.kind = "attach" THEN locked ELSE new]
           /\ IF e.kind = "pgw_delete" THEN PGWDelete(e.teid) ELSE UNCHANGED ctx
  BY DEF Start
<1>3. e \in Event /\ e.kind \notin {"pgw_delete", "aaa_disconnect"}
  BY <1>1, SetupsAssumption DEF Setup, Orderly
<1>4. PICK k \in LockKey : k = subscriberLockKey(e.imsi, e.mac, e.apn)
  BY <1>3, Keys DEF Event
<1>5. UNCHANGED envVars /\ StoreKept /\ sess' = sess /\ next' = next
  BY <1>1, <1>2, <1>3, Untouched DEF envVars
<1>6. CASE e.kind = "attach"
  <2> DEFINE n == [job[p] EXCEPT !.ev = e, !.pc = e.kind]
             r == [n EXCEPT !.pc = "lock", !.then = "find", !.key = k]
             m == [job[p] EXCEPT !.ev = e, !.pc = "lock", !.then = "find", !.key = k]
  <2>1. job' = [job EXCEPT ![p] = r]
    BY <1>2, <1>4, <1>6
  <2>2. r = m
    BY <1>1 DEF Job
  <2>3. m \in Job
    BY <1>1, <1>3, JobFields DEF Label, OrNone
  <2>4. /\ m.pc = "lock" /\ m.then = "find" /\ m.key = k /\ m.ev = e
        /\ m.expired = job[p].expired /\ m.out = job[p].out
    BY <1>1 DEF Job
  <2> HIDE DEF m, r
  <2>5. job'[p] = m
    BY <1>1, <2>1, <2>2, <2>3, Rewrites
  <2>6. k = KeyOf(e)
    BY <1>4 DEF KeyOf
  <2>7. Attends(p)' /\ job'[p].pc \notin Mind
    BY <1>1, <2>4, <2>5, <2>6, MindFacts DEF Attends
  <2> QED BY <1>1, <1>5, <2>4, <2>5, <2>7, AsideDoes
<1>7. CASE e.kind # "attach"
  <2> DEFINE n == [job[p] EXCEPT !.ev = e, !.pc = e.kind]
  <2>1. job' = [job EXCEPT ![p] = n]
    BY <1>2, <1>7
  <2>2. e.kind \in {"acct_stop", "gtpu_error", "shutdown"}
    BY <1>3, <1>7 DEF Event
  <2>3. n \in Job
    BY <1>1, <1>3, <2>2, JobFields DEF Label
  <2>4. /\ n.pc = e.kind /\ n.then = job[p].then /\ n.expired = job[p].expired
        /\ n.out = job[p].out
    BY <1>1 DEF Job
  <2> HIDE DEF n
  <2>5. job'[p] = n
    BY <1>1, <2>1, <2>3, Rewrites
  <2>6. Attends(p)' /\ job'[p].pc \notin Mind
    BY <1>1, <2>2, <2>4, <2>5 DEF Attends, Mind, Early
  <2> QED BY <1>1, <1>5, <2>4, <2>5, <2>6, AsideDoes
<1> QED BY <1>6, <1>7

\* In an orderly setup the handlers without the lock do not run, and no deadline passes.
LEMMA NotStarted ==
  ASSUME LInv, Orderly(setup), NEW p \in Proc
  PROVE  ~handlePGWDelete(p) /\ ~handleAAADisconnect(p) /\ ~expireContext(p)
<1>1. job[p].pc \in {"pgw_delete", "aaa_disconnect"} =>
        job[p].ev.kind = job[p].pc /\ job[p].ev \in setup.events[p]
  BY DEF LInv, Known, Knows
<1>2. job[p].pc \notin {"pgw_delete", "aaa_disconnect"}
  BY <1>1 DEF Orderly
<1> QED BY <1>2 DEF handlePGWDelete, handleAAADisconnect, expireContext, At, Orderly

\* Every step of a goroutine is a deed.
LEMMA StepDoes ==
  ASSUME LInv, Control, Contexts, Orderly(setup), NEW p \in Proc,
         Start(p) \/ Step(p) \/ expireContext(p)
  PROVE  Does(p)
<1>1. CASE AttachStep(p)
  BY <1>1, FindDoes, CreateSessionDoes, MarkStepDoes, AuthorizeDoes, FindLiveDoes, CreateDoes,
     UpdateIPDoes, ApplyPGWDoes, InstallDoes, UserAddDoes, AccessAddDoes, ValidateDoes, UndoDoes,
     MarkFailedDoes DEF AttachStep
<1>2. CASE DetachStep(p)
  BY <1>2, TerminatingDoes, DetachPGWDoes, DetachDoes, DeleteDoes DEF DetachStep
<1>3. CASE HandlerStep(p)
  BY <1>3, AccountingDoes, RecheckDoes, GTPUErrorDoes, RecordDoes, MarkStepDoes, NotStarted,
     ShutdownDoes, ShutdownNextDoes DEF HandlerStep
<1> QED BY <1>1, <1>2, <1>3, LockDoes, LeaveDoes, StartDoes, NotStarted DEF Step
-----------------------------------------------------------------------------
(* The theorems. *)

\* The inductive invariants.  The contexts at the PGW are what the goroutines made
\* them when everything that may happen is orderly, ...
CInv == LInv /\ Control /\ Contexts /\ Orderly(setup)

\* ... and so is the kernel when no address is handed out twice.
BInv == CInv /\ Local

\* At the start nothing is stored, created or installed.
LEMMA StartBound ==
  ASSUME LcInit
  PROVE  Control /\ Contexts /\ Local
<1>1. /\ next = 0 /\ byID = {} /\ ctx = {} /\ route = {} /\ rule = {}
      /\ pdp = [a \in IP |-> NoSession] /\ neigh = [a \in IP |-> None]
  BY DEF LcInit, MgrInit
<1>2. \A p \in Proc : /\ job[p].pc = "idle" /\ job[p].id = 0 /\ job[p].then = "done"
                      /\ job[p].expired = FALSE
  BY FreshJob DEF LcInit
<1>3. "idle" \notin Mind
  BY MindFacts
<1>4. Control
  <2>1. \A p \in Proc : Works(p)
    BY <1>2, <1>3 DEF Works
  <2>2. \A p \in Proc : Attends(p)
    BY <1>2 DEF Attends
  <2>3. Stemming
    BY <1>1 DEF Stemming
  <2> QED BY <2>1, <2>2, <2>3 DEF Control
<1>5. Contexts
  <2>1. Distinct /\ Holds /\ Owned /\ OneOwner
    BY <1>1 DEF Distinct, Holds, Owned, OneOwner
  <2>2. \A p \in Proc : Asked(p) /\ Alone(p)
    BY <1>2 DEF Asked, Alone
  <2> QED BY <2>1, <2>2 DEF Contexts
<1>6. Local
  <2>1. OneAddress /\ HasAddress /\ Kernel /\ Tunnelled
    BY <1>1 DEF OneAddress, HasAddress, Kernel, Tunnelled
  <2>2. FreshAddress
    BY <1>2 DEF FreshAddress
  <2>3. InUse
    BY <1>1 DEF InUse
  <2> QED BY <2>1, <2>2, <2>3 DEF Local
<1> QED BY <1>4, <1>5, <1>6

\* What the steps of a goroutine keep.
LEMMA ProcKeeps ==
  ASSUME CInv, NEW p \in Proc, Start(p) \/ Step(p) \/ expireContext(p), LInv'
  PROVE  CInv' /\ (Local /\ ~ReuseIP => Local')
<1>1. LInv /\ Control /\ Contexts /\ Orderly(setup)
  BY DEF CInv
<1>2. Turns(p) /\ setup' = setup
  BY <1>1, StepActs DEF Acts
<1>3. Deed(p)
  BY <1>1, StepDoes DEF Does
<1>4. Control'
  BY <1>1, <1>2, <1>3, DeedControl
<1>5. Contexts'
  BY <1>1, <1>2, <1>3, <1>4, DeedContexts
<1>6. Local /\ ~ReuseIP => Local'
  BY <1>1, <1>2, <1>3, DeedLocal
<1>7. Orderly(setup')
  BY <1>1, <1>2
<1> QED BY <1>4, <1>5, <1>6, <1>7 DEF CInv

\* A stuttering step keeps everything.
LEMMA StutterKeeps ==
  ASSUME CInv, UNCHANGED vars, LInv'
  PROVE  CInv' /\ (Local => Local')
<1>1. /\ sess' = sess /\ next' = next /\ byID' = byID /\ job' = job /\ ctx' = ctx
      /\ route' = route /\ rule' = rule /\ pdp' = pdp /\ neigh' = neigh /\ setup' = setup
  BY DEF vars, mgrVars, envVars
<1>2. Control'
  BY <1>1 DEF CInv, Control, Works, Attends, Stemming, Stems
<1>3. Contexts'
  <2>1. Contexts
    BY DEF CInv
  <2>2. Distinct' /\ Holds' /\ Owned' /\ OneOwner'
    BY <1>1, <2>1 DEF Contexts, Distinct, Holds, Owned, OneOwner, CtxOf, Has, StageIn, Minds
  <2>3. \A p \in Proc : Asked(p)' /\ Alone(p)'
    BY <1>1, <2>1 DEF Contexts, Asked, Alone
  <2> QED BY <2>2, <2>3 DEF Contexts
<1>4. ASSUME Local PROVE Local'
  <2>1. OneAddress' /\ FreshAddress'
    BY <1>1, <1>4 DEF Local, OneAddress, FreshAddress
  <2>2. HasAddress' /\ Tunnelled'
    BY <1>1, <1>4 DEF Local, HasAddress, Tunnelled, Has, StageIn, Minds
  <2>3. Kernel'
    BY <1>1, <1>4 DEF Local, Kernel, Installed, Has, StageIn, Minds
  <2>4. InUse'
    BY <1>1, <1>4 DEF Local, InUse, Taken
  <2> QED BY <2>1, <2>2, <2>3, <2>4 DEF Local
<1>5. Orderly(setup')
  BY <1>1 DEF CInv
<1> QED BY <1>2, <1>3, <1>4, <1>5 DEF CInv

\* Every step keeps both invariants.
LEMMA StepKeeps ==
  ASSUME CInv, [LcNext]_vars
  PROVE  CInv' /\ (Local /\ ~ReuseIP => Local')
<1>1. LInv'
  BY LcStepInv DEF CInv
<1>2. CASE \E p \in Proc : Start(p) \/ Step(p) \/ expireContext(p)
  BY <1>1, <1>2, ProcKeeps
<1>3. CASE UNCHANGED vars
  BY <1>1, <1>3, StutterKeeps
<1> QED BY <1>2, <1>3 DEF LcNext, AllDone

\* In an orderly setup the contexts at the PGW are those of the stored sessions that
\* have come that far, each subscriber has one, and no goroutine asks for a second.
THEOREM ContextInvariant == LcSpec /\ Orderly(setup) => []CInv
<1>1. LcInit /\ Orderly(setup) => CInv
  BY LcInitInv, StartBound DEF CInv
<1>2. CInv /\ [LcNext]_vars => CInv'
  BY StepKeeps
<1> QED BY <1>1, <1>2, PTL DEF LcSpec

\* If moreover the PGW hands out no address again that a session had, the route, the
\* rule, the PDP context and the neighbour entry of an address are those that its
\* session has come to, or has not yet given back.
THEOREM BindingInvariant == LcSpec /\ Orderly(setup) /\ ~ReuseIP => []BInv
<1>1. LcInit /\ Orderly(setup) => BInv
  BY LcInitInv, StartBound DEF BInv, CInv
<1>2. ~ReuseIP /\ BInv /\ [LcNext]_vars => BInv'
  BY StepKeeps DEF BInv
<1>3. CASE ReuseIP
  BY <1>3
<1>4. CASE ~ReuseIP
  <2>1. BInv /\ [LcNext]_vars => BInv'
    BY <1>2, <1>4
  <2> QED BY <1>1, <2>1, PTL DEF LcSpec
<1> QED BY <1>3, <1>4

\* The labels at which an active session is worked on while its traffic still flows.
Served == {"validate", "mark_recovering", "terminate"}

\* An active session that is not being connected or failed has everything.
LEMMA ActiveBound ==
  ASSUME LInv, Contexts, Local, NEW i \in byID, sess[i].state = Active, StageIn(i, Served)
  PROVE  Bound(i)
<1>1. \A L \in {Full, Addressed, Routing, Ruling, Neighbouring} : Served \subseteq L
  BY DEF Served, Full, Torn, Addressed, Routing, Ruling, Neighbouring
<1>2. \A L \in {Full, Addressed, Routing, Ruling, Neighbouring} : Has(i, L)
  BY <1>1 DEF Has, StageIn, Active, Failed
<1>3. sess[i].ip # None
  BY <1>2 DEF Local, HasAddress
<1>4. Installed(i)
  BY <1>3 DEF Local, Kernel
<1>5. CtxOf(i) \in ctx
  BY <1>2 DEF Contexts, Holds
<1>6. /\ CtxOf(i).sub = Sub(sess[i]) /\ CtxOf(i).teid = sess[i].gtpc
      /\ CtxOf(i).ip = sess[i].ip
  BY DEF CtxOf
<1>7. /\ sess[i].ip \in route /\ sess[i].ip \in rule
      /\ pdp[sess[i].ip] = i /\ neigh[sess[i].ip] = sess[i].mac
  BY <1>2, <1>4 DEF Installed
<1> QED BY <1>5, <1>6, <1>7 DEF Bound

\* An active session has its route, its rule, its PDP context, its neighbour entry
\* and its context at the PGW until a goroutine has marked it otherwise, the attach
\* that still activates it aside.
THEOREM ActiveSessionsBound ==
  LcSpec /\ Orderly(setup) /\ ~ReuseIP => []ActiveIsBound
<1>1. BInv => ActiveIsBound
  <2> SUFFICES ASSUME BInv, NEW i \in byID, sess[i].state = Active,
                      ~\E p \in Proc : /\ job[p].id = i
                                       /\ job[p].pc \in {"access_add", "undo_user", "undo_route",
                                                         "undo_pgw", "fail"}
               PROVE  Bound(i)
    BY DEF ActiveIsBound
  <2>1. LInv /\ Control /\ Contexts /\ Local
    BY DEF BInv, CInv
  <2>2. ASSUME NEW p \in Proc, Minds(p, i)
        PROVE  job[p].pc \in Served
    <3>1. PICK l \in Mind : l = job[p].pc
      BY <2>2 DEF Minds
    <3>2. Active \in StatesAt(l)
      BY <2>1, <2>2, <3>1, WorksAt DEF Minds
    <3>3. l \notin {"access_add", "undo_user", "undo_route", "undo_pgw", "fail"}
      BY <2>2, <3>1 DEF Minds
    <3> QED BY <3>1, <3>2, <3>3 DEF Mind, Early, StatesAt, Served, Pending, AuthPending,
               Authorized, PGWPending, Active, Recovering, Terminating, Failed
  <2> QED BY <2>1, <2>2, ActiveBound DEF StageIn
<1> QED BY <1>1, BindingInvariant, PTL

\* When nobody is at work every stored session that has not failed is active and is
\* where all labels say it is.
LEMMA QuietHas ==
  ASSUME LInv, Control, Quiet
  PROVE  /\ \A i \in byID : sess[i].state \in {Active, Failed}
         /\ \A i \in byID : \A L : Has(i, L) => sess[i].state = Active
         /\ \A i \in byID : \A L : sess[i].state = Active => Has(i, L)
<1>1. \A p \in Proc : job[p].pc \notin Mind
  BY MindFacts DEF Quiet
<1>2. \A i \in byID : sess[i].state \in {Active, Failed}
  BY <1>1, AtRest DEF Minds, Settled
<1>3. Active # Failed
  BY DEF Active, Failed
<1> QED BY <1>1, <1>2, <1>3 DEF Has, StageIn, Minds

\* When no goroutine is at work every context at the PGW belongs to a stored active
\* session: a refused create, a failed installation and a detach give it back.
THEOREM NoContextLeaks == LcSpec /\ Orderly(setup) => []NoPGWLeak
<1>1. CInv => NoPGWLeak
  <2> SUFFICES ASSUME CInv, Quiet, NEW x \in ctx
               PROVE  \E i \in byID : Owner(i) /\ sess[i].gtpc = x.teid
    BY DEF NoPGWLeak
  <2>1. LInv /\ Control /\ Contexts
    BY DEF CInv
  <2>2. \A i \in byID : \A L : Has(i, L) <=> Owner(i)
    BY <2>1, QuietHas DEF Owner
  <2>3. PICK i \in byID : Sub(sess[i]) = x.sub /\ Has(i, Owning)
    BY <2>1 DEF Contexts, Owned
  <2>4. Owner(i) /\ Has(i, Full)
    BY <2>2, <2>3
  <2>5. CtxOf(i) \in ctx
    BY <2>1, <2>4 DEF Contexts, Holds
  <2>6. CtxOf(i).sub = x.sub /\ CtxOf(i).teid = sess[i].gtpc
    BY <2>3 DEF CtxOf
  <2>7. CtxOf(i) = x
    BY <2>1, <2>5, <2>6 DEF Contexts, Distinct
  <2> QED BY <2>4, <2>6, <2>7
<1> QED BY <1>1, ContextInvariant, PTL

\* When no goroutine is at work every context at the PGW and everything in the
\* kernel belongs to a stored active session: no failed attach, no detach and no
\* shutdown leaves something behind.
THEOREM NothingLeaks == LcSpec /\ Orderly(setup) /\ ~ReuseIP => []NoLeak
<1>1. BInv => NoLocalLeak
  <2> SUFFICES ASSUME BInv, Quiet
               PROVE  /\ \A a \in route \cup rule : \E i \in byID : Owner(i) /\ sess[i].ip = a
                      /\ \A a \in IP : pdp[a] # NoSession => Owner(pdp[a])
                      /\ \A a \in IP : neigh[a] # None =>
                           \E i \in byID : Owner(i) /\ sess[i].ip = a
    BY DEF NoLocalLeak
  <2>1. LInv /\ Control /\ Local
    BY DEF BInv, CInv
  <2>2. \A i \in byID : \A L : Has(i, L) <=> Owner(i)
    BY <2>1, QuietHas DEF Owner
  <2>3. ASSUME NEW a \in IP, a \in route \/ a \in rule \/ pdp[a] # NoSession \/ neigh[a] # None
        PROVE  \E i \in byID : /\ Owner(i) /\ sess[i].ip = a
                               /\ pdp[a] # NoSession => pdp[a] = i
    <3>1. PICK i \in byID : sess[i].ip = a
      BY <2>1, <2>3 DEF Local, InUse, Taken
    <3>2. a # None
      BY NoneAssumption
    <3>3. Installed(i)
      BY <2>1, <3>1, <3>2 DEF Local, Kernel
    <3>4. Has(i, Routing) \/ Has(i, Ruling) \/ Has(i, Neighbouring)
      BY <2>3, <3>1, <3>3 DEF Installed
    <3>5. Owner(i)
      BY <2>2, <3>4
    <3>6. pdp[a] # NoSession => pdp[a] = i
      BY <3>1, <3>3 DEF Installed
    <3> QED BY <3>1, <3>5, <3>6
  <2>4. route \subseteq IP /\ rule \subseteq IP
    BY <2>1, Types
  <2> QED BY <2>3, <2>4
<1> QED BY <1>1, NoContextLeaks, BindingInvariant, PTL DEF NoLeak

\* Only pgw.CreateSession brings a context to the PGW.
LEMMA OnlyAsks ==
  ASSUME NEW p \in Proc, Deed(p), NEW y \in ctx', y \notin ctx
  PROVE  Asks(p)
<1>1. ~(ctx' \subseteq ctx)
  OBVIOUS
<1>2. ctx' # ctx
  BY <1>1
<1>3. ~DropsContext(p)
  BY <1>1 DEF DropsContext, PGWDelete
<1>4. ~Aside(p) /\ ~TakesOn(p) /\ ~Adds(p)
  BY <1>2 DEF Aside, TakesOn, Adds
<1>5. ~Passes(p) /\ ~Proceeds(p)
  BY <1>2 DEF Passes, Walks, Proceeds, Marks
<1>6. ~Addresses(p) /\ ~Binds(p) /\ ~Removes(p)
  BY <1>2 DEF Addresses, Binds, Removes
<1>7. ~AddsRoute(p) /\ ~AddsUser(p) /\ ~AddsNeighbour(p)
  BY <1>2 DEF AddsRoute, AddsUser, AddsNeighbour
<1>8. ~DropsRoute(p) /\ ~DropsUser(p) /\ ~DropsNeighbour(p)
  BY <1>2 DEF DropsRoute, DropsUser, DropsNeighbour
<1> QED BY <1>3, <1>4, <1>5, <1>6, <1>7, <1>8 DEF Deed

\* The PGW never gets a Create Session Request for an IMSI and APN it already has a
\* context for: the subscriber lock, the check for an existing session and
\* findLiveSessionDifferentFrom together prevent the replacement.
THEOREM ContextNeverReplaced ==
  LcSpec /\ Orderly(setup) => NoContextReplacement
<1>1. CInv /\ [LcNext]_vars => [\A y \in ctx' \ ctx : \A x \in ctx : x.sub # y.sub]_vars
  <2> SUFFICES ASSUME CInv, [LcNext]_vars, NEW y \in ctx', y \notin ctx, NEW x \in ctx
               PROVE  x.sub # y.sub
    OBVIOUS
  <2>1. LInv /\ Control /\ Contexts /\ Orderly(setup)
    BY DEF CInv
  <2>2. ~UNCHANGED vars
    BY DEF vars, envVars
  <2>3. PICK p \in Proc : Start(p) \/ Step(p) \/ expireContext(p)
    BY <2>2 DEF LcNext, AllDone
  <2>4. Asks(p)
    BY <2>1, <2>3, StepDoes, OnlyAsks DEF Does
  <2>5. PICK s : s = sess[job[p].id]
    OBVIOUS
  <2>6. PICK ip \in OrNone(IP), teid \in TEID : PGWAccepts(s, ip, teid)
    BY <2>4, <2>5 DEF Asks
  <2>7. y.sub = Sub(s)
    BY <2>6 DEF PGWAccepts
  <2>8. job[p].pc = "pgw_create"
    BY <2>4 DEF Asks, Goes
  <2> QED BY <2>1, <2>5, <2>7, <2>8, NothingReplaced
<1> QED BY <1>1, ContextInvariant, PTL DEF LcSpec, NoContextReplacement

\* When an attach returns success, to which the RADIUS server answers with an
\* Access-Accept, its session is active with its context, route, rule, PDP context
\* and neighbour entry in place, whether it is new or an existing one is reused.
THEOREM AcceptedIsReady ==
  LcSpec /\ Orderly(setup) /\ ~ReuseIP => AcceptReady
<1>1. BInv /\ [LcNext]_vars =>
        [\A p \in Proc : job[p].out # "accept" /\ job'[p].out = "accept"
                           => Bound(job[p].id)']_vars
  <2> SUFFICES ASSUME BInv, [LcNext]_vars, NEW p \in Proc, job[p].out # "accept",
                      job'[p].out = "accept"
               PROVE  Bound(job[p].id)'
    OBVIOUS
  <2>1. LInv /\ Control /\ Contexts /\ Local /\ Orderly(setup)
    BY DEF BInv, CInv
  <2>2. job' # job
    OBVIOUS
  <2>3. PICK q \in Proc : Start(q) \/ Step(q) \/ expireContext(q)
    BY <2>2 DEF LcNext, AllDone, vars
  <2>4. q = p
    BY <2>1, <2>3, StepActs DEF Acts, Turns
  <2>5. Accepts(p)
    BY <2>1, <2>3, <2>4, StepDoes DEF Does, Honest
  <2>6. PICK i : i = job'[p].id
    OBVIOUS
  <2>7. i \in byID /\ sess[i].state = Active /\ StageIn(i, Served)
    <3>1. CASE Goes(p, "validate", "unlock")
      <4>1. "validate" \in Mind /\ "validate" # "terminate" /\ job[p].pc = "validate"
        BY <3>1, LabelsOfDeeds DEF Goes
      <4>2. job[p].id = i
        BY <2>6, <3>1 DEF Goes, Moved
      <4>3. i \in byID /\ sess[i].state = Active /\ Minds(p, i)
        BY <2>1, <4>1, <4>2, WorksAt, StateTable
      <4>4. StageIn(i, Served)
        BY <2>1, <4>1, <4>3, OneMinder DEF StageIn, Served
      <4> QED BY <4>3, <4>4
    <3>2. CASE /\ job[p].pc = "find" /\ job'[p].id \in byID
               /\ sess[job'[p].id].state = Active
               /\ job[p].key = KeyOf(sess[job'[p].id]) /\ job'[p].pc = "unlock"
      <4>1. i \in byID /\ i \in 1..next /\ sess[i].state = Active /\ job[p].key = KeyOf(sess[i])
        BY <2>1, <2>6, <3>2, Types
      <4>2. job[p].pc \notin Outside /\ job[p].pc \notin Mind
        BY <3>2, MindFacts DEF Outside
      <4>3. \A r \in Proc : ~Minds(r, i)
        BY <2>1, <4>1, <4>2, InsideAlone
      <4> QED BY <4>1, <4>3 DEF StageIn
    <3> QED BY <2>5, <3>1, <3>2 DEF Accepts
  <2>8. Bound(i)
    BY <2>1, <2>7, ActiveBound
  <2>9. /\ sess' = sess /\ byID' = byID /\ ctx' = ctx /\ route' = route /\ rule' = rule
        /\ pdp' = pdp /\ neigh' = neigh
    BY <2>5 DEF Accepts, mgrVars, envVars
  <2> QED BY <2>6, <2>8, <2>9 DEF Bound
<1> QED BY <1>1, BindingInvariant, PTL DEF LcSpec, AcceptReady
=============================================================================
