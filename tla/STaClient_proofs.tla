--------------------------- MODULE STaClient_proofs ---------------------------
(***************************************************************************)
(* Proofs about the Diameter client, for any number of calls, connections  *)
(* and identifiers: no channel is ever written twice, a request that waits *)
(* is on the connection that is watched, and the client implements         *)
(* CallService.                                                            *)
(***************************************************************************)
EXTENDS STaClient, TLAPS

\* A connection that connectLoop has published.
Published(k) == k < loop.conn \/ (k = loop.conn /\ loop.pc # "handshake")

\* A caller with a request, and one whose request is or was in the map.
Active == {"register", "write", "wait", "unregister"}
Registered == {"write", "wait", "unregister"}

\* A caller has a number as long as it has a request, and nobody else has it.
Numbers ==
  /\ \A c \in Caller : IF call[c].pc \in Active THEN call[c].hop \in Hop ELSE call[c].hop = None
  /\ \A b, c \in Caller : call[b].hop # None /\ call[b].hop = call[c].hop => b = c

\* An entry of the map is its caller's, who has not been replied to.
Table ==
  \A h \in Hop : pending[h] # None =>
    /\ pending[h] \in Caller
    /\ call[pending[h]].hop = h /\ call[pending[h]].pc \in Registered
    /\ chan[pending[h]] = None

\* A channel holds a reply to its caller's request.
Channels ==
  \A c \in Caller : chan[c] # None => call[c].pc \in Registered /\ chan[c].of = c

Holds(k, c) == reader[k].pc = "send" /\ reader[k].ch = c

\* A reader that is about to send has taken the entry of an empty channel.
Readers ==
  /\ \A k \in Conn : reader[k].pc = "send" => reader[k].ch \in Caller /\ reader[k].of = reader[k].ch
  /\ \A k \in Conn, c \in Caller : Holds(k, c) =>
       /\ chan[c] = None /\ (\A h \in Hop : pending[h] # c)
       /\ call[c].pc \in Registered \cup {"return", "off"}
       /\ c \in Conn => Published(c)
  /\ \A j, k \in Conn, c \in Caller : Holds(j, c) /\ Holds(k, c) => j = k

\* A message whose number is in use belongs to its user.
Messages ==
  \A m \in up \cup down :
    /\ m.hop \in Hop /\ m.of \in Caller
    /\ \A c \in Caller : call[c].hop = m.hop => m.of = c /\ call[c].pc \in {"wait", "unregister"}
    /\ m.of \in Call => call[m.of].pc # "idle"

Results ==
  \A c \in Caller : /\ call[c].pc = "return" <=> call[c].out # "none"
                    /\ call[c].out = "answer" => call[c].of = c

\* Every connection but the current one is closed; readers, watchdogs and
\* calls only know connections that were published.
Connections ==
  /\ loop.pc \in {"handshake", "select", "fail"} => loop.conn # 0
  /\ conn # 0 => Published(conn)
  /\ \A k \in Conn :
       /\ sock[k] = "none" <=> k > loop.conn
       /\ sock[k] \notin {"none", "closed"} => k = loop.conn /\ loop.pc \in {"handshake", "select"}
       /\ ~Published(k) => call[k].pc = "off" /\ reader[k].pc = "off"
       /\ call[k].pc \notin {"open", "request", "register"}
  /\ \A c \in Caller : call[c].pc \in Active => call[c].conn # 0 /\ Published(call[c].conn)

\* A request that is not replied to can be: it is in the map, of a connection
\* that is watched, or a reader holds its answer.
Waiting ==
  \A c \in Caller : call[c].pc \in {"write", "wait"} =>
    /\ chan[c] # None \/ pending[call[c].hop] = c \/ \E k \in Conn : Holds(k, c)
    /\ call[c].pc = "wait" /\ pending[call[c].hop] = c =>
         ctxDone \/ (loop.conn = call[c].conn /\ loop.pc \in {"select", "fail"})

IInv == /\ STypeOK /\ Numbers /\ Table /\ Channels /\ Readers /\ Messages
        /\ Results /\ Connections /\ Waiting

\* What the constants say of callers, connections and identifiers: a watchdog
\* is the caller with its connection's number, and None is none of them.
LEMMA Sets ==
  /\ Conn \subseteq Caller /\ Call \subseteq Caller /\ Call \cap Conn = {}
  /\ Conn \subseteq Nat /\ 0 \notin Conn /\ Hop \subseteq Nat /\ Conn \subseteq 0..MaxConn
  /\ None \notin Caller /\ None \notin Hop /\ None \notin Conn
  /\ 0..MaxConn = Conn \cup {0}
  BY STaAssumption DEF Caller, Conn, Hop

-----------------------------------------------------------------------------
(* What the steps of a caller do to it. *)

\* A caller starts afresh: it keeps no request and no result.
LEMMA Restarts ==
  ASSUME STypeOK, NEW c \in Caller, NEW l \in {"off", "idle", "request"},
         call' = [call EXCEPT ![c] = NewCaller(l)]
  PROVE  /\ call' \in [Caller -> CallState]
         /\ \A b \in Caller : b # c => call'[b] = call[b]
         /\ call'[c].pc = l /\ call'[c].hop = None /\ call'[c].out = "none"
<1>1. NewCaller(l) \in CallState
  BY STaAssumption DEF NewCaller, CallState, OrNone
<1>2. NewCaller(l).pc = l /\ NewCaller(l).hop = None /\ NewCaller(l).out = "none"
  BY DEF NewCaller
<1>3. call \in [Caller -> CallState]
  BY DEF STypeOK
<1> QED BY <1>1, <1>2, <1>3

\* sendRequest returns an answer or an error: the request's record is gone
\* with the function's variables.
LEMMA CallReturns ==
  ASSUME STypeOK, NEW c \in Caller, NEW out \in {"answer", "error"},
         NEW of \in OrNone(Caller), Returns(c, out, of)
  PROVE  /\ call' \in [Caller -> CallState]
         /\ \A b \in Caller : b # c => call'[b] = call[b]
         /\ call'[c].pc = "return" /\ call'[c].hop = None
         /\ call'[c].out = out /\ call'[c].of = of
<1> DEFINE n == NewCaller("return")
           a == [n EXCEPT !.out = out]
           r == [a EXCEPT !.of = of]
<1>1. n = [pc |-> "return", hop |-> None, conn |-> 0, gen |-> 0, out |-> "none", of |-> None]
  BY DEF NewCaller
<1>2. call' = [call EXCEPT ![c] = r] /\ call \in [Caller -> CallState]
  BY DEF Returns, STypeOK
<1> HIDE DEF n
<1>3. a = [pc |-> "return", hop |-> None, conn |-> 0, gen |-> 0, out |-> out, of |-> None]
  BY <1>1
<1> HIDE DEF a
<1>4. r = [pc |-> "return", hop |-> None, conn |-> 0, gen |-> 0, out |-> out, of |-> of]
  BY <1>3
<1> HIDE DEF r
<1>5. r \in CallState
  BY <1>4, STaAssumption DEF CallState, OrNone
<1>6. call'[c] = r
  BY <1>2
<1> QED BY <1>2, <1>4, <1>5, <1>6

\* A call that fails returns an error.
LEMMA CallFails ==
  ASSUME STypeOK, NEW c \in Caller, Fails(c)
  PROVE  /\ call' \in [Caller -> CallState]
         /\ \A b \in Caller : b # c => call'[b] = call[b]
         /\ call'[c].pc = "return" /\ call'[c].hop = None /\ call'[c].out = "error"
BY CallReturns DEF Fails, OrNone

\* A call goes on with the same request.
LEMMA CallGoesOn ==
  ASSUME STypeOK, NEW c \in Caller,
         NEW l \in {"request", "write", "wait", "unregister"}, Goto(c, l)
  PROVE  /\ call' \in [Caller -> CallState]
         /\ \A b \in Caller : b # c => call'[b] = call[b]
         /\ call'[c].pc = l
         /\ \A f \in {"hop", "conn", "out", "of"} : call'[c][f] = call[c][f]
<1>1. call \in [Caller -> CallState] /\ call' = [call EXCEPT ![c] = [call[c] EXCEPT !.pc = l]]
  BY DEF STypeOK, Goto
<1>2. [call[c] EXCEPT !.pc = l] \in CallState
  BY <1>1 DEF CallState
<1>3. /\ [call[c] EXCEPT !.pc = l].pc = l
      /\ \A f \in {"hop", "conn", "out", "of"} : [call[c] EXCEPT !.pc = l][f] = call[c][f]
  BY <1>1 DEF CallState
<1> QED BY <1>1, <1>2, <1>3

\* A caller takes a number for a request on a connection.
TakesNumber(c, l, h, k) == call' = [call EXCEPT ![c].pc = l, ![c].hop = h, ![c].conn = k]

\* sendRequest or a watchdog takes an identifier for a request on connection k.
LEMMA NumberTaken ==
  ASSUME STypeOK, NEW c \in Caller, NEW l \in {"register", "write"},
         NEW h \in Hop, NEW k \in Conn, TakesNumber(c, l, h, k)
  PROVE  /\ call' \in [Caller -> CallState]
         /\ \A b \in Caller : b # c => call'[b] = call[b]
         /\ call'[c].pc = l /\ call'[c].hop = h /\ call'[c].conn = k /\ call'[c].out = call[c].out
<1> DEFINE a == [call[c] EXCEPT !.pc = l]
           w == [a EXCEPT !.hop = h]
           r == [w EXCEPT !.conn = k]
<1>1. call \in [Caller -> CallState] /\ call' = [call EXCEPT ![c] = r]
  BY DEF STypeOK, TakesNumber
<1>2. a \in CallState /\ a.pc = l /\ a.out = call[c].out
  BY <1>1 DEF CallState
<1> HIDE DEF a
<1>3. w \in CallState /\ w.pc = l /\ w.hop = h /\ w.out = call[c].out
  BY <1>2 DEF CallState, OrNone
<1> HIDE DEF w
<1>4. r \in CallState /\ r.pc = l /\ r.hop = h /\ r.conn = k /\ r.out = call[c].out
  BY <1>3, Sets DEF CallState
<1> HIDE DEF r
<1> QED BY <1>1, <1>4

\* A call waits for a connection.
LEMMA CallWaitsOpen ==
  ASSUME STypeOK, NEW c \in Caller,
         call' = [call EXCEPT ![c].pc = "open", ![c].gen = opened]
  PROVE  /\ call' \in [Caller -> CallState]
         /\ \A b \in Caller : b # c => call'[b] = call[b]
         /\ call'[c].pc = "open" /\ call'[c].hop = call[c].hop /\ call'[c].out = call[c].out
<1> DEFINE a == [call[c] EXCEPT !.pc = "open"]
           r == [a EXCEPT !.gen = opened]
<1>1. call \in [Caller -> CallState] /\ call' = [call EXCEPT ![c] = r] /\ opened \in Nat
  BY DEF STypeOK
<1>2. a \in CallState /\ a.pc = "open" /\ a.hop = call[c].hop /\ a.out = call[c].out
  BY <1>1 DEF CallState
<1> HIDE DEF a
<1>3. r \in CallState /\ r.pc = "open" /\ r.hop = a.hop /\ r.out = a.out
  BY <1>1, <1>2 DEF CallState
<1> HIDE DEF r
<1> QED BY <1>1, <1>2, <1>3

-----------------------------------------------------------------------------
(* Types. *)

\* The messages of a connection that is closed are gone, the others stay.
LEMMA ConnCloses ==
  ASSUME STypeOK, NEW k \in Conn, CloseConn(k)
  PROVE  /\ sock' \in [Conn -> {"none", "up", "broken", "dead", "closed"}]
         /\ sock'[k] = "closed" /\ \A j \in Conn : j # k => sock'[j] = sock[j]
         /\ up' \subseteq up /\ down' \subseteq down
BY DEF STypeOK, CloseConn

\* Every request in the map gets an error and leaves it.
LEMMA PendingFails ==
  ASSUME STypeOK, failPendingLocked
  PROVE  /\ chan' \in [Caller -> OrNone(Reply)] /\ pending' \in [Hop -> OrNone(Caller)]
         /\ \A h \in Hop : pending'[h] = None
         /\ \A c \in Caller :
              \/ /\ \E h \in Hop : pending[h] = c
                 /\ chan[c] = None /\ chan'[c] \in Reply /\ chan'[c].err /\ chan'[c].of = c
              \/ chan'[c] = chan[c] /\ \A h \in Hop : pending[h] # c
<1>1. \A c \in Caller : [err |-> TRUE, of |-> c] \in Reply
  BY DEF Reply
<1>2. \A c \in Caller : c \in Waiters <=> \E h \in Hop : pending[h] = c
  BY Sets DEF Waiters
<1>3. /\ \A c \in Waiters : chan[c] = None
      /\ pending' = [h \in Hop |-> None]
      /\ chan' = [c \in Caller |-> IF c \in Waiters THEN [err |-> TRUE, of |-> c] ELSE chan[c]]
      /\ chan \in [Caller -> OrNone(Reply)]
  BY DEF failPendingLocked, STypeOK
<1>4. pending' \in [Hop -> OrNone(Caller)] /\ \A h \in Hop : pending'[h] = None
  BY <1>3 DEF OrNone
<1>5. chan' \in [Caller -> OrNone(Reply)]
  BY <1>1, <1>3 DEF OrNone
<1>6. ASSUME NEW c \in Caller, c \in Waiters
      PROVE  chan[c] = None /\ chan'[c] \in Reply /\ chan'[c].err /\ chan'[c].of = c
  BY <1>1, <1>3, <1>6
<1>7. ASSUME NEW c \in Caller, c \notin Waiters PROVE chan'[c] = chan[c]
  BY <1>3, <1>7
<1> QED BY <1>2, <1>4, <1>5, <1>6, <1>7


-----------------------------------------------------------------------------
(* The callers. *)

\* A step of a caller that has no request before or after it; it may close its
\* connection.
LEMMA IdleMoves ==
  ASSUME IInv, STypeOK', NEW c \in Caller,
         UNCHANGED <<ctxDone, conn, loop, reader, chan, pending>>,
         \A k \in Conn : sock'[k] = sock[k] \/ (sock'[k] = "closed" /\ sock[k] # "none"),
         up' \subseteq up, down' \subseteq down,
         \A b \in Caller : b # c => call'[b] = call[b],
         call[c].pc \notin Active, call'[c].pc \notin Active, call'[c].hop = None,
         call[c].pc \in {"return", "off"} => call'[c].pc = "off",
         c \in Conn => call'[c].pc \notin {"open", "request"},
         c \in Call => call'[c].pc # "idle",
         call[c].pc # "off",
         call'[c].pc = "return" <=> call'[c].out # "none",
         call'[c].out = "answer" => call'[c].of = c
  PROVE  IInv'
<1>1. Numbers'
  BY DEF IInv, Numbers
<1>2. Table' /\ Channels'
  <2>1. \A h \in Hop : pending[h] # c
    BY Sets DEF IInv, Table, Active, Registered
  <2>2. chan[c] = None
    BY DEF IInv, Channels, Active, Registered
  <2> QED BY <2>1, <2>2 DEF IInv, Table, Channels
<1>3. Readers'
  BY DEF IInv, Readers, Holds, Published, Active, Registered
<1>4. Messages'
  <2>1. \A b \in Caller, h \in Hop : call'[b].hop = h => call'[b] = call[b]
    BY Sets
  <2>2. c \in Call => call'[c].pc # "idle"
    OBVIOUS
  <2>3. \A m \in up' \cup down' : m \in up \cup down
    OBVIOUS
  <2> QED BY <2>1, <2>2, <2>3, Sets DEF IInv, Messages
<1>5. Results'
  BY DEF IInv, Results
<1>6. Connections'
  BY Sets DEF IInv, Connections, Published, Active
<1>7. Waiting'
  BY DEF IInv, Waiting, Holds, Active
<1> QED BY <1>1, <1>2, <1>3, <1>4, <1>5, <1>6, <1>7 DEF IInv

\* A caller without a request: waitOpen and the returns before a request, the
\* end of a watchdog.
LEMMA IdleSteps ==
  ASSUME IInv, NEW c \in Caller,
         \/ ExchangeEAP(c) \/ waitOpen(c) \/ (sendRequest(c) /\ conn = 0)
         \/ (watchdogTick(c) /\ UNCHANGED pending) \/ watchdogFailure(c)
  PROVE  IInv'
<1>0. STypeOK /\ (call[c].pc \notin Active => call[c].hop = None)
      /\ (call[c].out = "none" <=> call[c].pc # "return")
  BY DEF IInv, Numbers, Results
<1>1. CASE ExchangeEAP(c)
  <2>1. /\ UNCHANGED <<loopVars, netVars, readVars, chan, pending>> /\ call[c].pc = "idle" /\ c \in Call
        /\ Goto(c, "request") \/ call' = [call EXCEPT ![c].pc = "open", ![c].gen = opened]
    BY <1>1 DEF ExchangeEAP, At
  <2>2. /\ call' \in [Caller -> CallState]
        /\ \A b \in Caller : b # c => call'[b] = call[b]
        /\ call'[c].pc \in {"request", "open"} /\ call'[c].hop = call[c].hop /\ call'[c].out = call[c].out
    BY <1>0, <2>1, CallGoesOn, CallWaitsOpen
  <2>3. STypeOK'
    BY <1>0, <2>1, <2>2 DEF STypeOK, loopVars, netVars, readVars
  <2> QED BY <1>0, <2>1, <2>2, <2>3, IdleMoves, Sets DEF loopVars, netVars, readVars, Active
<1>2. CASE waitOpen(c)
  <2>1. /\ UNCHANGED <<loopVars, netVars, readVars, chan, pending>> /\ call[c].pc = "open"
        /\ call' = [call EXCEPT ![c] = NewCaller("request")] \/ Fails(c)
    BY <1>2 DEF waitOpen, At
  <2>2. /\ call' \in [Caller -> CallState]
        /\ \A b \in Caller : b # c => call'[b] = call[b]
        /\ call'[c].hop = None
        /\ \/ call'[c].pc = "request" /\ call'[c].out = "none"
           \/ call'[c].pc = "return" /\ call'[c].out = "error"
    BY <1>0, <2>1, Restarts, CallFails
  <2>3. STypeOK'
    BY <1>0, <2>1, <2>2 DEF STypeOK, loopVars, netVars, readVars
  <2>4. c \notin Conn
    BY <2>1 DEF IInv, Connections
  <2> QED BY <2>1, <2>2, <2>3, <2>4, IdleMoves DEF loopVars, netVars, readVars, Active
<1>3. CASE sendRequest(c) /\ conn = 0
  <2>1. /\ UNCHANGED <<loopVars, netVars, readVars, chan, pending>> /\ call[c].pc = "request"
        /\ c \in Call /\ Fails(c)
    BY <1>3 DEF sendRequest, At
  <2>2. /\ call' \in [Caller -> CallState]
        /\ \A b \in Caller : b # c => call'[b] = call[b]
        /\ call'[c].hop = None /\ call'[c].pc = "return" /\ call'[c].out = "error"
    BY <1>0, <2>1, CallFails
  <2>3. STypeOK'
    BY <1>0, <2>1, <2>2 DEF STypeOK, loopVars, netVars, readVars
  <2> QED BY <2>1, <2>2, <2>3, IdleMoves DEF loopVars, netVars, readVars, Active
<1>4. CASE watchdogTick(c) /\ UNCHANGED pending
  <2>1. /\ UNCHANGED <<loopVars, netVars, readVars, chan, pending>> /\ call[c].pc = "idle" /\ c \in Conn
        /\ \/ call' = [call EXCEPT ![c] = NewCaller("off")]
           \/ \E h \in Hop : FreeHop(h) /\ pending' = [pending EXCEPT ![h] = c]
    BY <1>4 DEF watchdogTick, At
  <2>2. ASSUME NEW h \in Hop, FreeHop(h), pending' = [pending EXCEPT ![h] = c] PROVE FALSE
    <3>1. pending \in [Hop -> OrNone(Caller)] /\ pending[h] = None
      BY <1>0, <2>2 DEF STypeOK, FreeHop, InUse
    <3> QED BY <2>1, <2>2, <3>1, Sets
  <2>3. /\ call' \in [Caller -> CallState]
        /\ \A b \in Caller : b # c => call'[b] = call[b]
        /\ call'[c].hop = None /\ call'[c].pc = "off" /\ call'[c].out = "none"
    BY <1>0, <2>1, <2>2, Restarts
  <2>4. STypeOK'
    BY <1>0, <2>1, <2>3 DEF STypeOK, loopVars, netVars, readVars
  <2> QED BY <2>1, <2>3, <2>4, IdleMoves, Sets DEF loopVars, netVars, readVars, Active
<1>5. CASE watchdogFailure(c)
  <2>1. /\ UNCHANGED <<loopVars, readVars, chan, pending>> /\ call[c].pc = "return" /\ c \in Conn
        /\ call' = [call EXCEPT ![c] = NewCaller("off")] /\ CloseConn(c)
    BY <1>5 DEF watchdogFailure, At
  <2>2. /\ call' \in [Caller -> CallState]
        /\ \A b \in Caller : b # c => call'[b] = call[b]
        /\ call'[c].hop = None /\ call'[c].pc = "off" /\ call'[c].out = "none"
    BY <1>0, <2>1, Restarts
  <2>3. STypeOK'
    BY <1>0, <2>1, <2>2, ConnCloses DEF STypeOK, loopVars, readVars
  <2>4. sock[c] # "none"
    BY <2>1, Sets DEF IInv, Connections, Published, STypeOK
  <2> QED BY <1>0, <2>1, <2>2, <2>3, <2>4, IdleMoves, ConnCloses, Sets
          DEF loopVars, readVars, Active
<1> QED BY <1>1, <1>2, <1>3, <1>4, <1>5

\* A number that is free is nobody's.
LEMMA FreeNumber ==
  ASSUME NEW h \in Hop, FreeHop(h)
  PROVE  /\ pending[h] = None /\ \A c \in Caller : call[c].hop # h
         /\ \A m \in up \cup down : m.hop # h
BY DEF FreeHop, InUse

\* sendRequest on an open connection takes an identifier that nobody has.
LEMMA sendRequestKeeps ==
  ASSUME IInv, NEW c \in Caller, sendRequest(c), conn # 0
  PROVE  IInv'
<1>1. /\ UNCHANGED <<loopVars, netVars, readVars, chan, pending>> /\ call[c].pc = "request" /\ c \in Call
      /\ \E h \in Hop : FreeHop(h) /\ TakesNumber(c, "register", h, conn)
  BY DEF sendRequest, At, TakesNumber
<1> PICK h \in Hop : FreeHop(h) /\ TakesNumber(c, "register", h, conn)
  BY <1>1
<1>2. STypeOK /\ conn \in Conn
  BY Sets DEF IInv, STypeOK
<1>3. /\ call' \in [Caller -> CallState]
      /\ \A b \in Caller : b # c => call'[b] = call[b]
      /\ call'[c].pc = "register" /\ call'[c].hop = h /\ call'[c].conn = conn
      /\ call'[c].out = call[c].out
  BY <1>2, NumberTaken
<1>4. STypeOK'
  BY <1>1, <1>2, <1>3 DEF STypeOK, loopVars, netVars, readVars
<1> USE <1>1, <1>3 DEF loopVars, netVars, readVars
<1>5. Numbers'
  BY FreeNumber, Sets DEF IInv, Numbers, Active
<1>6. Table' /\ Channels'
  <2>1. chan[c] = None /\ \A g \in Hop : pending[g] # c
    BY Sets DEF IInv, Table, Channels, Registered
  <2> QED BY <2>1 DEF IInv, Table, Channels
<1>7. Readers'
  BY DEF IInv, Readers, Holds, Published, Registered
<1>8. Messages'
  <2>1. \A m \in up \cup down : m.hop # h
    BY FreeNumber
  <2> QED BY <2>1 DEF IInv, Messages
<1>9. Results' /\ Waiting'
  BY DEF IInv, Results, Waiting, Holds
<1>10. Connections'
  BY Sets DEF IInv, Connections, Published, Active
<1> QED BY <1>4, <1>5, <1>6, <1>7, <1>8, <1>9, <1>10 DEF IInv

\* A request enters the map under a number that nobody else has.
LEMMA RequestRegistered ==
  ASSUME IInv, STypeOK', NEW c \in Caller, NEW h \in Hop,
         UNCHANGED <<loopVars, netVars, readVars, chan>>,
         call[c].pc \in {"register", "idle"},
         \A b \in Caller : b # c => call'[b] = call[b] /\ call[b].hop # h,
         call'[c].pc = "write", call'[c].hop = h, call'[c].conn # 0, Published(call'[c].conn),
         call'[c].out = call[c].out,
         c \in Conn => Published(c),
         pending'[h] = c, \A g \in Hop : g # h => pending'[g] = pending[g],
         \A m \in up \cup down : m.hop # h
  PROVE  IInv'
<1> USE DEF loopVars, netVars, readVars
<1>1. Numbers'
  BY Sets DEF IInv, Numbers, Active
<1>2. chan[c] = None /\ \A g \in Hop : pending[g] # c
  BY Sets DEF IInv, Table, Channels, Registered
<1>3. Table'
  <2>1. \A g \in Hop : pending'[g] # None =>
          (g = h /\ pending'[g] = c) \/ (pending'[g] = pending[g] /\ pending[g] # c /\ pending[g] # None)
    BY <1>2
  <2>2. \A g \in Hop : pending[g] # None /\ pending[g] # c =>
          call'[pending[g]] = call[pending[g]] /\ chan'[pending[g]] = chan[pending[g]]
    BY DEF IInv, Table
  <2> QED BY <1>2, <2>1, <2>2 DEF IInv, Table, Registered
<1>4. Channels'
  BY <1>2 DEF IInv, Channels
<1>5. Readers'
  <2>1. \A k \in Conn : ~Holds(k, c)
    BY DEF IInv, Readers, Registered
  <2>2. \A b \in Caller : b # c => \A g \in Hop : pending[g] # b => pending'[g] # b
    OBVIOUS
  <2> QED BY <2>1, <2>2 DEF IInv, Readers, Holds, Published
<1>6. Messages'
  BY DEF IInv, Messages
<1>7. Results'
  BY DEF IInv, Results
<1>8. Connections'
  BY Sets DEF IInv, Connections, Published, Active
<1>9. Waiting'
  <2>1. \A b \in Caller : b # c /\ call[b].pc \in {"write", "wait"} => call[b].hop \in Hop /\ call[b].hop # h
    BY DEF IInv, Numbers, Active
  <2> QED BY <2>1 DEF IInv, Waiting, Holds
<1> QED BY <1>1, <1>3, <1>4, <1>5, <1>6, <1>7, <1>8, <1>9 DEF IInv

\* register puts the request of a call into the map.
LEMMA registerKeeps ==
  ASSUME IInv, NEW c \in Caller, register(c)
  PROVE  IInv'
<1>1. /\ UNCHANGED <<loopVars, netVars, readVars, chan>> /\ call[c].pc = "register"
      /\ pending' = [pending EXCEPT ![call[c].hop] = c] /\ Goto(c, "write") /\ STypeOK
  BY DEF register, At, IInv
<1>2. call[c].hop \in Hop /\ \A b \in Caller : b # c => call[b].hop # call[c].hop
  BY <1>1, Sets DEF IInv, Numbers, Active
<1>3. /\ call' \in [Caller -> CallState]
      /\ \A b \in Caller : b # c => call'[b] = call[b]
      /\ call'[c].pc = "write" /\ call'[c].hop = call[c].hop /\ call'[c].conn = call[c].conn
      /\ call'[c].out = call[c].out
  BY <1>1, CallGoesOn
<1>4. /\ pending' \in [Hop -> OrNone(Caller)] /\ pending'[call[c].hop] = c
      /\ \A g \in Hop : g # call[c].hop => pending'[g] = pending[g]
  BY <1>1, <1>2 DEF STypeOK, OrNone
<1>5. STypeOK'
  BY <1>1, <1>3, <1>4 DEF STypeOK, loopVars, netVars, readVars
<1>6. \A m \in up \cup down : m.hop # call[c].hop
  BY <1>1 DEF IInv, Messages
<1>7. call[c].conn # 0 /\ Published(call[c].conn) /\ c \notin Conn
  BY <1>1 DEF IInv, Connections, Active
<1> QED BY <1>1, <1>2, <1>3, <1>4, <1>5, <1>6, <1>7, RequestRegistered

\* The tick of a watchdog ends it, or takes an identifier and registers the
\* watchdog request at once.
LEMMA watchdogTickKeeps ==
  ASSUME IInv, NEW c \in Caller, watchdogTick(c)
  PROVE  IInv'
<1>1. /\ UNCHANGED <<loopVars, netVars, readVars, chan>> /\ c \in Conn /\ call[c].pc = "idle"
      /\ \/ UNCHANGED pending
         \/ \E h \in Hop : /\ FreeHop(h) /\ TakesNumber(c, "write", h, c)
                           /\ pending' = [pending EXCEPT ![h] = c]
  BY DEF watchdogTick, At, TakesNumber
<1>2. CASE UNCHANGED pending
  BY <1>2, IdleSteps
<1>3. ASSUME NEW h \in Hop, FreeHop(h), TakesNumber(c, "write", h, c),
             pending' = [pending EXCEPT ![h] = c]
      PROVE  IInv'
  <2>1. STypeOK
    BY DEF IInv
  <2>2. /\ call' \in [Caller -> CallState]
        /\ \A b \in Caller : b # c => call'[b] = call[b]
        /\ call'[c].pc = "write" /\ call'[c].hop = h /\ call'[c].conn = c
        /\ call'[c].out = call[c].out
    BY <1>1, <1>3, <2>1, NumberTaken
  <2>3. /\ pending' \in [Hop -> OrNone(Caller)] /\ pending'[h] = c
        /\ \A g \in Hop : g # h => pending'[g] = pending[g]
    BY <1>3, <2>1 DEF STypeOK, OrNone
  <2>4. STypeOK'
    BY <1>1, <2>1, <2>2, <2>3 DEF STypeOK, loopVars, netVars, readVars
  <2>5. c # 0 /\ Published(c)
    BY <1>1, Sets DEF IInv, Connections
  <2> QED BY <1>1, <1>3, <2>2, <2>3, <2>4, <2>5, FreeNumber, RequestRegistered
<1> QED BY <1>1, <1>2, <1>3

\* A request is written: on a connection that is not closed, which is the one
\* that is watched.
LEMMA RequestWritten ==
  ASSUME IInv, NEW c \in Caller, call[c].pc = "write", sock[call[c].conn] # "closed",
         Goto(c, "wait"),
         up' \in {up, up \cup {[conn |-> call[c].conn, hop |-> call[c].hop, of |-> c]}},
         UNCHANGED <<loopVars, sock, down, readVars, chan, pending>>
  PROVE  IInv'
<1> DEFINE k == call[c].conn
           m == [conn |-> k, hop |-> call[c].hop, of |-> c]
<1>1. STypeOK /\ sock[k] # "closed" /\ (up' = up \/ up' = up \cup {m})
  BY DEF IInv
<1>2. /\ call' \in [Caller -> CallState]
      /\ \A b \in Caller : b # c => call'[b] = call[b]
      /\ call'[c].pc = "wait" /\ call'[c].hop = call[c].hop /\ call'[c].conn = k
      /\ call'[c].out = call[c].out
  BY <1>1, CallGoesOn
<1>3. call[c].hop \in Hop /\ k \in Conn /\ Published(k)
  BY <1>1, Sets DEF IInv, Numbers, Connections, Active, STypeOK, CallState
<1>4. loop.conn = k /\ loop.pc = "select"
  BY <1>1, <1>3, Sets DEF IInv, Connections, Published, STypeOK
<1>5. m \in Message /\ m.hop = call[c].hop /\ m.of = c
  BY <1>3 DEF Message
<1> HIDE DEF k, m
<1>6. STypeOK'
  BY <1>1, <1>2, <1>5 DEF STypeOK, loopVars, readVars
<1> USE <1>1, <1>2 DEF loopVars, readVars
<1>7. Numbers'
  BY DEF IInv, Numbers, Active
<1>8. Table' /\ Channels' /\ Readers'
  BY DEF IInv, Table, Channels, Readers, Holds, Published, Registered
<1>9. Messages'
  <2>1. \A x \in up' \cup down' : x \in up \cup down \/ x = m
    OBVIOUS
  <2>2. \A b \in Caller : call'[b].hop = call[c].hop => b = c
    BY <1>3, Sets DEF IInv, Numbers
  <2> QED BY <1>3, <1>5, <2>1, <2>2 DEF IInv, Messages
<1>10. Results'
  BY DEF IInv, Results
<1>11. Connections'
  BY Sets DEF IInv, Connections, Published, Active, k
<1>12. Waiting'
  BY <1>4 DEF IInv, Waiting, Holds
<1> QED BY <1>6, <1>7, <1>8, <1>9, <1>10, <1>11, <1>12 DEF IInv

\* A call gives up its request: the write failed or the time is over.
LEMMA GiveUpKeeps ==
  ASSUME IInv, NEW c \in Caller, call[c].pc \in {"write", "wait"}, Goto(c, "unregister"),
         UNCHANGED <<loopVars, netVars, readVars, chan, pending>>
  PROVE  IInv'
<1>1. STypeOK
  BY DEF IInv
<1>2. /\ call' \in [Caller -> CallState]
      /\ \A b \in Caller : b # c => call'[b] = call[b]
      /\ call'[c].pc = "unregister" /\ call'[c].hop = call[c].hop /\ call'[c].conn = call[c].conn
      /\ call'[c].out = call[c].out
  BY <1>1, CallGoesOn
<1>3. STypeOK'
  BY <1>1, <1>2 DEF STypeOK, loopVars, netVars, readVars
<1> USE <1>2 DEF loopVars, netVars, readVars
<1>4. Numbers' /\ Results' /\ Waiting'
  BY DEF IInv, Numbers, Results, Waiting, Holds, Active
<1>5. Table' /\ Channels' /\ Readers'
  BY DEF IInv, Table, Channels, Readers, Holds, Published, Registered
<1>6. Messages'
  BY DEF IInv, Messages
<1>7. Connections'
  BY Sets DEF IInv, Connections, Published, Active
<1> QED BY <1>3, <1>4, <1>5, <1>6, <1>7 DEF IInv

\* A request ends: it has left the map and its channel is empty.
LEMMA RequestEnds ==
  ASSUME IInv, STypeOK', NEW c \in Caller, call[c].pc \in Registered,
         UNCHANGED <<loopVars, netVars, readVars>>,
         \A b \in Caller : b # c => call'[b] = call[b] /\ chan'[b] = chan[b],
         call'[c].hop = None, chan'[c] = None,
         \A h \in Hop : pending'[h] = IF h = call[c].hop THEN None ELSE pending[h],
         \/ call'[c].pc = "return" /\ call'[c].out # "none"
         \/ c \in Conn /\ call'[c].pc = "idle" /\ call'[c].out = "none" /\ \A k \in Conn : ~Holds(k, c),
         call'[c].out = "answer" => call'[c].of = c
  PROVE  IInv'
<1> USE DEF loopVars, netVars, readVars
<1>1. Numbers' /\ Results'
  BY DEF IInv, Numbers, Results, Active
<1>2. call[c].hop \in Hop /\ \A b \in Caller : b # c => call[b].hop # call[c].hop
  BY Sets DEF IInv, Numbers, Active, Registered
<1>3. Table'
  BY <1>2 DEF IInv, Table
<1>4. Channels'
  BY DEF IInv, Channels
<1>5. Readers'
  BY Sets DEF IInv, Readers, Holds, Published, Registered
<1>6. Messages'
  BY Sets DEF IInv, Messages
<1>7. Connections'
  BY Sets DEF IInv, Connections, Published, Active, Registered
<1>8. Waiting'
  <2>1. \A b \in Caller : b # c /\ call[b].pc \in {"write", "wait"} =>
          call[b].hop \in Hop /\ call[b].hop # call[c].hop
    BY <1>2 DEF IInv, Numbers, Active
  <2> QED BY <2>1 DEF IInv, Waiting, Holds
<1> QED BY <1>1, <1>3, <1>4, <1>5, <1>6, <1>7, <1>8 DEF IInv

\* The last three steps of a request.
LEMMA RequestSteps ==
  ASSUME IInv, NEW c \in Caller, write(c) \/ receive(c) \/ unregister(c)
  PROVE  IInv'
<1>0. /\ STypeOK /\ chan \in [Caller -> OrNone(Reply)] /\ pending \in [Hop -> OrNone(Caller)]
  BY DEF IInv, STypeOK
<1>1. CASE write(c)
  <2>1. /\ call[c].pc = "write" /\ UNCHANGED <<loopVars, sock, down, readVars, chan, pending>>
        /\ \/ /\ sock[call[c].conn] # "closed" /\ Goto(c, "wait")
              /\ up' \in {up, up \cup {[conn |-> call[c].conn, hop |-> call[c].hop, of |-> c]}}
           \/ Goto(c, "unregister") /\ UNCHANGED up
    BY <1>1 DEF write, At
  <2>2. CASE Goto(c, "unregister") /\ UNCHANGED up
    BY <2>1, <2>2, GiveUpKeeps DEF netVars
  <2> QED BY <2>1, <2>2, RequestWritten
<1>2. CASE receive(c)
  <2>1. /\ call[c].pc = "wait" /\ UNCHANGED <<loopVars, netVars, readVars, pending>>
        /\ \/ chan[c] # None /\ Received(c) /\ chan' = [chan EXCEPT ![c] = None]
           \/ Goto(c, "unregister") /\ UNCHANGED chan
    BY <1>2 DEF receive, At
  <2>2. ASSUME chan[c] # None, Received(c), chan' = [chan EXCEPT ![c] = None]
        PROVE  IInv'
    <3>1. /\ chan' \in [Caller -> OrNone(Reply)] /\ chan'[c] = None
          /\ \A b \in Caller : b # c => chan'[b] = chan[b]
      BY <1>0, <2>2 DEF OrNone
    <3>2. chan[c] \in Reply /\ chan[c].of = c /\ \A k \in Conn : ~Holds(k, c)
      BY <1>0, <2>2 DEF OrNone, IInv, Channels, Readers
    <3>3. \A h \in Hop : pending[h] # c
      BY <2>2, Sets DEF IInv, Table
    <3>4. /\ call' \in [Caller -> CallState] /\ \A b \in Caller : b # c => call'[b] = call[b]
          /\ call'[c].hop = None
          /\ \/ call'[c].pc = "return" /\ call'[c].out # "none"
             \/ c \in Conn /\ call'[c].pc = "idle" /\ call'[c].out = "none"
          /\ call'[c].out = "answer" => call'[c].of = c
      <4>1. CASE Fails(c)
        BY <1>0, <4>1, CallFails
      <4>2. CASE Returns(c, "answer", chan[c].of)
        BY <1>0, <3>2, <4>2, CallReturns DEF OrNone
      <4>3. CASE c \in Conn /\ call' = [call EXCEPT ![c] = NewCaller("idle")]
        BY <1>0, <4>3, Restarts
      <4> QED BY <2>2, <4>1, <4>2, <4>3 DEF Received
    <3>5. STypeOK'
      BY <1>0, <2>1, <3>1, <3>4 DEF STypeOK, loopVars, netVars, readVars
    <3>6. \A h \in Hop : pending'[h] = IF h = call[c].hop THEN None ELSE pending[h]
      <4>1. \A h \in Hop : pending[h] # None => call[pending[h]].hop # call[c].hop
        <5> SUFFICES ASSUME NEW h \in Hop, pending[h] # None
                     PROVE  call[pending[h]].hop # call[c].hop
          OBVIOUS
        <5>1. pending[h] \in Caller /\ call[pending[h]].hop = h /\ pending[h] # c
          BY <3>3 DEF IInv, Table
        <5>2. h # None
          BY Sets
        <5> QED BY <5>1, <5>2 DEF IInv, Numbers
      <4> QED BY <2>1, <4>1 DEF IInv, Table
    <3> QED BY <2>1, <3>1, <3>2, <3>4, <3>5, <3>6, RequestEnds DEF Registered
  <2>3. CASE Goto(c, "unregister") /\ UNCHANGED chan
    BY <2>1, <2>3, GiveUpKeeps
  <2> QED BY <2>1, <2>2, <2>3
<1>3. CASE unregister(c)
  <2>1. /\ call[c].pc = "unregister" /\ UNCHANGED <<loopVars, netVars, readVars>>
        /\ pending' = [pending EXCEPT ![call[c].hop] = None]
        /\ Fails(c) /\ chan' = [chan EXCEPT ![c] = None]
    BY <1>3 DEF unregister, At
  <2>2. /\ call' \in [Caller -> CallState] /\ \A b \in Caller : b # c => call'[b] = call[b]
        /\ call'[c].pc = "return" /\ call'[c].hop = None /\ call'[c].out = "error"
    BY <1>0, <2>1, CallFails
  <2>3. /\ chan' \in [Caller -> OrNone(Reply)] /\ chan'[c] = None
        /\ \A b \in Caller : b # c => chan'[b] = chan[b]
    BY <1>0, <2>1 DEF OrNone
  <2>4. /\ pending' \in [Hop -> OrNone(Caller)]
        /\ \A h \in Hop : pending'[h] = IF h = call[c].hop THEN None ELSE pending[h]
    BY <1>0, <2>1 DEF OrNone
  <2>5. STypeOK'
    BY <1>0, <2>1, <2>2, <2>3, <2>4 DEF STypeOK, loopVars, netVars, readVars
  <2> QED BY <2>1, <2>2, <2>3, <2>4, <2>5, RequestEnds DEF Registered
<1> QED BY <1>1, <1>2, <1>3

-----------------------------------------------------------------------------
(* The readers and the network. *)

\* An answer is read and its channel taken from the map.
LEMMA readAnswerKeeps ==
  ASSUME IInv, NEW k \in Conn, readAnswer(k)
  PROVE  IInv'
<1>1. PICK m \in down :
        /\ down' = down \ {m}
        /\ pending' = [pending EXCEPT ![m.hop] = None]
        /\ reader' = IF channelOf(m) = None THEN reader
                     ELSE [reader EXCEPT ![k] = Reader("send", channelOf(m), m.of)]
  BY DEF readAnswer
<1> DEFINE c == pending[m.hop]
<1>2. /\ UNCHANGED <<loopVars, sock, up, errCh, call, chan>> /\ reader[k].pc = "read"
      /\ m.hop \in Hop /\ m.of \in Caller
  BY DEF readAnswer, IInv, Messages
<1>3. /\ pending' \in [Hop -> OrNone(Caller)] /\ pending'[m.hop] = None
      /\ \A h \in Hop : h # m.hop => pending'[h] = pending[h]
  BY <1>1, <1>2 DEF IInv, STypeOK, OrNone
<1>4. c # None => /\ c \in Caller /\ m.of = c /\ call[c].pc \in Registered /\ chan[c] = None
                  /\ call[c].hop = m.hop /\ (c \in Conn => Published(c))
  <2>1. c # None => /\ c \in Caller /\ call[c].pc \in Registered /\ chan[c] = None
                    /\ call[c].hop = m.hop
    BY <1>2 DEF IInv, Table
  <2>2. c # None => m.of = c
    BY <1>2, <2>1 DEF IInv, Messages
  <2> QED BY <2>1, <2>2 DEF IInv, Connections, Registered
<1>5. c = None => reader' = reader
  BY <1>1 DEF channelOf
<1>6. c # None => /\ reader' \in [Conn -> [pc: {"off", "read", "send", "handler", "exit"},
                                          ch: OrNone(Caller), of: OrNone(Caller)]]
                  /\ reader'[k].pc = "send" /\ reader'[k].ch = c /\ reader'[k].of = c
                  /\ \A j \in Conn : j # k => reader'[j] = reader[j]
  BY <1>1, <1>4 DEF channelOf, Reader, IInv, STypeOK, OrNone
<1>7. c # None => \A h \in Hop : pending[h] = c => h = m.hop
  BY <1>4 DEF IInv, Table
<1>8. \A h \in Hop : pending'[h] # None => pending'[h] = pending[h] /\ pending[h] # c
  BY <1>2, <1>3, <1>7
<1>9. \A b \in Caller : (b # c /\ b # None => \A j \in Conn : Holds(j, b)' <=> Holds(j, b))
  BY <1>2, <1>5, <1>6 DEF Holds
<1>10. \A j \in Conn : ~Holds(j, c)
  BY <1>2, <1>4, Sets DEF IInv, Readers, Holds
<1> HIDE DEF c
<1>11. STypeOK'
  BY <1>1, <1>2, <1>3, <1>5, <1>6 DEF IInv, STypeOK, loopVars
<1> USE <1>2 DEF loopVars
<1>12. Numbers' /\ Results'
  BY DEF IInv, Numbers, Results
<1>13. Table' /\ Channels'
  BY <1>8 DEF IInv, Table, Channels
<1>14. Readers'
  BY <1>4, <1>5, <1>6, <1>8, <1>9, <1>10, Sets DEF IInv, Readers, Holds, Published, Registered
<1>15. Messages'
  BY <1>1 DEF IInv, Messages
<1>16. Connections'
  BY <1>5, <1>6 DEF IInv, Connections, Published
<1>17. Waiting'
  <2>1. \A b \in Caller : call[b].pc \in {"write", "wait"} => call[b].hop \in Hop
    BY DEF IInv, Numbers, Active
  <2>2. \A b \in Caller, j \in Conn : Holds(j, b) => Holds(j, b)'
    BY <1>9, <1>10, Sets
  <2>3. \A b \in Caller : b = c => Holds(k, b)'
    BY <1>6, Sets DEF Holds
  <2>4. \A b \in Caller, h \in Hop : pending[h] = b => pending'[h] = b \/ Holds(k, b)'
    BY <1>3, <2>3, Sets DEF c
  <2>5. \A b \in Caller, h \in Hop : pending'[h] = b => pending[h] = b
    BY <1>8, Sets
  <2> QED BY <2>1, <2>2, <2>4, <2>5 DEF IInv, Waiting
<1> QED BY <1>11, <1>12, <1>13, <1>14, <1>15, <1>16, <1>17 DEF IInv

\* The reader sends the reply on the channel it took from the map, or on one
\* whose caller has left: nobody reads that one again.
LEMMA deliverKeeps ==
  ASSUME IInv, NEW k \in Conn, deliver(k)
  PROVE  IInv'
<1> DEFINE c == reader[k].ch
<1>1. /\ UNCHANGED <<loopVars, netVars, errCh, call, pending>> /\ Holds(k, c)
      /\ c \in Caller /\ reader[k].of = c
      /\ chan' = IF call[c].pc \in {"write", "wait"}
                 THEN [chan EXCEPT ![c] = [err |-> FALSE, of |-> c]] ELSE chan
      /\ reader' = [reader EXCEPT ![k] = Reader("read", None, None)]
  BY DEF deliver, IInv, Readers, Holds
<1>2. chan \in [Caller -> OrNone(Reply)] /\ [err |-> FALSE, of |-> c] \in Reply
  BY <1>1 DEF IInv, STypeOK, Reply
<1>3. /\ chan' \in [Caller -> OrNone(Reply)] /\ \A b \in Caller : b # c => chan'[b] = chan[b]
      /\ chan'[c] # None => chan'[c].of = c /\ call[c].pc \in {"write", "wait"}
      /\ call[c].pc \in {"write", "wait"} => chan'[c] \in Reply
  BY <1>1, <1>2 DEF OrNone, IInv, Readers
<1>4. /\ reader' \in [Conn -> [pc: {"off", "read", "send", "handler", "exit"},
                               ch: OrNone(Caller), of: OrNone(Caller)]]
      /\ reader'[k].pc = "read" /\ \A j \in Conn : j # k => reader'[j] = reader[j]
  BY <1>1 DEF Reader, IInv, STypeOK, OrNone
<1>5. \A j \in Conn, b \in Caller : Holds(j, b)' <=> Holds(j, b) /\ b # c
  BY <1>1, <1>4 DEF Holds, IInv, Readers
<1> HIDE DEF c
<1>7. STypeOK'
  BY <1>1, <1>3, <1>4 DEF IInv, STypeOK, loopVars, netVars
<1> USE <1>1 DEF loopVars, netVars
<1>8. Numbers' /\ Results' /\ Messages'
  BY DEF IInv, Numbers, Results, Messages
<1>9. Table' /\ Channels'
  BY <1>3 DEF IInv, Table, Channels, Readers, Registered
<1>10. Readers'
  BY <1>3, <1>4, <1>5 DEF IInv, Readers, Published, Holds
<1>11. Connections'
  BY <1>4 DEF IInv, Connections, Published, Holds
<1>12. Waiting'
  BY <1>3, <1>5, NilAssumption DEF IInv, Waiting
<1> QED BY <1>7, <1>8, <1>9, <1>10, <1>11, <1>12 DEF IInv

\* The other steps of a reader.
LEMMA ReaderSteps ==
  ASSUME IInv, NEW k \in Conn, ReaderStep(k)
  PROVE  IInv'
<1>1. CASE handleRequest(k) \/ startHandler(k) \/ readError(k)
  <2>1. /\ UNCHANGED <<loopVars, netVars, callVars>> /\ reader[k].pc \in {"read", "handler"}
        /\ errCh' \subseteq Conn
        /\ \E l \in {"handler", "read", "exit"} : reader' = [reader EXCEPT ![k] = Reader(l, None, None)]
    BY <1>1 DEF handleRequest, startHandler, readError, IInv, STypeOK
  <2>2. /\ reader' \in [Conn -> [pc: {"off", "read", "send", "handler", "exit"},
                                 ch: OrNone(Caller), of: OrNone(Caller)]]
        /\ reader'[k].pc # "send" /\ \A j \in Conn : j # k => reader'[j] = reader[j]
    BY <2>1 DEF Reader, IInv, STypeOK, OrNone
  <2>3. STypeOK'
    BY <2>1, <2>2 DEF IInv, STypeOK, loopVars, netVars, callVars
  <2>4. \A j \in Conn, c \in Caller : Holds(j, c)' <=> Holds(j, c)
    BY <2>1, <2>2 DEF Holds
  <2> USE <2>1 DEF loopVars, netVars, callVars
  <2>5. Numbers' /\ Table' /\ Channels' /\ Results' /\ Messages'
    BY DEF IInv, Numbers, Table, Channels, Results, Messages
  <2>6. Readers' /\ Waiting'
    BY <2>2, <2>4 DEF IInv, Readers, Waiting, Published
  <2>7. Connections'
    BY <2>2 DEF IInv, Connections, Published
  <2> QED BY <2>3, <2>5, <2>6, <2>7 DEF IInv
<1> QED BY <1>1, readAnswerKeeps, deliverKeeps DEF ReaderStep

\* The AAA answers, or is gone.
LEMMA NetworkSteps ==
  ASSUME IInv, aaaAnswers \/ aaaCloses \/ aaaVanishes
  PROVE  IInv'
<1>1. /\ UNCHANGED <<loopVars, readVars, callVars>> /\ up' \cup down' \subseteq up \cup down
      /\ \/ sock' = sock
         \/ \E k \in Established : sock' = [sock EXCEPT ![k] = "broken"]
         \/ \E k \in Established : sock' = [sock EXCEPT ![k] = "dead"]
  BY DEF aaaAnswers, aaaCloses, aaaVanishes
<1>2. /\ sock' \in [Conn -> {"none", "up", "broken", "dead", "closed"}]
      /\ \A k \in Conn : sock'[k] = sock[k] \/ (sock[k] = "up" /\ sock'[k] \in {"broken", "dead"})
  BY <1>1 DEF IInv, STypeOK, Established
<1>3. STypeOK'
  BY <1>1, <1>2 DEF IInv, STypeOK, loopVars, readVars, callVars
<1> USE <1>1 DEF loopVars, readVars, callVars
<1>4. Numbers' /\ Table' /\ Channels' /\ Results' /\ Readers' /\ Waiting'
  BY DEF IInv, Numbers, Table, Channels, Results, Readers, Waiting, Holds, Published
<1>5. Messages'
  BY DEF IInv, Messages
<1>6. Connections'
  BY <1>2 DEF IInv, Connections, Published
<1> QED BY <1>3, <1>4, <1>5, <1>6 DEF IInv

-----------------------------------------------------------------------------
(* connectLoop, Start and Stop. *)

\* What was published stays so.
LEMMA StaysPublished ==
  ASSUME STypeOK, STypeOK',
         \/ loop'.conn = loop.conn /\ (loop'.pc = "handshake" => loop.pc = "handshake")
         \/ loop'.conn > loop.conn
  PROVE  \A k \in 0..MaxConn : Published(k) => Published(k)'
BY STaAssumption DEF STypeOK, Published

\* A step of connectLoop that keeps its connection and the requests.
LEMMA LoopMoves ==
  ASSUME IInv, STypeOK', UNCHANGED <<ctxDone, conn, readVars, callVars>>,
         loop'.conn = loop.conn, loop'.pc # "handshake",
         \A k \in Conn : sock'[k] = sock[k] \/ (sock'[k] = "closed" /\ sock[k] # "none"),
         \A k \in Conn : sock'[k] \notin {"none", "closed"} => loop'.pc = "select" /\ k = loop.conn,
         up' \subseteq up, down' \subseteq down,
         loop'.pc \in {"select", "fail"} => loop.conn # 0,
         loop.pc \in {"select", "fail"} => ctxDone \/ loop'.pc \in {"select", "fail"}
  PROVE  IInv'
<1> USE DEF readVars, callVars
<1>1. \A k \in 0..MaxConn : Published(k) => Published(k)'
  BY StaysPublished DEF IInv
<1>2. Numbers' /\ Table' /\ Channels' /\ Results'
  BY DEF IInv, Numbers, Table, Channels, Results
<1>3. Readers'
  BY <1>1, Sets DEF IInv, Readers, Holds
<1>4. Messages'
  BY DEF IInv, Messages
<1>5. Connections'
  <2>1. conn # 0 => Published(conn)'
    BY <1>1 DEF IInv, Connections, STypeOK
  <2>2. \A c \in Caller : call[c].pc \in Active => call[c].conn # 0 /\ Published(call[c].conn)'
    BY <1>1 DEF IInv, Connections, STypeOK, CallState
  <2>3. \A k \in Conn : ~Published(k)' => ~Published(k)
    BY <1>1, Sets
  <2> QED BY <2>1, <2>2, <2>3 DEF IInv, Connections
<1>6. Waiting'
  BY DEF IInv, Waiting, Holds
<1> QED BY <1>2, <1>3, <1>4, <1>5, <1>6 DEF IInv

\* The requests fail: every channel of the map was empty and has an error.
LEMMA RequestsFail ==
  ASSUME IInv, STypeOK', UNCHANGED <<reader, call>>, failPendingLocked,
         loop'.conn = loop.conn, loop'.pc = "handshake" => loop.pc = "handshake"
  PROVE  Numbers' /\ Table' /\ Channels' /\ Readers' /\ Results' /\ Waiting'
<1>1. /\ \A h \in Hop : pending'[h] = None
      /\ \A c \in Caller :
           \/ /\ \E h \in Hop : pending[h] = c
              /\ chan[c] = None /\ chan'[c] \in Reply /\ chan'[c].of = c
           \/ chan'[c] = chan[c] /\ \A h \in Hop : pending[h] # c
  BY PendingFails DEF IInv
<1>2. \A k \in 0..MaxConn : Published(k) => Published(k)'
  BY StaysPublished DEF IInv
<1>3. Numbers' /\ Results' /\ Table'
  BY <1>1 DEF IInv, Numbers, Results, Table
<1>4. Channels'
  BY <1>1, Sets DEF IInv, Channels, Table
<1>5. Readers'
  <2>1. \A k \in Conn, c \in Caller : Holds(k, c) => chan'[c] = chan[c]
    BY <1>1 DEF IInv, Readers
  <2> QED BY <1>1, <1>2, <2>1, Sets DEF IInv, Readers, Holds
<1>6. Waiting'
  <2>1. \A c \in Caller : call[c].pc \in {"write", "wait"} => call[c].hop \in Hop
    BY DEF IInv, Numbers, Active
  <2>2. \A c \in Caller : chan[c] # None => chan'[c] # None
    BY <1>1
  <2>3. \A c \in Caller, h \in Hop : pending[h] = c => chan'[c] # None
    BY <1>1, NilAssumption
  <2>4. \A c \in Caller : call[c].pc \in {"write", "wait"} =>
           chan'[c] # None \/ \E k \in Conn : Holds(k, c)
    BY <2>1, <2>2, <2>3 DEF IInv, Waiting
  <2>5. \A c \in Caller : call[c].pc \in {"write", "wait"} => pending'[call[c].hop] # c
    <3>1. \A h \in Hop : pending'[h] = None
      BY <1>1
    <3> QED BY <2>1, <3>1, Sets
  <2> QED BY <2>4, <2>5 DEF Waiting, Holds
<1> QED BY <1>3, <1>4, <1>5, <1>6

\* Stop closes the connection and fails every request in the map.
LEMMA StopKeeps ==
  ASSUME IInv, Stop
  PROVE  IInv'
<1>1. /\ UNCHANGED <<conn, opened, loop, readVars, call>> /\ ctxDone' = TRUE /\ status' = "stopped"
      /\ failPendingLocked /\ IF conn # 0 THEN CloseConn(conn) ELSE UNCHANGED netVars
  BY DEF Stop
<1>2. conn # 0 => conn \in Conn /\ sock[conn] # "none"
  BY Sets DEF IInv, STypeOK, Connections, Published
<1>3. /\ sock' \in [Conn -> {"none", "up", "broken", "dead", "closed"}]
      /\ \A k \in Conn : sock'[k] = sock[k] \/ (sock'[k] = "closed" /\ sock[k] # "none")
      /\ up' \subseteq up /\ down' \subseteq down
  BY <1>1, <1>2, ConnCloses DEF netVars, IInv, STypeOK
<1>4. STypeOK'
  BY <1>1, <1>3, PendingFails DEF IInv, STypeOK, readVars
<1>5. Numbers' /\ Table' /\ Channels' /\ Readers' /\ Results' /\ Waiting'
  BY <1>1, <1>4, RequestsFail DEF readVars
<1>6. Messages'
  BY <1>1, <1>3 DEF IInv, Messages
<1>7. Connections'
  BY <1>1, <1>3 DEF IInv, Connections, Published, readVars
<1> QED BY <1>4, <1>5, <1>6, <1>7 DEF IInv

\* connectLoop, after a connection failed: the connection is withdrawn and
\* every request in the map fails.
LEMMA disconnectedKeeps ==
  ASSUME IInv, disconnected
  PROVE  IInv'
<1>1. /\ UNCHANGED <<ctxDone, opened, netVars, readVars, call>> /\ loop.pc = "fail"
      /\ loop' = [loop EXCEPT !.pc = "check"] /\ failPendingLocked
      /\ conn' = (IF conn = loop.conn THEN 0 ELSE conn) /\ status' = "disconnected"
  BY DEF disconnected
<1>2. loop'.pc = "check" /\ loop'.conn = loop.conn
  BY <1>1 DEF IInv, STypeOK
<1>3. STypeOK'
  BY <1>1, PendingFails, STaAssumption DEF IInv, STypeOK, readVars, netVars
<1>4. Numbers' /\ Table' /\ Channels' /\ Readers' /\ Results' /\ Waiting'
  BY <1>1, <1>2, <1>3, RequestsFail DEF readVars
<1>5. Messages'
  BY <1>1 DEF IInv, Messages, netVars
<1>6. Connections'
  BY <1>1, <1>2 DEF IInv, Connections, Published, readVars, netVars
<1> QED BY <1>3, <1>4, <1>5, <1>6 DEF IInv

\* A dial that succeeds: a new connection, which nobody knows.
LEMMA DialKeeps ==
  ASSUME IInv, loop.pc = "check", loop.conn < MaxConn,
         loop' = [pc |-> "handshake", conn |-> loop.conn + 1],
         sock' = [sock EXCEPT ![loop.conn + 1] = "up"], status' = "connecting",
         UNCHANGED <<ctxDone, conn, opened, up, down, readVars, callVars>>
  PROVE  IInv'
<1>1. loop.conn \in Nat /\ loop.conn + 1 \in Conn /\ loop'.pc = "handshake"
      /\ loop'.conn = loop.conn + 1
  BY STaAssumption DEF IInv, STypeOK, Conn
<1>2. STypeOK'
  BY <1>1, Sets DEF IInv, STypeOK, readVars, callVars
<1>3. \A k \in 0..MaxConn : Published(k) <=> Published(k)'
  BY <1>1, STaAssumption DEF Published
<1>4. sock'[loop.conn + 1] = "up" /\ \A k \in Conn : k # loop.conn + 1 => sock'[k] = sock[k]
  BY <1>1 DEF IInv, STypeOK
<1> USE DEF readVars, callVars
<1>5. Numbers' /\ Table' /\ Channels' /\ Results' /\ Messages'
  BY DEF IInv, Numbers, Table, Channels, Results, Messages
<1>6. Readers'
  BY <1>3, Sets DEF IInv, Readers, Holds
<1>7. Connections'
  <2>1. conn # 0 => Published(conn)'
    BY <1>3 DEF IInv, Connections, STypeOK
  <2>2. \A c \in Caller : call[c].pc \in Active => call[c].conn # 0 /\ Published(call[c].conn)'
    BY <1>3 DEF IInv, Connections, STypeOK, CallState
  <2>3. \A k \in Conn : sock[k] \in {"none", "closed"}
    BY DEF IInv, Connections
  <2>4. \A k \in Conn : /\ sock'[k] = "none" <=> k > loop'.conn
                        /\ sock'[k] \notin {"none", "closed"} => k = loop'.conn
    BY <1>1, <1>4, <2>3, Sets DEF IInv, Connections
  <2> QED BY <1>1, <1>3, <2>1, <2>2, <2>4, Sets DEF IInv, Connections
<1>8. Waiting'
  BY DEF IInv, Waiting, Holds
<1> QED BY <1>2, <1>5, <1>6, <1>7, <1>8 DEF IInv

\* connectLoop publishes the connection after the handshake and starts its
\* reader and its watchdog.
LEMMA openConnKeeps ==
  ASSUME IInv, openConn
  PROVE  IInv'
<1> DEFINE k == loop.conn
<1>1. /\ UNCHANGED <<ctxDone, netVars, errCh, chan, pending>> /\ loop.pc = "handshake"
      /\ conn' = k /\ status' = "open" /\ opened' = opened + 1
      /\ loop' = [loop EXCEPT !.pc = "select"]
      /\ reader' = [reader EXCEPT ![k] = Reader("read", None, None)]
      /\ call' = [call EXCEPT ![k] = NewCaller("idle")]
  BY DEF openConn
<1>2. k \in Conn /\ k \in Caller /\ STypeOK
  BY <1>1, Sets DEF IInv, Connections, STypeOK
<1>3. /\ call' \in [Caller -> CallState] /\ \A b \in Caller : b # k => call'[b] = call[b]
      /\ call'[k].pc = "idle" /\ call'[k].hop = None /\ call'[k].out = "none"
  BY <1>1, <1>2, Restarts
<1>4. /\ reader' \in [Conn -> [pc: {"off", "read", "send", "handler", "exit"},
                               ch: OrNone(Caller), of: OrNone(Caller)]]
      /\ reader'[k].pc = "read" /\ \A j \in Conn : j # k => reader'[j] = reader[j]
  BY <1>1, <1>2 DEF Reader, STypeOK, OrNone
<1>5. loop'.pc = "select" /\ loop'.conn = k /\ UNCHANGED <<ctxDone, sock, up, down, chan, pending>>
  BY <1>1, <1>2 DEF STypeOK, netVars
<1>6. STypeOK'
  BY <1>1, <1>2, <1>3, <1>4 DEF STypeOK, netVars
<1>7. \A j \in 0..MaxConn : Published(j) => Published(j)'
  BY <1>2, <1>5, <1>6, StaysPublished
<1>8. call[k].pc = "off" /\ reader[k].pc = "off" /\ ~Published(k)
  BY <1>1, <1>2, Sets DEF IInv, Connections, Published, STypeOK
<1>9. \A j \in Conn : ~Holds(j, k)
  BY <1>2, <1>8 DEF IInv, Readers
<1>10. \A j \in Conn, c \in Caller : Holds(j, c)' <=> Holds(j, c)
  BY <1>4, <1>8 DEF Holds
<1>11. conn' = k
  BY <1>1
<1>12. loop.conn = k
  OBVIOUS
<1> HIDE DEF k
<1> USE <1>2, <1>3, <1>5
<1>13. Numbers' /\ Results'
  BY Sets DEF IInv, Numbers, Results, Active
<1>14. Table' /\ Channels'
  <2>1. chan[k] = None /\ \A h \in Hop : pending[h] # k
    BY <1>8, Sets DEF IInv, Table, Channels, Registered
  <2> QED BY <2>1 DEF IInv, Table, Channels
<1>15. Readers'
  BY <1>4, <1>7, <1>8, <1>9, <1>10, Sets DEF IInv, Readers
<1>16. Messages'
  <2>1. k \notin Call /\ \A m \in up \cup down : m.hop # None
    BY Sets DEF IInv, Messages
  <2> QED BY <2>1 DEF IInv, Messages
<1>17. Connections'
  <2>a. \A c \in Caller : call'[c].pc \in Active =>
           /\ call'[c] = call[c] /\ call[c].conn \in 0..MaxConn
           /\ call[c].conn # 0 /\ Published(call[c].conn)
    BY DEF IInv, Connections, Active, STypeOK, CallState
  <2>b. \A c \in Caller : call'[c].pc \in Active =>
           \E j \in 0..MaxConn : j = call'[c].conn /\ j # 0 /\ Published(j)'
    BY <1>7, <2>a
  <2>1. (\A c \in Caller : call[c].pc \in Active => call[c].conn # 0 /\ Published(call[c].conn))'
    BY <2>b DEF Published
  <2>2. (conn # 0 => Published(conn))'
    BY <1>5, <1>11 DEF Published
  <2>3. \A j \in Conn : ~Published(j)' => j # k /\ ~Published(j)
    BY <1>5, <1>7, Sets DEF Published
  <2>4. \A j \in Conn : ~Published(j)' => call'[j].pc = "off" /\ reader'[j].pc = "off"
    BY <1>4, <2>3, Sets DEF IInv, Connections
  <2>5. \A j \in Conn : /\ call'[j].pc \notin {"open", "request", "register"}
                        /\ sock'[j] = "none" <=> j > loop'.conn
                        /\ sock'[j] \notin {"none", "closed"} => j = loop'.conn
    BY <1>12, Sets DEF IInv, Connections
  <2> QED BY <2>1, <2>2, <2>4, <2>5, Sets DEF Connections
<1>18. Waiting'
  BY <1>1, <1>10, <1>12 DEF IInv, Waiting
<1> QED BY <1>6, <1>13, <1>14, <1>15, <1>16, <1>17, <1>18 DEF IInv

\* Start, Stop and every step of connectLoop keep the invariant.
LEMMA LoopSteps ==
  ASSUME IInv, Start \/ Stop \/ LoopStep
  PROVE  IInv'
<1>0. /\ STypeOK /\ loop \in [pc: {"off", "check", "handshake", "select", "fail", "exit"},
                              conn: 0..MaxConn]
      /\ loop.pc \notin {"handshake", "select"} => \A k \in Conn : sock[k] \in {"none", "closed"}
      /\ loop.pc \in {"handshake", "select"} => loop.conn \in Conn /\ sock[loop.conn] # "none"
      /\ \A k \in Conn : sock[k] \notin {"none", "closed"} => k = loop.conn
  BY Sets DEF IInv, STypeOK, Connections
<1>1. CASE Start
  <2>1. loop'.pc = "check" /\ loop'.conn = loop.conn /\ loop.pc = "off"
        /\ UNCHANGED <<ctxDone, conn, readVars, callVars, sock, up, down>>
    BY <1>0, <1>1 DEF Start, netVars
  <2>2. STypeOK'
    BY <1>0, <1>1 DEF Start, STypeOK, netVars, readVars, callVars
  <2> QED BY <1>0, <2>1, <2>2, LoopMoves
<1>2. CASE connectLoop
  <2>1. /\ loop.pc = "check" /\ UNCHANGED <<ctxDone, conn, opened, up, down, readVars, callVars>>
        /\ \/ loop' = [loop EXCEPT !.pc = "exit"] /\ UNCHANGED <<status, sock>>
           \/ /\ loop.conn < MaxConn /\ loop' = [pc |-> "handshake", conn |-> loop.conn + 1]
              /\ sock' = [sock EXCEPT ![loop.conn + 1] = "up"] /\ status' = "connecting"
           \/ status' = "disconnected" /\ UNCHANGED <<loop, sock>>
    BY <1>2 DEF connectLoop
  <2>2. CASE UNCHANGED sock /\ loop' \in {loop, [loop EXCEPT !.pc = "exit"]}
             /\ status' \in {status, "disconnected"}
    <3>1. loop'.pc \in {"check", "exit"} /\ loop'.conn = loop.conn
      BY <1>0, <2>1, <2>2
    <3>2. STypeOK'
      BY <1>0, <2>1, <2>2 DEF STypeOK, readVars, callVars
    <3> QED BY <1>0, <2>1, <2>2, <3>1, <3>2, LoopMoves
  <2> QED BY <2>1, <2>2, DialKeeps
<1>3. CASE handshakeFails \/ closeConn
  <2>1. /\ UNCHANGED <<ctxDone, conn, opened, readVars, callVars>> /\ CloseConn(loop.conn)
        /\ status' \in {status, "disconnected"}
        /\ \/ loop.pc = "handshake" /\ loop' = [loop EXCEPT !.pc = "check"]
           \/ loop.pc = "select" /\ ctxDone /\ loop' = [loop EXCEPT !.pc = "exit"]
           \/ loop.pc = "select" /\ loop' = [loop EXCEPT !.pc = "fail"]
    BY <1>3 DEF handshakeFails, closeConn
  <2>2. /\ loop.pc \in {"handshake", "select"} /\ loop'.conn = loop.conn
        /\ loop'.pc \in {"check", "exit", "fail"}
        /\ loop.pc = "select" => ctxDone \/ loop'.pc = "fail"
    BY <1>0, <2>1
  <2>3. /\ loop.conn \in Conn /\ sock[loop.conn] # "none"
        /\ sock' \in [Conn -> {"none", "up", "broken", "dead", "closed"}]
        /\ sock'[loop.conn] = "closed" /\ \A j \in Conn : j # loop.conn => sock'[j] = sock[j]
        /\ up' \subseteq up /\ down' \subseteq down
    BY <1>0, <2>1, <2>2, ConnCloses
  <2>4. STypeOK'
    BY <1>0, <2>1, <2>3 DEF STypeOK, readVars, callVars
  <2>5. \A k \in Conn : /\ sock'[k] = sock[k] \/ (sock'[k] = "closed" /\ sock[k] # "none")
                        /\ sock'[k] \in {"none", "closed"}
    BY <1>0, <2>3
  <2> QED BY <2>1, <2>2, <2>3, <2>4, <2>5, LoopMoves, Sets
<1> QED BY <1>1, <1>2, <1>3, StopKeeps, openConnKeeps, disconnectedKeeps DEF LoopStep

-----------------------------------------------------------------------------
(* The theorems. *)

\* The client starts without connections and requests.
LEMMA IInvInit == SInit => IInv
<1> SUFFICES ASSUME SInit PROVE IInv
  OBVIOUS
<1>0. \A c \in Caller : /\ call[c].pc \in {"idle", "off"} /\ call[c].hop = None /\ call[c].out = "none"
                        /\ (c \in Conn => call[c].pc = "off") /\ call[c] \in CallState
  BY Sets, STaAssumption DEF SInit, NewCaller, CallState, OrNone
<1>1. STypeOK
  BY <1>0, Sets, STaAssumption DEF SInit, STypeOK, Reader, OrNone
<1>2. Numbers /\ Table /\ Channels /\ Messages /\ Results /\ Waiting
  BY <1>0 DEF SInit, Numbers, Table, Channels, Messages, Results, Waiting, Active
<1>3. Readers
  BY DEF SInit, Readers, Holds, Reader
<1>4. Connections
  BY <1>0, Sets DEF SInit, Connections, Published, Reader, Active
<1> QED BY <1>1, <1>2, <1>3, <1>4 DEF IInv

\* Every step keeps the invariant.
LEMMA IInvStep == IInv /\ [SNext]_staVars => IInv'
<1> SUFFICES ASSUME IInv, [SNext]_staVars PROVE IInv'
  OBVIOUS
<1>1. ASSUME NEW c \in Caller, ExchangeEAP(c) \/ CallStep(c) PROVE IInv'
  <2>1. CASE sendRequest(c)
    BY <2>1, IdleSteps, sendRequestKeeps
  <2> QED BY <1>1, <2>1, IdleSteps, registerKeeps, watchdogTickKeeps, RequestSteps DEF CallStep
<1>2. CASE UNCHANGED staVars
  BY <1>2 DEF staVars, IInv, STypeOK, Numbers, Table, Channels, Readers, Messages, Results,
              Connections, Waiting, Holds, Published
<1> QED BY <1>1, <1>2, LoopSteps, ReaderSteps, NetworkSteps DEF SNext

\* The inductive invariant: identifiers, map, channels, readers and connections
\* agree in every state the client reaches.
THEOREM ClientInvariant == SSpec => []IInv
BY IInvInit, IInvStep, PTL DEF SSpec

\* Every variable of the client keeps its type.
THEOREM ClientTypes == SSpec => []STypeOK
<1>1. IInv => STypeOK
  BY DEF IInv
<1> QED BY <1>1, ClientInvariant, PTL

\* No send on a request's channel ever finds it full: the reader, Stop and
\* failPending each take the entry out of the map with the channel, so the
\* channel of one slot is written once.
THEOREM RepliesNeverBlock == SSpec => []ReplyNeverBlocks
<1>1. IInv => ReplyNeverBlocks
  <2> SUFFICES ASSUME IInv PROVE ReplyNeverBlocks
    OBVIOUS
  <2>1. \A h \in Hop : pending[h] # None => chan[pending[h]] = None
    BY DEF IInv, Table
  <2> QED BY <2>1 DEF IInv, Readers, Holds, ReplyNeverBlocks
<1> QED BY <1>1, ClientInvariant, PTL

\* A request that waits with nothing in its channel is in the map and on the
\* connection connectLoop watches, or a reader holds its answer, or the client
\* was stopped.
THEOREM WaitingRequestsWatched == SSpec => []WaitingIsWatched
<1>1. IInv => WaitingIsWatched
  BY DEF IInv, Waiting, Holds, WaitingIsWatched
<1> QED BY <1>1, ClientInvariant, PTL

-----------------------------------------------------------------------------
(* The client implements CallService. *)

\* The answers on their way only get fewer: those in the network, with the
\* readers and in the channels were on their way before.
LEMMA AnswersOnlyLost ==
  ASSUME down' \subseteq down,
         \A k \in Conn : reader'[k].pc = "send" =>
           reader'[k] = reader[k] \/ \E m \in down : m.of = reader'[k].of,
         \A b \in Caller : chan'[b] # None =>
           \/ chan'[b] = chan[b] \/ chan'[b].err
           \/ \E k \in Conn : reader[k].pc = "send" /\ reader[k].of = chan'[b].of
  PROVE  OnTheWay' \subseteq OnTheWay
BY DEF OnTheWay

\* A step that leaves every call where it is loses answers at most.
LEMMA QuietStep ==
  ASSUME OnTheWay' \subseteq OnTheWay,
         \A c \in Call : /\ call'[c].pc = "idle" <=> call[c].pc = "idle"
                         /\ call'[c].pc = "return" <=> call[c].pc = "return"
                         /\ call[c].pc = "return" => call'[c] = call[c]
  PROVE  Calls!CallNext
<1>1. CallPhase' = CallPhase
  BY DEF CallPhase
<1> QED BY <1>1 DEF Calls!CallNext, Calls!Lose

\* A step that moves one call changes its phase only.
LEMMA OnePhase ==
  ASSUME NEW c \in Call, \A b \in Call : b # c => call'[b] = call[b]
  PROVE  CallPhase' = [CallPhase EXCEPT ![c] = CallPhase'[c]]
<1>1. \A b \in Call : b # c => CallPhase'[b] = CallPhase[b]
  BY DEF CallPhase
<1>2. /\ CallPhase' = [b \in Call |-> CallPhase'[b]]
      /\ CallPhase = [b \in Call |-> CallPhase[b]]
  BY DEF CallPhase
<1> QED BY <1>1, <1>2

\* A call returns an error or its own answer.
LEMMA CallEnds ==
  ASSUME NEW c \in Call, \A b \in Call : b # c => call'[b] = call[b],
         call[c].pc \notin {"idle", "return"}, call'[c].pc = "return",
         \/ call'[c].out = "error"
         \/ call'[c].out = "answer" /\ call'[c].of = c /\ c \in OnTheWay,
         OnTheWay' \subseteq OnTheWay
  PROVE  Calls!CallNext
<1>1. CallPhase' = [CallPhase EXCEPT ![c] = CallPhase'[c]]
  BY OnePhase
<1>2. CallPhase[c] = "calling"
  BY DEF CallPhase
<1>3. \/ CallPhase'[c] = "failed"
      \/ CallPhase'[c] = "answered" /\ c \in OnTheWay
  BY DEF CallPhase
<1>4. Calls!Return(c)
  BY <1>1, <1>2, <1>3 DEF Calls!Return
<1> QED BY <1>4 DEF Calls!CallNext

\* The steps of the callers.
LEMMA CallerRefines ==
  ASSUME IInv, NEW c \in Caller, ExchangeEAP(c) \/ CallStep(c)
  PROVE  Calls!CallNext
<1>0. STypeOK /\ \A b \in Call : b \in Caller
  BY Sets DEF IInv
<1>1. CASE ExchangeEAP(c)
  <2>1. /\ UNCHANGED <<loopVars, netVars, readVars, chan, pending>> /\ call[c].pc = "idle" /\ c \in Call
        /\ Goto(c, "request") \/ call' = [call EXCEPT ![c].pc = "open", ![c].gen = opened]
    BY <1>1 DEF ExchangeEAP, At
  <2>2. (\A b \in Caller : b # c => call'[b] = call[b]) /\ call'[c].pc \in {"request", "open"}
    BY <1>0, <2>1, CallGoesOn, CallWaitsOpen
  <2>3. CallPhase' = [CallPhase EXCEPT ![c] = "calling"] /\ CallPhase[c] = "idle"
    BY <1>0, <2>1, <2>2 DEF CallPhase
  <2>4. OnTheWay' = OnTheWay
    BY <2>1 DEF OnTheWay, netVars, readVars
  <2>5. Calls!Begin(c)
    BY <2>3, <2>4 DEF Calls!Begin
  <2> QED BY <2>1, <2>5 DEF Calls!CallNext
<1>2. CASE waitOpen(c) \/ sendRequest(c) \/ register(c) \/ write(c)
  <2>1. /\ UNCHANGED <<down, reader, chan>>
        /\ call[c].pc \in {"open", "request", "register", "write"}
        /\ \/ call' = [call EXCEPT ![c] = NewCaller("request")]
           \/ \E l \in {"write", "wait", "unregister"} : Goto(c, l)
           \/ \E h \in Hop : conn # 0 /\ TakesNumber(c, "register", h, conn)
           \/ Fails(c)
    BY <1>2 DEF waitOpen, sendRequest, register, write, At, netVars, readVars, TakesNumber
  <2>2. /\ \A b \in Caller : b # c => call'[b] = call[b]
        /\ \/ call'[c].pc \in {"request", "write", "wait", "unregister", "register"}
           \/ call'[c].pc = "return" /\ call'[c].out = "error"
    <3>1. conn # 0 => conn \in Conn
      BY <1>0, Sets DEF STypeOK
    <3> QED BY <1>0, <2>1, <3>1, Restarts, CallGoesOn, NumberTaken, CallFails
  <2>3. OnTheWay' \subseteq OnTheWay
    BY <2>1, AnswersOnlyLost
  <2>4. CASE c \in Call /\ call'[c].pc = "return"
    BY <1>0, <2>1, <2>2, <2>3, <2>4, CallEnds
  <2>5. CASE c \notin Call \/ call'[c].pc # "return"
    BY <1>0, <2>1, <2>2, <2>3, <2>5, QuietStep
  <2> QED BY <2>4, <2>5
<1>3. CASE receive(c)
  <2>1. call[c].pc = "wait" /\ UNCHANGED <<down, reader>> 
    BY <1>3 DEF receive, At, netVars, readVars
  <2>2. /\ chan' = chan \/ chan' = [chan EXCEPT ![c] = None]
        /\ \/ chan[c] # None /\ Received(c)
           \/ Goto(c, "unregister")
    BY <1>3 DEF receive
  <2>3. OnTheWay' \subseteq OnTheWay
    <3>1. \A b \in Caller : chan'[b] # None => chan'[b] = chan[b]
      BY <1>0, <2>2 DEF STypeOK
    <3> QED BY <2>1, <3>1, AnswersOnlyLost
  <2>4. CASE Goto(c, "unregister")
    <3>1. (\A b \in Caller : b # c => call'[b] = call[b]) /\ call'[c].pc = "unregister"
      BY <1>0, <2>4, CallGoesOn
    <3> QED BY <1>0, <2>1, <2>3, <3>1, QuietStep
  <2>5. CASE Fails(c)
    <3>1. /\ \A b \in Caller : b # c => call'[b] = call[b]
          /\ call'[c].pc = "return" /\ call'[c].out = "error"
      BY <1>0, <2>5, CallFails
    <3> QED BY <1>0, <2>1, <2>3, <3>1, CallEnds, QuietStep
  <2>6. CASE chan[c] # None /\ ~chan[c].err /\ c \in Call /\ Returns(c, "answer", chan[c].of)
    <3>1. chan[c].of = c
      BY <2>6 DEF IInv, Channels
    <3>2. /\ \A b \in Caller : b # c => call'[b] = call[b]
          /\ call'[c].pc = "return" /\ call'[c].out = "answer" /\ call'[c].of = c
      BY <1>0, <2>6, <3>1, CallReturns DEF OrNone
    <3>3. c \in OnTheWay
      BY <1>0, <2>6, <3>1 DEF OnTheWay
    <3> QED BY <1>0, <2>1, <2>3, <2>6, <3>2, <3>3, CallEnds
  <2>7. CASE c \in Conn /\ call' = [call EXCEPT ![c] = NewCaller("idle")]
    <3>1. c \notin Call /\ \A b \in Caller : b # c => call'[b] = call[b]
      BY <1>0, <2>7, Restarts, Sets
    <3> QED BY <1>0, <2>3, <3>1, QuietStep
  <2> QED BY <2>2, <2>4, <2>5, <2>6, <2>7 DEF Received
<1>4. CASE unregister(c)
  <2>1. /\ call[c].pc = "unregister" /\ UNCHANGED <<down, reader>> /\ Fails(c)
        /\ chan' = [chan EXCEPT ![c] = None]
    BY <1>4 DEF unregister, At, netVars, readVars
  <2>2. OnTheWay' \subseteq OnTheWay
    <3>1. \A b \in Caller : chan'[b] # None => chan'[b] = chan[b]
      BY <1>0, <2>1 DEF STypeOK
    <3> QED BY <2>1, <3>1, AnswersOnlyLost
  <2>3. /\ \A b \in Caller : b # c => call'[b] = call[b]
        /\ call'[c].pc = "return" /\ call'[c].out = "error"
    BY <1>0, <2>1, CallFails
  <2> QED BY <1>0, <2>1, <2>2, <2>3, CallEnds, QuietStep
<1>5. CASE watchdogTick(c) \/ watchdogFailure(c)
  <2>1. /\ c \in Conn /\ down' \subseteq down /\ UNCHANGED <<reader, chan>>
        /\ \/ call' = [call EXCEPT ![c] = NewCaller("off")]
           \/ \E h \in Hop : TakesNumber(c, "write", h, c)
    BY <1>5 DEF watchdogTick, watchdogFailure, CloseConn, netVars, readVars, TakesNumber
  <2>2. c \notin Call /\ \A b \in Caller : b # c => call'[b] = call[b]
    BY <1>0, <2>1, Restarts, NumberTaken, Sets
  <2>3. OnTheWay' \subseteq OnTheWay
    BY <2>1, AnswersOnlyLost
  <2> QED BY <1>0, <2>2, <2>3, QuietStep
<1> QED BY <1>1, <1>2, <1>3, <1>4, <1>5 DEF CallStep

\* The readers hand answers on or drop them.
LEMMA ReaderRefines ==
  ASSUME IInv, NEW k \in Conn, ReaderStep(k)
  PROVE  Calls!CallNext
<1>0. /\ reader \in [Conn -> [pc: {"off", "read", "send", "handler", "exit"},
                              ch: OrNone(Caller), of: OrNone(Caller)]]
      /\ chan \in [Caller -> OrNone(Reply)]
  BY DEF IInv, STypeOK
<1>1. call' = call /\ down' \subseteq down
  BY DEF ReaderStep, readAnswer, deliver, handleRequest, startHandler, readError, netVars, callVars
<1>2. \A j \in Conn : reader'[j].pc = "send" =>
        reader'[j] = reader[j] \/ \E m \in down : m.of = reader'[j].of
  BY <1>0 DEF ReaderStep, readAnswer, deliver, handleRequest, startHandler, readError, Reader
<1>3. \A b \in Caller : chan'[b] # None =>
        \/ chan'[b] = chan[b]
        \/ \E j \in Conn : reader[j].pc = "send" /\ reader[j].of = chan'[b].of
  BY <1>0 DEF ReaderStep, readAnswer, deliver, handleRequest, startHandler, readError, callVars
<1>4. OnTheWay' \subseteq OnTheWay
  BY <1>1, <1>2, <1>3, AnswersOnlyLost
<1> QED BY <1>1, <1>4, QuietStep

\* What the loop does ends no call, but may lose answers.
LEMMA LoopRefines ==
  ASSUME IInv, IInv', Start \/ Stop \/ LoopStep
  PROVE  Calls!CallNext
<1>0. STypeOK
  BY DEF IInv
<1>1. down' \subseteq down
  BY DEF Start, Stop, LoopStep, connectLoop, openConn, handshakeFails, closeConn, disconnected,
         CloseConn, netVars
<1>2. \A b \in Caller : chan'[b] # None => chan'[b] = chan[b] \/ chan'[b].err
  <2>1. CASE failPendingLocked
    BY <1>0, <2>1, PendingFails
  <2> QED BY <2>1 DEF Start, Stop, LoopStep, connectLoop, openConn, handshakeFails, closeConn,
                      disconnected, callVars
<1>3. \A j \in Conn : reader'[j].pc = "send" => reader'[j] = reader[j]
  BY <1>0 DEF Start, Stop, LoopStep, connectLoop, openConn, handshakeFails, closeConn,
              disconnected, readVars, Reader, STypeOK
<1>4. \A c \in Call : call'[c] = call[c]
  <2>1. CASE openConn
    <3>1. loop.conn \in Conn /\ loop.conn \in Caller /\ call' = [call EXCEPT ![loop.conn] = NewCaller("idle")]
      BY <2>1, Sets DEF openConn, IInv, Connections, STypeOK
    <3> QED BY <1>0, <3>1, Restarts, Sets
  <2> QED BY <2>1 DEF Start, Stop, LoopStep, connectLoop, handshakeFails, closeConn,
                      disconnected, callVars
<1>5. OnTheWay' \subseteq OnTheWay
  BY <1>1, <1>2, <1>3, AnswersOnlyLost
<1> QED BY <1>4, <1>5, QuietStep

\* The AAA answers a request, that of a call or of a watchdog.
LEMMA NetworkRefines ==
  ASSUME IInv, aaaAnswers \/ aaaCloses \/ aaaVanishes
  PROVE  Calls!CallNext
<1>1. UNCHANGED <<call, reader, chan>>
  BY DEF aaaAnswers, aaaCloses, aaaVanishes, readVars, callVars
<1>2. CASE down' = down
  BY <1>1, <1>2, AnswersOnlyLost, QuietStep
<1>3. ASSUME NEW m \in up, down' = down \cup {m} PROVE Calls!CallNext
  <2>1. m.of \in Caller /\ (m.of \in Call => call[m.of].pc # "idle")
    BY DEF IInv, Messages
  <2>2. CASE m.of \in Call
    <3>1. OnTheWay' = OnTheWay \cup {m.of}
      BY <1>1, <1>3, <2>2 DEF OnTheWay
    <3>2. CallPhase' = CallPhase /\ CallPhase[m.of] # "idle"
      BY <1>1, <2>1, <2>2 DEF CallPhase
    <3>3. Calls!PeerAnswers(m.of)
      BY <3>1, <3>2 DEF Calls!PeerAnswers
    <3> QED BY <2>2, <3>3 DEF Calls!CallNext
  <2>3. CASE m.of \notin Call
    <3>1. OnTheWay' \subseteq OnTheWay
      BY <1>1, <1>3, <2>3 DEF OnTheWay
    <3> QED BY <1>1, <3>1, QuietStep
  <2> QED BY <2>2, <2>3
<1> QED BY <1>2, <1>3 DEF aaaAnswers, aaaCloses, aaaVanishes

\* The client implements the abstract call service: ExchangeEAP returns an
\* error or the answer to its own request, which was on its way to it.
THEOREM ClientImplementsCalls == SSpec => ImplementsCalls
<1>1. SInit => Calls!CallInit
  <2> SUFFICES ASSUME SInit PROVE Calls!CallInit
    OBVIOUS
  <2>1. CallPhase = [c \in Call |-> "idle"]
    BY Sets DEF SInit, CallPhase, NewCaller
  <2>2. OnTheWay = {}
    BY DEF SInit, OnTheWay, Reader
  <2> QED BY <2>1, <2>2 DEF Calls!CallInit
<1>2. IInv /\ IInv' /\ [SNext]_staVars => [Calls!CallNext]_(Calls!callVars)
  <2> SUFFICES ASSUME IInv, IInv', [SNext]_staVars PROVE [Calls!CallNext]_(Calls!callVars)
    OBVIOUS
  <2>1. CASE UNCHANGED staVars
    BY <2>1 DEF staVars, Calls!callVars, CallPhase, OnTheWay
  <2> QED BY <2>1, CallerRefines, ReaderRefines, LoopRefines, NetworkRefines DEF SNext
<1> QED BY <1>1, <1>2, ClientInvariant, PTL DEF SSpec, ImplementsCalls, Calls!CallSpec
=============================================================================
