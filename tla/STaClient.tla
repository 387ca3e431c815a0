------------------------------ MODULE STaClient ------------------------------
(***************************************************************************)
(* The Diameter client of internal/diameter/sta_client.go: the goroutine   *)
(* that keeps one connection to the AAA, a reader and a watchdog for every *)
(* connection, and the calls that share it.                                *)
(*                                                                         *)
(* Connections are numbered in the order they are made.  A caller is a     *)
(* call of ExchangeEAP or, under the number of its connection, a watchdog. *)
(* What is done under mu is one step.  The hop-by-hop identifier is a      *)
(* 32-bit counter; here a request takes the least number that no request   *)
(* or answer carries at the time, so a number does not come round while it *)
(* is in use.                                                              *)
(***************************************************************************)
EXTENDS Naturals, FiniteSets

CONSTANTS
  Call, None,
  Deadline,   \* the calls whose context has a deadline
  MaxConn,    \* bound: the number of connections that are made
  MaxHop      \* bound: the number of identifiers, enough for those in use

ASSUME STaAssumption ==
  /\ MaxConn \in Nat /\ MaxHop \in Nat
  /\ Call \cap Nat = {} /\ None \notin Call \cup Nat
  /\ Deadline \subseteq Call

Conn == 1..MaxConn
Hop == 1..MaxHop
Caller == Call \cup Conn
OrNone(S) == S \cup {None}

\* A request or an answer on a connection; of is the caller of the request.
Message == [conn: Conn, hop: Hop, of: Caller]

\* What a channel of diameterResponse holds: the request an answer belongs to,
\* or an error.
Reply == [err: BOOLEAN, of: Caller]

ASSUME NilAssumption == None \notin Reply

VARIABLES
  status,    \* status.State
  ctxDone,   \* cancel was called
  conn,      \* the connection calls are sent on, 0 is nil
  opened,    \* how often openedCh was closed
  loop,      \* connectLoop: its label and its connection
  sock,      \* the connections: "broken" was closed by the AAA, of "dead" it has vanished
  reader,    \* readLoop of each connection, the channel and the answer it holds
  errCh,     \* the connections whose errCh holds an error
  call,      \* the callers
  chan,      \* their channels, of capacity one
  pending,   \* the map of the same name
  up,        \* requests the AAA has not answered
  down       \* answers not read yet

staVars == <<status, ctxDone, conn, opened, loop, sock, reader, errCh,
             call, chan, pending, up, down>>

CallState == [pc: {"off", "idle", "open", "request", "register", "write", "wait",
                   "unregister", "return"},
              hop: OrNone(Hop), conn: 0..MaxConn, gen: Nat,
              out: {"none", "answer", "error"}, of: OrNone(Caller)]

STypeOK ==
  /\ status \in {"initialized", "starting", "connecting", "open", "disconnected", "stopped"}
  /\ ctxDone \in BOOLEAN
  /\ conn \in 0..MaxConn
  /\ opened \in Nat
  /\ loop \in [pc: {"off", "check", "handshake", "select", "fail", "exit"},
               conn: 0..MaxConn]
  /\ sock \in [Conn -> {"none", "up", "broken", "dead", "closed"}]
  /\ reader \in [Conn -> [pc: {"off", "read", "send", "handler", "exit"},
                          ch: OrNone(Caller), of: OrNone(Caller)]]
  /\ errCh \subseteq Conn
  /\ call \in [Caller -> CallState]
  /\ chan \in [Caller -> OrNone(Reply)]
  /\ pending \in [Hop -> OrNone(Caller)]
  /\ up \subseteq Message /\ down \subseteq Message

NewCaller(l) ==
  [pc |-> l, hop |-> None, conn |-> 0, gen |-> 0, out |-> "none", of |-> None]

Reader(l, ch, of) == [pc |-> l, ch |-> ch, of |-> of]

\* NewSTaClient.
SInit ==
  /\ status = "initialized" /\ ctxDone = FALSE
  /\ conn = 0 /\ opened = 0
  /\ loop = [pc |-> "off", conn |-> 0]
  /\ sock = [k \in Conn |-> "none"]
  /\ reader = [k \in Conn |-> Reader("off", None, None)]
  /\ errCh = {}
  /\ call = [c \in Caller |-> NewCaller(IF c \in Call THEN "idle" ELSE "off")]
  /\ chan = [c \in Caller |-> None]
  /\ pending = [h \in Hop |-> None]
  /\ up = {} /\ down = {}

netVars == <<sock, up, down>>
loopVars == <<status, ctxDone, conn, opened, loop>>
readVars == <<reader, errCh>>
callVars == <<call, chan, pending>>

\* The connections whose peer still reads and answers.
Established == {k \in Conn : sock[k] = "up" /\ reader[k].pc # "off"}

-----------------------------------------------------------------------------
(* Start, Stop and connectLoop. *)

Start ==
  /\ loop.pc = "off"
  /\ loop' = [loop EXCEPT !.pc = "check"] /\ status' = "starting"
  /\ UNCHANGED <<ctxDone, conn, opened, netVars, readVars, callVars>>

Waiters == {pending[h] : h \in Hop} \ {None}

\* Mutant: the requests that get the error stay in the map.
failPendingLocked_NoForget ==
  /\ \A c \in Waiters : chan[c] = None
  /\ chan' = [c \in Caller |-> IF c \in Waiters THEN [err |-> TRUE, of |-> c] ELSE chan[c]]
  /\ UNCHANGED pending

\* failPendingLocked: it forgets every request and sends an error to its
\* channel while it holds mu, so that no channel may be full.
failPendingLocked ==
  /\ \A c \in Waiters : chan[c] = None
  /\ chan' = [c \in Caller |-> IF c \in Waiters THEN [err |-> TRUE, of |-> c] ELSE chan[c]]
  /\ pending' = [h \in Hop |-> None]

\* What is on the way on a connection is gone once it is closed.
On(k, M) == {m \in M : m.conn = k}
CloseConn(k) ==
  /\ sock' = [sock EXCEPT ![k] = "closed"]
  /\ up' = up \ On(k, up) /\ down' = down \ On(k, down)

\* main calls it once.
Stop ==
  /\ loop.pc # "off" /\ ~ctxDone
  /\ ctxDone' = TRUE /\ status' = "stopped"
  /\ IF conn # 0 THEN CloseConn(conn) ELSE UNCHANGED netVars
  /\ failPendingLocked
  /\ UNCHANGED <<conn, opened, loop, readVars, call>>

\* The check of the context, setStatus("connecting") and the dial, which fails
\* at once when the context is done.  The sleep after a failure ends with the
\* context.
connectLoop ==
  /\ loop.pc = "check"
  /\ \/ ctxDone /\ loop' = [loop EXCEPT !.pc = "exit"] /\ UNCHANGED <<status, sock>>
     \/ /\ ~ctxDone /\ loop.conn < MaxConn
        /\ loop' = [pc |-> "handshake", conn |-> loop.conn + 1]
        /\ sock' = [sock EXCEPT ![loop.conn + 1] = "up"]
        /\ status' = "connecting"
     \/ ~ctxDone /\ status' = "disconnected" /\ UNCHANGED <<loop, sock>>
  /\ UNCHANGED <<ctxDone, conn, opened, up, down, readVars, callVars>>

\* CER and CEA.  After a success the connection is published, those who wait in
\* waitOpen are woken, and the reader and the watchdog of the connection start;
\* nothing asks whether Stop was called in the meantime.
openConn ==
  /\ loop.pc = "handshake" /\ sock[loop.conn] = "up"
  /\ conn' = loop.conn /\ status' = "open" /\ opened' = opened + 1
  /\ loop' = [loop EXCEPT !.pc = "select"]
  /\ reader' = [reader EXCEPT ![loop.conn] = Reader("read", None, None)]
  /\ call' = [call EXCEPT ![loop.conn] = NewCaller("idle")]
  /\ UNCHANGED <<ctxDone, netVars, errCh, chan, pending>>

\* No CEA in time, none at all, or one with an error.
handshakeFails ==
  /\ loop.pc = "handshake"
  /\ CloseConn(loop.conn)
  /\ loop' = [loop EXCEPT !.pc = "check"] /\ status' = "disconnected"
  /\ UNCHANGED <<ctxDone, conn, opened, readVars, callVars>>

\* Mutant: the connection is closed only when the client stops.
closeConn_LeftOpen ==
  /\ loop.pc = "select"
  /\ \/ ctxDone /\ loop' = [loop EXCEPT !.pc = "exit"] /\ CloseConn(loop.conn)
     \/ loop.conn \in errCh /\ loop' = [loop EXCEPT !.pc = "fail"] /\ UNCHANGED netVars
  /\ UNCHANGED <<status, ctxDone, conn, opened, readVars, callVars>>

\* The select on the context and errCh; either way the connection is closed.
\* With the context done nothing more is done: Stop has failed the requests.
closeConn ==
  /\ loop.pc = "select"
  /\ \/ ctxDone /\ loop' = [loop EXCEPT !.pc = "exit"]
     \/ loop.conn \in errCh /\ loop' = [loop EXCEPT !.pc = "fail"]
  /\ CloseConn(loop.conn)
  /\ UNCHANGED <<status, ctxDone, conn, opened, readVars, callVars>>

\* The rest of the branch for errCh, under mu.
disconnected ==
  /\ loop.pc = "fail"
  /\ conn' = IF conn = loop.conn THEN 0 ELSE conn
  /\ status' = "disconnected"
  /\ failPendingLocked
  /\ loop' = [loop EXCEPT !.pc = "check"]
  /\ UNCHANGED <<ctxDone, opened, netVars, readVars, call>>

LoopStep == connectLoop \/ openConn \/ handshakeFails \/ closeConn \/ disconnected

-----------------------------------------------------------------------------
(* readLoop and handleRequest. *)

\* Mutant: answers are expected in the order of the requests.
channelOf_First(m) ==
  LET S == {h \in Hop : pending[h] # None}
  IN IF S = {} THEN None ELSE pending[CHOOSE h \in S : \A g \in S : h <= g]

channelOf(m) == pending[m.hop]

\* An answer: its channel is taken from the map under mu.
readAnswer(k) ==
  /\ reader[k].pc = "read" /\ sock[k] # "closed"
  /\ \E m \in down :
       /\ m.conn = k
       /\ down' = down \ {m}
       /\ pending' = [pending EXCEPT ![m.hop] = None]
       /\ reader' = IF channelOf(m) = None THEN reader
                    ELSE [reader EXCEPT ![k] = Reader("send", channelOf(m), m.of)]
  /\ UNCHANGED <<loopVars, sock, up, errCh, call, chan>>

\* The send on the channel, after mu was released; it blocks on a full one,
\* and one that its caller has left keeps what nobody will read.
deliver(k) ==
  /\ reader[k].pc = "send" /\ chan[reader[k].ch] = None
  /\ chan' = IF call[reader[k].ch].pc \in {"write", "wait"}
             THEN [chan EXCEPT ![reader[k].ch] = [err |-> FALSE, of |-> reader[k].of]]
             ELSE chan
  /\ reader' = [reader EXCEPT ![k] = Reader("read", None, None)]
  /\ UNCHANGED <<loopVars, netVars, errCh, call, pending>>

\* handleRequest of a disconnect, ASR or STR, that names a session: it is
\* answered first.  Other requests are answered or ignored and change nothing.
handleRequest(k) ==
  /\ reader[k].pc = "read" /\ sock[k] = "up"
  /\ reader' = [reader EXCEPT ![k] = Reader("handler", None, None)]
  /\ UNCHANGED <<loopVars, netVars, errCh, callVars>>

\* The rest of answerDisconnectRequest: if the answer could be written, the
\* handler of the lifecycle service starts, in a goroutine of its own.
startHandler(k) ==
  /\ reader[k].pc = "handler"
  /\ reader' = [reader EXCEPT ![k] = Reader("read", None, None)]
  /\ UNCHANGED <<loopVars, netVars, errCh, callVars>>

\* A read that fails, of a connection either side has closed.
readError(k) ==
  /\ reader[k].pc = "read" /\ sock[k] \in {"broken", "closed"}
  /\ errCh' = errCh \cup {k}
  /\ reader' = [reader EXCEPT ![k] = Reader("exit", None, None)]
  /\ UNCHANGED <<loopVars, netVars, callVars>>

ReaderStep(k) == readAnswer(k) \/ deliver(k) \/ handleRequest(k) \/ startHandler(k) \/ readError(k)

-----------------------------------------------------------------------------
(* The calls: ExchangeEAP and, from sendRequestOnConn on, the watchdogs. *)

At(c, l) == call[c].pc = l
Goto(c, l) == call' = [call EXCEPT ![c].pc = l]
Returns(c, out, of) == call' = [call EXCEPT ![c] = [NewCaller("return") EXCEPT !.out = out, !.of = of]]
Fails(c) == Returns(c, "error", None)

\* A watchdog that was answered waits for its next tick.
Received(c) ==
  \/ chan[c].err /\ Fails(c)
  \/ ~chan[c].err /\ c \in Call /\ Returns(c, "answer", chan[c].of)
  \/ ~chan[c].err /\ c \in Conn /\ call' = [call EXCEPT ![c] = NewCaller("idle")]

\* waitOpen up to its select; a call without identity or payload returns
\* before, which is as if it was never made.
ExchangeEAP(c) ==
  /\ c \in Call /\ At(c, "idle")
  /\ \/ status = "open" /\ conn # 0 /\ Goto(c, "request")
     \/ /\ status # "open" \/ conn = 0
        /\ call' = [call EXCEPT ![c].pc = "open", ![c].gen = opened]
  /\ UNCHANGED <<loopVars, netVars, readVars, chan, pending>>

\* Its select: the channel it saw was closed, or the time is up.
waitOpen(c) ==
  /\ At(c, "open")
  /\ \/ opened > call[c].gen /\ call' = [call EXCEPT ![c] = NewCaller("request")]
     \/ Fails(c)
  /\ UNCHANGED <<loopVars, netVars, readVars, chan, pending>>

\* newRequest: a number nobody uses, and make(chan diameterResponse, 1).
InUse == {h \in Hop : pending[h] # None} \cup {m.hop : m \in up \cup down}
         \cup {call[c].hop : c \in Caller}
FreeHop(h) == h \in Hop \ InUse /\ \A g \in Hop \ InUse : h <= g

\* newDER and sendRequest: the connection is read once, and may be gone or
\* replaced by the time the request is registered and written.
sendRequest(c) ==
  /\ c \in Call /\ At(c, "request")
  /\ \/ conn = 0 /\ Fails(c)
     \/ /\ conn # 0
        /\ \E h \in Hop : /\ FreeHop(h)
                          /\ call' = [call EXCEPT ![c].pc = "register", ![c].hop = h, ![c].conn = conn]
  /\ UNCHANGED <<loopVars, netVars, readVars, chan, pending>>

register(c) ==
  /\ At(c, "register")
  /\ pending' = [pending EXCEPT ![call[c].hop] = c]
  /\ Goto(c, "write")
  /\ UNCHANGED <<loopVars, netVars, readVars, chan>>

\* A tick of the watchdog of connection k, which registers a request for its
\* own connection even when that is no longer the current one; or the end of
\* the context.
watchdogTick(k) ==
  /\ k \in Conn /\ At(k, "idle")
  /\ \/ ctxDone /\ call' = [call EXCEPT ![k] = NewCaller("off")] /\ UNCHANGED pending
     \/ \E h \in Hop : /\ FreeHop(h)
                       /\ call' = [call EXCEPT ![k].pc = "write", ![k].hop = h, ![k].conn = k]
                       /\ pending' = [pending EXCEPT ![h] = k]
  /\ UNCHANGED <<loopVars, netVars, readVars, chan>>

\* Write fails on a closed connection, and may on one the peer has closed.
write(c) ==
  LET k == call[c].conn
  IN /\ At(c, "write")
     /\ \/ /\ sock[k] # "closed"
           /\ up' = IF k \in Established
                    THEN up \cup {[conn |-> k, hop |-> call[c].hop, of |-> c]} ELSE up
           /\ Goto(c, "wait")
        \/ /\ sock[k] \in {"broken", "closed"}
           /\ Goto(c, "unregister")
           /\ UNCHANGED up
     /\ UNCHANGED <<loopVars, sock, down, readVars, chan, pending>>

\* The select on the channel and the context.  That of a watchdog has a
\* timeout and ends with the client's.
receive(c) ==
  /\ At(c, "wait")
  /\ \/ /\ chan[c] # None
        /\ Received(c) /\ chan' = [chan EXCEPT ![c] = None]
     \/ /\ c \in Deadline \cup Conn
        /\ Goto(c, "unregister") /\ UNCHANGED chan
  /\ UNCHANGED <<loopVars, netVars, readVars, pending>>

\* The request is deleted from the map by its number.
unregister(c) ==
  /\ At(c, "unregister")
  /\ pending' = [pending EXCEPT ![call[c].hop] = None]
  /\ Fails(c) /\ chan' = [chan EXCEPT ![c] = None]
  /\ UNCHANGED <<loopVars, netVars, readVars>>

\* Mutant: a failure of the watchdog is only counted.
watchdogFailure_OnlyCounted(k) ==
  /\ k \in Conn /\ At(k, "return")
  /\ call' = [call EXCEPT ![k] = NewCaller("idle")]
  /\ UNCHANGED <<loopVars, netVars, readVars, chan, pending>>

\* A watchdog whose request has failed closes its connection and ends.
watchdogFailure(k) ==
  /\ k \in Conn /\ At(k, "return")
  /\ CloseConn(k)
  /\ call' = [call EXCEPT ![k] = NewCaller("off")]
  /\ UNCHANGED <<loopVars, readVars, chan, pending>>

CallStep(c) ==
  \/ waitOpen(c) \/ sendRequest(c) \/ register(c) \/ write(c) \/ receive(c) \/ unregister(c)
  \/ watchdogTick(c) \/ watchdogFailure(c)

-----------------------------------------------------------------------------
(* The AAA and the network. *)

aaaAnswers ==
  /\ \E m \in up : /\ up' = up \ {m} /\ down' = down \cup {m}
  /\ UNCHANGED <<loopVars, sock, readVars, callVars>>

\* The AAA closes an established connection, or vanishes without a word; either
\* way it answers nothing more.
aaaCloses ==
  /\ \E k \in Established : sock' = [sock EXCEPT ![k] = "broken"] /\ up' = up \ On(k, up)
  /\ UNCHANGED <<loopVars, down, readVars, callVars>>

aaaVanishes ==
  /\ \E k \in Established : sock' = [sock EXCEPT ![k] = "dead"] /\ up' = up \ On(k, up)
  /\ UNCHANGED <<loopVars, down, readVars, callVars>>

-----------------------------------------------------------------------------
SNext ==
  \/ Start \/ Stop \/ LoopStep
  \/ \E k \in Conn : ReaderStep(k)
  \/ \E c \in Caller : ExchangeEAP(c) \/ CallStep(c)
  \/ aaaAnswers \/ aaaCloses \/ aaaVanishes

SSpec == SInit /\ [][SNext]_staVars

\* Goroutines that can run do, and timers fire: those of the watchdogs, of the
\* contexts with a deadline, of the dialer and of waitOpen.  Nothing is
\* assumed of the AAA, nor that Stop is called.
FairSSpec ==
  /\ SSpec
  /\ WF_staVars(LoopStep)
  /\ \A k \in Conn : WF_staVars(ReaderStep(k))
  /\ \A c \in Caller : WF_staVars(CallStep(c))

-----------------------------------------------------------------------------
(* Properties. *)

\* What CallService calls the phase of a call, and the answers on their way.
\* An answer to another call's request is neither a failure nor an answer.
CallPhase == [c \in Call |->
            IF call[c].pc = "idle" THEN "idle"
            ELSE IF call[c].pc # "return" THEN "calling"
            ELSE IF call[c].out = "error" THEN "failed"
            ELSE IF call[c].of = c THEN "answered" ELSE "mixed up"]
OnTheWay == {c \in Call : \/ \E m \in down : m.of = c
                          \/ \E k \in Conn : reader[k].pc = "send" /\ reader[k].of = c
                          \/ \E b \in Caller : chan[b] # None /\ ~chan[b].err /\ chan[b].of = c}

Calls == INSTANCE CallService WITH phase <- CallPhase, answers <- OnTheWay

\* The client implements CallService: a call returns the AAA's answer to its
\* own request or an error, never an answer that is late, of another call or
\* of a watchdog.
ImplementsCalls == Calls!CallSpec

\* Nobody ever sends on a channel that is full: an entry of the map has an
\* empty channel and so has the answer a reader holds.  failPendingLocked
\* sends while it holds mu, so a second reply to a request would stop the
\* whole client.
ReplyNeverBlocks ==
  /\ \A h \in Hop : pending[h] # None => chan[pending[h]] = None
  /\ \A k \in Conn : reader[k].pc = "send" =>
       /\ chan[reader[k].ch] = None
       /\ \A h \in Hop : pending[h] # reader[k].ch
       /\ \A j \in Conn \ {k} : reader[j].pc = "send" => reader[j].ch # reader[k].ch

\* A request that waits with nothing in its channel can still be failed: it is
\* on the connection connectLoop watches and in the map, or a reader holds its
\* answer.  For this the connection is closed before the requests are failed,
\* so that one registered too late cannot be written.  Stop is the exception:
\* a connection published after it has nobody to fail its requests.
WaitingIsWatched ==
  \A c \in Caller : call[c].pc = "wait" /\ chan[c] = None =>
    \/ ctxDone
    \/ \E k \in Conn : reader[k].pc = "send" /\ reader[k].ch = c
    \/ /\ loop.conn = call[c].conn /\ loop.pc \in {"select", "fail"}
       /\ pending[call[c].hop] = c

\* connectLoop does not go on watching a connection that is lost: when the AAA
\* has closed it the reader notices, and when it has vanished without a word
\* the watchdog does, closes the connection and so wakes the reader.
Watched(k) == loop.conn = k /\ loop.pc = "select"
LostPeerNoticed == \A k \in Conn : Watched(k) /\ sock[k] # "up" ~> ~Watched(k)
=============================================================================
