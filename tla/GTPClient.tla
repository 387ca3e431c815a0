------------------------------ MODULE GTPClient ------------------------------
(***************************************************************************)
(* The GTP-C client of internal/gtp: many goroutines share one socket, and *)
(* doTransaction matches the answers of the PGW with their requests by the *)
(* sequence number.                                                        *)
(*                                                                         *)
(* A process of Call is one call of CreateSession, DeleteSession or the    *)
(* echo of the watchdog; its kind is the type of its request, and an       *)
(* answer has the type of the request it answers.  What the PGW has        *)
(* received and what it has sent are sets that only grow: a datagram may   *)
(* be received late, never, or more than once.                             *)
(***************************************************************************)
EXTENDS Naturals, FiniteSets

CONSTANTS
  Call, None,
  Kind,         \* Kind[p]: "create", "delete" or "echo"
  Deadline,     \* the calls whose context has a deadline
  Probes,       \* the echo calls, in the order in which the watchdog makes them
  MaxSeq,       \* maxGTPv2Sequence; the least is 1
  TEIDs,        \* the number of TEIDs, 2^32
  MaxFailures,  \* gtp.echo.max_failures
  Inbound,      \* the requests the PGW may send
  FirstSeq,     \* where the random start of the sequence numbers
  FirstTEID     \*   and of the TEIDs may lie

ASSUME ProbesAssumption ==
  /\ \E n \in 0..Cardinality(Call) : Probes \in [1..n -> Call]
  /\ \A i, j \in DOMAIN Probes : Probes[i] = Probes[j] => i = j
  /\ \A p \in Call : Kind[p] = "echo" <=> \E i \in DOMAIN Probes : Probes[i] = p

ASSUME ClientAssumption ==
  /\ None \notin Call \cup Nat
  /\ Kind \in [Call -> {"create", "delete", "echo"}]
  /\ {p \in Call : Kind[p] = "echo"} \subseteq Deadline /\ Deadline \subseteq Call
  /\ {MaxSeq, TEIDs, MaxFailures} \subseteq Nat \ {0}
  /\ Inbound \subseteq {"echo_request", "delete_request", "other"}
  /\ FirstSeq \subseteq 1..MaxSeq /\ FirstTEID \subseteq 0..(TEIDs - 1)

Seq == 1..MaxSeq
TEID == 0..(TEIDs - 1)
OrNone(S) == S \cup {None}

\* A datagram: what it is, its sequence number and, of a request or an answer,
\* the call it belongs to.
Message == [type: {"create", "delete", "echo", "echo_request", "delete_request", "other"},
            seq: Seq, of: OrNone(Call)]

ASSUME NilAssumption == None \notin Message

VARIABLES
  seq,       \* the sequence allocator
  nextTEID,  \* the TEID allocator
  pending,   \* the transactions that wait for an answer, by sequence number
  call,      \* the calls
  reader,    \* the goroutine of readLoop
  closing,   \* how far Close has got
  health,    \* peerHealth and consecutiveEchoFailures
  up,        \* the datagrams sent to the PGW
  down,      \* the datagrams sent by the PGW
  deletes    \* the PGW's delete requests handed to the lifecycle service

gtpVars == <<seq, nextTEID, pending, call, reader, closing, health, up, down, deletes>>

CallState == [pc: {"idle", "gtpc_teid", "gtpc_teid_again", "gtpu_teid", "gtpu_teid_again",
                   "sequence", "register", "send", "wait", "unregister", "record", "done"},
              seq: OrNone(Seq), gtpc: OrNone(TEID), gtpu: OrNone(TEID),
              resp: OrNone(Message), err: BOOLEAN, out: {"none", "answer", "error"}]

GTypeOK ==
  /\ seq \in Seq
  /\ nextTEID \in TEID
  /\ pending \in [Seq -> OrNone(Call)]
  /\ call \in [Call -> CallState]
  /\ reader \in [pc: {"read", "deliver", "exit"}, msg: OrNone(Message), tx: OrNone(Call)]
  /\ closing \in {"no", "conn", "fail", "wait", "done"}
  /\ health \in [state: {"unknown", "healthy", "unhealthy"}, failures: Nat]
  /\ up \subseteq Message /\ down \subseteq Message
  /\ deletes \subseteq Seq

\* seq starts at a random number, nextTEID at the clock.
GInit ==
  /\ seq \in FirstSeq /\ nextTEID \in FirstTEID
  /\ pending = [s \in Seq |-> None]
  /\ call = [p \in Call |-> [pc |-> "idle", seq |-> None, gtpc |-> None, gtpu |-> None,
                             resp |-> None, err |-> FALSE, out |-> "none"]]
  /\ reader = [pc |-> "read", msg |-> None, tx |-> None]
  /\ closing = "no"
  /\ health = [state |-> "unknown", failures |-> 0]
  /\ up = {} /\ down = {} /\ deletes = {}

At(p, l) == call[p].pc = l
Goto(p, l) == call' = [call EXCEPT ![p].pc = l]

\* close(closeCh) has happened; the socket is closed.
Closed == closing # "no"
ConnClosed == closing \in {"fail", "wait", "done"}

-----------------------------------------------------------------------------
(* The callers. *)

\* The watchdog makes a probe when the one before it has returned.
Turn(p) ==
  \A i \in DOMAIN Probes : Probes[i] = p => \A j \in 1..(i - 1) : At(Probes[j], "done")

\* CreateSession picks two TEIDs first.  A call whose context has expired
\* already returns at once, which is as if it was never made.
begin(p) ==
  /\ At(p, "idle") /\ Turn(p)
  /\ Goto(p, IF Kind[p] = "create" THEN "gtpc_teid" ELSE "sequence")
  /\ UNCHANGED <<seq, nextTEID, pending, reader, closing, health, up, down, deletes>>

\* Mutant: zero is skipped without taking a number.
nextTEIDValue_NotTaken(p) ==
  LET teid == (nextTEID + 1) % TEIDs
      value == IF teid = 0 THEN 1 ELSE teid
  IN /\ nextTEID' = teid
     /\ \/ At(p, "gtpc_teid") /\ call' = [call EXCEPT ![p].pc = "gtpu_teid", ![p].gtpc = value]
        \/ At(p, "gtpu_teid") /\ call' = [call EXCEPT ![p].pc = "sequence", ![p].gtpu = value]
     /\ UNCHANGED <<seq, pending, reader, closing, health, up, down, deletes>>

\* nextTEIDValue: one atomic increment, and a second one when it wrapped to 0.
\* CreateSession calls it for the control plane, then for the user plane.
nextTEIDValue(p) ==
  LET teid == (nextTEID + 1) % TEIDs
  IN /\ nextTEID' = teid
     /\ \/ At(p, "gtpc_teid") /\ teid = 0 /\ Goto(p, "gtpc_teid_again")
        \/ At(p, "gtpu_teid") /\ teid = 0 /\ Goto(p, "gtpu_teid_again")
        \/ /\ (At(p, "gtpc_teid") /\ teid # 0) \/ At(p, "gtpc_teid_again")
           /\ call' = [call EXCEPT ![p].pc = "gtpu_teid", ![p].gtpc = teid]
        \/ /\ (At(p, "gtpu_teid") /\ teid # 0) \/ At(p, "gtpu_teid_again")
           /\ call' = [call EXCEPT ![p].pc = "sequence", ![p].gtpu = teid]
     /\ UNCHANGED <<seq, pending, reader, closing, health, up, down, deletes>>

\* gtpv2SequenceAllocator.next: 1 follows the last number.
nextSequence(p) ==
  LET n == IF seq + 1 > MaxSeq THEN 1 ELSE seq + 1
  IN /\ At(p, "sequence")
     /\ seq' = n
     /\ call' = [call EXCEPT ![p].pc = "register", ![p].seq = n]
     /\ UNCHANGED <<nextTEID, pending, reader, closing, health, up, down, deletes>>

\* The call returns an error; nobody reads its channels any more.
Fails(p, l) ==
  call' = [call EXCEPT ![p].pc = l, ![p].out = "error", ![p].resp = None, ![p].err = FALSE]

\* Mutant: unregisterTransaction is deferred before the registration.
registerTransaction_DeferFirst(p) ==
  LET s == call[p].seq
  IN /\ At(p, "register")
     /\ \/ /\ ~Closed /\ pending[s] = None
           /\ pending' = [pending EXCEPT ![s] = p]
           /\ Goto(p, "send")
        \/ /\ Closed \/ pending[s] # None
           /\ Fails(p, "unregister")
           /\ UNCHANGED pending
     /\ UNCHANGED <<seq, nextTEID, reader, closing, health, up, down, deletes>>

\* A closed client and a sequence number still in use are refused; nothing is
\* unregistered then.
registerTransaction(p) ==
  LET s == call[p].seq
  IN /\ At(p, "register")
     /\ \/ /\ ~Closed /\ pending[s] = None
           /\ pending' = [pending EXCEPT ![s] = p]
           /\ Goto(p, "send")
        \/ /\ Closed \/ pending[s] # None
           /\ Fails(p, "record")
           /\ UNCHANGED pending
     /\ UNCHANGED <<seq, nextTEID, reader, closing, health, up, down, deletes>>

\* WriteToUDP, which fails on a closed socket and may fail on an open one.
send(p) ==
  /\ At(p, "send")
  /\ \/ /\ ~ConnClosed
        /\ up' = up \cup {[type |-> Kind[p], seq |-> call[p].seq, of |-> p]}
        /\ Goto(p, "wait")
     \/ Fails(p, "unregister") /\ UNCHANGED up
  /\ UNCHANGED <<seq, nextTEID, pending, reader, closing, health, down, deletes>>

\* Mutant: the context is not watched.
receive_NoDeadline(p) ==
  /\ At(p, "wait")
  /\ \/ /\ call[p].resp # None
        /\ call' = [call EXCEPT ![p].pc = "unregister", ![p].out = "answer", ![p].err = FALSE]
     \/ call[p].err /\ Fails(p, "unregister")
  /\ UNCHANGED <<seq, nextTEID, pending, reader, closing, health, up, down, deletes>>

\* The select of doTransaction: any case that is ready may be taken.
receive(p) ==
  /\ At(p, "wait")
  /\ \/ /\ call[p].resp # None
        /\ call' = [call EXCEPT ![p].pc = "unregister", ![p].out = "answer", ![p].err = FALSE]
     \/ /\ call[p].err \/ p \in Deadline
        /\ Fails(p, "unregister")
  /\ UNCHANGED <<seq, nextTEID, pending, reader, closing, health, up, down, deletes>>

\* The deferred unregisterTransaction, by sequence number.
unregisterTransaction(p) ==
  /\ At(p, "unregister")
  /\ pending' = [pending EXCEPT ![call[p].seq] = None]
  /\ Goto(p, "record")
  /\ UNCHANGED <<seq, nextTEID, reader, closing, health, up, down, deletes>>

\* Mutant: the count goes on after an answer.
recordEcho_NoReset(p) ==
  /\ At(p, "record")
  /\ LET n == health.failures + 1
     IN health' = IF Kind[p] # "echo" THEN health
                  ELSE IF call[p].out = "answer" THEN [health EXCEPT !.state = "healthy"]
                  ELSE [state |-> IF n >= MaxFailures THEN "unhealthy" ELSE health.state,
                        failures |-> n]
  /\ Goto(p, "done")
  /\ UNCHANGED <<seq, nextTEID, pending, reader, closing, up, down, deletes>>

\* recordEchoSuccess and recordEchoFailure of the probes; the other calls
\* return.
recordEcho(p) ==
  /\ At(p, "record")
  /\ LET n == health.failures + 1
     IN health' = IF Kind[p] # "echo" THEN health
                  ELSE IF call[p].out = "answer" THEN [state |-> "healthy", failures |-> 0]
                  ELSE [state |-> IF n >= MaxFailures THEN "unhealthy" ELSE health.state,
                        failures |-> n]
  /\ Goto(p, "done")
  /\ UNCHANGED <<seq, nextTEID, pending, reader, closing, up, down, deletes>>

-----------------------------------------------------------------------------
(* readLoop. *)

Reads(m, tx) == reader' = [pc |-> "deliver", msg |-> m, tx |-> tx]

\* Mutant: an answer goes to any transaction that expects its type.
lookupTransaction_ByType(m) ==
  LET S == {s \in Seq : pending[s] # None /\ Kind[pending[s]] = m.type}
  IN IF S = {} THEN None ELSE pending[CHOOSE s \in S : TRUE]

lookupTransaction(m) == pending[m.seq]

\* handleIncomingGTPv2 up to the lookup: requests of the PGW are answered on
\* the spot, and a delete starts the handler of the lifecycle service; what
\* has no transaction is ignored.
readMessage ==
  /\ reader.pc = "read" /\ ~ConnClosed
  /\ \E m \in down :
       \/ /\ m.type \in {"echo_request", "delete_request"}
          /\ up' = up \cup {[type |-> IF m.type = "echo_request" THEN "echo" ELSE "delete",
                             seq |-> m.seq, of |-> None]}
          /\ deletes' = IF m.type = "delete_request" THEN deletes \cup {m.seq} ELSE deletes
          /\ UNCHANGED reader
       \/ /\ m.type \notin {"echo_request", "delete_request"}
          /\ lookupTransaction(m) # None
          /\ Reads(m, lookupTransaction(m))
          /\ UNCHANGED <<up, deletes>>
  /\ UNCHANGED <<seq, nextTEID, pending, call, closing, health, down>>

\* The rest of it, after txMu was released: a message of the wrong type is an
\* error of the transaction.  The channels hold one message; a second is
\* dropped, and so is one for a call that has gone on; the goroutine never
\* blocks.
deliver ==
  LET m == reader.msg
      tx == reader.tx
  IN /\ reader.pc = "deliver"
     /\ call' = IF call[tx].pc \notin {"send", "wait"} THEN call
                ELSE IF m.type # Kind[tx] THEN [call EXCEPT ![tx].err = TRUE]
                ELSE IF call[tx].resp = None THEN [call EXCEPT ![tx].resp = m]
                ELSE call
     /\ reader' = [pc |-> "read", msg |-> None, tx |-> None]
     /\ UNCHANGED <<seq, nextTEID, pending, closing, health, up, down, deletes>>

readerExit ==
  /\ reader.pc = "read" /\ ConnClosed
  /\ reader' = [reader EXCEPT !.pc = "exit"]
  /\ UNCHANGED <<seq, nextTEID, pending, call, closing, health, up, down, deletes>>

-----------------------------------------------------------------------------
(* Close. *)

\* Mutant: the transactions are forgotten without an error.
failPending_Forgets ==
  /\ pending' = [s \in Seq |-> None]
  /\ UNCHANGED call

\* failPending: every transaction gets the error and is forgotten.
failPending ==
  LET waiting == {pending[s] : s \in Seq} \ {None}
  IN /\ call' = [p \in Call |-> IF p \in waiting THEN [call[p] EXCEPT !.err = TRUE]
                                ELSE call[p]]
     /\ pending' = [s \in Seq |-> None]

\* closeCh, the socket, failPending, and the wait for the reader and for the
\* probes of the watchdog.
Close ==
  /\ \/ closing = "no" /\ closing' = "conn" /\ UNCHANGED <<call, pending>>
     \/ closing = "conn" /\ closing' = "fail" /\ UNCHANGED <<call, pending>>
     \/ closing = "fail" /\ failPending /\ closing' = "wait"
     \/ /\ closing = "wait" /\ reader.pc = "exit"
        /\ \A p \in Call : Kind[p] = "echo" => call[p].pc \in {"idle", "done"}
        /\ closing' = "done" /\ UNCHANGED <<call, pending>>
  /\ UNCHANGED <<seq, nextTEID, reader, health, up, down, deletes>>

-----------------------------------------------------------------------------
(* The PGW. *)

pgwAnswers ==
  /\ \E m \in up : m.of # None /\ m \notin down /\ down' = down \cup {m}
  /\ UNCHANGED <<seq, nextTEID, pending, call, reader, closing, health, up, deletes>>

\* A request of the PGW; its sequence numbers are its own.
pgwRequest ==
  /\ \E t \in Inbound, s \in Seq :
       /\ \A m \in down : m.type # t
       /\ down' = down \cup {[type |-> t, seq |-> s, of |-> None]}
  /\ UNCHANGED <<seq, nextTEID, pending, call, reader, closing, health, up, deletes>>

-----------------------------------------------------------------------------
CallStep(p) ==
  \/ nextTEIDValue(p) \/ nextSequence(p) \/ registerTransaction(p) \/ send(p)
  \/ receive(p) \/ unregisterTransaction(p) \/ recordEcho(p)

\* A client that was closed, or whose calls have returned, may stay as it is.
GNext ==
  \/ \E p \in Call : begin(p) \/ CallStep(p)
  \/ readMessage \/ deliver \/ readerExit
  \/ Close
  \/ pgwAnswers \/ pgwRequest

GSpec == GInit /\ [][GNext]_gtpVars

\* Goroutines that can run do, and a Close that has begun goes on; whether the
\* PGW answers and whether Close is called is not assumed.
FairGSpec ==
  /\ GSpec
  /\ \A p \in Call : WF_gtpVars(CallStep(p))
  /\ WF_gtpVars(deliver) /\ WF_gtpVars(readerExit)
  /\ WF_gtpVars(closing # "no" /\ Close)

-----------------------------------------------------------------------------
(* Properties. *)

\* An answer that doTransaction returns is the answer to its own request, even
\* when answers are late, repeated, of another call's request or not answers
\* at all.  Only once the sequence numbers have come round can it be a late
\* answer to a request of the same type and number.
SameNumber(p, q) == call[p].seq = call[q].seq /\ Kind[p] = Kind[q]
AnswerIsOwn ==
  \A p \in Call : call[p].out = "answer" => SameNumber(call[p].resp.of, p)

\* A goroutine that waits can be woken: its transaction is in the table, where
\* readLoop and Close find it, or Close has already left it an error.
WaitingIsPending ==
  \A p \in Call : call[p].pc \in {"send", "wait"} =>
                    pending[call[p].seq] = p \/ call[p].err

\* However the allocations of concurrent calls interleave and wherever the
\* counter wraps, no two local TEIDs of the calls are equal and none is zero.
LocalTEIDs == {x \in Call \X {"gtpc", "gtpu"} : call[x[1]][x[2]] # None}
TEIDsDistinct ==
  /\ \A x \in LocalTEIDs : call[x[1]][x[2]] # 0
  /\ \A x, y \in LocalTEIDs : call[x[1]][x[2]] = call[y[1]][y[2]] => x = y

\* The probes that have returned, the last MaxFailures of them, and whether the
\* PGW answered a probe: it has sent an answer with its number.
Finished == {i \in DOMAIN Probes : At(Probes[i], "done")}
Recent == {i \in Finished : i + MaxFailures \notin Finished}
Answered(i) ==
  /\ call[Probes[i]].out = "answer"
  /\ \E m \in down : m.type = "echo" /\ m.seq = call[Probes[i]].seq

\* What the watchdog says of the peer is what its last MaxFailures probes met on
\* the network, whatever came before and while other calls, late answers and Close
\* go on: healthy when the PGW answered one of them, unhealthy when there were as
\* many and it answered none.
HealthFollowsProbes ==
  /\ health.state = "healthy" <=> \E i \in Recent : Answered(i)
  /\ health.state = "unhealthy" <=> MaxFailures \in Finished /\ \A i \in Recent : ~Answered(i)

\* Close ends every transaction, those without a deadline too, and returns
\* itself.
CloseEndsCalls ==
  closing # "no" ~> closing = "done" /\ \A p \in Call : ~At(p, "wait")

\* What CallService calls the phase of a call, and the answers on their way: a
\* datagram that was sent may arrive at any time.
CallPhase == [p \in Call |->
                IF call[p].pc = "idle" THEN "idle"
                ELSE IF call[p].out = "none" THEN "calling"
                ELSE IF call[p].out = "error" THEN "failed"
                ELSE IF call[p].resp.of = p THEN "answered" ELSE "mixed up"]
OnTheWay == {p \in Call : \E m \in down : m.of = p}

Calls == INSTANCE CallService WITH phase <- CallPhase, answers <- OnTheWay

\* As long as the sequence numbers have not come round, the client implements
\* CallService: a call returns the PGW's answer to its own request or an error,
\* and with a deadline it returns whatever the PGW does.
ImplementsCalls == Calls!FairCallSpec
=============================================================================
