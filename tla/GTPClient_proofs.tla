--------------------------- MODULE GTPClient_proofs ---------------------------
(***************************************************************************)
(* Proofs about the GTP-C client, for any number of concurrent calls and   *)
(* any size of the number spaces: no transaction is lost, an answer is one *)
(* to the call's own request, TEIDs are distinct, and the client           *)
(* implements CallService until the sequence numbers have come round.      *)
(***************************************************************************)
EXTENDS GTPClient, FiniteSetTheorems, TLAPS

\* The calls that own an entry of the table, or did until Close took it.
InFlight(p) == call[p].pc \in {"send", "wait", "unregister"}

\* failPending has run.
Failed == closing \in {"wait", "done"}

HasSeq == \A p \in Call : InFlight(p) \/ At(p, "register") => call[p].seq \in Seq

\* An entry is the one of a call that still needs it,
EntryIsInFlight ==
  \A s \in Seq : pending[s] # None => InFlight(pending[s]) /\ call[pending[s]].seq = s

\* no entry is added once Close has emptied the table,
EmptyOnceFailed == Failed => \A s \in Seq : pending[s] = None

\* and a call in flight has its entry, unless Close took it and left an error.
InFlightIsPending ==
  \A p \in Call : InFlight(p) =>
    \/ pending[call[p].seq] = p
    \/ Failed /\ (At(p, "unregister") \/ call[p].err)

ReaderHasCall == reader.pc = "deliver" => reader.tx \in Call /\ reader.msg \in Message

\* The inductive invariant: unregisterTransaction deletes by number alone, so
\* that it never deletes another call's entry takes all four of these.
TableInv ==
  /\ GTypeOK /\ HasSeq /\ EntryIsInFlight /\ EmptyOnceFailed /\ InFlightIsPending
  /\ ReaderHasCall

\* The client starts with an empty table.
LEMMA TableInit == GInit => TableInv
<1> SUFFICES ASSUME GInit PROVE TableInv
  OBVIOUS
<1>1. GTypeOK
  BY ClientAssumption DEF GInit, GTypeOK, CallState, OrNone, Seq, TEID
<1>2. HasSeq /\ EntryIsInFlight /\ EmptyOnceFailed /\ InFlightIsPending /\ ReaderHasCall
  BY DEF GInit, HasSeq, EntryIsInFlight, EmptyOnceFailed, InFlightIsPending, ReaderHasCall,
         InFlight, Failed, At
<1>3. QED BY <1>1, <1>2 DEF TableInv

\* A step of one call that leaves the table alone and neither begins nor ends
\* a transaction, or fails one, keeps the table consistent.
LEMMA CallMoves ==
  ASSUME TableInv, GTypeOK', NEW p \in Call, NEW c \in CallState,
         call' = [call EXCEPT ![p] = c], UNCHANGED <<pending, closing, reader>>,
         c.pc \in {"send", "wait", "unregister"} <=> InFlight(p),
         InFlight(p) => c.seq = call[p].seq /\ (c.pc = "unregister" \/ (call[p].err => c.err)),
         At(p, "unregister") => c.pc = "unregister",
         c.pc = "register" => c.seq \in Seq
  PROVE  TableInv'
<1> USE DEF TableInv
<1>a. call \in [Call -> CallState] /\ pending \in [Seq -> OrNone(Call)] /\ None \notin Call
  BY ClientAssumption DEF GTypeOK
<1>b. call'[p] = c /\ \A q \in Call : q # p => call'[q] = call[q]
  BY <1>a
<1>1. HasSeq'
  BY <1>b DEF HasSeq, InFlight, At
<1>2. EntryIsInFlight'
  BY <1>a, <1>b DEF EntryIsInFlight, InFlight, OrNone
<1>3. EmptyOnceFailed' /\ ReaderHasCall'
  BY DEF EmptyOnceFailed, Failed, ReaderHasCall
<1>4. InFlightIsPending'
  BY <1>b DEF InFlightIsPending, InFlight, Failed, At
<1>5. QED BY <1>1, <1>2, <1>3, <1>4

\* The steps of a call.
LEMMA CallSteps ==
  ASSUME TableInv, NEW p \in Call, begin(p) \/ CallStep(p)
  PROVE  TableInv'
<1> USE DEF TableInv
<1>a. /\ call \in [Call -> CallState] /\ pending \in [Seq -> OrNone(Call)] /\ None \notin Call
      /\ Kind[p] \in {"create", "delete", "echo"} /\ MaxSeq \in Nat /\ MaxSeq > 0
      /\ TEIDs \in Nat /\ TEIDs > 0 /\ seq \in Seq /\ call[p] \in CallState
  BY ClientAssumption DEF GTypeOK
<1>1. CASE begin(p)
  <2> DEFINE c == [call[p] EXCEPT !.pc = IF Kind[p] = "create" THEN "gtpc_teid" ELSE "sequence"]
  <2>1. call' = [call EXCEPT ![p] = c] /\ c \in CallState
    BY <1>1, <1>a DEF begin, Goto, CallState
  <2>2. GTypeOK'
    BY <1>1, <1>a, <2>1 DEF begin, GTypeOK
  <2>3. ~InFlight(p) /\ ~At(p, "unregister") /\ c.pc \in {"gtpc_teid", "sequence"}
    BY <1>1, <1>a DEF begin, InFlight, At, CallState
  <2> HIDE DEF c
  <2>4. QED BY <1>1, <2>1, <2>2, <2>3, CallMoves DEF begin
<1>2. CASE nextTEIDValue(p)
  <2> DEFINE teid == (nextTEID + 1) % TEIDs
  <2>1. teid \in TEID
    BY <1>a DEF TEID, GTypeOK
  <2>2. ~InFlight(p) /\ ~At(p, "unregister")
    BY <1>2 DEF nextTEIDValue, InFlight, At
  <2>3. ASSUME NEW c \in CallState, call' = [call EXCEPT ![p] = c],
               c.pc \in {"gtpc_teid_again", "gtpu_teid", "gtpu_teid_again", "sequence"}
        PROVE  TableInv'
    <3>1. GTypeOK'
      BY <1>2, <2>1, <2>3, <1>a DEF nextTEIDValue, GTypeOK
    <3>2. QED BY <1>2, <2>2, <2>3, <3>1, CallMoves DEF nextTEIDValue
  <2>4. /\ [call[p] EXCEPT !.pc = "gtpc_teid_again"] \in CallState
        /\ [call[p] EXCEPT !.pc = "gtpu_teid_again"] \in CallState
        /\ [call[p] EXCEPT !.pc = "gtpu_teid", !.gtpc = teid] \in CallState
        /\ [call[p] EXCEPT !.pc = "sequence", !.gtpu = teid] \in CallState
    BY <1>a, <2>1 DEF CallState, OrNone
  <2>5. \/ call' = [call EXCEPT ![p] = [call[p] EXCEPT !.pc = "gtpc_teid_again"]]
        \/ call' = [call EXCEPT ![p] = [call[p] EXCEPT !.pc = "gtpu_teid_again"]]
        \/ call' = [call EXCEPT ![p] = [call[p] EXCEPT !.pc = "gtpu_teid", !.gtpc = teid]]
        \/ call' = [call EXCEPT ![p] = [call[p] EXCEPT !.pc = "sequence", !.gtpu = teid]]
    BY <1>2, <1>a DEF nextTEIDValue, Goto
  <2>6. /\ [call[p] EXCEPT !.pc = "gtpc_teid_again"].pc = "gtpc_teid_again"
        /\ [call[p] EXCEPT !.pc = "gtpu_teid_again"].pc = "gtpu_teid_again"
        /\ [call[p] EXCEPT !.pc = "gtpu_teid", !.gtpc = teid].pc = "gtpu_teid"
        /\ [call[p] EXCEPT !.pc = "sequence", !.gtpu = teid].pc = "sequence"
    BY <1>a DEF CallState
  <2> HIDE DEF teid
  <2>7. QED BY <2>3, <2>4, <2>5, <2>6
<1>3. CASE nextSequence(p)
  <2> DEFINE n == IF seq + 1 > MaxSeq THEN 1 ELSE seq + 1
             c == [call[p] EXCEPT !.pc = "register", !.seq = n]
  <2>1. n \in Seq
    BY <1>a DEF Seq
  <2>2. call' = [call EXCEPT ![p] = c] /\ c \in CallState /\ c.pc = "register" /\ c.seq = n
    BY <1>3, <1>a, <2>1 DEF nextSequence, CallState, OrNone
  <2>3. GTypeOK'
    BY <1>3, <1>a, <2>1, <2>2 DEF nextSequence, GTypeOK
  <2>4. ~InFlight(p) /\ ~At(p, "unregister")
    BY <1>3 DEF nextSequence, InFlight, At
  <2> HIDE DEF n, c
  <2>5. QED BY <1>3, <2>1, <2>2, <2>3, <2>4, CallMoves DEF nextSequence
<1>4. CASE registerTransaction(p)
  <2> DEFINE s == call[p].seq
  <2>0. s \in Seq /\ ~InFlight(p) /\ call[p].pc = "register"
    BY <1>4 DEF registerTransaction, HasSeq, InFlight, At
  <2>1. CASE ~Closed /\ pending[s] = None /\ pending' = [pending EXCEPT ![s] = p] /\ Goto(p, "send")
    <3> DEFINE c == [call[p] EXCEPT !.pc = "send"]
    <3>1. call' = [call EXCEPT ![p] = c] /\ c \in CallState /\ c.pc = "send" /\ c.seq = s
      BY <2>1, <1>a DEF Goto, CallState
    <3>2. pending' \in [Seq -> OrNone(Call)]
      BY <2>0, <2>1, <1>a DEF OrNone
    <3>3. GTypeOK'
      BY <1>4, <1>a, <3>1, <3>2 DEF registerTransaction, GTypeOK
    <3>4. call'[p] = c /\ \A q \in Call : q # p => call'[q] = call[q]
      BY <3>1, <1>a
    <3>5. pending'[s] = p /\ \A t \in Seq : t # s => pending'[t] = pending[t]
      BY <2>0, <2>1, <1>a
    <3>6. ~Failed /\ closing' = closing /\ reader' = reader
      BY <1>4, <2>1 DEF registerTransaction, Closed, Failed
    <3> HIDE DEF c
    <3>7. HasSeq'
      BY <2>0, <3>1, <3>4 DEF HasSeq, InFlight, At
    <3>8. EntryIsInFlight'
      BY <2>0, <3>1, <3>4, <3>5, <1>a DEF EntryIsInFlight, InFlight, OrNone
    <3>9. EmptyOnceFailed' /\ ReaderHasCall'
      BY <3>6 DEF EmptyOnceFailed, Failed, ReaderHasCall
    <3>10. InFlightIsPending'
      <4> SUFFICES ASSUME NEW q \in Call, InFlight(q)'
                   PROVE  pending'[call'[q].seq] = q
        BY DEF InFlightIsPending
      <4>1. CASE q = p
        BY <4>1, <3>1, <3>4, <3>5
      <4>2. CASE q # p
        <5>1. InFlight(q) /\ call'[q].seq = call[q].seq /\ call[q].seq \in Seq
          BY <4>2, <3>4 DEF InFlight, HasSeq
        <5>2. pending[call[q].seq] = q
          BY <5>1, <3>6 DEF InFlightIsPending
        <5>3. call[q].seq # s
          BY <5>2, <2>1, <1>a
        <5>4. QED BY <5>1, <5>2, <5>3, <3>5
      <4>3. QED BY <4>1, <4>2
    <3>11. QED BY <3>3, <3>7, <3>8, <3>9, <3>10
  <2>2. CASE Fails(p, "record") /\ UNCHANGED pending
    <3> DEFINE c == [call[p] EXCEPT !.pc = "record", !.out = "error", !.resp = None, !.err = FALSE]
    <3>1. call' = [call EXCEPT ![p] = c] /\ c \in CallState /\ c.pc = "record"
      BY <2>2, <1>a DEF Fails, CallState, OrNone
    <3>2. GTypeOK'
      BY <1>4, <2>2, <1>a, <3>1 DEF registerTransaction, GTypeOK
    <3> HIDE DEF c
    <3>3. QED BY <1>4, <2>0, <2>2, <3>1, <3>2, CallMoves DEF registerTransaction, At
  <2>3. QED BY <1>4, <2>1, <2>2 DEF registerTransaction
<1>5. CASE send(p)
  <2>0. InFlight(p) /\ call[p].pc = "send" /\ call[p].seq \in Seq
    BY <1>5 DEF send, InFlight, At, HasSeq
  <2>1. CASE Goto(p, "wait") /\ up' = up \cup {[type |-> Kind[p], seq |-> call[p].seq, of |-> p]}
    <3> DEFINE c == [call[p] EXCEPT !.pc = "wait"]
    <3>1. /\ call' = [call EXCEPT ![p] = c] /\ c \in CallState /\ c.pc = "wait"
          /\ c.seq = call[p].seq /\ c.err = call[p].err
      BY <2>1, <1>a DEF Goto, CallState
    <3>2. up' \subseteq Message
      BY <2>0, <2>1, <1>a DEF GTypeOK, Message, OrNone
    <3>3. GTypeOK'
      BY <1>5, <1>a, <3>1, <3>2 DEF send, GTypeOK
    <3> HIDE DEF c
    <3>4. QED BY <1>5, <2>0, <3>1, <3>3, CallMoves DEF send, At
  <2>2. CASE Fails(p, "unregister") /\ UNCHANGED up
    <3> DEFINE c == [call[p] EXCEPT !.pc = "unregister", !.out = "error", !.resp = None, !.err = FALSE]
    <3>1. /\ call' = [call EXCEPT ![p] = c] /\ c \in CallState /\ c.pc = "unregister"
          /\ c.seq = call[p].seq
      BY <2>2, <1>a DEF Fails, CallState, OrNone
    <3>2. GTypeOK'
      BY <1>5, <2>2, <1>a, <3>1 DEF send, GTypeOK
    <3> HIDE DEF c
    <3>3. QED BY <1>5, <2>0, <3>1, <3>2, CallMoves DEF send, At
  <2>3. QED BY <1>5, <2>1, <2>2 DEF send
<1>6. CASE receive(p)
  <2>0. InFlight(p) /\ call[p].pc = "wait"
    BY <1>6 DEF receive, InFlight, At
  <2>1. ASSUME NEW c \in CallState, call' = [call EXCEPT ![p] = c], c.pc = "unregister",
               c.seq = call[p].seq
        PROVE  TableInv'
    <3>1. GTypeOK'
      BY <1>6, <2>1, <1>a DEF receive, GTypeOK
    <3>2. QED BY <1>6, <2>0, <2>1, <3>1, CallMoves DEF receive, At
  <2>2. CASE call' = [call EXCEPT ![p].pc = "unregister", ![p].out = "answer", ![p].err = FALSE]
    <3> DEFINE c == [call[p] EXCEPT !.pc = "unregister", !.out = "answer", !.err = FALSE]
    <3>1. /\ call' = [call EXCEPT ![p] = c] /\ c \in CallState /\ c.pc = "unregister"
          /\ c.seq = call[p].seq
      BY <2>2, <1>a DEF CallState
    <3> HIDE DEF c
    <3>2. QED BY <2>1, <3>1
  <2>3. CASE Fails(p, "unregister")
    <3> DEFINE c == [call[p] EXCEPT !.pc = "unregister", !.out = "error", !.resp = None, !.err = FALSE]
    <3>1. /\ call' = [call EXCEPT ![p] = c] /\ c \in CallState /\ c.pc = "unregister"
          /\ c.seq = call[p].seq
      BY <2>3, <1>a DEF Fails, CallState, OrNone
    <3> HIDE DEF c
    <3>2. QED BY <2>1, <3>1
  <2>4. QED BY <1>6, <2>2, <2>3 DEF receive
<1>7. CASE unregisterTransaction(p)
  <2> DEFINE s == call[p].seq
             c == [call[p] EXCEPT !.pc = "record"]
  <2>0. s \in Seq /\ InFlight(p)
    BY <1>7 DEF unregisterTransaction, HasSeq, InFlight, At
  <2>1. call' = [call EXCEPT ![p] = c] /\ c \in CallState /\ c.pc = "record"
    BY <1>7, <1>a DEF unregisterTransaction, Goto, CallState
  <2>2. pending' = [pending EXCEPT ![s] = None] /\ pending' \in [Seq -> OrNone(Call)]
    BY <1>7, <1>a DEF unregisterTransaction, OrNone
  <2>3. GTypeOK'
    BY <1>7, <1>a, <2>1, <2>2 DEF unregisterTransaction, GTypeOK
  <2>4. call'[p] = c /\ \A q \in Call : q # p => call'[q] = call[q]
    BY <2>1, <1>a
  <2>5. pending'[s] = None /\ \A t \in Seq : t # s => pending'[t] = pending[t]
    BY <2>0, <2>2, <1>a
  <2>6. closing' = closing /\ reader' = reader
    BY <1>7 DEF unregisterTransaction
  <2>7. pending[s] = p \/ Failed
    BY <2>0 DEF InFlightIsPending
  <2> HIDE DEF c
  <2>8. HasSeq'
    BY <2>1, <2>4 DEF HasSeq, InFlight, At
  <2>9. EntryIsInFlight'
    <3> SUFFICES ASSUME NEW t \in Seq, pending'[t] # None
                 PROVE  /\ call'[pending'[t]].pc \in {"send", "wait", "unregister"}
                        /\ call'[pending'[t]].seq = t
      BY DEF EntryIsInFlight, InFlight
    <3>1. t # s /\ pending'[t] = pending[t] /\ pending[t] \in Call
      BY <2>5, <1>a DEF OrNone
    <3>2. InFlight(pending[t]) /\ call[pending[t]].seq = t
      BY <3>1 DEF EntryIsInFlight
    <3>3. pending[t] # p
      BY <3>1, <3>2
    <3>4. QED BY <3>1, <3>2, <3>3, <2>4 DEF InFlight
  <2>10. EmptyOnceFailed' /\ ReaderHasCall'
    BY <2>2, <2>5, <2>6 DEF EmptyOnceFailed, Failed, ReaderHasCall
  <2>11. InFlightIsPending'
    <3> SUFFICES ASSUME NEW q \in Call, InFlight(q)'
                 PROVE  \/ pending'[call'[q].seq] = q
                        \/ Failed /\ (call'[q].pc = "unregister" \/ call'[q].err)
      BY <2>6 DEF InFlightIsPending, Failed, At
    <3>1. q # p /\ call'[q] = call[q] /\ InFlight(q) /\ call[q].seq \in Seq
      BY <2>1, <2>4 DEF InFlight, HasSeq
    <3>2. \/ pending[call[q].seq] = q
          \/ Failed /\ (call[q].pc = "unregister" \/ call[q].err)
      BY <3>1 DEF InFlightIsPending, At
    <3>3. CASE Failed
      BY <3>1, <3>2, <3>3, <1>a DEF EmptyOnceFailed
    <3>4. CASE ~Failed
      BY <3>1, <3>2, <3>4, <2>5, <2>7
    <3>5. QED BY <3>3, <3>4
  <2>12. QED BY <2>3, <2>8, <2>9, <2>10, <2>11
<1>8. CASE recordEcho(p)
  <2> DEFINE c == [call[p] EXCEPT !.pc = "done"]
  <2>1. call' = [call EXCEPT ![p] = c] /\ c \in CallState /\ c.pc = "done"
    BY <1>8, <1>a DEF recordEcho, Goto, CallState
  <2>2. health' \in [state: {"unknown", "healthy", "unhealthy"}, failures: Nat]
    BY <1>8 DEF recordEcho, GTypeOK
  <2>3. GTypeOK'
    BY <1>8, <1>a, <2>1, <2>2 DEF recordEcho, GTypeOK
  <2>4. ~InFlight(p) /\ ~At(p, "unregister")
    BY <1>8 DEF recordEcho, InFlight, At
  <2> HIDE DEF c
  <2>5. QED BY <1>8, <2>1, <2>3, <2>4, CallMoves DEF recordEcho
<1>9. QED BY <1>1, <1>2, <1>3, <1>4, <1>5, <1>6, <1>7, <1>8 DEF CallStep

\* The steps of readLoop.
LEMMA ReaderSteps ==
  ASSUME TableInv, readMessage \/ deliver \/ readerExit
  PROVE  TableInv'
<1> USE DEF TableInv
<1>a. /\ call \in [Call -> CallState] /\ pending \in [Seq -> OrNone(Call)] /\ None \notin Call
      /\ \A m \in Message : m.seq \in Seq
  BY ClientAssumption DEF GTypeOK, Message
<1>1. CASE readMessage
  <2> PICK m \in down :
        \/ /\ up' = up \cup {[type |-> IF m.type = "echo_request" THEN "echo" ELSE "delete",
                              seq |-> m.seq, of |-> None]}
           /\ deletes' = IF m.type = "delete_request" THEN deletes \cup {m.seq} ELSE deletes
           /\ UNCHANGED reader
        \/ /\ lookupTransaction(m) # None
           /\ Reads(m, lookupTransaction(m))
           /\ UNCHANGED <<up, deletes>>
    BY <1>1 DEF readMessage
  <2>1. m \in Message /\ m.seq \in Seq
    BY <1>a DEF GTypeOK
  <2>2. up' \subseteq Message /\ deletes' \subseteq Seq
    BY <2>1 DEF GTypeOK, Message, OrNone
  <2>3. lookupTransaction(m) # None => lookupTransaction(m) \in Call
    BY <2>1, <1>a DEF lookupTransaction, OrNone
  <2>4. /\ reader' \in [pc: {"read", "deliver", "exit"}, msg: OrNone(Message), tx: OrNone(Call)]
        /\ ReaderHasCall'
    BY <2>1, <2>3 DEF Reads, GTypeOK, OrNone, ReaderHasCall
  <2>5. GTypeOK'
    BY <1>1, <2>2, <2>4 DEF readMessage, GTypeOK
  <2>6. QED
    BY <1>1, <2>4, <2>5 DEF readMessage, HasSeq, EntryIsInFlight, EmptyOnceFailed,
         InFlightIsPending, InFlight, Failed, At
<1>2. CASE deliver
  <2> DEFINE m == reader.msg
             tx == reader.tx
  <2>1. tx \in Call /\ m \in Message /\ call[tx] \in CallState
    BY <1>2, <1>a DEF deliver, ReaderHasCall
  <2>2. /\ [call[tx] EXCEPT !.err = TRUE] \in CallState
        /\ [call[tx] EXCEPT !.resp = m] \in CallState
    BY <2>1 DEF CallState, OrNone
  <2>3. \/ call' = call
        \/ call' = [call EXCEPT ![tx] = [call[tx] EXCEPT !.err = TRUE]]
        \/ call' = [call EXCEPT ![tx] = [call[tx] EXCEPT !.resp = m]]
    BY <1>2, <1>a, <2>1 DEF deliver
  <2>4. call' \in [Call -> CallState]
    BY <1>a, <2>1, <2>2, <2>3
  <2>5. \A q \in Call : /\ call'[q].pc = call[q].pc /\ call'[q].seq = call[q].seq
                        /\ call[q].err => call'[q].err
    BY <1>a, <2>1, <2>3 DEF CallState
  <2>6. reader' = [pc |-> "read", msg |-> None, tx |-> None]
    BY <1>2 DEF deliver
  <2>7. GTypeOK' /\ ReaderHasCall'
    BY <1>2, <2>4, <2>6 DEF deliver, GTypeOK, OrNone, ReaderHasCall
  <2>8. pending' = pending /\ closing' = closing
    BY <1>2 DEF deliver
  <2> HIDE DEF m, tx
  <2>9. HasSeq' /\ EmptyOnceFailed'
    BY <2>5, <2>8 DEF HasSeq, EmptyOnceFailed, Failed, InFlight, At
  <2>10. EntryIsInFlight'
    BY <1>a, <2>5, <2>8 DEF EntryIsInFlight, InFlight, OrNone
  <2>11. InFlightIsPending'
    BY <2>5, <2>8 DEF InFlightIsPending, InFlight, Failed, At
  <2>12. QED BY <2>7, <2>9, <2>10, <2>11
<1>3. CASE readerExit
  <2>1. GTypeOK' /\ ReaderHasCall'
    BY <1>3 DEF readerExit, GTypeOK, ReaderHasCall
  <2>2. QED
    BY <1>3, <2>1 DEF readerExit, HasSeq, EntryIsInFlight, EmptyOnceFailed,
         InFlightIsPending, InFlight, Failed, At
<1>4. QED BY <1>1, <1>2, <1>3

\* The steps of Close: failPending empties the table and wakes every call.
LEMMA CloseSteps == ASSUME TableInv, Close PROVE TableInv'
<1> USE DEF TableInv
<1>a. call \in [Call -> CallState] /\ pending \in [Seq -> OrNone(Call)] /\ None \notin Call
  BY ClientAssumption DEF GTypeOK
<1>1. CASE closing \in {"no", "conn"} /\ closing' \in {"conn", "fail"} /\ UNCHANGED <<call, pending>>
  <2>1. GTypeOK'
    BY <1>1 DEF Close, GTypeOK
  <2>2. QED
    BY <1>1, <2>1 DEF Close, HasSeq, EntryIsInFlight, EmptyOnceFailed,
         InFlightIsPending, InFlight, Failed, At, ReaderHasCall
<1>2. CASE closing = "wait" /\ closing' = "done" /\ UNCHANGED <<call, pending>>
  <2>1. GTypeOK'
    BY <1>2 DEF Close, GTypeOK
  <2>2. QED
    BY <1>2, <2>1 DEF Close, HasSeq, EntryIsInFlight, EmptyOnceFailed,
         InFlightIsPending, InFlight, Failed, At, ReaderHasCall
<1>3. CASE closing = "fail" /\ failPending /\ closing' = "wait"
  <2> DEFINE waiting == {pending[s] : s \in Seq} \ {None}
  <2>1. call' = [p \in Call |-> IF p \in waiting THEN [call[p] EXCEPT !.err = TRUE] ELSE call[p]]
    BY <1>3 DEF failPending
  <2>a. \A q \in Call : /\ call[q] \in CallState
                        /\ [call[q] EXCEPT !.err = TRUE] \in CallState
                        /\ [call[q] EXCEPT !.err = TRUE].pc = call[q].pc
                        /\ [call[q] EXCEPT !.err = TRUE].seq = call[q].seq
                        /\ [call[q] EXCEPT !.err = TRUE].err
    <3> SUFFICES ASSUME NEW q \in Call
                 PROVE  /\ call[q] \in CallState
                        /\ [call[q] EXCEPT !.err = TRUE] \in CallState
                        /\ [call[q] EXCEPT !.err = TRUE].pc = call[q].pc
                        /\ [call[q] EXCEPT !.err = TRUE].seq = call[q].seq
                        /\ [call[q] EXCEPT !.err = TRUE].err
      OBVIOUS
    <3>1. call[q] \in CallState
      BY <1>a
    <3>2. QED BY <3>1 DEF CallState
  <2>b. \A q \in Call : call'[q] = IF q \in waiting THEN [call[q] EXCEPT !.err = TRUE] ELSE call[q]
    BY <2>1
  <2>c. call' = [q \in Call |-> call'[q]]
    BY <2>1
  <2> HIDE DEF waiting
  <2>d. \A q \in Call : call'[q] \in CallState
    BY <2>a, <2>b
  <2>2. call' \in [Call -> CallState]
    BY <2>c, <2>d
  <2>3. \A q \in Call : /\ call'[q].pc = call[q].pc /\ call'[q].seq = call[q].seq
                        /\ q \in waiting => call'[q].err
    BY <2>a, <2>b
  <2>4. pending' = [s \in Seq |-> None]
    BY <1>3 DEF failPending
  <2>5. GTypeOK'
    BY <1>3, <2>2, <2>4 DEF Close, GTypeOK, OrNone
  <2>6. HasSeq' /\ EntryIsInFlight' /\ EmptyOnceFailed' /\ ReaderHasCall'
    BY <1>3, <2>3, <2>4 DEF Close, HasSeq, EntryIsInFlight, EmptyOnceFailed, ReaderHasCall,
         InFlight, At
  <2>7. InFlightIsPending'
    <3> SUFFICES ASSUME NEW q \in Call, call[q].pc \in {"send", "wait", "unregister"}
                 PROVE  call'[q].err
      BY <1>3, <2>3 DEF InFlightIsPending, InFlight, Failed, At
    <3>1. call[q].seq \in Seq /\ pending[call[q].seq] = q
      BY <1>3 DEF HasSeq, InFlightIsPending, InFlight, Failed
    <3>2. q \in waiting
      BY <3>1, <1>a DEF waiting
    <3>3. QED BY <2>3, <3>2
  <2>8. QED BY <2>5, <2>6, <2>7
<1>4. QED BY <1>1, <1>2, <1>3 DEF Close

\* The steps of the PGW do not touch the client.
LEMMA PGWSteps == ASSUME TableInv, pgwAnswers \/ pgwRequest \/ UNCHANGED gtpVars PROVE TableInv'
<1> USE DEF TableInv
<1>1. down' \subseteq Message
  <2>1. CASE pgwAnswers
    BY <2>1 DEF pgwAnswers, GTypeOK
  <2>2. CASE pgwRequest
    <3>1. \A t \in Inbound, s \in Seq : [type |-> t, seq |-> s, of |-> None] \in Message
      BY ClientAssumption DEF Message, OrNone
    <3>2. QED BY <2>2, <3>1 DEF pgwRequest, GTypeOK
  <2>3. QED BY <2>1, <2>2 DEF gtpVars, GTypeOK
<1>2. UNCHANGED <<seq, nextTEID, pending, call, reader, closing, health, up, deletes>>
  BY DEF pgwAnswers, pgwRequest, gtpVars
<1>3. GTypeOK'
  BY <1>1, <1>2 DEF GTypeOK
<1>4. QED
  BY <1>2, <1>3 DEF HasSeq, EntryIsInFlight, EmptyOnceFailed, InFlightIsPending, InFlight,
       Failed, At, ReaderHasCall

\* The invariant of the table is inductive.
LEMMA TableStep == TableInv /\ [GNext]_gtpVars => TableInv'
BY CallSteps, ReaderSteps, CloseSteps, PGWSteps DEF GNext

\* The client's state keeps its types; in particular the sequence numbers stay
\* in the range gtpv2Message.encode accepts, across the wrap.
THEOREM ClientTypeCorrect == GSpec => []GTypeOK
<1>1. TableInv => GTypeOK
  BY DEF TableInv
<1>2. QED BY <1>1, TableInit, TableStep, PTL DEF GSpec

\* No goroutine waits for an answer that cannot reach it: its transaction is
\* in the table until it returns or until Close has left it an error, although
\* the sequence numbers wrap and entries are deleted by number.
THEOREM NoTransactionLost == GSpec => []WaitingIsPending
<1>1. TableInv => WaitingIsPending
  BY DEF TableInv, InFlightIsPending, InFlight, At, WaitingIsPending
<1>2. QED BY <1>1, TableInit, TableStep, PTL DEF GSpec
-----------------------------------------------------------------------------
(* The answers. *)

\* The places of a call before it has a sequence number, and after its result.
Early == {"idle", "gtpc_teid", "gtpc_teid_again", "gtpu_teid", "gtpu_teid_again", "sequence"}
Late == {"unregister", "record", "done"}

Numbered ==
  \A p \in Call : /\ call[p].seq = None <=> call[p].pc \in Early
                  /\ call[p].out = "none" <=> call[p].pc \notin Late

\* What is on the wire for a call has the call's type and number; only answers
\* to calls have the types of answers.
OnTheWire ==
  /\ \A m \in up \cup down : m.of # None =>
       m.of \in Call /\ m.type = Kind[m.of] /\ m.seq = call[m.of].seq
  /\ \A m \in down : m.type \in {"create", "delete", "echo"} => m.of # None

\* readLoop holds a message with the number of the call it looked up, and the
\* channel of a call one with its number and type.
Matched ==
  /\ reader.pc = "deliver" =>
       reader.tx \in Call /\ reader.msg \in down /\ reader.msg.seq = call[reader.tx].seq
  /\ \A p \in Call : call[p].resp # None =>
       call[p].resp \in down /\ call[p].resp.type = Kind[p] /\ call[p].resp.seq = call[p].seq
  /\ \A p \in Call : call[p].out = "answer" => call[p].resp # None

\* The inductive invariant of the answers.  A number is never changed once it
\* is taken, so what was matched by it stays so until the call returns.
AnswerInv == TableInv /\ Numbered /\ OnTheWire /\ Matched

\* The steps of a call, by what they do to its place, number and result.
Effect(p) ==
  \/ /\ call[p].pc \in Early \ {"sequence"} /\ call'[p].pc \in Early \ {"idle"}
     /\ call'[p].seq = call[p].seq /\ call'[p].out = call[p].out /\ call'[p].resp = call[p].resp
     /\ UNCHANGED up
  \/ /\ call[p].pc = "sequence" /\ call'[p].pc = "register"
     /\ call'[p].seq \in Seq /\ call'[p].out = call[p].out /\ call'[p].resp = call[p].resp
     /\ UNCHANGED up
  \/ /\ <<call[p].pc, call'[p].pc>> \in
          {<<"register", "send">>, <<"unregister", "record">>, <<"record", "done">>}
     /\ call'[p].seq = call[p].seq /\ call'[p].out = call[p].out /\ call'[p].resp = call[p].resp
     /\ UNCHANGED up
  \/ /\ call[p].pc \in {"register", "send", "wait"} /\ call'[p].pc \in {"unregister", "record"}
     /\ call'[p].seq = call[p].seq /\ call'[p].out = "error" /\ call'[p].resp = None
     /\ UNCHANGED up
  \/ /\ call[p].pc = "send" /\ call'[p].pc = "wait"
     /\ call'[p].seq = call[p].seq /\ call'[p].out = call[p].out /\ call'[p].resp = call[p].resp
     /\ up' = up \cup {[type |-> Kind[p], seq |-> call[p].seq, of |-> p]}
  \/ /\ call[p].pc = "wait" /\ call'[p].pc = "unregister"
     /\ call'[p].seq = call[p].seq /\ call'[p].out = "answer"
     /\ call[p].resp # None /\ call'[p].resp = call[p].resp
     /\ UNCHANGED up

\* doTransaction and its callers go on to the next statement, fail, or return
\* what is in their channel.
LEMMA CallEffects ==
  ASSUME GTypeOK, NEW p \in Call, begin(p) \/ CallStep(p)
  PROVE  /\ Effect(p) /\ UNCHANGED <<reader, down>>
         /\ \A q \in Call : q # p => call'[q] = call[q]
<1>0. /\ call \in [Call -> CallState] /\ call[p] \in CallState /\ seq \in Seq
      /\ Kind[p] \in {"create", "delete", "echo"} /\ MaxSeq \in Nat /\ MaxSeq > 0
  BY ClientAssumption DEF GTypeOK
<1>1. ASSUME NEW l, Goto(p, l)
      PROVE  /\ call'[p].pc = l /\ call'[p].seq = call[p].seq /\ call'[p].out = call[p].out
             /\ call'[p].resp = call[p].resp
             /\ \A q \in Call : q # p => call'[q] = call[q]
  BY <1>0, <1>1 DEF Goto, CallState
<1>2. ASSUME NEW l, Fails(p, l)
      PROVE  /\ call'[p].pc = l /\ call'[p].seq = call[p].seq /\ call'[p].out = "error"
             /\ call'[p].resp = None
             /\ \A q \in Call : q # p => call'[q] = call[q]
  BY <1>0, <1>2 DEF Fails, CallState
<1>3. CASE begin(p)
  BY <1>0, <1>1, <1>3 DEF begin, At, Effect, Early
<1>4. CASE nextTEIDValue(p)
  <2> DEFINE teid == (nextTEID + 1) % TEIDs
  <2>1. \/ /\ At(p, "gtpc_teid") /\ Goto(p, "gtpc_teid_again")
        \/ /\ At(p, "gtpu_teid") /\ Goto(p, "gtpu_teid_again")
        \/ /\ At(p, "gtpc_teid") \/ At(p, "gtpc_teid_again")
           /\ call' = [call EXCEPT ![p] = [call[p] EXCEPT !.pc = "gtpu_teid", !.gtpc = teid]]
        \/ /\ At(p, "gtpu_teid") \/ At(p, "gtpu_teid_again")
           /\ call' = [call EXCEPT ![p] = [call[p] EXCEPT !.pc = "sequence", !.gtpu = teid]]
    BY <1>0, <1>4 DEF nextTEIDValue
  <2>2. UNCHANGED <<up, reader, down>>
    BY <1>4 DEF nextTEIDValue
  <2> HIDE DEF teid
  <2>3. ASSUME At(p, "gtpc_teid") \/ At(p, "gtpc_teid_again"),
               call' = [call EXCEPT ![p] = [call[p] EXCEPT !.pc = "gtpu_teid", !.gtpc = teid]]
        PROVE  /\ call'[p].pc = "gtpu_teid" /\ call'[p].seq = call[p].seq
               /\ call'[p].out = call[p].out /\ call'[p].resp = call[p].resp
               /\ \A q \in Call : q # p => call'[q] = call[q]
    BY <1>0, <2>3 DEF CallState
  <2>4. ASSUME At(p, "gtpu_teid") \/ At(p, "gtpu_teid_again"),
               call' = [call EXCEPT ![p] = [call[p] EXCEPT !.pc = "sequence", !.gtpu = teid]]
        PROVE  /\ call'[p].pc = "sequence" /\ call'[p].seq = call[p].seq
               /\ call'[p].out = call[p].out /\ call'[p].resp = call[p].resp
               /\ \A q \in Call : q # p => call'[q] = call[q]
    BY <1>0, <2>4 DEF CallState
  <2>5. QED BY <1>1, <2>1, <2>2, <2>3, <2>4 DEF At, Effect, Early
<1>5. CASE nextSequence(p)
  <2> DEFINE n == IF seq + 1 > MaxSeq THEN 1 ELSE seq + 1
  <2>0. n \in Seq
    BY <1>0 DEF Seq
  <2>1. /\ UNCHANGED <<up, reader, down>> /\ call[p].pc = "sequence"
        /\ call' = [call EXCEPT ![p] = [call[p] EXCEPT !.pc = "register", !.seq = n]]
    BY <1>0, <1>5 DEF nextSequence, At
  <2> HIDE DEF n
  <2>2. /\ call'[p].pc = "register" /\ call'[p].seq = n
        /\ call'[p].out = call[p].out /\ call'[p].resp = call[p].resp
        /\ \A q \in Call : q # p => call'[q] = call[q]
    BY <1>0, <2>1 DEF CallState
  <2>3. QED BY <2>0, <2>1, <2>2 DEF Effect
<1>6. CASE registerTransaction(p)
  BY <1>1, <1>2, <1>6 DEF registerTransaction, At, Effect
<1>7. CASE send(p)
  BY <1>1, <1>2, <1>7 DEF send, At, Effect
<1>8. CASE receive(p)
  <2>1. UNCHANGED <<up, reader, down>> /\ call[p].pc = "wait"
    BY <1>8 DEF receive, At
  <2>2. CASE Fails(p, "unregister")
    BY <1>2, <2>1, <2>2 DEF Effect
  <2>3. CASE /\ call[p].resp # None
             /\ call' = [call EXCEPT ![p] = [call[p] EXCEPT !.pc = "unregister", !.out = "answer", !.err = FALSE]]
    <3>1. /\ call'[p].pc = "unregister" /\ call'[p].seq = call[p].seq
          /\ call'[p].out = "answer" /\ call'[p].resp = call[p].resp
          /\ \A q \in Call : q # p => call'[q] = call[q]
      BY <1>0, <2>3 DEF CallState
    <3>2. QED BY <2>1, <2>3, <3>1 DEF Effect
  <2>4. QED BY <1>0, <1>8, <2>2, <2>3 DEF receive
<1>9. CASE unregisterTransaction(p)
  BY <1>1, <1>9 DEF unregisterTransaction, At, Effect
<1>10. CASE recordEcho(p)
  BY <1>1, <1>10 DEF recordEcho, At, Effect
<1>11. QED BY <1>3, <1>4, <1>5, <1>6, <1>7, <1>8, <1>9, <1>10 DEF CallStep

\* readLoop puts at most the message it holds into the channel of the call it
\* looked up, and Close an error; neither moves a call.
LEMMA ChannelEffects ==
  ASSUME GTypeOK, ReaderHasCall,
         readMessage \/ deliver \/ readerExit \/ Close \/ pgwAnswers \/ pgwRequest \/ UNCHANGED gtpVars
  PROVE  \A q \in Call :
           /\ call'[q].pc = call[q].pc /\ call'[q].seq = call[q].seq /\ call'[q].out = call[q].out
           /\ \/ call'[q].resp = call[q].resp
              \/ /\ deliver /\ q = reader.tx /\ call'[q].resp = reader.msg
                 /\ reader.msg.type = Kind[q] /\ call[q].pc \in {"send", "wait"}
<1> SUFFICES ASSUME NEW q \in Call
             PROVE  /\ call'[q].pc = call[q].pc /\ call'[q].seq = call[q].seq
                    /\ call'[q].out = call[q].out
                    /\ \/ call'[q].resp = call[q].resp
                       \/ /\ deliver /\ q = reader.tx /\ call'[q].resp = reader.msg
                          /\ reader.msg.type = Kind[q] /\ call[q].pc \in {"send", "wait"}
  OBVIOUS
<1>0. call \in [Call -> CallState] /\ call[q] \in CallState
  BY DEF GTypeOK
<1>1. CASE deliver
  <2>1. reader.tx \in Call
    BY <1>1 DEF deliver, ReaderHasCall
  <2>2. \/ call' = call
        \/ call' = [call EXCEPT ![reader.tx] = [call[reader.tx] EXCEPT !.err = TRUE]]
        \/ /\ call' = [call EXCEPT ![reader.tx] = [call[reader.tx] EXCEPT !.resp = reader.msg]]
           /\ reader.msg.type = Kind[reader.tx] /\ call[reader.tx].pc \in {"send", "wait"}
    BY <1>0, <1>1, <2>1 DEF deliver
  <2>3. QED BY <1>0, <1>1, <2>1, <2>2 DEF CallState
<1>2. CASE Close /\ failPending
  <2>1. call'[q] \in {call[q], [call[q] EXCEPT !.err = TRUE]}
    BY <1>2 DEF failPending
  <2>2. QED BY <1>0, <2>1 DEF CallState
<1>3. CASE call' = call
  BY <1>3
<1>4. QED
  BY <1>1, <1>2, <1>3 DEF readMessage, readerExit, Close, pgwAnswers, pgwRequest, gtpVars

\* The steps of a call: it takes its number before anything with it is on the
\* wire, and sends its own type and number.
LEMMA AnswerCallSteps ==
  ASSUME AnswerInv, NEW p \in Call, begin(p) \/ CallStep(p)
  PROVE  Numbered' /\ OnTheWire' /\ Matched'
<1>0. /\ GTypeOK /\ None \notin Seq /\ None \notin Call
      /\ \A m \in up \cup down : m.seq \in Seq
  BY ClientAssumption DEF AnswerInv, TableInv, GTypeOK, Seq, Message
<1>1. Effect(p) /\ UNCHANGED <<reader, down>> /\ \A q \in Call : q # p => call'[q] = call[q]
  BY <1>0, CallEffects
<1>2. Numbered'
  <2>1. \A q \in Call : /\ call[q].seq = None <=> call[q].pc \in Early
                        /\ call[q].out = "none" <=> call[q].pc \notin Late
    BY DEF AnswerInv, Numbered
  <2>2. /\ call'[p].seq = None <=> call'[p].pc \in Early
        /\ call'[p].out = "none" <=> call'[p].pc \notin Late
    BY <1>0, <1>1, <2>1 DEF Effect, Early, Late
  <2>3. QED BY <1>1, <2>1, <2>2 DEF Numbered
<1>3. \A q \in Call : call[q].seq # None => call'[q].seq = call[q].seq
  BY <1>1 DEF Effect, AnswerInv, Numbered, Early
<1>4. /\ \A m \in up : m.of # None => m.of \in Call /\ m.type = Kind[m.of] /\ m.seq = call[m.of].seq
      /\ \A m \in down : m.of # None => m.of \in Call /\ m.type = Kind[m.of] /\ m.seq = call[m.of].seq
      /\ \A m \in down : m.type \in {"create", "delete", "echo"} => m.of # None
  BY DEF AnswerInv, OnTheWire
<1>5. OnTheWire'
  <2> DEFINE r == [type |-> Kind[p], seq |-> call[p].seq, of |-> p]
  <2>1. up' = up \/ (up' = up \cup {r} /\ call'[p].seq = call[p].seq)
    BY <1>1 DEF Effect
  <2>2. r.of = p /\ r.type = Kind[p] /\ r.seq = call[p].seq
    OBVIOUS
  <2> HIDE DEF r
  <2>3. ASSUME NEW m \in up' \cup down', m.of # None
        PROVE  m.of \in Call /\ m.type = Kind[m.of] /\ m.seq = call'[m.of].seq
    <3>1. CASE m \in up \cup down
      BY <1>0, <1>3, <1>4, <2>3, <3>1
    <3>2. CASE m = r /\ up' = up \cup {r}
      BY <2>1, <2>2, <3>1, <3>2
    <3>3. QED BY <1>1, <2>1, <2>3, <3>1, <3>2
  <2>4. QED BY <1>1, <1>4, <2>3 DEF OnTheWire
<1>6. Matched'
  <2>0. /\ reader.pc = "deliver" =>
             reader.tx \in Call /\ reader.msg \in down /\ reader.msg.seq = call[reader.tx].seq
        /\ \A q \in Call : call[q].resp # None =>
             call[q].resp \in down /\ call[q].resp.type = Kind[q] /\ call[q].resp.seq = call[q].seq
        /\ \A q \in Call : call[q].out = "answer" => call[q].resp # None
    BY DEF AnswerInv, Matched
  <2>1. reader'.pc = "deliver" =>
          /\ reader'.tx \in Call /\ reader'.msg \in down'
          /\ reader'.msg.seq = call'[reader'.tx].seq
    BY <1>0, <1>1, <1>3, <2>0
  <2>2. /\ call'[p].resp \in {call[p].resp, None}
        /\ call'[p].out \in {call[p].out, "error"} \/ call[p].resp # None
        /\ call'[p].resp = None => call'[p].out = "error" \/ call'[p].out = call[p].out
        /\ call'[p].out = "answer" => call'[p].resp = call[p].resp
    BY <1>1 DEF Effect
  <2>3. \A q \in Call : call'[q].resp # None =>
          /\ call'[q].resp \in down' /\ call'[q].resp.type = Kind[q]
          /\ call'[q].resp.seq = call'[q].seq
    BY <1>0, <1>1, <1>3, <2>0, <2>2
  <2>4. \A q \in Call : call'[q].out = "answer" => call'[q].resp # None
    BY <1>1, <2>0, <2>2
  <2>5. QED BY <2>1, <2>3, <2>4 DEF Matched
<1>7. QED BY <1>2, <1>5, <1>6

\* The other steps: readLoop matches by the number, Close loses entries, the
\* PGW answers what it received.
LEMMA AnswerOtherSteps ==
  ASSUME AnswerInv,
         readMessage \/ deliver \/ readerExit \/ Close \/ pgwAnswers \/ pgwRequest \/ UNCHANGED gtpVars
  PROVE  Numbered' /\ OnTheWire' /\ Matched'
<1>0. /\ GTypeOK /\ ReaderHasCall /\ None \notin Seq /\ None \notin Call
      /\ \A m \in up \cup down : m.seq \in Seq
      /\ pending \in [Seq -> OrNone(Call)]
  BY ClientAssumption DEF AnswerInv, TableInv, GTypeOK, Seq, Message
<1>1. \A q \in Call :
        /\ call'[q].pc = call[q].pc /\ call'[q].seq = call[q].seq /\ call'[q].out = call[q].out
        /\ \/ call'[q].resp = call[q].resp
           \/ /\ deliver /\ q = reader.tx /\ call'[q].resp = reader.msg
              /\ reader.msg.type = Kind[q] /\ call[q].pc \in {"send", "wait"}
  BY <1>0, ChannelEffects
<1>2. Numbered'
  BY <1>1 DEF AnswerInv, Numbered
<1>3. /\ \A m \in up : m.of # None => m.of \in Call /\ m.type = Kind[m.of] /\ m.seq = call[m.of].seq
      /\ \A m \in down : m.of # None => m.of \in Call /\ m.type = Kind[m.of] /\ m.seq = call[m.of].seq
      /\ \A m \in down : m.type \in {"create", "delete", "echo"} => m.of # None
  BY DEF AnswerInv, OnTheWire
<1>4. /\ down \subseteq down'
      /\ \A m \in up' \cup down' : m \in up \cup down \/ m.of = None
      /\ \A m \in down' : \/ m \in up /\ m.of # None
                          \/ m \in down
                          \/ m.type \notin {"create", "delete", "echo"}
  <2>1. CASE readMessage
    <3>1. \A t, s : [type |-> t, seq |-> s, of |-> None].of = None
      OBVIOUS
    <3>2. QED BY <2>1, <3>1 DEF readMessage
  <2>2. CASE pgwAnswers
    BY <2>2 DEF pgwAnswers
  <2>3. CASE pgwRequest
    <3>1. PICK t \in Inbound, s \in Seq : down' = down \cup {[type |-> t, seq |-> s, of |-> None]}
      BY <2>3 DEF pgwRequest
    <3>2. t \in {"echo_request", "delete_request", "other"}
      BY ClientAssumption
    <3>3. QED BY <2>3, <3>1, <3>2 DEF pgwRequest
  <2>4. QED BY <2>1, <2>2, <2>3 DEF deliver, readerExit, Close, gtpVars
<1>5. OnTheWire'
  <2>1. ASSUME NEW m \in up' \cup down', m.of # None
        PROVE  m.of \in Call /\ m.type = Kind[m.of] /\ m.seq = call'[m.of].seq
    BY <1>1, <1>3, <1>4, <2>1
  <2>2. ASSUME NEW m \in down', m.type \in {"create", "delete", "echo"} PROVE m.of # None
    BY <1>3, <1>4, <2>2
  <2>3. QED BY <2>1, <2>2 DEF OnTheWire
<1>6. Matched'
  <2>0. /\ reader.pc = "deliver" =>
             reader.tx \in Call /\ reader.msg \in down /\ reader.msg.seq = call[reader.tx].seq
        /\ \A q \in Call : call[q].resp # None =>
             call[q].resp \in down /\ call[q].resp.type = Kind[q] /\ call[q].resp.seq = call[q].seq
        /\ \A q \in Call : call[q].out = "answer" => call[q].resp # None
        /\ \A q \in Call : call[q].out = "none" <=> call[q].pc \notin Late
    BY DEF AnswerInv, Matched, Numbered
  <2>1. reader'.pc = "deliver" =>
          \/ reader' = reader
          \/ \E m \in down : /\ reader'.msg = m /\ reader'.tx = pending[m.seq]
                             /\ pending[m.seq] # None
    <3>1. CASE readMessage
      BY <3>1 DEF readMessage, Reads, lookupTransaction
    <3>2. CASE readerExit
      BY <1>0, <3>2 DEF readerExit, GTypeOK
    <3>3. QED BY <3>1, <3>2 DEF deliver, Close, pgwAnswers, pgwRequest, gtpVars
  <2>2. \A s \in Seq : pending[s] # None => pending[s] \in Call /\ call[pending[s]].seq = s
    BY <1>0 DEF AnswerInv, TableInv, EntryIsInFlight, OrNone
  <2>3. reader'.pc = "deliver" =>
          /\ reader'.tx \in Call /\ reader'.msg \in down'
          /\ reader'.msg.seq = call'[reader'.tx].seq
    BY <1>0, <1>1, <1>4, <2>0, <2>1, <2>2
  <2>4. \A q \in Call : call'[q].resp # None =>
          /\ call'[q].resp \in down' /\ call'[q].resp.type = Kind[q]
          /\ call'[q].resp.seq = call'[q].seq
    <3>1. deliver => reader.pc = "deliver"
      BY DEF deliver
    <3>2. QED BY <1>1, <1>4, <2>0, <3>1
  <2>5. \A q \in Call : call'[q].out = "answer" => call'[q].resp # None
    BY <1>1, <2>0 DEF Late
  <2>6. QED BY <2>3, <2>4, <2>5 DEF Matched
<1>7. QED BY <1>2, <1>5, <1>6

\* The client starts with nothing on the wire.
LEMMA AnswerInit == GInit => AnswerInv
<1> SUFFICES ASSUME GInit PROVE Numbered /\ OnTheWire /\ Matched
  BY TableInit DEF AnswerInv
<1>1. QED BY DEF GInit, Numbered, OnTheWire, Matched, Early, Late

\* The invariant of the answers is inductive.
LEMMA AnswerStep == AnswerInv /\ [GNext]_gtpVars => AnswerInv'
BY TableStep, AnswerCallSteps, AnswerOtherSteps DEF AnswerInv, GNext

\* What doTransaction returns is an answer to a request with the number and the
\* type of its own, whatever else arrives: late and repeated datagrams, answers
\* to other calls, requests of the PGW.
THEOREM AnswersAreOwn == GSpec => []AnswerIsOwn
<1>1. AnswerInv => AnswerIsOwn
  <2> SUFFICES ASSUME AnswerInv, NEW p \in Call, call[p].out = "answer"
               PROVE  SameNumber(call[p].resp.of, p)
    BY DEF AnswerIsOwn
  <2>1. /\ call[p].resp \in down /\ call[p].resp.type = Kind[p]
        /\ call[p].resp.seq = call[p].seq
    BY DEF AnswerInv, Matched
  <2>2. call[p].resp.of # None
    BY <2>1, ClientAssumption DEF AnswerInv, OnTheWire
  <2>3. QED BY <2>1, <2>2 DEF AnswerInv, OnTheWire, SameNumber
<1>2. QED BY <1>1, AnswerInit, AnswerStep, PTL DEF GSpec
-----------------------------------------------------------------------------
(* The health: what the probes met, told from their count. *)

\* Probe i was answered.
Success(i) == call[Probes[i]].out = "answer"

\* A probe is made when those before it have returned.
InTurn ==
  \A i \in DOMAIN Probes : call[Probes[i]].pc # "idle" =>
    \A j \in 1..(i - 1) : call[Probes[j]].pc = "done"

\* n probes have returned; the last health.failures of them failed, the one before
\* those did not, and the state follows from the two numbers.
Tally(n) ==
  /\ Finished = 1..n
  /\ health.failures <= n
  /\ \A i \in (n - health.failures + 1)..n : ~Success(i)
  /\ health.failures < n => Success(n - health.failures)
  /\ health.state = IF health.failures >= MaxFailures THEN "unhealthy"
                    ELSE IF health.failures < n THEN "healthy" ELSE "unknown"

\* The inductive invariant of the health.
HealthInv == AnswerInv /\ InTurn /\ \E n \in Nat : Tally(n)

\* The probes are numbered from 1, and each is one call.
LEMMA ProbeNumbers ==
  /\ \E n \in Nat : DOMAIN Probes = 1..n
  /\ \A i \in DOMAIN Probes : i \in Nat /\ i > 0 /\ Probes[i] \in Call /\ Kind[Probes[i]] = "echo"
  /\ \A i, j \in DOMAIN Probes : Probes[i] = Probes[j] => i = j
  /\ \A p \in Call : Kind[p] = "echo" => \E i \in DOMAIN Probes : Probes[i] = p
  /\ \A i \in DOMAIN Probes : \A j \in 1..(i - 1) : j \in DOMAIN Probes
<1>1. PICK n \in 0..Cardinality(Call) : Probes \in [1..n -> Call]
  BY ProbesAssumption
<1>2. n \in Nat /\ DOMAIN Probes = 1..n
  BY <1>1
<1>3. \A i \in DOMAIN Probes : i \in Nat /\ i > 0 /\ Probes[i] \in Call
  BY <1>1, <1>2
<1>4. \A i \in DOMAIN Probes : \A j \in 1..(i - 1) : j \in DOMAIN Probes
  BY <1>2
<1>5. QED BY <1>2, <1>3, <1>4, ProbesAssumption

\* No probe has been made at first.
LEMMA HealthInit == GInit => HealthInv
<1> SUFFICES ASSUME GInit PROVE InTurn /\ Tally(0)
  BY AnswerInit DEF HealthInv
<1>1. \A i \in DOMAIN Probes : call[Probes[i]].pc = "idle"
  BY ProbeNumbers DEF GInit
<1>2. Finished = 1..0
  BY <1>1 DEF Finished, At
<1>3. health = [state |-> "unknown", failures |-> 0] /\ MaxFailures \in Nat \ {0}
  BY ClientAssumption DEF GInit
<1>4. QED BY <1>1, <1>2, <1>3 DEF InTurn, Tally

\* A step in which no probe returns keeps the count.
LEMMA CountKept ==
  ASSUME HealthInv, UNCHANGED health,
         \A i \in DOMAIN Probes : call'[Probes[i]].pc = "done" <=> call[Probes[i]].pc = "done",
         \A i \in DOMAIN Probes : call[Probes[i]].pc = "done" => call'[Probes[i]].out = call[Probes[i]].out
  PROVE  \E n \in Nat : Tally(n)'
<1>1. PICK n \in Nat : Tally(n)
  BY DEF HealthInv
<1>2. Finished' = Finished
  BY DEF Finished, At
<1>3. \A i \in Finished : Success(i)' <=> Success(i)
  BY DEF Finished, At, Success
<1>4. health.failures \in Nat
  BY DEF HealthInv, AnswerInv, TableInv, GTypeOK
<1>5. /\ \A i \in (n - health.failures + 1)..n : ~Success(i)'
      /\ health.failures < n => Success(n - health.failures)'
  BY <1>1, <1>3, <1>4 DEF Tally
<1>6. Tally(n)'
  BY <1>1, <1>2, <1>5 DEF Tally
<1>7. QED BY <1>6

\* A probe returns: it is the next one.
LEMMA ProbeReturns ==
  ASSUME HealthInv, NEW p \in Call, recordEcho(p), Kind[p] = "echo"
  PROVE  InTurn' /\ \E n \in Nat : Tally(n)'
<1>0. /\ GTypeOK /\ call \in [Call -> CallState] /\ InTurn
      /\ health \in [state: {"unknown", "healthy", "unhealthy"}, failures: Nat]
      /\ MaxFailures \in Nat \ {0}
  BY ClientAssumption DEF HealthInv, AnswerInv, TableInv, GTypeOK
<1>1. /\ call[p].pc = "record" /\ call'[p].pc = "done" /\ call'[p].out = call[p].out
      /\ \A q \in Call : q # p => call'[q] = call[q]
  BY <1>0 DEF recordEcho, At, Goto, CallState
<1>2. PICK k \in DOMAIN Probes : Probes[k] = p
  BY ProbeNumbers
<1>3. k \in Nat /\ k > 0 /\ \A i \in DOMAIN Probes : i # k => Probes[i] # p /\ Probes[i] \in Call
  BY <1>2, ProbeNumbers
<1>4. /\ \A i \in DOMAIN Probes : i # k => call'[Probes[i]] = call[Probes[i]]
      /\ call'[Probes[k]].pc = "done" /\ call'[Probes[k]].out = call[p].out
  BY <1>1, <1>2, <1>3
<1>5. InTurn'
  <2> SUFFICES ASSUME NEW i \in DOMAIN Probes, call'[Probes[i]].pc # "idle", NEW j \in 1..(i - 1)
               PROVE  call'[Probes[j]].pc = "done"
    BY DEF InTurn
  <2>1. j \in DOMAIN Probes
    BY ProbeNumbers
  <2>2. call[Probes[i]].pc # "idle"
    BY <1>1, <1>2, <1>4
  <2>3. QED BY <1>0, <1>4, <2>1, <2>2 DEF InTurn
<1>6. PICK n \in Nat : Tally(n)
  BY DEF HealthInv
<1>7. Finished = 1..n
  BY <1>6 DEF Tally
<1>8. n = k - 1
  <2>1. k \notin Finished
    BY <1>1, <1>2 DEF Finished, At
  <2>2. \A j \in 1..(k - 1) : j \in Finished
    BY <1>0, <1>1, <1>2, ProbeNumbers DEF InTurn, Finished, At
  <2>3. k - 1 > 0 => k - 1 \in Finished
    BY <1>3, <2>2
  <2>4. QED BY <1>3, <1>7, <2>1, <2>3
<1>9. Finished' = 1..k
  <2>1. Finished' = Finished \cup {k}
    BY <1>1, <1>2, <1>4 DEF Finished, At
  <2>2. QED BY <1>3, <1>7, <1>8, <2>1
<1>10. \A i \in Finished : Success(i)' <=> Success(i)
  BY <1>3, <1>4, <1>7, <1>8 DEF Finished, Success
<1>11. Success(k)' <=> call[p].out = "answer"
  BY <1>4 DEF Success
<1>12. CASE call[p].out = "answer"
  <2>1. health' = [state |-> "healthy", failures |-> 0]
    BY <1>12 DEF recordEcho
  <2>2. health'.state = "healthy" /\ health'.failures = 0
    BY <2>1
  <2>3. Tally(k)'
    BY <1>0, <1>3, <1>9, <1>11, <1>12, <2>2 DEF Tally
  <2>4. QED BY <1>3, <1>5, <2>3
<1>13. CASE call[p].out # "answer"
  <2> DEFINE f == health.failures
  <2>1. health' = [state |-> IF f + 1 >= MaxFailures THEN "unhealthy" ELSE health.state,
                   failures |-> f + 1]
    BY <1>13 DEF recordEcho
  <2>2. /\ health'.state = IF f + 1 >= MaxFailures THEN "unhealthy" ELSE health.state
        /\ health'.failures = f + 1
    BY <2>1
  <2>3. /\ f \in Nat /\ f <= n /\ (\A i \in (n - f + 1)..n : ~Success(i))
        /\ f < n => Success(n - f)
        /\ health.state = IF f >= MaxFailures THEN "unhealthy"
                          ELSE IF f < n THEN "healthy" ELSE "unknown"
    BY <1>0, <1>6 DEF Tally
  <2> HIDE DEF f
  <2>4. \A i \in (k - (f + 1) + 1)..k : ~Success(i)'
    <3> SUFFICES ASSUME NEW i \in (k - (f + 1) + 1)..k
                 PROVE  ~Success(i)'
      OBVIOUS
    <3>1. CASE i = k
      BY <1>11, <1>13, <3>1
    <3>2. CASE i # k
      <4>1. i \in (n - f + 1)..n /\ i \in 1..n
        BY <1>3, <1>8, <2>3, <3>2
      <4>2. QED BY <1>7, <1>10, <2>3, <4>1
    <3>3. QED BY <3>1, <3>2
  <2>5. ASSUME f < n
        PROVE  call'[Probes[n - f]].out = "answer"
    <3>1. n - f \in Finished /\ n - f # k
      BY <1>3, <1>7, <1>8, <2>3, <2>5
    <3>2. QED BY <1>4, <2>3, <2>5, <3>1 DEF Finished, Success
  <2>6. health'.state = IF f + 1 >= MaxFailures THEN "unhealthy"
                        ELSE IF f + 1 < k THEN "healthy" ELSE "unknown"
    BY <1>0, <1>3, <1>8, <2>2, <2>3
  <2>7. Tally(k)'
    <3>1. /\ health'.failures <= k
          /\ \A i \in (k - health'.failures + 1)..k : ~Success(i)'
      BY <1>3, <1>8, <2>2, <2>3, <2>4
    <3>2. health'.failures < k => call'[Probes[k - health'.failures]].out = "answer"
      <4>1. f + 1 < k => f < n /\ k - (f + 1) = n - f
        BY <1>3, <1>8, <2>3
      <4>2. QED BY <2>2, <2>5, <4>1
    <3>3. health'.state = IF health'.failures >= MaxFailures THEN "unhealthy"
                          ELSE IF health'.failures < k THEN "healthy" ELSE "unknown"
      BY <2>2, <2>6
    <3>4. QED BY <1>9, <3>1, <3>2, <3>3 DEF Tally, Success
  <2>8. QED BY <1>3, <1>5, <2>7
<1>14. QED BY <1>12, <1>13

\* The invariant of the health is inductive.
LEMMA HealthStep == HealthInv /\ [GNext]_gtpVars => HealthInv'
<1> SUFFICES ASSUME HealthInv, [GNext]_gtpVars PROVE InTurn' /\ \E n \in Nat : Tally(n)'
  BY AnswerStep DEF HealthInv
<1>0. GTypeOK /\ ReaderHasCall /\ InTurn /\ \A i \in DOMAIN Probes : Probes[i] \in Call
  BY ProbeNumbers DEF HealthInv, AnswerInv, TableInv
<1>1. ASSUME NEW p \in Call, begin(p) \/ CallStep(p), ~(recordEcho(p) /\ Kind[p] = "echo")
      PROVE  InTurn' /\ \E n \in Nat : Tally(n)'
  <2>1. Effect(p) /\ \A q \in Call : q # p => call'[q] = call[q]
    BY <1>0, <1>1, CallEffects
  <2>2. UNCHANGED health
    BY <1>1 DEF begin, CallStep, nextTEIDValue, nextSequence, registerTransaction, send, receive,
         unregisterTransaction, recordEcho
  <2>3. call[p].pc # "done"
    BY <2>1 DEF Effect, Early
  <2>4. CASE Kind[p] # "echo"
    <3>1. \A i \in DOMAIN Probes : call'[Probes[i]] = call[Probes[i]]
      BY <2>1, <2>4, ProbeNumbers
    <3>2. InTurn'
      BY <1>0, <3>1, ProbeNumbers DEF InTurn
    <3>3. QED BY <2>2, <3>1, <3>2, CountKept
  <2>5. CASE Kind[p] = "echo"
    <3>1. call'[p].pc # "done"
      <4>1. call[p].pc # "record"
        BY <1>1, <2>5 DEF begin, CallStep, nextTEIDValue, nextSequence, registerTransaction, send,
             receive, unregisterTransaction, At
      <4>2. QED BY <2>1, <4>1 DEF Effect, Early
    <3>2. \A q \in Call : call[q].pc = "done" => q # p /\ call'[q] = call[q]
      BY <2>1, <2>3
    <3>3. \A q \in Call : call'[q].pc = "done" => call[q].pc = "done"
      BY <2>1, <3>1
    <3>4. call[p].pc = "idle" => Turn(p)
      BY <1>1 DEF begin, CallStep, nextTEIDValue, nextSequence, registerTransaction, send, receive,
           unregisterTransaction, recordEcho, At
    <3>5. InTurn'
      <4> SUFFICES ASSUME NEW i \in DOMAIN Probes, call'[Probes[i]].pc # "idle", NEW j \in 1..(i - 1)
                   PROVE  call'[Probes[j]].pc = "done"
        BY DEF InTurn
      <4>1. j \in DOMAIN Probes /\ Probes[j] \in Call /\ Probes[i] \in Call
        BY <1>0, ProbeNumbers
      <4>2. CASE call[Probes[i]].pc # "idle"
        BY <1>0, <3>2, <4>1, <4>2 DEF InTurn
      <4>3. CASE call[Probes[i]].pc = "idle"
        <5>1. Probes[i] = p
          BY <2>1, <4>1, <4>3
        <5>2. call[Probes[j]].pc = "done"
          BY <3>4, <4>3, <5>1 DEF Turn, At
        <5>3. QED BY <3>2, <4>1, <5>2
      <4>4. QED BY <4>2, <4>3
    <3>6. QED BY <1>0, <2>2, <3>2, <3>3, <3>5, CountKept
  <2>6. QED BY <2>4, <2>5
<1>2. CASE readMessage \/ deliver \/ readerExit \/ Close \/ pgwAnswers \/ pgwRequest \/ UNCHANGED gtpVars
  <2>1. \A q \in Call : call'[q].pc = call[q].pc /\ call'[q].out = call[q].out
    BY <1>0, <1>2, ChannelEffects
  <2>2. UNCHANGED health
    BY <1>2 DEF readMessage, deliver, readerExit, Close, pgwAnswers, pgwRequest, gtpVars
  <2>3. InTurn'
    BY <1>0, <2>1, ProbeNumbers DEF InTurn
  <2>4. QED BY <1>0, <2>1, <2>2, <2>3, CountKept
<1>3. ASSUME NEW p \in Call, recordEcho(p), Kind[p] = "echo"
      PROVE  InTurn' /\ \E n \in Nat : Tally(n)'
  BY <1>3, ProbeReturns
<1>4. QED BY <1>1, <1>2, <1>3 DEF GNext

\* The peer is healthy exactly when the PGW answered one of the last max_failures
\* probes of the watchdog, and unhealthy exactly when there were as many and it
\* answered none, for every number of probes and other calls: recordEchoSuccess and
\* recordEchoFailure keep the count in step with the calls, and no call takes an
\* answer for another type of request.
THEOREM HealthIsEarned == GSpec => []HealthFollowsProbes
<1>1. HealthInv => HealthFollowsProbes
  <2> SUFFICES ASSUME HealthInv PROVE HealthFollowsProbes
    OBVIOUS
  <2>1. PICK n \in Nat : Tally(n)
    BY DEF HealthInv
  <2>2. /\ health.failures \in Nat /\ MaxFailures \in Nat /\ MaxFailures > 0
        /\ AnswerInv /\ Finished \subseteq DOMAIN Probes
    BY ClientAssumption DEF HealthInv, AnswerInv, TableInv, GTypeOK, Finished
  <2>3. \A i \in Finished : Answered(i) <=> Success(i)
    <3> SUFFICES ASSUME NEW i \in Finished, Success(i)
                 PROVE  \E m \in down : m.type = "echo" /\ m.seq = call[Probes[i]].seq
      BY DEF Answered, Success
    <3>1. Probes[i] \in Call /\ Kind[Probes[i]] = "echo"
      BY <2>2, ProbeNumbers
    <3>2. QED BY <2>2, <3>1 DEF AnswerInv, Matched, Success
  <2> DEFINE f == health.failures
  <2>4. /\ f <= n /\ Finished = 1..n /\ (\A i \in (n - f + 1)..n : ~Success(i))
        /\ f < n => Success(n - f)
        /\ health.state = IF f >= MaxFailures THEN "unhealthy"
                          ELSE IF f < n THEN "healthy" ELSE "unknown"
    BY <2>1 DEF Tally
  <2>5. f \in Nat
    BY <2>2
  <2> HIDE DEF f
  <2>6. Recent = {i \in 1..n : i + MaxFailures > n}
    BY <2>2, <2>4 DEF Recent
  <2>7. (\E i \in Recent : Answered(i)) <=> f < MaxFailures /\ f < n
    <3>1. ASSUME NEW i \in Recent, Answered(i)
          PROVE  f < MaxFailures /\ f < n
      <4>1. i \in 1..n /\ i + MaxFailures > n /\ Success(i)
        BY <2>3, <2>4, <2>6, <3>1
      <4>2. ~(i >= n - f + 1)
        BY <2>4, <2>5, <4>1
      <4>3. QED BY <2>2, <2>4, <2>5, <4>1, <4>2
    <3>2. ASSUME f < MaxFailures, f < n
          PROVE  \E i \in Recent : Answered(i)
      <4>1. n - f \in Recent
        BY <2>2, <2>5, <2>6, <3>2
      <4>2. Answered(n - f)
        BY <2>3, <2>4, <3>2, <4>1 DEF Recent
      <4>3. QED BY <4>1, <4>2
    <3>3. QED BY <3>1, <3>2
  <2>8. MaxFailures \in Finished <=> MaxFailures <= n
    BY <2>2, <2>4
  <2>9. QED BY <2>2, <2>4, <2>5, <2>7, <2>8 DEF HealthFollowsProbes
<1>2. QED BY <1>1, HealthInit, HealthStep, PTL DEF GSpec

-----------------------------------------------------------------------------
(* The sequence numbers: no two calls have the same before they come round. *)

\* How far t lies behind f on a circle of m numbers, a full round for f itself.
Distance(m, f, t) == IF t > f THEN t - f ELSE (t - f) + m

Taken == {p \in Call : call[p].seq # None}

\* The numbers taken are the first ones behind f, as many as the calls that
\* took one, and seq is the last of them.
Spread(f) ==
  /\ \/ Taken = {} /\ seq = f
     \/ Distance(MaxSeq, f, seq) = Cardinality(Taken)
  /\ \A p \in Taken : Distance(MaxSeq, f, call[p].seq) <= Cardinality(Taken)
  /\ \A p, q \in Taken : call[p].seq = call[q].seq => p = q

SpreadInv == AnswerInv /\ \E f \in Seq : Spread(f)

\* A number that gtpv2SequenceAllocator.next hands out is further from the
\* start than all the others, if there are enough for all calls.
LEMMA SpreadStep ==
  ASSUME IsFiniteSet(Call), Cardinality(Call) <= MaxSeq, SpreadInv, [GNext]_gtpVars
  PROVE  SpreadInv'
<1>a. AnswerInv /\ AnswerInv'
  BY AnswerStep DEF SpreadInv
<1>b. GTypeOK /\ GTypeOK' /\ ReaderHasCall
  BY <1>a DEF AnswerInv, TableInv
<1>0. /\ AnswerInv /\ GTypeOK /\ GTypeOK' /\ ReaderHasCall /\ MaxSeq \in Nat \ {0}
      /\ None \notin Seq /\ seq \in Seq /\ call \in [Call -> CallState]
  BY <1>a, <1>b, ClientAssumption DEF GTypeOK, Seq
<1>1. PICK f \in Seq : Spread(f)
  BY DEF SpreadInv
<1>2. ASSUME NEW p \in Call, nextSequence(p) PROVE \E g \in Seq : Spread(g)'
  <2> DEFINE n == Cardinality(Taken)
  <2>1. /\ call[p].pc = "sequence" /\ seq' = (IF seq + 1 > MaxSeq THEN 1 ELSE seq + 1)
        /\ call'[p].seq = seq' /\ \A q \in Call : q # p => call'[q] = call[q]
    <3>1. call' = [call EXCEPT ![p] = [call[p] EXCEPT !.pc = "register", !.seq = seq']]
      BY <1>0, <1>2 DEF nextSequence
    <3>2. call'[p].seq = seq' /\ \A q \in Call : q # p => call'[q] = call[q]
      BY <1>0, <3>1 DEF CallState
    <3>3. QED BY <1>2, <3>2 DEF nextSequence, At
  <2>2. p \notin Taken /\ seq' \in Seq
    BY <1>0, <2>1 DEF Taken, AnswerInv, Numbered, Early, GTypeOK
  <2>3. Taken' = Taken \cup {p}
    BY <1>0, <2>1, <2>2 DEF Taken
  <2>4. IsFiniteSet(Taken) /\ n \in Nat
    BY FS_Subset, FS_CardinalityType DEF Taken
  <2>5. Cardinality(Taken') = n + 1
    BY <2>2, <2>3, <2>4, FS_AddElement
  <2>6. n + 1 <= MaxSeq
    <3>1. Taken' \in SUBSET Call
      BY DEF Taken
    <3>2. Cardinality(Taken') <= Cardinality(Call) /\ Cardinality(Call) \in Nat
      BY <3>1, FS_Subset, FS_CardinalityType
    <3>3. QED BY <1>0, <2>4, <2>5, <3>2
  <2>7. Distance(MaxSeq, f, seq') = n + 1
    <3>3. /\ seq = f => Distance(MaxSeq, f, seq') = 1
          /\ seq # f => Distance(MaxSeq, f, seq') = Distance(MaxSeq, f, seq) + 1
      BY <1>0, <2>1 DEF Distance, Seq
    <3>4. CASE Taken = {} /\ seq = f
      BY <3>3, <3>4, FS_EmptySet
    <3>5. CASE Distance(MaxSeq, f, seq) = n
      <4>1. Distance(MaxSeq, f, f) = MaxSeq
        BY <1>0 DEF Distance, Seq
      <4>2. seq # f
        BY <1>0, <2>4, <2>6, <3>5, <4>1
      <4>3. QED BY <3>3, <3>5, <4>2
    <3>6. QED BY <1>1, <3>4, <3>5 DEF Spread
  <2>8. \A q \in Taken : call'[q].seq = call[q].seq /\ Distance(MaxSeq, f, call[q].seq) <= n
    BY <1>1, <2>1, <2>2 DEF Spread, Taken
  <2>9. \A q \in Taken : Distance(MaxSeq, f, call[q].seq) \in Nat
    BY <1>0 DEF Distance, Seq, Taken, CallState, OrNone
  <2> HIDE DEF n
  <2>10. \A q \in Taken : call'[q].seq # seq'
    <3> SUFFICES ASSUME NEW q \in Taken, call[q].seq = seq' PROVE FALSE
      BY <2>8
    <3>1. Distance(MaxSeq, f, call[q].seq) <= n /\ Distance(MaxSeq, f, call[q].seq) = n + 1
      BY <2>7, <2>8
    <3>2. QED BY <2>4, <3>1
  <2>11. \A q \in Taken' : Distance(MaxSeq, f, call'[q].seq) <= n + 1
    BY <2>1, <2>3, <2>4, <2>7, <2>8, <2>9
  <2>12. \A q, r \in Taken' : call'[q].seq = call'[r].seq => q = r
    BY <1>1, <2>1, <2>3, <2>8, <2>10 DEF Spread
  <2>13. Spread(f)'
    BY <2>5, <2>7, <2>11, <2>12 DEF Spread
  <2>14. QED BY <2>13
<1>3. ASSUME seq' = seq, \A q \in Call : call'[q].seq = call[q].seq
      PROVE  \E g \in Seq : Spread(g)'
  <2>1. Taken' = Taken /\ Taken \subseteq Call
    BY <1>3 DEF Taken
  <2>2. Spread(f)'
    BY <1>1, <1>3, <2>1 DEF Spread
  <2>3. QED BY <2>2
<1>4. ASSUME NEW p \in Call, begin(p) \/ CallStep(p), ~nextSequence(p)
      PROVE  \E g \in Seq : Spread(g)'
  <2>1. Effect(p) /\ \A q \in Call : q # p => call'[q] = call[q]
    BY <1>0, <1>4, CallEffects
  <2>2. seq' = seq /\ call[p].pc # "sequence"
    BY <1>4 DEF begin, CallStep, nextTEIDValue, registerTransaction, send, receive,
         unregisterTransaction, recordEcho, At
  <2>3. \A q \in Call : call'[q].seq = call[q].seq
    BY <2>1, <2>2 DEF Effect
  <2>4. QED BY <1>3, <2>2, <2>3
<1>5. ASSUME \/ readMessage \/ deliver \/ readerExit \/ Close \/ pgwAnswers \/ pgwRequest
             \/ UNCHANGED gtpVars
      PROVE  \E g \in Seq : Spread(g)'
  <2>1. seq' = seq
    BY <1>5 DEF readMessage, deliver, readerExit, Close, pgwAnswers, pgwRequest, gtpVars
  <2>2. QED BY <1>0, <1>3, <1>5, <2>1, ChannelEffects
<1>6. \E g \in Seq : Spread(g)'
  BY <1>2, <1>4, <1>5 DEF GNext
<1>7. QED BY <1>a, <1>6 DEF SpreadInv

\* The first number lies right behind the random start.
LEMMA SpreadInit == GInit => SpreadInv
<1> SUFFICES ASSUME GInit PROVE SpreadInv
  OBVIOUS
<1>1. Taken = {} /\ seq \in Seq
  BY ClientAssumption DEF GInit, Taken, Seq
<1>2. Spread(seq)
  BY <1>1 DEF Spread
<1>3. QED BY <1>1, <1>2, AnswerInit DEF SpreadInv

-----------------------------------------------------------------------------
(* The refinement. *)

\* Before the numbers come round an answer is the call's own.
LEMMA OwnAnswer ==
  ASSUME SpreadInv, NEW p \in Call, call[p].resp # None
  PROVE  call[p].resp \in down /\ call[p].resp.of = p
<1>1. /\ call[p].resp \in down /\ call[p].resp.type = Kind[p]
      /\ call[p].resp.seq = call[p].seq /\ call[p].resp.seq \in Seq
  BY DEF SpreadInv, AnswerInv, TableInv, Matched, GTypeOK, Message
<1>2. call[p].resp.of # None
  BY <1>1, ClientAssumption DEF SpreadInv, AnswerInv, OnTheWire
<1>3. call[p].resp.of \in Call /\ call[call[p].resp.of].seq = call[p].seq
  BY <1>1, <1>2 DEF SpreadInv, AnswerInv, OnTheWire
<1>4. None \notin Seq
  BY ClientAssumption DEF Seq
<1>5. QED BY <1>1, <1>3, <1>4 DEF SpreadInv, Spread, Taken

\* A step that leaves the phases of the calls and adds no answer.
LEMMA QuietStep ==
  ASSUME CallPhase' = CallPhase, OnTheWay' \subseteq OnTheWay
  PROVE  Calls!CallNext
BY DEF Calls!CallNext, Calls!Lose

\* Every step is a step of CallService or none.
LEMMA CallsRefined ==
  ASSUME SpreadInv, SpreadInv', [GNext]_gtpVars
  PROVE  Calls!CallNext
<1>0. /\ AnswerInv /\ GTypeOK /\ ReaderHasCall /\ None \notin Call
      /\ \A q \in Call : call[q].out = "none" <=> call[q].pc \notin Late
      /\ \A q \in Call : call'[q].out = "none" <=> call'[q].pc \notin Late
  BY ClientAssumption DEF SpreadInv, AnswerInv, TableInv, Numbered
<1>1. ASSUME NEW p \in Call, begin(p) \/ CallStep(p) PROVE Calls!CallNext
  <2>1. Effect(p) /\ UNCHANGED <<reader, down>> /\ \A q \in Call : q # p => call'[q] = call[q]
    BY <1>0, <1>1, CallEffects
  <2>2. OnTheWay' = OnTheWay
    BY <2>1 DEF OnTheWay
  <2>3. CallPhase' = [CallPhase EXCEPT ![p] = CallPhase'[p]]
    BY <2>1 DEF CallPhase
  <2>4. CASE call[p].pc = "idle"
    <3>1. call'[p].pc # "idle" /\ call'[p].out = "none"
      BY <1>0, <2>1, <2>4 DEF Effect, Early, Late
    <3>2. CallPhase[p] = "idle" /\ CallPhase'[p] = "calling"
      BY <2>4, <3>1 DEF CallPhase
    <3>3. Calls!Begin(p)
      BY <2>2, <2>3, <3>2 DEF Calls!Begin
    <3>4. QED BY <3>3 DEF Calls!CallNext
  <2>5. CASE call[p].pc # "idle" /\ call'[p].out = call[p].out
    <3>1. call'[p].pc # "idle" /\ (call[p].out = "answer" => call'[p].resp = call[p].resp)
      BY <1>0, <2>1, <2>5 DEF Effect, Early, Late
    <3>2. CallPhase'[p] = CallPhase[p]
      <4>1. CASE call[p].out \in {"none", "error"}
        BY <2>5, <3>1, <4>1 DEF CallPhase
      <4>2. CASE call[p].out = "answer" /\ call'[p].resp = call[p].resp
        BY <2>5, <3>1, <4>2 DEF CallPhase
      <4>3. call[p].out \in {"none", "error", "answer"}
        BY <1>0 DEF GTypeOK, CallState
      <4>4. QED BY <3>1, <4>1, <4>2, <4>3
    <3>3. CallPhase' = CallPhase
      BY <2>3, <3>2 DEF CallPhase
    <3>4. QED BY <2>2, <3>3, QuietStep
  <2>6. CASE call[p].pc # "idle" /\ call'[p].out # call[p].out
    <3>1. /\ call[p].pc \in {"register", "send", "wait"} /\ call'[p].pc \in Late
          /\ \/ call'[p].out = "error"
             \/ call'[p].out = "answer" /\ call[p].resp # None /\ call'[p].resp = call[p].resp
      BY <2>1, <2>6 DEF Effect, Late
    <3>2. CallPhase[p] = "calling"
      BY <1>0, <2>6, <3>1 DEF CallPhase, Late
    <3>3. CASE call'[p].out = "error"
      <4>1. CallPhase'[p] = "failed"
        BY <3>1, <3>3 DEF CallPhase, Late
      <4>2. Calls!Return(p)
        BY <2>2, <2>3, <3>2, <4>1 DEF Calls!Return
      <4>3. QED BY <4>2 DEF Calls!CallNext
    <3>4. CASE call'[p].out = "answer" /\ call[p].resp # None /\ call'[p].resp = call[p].resp
      <4>1. call[p].resp \in down /\ call[p].resp.of = p
        BY <3>4, OwnAnswer
      <4>2. p \in OnTheWay /\ CallPhase'[p] = "answered"
        BY <3>1, <3>4, <4>1 DEF OnTheWay, CallPhase, Late
      <4>3. Calls!Return(p)
        BY <2>2, <2>3, <3>2, <4>2 DEF Calls!Return
      <4>4. QED BY <4>3 DEF Calls!CallNext
    <3>5. QED BY <3>1, <3>3, <3>4
  <2>7. QED BY <2>4, <2>5, <2>6
<1>2. CASE readMessage \/ deliver \/ readerExit \/ Close \/ pgwAnswers \/ pgwRequest \/ UNCHANGED gtpVars
  <2>1. \A q \in Call :
          /\ call'[q].pc = call[q].pc /\ call'[q].out = call[q].out
          /\ call[q].out # "none" => call'[q].resp = call[q].resp
    BY <1>0, <1>2, ChannelEffects DEF Late
  <2>2. CallPhase' = CallPhase
    BY <2>1 DEF CallPhase
  <2>3. CASE pgwAnswers
    <3>1. PICK m \in up : m.of # None /\ down' = down \cup {m}
      BY <2>3 DEF pgwAnswers
    <3>2. m.of \in Call /\ call[m.of].seq = m.seq /\ m.seq \in Seq
      BY <1>0, <3>1 DEF AnswerInv, OnTheWire, GTypeOK, Message
    <3>3. call[m.of].pc # "idle"
      BY <1>0, <3>2, ClientAssumption DEF AnswerInv, Numbered, Early, Seq
    <3>4. OnTheWay' = OnTheWay \cup {m.of}
      BY <3>1, <3>2 DEF OnTheWay
    <3>5. CallPhase[m.of] # "idle"
      BY <3>2, <3>3 DEF CallPhase
    <3>6. Calls!PeerAnswers(m.of)
      BY <2>2, <3>4, <3>5 DEF Calls!PeerAnswers
    <3>7. QED BY <3>2, <3>6 DEF Calls!CallNext
  <2>4. CASE ~pgwAnswers
    <3>1. \A m \in down' : m \in down \/ m.of = None
      BY <1>2, <2>4 DEF readMessage, deliver, readerExit, Close, pgwRequest, gtpVars
    <3>2. OnTheWay' \subseteq OnTheWay
      BY <1>0, <3>1 DEF OnTheWay
    <3>3. QED BY <2>2, <3>2, QuietStep
  <2>5. QED BY <2>3, <2>4
<1>3. QED BY <1>1, <1>2 DEF GNext

\* The client implements CallService, for as many calls as there are sequence
\* numbers: CreateSession, DeleteSession and the echo return the PGW's answer
\* to their own request or an error, and only once.
THEOREM ClientImplementsCalls ==
  ASSUME IsFiniteSet(Call), Cardinality(Call) <= MaxSeq
  PROVE  GSpec => Calls!CallSpec
<1>1. GInit => Calls!CallInit
  <2> SUFFICES ASSUME GInit PROVE Calls!CallInit
    OBVIOUS
  <2>1. OnTheWay = {} /\ CallPhase = [c \in Call |-> "idle"]
    BY DEF GInit, OnTheWay, CallPhase
  <2>2. QED BY <2>1 DEF Calls!CallInit
<1>2. SpreadInv /\ [GNext]_gtpVars => SpreadInv'
  BY SpreadStep
<1>3. SpreadInv /\ SpreadInv' /\ [GNext]_gtpVars => [Calls!CallNext]_(Calls!callVars)
  BY CallsRefined
<1>4. QED BY <1>1, <1>2, <1>3, SpreadInit, PTL DEF GSpec, Calls!CallSpec

-----------------------------------------------------------------------------
(* The TEIDs. *)

Creates == {p \in Call : Kind[p] = "create"}
Value(x) == call[x[1]][x[2]]

\* A create without a TEID has still to pick it, and nobody else picks any.
TEIDPlaces ==
  \A p \in Call :
    /\ call[p].pc \in {"gtpc_teid", "gtpc_teid_again", "gtpu_teid", "gtpu_teid_again"} =>
         p \in Creates
    /\ call[p].pc \in {"idle", "gtpc_teid", "gtpc_teid_again"} => call[p].gtpc = None
    /\ call[p].pc \in {"idle", "gtpc_teid", "gtpc_teid_again", "gtpu_teid", "gtpu_teid_again"} =>
         call[p].gtpu = None
    /\ p \notin Creates => call[p].gtpc = None /\ call[p].gtpu = None

\* n numbers behind f have been counted off: one for each TEID in use, and zero
\* when it was among them; a call that has to try again has met zero.
Counted(f, n) ==
  /\ IF n = 0 THEN nextTEID = f ELSE Distance(TEIDs, f, nextTEID) = n
  /\ n = Cardinality(LocalTEIDs) + (IF Distance(TEIDs, f, 0) <= n THEN 1 ELSE 0)
  /\ \A x \in LocalTEIDs : Value(x) # 0 /\ Distance(TEIDs, f, Value(x)) <= n
  /\ \A x, y \in LocalTEIDs : Value(x) = Value(y) => x = y
  /\ \A p \in Call : call[p].pc \in {"gtpc_teid_again", "gtpu_teid_again"} =>
       Distance(TEIDs, f, 0) <= n

TEIDInv == TableInv /\ TEIDPlaces /\ \E f \in TEID, n \in Nat : Counted(f, n)

\* The increment modulo the size of the space.
LEMMA NextTEID ==
  ASSUME NEW t \in TEID
  PROVE  (t + 1) % TEIDs = IF t + 1 = TEIDs THEN 0 ELSE t + 1
<1>1. TEIDs \in Nat \ {0} /\ t \in Nat /\ t + 1 <= TEIDs
  BY ClientAssumption DEF TEID
<1>2. CASE t + 1 = TEIDs
  BY <1>1, <1>2
<1>3. CASE t + 1 < TEIDs
  BY <1>1, <1>3
<1>4. QED BY <1>1, <1>2, <1>3

\* What nextTEIDValue does to the call: it takes the TEID for one of its two
\* places, or has to try again because the counter wrapped to zero.
LEMMA TEIDEffects ==
  ASSUME GTypeOK, NEW p \in Call, nextTEIDValue(p)
  PROVE  /\ \A q \in Call : q # p => call'[q] = call[q]
         /\ \/ /\ nextTEID' = 0 /\ call[p].pc \in {"gtpc_teid", "gtpu_teid"}
               /\ call[p].pc = "gtpc_teid" => call'[p].pc = "gtpc_teid_again"
               /\ call[p].pc = "gtpu_teid" => call'[p].pc = "gtpu_teid_again"
               /\ call'[p].gtpc = call[p].gtpc /\ call'[p].gtpu = call[p].gtpu
            \/ /\ call[p].pc \in {"gtpc_teid", "gtpc_teid_again"} /\ call'[p].pc = "gtpu_teid"
               /\ call[p].pc = "gtpc_teid" => nextTEID' # 0
               /\ call'[p].gtpc = nextTEID' /\ call'[p].gtpu = call[p].gtpu
            \/ /\ call[p].pc \in {"gtpu_teid", "gtpu_teid_again"} /\ call'[p].pc = "sequence"
               /\ call[p].pc = "gtpu_teid" => nextTEID' # 0
               /\ call'[p].gtpu = nextTEID' /\ call'[p].gtpc = call[p].gtpc
<1>0. call \in [Call -> CallState] /\ call[p] \in CallState
  BY DEF GTypeOK
<1>1. nextTEID' = (nextTEID + 1) % TEIDs
  BY DEF nextTEIDValue
<1>2. ASSUME NEW l, Goto(p, l)
      PROVE  /\ call'[p].pc = l /\ call'[p].gtpc = call[p].gtpc /\ call'[p].gtpu = call[p].gtpu
             /\ \A q \in Call : q # p => call'[q] = call[q]
  BY <1>0, <1>2 DEF Goto, CallState
<1>3. CASE nextTEID' = 0 /\ call[p].pc = "gtpc_teid" /\ Goto(p, "gtpc_teid_again")
  BY <1>2, <1>3
<1>4. CASE nextTEID' = 0 /\ call[p].pc = "gtpu_teid" /\ Goto(p, "gtpu_teid_again")
  BY <1>2, <1>4
<1>5. CASE /\ (call[p].pc = "gtpc_teid" /\ nextTEID' # 0) \/ call[p].pc = "gtpc_teid_again"
           /\ call' = [call EXCEPT ![p] = [call[p] EXCEPT !.pc = "gtpu_teid", !.gtpc = nextTEID']]
  BY <1>0, <1>5 DEF CallState
<1>6. CASE /\ (call[p].pc = "gtpu_teid" /\ nextTEID' # 0) \/ call[p].pc = "gtpu_teid_again"
           /\ call' = [call EXCEPT ![p] = [call[p] EXCEPT !.pc = "sequence", !.gtpu = nextTEID']]
  BY <1>0, <1>6 DEF CallState
<1>7. \/ nextTEID' = 0 /\ call[p].pc = "gtpc_teid" /\ Goto(p, "gtpc_teid_again")
      \/ nextTEID' = 0 /\ call[p].pc = "gtpu_teid" /\ Goto(p, "gtpu_teid_again")
      \/ /\ (call[p].pc = "gtpc_teid" /\ nextTEID' # 0) \/ call[p].pc = "gtpc_teid_again"
         /\ call' = [call EXCEPT ![p] = [call[p] EXCEPT !.pc = "gtpu_teid", !.gtpc = nextTEID']]
      \/ /\ (call[p].pc = "gtpu_teid" /\ nextTEID' # 0) \/ call[p].pc = "gtpu_teid_again"
         /\ call' = [call EXCEPT ![p] = [call[p] EXCEPT !.pc = "sequence", !.gtpu = nextTEID']]
  BY <1>0, <1>1 DEF nextTEIDValue, At
<1>8. QED BY <1>3, <1>4, <1>5, <1>6, <1>7

\* The other steps leave the TEIDs and the counter alone.
LEMMA NoTEIDTaken ==
  ASSUME GTypeOK, ReaderHasCall, [GNext]_gtpVars, \A p \in Call : ~nextTEIDValue(p)
  PROVE  /\ nextTEID' = nextTEID
         /\ \A q \in Call :
              /\ call'[q].gtpc = call[q].gtpc /\ call'[q].gtpu = call[q].gtpu
              /\ \/ call'[q].pc = call[q].pc
                 \/ call[q].pc = "idle" /\ call'[q].pc = "gtpc_teid" /\ q \in Creates
                 \/ call'[q].pc \notin {"idle", "gtpc_teid", "gtpc_teid_again", "gtpu_teid",
                                        "gtpu_teid_again"}
<1>0. call \in [Call -> CallState] /\ \A q \in Call : call[q] \in CallState
  BY DEF GTypeOK
<1>1. ASSUME NEW p \in Call, begin(p) \/ CallStep(p)
      PROVE  /\ nextTEID' = nextTEID
             /\ \A q \in Call : q # p => call'[q] = call[q]
             /\ call'[p].gtpc = call[p].gtpc /\ call'[p].gtpu = call[p].gtpu
             /\ \/ call[p].pc = "idle" /\ call'[p].pc = "gtpc_teid" /\ p \in Creates
                \/ call'[p].pc \notin {"idle", "gtpc_teid", "gtpc_teid_again", "gtpu_teid",
                                       "gtpu_teid_again"}
  <2>1. ASSUME NEW l, Goto(p, l)
        PROVE  /\ call'[p].pc = l /\ call'[p].gtpc = call[p].gtpc /\ call'[p].gtpu = call[p].gtpu
               /\ \A q \in Call : q # p => call'[q] = call[q]
    BY <1>0, <2>1 DEF Goto, CallState
  <2>2. ASSUME NEW l, Fails(p, l)
        PROVE  /\ call'[p].pc = l /\ call'[p].gtpc = call[p].gtpc /\ call'[p].gtpu = call[p].gtpu
               /\ \A q \in Call : q # p => call'[q] = call[q]
    BY <1>0, <2>2 DEF Fails, CallState
  <2>3. CASE begin(p)
    BY <2>1, <2>3 DEF begin, At, Creates
  <2>4. CASE nextSequence(p)
    <3> DEFINE n == IF seq + 1 > MaxSeq THEN 1 ELSE seq + 1
    <3>1. /\ call' = [call EXCEPT ![p] = [call[p] EXCEPT !.pc = "register", !.seq = n]]
          /\ nextTEID' = nextTEID
      BY <1>0, <2>4 DEF nextSequence
    <3> HIDE DEF n
    <3>2. QED BY <1>0, <3>1 DEF CallState
  <2>5. CASE registerTransaction(p) \/ send(p)
    BY <2>1, <2>2, <2>5 DEF registerTransaction, send
  <2>6. CASE receive(p)
    <3>1. CASE Fails(p, "unregister")
      BY <2>2, <2>6, <3>1 DEF receive
    <3>2. CASE call' = [call EXCEPT ![p] = [call[p] EXCEPT !.pc = "unregister", !.out = "answer", !.err = FALSE]]
      BY <1>0, <2>6, <3>2 DEF receive, CallState
    <3>3. QED BY <1>0, <2>6, <3>1, <3>2 DEF receive
  <2>7. CASE unregisterTransaction(p) \/ recordEcho(p)
    BY <2>1, <2>7 DEF unregisterTransaction, recordEcho
  <2>8. QED BY <1>1, <2>3, <2>4, <2>5, <2>6, <2>7 DEF CallStep
<1>2. CASE readMessage \/ deliver \/ readerExit \/ Close \/ pgwAnswers \/ pgwRequest \/ UNCHANGED gtpVars
  <2>1. nextTEID' = nextTEID
    BY <1>2 DEF readMessage, deliver, readerExit, Close, pgwAnswers, pgwRequest, gtpVars
  <2>2. CASE call' = call
    BY <2>1, <2>2
  <2>3. CASE deliver
    <3>1. reader.tx \in Call
      BY <2>3 DEF deliver, ReaderHasCall
    <3>2. \/ call' = call
          \/ call' = [call EXCEPT ![reader.tx] = [call[reader.tx] EXCEPT !.err = TRUE]]
          \/ call' = [call EXCEPT ![reader.tx] = [call[reader.tx] EXCEPT !.resp = reader.msg]]
      BY <1>0, <2>3, <3>1 DEF deliver
    <3>3. QED BY <1>0, <2>1, <3>1, <3>2 DEF CallState
  <2>4. CASE failPending
    <3>1. \A q \in Call : call'[q] \in {call[q], [call[q] EXCEPT !.err = TRUE]}
      BY <2>4 DEF failPending
    <3>2. QED BY <1>0, <2>1, <3>1 DEF CallState
  <2>5. QED BY <1>2, <2>2, <2>3, <2>4 DEF readMessage, readerExit, Close, pgwAnswers, pgwRequest, gtpVars
<1>3. QED BY <1>1, <1>2 DEF GNext

\* There are at most two TEIDs of every create, so as long as one is missing
\* the counter has not come round.
LEMMA RoomLeft ==
  ASSUME IsFiniteSet(Creates), 2 * Cardinality(Creates) < TEIDs, TEIDPlaces,
         NEW x \in Creates \X {"gtpc", "gtpu"}, x \notin LocalTEIDs
  PROVE  /\ IsFiniteSet(LocalTEIDs) /\ Cardinality(LocalTEIDs) \in Nat
         /\ Cardinality(LocalTEIDs \cup {x}) = Cardinality(LocalTEIDs) + 1
         /\ Cardinality(LocalTEIDs) + 1 < TEIDs
<1> DEFINE Slot == {"gtpc", "gtpu"}
<1>1. IsFiniteSet(Slot) /\ Cardinality(Slot) = 2
  <2>1. Slot = {"gtpc"} \cup {"gtpu"} /\ "gtpu" \notin {"gtpc"}
    OBVIOUS
  <2>2. IsFiniteSet({"gtpc"}) /\ Cardinality({"gtpc"}) = 1
    BY FS_Singleton
  <2>3. /\ IsFiniteSet({"gtpc"} \cup {"gtpu"})
        /\ Cardinality({"gtpc"} \cup {"gtpu"}) =
             IF "gtpu" \in {"gtpc"} THEN Cardinality({"gtpc"}) ELSE Cardinality({"gtpc"}) + 1
    BY <2>2, FS_AddElement
  <2>4. Cardinality({"gtpc"} \cup {"gtpu"}) = 2
    BY <2>1, <2>2, <2>3
  <2>5. QED BY <2>1, <2>3, <2>4
<1> HIDE DEF Slot
<1>2. LocalTEIDs \subseteq Creates \X Slot /\ x \in Creates \X Slot
  BY DEF LocalTEIDs, TEIDPlaces, Slot
<1>3. Cardinality(Creates) \in Nat /\ TEIDs \in Nat
  BY FS_CardinalityType, ClientAssumption
<1>4. IsFiniteSet(Creates \X Slot) /\ Cardinality(Creates \X Slot) = Cardinality(Creates) * 2
  BY <1>1, FS_Product
<1>5. IsFiniteSet(LocalTEIDs) /\ Cardinality(LocalTEIDs) \in Nat
  BY <1>2, <1>4, FS_Subset, FS_CardinalityType
<1>6. Cardinality(LocalTEIDs \cup {x}) = Cardinality(LocalTEIDs) + 1
  BY <1>5, FS_AddElement
<1>7. LocalTEIDs \cup {x} \in SUBSET (Creates \X Slot)
  BY <1>2
<1>8. Cardinality(LocalTEIDs \cup {x}) <= Cardinality(Creates \X Slot)
  BY <1>4, <1>7, FS_Subset
<1>9. QED BY <1>3, <1>4, <1>5, <1>6, <1>8

\* One increment counts one further, and only zero is as far as zero.
LEMMA CountOneMore ==
  ASSUME GTypeOK, NEW f \in TEID, NEW n \in Nat, n < TEIDs, Counted(f, n),
         nextTEID' = (nextTEID + 1) % TEIDs
  PROVE  /\ nextTEID' \in TEID /\ Distance(TEIDs, f, nextTEID') = n + 1
         /\ \A t \in TEID : Distance(TEIDs, f, t) \in Nat
         /\ \A t \in TEID : Distance(TEIDs, f, t) = n + 1 => t = nextTEID'
<1>1. TEIDs \in Nat \ {0} /\ nextTEID \in TEID
  BY ClientAssumption DEF GTypeOK
<1>2. nextTEID' = IF nextTEID + 1 = TEIDs THEN 0 ELSE nextTEID + 1
  BY <1>1, NextTEID
<1>3. IF n = 0 THEN nextTEID = f ELSE Distance(TEIDs, f, nextTEID) = n
  BY DEF Counted
<1>4. nextTEID' \in TEID /\ Distance(TEIDs, f, nextTEID') = n + 1
  BY <1>1, <1>2, <1>3 DEF Distance, TEID
<1>5. \A t \in TEID : Distance(TEIDs, f, t) \in Nat
  BY <1>1 DEF Distance, TEID
<1>6. \A t, u \in TEID : Distance(TEIDs, f, t) = Distance(TEIDs, f, u) => t = u
  BY <1>1 DEF Distance, TEID
<1>7. QED BY <1>4, <1>5, <1>6

\* A TEID is picked, or zero is met: either counts.
LEMMA TEIDPicked ==
  ASSUME IsFiniteSet(Creates), 2 * Cardinality(Creates) < TEIDs, TEIDInv, NEW p \in Call,
         nextTEIDValue(p)
  PROVE  TEIDPlaces' /\ \E f \in TEID, n \in Nat : Counted(f, n)'
<1>a. GTypeOK /\ TEIDPlaces /\ None \notin Nat /\ TEIDs \in Nat /\ TEIDs > 0
  BY ClientAssumption DEF TEIDInv, TableInv
<1>b. PICK f \in TEID, n \in Nat : Counted(f, n)
  BY DEF TEIDInv
<1> DEFINE E1 == /\ nextTEID' = 0 /\ call[p].pc \in {"gtpc_teid", "gtpu_teid"}
                 /\ call[p].pc = "gtpc_teid" => call'[p].pc = "gtpc_teid_again"
                 /\ call[p].pc = "gtpu_teid" => call'[p].pc = "gtpu_teid_again"
                 /\ call'[p].gtpc = call[p].gtpc /\ call'[p].gtpu = call[p].gtpu
           E2 == /\ call[p].pc \in {"gtpc_teid", "gtpc_teid_again"} /\ call'[p].pc = "gtpu_teid"
                 /\ call[p].pc = "gtpc_teid" => nextTEID' # 0
                 /\ call'[p].gtpc = nextTEID' /\ call'[p].gtpu = call[p].gtpu
           E3 == /\ call[p].pc \in {"gtpu_teid", "gtpu_teid_again"} /\ call'[p].pc = "sequence"
                 /\ call[p].pc = "gtpu_teid" => nextTEID' # 0
                 /\ call'[p].gtpu = nextTEID' /\ call'[p].gtpc = call[p].gtpc
           x == <<p, IF call[p].pc \in {"gtpc_teid", "gtpc_teid_again"} THEN "gtpc" ELSE "gtpu">>
           k == Cardinality(LocalTEIDs)
           z == Distance(TEIDs, f, 0)
<1>1. (E1 \/ E2 \/ E3) /\ \A q \in Call : q # p => call'[q] = call[q]
  BY <1>a, TEIDEffects
<1>2. p \in Creates
  BY <1>a, <1>1 DEF TEIDPlaces
<1>3. TEIDPlaces'
  BY <1>a, <1>1, <1>2 DEF TEIDPlaces
<1>4. x \in Creates \X {"gtpc", "gtpu"} /\ x \notin LocalTEIDs /\ x[1] = p
  BY <1>a, <1>1, <1>2 DEF TEIDPlaces, LocalTEIDs
<1>5. k \in Nat /\ Cardinality(LocalTEIDs \cup {x}) = k + 1 /\ k + 1 < TEIDs
  BY <1>a, <1>4, RoomLeft
<1>6. /\ n = k + (IF z <= n THEN 1 ELSE 0)
      /\ \A y \in LocalTEIDs : Value(y) # 0 /\ Distance(TEIDs, f, Value(y)) <= n
      /\ \A y, w \in LocalTEIDs : Value(y) = Value(w) => y = w
      /\ \A q \in Call : call[q].pc \in {"gtpc_teid_again", "gtpu_teid_again"} => z <= n
  BY <1>b DEF Counted
<1>7. n < TEIDs
  <2> HIDE DEF k, z
  <2>1. QED BY <1>a, <1>5, <1>6
<1>8. /\ nextTEID' \in TEID /\ Distance(TEIDs, f, nextTEID') = n + 1
      /\ \A t \in TEID : Distance(TEIDs, f, t) \in Nat
      /\ \A t \in TEID : Distance(TEIDs, f, t) = n + 1 => t = nextTEID'
  <2>1. nextTEID' = (nextTEID + 1) % TEIDs
    BY DEF nextTEIDValue
  <2>2. QED BY <1>a, <1>b, <1>7, <2>1, CountOneMore
<1>9. 0 \in TEID /\ z \in Nat
  BY <1>a, <1>8 DEF TEID
<1>10. \A y \in LocalTEIDs : y[1] \in Call /\ y[2] \in {"gtpc", "gtpu"} /\ Value(y) \in TEID
  BY <1>a DEF LocalTEIDs, Value, GTypeOK, CallState, OrNone
<1>11. CASE E1
  <2>1. \A q \in Call : call'[q].gtpc = call[q].gtpc /\ call'[q].gtpu = call[q].gtpu
    BY <1>1, <1>11
  <2>2. LocalTEIDs' = LocalTEIDs
    BY <2>1 DEF LocalTEIDs
  <2>3. \A y \in LocalTEIDs : Value(y)' = Value(y)
    BY <1>10, <2>1 DEF Value
  <2>4. z = n + 1
    BY <1>8, <1>11
  <2> HIDE DEF z, k, E1, E2, E3
  <2>5. n + 1 = k + (IF z <= n + 1 THEN 1 ELSE 0)
    BY <1>5, <1>6, <1>9, <2>4
  <2>6. \A y \in LocalTEIDs' : Value(y)' # 0 /\ Distance(TEIDs, f, Value(y)') <= n + 1
    BY <1>6, <1>8, <1>10, <2>2, <2>3
  <2>7. \A y, w \in LocalTEIDs' : Value(y)' = Value(w)' => y = w
    BY <1>6, <2>2, <2>3
  <2>8. Counted(f, n + 1)'
    BY <1>8, <1>9, <2>2, <2>4, <2>5, <2>6, <2>7 DEF Counted, z, k
  <2>9. QED BY <1>3, <2>8
<1>12. CASE E2 \/ E3
  <2>0. nextTEID' # 0
    <3>1. CASE call[p].pc \in {"gtpc_teid", "gtpu_teid"}
      BY <1>12, <3>1
    <3>2. CASE call[p].pc \in {"gtpc_teid_again", "gtpu_teid_again"}
      <4>1. z <= n
        BY <1>6, <3>2
      <4>2. z # n + 1
        BY <1>9, <4>1
      <4>3. QED BY <1>8, <4>2
    <3>3. QED BY <1>12, <3>1, <3>2
  <2>1. /\ \A q \in Call, s \in {"gtpc", "gtpu"} : <<q, s>> # x => call'[q][s] = call[q][s]
        /\ call'[x[1]][x[2]] = nextTEID'
    BY <1>1, <1>12
  <2>2. \A y \in LocalTEIDs : y # x /\ Value(y)' = Value(y)
    BY <1>4, <1>10, <2>1 DEF Value, LocalTEIDs
  <2>3. \A y \in {x} : Value(y)' = nextTEID'
    BY <2>1 DEF Value
  <2>4. LocalTEIDs' = LocalTEIDs \cup {x}
    <3> HIDE DEF x
    <3>1. x \in Call \X {"gtpc", "gtpu"} /\ nextTEID' # None
      BY <1>4, <1>8, <1>a DEF Creates, TEID
    <3>2. QED BY <2>1, <3>1 DEF LocalTEIDs
  <2>5. z <= n <=> z <= n + 1
    <3>1. z # n + 1
      BY <1>8, <1>9, <2>0
    <3>2. QED BY <1>9, <3>1
  <2>6. \A q \in Call : call'[q].pc \in {"gtpc_teid_again", "gtpu_teid_again"} => z <= n + 1
    BY <1>1, <1>6, <1>12, <2>5
  <2> HIDE DEF z, k, x, E1, E2, E3
  <2>7. n + 1 = (k + 1) + (IF z <= n + 1 THEN 1 ELSE 0)
    BY <1>5, <1>6, <1>9, <2>5
  <2>8. \A y \in LocalTEIDs' : Value(y)' # 0 /\ Distance(TEIDs, f, Value(y)') <= n + 1
    BY <1>6, <1>8, <1>10, <2>0, <2>2, <2>3, <2>4
  <2>9. \A y \in LocalTEIDs : Value(y) # nextTEID'
    BY <1>6, <1>8, <1>10
  <2>10. \A y, w \in LocalTEIDs' : Value(y)' = Value(w)' => y = w
    BY <1>6, <2>2, <2>3, <2>4, <2>9
  <2>11. Cardinality(LocalTEIDs') = k + 1
    BY <1>5, <2>4
  <2>12. Counted(f, n + 1)'
    BY <1>8, <1>9, <2>6, <2>7, <2>8, <2>10, <2>11 DEF Counted, z
  <2>13. QED BY <1>3, <2>12
<1>13. QED BY <1>1, <1>11, <1>12

\* The invariant of the TEIDs is inductive.
LEMMA TEIDStep ==
  ASSUME IsFiniteSet(Creates), 2 * Cardinality(Creates) < TEIDs, TEIDInv, [GNext]_gtpVars
  PROVE  TEIDInv'
<1>0. TableInv' /\ GTypeOK /\ ReaderHasCall
  BY TableStep DEF TEIDInv, TableInv
<1>1. ASSUME NEW p \in Call, nextTEIDValue(p) PROVE TEIDInv'
  BY <1>0, <1>1, TEIDPicked DEF TEIDInv
<1>2. CASE \A p \in Call : ~nextTEIDValue(p)
  <2>1. PICK f \in TEID, n \in Nat : Counted(f, n)
    BY DEF TEIDInv
  <2>2. /\ nextTEID' = nextTEID
        /\ \A q \in Call :
             /\ call'[q].gtpc = call[q].gtpc /\ call'[q].gtpu = call[q].gtpu
             /\ \/ call'[q].pc = call[q].pc
                \/ call[q].pc = "idle" /\ call'[q].pc = "gtpc_teid" /\ q \in Creates
                \/ call'[q].pc \notin {"idle", "gtpc_teid", "gtpc_teid_again", "gtpu_teid",
                                       "gtpu_teid_again"}
    BY <1>0, <1>2, NoTEIDTaken
  <2>3. TEIDPlaces'
    BY <2>2 DEF TEIDInv, TEIDPlaces
  <2>4. LocalTEIDs' = LocalTEIDs
    BY <2>2 DEF LocalTEIDs
  <2>5. \A y \in LocalTEIDs : Value(y)' = Value(y)
    BY <2>2 DEF LocalTEIDs, Value
  <2>6. Counted(f, n)'
    BY <2>1, <2>2, <2>4, <2>5 DEF Counted
  <2>7. QED BY <1>0, <2>3, <2>6 DEF TEIDInv
<1>3. QED BY <1>1, <1>2

\* No two local TEIDs of the sessions are equal and none is zero, however the
\* atomic increments of the calls interleave and wherever the counter wraps,
\* as long as it has not come round: two TEIDs for every CreateSession, and zero.
THEOREM LocalTEIDsDistinct ==
  ASSUME IsFiniteSet(Creates), 2 * Cardinality(Creates) < TEIDs
  PROVE  GSpec => []TEIDsDistinct
<1>1. GInit => TEIDInv
  <2> SUFFICES ASSUME GInit PROVE TEIDPlaces /\ \E f \in TEID, n \in Nat : Counted(f, n)
    BY TableInit DEF TEIDInv
  <2>1. TEIDPlaces /\ LocalTEIDs = {} /\ nextTEID \in TEID
    BY ClientAssumption DEF GInit, TEIDPlaces, LocalTEIDs, TEID
  <2>2. Cardinality(LocalTEIDs) = 0
    BY <2>1, FS_EmptySet
  <2>3. Distance(TEIDs, nextTEID, 0) \in Nat /\ Distance(TEIDs, nextTEID, 0) > 0
    BY <2>1, ClientAssumption DEF Distance, TEID
  <2>4. \A p \in Call : call[p].pc = "idle"
    BY DEF GInit
  <2>5. Counted(nextTEID, 0)
    BY <2>1, <2>2, <2>3, <2>4 DEF Counted
  <2>6. QED BY <2>1, <2>5
<1>2. TEIDInv /\ [GNext]_gtpVars => TEIDInv'
  BY TEIDStep
<1>3. TEIDInv => TEIDsDistinct
  BY DEF TEIDInv, Counted, TEIDsDistinct, Value
<1>4. QED BY <1>1, <1>2, <1>3, PTL DEF GSpec

=============================================================================
