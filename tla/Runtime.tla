------------------------------ MODULE Runtime ------------------------------
(***************************************************************************)
(* The program of cmd/twag/main.go: run starts the parts one after the     *)
(* other, waits for a signal, and stopRuntime stops them in another order, *)
(* each in a goroutine of its own and all within 15 seconds.  The parts    *)
(* that have goroutines of their own are RadiusServer and UserEcho.        *)
(*                                                                         *)
(* The signal cancels the context of main, and with it the connection to   *)
(* the AAA and the echo watchdog.  The handlers of RADIUS packets run with *)
(* the context of their server and go on until that is stopped.            *)
(***************************************************************************)
EXTENDS RadiusServer, UserEcho, Sequences

CONSTANT Configs  \* radius.enabled and gtp.user_echo.enabled

ASSUME ConfigsAssumption == Configs \subseteq [radius: BOOLEAN, echo: BOOLEAN]

\* The parts in the order in which run starts them.  The echo watchdog is
\* started after the user plane, and stopped with it.
StartOrder == <<"aaa", "access_driver", "routing", "userplane", "echo", "accessside",
                "radius">>

\* The parts in the order of stopRuntime.
StopOrder == <<"sessions", "radius", "accessside", "userplane", "pgw", "aaa",
               "access_driver">>

Part == {StartOrder[n] : n \in DOMAIN StartOrder} \cup
        {StopOrder[n] : n \in DOMAIN StopOrder}

VARIABLES
  cfg,     \* the configuration
  main,    \* where run is: phase and the next part
  stop,    \* what the Stop of each part does: "no", "running", "returned"
  budget,  \* the 15 seconds have passed
  failed,  \* run returns an error
  listed   \* the sessions Shutdown found

mainVars == <<cfg, main, stop, budget, failed, listed>>
vars == <<radiusVars, echoVars, mainVars>>

RtInit ==
  /\ RadiusInit /\ EchoInit
  /\ cfg \in Configs
  /\ main = [phase |-> "start", n |-> 1]
  /\ stop = [p \in Part |-> "no"]
  /\ budget = FALSE /\ failed = FALSE /\ listed = {}

RtTypeOK ==
  /\ RadiusTypeOK /\ EchoTypeOK
  /\ cfg \in Configs
  /\ main \in [phase: {"start", "run", "stop", "wait", "exit"}, n: 1..8]
  /\ stop \in [Part -> {"no", "running", "returned"}]
  /\ budget \in BOOLEAN /\ failed \in BOOLEAN /\ listed \subseteq ID

Running(p) == stop[p] = "running"

\* The Stop of part p returns, with an error or not.
Returned(p, err) ==
  /\ stop' = [stop EXCEPT ![p] = "returned"]
  /\ failed' = (failed \/ err)
-----------------------------------------------------------------------------
(* run *)

\* The next part is started.
startPart ==
  LET p == StartOrder[main.n]
  IN /\ main.phase = "start"
     /\ main' = IF main.n = Len(StartOrder) THEN [phase |-> "run", n |-> 1]
                ELSE [main EXCEPT !.n = @ + 1]
     /\ sta' = (sta \/ p = "aaa")
     /\ open' = IF p = "radius" /\ cfg.radius THEN {"auth", "acct"} ELSE open
     /\ CASE p = "userplane" -> kernelStart(cfg.echo)
          [] p = "echo" /\ cfg.echo -> StartUserEchoWatchdog
          [] OTHER -> UNCHANGED echoVars
     /\ UNCHANGED <<work, packets, gtpc, sess, cached, lock, pgw, cfg, stop, budget,
                    failed, listed>>

\* A part that does not start, a startup probe that fails or a signal in between
\* ends the program; the parts that were started before are not stopped, and the
\* GTP device stays.
startFails ==
  /\ main.phase = "start"
  /\ main' = [main EXCEPT !.phase = "exit"]
  /\ failed' = TRUE
  /\ link' \in IF StartOrder[main.n] = "userplane" THEN {FALSE, TRUE} ELSE {link}
  /\ UNCHANGED <<radiusVars, rootDone, kctx, reader, watchdog, pending, supported, health,
                 failures, peerUp, answers, cfg, stop, budget, listed>>

\* SIGINT or SIGTERM.
signal ==
  /\ main.phase = "run"
  /\ main' = [phase |-> "stop", n |-> 1]
  /\ rootDone' = TRUE
  /\ UNCHANGED <<radiusVars, link, kctx, reader, watchdog, pending, supported, health,
                 failures, peerUp, answers, cfg, stop, budget, failed, listed>>

\* The connection loop of the STa client sees that its context is done.
staEnds ==
  /\ sta /\ rootDone
  /\ sta' = FALSE
  /\ UNCHANGED <<work, packets, open, gtpc, sess, cached, lock, pgw, echoVars, mainVars>>
-----------------------------------------------------------------------------
(* stopRuntime *)

\* stop: the Stop of the next part is called.  When the time is over, that and
\* those that follow are skipped.
stopNext ==
  LET p == StopOrder[main.n]
  IN /\ main.phase = "stop"
     /\ \/ /\ main.n > Len(StopOrder)
           /\ main' = [main EXCEPT !.phase = "exit"]
           /\ UNCHANGED <<stop, failed, work>>
        \/ /\ main.n <= Len(StopOrder) /\ budget
           /\ main' = [main EXCEPT !.phase = "exit"]
           /\ failed' = TRUE
           /\ UNCHANGED <<stop, work>>
        \/ /\ main.n <= Len(StopOrder) /\ ~budget
           /\ main' = [main EXCEPT !.phase = "wait"]
           /\ stop' = [stop EXCEPT ![p] = "running"]
           /\ work' = IF p = "sessions" THEN [work EXCEPT ![Main].pc = "list"] ELSE work
           /\ UNCHANGED failed
     /\ UNCHANGED <<packets, open, sta, gtpc, sess, cached, lock, pgw, echoVars, cfg,
                    budget, listed>>

\* Mutant: main waits for the Stop to return, however long it takes.
awaitStop_NoTimeout ==
  /\ main.phase = "wait" /\ stop[StopOrder[main.n]] = "returned"
  /\ main' = [phase |-> "stop", n |-> main.n + 1]
  /\ UNCHANGED <<radiusVars, echoVars, cfg, stop, budget, failed, listed>>

\* It has returned, or the time is over and main goes on without it.
awaitStop ==
  /\ main.phase = "wait"
  /\ \/ stop[StopOrder[main.n]] = "returned" /\ UNCHANGED failed
     \/ budget /\ failed' = TRUE
  /\ main' = [phase |-> "stop", n |-> main.n + 1]
  /\ UNCHANGED <<radiusVars, echoVars, cfg, stop, budget, listed>>

\* The 15 seconds pass; what Shutdown calls has the same context.
budgetEnds ==
  /\ main.phase \in {"stop", "wait"} /\ ~budget
  /\ budget' = TRUE
  /\ work' = [work EXCEPT ![Main].ctxDone = TRUE]
  /\ UNCHANGED <<packets, open, sta, gtpc, sess, cached, lock, pgw, echoVars, cfg, main,
                 stop, failed, listed>>

\* lifecycle.Shutdown: the list, and the end of it.
shutdownLists ==
  /\ listSessions
  /\ listed' = work'[Main].todo
  /\ UNCHANGED <<echoVars, cfg, main, stop, budget, failed>>

shutdownReturns ==
  /\ Running("sessions") /\ At(Main, "next") /\ work[Main].todo = {}
  /\ Returned("sessions", work[Main].out = "error")
  /\ work' = [work EXCEPT ![Main] = Idle("main")]
  /\ UNCHANGED <<packets, open, sta, gtpc, sess, cached, lock, pgw, echoVars, cfg, main,
                 budget, listed>>

\* The handlers of server v that have not returned.
Busy(v) == {g \in Handler : ~At(g, "idle") /\ work[g].srv = v}

\* radius.Stop: server.Shutdown closes the socket of the first server and
\* cancels the contexts of its handlers ...
radiusClose(v) ==
  /\ Running("radius") /\ v \in open
  /\ v = "auth" \/ (open = {"acct"} /\ Busy("auth") = {})
  /\ open' = open \ {v}
  /\ work' = [g \in Worker |-> [work[g] EXCEPT !.ctxDone = @ \/ g \in Busy(v)]]
  /\ UNCHANGED <<packets, sta, gtpc, sess, cached, lock, pgw, echoVars, mainVars>>

\* Mutant: it does not wait for the handlers.
radiusReturns_AtOnce ==
  /\ Running("radius") /\ open = {}
  /\ Returned("radius", FALSE)
  /\ UNCHANGED <<radiusVars, echoVars, cfg, main, budget, listed>>

\* ... and waits for them; then the same with the second.  When the time is over
\* it returns an error, and the second may not have been closed.
radiusReturns ==
  /\ Running("radius")
  /\ \/ open = {} /\ Busy("auth") \cup Busy("acct") = {} /\ Returned("radius", FALSE)
     \/ budget /\ Returned("radius", TRUE)
  /\ UNCHANGED <<radiusVars, echoVars, cfg, main, budget, listed>>

\* userplane.Stop.
userplaneCancels ==
  /\ Running("userplane") /\ kctx # "cancelled"
  /\ kernelCancel
  /\ UNCHANGED <<radiusVars, mainVars>>

userplaneReturns ==
  /\ Running("userplane") /\ kctx = "cancelled"
  /\ kernelRelease
  /\ Returned("userplane", link')
  /\ UNCHANGED <<radiusVars, cfg, main, budget, listed>>

\* The Stop of the other parts: pgw.Close fails the requests that wait, the
\* provider closes the connection to the AAA.
partReturns ==
  \E p \in {"accessside", "pgw", "aaa", "access_driver"} :
    /\ Running(p)
    /\ \E err \in BOOLEAN : Returned(p, err)
    /\ gtpc' = (gtpc /\ p # "pgw")
    /\ sta' = (sta /\ p # "aaa")
    /\ UNCHANGED <<work, packets, open, sess, cached, lock, pgw, echoVars, cfg, main,
                   budget, listed>>
-----------------------------------------------------------------------------
\* Once run has returned the process is gone.
Alive == main.phase # "exit"

RadiusStep(w) ==
  /\ Alive
  /\ WorkerStep(w) \/ (w \in Handler /\ HandlerStep(w)) \/ (w = Main /\ detachNext)
  /\ UNCHANGED <<echoVars, mainVars>>

\* A call on the AAA or the PGW returns.
CallReturns(w) ==
  /\ Alive
  /\ deleteSession(w) \/ (w \in Handler /\ Awaits(w))
  /\ UNCHANGED <<echoVars, mainVars>>

\* What a handler is sure to do: a call returns at the end of its context.
Progress(g) == RadiusStep(g) \/ (work[g].ctxDone /\ CallReturns(g))

DeadlinePasses(g) == Alive /\ expire(g) /\ UNCHANGED <<echoVars, mainVars>>

\* Packets arrive, and the PGW acts on requests.
Environment ==
  /\ Alive
  /\ \/ \E g \in Handler : receive(g) \/ pgwAccepts(g)
     \/ \E w \in Worker : pgwDeletes(w)
  /\ UNCHANGED <<echoVars, mainVars>>

ReaderStep == Alive /\ Reads /\ UNCHANGED <<radiusVars, mainVars>>

WatchdogStep == Alive /\ Probes /\ UNCHANGED <<radiusVars, mainVars>>

\* The socket fails, the peer is silent.
PlaneFails ==
  Alive /\ cfg.echo /\ (readerEnds \/ peerDies) /\ UNCHANGED <<radiusVars, mainVars>>

MainStep == startPart \/ stopNext \/ awaitStop

\* The goroutines in which the parts are stopped.
StopStep == \/ shutdownLists \/ shutdownReturns \/ radiusReturns
            \/ userplaneCancels \/ userplaneReturns \/ partReturns
            \/ \E v \in {"auth", "acct"} : radiusClose(v)

Exited == ~Alive /\ UNCHANGED vars

RtNext ==
  \/ \E w \in Worker : RadiusStep(w) \/ CallReturns(w)
  \/ \E g \in Handler : DeadlinePasses(g)
  \/ Environment
  \/ ReaderStep \/ WatchdogStep \/ PlaneFails
  \/ Alive /\ (MainStep \/ StopStep \/ budgetEnds \/ startFails \/ signal \/ staEnds)
  \/ Exited

RtSpec == RtInit /\ [][RtNext]_vars

\* The handlers, the watchdog and main run when they can, timers fire and
\* deadlines pass.  Nothing is assumed of the AAA, of the PGW or of the other
\* goroutines: the reader, and the one in which a Stop is called.
FairRtSpec ==
  /\ RtSpec
  /\ \A g \in Handler : WF_vars(Progress(g)) /\ WF_vars(DeadlinePasses(g))
  /\ WF_vars(WatchdogStep)
  /\ WF_vars(Alive /\ MainStep) /\ WF_vars(Alive /\ budgetEnds)
-----------------------------------------------------------------------------
\* An Access-Accept is only sent when the AAA granted access in this very
\* exchange: a Result-Code of success, and no EAP-Payload but an EAP-Success.
\* Three layers map its answer before the handler chooses the RADIUS code.
AcceptIsGranted ==
  \A g \in Handler : At(g, "reply") /\ work[g].out = "accept"
                        => work[g].granted

\* Every RADIUS request comes to an end, although the AAA and the PGW may never
\* answer, others hold the lock, and the servers may be shut down at any point.
RequestsAnswered ==
  \A g \in Handler : ~At(g, "idle") ~> At(g, "idle") \/ ~Alive

\* The Stops come in an order in which each waits for whom it should, wherever the
\* time ends: the GTP-C client is not closed under a RADIUS handler, the netlink
\* handle and the socket not under the reader or the echo watchdog.  (The handlers
\* of Error Indications, of the PGW's deletes, of AAA disconnects and of DHCP
\* recoveries use them too; no Stop waits for those, and they are not meant here.)
StopsInOrder ==
  /\ ~gtpc => \A g \in Handler : At(g, "idle")
  /\ stop["userplane"] = "returned" => reader \in {"off", "ended"}
                                       /\ watchdog \in {"off", "ended"}

\* When run returns without an error, no session that Shutdown found has a
\* context at the PGW any more, and the GTP device is gone, so that the program
\* can be started again.  (A session that is created after the list was made is
\* left at the PGW.)
CleanExitReleases == ~Alive /\ ~failed => listed \cap pgw = {} /\ ~link

\* After a signal the program ends, even if the Stop of a part never returns.
ProgramExits == rootDone ~> ~Alive

\* When the PGW stops answering, the health becomes "unhealthy" after
\* MaxFailures probes, whatever it was and however late the last answers come,
\* unless the watchdog ends: with the program, or because the kernel refuses.
PeerLossNoticed ==
  ~peerUp /\ watchdog # "off"
    ~> health = "unhealthy" \/ watchdog = "ended" \/ ~Alive
=============================================================================
