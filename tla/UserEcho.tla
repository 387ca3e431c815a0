------------------------------ MODULE UserEcho ------------------------------
(***************************************************************************)
(* The goroutines of the kernel user plane (internal/userplane): the       *)
(* reader of GTP-U control packets and the echo watchdog, which shares     *)
(* with it the channel of the probe that is under way, and what Start and  *)
(* Stop do.                                                                *)
(*                                                                         *)
(* The sequence number of a request is left out: no response is compared   *)
(* with it, so a late answer to one probe counts for a later one.  So does *)
(* a response that was read during one probe when the channel is looked up *)
(* during the next.  Error Indications are the events of Lifecycle.        *)
(***************************************************************************)
EXTENDS Naturals

CONSTANTS
  MaxFailures,  \* gtp.user_echo.max_failures
  MaxAnswer     \* bound: the number of responses on the way

ASSUME EchoAssumption == MaxFailures \in Nat \ {0} /\ MaxAnswer \in Nat

VARIABLES
  rootDone,   \* the context of main is cancelled
  link,       \* the GTP device exists in the kernel
  kctx,       \* k.ctx
  reader,     \* readControlLoop: at "look" it has read a response; "offer" and
              \* "late" hold the channel of the probe under way and of one that
              \* is over
  watchdog,   \* runUserEchoWatchdog and the probe it makes
  pending,    \* k.echoPending, a channel of capacity one
  supported,  \* gtpuEchoSupported and not gtpuEchoDisabled
  health,     \* gtpuHealth
  failures,   \* consecutiveEchoFailures, counted up to MaxFailures
  peerUp,     \* the PGW answers echo requests
  answers     \* echo responses not read yet

echoVars == <<rootDone, link, kctx, reader, watchdog, pending, supported, health,
              failures, peerUp, answers>>

EchoInit ==
  /\ rootDone = FALSE /\ link = FALSE /\ kctx = "none"
  /\ reader = "off" /\ watchdog = "off" /\ pending = "nil" /\ supported = FALSE
  /\ health = "unknown" /\ failures = 0
  /\ peerUp = TRUE /\ answers = 0

EchoTypeOK ==
  /\ rootDone \in BOOLEAN /\ link \in BOOLEAN
  /\ kctx \in {"none", "live", "cancelled"}
  /\ reader \in {"off", "read", "look", "offer", "late", "ended"}
  /\ watchdog \in {"off", "wait", "trigger", "probe", "ended"}
  /\ pending \in {"nil", "empty", "full"}
  /\ supported \in BOOLEAN
  /\ health \in {"unknown", "healthy", "unhealthy"}
  /\ failures \in 0..MaxFailures
  /\ peerUp \in BOOLEAN /\ answers \in 0..MaxAnswer
-----------------------------------------------------------------------------
(* Start and Stop. *)

\* Start: a device that exists already is an error.  The reader is started, and
\* when echo is enabled it is found out whether the kernel can send requests.
\* (Without echo no response can arrive, and the reader is not followed.)
kernelStart(enabled) ==
  /\ ~link /\ ~rootDone
  /\ link' = TRUE /\ kctx' = "live" /\ reader' = IF enabled THEN "read" ELSE "off"
  /\ supported' \in {enabled, FALSE}
  /\ UNCHANGED <<rootDone, watchdog, pending, health, failures, peerUp, answers>>

\* Before it a startup probe may have succeeded.
StartUserEchoWatchdog ==
  /\ watchdog' = IF supported THEN "wait" ELSE "off"
  /\ health' \in IF supported THEN {health, "healthy"} ELSE {health}
  /\ UNCHANGED <<rootDone, link, kctx, reader, pending, supported, failures, peerUp,
                 answers>>

\* Stop cancels the context and wakes the reader ...
kernelCancel ==
  /\ kctx' = "cancelled"
  /\ UNCHANGED <<rootDone, link, reader, watchdog, pending, supported, health,
                 failures, peerUp, answers>>

\* ... waits for the goroutines ...
Ended == reader \in {"off", "ended"} /\ watchdog \in {"off", "ended"}

\* ... and deletes the device, which may fail, and closes the sockets.
kernelRelease ==
  /\ Ended
  /\ link' \in {link, FALSE}
  /\ UNCHANGED <<rootDone, kctx, reader, watchdog, pending, supported, health,
                 failures, peerUp, answers>>
-----------------------------------------------------------------------------
(* The reader. *)

\* An Echo Response is read from the socket.
readResponse ==
  /\ reader = "read" /\ answers > 0
  /\ answers' = answers - 1 /\ reader' = "look"
  /\ UNCHANGED <<rootDone, link, kctx, watchdog, pending, supported, health,
                 failures, peerUp>>

\* observeUserEchoResponse looks up the channel under the mutex; by now another
\* probe may be under way than when the response was read, or none.
observeUserEchoResponse ==
  /\ reader = "look"
  /\ reader' = IF pending = "nil" THEN "read" ELSE "offer"
  /\ UNCHANGED <<rootDone, link, kctx, watchdog, pending, supported, health,
                 failures, peerUp, answers>>

\* The observation is put into that channel, if there is room.  The channel of
\* a probe that is over has no receiver any more.
offerResponse ==
  /\ reader \in {"offer", "late"}
  /\ reader' = "read"
  /\ pending' = IF reader = "offer" /\ pending = "empty" THEN "full" ELSE pending
  /\ UNCHANGED <<rootDone, link, kctx, watchdog, supported, health, failures,
                 peerUp, answers>>

\* The context is done, or the socket failed.
readerEnds ==
  /\ reader = "read"
  /\ reader' = "ended"
  /\ UNCHANGED <<rootDone, link, kctx, watchdog, pending, supported, health,
                 failures, peerUp, answers>>
-----------------------------------------------------------------------------
(* The watchdog. *)

\* A tick: ensureUserEchoPending makes a new channel; when the kernel has
\* refused echo requests before, the watchdog ends.
tick ==
  /\ watchdog = "wait"
  /\ IF supported THEN watchdog' = "trigger" /\ pending' = "empty"
                  ELSE watchdog' = "ended" /\ UNCHANGED pending
  /\ UNCHANGED <<rootDone, link, kctx, reader, supported, health, failures, peerUp,
                 answers>>

watchdogEnds ==
  /\ watchdog = "wait" /\ (rootDone \/ kctx = "cancelled")
  /\ watchdog' = "ended"
  /\ UNCHANGED <<rootDone, link, kctx, reader, pending, supported, health, failures,
                 peerUp, answers>>

\* clearUserEchoPending, and the end of the probe.
probeOver ==
  /\ watchdog' = "wait" /\ pending' = "nil"
  /\ reader' = IF reader = "offer" THEN "late" ELSE reader

\* Mutant: only a peer that was healthy can become unhealthy.
recordUserEchoFailure_WasHealthy ==
  /\ failures' = IF failures < MaxFailures THEN failures + 1 ELSE failures
  /\ health' = IF failures + 1 >= MaxFailures /\ health = "healthy" THEN "unhealthy"
               ELSE health

recordUserEchoFailure ==
  /\ failures' = IF failures < MaxFailures THEN failures + 1 ELSE failures
  /\ health' = IF failures + 1 >= MaxFailures THEN "unhealthy" ELSE health

\* triggerUserEchoRequest: the request is sent through netlink or the socket; or
\* it fails, which counts unless the kernel does not know the command: then echo
\* is disabled.
triggerUserEchoRequest ==
  /\ watchdog = "trigger"
  /\ \/ /\ watchdog' = "probe"
        /\ answers' \in {answers} \cup
                        (IF peerUp /\ answers < MaxAnswer THEN {answers + 1} ELSE {})
        /\ UNCHANGED <<reader, pending, supported, health, failures>>
     \/ recordUserEchoFailure /\ probeOver /\ UNCHANGED <<supported, answers>>
     \/ supported' = FALSE /\ probeOver /\ UNCHANGED <<health, failures, answers>>
  /\ UNCHANGED <<rootDone, link, kctx, peerUp>>

\* recordUserEchoSuccess.
probeAnswered ==
  /\ watchdog = "probe" /\ pending = "full"
  /\ health' = "healthy" /\ failures' = 0
  /\ probeOver
  /\ UNCHANGED <<rootDone, link, kctx, supported, peerUp, answers>>

\* The timeout, or the end of main's context.
probeFails ==
  /\ watchdog = "probe"
  /\ recordUserEchoFailure /\ probeOver
  /\ UNCHANGED <<rootDone, link, kctx, supported, peerUp, answers>>

\* External: the PGW stops answering for good.
peerDies ==
  /\ peerUp
  /\ peerUp' = FALSE
  /\ UNCHANGED <<rootDone, link, kctx, reader, watchdog, pending, supported, health,
                 failures, answers>>

\* The context of the reader comes from main's.  When it is done the reader ends,
\* when the socket fails it may.
Reads ==
  \/ readResponse \/ observeUserEchoResponse \/ offerResponse
  \/ (rootDone \/ kctx = "cancelled") /\ readerEnds

Probes == tick \/ watchdogEnds \/ triggerUserEchoRequest \/ probeAnswered \/ probeFails
=============================================================================
