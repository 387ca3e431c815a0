----------------------------- MODULE CallService -----------------------------
(***************************************************************************)
(* What the callers of a signalling client may rely on, whatever protocol  *)
(* it speaks: a call that returns an answer returns the peer's answer to   *)
(* its own request, it returns once, and with a deadline it does return.   *)
(* The Diameter client and the GTP-C client implement it.                  *)
(***************************************************************************)

CONSTANTS
  Call,      \* the calls
  Deadline   \* the calls whose context has a deadline

VARIABLES
  phase,     \* where a call is: "idle", "calling", "answered" or "failed"
  answers    \* the calls whose answer is on its way

callVars == <<phase, answers>>

CallInit ==
  /\ phase = [c \in Call |-> "idle"]
  /\ answers = {}

Begin(c) ==
  /\ phase[c] = "idle"
  /\ phase' = [phase EXCEPT ![c] = "calling"]
  /\ UNCHANGED answers

\* The peer may answer a request whose caller has given up.
PeerAnswers(c) ==
  /\ phase[c] # "idle"
  /\ answers' = answers \cup {c}
  /\ UNCHANGED phase

Lose ==
  /\ answers' \subseteq answers
  /\ UNCHANGED phase

\* A call may fail at any time; the answer it returns is its own.
Return(c) ==
  /\ phase[c] = "calling"
  /\ \/ c \in answers /\ phase' = [phase EXCEPT ![c] = "answered"]
     \/ phase' = [phase EXCEPT ![c] = "failed"]
  /\ answers' \subseteq answers

CallNext == Lose \/ \E c \in Call : Begin(c) \/ PeerAnswers(c) \/ Return(c)

CallSpec == CallInit /\ [][CallNext]_callVars

\* A call can always fail, so this is what weak fairness of Return gives.
DeadlineReturns == \A c \in Deadline : phase[c] = "calling" ~> phase[c] # "calling"

FairCallSpec == CallSpec /\ DeadlineReturns
=============================================================================
