---------------------------- MODULE SessionStates ----------------------------
(***************************************************************************)
(* The states of a TWAG session and the tests the code makes on a state.   *)
(* Constant-level operators only, shared by the session store, the         *)
(* lifecycle service and the proofs.                                       *)
(***************************************************************************)

\* type State and its constants.
Pending     == "pending"
AuthPending == "auth_pending"
Authorized  == "authorized"
IPAllocated == "ip_allocated"
PGWPending  == "pgw_pending"
Active      == "active"
Recovering  == "recovering"
Terminating == "terminating"
Terminated  == "terminated"
Failed      == "failed"

State == {Pending, AuthPending, Authorized, IPAllocated, PGWPending, Active,
          Recovering, Terminating, Terminated, Failed}

\* Mutant: a session may ask for the PGW without an answer of the AAA.
Successors_SkipAuth(from) ==
  CASE from = Pending     -> {AuthPending, Terminating}
    [] from = AuthPending -> {Authorized, PGWPending, Terminating}
    [] from = Authorized  -> {IPAllocated, PGWPending, Terminating}
    [] from = IPAllocated -> {PGWPending, Terminating}
    [] from = PGWPending  -> {Active, Terminating}
    [] from = Active      -> {Terminating, Recovering}
    [] from = Recovering  -> {Terminating, Failed}
    [] from = Terminating -> {Terminated}
    [] OTHER              -> {}

\* The switch of validTransition as a relation: the successors of a state
\* other than itself and Failed.
Successors(from) ==
  CASE from = Pending     -> {AuthPending, Terminating}
    [] from = AuthPending -> {Authorized, Terminating}
    [] from = Authorized  -> {IPAllocated, PGWPending, Terminating}
    [] from = IPAllocated -> {PGWPending, Terminating}
    [] from = PGWPending  -> {Active, Terminating}
    [] from = Active      -> {Terminating, Recovering}
    [] from = Recovering  -> {Terminating, Failed}
    [] from = Terminating -> {Terminated}
    [] OTHER              -> {}

\* A state may always be re-entered; Failed is reachable from everything but
\* Terminated; the rest is the switch.
validTransition(from, to) ==
  \/ from = to
  \/ to = Failed /\ from # Terminated
  \/ to # Failed /\ to \in Successors(from)

\* A session in one of these states may own a context at the PGW.
isLivePGWOwner(state) ==
  state \in {Pending, AuthPending, Authorized, IPAllocated, PGWPending, Active,
             Recovering, Terminating}

\* The states whose sessions an Accounting-Stop tears down.
accountingStopShouldDetach(state) ==
  state \in {Pending, AuthPending, Authorized, IPAllocated, PGWPending, Active,
             Recovering}

\* The states whose sessions Shutdown tears down.
shutdownShouldDetach(state) == state \in {IPAllocated, PGWPending, Active}
=============================================================================
