----------------------------- MODULE MCRuntime -----------------------------
(***************************************************************************)
(* One station whose packets are handled by two goroutines, or the echo    *)
(* watchdog: each with the start and the stop of the program around it.    *)
(***************************************************************************)
EXTENDS Runtime

MC_Configs == {[radius |-> TRUE, echo |-> FALSE], [radius |-> FALSE, echo |-> TRUE]}
=============================================================================
