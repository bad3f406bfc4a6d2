--------------------------- MODULE MCRunExecution ---------------------------
(* Instances of RunExecution for TLC. *)
EXTENDS RunExecution

CONSTANTS a1, a2

OneAttempt  == {a1}
TwoAttempts == {a1, a2}

SignalOnly    == {"signal"}
CrashOnly     == {"crash"}
AllFaults     == {"crash", "signal", "stall"}
=============================================================================
