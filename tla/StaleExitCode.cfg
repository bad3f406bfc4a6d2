\* A second attempt after a crash.
SPECIFICATION Spec
CONSTANTS
  a1 = a1
  a2 = a2
  Attempts <- TwoAttempts
  Faults <- CrashOnly
  NoAttempt = NoAttempt
INVARIANTS CompletedMeansFinished
\* The system stops when every delivery of the run is over.
CHECK_DEADLOCK FALSE
