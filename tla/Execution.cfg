\* Two attempts at a run, with crashes, shutdowns and lost locks.
SPECIFICATION FairSpec
CONSTANTS
  a1 = a1
  a2 = a2
  Attempts <- TwoAttempts
  Faults <- AllFaults
  NoAttempt = NoAttempt
INVARIANTS NothingLeaks TokenCleared OutcomeIsTheAgents DriverAuthenticated
PROPERTIES EveryAttemptEnds
\* The system stops when every delivery of the run is over.
CHECK_DEADLOCK FALSE
