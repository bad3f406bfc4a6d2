\* Two runs in Docker containers, one fault of any kind.
SPECIFICATION Spec
CONSTANTS
  a1 = a1
  a2 = a2
  Attempts <- TwoAttempts
  MaxChunks <- OneTalks
  MaxFaults = 1
  NoCode = NoCode
INVARIANTS NothingLeft LogsPrecedeExit NetworkSound
PROPERTIES ImplementsContract
\* Attempts are used up.
CHECK_DEADLOCK FALSE
