\* Two requests and a run: the settings of a project, and its move between
\* three forges.
CONSTANTS
  Requests = {q1, q2}
  Harnesses <- TwoHarnesses
  EnvKeys <- NoHarness
  A = A
  B = B
  Old = Old
  Hosts <- AllHosts
  OldHosts <- OldHost
  BasePath <- SubPaths
  Paths <- BothPaths
  VmEndpoints = FALSE
  Nothing = Nothing
SYMMETRY EitherFirst
SPECIFICATION MCSpec
INVARIANT RunIsEquipped
PROPERTIES AnsweredIsStored StaysUnderForge
CHECK_DEADLOCK FALSE
