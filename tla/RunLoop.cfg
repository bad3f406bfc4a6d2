\* The run loop of a project with two tasks, without faults.
SPECIFICATION FairSpec
CONSTANTS
  t1 = t1
  t2 = t2
  r1 = r1
  r2 = r2
  r3 = r3
  r4 = r4
  c1 = c1
  c2 = c2
  c3 = c3
  s1 = s1
  s2 = s2
  Tasks <- TaskSet
  Runs <- ThreeRuns
  Calls <- TwoCalls
  Slots <- SlotSet
  Operations <- AllOperations
  Faults <- NoFaults
  MaxOutages = 0
  MaxStalls = 1
  NoTask = NoTask
  NoRun = NoRun
  NoSlot = NoSlot
INVARIANTS CompletedRunCompletedTask NoOrphanRun ProcessingHasWork OneExecutionPerTask
PROPERTIES ImplementsLifecycle EveryRunEnds ProcessingEnds
\* The system stops when requests, run ids and tasks are used up.
CHECK_DEADLOCK FALSE
