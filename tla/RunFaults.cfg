\* One task under every fault: crash, shutdown, lost lock, Redis refusing a job.
SPECIFICATION FairSpec
CONSTANTS
  t1 = t1
  t2 = t2
  r1 = r1
  r2 = r2
  r3 = r3
  r4 = r4
  c1 = c1
  c2 = c2
  c3 = c3
  s1 = s1
  s2 = s2
  Tasks <- OneTask
  Runs <- TwoRuns
  Calls <- OneCall
  Slots <- SlotSet
  Operations <- Starts
  Faults <- AllFaults
  MaxOutages = 1
  MaxStalls = 1
  NoTask = NoTask
  NoRun = NoRun
  NoSlot = NoSlot
PROPERTIES ExecutingRunEnds
\* The system stops when requests, run ids and tasks are used up.
CHECK_DEADLOCK FALSE
