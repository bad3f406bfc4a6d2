\* One browser and two writers, with rollbacks and a broken stream.
SPECIFICATION FairSpec
CONSTANTS
  t1 = t1
  w1 = w1
  w2 = w2
  Tasks <- OneTask
  Writers <- TwoWriters
  Kinds <- AllKinds
  Faults <- AllFaults
  MaxDrops = 1
  Nobody = Nobody
  Absent = Absent
  NotLoaded = NotLoaded
INVARIANTS BoardIsCurrent
PROPERTIES CompletedStays ReopenCatchesUp
