\* One run among three merge requests; and, with a fault, one run delivered
\* twice or two runs of a task.
SPECIFICATION MCSpec
CONSTANTS
  r1 = r1
  r2 = r2
  a1 = a1
  a2 = a2
  a3 = a3
  Runs <- TwoRuns
  Attempts <- ThreeDeliveries
  RunOf <- OneAgain
  TaskBranch <- SameTask
  Elsewhere <- OtherBranches
  Branches <- AllBranches
  Primary = "main"
  Actions <- AllActions
  PageSize = 1
  MaxRequests = 3
  MaxCommits = 4
  MaxFaults = 1
INVARIANTS Delivered TokenInUseOnly
 
\* Runs end and counters are used up.
CHECK_DEADLOCK FALSE
