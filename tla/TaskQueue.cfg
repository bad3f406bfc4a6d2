\* Three tasks and two moves of any kind, adds that fail, tasks that are completed.
SPECIFICATION Spec
CONSTANTS
  t1 = t1
  t2 = t2
  t3 = t3
  m1 = m1
  m2 = m2
  m3 = m3
  Tasks <- ThreeTasks
  Moves <- TwoMoves
  Gap = 2
  NoTask = NoTask
  NoPosition = NoPosition
SYMMETRY Symmetry
INVARIANTS NumbersInOrder AddedInOrder
PROPERTIES MovesLand
\* The system stops when every request has been made.
CHECK_DEADLOCK FALSE
