\* Four invocations of the script; any command may fail, any step be the last.
SPECIFICATION Spec
CONSTANTS
  d1 = d1
  d2 = d2
  d3 = d3
  d4 = d4
  v1 = v1
  v2 = v2
  Invocations <- FourDeploys
  Versions <- TwoVersions
  NoVersion = NoVersion
  Nobody = Nobody
SYMMETRY Symmetry
INVARIANT HostAgrees
\* Invocations are used up.
CHECK_DEADLOCK FALSE
