\* One browser tab; MCWebClient explains why its parts move one at a time.
SPECIFICATION MCSpec
CONSTANTS
  n1 = n1
  n2 = n2
  k1 = k1
  r1 = r1
  r2 = r2
  Names <- MCNames
  SandboxTypes = {"vm"}
  Default = "default"
  Unknown = "unknown"
  MaxSaves = 2
  MaxForeign = 1
  Ids <- MCIds
  Home = Home
  Admin = Admin
  None = None
  MaxVersion = 2
  MaxActs = 3
  MaxChanges = 1
  MaxFaults = 1
  Own = Own
  Tokens <- MCTokens
  Paths <- MCPaths
  NoToken = NoToken
  NoPath = NoPath
  MaxEdits = 2
  MaxTests = 2
SYMMETRY Either
INVARIANTS ChosenIsShown VerdictFits
PROPERTIES ClosedMeansSaved UntouchedKept EditsSurvive SavesWhatIsListed
\* The bounds are used up.
CHECK_DEADLOCK FALSE
