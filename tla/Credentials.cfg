\* Two commands of the client, two runs of one owner and their agents, every fault; see Rests.
SPECIFICATION MCSpec
CONSTANTS
  a1 = a1
  a2 = a2
  c1 = c1
  c2 = c2
  Runs <- TwoRuns
  Commands <- TwoCommands
  Kinds <- EveryKind
  Faults <- EveryFault
  EnvKey = FALSE
  MaxTokens = 3
  MaxAges = 1
  MaxLogins = 2
  NoToken = NoToken
  NoOne = NoOne
  Torn = Torn
INVARIANTS CredentialUsable LoginUsable
PROPERTY CommandsEnd
\* Commands and runs are used up.
CHECK_DEADLOCK FALSE
