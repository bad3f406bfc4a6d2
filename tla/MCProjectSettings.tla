------------------------- MODULE MCProjectSettings -------------------------
(* A small instance of ProjectSettings.  Of three forges one is mounted      *)
(* under a sub-path, one is not, and one is of old rows.                     *)
EXTENDS ProjectSettings, TLC

CONSTANTS A, B, Old

TwoHarnesses == {"opencode", "codex-cli"}
NoHarness == {}

AllHosts == {A, B, Old}
OldHost == {Old}
SubPaths == [h \in {A, B, Old} |-> IF h = A THEN <<"sub", "forge">> ELSE <<>>]

\* An ordinary path, and one that is all sub-path for A.
BothPaths == {<<"owner", "repo">>, <<"sub", "forge", "">>}

EitherFirst == Permutations(Requests)

(* The instance has two corners: the settings of a project that stays where  *)
(* it is, and a project that is moved, with or without its harness, which is *)
(* OpenCode.                                                                 *)
Home(url) == url \in {Nothing, [host |-> B, path |-> <<"owner", "repo">>]}
Stays ==
  /\ project = Nothing \/ (project.host = B /\ Home(project.repository))
  /\ \A q \in Requests : req[q].patch.host \in {Nothing, B} /\ Home(req[q].patch.repository)

OpenCode == [harness |-> "opencode", model |-> Nothing]
Moves ==
  /\ \A s \in Slots : rows[s] = Nothing \/ (s = "project" /\ rows[s] = OpenCode)
  /\ \A q \in Requests : req[q].slot \in {Nothing, "project"} /\ req[q].value \in {Nothing, OpenCode}

MCNext == SettingsNext /\ (Stays \/ Moves)'
MCInit == SettingsInit /\ (Stays \/ Moves)
MCSpec == MCInit /\ [][MCNext]_settingsVars
=============================================================================
