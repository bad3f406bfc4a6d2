---------------------------- MODULE MCWebClient -----------------------------
(* A model of WebClient for TLC: two projects, one sandbox type besides the *)
(* default, two saves of the workspace settings, three acts on the project  *)
(* pages, two entries and two tests of a connection, one change by somebody *)
(* else and one fault in each part.  As the parts share no variable, a      *)
(* behaviour of one beside each state of the others shows nothing new: each *)
(* moves while the others are as they began.                                *)
EXTENDS WebClient, TLC

CONSTANTS n1, n2, k1, r1, r2

VARIABLE turn  \* the part that moves

MCNames == {n1, n2}
MCIds == {1, 2}
MCTokens == {k1}
MCPaths == {r1, r2}

Either == {onNames @@ onPaths : onNames \in Permutations(MCNames),
                                onPaths \in Permutations(MCPaths)}

SettingsAtRest == Settings!Init /\ workspace.sandbox = Default
PagesAtRest == Pages!Init /\ route = Home /\ \A p \in Ids : ~projects[p].exists
TestsAtRest == /\ Tests!Init
               /\ stored.type = "gitlab" /\ stored.url.scheme = "https"
               /\ secret = NoToken

MCInit == /\ turn \in {"settings", "pages", "tests"}
          /\ ClientInit
          /\ turn = "settings" => PagesAtRest /\ TestsAtRest
          /\ turn = "pages" => SettingsAtRest /\ TestsAtRest
          /\ turn = "tests" => SettingsAtRest /\ PagesAtRest

MCNext == /\ UNCHANGED turn
          /\ \/ turn = "settings" /\ Settings!Next /\ UNCHANGED <<pages, tests>>
             \/ turn = "pages" /\ Pages!Next /\ UNCHANGED <<settings, tests>>
             \/ turn = "tests" /\ Tests!Next /\ UNCHANGED <<settings, pages>>

MCSpec == MCInit /\ [][MCNext]_<<clientVars, turn>>
=============================================================================
