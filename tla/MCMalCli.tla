------------------------------- MODULE MCMalCli -------------------------------
(* Instances of MalCli, composed with CodexCredentials, for TLC. *)
EXTENDS MalCli, TLC

CONSTANTS a1, a2, c1, c2

TwoRuns == {a1, a2}
TwoCommands == {c1, c2}
Kinds1 == {"login", "connect"}
Kinds2 == {"login", "logout", "disconnect", "status"}
EveryKind == [c \in TwoCommands |-> IF c = c1 THEN Kinds1 ELSE Kinds2]
NoKind == [c \in TwoCommands |-> {}]
EveryFault == {"throw", "crash", "response", "kill", "agent"}

\* Of the two commands and the second run one does not begin; the run may be over, with nothing,
\* once the first is.
Rests ==
    \/ \E c \in Commands : pc[c] = "idle"
    \/ /\ held[a2] = NoToken
       /\ at[a2] = "read" \/ {at[a1], at[a2]} \subseteq {"over", "orphan"}

MCNext == Next /\ Rests'
MCSpec == Init /\ [][MCNext]_vars /\ WF_vars(Progress /\ Rests')
=============================================================================
