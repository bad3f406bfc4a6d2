--------------------------- MODULE MCDockerSandbox ---------------------------
(* An instance of DockerSandbox for TLC. *)
EXTENDS DockerSandbox

CONSTANTS a1, a2

TwoAttempts == {a1, a2}
OneTalks == [a \in TwoAttempts |-> IF a = a1 THEN 1 ELSE 0]
=============================================================================
