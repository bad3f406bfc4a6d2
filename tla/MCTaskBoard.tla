----------------------------- MODULE MCTaskBoard -----------------------------
(***************************************************************************)
(* Instances of TaskBoard for TLC.                                         *)
(***************************************************************************)
EXTENDS TaskBoard

CONSTANTS t1, w1, w2

OneTask    == {t1}
TwoWriters == {w1, w2}
AllKinds   == {"create", "put", "complete", "move", "tool", "update", "add", "finish", "run"}
Tools      == {"tool"}
AllFaults  == {"rollback", "drop"}
NoFaults   == {}
=============================================================================
