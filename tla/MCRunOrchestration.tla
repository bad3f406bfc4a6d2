------------------------- MODULE MCRunOrchestration -------------------------
(* Instances of RunOrchestration for TLC. *)
EXTENDS RunOrchestration, TLC

CONSTANTS t1, t2, r1, r2, r3, r4, c1, c2, c3, s1, s2

TaskSet == {t1, t2}
OneTask == {t1}
RunSet  == {r1, r2, r3, r4}
CallSet == {c1, c2, c3}
TwoRuns == {r1, r2}
ThreeRuns == {r1, r2, r3}
OneCall == {c1}
TwoCalls == {c1, c2}
SlotSet == {s1, s2}

NoFaults       == {}
RestartFaults  == {"crash", "redis"}
OutageFaults   == {"crash", "shutdown"}
AllFaults      == {"crash", "shutdown", "stall", "redis"}

Starts         == {"loop", "single"}
AllOperations  == {"loop", "single", "stop"}

Symmetry == Permutations(TaskSet) \cup Permutations(CallSet) \cup Permutations(SlotSet)
=============================================================================
