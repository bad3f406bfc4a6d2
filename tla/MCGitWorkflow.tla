--------------------------- MODULE MCGitWorkflow ---------------------------
(* Instances of GitWorkflow for TLC.                                         *)
EXTENDS GitWorkflow, TLC

CONSTANTS r1, r2, a1, a2, a3

TwoRuns == {r1, r2}
OneRun == {r1}
ThreeDeliveries == {a1, a2, a3}
OneDelivery == {a1}
OneAgain == (a1 :> r1) @@ (a2 :> r1) @@ (a3 :> r2)
DeliveredOnce == [a \in OneDelivery |-> r1]
SameTask == [r \in TwoRuns |-> "one"]
OneTask == [r \in OneRun |-> "one"]
AllBranches == {"main", "master", "one"}
OtherBranches == {"main"}
AllActions == {"push-branch", "merge-immediately", "push-branch-and-create-mr"}

(* The instance has three corners: one run among many merge requests, with   *)
(* no fault; one run that is delivered again; and two runs beside each       *)
(* other.  Attempts at a run, and runs, are alike, so that a1 may begin      *)
(* first.                                                                    *)
Begun == {a \in Attempts : pc[a] # "queued"}
Few == Len(requests) <= 1 /\ commits + Len(requests) <= 3

OneRunAlone == Begun \subseteq {a1} /\ faults = 0
RunAgain == Begun \in {{}, {a1}, {a1, a2}} /\ Few
RunBeside == Begun \in {{}, {a1}, {a1, a3}} /\ Few

MCNext == Next /\ (OneRunAlone \/ RunAgain \/ RunBeside)'

MCSpec == Init /\ [][MCNext]_vars
=============================================================================
