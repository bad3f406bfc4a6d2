---------------------------- MODULE SandboxContract ----------------------------
(***************************************************************************)
(* What a sandbox service promises to the execution of a run: a sandbox is *)
(* started once, is not removed while it runs, and an attempt is reported  *)
(* as completed only if its agent was started and finished with code 0 and *)
(* its sandbox is gone by then.                                            *)
(***************************************************************************)
CONSTANT Attempts

VARIABLES
    box,         \* "absent", "ready", "running", "ended" or "gone"
    agent,       \* "none", "ok" or "bad": how the agent finished
    verdict      \* "none", "completed" or "failed"

vars == <<box, agent, verdict>>

Init ==
    /\ box = [a \in Attempts |-> "absent"]
    /\ agent = [a \in Attempts |-> "none"]
    /\ verdict = [a \in Attempts |-> "none"]

Moves(a, from, to) == box[a] \in from /\ box' = [box EXCEPT ![a] = to]

Create(a) == Moves(a, {"absent"}, "ready") /\ UNCHANGED <<agent, verdict>>
End(a)    == Moves(a, {"running"}, "ended") /\ UNCHANGED <<agent, verdict>>

\* A sandbox may start whose attempt learns that it did not.
Start(a) ==
    /\ Moves(a, {"ready"}, "running")
    /\ verdict' = verdict \/ (verdict[a] = "none" /\ verdict' = [verdict EXCEPT ![a] = "failed"])
    /\ UNCHANGED agent

Finish(a, r) ==
    /\ box[a] = "running" /\ agent[a] = "none"
    /\ agent' = [agent EXCEPT ![a] = r]
    /\ UNCHANGED <<box, verdict>>

Remove(a) ==
    /\ Moves(a, {"ready", "ended"}, "gone")
    /\ verdict' = verdict \/ (verdict[a] = "none" /\ verdict' = [verdict EXCEPT ![a] = "failed"])
    /\ UNCHANGED agent

Report(a, v) ==
    /\ verdict[a] = "none"
    /\ v = "completed" => agent[a] = "ok" /\ box[a] = "gone"
    /\ verdict' = [verdict EXCEPT ![a] = v]
    /\ UNCHANGED <<box, agent>>

Next ==
    \E a \in Attempts :
        \/ Create(a) \/ Start(a) \/ End(a) \/ Remove(a)
        \/ \E r \in {"ok", "bad"} : Finish(a, r)
        \/ \E v \in {"completed", "failed"} : Report(a, v)

Spec == Init /\ [][Next]_vars
=============================================================================
