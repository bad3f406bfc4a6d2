---------------------------- MODULE RunLifecycle ----------------------------
(***************************************************************************)
(* What the runs table promises its readers (the task cards, the `stop`    *)
(* handler, the driver API): a run is created for a task, is claimed at    *)
(* most once, and ends once; a completed run belongs to a completed task,  *)
(* and no two claimed runs share a task.  RunOrchestration implements it.  *)
(* The state diagram of updateRunState has the arrows Claim, Complete and  *)
(* Fail.  It has none from pending to failed, which is FailUnclaimed.      *)
(***************************************************************************)
CONSTANTS Tasks, Runs, NoTask

VARIABLES run, runTask, done,
          givenUp    \* runs whose job the queue has given up

Init ==
    /\ run = [r \in Runs |-> "none"]
    /\ runTask = [r \in Runs |-> NoTask]
    /\ done = {} /\ givenUp = {}

Create(r, t) ==
    /\ run[r] = "none"
    /\ \A q \in Runs : runTask[q] = t => run[q] # "pending"
    /\ run' = [run EXCEPT ![r] = "pending"]
    /\ runTask' = [runTask EXCEPT ![r] = t]
    /\ UNCHANGED <<done, givenUp>>

Claim(r) ==
    /\ run[r] = "pending"
    /\ \A q \in Runs : runTask[q] = runTask[r] => run[q] # "in_progress"
    /\ run' = [run EXCEPT ![r] = "in_progress"]
    /\ UNCHANGED <<runTask, done, givenUp>>

Complete(r) ==
    /\ run[r] = "in_progress" /\ runTask[r] \in done
    /\ run' = [run EXCEPT ![r] = "completed"]
    /\ UNCHANGED <<runTask, done, givenUp>>

Fail(r) ==
    /\ run[r] = "in_progress"
    /\ run' = [run EXCEPT ![r] = "failed"]
    /\ UNCHANGED <<runTask, done, givenUp>>

\* The claim of r violates the index, another run of its task having been claimed before; or the
\* queue has given up its job.
FailUnclaimed(r) ==
    /\ run[r] = "pending"
    /\ \/ r \in givenUp
       \/ \E q \in Runs \ {r} : runTask[q] = runTask[r] /\ run[q] \notin {"none", "pending"}
    /\ run' = [run EXCEPT ![r] = "failed"]
    /\ UNCHANGED <<runTask, done, givenUp>>

TaskDone(t) ==
    /\ t \notin done
    /\ done' = done \cup {t}
    /\ UNCHANGED <<run, runTask, givenUp>>

GiveUp(r) ==
    /\ givenUp' = givenUp \cup {r}
    /\ UNCHANGED <<run, runTask, done>>

Next ==
    \/ \E r \in Runs : \/ Claim(r) \/ Complete(r) \/ Fail(r) \/ FailUnclaimed(r) \/ GiveUp(r)
                     \/ \E t \in Tasks : Create(r, t)
    \/ \E t \in Tasks : TaskDone(t)

Spec == Init /\ [][Next]_<<run, runTask, done, givenUp>>
=============================================================================
