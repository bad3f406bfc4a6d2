----------------------------- MODULE Deployment ------------------------------
(***************************************************************************)
(* The deploy script that the webhook starts with the version to deploy,   *)
(* any number of times and also while it runs: its lock, the pull, the     *)
(* extraction of the base that VM sandboxes boot from, the start of the    *)
(* services, the record of the deployed version and the rollback.  A       *)
(* command may fail and the script may be killed at any step.              *)
(***************************************************************************)
EXTENDS Naturals

CONSTANTS
    Invocations,  \* starts of the script
    Versions,     \* commits whose images may be deployed
    NoVersion,    \* no commit: nothing deployed, or an argument that is none
    Nobody

ASSUME DeploymentAssumption ==
    /\ NoVersion \notin Versions
    /\ Nobody \notin Invocations

VARIABLES
    script,     \* the invocations
    lock,       \* flock on lock_file
    recorded,   \* version_file
    current,    \* what the link `current` points to
    base,       \* per version, the artifacts in its directory that are whole
    app,        \* the version of the server's container, and whether it is healthy
    last        \* history: the last invocation to deploy under the lock

vars == <<script, lock, recorded, current, base, app, last>>

Artifacts == 1..3   \* rootfs.raw, bzImage-x86_64, initramfs.cpio.gz, in the order of the copies

Flags == {"true", "false"}   \* of MAL_VM_ENABLED

\* An invocation that has nothing under way.
Rest(at, flag, event) ==
    [at |-> at, version |-> NoVersion, previous |-> NoVersion, target |-> NoVersion,
     vm |-> flag, copy |-> 0, rc |-> 0, said |-> event]

Init ==
    /\ script = [i \in Invocations |-> Rest("waiting", "false", "nothing")]
    /\ lock = Nobody
    /\ recorded = NoVersion /\ current = NoVersion
    /\ base = [v \in Versions |-> {}]
    /\ app = [version |-> NoVersion, health |-> "unhealthy"]
    /\ last = Nobody

host == <<recorded, current, base, app>>

At(i, step) == script[i].at = step

Goto(i, step) == script' = [script EXCEPT ![i].at = step]

\* The script logs how the deployment went and exits, which closes the lock's descriptor.
Exits(i, event) ==
    /\ script' = [script EXCEPT ![i] = Rest("exited", script[i].vm, event)]
    /\ lock' = IF lock = i THEN Nobody ELSE lock

-----------------------------------------------------------------------------
\* The webhook, or an operator, starts the script.
Starts(i) ==
    /\ At(i, "waiting")
    /\ \/ \E v \in Versions : script' = [script EXCEPT ![i].at = "started", ![i].version = v]
       \/ Goto(i, "exited")          \* invalid_version: exit 64
    /\ UNCHANGED <<lock, host, last>>

\* deployment_in_progress: exit 75.
Refused(i) ==
    /\ At(i, "started") /\ lock # Nobody
    /\ Goto(i, "exited")
    /\ UNCHANGED <<lock, host, last>>

\* The lock is taken, .env read, and the deployed version, to which the script will roll back.
TakesLock(i) ==
    /\ At(i, "started") /\ lock = Nobody
    /\ lock' = i /\ last' = i
    /\ \E enabled \in Flags :
          script' = [script EXCEPT ![i].at = "pull", ![i].previous = recorded,
                                   ![i].target = script[i].version, ![i].vm = enabled]
    /\ UNCHANGED host

\* compose_file_missing: exit 66.
NoComposeFile(i) ==
    /\ At(i, "started") /\ lock = Nobody
    /\ Goto(i, "exited")
    /\ UNCHANGED <<lock, host, last>>

\* deploy returned 1: roll back to the previous version, unless there is none, it is the one
\* that failed, or it is the rollback itself that failed.
DeployFails(i) ==
    LET s == script[i] IN
    IF s.target = s.version /\ s.previous \notin {NoVersion, s.version}
    THEN /\ script' = [script EXCEPT ![i].at = "pull", ![i].target = s.previous]
         /\ UNCHANGED lock
    ELSE Exits(i, IF s.target = s.version THEN "rollback skipped" ELSE "rollback failed")

\* docker compose pull
Pull(i) ==
    /\ At(i, "pull")
    /\ \/ Goto(i, IF script[i].vm = "true" THEN "create" ELSE "up") /\ UNCHANGED lock
       \/ DeployFails(i)
    /\ UNCHANGED <<host, last>>

\* refresh_vm_artifacts pulls the image and creates the container to copy from.
CreateContainer(i) ==
    /\ At(i, "create")
    /\ \/ /\ script' = [script EXCEPT ![i].at = "copy", ![i].copy = 1, ![i].rc = 0]
          /\ UNCHANGED lock
       \/ DeployFails(i)
    /\ UNCHANGED <<host, last>>

\* docker cp begins to overwrite the next artifact, in the directory of the version.
CopyBegins(i) ==
    /\ At(i, "copy") /\ script[i].copy \in Artifacts
    /\ base' = [base EXCEPT ![script[i].target] = @ \ {script[i].copy}]
    /\ Goto(i, "copying")
    /\ UNCHANGED <<lock, recorded, current, app, last>>

\* It has copied the artifact, or has failed: `|| rc=1` goes on with the next.
CopyEnds(i) ==
    /\ At(i, "copying")
    /\ \/ /\ base' = [base EXCEPT ![script[i].target] = @ \cup {script[i].copy}]
          /\ script' = [script EXCEPT ![i].at = "copy", ![i].copy = @ + 1]
       \/ /\ script' = [script EXCEPT ![i].at = "copy", ![i].copy = @ + 1, ![i].rc = 1]
          /\ UNCHANGED base
    /\ UNCHANGED <<lock, recorded, current, app, last>>

\* A mutant: `current` moves although a copy failed.
RepointWhateverCopied(i) ==
    /\ At(i, "copy") /\ script[i].copy \notin Artifacts
    /\ Goto(i, "up")
    /\ current' = script[i].target
    /\ UNCHANGED <<lock, recorded, base, app, last>>

\* The container is removed; only if every copy was made does `current` move, by a rename.
Repoint(i) ==
    /\ At(i, "copy") /\ script[i].copy \notin Artifacts
    /\ \/ /\ script[i].rc = 0
          /\ Goto(i, "up")
          /\ current' = script[i].target
          /\ UNCHANGED lock
       \/ /\ script[i].rc = 1
          /\ DeployFails(i)
          /\ UNCHANGED current
    /\ UNCHANGED <<recorded, base, app, last>>

\* What docker compose up leaves when it fails or is killed: the old container, none, or
\* the new one, which is not healthy or becomes so too late.
UpUndone(v) ==
    app' \in {app, [version |-> NoVersion, health |-> "unhealthy"]}
               \cup [version : {v}, health : {"healthy", "unhealthy"}]

\* docker compose up --wait
Up(i) ==
    /\ At(i, "up")
    /\ \/ /\ app' = [version |-> script[i].target, health |-> "healthy"]
          /\ Goto(i, "up done")
          /\ UNCHANGED lock
       \/ UpUndone(script[i].target) /\ DeployFails(i)
    /\ UNCHANGED <<recorded, current, base, last>>

\* The version that was asked for is recorded, by a rename; a rollback is not: its version was.
Record(i) ==
    /\ At(i, "up done")
    /\ \/ /\ script[i].target = script[i].version
          /\ recorded' = script[i].version
          /\ Exits(i, "succeeded")
       \/ /\ script[i].target # script[i].version
          /\ Exits(i, "rolled back")
          /\ UNCHANGED recorded
    /\ UNCHANGED <<current, base, app, last>>

Busy == {"pull", "create", "copy", "copying", "up", "up done"}

\* The script is killed, or the host goes down, between or during its commands.
Killed(i) ==
    /\ script[i].at \in Busy
    /\ Exits(i, "nothing")
    /\ IF At(i, "up") THEN UpUndone(script[i].target) ELSE UNCHANGED app
    /\ UNCHANGED <<recorded, current, base, last>>

Next ==
    \E i \in Invocations :
        \/ Starts(i) \/ Refused(i) \/ TakesLock(i) \/ NoComposeFile(i)
        \/ Pull(i) \/ CreateContainer(i) \/ CopyBegins(i) \/ CopyEnds(i)
        \/ Repoint(i) \/ Up(i) \/ Record(i) \/ Killed(i)

Spec == Init /\ [][Next]_vars

-----------------------------------------------------------------------------
Events == {"nothing", "succeeded", "rolled back", "rollback skipped", "rollback failed"}

Scripts == [at : Busy \cup {"waiting", "started", "exited"},
            version : Versions \cup {NoVersion}, previous : Versions \cup {NoVersion},
            target : Versions \cup {NoVersion}, vm : Flags, copy : 0..4, rc : 0..1,
            said : Events]

(* The variables keep their shape.                                         *)
TypeOK ==
    /\ script \in [Invocations -> Scripts]
    /\ \A i \in Invocations : script[i].at = "copying" => script[i].copy \in Artifacts
    /\ lock \in Invocations \cup {Nobody} /\ last \in Invocations \cup {Nobody}
    /\ recorded \in Versions \cup {NoVersion} /\ current \in Versions \cup {NoVersion}
    /\ base \in [Versions -> SUBSET Artifacts]
    /\ app \in [version : Versions \cup {NoVersion}, health : {"healthy", "unhealthy"}]

(* When the last deployment said that it succeeded or that it rolled back, *)
(* the host agrees with itself: the version recorded is the one that runs  *)
(* and is healthy and, where VMs are enabled, new sandboxes boot from that *)
(* version's base, whole.  Whatever other invocations were refused, failed *)
(* or were killed before, with files half copied and links moved.          *)
HostAgrees ==
    /\ lock = Nobody
    /\ last # Nobody
    /\ script[last].said \in {"succeeded", "rolled back"}
    => /\ app = [version |-> recorded, health |-> "healthy"]
       /\ script[last].vm = "true" => current = recorded /\ base[recorded] = Artifacts

(* The inductive invariant behind HostAgrees: whoever works has the lock   *)
(* and was the last to take it; it builds on the version recorded, has     *)
(* made the copies it has counted unless it noted a failure, and starts    *)
(* the services only with `current` at the whole base of its target.       *)
LockInv ==
    /\ \A i \in Invocations : /\ script[i].at \in Busy <=> lock = i
                              /\ script[i].at = "started" => script[i].version \in Versions
    /\ lock # Nobody => last = lock
    /\ last # Nobody => script[last].at \in Busy \cup {"exited"}

Works(s) ==
    /\ s.version \in Versions
    /\ s.target \in Versions
    /\ s.previous = recorded
    /\ s.target \in {s.version, s.previous}
    /\ s.at \in {"copy", "copying"} =>
          /\ s.copy >= 1
          /\ s.rc = 0 => \A a \in Artifacts : a < s.copy => a \in base[s.target]
    /\ s.at \in {"up", "up done"} /\ s.vm = "true" => current = s.target /\ base[s.target] = Artifacts
    /\ s.at = "up done" => app = [version |-> s.target, health |-> "healthy"]

HostInv ==
    /\ LockInv
    /\ lock # Nobody => Works(script[lock])
    /\ HostAgrees
=============================================================================
