----------------------------- MODULE RunExecution -----------------------------
(***************************************************************************)
(* One run executed in a VM sandbox: WorkflowExecutionService.processTask, *)
(* VmSandboxService with the host processes and files behind it, the guest *)
(* that runs lifecycle.sh and the driver, and the driver token store.      *)
(*                                                                         *)
(* BullMQ may deliver the run again, after a crash or while an attempt     *)
(* that lost its lock goes on: every attempt has a sandbox of its own, but *)
(* all use the run's one temporary directory and its one token entry.      *)
(*                                                                         *)
(* A step is what JavaScript runs between two awaits that do I/O.          *)
(***************************************************************************)
EXTENDS Naturals, FiniteSets

CONSTANTS
    Attempts,    \* deliveries of the run (a bound on them)
    Faults,      \* subset of {"crash", "signal", "stall"}
    NoAttempt

ASSUME NoAttemptAssumption == NoAttempt \notin Attempts

VARIABLES
    server,      \* "up", "stopping" (stopAllSandboxes), "exited", "crashed"
    at,          \* where processTask of an attempt is
    outcome,     \* what its wait reported
    known,       \* VmSandboxService.knownSandboxes
    waiting,     \* waits on the exit event of a VMM, those given up included
    stops,       \* stopSandbox calls that are under way
    token,       \* the attempt whose token the store holds for the run
    vm,          \* the VMM process and the guest in it
    virtiofsd,   \* attempts whose virtiofsd runs
    clone,       \* attempts whose rootfs clone, sockets and console log exist
    setup,       \* the shared directory: vm-mount-setup.sh is there,
    lifecycle,   \* lifecycle.sh is there,
    exitFile,    \* the exit code file, "none" without one
    finished     \* attempts whose own agent finished with exit code 0

memory == <<server, at, outcome, known, waiting, stops, token>>
host   == <<vm, virtiofsd, clone>>
dir    == <<setup, lifecycle, exitFile>>
vars   == <<memory, host, dir, finished>>

Creating == {"virtiofsd", "clone", "spawn"}
Alive    == {"spawned", "booted", "running", "written", "hung"}
Over     == {"ended", "lost"}

Init ==
    /\ server = "up"
    /\ at = [a \in Attempts |-> "new"]
    /\ outcome = [a \in Attempts |-> "none"]
    /\ known = {} /\ waiting = {} /\ stops = {} /\ token = NoAttempt
    /\ vm = [a \in Attempts |-> "none"]
    /\ virtiofsd = {} /\ clone = {}
    /\ setup = FALSE /\ lifecycle = FALSE /\ exitFile = "none"
    /\ finished = {}

-----------------------------------------------------------------------------
\* releaseSandboxResources: the files of the shared directory go whoever wrote them.
Release(a) ==
    /\ virtiofsd' = virtiofsd \ {a}
    /\ clone' = clone \ {a}
    /\ setup' = FALSE /\ lifecycle' = FALSE /\ exitFile' = "none"

Goto(a, pc) == at' = [at EXCEPT ![a] = pc]

\* The process is gone with its memory; attempts under way are lost.
Forget ==
    /\ at' = [a \in Attempts |-> IF at[a] \in {"new", "ended"} THEN at[a] ELSE "lost"]
    /\ known' = {} /\ waiting' = {} /\ stops' = {} /\ token' = NoAttempt

-----------------------------------------------------------------------------
\* BullMQ delivers the run: once, again if the process died, again if a lock was lost.
Begin(a) ==
    /\ server = "up" /\ at[a] = "new"
    /\ \A b \in Attempts \ {a} :
          at[b] \in {"new", "lost"} \/ ("stall" \in Faults /\ at[b] # "ended")
    /\ Goto(a, "prepare")
    /\ UNCHANGED <<server, outcome, known, waiting, stops, token, host, dir, finished>>

\* prepare up to createNewSandbox: secret, checkout, endpoints, harness and credentials may be
\* refused; then lifecycle.sh is copied into the shared directory.
Prepare(a) ==
    /\ at[a] = "prepare"
    /\ \/ /\ Goto(a, "ended")
          /\ UNCHANGED lifecycle
       \/ /\ Goto(a, "virtiofsd")
          /\ lifecycle' = TRUE
    /\ UNCHANGED <<server, outcome, known, waiting, stops, token, host, setup, exitFile, finished>>

\* createNewSandbox fails: its partial resources are released and the error thrown.
CreateFails(a) ==
    /\ at[a] \in Creating
    /\ Release(a)
    /\ Goto(a, "ended")
    /\ UNCHANGED <<server, outcome, known, waiting, stops, token, vm, finished>>

StartVirtiofsd(a) ==
    /\ at[a] = "virtiofsd"
    /\ virtiofsd' = virtiofsd \cup {a}
    /\ setup' = TRUE
    /\ Goto(a, "clone")
    /\ UNCHANGED <<server, outcome, known, waiting, stops, token, vm, clone, lifecycle,
                   exitFile, finished>>

CloneRootfs(a) ==
    /\ at[a] = "clone"
    /\ clone' = clone \cup {a}
    /\ Goto(a, "spawn")
    /\ UNCHANGED <<server, outcome, known, waiting, stops, token, vm, virtiofsd, dir, finished>>

\* Mutant: the token is not stored.
StartVmmWithoutToken(a) ==
    /\ at[a] = "spawn"
    /\ vm' = [vm EXCEPT ![a] = "spawned"]
    /\ known' = known \cup {a}
    /\ Goto(a, "boot")
    /\ UNCHANGED <<server, outcome, waiting, stops, token, virtiofsd, clone, dir, finished>>

\* The VMM is spawned, the sandbox registered, the token stored, and startSandbox awaits bootVm.
StartVmm(a) ==
    /\ at[a] = "spawn"
    /\ vm' = [vm EXCEPT ![a] = "spawned"]
    /\ known' = known \cup {a}
    /\ token' = a
    /\ Goto(a, "boot")
    /\ UNCHANGED <<server, outcome, waiting, stops, virtiofsd, clone, dir, finished>>

\* stopSandbox is called: it returns at once for a sandbox that is not known.
Stop(a, by, ids) == stops' = stops \cup {[of |-> b, by |-> by, pc |-> "request"] : b \in ids}

\* bootVm and the checks of waitForSandboxToFinish: the sandbox may have been stopped meanwhile,
\* and its VMM may have exited already.
BootVm(a) ==
    /\ at[a] = "boot"
    /\ \/ /\ a \in known /\ vm[a] \in Alive
          /\ vm' = [vm EXCEPT ![a] = IF @ = "spawned" THEN "booted" ELSE @]
          /\ waiting' = waiting \cup {a}
          /\ Goto(a, "wait")
          /\ UNCHANGED <<known, stops, virtiofsd, clone, dir>>
       \/ /\ Goto(a, "stop")                           \* boot-failed or container-not-found
          /\ Stop(a, "attempt", known \cap {a})
          /\ UNCHANGED <<known, waiting, host, dir>>
       \/ /\ a \in known /\ vm[a] \notin Alive         \* container-not-running
          /\ Release(a)
          /\ known' = known \ {a}
          /\ Goto(a, "stop")
          /\ UNCHANGED <<waiting, stops, vm>>
    /\ UNCHANGED <<server, outcome, token, finished>>

\* The one-hour timeout fires first: the wait goes on, but nobody listens to it.
Timeout(a) ==
    /\ at[a] = "wait"
    /\ outcome' = [outcome EXCEPT ![a] = "timeout"]
    /\ Goto(a, "stop")
    /\ Stop(a, "attempt", known \cap {a})
    /\ UNCHANGED <<server, known, waiting, token, host, dir, finished>>

\* Mutant: the guest's exit code is not looked at.
ReportedByVmm == "completed"

\* readGuestExitCode: the file decides, a missing one is an error.
Reported == IF exitFile = "zero" THEN "completed" ELSE "error"

\* The VMM exits, and its exit event runs the wait that listens, if any: read, release, report.
VmmExits(a) ==
    /\ vm[a] \in Alive \cup {"killed"}
    /\ vm' = [vm EXCEPT ![a] = "exited"]
    /\ \/ /\ a \in waiting
          /\ waiting' = waiting \ {a}
          /\ Release(a)
          /\ known' = known \ {a}
          /\ \/ /\ at[a] = "wait"
                /\ outcome' = [outcome EXCEPT ![a] = Reported]
                /\ Goto(a, IF Reported = "completed" THEN "publish" ELSE "finally")
             \/ /\ at[a] # "wait"
                /\ UNCHANGED <<outcome, at>>
       \/ /\ a \notin waiting
          /\ UNCHANGED <<waiting, virtiofsd, clone, dir, known, outcome, at>>
    /\ UNCHANGED <<server, stops, token, finished>>

\* onTaskCompleted and completeTask, done or failed.
Publish(a) ==
    /\ at[a] = "publish"
    /\ Goto(a, "finally")
    /\ UNCHANGED <<server, outcome, known, waiting, stops, token, host, dir, finished>>

\* The finally block has stopped the sandbox where that was called for.
Stopped(a) ==
    /\ at[a] = "stop"
    /\ \A x \in stops : ~(x.of = a /\ x.by = "attempt")
    /\ Goto(a, "finally")
    /\ UNCHANGED <<server, outcome, known, waiting, stops, token, host, dir, finished>>

\* Mutant: an attempt that did not complete keeps its token.
ClearTokenOnSuccess(a) ==
    /\ at[a] = "finally"
    /\ token' = IF outcome[a] = "completed" THEN NoAttempt ELSE token
    /\ Goto(a, "ended")
    /\ UNCHANGED <<server, outcome, known, waiting, stops, host, dir, finished>>

\* clearToken drops the entry of the run, whichever attempt stored it.
ClearToken(a) ==
    /\ at[a] = "finally"
    /\ token' = NoAttempt
    /\ Goto(a, "ended")
    /\ UNCHANGED <<server, outcome, known, waiting, stops, host, dir, finished>>

-----------------------------------------------------------------------------
\* stopSandbox: a bounded shutdown request, a bounded wait for the exit, SIGKILL, release.
StopRequested(x) ==
    /\ x \in stops /\ x.pc = "request"
    /\ stops' = (stops \ {x}) \cup {[x EXCEPT !.pc = "grace"]}
    /\ UNCHANGED <<server, at, outcome, known, waiting, token, host, dir, finished>>

\* Mutants: no force-kill: it is released all the same, or waited for without a limit.
StopEndsGently(x) ==
    /\ x \in stops /\ x.pc = "grace"
    /\ Release(x.of)
    /\ known' = known \ {x.of}
    /\ stops' = stops \ {x}
    /\ UNCHANGED <<server, at, outcome, waiting, token, vm, finished>>

StopEndsOnExit(x) ==
    /\ x \in stops /\ x.pc = "grace"
    /\ vm[x.of] \notin Alive
    /\ Release(x.of)
    /\ known' = known \ {x.of}
    /\ stops' = stops \ {x}
    /\ UNCHANGED <<server, at, outcome, waiting, token, vm, finished>>

StopEnds(x) ==
    /\ x \in stops /\ x.pc = "grace"
    /\ vm' = [vm EXCEPT ![x.of] = IF @ \in Alive THEN "killed" ELSE @]
    /\ Release(x.of)
    /\ known' = known \ {x.of}
    /\ stops' = stops \ {x}
    /\ UNCHANGED <<server, at, outcome, waiting, token, finished>>

-----------------------------------------------------------------------------
\* vfkit boots the guest when it is spawned, before bootVm.
BootsAtSpawn(a) ==
    /\ vm[a] = "spawned"
    /\ vm' = [vm EXCEPT ![a] = "booted"]
    /\ UNCHANGED <<memory, virtiofsd, clone, dir, finished>>

\* vm-init.sh executes the setup script, which runs lifecycle.sh.  Without the one, PID 1 exits
\* and the kernel panics; without the other, the exit code is 127.
GuestStarts(a) ==
    /\ vm[a] = "booted"
    /\ \/ /\ setup /\ lifecycle
          /\ vm' = [vm EXCEPT ![a] = "running"]
          /\ UNCHANGED exitFile
       \/ /\ setup /\ ~lifecycle
          /\ vm' = [vm EXCEPT ![a] = "written"]
          /\ exitFile' = "nonzero"
       \/ /\ ~setup
          /\ vm' = [vm EXCEPT ![a] = "hung"]
          /\ UNCHANGED exitFile
    /\ UNCHANGED <<memory, virtiofsd, clone, setup, lifecycle, finished>>

\* The driver ends with the exit code of the agent, which the guest records.
GuestRecords(a) ==
    /\ vm[a] = "running"
    /\ vm' = [vm EXCEPT ![a] = "written"]
    /\ \/ /\ exitFile' = "zero"
          /\ finished' = finished \cup {a}
       \/ /\ exitFile' = "nonzero"
          /\ UNCHANGED finished
    /\ UNCHANGED <<memory, virtiofsd, clone, setup, lifecycle>>

-----------------------------------------------------------------------------
\* A signal: the processor is shut down, then stopAllSandboxes stops those known at that time.
Signal ==
    /\ "signal" \in Faults /\ server = "up"
    /\ server' = "stopping"
    /\ stops' = stops \cup {[of |-> a, by |-> "shutdown", pc |-> "request"] : a \in known}
    /\ UNCHANGED <<at, outcome, known, waiting, token, host, dir, finished>>

\* process.exit(0) leaves the child processes alone.
Exit ==
    /\ server = "stopping"
    /\ \A x \in stops : x.by # "shutdown"
    /\ server' = "exited"
    /\ Forget
    /\ UNCHANGED <<outcome, host, dir, finished>>

\* A crash takes the children along (a container) or leaves them running (a bare host).
Crash ==
    /\ "crash" \in Faults /\ server = "up"
    /\ server' = "crashed"
    /\ Forget
    /\ \/ UNCHANGED <<vm, virtiofsd>>
       \/ /\ vm' = [a \in Attempts |-> IF vm[a] \in Alive THEN "exited" ELSE vm[a]]
          /\ virtiofsd' = {}
    /\ UNCHANGED <<outcome, clone, dir, finished>>

Restart ==
    /\ server = "crashed"
    /\ server' = "up"
    /\ UNCHANGED <<at, outcome, known, waiting, stops, token, host, dir, finished>>

-----------------------------------------------------------------------------
Attempt(a) ==
    \/ Prepare(a) \/ StartVirtiofsd(a) \/ CloneRootfs(a) \/ StartVmm(a) \/ CreateFails(a)
    \/ BootVm(a) \/ Timeout(a) \/ Publish(a) \/ Stopped(a) \/ ClearToken(a)

Stopping(by) == \E x \in stops : x.by = by /\ (StopRequested(x) \/ StopEnds(x))

Guest(a) == BootsAtSpawn(a) \/ GuestStarts(a) \/ GuestRecords(a)

Next ==
    \/ \E a \in Attempts : Begin(a) \/ Attempt(a) \/ Guest(a) \/ VmmExits(a)
    \/ Stopping("attempt") \/ Stopping("shutdown")
    \/ Signal \/ Exit \/ Crash \/ Restart

Spec == Init /\ [][Next]_vars

\* The server's own steps are fair: its timers fire, its requests are bounded, and git, copies
\* and pushes return.  No guest and no VMM owes it anything.
Fairness ==
    /\ \A a \in Attempts : WF_vars(Attempt(a))
    /\ WF_vars(Stopping("attempt")) /\ WF_vars(Stopping("shutdown"))
    /\ WF_vars(Exit)

FairSpec == Spec /\ Fairness

-----------------------------------------------------------------------------
Pc == {"new", "prepare", "boot", "wait", "publish", "stop", "finally"} \cup Creating \cup Over

\* Every variable keeps its shape.
TypeOK ==
    /\ server \in {"up", "stopping", "exited", "crashed"}
    /\ at \in [Attempts -> Pc]
    /\ outcome \in [Attempts -> {"none", "completed", "error", "timeout"}]
    /\ known \in SUBSET Attempts /\ waiting \in SUBSET Attempts
    /\ stops \in SUBSET [of : Attempts, by : {"attempt", "shutdown"}, pc : {"request", "grace"}]
    /\ token \in Attempts \cup {NoAttempt}
    /\ vm \in [Attempts -> Alive \cup {"none", "killed", "exited"}]
    /\ virtiofsd \in SUBSET Attempts /\ clone \in SUBSET Attempts
    /\ setup \in BOOLEAN /\ lifecycle \in BOOLEAN
    /\ exitFile \in {"none", "zero", "nonzero"}
    /\ finished \in SUBSET Attempts

\* An attempt that is over has left no sandbox behind, and of a sandbox the service no longer knows
\* nothing is left on the host, whichever of the wait, the timeout's stop, the shutdown's stop and a
\* failed creation came first, and also for two attempts at once (releaseSandboxResources: "so
\* neither path leaks").  What a process that died had is another matter.
Clean(a) == a \notin virtiofsd /\ a \notin clone /\ vm[a] \notin Alive

NothingLeaks ==
    \A a \in Attempts :
        /\ at[a] = "ended" => a \notin known
        /\ a \notin known /\ at[a] \notin Creating \cup {"lost"} => Clean(a)

\* Its inductive strengthening: before its VMM is spawned an attempt has none, only an attempt that
\* boots, waits or stops has a registered sandbox, and one that stops it has a stop under way.
LeakInv ==
    /\ NothingLeaks
    /\ \A a \in Attempts :
        /\ at[a] \in {"new", "prepare"} \cup Creating => vm[a] = "none"
        /\ a \in known => at[a] \in {"boot", "wait", "stop"}
        /\ a \in known /\ at[a] = "stop" => \E x \in stops : x.of = a /\ x.by = "attempt"

\* Of a run delivered once the result of the wait is the agent's own: "completed" only if the
\* agent finished with exit code 0, "error" only if it did not or a shutdown cut it short.
OnlyDelivery(a) == \A b \in Attempts \ {a} : at[b] = "new"

OutcomeIsTheAgents ==
    \A a \in Attempts : OnlyDelivery(a) =>
        /\ outcome[a] = "completed" => a \in finished
        /\ outcome[a] = "error" /\ server = "up" => a \notin finished

\* Its inductive strengthening: an agent that finished has recorded it, and while its attempt waits
\* nobody deletes the file, unless the server is stopping.
OutcomeInv ==
    /\ \A x \in stops : IF x.by = "attempt" THEN at[x.of] = "stop" ELSE server = "stopping"
    /\ server \in {"exited", "crashed"} => \A a \in Attempts : at[a] \in {"new"} \cup Over
    /\ \A a \in Attempts :
        /\ a \in finished => vm[a] \in {"written", "killed", "exited"}
        /\ outcome[a] = "error" => vm[a] = "exited"
        /\ a \in waiting => at[a] \in {"wait", "publish", "stop", "finally", "ended"}
        /\ OnlyDelivery(a) =>
              /\ exitFile = "zero" => a \in finished
              /\ at[a] \in {"boot", "wait"} /\ a \in finished /\ server = "up" => exitFile = "zero"
              /\ outcome[a] = "completed" => a \in finished
              /\ outcome[a] = "error" /\ server \in {"up", "crashed"} => a \notin finished

\* The first half for every delivery, as VmSandboxService.ts:683-684 puts it: a guest that recorded
\* nothing "did not finish normally (crash, kill, or panic), which we treat as an error".
CompletedMeansFinished ==
    \A a \in Attempts : outcome[a] = "completed" => a \in finished

\* A guest that runs under an attempt that waits for it is not refused by the driver API, unless
\* a second attempt goes on in the same process.
DriverAuthenticated ==
    \A a \in Attempts :
        /\ at[a] \in {"boot", "wait"} /\ vm[a] \in Alive
        /\ \A b \in Attempts \ {a} : at[b] \in {"new", "lost"}
        => token = a

\* Whatever its guest does, an attempt alone in the process has its token stored while it waits.
TokenInv ==
    \A a \in Attempts :
        at[a] \in {"boot", "wait"} /\ (\A b \in Attempts \ {a} : at[b] \in {"new", "lost"}) => token = a

\* The store holds no token of an attempt that is over, whichever way it ended.
TokenCleared ==
    token # NoAttempt => at[token] \in {"boot", "wait", "publish", "stop", "finally"}

\* "Tear down all running sandboxes - both Docker containers and VM processes" (index.ts:36): once
\* the process has exited on a signal no VM is left.
ShutdownLeavesNoVm == server = "exited" => \A a \in Attempts : vm[a] \notin Alive

\* An attempt ends whatever its guest and its VMM do, also when several stops meet.
EveryAttemptEnds == \A a \in Attempts : at[a] = "prepare" ~> at[a] \in Over
=============================================================================
