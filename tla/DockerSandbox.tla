----------------------------- MODULE DockerSandbox -----------------------------
(***************************************************************************)
(* The Docker sandbox service and processTask on it: the sandbox network   *)
(* that is looked up once per process, containers that are created,        *)
(* started, waited for, stopped and removed by several parties, errors of  *)
(* the Docker daemon at every request, the shutdown and the death of the   *)
(* server.  What runs inside a container is HarnessDriver.                 *)
(***************************************************************************)
EXTENDS HarnessDriver

VARIABLES
    up,          \* the server: "up", "closing" or "down"
    network,     \* whether the sandbox network exists
    memo,        \* sandboxNetworkReady: "unset", "listing", "creating", "ready" or "failed"
    at,          \* where processTask is, per attempt
    container,   \* "none", "created", "running", "exited" or "removed"
    known,       \* knownSandboxes
    abandoned,   \* attempts whose wait lost against the timeout and goes on
    stop,        \* calls of stopSandbox, by processTask ("run") and stopAllSandboxes ("all")
    verdict,     \* what processTask returned
    spoilt       \* history: attempts that met an error of Docker or the death of the server

service == <<up, network, memo>>
box     == <<container, known>>
task    == <<at, verdict>>
vars    == <<inside, tokens, faults, service, box, task, abandoned, stop, spoilt>>

Callers == {"run", "all"}
Places  == {"idle", "network", "inspect", "start", "wait", "waiting", "removing", "publish",
            "stopping", "over"}

Init ==
    /\ DriverInit
    /\ up = "up" /\ network \in BOOLEAN /\ memo = "unset"
    /\ at = [a \in Attempts |-> "idle"] /\ container = [a \in Attempts |-> "none"]
    /\ known = {} /\ abandoned = {} /\ spoilt = {}
    /\ stop = [w \in Callers |-> [a \in Attempts |-> "none"]]
    /\ verdict = [a \in Attempts |-> "none"]

Goto(a, p) == at' = [at EXCEPT ![a] = p]
Becomes(a, c) == container' = [container EXCEPT ![a] = c]

\* The run is over with verdict v; its finally block has no sandbox to stop, or has stopped it.
Returns(a, v) ==
    /\ Goto(a, "over")
    /\ verdict' = [verdict EXCEPT ![a] = v]
    /\ tokens' = tokens \ {a}

\* The failure that processTask returns once its finally block has stopped the sandbox.
Fails(a) ==
    /\ Goto(a, "stopping") /\ verdict' = [verdict EXCEPT ![a] = "failed"]
    /\ stop' = [stop EXCEPT !["run"][a] = "inspect"]

\* Docker rejects a request of this attempt.
Rejects(a) == Fault /\ spoilt' = spoilt \cup {a}

-----------------------------------------------------------------------------
\* createNewSandbox up to its first await; the first call of a process looks for the network.
Begins(a) ==
    /\ up = "up" /\ at[a] = "idle"
    /\ Goto(a, "network")
    /\ memo' = IF memo = "unset" THEN "listing" ELSE memo
    /\ UNCHANGED <<inside, tokens, faults, up, network, box, verdict, abandoned, stop, spoilt>>

ListsNetworks ==
    /\ memo = "listing"
    /\ \/ /\ memo' = IF network THEN "ready" ELSE "creating"
          /\ UNCHANGED faults
       \/ memo' = "failed" /\ Fault
    /\ UNCHANGED <<inside, tokens, up, network, box, task, abandoned, stop, spoilt>>

\* Mutant: the conflict is an error like any other.
CreatesNetworkOrFails ==
    /\ memo = "creating"
    /\ memo' = IF network THEN "failed" ELSE "ready"
    /\ network' = TRUE
    /\ UNCHANGED <<inside, tokens, faults, up, box, task, abandoned, stop, spoilt>>

\* A conflict with another creator (409) counts as success.
CreatesNetwork ==
    /\ memo = "creating"
    /\ \/ memo' = "ready" /\ network' = TRUE /\ UNCHANGED faults
       \/ memo' = "failed" /\ Fault /\ UNCHANGED network
    /\ UNCHANGED <<inside, tokens, up, box, task, abandoned, stop, spoilt>>

\* Another process of the host creates the network.
NetworkAppears ==
    /\ ~network /\ network' = TRUE
    /\ UNCHANGED <<inside, tokens, faults, up, memo, box, task, abandoned, stop, spoilt>>

CreatesContainer(a) ==
    /\ at[a] = "network"
    /\ \/ /\ memo = "ready"
          /\ Becomes(a, "created") /\ known' = known \cup {a}
          /\ Goto(a, "inspect")
          /\ UNCHANGED <<tokens, faults, verdict, spoilt>>
       \/ /\ memo = "failed"
          /\ Returns(a, "failed")
          /\ UNCHANGED <<faults, box, spoilt>>
       \/ /\ memo = "ready" /\ Rejects(a)
          /\ Returns(a, "failed")
          /\ UNCHANGED box
    /\ UNCHANGED <<inside, service, abandoned, stop>>

\* The name of the new container is asked for, then the token is stored; an error here leaves the
\* container behind, because the try block has not begun.
InspectsNew(a) ==
    /\ at[a] = "inspect"
    /\ \/ /\ container[a] # "removed"
          /\ Goto(a, "start") /\ tokens' = tokens \cup {a}
          /\ UNCHANGED <<verdict, faults, spoilt>>
       \/ /\ container[a] = "removed"
          /\ Returns(a, "failed")
          /\ UNCHANGED <<faults, spoilt>>
       \/ Rejects(a) /\ Returns(a, "failed")
    /\ UNCHANGED <<inside, service, box, abandoned, stop>>

\* The container runs lifecycle.sh.
Boots(a) ==
    /\ container[a] = "created"
    /\ Becomes(a, "running") /\ script' = [script EXCEPT ![a] = "setup"]

\* startSandbox: its log stream may fail when the container runs already.
Starts(a) ==
    /\ at[a] = "start"
    /\ \/ /\ a \in known /\ Boots(a)
          /\ Goto(a, "wait")
          /\ UNCHANGED <<faults, verdict, stop, spoilt>>
       \/ /\ a \in known /\ Boots(a)
          /\ Rejects(a) /\ Fails(a)
       \/ /\ a \notin known \/ container[a] # "created"
          /\ Fails(a)
          /\ UNCHANGED <<script, container, faults, spoilt>>
       \/ /\ Rejects(a) /\ Fails(a)
          /\ UNCHANGED <<script, container>>
    /\ UNCHANGED <<output, code, exit, tokens, service, known, abandoned>>

\* waitForSandboxToFinish begins: a container that has ended already counts as a failure.
BeginsWait(a) ==
    /\ at[a] = "wait"
    /\ \/ /\ a \in known /\ container[a] = "running"
          /\ Goto(a, "waiting")
          /\ UNCHANGED <<known, faults, verdict, stop, spoilt>>
       \/ /\ a \notin known \/ container[a] # "running"
          /\ known' = known \ {a}
          /\ Fails(a)
          /\ UNCHANGED <<faults, spoilt>>
       \/ /\ Rejects(a) /\ Fails(a)
          /\ UNCHANGED known
    /\ UNCHANGED <<inside, tokens, service, container, abandoned>>

\* The container has ended, by itself or stopped by the shutdown.
WaitReturns(a) ==
    /\ at[a] = "waiting" /\ container[a] \in {"exited", "removed"}
    /\ known' = known \ {a}
    /\ Goto(a, "removing")
    /\ UNCHANGED <<inside, tokens, faults, service, container, verdict, abandoned, stop, spoilt>>

\* container.remove; when it is rejected, the wait is, and that is taken for a timeout.
Removes(a) ==
    /\ at[a] = "removing"
    /\ \/ /\ container[a] = "exited" /\ Becomes(a, "removed")
          /\ \/ exit[a] = 0 /\ Goto(a, "publish") /\ UNCHANGED <<tokens, verdict>>
             \/ exit[a] # 0 /\ Returns(a, "failed")
          /\ UNCHANGED <<faults, stop, spoilt>>
       \/ /\ container[a] = "removed" /\ Fails(a)
          /\ UNCHANGED <<container, tokens, faults, spoilt>>
       \/ /\ Rejects(a) /\ Fails(a)
          /\ UNCHANGED <<container, tokens>>
    /\ UNCHANGED <<inside, service, known, abandoned>>

\* container.wait reports an error although the container runs: removing it is refused.
WaitBreaks(a) ==
    /\ at[a] = "waiting" /\ container[a] = "running" /\ Rejects(a)
    /\ known' = known \ {a}
    /\ Fails(a)
    /\ UNCHANGED <<inside, tokens, service, container, abandoned>>

\* One hour is over; the wait goes on without anyone to tell.
TimesOut(a) ==
    /\ at[a] \in {"waiting", "removing"}
    /\ Fails(a)
    /\ abandoned' = IF at[a] = "waiting" THEN abandoned \cup {a} ELSE abandoned
    /\ UNCHANGED <<inside, tokens, faults, service, box, spoilt>>

AbandonedWaitReturns(a) ==
    /\ a \in abandoned /\ container[a] \in {"exited", "removed"}
    /\ abandoned' = abandoned \ {a} /\ known' = known \ {a}
    /\ Becomes(a, "removed")
    /\ UNCHANGED <<inside, tokens, faults, service, task, stop, spoilt>>

\* onTaskCompleted and completeTask
Publishes(a) ==
    /\ at[a] = "publish"
    /\ \E v \in {"completed", "failed"} : Returns(a, v)
    /\ UNCHANGED <<inside, faults, service, box, abandoned, stop, spoilt>>

-----------------------------------------------------------------------------
Stopping(w, a, p) == stop[w][a] = p

\* The finally block ends with the call of stopSandbox; stopAllSandboxes only waits for its own.
StopReturns(w, a) ==
    \/ (w = "run" /\ Goto(a, "over") /\ tokens' = tokens \ {a} /\ UNCHANGED verdict)
    \/ (w = "all" /\ UNCHANGED <<task, tokens>>)

\* stopSandbox inspects the container and runs teardown.sh in it, for 65 seconds at most.
StopInspects(w, a) ==
    /\ Stopping(w, a, "inspect")
    /\ \/ /\ stop' = [stop EXCEPT ![w][a] = IF container[a] = "running" THEN "halt" ELSE "remove"]
          /\ UNCHANGED <<faults, spoilt>>
       \/ stop' = [stop EXCEPT ![w][a] = "remove"] /\ Rejects(a)
    /\ UNCHANGED <<inside, tokens, service, box, task, abandoned>>

\* container.stop: SIGTERM, and SIGKILL after ten seconds.
StopHalts(w, a) ==
    /\ Stopping(w, a, "halt")
    /\ stop' = [stop EXCEPT ![w][a] = "remove"]
    /\ \/ /\ container[a] = "running"
          /\ Becomes(a, "exited")
          /\ exit' = [exit EXCEPT ![a] = 1] /\ script' = [script EXCEPT ![a] = "off"]
          /\ UNCHANGED <<faults, spoilt>>
       \/ container[a] # "running" /\ UNCHANGED <<container, exit, script, faults, spoilt>>
       \/ Rejects(a) /\ UNCHANGED <<container, exit, script>>
    /\ UNCHANGED <<output, code, tokens, service, known, task, abandoned>>

\* Mutant: only a container that was running is removed.
StopForgets(w, a) ==
    /\ Stopping(w, a, "remove")
    /\ stop' = [stop EXCEPT ![w][a] = "none"]
    /\ known' = known \ {a}
    /\ StopReturns(w, a)
    /\ UNCHANGED <<inside, container, faults, service, abandoned, spoilt>>

\* container.remove is refused for a running container; the sandbox is forgotten all the same.
StopRemoves(w, a) ==
    /\ Stopping(w, a, "remove")
    /\ stop' = [stop EXCEPT ![w][a] = "none"]
    /\ known' = known \ {a}
    /\ \/ /\ container[a] \in {"created", "exited", "removed"} /\ Becomes(a, "removed")
          /\ UNCHANGED <<faults, spoilt>>
       \/ container[a] = "running" /\ UNCHANGED <<container, faults, spoilt>>
       \/ Rejects(a) /\ UNCHANGED container
    /\ StopReturns(w, a)
    /\ UNCHANGED <<inside, service, abandoned>>

-----------------------------------------------------------------------------
\* A container ends with its script, whether a server watches it or not.
Ends(a) ==
    /\ container[a] = "running" /\ script[a] = "off"
    /\ Becomes(a, "exited")
    /\ UNCHANGED <<inside, tokens, faults, service, known, task, abandoned, stop, spoilt>>

\* The process is gone: promises, sets and tokens with it; containers stay.
Dies ==
    /\ memo' = "unset" /\ known' = {} /\ abandoned' = {} /\ tokens' = {}
    /\ at' = [a \in Attempts |-> IF at[a] = "idle" THEN "idle" ELSE "over"]
    /\ stop' = [w \in Callers |-> [a \in Attempts |-> "none"]]
    /\ UNCHANGED <<inside, network, container, verdict>>

\* The server dies, and its container's restart policy starts another.
Crashes ==
    /\ up # "down" /\ Fault /\ Dies
    /\ up' = "up"
    /\ spoilt' = spoilt \cup {a \in Attempts : at[a] # "idle"}

\* SIGTERM: stopAllSandboxes takes the sandboxes that are known now.  It overtakes those that are not
\* started yet (one may start after it was found to need no stop) and those that are being stopped or
\* removed, for whose end nothing waits.
Signal ==
    /\ up = "up" /\ Fault
    /\ up' = "closing"
    /\ stop' = [stop EXCEPT !["all"] = [a \in Attempts |-> IF a \in known THEN "inspect" ELSE "none"]]
    /\ spoilt' = spoilt \cup {a \in Attempts : at[a] \notin {"idle", "wait", "waiting", "publish", "over"}}
    /\ UNCHANGED <<inside, tokens, network, memo, box, task, abandoned>>

Exit ==
    /\ up = "closing" /\ \A a \in Attempts : stop["all"][a] = "none"
    /\ up' = "down" /\ Dies
    /\ UNCHANGED <<faults, spoilt>>

-----------------------------------------------------------------------------
ServiceStep(a) ==
    \/ CreatesContainer(a) \/ InspectsNew(a) \/ Starts(a) \/ BeginsWait(a) \/ WaitReturns(a)
    \/ Removes(a) \/ TimesOut(a) \/ AbandonedWaitReturns(a) \/ Publishes(a)
    \/ \E w \in Callers : StopInspects(w, a) \/ StopHalts(w, a) \/ StopRemoves(w, a)

Inside(a) ==
    /\ container[a] = "running"
    /\ UNCHANGED <<service, box, task, abandoned, stop, spoilt>>

Next ==
    \/ ListsNetworks \/ CreatesNetwork \/ NetworkAppears \/ Crashes \/ Signal \/ Exit
    \/ \E a \in Attempts :
          \/ Begins(a) \/ WaitBreaks(a) \/ ServiceStep(a) \/ Ends(a)
          \/ ((InsideStep(a) \/ AgentStep(a)) /\ Inside(a))

Spec == Init /\ [][Next]_vars

-----------------------------------------------------------------------------
\* The types; and processTask is in its finally block exactly while its call of stopSandbox runs.
TypeOK ==
    /\ DriverTypeOK
    /\ up \in {"up", "closing", "down"} /\ network \in BOOLEAN
    /\ memo \in {"unset", "listing", "creating", "ready", "failed"}
    /\ at \in [Attempts -> Places]
    /\ container \in [Attempts -> {"none", "created", "running", "exited", "removed"}]
    /\ known \in SUBSET Attempts /\ abandoned \in SUBSET Attempts /\ spoilt \in SUBSET Attempts
    /\ verdict \in [Attempts -> {"none", "completed", "failed"}]
    /\ stop \in [Callers -> [Attempts -> {"none", "inspect", "halt", "remove"}]]
    /\ \A a \in Attempts : at[a] = "stopping" <=> stop["run"][a] # "none"

\* No container is left of an attempt that is over, whoever stopped, removed or abandoned it, unless
\* Docker rejected one of its requests or the server died under it: also the shutdown stops all it
\* finds, save those it overtakes at their creation or removal.
NothingLeft ==
    \A a \in Attempts : at[a] = "over" => container[a] \in {"none", "removed"} \/ a \in spoilt

\* What NothingLeft rests on.  What an attempt has made shows in its place;
PlaceInv ==
    \A a \in Attempts :
        /\ at[a] \in {"idle", "network"} => container[a] = "none"
        /\ at[a] = "publish" => container[a] = "removed" /\ exit[a] = 0
        /\ at[a] \notin {"stopping", "over"} => verdict[a] = "none"
        /\ a \in abandoned => at[a] \in {"stopping", "over"}
        /\ up = "up" /\ at[a] \in {"inspect", "start", "wait", "waiting"} => a \in known

\* a stop that is about to remove a container has seen it end, and none starts any more;
Halted(a) ==
    /\ stop["all"][a] # "none" => up = "closing"
    /\ stop["run"][a] = "remove" /\ a \notin spoilt => container[a] # "running"
    /\ up = "closing" /\ a \notin spoilt =>
          /\ at[a] \notin {"network", "inspect", "start"}
          /\ stop["all"][a] = "remove" => container[a] # "running"
          /\ stop["all"][a] = "none" => container[a] \in {"none", "removed"}

StopInv ==
    \A a \in Attempts : Halted(a) /\ (up = "down" => at[a] \in {"idle", "over"})

\* and a container that reports success has an agent that finished, once.
ExitInv ==
    \A a \in Attempts :
        /\ container[a] \in {"none", "created"} =>
              script[a] = "off" /\ code[a] = NoCode /\ exit[a] = NoCode /\ a \notin announced
        /\ script[a] # "off" => exit[a] = NoCode
        /\ script[a] \in {"setup", "harness"} => code[a] = NoCode
        /\ exit[a] = 0 => code[a] = 0

\* The lookup of the network fails only if Docker does, not when another process was faster.
NetworkSound ==
    /\ memo = "ready" => network
    /\ memo = "failed" => faults > 0

\* The sandboxes of the contract are the containers, and an agent finishes with its harness.
Shown(c) ==
    CASE c = "none" -> "absent" [] c = "created" -> "ready" [] c = "running" -> "running"
      [] c = "exited" -> "ended" [] c = "removed" -> "gone"

Result(c) == CASE c = NoCode -> "none" [] c = 0 -> "ok" [] c = 1 -> "bad"

sandbox == [a \in Attempts |-> Shown(container[a])]
finish  == [a \in Attempts |-> Result(code[a])]

Contract == INSTANCE SandboxContract WITH box <- sandbox, agent <- finish

ImplementsContract == Contract!Spec
=============================================================================
