----------------------------- MODULE HarnessDriver -----------------------------
(***************************************************************************)
(* What runs inside a sandbox: lifecycle.sh, the driver it starts, and the *)
(* harness that the driver runs and whose output it forwards to the driver *)
(* API of the server.  DockerSandbox composes it with the containers.      *)
(***************************************************************************)
EXTENDS Naturals

CONSTANTS
    Attempts,    \* attempts at runs, each of another run
    MaxChunks,   \* bound on the chunks of output of a harness, per attempt
    MaxFaults,   \* bound on the faults of the network, of Docker, of the server and of drivers
    NoCode

ASSUME DriverAssumption ==
    /\ MaxChunks \in [Attempts -> Nat] /\ MaxFaults \in Nat
    /\ NoCode \notin {0, 1}

VARIABLES
    script,      \* where lifecycle.sh or its driver is, per attempt
    chunks,      \* chunks of output the harness has written
    flight,      \* sends under way: pendingLogSends
    logged,      \* chunks the server has logged
    lost,        \* history: chunks whose send failed or was refused
    announced,   \* attempts of which the server has logged harness-exited
    code,        \* exit code of the harness: 0, or 1 for any other
    exit,        \* exit code of the container, NoCode while it runs
    tokens,      \* DriverRunTokenStore: attempts whose token is stored
    faults

output == <<chunks, flight, logged, lost, announced>>
inside == <<script, output, code, exit>>

Live == {"setup", "harness", "drain", "exiting", "teardown", "died"}

DriverInit ==
    /\ script = [a \in Attempts |-> "off"]
    /\ chunks = [a \in Attempts |-> 0]
    /\ flight = [a \in Attempts |-> {}]
    /\ logged = [a \in Attempts |-> {}]
    /\ lost = [a \in Attempts |-> {}]
    /\ announced = {}
    /\ code = [a \in Attempts |-> NoCode]
    /\ exit = [a \in Attempts |-> NoCode]
    /\ tokens = {} /\ faults = 0

Step(a, from, to) == script[a] = from /\ script' = [script EXCEPT ![a] = to]

Fault == faults < MaxFaults /\ faults' = faults + 1

\* The script exits with e, and its container with it.
Exits(a, from, e) ==
    /\ Step(a, from, "off")
    /\ exit' = [exit EXCEPT ![a] = e]

-----------------------------------------------------------------------------
\* setup.sh, harness-setup.sh under `set -e`, the checks of the environment; and the driver's event
\* harness-starting, which changes nothing whatever becomes of it.
SetsUp(a) ==
    /\ \/ Step(a, "setup", "harness") /\ UNCHANGED exit
       \/ Exits(a, "setup", 1)
    /\ UNCHANGED <<output, code, tokens, faults>>

\* forwardStream does not wait for one send before the next.
HarnessWrites(a) ==
    /\ script[a] \in {"harness", "drain"} /\ chunks[a] < MaxChunks[a]
    /\ chunks' = [chunks EXCEPT ![a] = @ + 1]
    /\ flight' = [flight EXCEPT ![a] = @ \cup {chunks[a] + 1}]
    /\ UNCHANGED <<script, logged, lost, announced, code, exit, tokens, faults>>

\* A send is answered, in any order, or fails.
SendReturns(a, k) ==
    /\ script[a] \in Live /\ k \in flight[a]
    /\ flight' = [flight EXCEPT ![a] = @ \ {k}]
    /\ \/ /\ a \in tokens
          /\ logged' = [logged EXCEPT ![a] = @ \cup {k}]
          /\ UNCHANGED <<lost, faults>>
       \/ /\ lost' = [lost EXCEPT ![a] = @ \cup {k}]
          /\ UNCHANGED logged
          /\ (a \notin tokens /\ UNCHANGED faults) \/ Fault
    /\ UNCHANGED <<script, chunks, announced, code, exit, tokens>>

\* executeHarnessCommand resolves at the exit of the harness; its pipes may still hold output.
HarnessExits(a, c) ==
    /\ Step(a, "harness", "drain")
    /\ code' = [code EXCEPT ![a] = c]
    /\ UNCHANGED <<output, exit, tokens, faults>>

\* Mutant: the pending sends are not awaited.
DrainsAtOnce(a) ==
    /\ Step(a, "drain", "exiting")
    /\ UNCHANGED <<output, code, exit, tokens, faults>>

\* Both streams have ended, and then every pending send has.
Drains(a) ==
    /\ flight[a] = {}
    /\ Step(a, "drain", "exiting")
    /\ UNCHANGED <<output, code, exit, tokens, faults>>

\* getAuthenticatedRun: the server logs an event whose token it knows; the driver ignores refusals
\* and failed requests.
ReportsExit(a) ==
    /\ Step(a, "exiting", "teardown")
    /\ \/ a \in tokens /\ announced' = announced \cup {a} /\ UNCHANGED faults
       \/ a \notin tokens /\ UNCHANGED <<announced, faults>>
       \/ Fault /\ UNCHANGED announced
    /\ UNCHANGED <<chunks, flight, logged, lost, code, exit, tokens>>

\* Mutant: the script ends with the result of its last command.
TearsDownAsLast(a) ==
    /\ Exits(a, "teardown", 0)
    /\ UNCHANGED <<output, code, tokens, faults>>

\* The process of the driver is killed or throws: what it has sent may still arrive, and the script,
\* which is another process, goes on with an exit code that is not 0.
DriverDies(a) ==
    /\ \E from \in {"harness", "drain", "exiting"} : Step(a, from, "died")
    /\ \/ UNCHANGED announced
       \/ script[a] = "exiting" /\ a \in tokens /\ announced' = announced \cup {a}
    /\ Fault
    /\ UNCHANGED <<chunks, flight, logged, lost, code, exit, tokens>>

\* teardown.sh may fail or run into its minute; the script exits with the driver's code all the same.
TearsDown(a) ==
    /\ Exits(a, "teardown", code[a]) \/ Exits(a, "died", 1)
    /\ UNCHANGED <<output, code, tokens, faults>>

InsideStep(a) ==
    \/ SetsUp(a) \/ Drains(a) \/ ReportsExit(a) \/ DriverDies(a) \/ TearsDown(a)
    \/ \E k \in flight[a] : SendReturns(a, k)

AgentStep(a) == HarnessWrites(a) \/ \E c \in {0, 1} : HarnessExits(a, c)

-----------------------------------------------------------------------------
DriverTypeOK ==
    /\ script \in [Attempts -> Live \cup {"off"}]
    /\ chunks \in [Attempts -> Nat]
    /\ flight \in [Attempts -> SUBSET Nat]
    /\ logged \in [Attempts -> SUBSET Nat] /\ lost \in [Attempts -> SUBSET Nat]
    /\ announced \in SUBSET Attempts
    /\ code \in [Attempts -> {0, 1, NoCode}] /\ exit \in [Attempts -> {0, 1, NoCode}]
    /\ tokens \in SUBSET Attempts /\ faults \in 0..MaxFaults

\* When the server logs that a harness exited, it has already logged all of its output, however the
\* sends were reordered, save the chunks whose send failed.
LogsPrecedeExit ==
    \A a \in announced : logged[a] \cup lost[a] = 1..chunks[a]

\* Every chunk is on its way or has got to its end, and none is on its way once they were awaited.
LogInv ==
    \A a \in Attempts :
        /\ logged[a] \cup lost[a] \cup flight[a] = 1..chunks[a]
        /\ script[a] \in {"exiting", "teardown"} => flight[a] = {}
        /\ a \in announced => script[a] \in {"teardown", "died", "off"} /\ flight[a] = {}
=============================================================================
