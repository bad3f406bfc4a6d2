-------------------------- MODULE RunExecutionProofs --------------------------
(***************************************************************************)
(* Theorems about the execution of a run, for any number of attempts and   *)
(* every set of faults, and about the settings a run is prepared with, for *)
(* any number of requests that change them.                                *)
(***************************************************************************)
EXTENDS RunExecution, ProjectSettings, TLAPS

\* A call of stopSandbox adds a stop to those under way, for the sandbox it was called for.
LEMMA StopAdds ==
    ASSUME TypeOK, NEW a \in Attempts, Stop(a, "attempt", known \cap {a})
    PROVE  /\ stops' \in SUBSET [of : Attempts, by : {"attempt", "shutdown"},
                                 pc : {"request", "grace"}]
           /\ stops \subseteq stops'
           /\ a \in known => \E x \in stops' : x.of = a /\ x.by = "attempt"
<1> DEFINE new == [of |-> a, by |-> "attempt", pc |-> "request"]
<1>1. stops' = stops \cup {[of |-> b, by |-> "attempt", pc |-> "request"] : b \in known \cap {a}}
  BY DEF Stop
<1>2. \A x \in stops' : x \in stops \/ x = new
  BY <1>1
<1>3. new \in [of : Attempts, by : {"attempt", "shutdown"}, pc : {"request", "grace"}]
  OBVIOUS
<1>4. a \in known => new \in stops'
  BY <1>1
<1>5. new.of = a /\ new.by = "attempt"
  OBVIOUS
<1>6. stops' \in SUBSET [of : Attempts, by : {"attempt", "shutdown"}, pc : {"request", "grace"}]
  BY <1>2, <1>3 DEF TypeOK
<1>7. QED
  BY <1>1, <1>4, <1>5, <1>6

\* Type correctness of the attempts, the sandboxes and the shared directory.
THEOREM TypeCorrect == Spec => []TypeOK
<1>1. Init => TypeOK
  BY DEF Init, TypeOK, Pc
<1>2. TypeOK /\ [Next]_vars => TypeOK'
  <2> SUFFICES ASSUME TypeOK, [Next]_vars PROVE TypeOK'
    OBVIOUS
  <2> USE DEF TypeOK, Pc, Over, Creating, Alive, host, dir, memory
  <2>1. ASSUME NEW a \in Attempts, Begin(a) PROVE TypeOK'
    BY <2>1 DEF Begin, Goto
  <2>2. ASSUME NEW a \in Attempts, Attempt(a) PROVE TypeOK'
    <3>1. CASE Prepare(a) \/ StartVirtiofsd(a) \/ CloneRootfs(a) \/ StartVmm(a) \/ CreateFails(a)
      BY <3>1, ZenonT(60) DEF Prepare, StartVirtiofsd, CloneRootfs, StartVmm, CreateFails, Goto, Release
    <3>2. CASE BootVm(a)
      <4>1. stops' \in SUBSET [of : Attempts, by : {"attempt", "shutdown"},
                              pc : {"request", "grace"}]
        BY <3>2, StopAdds DEF BootVm
      <4>2. vm' \in [Attempts -> Alive \cup {"none", "killed", "exited"}]
        BY <3>2 DEF BootVm
      <4>3. QED
        BY <3>2, <4>1, <4>2 DEF BootVm, Goto, Release
    <3>3. CASE Timeout(a)
      BY <3>3, StopAdds DEF Timeout, Goto
    <3>4. CASE Publish(a) \/ Stopped(a) \/ ClearToken(a)
      BY <3>4 DEF Publish, Stopped, ClearToken, Goto
    <3>5. QED
      BY <2>2, <3>1, <3>2, <3>3, <3>4 DEF Attempt
  <2>3. ASSUME NEW a \in Attempts, Guest(a) PROVE TypeOK'
    BY <2>3 DEF Guest, BootsAtSpawn, GuestStarts, GuestRecords
  <2>4. ASSUME NEW a \in Attempts, VmmExits(a) PROVE TypeOK'
    BY <2>4 DEF VmmExits, Goto, Release, Reported
  <2>5. ASSUME NEW by \in {"attempt", "shutdown"}, Stopping(by) PROVE TypeOK'
    <3>1. PICK x \in stops : StopRequested(x) \/ StopEnds(x)
      BY <2>5 DEF Stopping
    <3>2. CASE StopRequested(x)
      <4>1. [x EXCEPT !.pc = "grace"]
              \in [of : Attempts, by : {"attempt", "shutdown"}, pc : {"request", "grace"}]
        OBVIOUS
      <4>2. QED
        BY <3>2, <4>1 DEF StopRequested
    <3>3. CASE StopEnds(x)
      BY <3>3 DEF StopEnds, Release
    <3>4. QED
      BY <3>1, <3>2, <3>3
  <2>6. CASE Signal
    BY <2>6 DEF Signal
  <2>7. CASE Exit \/ Crash \/ Restart
    BY <2>7 DEF Exit, Crash, Restart, Forget
  <2>8. CASE UNCHANGED vars
    BY <2>8 DEF vars
  <2>9. QED
    BY <2>1, <2>2, <2>3, <2>4, <2>5, <2>6, <2>7, <2>8 DEF Next
<1>3. QED
  BY <1>1, <1>2, PTL DEF Spec

LEMMA LeakInvariance == Spec => []LeakInv
<1>1. Init => LeakInv
  BY DEF Init, LeakInv, NothingLeaks, Clean, Creating, Alive
<1>2. TypeOK /\ LeakInv /\ [Next]_vars => LeakInv'
  <2> SUFFICES ASSUME TypeOK, LeakInv, [Next]_vars PROVE LeakInv'
    OBVIOUS
  <2> USE DEF TypeOK, LeakInv, NothingLeaks, Clean, Creating, Alive, host, dir, memory
  <2>1. ASSUME NEW a \in Attempts, Begin(a) PROVE LeakInv'
    BY <2>1 DEF Begin, Goto
  <2>2. ASSUME NEW a \in Attempts, Attempt(a) PROVE LeakInv'
    <3>1. CASE Prepare(a) \/ StartVirtiofsd(a) \/ CloneRootfs(a)
      BY <3>1 DEF Prepare, StartVirtiofsd, CloneRootfs, Goto
    <3>2. CASE StartVmm(a)
      BY <3>2 DEF StartVmm, Goto
    <3>3. CASE CreateFails(a)
      BY <3>3 DEF CreateFails, Goto, Release
    <3>4. CASE BootVm(a)
      <4>1. ASSUME a \in known, Stop(a, "attempt", known \cap {a})
            PROVE  \E x \in stops' : x.of = a /\ x.by = "attempt"
        BY <4>1, StopAdds
      <4>2. stops \subseteq stops'
        BY <3>4, StopAdds DEF BootVm
      <4>3. QED
        BY <3>4, <4>1, <4>2 DEF BootVm, Goto, Release
    <3>5. CASE Timeout(a)
      <4>1. a \in known => \E x \in stops' : x.of = a /\ x.by = "attempt"
        BY <3>5, StopAdds DEF Timeout
      <4>2. stops \subseteq stops'
        BY <3>5, StopAdds DEF Timeout
      <4>3. QED
        BY <3>5, <4>1, <4>2 DEF Timeout, Goto
    <3>6. CASE Publish(a) \/ Stopped(a) \/ ClearToken(a)
      BY <3>6 DEF Publish, Stopped, ClearToken, Goto
    <3>7. QED
      BY <2>2, <3>1, <3>2, <3>3, <3>4, <3>5, <3>6 DEF Attempt
  <2>3. ASSUME NEW a \in Attempts, Guest(a) PROVE LeakInv'
    BY <2>3 DEF Guest, BootsAtSpawn, GuestStarts, GuestRecords
  <2>4. ASSUME NEW a \in Attempts, VmmExits(a) PROVE LeakInv'
    BY <2>4 DEF VmmExits, Goto, Release
  <2>5. ASSUME NEW by \in {"attempt", "shutdown"}, Stopping(by) PROVE LeakInv'
    <3>1. PICK x \in stops : StopRequested(x) \/ StopEnds(x)
      BY <2>5 DEF Stopping
    <3>2. CASE StopRequested(x)
      <4>1. [x EXCEPT !.pc = "grace"].of = x.of /\ [x EXCEPT !.pc = "grace"].by = x.by
        OBVIOUS
      <4>2. \A y \in stops : \E z \in stops' : z.of = y.of /\ z.by = y.by
        <5>1. \A y \in stops \ {x} : y \in stops'
          BY <3>2 DEF StopRequested
        <5>2. [x EXCEPT !.pc = "grace"] \in stops'
          BY <3>2 DEF StopRequested
        <5>3. QED
          BY <4>1, <5>1, <5>2
      <4>3. QED
        BY <3>2, <4>2 DEF StopRequested
    <3>3. CASE StopEnds(x)
      BY <3>3 DEF StopEnds, Release
    <3>4. QED
      BY <3>1, <3>2, <3>3
  <2>6. CASE Signal
    BY <2>6 DEF Signal
  <2>7. CASE Exit \/ Crash \/ Restart
    BY <2>7 DEF Exit, Crash, Restart, Forget
  <2>8. CASE UNCHANGED vars
    BY <2>8 DEF vars
  <2>9. QED
    BY <2>1, <2>2, <2>3, <2>4, <2>5, <2>6, <2>7, <2>8 DEF Next
<1>3. QED
  BY <1>1, <1>2, TypeCorrect, PTL DEF Spec

\* No sandbox leaks: LeakInv is inductive, and NothingLeaks is its first part.
THEOREM NoLeak == Spec => []NothingLeaks
<1>1. LeakInv => NothingLeaks
  BY DEF LeakInv
<1>2. QED
  BY <1>1, LeakInvariance, PTL

\* The token of an attempt that is over is never in the store.
THEOREM NoStaleToken == Spec => []TokenCleared
<1>1. Init => TokenCleared
  BY DEF Init, TokenCleared
<1>2. TypeOK /\ TokenCleared /\ [Next]_vars => TokenCleared'
  <2> SUFFICES ASSUME TypeOK, TokenCleared, [Next]_vars PROVE TokenCleared'
    OBVIOUS
  <2> DEFINE Elsewhere == UNCHANGED <<token, at>>
  \* The guest, the stops, a signal and a restart touch neither the token nor an attempt's place.
  <2>1. ASSUME NEW a \in Attempts, Guest(a) PROVE Elsewhere
    BY <2>1 DEF Guest, BootsAtSpawn, GuestStarts, GuestRecords, memory
  <2>2. ASSUME NEW by \in {"attempt", "shutdown"}, Stopping(by) PROVE Elsewhere
    BY <2>2 DEF Stopping, StopRequested, StopEnds
  <2>3. Signal \/ Restart \/ UNCHANGED vars => Elsewhere
    BY DEF Signal, Restart, vars, memory
  <2>4. Elsewhere => TokenCleared'
    BY DEF TokenCleared
  <2> HIDE DEF Elsewhere
  \* An attempt gives the token back on the way out; the end of a process forgets both.
  <2>5. \A a \in Attempts : Begin(a) \/ Attempt(a) \/ VmmExits(a) => TokenCleared'
    BY DEF TypeOK, TokenCleared, Begin, Attempt, Prepare, StartVirtiofsd, CloneRootfs, StartVmm,
           CreateFails, BootVm, Timeout, Publish, Stopped, ClearToken, VmmExits, Creating, Goto
  <2>6. Exit \/ Crash => TokenCleared'
    BY DEF TokenCleared, Exit, Crash, Forget
  <2> QED
    BY <2>1, <2>2, <2>3, <2>4, <2>5, <2>6 DEF Next
<1> QED
  BY <1>1, <1>2, TypeCorrect, PTL DEF Spec

\* A guest that runs under an attempt which waits for it, alone in the process, is not refused.
THEOREM DriverAccepted == Spec => []DriverAuthenticated
<1>1. Init => TokenInv
  BY DEF Init, TokenInv
<1>2. TypeOK /\ TokenInv /\ [Next]_vars => TokenInv'
  <2> SUFFICES ASSUME TypeOK, TokenInv, [Next]_vars PROVE TokenInv'
    OBVIOUS
  <2> USE DEF TypeOK, TokenInv, host, dir, memory
  <2>1. ASSUME NEW a \in Attempts, Begin(a) PROVE TokenInv'
    BY <2>1 DEF Begin, Goto
  <2>2. ASSUME NEW a \in Attempts, Attempt(a) PROVE TokenInv'
    <3>1. CASE Prepare(a) \/ StartVirtiofsd(a) \/ CloneRootfs(a) \/ CreateFails(a) \/ BootVm(a)
               \/ Timeout(a) \/ Publish(a) \/ Stopped(a)
      BY <3>1 DEF Prepare, StartVirtiofsd, CloneRootfs, CreateFails, BootVm, Timeout, Publish,
                  Stopped, Creating, Goto
    <3>2. CASE StartVmm(a) \/ ClearToken(a)
      BY <3>2 DEF StartVmm, ClearToken, Goto
    <3>3. QED
      BY <2>2, <3>1, <3>2 DEF Attempt
  <2>3. ASSUME NEW a \in Attempts, Guest(a) \/ VmmExits(a) PROVE TokenInv'
    BY <2>3 DEF Guest, BootsAtSpawn, GuestStarts, GuestRecords, VmmExits, Goto
  <2>4. ASSUME NEW by \in {"attempt", "shutdown"}, Stopping(by) PROVE TokenInv'
    BY <2>4 DEF Stopping, StopRequested, StopEnds
  <2>5. CASE Signal \/ Exit \/ Crash \/ Restart
    BY <2>5 DEF Signal, Exit, Crash, Restart, Forget
  <2>6. CASE UNCHANGED vars
    BY <2>6 DEF vars
  <2>7. QED
    BY <2>1, <2>2, <2>3, <2>4, <2>5, <2>6 DEF Next
<1>3. TokenInv => DriverAuthenticated
  BY DEF TokenInv, DriverAuthenticated
<1>4. QED
  BY <1>1, <1>2, <1>3, TypeCorrect, PTL DEF Spec

\* What an attempt did before its VMM was spawned, and what another did that has not begun, leaves
\* the only delivery's outcome alone.
LEMMA StepOutcome ==
    ASSUME TypeOK, LeakInv, OutcomeInv, [Next]_vars PROVE OutcomeInv'
<1> USE DEF host, dir, memory
<1>0. /\ \A a \in Attempts : at[a] \in {"new", "prepare"} \cup Creating => vm[a] = "none"
      /\ \A a \in Attempts : vm[a] \in {"none", "spawned", "booted", "running"} =>
             a \notin finished /\ outcome[a] # "error"
  BY DEF LeakInv, OutcomeInv
<1>1. ASSUME NEW a \in Attempts, Begin(a) PROVE OutcomeInv'
  BY <1>1 DEF Begin, Goto, TypeOK, OutcomeInv, OnlyDelivery, Over
<1>2. ASSUME NEW a \in Attempts,
             Prepare(a) \/ StartVirtiofsd(a) \/ CloneRootfs(a) \/ CreateFails(a) \/ StartVmm(a)
      PROVE  OutcomeInv'
  <2>1. /\ at[a] \in {"prepare"} \cup Creating
        /\ UNCHANGED <<server, outcome, waiting, stops, finished>>
        /\ exitFile' \in {exitFile, "none"}
    BY <1>2 DEF Prepare, StartVirtiofsd, CloneRootfs, CreateFails, StartVmm, Creating, Release
  <2>2. /\ \A b \in Attempts \ {a} : at'[b] = at[b] /\ vm'[b] = vm[b]
        /\ at'[a] # "new" /\ vm'[a] \in {"none", "spawned"}
        /\ at'[a] = "boot" => vm'[a] = "spawned"
        /\ at'[a] \in {"ended", "virtiofsd", "clone", "spawn", "boot"}
    BY <1>0, <1>2 DEF Prepare, StartVirtiofsd, CloneRootfs, CreateFails, StartVmm, Creating, Goto,
                      TypeOK
  <2>3. a \notin waiting /\ a \notin finished /\ outcome[a] # "error"
    BY <1>0, <2>1 DEF OutcomeInv, Creating
  <2>4. server \in {"exited", "crashed"} => FALSE
    BY <2>1 DEF OutcomeInv, Over, Creating
  <2>5. \A x \in stops : x.of # a \/ x.by # "attempt"
    BY <2>1 DEF OutcomeInv, Creating
  <2>6. \A b \in Attempts \ {a} : ~OnlyDelivery(b)'
    BY <2>2 DEF OnlyDelivery
  <2>7. OnlyDelivery(a)' => OnlyDelivery(a)
    BY <2>2 DEF OnlyDelivery
  <2>8. QED
    BY <2>1, <2>2, <2>3, <2>4, <2>5, <2>6, <2>7 DEF OutcomeInv, TypeOK
<1>3. ASSUME NEW a \in Attempts, BootVm(a) \/ Timeout(a) PROVE OutcomeInv'
  <2>1. /\ at[a] \in {"boot", "wait"} /\ at'[a] \in {"wait", "stop"}
        /\ \A b \in Attempts \ {a} : at'[b] = at[b] /\ vm'[b] = vm[b] /\ outcome'[b] = outcome[b]
        /\ UNCHANGED <<server, finished>>
    BY <1>3 DEF BootVm, Timeout, Goto, TypeOK
  <2>2. \A x \in stops' : x \in stops \/ (x.of = a /\ x.by = "attempt" /\ at'[a] = "stop")
    BY <1>3 DEF BootVm, Timeout, Stop, Goto, TypeOK
  <2>3. \A x \in stops : x.of # a \/ x.by # "attempt"
    BY <2>1 DEF OutcomeInv
  <2>4. \A x \in stops' : IF x.by = "attempt" THEN at'[x.of] = "stop" ELSE server' = "stopping"
    BY <2>1, <2>2, <2>3 DEF OutcomeInv, TypeOK
  <2>5. ~(server \in {"exited", "crashed"})
    BY <2>1 DEF OutcomeInv, Over
  <2>6. \A b \in Attempts \ {a} : ~OnlyDelivery(b)'
    BY <2>1 DEF OnlyDelivery
  <2>7. OnlyDelivery(a)' => OnlyDelivery(a)
    BY <2>1 DEF OnlyDelivery
  <2>8. /\ vm'[a] = vm[a] \/ (vm[a] = "spawned" /\ vm'[a] = "booted")
        /\ outcome'[a] \in {outcome[a], "timeout"}
        /\ waiting' \subseteq waiting \cup {a}
        /\ exitFile' = exitFile \/ (exitFile' = "none" /\ at'[a] = "stop")
    BY <1>3 DEF BootVm, Timeout, Goto, Release, TypeOK
  <2>9. QED
    BY <1>0, <2>1, <2>4, <2>5, <2>6, <2>7, <2>8 DEF OutcomeInv
<1>4. ASSUME NEW a \in Attempts, Publish(a) \/ Stopped(a) \/ ClearToken(a) PROVE OutcomeInv'
  <2>1. /\ at[a] \in {"publish", "stop", "finally"} /\ at'[a] \in {"finally", "ended"}
        /\ \A b \in Attempts \ {a} : at'[b] = at[b]
        /\ UNCHANGED <<server, outcome, waiting, stops, vm, exitFile, finished>>
    BY <1>4 DEF Publish, Stopped, ClearToken, Goto, TypeOK
  <2>2. \A x \in stops : x.of # a \/ x.by # "attempt"
    BY <1>4 DEF Publish, Stopped, ClearToken, OutcomeInv
  <2>3. ~(server \in {"exited", "crashed"})
    BY <2>1 DEF OutcomeInv, Over
  <2>4. \A b \in Attempts \ {a} : ~OnlyDelivery(b)'
    BY <2>1 DEF OnlyDelivery
  <2>5. OnlyDelivery(a)' => OnlyDelivery(a)
    BY <2>1 DEF OnlyDelivery
  <2>6. QED
    BY <2>1, <2>2, <2>3, <2>4, <2>5 DEF OutcomeInv, TypeOK
<1>5. ASSUME NEW a \in Attempts, Guest(a) PROVE OutcomeInv'
  <2>1. /\ vm[a] \in {"spawned", "booted", "running"}
        /\ \A b \in Attempts \ {a} : vm'[b] = vm[b] /\ (b \in finished' <=> b \in finished)
        /\ vm'[a] # "none" /\ (a \in finished' => vm'[a] = "written")
        /\ UNCHANGED <<server, at, outcome, waiting, stops>>
    BY <1>0, <1>5 DEF Guest, BootsAtSpawn, GuestStarts, GuestRecords, memory, TypeOK
  <2>2. at[a] # "new" /\ a \notin finished /\ outcome[a] # "error"
    BY <1>0, <2>1
  <2>3. /\ exitFile' = "zero" /\ exitFile # "zero" => a \in finished'
        /\ a \in finished' => exitFile' = "zero"
        /\ finished \subseteq finished'
    BY <2>2, <1>5 DEF Guest, BootsAtSpawn, GuestStarts, GuestRecords
  <2>4. \A b \in Attempts \ {a} : ~OnlyDelivery(b)
    BY <2>2 DEF OnlyDelivery
  <2>5. \A b \in Attempts : OnlyDelivery(b)' <=> OnlyDelivery(b)
    BY <2>1 DEF OnlyDelivery
  <2>6. QED
    BY <2>1, <2>2, <2>3, <2>4, <2>5 DEF OutcomeInv
<1>6. ASSUME NEW a \in Attempts, VmmExits(a) PROVE OutcomeInv'
  <2>1. /\ vm[a] \in Alive \cup {"killed"} /\ vm'[a] = "exited" /\ at[a] # "new"
        /\ \A b \in Attempts \ {a} : at'[b] = at[b] /\ vm'[b] = vm[b] /\ outcome'[b] = outcome[b]
        /\ UNCHANGED <<server, stops, finished>> /\ waiting' \subseteq waiting
    BY <1>0, <1>6 DEF VmmExits, Goto, Alive, TypeOK
  <2>2. \A b \in Attempts \ {a} : ~OnlyDelivery(b) /\ ~OnlyDelivery(b)'
    <3>1. at'[a] # "new"
      BY <1>6, <2>1 DEF VmmExits, Goto, TypeOK
    <3>2. QED
      BY <2>1, <3>1 DEF OnlyDelivery
  <2>3. OnlyDelivery(a)' => OnlyDelivery(a)
    BY <2>1 DEF OnlyDelivery
  <2>4. CASE a \in waiting /\ at[a] = "wait" /\ waiting' = waiting \ {a}
    <3>1. /\ outcome'[a] = Reported /\ exitFile' = "none"
          /\ at'[a] \in {"publish", "finally"}
      BY <1>6, <2>4 DEF VmmExits, Goto, Release, TypeOK
    <3>2. ~(server \in {"exited", "crashed"})
      BY <2>4 DEF OutcomeInv, Over
    <3>3. \A x \in stops : x.of # a \/ x.by # "attempt"
      BY <2>4 DEF OutcomeInv
    <3>4. OnlyDelivery(a) => /\ Reported = "completed" => a \in finished
                             /\ Reported = "error" /\ server = "up" => a \notin finished
      BY <2>4 DEF OutcomeInv, Reported
    <3>5. QED
      BY <2>1, <2>2, <2>3, <2>4, <3>1, <3>2, <3>3, <3>4 DEF OutcomeInv, TypeOK
  <2>5. CASE at' = at /\ outcome' = outcome /\ (exitFile' = exitFile \/ (exitFile' = "none" /\ a \in waiting /\ at[a] # "wait"))
    <3>1. at[a] \in {"boot", "wait"} => exitFile' = exitFile
      BY <2>5 DEF OutcomeInv
    <3>2. exitFile' = "zero" => exitFile = "zero"
      BY <2>5
    <3>3. QED
      BY <2>1, <2>2, <2>3, <2>5, <3>1, <3>2 DEF OutcomeInv
  <2>6. QED
    BY <1>6, <2>4, <2>5 DEF VmmExits, Release
<1>7. ASSUME NEW by \in {"attempt", "shutdown"}, Stopping(by) PROVE OutcomeInv'
  <2>1. PICK x \in stops : x.by = by /\ (StopRequested(x) \/ StopEnds(x))
    BY <1>7 DEF Stopping
  <2>2. CASE StopRequested(x)
    <3>1. [x EXCEPT !.pc = "grace"].of = x.of /\ [x EXCEPT !.pc = "grace"].by = x.by
      BY DEF TypeOK
    <3>2. \A y \in stops' : \E z \in stops : z.of = y.of /\ z.by = y.by
      BY <2>2, <3>1 DEF StopRequested
    <3>3. \A y \in stops' : IF y.by = "attempt" THEN at[y.of] = "stop" ELSE server = "stopping"
      BY <3>2 DEF OutcomeInv
    <3>4. UNCHANGED <<server, at, outcome, waiting, vm, exitFile, finished>>
      BY <2>2 DEF StopRequested
    <3>5. QED
      BY <3>3, <3>4 DEF OutcomeInv, OnlyDelivery
  <2>3. CASE StopEnds(x)
    <3>1. /\ exitFile' = "none" /\ stops' \subseteq stops
          /\ x.of \in Attempts
          /\ vm'[x.of] = IF vm[x.of] \in Alive THEN "killed" ELSE vm[x.of]
          /\ \A b \in Attempts \ {x.of} : vm'[b] = vm[b]
          /\ UNCHANGED <<server, at, outcome, waiting, finished>>
      BY <2>3 DEF StopEnds, Release, TypeOK
    <3>2. \A b \in Attempts : /\ vm[b] \in {"written", "killed", "exited"} => vm'[b] \in {"written", "killed", "exited"}
                              /\ vm[b] = "exited" => vm'[b] = "exited"
      BY <3>1 DEF Alive
    <3>3. at[x.of] = "stop" \/ server = "stopping"
      BY DEF OutcomeInv
    <3>4. \A a \in Attempts : OnlyDelivery(a) /\ at[a] \in {"boot", "wait"} => server # "up"
      BY <3>1, <3>3 DEF OnlyDelivery
    <3>5. QED
      BY <3>1, <3>2, <3>4 DEF OutcomeInv, OnlyDelivery
  <2>4. QED
    BY <2>1, <2>2, <2>3
<1>8. CASE Signal
  <2>1. \A y \in stops' : y \in stops \/ y.by = "shutdown"
    BY <1>8 DEF Signal
  <2>2. server = "up" /\ server' = "stopping"
        /\ UNCHANGED <<at, outcome, waiting, vm, exitFile, finished>>
    BY <1>8 DEF Signal
  <2>3. QED
    BY <2>1, <2>2 DEF OutcomeInv, OnlyDelivery
<1>9. CASE Exit \/ Crash
  <2>1. /\ \A a \in Attempts : at'[a] = (IF at[a] \in {"new", "ended"} THEN at[a] ELSE "lost")
        /\ waiting' = {} /\ stops' = {} /\ UNCHANGED <<outcome, exitFile, finished>>
        /\ server \in {"up", "stopping"}
        /\ server' = "exited" \/ (server' = "crashed" /\ server = "up")
    BY <1>9 DEF Exit, Crash, Forget
  <2>2. \A b \in Attempts : vm'[b] = vm[b] \/ (vm[b] \in Alive /\ vm'[b] = "exited")
    BY <1>9 DEF Exit, Crash, TypeOK
  <2>3. \A a \in Attempts : OnlyDelivery(a)' => OnlyDelivery(a)
    BY <2>1 DEF OnlyDelivery
  <2>4. QED
    BY <2>1, <2>2, <2>3 DEF OutcomeInv, Alive, Over
<1>10. CASE Restart
  <2>1. \A a \in Attempts : at[a] \notin {"boot", "wait"}
    BY <1>10 DEF Restart, OutcomeInv, Over
  <2>2. QED
    BY <1>10, <2>1 DEF Restart, OutcomeInv, OnlyDelivery
<1>11. CASE UNCHANGED vars
  BY <1>11 DEF vars, OutcomeInv, OnlyDelivery
<1>12. QED
  BY <1>1, <1>2, <1>3, <1>4, <1>5, <1>6, <1>7, <1>8, <1>9, <1>10, <1>11 DEF Next, Attempt

\* Of a run delivered once the result of the wait is the agent's own.
THEOREM OutcomeTrue == Spec => []OutcomeIsTheAgents
<1>1. Init => OutcomeInv
  BY DEF Init, OutcomeInv
<1>2. TypeOK /\ LeakInv /\ OutcomeInv /\ [Next]_vars => OutcomeInv'
  BY StepOutcome
<1>3. OutcomeInv => OutcomeIsTheAgents
  BY DEF OutcomeInv, OutcomeIsTheAgents
<1>4. QED
  BY <1>1, <1>2, <1>3, TypeCorrect, LeakInvariance, PTL DEF Spec

-----------------------------------------------------------------------------
(* The settings a run is given (ProjectSettings).                            *)
TaskRequests == Setting(HarnessSlots, HarnessSettings)
OtherRequests == Setting(SandboxSlots \cup {Nothing}, SandboxSettings)

\* A request without a setting, and one with the fields the steps replace.
LEMMA NoPatchType == NoPatch \in Patching
  BY DEF NoPatch, Patching

LEMMA RequestChanged ==
  ASSUME NEW x \in TaskRequests \cup OtherRequests, NEW place \in Steps
  PROVE  /\ [x EXCEPT !.at = place] \in TaskRequests \cup OtherRequests
         /\ [x EXCEPT !.at = place].slot = x.slot /\ [x EXCEPT !.at = place].value = x.value
         /\ [x EXCEPT !.at = place].holds = x.holds /\ [x EXCEPT !.at = place].patch = x.patch
         /\ [x EXCEPT !.at = place].at = place
         /\ [x EXCEPT !.at = place, !.holds = TRUE] \in TaskRequests \cup OtherRequests
         /\ [x EXCEPT !.at = place, !.holds = TRUE].slot = x.slot
         /\ [x EXCEPT !.at = place, !.holds = TRUE].value = x.value
         /\ [x EXCEPT !.at = place, !.holds = TRUE].holds
         /\ [x EXCEPT !.at = place, !.holds = TRUE].patch = x.patch
         /\ [x EXCEPT !.at = place, !.holds = TRUE].at = place
<1>1. CASE x \in TaskRequests
  BY <1>1 DEF TaskRequests, Setting
<1>2. CASE x \in OtherRequests
  BY <1>2 DEF OtherRequests, Setting
<1>3. QED
  BY <1>1, <1>2

LEMMA RequestType ==
  ASSUME SettingsTypeOK, NEW q \in Requests
  PROVE  /\ req[q] \in TaskRequests \cup OtherRequests
         /\ req[q].at \in Steps /\ req[q].holds \in BOOLEAN /\ req[q].patch \in Patching
         /\ \/ req[q].slot \in HarnessSlots /\ req[q].value \in HarnessSettings
            \/ req[q].slot \in SandboxSlots \cup {Nothing} /\ req[q].value \in SandboxSettings
<1>1. req[q] \in TaskRequests \cup OtherRequests
  BY DEF SettingsTypeOK, TaskRequests, OtherRequests
<1>2. QED
  BY <1>1 DEF TaskRequests, OtherRequests, Setting

LEMMA IdleType ==
  ASSUME NEW how \in Steps
  PROVE  /\ Ended(how) \in TaskRequests \cup OtherRequests
         /\ Ended(how).at = how /\ Ended(how).slot = Nothing /\ Ended(how).value = Nothing
         /\ Ended(how).holds = FALSE /\ Ended(how).patch = NoPatch
<1>1. Nothing \in SandboxSlots \cup {Nothing} /\ Nothing \in SandboxSettings
  BY DEF SandboxSettings
<1>2. Idle \in OtherRequests
  BY <1>1, NoPatchType DEF Idle, OtherRequests, Setting, Steps
<1>3. Idle.slot = Nothing /\ Idle.value = Nothing /\ Idle.holds = FALSE /\ Idle.patch = NoPatch
  BY DEF Idle
<1>4. QED
  BY ZenonT(60), <1>2, <1>3, RequestChanged DEF Ended

-----------------------------------------------------------------------------
\* A request that fails or is answered lets go of its rows, and of no others.
LEMMA FreesRows ==
  ASSUME SettingsTypeOK, NEW q \in Requests, Frees(q)
  PROVE  /\ lock' \in [Slots \cup {"row"} -> Requests \cup {Nothing}]
         /\ \A p \in Requests \ {q}, s \in Slots : lock[s] = p => lock'[s] = p
  BY DEF SettingsTypeOK, Frees

\* A URL that is built is under the forge it was built for.
LEMMA UrlIsBuilt ==
  ASSUME NEW forge \in Hosts, NEW path \in Seq(STRING), NEW url \in buildHttpsRepositoryUrl(forge, path)
  PROVE  url \in Urls /\ url.host = forge /\ url # Nothing
<1> DEFINE rest == getForgeProjectPath(forge, path)
<1>1. BasePath[forge] \in Seq(STRING)
  BY ForgeAssumption
<1>2. rest \in Seq(STRING)
  <2>1. SubSeq(path, Len(BasePath[forge]) + 1, Len(path)) \in Seq(STRING)
    BY <1>1
  <2>2. QED
    BY <2>1 DEF getForgeProjectPath
<1> HIDE DEF rest
<1>3. url = [host |-> forge, path |-> BasePath[forge] \o rest]
  BY DEF buildHttpsRepositoryUrl, rest
<1>4. url \in Urls /\ url.host = forge
  BY <1>1, <1>2, <1>3 DEF Urls
<1>5. QED
  BY <1>4, SettingsAssumption DEF Urls

\* What a PATCH that was validated will write.
LEMMA PatchesFit ==
  ASSUME SettingsTypeOK, project # Nothing, NEW body \in Bodies, NEW patch \in Patches(project, body)
  PROVE  patch \in Patching /\ PatchFits(patch)
<1> DEFINE seen == project.host
           forge == IF body.host = Nothing THEN seen ELSE body.host
           path == IF body.repository = Nothing THEN project.repository.path ELSE body.repository
<1>1. seen \in Hosts /\ project.repository.path \in Seq(STRING)
  BY DEF SettingsTypeOK, Projects, Urls
<1>2. body \in [host : Hosts \cup {Nothing}, repository : Paths \cup {Nothing},
                token : BOOLEAN, saw : {Nothing}]
  BY DEF Bodies
<1>3. forge \in Hosts /\ path \in Seq(STRING)
  BY <1>1, <1>2, ForgeAssumption
<1>4. CASE body.host = Nothing /\ body.repository = Nothing
  <2>1. patch = [body EXCEPT !.saw = seen]
    BY <1>4 DEF Patches
  <2>2. [body EXCEPT !.saw = seen] \in Patching
    BY <1>1, <1>2, <1>4 DEF Patching
  <2>3. PatchFits([body EXCEPT !.saw = seen])
    BY <1>2, <1>4 DEF PatchFits
  <2>4. QED
    BY <2>1, <2>2, <2>3
<1>5. CASE ~ (body.host = Nothing /\ body.repository = Nothing)
  <2>1. PICK url \in buildHttpsRepositoryUrl(forge, path) :
          patch = [body EXCEPT !.saw = seen, !.repository = url]
    BY <1>5 DEF Patches
  <2> HIDE DEF path
  <2>2. url \in Urls /\ url.host = forge /\ url # Nothing
    BY <1>3, UrlIsBuilt
  <2>3. [body EXCEPT !.saw = seen, !.repository = url] \in Patching
    BY <1>1, <1>2, <2>2 DEF Patching
  <2>4. PatchFits([body EXCEPT !.saw = seen, !.repository = url])
    BY <1>2, <2>2 DEF PatchFits
  <2>5. QED
    BY <2>1, <2>3, <2>4
<1>6. QED
  BY <1>4, <1>5

(* RequestFits of a request x, with the locks l.                             *)
Fits(q, x, l) ==
  /\ x.at \in {"find", "delete", "insert"} \/ x.holds => x.slot \in Slots
  /\ x.holds => x.at \in {"insert", "commit"} /\ l[x.slot] = q
  /\ x.slot \in HarnessSlots => Offered(x.value)
  /\ x.at = "update" /\ x.slot = Nothing => x.value = Nothing
  /\ x.at = "commit" /\ x.value # Nothing => x.holds
  /\ PatchFits(x.patch)

LEMMA FitsIs == \A q \in Requests : RequestFits(q) <=> Fits(q, req[q], lock)
  BY DEF RequestFits, Fits

LEMMA FitsAgain ==
  ASSUME NEW q \in Requests, NEW x, NEW y, NEW l, NEW m, Fits(q, x, l),
         y.slot = x.slot, y.value = x.value, y.patch = x.patch,
         y.at \in {"find", "delete", "insert", "commit"},
         x.slot \in Slots \/ (y.at = "commit" /\ ~ y.holds),
         y.holds => y.at \in {"insert", "commit"} /\ m[x.slot] = q,
         y.at = "commit" /\ x.value # Nothing => y.holds
  PROVE  Fits(q, y, m)
  BY DEF Fits

LEMMA EndedFits ==
  ASSUME NEW q \in Requests, NEW how \in {"answered", "failed"}, NEW l
  PROVE  Ended(how) \in TaskRequests \cup OtherRequests /\ Fits(q, Ended(how), l)
<1> DEFINE e == Ended(how)
<1>1. /\ e \in TaskRequests \cup OtherRequests
      /\ e.at = how /\ e.slot = Nothing /\ e.value = Nothing /\ e.holds = FALSE /\ e.patch = NoPatch
  BY IdleType DEF Steps
<1>2. PatchFits(NoPatch) /\ Offered(Nothing)
  BY DEF PatchFits, NoPatch, Offered
<1> HIDE DEF e
<1>3. Fits(q, e, l)
  BY <1>1, <1>2 DEF Fits
<1>4. QED
  BY <1>1, <1>3 DEF e

\* Locks are taken and let go for one request at a time.
KeepsLocks(q) ==
  /\ lock' \in [Slots \cup {"row"} -> Requests \cup {Nothing}]
  /\ \A p \in Requests \ {q}, s \in Slots : lock[s] = p => lock'[s] = p

LEMMA OtherFits ==
  ASSUME SettingsTypeOK, NEW q \in Requests, KeepsLocks(q), NEW p \in Requests \ {q},
         Fits(p, req[p], lock)
  PROVE  Fits(p, req[p], lock')
  BY DEF Fits, KeepsLocks

ReqOK == req \in [Requests -> TaskRequests \cup OtherRequests] /\ \A q \in Requests : RequestFits(q)

LEMMA OneChanges ==
  ASSUME SettingsTypeOK, \A p \in Requests : RequestFits(p), NEW q \in Requests, KeepsLocks(q),
         NEW x \in TaskRequests \cup OtherRequests, req' = [req EXCEPT ![q] = x], Fits(q, x, lock')
  PROVE  ReqOK'
<1>1. \A p \in Requests : req[p] \in TaskRequests \cup OtherRequests
  BY RequestType
<1>2. req' \in [Requests -> TaskRequests \cup OtherRequests]
  BY <1>1 DEF SettingsTypeOK
<1>3. \A p \in Requests \ {q} : req'[p] = req[p]
  BY DEF SettingsTypeOK
<1>4. req'[q] = x
  BY DEF SettingsTypeOK
<1>5. \A p \in Requests : Fits(p, req'[p], lock')
  BY <1>3, <1>4, OtherFits, FitsIs
<1>6. QED
  BY <1>2, <1>5 DEF ReqOK, RequestFits, Fits, TaskRequests, OtherRequests

LEMMA LocksAsTheyAre ==
  ASSUME SettingsTypeOK, NEW q \in Requests, lock' = lock PROVE KeepsLocks(q)
  BY DEF SettingsTypeOK, KeepsLocks

LEMMA LockTaken ==
  ASSUME SettingsTypeOK, NEW q \in Requests, NEW s \in Slots \cup {"row"},
         lock[s] \in {Nothing, q}, lock' = [lock EXCEPT ![s] = q]
  PROVE  KeepsLocks(q) /\ lock'[s] = q
  BY SettingsAssumption DEF SettingsTypeOK, KeepsLocks

LEMMA ValidIsOffered ==
  ASSUME NEW c \in HarnessSettings, validateAgentConfig(c) PROVE Offered(c)
  BY DEF validateAgentConfig, Offered, HarnessSettings

LEMMA SlotsDiffer ==
  /\ \A s \in HarnessSlots : s \notin SandboxSlots
  /\ HarnessSlots \subseteq Slots /\ SandboxSlots \subseteq Slots /\ "row" \notin Slots
  BY DEF HarnessSlots, SandboxSlots, Slots

LEMMA SetsFits ==
  ASSUME SettingsTypeOK, \A p \in Requests : RequestFits(p), NEW q \in Requests, NEW s, NEW v,
         Sets(q, s, v),
         \/ s \in HarnessSlots /\ v \in HarnessSettings /\ Offered(v)
         \/ s \in SandboxSlots /\ v \in SandboxSettings
  PROVE  ReqOK'
<1> DEFINE x == [Idle EXCEPT !.at = "find", !.slot = s, !.value = v]
<1>1. x.at = "find" /\ x.slot = s /\ x.value = v /\ x.holds = FALSE /\ x.patch = NoPatch
  BY DEF Idle
<1>2. x \in TaskRequests \cup OtherRequests
  <2>1. CASE s \in HarnessSlots /\ v \in HarnessSettings
    <3>1. x \in TaskRequests
      BY <2>1, NoPatchType DEF Idle, TaskRequests, Setting, Steps
    <3>2. QED
      BY <3>1
  <2>2. CASE s \in SandboxSlots /\ v \in SandboxSettings
    <3>1. x \in OtherRequests
      BY <2>2, NoPatchType DEF Idle, OtherRequests, Setting, Steps
    <3>2. QED
      BY <3>1
  <2>3. QED
    BY <2>1, <2>2
<1>3. Fits(q, x, lock')
  <2>1. s \in Slots /\ (s \in HarnessSlots => Offered(v))
    BY SlotsDiffer
  <2>2. PatchFits(NoPatch)
    BY DEF PatchFits, NoPatch
  <2>3. QED
    BY <1>1, <2>1, <2>2 DEF Fits
<1>4. req' = [req EXCEPT ![q] = x] /\ lock' = lock
  BY DEF Sets
<1> HIDE DEF x
<1>5. QED
  BY <1>2, <1>3, <1>4, OneChanges, LocksAsTheyAre

\* A PATCH to be written, with or without a harness.
LEMMA PatchWritten ==
  ASSUME SettingsTypeOK, \A p \in Requests : RequestFits(p), lock' = lock, NEW q \in Requests,
         NEW s \in {Nothing, "project"}, NEW v \in Configs \cup {Nothing}, NEW patch \in Patching,
         validateAgentConfig(v), s = Nothing => v = Nothing, PatchFits(patch),
         req' = [req EXCEPT ![q] = [Idle EXCEPT !.at = "update", !.slot = s, !.value = v,
                                                !.patch = patch]]
  PROVE  ReqOK'
<1> DEFINE x == [Idle EXCEPT !.at = "update", !.slot = s, !.value = v, !.patch = patch]
<1>1. x.at = "update" /\ x.slot = s /\ x.value = v /\ x.holds = FALSE /\ x.patch = patch
  BY DEF Idle
<1>2. x \in TaskRequests \cup OtherRequests
  <2>1. CASE s = "project" /\ s # Nothing
    <3>1. x \in TaskRequests
      BY <2>1 DEF Idle, TaskRequests, Setting, Steps, HarnessSettings, HarnessSlots
    <3>2. QED
      BY <3>1
  <2>2. CASE s = Nothing /\ v = Nothing
    <3>1. x \in OtherRequests
      BY <2>2 DEF Idle, OtherRequests, Setting, Steps, SandboxSettings
    <3>2. QED
      BY <3>1
  <2>3. QED
    BY <2>1, <2>2
<1>3. Offered(v)
  BY ValidIsOffered DEF HarnessSettings
<1>4. Fits(q, x, lock')
  BY <1>1, <1>3 DEF Fits
<1>5. req' = [req EXCEPT ![q] = x] /\ lock' = lock
  OBVIOUS
<1> HIDE DEF x
<1>6. QED
  BY <1>2, <1>4, <1>5, OneChanges, LocksAsTheyAre

\* A PATCH that is validated is written, or refused by the URL it would give the repository.
LEMMA ValidatedFits ==
  ASSUME SettingsTypeOK, \A p \in Requests : RequestFits(p), NEW q \in Requests, ValidatesPatch(q)
  PROVE  ReqOK'
<1>1. PICK body \in Bodies, s \in {Nothing, "project"}, v \in Configs \cup {Nothing} :
        /\ validateAgentConfig(v)
        /\ s = Nothing => v = Nothing
        /\ \/ \E patch \in Patches(project, body) :
                req' = [req EXCEPT ![q] = [Idle EXCEPT !.at = "update", !.slot = s, !.value = v,
                                                       !.patch = patch]]
           \/ req' = [req EXCEPT ![q] = Ended("failed")]
  BY DEF ValidatesPatch
<1>2. lock' = lock /\ project # Nothing
  BY DEF ValidatesPatch
<1>3. CASE req' = [req EXCEPT ![q] = Ended("failed")]
  BY <1>2, <1>3, EndedFits, OneChanges, LocksAsTheyAre
<1>4. CASE \E patch \in Patches(project, body) :
             req' = [req EXCEPT ![q] = [Idle EXCEPT !.at = "update", !.slot = s, !.value = v,
                                                    !.patch = patch]]
  <2>1. PICK patch \in Patches(project, body) :
          req' = [req EXCEPT ![q] = [Idle EXCEPT !.at = "update", !.slot = s, !.value = v,
                                                 !.patch = patch]]
    BY <1>4
  <2>2. patch \in Patching /\ PatchFits(patch)
    BY <1>2, PatchesFit
  <2>3. QED
    BY <1>1, <1>2, <2>1, <2>2, PatchWritten
<1>5. QED
  BY <1>1, <1>3, <1>4

\* A statement of a request, which moves it on and may take a lock for it.
LEMMA StatementFits ==
  ASSUME SettingsTypeOK, \A p \in Requests : RequestFits(p), NEW q \in Requests,
         Updates(q) \/ Finds(q) \/ DeletesRow(q) \/ Inserts(q)
  PROVE  ReqOK'
<1> DEFINE x == req[q]
           s == x.slot
<1>1. /\ x \in TaskRequests \cup OtherRequests /\ x.at \in Steps /\ x.holds \in BOOLEAN
      /\ s \in HarnessSlots \cup SandboxSlots \cup {Nothing}
  BY RequestType
<1>2. Fits(q, x, lock)
  BY FitsIs
<1>3. \A l : Proceeds(q, l) => req' = [req EXCEPT ![q] = [x EXCEPT !.at = l]]
  BY DEF Proceeds
<1>4. CASE Updates(q)
  <2> DEFINE l == IF s = Nothing THEN "commit" ELSE "find"
             y == [x EXCEPT !.at = l]
  <2>1. KeepsLocks(q)
    <3>1. CASE lock' = lock
      BY <3>1, LocksAsTheyAre
    <3>2. CASE lock["row"] = Nothing /\ lock' = [lock EXCEPT !["row"] = q]
      BY <3>2, LockTaken
    <3>3. QED
      BY <1>4, <3>1, <3>2 DEF Updates
  <2>2. req' = [req EXCEPT ![q] = y] /\ x.at = "update" /\ l \in Steps
    BY <1>4 DEF Updates, Proceeds, Steps
  <2>3. s = Nothing \/ s \in Slots
    BY <1>1, SlotsDiffer
  <2>4. /\ y \in TaskRequests \cup OtherRequests /\ y.at = l
        /\ y.slot = s /\ y.value = x.value /\ y.patch = x.patch /\ y.holds = x.holds
    <3>1. l \in Steps /\ x \in TaskRequests \cup OtherRequests
      BY <1>1, <2>2
    <3> HIDE DEF l, x
    <3>2. QED
      BY ZenonT(60), <3>1, RequestChanged
  <2>5. ~ x.holds
    BY <1>2, <2>2 DEF Fits
  <2> HIDE DEF y
  <2>6. Fits(q, y, lock')
    <3>1. CASE s = Nothing
      BY <1>2, <2>2, <2>4, <2>5, <3>1, FitsAgain DEF Fits
    <3>2. CASE s # Nothing
      BY <1>2, <2>2, <2>3, <2>4, <2>5, <3>2, FitsAgain
    <3>3. QED
      BY <3>1, <3>2
  <2>7. QED
    BY <2>1, <2>2, <2>4, <2>6, OneChanges
<1>5. CASE Finds(q)
  <2> DEFINE l == IF rows[s] = Nothing THEN "insert" ELSE "delete"
             y == [x EXCEPT !.at = l]
  <2>1. req' = [req EXCEPT ![q] = y] /\ x.at = "find" /\ l \in {"insert", "delete"} /\ lock' = lock
    BY <1>5 DEF Finds, Proceeds
  <2>2. s \in Slots /\ ~ x.holds
    BY <1>2, <2>1 DEF Fits
  <2>3. /\ y \in TaskRequests \cup OtherRequests /\ y.at = l
        /\ y.slot = s /\ y.value = x.value /\ y.patch = x.patch /\ y.holds = x.holds
    <3>1. l \in Steps
      BY <2>1 DEF Steps
    <3>2. x \in TaskRequests \cup OtherRequests
      BY <1>1
    <3> HIDE DEF l, x
    <3>3. QED
      BY ZenonT(60), <3>1, <3>2, RequestChanged
  <2> HIDE DEF l
  <2> HIDE DEF y
  <2>4. Fits(q, y, lock')
    BY <1>2, <2>1, <2>2, <2>3, FitsAgain
  <2>5. QED
    BY <2>1, <2>3, <2>4, OneChanges, LocksAsTheyAre
<1>6. CASE DeletesRow(q)
  <2> DEFINE y == [x EXCEPT !.at = "insert", !.holds = TRUE]
  <2>1. /\ x.at = "delete" /\ lock[s] = Nothing /\ lock' = [lock EXCEPT ![s] = q]
        /\ req' = [req EXCEPT ![q].at = "insert", ![q].holds = TRUE]
    BY <1>6 DEF DeletesRow
  <2>2. req' = [req EXCEPT ![q] = y]
    BY <2>1
  <2>3. s \in Slots
    BY <1>2, <2>1 DEF Fits
  <2>4. KeepsLocks(q) /\ lock'[s] = q
    BY <2>1, <2>3, LockTaken
  <2>5. /\ y \in TaskRequests \cup OtherRequests /\ y.at = "insert"
        /\ y.slot = s /\ y.value = x.value /\ y.patch = x.patch
    BY ZenonT(60), <1>1, RequestChanged DEF Steps
  <2> HIDE DEF y
  <2>6. Fits(q, y, lock')
    BY <1>2, <2>3, <2>4, <2>5, FitsAgain
  <2>7. QED
    BY <2>2, <2>4, <2>5, <2>6, OneChanges
<1>7. CASE Inserts(q)
  <2>1. x.at = "insert" /\ s \in Slots /\ (x.holds => lock[s] = q)
    BY <1>2, <1>7 DEF Inserts, Fits
  <2>2. CASE x.value = Nothing /\ Proceeds(q, "commit") /\ lock' = lock
    <3> DEFINE y == [x EXCEPT !.at = "commit"]
    <3>1. req' = [req EXCEPT ![q] = y]
      BY <2>2 DEF Proceeds
    <3>2. /\ y \in TaskRequests \cup OtherRequests /\ y.at = "commit"
          /\ y.slot = s /\ y.value = x.value /\ y.patch = x.patch /\ y.holds = x.holds
      BY ZenonT(60), <1>1, RequestChanged DEF Steps
    <3> HIDE DEF y
    <3>3. Fits(q, y, lock')
      BY <1>2, <2>1, <2>2, <3>2, FitsAgain
    <3>4. QED
      BY <2>2, <3>1, <3>2, <3>3, OneChanges, LocksAsTheyAre
  <2>3. CASE /\ x.value # Nothing /\ lock[s] \in {Nothing, q}
             /\ lock' = [lock EXCEPT ![s] = q]
             /\ req' = [req EXCEPT ![q].at = "commit", ![q].holds = TRUE]
    <3> DEFINE y == [x EXCEPT !.at = "commit", !.holds = TRUE]
    <3>1. req' = [req EXCEPT ![q] = y]
      BY <2>3
    <3>2. KeepsLocks(q) /\ lock'[s] = q
      BY <2>1, <2>3, LockTaken
    <3>3. /\ y \in TaskRequests \cup OtherRequests /\ y.at = "commit" /\ y.holds
          /\ y.slot = s /\ y.value = x.value /\ y.patch = x.patch
      BY ZenonT(60), <1>1, RequestChanged DEF Steps
    <3> HIDE DEF y
    <3>4. Fits(q, y, lock')
      BY <1>2, <2>1, <3>2, <3>3, FitsAgain
    <3>5. QED
      BY <3>1, <3>2, <3>3, <3>4, OneChanges
  <2>4. CASE Fails(q)
    <3>1. KeepsLocks(q)
      BY <2>4, FreesRows DEF Fails, KeepsLocks
    <3>2. req' = [req EXCEPT ![q] = Ended("failed")]
      BY <2>4 DEF Fails
    <3>3. QED
      BY <3>1, <3>2, EndedFits, OneChanges
  <2>5. QED
    BY <1>7, <2>2, <2>3, <2>4 DEF Inserts
<1>8. QED
  BY <1>4, <1>5, <1>6, <1>7

-----------------------------------------------------------------------------
\* The commit, after which those who waited for the row find it gone.
LEMMA CommitFits ==
  ASSUME SettingsTypeOK, \A p \in Requests : RequestFits(p), NEW q \in Requests, Commits(q)
  PROVE  ReqOK'
<1> DEFINE s == req[q].slot
           base == IF req[q].holds THEN FindGone(s) ELSE req
<1>1. KeepsLocks(q)
  BY FreesRows DEF Commits, KeepsLocks
<1>2. req' = [base EXCEPT ![q] = Ended("answered")]
  BY DEF Commits
<1>3. \A p \in Requests : base[p] \in {req[p], [req[p] EXCEPT !.at = "insert"]}
      /\ (base[p] # req[p] => req[p].at = "delete")
  BY DEF FindGone
<1>4. base = [p \in Requests |-> base[p]]
  BY DEF FindGone, SettingsTypeOK
<1>5. "insert" \in Steps /\ "answered" \in Steps
  BY DEF Steps
<1>6. ASSUME NEW p \in Requests \ {q}
      PROVE  base[p] \in TaskRequests \cup OtherRequests /\ Fits(p, base[p], lock')
  <2>1. req[p] \in TaskRequests \cup OtherRequests /\ Fits(p, req[p], lock')
    BY <1>1, FitsIs, OtherFits, RequestType
  <2>2. CASE base[p] = req[p]
    BY <2>1, <2>2
  <2>3. CASE base[p] # req[p]
    <3>1. base[p] = [req[p] EXCEPT !.at = "insert"] /\ req[p].at = "delete"
      BY <1>3, <2>3
    <3> DEFINE y == [req[p] EXCEPT !.at = "insert"]
    <3>2. /\ y \in TaskRequests \cup OtherRequests /\ y.at = "insert"
          /\ y.slot = req[p].slot /\ y.value = req[p].value /\ y.patch = req[p].patch
          /\ y.holds = req[p].holds
      BY ZenonT(60), <1>5, <2>1, RequestChanged
    <3>3. req[p].slot \in Slots /\ (req[p].holds => lock'[req[p].slot] = p)
      BY <2>1, <3>1 DEF Fits
    <3> HIDE DEF y
    <3>4. Fits(p, y, lock')
      BY <2>1, <3>2, <3>3, FitsAgain
    <3>5. QED
      BY <3>1, <3>2, <3>4 DEF y
  <2>4. QED
    BY <2>2, <2>3
<1>7. Ended("answered") \in TaskRequests \cup OtherRequests /\ Fits(q, Ended("answered"), lock')
  BY EndedFits
<1> HIDE DEF base
<1>8. req' = [p \in Requests |-> IF p = q THEN Ended("answered") ELSE base[p]]
  BY <1>2, <1>4
<1>9. req' \in [Requests -> TaskRequests \cup OtherRequests]
  BY <1>6, <1>7, <1>8
<1>10. \A p \in Requests : Fits(p, req'[p], lock')
  BY <1>6, <1>7, <1>8
<1>11. QED
  BY <1>9, <1>10 DEF ReqOK, RequestFits, Fits, TaskRequests, OtherRequests

-----------------------------------------------------------------------------
\* What is stored: a validated value, or the one a request has written.
RowsOK ==
  /\ rows = [s \in Slots |-> rows[s]]
  /\ \A s \in HarnessSlots : rows[s] \in HarnessSettings /\ Offered(rows[s])
  /\ \A s \in SandboxSlots : rows[s] \in SandboxSettings

LEMMA RowsReplaced ==
  ASSUME RowsOK, NEW s \in Slots, NEW v, rows' = [rows EXCEPT ![s] = v],
         \/ s \in HarnessSlots /\ v \in HarnessSettings /\ Offered(v)
         \/ s \in SandboxSlots /\ v \in SandboxSettings
  PROVE  RowsOK'
<1>1. rows' = [t \in Slots |-> IF t = s THEN v ELSE rows[t]]
  BY DEF RowsOK
<1>2. \A t \in Slots : rows'[t] = IF t = s THEN v ELSE rows[t]
  BY <1>1
<1>3. rows' = [t \in Slots |-> rows'[t]]
  BY <1>1
<1>4. ASSUME NEW t \in HarnessSlots PROVE rows'[t] \in HarnessSettings /\ Offered(rows'[t])
  BY <1>2, SlotsDiffer DEF RowsOK
<1>5. ASSUME NEW t \in SandboxSlots PROVE rows'[t] \in SandboxSettings
  BY <1>2, SlotsDiffer DEF RowsOK
<1>6. (\A t \in HarnessSlots : Offered(rows'[t])) => \A t \in HarnessSlots : Offered(rows[t])'
  BY DEF Offered
<1>7. QED
  BY <1>3, <1>4, <1>5, <1>6 DEF RowsOK

LEMMA CommitStores ==
  ASSUME SettingsTypeOK, RowsOK, NEW q \in Requests, RequestFits(q), Commits(q)
  PROVE  /\ RowsOK'
         /\ req[q].value # Nothing => rows'[req[q].slot] = req[q].value
<1> DEFINE s == req[q].slot
           v == req[q].value
<1>1. CASE req[q].holds
  <2>1. s \in Slots /\ (s \in HarnessSlots => Offered(v)) /\ rows' = [rows EXCEPT ![s] = v]
    BY <1>1 DEF RequestFits, Commits
  <2>2. \/ s \in HarnessSlots /\ v \in HarnessSettings
        \/ s \in SandboxSlots /\ v \in SandboxSettings
    BY <2>1, RequestType, SettingsAssumption
  <2>3. RowsOK'
    <3> HIDE DEF s, v
    <3>1. QED
      BY <2>1, <2>2, RowsReplaced
  <2>4. rows'[s] = v
    BY <2>1 DEF RowsOK
  <2>5. QED
    BY <2>3, <2>4
<1>2. CASE ~ req[q].holds
  <2>1. rows' = rows /\ v = Nothing
    BY <1>2 DEF Commits, RequestFits
  <2>2. RowsOK'
    BY <2>1 DEF RowsOK, Offered
  <2>3. QED
    BY <2>1, <2>2
<1>3. QED
  BY <1>1, <1>2

LEMMA CreateStores == ASSUME SettingsTypeOK, RowsOK, Creates PROVE RowsOK' /\ project' \in Projects
<1>1. PICK where \in Hosts, path \in Paths, c \in Configs \cup {Nothing} :
        /\ validateAgentConfig(c)
        /\ \E url \in buildHttpsRepositoryUrl(where, path) : project' = createProject(where, url)
        /\ rows' = [rows EXCEPT !["project"] = c]
  BY DEF Creates
<1>2. project' \in Projects
  <2>1. PICK url \in buildHttpsRepositoryUrl(where, path) : project' = createProject(where, url)
    BY <1>1
  <2>2. url \in Urls
    BY UrlIsBuilt, ForgeAssumption
  <2>3. QED
    BY <2>1, <2>2 DEF createProject, Projects
<1>3. c \in HarnessSettings /\ Offered(c)
  BY <1>1, ValidIsOffered DEF HarnessSettings
<1>4. "project" \in HarnessSlots /\ "project" \in Slots
  BY DEF HarnessSlots, Slots
<1>5. QED
  BY <1>1, <1>2, <1>3, <1>4, RowsReplaced

LEMMA PatchedType ==
  ASSUME NEW row \in Projects, NEW patch \in Patching
  PROVE  /\ Patched(row, patch) \in Projects
         /\ Patched(row, patch).host = IF patch.host = Nothing THEN row.host ELSE patch.host
         /\ Patched(row, patch).repository =
              IF patch.repository = Nothing THEN row.repository ELSE patch.repository
<1> DEFINE h == IF patch.host = Nothing THEN row.host ELSE patch.host
           u == IF patch.repository = Nothing THEN row.repository ELSE patch.repository
           k == row.secret \/ patch.token
<1>1. Patched(row, patch) = [row EXCEPT !.host = h, !.repository = u, !.secret = k]
  BY DEF Patched, Projects
<1>2. h \in Hosts /\ u \in Urls
  BY DEF Projects, Patching
<1>3. k \in BOOLEAN
  OBVIOUS
<1> HIDE DEF h, u, k
<1>4. [row EXCEPT !.host = h, !.repository = u, !.secret = k] \in Projects
      /\ [row EXCEPT !.host = h, !.repository = u, !.secret = k].host = h
      /\ [row EXCEPT !.host = h, !.repository = u, !.secret = k].repository = u
  BY <1>2, <1>3 DEF Projects
<1>5. QED
  BY <1>1, <1>4 DEF h, u

LEMMA CommitProject ==
  ASSUME SettingsTypeOK, NEW q \in Requests, Commits(q)
  PROVE  /\ project' \in Projects \cup {Nothing}
         /\ project # Nothing /\ project' # project => project' = Patched(project, req[q].patch)
  BY RequestType, PatchedType DEF Commits, SettingsTypeOK

-----------------------------------------------------------------------------
\* The run.
RunOK == /\ run \in Preparations /\ \A s \in HarnessSlots : Offered(run.got[s])
         /\ RunIsEquipped

LEMMA NoRunType ==
  ASSUME NEW place \in {"new", "failed"}
  PROVE  /\ [NoRun EXCEPT !.at = place] \in Preparations /\ [NoRun EXCEPT !.at = place].at = place
         /\ \A s \in HarnessSlots : [NoRun EXCEPT !.at = place].got[s] = Nothing
<1>1. /\ Nothing \in HarnessSettings /\ Nothing \in SandboxSettings
      /\ [s \in HarnessSlots |-> Nothing] \in [HarnessSlots -> HarnessSettings]
  BY DEF HarnessSettings, SandboxSettings
<1>2. QED
  BY <1>1 DEF NoRun, Preparations

LEMMA PreparedFits ==
  ASSUME oauth \in BOOLEAN, NEW h \in Harnesses, NEW m \in {Nothing, h}
  PROVE  LET auth == getAuthArtifacts(h)
             given == prepareHarness(h, auth, m)
         IN  /\ given.model \in {Nothing, h}
             /\ given.credential \in {"none", "api-key", "files-and-env"}
             /\ h # "opencode" /\ auth # "none" => given.credential # "none"
<1> DEFINE auth == getAuthArtifacts(h)
<1>1. auth \in {"none", "api-key", "files-and-env"} /\ (auth = "files-and-env" => h = "codex-cli")
  BY DEF getAuthArtifacts
<1>2. h \in {"opencode", "claude-code", "cursor-cli", "codex-cli"}
  BY SettingsAssumption
<1> HIDE DEF auth
<1>3. \A mm, c : Given(mm, c).model = mm /\ Given(mm, c).credential = c
  BY DEF Given
<1>4. CASE h = "opencode"
  BY <1>1, <1>3, <1>4 DEF prepareHarness, OpenCodeHarness, auth
<1>5. CASE h = "claude-code"
  BY <1>1, <1>3, <1>5 DEF prepareHarness, ClaudeCodeHarness, auth
<1>6. CASE h = "cursor-cli"
  BY <1>1, <1>3, <1>6 DEF prepareHarness, CursorCliHarness, auth
<1>7. CASE h = "codex-cli"
  BY <1>1, <1>3, <1>7 DEF prepareHarness, CodexCliHarness, auth
<1>8. QED
  BY <1>2, <1>4, <1>5, <1>6, <1>7

LEMMA ResolvedFits ==
  ASSUME RunOK
  PROVE  LET c == resolveHarnessConfig(run.got) IN c.harness \in Harnesses /\ c.model \in {Nothing, c.harness}
<1>1. \A s \in HarnessSlots : run.got[s] # Nothing =>
        run.got[s].harness \in Harnesses /\ run.got[s].model \in {Nothing, run.got[s].harness}
  BY DEF RunOK, Preparations, HarnessSettings, Configs, Offered
<1>2. "task" \in HarnessSlots /\ "project" \in HarnessSlots /\ "workspace" \in HarnessSlots
  BY DEF HarnessSlots
<1>3. QED
  BY <1>1, <1>2, SettingsAssumption DEF resolveHarnessConfig

LEMMA RunGoesOn ==
  ASSUME NEW r \in Preparations, run' = r, r.at # "prepared",
         \A s \in HarnessSlots : Offered(r.got[s])
  PROVE  RunOK'
  BY DEF RunOK, RunIsEquipped, Offered

LEMMA RunFails == ASSUME run' = RunFailed PROVE RunOK'
<1>1. /\ RunFailed \in Preparations /\ RunFailed.at = "failed"
      /\ \A s \in HarnessSlots : RunFailed.got[s] = Nothing
  BY NoRunType DEF RunFailed
<1>2. \A s \in HarnessSlots : Offered(RunFailed.got[s])
  BY <1>1 DEF Offered
<1> DEFINE r == RunFailed
<1>3. r \in Preparations /\ run' = r /\ r.at # "prepared" /\ \A s \in HarnessSlots : Offered(r.got[s])
  BY <1>1, <1>2
<1> HIDE DEF r
<1>4. QED
  BY <1>3, RunGoesOn

LEMMA RunStarts == ASSUME SettingsTypeOK, RunOK, RunChecksOut PROVE RunOK'
<1>1. CASE run' = RunFailed
  BY <1>1, RunFails
<1>2. CASE run' = [run EXCEPT !.at = "reads"]
  <2> DEFINE r == [run EXCEPT !.at = "reads"]
  <2>1. r \in Preparations /\ r.at = "reads" /\ r.got = run.got
    BY DEF RunOK, Preparations
  <2>2. run' = r /\ r.at # "prepared" /\ \A s \in HarnessSlots : Offered(r.got[s])
    BY <1>2, <2>1 DEF RunOK
  <2> HIDE DEF r
  <2>3. QED
    BY <2>1, <2>2, RunGoesOn
<1>3. QED
  BY <1>1, <1>2 DEF RunChecksOut

LEMMA RunFindsSandbox == ASSUME SettingsTypeOK, RunOK, RunReadsSandboxes PROVE RunOK'
<1>1. CASE run' = [run EXCEPT !.at = "resolve sandbox"]
  <2> DEFINE r == [run EXCEPT !.at = "resolve sandbox"]
  <2>1. r \in Preparations /\ r.at = "resolve sandbox" /\ r.got = run.got
    BY DEF RunOK, Preparations
  <2>2. run' = r /\ r.at # "prepared" /\ \A s \in HarnessSlots : Offered(r.got[s])
    BY <1>1, <2>1 DEF RunOK
  <2> HIDE DEF r
  <2>3. QED
    BY <2>1, <2>2, RunGoesOn
<1>2. ASSUME NEW s \in SandboxSlots, run' = [run EXCEPT !.at = "match", !.sandbox = rows[s]]
      PROVE  RunOK'
  <2> DEFINE type == rows[s]
             r == [run EXCEPT !.at = "match", !.sandbox = type]
  <2>1. type \in SandboxSettings
    BY DEF SettingsTypeOK
  <2> HIDE DEF type
  <2>2. r \in Preparations /\ r.at = "match" /\ r.got = run.got
    BY <2>1 DEF RunOK, Preparations
  <2>3. run' = r /\ r.at # "prepared" /\ \A t \in HarnessSlots : Offered(r.got[t])
    BY <1>2, <2>2 DEF RunOK, type
  <2> HIDE DEF r
  <2>4. QED
    BY <2>2, <2>3, RunGoesOn
<1>3. QED
  BY <1>1, <1>2 DEF RunReadsSandboxes, SandboxSlots

LEMMA RunChooses == ASSUME SettingsTypeOK, RunOK, RunMatches PROVE RunOK'
<1> DEFINE type == IF run.sandbox = Nothing THEN "docker" ELSE run.sandbox
           r == [run EXCEPT !.sandbox = type, !.at = "task"]
<1>1. CASE run' = RunFailed
  BY <1>1, RunFails
<1>2. CASE run' = r
  <2>1. type \in SandboxSettings
    BY DEF RunOK, Preparations, SandboxSettings, SandboxTypes
  <2> HIDE DEF type
  <2>2. r \in Preparations /\ r.at = "task" /\ r.got = run.got
    BY <2>1 DEF RunOK, Preparations, HarnessSlots
  <2>3. run' = r /\ r.at # "prepared" /\ \A t \in HarnessSlots : Offered(r.got[t])
    BY <1>2, <2>2 DEF RunOK
  <2> HIDE DEF r
  <2>4. QED
    BY <2>2, <2>3, RunGoesOn
<1>3. QED
  BY <1>1, <1>2 DEF RunMatches

\* What it reads is a harness with a model of its own, whoever set it last.
LEMMA RunReadsOn == ASSUME SettingsTypeOK, RowsOK, RunOK, RunReads PROVE RunOK'
<1> DEFINE place == run.at
           v == rows[place]
           next == FollowingRead[place]
           got == [run.got EXCEPT ![place] = v]
           r == [run EXCEPT !.got = got, !.at = next]
<1>1. place \in HarnessSlots /\ v \in HarnessSettings /\ Offered(v)
  BY DEF RunReads, RowsOK
<1>2. next \in {"project", "workspace", "resolve"}
  BY <1>1 DEF FollowingRead, HarnessSlots
<1>3. run' = r
  BY DEF RunReads, RunOK, Preparations
<1> HIDE DEF v, next
<1>4. got \in [HarnessSlots -> HarnessSettings] /\ \A s \in HarnessSlots : Offered(got[s])
  BY <1>1 DEF RunOK, Preparations
<1> HIDE DEF got
<1>5. r \in Preparations /\ r.at = next /\ r.got = got
  BY <1>2, <1>4 DEF RunOK, Preparations, HarnessSlots
<1>6. r.at # "prepared" /\ \A t \in HarnessSlots : Offered(r.got[t])
  BY <1>2, <1>4, <1>5
<1> HIDE DEF r
<1>7. QED
  BY <1>3, <1>5, <1>6, RunGoesOn

LEMMA RunIsPrepared == ASSUME SettingsTypeOK, RunOK, RunPrepares PROVE RunOK'
<1> DEFINE c == resolveHarnessConfig(run.got)
           auth == getAuthArtifacts(c.harness)
           given == prepareHarness(c.harness, auth, c.model)
           r == [NoRun EXCEPT !.at = "prepared", !.sandbox = run.sandbox, !.harness = c.harness,
                              !.model = given.model, !.credential = given.credential]
<1>1. c.harness \in Harnesses /\ c.model \in {Nothing, c.harness}
  BY ResolvedFits
<1>2. CASE run' = RunFailed
  BY <1>2, RunFails
<1>3. CASE run' = r /\ (c.harness = "opencode" \/ auth # "none")
  <2>1. /\ given.model \in {Nothing, c.harness}
        /\ given.credential \in {"none", "api-key", "files-and-env"}
        /\ c.harness # "opencode" /\ auth # "none" => given.credential # "none"
    <3>1. oauth \in BOOLEAN
      BY DEF SettingsTypeOK
    <3> HIDE DEF c
    <3>2. QED
      BY <1>1, <3>1, PreparedFits
  <2> HIDE DEF c, auth, given
  <2>2. /\ r.at = "prepared" /\ r.got = NoRun.got /\ r.harness = c.harness
        /\ r.model = given.model /\ r.credential = given.credential
    BY DEF NoRun
  <2>3. NoRun \in Preparations /\ \A s \in HarnessSlots : NoRun.got[s] = Nothing
    <3>1. NoRun = [NoRun EXCEPT !.at = "new"]
      BY DEF NoRun
    <3>2. QED
      BY <3>1, NoRunType
  <2>4. r \in Preparations
    BY <1>1, <2>1, <2>3 DEF RunOK, Preparations
  <2>5. \A s \in HarnessSlots : Offered(r.got[s])
    BY <2>2, <2>3 DEF Offered
  <2> HIDE DEF r
  <2>6. QED
    BY <1>3, <2>1, <2>2, <2>4, <2>5 DEF RunOK, RunIsEquipped, Offered
<1>4. QED
  BY <1>2, <1>3 DEF RunPrepares

-----------------------------------------------------------------------------
\* What a request does, besides writing its rows.
LEMMA RequestStepFits ==
  ASSUME SettingsTypeOK, RowsOK, ReqOK, NEW q \in Requests, RequestStep(q)
  PROVE  /\ project' \in Projects \cup {Nothing} /\ RowsOK' /\ ReqOK'
         /\ lock' \in [Slots \cup {"row"} -> Requests \cup {Nothing}]
         /\ oauth' = oauth /\ run' = run
<1>1. \A p \in Requests : RequestFits(p)
  BY DEF ReqOK
<1>2. ASSUME NEW s, NEW v, Sets(q, s, v)
      PROVE  project' = project /\ rows' = rows /\ lock' = lock /\ oauth' = oauth /\ run' = run
  BY <1>2 DEF Sets, world
<1>3. rows' = rows => RowsOK'
  BY DEF RowsOK, Offered
<1>4. project' = project => project' \in Projects \cup {Nothing}
  BY DEF SettingsTypeOK
<1>5. KeepsLocks(q) => lock' \in [Slots \cup {"row"} -> Requests \cup {Nothing}]
  BY DEF KeepsLocks
<1>6. CASE updateWorkspace(q) \/ updateTask(q)
  <2>1. PICK s \in HarnessSlots, c \in HarnessSettings : validateAgentConfig(c) /\ Sets(q, s, c)
    BY <1>6 DEF updateWorkspace, updateTask, HarnessSlots, HarnessSettings
  <2>2. ReqOK'
    BY <1>1, <2>1, ValidIsOffered, SetsFits
  <2>3. QED
    BY <1>2, <1>3, <1>4, <1>5, <2>1, <2>2, LocksAsTheyAre
<1>7. CASE putProjectSandboxType(q) \/ putWorkspaceSandboxType(q)
  <2>1. PICK s \in SandboxSlots, type \in SandboxSettings : Sets(q, s, type)
    BY <1>7 DEF putProjectSandboxType, putWorkspaceSandboxType, SandboxSlots, SandboxSettings
  <2>2. ReqOK'
    BY <1>1, <2>1, SetsFits
  <2>3. QED
    BY <1>2, <1>3, <1>4, <1>5, <2>1, <2>2, LocksAsTheyAre
<1>8. CASE ValidatesPatch(q)
  <2>1. project' = project /\ rows' = rows /\ lock' = lock /\ oauth' = oauth /\ run' = run
    BY <1>8 DEF ValidatesPatch, world
  <2>2. QED
    BY <1>1, <1>3, <1>4, <1>5, <1>8, <2>1, ValidatedFits, LocksAsTheyAre
<1>9. CASE Updates(q) \/ Finds(q) \/ DeletesRow(q) \/ Inserts(q)
  <2>1. project' = project /\ rows' = rows /\ oauth' = oauth /\ run' = run
    BY <1>9 DEF Updates, Finds, DeletesRow, Inserts, world
  <2>2. lock' \in [Slots \cup {"row"} -> Requests \cup {Nothing}]
    <3>1. CASE lock' = lock
      BY <3>1 DEF SettingsTypeOK
    <3>2. ASSUME NEW s, lock' = [lock EXCEPT ![s] = q] PROVE lock' \in [Slots \cup {"row"} -> Requests \cup {Nothing}]
      BY <3>2 DEF SettingsTypeOK
    <3>3. CASE Frees(q)
      BY <3>3, FreesRows
    <3>4. QED
      BY <1>9, <3>1, <3>2, <3>3 DEF Updates, Finds, DeletesRow, Inserts, Fails
  <2>3. QED
    BY <1>1, <1>3, <1>4, <1>9, <2>1, <2>2, StatementFits
<1>10. CASE Commits(q)
  <2>1. oauth' = oauth /\ run' = run /\ lock' \in [Slots \cup {"row"} -> Requests \cup {Nothing}]
    BY <1>10, FreesRows DEF Commits, world
  <2>2. QED
    BY <1>1, <1>10, <2>1, CommitFits, CommitStores, CommitProject
<1>11. QED
  BY <1>6, <1>7, <1>8, <1>9, <1>10 DEF RequestStep

\* The invariant, by the part of the state it is about.
SettingsParts ==
  /\ project \in Projects \cup {Nothing} /\ oauth \in BOOLEAN
  /\ lock \in [Slots \cup {"row"} -> Requests \cup {Nothing}]
  /\ RowsOK /\ ReqOK /\ RunOK

LEMMA SettingsSplit == SettingsParts <=> SettingsTypeOK /\ SettingsInv
<1>1. SettingsParts => SettingsTypeOK
  BY DEF SettingsParts, SettingsTypeOK, RowsOK, ReqOK, RunOK, TaskRequests, OtherRequests
<1>2. SettingsParts => SettingsInv
  BY DEF SettingsParts, SettingsInv, RowsOK, ReqOK, RunOK
<1>3. SettingsTypeOK /\ SettingsInv => SettingsParts
  BY DEF SettingsParts, SettingsTypeOK, SettingsInv, RowsOK, ReqOK, RunOK, TaskRequests, OtherRequests
<1>4. QED
  BY <1>1, <1>2, <1>3

LEMMA SettingsStart == SettingsInit => SettingsParts
<1> SUFFICES ASSUME SettingsInit PROVE SettingsParts
  OBVIOUS
<1>1. project \in Projects \cup {Nothing} /\ oauth \in BOOLEAN
  <2>1. PICK forge \in Hosts, path \in Paths, secret \in BOOLEAN, tasks \in BOOLEAN :
          \E url \in Stored(forge, path) :
            project = [host |-> forge, repository |-> url, secret |-> secret, tasks |-> tasks]
    BY DEF SettingsInit
  <2>2. PICK url \in Stored(forge, path) :
          project = [host |-> forge, repository |-> url, secret |-> secret, tasks |-> tasks]
    BY <2>1
  <2>3. path \in Seq(STRING)
    BY ForgeAssumption
  <2>4. url \in Urls
    BY <2>3, UrlIsBuilt DEF Stored, Urls
  <2>5. QED
    BY <2>2, <2>4 DEF Projects, SettingsInit
<1>2. lock \in [Slots \cup {"row"} -> Requests \cup {Nothing}]
  BY DEF SettingsInit
<1>3. \A s \in Slots : rows[s] = Nothing
  BY DEF SettingsInit
<1>4. RowsOK
  <2>1. rows = [s \in Slots |-> rows[s]]
    BY DEF SettingsInit
  <2>2. QED
    BY <1>3, <2>1, SlotsDiffer DEF RowsOK, Offered, HarnessSettings, SandboxSettings
<1>5. ReqOK
  <2>1. Idle \in OtherRequests
    BY NoPatchType DEF Idle, OtherRequests, Setting, Steps, SandboxSettings
  <2>2. /\ Idle \in TaskRequests \cup OtherRequests
        /\ Idle.at = "new" /\ Idle.slot = Nothing /\ Idle.value = Nothing /\ Idle.holds = FALSE
        /\ Idle.patch = NoPatch
    BY <2>1 DEF Idle
  <2>3. PatchFits(NoPatch) /\ Offered(Nothing)
    BY DEF PatchFits, NoPatch, Offered
  <2>4. \A q \in Requests : req[q] = Idle /\ Fits(q, Idle, lock)
    BY <2>2, <2>3 DEF SettingsInit, Fits
  <2>5. req \in [Requests -> TaskRequests \cup OtherRequests]
    BY <2>2 DEF SettingsInit
  <2>6. QED
    BY <2>4, <2>5, FitsIs DEF ReqOK
<1>6. RunOK
  <2>1. NoRun = [NoRun EXCEPT !.at = "new"]
    BY DEF NoRun
  <2>2. NoRun \in Preparations /\ NoRun.at = "new" /\ \A s \in HarnessSlots : NoRun.got[s] = Nothing
    BY <2>1, NoRunType
  <2>3. run = NoRun
    BY DEF SettingsInit
  <2>4. QED
    BY <2>2, <2>3 DEF RunOK, RunIsEquipped, Offered
<1>7. QED
  BY <1>1, <1>2, <1>4, <1>5, <1>6 DEF SettingsParts

LEMMA SettingsStay == SettingsParts /\ [SettingsNext]_settingsVars => SettingsParts'
<1> SUFFICES ASSUME SettingsParts, [SettingsNext]_settingsVars PROVE SettingsParts'
  OBVIOUS
<1>1. SettingsTypeOK /\ RowsOK /\ ReqOK /\ RunOK
  BY SettingsSplit DEF SettingsParts
<1>2. rows' = rows => RowsOK'
  BY <1>1 DEF RowsOK, Offered
<1>3. req' = req /\ lock' = lock => ReqOK'
  <2>1. SUFFICES ASSUME req' = req, lock' = lock PROVE ReqOK'
    OBVIOUS
  <2>2. req' \in [Requests -> TaskRequests \cup OtherRequests]
    BY <1>1, <2>1 DEF ReqOK
  <2>3. \A q \in Requests : Fits(q, req'[q], lock')
    BY <1>1, <2>1, FitsIs DEF ReqOK
  <2>4. QED
    BY <2>2, <2>3 DEF ReqOK, RequestFits, Fits, TaskRequests, OtherRequests
<1>4. run' = run => RunOK'
  BY <1>1 DEF RunOK, RunIsEquipped, Offered
<1>5. CASE UNCHANGED settingsVars
  BY <1>2, <1>3, <1>4, <1>5 DEF SettingsParts, settingsVars
<1>6. CASE Creates
  <2>1. oauth' = oauth /\ lock' = lock /\ req' = req /\ run' = run
    BY <1>6 DEF Creates, world
  <2>2. QED
    BY <1>1, <1>3, <1>4, <1>6, <2>1, CreateStores DEF SettingsParts
<1>7. CASE Deletes
  BY <1>2, <1>3, <1>4, <1>7 DEF SettingsParts, Deletes, world
<1>8. CASE Connects
  <2>1. oauth' \in BOOLEAN /\ project' = project /\ rows' = rows /\ lock' = lock /\ req' = req /\ run' = run
    BY <1>8 DEF Connects
  <2>2. QED
    BY <1>2, <1>3, <1>4, <2>1 DEF SettingsParts
<1>9. CASE RunChecksOut \/ RunReadsSandboxes \/ RunMatches \/ RunReads \/ RunPrepares
  <2>1. project' = project /\ rows' = rows /\ oauth' = oauth /\ lock' = lock /\ req' = req
    BY <1>9 DEF RunChecksOut, RunReadsSandboxes, RunMatches, RunReads, RunPrepares
  <2>2. RunOK'
    BY <1>1, <1>9, RunStarts, RunFindsSandbox, RunChooses, RunReadsOn, RunIsPrepared
  <2>3. QED
    BY <1>2, <1>3, <2>1, <2>2 DEF SettingsParts
<1>10. ASSUME NEW q \in Requests, RequestStep(q) PROVE SettingsParts'
  BY <1>1, <1>4, <1>10, RequestStepFits DEF SettingsParts
<1>11. QED
  BY <1>5, <1>6, <1>7, <1>8, <1>9, <1>10 DEF SettingsNext

LEMMA SettingsHold == SettingsSpec => []SettingsParts
  BY SettingsStart, SettingsStay, PTL DEF SettingsSpec

-----------------------------------------------------------------------------
\* Rows, requests and the run keep their shape, whatever happens at once.
THEOREM SettingsTypeCorrect == SettingsSpec => []SettingsTypeOK
  BY SettingsHold, SettingsSplit, PTL

\* A run that starts has a model its harness offers and, but for OpenCode, a
\* credential, whatever was set or disconnected while it read its settings.
THEOREM RunEquipped == SettingsSpec => []RunIsEquipped
<1>1. SettingsParts => RunIsEquipped
  BY DEF SettingsParts, RunOK
<1>2. QED
  BY <1>1, SettingsHold, PTL

\* Only its own commit answers a request.
LEMMA CommitAnswers ==
  ASSUME SettingsTypeOK, NEW q \in Requests, [SettingsNext]_settingsVars,
         req'[q].at = "answered", req[q].at = "commit"
  PROVE  Commits(q)
<1>1. \A x \in TaskRequests \cup OtherRequests : [x EXCEPT !.at = "insert"].at = "insert"
  BY RequestChanged DEF Steps
<1>2. ASSUME NEW p \in Requests, RequestStep(p) PROVE p = q /\ Commits(q)
  <2>1. CASE p # q
    <3>1. ASSUME NEW x, req' = [req EXCEPT ![p] = x] PROVE FALSE
      <4>1. req'[q] = req[q]
        BY <2>1, <3>1 DEF SettingsTypeOK
      <4>2. QED
        BY <4>1
    <3>2. CASE Commits(p)
      <4> DEFINE base == IF req[p].holds THEN FindGone(req[p].slot) ELSE req
      <4>1. req' = [base EXCEPT ![p] = Ended("answered")]
        BY <3>2 DEF Commits
      <4>2. base = [r \in Requests |-> base[r]]
        BY DEF SettingsTypeOK, FindGone
      <4>3. base[q] = req[q]
        BY DEF FindGone
      <4> HIDE DEF base
      <4>4. req'[q] = req[q]
        BY <2>1, <4>1, <4>2, <4>3
      <4>5. QED
        BY <4>4
    <3>3. CASE ~ Commits(p)
      BY <1>2, <3>1, <3>3 DEF RequestStep, updateWorkspace, updateTask, putProjectSandboxType,
        putWorkspaceSandboxType, Sets, ValidatesPatch, Updates, Finds, DeletesRow, Inserts, Fails, Proceeds
    <3>4. QED
      BY <3>2, <3>3
  <2>2. CASE p = q
    BY <1>2, <2>2 DEF RequestStep, updateWorkspace, updateTask, putProjectSandboxType,
      putWorkspaceSandboxType, Sets, ValidatesPatch, Updates, Finds, DeletesRow, Inserts
  <2>3. QED
    BY <2>1, <2>2
<1>3. req' = req => FALSE
  OBVIOUS
<1>4. QED
  BY <1>2, <1>3 DEF SettingsNext, settingsVars, Creates, Deletes, Connects, RunChecksOut,
    RunReadsSandboxes, RunMatches, RunReads, RunPrepares

\* A setting that is answered is the one in force when it is.
THEOREM AnswersAreStored == SettingsSpec => AnsweredIsStored
<1>1. ASSUME SettingsParts, [SettingsNext]_settingsVars
      PROVE  \A q \in Requests :
               req'[q].at = "answered" /\ req[q].at = "commit" /\ req[q].value # Nothing
                 => rows'[req[q].slot] = req[q].value
  <2>1. SettingsTypeOK /\ RowsOK /\ \A q \in Requests : RequestFits(q)
    BY <1>1, SettingsSplit DEF SettingsParts, ReqOK
  <2>2. QED
    BY <1>1, <2>1, CommitAnswers, CommitStores
<1>2. QED
  BY <1>1, SettingsHold, PTL DEF SettingsSpec, AnsweredIsStored

\* A project that is moved, by whom nobody came before, keeps its repository
\* under its forge.
THEOREM UnderForge == SettingsSpec => StaysUnderForge
<1>1. ASSUME SettingsParts, [SettingsNext]_settingsVars
      PROVE  \A q \in Requests :
               (/\ req'[q].at = "answered" /\ req[q].at = "commit"
                /\ project # Nothing /\ req[q].patch.saw = project.host)
                 => \/ project' = project
                    \/ req[q].patch.host = Nothing /\ req[q].patch.repository = Nothing
                    \/ project'.repository.host = project'.host
  <2>1. SettingsTypeOK /\ \A q \in Requests : RequestFits(q)
    BY <1>1, SettingsSplit DEF SettingsParts, ReqOK
  <2>2. SUFFICES ASSUME NEW q \in Requests, req'[q].at = "answered", req[q].at = "commit",
                        project # Nothing, req[q].patch.saw = project.host, project' # project,
                        ~ (req[q].patch.host = Nothing /\ req[q].patch.repository = Nothing)
                 PROVE  project'.repository.host = project'.host
    OBVIOUS
  <2>3. Commits(q)
    BY <1>1, <2>1, <2>2, CommitAnswers
  <2>4. project' = Patched(project, req[q].patch) /\ project \in Projects /\ req[q].patch \in Patching
    BY <2>1, <2>2, <2>3, CommitProject, RequestType DEF SettingsTypeOK
  <2>5. PatchFits(req[q].patch)
    BY <2>1, FitsIs DEF Fits
  <2>6. QED
    BY <2>2, <2>4, <2>5, PatchedType DEF PatchFits
<1>2. QED
  BY <1>1, SettingsHold, PTL DEF SettingsSpec, StaysUnderForge
=============================================================================
