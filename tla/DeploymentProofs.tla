-------------------------- MODULE DeploymentProofs ---------------------------
(***************************************************************************)
(* Theorems about the deploy script, for any number of invocations and     *)
(* versions.                                                               *)
(***************************************************************************)
EXTENDS Deployment, TLAPS

\* The invocations, the links and the containers keep their shape.
LEMMA ExitsKeepsShape ==
    ASSUME TypeOK, NEW i \in Invocations, NEW e \in Events, Exits(i, e)
    PROVE  script' \in [Invocations -> Scripts] /\ lock' \in Invocations \cup {Nobody}
<1>1. script[i].vm \in Flags
  BY DEF TypeOK, Scripts
<1>2. Rest("exited", script[i].vm, e) \in Scripts
  BY <1>1 DEF Scripts, Rest
<1>3. QED
  BY <1>2 DEF Exits, TypeOK

\* A field of a script is replaced.
LEMMA FieldsKeepShape ==
    ASSUME NEW f \in [Invocations -> Scripts], NEW i \in Invocations
    PROVE  /\ \A at \in Busy \cup {"waiting", "started", "exited"} :
                 [f EXCEPT ![i].at = at] \in [Invocations -> Scripts]
           /\ \A v \in Versions \cup {NoVersion} :
                 /\ [f EXCEPT ![i].version = v] \in [Invocations -> Scripts]
                 /\ [f EXCEPT ![i].previous = v] \in [Invocations -> Scripts]
                 /\ [f EXCEPT ![i].target = v] \in [Invocations -> Scripts]
           /\ \A flag \in Flags : [f EXCEPT ![i].vm = flag] \in [Invocations -> Scripts]
           /\ \A n \in 0..4 : [f EXCEPT ![i].copy = n] \in [Invocations -> Scripts]
           /\ \A rc \in 0..1 : [f EXCEPT ![i].rc = rc] \in [Invocations -> Scripts]
<1>1. ASSUME NEW at \in Busy \cup {"waiting", "started", "exited"}
      PROVE  [f EXCEPT ![i].at = at] \in [Invocations -> Scripts]
  BY DEF Scripts
<1>2. ASSUME NEW v \in Versions \cup {NoVersion}
      PROVE  /\ [f EXCEPT ![i].version = v] \in [Invocations -> Scripts]
             /\ [f EXCEPT ![i].previous = v] \in [Invocations -> Scripts]
             /\ [f EXCEPT ![i].target = v] \in [Invocations -> Scripts]
  BY DEF Scripts
<1>3. ASSUME NEW flag \in Flags PROVE [f EXCEPT ![i].vm = flag] \in [Invocations -> Scripts]
  BY DEF Scripts
<1>4. ASSUME NEW n \in 0..4 PROVE [f EXCEPT ![i].copy = n] \in [Invocations -> Scripts]
  BY DEF Scripts
<1>5. ASSUME NEW rc \in 0..1 PROVE [f EXCEPT ![i].rc = rc] \in [Invocations -> Scripts]
  BY DEF Scripts
<1>6. QED
  BY <1>1, <1>2, <1>3, <1>4, <1>5

LEMMA GotoKeepsShape ==
    ASSUME TypeOK, NEW i \in Invocations,
           NEW at \in Busy \cup {"waiting", "started", "exited"}, Goto(i, at)
    PROVE  script' \in [Invocations -> Scripts]
  BY FieldsKeepShape DEF Goto, TypeOK

\* An exit is one script's, and leaves it at rest.
LEMMA ExitsMoves ==
    ASSUME TypeOK, NEW i \in Invocations, NEW e, Exits(i, e)
    PROVE  /\ script'[i] = Rest("exited", script[i].vm, e)
           /\ script'[i].at = "exited" /\ script'[i].vm = script[i].vm /\ script'[i].said = e
           /\ \A j \in Invocations \ {i} : script'[j] = script[j]
<1>1. script' = [script EXCEPT ![i] = Rest("exited", script[i].vm, e)]
  BY DEF Exits
<1>2. script'[i] = Rest("exited", script[i].vm, e) /\ \A j \in Invocations \ {i} : script'[j] = script[j]
  BY <1>1 DEF TypeOK
<1>3. QED
  BY <1>2 DEF Rest

\* A failed deployment exits, or goes on with the version to roll back to.
LEMMA DeployFailsMoves ==
    ASSUME TypeOK, NEW i \in Invocations, DeployFails(i)
    PROVE  /\ script'[i].at \in {"pull", "exited"}
           /\ script'[i].at = "pull" => /\ script[i].target = script[i].version
                                        /\ script'[i].target = script[i].previous
                                        /\ script'[i].version = script[i].version
                                        /\ script'[i].previous = script[i].previous
                                        /\ script[i].previous # NoVersion
                                        /\ UNCHANGED lock
           /\ script'[i].at = "exited" => /\ script'[i].said \in {"rollback skipped", "rollback failed"}
                                          /\ lock' = IF lock = i THEN Nobody ELSE lock
           /\ \A j \in Invocations \ {i} : script'[j] = script[j]
<1>1. CASE script[i].target = script[i].version /\ script[i].previous \notin {NoVersion, script[i].version}
  <2>1. script' = [script EXCEPT ![i].at = "pull", ![i].target = script[i].previous] /\ UNCHANGED lock
    BY <1>1 DEF DeployFails
  <2>2. /\ script'[i].at = "pull" /\ script'[i].target = script[i].previous
        /\ script'[i].version = script[i].version /\ script'[i].previous = script[i].previous
        /\ \A j \in Invocations \ {i} : script'[j] = script[j]
    BY <2>1 DEF TypeOK, Scripts
  <2>3. QED
    BY <1>1, <2>1, <2>2
<1>2. CASE ~(script[i].target = script[i].version /\ script[i].previous \notin {NoVersion, script[i].version})
  <2>1. PICK e \in {"rollback skipped", "rollback failed"} : Exits(i, e)
    BY <1>2 DEF DeployFails
  <2>2. script'[i].at = "exited" /\ script'[i].said = e /\ \A j \in Invocations \ {i} : script'[j] = script[j]
    BY <2>1, ExitsMoves
  <2>3. lock' = IF lock = i THEN Nobody ELSE lock
    BY <2>1 DEF Exits
  <2>4. QED
    BY <2>1, <2>2, <2>3
<1>3. QED
  BY <1>1, <1>2

LEMMA UpUndoneKeepsShape ==
    ASSUME TypeOK, NEW v \in Versions \cup {NoVersion}, UpUndone(v)
    PROVE  app' \in [version : Versions \cup {NoVersion}, health : {"healthy", "unhealthy"}]
<1>1. CASE app' = app
  BY <1>1 DEF TypeOK
<1>2. CASE app' = [version |-> NoVersion, health |-> "unhealthy"]
  BY <1>2
<1>3. CASE app' \in [version : {v}, health : {"healthy", "unhealthy"}]
  BY <1>3
<1>4. QED
  BY <1>1, <1>2, <1>3 DEF UpUndone

LEMMA DeployFailsKeepsShape ==
    ASSUME TypeOK, NEW i \in Invocations, DeployFails(i)
    PROVE  script' \in [Invocations -> Scripts] /\ lock' \in Invocations \cup {Nobody}
<1>1. CASE script[i].target = script[i].version /\ script[i].previous \notin {NoVersion, script[i].version}
  <2> DEFINE f == [script EXCEPT ![i].at = "pull"]
  <2>1. script[i].previous \in Versions \cup {NoVersion}
    BY DEF TypeOK, Scripts
  <2>2. f \in [Invocations -> Scripts]
    BY FieldsKeepShape DEF TypeOK, Busy
  <2>3. script' = [f EXCEPT ![i].target = script[i].previous] /\ lock' = lock
    BY <1>1 DEF DeployFails
  <2> HIDE DEF f
  <2>4. [f EXCEPT ![i].target = script[i].previous] \in [Invocations -> Scripts]
    BY <2>1, <2>2, FieldsKeepShape
  <2>5. QED
    BY <2>3, <2>4 DEF TypeOK
<1>2. CASE ~(script[i].target = script[i].version /\ script[i].previous \notin {NoVersion, script[i].version})
  <2>1. PICK e \in {"rollback skipped", "rollback failed"} : Exits(i, e)
    BY <1>2 DEF DeployFails
  <2>2. e \in Events
    BY DEF Events
  <2>3. QED
    BY <2>1, <2>2, ExitsKeepsShape
<1>3. QED
  BY <1>1, <1>2

LEMMA StartsKeepsShape ==
    ASSUME TypeOK, NEW i \in Invocations, Starts(i)
    PROVE  script' \in [Invocations -> Scripts]
<1>1. ASSUME NEW v \in Versions, script' = [script EXCEPT ![i].at = "started", ![i].version = v]
      PROVE  script' \in [Invocations -> Scripts]
  <2> DEFINE f == [script EXCEPT ![i].at = "started"]
  <2>1. f \in [Invocations -> Scripts]
    BY FieldsKeepShape DEF TypeOK
  <2>2. script' = [f EXCEPT ![i].version = v]
    BY <1>1
  <2> HIDE DEF f
  <2>3. [f EXCEPT ![i].version = v] \in [Invocations -> Scripts]
    BY <2>1, FieldsKeepShape
  <2>4. QED
    BY <2>2, <2>3
<1>2. CASE Goto(i, "exited")
  BY <1>2, FieldsKeepShape DEF Goto, TypeOK
<1>3. QED
  BY <1>1, <1>2 DEF Starts

LEMMA TakesLockKeepsShape ==
    ASSUME TypeOK, NEW i \in Invocations, TakesLock(i)
    PROVE  script' \in [Invocations -> Scripts]
<1>1. PICK enabled \in Flags :
        script' = [script EXCEPT ![i].at = "pull", ![i].previous = recorded,
                                 ![i].target = script[i].version, ![i].vm = enabled]
  BY DEF TakesLock
<1> DEFINE f == [script EXCEPT ![i].at = "pull"]
           g == [f EXCEPT ![i].previous = recorded]
           h == [g EXCEPT ![i].target = script[i].version]
<1>2. script' = [h EXCEPT ![i].vm = enabled]
  BY <1>1
<1>3. f \in [Invocations -> Scripts] /\ script[i].version \in Versions \cup {NoVersion}
  BY FieldsKeepShape DEF TypeOK, Scripts, Busy
<1> HIDE DEF f
<1>4. g \in [Invocations -> Scripts]
  BY <1>3, FieldsKeepShape DEF TypeOK
<1> HIDE DEF g
<1>5. h \in [Invocations -> Scripts]
  BY <1>3, <1>4, FieldsKeepShape
<1> HIDE DEF h
<1>6. [h EXCEPT ![i].vm = enabled] \in [Invocations -> Scripts]
  BY <1>5, FieldsKeepShape
<1>7. QED
  BY <1>2, <1>6

LEMMA CreateContainerKeepsShape ==
    ASSUME TypeOK, NEW i \in Invocations,
           script' = [script EXCEPT ![i].at = "copy", ![i].copy = 1, ![i].rc = 0]
    PROVE  script' \in [Invocations -> Scripts]
<1> DEFINE f == [script EXCEPT ![i].at = "copy"]
           g == [f EXCEPT ![i].copy = 1]
<1>1. f \in [Invocations -> Scripts]
  BY FieldsKeepShape DEF TypeOK, Busy
<1>2. script' = [g EXCEPT ![i].rc = 0]
  OBVIOUS
<1>3. 1 \in 0..4 /\ 0 \in 0..1
  OBVIOUS
<1> HIDE DEF f
<1>4. g \in [Invocations -> Scripts]
  BY <1>1, <1>3, FieldsKeepShape
<1> HIDE DEF g
<1>5. [g EXCEPT ![i].rc = 0] \in [Invocations -> Scripts]
  BY <1>3, <1>4, FieldsKeepShape
<1>6. QED
  BY <1>2, <1>5

LEMMA CopyEndsKeepsShape ==
    ASSUME TypeOK, NEW i \in Invocations, script[i].copy \in Artifacts, CopyEnds(i)
    PROVE  script' \in [Invocations -> Scripts]
<1> DEFINE f == [script EXCEPT ![i].at = "copy"]
           n == script[i].copy + 1
           g == [f EXCEPT ![i].copy = n]
<1>1. f \in [Invocations -> Scripts]
  BY FieldsKeepShape DEF TypeOK, Busy
<1>2. script' = g \/ script' = [g EXCEPT ![i].rc = 1]
  BY DEF CopyEnds, TypeOK
<1>3. n \in 0..4 /\ 1 \in 0..1
  BY DEF Artifacts
<1> HIDE DEF f, n
<1>4. g \in [Invocations -> Scripts]
  BY <1>1, <1>3, FieldsKeepShape
<1> HIDE DEF g
<1>5. [g EXCEPT ![i].rc = 1] \in [Invocations -> Scripts]
  BY <1>3, <1>4, FieldsKeepShape
<1>6. QED
  BY <1>2, <1>4, <1>5

THEOREM TypeCorrect == Spec => []TypeOK
<1>1. Init => TypeOK
  BY DeploymentAssumption DEF Init, Rest, TypeOK, Scripts, Events, Flags, Busy, Artifacts
<1>2. TypeOK /\ [Next]_vars => TypeOK'
  <2> SUFFICES ASSUME TypeOK, [Next]_vars PROVE TypeOK'
    OBVIOUS
  <2> USE DEF host, At
  <2>1. ASSUME NEW i \in Invocations, Starts(i) \/ Refused(i) \/ NoComposeFile(i)
        PROVE  TypeOK'
    <3>1. Starts(i) \/ Goto(i, "exited")
      BY <2>1 DEF Refused, NoComposeFile
    <3>2. script' \in [Invocations -> Scripts]
      BY <3>1, StartsKeepsShape, GotoKeepsShape
    <3>3. script'[i].at # "copying" /\ \A j \in Invocations \ {i} : script'[j] = script[j]
      BY <2>1 DEF Starts, Refused, NoComposeFile, Goto, TypeOK, Scripts
    <3>4. QED
      BY <2>1, <3>2, <3>3 DEF Starts, Refused, NoComposeFile, TypeOK
  <2>2. ASSUME NEW i \in Invocations, TakesLock(i) PROVE TypeOK'
    <3>1. script'[i].at # "copying" /\ \A j \in Invocations \ {i} : script'[j] = script[j]
      BY <2>2 DEF TakesLock, TypeOK, Scripts
    <3>2. QED
      BY <2>2, <3>1, TakesLockKeepsShape DEF TakesLock, TypeOK
  <2>3. ASSUME NEW i \in Invocations, DeployFails(i)
        PROVE  /\ script' \in [Invocations -> Scripts] /\ lock' \in Invocations \cup {Nobody}
               /\ \A j \in Invocations : script'[j].at = "copying" => script'[j].copy \in Artifacts
    <3>1. script'[i].at # "copying" /\ \A j \in Invocations \ {i} : script'[j] = script[j]
      BY <2>3, DeployFailsMoves
    <3>2. QED
      BY <2>3, <3>1, DeployFailsKeepsShape DEF TypeOK
  <2>4. ASSUME NEW i \in Invocations, Pull(i) PROVE TypeOK'
    <3>1. CASE DeployFails(i)
      BY <2>4, <3>1, <2>3 DEF Pull, TypeOK
    <3>2. CASE (Goto(i, "create") \/ Goto(i, "up")) /\ UNCHANGED lock
      <4>1. script' \in [Invocations -> Scripts]
        BY <3>2, GotoKeepsShape DEF Busy
      <4>2. script'[i].at # "copying" /\ \A j \in Invocations \ {i} : script'[j] = script[j]
        BY <3>2 DEF Goto, TypeOK, Scripts
      <4>3. QED
        BY <2>4, <3>2, <4>1, <4>2 DEF Pull, TypeOK
    <3>3. QED
      BY <2>4, <3>1, <3>2 DEF Pull
  <2>5. ASSUME NEW i \in Invocations, CreateContainer(i) PROVE TypeOK'
    <3>1. CASE DeployFails(i)
      BY <2>5, <3>1, <2>3 DEF CreateContainer, TypeOK
    <3>2. CASE script' = [script EXCEPT ![i].at = "copy", ![i].copy = 1, ![i].rc = 0] /\ UNCHANGED lock
      <4>1. script'[i].at # "copying" /\ \A j \in Invocations \ {i} : script'[j] = script[j]
        BY <3>2 DEF TypeOK, Scripts
      <4>2. QED
        BY <2>5, <3>2, <4>1, CreateContainerKeepsShape DEF CreateContainer, TypeOK
    <3>3. QED
      BY <2>5, <3>1, <3>2 DEF CreateContainer
  <2>6. ASSUME NEW i \in Invocations, CopyBegins(i) PROVE TypeOK'
    <3>1. script' \in [Invocations -> Scripts]
      BY <2>6, GotoKeepsShape DEF CopyBegins, Busy
    <3>2. script'[i].copy \in Artifacts /\ \A j \in Invocations \ {i} : script'[j] = script[j]
      BY <2>6 DEF CopyBegins, Goto, TypeOK, Scripts
    <3>3. QED
      BY <2>6, <3>1, <3>2 DEF CopyBegins, TypeOK
  <2>7. ASSUME NEW i \in Invocations, CopyEnds(i) PROVE TypeOK'
    <3>1. base' \in [Versions -> SUBSET Artifacts]
      <4>1. script[i].copy \in Artifacts
        BY <2>7 DEF CopyEnds, TypeOK
      <4>2. QED
        BY <2>7, <4>1 DEF CopyEnds, TypeOK
    <3>2. script' \in [Invocations -> Scripts]
      BY <2>7, CopyEndsKeepsShape DEF CopyEnds, TypeOK
    <3>3. script'[i].at # "copying" /\ \A j \in Invocations \ {i} : script'[j] = script[j]
      BY <2>7 DEF CopyEnds, TypeOK, Scripts
    <3>4. QED
      BY <2>7, <3>1, <3>2, <3>3 DEF CopyEnds, TypeOK
  <2>8. ASSUME NEW i \in Invocations, Repoint(i) \/ Up(i) PROVE TypeOK'
    <3>1. /\ script' \in [Invocations -> Scripts] /\ lock' \in Invocations \cup {Nobody}
          /\ \A j \in Invocations : script'[j].at = "copying" => script'[j].copy \in Artifacts
      <4>1. CASE DeployFails(i)
        BY <4>1, <2>3
      <4>2. CASE (Goto(i, "up") \/ Goto(i, "up done")) /\ UNCHANGED lock
        <5>1. script' \in [Invocations -> Scripts]
          BY <4>2, GotoKeepsShape DEF Busy
        <5>2. script'[i].at # "copying" /\ \A j \in Invocations \ {i} : script'[j] = script[j]
          BY <4>2 DEF Goto, TypeOK, Scripts
        <5>3. QED
          BY <4>2, <5>1, <5>2 DEF TypeOK
      <4>3. QED
        BY <2>8, <4>1, <4>2 DEF Repoint, Up
    <3>2. script[i].target \in Versions \cup {NoVersion}
      BY DEF TypeOK, Scripts
    <3>3. app' \in [version : Versions \cup {NoVersion}, health : {"healthy", "unhealthy"}]
      <4>1. CASE app' = [version |-> script[i].target, health |-> "healthy"]
        BY <3>2, <4>1
      <4>2. CASE app' = app
        BY <4>2 DEF TypeOK
      <4>3. CASE UpUndone(script[i].target)
        BY <3>2, <4>3, UpUndoneKeepsShape
      <4>4. QED
        BY <2>8, <4>1, <4>2, <4>3 DEF Repoint, Up
    <3>4. QED
      BY <2>8, <3>1, <3>2, <3>3 DEF Repoint, Up, TypeOK
  <2>9. ASSUME NEW i \in Invocations, Record(i) PROVE TypeOK'
    <3>1. script' \in [Invocations -> Scripts] /\ lock' \in Invocations \cup {Nobody}
      BY <2>9, ExitsKeepsShape DEF Record, Events
    <3>2. script'[i].at # "copying" /\ \A j \in Invocations \ {i} : script'[j] = script[j]
      BY <2>9, ExitsMoves DEF Record
    <3>3. QED
      BY <2>9, <3>1, <3>2 DEF Record, TypeOK, Scripts
  <2>10. ASSUME NEW i \in Invocations, Killed(i) PROVE TypeOK'
    <3>1. script' \in [Invocations -> Scripts] /\ lock' \in Invocations \cup {Nobody}
      BY <2>10, ExitsKeepsShape DEF Killed, Events
    <3>2. script[i].target \in Versions \cup {NoVersion}
      BY DEF TypeOK, Scripts
    <3>3. script'[i].at # "copying" /\ \A j \in Invocations \ {i} : script'[j] = script[j]
      BY <2>10, ExitsMoves DEF Killed
    <3>4. QED
      BY <2>10, <3>1, <3>2, <3>3, UpUndoneKeepsShape DEF Killed, TypeOK
  <2>11. CASE UNCHANGED vars
    BY <2>11 DEF vars, TypeOK
  <2>12. QED
    BY <2>1, <2>2, <2>3, <2>4, <2>5, <2>6, <2>7, <2>8, <2>9, <2>10, <2>11 DEF Next
<1>3. QED
  BY <1>1, <1>2, PTL DEF Spec

-----------------------------------------------------------------------------
\* An invocation without the lock moves on: nothing changes for the one that has it.
LEMMA BystanderKeepsHostInv ==
    ASSUME TypeOK, HostInv, NEW i \in Invocations,
           script[i].at \in {"waiting", "started"}, script'[i].at \in {"started", "exited"},
           script'[i].at = "started" => script'[i].version \in Versions,
           \A j \in Invocations \ {i} : script'[j] = script[j],
           UNCHANGED <<lock, host, last>>
    PROVE  HostInv'
<1>1. i # lock /\ i # last
  BY DEF HostInv, LockInv, Busy
<1>2. LockInv'
  BY <1>1 DEF HostInv, LockInv, TypeOK, Busy
<1>3. (lock # Nobody => Works(script[lock]))'
  BY <1>1 DEF HostInv, Works, TypeOK, host
<1>4. HostAgrees'
  BY <1>1 DEF HostInv, HostAgrees, TypeOK, host
<1>5. QED
  BY <1>2, <1>3, <1>4 DEF HostInv

\* The invocation that has the lock goes on with it.
LEMMA HolderKeepsHostInv ==
    ASSUME TypeOK, HostInv, NEW i \in Invocations, lock = i,
           script'[i].at \in Busy, \A j \in Invocations \ {i} : script'[j] = script[j],
           UNCHANGED <<lock, last>>, Works(script[lock])'
    PROVE  HostInv'
<1>1. LockInv'
  BY DEF HostInv, LockInv, TypeOK, Busy
<1>2. HostAgrees'
  BY DeploymentAssumption DEF HostAgrees
<1>3. QED
  BY <1>1, <1>2 DEF HostInv

\* It exits, and if it reports a success the host agrees.
LEMMA ExitKeepsHostInv ==
    ASSUME TypeOK, HostInv, NEW i \in Invocations, lock = i, last' = last,
           script'[i].at = "exited", \A j \in Invocations \ {i} : script'[j] = script[j],
           lock' = Nobody,
           script'[i].said \in {"succeeded", "rolled back"} => HostAgrees'
    PROVE  HostInv'
<1>1. last = i
  BY DeploymentAssumption DEF HostInv, LockInv
<1>2. LockInv'
  BY <1>1, DeploymentAssumption DEF HostInv, LockInv, TypeOK, Busy
<1>3. HostAgrees'
  BY <1>1 DEF HostAgrees
<1>4. QED
  BY <1>2, <1>3 DEF HostInv

LEMMA FailureKeepsHostInv ==
    ASSUME TypeOK, HostInv, NEW i \in Invocations, lock = i, DeployFails(i),
           UNCHANGED <<recorded, last>>
    PROVE  HostInv'
<1>1. CASE script'[i].at = "pull"
  <2>1. Works(script[i]) /\ script[i].previous \in Versions \cup {NoVersion}
    BY DeploymentAssumption DEF HostInv, TypeOK, Scripts
  <2>2. /\ script'[i].version \in Versions /\ script'[i].target \in Versions
        /\ script'[i].previous = recorded' /\ script'[i].target = script'[i].previous
    BY <1>1, <2>1, DeployFailsMoves DEF Works
  <2>3. lock' = i
    BY <1>1, DeployFailsMoves
  <2>4. Works(script[lock])'
    BY <1>1, <2>2, <2>3 DEF Works
  <2>5. QED
    BY <1>1, <2>3, <2>4, DeployFailsMoves, HolderKeepsHostInv DEF Busy
<1>2. CASE script'[i].at = "exited"
  BY <1>2, DeployFailsMoves, ExitKeepsHostInv
<1>3. QED
  BY <1>1, <1>2, DeployFailsMoves

\* A deployment that says that it succeeded or rolled back leaves the host in agreement.
THEOREM HostConsistent == Spec => []HostAgrees
<1>1. Init => HostInv
  <2> SUFFICES ASSUME Init PROVE HostInv
    OBVIOUS
  <2>1. lock = Nobody /\ last = Nobody
    BY DEF Init
  <2>2. \A i \in Invocations : script[i].at = "waiting" /\ lock # i
    BY <2>1, DeploymentAssumption DEF Init, Rest
  <2>3. QED
    BY <2>1, <2>2 DEF HostInv, LockInv, HostAgrees, Busy
<1>2. TypeOK /\ HostInv /\ [Next]_vars => HostInv'
  <2> SUFFICES ASSUME TypeOK, HostInv, [Next]_vars PROVE HostInv'
    OBVIOUS
  <2> USE DEF At
  <2>0. \A i \in Invocations : script[i].at \in Busy => lock = i /\ Works(script[i])
    BY DeploymentAssumption DEF HostInv, LockInv
  <2>1. ASSUME NEW i \in Invocations, Starts(i) PROVE HostInv'
    <3>1. /\ script'[i].at \in {"started", "exited"}
          /\ script'[i].at = "started" => script'[i].version \in Versions
          /\ \A j \in Invocations \ {i} : script'[j] = script[j]
      BY <2>1 DEF Starts, Goto, TypeOK, Scripts
    <3>2. QED
      BY <2>1, <3>1, BystanderKeepsHostInv DEF Starts
  <2>2. ASSUME NEW i \in Invocations, Refused(i) \/ NoComposeFile(i) PROVE HostInv'
    <3>1. script'[i].at = "exited" /\ \A j \in Invocations \ {i} : script'[j] = script[j]
      BY <2>2 DEF Refused, NoComposeFile, Goto, TypeOK, Scripts
    <3>2. QED
      BY <2>2, <3>1, BystanderKeepsHostInv DEF Refused, NoComposeFile
  <2>3. ASSUME NEW i \in Invocations, TakesLock(i) PROVE HostInv'
    <3>1. /\ script'[i].at = "pull" /\ script'[i].previous = recorded
          /\ script'[i].target = script[i].version /\ script'[i].version = script[i].version
          /\ \A j \in Invocations \ {i} : script'[j] = script[j]
      BY <2>3 DEF TakesLock, TypeOK, Scripts
    <3>2. lock' = i /\ last' = i /\ recorded' = recorded
      BY <2>3 DEF TakesLock, host
    <3>3. script[i].version \in Versions
      BY <2>3 DEF TakesLock, HostInv, LockInv
    <3>4. LockInv'
      <4>1. \A j \in Invocations \ {i} : /\ script'[j] = script[j] /\ lock' # j
                                         /\ script[j].at \notin Busy
        BY <2>3, <3>1, <3>2, DeploymentAssumption DEF TakesLock, HostInv, LockInv
      <4>2. script'[i].at = "pull" /\ "pull" \in Busy /\ "pull" # "started"
        BY <3>1 DEF Busy
      <4>3. \A j \in Invocations : script'[j].at = "started" => script'[j].version \in Versions
        BY <4>1, <4>2 DEF HostInv, LockInv
      <4>4. QED
        BY <3>2, <4>1, <4>2, <4>3 DEF LockInv
    <3>5. Works(script[lock])'
      BY <3>1, <3>2, <3>3 DEF Works
    <3>6. QED
      BY <3>2, <3>4, <3>5, DeploymentAssumption DEF HostInv, HostAgrees
  <2>4. ASSUME NEW i \in Invocations, Pull(i) \/ CreateContainer(i) PROVE HostInv'
    <3>1. lock = i /\ Works(script[i])
      BY <2>0, <2>4 DEF Pull, CreateContainer, Busy
    <3>2. CASE DeployFails(i)
      BY <2>4, <3>1, <3>2, FailureKeepsHostInv DEF Pull, CreateContainer, host
    <3>3. CASE Pull(i) /\ ~DeployFails(i)
      <4>1. /\ script'[i].at = (IF script[i].vm = "true" THEN "create" ELSE "up")
            /\ script'[i].version = script[i].version /\ script'[i].target = script[i].target
            /\ script'[i].previous = script[i].previous /\ script'[i].vm = script[i].vm
            /\ \A j \in Invocations \ {i} : script'[j] = script[j]
        BY <3>3 DEF Pull, Goto, TypeOK, Scripts
      <4>2. UNCHANGED <<lock, host, last>>
        BY <3>3 DEF Pull
      <4>3. Works(script[lock])'
        BY <3>1, <4>1, <4>2 DEF Works, host
      <4>4. QED
        BY <3>1, <4>1, <4>2, <4>3, HolderKeepsHostInv DEF Busy
    <3>4. CASE CreateContainer(i) /\ ~DeployFails(i)
      <4>1. /\ script'[i].at = "copy" /\ script'[i].copy = 1
            /\ script'[i].version = script[i].version /\ script'[i].target = script[i].target
            /\ script'[i].previous = script[i].previous
            /\ \A j \in Invocations \ {i} : script'[j] = script[j]
        BY <3>4 DEF CreateContainer, TypeOK, Scripts
      <4>2. UNCHANGED <<lock, host, last>>
        BY <3>4 DEF CreateContainer
      <4>3. Works(script[lock])'
        <5>1. 1 >= 1 /\ \A a \in Artifacts : ~(a < 1)
          BY DEF Artifacts
        <5>2. QED
          BY <3>1, <4>1, <4>2, <5>1 DEF Works, host
      <4>4. QED
        BY <3>1, <4>1, <4>2, <4>3, HolderKeepsHostInv DEF Busy
    <3>5. QED
      BY <2>4, <3>2, <3>3, <3>4
  <2>5. ASSUME NEW i \in Invocations, CopyBegins(i) PROVE HostInv'
    <3>1. lock = i /\ Works(script[i])
      BY <2>0, <2>5 DEF CopyBegins, Busy
    <3>2. /\ script'[i].at = "copying" /\ script'[i].copy = script[i].copy
          /\ script'[i].rc = script[i].rc
          /\ script'[i].version = script[i].version /\ script'[i].target = script[i].target
          /\ script'[i].previous = script[i].previous
          /\ \A j \in Invocations \ {i} : script'[j] = script[j]
      BY <2>5 DEF CopyBegins, Goto, TypeOK, Scripts
    <3>3. UNCHANGED <<lock, recorded, current, app, last>>
      BY <2>5 DEF CopyBegins
    <3>4. base'[script[i].target] = base[script[i].target] \ {script[i].copy}
      BY <2>5, <3>1 DEF CopyBegins, Works, TypeOK
    <3>5. \A a \in Artifacts : a < script[i].copy => a # script[i].copy
      BY <2>5 DEF CopyBegins, Artifacts
    <3>6. Works(script[lock])'
      BY <2>5, <3>1, <3>2, <3>3, <3>4, <3>5 DEF CopyBegins, Works
    <3>7. QED
      BY <3>1, <3>2, <3>3, <3>6, HolderKeepsHostInv DEF Busy
  <2>6. ASSUME NEW i \in Invocations, CopyEnds(i) PROVE HostInv'
    <3>1. lock = i /\ Works(script[i]) /\ script[i].copy \in Artifacts
      BY <2>0, <2>6 DEF CopyEnds, Busy, TypeOK
    <3>2. /\ script'[i].at = "copy" /\ script'[i].copy = script[i].copy + 1
          /\ script'[i].version = script[i].version /\ script'[i].target = script[i].target
          /\ script'[i].previous = script[i].previous
          /\ \A j \in Invocations \ {i} : script'[j] = script[j]
      BY <2>6 DEF CopyEnds, TypeOK, Scripts
    <3>3. UNCHANGED <<lock, recorded, current, app, last>>
      BY <2>6 DEF CopyEnds
    <3>4. script'[i].rc = 0 => /\ script[i].rc = 0
                               /\ base'[script[i].target] = base[script[i].target] \cup {script[i].copy}
      BY <2>6, <3>1 DEF CopyEnds, Works, TypeOK, Scripts
    <3>5. \A a \in Artifacts : a < script[i].copy + 1 => a < script[i].copy \/ a = script[i].copy
      BY <3>1 DEF Artifacts
    <3>6. script[i].copy + 1 >= 1
      BY <3>1 DEF Artifacts
    <3>7. Works(script[lock])'
      BY <2>6, <3>1, <3>2, <3>3, <3>4, <3>5, <3>6 DEF CopyEnds, Works
    <3>8. QED
      BY <3>1, <3>2, <3>3, <3>7, HolderKeepsHostInv DEF Busy
  <2>7. ASSUME NEW i \in Invocations, Repoint(i) PROVE HostInv'
    <3>1. lock = i /\ Works(script[i])
      BY <2>0, <2>7 DEF Repoint, Busy
    <3>2. CASE DeployFails(i)
      BY <2>7, <3>1, <3>2, FailureKeepsHostInv DEF Repoint
    <3>3. CASE ~DeployFails(i)
      <4>1. /\ script'[i].at = "up" /\ script[i].rc = 0
            /\ script'[i].version = script[i].version /\ script'[i].target = script[i].target
            /\ script'[i].previous = script[i].previous
            /\ \A j \in Invocations \ {i} : script'[j] = script[j]
        BY <2>7, <3>3 DEF Repoint, Goto, TypeOK, Scripts
      <4>2. UNCHANGED <<lock, recorded, base, app, last>> /\ current' = script[i].target
        BY <2>7, <3>3 DEF Repoint
      <4>3. \A a \in Artifacts : a < script[i].copy
        <5>1. script[i].copy \in 0..4 /\ script[i].copy \notin 1..3 /\ script[i].copy >= 1
          BY <2>7, <3>1 DEF Repoint, Works, TypeOK, Scripts, Artifacts
        <5>2. QED
          BY <5>1 DEF Artifacts
      <4>4. base[script[i].target] = Artifacts
        BY <2>7, <3>1, <4>1, <4>3 DEF Repoint, Works, TypeOK
      <4>5. Works(script[lock])'
        BY <3>1, <4>1, <4>2, <4>4 DEF Works
      <4>6. QED
        BY <3>1, <4>1, <4>2, <4>5, HolderKeepsHostInv DEF Busy
    <3>4. QED
      BY <3>2, <3>3
  <2>8. ASSUME NEW i \in Invocations, Up(i) PROVE HostInv'
    <3>1. lock = i /\ Works(script[i])
      BY <2>0, <2>8 DEF Up, Busy
    <3>2. CASE DeployFails(i)
      BY <2>8, <3>1, <3>2, FailureKeepsHostInv DEF Up
    <3>3. CASE ~DeployFails(i)
      <4>1. /\ script'[i].at = "up done" /\ script'[i].vm = script[i].vm
            /\ script'[i].version = script[i].version /\ script'[i].target = script[i].target
            /\ script'[i].previous = script[i].previous
            /\ \A j \in Invocations \ {i} : script'[j] = script[j]
        <5>1. script' = [script EXCEPT ![i].at = "up done"]
          BY <2>8, <3>3 DEF Up, Goto
        <5>2. script \in [Invocations -> Scripts]
          BY DEF TypeOK
        <5>3. QED
          BY <5>1, <5>2 DEF Scripts
      <4>2. /\ UNCHANGED <<lock, recorded, current, base, last>>
            /\ app' = [version |-> script[i].target, health |-> "healthy"]
        BY <2>8, <3>3 DEF Up
      <4>3. Works(script[lock])'
        BY <2>8, <3>1, <4>1, <4>2 DEF Up, Works
      <4>4. QED
        BY <3>1, <4>1, <4>2, <4>3, HolderKeepsHostInv DEF Busy
    <3>4. QED
      BY <3>2, <3>3
  <2>9. ASSUME NEW i \in Invocations, Record(i) PROVE HostInv'
    <3>1. lock = i /\ Works(script[i]) /\ last = i
      BY <2>0, <2>9, DeploymentAssumption DEF Record, Busy, HostInv, LockInv
    <3>2. PICK e \in {"succeeded", "rolled back"} : Exits(i, e)
      BY <2>9 DEF Record
    <3>3. UNCHANGED <<current, base, app, last>> /\ recorded' = script[i].target
      BY <2>9, <3>1 DEF Record, Works
    <3>4. script'[i].at = "exited" /\ script'[i].vm = script[i].vm /\ lock' = Nobody
          /\ \A j \in Invocations \ {i} : script'[j] = script[j]
      BY <3>1, <3>2, ExitsMoves DEF Exits
    <3>5. HostAgrees'
      BY <2>9, <3>1, <3>3, <3>4 DEF Record, Works, HostAgrees
    <3>6. QED
      BY <3>1, <3>3, <3>4, <3>5, ExitKeepsHostInv
  <2>10. ASSUME NEW i \in Invocations, Killed(i) PROVE HostInv'
    <3>1. lock = i
      BY <2>0, <2>10 DEF Killed
    <3>2. script'[i].at = "exited" /\ script'[i].said = "nothing" /\ lock' = Nobody
          /\ \A j \in Invocations \ {i} : script'[j] = script[j]
      BY <2>10, <3>1, ExitsMoves DEF Killed, Exits
    <3>3. QED
      BY <2>10, <3>1, <3>2, ExitKeepsHostInv DEF Killed
  <2>11. CASE UNCHANGED vars
    BY <2>11 DEF vars, HostInv, LockInv, Works, HostAgrees
  <2>12. QED
    BY <2>1, <2>2, <2>3, <2>4, <2>5, <2>6, <2>7, <2>8, <2>9, <2>10, <2>11 DEF Next
<1>3. HostInv => HostAgrees
  BY DEF HostInv
<1>4. QED
  BY <1>1, <1>2, <1>3, TypeCorrect, PTL DEF Spec
=============================================================================
