--------------------------- MODULE DockerSandboxProofs ---------------------------
(***************************************************************************)
(* The Docker service leaves nothing behind, logs an agent's output before *)
(* its end and keeps the contract of a sandbox service, for any number of  *)
(* attempts, any amount of output and any number of faults.                *)
(***************************************************************************)
EXTENDS DockerSandbox, TLAPS

LEMMA StepTypes ==
    ASSUME TypeOK, [Next]_vars
    PROVE  TypeOK'
  <1> USE DriverAssumption DEF TypeOK, DriverTypeOK, Live, Places, Callers, inside, output, service, box, task
  <1>1. CASE ListsNetworks
    BY <1>1 DEF ListsNetworks, Fault
  <1>2. CASE CreatesNetwork
    <2>1. network' \in BOOLEAN
      BY <1>2, Zenon DEF CreatesNetwork
    <2>2. memo' \in {"ready", "failed"} /\ faults' \in 0..MaxFaults
      BY <1>2 DEF CreatesNetwork, Fault
    <2> QED
      BY <1>2, <2>1, <2>2 DEF CreatesNetwork
  <1>3. CASE NetworkAppears
    BY <1>3 DEF NetworkAppears
  <1>4. CASE Crashes
    BY <1>4 DEF Crashes, Dies, Fault
  <1>5. CASE Signal
    BY <1>5 DEF Signal, Fault
  <1>6. CASE Exit
    BY <1>6 DEF Exit, Dies
  <1>7. ASSUME NEW a \in Attempts,
                \/ Begins(a) \/ WaitBreaks(a) \/ ServiceStep(a) \/ Ends(a)
                \/ ((InsideStep(a) \/ AgentStep(a)) /\ Inside(a))
         PROVE  TypeOK'
    <2>1. CASE Begins(a)
      BY <2>1 DEF Begins, Goto
    <2>2. CASE CreatesContainer(a)
      BY <2>2 DEF CreatesContainer, Goto, Becomes, Rejects, Returns, Fault
    <2>3. CASE InspectsNew(a)
      BY <2>3 DEF InspectsNew, Goto, Rejects, Returns, Fault
    <2>4. CASE Starts(a)
      BY <2>4 DEF Starts, Goto, Boots, Becomes, Rejects, Fails, Fault
    <2>5. CASE BeginsWait(a)
      BY <2>5 DEF BeginsWait, Goto, Rejects, Fails, Fault
    <2>6. CASE WaitReturns(a)
      BY <2>6 DEF WaitReturns, Goto
    <2>7. CASE Removes(a)
      <3>1. CASE Fails(a)
        BY <2>7, <3>1 DEF Removes, Becomes, Rejects, Fails, Goto, Fault
      <3>2. CASE ~Fails(a)
        BY <2>7, <3>2 DEF Removes, Becomes, Returns, Goto
      <3> QED
        BY <3>1, <3>2
    <2>8. CASE WaitBreaks(a)
      BY <2>8 DEF WaitBreaks, Goto, Rejects, Fails, Fault
    <2>9. CASE TimesOut(a)
      BY <2>9 DEF TimesOut, Goto, Fails
    <2>10. CASE AbandonedWaitReturns(a)
      BY <2>10 DEF AbandonedWaitReturns, Becomes
    <2>11. CASE Publishes(a)
      BY <2>11 DEF Publishes, Goto, Returns
    <2>12. CASE Ends(a)
      BY <2>12 DEF Ends, Becomes
    <2>13. ASSUME NEW w \in Callers, StopInspects(w, a) PROVE TypeOK'
      BY SMTT(30), <2>13 DEF Callers, StopInspects, Stopping, Rejects, Fault
    <2>14. ASSUME NEW w \in Callers, StopHalts(w, a) PROVE TypeOK'
      BY SMTT(30), <2>14 DEF Callers, StopHalts, Stopping, Becomes, Rejects, Fault
    <2>15. ASSUME NEW w \in Callers, StopRemoves(w, a) PROVE TypeOK'
      BY <2>15 DEF Callers, StopRemoves, Stopping, StopReturns, Goto, Becomes, Rejects, Fault
    <2>16. CASE SetsUp(a) /\ Inside(a)
      BY <2>16 DEF Inside, SetsUp, Step, Exits
    <2>17. CASE Drains(a) /\ Inside(a)
      BY <2>17 DEF Inside, Drains, Step
    <2>18. CASE ReportsExit(a) /\ Inside(a)
      BY <2>18 DEF Inside, ReportsExit, Step, Fault
    <2>19. CASE TearsDown(a) /\ Inside(a)
      BY <2>19 DEF Inside, TearsDown, Exits, Step
    <2>20. CASE HarnessWrites(a) /\ Inside(a)
      BY <2>20 DEF Inside, HarnessWrites
    <2>21. ASSUME NEW k \in flight[a], SendReturns(a, k), Inside(a) PROVE TypeOK'
      BY <2>21 DEF Inside, SendReturns, Fault, Live
    <2>22. ASSUME NEW c \in {0, 1}, HarnessExits(a, c), Inside(a) PROVE TypeOK'
      BY <2>22 DEF Inside, HarnessExits, Step
    <2>23. CASE DriverDies(a) /\ Inside(a)
      BY <2>23 DEF Inside, DriverDies, Step, Fault
    <2> QED
      BY <1>7, <2>1, <2>2, <2>3, <2>4, <2>5, <2>6, <2>7, <2>8, <2>9, <2>10, <2>11, <2>12, <2>13, <2>14, <2>15, <2>16, <2>17, <2>18, <2>19, <2>20, <2>21, <2>22, <2>23 DEF ServiceStep, InsideStep, AgentStep
  <1>8. CASE UNCHANGED vars
    BY <1>8 DEF vars
  <1> QED
    BY <1>1, <1>2, <1>3, <1>4, <1>5, <1>6, <1>7, <1>8 DEF Next

LEMMA StepPlaces ==
    ASSUME TypeOK, PlaceInv, StopInv, [Next]_vars
    PROVE  PlaceInv'
  <1> USE DriverAssumption DEF TypeOK, DriverTypeOK, PlaceInv, StopInv, Halted, inside, output, service, box, task
  <1>1. CASE ListsNetworks
    BY <1>1 DEF ListsNetworks, Fault
  <1>2. CASE CreatesNetwork
    BY <1>2 DEF CreatesNetwork, Fault
  <1>3. CASE NetworkAppears
    BY <1>3 DEF NetworkAppears
  <1>4. CASE Crashes
    BY <1>4 DEF Crashes, Dies, Fault
  <1>5. CASE Signal
    BY <1>5 DEF Signal, Fault
  <1>6. CASE Exit
    BY <1>6 DEF Exit, Dies
  <1>7. ASSUME NEW a \in Attempts,
                \/ Begins(a) \/ WaitBreaks(a) \/ ServiceStep(a) \/ Ends(a)
                \/ ((InsideStep(a) \/ AgentStep(a)) /\ Inside(a))
         PROVE  PlaceInv'
    <2>1. CASE Begins(a)
      BY <2>1 DEF Begins, Goto
    <2>2. CASE CreatesContainer(a)
      BY <2>2 DEF CreatesContainer, Goto, Becomes, Rejects, Returns, Fault
    <2>3. CASE InspectsNew(a)
      BY <2>3 DEF InspectsNew, Goto, Rejects, Returns, Fault
    <2>4. CASE Starts(a)
      BY <2>4 DEF Starts, Goto, Boots, Becomes, Rejects, Fails, Fault
    <2>5. CASE BeginsWait(a)
      BY <2>5 DEF BeginsWait, Goto, Rejects, Fails, Fault
    <2>6. CASE WaitReturns(a)
      BY <2>6 DEF WaitReturns, Goto
    <2>7. CASE Removes(a)
      BY <2>7 DEF Removes, Goto, Becomes, Rejects, Returns, Fails, Fault
    <2>8. CASE WaitBreaks(a)
      BY <2>8 DEF WaitBreaks, Goto, Rejects, Fails, Fault
    <2>9. CASE TimesOut(a)
      BY <2>9 DEF TimesOut, Goto, Fails
    <2>10. CASE AbandonedWaitReturns(a)
      BY <2>10 DEF AbandonedWaitReturns, Becomes
    <2>11. CASE Publishes(a)
      BY <2>11 DEF Publishes, Goto, Returns
    <2>12. CASE Ends(a)
      BY <2>12 DEF Ends, Becomes
    <2>13. ASSUME NEW w \in Callers, StopInspects(w, a) PROVE PlaceInv'
      BY <2>13 DEF Callers, StopInspects, Stopping, Rejects, Fault
    <2>14. ASSUME NEW w \in Callers, StopHalts(w, a) PROVE PlaceInv'
      BY <2>14 DEF Callers, StopHalts, Stopping, Becomes, Rejects, Fault
    <2>15. ASSUME NEW w \in Callers, StopRemoves(w, a) PROVE PlaceInv'
      BY <2>15 DEF Callers, StopRemoves, Stopping, StopReturns, Goto, Becomes, Rejects, Fault
    <2>16. CASE SetsUp(a) /\ Inside(a)
      BY <2>16 DEF Inside, SetsUp, Step, Exits
    <2>17. CASE Drains(a) /\ Inside(a)
      BY <2>17 DEF Inside, Drains, Step
    <2>18. CASE ReportsExit(a) /\ Inside(a)
      BY <2>18 DEF Inside, ReportsExit, Step, Fault
    <2>19. CASE TearsDown(a) /\ Inside(a)
      BY <2>19 DEF Inside, TearsDown, Exits, Step
    <2>20. CASE HarnessWrites(a) /\ Inside(a)
      BY <2>20 DEF Inside, HarnessWrites
    <2>21. ASSUME NEW k \in flight[a], SendReturns(a, k), Inside(a) PROVE PlaceInv'
      BY <2>21 DEF Inside, SendReturns, Fault, Live
    <2>22. ASSUME NEW c \in {0, 1}, HarnessExits(a, c), Inside(a) PROVE PlaceInv'
      BY <2>22 DEF Inside, HarnessExits, Step
    <2>23. CASE DriverDies(a) /\ Inside(a)
      BY <2>23 DEF Inside, DriverDies, Step, Fault
    <2> QED
      BY <1>7, <2>1, <2>2, <2>3, <2>4, <2>5, <2>6, <2>7, <2>8, <2>9, <2>10, <2>11, <2>12, <2>13, <2>14, <2>15, <2>16, <2>17, <2>18, <2>19, <2>20, <2>21, <2>22, <2>23 DEF ServiceStep, InsideStep, AgentStep
  <1>8. CASE UNCHANGED vars
    BY <1>8 DEF vars
  <1> QED
    BY <1>1, <1>2, <1>3, <1>4, <1>5, <1>6, <1>7, <1>8 DEF Next

\* An attempt that fails goes to its finally block and disturbs no other, nor the shutdown's stops.
LEMMA FailsAlone ==
    ASSUME TypeOK, NEW a \in Attempts, Fails(a)
    PROVE  /\ stop'["all"] = stop["all"]
           /\ \A b \in Attempts :
                 /\ stop'["run"][b] = IF b = a THEN "inspect" ELSE stop["run"][b]
                 /\ at'[b] = IF b = a THEN "stopping" ELSE at[b]
                 /\ verdict'[b] = IF b = a THEN "failed" ELSE verdict[b]
  BY DEF TypeOK, Fails, Goto, Callers

LEMMA StepStops ==
    ASSUME TypeOK, PlaceInv, StopInv, NothingLeft, [Next]_vars
    PROVE  StopInv'
  <1> USE DriverAssumption DEF TypeOK, DriverTypeOK, PlaceInv, StopInv, Halted, NothingLeft, inside, output, service, box, task
  <1>1. CASE ListsNetworks
    BY <1>1 DEF ListsNetworks, Fault
  <1>2. CASE CreatesNetwork
    BY <1>2 DEF CreatesNetwork, Fault
  <1>3. CASE NetworkAppears
    BY <1>3 DEF NetworkAppears
  <1>4. CASE Crashes
    <2> SUFFICES ASSUME NEW b \in Attempts
                 PROVE  (Halted(b) /\ (up = "down" => at[b] \in {"idle", "over"}))'
      OBVIOUS
    <2> QED
      BY <1>4 DEF Crashes, Dies, Fault, Callers
  <1>5. CASE Signal
    <2> SUFFICES ASSUME NEW b \in Attempts
                 PROVE  (Halted(b) /\ (up = "down" => at[b] \in {"idle", "over"}))'
      OBVIOUS
    <2> QED
      BY <1>5 DEF Signal, Fault, Callers
  <1>6. CASE Exit
    <2> SUFFICES ASSUME NEW b \in Attempts
                 PROVE  (Halted(b) /\ (up = "down" => at[b] \in {"idle", "over"}))'
      OBVIOUS
    <2> QED
      BY <1>6 DEF Exit, Dies, Callers
  <1>7. ASSUME NEW a \in Attempts,
                \/ Begins(a) \/ WaitBreaks(a) \/ ServiceStep(a) \/ Ends(a)
                \/ ((InsideStep(a) \/ AgentStep(a)) /\ Inside(a))
         PROVE  StopInv'
    <2>1. CASE Begins(a)
      BY <2>1 DEF Begins, Goto
    <2>2. CASE CreatesContainer(a)
      BY <2>2 DEF CreatesContainer, Goto, Becomes, Rejects, Returns, Fault
    <2>3. CASE InspectsNew(a)
      BY <2>3 DEF InspectsNew, Goto, Rejects, Returns, Fault
    <2>4. CASE Starts(a)
      <3> SUFFICES ASSUME NEW b \in Attempts
                   PROVE  (Halted(b) /\ (up = "down" => at[b] \in {"idle", "over"}))'
        OBVIOUS
      <3>1. CASE Fails(a)
        <4>1. /\ stop'["all"][b] = stop["all"][b]
              /\ stop'["run"][b] = IF b = a THEN "inspect" ELSE stop["run"][b]
              /\ at'[b] = IF b = a THEN "stopping" ELSE at[b]
          BY <3>1, FailsAlone
        <4> HIDE DEF TypeOK
        <4>2. up' = up /\ spoilt \subseteq spoilt'
          BY <2>4, <3>1 DEF Starts, Rejects
        <4>3. container'[b] = "running" => container[b] = "running" \/ (b = a /\ at[a] = "start")
          BY <2>4, <3>1 DEF Starts, Boots, Becomes, Rejects, Fault, TypeOK
        <4>4. container[b] \in {"none", "removed"} => container'[b] = container[b]
          BY <2>4, <3>1 DEF Starts, Boots, Becomes, Rejects, Fault, TypeOK
        <4>5. at[a] \in {"start", "wait", "removing"}
          BY <2>4 DEF Starts
        <4> QED
          BY <4>1, <4>2, <4>3, <4>4, <4>5
      <3>2. CASE ~Fails(a)
        BY <2>4, <3>2 DEF Starts, Goto, Returns, Boots, Becomes, Rejects, Fault
      <3> QED
        BY <3>1, <3>2
    <2>5. CASE BeginsWait(a)
      <3> SUFFICES ASSUME NEW b \in Attempts
                   PROVE  (Halted(b) /\ (up = "down" => at[b] \in {"idle", "over"}))'
        OBVIOUS
      <3>1. CASE Fails(a)
        <4>1. /\ stop'["all"][b] = stop["all"][b]
              /\ stop'["run"][b] = IF b = a THEN "inspect" ELSE stop["run"][b]
              /\ at'[b] = IF b = a THEN "stopping" ELSE at[b]
          BY <3>1, FailsAlone
        <4> HIDE DEF TypeOK
        <4>2. up' = up /\ spoilt \subseteq spoilt'
          BY <2>5, <3>1 DEF BeginsWait, Rejects
        <4>3. container'[b] = "running" => container[b] = "running" \/ (b = a /\ at[a] = "start")
          BY <2>5, <3>1 DEF BeginsWait, Rejects, Fault, TypeOK
        <4>4. container[b] \in {"none", "removed"} => container'[b] = container[b]
          BY <2>5, <3>1 DEF BeginsWait, Rejects, Fault, TypeOK
        <4>5. at[a] \in {"start", "wait", "removing"}
          BY <2>5 DEF BeginsWait
        <4> QED
          BY <4>1, <4>2, <4>3, <4>4, <4>5
      <3>2. CASE ~Fails(a)
        BY <2>5, <3>2 DEF BeginsWait, Goto, Returns, Rejects, Fault
      <3> QED
        BY <3>1, <3>2
    <2>6. CASE WaitReturns(a)
      BY <2>6 DEF WaitReturns, Goto
    <2>7. CASE Removes(a)
      <3> SUFFICES ASSUME NEW b \in Attempts
                   PROVE  (Halted(b) /\ (up = "down" => at[b] \in {"idle", "over"}))'
        OBVIOUS
      <3>1. CASE Fails(a)
        <4>1. /\ stop'["all"][b] = stop["all"][b]
              /\ stop'["run"][b] = IF b = a THEN "inspect" ELSE stop["run"][b]
              /\ at'[b] = IF b = a THEN "stopping" ELSE at[b]
          BY <3>1, FailsAlone
        <4> HIDE DEF TypeOK
        <4>2. up' = up /\ spoilt \subseteq spoilt'
          BY <2>7, <3>1 DEF Removes, Rejects
        <4>3. container'[b] = "running" => container[b] = "running" \/ (b = a /\ at[a] = "start")
          BY <2>7, <3>1 DEF Removes, Becomes, Rejects, Fault, TypeOK
        <4>4. container[b] \in {"none", "removed"} => container'[b] = container[b]
          BY <2>7, <3>1 DEF Removes, Becomes, Rejects, Fault, TypeOK
        <4>5. at[a] \in {"start", "wait", "removing"}
          BY <2>7 DEF Removes
        <4> QED
          BY <4>1, <4>2, <4>3, <4>4, <4>5
      <3>2. CASE ~Fails(a)
        BY <2>7, <3>2 DEF Removes, Goto, Returns, Becomes, Rejects, Fault
      <3> QED
        BY <3>1, <3>2
    <2>8. CASE WaitBreaks(a)
      BY <2>8 DEF WaitBreaks, Goto, Rejects, Fails, Fault
    <2>9. CASE TimesOut(a)
      BY <2>9 DEF TimesOut, Goto, Fails
    <2>10. CASE AbandonedWaitReturns(a)
      BY <2>10 DEF AbandonedWaitReturns, Becomes
    <2>11. CASE Publishes(a)
      BY <2>11 DEF Publishes, Goto, Returns
    <2>12. CASE Ends(a)
      BY <2>12 DEF Ends, Becomes
    <2>13. ASSUME NEW w \in Callers, StopInspects(w, a) PROVE StopInv'
      BY <2>13 DEF Callers, StopInspects, Stopping, Rejects, Fault
    <2>14. ASSUME NEW w \in Callers, StopHalts(w, a) PROVE StopInv'
      BY <2>14 DEF Callers, StopHalts, Stopping, Becomes, Rejects, Fault
    <2>15. ASSUME NEW w \in Callers, StopRemoves(w, a) PROVE StopInv'
      BY <2>15 DEF Callers, StopRemoves, Stopping, StopReturns, Goto, Becomes, Rejects, Fault
    <2>16. CASE SetsUp(a) /\ Inside(a)
      BY <2>16 DEF Inside, SetsUp, Step, Exits
    <2>17. CASE Drains(a) /\ Inside(a)
      BY <2>17 DEF Inside, Drains, Step
    <2>18. CASE ReportsExit(a) /\ Inside(a)
      BY <2>18 DEF Inside, ReportsExit, Step, Fault
    <2>19. CASE TearsDown(a) /\ Inside(a)
      BY <2>19 DEF Inside, TearsDown, Exits, Step
    <2>20. CASE HarnessWrites(a) /\ Inside(a)
      BY <2>20 DEF Inside, HarnessWrites
    <2>21. ASSUME NEW k \in flight[a], SendReturns(a, k), Inside(a) PROVE StopInv'
      BY <2>21 DEF Inside, SendReturns, Fault, Live
    <2>22. ASSUME NEW c \in {0, 1}, HarnessExits(a, c), Inside(a) PROVE StopInv'
      BY <2>22 DEF Inside, HarnessExits, Step
    <2>23. CASE DriverDies(a) /\ Inside(a)
      BY <2>23 DEF Inside, DriverDies, Step, Fault
    <2> QED
      BY <1>7, <2>1, <2>2, <2>3, <2>4, <2>5, <2>6, <2>7, <2>8, <2>9, <2>10, <2>11, <2>12, <2>13, <2>14, <2>15, <2>16, <2>17, <2>18, <2>19, <2>20, <2>21, <2>22, <2>23 DEF ServiceStep, InsideStep, AgentStep
  <1>8. CASE UNCHANGED vars
    BY <1>8 DEF vars
  <1> QED
    BY <1>1, <1>2, <1>3, <1>4, <1>5, <1>6, <1>7, <1>8 DEF Next

LEMMA StepLeft ==
    ASSUME TypeOK, PlaceInv, StopInv, NothingLeft, [Next]_vars
    PROVE  NothingLeft'
  <1> USE DriverAssumption DEF TypeOK, DriverTypeOK, PlaceInv, StopInv, Halted, NothingLeft, inside, output, service, box, task
  <1>1. CASE ListsNetworks
    BY <1>1 DEF ListsNetworks, Fault
  <1>2. CASE CreatesNetwork
    BY <1>2 DEF CreatesNetwork, Fault
  <1>3. CASE NetworkAppears
    BY <1>3 DEF NetworkAppears
  <1>4. CASE Crashes
    BY <1>4 DEF Crashes, Dies, Fault
  <1>5. CASE Signal
    BY <1>5 DEF Signal, Fault
  <1>6. CASE Exit
    BY <1>6 DEF Exit, Dies
  <1>7. ASSUME NEW a \in Attempts,
                \/ Begins(a) \/ WaitBreaks(a) \/ ServiceStep(a) \/ Ends(a)
                \/ ((InsideStep(a) \/ AgentStep(a)) /\ Inside(a))
         PROVE  NothingLeft'
    <2>1. CASE Begins(a)
      BY <2>1 DEF Begins, Goto
    <2>2. CASE CreatesContainer(a)
      BY <2>2 DEF CreatesContainer, Goto, Becomes, Rejects, Returns, Fault
    <2>3. CASE InspectsNew(a)
      BY <2>3 DEF InspectsNew, Goto, Rejects, Returns, Fault
    <2>4. CASE Starts(a)
      BY <2>4 DEF Starts, Goto, Boots, Becomes, Rejects, Fails, Fault
    <2>5. CASE BeginsWait(a)
      BY <2>5 DEF BeginsWait, Goto, Rejects, Fails, Fault
    <2>6. CASE WaitReturns(a)
      BY <2>6 DEF WaitReturns, Goto
    <2>7. CASE Removes(a)
      BY <2>7 DEF Removes, Goto, Becomes, Rejects, Returns, Fails, Fault
    <2>8. CASE WaitBreaks(a)
      BY <2>8 DEF WaitBreaks, Goto, Rejects, Fails, Fault
    <2>9. CASE TimesOut(a)
      BY <2>9 DEF TimesOut, Goto, Fails
    <2>10. CASE AbandonedWaitReturns(a)
      BY <2>10 DEF AbandonedWaitReturns, Becomes
    <2>11. CASE Publishes(a)
      BY <2>11 DEF Publishes, Goto, Returns
    <2>12. CASE Ends(a)
      BY <2>12 DEF Ends, Becomes
    <2>13. ASSUME NEW w \in Callers, StopInspects(w, a) PROVE NothingLeft'
      BY <2>13 DEF Callers, StopInspects, Stopping, Rejects, Fault
    <2>14. ASSUME NEW w \in Callers, StopHalts(w, a) PROVE NothingLeft'
      BY <2>14 DEF Callers, StopHalts, Stopping, Becomes, Rejects, Fault
    <2>15. ASSUME NEW w \in Callers, StopRemoves(w, a) PROVE NothingLeft'
      BY <2>15 DEF Callers, StopRemoves, Stopping, StopReturns, Goto, Becomes, Rejects, Fault
    <2>16. CASE SetsUp(a) /\ Inside(a)
      BY <2>16 DEF Inside, SetsUp, Step, Exits
    <2>17. CASE Drains(a) /\ Inside(a)
      BY <2>17 DEF Inside, Drains, Step
    <2>18. CASE ReportsExit(a) /\ Inside(a)
      BY <2>18 DEF Inside, ReportsExit, Step, Fault
    <2>19. CASE TearsDown(a) /\ Inside(a)
      BY <2>19 DEF Inside, TearsDown, Exits, Step
    <2>20. CASE HarnessWrites(a) /\ Inside(a)
      BY <2>20 DEF Inside, HarnessWrites
    <2>21. ASSUME NEW k \in flight[a], SendReturns(a, k), Inside(a) PROVE NothingLeft'
      BY <2>21 DEF Inside, SendReturns, Fault, Live
    <2>22. ASSUME NEW c \in {0, 1}, HarnessExits(a, c), Inside(a) PROVE NothingLeft'
      BY <2>22 DEF Inside, HarnessExits, Step
    <2>23. CASE DriverDies(a) /\ Inside(a)
      BY <2>23 DEF Inside, DriverDies, Step, Fault
    <2> QED
      BY <1>7, <2>1, <2>2, <2>3, <2>4, <2>5, <2>6, <2>7, <2>8, <2>9, <2>10, <2>11, <2>12, <2>13, <2>14, <2>15, <2>16, <2>17, <2>18, <2>19, <2>20, <2>21, <2>22, <2>23 DEF ServiceStep, InsideStep, AgentStep
  <1>8. CASE UNCHANGED vars
    BY <1>8 DEF vars
  <1> QED
    BY <1>1, <1>2, <1>3, <1>4, <1>5, <1>6, <1>7, <1>8 DEF Next

LEMMA StepExits ==
    ASSUME TypeOK, PlaceInv, ExitInv, [Next]_vars
    PROVE  ExitInv'
  <1> USE DriverAssumption DEF TypeOK, DriverTypeOK, PlaceInv, ExitInv, inside, output, service, box, task
  <1>1. CASE ListsNetworks
    BY <1>1 DEF ListsNetworks, Fault
  <1>2. CASE CreatesNetwork
    BY <1>2 DEF CreatesNetwork, Fault
  <1>3. CASE NetworkAppears
    BY <1>3 DEF NetworkAppears
  <1>4. CASE Crashes
    BY <1>4 DEF Crashes, Dies, Fault
  <1>5. CASE Signal
    BY <1>5 DEF Signal, Fault
  <1>6. CASE Exit
    BY <1>6 DEF Exit, Dies
  <1>7. ASSUME NEW a \in Attempts,
                \/ Begins(a) \/ WaitBreaks(a) \/ ServiceStep(a) \/ Ends(a)
                \/ ((InsideStep(a) \/ AgentStep(a)) /\ Inside(a))
         PROVE  ExitInv'
    <2>1. CASE Begins(a)
      BY <2>1 DEF Begins, Goto
    <2>2. CASE CreatesContainer(a)
      BY <2>2 DEF CreatesContainer, Goto, Becomes, Rejects, Returns, Fault
    <2>3. CASE InspectsNew(a)
      BY <2>3 DEF InspectsNew, Goto, Rejects, Returns, Fault
    <2>4. CASE Starts(a)
      BY <2>4 DEF Starts, Goto, Boots, Becomes, Rejects, Fails, Fault
    <2>5. CASE BeginsWait(a)
      BY <2>5 DEF BeginsWait, Goto, Rejects, Fails, Fault
    <2>6. CASE WaitReturns(a)
      BY <2>6 DEF WaitReturns, Goto
    <2>7. CASE Removes(a)
      BY <2>7 DEF Removes, Goto, Becomes, Rejects, Returns, Fails, Fault
    <2>8. CASE WaitBreaks(a)
      BY <2>8 DEF WaitBreaks, Goto, Rejects, Fails, Fault
    <2>9. CASE TimesOut(a)
      BY <2>9 DEF TimesOut, Goto, Fails
    <2>10. CASE AbandonedWaitReturns(a)
      BY <2>10 DEF AbandonedWaitReturns, Becomes
    <2>11. CASE Publishes(a)
      BY <2>11 DEF Publishes, Goto, Returns
    <2>12. CASE Ends(a)
      BY <2>12 DEF Ends, Becomes
    <2>13. ASSUME NEW w \in Callers, StopInspects(w, a) PROVE ExitInv'
      BY <2>13 DEF Callers, StopInspects, Stopping, Rejects, Fault
    <2>14. ASSUME NEW w \in Callers, StopHalts(w, a) PROVE ExitInv'
      BY <2>14 DEF Callers, StopHalts, Stopping, Becomes, Rejects, Fault
    <2>15. ASSUME NEW w \in Callers, StopRemoves(w, a) PROVE ExitInv'
      BY <2>15 DEF Callers, StopRemoves, Stopping, StopReturns, Goto, Becomes, Rejects, Fault
    <2>16. CASE SetsUp(a) /\ Inside(a)
      BY <2>16 DEF Inside, SetsUp, Step, Exits
    <2>17. CASE Drains(a) /\ Inside(a)
      BY <2>17 DEF Inside, Drains, Step
    <2>18. CASE ReportsExit(a) /\ Inside(a)
      BY <2>18 DEF Inside, ReportsExit, Step, Fault
    <2>19. CASE TearsDown(a) /\ Inside(a)
      BY <2>19 DEF Inside, TearsDown, Exits, Step
    <2>20. CASE HarnessWrites(a) /\ Inside(a)
      BY <2>20 DEF Inside, HarnessWrites
    <2>21. ASSUME NEW k \in flight[a], SendReturns(a, k), Inside(a) PROVE ExitInv'
      BY <2>21 DEF Inside, SendReturns, Fault, Live
    <2>22. ASSUME NEW c \in {0, 1}, HarnessExits(a, c), Inside(a) PROVE ExitInv'
      BY <2>22 DEF Inside, HarnessExits, Step
    <2>23. CASE DriverDies(a) /\ Inside(a)
      BY <2>23 DEF Inside, DriverDies, Step, Fault
    <2> QED
      BY <1>7, <2>1, <2>2, <2>3, <2>4, <2>5, <2>6, <2>7, <2>8, <2>9, <2>10, <2>11, <2>12, <2>13, <2>14, <2>15, <2>16, <2>17, <2>18, <2>19, <2>20, <2>21, <2>22, <2>23 DEF ServiceStep, InsideStep, AgentStep
  <1>8. CASE UNCHANGED vars
    BY <1>8 DEF vars
  <1> QED
    BY <1>1, <1>2, <1>3, <1>4, <1>5, <1>6, <1>7, <1>8 DEF Next

LEMMA StepLogs ==
    ASSUME TypeOK, ExitInv, LogInv, [Next]_vars
    PROVE  LogInv'
  <1> USE DriverAssumption DEF TypeOK, DriverTypeOK, ExitInv, LogInv, inside, output, service, box, task
  <1>1. CASE ListsNetworks
    BY <1>1 DEF ListsNetworks, Fault
  <1>2. CASE CreatesNetwork
    BY <1>2 DEF CreatesNetwork, Fault
  <1>3. CASE NetworkAppears
    BY <1>3 DEF NetworkAppears
  <1>4. CASE Crashes
    BY <1>4 DEF Crashes, Dies, Fault
  <1>5. CASE Signal
    BY <1>5 DEF Signal, Fault
  <1>6. CASE Exit
    BY <1>6 DEF Exit, Dies
  <1>7. ASSUME NEW a \in Attempts,
                \/ Begins(a) \/ WaitBreaks(a) \/ ServiceStep(a) \/ Ends(a)
                \/ ((InsideStep(a) \/ AgentStep(a)) /\ Inside(a))
         PROVE  LogInv'
    <2>1. CASE Begins(a)
      BY <2>1 DEF Begins, Goto
    <2>2. CASE CreatesContainer(a)
      BY <2>2 DEF CreatesContainer, Goto, Becomes, Rejects, Returns, Fault
    <2>3. CASE InspectsNew(a)
      BY <2>3 DEF InspectsNew, Goto, Rejects, Returns, Fault
    <2>4. CASE Starts(a)
      BY <2>4 DEF Starts, Goto, Boots, Becomes, Rejects, Fails, Fault
    <2>5. CASE BeginsWait(a)
      BY <2>5 DEF BeginsWait, Goto, Rejects, Fails, Fault
    <2>6. CASE WaitReturns(a)
      BY <2>6 DEF WaitReturns, Goto
    <2>7. CASE Removes(a)
      BY <2>7 DEF Removes, Goto, Becomes, Rejects, Returns, Fails, Fault
    <2>8. CASE WaitBreaks(a)
      BY <2>8 DEF WaitBreaks, Goto, Rejects, Fails, Fault
    <2>9. CASE TimesOut(a)
      BY <2>9 DEF TimesOut, Goto, Fails
    <2>10. CASE AbandonedWaitReturns(a)
      BY <2>10 DEF AbandonedWaitReturns, Becomes
    <2>11. CASE Publishes(a)
      BY <2>11 DEF Publishes, Goto, Returns
    <2>12. CASE Ends(a)
      BY <2>12 DEF Ends, Becomes
    <2>13. ASSUME NEW w \in Callers, StopInspects(w, a) PROVE LogInv'
      BY <2>13 DEF Callers, StopInspects, Stopping, Rejects, Fault
    <2>14. ASSUME NEW w \in Callers, StopHalts(w, a) PROVE LogInv'
      BY <2>14 DEF Callers, StopHalts, Stopping, Becomes, Rejects, Fault
    <2>15. ASSUME NEW w \in Callers, StopRemoves(w, a) PROVE LogInv'
      BY <2>15 DEF Callers, StopRemoves, Stopping, StopReturns, Goto, Becomes, Rejects, Fault
    <2>16. CASE SetsUp(a) /\ Inside(a)
      BY <2>16 DEF Inside, SetsUp, Step, Exits
    <2>17. CASE Drains(a) /\ Inside(a)
      BY <2>17 DEF Inside, Drains, Step
    <2>18. CASE ReportsExit(a) /\ Inside(a)
      BY <2>18 DEF Inside, ReportsExit, Step, Fault
    <2>19. CASE TearsDown(a) /\ Inside(a)
      BY <2>19 DEF Inside, TearsDown, Exits, Step
    <2>20. CASE HarnessWrites(a) /\ Inside(a)
      <3>1. 1..(chunks[a] + 1) = 1..chunks[a] \cup {chunks[a] + 1}
        OBVIOUS
      <3> SUFFICES ASSUME NEW b \in Attempts
                   PROVE  /\ (logged[b] \cup lost[b] \cup flight[b] = 1..chunks[b])'
                          /\ (script[b] \in {"exiting", "teardown"} => flight[b] = {})'
                          /\ (b \in announced =>
                                script[b] \in {"teardown", "died", "off"} /\ flight[b] = {})'
        OBVIOUS
      <3>2. CASE b = a
        BY <2>20, <3>1, <3>2 DEF Inside, HarnessWrites
      <3>3. CASE b # a
        BY <2>20, <3>3 DEF Inside, HarnessWrites
      <3> QED
        BY <3>2, <3>3
    <2>21. ASSUME NEW k \in flight[a], SendReturns(a, k), Inside(a) PROVE LogInv'
      BY <2>21 DEF Inside, SendReturns, Fault, Live
    <2>22. ASSUME NEW c \in {0, 1}, HarnessExits(a, c), Inside(a) PROVE LogInv'
      BY <2>22 DEF Inside, HarnessExits, Step
    <2>23. CASE DriverDies(a) /\ Inside(a)
      BY <2>23 DEF Inside, DriverDies, Step, Fault
    <2> QED
      BY <1>7, <2>1, <2>2, <2>3, <2>4, <2>5, <2>6, <2>7, <2>8, <2>9, <2>10, <2>11, <2>12, <2>13, <2>14, <2>15, <2>16, <2>17, <2>18, <2>19, <2>20, <2>21, <2>22, <2>23 DEF ServiceStep, InsideStep, AgentStep
  <1>8. CASE UNCHANGED vars
    BY <1>8 DEF vars
  <1> QED
    BY <1>1, <1>2, <1>3, <1>4, <1>5, <1>6, <1>7, <1>8 DEF Next

LEMMA StepNetwork ==
    ASSUME TypeOK, NetworkSound, [Next]_vars
    PROVE  NetworkSound'
  <1> USE DriverAssumption DEF TypeOK, DriverTypeOK, NetworkSound, inside, output, service, box, task
  <1>1. CASE ListsNetworks
    BY <1>1 DEF ListsNetworks, Fault
  <1>2. CASE CreatesNetwork
    BY <1>2 DEF CreatesNetwork, Fault
  <1>3. CASE NetworkAppears
    BY <1>3 DEF NetworkAppears
  <1>4. CASE Crashes
    BY <1>4 DEF Crashes, Dies, Fault
  <1>5. CASE Signal
    BY <1>5 DEF Signal, Fault
  <1>6. CASE Exit
    BY <1>6 DEF Exit, Dies
  <1>7. ASSUME NEW a \in Attempts,
                \/ Begins(a) \/ WaitBreaks(a) \/ ServiceStep(a) \/ Ends(a)
                \/ ((InsideStep(a) \/ AgentStep(a)) /\ Inside(a))
         PROVE  NetworkSound'
    <2>1. CASE Begins(a)
      BY <2>1 DEF Begins, Goto
    <2>2. CASE CreatesContainer(a)
      BY <2>2 DEF CreatesContainer, Goto, Becomes, Rejects, Returns, Fault
    <2>3. CASE InspectsNew(a)
      BY <2>3 DEF InspectsNew, Goto, Rejects, Returns, Fault
    <2>4. CASE Starts(a)
      BY <2>4 DEF Starts, Goto, Boots, Becomes, Rejects, Fails, Fault
    <2>5. CASE BeginsWait(a)
      BY <2>5 DEF BeginsWait, Goto, Rejects, Fails, Fault
    <2>6. CASE WaitReturns(a)
      BY <2>6 DEF WaitReturns, Goto
    <2>7. CASE Removes(a)
      BY <2>7 DEF Removes, Goto, Becomes, Rejects, Returns, Fails, Fault
    <2>8. CASE WaitBreaks(a)
      BY <2>8 DEF WaitBreaks, Goto, Rejects, Fails, Fault
    <2>9. CASE TimesOut(a)
      BY <2>9 DEF TimesOut, Goto, Fails
    <2>10. CASE AbandonedWaitReturns(a)
      BY <2>10 DEF AbandonedWaitReturns, Becomes
    <2>11. CASE Publishes(a)
      BY <2>11 DEF Publishes, Goto, Returns
    <2>12. CASE Ends(a)
      BY <2>12 DEF Ends, Becomes
    <2>13. ASSUME NEW w \in Callers, StopInspects(w, a) PROVE NetworkSound'
      BY <2>13 DEF Callers, StopInspects, Stopping, Rejects, Fault
    <2>14. ASSUME NEW w \in Callers, StopHalts(w, a) PROVE NetworkSound'
      BY <2>14 DEF Callers, StopHalts, Stopping, Becomes, Rejects, Fault
    <2>15. ASSUME NEW w \in Callers, StopRemoves(w, a) PROVE NetworkSound'
      BY <2>15 DEF Callers, StopRemoves, Stopping, StopReturns, Goto, Becomes, Rejects, Fault
    <2>16. CASE SetsUp(a) /\ Inside(a)
      BY <2>16 DEF Inside, SetsUp, Step, Exits
    <2>17. CASE Drains(a) /\ Inside(a)
      BY <2>17 DEF Inside, Drains, Step
    <2>18. CASE ReportsExit(a) /\ Inside(a)
      BY <2>18 DEF Inside, ReportsExit, Step, Fault
    <2>19. CASE TearsDown(a) /\ Inside(a)
      BY <2>19 DEF Inside, TearsDown, Exits, Step
    <2>20. CASE HarnessWrites(a) /\ Inside(a)
      BY <2>20 DEF Inside, HarnessWrites
    <2>21. ASSUME NEW k \in flight[a], SendReturns(a, k), Inside(a) PROVE NetworkSound'
      BY <2>21 DEF Inside, SendReturns, Fault, Live
    <2>22. ASSUME NEW c \in {0, 1}, HarnessExits(a, c), Inside(a) PROVE NetworkSound'
      BY <2>22 DEF Inside, HarnessExits, Step
    <2>23. CASE DriverDies(a) /\ Inside(a)
      BY <2>23 DEF Inside, DriverDies, Step, Fault
    <2> QED
      BY <1>7, <2>1, <2>2, <2>3, <2>4, <2>5, <2>6, <2>7, <2>8, <2>9, <2>10, <2>11, <2>12, <2>13, <2>14, <2>15, <2>16, <2>17, <2>18, <2>19, <2>20, <2>21, <2>22, <2>23 DEF ServiceStep, InsideStep, AgentStep
  <1>8. CASE UNCHANGED vars
    BY <1>8 DEF vars
  <1> QED
    BY <1>1, <1>2, <1>3, <1>4, <1>5, <1>6, <1>7, <1>8 DEF Next

-----------------------------------------------------------------------------
SandboxInv ==
    TypeOK /\ PlaceInv /\ StopInv /\ NothingLeft /\ ExitInv /\ LogInv /\ NetworkSound

LEMMA InitSandbox == Init => SandboxInv
  <1> SUFFICES ASSUME Init PROVE SandboxInv
    OBVIOUS
  <1> USE DriverAssumption DEF Init, DriverInit
  <1>1. network \in BOOLEAN
    BY Zenon
  <1>2. TypeOK
    BY <1>1 DEF TypeOK, DriverTypeOK, Live, Places, Callers
  <1>3. PlaceInv /\ StopInv /\ NothingLeft
    BY DEF PlaceInv, StopInv, Halted, NothingLeft, Callers
  <1>4. ExitInv /\ LogInv /\ NetworkSound
    BY DEF ExitInv, LogInv, NetworkSound
  <1> QED
    BY <1>2, <1>3, <1>4 DEF SandboxInv

LEMMA Invariance == Spec => []SandboxInv
  <1>1. SandboxInv /\ [Next]_vars => SandboxInv'
    BY StepTypes, StepPlaces, StepStops, StepLeft, StepExits, StepLogs, StepNetwork DEF SandboxInv
  <1> QED
    BY InitSandbox, <1>1, PTL DEF Spec

\* The places of attempts, containers, stops and tokens keep their types.
THEOREM TypeCorrect == Spec => []TypeOK
  <1>1. SandboxInv => TypeOK
    BY DEF SandboxInv
  <1> QED
    BY Invariance, <1>1, PTL

\* No container outlives its attempt, unless Docker refused it a request or the server died.
THEOREM Cleaned == Spec => []NothingLeft
  <1>1. SandboxInv => NothingLeft
    BY DEF SandboxInv
  <1> QED
    BY Invariance, <1>1, PTL

\* The output of a harness is logged, or was refused, before its exit is.
THEOREM LogsFirst == Spec => []LogsPrecedeExit
  <1>1. SandboxInv => LogsPrecedeExit
    <2> SUFFICES ASSUME SandboxInv, NEW a \in announced
                 PROVE  logged[a] \cup lost[a] = 1..chunks[a]
      BY DEF LogsPrecedeExit
    <2>1. a \in Attempts
      BY DEF SandboxInv, TypeOK, DriverTypeOK
    <2> QED
      BY <2>1 DEF SandboxInv, LogInv
  <1> QED
    BY Invariance, <1>1, PTL

\* The memoised lookup of the network fails only if Docker does.
THEOREM NetworkFound == Spec => []NetworkSound
  <1>1. SandboxInv => NetworkSound
    BY DEF SandboxInv
  <1> QED
    BY Invariance, <1>1, PTL

-----------------------------------------------------------------------------
\* How steps of processTask and of Docker look to the contract: what is said of an attempt,
Says(a) ==
    verdict' = verdict \/ (at[a] \notin {"stopping", "over"} /\ verdict' = [verdict EXCEPT ![a] = "failed"])

LEMMA Speaks ==
    ASSUME SandboxInv, NEW a \in Attempts, UNCHANGED <<container, code>>, Says(a)
    PROVE  [Contract!Next]_Contract!vars
  <1>1. UNCHANGED <<sandbox, finish>>
    BY DEF sandbox, finish
  <1>2. CASE UNCHANGED verdict
    BY <1>1, <1>2 DEF Contract!vars
  <1>3. CASE at[a] \notin {"stopping", "over"} /\ verdict' = [verdict EXCEPT ![a] = "failed"]
    <2>1. verdict[a] = "none"
      BY <1>3 DEF SandboxInv, PlaceInv
    <2>2. Contract!Report(a, "failed")
      BY <1>1, <1>3, <2>1 DEF Contract!Report
    <2> QED
      BY <2>2 DEF Contract!Next
  <1> QED
    BY <1>2, <1>3 DEF Says

\* a container that changes,
LEMMA BoxMoves ==
    ASSUME TypeOK, NEW a \in Attempts, NEW c, container' = [container EXCEPT ![a] = c]
    PROVE  sandbox[a] = Shown(container[a]) /\ sandbox' = [sandbox EXCEPT ![a] = Shown(c)]
  BY DEF TypeOK, sandbox

\* one that is removed,
LEMMA Clears ==
    ASSUME SandboxInv, NEW a \in Attempts, container[a] \in {"created", "exited", "removed"},
           container' = [container EXCEPT ![a] = "removed"], UNCHANGED code, Says(a)
    PROVE  [Contract!Next]_Contract!vars
  <1>1. CASE container[a] = "removed"
    <2>1. container' = container
      BY <1>1 DEF SandboxInv, TypeOK
    <2> QED
      BY <2>1, Speaks
  <1>2. CASE container[a] \in {"created", "exited"}
    <2>1. Contract!Moves(a, {"ready", "ended"}, "gone")
      BY <1>2, BoxMoves DEF SandboxInv, Contract!Moves, Shown
    <2>2. UNCHANGED finish
      BY DEF finish
    <2>3. verdict' = verdict \/ (verdict[a] = "none" /\ verdict' = [verdict EXCEPT ![a] = "failed"])
      BY DEF Says, SandboxInv, PlaceInv
    <2>4. Contract!Remove(a)
      BY <2>1, <2>2, <2>3 DEF Contract!Remove
    <2> QED
      BY <2>4 DEF Contract!Next
  <1> QED
    BY <1>1, <1>2

\* and one that ends.
LEMMA Halts ==
    ASSUME SandboxInv, NEW a \in Attempts, container[a] = "running",
           container' = [container EXCEPT ![a] = "exited"], UNCHANGED <<code, verdict>>
    PROVE  [Contract!Next]_Contract!vars
  <1>1. Contract!Moves(a, {"running"}, "ended")
    BY BoxMoves DEF SandboxInv, Contract!Moves, Shown
  <1>2. UNCHANGED finish
    BY DEF finish
  <1>3. Contract!End(a)
    BY <1>1, <1>2 DEF Contract!End
  <1> QED
    BY <1>3 DEF Contract!Next

LEMMA StepContract ==
    ASSUME SandboxInv, [Next]_vars
    PROVE  [Contract!Next]_Contract!vars
  <1> USE DEF inside, output, service, box, task
  <1>1. ASSUME UNCHANGED <<container, code, verdict>> PROVE [Contract!Next]_Contract!vars
    BY <1>1 DEF Contract!vars, sandbox, finish
  <1>2. CASE ListsNetworks \/ CreatesNetwork \/ NetworkAppears \/ Crashes \/ Signal \/ Exit
    BY <1>1, <1>2 DEF ListsNetworks, CreatesNetwork, NetworkAppears, Crashes, Dies, Signal, Exit
  <1>3. ASSUME NEW a \in Attempts,
                \/ Begins(a) \/ WaitBreaks(a) \/ ServiceStep(a) \/ Ends(a)
                \/ ((InsideStep(a) \/ AgentStep(a)) /\ Inside(a))
         PROVE  [Contract!Next]_Contract!vars
    <2>1. CASE Begins(a)
      BY <1>1, <2>1 DEF Begins
    <2>2. CASE CreatesContainer(a)
      <3>1. CASE Becomes(a, "created") /\ UNCHANGED verdict
        <4>1. Contract!Moves(a, {"absent"}, "ready")
          BY <2>2, <3>1, BoxMoves DEF SandboxInv, PlaceInv, CreatesContainer, Becomes, Contract!Moves, Shown
        <4>2. UNCHANGED finish
          BY <2>2 DEF CreatesContainer, finish
        <4>3. Contract!Create(a)
          BY <3>1, <4>1, <4>2 DEF Contract!Create
        <4> QED
          BY <4>3 DEF Contract!Next
      <3>2. CASE Returns(a, "failed") /\ UNCHANGED box
        BY <2>2, <3>2, Speaks DEF CreatesContainer, Returns, Says
      <3> QED
        BY <2>2, <3>1, <3>2 DEF CreatesContainer
    <2>3. CASE InspectsNew(a)
      BY <2>3, Speaks DEF InspectsNew, Returns, Says
    <2>4. CASE Starts(a)
      <3>1. CASE Boots(a)
        <4>1. Contract!Moves(a, {"ready"}, "running")
          BY <3>1, BoxMoves DEF SandboxInv, Boots, Becomes, Contract!Moves, Shown
        <4>2. UNCHANGED finish
          BY <2>4 DEF Starts, finish
        <4>3. verdict' = verdict \/ (verdict[a] = "none" /\ verdict' = [verdict EXCEPT ![a] = "failed"])
          BY <2>4 DEF Starts, Fails, SandboxInv, PlaceInv
        <4>4. Contract!Start(a)
          BY <4>1, <4>2, <4>3 DEF Contract!Start
        <4> QED
          BY <4>4 DEF Contract!Next
      <3>2. CASE Fails(a) /\ UNCHANGED container
        BY <2>4, <3>2, Speaks DEF Starts, Fails, Says
      <3> QED
        BY <2>4, <3>1, <3>2 DEF Starts
    <2>5. CASE BeginsWait(a)
      BY <2>5, Speaks DEF BeginsWait, Fails, Says
    <2>6. CASE WaitReturns(a)
      BY <1>1, <2>6 DEF WaitReturns
    <2>7. CASE Removes(a)
      <3>1. Says(a) /\ UNCHANGED code
        BY <2>7 DEF Removes, Returns, Fails, Says
      <3>2. CASE container[a] = "exited" /\ Becomes(a, "removed")
        BY <3>1, <3>2, Clears DEF Becomes
      <3>3. CASE UNCHANGED container
        BY <3>1, <3>3, Speaks
      <3> QED
        BY <2>7, <3>2, <3>3 DEF Removes
    <2>8. CASE WaitBreaks(a)
      BY <2>8, Speaks DEF WaitBreaks, Fails, Says
    <2>9. CASE TimesOut(a)
      BY <2>9, Speaks DEF TimesOut, Fails, Says
    <2>10. CASE AbandonedWaitReturns(a)
      BY <2>10, Clears DEF AbandonedWaitReturns, Becomes, Says
    <2>11. CASE Publishes(a)
      <3>1. UNCHANGED <<sandbox, finish>>
        BY <2>11 DEF Publishes, sandbox, finish
      <3>2. verdict[a] = "none" /\ sandbox[a] = "gone" /\ finish[a] = "ok"
        BY <2>11, DriverAssumption
        DEF Publishes, SandboxInv, PlaceInv, ExitInv, sandbox, finish, Shown, Result
      <3>3. PICK v \in {"completed", "failed"} : verdict' = [verdict EXCEPT ![a] = v]
        BY <2>11 DEF Publishes, Returns
      <3>4. Contract!Report(a, v)
        BY <3>1, <3>2, <3>3 DEF Contract!Report
      <3> QED
        BY <3>4 DEF Contract!Next
    <2>12. CASE Ends(a)
      BY <2>12, Halts DEF Ends, Becomes
    <2>13. ASSUME NEW w \in Callers, StopInspects(w, a) PROVE [Contract!Next]_Contract!vars
      BY <1>1, <2>13 DEF StopInspects
    <2>14. ASSUME NEW w \in Callers, StopHalts(w, a) PROVE [Contract!Next]_Contract!vars
      <3>1. CASE container[a] = "running" /\ Becomes(a, "exited")
        BY <2>14, <3>1, Halts DEF StopHalts, Becomes
      <3>2. CASE UNCHANGED container
        BY <1>1, <2>14, <3>2 DEF StopHalts
      <3> QED
        BY <2>14, <3>1, <3>2 DEF StopHalts
    <2>15. ASSUME NEW w \in Callers, StopRemoves(w, a) PROVE [Contract!Next]_Contract!vars
      <3>1. UNCHANGED <<code, verdict>>
        BY <2>15 DEF StopRemoves, StopReturns
      <3>2. CASE container[a] \in {"created", "exited", "removed"} /\ Becomes(a, "removed")
        BY <3>1, <3>2, Clears DEF Becomes, Says
      <3>3. CASE UNCHANGED container
        BY <1>1, <3>1, <3>3
      <3> QED
        BY <2>15, <3>2, <3>3 DEF StopRemoves
    <2>16. CASE InsideStep(a) /\ Inside(a)
      BY <1>1, <2>16 DEF InsideStep, Inside, SetsUp, Drains, ReportsExit, DriverDies, TearsDown, Exits, SendReturns
    <2>17. CASE HarnessWrites(a) /\ Inside(a)
      BY <1>1, <2>17 DEF Inside, HarnessWrites
    <2>18. ASSUME NEW c \in {0, 1}, HarnessExits(a, c), Inside(a) PROVE [Contract!Next]_Contract!vars
      <3>1. code[a] = NoCode /\ code' = [code EXCEPT ![a] = c]
        BY <2>18 DEF HarnessExits, Step, SandboxInv, ExitInv
      <3>2. finish[a] = "none" /\ sandbox[a] = "running"
        BY <2>18, <3>1, DriverAssumption DEF Inside, finish, sandbox, Result, Shown
      <3>3. finish' = [finish EXCEPT ![a] = Result(c)]
        BY <3>1 DEF finish, SandboxInv, TypeOK, DriverTypeOK
      <3>4. Result(c) \in {"ok", "bad"}
        BY DriverAssumption DEF Result
      <3>5. UNCHANGED <<sandbox, verdict>>
        BY <2>18 DEF Inside, sandbox
      <3>6. Contract!Finish(a, Result(c))
        BY <3>2, <3>3, <3>5 DEF Contract!Finish
      <3> QED
        BY <3>4, <3>6 DEF Contract!Next
    <2> QED
      BY <1>3, <2>1, <2>2, <2>3, <2>4, <2>5, <2>6, <2>7, <2>8, <2>9, <2>10, <2>11, <2>12, <2>13,
         <2>14, <2>15, <2>16, <2>17, <2>18
      DEF ServiceStep, AgentStep
  <1>4. CASE UNCHANGED vars
    BY <1>1, <1>4 DEF vars
  <1> QED
    BY <1>2, <1>3, <1>4 DEF Next

\* The Docker service keeps the contract of a sandbox service.
THEOREM KeepsContract == Spec => ImplementsContract
  <1>1. Init => Contract!Init
    BY DriverAssumption DEF Init, DriverInit, Contract!Init, sandbox, finish, Shown, Result
  <1>2. SandboxInv /\ [Next]_vars => [Contract!Next]_Contract!vars
    BY StepContract
  <1> QED
    BY Invariance, <1>1, <1>2, PTL DEF Spec, ImplementsContract, Contract!Spec

=============================================================================
