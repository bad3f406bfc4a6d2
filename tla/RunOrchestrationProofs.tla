------------------------ MODULE RunOrchestrationProofs ------------------------
(***************************************************************************)
(* Theorems about the run loop, for every number of tasks, runs, requests  *)
(* and slots, every set of faults and every bound.                         *)
(***************************************************************************)
EXTENDS RunOrchestration, TLAPS

\* The run that createRun inserts exists and is new (RunsService.ts:58-64).
LEMMA FreshRunIsUnborn ==
    ASSUME Unborn # {} PROVE FreshRun \in Runs /\ run[FreshRun] = "none"
  BY DEF Unborn, FreshRun

\* What the handlers decide has the shape of a decision (WorkflowManager.ts:206-275, 304-326).
LEMMA DecisionsType ==
    ASSUME TypeOK, NEW kind \in {"completed", "failed"}, NEW d \in Decisions(kind)
    PROVE  d \in [write : {"run"}, task : Tasks] \cup [write : {"idle", "failed"}, task : {NoTask}]
  BY DEF TypeOK, Decisions

\* A slot moves on with the run it has, and a callback names that run.
LEMMA GotoType ==
    ASSUME TypeOK, NEW s \in Slots, slot[s] \in Busy, NEW pc \in SlotPc, Goto(s, pc)
    PROVE  slot' \in [Slots -> Busy \cup {Free}]
<1>1. [slot[s] EXCEPT !.pc = pc] \in Busy
  BY DEF Busy
<1>2. slot' = [slot EXCEPT ![s] = [slot[s] EXCEPT !.pc = pc]]
  BY DEF Goto
<1>3. QED
  BY <1>1, <1>2 DEF TypeOK

LEMMA TriggerType ==
    ASSUME TypeOK, NEW r \in Runs, NEW kind \in {"completed", "failed"},
           NEW from \in Slots \cup {"event", "shutdown"}, Trigger(kind, r, from)
    PROVE  triggered' \in SUBSET Event
<1>1. [kind |-> kind, run |-> r, from |-> from] \in Event
  BY DEF Event
<1>2. QED
  BY <1>1 DEF TypeOK, Trigger

LEMMA BusySlot ==
    ASSUME TypeOK, NEW s \in Slots, slot[s].pc # "free"
    PROVE  slot[s] \in Busy /\ slot[s].run \in Runs /\ slot[s].pc \in SlotPc
  BY DEF TypeOK, Busy, Free

\* The end of the process leaves every variable of its memory well typed.
LEMMA ProcessEndsType ==
    ASSUME TypeOK, ProcessEnds, UNCHANGED <<db, redis>> PROVE TypeOK'
  BY DEF TypeOK, ProcessEnds, db, redis, Unused, Answered, CallPc, QueueStates

\* Type correctness: every reachable state has the shape of the tables, queues and maps.
THEOREM TypeCorrect == Spec => []TypeOK
<1>1. Init => TypeOK
  BY DEF Init, TypeOK, Unused, CallPc, QueueStates
<1>2. TypeOK /\ [Next]_vars => TypeOK'
  <2> SUFFICES ASSUME TypeOK, [Next]_vars PROVE TypeOK'
    OBVIOUS
  <2> USE DEF TypeOK, db, redis, memory, Event
  <2>1. ASSUME NEW t \in Tasks, AddTask(t) \/ UserCompletesTask(t) PROVE TypeOK'
    BY <2>1 DEF AddTask, UserCompletesTask
  <2>2. ASSUME NEW c \in Calls, Request(c) PROVE TypeOK'
    <3>1. ASSUME NEW op \in {"loop", "single"}, StartRead(c, op) PROVE TypeOK'
      BY <3>1 DEF StartRead, CallPc, QueueStates, Processing
    <3>2. CASE StartWrite(c)
      BY <3>2, FreshRunIsUnborn DEF StartWrite, InsertRun, Answered, CallPc, QueueStates, ActiveState
    <3>3. CASE StopRead(c)
      BY <3>3 DEF StopRead, CallPc, QueueStates
    <3>4. CASE StopWrite(c)
      BY <3>4 DEF StopWrite, Answered, CallPc, QueueStates
    <3>5. QED
      BY <2>2, <3>1, <3>2, <3>3, <3>4 DEF Request
  <2>3. ASSUME NEW q \in unqueued, QueueRun(q) \/ QueueRunFails(q) PROVE TypeOK'
    <3>1. CASE QueueRun(q)
      BY <3>1 DEF QueueRun
    <3>2. CASE QueueRunFails(q)
      BY <3>2, ProcessEndsType DEF QueueRunFails
    <3>3. QED
      BY <2>3, <3>1, <3>2
  <2>4. ASSUME NEW s \in Slots, Worker(s) PROVE TypeOK'
    <3>1. ASSUME NEW r \in Runs, TakeJob(s, r) PROVE TypeOK'
      BY <3>1 DEF TakeJob, Busy, SlotPc
    <3>2. CASE ClaimRead(s)
      <4>1. slot' \in [Slots -> Busy \cup {Free}]
        BY <3>2, BusySlot, GotoType DEF ClaimRead, SlotPc
      <4>2. QED
        BY <3>2, <4>1 DEF ClaimRead
    <3>3. CASE ClaimWrite(s)
      <4> DEFINE r == slot[s].run
      <4>1. r \in Runs /\ slot[s] \in Busy
        BY <3>3, BusySlot DEF ClaimWrite
      <4>2. CASE run' = [run EXCEPT ![r] = "in_progress"] /\ Goto(s, "begin")
                 /\ UNCHANGED <<job, holder, active, marking>>
        <5>1. slot' \in [Slots -> Busy \cup {Free}]
          BY <4>1, <4>2, GotoType DEF SlotPc
        <5>2. QED
          BY <3>3, <4>1, <4>2, <5>1 DEF ClaimWrite, ActiveState
      <4>3. CASE slot' = [slot EXCEPT ![s] = Free] /\ active' = active \ {r} /\ UNCHANGED run
                 /\ \/ FinishesJob(s, r)
                       /\ marking' = marking \cup {[run |-> r, by |-> "event", pc |-> "read"]}
                    \/ KeepsJob(s, r) /\ UNCHANGED marking
        BY <3>3, <4>1, <4>3 DEF ClaimWrite, FinishesJob, KeepsJob
      <4>4. QED
        BY <3>3, <4>2, <4>3 DEF ClaimWrite
    <3>4. CASE BeginExecution(s) \/ ExecutionFails(s)
      <4>1. slot' \in [Slots -> Busy \cup {Free}]
        BY <3>4, BusySlot, GotoType DEF BeginExecution, ExecutionFails, SlotPc
      <4>2. QED
        BY <3>4, <4>1 DEF BeginExecution, ExecutionFails
    <3>5. CASE ExecutionSucceeds(s)
      <4>1. slot' \in [Slots -> Busy \cup {Free}]
        BY <3>5, BusySlot, GotoType DEF ExecutionSucceeds, SlotPc
      <4>2. QED
        BY <3>5, <4>1 DEF ExecutionSucceeds
    <3>6. CASE CompleteRead(s) \/ CompleteWrite(s)
      <4>1. slot[s].run \in Runs /\ slot[s] \in Busy
        BY <3>6, BusySlot DEF CompleteRead, CompleteWrite
      <4>2. slot' \in [Slots -> Busy \cup {Free}]
        BY <3>6, <4>1, GotoType DEF CompleteRead, CompleteWrite, SlotPc
      <4>3. triggered' \in SUBSET Event
        BY <3>6, <4>1, TriggerType DEF CompleteRead, CompleteWrite
      <4>4. QED
        BY <3>6, <4>1, <4>2, <4>3 DEF CompleteRead, CompleteWrite, Terminal
    <3>7. CASE FailRead(s) \/ FailWrite(s)
      <4>1. slot[s].run \in Runs /\ slot[s] \in Busy
        BY <3>7, BusySlot DEF FailRead, FailWrite
      <4>2. slot' \in [Slots -> Busy \cup {Free}]
        BY <3>7, <4>1, GotoType DEF FailRead, FailWrite, SlotPc
      <4>3. triggered' \in SUBSET Event
        BY <3>7, <4>1, TriggerType DEF FailRead, FailWrite
      <4>4. QED
        BY <3>7, <4>1, <4>2, <4>3 DEF FailRead, FailWrite, Terminal
    <3>8. CASE Leave(s)
      BY <3>8 DEF Leave, FinishesJob, KeepsJob
    <3>9. QED
      BY <2>4, <3>1, <3>2, <3>3, <3>4, <3>5, <3>6, <3>7, <3>8 DEF Worker
  <2>5. ASSUME NEW m \in marking, MarkRead(m) \/ MarkWrite(m) PROVE TypeOK'
    BY <2>5 DEF MarkRead, MarkWrite, Trigger, Terminal
  <2>6. ASSUME NEW e \in triggered, HandlerRead(e) PROVE TypeOK'
    BY <2>6, DecisionsType DEF HandlerRead
  <2>7. ASSUME NEW h \in handling,
               HandlerSetsState(h) \/ HandlerCreatesRun(h) \/ HandlerRejects(h)
        PROVE  TypeOK'
    <3>1. CASE HandlerSetsState(h)
      BY <3>1 DEF HandlerSetsState, QueueStates
    <3>2. CASE HandlerCreatesRun(h)
      BY <3>2, FreshRunIsUnborn DEF HandlerCreatesRun, InsertRun, ActiveState
    <3>3. CASE HandlerRejects(h)
      BY <3>3, ProcessEndsType DEF HandlerRejects
    <3>4. QED
      BY <2>7, <3>1, <3>2, <3>3
  <2>8. CASE Crash \/ Exit
    BY <2>8, ProcessEndsType DEF Crash, Exit
  <2>9. CASE Signal \/ ShutdownMarksRuns \/ Restart
    BY <2>9 DEF Signal, ShutdownMarksRuns, Restart
  <2>10. ASSUME NEW r \in Runs, JobStalls(r) PROVE TypeOK'
    BY <2>10 DEF JobStalls
  <2>11. CASE UNCHANGED vars
    BY <2>11 DEF vars
  <2>12. QED
    BY <2>1, <2>2, <2>3, <2>4, <2>5, <2>6, <2>7, <2>8, <2>9, <2>10, <2>11
    DEF Next, Marks, Handlers
<1>3. QED
  BY <1>1, <1>2, PTL DEF Spec

-----------------------------------------------------------------------------
\* createRun changes neither the state nor the task of a run that exists.
LEMMA InsertKeepsOthers ==
    ASSUME TypeOK, NEW t, NEW by, Unborn # {}, InsertRun(t, by)
    PROVE  \A r \in Runs : run[r] # "none" =>
              run'[r] = run[r] /\ runTask'[r] = runTask[r]
  BY FreshRunIsUnborn DEF InsertRun, TypeOK

LEMMA InsertKeepsCompletion ==
    ASSUME TypeOK, CompletionInv, NEW t, NEW by \in {"call", "callback"}, Unborn # {},
           InsertRun(t, by), UNCHANGED <<job, slot, done>>
    PROVE  CompletionInv'
<1>1. run'[FreshRun] = "pending" /\ FreshRun \in Runs /\ run[FreshRun] = "none"
  BY FreshRunIsUnborn DEF InsertRun, TypeOK
<1>2. \A r \in Runs : run[r] # "none" => run'[r] = run[r] /\ runTask'[r] = runTask[r]
  BY InsertKeepsOthers
<1>3. \A r \in Runs : r # FreshRun => run'[r] = run[r]
  BY <1>1 DEF InsertRun, TypeOK
<1>4. CompletedRunCompletedTask'
  BY <1>1, <1>2, <1>3 DEF CompletionInv, CompletedRunCompletedTask
<1>5. \A q \in unqueued' : run'[q.run] # "none"
  <2>1. \A q \in unqueued : run'[q.run] # "none"
    BY <1>2 DEF CompletionInv, TypeOK
  <2>2. QED
    BY <1>1, <2>1 DEF InsertRun
<1>6. \A s \in Slots : slot[s].pc # "free" => slot[s].run \in Runs
  BY BusySlot
<1>7. QED
  BY <1>1, <1>2, <1>3, <1>4, <1>5, <1>6 DEF CompletionInv

\* The end of the process forgets slots and requests and keeps the tables.
LEMMA ProcessEndsCompletion ==
    ASSUME CompletionInv, ProcessEnds, UNCHANGED <<db, redis>> PROVE CompletionInv'
  BY DEF CompletionInv, CompletedRunCompletedTask, ProcessEnds, db, redis, Free

\* A slot that moves on may set its run's state, and records completion of a completed task only.
LEMMA SlotKeepsCompletion ==
    ASSUME TypeOK, CompletionInv, NEW s \in Slots, slot[s].pc # "free",
           NEW pc \in SlotPc, Goto(s, pc),
           pc \in {"completeRead", "completeWrite"} => runTask[slot[s].run] \in done',
           NEW st \in {"in_progress", "completed", "failed"},
           run' = run \/ run' = [run EXCEPT ![slot[s].run] = st],
           st = "completed" => runTask[slot[s].run] \in done,
           done \subseteq done', UNCHANGED <<runTask, job, unqueued>>
    PROVE  CompletionInv'
<1>1. slot[s].run \in Runs /\ slot[s] \in Busy
  BY BusySlot
<1>2. [slot[s] EXCEPT !.pc = pc].pc = pc /\ [slot[s] EXCEPT !.pc = pc].run = slot[s].run
  BY <1>1 DEF Busy
<1>3. \A z \in Slots : /\ slot'[z].run = slot[z].run
                       /\ slot'[z].pc = IF z = s THEN pc ELSE slot[z].pc
  BY <1>2 DEF Goto, TypeOK
<1>4. \A r \in Runs : run'[r] = run[r] \/ (r = slot[s].run /\ run'[r] = st)
  BY <1>1 DEF TypeOK
<1>5. CompletedRunCompletedTask'
  BY <1>4 DEF CompletionInv, CompletedRunCompletedTask
<1>6. \A r \in Runs : run[r] # "none" => run'[r] # "none"
  BY <1>4
<1>7. \A z \in Slots : slot'[z].pc # "free" => run'[slot'[z].run] # "none"
  <2>1. \A z \in Slots : slot[z].pc # "free" => slot[z].run \in Runs
    BY BusySlot
  <2>2. QED
    BY <1>3, <1>6, <2>1 DEF CompletionInv
<1>8. \A q \in unqueued : run'[q.run] # "none"
  BY <1>6 DEF CompletionInv, TypeOK
<1>9. QED
  BY <1>3, <1>5, <1>6, <1>7, <1>8 DEF CompletionInv

\* Every step keeps the invariant.
LEMMA StepCompletion ==
    ASSUME TypeOK, CompletionInv, [Next]_vars PROVE CompletionInv'
<1> USE DEF db, redis, memory
<1>1. ASSUME NEW t \in Tasks, AddTask(t) \/ UserCompletesTask(t) PROVE CompletionInv'
  BY <1>1 DEF AddTask, UserCompletesTask, CompletionInv, CompletedRunCompletedTask
<1>2. ASSUME NEW c \in Calls, Request(c) PROVE CompletionInv'
  <2>1. ASSUME NEW op \in {"loop", "single"}, StartRead(c, op) \/ StopRead(c) \/ StopWrite(c)
        PROVE  CompletionInv'
    BY <2>1 DEF StartRead, StopRead, StopWrite, CompletionInv, CompletedRunCompletedTask
  <2>2. CASE StartWrite(c)
    <3>1. CASE Unborn # {} /\ InsertRun(call[c].task, "call")
      BY <2>2, <3>1, InsertKeepsCompletion DEF StartWrite
    <3>2. CASE UNCHANGED <<run, runTask, unqueued>>
      BY <2>2, <3>2 DEF StartWrite, CompletionInv, CompletedRunCompletedTask
    <3>3. QED
      BY <2>2, <3>1, <3>2 DEF StartWrite
  <2>3. QED
    BY <1>2, <2>1, <2>2 DEF Request
<1>3. ASSUME NEW q \in unqueued, QueueRun(q) \/ QueueRunFails(q) PROVE CompletionInv'
  <2>1. CASE QueueRun(q)
    BY <2>1 DEF QueueRun, CompletionInv, CompletedRunCompletedTask, TypeOK
  <2>2. CASE QueueRunFails(q)
    BY <2>2, ProcessEndsCompletion DEF QueueRunFails, CompletionInv, CompletedRunCompletedTask
  <2>3. QED
    BY <1>3, <2>1, <2>2
<1>4. ASSUME NEW s \in Slots, Worker(s) PROVE CompletionInv'
  <2>1. ASSUME NEW r \in Runs, TakeJob(s, r) PROVE CompletionInv'
    BY <2>1 DEF TakeJob, TypeOK, CompletionInv, CompletedRunCompletedTask
  <2>2. CASE ClaimRead(s)
    BY <2>2, SlotKeepsCompletion DEF ClaimRead, SlotPc
  <2>3. CASE BeginExecution(s) \/ ExecutionFails(s)
    <3>1. PICK pc \in {"failRead", "working"} : Goto(s, pc)
      BY <2>3 DEF BeginExecution, ExecutionFails
    <3>2. slot[s].pc # "free" /\ pc \in SlotPc /\ UNCHANGED <<run, runTask, job, unqueued, done>>
      BY <2>3 DEF BeginExecution, ExecutionFails, SlotPc
    <3>3. QED
      BY <3>1, <3>2, SlotKeepsCompletion
  <2>4. CASE ClaimWrite(s) /\ run' = [run EXCEPT ![slot[s].run] = "in_progress"]
             /\ Goto(s, "begin") /\ UNCHANGED job
    <3>1. slot[s].pc # "free" /\ "begin" \in SlotPc /\ UNCHANGED <<runTask, job, unqueued, done>>
      BY <2>4 DEF ClaimWrite, SlotPc
    <3>2. QED
      BY <2>4, <3>1, SlotKeepsCompletion
  <2>5. CASE \/ Leave(s)
             \/ /\ ClaimWrite(s) /\ slot' = [slot EXCEPT ![s] = Free] /\ UNCHANGED run
                /\ FinishesJob(s, slot[s].run) \/ KeepsJob(s, slot[s].run)
    <3>1. /\ slot' = [slot EXCEPT ![s] = Free]
          /\ UNCHANGED <<run, runTask, done, unqueued>>
          /\ FinishesJob(s, slot[s].run) \/ KeepsJob(s, slot[s].run)
      BY <2>5 DEF Leave, ClaimWrite
    <3>2. \A r \in Runs : job'[r] \in {"waiting", "active"} => job[r] \in {"waiting", "active"}
      BY <3>1 DEF FinishesJob, KeepsJob, TypeOK
    <3>3. \A z \in Slots : slot'[z] = slot[z] \/ slot'[z] = Free
      BY <3>1 DEF TypeOK
    <3>4. QED
      BY <3>1, <3>2, <3>3 DEF CompletionInv, CompletedRunCompletedTask, Free
  <2>6. CASE ExecutionSucceeds(s)
    BY <2>6, SlotKeepsCompletion DEF ExecutionSucceeds, SlotPc
  <2>7. CASE CompleteRead(s) \/ CompleteWrite(s)
    <3>1. runTask[slot[s].run] \in done
      BY <2>7 DEF CompleteRead, CompleteWrite, CompletionInv
    <3>2. QED
      BY <2>7, <3>1, SlotKeepsCompletion DEF CompleteRead, CompleteWrite, SlotPc
  <2>8. CASE FailRead(s) \/ FailWrite(s)
    BY <2>8, SlotKeepsCompletion DEF FailRead, FailWrite, SlotPc
  <2>9. CASE ClaimWrite(s)
    BY <2>4, <2>5, <2>9 DEF ClaimWrite
  <2>10. QED
    BY <1>4, <2>1, <2>2, <2>3, <2>5, <2>6, <2>7, <2>8, <2>9 DEF Worker
<1>5. ASSUME NEW m \in marking, MarkRead(m) \/ MarkWrite(m) PROVE CompletionInv'
  <2>1. m.run \in Runs
    BY DEF TypeOK
  <2>2. \A r \in Runs : run'[r] = run[r] \/ run'[r] = "failed"
    BY <1>5, <2>1 DEF MarkRead, MarkWrite, TypeOK
  <2>3. \A s \in Slots : slot[s].pc # "free" => slot[s].run \in Runs
    BY BusySlot
  <2>4. UNCHANGED <<slot, job, unqueued, runTask, done>>
    BY <1>5 DEF MarkRead, MarkWrite
  <2>5. QED
    BY <2>2, <2>3, <2>4 DEF CompletionInv, CompletedRunCompletedTask, TypeOK
<1>6. ASSUME NEW e \in triggered, HandlerRead(e) PROVE CompletionInv'
  BY <1>6 DEF HandlerRead, CompletionInv, CompletedRunCompletedTask
<1>7. ASSUME NEW h \in handling,
             HandlerSetsState(h) \/ HandlerCreatesRun(h) \/ HandlerRejects(h)
      PROVE  CompletionInv'
  <2>1. CASE HandlerSetsState(h)
    BY <2>1 DEF HandlerSetsState, CompletionInv, CompletedRunCompletedTask
  <2>2. CASE HandlerCreatesRun(h)
    <3>1. h.does.task \in Tasks
      BY <2>2 DEF HandlerCreatesRun, TypeOK
    <3>2. QED
      BY <2>2, <3>1, InsertKeepsCompletion DEF HandlerCreatesRun
  <2>3. CASE HandlerRejects(h)
    BY <2>3, ProcessEndsCompletion DEF HandlerRejects
  <2>4. QED
    BY <1>7, <2>1, <2>2, <2>3
<1>8. CASE Crash \/ Exit
  BY <1>8, ProcessEndsCompletion DEF Crash, Exit
<1>9. CASE Signal \/ ShutdownMarksRuns \/ Restart
  BY <1>9 DEF Signal, ShutdownMarksRuns, Restart, CompletionInv, CompletedRunCompletedTask
<1>10. ASSUME NEW r \in Runs, JobStalls(r) PROVE CompletionInv'
  BY <1>10 DEF JobStalls, CompletionInv, CompletedRunCompletedTask, TypeOK
<1>11. CASE UNCHANGED vars
  BY <1>11 DEF vars, CompletionInv, CompletedRunCompletedTask
<1>12. QED
  BY <1>1, <1>2, <1>3, <1>4, <1>5, <1>6, <1>7, <1>8, <1>9, <1>10, <1>11
  DEF Next, Marks, Handlers

\* A run recorded as completed belongs to a completed task, in every behaviour: under any
\* number of crashes, shutdowns, stalled jobs and refused transitions.
THEOREM CompletedRuns == Spec => []CompletedRunCompletedTask
<1>1. Init => CompletionInv
  BY DEF Init, CompletionInv, CompletedRunCompletedTask, Free
<1>2. TypeOK /\ CompletionInv /\ [Next]_vars => CompletionInv'
  BY StepCompletion
<1>3. CompletionInv => CompletedRunCompletedTask
  BY DEF CompletionInv
<1>4. QED
  BY <1>1, <1>2, <1>3, TypeCorrect, PTL DEF Spec
-----------------------------------------------------------------------------
\* A project that processes always has work, whatever fails: no step but the end of the process
\* takes the last run that is not over without leaving a callback, nor the last callback without
\* a decision that changes the project's state or starts a run.

\* A step that leaves the project's state and every run that is not over alone, and adds to the
\* callbacks at most.
LEMMA FrameProcessing ==
    ASSUME ProcessingInv, UNCHANGED <<project, outages>>,
           \A r \in Runs : run[r] \in ActiveState => run'[r] \in ActiveState,
           triggered \subseteq triggered', handling \subseteq handling',
           \A c \in Calls : call'[c].pc = "stop" => call'[c].to \notin Processing
    PROVE  ProcessingInv'
  BY DEF ProcessingInv, ProcessingHasWork, ActiveRuns

\* A step that ends a run leaves a callback.
LEMMA CallbackKeepsProcessing ==
    ASSUME ProcessingInv, NEW e, triggered' = triggered \cup {e}, UNCHANGED call
    PROVE  ProcessingInv'
  BY DEF ProcessingInv, ProcessingHasWork

\* A new run is a run that is not over.
LEMMA InsertKeepsProcessing ==
    ASSUME TypeOK, ProcessingInv, Unborn # {}, NEW t, NEW by, InsertRun(t, by),
           \A c \in Calls : call'[c].pc = "stop" => call'[c].to \notin Processing
    PROVE  ProcessingInv'
<1>1. FreshRun \in Runs /\ run'[FreshRun] = "pending"
  BY FreshRunIsUnborn DEF InsertRun, TypeOK
<1>2. ActiveRuns' # {}
  BY <1>1 DEF ActiveRuns, ActiveState
<1>3. QED
  BY <1>2 DEF ProcessingInv, ProcessingHasWork

LEMMA ProcessEndsProcessing ==
    ASSUME TypeOK, ProcessEnds PROVE ProcessingInv'
<1>1. outages' # 0
  BY DEF TypeOK, ProcessEnds
<1>2. \A c \in Calls : call'[c].pc # "stop"
  BY DEF ProcessEnds, Unused, Answered
<1>3. QED
  BY <1>1, <1>2 DEF ProcessingInv, ProcessingHasWork

\* handleRunCompleted and handleRunFailed decide something in every state that processes.
LEMMA DecisionsExist ==
    ASSUME NEW kind \in {"completed", "failed"}, project \in Processing
    PROVE  Decisions(kind) # {}
<1>1. CASE kind = "completed" /\ project = "processing-loop" /\ todo # {}
  BY <1>1 DEF Decisions
<1>2. CASE kind = "completed" /\ ~(project = "processing-loop" /\ todo # {})
  BY <1>2 DEF Decisions
<1>3. CASE kind = "failed"
  BY <1>3 DEF Decisions
<1>4. QED
  BY <1>1, <1>2, <1>3

LEMMA StepProcessing ==
    ASSUME TypeOK, ProcessingInv, [Next]_vars PROVE ProcessingInv'
<1> USE DEF db, redis, memory
<1>1. ASSUME NEW t \in Tasks, AddTask(t) \/ UserCompletesTask(t) PROVE ProcessingInv'
  BY <1>1, FrameProcessing DEF AddTask, UserCompletesTask, ProcessingInv
<1>2. ASSUME NEW c \in Calls, Request(c) PROVE ProcessingInv'
  <2>1. \A d \in Calls : call'[d].pc = "stop" => call'[d].to \notin Processing
    <3>1. \A d \in Calls \ {c} : call'[d] = call[d]
      BY <1>2 DEF Request, StartRead, StartWrite, StopRead, StopWrite, TypeOK
    <3>2. CASE StopRead(c)
      BY <3>1, <3>2 DEF StopRead, TypeOK, ProcessingInv, Processing
    <3>3. CASE ~StopRead(c)
      <4>1. call'[c].pc # "stop"
        BY <1>2, <3>3 DEF Request, StartRead, StartWrite, StopWrite, Answered, TypeOK
      <4>2. QED
        BY <3>1, <4>1 DEF ProcessingInv
    <3>4. QED
      BY <3>2, <3>3
  <2>2. ASSUME NEW op \in {"loop", "single"}, StartRead(c, op) \/ StopRead(c) PROVE ProcessingInv'
    BY <2>1, <2>2, FrameProcessing DEF StartRead, StopRead
  <2>3. CASE StartWrite(c)
    <3>1. CASE Unborn # {} /\ InsertRun(call[c].task, "call")
      BY <2>1, <3>1, InsertKeepsProcessing
    <3>2. CASE UNCHANGED <<project, run, runTask, unqueued>>
      BY <2>1, <2>3, <3>2, FrameProcessing DEF StartWrite
    <3>3. QED
      BY <2>3, <3>1, <3>2 DEF StartWrite
  <2>4. CASE StopWrite(c)
    <3>1. project' \notin Processing
      BY <2>4 DEF StopWrite, ProcessingInv
    <3>2. QED
      BY <2>1, <3>1 DEF ProcessingInv, ProcessingHasWork
  <2>5. QED
    BY <1>2, <2>2, <2>3, <2>4 DEF Request
<1>3. ASSUME NEW q \in unqueued, QueueRun(q) \/ QueueRunFails(q) PROVE ProcessingInv'
  <2>1. CASE ProcessEnds
    BY <2>1, ProcessEndsProcessing
  <2>2. CASE ~ProcessEnds
    BY <1>3, <2>2, FrameProcessing DEF QueueRun, QueueRunFails, ProcessingInv
  <2>3. QED
    BY <2>1, <2>2
<1>4. ASSUME NEW s \in Slots, Worker(s) PROVE ProcessingInv'
  <2>1. CASE CompleteWrite(s) \/ FailWrite(s)
    BY <2>1, CallbackKeepsProcessing DEF CompleteWrite, FailWrite, Trigger
  <2>2. CASE run' = [run EXCEPT ![slot[s].run] = "in_progress"] /\ ClaimWrite(s)
    <3>1. \A r \in Runs : run[r] \in ActiveState => run'[r] \in ActiveState
      BY <2>2 DEF TypeOK, ActiveState
    <3>2. QED
      BY <2>2, <3>1, FrameProcessing DEF ClaimWrite, ProcessingInv
  <2>3. CASE UNCHANGED run
    <3>1. UNCHANGED <<project, outages, handling, call>> /\ triggered \subseteq triggered'
      BY <1>4 DEF Worker, TakeJob, ClaimRead, ClaimWrite, BeginExecution, ExecutionFails,
         ExecutionSucceeds, CompleteRead, CompleteWrite, FailRead, FailWrite, Leave, Trigger
    <3>2. QED
      BY <2>3, <3>1, FrameProcessing DEF ProcessingInv
  <2>4. QED
    BY <1>4, <2>1, <2>2, <2>3 DEF Worker, TakeJob, ClaimRead, ClaimWrite, BeginExecution,
       ExecutionFails, ExecutionSucceeds, CompleteRead, FailRead, Leave
<1>5. ASSUME NEW m \in marking, MarkRead(m) \/ MarkWrite(m) PROVE ProcessingInv'
  <2>1. CASE UNCHANGED <<run, triggered>>
    BY <1>5, <2>1, FrameProcessing DEF MarkRead, MarkWrite, ProcessingInv
  <2>2. CASE Trigger("failed", m.run, m.by)
    BY <1>5, <2>2, CallbackKeepsProcessing DEF MarkRead, MarkWrite, Trigger
  <2>3. QED
    BY <1>5, <2>1, <2>2 DEF MarkRead, MarkWrite
<1>6. ASSUME NEW e \in triggered, HandlerRead(e) PROVE ProcessingInv'
  <2>1. UNCHANGED <<project, run, outages, call>>
    BY <1>6 DEF HandlerRead
  <2>2. CASE project \in Processing
    <3>1. Decisions(e.kind) # {}
      BY <2>2, DecisionsExist DEF TypeOK, Event
    <3>2. handling' # {}
      BY <1>6, <3>1 DEF HandlerRead
    <3>3. QED
      BY <2>1, <3>2 DEF ProcessingInv, ProcessingHasWork
  <2>3. CASE project \notin Processing
    BY <2>1, <2>3 DEF ProcessingInv, ProcessingHasWork
  <2>4. QED
    BY <2>2, <2>3
<1>7. ASSUME NEW h \in handling,
             HandlerSetsState(h) \/ HandlerCreatesRun(h) \/ HandlerRejects(h)
      PROVE  ProcessingInv'
  <2>1. CASE HandlerSetsState(h)
    BY <2>1 DEF HandlerSetsState, ProcessingInv, ProcessingHasWork, Processing
  <2>2. CASE HandlerCreatesRun(h)
    BY <2>2, InsertKeepsProcessing DEF HandlerCreatesRun, ProcessingInv
  <2>3. CASE HandlerRejects(h)
    BY <2>3, ProcessEndsProcessing DEF HandlerRejects
  <2>4. QED
    BY <1>7, <2>1, <2>2, <2>3
<1>8. CASE Crash \/ Exit
  BY <1>8, ProcessEndsProcessing DEF Crash, Exit
<1>9. CASE Signal \/ ShutdownMarksRuns \/ Restart
  BY <1>9, FrameProcessing DEF Signal, ShutdownMarksRuns, Restart, ProcessingInv
<1>10. ASSUME NEW r \in Runs, JobStalls(r) PROVE ProcessingInv'
  BY <1>10, FrameProcessing DEF JobStalls, ProcessingInv
<1>11. CASE UNCHANGED vars
  BY <1>11, FrameProcessing DEF vars, ProcessingInv
<1>12. QED
  BY <1>1, <1>2, <1>3, <1>4, <1>5, <1>6, <1>7, <1>8, <1>9, <1>10, <1>11
  DEF Next, Marks, Handlers

\* While the process has not ended, a project that processes has a run that is not over or a
\* callback to come (WorkflowManager.ts:206-326), under every fault the model has.
THEOREM ProcessingWorks == Spec => []ProcessingHasWork
<1>1. Init => ProcessingInv
  BY DEF Init, ProcessingInv, ProcessingHasWork, Processing, Unused
<1>2. TypeOK /\ ProcessingInv /\ [Next]_vars => ProcessingInv'
  BY StepProcessing
<1>3. ProcessingInv => ProcessingHasWork
  BY DEF ProcessingInv
<1>4. QED
  BY <1>1, <1>2, <1>3, TypeCorrect, PTL DEF Spec

-----------------------------------------------------------------------------
\* While no lock expires under a live attempt, a run has one job, and a slot has its job alone.
LocksHold == "stall" \notin Faults

\* No other slot and no queueRun names the run of a slot.
LEMMA SlotAlone ==
    ASSUME TypeOK, CompletionInv, JobInv, NEW s \in Slots, slot[s].pc # "free"
    PROVE  /\ slot[s].run \in Runs /\ slot[s] \in Busy
           /\ job[slot[s].run] = "active" /\ holder[slot[s].run] = s
           /\ run[slot[s].run] # "none"
           /\ \A z \in Slots \ {s} : slot[z].pc # "free" => slot[z].run # slot[s].run
           /\ \A q \in unqueued : q.run # slot[s].run
  BY BusySlot DEF JobInv, CompletionInv

\* A step that leaves jobs alone and gives no slot another run.
LEMMA FrameJobs ==
    ASSUME JobInv, \A r \in Runs : run'[r] = "none" => run[r] = "none",
           \A s \in Slots : slot'[s].pc # "free" => slot[s].pc # "free" /\ slot'[s].run = slot[s].run,
           unqueued' \subseteq unqueued, UNCHANGED <<job, holder>>
    PROVE  JobInv'
  BY DEF JobInv

\* A slot that moves on, whatever state it gives its run.
LEMMA GotoKeepsJobs ==
    ASSUME TypeOK, JobInv, NEW s \in Slots, slot[s].pc # "free", NEW pc \in SlotPc, Goto(s, pc),
           NEW st \in ActiveState \cup Terminal,
           run' = run \/ run' = [run EXCEPT ![slot[s].run] = st],
           UNCHANGED <<job, holder, unqueued>>
    PROVE  JobInv'
<1>1. slot[s].run \in Runs /\ slot[s] \in Busy
  BY BusySlot
<1>2. [slot[s] EXCEPT !.pc = pc].run = slot[s].run
  BY <1>1 DEF Busy
<1>3. \A z \in Slots : slot'[z].run = slot[z].run /\ (z # s => slot'[z] = slot[z])
  BY <1>2 DEF Goto, TypeOK
<1>4. \A r \in Runs : run'[r] = "none" => run[r] = "none"
  BY <1>1 DEF TypeOK, ActiveState, Terminal
<1>5. QED
  BY <1>3, <1>4, FrameJobs

\* createRun adds a run that no job, slot or queueRun knows.
LEMMA InsertKeepsJobs ==
    ASSUME TypeOK, CompletionInv, JobInv, Unborn # {}, NEW t, NEW by, InsertRun(t, by),
           UNCHANGED <<slot, job, holder>>
    PROVE  JobInv'
<1> DEFINE r == FreshRun
           new == [run |-> r, by |-> by]
<1>1. r \in Runs /\ run[r] = "none" /\ job[r] = "none"
  BY FreshRunIsUnborn DEF JobInv
<1> HIDE DEF r
<1>2. \A q \in Runs \ {r} : run'[q] = run[q]
  BY <1>1 DEF InsertRun, TypeOK, r
<1>3. run'[r] = "pending"
  BY <1>1 DEF InsertRun, TypeOK, r
<1>4. unqueued' = unqueued \cup {new} /\ new.run = r
  BY DEF InsertRun, r
<1> HIDE DEF new
<1>5. \A q \in unqueued : q.run \in Runs \ {r}
  BY <1>1 DEF CompletionInv, TypeOK
<1>6. QED
  BY <1>1, <1>2, <1>3, <1>4, <1>5 DEF JobInv

\* A job changes hands or ends that no slot has.
LEMMA JobKeepsJobs ==
    ASSUME TypeOK, JobInv, NEW r \in Runs, run[r] # "none",
           \A s \in Slots : slot[s].pc # "free" => slot[s].run # r,
           \A q \in unqueued' : q \in unqueued /\ q.run # r,
           \A q \in Runs \ {r} : job'[q] = job[q] /\ holder'[q] = holder[q],
           UNCHANGED <<run, slot>>
    PROVE  JobInv'
<1>1. \A s \in Slots : slot[s].pc # "free" => slot[s].run \in Runs \ {r}
  BY BusySlot
<1>2. \A q \in unqueued : q.run \in Runs
  BY DEF TypeOK
<1>3. QED
  BY <1>1, <1>2 DEF JobInv

\* processRun begins with a job that was nobody's.
LEMMA TakeKeepsJobs ==
    ASSUME TypeOK, CompletionInv, JobInv, NEW s \in Slots, NEW r \in Runs, TakeJob(s, r)
    PROVE  JobInv'
<1> DEFINE new == [pc |-> "claimRead", run |-> r]
<1>1. /\ job[r] = "waiting" /\ run[r] # "none"
      /\ \A z \in Slots : slot[z].pc # "free" => slot[z].run \in Runs \ {r}
      /\ \A q \in unqueued : q.run \in Runs \ {r}
  BY BusySlot DEF TakeJob, JobInv, CompletionInv, TypeOK
<1>2. job'[r] = "active" /\ holder'[r] = s
      /\ \A q \in Runs \ {r} : job'[q] = job[q] /\ holder'[q] = holder[q]
  BY DEF TakeJob, TypeOK
<1>3. slot'[s] = new /\ new.run = r /\ \A z \in Slots \ {s} : slot'[z] = slot[z]
  BY DEF TakeJob, TypeOK
<1> HIDE DEF new
<1>4. UNCHANGED <<run, unqueued>>
  BY DEF TakeJob, db
<1>5. QED
  BY <1>1, <1>2, <1>3, <1>4 DEF JobInv

\* A slot lets its job go: finished, or kept by a worker that is closing.
LEMMA LetsGoKeepsJobs ==
    ASSUME TypeOK, CompletionInv, JobInv, NEW s \in Slots, slot[s].pc # "free",
           slot' = [slot EXCEPT ![s] = Free],
           FinishesJob(s, slot[s].run) \/ KeepsJob(s, slot[s].run),
           UNCHANGED <<run, unqueued>>
    PROVE  JobInv'
<1> DEFINE r == slot[s].run
<1>1. /\ r \in Runs /\ run[r] # "none"
      /\ \A z \in Slots \ {s} : slot[z].pc # "free" => slot[z].run \in Runs \ {r}
      /\ \A q \in unqueued : q.run \in Runs \ {r}
  BY SlotAlone, BusySlot DEF TypeOK
<1>2. \A q \in Runs \ {r} : job'[q] = job[q] /\ holder'[q] = holder[q]
  BY <1>1 DEF FinishesJob, KeepsJob, TypeOK
<1>3. \A z \in Slots : slot'[z].pc # "free" => z # s /\ slot'[z] = slot[z]
  BY DEF TypeOK, Free
<1>4. QED
  BY <1>1, <1>2, <1>3 DEF JobInv

LEMMA ProcessEndsJobs ==
    ASSUME JobInv, ProcessEnds, UNCHANGED <<db, redis>> PROVE JobInv'
  BY FrameJobs DEF ProcessEnds, db, redis, Free

\* What no slot has: the job of a stalled check and the run of a queueRun.
LEMMA StalledIsNobodys ==
    ASSUME LocksHold, TypeOK, CompletionInv, JobInv, NEW r \in Runs, JobStalls(r)
    PROVE  /\ run[r] # "none"
           /\ \A s \in Slots : slot[s].pc # "free" => slot[s].run # r
           /\ \A q \in unqueued : q.run # r
<1>1. job[r] = "active" /\ ~LockIsLive(r)
  BY DEF JobStalls, LocksHold
<1>2. QED
  BY <1>1, NoneAssumption DEF LockIsLive, JobInv

LEMMA UnqueuedIsNobodys ==
    ASSUME TypeOK, CompletionInv, JobInv, NEW q \in unqueued
    PROVE  /\ q.run \in Runs /\ run[q.run] # "none"
           /\ \A s \in Slots : slot[s].pc # "free" => slot[s].run # q.run
  BY BusySlot DEF TypeOK, CompletionInv, JobInv

LEMMA StepJobs ==
    ASSUME LocksHold, TypeOK, CompletionInv, JobInv, [Next]_vars PROVE JobInv'
<1> USE DEF db, redis, memory
<1>1. ASSUME NEW t \in Tasks, AddTask(t) \/ UserCompletesTask(t) PROVE JobInv'
  BY <1>1, FrameJobs DEF AddTask, UserCompletesTask
<1>2. ASSUME NEW c \in Calls, Request(c) PROVE JobInv'
  <2>1. CASE Unborn # {} /\ InsertRun(call[c].task, "call") /\ StartWrite(c)
    BY <2>1, InsertKeepsJobs DEF StartWrite
  <2>2. CASE UNCHANGED <<run, unqueued, slot, job, holder>>
    BY <2>2, FrameJobs
  <2>3. QED
    BY <1>2, <2>1, <2>2 DEF Request, StartRead, StartWrite, StopRead, StopWrite
<1>3. ASSUME NEW q \in unqueued, QueueRun(q) \/ QueueRunFails(q) PROVE JobInv'
  <2>1. CASE QueueRun(q)
    <3>1. /\ \A p \in unqueued' : p \in unqueued /\ p.run # q.run
          /\ \A p \in Runs \ {q.run} : job'[p] = job[p] /\ holder'[p] = holder[p]
          /\ UNCHANGED <<run, slot>>
      BY <2>1 DEF QueueRun, TypeOK, JobInv
    <3>2. QED
      BY <3>1, UnqueuedIsNobodys, JobKeepsJobs
  <2>2. CASE QueueRunFails(q) /\ ProcessEnds
    BY <2>2, ProcessEndsJobs DEF QueueRunFails
  <2>3. CASE QueueRunFails(q) /\ ~ProcessEnds
    BY <2>3, FrameJobs DEF QueueRunFails
  <2>4. QED
    BY <1>3, <2>1, <2>2, <2>3
<1>4. ASSUME NEW s \in Slots, Worker(s) PROVE JobInv'
  <2>1. ASSUME NEW r \in Runs, TakeJob(s, r) PROVE JobInv'
    BY <2>1, TakeKeepsJobs
  <2>2. CASE \/ Leave(s)
             \/ /\ ClaimWrite(s) /\ slot' = [slot EXCEPT ![s] = Free] /\ UNCHANGED run
                /\ FinishesJob(s, slot[s].run) \/ KeepsJob(s, slot[s].run)
    BY <2>2, LetsGoKeepsJobs DEF Leave, ClaimWrite
  <2>3. CASE ClaimWrite(s) /\ run' = [run EXCEPT ![slot[s].run] = "in_progress"]
             /\ Goto(s, "begin") /\ UNCHANGED <<job, holder>>
    BY <2>3, GotoKeepsJobs DEF ClaimWrite, SlotPc, ActiveState
  <2>4. CASE ClaimRead(s) \/ BeginExecution(s) \/ ExecutionFails(s) \/ ExecutionSucceeds(s)
             \/ CompleteRead(s) \/ FailRead(s)
    <3>1. PICK pc \in SlotPc : Goto(s, pc)
      BY <2>4 DEF ClaimRead, BeginExecution, ExecutionFails, ExecutionSucceeds, CompleteRead,
         FailRead, SlotPc
    <3>2. slot[s].pc # "free" /\ "failed" \in Terminal /\ UNCHANGED <<run, job, holder, unqueued>>
      BY <2>4 DEF ClaimRead, BeginExecution, ExecutionFails, ExecutionSucceeds, CompleteRead,
         FailRead, Terminal
    <3>3. QED
      BY <3>1, <3>2, GotoKeepsJobs
  <2>5. CASE CompleteWrite(s) \/ FailWrite(s)
    BY <2>5, GotoKeepsJobs DEF CompleteWrite, FailWrite, SlotPc, Terminal
  <2>6. CASE ClaimWrite(s)
    BY <2>2, <2>3, <2>6 DEF ClaimWrite
  <2>7. QED
    BY <1>4, <2>1, <2>2, <2>4, <2>5, <2>6 DEF Worker
<1>5. ASSUME NEW m \in marking, MarkRead(m) \/ MarkWrite(m) PROVE JobInv'
  <2>1. \A r \in Runs : run'[r] = "none" => run[r] = "none"
    BY <1>5 DEF MarkRead, MarkWrite, TypeOK
  <2>2. QED
    BY <1>5, <2>1, FrameJobs DEF MarkRead, MarkWrite
<1>6. ASSUME NEW e \in triggered, HandlerRead(e) PROVE JobInv'
  BY <1>6, FrameJobs DEF HandlerRead
<1>7. ASSUME NEW h \in handling,
             HandlerSetsState(h) \/ HandlerCreatesRun(h) \/ HandlerRejects(h)
      PROVE  JobInv'
  <2>1. CASE HandlerSetsState(h)
    BY <2>1, FrameJobs DEF HandlerSetsState
  <2>2. CASE HandlerCreatesRun(h)
    BY <2>2, InsertKeepsJobs DEF HandlerCreatesRun
  <2>3. CASE HandlerRejects(h)
    BY <2>3, ProcessEndsJobs DEF HandlerRejects
  <2>4. QED
    BY <1>7, <2>1, <2>2, <2>3
<1>8. CASE Crash \/ Exit
  BY <1>8, ProcessEndsJobs DEF Crash, Exit
<1>9. CASE Signal \/ ShutdownMarksRuns \/ Restart
  BY <1>9, FrameJobs DEF Signal, ShutdownMarksRuns, Restart
<1>10. ASSUME NEW r \in Runs, JobStalls(r) PROVE JobInv'
  <2>1. UNCHANGED <<run, slot, unqueued>>
        /\ \A q \in Runs \ {r} : job'[q] = job[q] /\ holder'[q] = holder[q]
    BY <1>10 DEF JobStalls, TypeOK
  <2>2. QED
    BY <1>10, <2>1, StalledIsNobodys, JobKeepsJobs
<1>11. CASE UNCHANGED vars
  BY <1>11, FrameJobs DEF vars
<1>12. QED
  BY <1>1, <1>2, <1>3, <1>4, <1>5, <1>6, <1>7, <1>8, <1>9, <1>10, <1>11
  DEF Next, Marks, Handlers

LEMMA JobsInvariance == ASSUME LocksHold PROVE Spec => [](TypeOK /\ CompletionInv /\ JobInv)
<1>1. Init => CompletionInv /\ JobInv
  BY DEF Init, CompletionInv, CompletedRunCompletedTask, JobInv, Free
<1>2. TypeOK /\ CompletionInv /\ JobInv /\ [Next]_vars => CompletionInv' /\ JobInv'
  BY StepCompletion, StepJobs
<1>3. QED
  BY <1>1, <1>2, TypeCorrect, PTL DEF Spec

-----------------------------------------------------------------------------
\* While, moreover, Redis takes every job, a run that is not over has someone to carry it on.
Carried == Faults \cap {"stall", "redis"} = {}

\* A step that lets go of no run: what carried a run still does, or the run is over.
LEMMA FrameCarry ==
    ASSUME CarryInv, outages' = 0 => outages = 0,
           \A r \in Runs : run'[r] \in ActiveState => run[r] \in ActiveState,
           \A r \in Runs : job[r] \in {"waiting", "active"} => job'[r] \in {"waiting", "active"},
           unqueued \subseteq unqueued',
           \A m \in marking : \/ \E n \in marking' : n.run = m.run
                              \/ run'[m.run] \notin ActiveState,
           \A s \in Slots : slot'[s].pc = "leaving" => run'[slot'[s].run] \in Terminal
    PROVE  CarryInv'
<1> SUFFICES ASSUME outages' = 0, NEW r \in Runs, run'[r] \in ActiveState
             PROVE  \/ \E q \in unqueued' : q.run = r
                    \/ job'[r] \in {"waiting", "active"}
                    \/ \E m \in marking' : m.run = r
  BY DEF CarryInv, NoOrphanRun, ActiveRuns
<1>1. \/ \E q \in unqueued : q.run = r
      \/ job[r] \in {"waiting", "active"}
      \/ \E m \in marking : m.run = r
  BY DEF CarryInv, NoOrphanRun, ActiveRuns
<1>2. QED
  BY <1>1

\* A slot that moves on with its run: the run may end, and has ended when the slot leaves.
LEMMA GotoKeepsCarry ==
    ASSUME TypeOK, CompletionInv, JobInv, CarryInv, NEW s \in Slots, slot[s].pc # "free",
           NEW pc \in SlotPc, Goto(s, pc),
           NEW st \in ActiveState \cup Terminal,
           run' = run \/ run' = [run EXCEPT ![slot[s].run] = st],
           pc = "leaving" => run'[slot[s].run] \in Terminal,
           UNCHANGED <<job, holder, unqueued, marking, outages>>
    PROVE  CarryInv'
<1> DEFINE r == slot[s].run
<1>1. /\ r \in Runs /\ slot[s] \in Busy /\ job[r] = "active"
      /\ \A z \in Slots \ {s} : slot[z].pc # "free" => slot[z].run # r
  BY SlotAlone
<1>2. [slot[s] EXCEPT !.pc = pc].pc = pc /\ [slot[s] EXCEPT !.pc = pc].run = r
  BY <1>1 DEF Busy
<1>3. \A z \in Slots : /\ slot'[z].run = slot[z].run
                       /\ slot'[z].pc = IF z = s THEN pc ELSE slot[z].pc
  BY <1>2 DEF Goto, TypeOK
<1>4. \A q \in Runs \ {r} : run'[q] = run[q]
  BY <1>1 DEF TypeOK
<1>5. \A z \in Slots : slot'[z].pc = "leaving" => run'[slot'[z].run] \in Terminal
  <2>1. \A z \in Slots \ {s} : slot[z].pc = "leaving" => slot[z].run \in Runs \ {r}
    BY <1>1, BusySlot
  <2>2. QED
    BY <1>3, <1>4, <2>1 DEF CarryInv
<1>6. NoOrphanRun'
  BY <1>1, <1>4 DEF CarryInv, NoOrphanRun, ActiveRuns
<1>7. QED
  BY <1>5, <1>6 DEF CarryInv

\* A job ends when its run is over or is left to the 'failed' event.
LEMMA LetsGoKeepsCarry ==
    ASSUME TypeOK, CompletionInv, JobInv, CarryInv, NEW s \in Slots, slot[s].pc # "free",
           slot' = [slot EXCEPT ![s] = Free],
           \/ KeepsJob(s, slot[s].run) /\ UNCHANGED marking
           \/ FinishesJob(s, slot[s].run) /\ UNCHANGED marking /\ slot[s].pc = "leaving"
           \/ /\ FinishesJob(s, slot[s].run)
              /\ marking' = marking \cup {[run |-> slot[s].run, by |-> "event", pc |-> "read"]},
           UNCHANGED <<run, unqueued, outages>>
    PROVE  CarryInv'
<1> DEFINE r == slot[s].run
           new == [run |-> r, by |-> "event", pc |-> "read"]
<1>1. r \in Runs
  BY SlotAlone
<1>2. \A q \in Runs \ {r} : job'[q] = job[q]
  BY <1>1 DEF FinishesJob, KeepsJob, TypeOK
<1>3. \A z \in Slots : slot'[z].pc = "leaving" => z # s /\ slot'[z] = slot[z]
  BY DEF TypeOK, Free
<1>4. new.run = r
  OBVIOUS
<1>5. \/ job'[r] = job[r] /\ marking' = marking
      \/ run[r] \in Terminal /\ marking' = marking
      \/ marking' = marking \cup {new}
  BY DEF KeepsJob, CarryInv
<1> HIDE DEF new
<1>6. run[r] \in Terminal => run[r] \notin ActiveState
  BY DEF Terminal, ActiveState
<1>7. NoOrphanRun'
  BY <1>1, <1>2, <1>4, <1>5, <1>6 DEF CarryInv, NoOrphanRun, ActiveRuns
<1>8. QED
  BY <1>3, <1>7 DEF CarryInv

\* createRun leaves its run to queueRun.
LEMMA InsertKeepsCarry ==
    ASSUME TypeOK, CompletionInv, JobInv, CarryInv, Unborn # {}, NEW t, NEW by, InsertRun(t, by),
           UNCHANGED <<slot, job, marking, outages>>
    PROVE  CarryInv'
<1> DEFINE r == FreshRun
           new == [run |-> r, by |-> by]
<1>1. r \in Runs /\ run[r] = "none"
  BY FreshRunIsUnborn
<1> HIDE DEF r
<1>2. \A q \in Runs \ {r} : run'[q] = run[q]
  BY <1>1 DEF InsertRun, TypeOK, r
<1>3. unqueued' = unqueued \cup {new} /\ new.run = r
  BY DEF InsertRun, r
<1> HIDE DEF new
<1>4. \A s \in Slots : slot[s].pc = "leaving" => slot[s].run \in Runs \ {r}
  BY <1>1, BusySlot DEF CompletionInv
<1>5. NoOrphanRun'
  BY <1>2, <1>3 DEF CarryInv, NoOrphanRun, ActiveRuns
<1>6. QED
  BY <1>2, <1>4, <1>5 DEF CarryInv

LEMMA ProcessEndsCarry ==
    ASSUME TypeOK, ProcessEnds PROVE CarryInv'
<1>1. outages' # 0
  BY DEF TypeOK, ProcessEnds
<1>2. \A s \in Slots : slot'[s].pc # "leaving"
  BY DEF ProcessEnds, Free
<1>3. QED
  BY <1>1, <1>2 DEF CarryInv, NoOrphanRun

LEMMA StepCarry ==
    ASSUME Carried, TypeOK, CompletionInv, JobInv, CarryInv, [Next]_vars PROVE CarryInv'
<1> USE DEF db, redis, memory
<1>1. ASSUME UNCHANGED <<run, job, unqueued, marking, slot, outages>> PROVE CarryInv'
  BY <1>1 DEF CarryInv, NoOrphanRun, ActiveRuns
<1>2. ASSUME NEW c \in Calls, Request(c) PROVE CarryInv'
  <2>1. CASE Unborn # {} /\ InsertRun(call[c].task, "call") /\ StartWrite(c)
    BY <2>1, InsertKeepsCarry DEF StartWrite
  <2>2. CASE UNCHANGED <<run, job, unqueued, marking, slot, outages>>
    BY <1>1, <2>2
  <2>3. QED
    BY <1>2, <2>1, <2>2 DEF Request, StartRead, StartWrite, StopRead, StopWrite
<1>3. ASSUME NEW q \in unqueued, QueueRun(q) \/ QueueRunFails(q) PROVE CarryInv'
  <2>1. QueueRun(q)
    BY <1>3 DEF QueueRunFails, Carried
  <2>2. /\ q.run \in Runs /\ job'[q.run] = "waiting"
        /\ \A r \in Runs \ {q.run} : job'[r] = job[r]
        /\ unqueued' = unqueued \ {q} /\ UNCHANGED <<run, slot, marking, outages>>
    BY <2>1 DEF QueueRun, TypeOK
  <2>3. QED
    BY <2>2 DEF CarryInv, NoOrphanRun, ActiveRuns
<1>4. ASSUME NEW s \in Slots, Worker(s) PROVE CarryInv'
  <2>1. ASSUME NEW r \in Runs, TakeJob(s, r) PROVE CarryInv'
    <3>1. job'[r] = "active" /\ \A q \in Runs \ {r} : job'[q] = job[q]
      BY <2>1 DEF TakeJob, TypeOK
    <3>2. \A z \in Slots : slot'[z].pc = "leaving" => slot'[z] = slot[z]
      BY <2>1 DEF TakeJob, TypeOK
    <3>3. UNCHANGED <<run, unqueued, marking, outages>>
      BY <2>1 DEF TakeJob
    <3>4. QED
      BY <3>1, <3>2, <3>3 DEF CarryInv, NoOrphanRun, ActiveRuns
  <2>2. CASE \/ Leave(s)
             \/ /\ ClaimWrite(s) /\ slot' = [slot EXCEPT ![s] = Free] /\ UNCHANGED run
                /\ \/ /\ FinishesJob(s, slot[s].run)
                      /\ marking' = marking \cup {[run |-> slot[s].run, by |-> "event", pc |-> "read"]}
                   \/ KeepsJob(s, slot[s].run) /\ UNCHANGED marking
    BY <2>2, LetsGoKeepsCarry DEF Leave, ClaimWrite
  <2>3. CASE ClaimWrite(s) /\ run' = [run EXCEPT ![slot[s].run] = "in_progress"]
             /\ Goto(s, "begin") /\ UNCHANGED <<job, holder, marking>>
    BY <2>3, GotoKeepsCarry DEF ClaimWrite, SlotPc, ActiveState
  <2>4. CASE ClaimRead(s) \/ BeginExecution(s) \/ ExecutionFails(s) \/ ExecutionSucceeds(s)
             \/ CompleteRead(s) \/ FailRead(s)
    <3>1. PICK pc \in SlotPc : Goto(s, pc) /\ (pc = "leaving" => run[slot[s].run] \in Terminal)
      BY <2>4 DEF ClaimRead, BeginExecution, ExecutionFails, ExecutionSucceeds, CompleteRead,
         FailRead, SlotPc
    <3>2. /\ slot[s].pc # "free" /\ "failed" \in Terminal
          /\ UNCHANGED <<run, job, holder, unqueued, marking, outages>>
      BY <2>4 DEF ClaimRead, BeginExecution, ExecutionFails, ExecutionSucceeds, CompleteRead,
         FailRead, Terminal
    <3>3. QED
      BY <3>1, <3>2, GotoKeepsCarry
  <2>5. CASE CompleteWrite(s) \/ FailWrite(s)
    <3>1. PICK st \in Terminal : run' = [run EXCEPT ![slot[s].run] = st]
      BY <2>5 DEF CompleteWrite, FailWrite, Terminal
    <3>2. /\ slot[s].pc # "free" /\ "leaving" \in SlotPc /\ Goto(s, "leaving")
          /\ UNCHANGED <<job, holder, unqueued, marking, outages>>
      BY <2>5 DEF CompleteWrite, FailWrite, SlotPc
    <3>3. run'[slot[s].run] \in Terminal
      BY <3>1, <3>2, BusySlot DEF TypeOK
    <3>4. QED
      BY <3>1, <3>2, <3>3, GotoKeepsCarry
  <2>6. CASE ClaimWrite(s)
    BY <2>2, <2>3, <2>6 DEF ClaimWrite
  <2>7. QED
    BY <1>4, <2>1, <2>2, <2>4, <2>5, <2>6 DEF Worker
<1>5. ASSUME NEW m \in marking, MarkRead(m) \/ MarkWrite(m) PROVE CarryInv'
  <2> DEFINE new == [m EXCEPT !.pc = "write"]
  <2>1. m.run \in Runs /\ new.run = m.run
    BY DEF TypeOK
  <2>2. /\ \/ run[m.run] \in Terminal /\ marking' = marking \ {m} /\ run' = run
           \/ marking' = (marking \ {m}) \cup {new} /\ run' = run
           \/ run' = [run EXCEPT ![m.run] = "failed"] /\ marking' = marking \ {m}
        /\ UNCHANGED <<job, unqueued, slot, outages>>
    BY <1>5 DEF MarkRead, MarkWrite
  <2> HIDE DEF new
  <2>3. /\ \A r \in Runs : run'[r] = run[r] \/ run'[r] = "failed"
        /\ run'[m.run] \in Terminal \/ new \in marking'
    BY <2>1, <2>2 DEF TypeOK, Terminal
  <2>4. \A n \in marking \ {m} : n \in marking'
    BY <2>2
  <2>5. \A s \in Slots : slot'[s].pc = "leaving" => run'[slot'[s].run] \in Terminal
    <3>1. \A s \in Slots : slot[s].pc = "leaving" => slot[s].run \in Runs
      BY BusySlot
    <3>2. QED
      BY <2>2, <2>3, <3>1 DEF CarryInv, Terminal
  <2>6. \A r \in Runs : run'[r] \in ActiveState => run[r] \in ActiveState
    BY <2>3 DEF ActiveState
  <2>7. \A n \in marking : \/ \E k \in marking' : k.run = n.run
                           \/ run'[n.run] \notin ActiveState
    <3>1. run'[m.run] \in Terminal => run'[m.run] \notin ActiveState
      BY DEF Terminal, ActiveState
    <3>2. QED
      BY <2>1, <2>3, <2>4, <3>1
  <2>8. QED
    BY <2>2, <2>5, <2>6, <2>7, FrameCarry
<1>6. ASSUME NEW h \in handling, HandlerCreatesRun(h) \/ HandlerRejects(h) PROVE CarryInv'
  BY <1>6, InsertKeepsCarry, ProcessEndsCarry DEF HandlerCreatesRun, HandlerRejects
<1>7. CASE Crash \/ Exit
  BY <1>7, ProcessEndsCarry DEF Crash, Exit
<1>8. CASE ShutdownMarksRuns
  BY <1>8 DEF ShutdownMarksRuns, CarryInv, NoOrphanRun, ActiveRuns
<1>9. ASSUME NEW r \in Runs, JobStalls(r) PROVE CarryInv'
  <2> DEFINE new == [run |-> r, by |-> "event", pc |-> "read"]
  <2>1. /\ \A q \in Runs \ {r} : job'[q] = job[q]
        /\ \/ job'[r] = "waiting" /\ marking' = marking
           \/ marking' = marking \cup {new}
        /\ UNCHANGED <<run, unqueued, slot, outages>>
    BY <1>9 DEF JobStalls, TypeOK
  <2>2. new.run = r
    OBVIOUS
  <2> HIDE DEF new
  <2>3. QED
    BY <2>1, <2>2 DEF CarryInv, NoOrphanRun, ActiveRuns
<1>10. CASE UNCHANGED vars
  BY <1>1, <1>10 DEF vars
<1>11. ASSUME NEW t \in Tasks, AddTask(t) \/ UserCompletesTask(t) PROVE CarryInv'
  BY <1>1, <1>11 DEF AddTask, UserCompletesTask
<1>12. CASE Signal \/ Restart
  BY <1>1, <1>12 DEF Signal, Restart
<1>13. ASSUME NEW e \in triggered, HandlerRead(e) PROVE CarryInv'
  BY <1>1, <1>13 DEF HandlerRead
<1>14. ASSUME NEW h \in handling, HandlerSetsState(h) PROVE CarryInv'
  BY <1>1, <1>14 DEF HandlerSetsState
<1>15. QED
  BY <1>2, <1>3, <1>4, <1>5, <1>6, <1>7, <1>8, <1>9, <1>10, <1>11, <1>12, <1>13, <1>14
  DEF Next, Marks, Handlers

\* Until the process ends, and while it shuts down, every run that is not over has a queueRun to
\* come, a job or a markRunAsFailed (BackgroundWorkflowProcessor.ts): starts that race, violated
\* indexes, failed and refused attempts leave no run behind.  A refused job would, and so would a
\* lock that expires under a live attempt.
THEOREM NobodyOrphaned == ASSUME Carried PROVE Spec => []NoOrphanRun
<1>1. LocksHold
  BY DEF Carried, LocksHold
<1>2. Init => CarryInv
  BY DEF Init, CarryInv, NoOrphanRun, ActiveRuns, ActiveState, Free
<1>3. TypeOK /\ CompletionInv /\ JobInv /\ CarryInv /\ [Next]_vars => CarryInv'
  BY StepCarry
<1>4. CarryInv => NoOrphanRun
  BY DEF CarryInv
<1>5. QED
  BY <1>1, <1>2, <1>3, <1>4, JobsInvariance, PTL DEF Spec

-----------------------------------------------------------------------------
\* While, moreover, no shutdown marks runs that execute: a claimed run stays claimed until the slot
\* that executes it ends it, and no two claimed runs share a task.
Steady == Faults \cap {"shutdown", "stall"} = {}

\* No marking names the run of a slot.
LEMMA SlotUnmarked ==
    ASSUME TypeOK, CompletionInv, JobInv, ClaimInv, NEW s \in Slots, slot[s].pc # "free"
    PROVE  server = "up" /\ \A m \in marking : m.run # slot[s].run
  BY DEF ClaimInv, JobInv, MarkInv

\* A slot that moves on may set its run's state: what it executes is claimed, and it claims only
\* what the index admits.
LEMMA SlotKeepsClaims ==
    ASSUME TypeOK, CompletionInv, JobInv, ClaimInv, NEW s \in Slots, slot[s].pc # "free",
           NEW pc \in SlotPc, Goto(s, pc),
           NEW st \in ActiveState \cup Terminal,
           run' = run \/ run' = [run EXCEPT ![slot[s].run] = st],
           pc = "claimWrite" => run'[slot[s].run] \in ActiveState,
           pc \in Executing => run'[slot[s].run] = "in_progress",
           \/ run' = run \/ st # "in_progress"
           \/ IndexAdmits(slot[s].run, runTask[slot[s].run], "in_progress"),
           todo' \cap done' = {},
           UNCHANGED <<server, call, job, holder, unqueued, marking, runTask>>
    PROVE  ClaimInv'
<1> DEFINE r == slot[s].run
<1>1. /\ r \in Runs /\ slot[s] \in Busy /\ run[r] # "none" /\ server = "up"
      /\ \A z \in Slots \ {s} : slot[z].pc # "free" => slot[z].run # r
      /\ \A m \in marking : m.run # r
  BY SlotAlone, SlotUnmarked
<1>2. [slot[s] EXCEPT !.pc = pc].pc = pc /\ [slot[s] EXCEPT !.pc = pc].run = r
  BY <1>1 DEF Busy
<1>3. \A z \in Slots : /\ slot'[z].run = slot[z].run
                       /\ slot'[z].pc = IF z = s THEN pc ELSE slot[z].pc
  BY <1>2 DEF Goto, TypeOK
<1>4. /\ \A q \in Runs \ {r} : run'[q] = run[q]
      /\ run'[r] = run[r] \/ run'[r] = st
  BY <1>1 DEF TypeOK
<1>5. MarkInv'
  <2>1. \A m \in marking : run'[m.run] = run[m.run]
    BY <1>1, <1>4 DEF TypeOK
  <2>2. QED
    BY <2>1 DEF ClaimInv, MarkInv
<1>6. \A z \in Slots : /\ slot'[z].pc # "free" => server' = "up"
                       /\ slot'[z].pc = "claimWrite" => run'[slot'[z].run] \in ActiveState
                       /\ slot'[z].pc \in Executing => run'[slot'[z].run] = "in_progress"
  <2>1. \A z \in Slots \ {s} : slot[z].pc # "free" => run'[slot[z].run] = run[slot[z].run]
    BY <1>1, <1>4, BusySlot
  <2>2. "free" \notin Executing
    BY DEF Executing, SlotPc
  <2>3. QED
    BY <1>1, <1>3, <2>1, <2>2 DEF ClaimInv
<1>7. \A p, q \in Runs : run'[p] = "in_progress" /\ run'[q] = "in_progress" /\ runTask[p] = runTask[q]
                         => p = q
  <2>1. CASE run'[r] = run[r]
    BY <1>4, <2>1 DEF ClaimInv
  <2>2. CASE run'[r] # run[r] /\ st = "in_progress"
    BY <1>1, <1>4, <2>2 DEF ClaimInv, IndexAdmits
  <2>3. CASE run'[r] # run[r] /\ st # "in_progress"
    BY <1>4, <2>3 DEF ClaimInv
  <2>4. QED
    BY <2>1, <2>2, <2>3
<1>8. QED
  BY <1>5, <1>6, <1>7 DEF ClaimInv

\* A slot that lets its job go, and may leave the run to the 'failed' event.
LEMMA LetsGoKeepsClaims ==
    ASSUME TypeOK, CompletionInv, JobInv, ClaimInv, NEW s \in Slots, slot[s].pc # "free",
           slot' = [slot EXCEPT ![s] = Free],
           FinishesJob(s, slot[s].run) \/ KeepsJob(s, slot[s].run),
           \/ marking' = marking
           \/ marking' = marking \cup {[run |-> slot[s].run, by |-> "event", pc |-> "read"]},
           UNCHANGED <<server, call, todo, done, run, runTask, unqueued>>
    PROVE  ClaimInv'
<1> DEFINE r == slot[s].run
           new == [run |-> r, by |-> "event", pc |-> "read"]
<1>1. /\ r \in Runs /\ server = "up" /\ holder[r] = s
      /\ \A m \in marking : m.run # r
  BY SlotAlone, SlotUnmarked
<1>2. job'[r] = "finished" /\ \A q \in Runs \ {r} : job'[q] = job[q]
  BY <1>1 DEF FinishesJob, KeepsJob, TypeOK
<1>3. \A z \in Slots : slot'[z].pc # "free" => z # s /\ slot'[z] = slot[z]
  BY DEF TypeOK, Free
<1>4. MarkInv'
  <2>1. \A m \in marking : m.run \in Runs
    BY DEF TypeOK
  <2>2. new.run = r /\ new.pc = "read"
    OBVIOUS
  <2>3. \A m \in marking' : m \in marking \/ m = new
    OBVIOUS
  <2> HIDE DEF new
  <2>4. QED
    BY <1>1, <1>2, <2>1, <2>2, <2>3 DEF ClaimInv, MarkInv
<1>5. QED
  BY <1>3, <1>4 DEF ClaimInv, Executing, SlotPc

\* createRun adds a run that no slot or marking knows.
LEMMA InsertKeepsClaims ==
    ASSUME TypeOK, CompletionInv, JobInv, ClaimInv, Unborn # {}, NEW t, NEW by, InsertRun(t, by),
           \A c \in Calls : call'[c].pc = "start" => call'[c].task \in Tasks,
           UNCHANGED <<server, slot, job, holder, marking, todo, done>>
    PROVE  ClaimInv'
<1> DEFINE r == FreshRun
<1>1. r \in Runs /\ run[r] = "none" /\ job[r] = "none"
  BY FreshRunIsUnborn DEF JobInv
<1> HIDE DEF r
<1>2. /\ run'[r] = "pending"
      /\ \A q \in Runs \ {r} : run'[q] = run[q] /\ runTask'[q] = runTask[q]
  BY <1>1 DEF InsertRun, TypeOK, r
<1>3. \A s \in Slots : slot[s].pc # "free" => slot[s].run \in Runs \ {r}
  BY <1>1, BusySlot DEF CompletionInv
<1>4. \A m \in marking : m.run \in Runs \ {r}
  BY <1>1 DEF ClaimInv, MarkInv, TypeOK
<1>5. MarkInv'
  BY <1>2, <1>4 DEF ClaimInv, MarkInv
<1>6. "free" \notin Executing
  BY DEF Executing, SlotPc
<1>7. QED
  BY <1>2, <1>3, <1>5, <1>6 DEF ClaimInv

\* The end of the process frees all slots and forgets the markings.
LEMMA ProcessEndsClaims ==
    ASSUME TypeOK, ClaimInv, ProcessEnds, UNCHANGED <<db, redis>> PROVE ClaimInv'
  BY DEF TypeOK, ClaimInv, MarkInv, ProcessEnds, db, redis, Free, Unused, Answered,
         Executing, SlotPc

\* A job changes hands or ends that no slot has.
LEMMA JobKeepsClaims ==
    ASSUME TypeOK, ClaimInv, NEW r \in Runs,
           \A m \in marking : m.run # r,
           \A q \in Runs \ {r} : job'[q] = job[q],
           \/ marking' = marking
           \/ /\ marking' = marking \cup {[run |-> r, by |-> "event", pc |-> "read"]}
              /\ job'[r] = "finished",
           UNCHANGED <<server, call, todo, done, run, runTask, slot>>
    PROVE  ClaimInv'
<1> DEFINE new == [run |-> r, by |-> "event", pc |-> "read"]
<1>1. \A m \in marking : m.run \in Runs \ {r}
  BY DEF TypeOK
<1>2. new.run = r /\ new.pc = "read"
  OBVIOUS
<1>3. marking' = marking \/ (marking' = marking \cup {new} /\ job'[r] = "finished")
  OBVIOUS
<1> HIDE DEF new
<1>4. MarkInv'
  BY <1>1, <1>2, <1>3 DEF ClaimInv, MarkInv
<1>5. QED
  BY <1>4 DEF ClaimInv

\* A step that leaves runs, jobs, slots and markings alone.
LEMMA OtherKeepsClaims ==
    ASSUME ClaimInv, server' \in {"up", "down"}, server = "up" => server' = "up",
           todo' \cap done' = {},
           \A c \in Calls : call'[c].pc = "start" => call'[c].task \in Tasks,
           UNCHANGED <<run, runTask, job, slot, marking>>
    PROVE  ClaimInv'
  BY DEF ClaimInv, MarkInv

\* processRun begins: the job was nobody's.
LEMMA TakeKeepsClaims ==
    ASSUME TypeOK, CompletionInv, JobInv, ClaimInv, NEW s \in Slots, NEW r \in Runs, TakeJob(s, r)
    PROVE  ClaimInv'
<1> DEFINE new == [pc |-> "claimRead", run |-> r]
<1>1. /\ server = "up"
      /\ \A m \in marking : m.run \in Runs \ {r}
  BY DEF TakeJob, ClaimInv, MarkInv, TypeOK
<1>2. \A q \in Runs \ {r} : job'[q] = job[q]
  BY DEF TakeJob, TypeOK
<1>3. /\ slot'[s] = new /\ new.pc = "claimRead" /\ new.run = r
      /\ \A z \in Slots \ {s} : slot'[z] = slot[z]
  BY DEF TakeJob, TypeOK
<1> HIDE DEF new
<1>4. UNCHANGED <<server, call, todo, done, run, runTask, marking>>
  BY DEF TakeJob, db
<1>5. MarkInv'
  BY <1>1, <1>2, <1>4 DEF ClaimInv, MarkInv
<1>6. "claimRead" \notin Executing
  BY DEF Executing
<1>7. QED
  BY <1>1, <1>3, <1>4, <1>5, <1>6 DEF ClaimInv

\* markRunAsFailed outside processRun: nobody else changes the run between its read and its write.
LEMMA MarkKeepsClaims ==
    ASSUME TypeOK, JobInv, ClaimInv, NEW m \in marking, MarkRead(m) \/ MarkWrite(m)
    PROVE  ClaimInv'
<1> DEFINE new == [m EXCEPT !.pc = "write"]
<1>1. /\ m.run \in Runs /\ job[m.run] = "finished"
      /\ \A n \in marking \ {m} : n.run # m.run
      /\ \A z \in Slots : slot[z].pc # "free" => slot[z].run \in Runs \ {m.run}
  BY BusySlot DEF ClaimInv, JobInv, MarkInv, TypeOK
<1>2. new.run = m.run
  BY DEF TypeOK
<1>3. /\ \A n \in marking' : n \in marking \ {m} \/ (n = new /\ run[m.run] \notin Terminal /\ run' = run)
      /\ run' = run \/ run' = [run EXCEPT ![m.run] = "failed"]
      /\ UNCHANGED <<server, call, todo, done, runTask, job, slot>>
  BY DEF MarkRead, MarkWrite, db, redis
<1> HIDE DEF new
<1>4. /\ \A q \in Runs \ {m.run} : run'[q] = run[q]
      /\ run'[m.run] \in {run[m.run], "failed"}
  BY <1>1, <1>3 DEF TypeOK
<1>5. MarkInv'
  <2>1. \A n \in marking : n.run \in Runs
    BY DEF TypeOK
  <2>2. QED
    BY <1>1, <1>2, <1>3, <1>4, <2>1 DEF ClaimInv, MarkInv
<1>6. "free" \notin Executing
  BY DEF Executing, SlotPc
<1>7. QED
  BY <1>1, <1>3, <1>4, <1>5, <1>6 DEF ClaimInv

-----------------------------------------------------------------------------
LEMMA StepClaims ==
    ASSUME Steady, TypeOK, CompletionInv, JobInv, ClaimInv, [Next]_vars PROVE ClaimInv'
<1> USE DEF db, redis, memory
<1>1. ASSUME NEW t \in Tasks, AddTask(t) \/ UserCompletesTask(t) PROVE ClaimInv'
  <2>1. todo' \cap done' = {}
    BY <1>1 DEF AddTask, UserCompletesTask, ClaimInv
  <2>2. QED
    BY <1>1, <2>1, OtherKeepsClaims DEF AddTask, UserCompletesTask, ClaimInv
<1>2. ASSUME NEW c \in Calls, Request(c) PROVE ClaimInv'
  <2>1. ASSUME NEW op \in {"loop", "single"}, StartRead(c, op) PROVE ClaimInv'
    <3>1. \A d \in Calls : call'[d].pc = "start" => call'[d].task \in Tasks
      BY <2>1 DEF StartRead, ClaimInv, TypeOK
    <3>2. QED
      BY <2>1, <3>1, OtherKeepsClaims DEF StartRead, ClaimInv
  <2>2. CASE StopRead(c) \/ StopWrite(c)
    <3>1. \A d \in Calls : call'[d].pc = "start" => call'[d].task \in Tasks
      BY <2>2 DEF StopRead, StopWrite, Answered, ClaimInv, TypeOK
    <3>2. QED
      BY <2>2, <3>1, OtherKeepsClaims DEF StopRead, StopWrite, ClaimInv
  <2>3. CASE StartWrite(c)
    <3>1. \A d \in Calls : call'[d].pc = "start" => call'[d].task \in Tasks
      BY <2>3 DEF StartWrite, Answered, ClaimInv, TypeOK
    <3>2. CASE Unborn # {} /\ InsertRun(call[c].task, "call")
      BY <2>3, <3>1, <3>2, InsertKeepsClaims DEF StartWrite
    <3>3. CASE UNCHANGED <<run, runTask, unqueued>>
      BY <2>3, <3>1, <3>3, OtherKeepsClaims DEF StartWrite, ClaimInv
    <3>4. QED
      BY <2>3, <3>2, <3>3 DEF StartWrite
  <2>4. QED
    BY <1>2, <2>1, <2>2, <2>3 DEF Request
<1>3. ASSUME NEW q \in unqueued, QueueRun(q) \/ QueueRunFails(q) PROVE ClaimInv'
  <2>1. CASE QueueRun(q)
    <3>1. q.run \in Runs /\ \A m \in marking : m.run # q.run
      BY DEF TypeOK, ClaimInv, JobInv, MarkInv
    <3>2. /\ \A p \in Runs \ {q.run} : job'[p] = job[p]
          /\ UNCHANGED <<server, call, todo, done, run, runTask, slot, marking>>
      BY <2>1 DEF QueueRun, TypeOK
    <3>3. QED
      BY <3>1, <3>2, JobKeepsClaims
  <2>2. CASE QueueRunFails(q) /\ ProcessEnds
    BY <2>2, ProcessEndsClaims DEF QueueRunFails
  <2>3. CASE QueueRunFails(q) /\ ~ProcessEnds
    BY <2>3, OtherKeepsClaims DEF QueueRunFails, ClaimInv
  <2>4. QED
    BY <1>3, <2>1, <2>2, <2>3
<1>4. ASSUME NEW s \in Slots, Worker(s) PROVE ClaimInv'
  <2> DEFINE r == slot[s].run
  <2>1. ASSUME NEW j \in Runs, TakeJob(s, j) PROVE ClaimInv'
    BY <2>1, TakeKeepsClaims
  <2>2. CASE ClaimRead(s)
    <3>1. PICK pc \in {"leaving", "claimWrite"} : Goto(s, pc) /\ (pc = "claimWrite" => run[r] \notin Terminal)
      BY <2>2 DEF ClaimRead
    <3>2. /\ slot[s].pc # "free" /\ pc \in SlotPc /\ pc \notin Executing /\ "failed" \in Terminal
          /\ todo \cap done = {}
          /\ UNCHANGED <<server, call, job, holder, unqueued, marking, runTask, run, todo, done>>
      BY <2>2 DEF ClaimRead, SlotPc, Executing, Terminal, ClaimInv
    <3>3. run[r] \notin Terminal => run[r] \in ActiveState
      BY <3>2, BusySlot DEF CompletionInv, TypeOK
    <3>4. QED
      BY <3>1, <3>2, <3>3, SlotKeepsClaims
  <2>3. CASE \/ BeginExecution(s) \/ ExecutionFails(s) \/ ExecutionSucceeds(s)
    <3>1. PICK pc \in {"failRead", "working", "completeRead"} : Goto(s, pc)
      BY <2>3 DEF BeginExecution, ExecutionFails, ExecutionSucceeds
    <3>2. slot[s].pc \in {"begin", "working"} /\ pc \in SlotPc /\ "failed" \in Terminal
          /\ UNCHANGED <<server, call, job, holder, unqueued, marking, runTask, run>>
      BY <2>3 DEF BeginExecution, ExecutionFails, ExecutionSucceeds, SlotPc, Terminal
    <3>3. run[r] = "in_progress"
      BY <3>2 DEF ClaimInv, Executing, SlotPc
    <3>4. todo' \cap done' = {}
      BY <2>3 DEF BeginExecution, ExecutionFails, ExecutionSucceeds, ClaimInv
    <3>5. QED
      BY <3>1, <3>2, <3>3, <3>4, SlotKeepsClaims
  <2>4. CASE ClaimWrite(s) /\ run' = [run EXCEPT ![slot[s].run] = "in_progress"]
             /\ Goto(s, "begin") /\ IndexAdmits(r, runTask[r], "in_progress")
             /\ UNCHANGED <<job, holder, marking>>
    <3>1. /\ slot[s].pc = "claimWrite" /\ "begin" \in SlotPc /\ "in_progress" \in ActiveState
          /\ todo' \cap done' = {}
          /\ UNCHANGED <<server, call, unqueued, runTask>>
      BY <2>4 DEF ClaimWrite, SlotPc, ActiveState, ClaimInv
    <3>2. run'[r] = "in_progress"
      BY <2>4, <3>1, BusySlot DEF TypeOK
    <3>3. QED
      BY <2>4, <3>1, <3>2, SlotKeepsClaims
  <2>5. CASE \/ Leave(s)
             \/ /\ ClaimWrite(s) /\ slot' = [slot EXCEPT ![s] = Free] /\ UNCHANGED run
                /\ \/ /\ FinishesJob(s, r)
                      /\ marking' = marking \cup {[run |-> r, by |-> "event", pc |-> "read"]}
                   \/ KeepsJob(s, r) /\ UNCHANGED marking
    BY <2>5, LetsGoKeepsClaims DEF Leave, ClaimWrite
  <2>6. CASE CompleteRead(s) \/ FailRead(s)
    <3>1. slot[s].pc \in {"completeRead", "failRead"} /\ "failed" \in Terminal
          /\ todo' \cap done' = {}
          /\ UNCHANGED <<server, call, job, holder, unqueued, marking, runTask, run>>
      BY <2>6 DEF CompleteRead, FailRead, ClaimInv, Terminal
    <3>2. run[r] = "in_progress"
      BY <3>1 DEF ClaimInv, Executing, SlotPc
    <3>3. PICK pc \in {"completeWrite", "failWrite"} : Goto(s, pc)
      BY <2>6, <3>2 DEF CompleteRead, FailRead, Terminal
    <3>4. pc \in SlotPc
      BY DEF SlotPc
    <3>5. QED
      BY <3>1, <3>2, <3>3, <3>4, SlotKeepsClaims
  <2>7. CASE CompleteWrite(s) \/ FailWrite(s)
    <3>1. PICK st \in Terminal : run' = [run EXCEPT ![r] = st]
      BY <2>7 DEF CompleteWrite, FailWrite, Terminal
    <3>2. /\ slot[s].pc # "free" /\ "leaving" \in SlotPc /\ "leaving" \notin Executing
          /\ st # "in_progress" /\ Goto(s, "leaving") /\ todo' \cap done' = {}
          /\ UNCHANGED <<server, call, job, holder, unqueued, marking, runTask>>
      BY <2>7 DEF CompleteWrite, FailWrite, ClaimInv, Terminal, SlotPc, Executing
    <3>3. QED
      BY <3>1, <3>2, SlotKeepsClaims
  <2>8. CASE ClaimWrite(s)
    BY <2>4, <2>5, <2>8 DEF ClaimWrite
  <2>9. QED
    BY <1>4, <2>1, <2>2, <2>3, <2>5, <2>6, <2>7, <2>8 DEF Worker
<1>5. ASSUME NEW m \in marking, MarkRead(m) \/ MarkWrite(m) PROVE ClaimInv'
  BY <1>5, MarkKeepsClaims
<1>6. ASSUME NEW e \in triggered, HandlerRead(e) PROVE ClaimInv'
  BY <1>6, OtherKeepsClaims DEF HandlerRead, ClaimInv
<1>7. ASSUME NEW h \in handling,
             HandlerSetsState(h) \/ HandlerCreatesRun(h) \/ HandlerRejects(h)
      PROVE  ClaimInv'
  <2>1. CASE HandlerSetsState(h)
    BY <2>1, OtherKeepsClaims DEF HandlerSetsState, ClaimInv
  <2>2. CASE HandlerCreatesRun(h)
    BY <2>2, InsertKeepsClaims DEF HandlerCreatesRun, ClaimInv
  <2>3. CASE HandlerRejects(h)
    BY <2>3, ProcessEndsClaims DEF HandlerRejects
  <2>4. QED
    BY <1>7, <2>1, <2>2, <2>3
<1>8. CASE Crash \/ Exit
  BY <1>8, ProcessEndsClaims DEF Crash, Exit
<1>9. CASE Signal \/ ShutdownMarksRuns
  BY <1>9 DEF Signal, ShutdownMarksRuns, Steady, ClaimInv
<1>10. CASE Restart
  BY <1>10, OtherKeepsClaims DEF Restart, ClaimInv
<1>11. ASSUME NEW r \in Runs, JobStalls(r) PROVE ClaimInv'
  <2>1. \A m \in marking : m.run # r
    BY <1>11 DEF JobStalls, ClaimInv, MarkInv
  <2>2. /\ \A q \in Runs \ {r} : job'[q] = job[q]
        /\ \/ marking' = marking
           \/ /\ marking' = marking \cup {[run |-> r, by |-> "event", pc |-> "read"]}
              /\ job'[r] = "finished"
        /\ UNCHANGED <<server, call, todo, done, run, runTask, slot>>
    BY <1>11 DEF JobStalls, TypeOK
  <2>3. QED
    BY <2>1, <2>2, JobKeepsClaims
<1>12. CASE UNCHANGED vars
  BY <1>12, OtherKeepsClaims DEF vars, ClaimInv
<1>13. QED
  BY <1>1, <1>2, <1>3, <1>4, <1>5, <1>6, <1>7, <1>8, <1>9, <1>10, <1>11, <1>12
  DEF Next, Marks, Handlers

LEMMA Invariance == ASSUME Steady PROVE Spec => [](TypeOK /\ CompletionInv /\ JobInv /\ ClaimInv)
<1>1. LocksHold
  BY DEF Steady, LocksHold
<1>2. Init => CompletionInv /\ JobInv /\ ClaimInv
  BY DEF Init, CompletionInv, CompletedRunCompletedTask, ClaimInv, JobInv, MarkInv, Free, Unused,
         Executing, SlotPc
<1>3. TypeOK /\ CompletionInv /\ JobInv /\ ClaimInv /\ [Next]_vars
      => CompletionInv' /\ JobInv' /\ ClaimInv'
  BY <1>1, StepCompletion, StepJobs, StepClaims
<1>4. QED
  BY <1>2, <1>3, TypeCorrect, PTL DEF Spec

-----------------------------------------------------------------------------
\* Two executions never work on one task at the same time: starts that race, a start while
\* stopping and jobs that come back after a crash all meet the index (schema.ts:263-285).
THEOREM OneExecution == ASSUME Steady PROVE Spec => []OneExecutionPerTask
<1>1. TypeOK /\ CompletionInv /\ JobInv /\ ClaimInv => OneExecutionPerTask
  <2> SUFFICES ASSUME TypeOK, CompletionInv, JobInv, ClaimInv,
                      NEW s \in Slots, NEW z \in Slots, s # z,
                      slot[s].pc = "working", slot[z].pc = "working"
               PROVE  runTask[slot[s].run] # runTask[slot[z].run]
    BY DEF OneExecutionPerTask
  <2>1. slot[s].run \in Runs /\ slot[z].run \in Runs /\ slot[s].run # slot[z].run
    BY SlotAlone
  <2>2. run[slot[s].run] = "in_progress" /\ run[slot[z].run] = "in_progress"
    BY DEF ClaimInv, Executing, SlotPc
  <2>3. QED
    BY <2>1, <2>2 DEF ClaimInv
<1>2. QED
  BY <1>1, Invariance, PTL

-----------------------------------------------------------------------------
\* A write of run r's state is a step of the lifecycle.
LEMMA WriteIsStep ==
    ASSUME TypeOK, NEW r \in Runs, NEW st, run' = [run EXCEPT ![r] = st],
           UNCHANGED <<runTask, done, GivenUp>>,
           \/ st = "in_progress" /\ run[r] \in ActiveState /\ IndexAdmits(r, runTask[r], "in_progress")
           \/ st = "completed" /\ run[r] = "in_progress" /\ runTask[r] \in done
    PROVE  [Lifecycle!Next]_<<run, runTask, done, GivenUp>>
<1>1. CASE run[r] = st
  BY <1>1 DEF TypeOK
<1>2. CASE st = "in_progress" /\ run[r] = "pending" /\ IndexAdmits(r, runTask[r], "in_progress")
  <2>1. Lifecycle!Claim(r)
    BY <1>2 DEF Lifecycle!Claim, IndexAdmits
  <2>2. QED
    BY <2>1 DEF Lifecycle!Next
<1>3. CASE st = "completed"
  BY <1>3 DEF Lifecycle!Next, Lifecycle!Complete
<1>4. QED
  BY <1>1, <1>2, <1>3 DEF ActiveState

LEMMA FailIsStep ==
    ASSUME TypeOK, NEW r \in Runs, run' = [run EXCEPT ![r] = "failed"],
           UNCHANGED <<runTask, done, GivenUp>>,
           \/ run[r] = "in_progress"
           \/ run[r] = "pending" /\ (r \in GivenUp \/ Refused(r))
    PROVE  [Lifecycle!Next]_<<run, runTask, done, GivenUp>>
<1>1. Lifecycle!Fail(r) \/ Lifecycle!FailUnclaimed(r)
  BY DEF Lifecycle!Fail, Lifecycle!FailUnclaimed, Refused
<1>2. QED
  BY <1>1 DEF Lifecycle!Next

\* So is the insertion of a run that the index admits.
LEMMA InsertIsStep ==
    ASSUME TypeOK, NEW t \in Tasks, NEW by, Unborn # {}, IndexAdmits(FreshRun, t, "pending"),
           InsertRun(t, by), UNCHANGED <<done, GivenUp>>
    PROVE  [Lifecycle!Next]_<<run, runTask, done, GivenUp>>
<1>1. FreshRun \in Runs /\ run[FreshRun] = "none"
  BY FreshRunIsUnborn
<1>2. Lifecycle!Create(FreshRun, t)
  BY <1>1 DEF InsertRun, IndexAdmits, Lifecycle!Create
<1>3. QED
  BY <1>1, <1>2 DEF Lifecycle!Next

\* Every step is one of the lifecycle as long as no job is given up.
LEMMA JobsKept ==
    ASSUME Steady, TypeOK, CompletionInv, JobInv, ClaimInv, RefusedInv, [Next]_vars, UNCHANGED GivenUp
    PROVE  [Lifecycle!Next]_<<run, runTask, done, GivenUp>>
<1> USE DEF db, redis, memory
<1>1. ASSUME NEW t \in Tasks, AddTask(t) \/ UserCompletesTask(t)
      PROVE  [Lifecycle!Next]_<<run, runTask, done, GivenUp>>
  <2>1. CASE AddTask(t)
    BY <2>1 DEF AddTask
  <2>2. CASE UserCompletesTask(t)
    BY <2>2 DEF UserCompletesTask, ClaimInv, Lifecycle!Next, Lifecycle!TaskDone
  <2>3. QED
    BY <1>1, <2>1, <2>2
<1>2. ASSUME NEW c \in Calls, Request(c) PROVE [Lifecycle!Next]_<<run, runTask, done, GivenUp>>
  <2>1. CASE StartWrite(c)
    <3>1. call[c].task \in Tasks
      BY <2>1 DEF StartWrite, ClaimInv
    <3>2. QED
      BY <2>1, <3>1, InsertIsStep DEF StartWrite
  <2>2. CASE UNCHANGED <<run, runTask, done>>
    BY <2>2
  <2>3. QED
    BY <1>2, <2>1, <2>2 DEF Request, StartRead, StopRead, StopWrite
<1>3. ASSUME NEW s \in Slots, Worker(s) PROVE [Lifecycle!Next]_<<run, runTask, done, GivenUp>>
  <2> DEFINE r == slot[s].run
  <2>1. CASE ClaimWrite(s)
    <3>1. r \in Runs /\ run[r] \in ActiveState
      BY <2>1, BusySlot DEF ClaimWrite, ClaimInv
    <3>2. CASE UNCHANGED run
      BY <2>1, <3>2 DEF ClaimWrite
    <3>3. CASE run' = [run EXCEPT ![r] = "in_progress"] /\ IndexAdmits(r, runTask[r], "in_progress")
      <4>1. UNCHANGED <<runTask, done>>
        BY <2>1 DEF ClaimWrite
      <4>2. QED
        BY <3>1, <3>3, <4>1, WriteIsStep
    <3>4. QED
      BY <2>1, <3>2, <3>3 DEF ClaimWrite
  <2>2. CASE ExecutionSucceeds(s)
    <3>1. CASE runTask[r] \in todo
      <4>1. runTask[r] \in Tasks \ done
        BY <3>1 DEF ClaimInv, TypeOK
      <4>2. Lifecycle!TaskDone(runTask[r])
        BY <2>2, <3>1, <4>1 DEF ExecutionSucceeds, Lifecycle!TaskDone
      <4>3. QED
        BY <4>1, <4>2 DEF Lifecycle!Next
    <3>2. CASE runTask[r] \notin todo
      BY <2>2, <3>2 DEF ExecutionSucceeds
    <3>3. QED
      BY <3>1, <3>2
  <2>3. CASE CompleteWrite(s) \/ FailWrite(s)
    <3>1. slot[s].pc \in {"completeWrite", "failWrite"} /\ UNCHANGED <<runTask, done>>
      BY <2>3 DEF CompleteWrite, FailWrite
    <3>2. r \in Runs /\ run[r] = "in_progress" /\ "in_progress" \in ActiveState
      BY <3>1, BusySlot DEF ClaimInv, Executing, SlotPc, ActiveState
    <3>3. slot[s].pc = "completeWrite" => runTask[r] \in done
      BY DEF CompletionInv
    <3>4. CASE CompleteWrite(s)
      <4>1. run' = [run EXCEPT ![r] = "completed"] /\ runTask[r] \in done
        BY <3>3, <3>4 DEF CompleteWrite
      <4>2. QED
        BY <3>1, <3>2, <4>1, WriteIsStep
    <3>5. CASE FailWrite(s)
      <4>1. run' = [run EXCEPT ![r] = "failed"]
        BY <3>5 DEF FailWrite
      <4>2. QED
        BY <3>1, <3>2, <4>1, FailIsStep
    <3>6. QED
      BY <2>3, <3>4, <3>5
  <2>4. CASE UNCHANGED <<run, runTask, done>>
    BY <2>4
  <2>5. QED
    BY <1>3, <2>1, <2>2, <2>3, <2>4 DEF Worker, TakeJob, ClaimRead, BeginExecution, ExecutionFails,
       CompleteRead, FailRead, Leave
<1>4. ASSUME NEW m \in marking, MarkRead(m) \/ MarkWrite(m)
      PROVE  [Lifecycle!Next]_<<run, runTask, done, GivenUp>>
  <2>1. CASE MarkRead(m)
    BY <2>1 DEF MarkRead
  <2>2. CASE MarkWrite(m)
    <3>1. m.run \in Runs /\ run' = [run EXCEPT ![m.run] = "failed"] /\ UNCHANGED <<runTask, done>>
      BY <2>2 DEF MarkWrite, TypeOK
    <3>2. \/ run[m.run] = "in_progress"
          \/ run[m.run] = "pending" /\ (m.run \in GivenUp \/ Refused(m.run))
      BY <2>2, <3>1 DEF MarkWrite, ClaimInv, JobInv, MarkInv, TypeOK, RefusedInv, Terminal,
         ActiveState
    <3>3. QED
      BY <3>1, <3>2, FailIsStep DEF Refused
  <2>3. QED
    BY <1>4, <2>1, <2>2
<1>5. ASSUME Handlers PROVE [Lifecycle!Next]_<<run, runTask, done, GivenUp>>
  <2>1. ASSUME NEW h \in handling, HandlerCreatesRun(h)
        PROVE  [Lifecycle!Next]_<<run, runTask, done, GivenUp>>
    <3>1. h.does.task \in Tasks
      BY <2>1 DEF HandlerCreatesRun, TypeOK
    <3>2. QED
      BY <2>1, <3>1, InsertIsStep DEF HandlerCreatesRun
  <2>2. QED
    BY <1>5, <2>1 DEF Handlers, HandlerRead, HandlerSetsState, HandlerRejects
<1>6. CASE UNCHANGED <<run, runTask, done>>
  BY <1>6
<1>7. QED
  BY <1>1, <1>2, <1>3, <1>4, <1>5, <1>6
  DEF Next, vars, QueueRun, QueueRunFails, Marks, Crash, Signal, ShutdownMarksRuns, Exit, Restart,
      JobStalls

LEMMA StepLifecycle ==
    ASSUME Steady, TypeOK, CompletionInv, JobInv, ClaimInv, RefusedInv, [Next]_vars
    PROVE  [Lifecycle!Next]_<<run, runTask, done, GivenUp>>
<1>1. CASE UNCHANGED stalls
  <2>1. UNCHANGED GivenUp
    BY <1>1 DEF GivenUp
  <2>2. QED
    BY <2>1, JobsKept
<1>2. ASSUME NEW r \in Runs, JobStalls(r) PROVE [Lifecycle!Next]_<<run, runTask, done, GivenUp>>
  <2>1. UNCHANGED <<run, runTask, done>> /\ stalls' = [stalls EXCEPT ![r] = @ + 1]
    BY <1>2 DEF JobStalls, db
  <2>2. GivenUp' = GivenUp \/ GivenUp' = GivenUp \cup {r}
    BY <2>1, SizeAssumption DEF GivenUp, TypeOK
  <2>3. QED
    BY <2>1, <2>2 DEF Lifecycle!Next, Lifecycle!GiveUp
<1>3. QED
  BY <1>1, <1>2 DEF Next, vars, db, redis, memory, AddTask, UserCompletesTask, Request, StartRead,
     StartWrite, StopRead, StopWrite, QueueRun, QueueRunFails, Worker, TakeJob, ClaimRead,
     ClaimWrite, BeginExecution, ExecutionFails, ExecutionSucceeds, CompleteRead, CompleteWrite,
     FailRead, FailWrite, Leave, Marks, MarkRead, MarkWrite, Handlers, HandlerRead,
     HandlerSetsState, HandlerCreatesRun, HandlerRejects, Crash, Signal, ShutdownMarksRuns, Exit,
     Restart

\* Whoever has claimed a run never gives its task back.
LEMMA RefusedStays ==
    ASSUME TypeOK, [Lifecycle!Next]_<<run, runTask, done, GivenUp>>,
           NEW r \in Runs, run[r] # "none", Refused(r)
    PROVE  Refused(r)'
<1>1. PICK q \in Runs \ {r} : runTask[q] = runTask[r] /\ run[q] \notin {"none", "pending"}
  BY DEF Refused
<1>2. \A p \in Runs : run[p] # "none" => runTask'[p] = runTask[p]
  BY DEF Lifecycle!Next, Lifecycle!Create, Lifecycle!Claim, Lifecycle!Complete, Lifecycle!Fail,
         Lifecycle!FailUnclaimed, Lifecycle!TaskDone, Lifecycle!GiveUp, TypeOK
<1>3. run'[q] \notin {"none", "pending"}
  BY <1>1 DEF Lifecycle!Next, Lifecycle!Create, Lifecycle!Claim, Lifecycle!Complete,
         Lifecycle!Fail, Lifecycle!FailUnclaimed, Lifecycle!TaskDone, Lifecycle!GiveUp, TypeOK
<1>4. QED
  BY <1>1, <1>2, <1>3 DEF Refused

\* A job that the queue has given up stays so; and a claim that violates the index names the run
\* that holds the task.
LEMMA GivenUpStays == ASSUME TypeOK, [Next]_vars PROVE GivenUp \subseteq GivenUp'
<1>1. CASE UNCHANGED stalls
  BY <1>1 DEF GivenUp
<1>2. ASSUME NEW r \in Runs, JobStalls(r) PROVE GivenUp \subseteq GivenUp'
  BY <1>2, SizeAssumption DEF JobStalls, GivenUp, TypeOK
<1>3. QED
  BY <1>1, <1>2 DEF Next, vars, db, redis, memory, AddTask, UserCompletesTask, Request, StartRead,
     StartWrite, StopRead, StopWrite, QueueRun, QueueRunFails, Worker, TakeJob, ClaimRead,
     ClaimWrite, BeginExecution, ExecutionFails, ExecutionSucceeds, CompleteRead, CompleteWrite,
     FailRead, FailWrite, Leave, Marks, MarkRead, MarkWrite, Handlers, HandlerRead,
     HandlerSetsState, HandlerCreatesRun, HandlerRejects, Crash, Signal, ShutdownMarksRuns, Exit,
     Restart

LEMMA NewMark ==
    ASSUME Steady, TypeOK, ClaimInv, [Next]_vars,
           NEW m \in marking', \A n \in marking : n.run # m.run
    PROVE  m.run \in GivenUp' \/ Refused(m.run)'
<1> USE DEF db, redis, memory
<1>1. ASSUME NEW r \in Runs, JobStalls(r) PROVE m.run \in GivenUp'
  BY <1>1, SizeAssumption DEF JobStalls, GivenUp, TypeOK
<1>2. ASSUME NEW s \in Slots, ClaimWrite(s) PROVE Refused(m.run)'
  <2>1. m.run = slot[s].run /\ slot[s].run \in Runs
    BY <1>2, BusySlot DEF ClaimWrite
  <2>2. /\ ~IndexAdmits(slot[s].run, runTask[slot[s].run], "in_progress")
        /\ UNCHANGED <<run, runTask>>
    BY <1>2 DEF ClaimWrite
  <2>3. QED
    BY <2>1, <2>2 DEF IndexAdmits, Refused
<1>3. ~ShutdownMarksRuns
  BY DEF ShutdownMarksRuns, ClaimInv
<1>4. ~(marking' \subseteq marking) /\ ~\E n \in marking : m.run = n.run
  OBVIOUS
<1>5. ASSUME NEW n \in marking, MarkRead(n) \/ MarkWrite(n) PROVE FALSE
  <2>1. [n EXCEPT !.pc = "write"].run = n.run
    BY DEF TypeOK
  <2>2. QED
    BY <1>4, <1>5, <2>1 DEF MarkRead, MarkWrite
<1>6. ASSUME NEW s \in Slots, Worker(s) PROVE Refused(m.run)'
  BY <1>2, <1>4, <1>6 DEF Worker, TakeJob, ClaimRead, BeginExecution, ExecutionFails,
     ExecutionSucceeds, CompleteRead, CompleteWrite, FailRead, FailWrite, Leave
<1>7. QED
  BY <1>1, <1>3, <1>4, <1>5, <1>6 DEF Next, vars, AddTask, UserCompletesTask, Request, StartRead,
     StartWrite, StopRead, StopWrite, QueueRun, QueueRunFails, ProcessEnds, Marks, Handlers,
     HandlerRead, HandlerSetsState, HandlerCreatesRun, HandlerRejects, Crash, Signal, Exit, Restart

LEMMA StepRefused ==
    ASSUME Steady, TypeOK, CompletionInv, JobInv, ClaimInv, RefusedInv, [Next]_vars
    PROVE  RefusedInv'
<1> SUFFICES ASSUME NEW m \in marking', run'[m.run] = "pending"
             PROVE  m.run \in GivenUp' \/ Refused(m.run)'
  BY DEF RefusedInv
<1>1. [Lifecycle!Next]_<<run, runTask, done, GivenUp>>
  BY StepLifecycle
<1>2. CASE \E n \in marking : n.run = m.run
  <2>1. /\ m.run \in Runs /\ run[m.run] # "none"
        /\ run[m.run] = "pending" => m.run \in GivenUp \/ Refused(m.run)
    BY <1>2 DEF TypeOK, ClaimInv, MarkInv, JobInv, RefusedInv
  <2>2. run[m.run] = "pending"
    BY <1>1, <2>1 DEF Lifecycle!Next, Lifecycle!Create, Lifecycle!Claim, Lifecycle!Complete,
       Lifecycle!Fail, Lifecycle!FailUnclaimed, Lifecycle!TaskDone, Lifecycle!GiveUp, TypeOK
  <2>3. QED
    BY <1>1, <2>1, <2>2, RefusedStays, GivenUpStays
<1>3. QED
  BY <1>2, NewMark

LEMMA RefusedInvariance == ASSUME Steady PROVE Spec => []RefusedInv
<1>1. Init => RefusedInv
  BY DEF Init, RefusedInv
<1>2. TypeOK /\ CompletionInv /\ JobInv /\ ClaimInv /\ RefusedInv /\ [Next]_vars => RefusedInv'
  BY StepRefused
<1>3. QED
  BY <1>1, <1>2, Invariance, PTL DEF Spec

\* What the runs table promises its readers, kept by every step of the run loop.
THEOREM RefinesLifecycle == ASSUME Steady PROVE Spec => ImplementsLifecycle
<1>1. Init => Lifecycle!Init
  BY SizeAssumption DEF Init, Lifecycle!Init, GivenUp
<1>2. TypeOK /\ CompletionInv /\ JobInv /\ ClaimInv /\ RefusedInv /\ [Next]_vars
      => [Lifecycle!Next]_<<run, runTask, done, GivenUp>>
  BY StepLifecycle
<1>3. QED
  BY <1>1, <1>2, Invariance, RefusedInvariance, PTL DEF Spec, ImplementsLifecycle, Lifecycle!Spec

\* No arrow leads out of completed or failed (RunsService.ts:75-81): without a shutdown and a lock
\* that expires under a live attempt the two writes that leave a terminal state cannot happen.
THEOREM TerminalStates == ASSUME Steady PROVE Spec => TerminalIsFinal
<1>1. TypeOK /\ CompletionInv /\ JobInv /\ ClaimInv /\ RefusedInv /\ [Next]_vars
      => \A r \in Runs : run[r] \in Terminal => run'[r] = run[r]
  <2> SUFFICES ASSUME TypeOK, [Lifecycle!Next]_<<run, runTask, done, GivenUp>>,
                      NEW r \in Runs, run[r] \in Terminal
               PROVE  run'[r] = run[r]
    BY StepLifecycle
  <2>1. ASSUME NEW q \in Runs, NEW st, run' = [run EXCEPT ![q] = st], run[q] \notin Terminal
        PROVE  run'[r] = run[r]
    BY <2>1 DEF TypeOK
  <2>2. QED
    BY <2>1 DEF Lifecycle!Next, Lifecycle!Create, Lifecycle!Claim, Lifecycle!Complete,
       Lifecycle!Fail, Lifecycle!FailUnclaimed, Lifecycle!TaskDone, Lifecycle!GiveUp, Terminal
<1>2. QED
  BY <1>1, Invariance, RefusedInvariance, PTL DEF Spec, TerminalIsFinal

=============================================================================
