--------------------------- MODULE RunOrchestration ---------------------------
(***************************************************************************)
(* The run loop of one project: the API calls that start and stop it       *)
(* (WorkflowManager.startWorkflow, the `stop` handler), the BullMQ worker  *)
(* that executes runs (BackgroundWorkflowProcessor), the callbacks between *)
(* the two (WorkflowMessengerService, handleRunCompleted, handleRunFailed),*)
(* the runs table (RunsService and its partial unique index) and the life  *)
(* of the server process: crash, shutdown on a signal, restart.            *)
(*                                                                         *)
(* Transactions run at READ COMMITTED.  Each is two steps: its reads, at   *)
(* one point, then its writes together with the commit.  What the reads    *)
(* saw is kept in between, so a write can act on a stale read.             *)
(*                                                                         *)
(* Which incomplete task comes first is left open: any move of a task can  *)
(* make any of them the first (the order itself is not modelled here).     *)
(***************************************************************************)
EXTENDS Naturals, FiniteSets

CONSTANTS
    Tasks,       \* the tasks the project ever has
    Runs,        \* run ids that may be inserted (a bound on the runs of a behaviour)
    Calls,       \* run and stop requests that are accepted, each at most once (a bound)
    Slots,       \* concurrent jobs of the BullMQ worker (5 in the code)
    Operations,  \* which requests are made: subset of {"loop", "single", "stop"}
    Faults,      \* subset of {"crash", "shutdown", "stall", "redis"}
    MaxOutages,  \* bound on crashes and shutdowns
    MaxStalls,   \* BullMQ maxStalledCount, 1 by default
    NoTask, NoRun, NoSlot

ASSUME SizeAssumption == MaxOutages \in Nat /\ MaxStalls \in Nat
ASSUME NoneAssumption == NoTask \notin Tasks /\ NoRun \notin Runs /\ NoSlot \notin Slots

VARIABLES
    \* PostgreSQL
    project,    \* projects.queue_state
    todo, done, \* tasks with completed_on null, and set
    run,        \* runs.state, "none" when the row does not exist
    runTask,    \* runs.task_id
    \* Redis
    job,        \* the BullMQ job of each run
    holder,     \* the slot whose lock the job carries
    stalls,     \* its stalled counter
    \* the memory of the server process
    server,     \* "up", "closing" (worker closed), "draining", "down"
    slot,       \* processRun, one per concurrent job
    active,     \* BackgroundWorkflowProcessor.activeRuns
    call,       \* run and stop requests
    unqueued,   \* committed runs whose queueRun has not reached Redis
    triggered,  \* callbacks called by the messenger, not yet begun
    handling,   \* their transactions between read and write
    marking,    \* markRunAsFailed of the 'failed' event and of shutdown
    outages

db      == <<project, todo, done, run, runTask>>
redis   == <<job, holder, stalls>>
memory  == <<server, slot, active, call, unqueued, triggered, handling, marking, outages>>
vars    == <<db, redis, memory>>

-----------------------------------------------------------------------------
Processing  == {"processing-loop", "processing-single"}
QueueStates == Processing \cup {"idle", "stopping", "failed"}
ActiveState == {"pending", "in_progress"}
Terminal    == {"completed", "failed"}

SlotPc == {"claimRead", "claimWrite", "begin", "working",
           "completeRead", "completeWrite", "failRead", "failWrite", "leaving"}
CallPc == {"unused", "start", "stop", "done"}

Unused   == [pc |-> "unused", to |-> "idle", task |-> NoTask]
Answered == [pc |-> "done", to |-> "idle", task |-> NoTask]

Free == [pc |-> "free", run |-> NoRun]
Busy == [pc : SlotPc, run : Runs]

ActiveRuns == {r \in Runs : run[r] \in ActiveState}

\* Mutant: the index covers pending runs only.
IndexAdmitsPendingOnly(r, t, st) ==
    st = "pending" => \A q \in Runs \ {r} : ~(runTask[q] = t /\ run[q] = st)

\* The partial unique index on (task_id, state) lets run r take state st of task t.
IndexAdmits(r, t, st) == \A q \in Runs \ {r} : ~(runTask[q] = t /\ run[q] = st)

Unborn   == {r \in Runs : run[r] = "none"}
FreshRun == CHOOSE r \in Runs : run[r] = "none"

\* createRun: insert a pending row; queueRun follows the commit.
InsertRun(t, by) ==
    /\ run' = [run EXCEPT ![FreshRun] = "pending"]
    /\ runTask' = [runTask EXCEPT ![FreshRun] = t]
    /\ unqueued' = unqueued \cup {[run |-> FreshRun, by |-> by]}

\* The process is gone: its memory with it, PostgreSQL and Redis stay.
ProcessEnds ==
    /\ server' = "down"
    /\ slot' = [s \in Slots |-> Free]
    /\ active' = {}
    /\ call' = [c \in Calls |-> IF call[c] = Unused THEN Unused ELSE Answered]
    /\ unqueued' = {} /\ triggered' = {} /\ handling' = {} /\ marking' = {}
    /\ outages' = outages + 1

-----------------------------------------------------------------------------
Init ==
    /\ project = "idle"
    /\ todo \in SUBSET Tasks
    /\ done = {}
    /\ run = [r \in Runs |-> "none"]
    /\ runTask = [r \in Runs |-> NoTask]
    /\ job = [r \in Runs |-> "none"]
    /\ holder = [r \in Runs |-> NoSlot]
    /\ stalls = [r \in Runs |-> 0]
    /\ server = "up"
    /\ slot = [s \in Slots |-> Free]
    /\ active = {}
    /\ call = [c \in Calls |-> Unused]
    /\ unqueued = {} /\ triggered = {} /\ handling = {} /\ marking = {}
    /\ outages = 0

-----------------------------------------------------------------------------
\* Users: POST task, and completing a task by hand or through MCP.
AddTask(t) ==
    /\ t \notin todo \cup done
    /\ todo' = todo \cup {t}
    /\ UNCHANGED <<project, done, run, runTask, redis, memory>>

UserCompletesTask(t) ==
    /\ t \in todo
    /\ todo' = todo \ {t}
    /\ done' = done \cup {t}
    /\ UNCHANGED <<project, run, runTask, redis, memory>>

\* startWorkflow, up to the next task: refused while processing or with nothing to do.
StartRead(c, op) ==
    /\ server # "down" /\ call[c] = Unused
    /\ op \in Operations \cap {"loop", "single"}
    /\ project \notin Processing
    /\ \E t \in todo :
          call' = [call EXCEPT ![c] =
              [pc |-> "start", task |-> t,
               to |-> IF op = "loop" THEN "processing-loop" ELSE "processing-single"]]
    /\ UNCHANGED <<db, redis, server, slot, active, unqueued, triggered, handling, marking, outages>>

\* Its writes and commit; a violated index rolls both back.
StartWrite(c) ==
    /\ call[c].pc = "start"
    /\ call' = [call EXCEPT ![c] = Answered]
    /\ \/ /\ Unborn # {}
          /\ IndexAdmits(FreshRun, call[c].task, "pending")
          /\ project' = call[c].to
          /\ InsertRun(call[c].task, "call")
       \/ /\ ~IndexAdmits(NoRun, call[c].task, "pending")
          /\ UNCHANGED <<project, run, runTask, unqueued>>
    /\ UNCHANGED <<todo, done, redis, server, slot, active, triggered, handling, marking, outages>>

\* The stop handler: refused unless the project processes.
StopRead(c) ==
    /\ server # "down" /\ call[c] = Unused /\ "stop" \in Operations
    /\ project \in Processing
    /\ call' = [call EXCEPT ![c] = [pc |-> "stop", task |-> NoTask,
                    to |-> IF ActiveRuns # {} THEN "stopping" ELSE "idle"]]
    /\ UNCHANGED <<db, redis, server, slot, active, unqueued, triggered, handling, marking, outages>>

StopWrite(c) ==
    /\ call[c].pc = "stop"
    /\ project' = call[c].to
    /\ call' = [call EXCEPT ![c] = Answered]
    /\ UNCHANGED <<todo, done, run, runTask, redis, server, slot, active, unqueued,
                   triggered, handling, marking, outages>>

\* Mutant: a job is queued only if the project still processes.
QueueRunWhileProcessing(q) ==
    /\ q \in unqueued
    /\ unqueued' = unqueued \ {q}
    /\ job' = [job EXCEPT ![q.run] = IF project \in Processing THEN "waiting" ELSE @]
    /\ UNCHANGED <<db, holder, stalls, server, slot, active, call, triggered, handling,
                   marking, outages>>

\* queueRun, after the commit that inserted the run.
QueueRun(q) ==
    /\ q \in unqueued
    /\ unqueued' = unqueued \ {q}
    /\ job' = [job EXCEPT ![q.run] = "waiting"]
    /\ UNCHANGED <<db, holder, stalls, server, slot, active, call, triggered, handling,
                   marking, outages>>

\* Redis refuses the job: a request answers 500, a callback's rejection ends the process.
QueueRunFails(q) ==
    /\ "redis" \in Faults /\ outages < MaxOutages
    /\ q \in unqueued
    /\ \/ /\ q.by = "call"
          /\ unqueued' = unqueued \ {q}
          /\ UNCHANGED <<server, slot, active, call, triggered, handling, marking, outages>>
       \/ /\ q.by = "callback"
          /\ ProcessEnds
    /\ UNCHANGED <<db, redis>>

-----------------------------------------------------------------------------
\* processRun, from the job to markRunAsInProgress.
TakeJob(s, r) ==
    /\ server = "up" /\ slot[s] = Free /\ job[r] = "waiting"
    /\ job' = [job EXCEPT ![r] = "active"]
    /\ holder' = [holder EXCEPT ![r] = s]
    /\ slot' = [slot EXCEPT ![s] = [pc |-> "claimRead", run |-> r]]
    /\ active' = active \cup {r}
    /\ UNCHANGED <<db, stalls, server, call, unqueued, triggered, handling, marking, outages>>

Goto(s, pc) == slot' = [slot EXCEPT ![s].pc = pc]

\* BullMQ moves the job of slot s out of the active list: only with the lock still its own,
\* and only until the worker has closed its connection.
FinishesJob(s, r) ==
    /\ holder[r] = s /\ server # "draining"
    /\ job' = [job EXCEPT ![r] = "finished"]
    /\ holder' = [holder EXCEPT ![r] = NoSlot]

KeepsJob(s, r) ==
    /\ holder[r] # s \/ server # "up"
    /\ UNCHANGED <<job, holder>>

\* Mutant: the claim refuses a run that was claimed before.
ClaimReadOnce(s) ==
    /\ slot[s].pc = "claimRead"
    /\ Goto(s, IF run[slot[s].run] # "pending" THEN "leaving" ELSE "claimWrite")
    /\ UNCHANGED <<db, redis, server, active, call, unqueued, triggered, handling, marking, outages>>

ClaimRead(s) ==
    /\ slot[s].pc = "claimRead"
    /\ Goto(s, IF run[slot[s].run] \in Terminal THEN "leaving" ELSE "claimWrite")
    /\ UNCHANGED <<db, redis, server, active, call, unqueued, triggered, handling, marking, outages>>

\* Mutant: nobody listens to the worker's 'failed' event.
ClaimWriteUnheard(s) ==
    LET r == slot[s].run IN
    /\ slot[s].pc = "claimWrite"
    /\ IF IndexAdmits(r, runTask[r], "in_progress")
       THEN /\ run' = [run EXCEPT ![r] = "in_progress"]
            /\ Goto(s, "begin")
            /\ UNCHANGED <<job, holder, active>>
       ELSE /\ slot' = [slot EXCEPT ![s] = Free]
            /\ active' = active \ {r}
            /\ FinishesJob(s, r)
            /\ UNCHANGED run
    /\ UNCHANGED <<project, todo, done, runTask, stalls, server, call, unqueued, triggered,
                   handling, marking, outages>>

\* A violated index throws: the job fails, and its 'failed' event marks the run.
ClaimWrite(s) ==
    LET r == slot[s].run IN
    /\ slot[s].pc = "claimWrite"
    /\ \/ /\ IndexAdmits(r, runTask[r], "in_progress")
          /\ run' = [run EXCEPT ![r] = "in_progress"]
          /\ Goto(s, "begin")
          /\ UNCHANGED <<job, holder, active, marking>>
       \/ /\ ~IndexAdmits(r, runTask[r], "in_progress")
          /\ slot' = [slot EXCEPT ![s] = Free]
          /\ active' = active \ {r}
          /\ \/ /\ FinishesJob(s, r)
                /\ marking' = marking \cup {[run |-> r, by |-> "event", pc |-> "read"]}
             \/ /\ KeepsJob(s, r)
                /\ UNCHANGED marking
          /\ UNCHANGED run
    /\ UNCHANGED <<project, todo, done, runTask, stalls, server, call, unqueued, triggered,
                   handling, outages>>

\* The long transaction opens and reads the task.
BeginExecution(s) ==
    /\ slot[s].pc = "begin"
    /\ Goto(s, IF runTask[slot[s].run] \in done THEN "failRead" ELSE "working")
    /\ UNCHANGED <<db, redis, server, active, call, unqueued, triggered, handling, marking, outages>>

\* Mutant: a failed execution is recorded as completed.
ExecutionFailsAsCompleted(s) ==
    /\ slot[s].pc = "working"
    /\ Goto(s, "completeRead")
    /\ UNCHANGED <<db, redis, server, active, call, unqueued, triggered, handling, marking, outages>>

\* executeWorkflow fails, times out or throws; the transaction changes nothing.
ExecutionFails(s) ==
    /\ slot[s].pc = "working"
    /\ Goto(s, "failRead")
    /\ UNCHANGED <<db, redis, server, active, call, unqueued, triggered, handling, marking, outages>>

\* The agent finished: completeTask and commit, refused when the task was completed meanwhile.
ExecutionSucceeds(s) ==
    LET t == runTask[slot[s].run] IN
    /\ slot[s].pc = "working"
    /\ \/ /\ t \in todo
          /\ todo' = todo \ {t}
          /\ done' = done \cup {t}
          /\ Goto(s, "completeRead")
       \/ /\ t \notin todo
          /\ Goto(s, "failRead")
          /\ UNCHANGED <<todo, done>>
    /\ UNCHANGED <<project, run, runTask, redis, server, active, call, unqueued, triggered,
                   handling, marking, outages>>

Trigger(kind, r, from) ==
    triggered' = triggered \cup {[kind |-> kind, run |-> r, from |-> from]}

\* markRunAsCompleted and markRunAsFailed of processRun: updateRunState, then the callback,
\* which is triggered even when the transition was refused.
CompleteRead(s) ==
    LET r == slot[s].run IN
    /\ slot[s].pc = "completeRead"
    /\ \/ /\ run[r] \in Terminal
          /\ Goto(s, "leaving")
          /\ Trigger("completed", r, s)
       \/ /\ run[r] \notin Terminal
          /\ Goto(s, "completeWrite")
          /\ UNCHANGED triggered
    /\ UNCHANGED <<db, redis, server, active, call, unqueued, handling, marking, outages>>

CompleteWrite(s) ==
    LET r == slot[s].run IN
    /\ slot[s].pc = "completeWrite"
    /\ run' = [run EXCEPT ![r] = "completed"]
    /\ Goto(s, "leaving")
    /\ Trigger("completed", r, s)
    /\ UNCHANGED <<project, todo, done, runTask, redis, server, active, call, unqueued,
                   handling, marking, outages>>

FailRead(s) ==
    LET r == slot[s].run IN
    /\ slot[s].pc = "failRead"
    /\ \/ /\ run[r] \in Terminal
          /\ Goto(s, "leaving")
          /\ Trigger("failed", r, s)
       \/ /\ run[r] \notin Terminal
          /\ Goto(s, "failWrite")
          /\ UNCHANGED triggered
    /\ UNCHANGED <<db, redis, server, active, call, unqueued, handling, marking, outages>>

\* Mutant: a failed run is not reported to the WorkflowManager.
FailWriteSilent(s) ==
    /\ slot[s].pc = "failWrite"
    /\ run' = [run EXCEPT ![slot[s].run] = "failed"]
    /\ Goto(s, "leaving")
    /\ UNCHANGED <<project, todo, done, runTask, redis, server, active, call, unqueued,
                   triggered, handling, marking, outages>>

FailWrite(s) ==
    LET r == slot[s].run IN
    /\ slot[s].pc = "failWrite"
    /\ run' = [run EXCEPT ![r] = "failed"]
    /\ Goto(s, "leaving")
    /\ Trigger("failed", r, s)
    /\ UNCHANGED <<project, todo, done, runTask, redis, server, active, call, unqueued,
                   handling, marking, outages>>

\* The finally block; BullMQ finishes the job if this slot still has its lock.
Leave(s) ==
    LET r == slot[s].run IN
    /\ slot[s].pc = "leaving"
    /\ slot' = [slot EXCEPT ![s] = Free]
    /\ active' = active \ {r}
    /\ FinishesJob(s, r) \/ KeepsJob(s, r)
    /\ UNCHANGED <<db, stalls, server, call, unqueued, triggered, handling, marking, outages>>

\* markRunAsFailed outside processRun: the 'failed' event of the worker, and shutdown.
MarkRead(m) ==
    /\ m \in marking /\ m.pc = "read"
    /\ \/ /\ run[m.run] \in Terminal
          /\ marking' = marking \ {m}
          /\ Trigger("failed", m.run, m.by)
       \/ /\ run[m.run] \notin Terminal
          /\ marking' = (marking \ {m}) \cup {[m EXCEPT !.pc = "write"]}
          /\ UNCHANGED triggered
    /\ UNCHANGED <<db, redis, server, slot, active, call, unqueued, handling, outages>>

MarkWrite(m) ==
    /\ m \in marking /\ m.pc = "write"
    /\ run' = [run EXCEPT ![m.run] = "failed"]
    /\ marking' = marking \ {m}
    /\ Trigger("failed", m.run, m.by)
    /\ UNCHANGED <<project, todo, done, runTask, redis, server, slot, active, call, unqueued,
                   handling, outages>>

-----------------------------------------------------------------------------
\* Mutant: a failed run leaves the project alone.
DecisionsIgnoreFailure(kind) ==
    IF kind = "completed" /\ project \in Processing \cup {"stopping"}
    THEN {[write |-> "idle", task |-> NoTask]}
    ELSE {}

\* What handleRunCompleted and handleRunFailed decide on the state they read;
\* in a state the code calls invalid they only log.
Decisions(kind) ==
    CASE kind = "completed" /\ project = "processing-loop" /\ todo # {} ->
            {[write |-> "run", task |-> t] : t \in todo}
      [] kind = "completed" /\ project \in Processing \cup {"stopping"}
            /\ ~(project = "processing-loop" /\ todo # {}) ->
            {[write |-> "idle", task |-> NoTask]}
      [] kind = "failed" /\ project \in Processing \cup {"stopping"} ->
            {[write |-> "failed", task |-> NoTask]}
      [] OTHER -> {}

HandlerRead(e) ==
    /\ e \in triggered
    /\ triggered' = triggered \ {e}
    /\ \/ \E d \in Decisions(e.kind) : handling' = handling \cup {[event |-> e, does |-> d]}
       \/ /\ Decisions(e.kind) = {}
          /\ UNCHANGED handling
    /\ UNCHANGED <<db, redis, server, slot, active, call, unqueued, marking, outages>>

HandlerSetsState(h) ==
    /\ h \in handling /\ h.does.write \in {"idle", "failed"}
    /\ project' = h.does.write
    /\ handling' = handling \ {h}
    /\ UNCHANGED <<todo, done, run, runTask, redis, server, slot, active, call, unqueued,
                   triggered, marking, outages>>

\* Mutant: the callback inserts a second pending run of a task.
HandlerCreatesRunTwice(h) ==
    /\ h \in handling /\ h.does.write = "run"
    /\ Unborn # {}
    /\ InsertRun(h.does.task, "callback")
    /\ handling' = handling \ {h}
    /\ UNCHANGED <<project, todo, done, redis, server, slot, active, call, triggered, marking,
                   outages>>

HandlerCreatesRun(h) ==
    /\ h \in handling /\ h.does.write = "run"
    /\ Unborn # {}
    /\ IndexAdmits(FreshRun, h.does.task, "pending")
    /\ InsertRun(h.does.task, "callback")
    /\ handling' = handling \ {h}
    /\ UNCHANGED <<project, todo, done, redis, server, slot, active, call, triggered, marking,
                   outages>>

\* The insert violates the index: nobody awaits the callback, so the rejection is unhandled
\* and ends the process.
HandlerRejects(h) ==
    /\ h \in handling /\ h.does.write = "run"
    /\ ~IndexAdmits(NoRun, h.does.task, "pending")
    /\ ProcessEnds
    /\ UNCHANGED <<db, redis>>

-----------------------------------------------------------------------------
Crash ==
    /\ "crash" \in Faults /\ outages < MaxOutages /\ server # "down"
    /\ ProcessEnds
    /\ UNCHANGED <<db, redis>>

\* A signal closes the worker without waiting for its jobs.
Signal ==
    /\ "shutdown" \in Faults /\ outages < MaxOutages /\ server = "up"
    /\ server' = "closing"
    /\ UNCHANGED <<db, redis, slot, active, call, unqueued, triggered, handling, marking, outages>>

ShutdownMarksRuns ==
    /\ server = "closing"
    /\ server' = "draining"
    /\ marking' = marking \cup {[run |-> r, by |-> "shutdown", pc |-> "read"] : r \in active}
    /\ UNCHANGED <<db, redis, slot, active, call, unqueued, triggered, handling, outages>>

\* process.exit(0) once those marks are settled; the callbacks are not awaited.
Exit ==
    /\ server = "draining"
    /\ \A m \in marking : m.by # "shutdown"
    /\ ProcessEnds
    /\ UNCHANGED <<db, redis>>

Restart ==
    /\ server = "down"
    /\ server' = "up"
    /\ UNCHANGED <<db, redis, slot, active, call, unqueued, triggered, handling, marking, outages>>

LockIsLive(r) == holder[r] # NoSlot /\ slot[holder[r]].run = r

\* BullMQ's stalled check: an expired lock sends the job back, or fails it past the limit.
JobStalls(r) ==
    /\ server = "up" /\ job[r] = "active"
    /\ LockIsLive(r) => "stall" \in Faults
    /\ holder' = [holder EXCEPT ![r] = NoSlot]
    /\ stalls' = [stalls EXCEPT ![r] = @ + 1]
    /\ \/ /\ stalls[r] < MaxStalls
          /\ job' = [job EXCEPT ![r] = "waiting"]
          /\ UNCHANGED marking
       \/ /\ stalls[r] >= MaxStalls
          /\ job' = [job EXCEPT ![r] = "finished"]
          /\ marking' = marking \cup {[run |-> r, by |-> "event", pc |-> "read"]}
    /\ UNCHANGED <<db, server, slot, active, call, unqueued, triggered, handling, outages>>

-----------------------------------------------------------------------------
Worker(s) ==
    \/ \E r \in Runs : TakeJob(s, r)
    \/ ClaimRead(s) \/ ClaimWrite(s) \/ BeginExecution(s)
    \/ ExecutionFails(s) \/ ExecutionSucceeds(s)
    \/ CompleteRead(s) \/ CompleteWrite(s) \/ FailRead(s) \/ FailWrite(s)
    \/ Leave(s)

Handlers ==
    \/ \E e \in triggered : HandlerRead(e)
    \/ \E h \in handling : HandlerSetsState(h) \/ HandlerCreatesRun(h) \/ HandlerRejects(h)

Marks == \E m \in marking : MarkRead(m) \/ MarkWrite(m)

Request(c) ==
    \/ \E op \in {"loop", "single"} : StartRead(c, op)
    \/ StartWrite(c) \/ StopRead(c) \/ StopWrite(c)

Next ==
    \/ \E t \in Tasks : AddTask(t) \/ UserCompletesTask(t)
    \/ \E c \in Calls : Request(c)
    \/ \E q \in unqueued : QueueRun(q) \/ QueueRunFails(q)
    \/ \E s \in Slots : Worker(s)
    \/ Marks \/ Handlers
    \/ Crash \/ Signal \/ ShutdownMarksRuns \/ Exit \/ Restart
    \/ \E r \in Runs : JobStalls(r)

Spec == Init /\ [][Next]_vars

\* What the server does by itself is fair, and so is the container's restart; requests,
\* users and faults are not.  An execution ends: it runs against a one-hour timeout.
Fairness ==
    /\ \A c \in Calls : WF_vars(StartWrite(c) \/ StopWrite(c))
    /\ WF_vars(\E q \in unqueued : QueueRun(q))
    /\ \A s \in Slots : WF_vars(Worker(s))
    /\ WF_vars(Marks)
    /\ WF_vars(Handlers)
    /\ WF_vars(ShutdownMarksRuns \/ Exit)
    /\ WF_vars(Restart)
    /\ \A r \in Runs : WF_vars(~LockIsLive(r) /\ JobStalls(r))

FairSpec == Spec /\ Fairness

-----------------------------------------------------------------------------
Event == [kind : {"completed", "failed"}, run : Runs, from : Slots \cup {"event", "shutdown"}]

\* Every variable keeps the shape of the table, queue or map it stands for.
TypeOK ==
    /\ project \in QueueStates
    /\ todo \in SUBSET Tasks /\ done \in SUBSET Tasks
    /\ run \in [Runs -> ActiveState \cup Terminal \cup {"none"}]
    /\ runTask \in [Runs -> Tasks \cup {NoTask}]
    /\ job \in [Runs -> {"none", "waiting", "active", "finished"}]
    /\ holder \in [Runs -> Slots \cup {NoSlot}]
    /\ stalls \in [Runs -> Nat]
    /\ server \in {"up", "closing", "draining", "down"}
    /\ slot \in [Slots -> Busy \cup {Free}]
    /\ active \in SUBSET Runs
    /\ call \in [Calls -> [pc : CallPc, to : QueueStates, task : Tasks \cup {NoTask}]]
    /\ unqueued \in SUBSET [run : Runs, by : {"call", "callback"}]
    /\ triggered \in SUBSET Event
    /\ handling \in SUBSET [event : Event,
            does : [write : {"run"}, task : Tasks] \cup [write : {"idle", "failed"}, task : {NoTask}]]
    /\ marking \in SUBSET [run : Runs, by : {"event", "shutdown"}, pc : {"read", "write"}]
    /\ outages \in Nat

\* A run recorded as completed belongs to a completed task, over refused transitions, two
\* attempts at one run, crashes and shutdowns (BackgroundWorkflowProcessor.ts:244-268).
CompletedRunCompletedTask ==
    \A r \in Runs : run[r] = "completed" => runTask[r] \in done

\* Its inductive strengthening: jobs and slots only name runs that were inserted, so a later
\* insert never changes their task, and a slot about to record completion has seen it commit.
CompletionInv ==
    /\ CompletedRunCompletedTask
    /\ \A r \in Runs : job[r] \in {"waiting", "active"} => run[r] # "none"
    /\ \A q \in unqueued : run[q.run] # "none"
    /\ \A s \in Slots : slot[s].pc # "free" => run[slot[s].run] # "none"
    /\ \A s \in Slots : slot[s].pc \in {"completeRead", "completeWrite"}
            => runTask[slot[s].run] \in done

\* While the process has not ended, every run that is not over has someone to carry it on: a
\* queueRun to come, a job, a slot, or a markRunAsFailed.
NoOrphanRun ==
    outages = 0 => \A r \in ActiveRuns :
        \/ \E q \in unqueued : q.run = r
        \/ job[r] \in {"waiting", "active"}
        \/ \E m \in marking : m.run = r

\* With it, a run whose slot is leaving is over, so the job may go.
CarryInv ==
    /\ NoOrphanRun
    /\ \A s \in Slots : slot[s].pc = "leaving" => run[slot[s].run] \in Terminal

\* A project that processes has a run that is not over, or a callback that will move it on.
ProcessingHasWork ==
    outages = 0 /\ project \in Processing =>
        ActiveRuns # {} \/ triggered # {} \/ handling # {}

\* With it, a stop never writes a state in which the project processes.
ProcessingInv ==
    /\ ProcessingHasWork
    /\ \A c \in Calls : call[c].pc = "stop" => call[c].to \notin Processing

\* While no lock expires under a live job, two executions never work on one task, hence on one
\* branch, at the same time: starts that race, a start while stopping and a job that comes back
\* after a crash all meet the index on in_progress (schema.ts:263-285).
OneExecutionPerTask ==
    \A s, z \in Slots :
        s # z /\ slot[s].pc = "working" /\ slot[z].pc = "working"
            => runTask[slot[s].run] # runTask[slot[z].run]

\* What the rest relies on while jobs keep their locks: a run gets one job, and one slot at a time
\* has it and its lock;
JobInv ==
    /\ \A r \in Runs : run[r] = "none" => job[r] = "none"
    /\ \A q \in unqueued : job[q.run] = "none"
    /\ \A q, p \in unqueued : q.run = p.run => q = p
    /\ \A s \in Slots : slot[s].pc # "free" =>
           job[slot[s].run] = "active" /\ holder[slot[s].run] = s

\* while no shutdown marks runs that execute, whoever marks a run as failed does it when its job
\* is over, and alone;
MarkInv ==
    /\ \A m \in marking : /\ job[m.run] = "finished"
                          /\ m.pc = "write" => run[m.run] \notin Terminal
    /\ \A m, n \in marking : m.run = n.run => m = n

Executing == SlotPc \ {"claimRead", "claimWrite", "leaving"}

\* so a run stays claimed while a slot executes it, and no two claimed runs share a task.
ClaimInv ==
    /\ server \in {"up", "down"}
    /\ todo \cap done = {}
    /\ \A c \in Calls : call[c].pc = "start" => call[c].task \in Tasks
    /\ MarkInv
    /\ \A s \in Slots : /\ slot[s].pc # "free" => server = "up"
                        /\ slot[s].pc = "claimWrite" => run[slot[s].run] \in ActiveState
                        /\ slot[s].pc \in Executing => run[slot[s].run] = "in_progress"
    /\ \A r, q \in Runs : run[r] = "in_progress" /\ run[q] = "in_progress" /\ runTask[r] = runTask[q]
                           => r = q

\* A run that is marked as failed before it was claimed was refused the claim, another run of its
\* task having been claimed, or its job was given up.
Refused(r) == \E q \in Runs \ {r} : runTask[q] = runTask[r] /\ run[q] \notin {"none", "pending"}
GivenUp    == {r \in Runs : stalls[r] > MaxStalls}

RefusedInv == \A m \in marking : run[m.run] = "pending" => m.run \in GivenUp \/ Refused(m.run)

\* "at most one of pending/in_progress per task in practice" (RunsService.ts:41).
OneActiveRunPerTask ==
    \A r, q \in ActiveRuns : runTask[r] = runTask[q] => r = q

\* The state diagram of RunsService.ts:75-81 has no arrow out of completed or failed; a transition
\* decided on a state that was read before may overwrite one.
TerminalIsFinal ==
    [][\A r \in Runs : run[r] \in Terminal => run'[r] = run[r]]_vars

\* The arrows of that diagram are all the transitions there are.  A run whose claim violates the
\* index is marked as failed while it is pending, which is none of them.
FollowsDiagram ==
    [][\A r \in Runs : run[r] # "none" /\ run'[r] # run[r] =>
           <<run[r], run'[r]>> \in {<<"pending", "in_progress">>, <<"in_progress", "completed">>,
                                   <<"in_progress", "failed">>}]_vars

\* The lifecycle that the rest of the program relies on, as a specification of its own.
Lifecycle == INSTANCE RunLifecycle WITH givenUp <- GivenUp
ImplementsLifecycle == Lifecycle!Spec

\* An attempt at a run goes on although BullMQ took its lock away.
LostLock == \E s \in Slots : slot[s].pc # "free" /\ holder[slot[s].run] # s

\* Unless an attempt loses its lock, a run that is executing is eventually over, over crashes and
\* shutdowns: its job comes back and is executed again, or BullMQ has given the job up.
ExecutingRunEnds ==
    \/ <>LostLock
    \/ \A r \in Runs : run[r] = "in_progress" ~> run[r] \in Terminal \/ stalls[r] > MaxStalls

\* Unless the process ends, every run that was created is over at some time: none waits for
\* another for ever.
EveryRunEnds ==
    <>(outages # 0) \/ \A r \in Runs : run[r] = "pending" ~> run[r] \in Terminal

\* Unless the process ends, a project that processes is idle or failed at some time, or was told
\* to stop: the callback of its last run is not lost, nor decided on a state that is gone.
ProcessingEnds ==
    <>(outages # 0) \/ (project \in Processing ~> project \notin Processing)
=============================================================================
