# My Agent Loop: a TLA+ verification project

My Agent Loop lets a team queue tasks for a coding agent. A server (Hono on Node, PostgreSQL,
Redis) takes the tasks of a project one after the other, runs an agent on each of them in a
sandbox (a Docker container or a virtual machine), pushes what the agent did, and shows the
progress in a web frontend. This directory holds TLA+ models of its parts, the TLC configurations
that check them and the theorems that the TLA+ proof system checks about them.

`PROJECT.json` has the same facts in machine-readable form: the components, the runs, which source
lines every definition models, one mutant per property, the hazards, the findings, the theorems.
Source paths below are relative to `src/apps/server/src` unless they start with `src/`.

## 1. The system

| Component | State | Operations | Interacts with | What is hard | What makes it correct | Module |
|---|---|---|---|---|---|---|
| Run orchestration: `workflow/WorkflowManager`, `BackgroundWorkflowProcessor`, `WorkflowMessengerService`, `runs/RunsService` | `projects.queue_state`, `runs`, the BullMQ queue, `activeRuns` | start, stop, queue, claim, execute, complete, fail, the two callbacks, shutdown | requests, the task queue, the execution, the process | read and write of a transaction are apart, callbacks are not awaited, jobs are delivered again, the process dies anywhere | two executions never share a task, a run ends once, no run and no processing project is abandoned, a completed run belongs to a completed task | `RunOrchestration`, `RunLifecycle` |
| Workflow execution: `workflow/WorkflowExecutionService` | an attempt at a run, its temporary directory | prepare, create, start, wait against an hour, publish, stop, clean up | sandbox services, token store, git, harness | the timeout races the exit, every failure path must clean up | every attempt ends, leaks nothing, reports what its agent did | `RunExecution`, `DockerSandbox`, `ProjectSettings` |
| VM sandbox: `sandbox/vm` | `knownSandboxes`, VMM, virtiofsd, rootfs clone, shared directory | create, start, wait, stop, stop all, release | the guest (`vm-init.sh`, `lifecycle.sh`), the driver | guests and VMMs hang or die at any time, partial creation | as above | `RunExecution` |
| Docker sandbox: `sandbox/SandboxService` | containers, a memoised network promise | create, start, wait, stop, stop all | Docker | removals race each other, a rejected promise stays memoised, any request is refused | as above, and a sandbox is started once, never removed running, reported truthfully | `DockerSandbox`, `SandboxContract` |
| Driver and driver API: `driver-api`, `src/apps/driver`, `sandbox/lifecycle.sh` | one token per run; the harness, log requests under way | set, clear, authenticate, log, report, exit | the guest or container | log requests go out unordered | output is logged before its end, a live driver is accepted | `HarnessDriver`, `RunExecution` |
| Task queue: `task-queue/DatabaseTaskQueue` | `tasks.position`, `task_number`, `completed_on` | add, update, move, next, complete | requests, orchestration | no lock on moves, midpoints of floats | one order, numbers are unique, a move ends up where it was asked | `TaskQueue` |
| Task tools: `tasks/tasks-mcp-handlers` | the JSON array of subtasks | add, change, remove a subtask | the agent, the users | read-modify-write of the whole array | completion is never undone | `TaskBoard` |
| Live events: `live-events`, frontend providers | subscribers, the client's caches | publish, subscribe, reconnect, patch, refetch | every handler that writes | events overtake refetches, publication precedes the commit | caches converge to the database | `TaskBoard`, `ProjectPages` |
| Credentials: `harness/HarnessAuthService`, `oauth-providers`, `me` | stored credentials, the provider's refresh token | read, refresh, store, revoke | execution, the provider, `mal` | a rotated token is stored in a long transaction | an owner keeps a usable credential | `CodexCredentials` |
| Command line client: `src/apps/mal-cli` | `auth.json`, browser tabs, local ports | login, logout, connect, disconnect, status | the server, the authorization server, the provider | invocations share a file without a lock | the file holds an accepted login, every command ends | `MalCli` |
| Configuration: harness and sandbox settings per task, project, workspace; projects API | three levels of settings, the project's row and token | set, clear, resolve, create, update, delete | execution, forges | levels change between the reads of a run; updates are built from stale reads | a run is equipped, an answer is stored, a repository is under its forge | `ProjectSettings` |
| Git and completion: `git`, `workflow/Workflow`; forge clients: `forge` | checkout, remote branches, merge requests | checkout, commit, push, merge, open a request, list | forges, people | an existing checkout is reused, pushes are refused, answers are lost, the token is in a file meanwhile | work that is called delivered is there, the token is not left behind | `GitWorkflow`, `Forge` |
| Web frontend | query caches, the address, the selected project, forms | open, edit, save, test, go to | the API, live events | answers, events and effects in any order under an open form | what is shown, saved and said is what the user asked for | `WebClient` with `SettingsDialog`, `ProjectPages`, `ConnectionTest` |
| Deployment: `src/deploy/application` | version file, VM base link, containers | pull, switch, up, roll back | the host | every step may fail, also those of the rollback | application and VM base belong together | `Deployment` |
| Server process: `index.ts` | up, closing, exited | start, signal, exit | all | nothing waits for the jobs | see orchestration and execution | parts of three modules |
| Workspaces, sessions, administration, encryption | rows of single-transaction handlers | - | - | little | - | `ProjectSettings` has the workspace's settings |
| Development scripts | - | - | - | little | - | - |

Hazards, each at its line, are listed in `PROJECT.json`; they are what the properties are aimed at.

## 2. Plan

The order was by what breaks most when it is wrong; all of it has been written.

1. `RunOrchestration`, the run loop of a project, and `RunLifecycle`, the abstract specification it implements: what
   the runs table promises its readers.
2. `RunExecution`: what happens between claim and result, on the VM service. The step `working` of the first module
   is the whole of the second.
3. `TaskQueue`: the order that `RunOrchestration` leaves open.
4. `TaskBoard`: concurrent edits by users, agents and runs, their events and the list in a client's cache.
5. `CodexCredentials` and, composed with it, `MalCli`: a rotating provider under runs and commands.
6. `HarnessDriver`, `DockerSandbox` on top of it, and `SandboxContract`, the promise of a sandbox service as
   an abstract specification that it implements.
7. `Forge` and `GitWorkflow`: runs and people on one remote.
8. `ProjectSettings`: requests as transactions and the run that resolves them.
9. `SettingsDialog`, `ProjectPages`, `ConnectionTest`, composed in `WebClient`: one browser tab.
10. `Deployment`.

Each `MC` module makes a component an instance for TLC and declares its model values; each `Proofs`
module extends a component by its theorems. Four of the instances (`MCMalCli`, `MCGitWorkflow`, `MCProjectSettings`,
`MCWebClient`) are the union of corners of a larger one, in each of which something is small: a step that leaves all of the corners is not taken.
The sections below say which they are. What could follow: `SandboxContract` for the VM service, whose stop is forced and whose
release may come before the VMM's exit, would need weaker promises; see also the end of this file.

## 3. Run orchestration

`RunOrchestration.tla` models one project.

* `project` is `projects.queue_state`. `todo` and `done` are its tasks by `completed_on`. `run` and
  `runTask` are the rows of `runs`; `IndexAdmits` is the partial unique index on `(task_id, state)`
  for active states.
* `job`, `holder` and `stalls` are what BullMQ keeps in Redis of each run: the state of its job, the
  lock, the stalled counter.
* Everything else is the memory of the process: the five concurrent calls of `processRun` (`slot`,
  `active`), requests (`call`), runs that were committed and not queued yet (`unqueued`),
  callbacks the messenger has called (`triggered`), their transactions (`handling`) and calls of
  `markRunAsFailed` from outside `processRun` (`marking`).

PostgreSQL runs at READ COMMITTED and the code takes no row locks here, so a transaction is two
steps: what it reads, and what it writes together with the commit. The decision taken on the reads
is kept in between, and any other step can come there. A violated index makes the second step roll
back. `createRun`'s id is chosen with `CHOOSE`, as a fresh identifier. The database is always
available; Redis may refuse a job (`QueueRunFails`), which a request answers with an error and a
callback turns into an unhandled rejection that ends the process, like the index violation in a
callback (`HandlerRejects`).

Which incomplete task is next is left open, because a user may move any task to the front
at any time. An execution is one step with the two outcomes `processTask` has; `ExecutionSucceeds`
includes `completeTask` and the commit, and fails when the user completed the task meanwhile.

BullMQ is external and modelled from how it is used: a job is delivered when a slot is free, its lock
expires when its process is gone or, as a fault, under a live attempt, and a job that stalled
more than `maxStalledCount` times is given up, which emits `failed`.

`RunLifecycle.tla` is the abstract specification: create, claim once, end once, completion only of
completed tasks, one pending and one claimed run per task at most. `Fail` is the arrow from in progress to failed.
The code also goes from pending to failed, which the state diagram in `runs/RunsService.ts:75-81` has no arrow for, and `FailUnclaimed`
says where only: another run of the task was claimed, so that the claim violates the index and the worker's
`failed` event marks the run; or the queue gave the job up (`givenUp`) before anybody claimed the run. `ImplementsLifecycle` is thus not the diagram.
`FollowsDiagram` is, and the code does not follow it (section 13).

### Runs

| Run | Instance | Shows |
|---|---|---|
| `RunLoop` | 2 tasks, 3 runs, 2 requests (loop, single, stop), 2 slots, no faults, fairness | `CompletedRunCompletedTask`, `NoOrphanRun`, `ProcessingHasWork`, `OneExecutionPerTask`, implements `RunLifecycle`, `EveryRunEnds`, `ProcessingEnds` |
| `RunFaults` | 1 task, 2 runs, 1 start, every fault, 1 outage, fairness | `ExecutingRunEnds` |

Why these bounds are enough to be of interest: two slots are the least at which attempts meet, and the
code has no operation on three of them; two requests are the least with a race between them or with a
callback; three runs give a loop of two tasks and one run more than the tasks; one outage puts
a crash at every point, and a run survives it only through its redelivery, the same from any second
one. When `Runs` is used up, an insert is simply never made: `EveryRunEnds` and `ProcessingEnds` are
about those that were.

`NoOrphanRun`, `ProcessingHasWork`, `EveryRunEnds` and `ProcessingEnds` are conditional on no outage. That is
the code: a pending run whose `queueRun` is lost, and a project whose callback is lost, are not looked for
at startup. With a restart they wait until a user acts. `ExecutingRunEnds` does hold over
crashes and shutdowns, with two escapes which the code has as well: an attempt that lost its lock
(`LostLock`) can write `in_progress` after another attempt recorded the end, and BullMQ
gives a job up after too many stalls.

Fairness is on what the server does by itself, not on requests, users or faults. That an
execution ends rests on the one-hour timeout of `processTask` and on `EveryAttemptEnds` of the module
below. `Restart` is fair because the container has `restart: unless-stopped`
(`src/deploy/application/compose.yaml`).

## 4. Workflow execution and VM sandboxes

`RunExecution.tla` models one run and its deliveries to `processTask`: `at` is where each attempt is.
A step is what JavaScript runs between two awaits that do I/O, which is why spawning the VMM,
registering the sandbox and storing the token are one step (`StartVmm`), and why the exit event of
a VMM, the continuation of the wait, its reading of the exit code and its release are another
(`VmmExits`).

* The host: `vm` is the VMM process of each attempt and the guest in it, from `spawned` over `running`
  and `written` (the guest recorded an exit code) to `exited`; `hung` is a guest whose PID 1 died.
  A VMM can exit at any time, for any reason. `virtiofsd` and `clone` are the other resources. vfkit boots
  the guest at spawn, cloud-hypervisor on `bootVm`; both are allowed. On macOS there is no
  virtiofsd: the model has one more resource to leak than that build.
* The shared directory is one per run, not per attempt: `setup`, `lifecycle` and `exitFile` are its
  three files. `Release` deletes them whoever wrote them.
* A stop is a bounded request, a bounded wait, a kill and a release. SIGKILL is not immediate: `killed`
  is between the signal and the exit.
* A crash either takes the child processes along (in a container) or leaves them (on a host).
* `prepare` (secrets, checkout, harness, credentials) either succeeds or is refused, and publishing
  (`onTaskCompleted`, `completeTask`) is one step that may fail.

### Runs

| Run | Instance | Shows |
|---|---|---|
| `Execution` | 2 deliveries; crash, shutdown and lost lock; fairness | `NothingLeaks`, `TokenCleared`, `OutcomeIsTheAgents`, `DriverAuthenticated`, `EveryAttemptEnds` |
| `StaleExitCode` | 2 deliveries, a crash | violates `CompletedMeansFinished` |

Two deliveries are what BullMQ's limit of one stall gives without further restarts, and they share
every piece of state that attempts can share.

`OutcomeIsTheAgents` and `DriverAuthenticated` are restricted to attempts that are alone. Two attempts at one
run do disturb each other: they share a directory, so that one that ends deletes the other's files,
and a token entry, so that the later one replaces the earlier one's. `NothingLeaks`,
`TokenCleared` and `EveryAttemptEnds` have no such restriction.

Fairness: the server's own steps. Its timers fire, requests to the VMM time out after ten seconds and
the wait for an exit after thirty. Guests, VMMs, crashes and signals are never fair. Git, copies and
pushes are assumed to return; the code puts no timeout on git.

## 5. Task queue

`TaskQueue.tla` models the tasks of one project and the requests that change their order.

* `number`, `position` and `completed` are the rows of `tasks`, `nextNumber` is
  `projects.next_task_number`. A row whose number is 0 does not exist.
* A request is a transaction at READ COMMITTED. Each statement that reads is a step, because what it
  sees is what was committed when it began; the last statement is one step with the commit.
  `add` and `move` keep what a request has read. `lock` is the row lock that the update of
  the counter takes in `addTask`, so that two additions follow each other; a move takes no lock until it writes.
* A request that fails is rolled back: `AddFails` releases the lock and the number. A move that
  fails has written nothing, which is the same as one that never goes on.
* Positions are integers, in units of the last bit a midpoint can have, `Gap` of them to a
  `POSITION_GAP`. A midpoint that does not exist is rounded to either neighbour; then positions can
  be equal, and `getNextTask` falls back on the id (a UUID of version 7, which grows with the time).
* A task may be completed between the reads and the write of a move. The write is by id and gives a
  completed row a position again. No query orders completed tasks by it, so the model keeps this and
  the properties are about incomplete tasks.

Not in the module: titles and subtasks, which no ordering depends on, and neighbours of a move that
are in another project (the code refuses them like missing ones).

### Run

| Run | Instance | Shows |
|---|---|---|
| `TaskQueue` | 3 tasks, 2 moves, `Gap` 2, symmetry on both sets | `NumbersInOrder`, `AddedInOrder`, `MovesLand` |

Three tasks are a pair of neighbours and a task to put between them; two moves are the least that race with
each other, and with `Gap` 2 the second relative move has no midpoint left. The properties are safety
properties, for which the symmetry is sound.

## 6. The task board

`TaskBoard.tla` models what users, agents and runs do to the tasks of one project, what the server
publishes of it and what one browser shows.

* `row` is the committed row of each task (title with description, subtasks, completion), `run` its active run,
  `lock` the row lock of an update that has not committed. `tx` is one writer each: a request of this browser
  (`own`) or another, a call of an MCP tool, or the worker changing a run.
* A handler of the API updates the row, looks up the active run, publishes and commits: `Puts`,
  `Moves`, `Creates` and `Completes`, then `LooksUpRun`, `Publishes`, `Commits`. The event leaves before the
  commit; `RollsBack` can come at any point and takes no event back. The subtask tools read the task first
  (`ToolReads`) and write back title, description and the whole array; the dialog does the same with what it was
  opened with (`OpensDialog`).
* Completing or adding a task by an MCP tool, and the worker's changes of runs, commit first and
  publish in a second transaction that reads the task and then its run: `FinishesTask`,
  `AddsTask`, `RunChanges`, then `LateReadsTask`, `LateReadsRun`, `LatePublishes`.
* `wire` is the event stream, in order. It is empty without a subscriber; `Drops` loses what is on it and nothing
  is replayed. The client learns that the stream is open (`Opened`) ahead of later events and
  invalidates its list.
* `board` is the list in the query cache, `fetch` its GET. Library behaviour, external to the
  repository: an invalidation restarts a fetch in flight except the very first one; the
  answer replaces the list whatever has patched it; cancelling a fetch keeps the list. A fetch that fails is retried,
  which is the same as a longer one. GET reads the tasks and then their runs (`FetchReadsTasks`, `FetchReadsRuns`).
* A drag (`Drags`) cancels the fetch, keeps the old list for the case of an error (`RevertsDrag`), and
  changes only the order, which is `TaskQueue`'s.

`stale` is a history variable, on which no action depends. It marks tasks whose last news is not the
newest row. It gets set when a transaction is rolled back after its publication; when an event was built from reads
that another writer has overtaken; when a fetch or a response lands after newer events, or a response puts a completed
task back into the list; and when a drag cancels the fetch that was to bring the news. Any
newer event, response or fetch clears it. `BoardIsCurrent` says that these are all the ways in
which the list of a connected, idle client differs from the table.

Left out: the override of the agent's configuration, which travels with the title; the projects' cache, which is in
`ProjectPages`; heartbeats and the check of the session; the order of the list. `Drags` is one step: the cancellation it
awaits settles before the browser can handle an event.

### Runs

| Run | Instance | Shows |
|---|---|---|
| `TaskBoard` | 1 task, 2 writers of all nine kinds, rollbacks, 1 broken stream, fairness | `BoardIsCurrent`, `CompletedStays`, `ReopenCatchesUp` |

Tasks meet only where a fetch or a drag replaces the whole list, and `stale` is per task, so one task shows every
overtaking between two writers, their events and a fetch; the theorems are for any number of both. Each writer acts once,
which is what makes the instance finite; the fetches are not bounded.

`CompletedStays` is where the tools' stale reads could hurt most: they write the whole array back, but not
`completed_on`. `ReopenCatchesUp` is the claim about reconnection, for a client that already has a list: its
first fetch is not restarted by an invalidation. It assumes that the server
answers and publishes, the stream reconnects and the browser handles what it gets. Users, agents, faults and focus are
not fair; a refetch on focus would otherwise hide a missing one.

## 7. Credentials and the command line client

`CodexCredentials.tla` models the OpenAI Codex credential of a workspace owner; `MalCli.tla` extends it by several
invocations of `mal`. A token is the number of its issue.

* `row` and `old` are the stored credential and whether it is older than seven days; `lock` is the row lock of a run that
  has written it and not committed. `accepted` is what the provider takes: an exchange retires a refresh token and issues the
  next, or keeps the token and issues none; one that is presented twice revokes its successor.
* A run (`at`) reads the row, refreshes an old one, stores the result and goes on for up to an hour in the same
  transaction, which commits or is rolled back at its end (`workflow/BackgroundWorkflowProcessor.ts`). A response
  without a refresh token keeps the one that was exchanged (`oauth-providers/OpenAiCodexProvider.ts:110-111`).
* The agent in the sandbox has the refresh token as well and may exchange it, also after its run was rolled back and the
  sandbox survived (`AgentExchanges`); the successor stays in the sandbox, so the stored token is dead.
  The environment's key, the other credential there is, is off in the instance: with it nothing is refused.
* A request of a command stores or deletes the row and waits for `lock`.
* `file` is `auth.json`. Writing truncates and then fills it, so there is a torn state, and any command may read it then. The legacy
  location of the file is folded into it. `tabs` are browser tabs that still wait for the user, and the ports of both
  flows admit one listener each.

`forsaken`, `malForsaken` and `spoilt` are histories of losses: a response that was lost, a rolled back run, a token that
was presented twice, a successor that stayed in an agent's sandbox, a write that was cut off. One more is not a history but
a case of `CredentialUsable`: of two runs that read the same stale token, one gets a new token and commits, and the other, which
was given none, stores the old token over it. `CredentialUsable` and `LoginUsable` say that the stored credential and the
stored login are dead in these cases only; `FallbackSafe` is the former without its last case, as a plan in the
repository claims, and `KeptToken.cfg` (section 13) shows that it fails when nothing else does.

| Run | Instance | Shows |
|---|---|---|
| `Credentials` | 2 runs with their agents, 2 commands of all five kinds between them, 3 tokens, 1 ageing, every fault, fairness | `CredentialUsable`, `LoginUsable`, `CommandsEnd` |

Two runs and two commands are the least that share a token or the file; the third token is the successor of a successor. Of the
second run and the two commands one does not begin (`Rests` in `MCMalCli`): two runs meet a command, and two commands a run, but not two and two
at once. A command waits for a run only at the row's lock, and whichever run has it must commit first, so that `CommandsEnd` has its
hard cases there; and a run that has read nothing shares with a command only the row, which one command writes as well as two. A second
run that ends with nothing may begin and end once the first is over.
Fairness is weak and on progress as a whole: some command, request or run that can go on does. Listeners give up after five minutes,
requests return, runs end after an hour; users, browsers and faults owe nothing.

## 8. Docker sandboxes and the driver

`HarnessDriver.tla` models the inside of a sandbox: `script` is where `lifecycle.sh` or the driver is, `flight` the log
requests under way (`pendingLogSends`), which arrive in any order or not at all. `DockerSandbox.tla` extends it by the
service and the steps of `processTask` around it.

* `memo` is the memoised promise of the network, `network` whether Docker has it; another process may
  create it between the listing and the creation (409).
* A step is what JavaScript runs between two requests to Docker. Any request may be refused, once (`MaxFaults`). `stop` are the calls of
  `stopSandbox`, by the run and by `stopAllSandboxes`, which inspect, stop and remove on their own.
* `abandoned` is the wait that lost against the timeout. It goes on and removes the container when that ends; whichever
  removal comes second is rejected. `processTask` takes a rejection during the wait for a failure, so that an agent that finished may be reported
  as failed, never the other way round.
* A crash leaves containers running, and nobody looks for them afterwards (`spoilt`).
* The driver may die before its script (`DriverDies`): what it has sent may still arrive, and the script, another process,
  goes on with a code that is not 0.

`SandboxContract.tla` is the abstract specification: created, started once, removed only when it does not run, `completed` only
for an agent that was started and finished with 0 and whose sandbox is gone. The refinement mapping is from the states
of containers.

| Run | Instance | Shows |
|---|---|---|
| `DockerRun` | 2 runs, one of them with output, 1 fault of any kind | `NothingLeft`, `LogsPrecedeExit`, `NetworkSound`, implements `SandboxContract` |

Two runs share the network's promise and the shutdown; one chunk of output is enough to be overtaken by the report of the end. One fault
is one refused request, lost log request, dead driver, crash or signal at any point; with a second the histories
excuse nearly everything.

## 9. Git and forges

`Forge.tla` is the remote: `remote` maps each branch to the set of its commits, `requests` are the merge requests.
It has the two clients, the adapters over them and the tools of `forge-mcp-handlers` that read state, as operators.
A list is its first page, the newest requests first (`FirstPage`), because neither client asks for a page or follows the link to the
next; and GitHub, which knows no merged state, is asked for the closed requests, of which the adapter keeps the merged.

`GitWorkflow.tla` extends it by runs, each with a clone in a directory named after it, and by the attempts at each run: the
deliveries of its job. A later attempt finds the clone of an earlier one, and works in it beside an earlier one that has lost its
lock (`lost`) or whose agent has outlived the server (`"orphan"`); `Shared` says that this has happened to a run's clone.

* `repo` is a clone: the branch checked out, local and tracking branches, the remote's URL with or without the token, and edits.
  `pc` goes from the checkout over the agent to commit, push, merge or request, one step per git command or forge request.
* The agent may commit, edit and leave another branch checked out; the push is of whatever branch that is.
* People push to the primary branch and to task branches and merge or close requests. A push that is not a fast forward is refused.
* A fault is an error of a command, a lost answer, a lock that expires under a live attempt, or the death of the server, which the
  agents' sandboxes may survive. In a clone that two work in, any command may fail without a fault of its own (`Trips`).

| Run | Instance | Shows |
|---|---|---|
| `Git` | 3 attempts at 2 runs of one task, the three completion actions, pages of one, 1 fault, in three corners (`MCGitWorkflow`) | `Delivered`, `TokenInUseOnly`, `AnswersTrue` |

* `OneRunAlone`: one attempt among up to 3 merge requests and 4 commits, without a fault. Three requests are the least of which a page of one leaves out
  requests of the state asked for and of another.
* `RunAgain`: two attempts at one run, which the fault brings together in its clone: a lock that expires, or a server that dies and leaves an agent.
* `RunBeside`: an attempt at each of two runs of one task, as a restarted or a failed first run gives; with a fault each can find what the other left at
  the remote.

In the last two there is 1 merge request at most, and commits and requests are 3 together: one by each attempt and one by people. Attempts and runs are
alike, so that the first attempt is always the same.

What is not so is in the properties. Where two work in one clone, `Delivered` says nothing: one may push what the other committed, or delete its
branch. Nor is the token hidden from an agent there: the surviving one finds it while the new attempt fetches, and
`TokenInUseOnly` says that it finds it in no other clone. `AnswersTrue` says that a list leaves out none that is newer than one it has, and none
at all when those the forge was asked for fit on a page; beyond that a list has no sign that there is more.

Deletion of branches, comments, jobs and their logs are not in the module.
A commit made in a redelivered run's clone may build on a primary branch that was merged locally and never pushed; `Delivered` holds of it too,
because the run is called successful only when its own push was accepted.

## 10. Settings and the projects API

`ProjectSettings.tla` models one project, a task and a workspace: `rows` are the five settings (three levels of the harness, two of the
sandbox type), `project` the row with host, repository and token. A request is a transaction at READ COMMITTED: its
statements are steps, and a writer waits for another that holds the row (`lock`) or, with an insert, is told of the violated
unique index. `StaysUnderForge` and `AnsweredIsStored` are about the commit against what the request read and answered.

A repository's address is a forge and a path of segments. `buildHttpsRepositoryUrl` takes the forge's own sub-path off the path and puts the
path under the forge (`BasePath`); it throws when no path is left or the forge is not under HTTPS. The API's schema keeps
such forges out of bodies, but rows older than it may have one (`OldHosts`), which `projects/projects-handlers.ts:49` mentions; a
request about such a project and a run of it then fail (`ValidatesPatch`, `RunChecksOut`).

A run reads the sandbox types, checks its workflow, and reads the three harness settings in separate statements
(`RunReads`), then prepares with the credential it finds: between any two of these a request may
commit, or the owner disconnect Codex.

Creation stores the token it is given without trying it; the two tests of a connection are requests of their own. Deletion of a project that has a token is refused by the foreign key, which has no `ON DELETE`.
Access checks are reduced to whether the project exists. The workspace's bootstrap reads before it inserts and has nothing to be
unique about, so two at once make two workspaces, which breaks no property here.

| Run | Instance | Shows |
|---|---|---|
| `Config` | 2 requests, a run, 2 harnesses (OpenCode and one with a credential), 3 forges (at a sub-path, at none, not under HTTPS), 2 paths, symmetry, in two corners (`MCProjectSettings`) | `RunIsEquipped`, `AnsweredIsStored`, `StaysUnderForge` |

In the corner `Stays` the project stays at one forge and path, and the requests and the run are about all the settings; in `Moves` the requests move
the project between the forges and paths, and the only setting is the project's, which is OpenCode or nothing. Addresses and settings meet in the project's row, which both corners write,
and in the check a run makes of the address before it reads the harness.

OpenCode is the one harness that starts without a credential of its own and Codex the one whose credential can go, so
two harnesses give every combination of a model and a credential that do not fit. Of the two paths one is all sub-path for the
forge that has one, so that every exception of the address is met; two requests are the least of which one moves the project
between the other's read and its write.

`StaysUnderForge` leaves out that case: the later request then writes an address under the forge it read. Nobody uses the forge in a
stored address, since git, the forge tools and the API all rebuild the address from the forge of the row; what remains of it is the
sub-path of the old forge, in front of the path.

## 11. The browser tab

`WebClient.tla` composes three parts which share no variable: the workspace settings dialog, the pages
of projects, and the connection test of the dialog that edits one.

* `SettingsDialog`: the two stored values, the tab's two queries, the form and the two requests of a save. A save that does not touch the
  sandbox type sends what the query holds, null if it has not answered. Answers land whenever; the dialog closes on success
  also when it has been reopened meanwhile.
* `ProjectPages`: the cached list with its fetch, the event stream, the address, the selected project and the two dialogs. React's effects run
  before anything else reaches the tab (`Unsettled`). The user has one request at a time on these pages.
  `lost` is a history of why another page may be shown than the one chosen: a list without it came, or `ProjectPage` redirected.
* `ConnectionTest`: the repository fields, the test on the server (the forge's API, then git), its verdict, and the stored project
  that others change under it. `late` marks a verdict on fields that were changed while the test ran.

| Run | Instance | Shows |
|---|---|---|
| `Client` | 2 projects, 2 saves, 3 acts, 2 entries, 2 tests, 1 change by others and 1 fault in each part, symmetry | `ClosedMeansSaved`, `UntouchedKept` (settings), `ChosenIsShown`, `EditsSurvive`, `SavesWhatIsListed` (pages), `VerdictFits` (test) |

`MCWebClient` lets one part move while the others are as they began: without shared variables, behaviours of one beside other
states of the rest show nothing new. Two saves are a dialog reopened while its first save is under way; three acts
are choosing, opening and saving. Left out are the Back button, the dialogs of tasks beyond
`TaskBoard`, sign-in and its gate, the administration page, and layout.

## 12. Deployment

`Deployment.tla` models the script that a webhook starts, and what it changes on the host: the version file, the link
`current`, the artifacts of each version's base (`base`), and the server's container. Each command that can fail is a step with both
outcomes, and the script can be killed before and after any (`Killed`), in the middle of a copy as well. `set -e` is
off inside `if deploy`, which the model follows: what the script does after a failure is what its `||` says.
Invocations that find the lock taken are refused. The migrations of the base run inside `Up`.

| Run | Instance | Shows |
|---|---|---|
| `Deploy` | 4 invocations, 2 versions, any failure, symmetry | `HostAgrees` |

Four invocations: one that deploys, one refused meanwhile, one that breaks half way, one that repairs or rolls back. Local file
operations (`install`, `ln`, `mv`, `printf`) are taken to succeed; containers that restart after a deployment are not modelled.

## 13. Findings

| Run | The source says | The code does |
|---|---|---|
| `StaleExitCode` | `sandbox/vm/VmSandboxService.ts:683-684`: without a file the run did not finish | the file of an attempt whose server died is still there for the next attempt, which reports it |

More disagreements have a configuration for TLC by hand (`tlc -config <name>.cfg <module>`), beside the runs of `PROJECT.json`. Each ends in a
counterexample:

| Configuration | Module | Instance | Shows |
|---|---|---|---|
| `StateDiagram` | `MCRunOrchestration` | 1 task, 2 runs, 2 requests, no faults | `runs/RunsService.ts:75-81` lets a run fail only when it is in progress; a pending run whose claim violates the unique index is marked as failed |
| `TerminalState` | `MCRunOrchestration` | 2 tasks, 4 runs, 1 start, an outage | in the same diagram no arrow leaves failed; `updateRunState` checks what it read and updates by id, so that a claim overwrites a failure that a shutdown wrote in between |
| `KeptToken` | `MCMalCli` | 2 runs, no commands, no faults | `src/.cursor/plans/claude-code-oauth-via-mal-cli_a7f31c52.plan.md:195` says falling back on the stored refresh token is safe; of two runs with one stale token the one without a new token stores the old one over the other's |
| `TokenLeft` | `MCGitWorkflow` | 1 run, 1 delivery, 1 fault | `src/docs/decisions/forge-authentication.md:15` says the URL without the token is restored after every operation; not when the server dies in one, nor when `set-url` fails |
| `EmptyList` | `MCGitWorkflow` | 1 run, 2 merge requests, pages of one, no faults | `forge/forge-mcp-handlers.ts:73` says the list is filtered by state; GitHub's merged requests are filtered from the first page of the closed ones, which may have none |
| `PartialSave` | `MCWebClient` | as `Client`, but nobody else writes settings | `src/apps/frontend/app/components/workspaces/WorkspaceConfigDialog.tsx:117-118` says a failed save is handled by keeping the dialog open; when the name was stored, its answer refills the form: the dialog stays open, with the error, but without the sandbox type that was refused |
| `OneActiveRun` | `MCRunOrchestration` | 2 tasks, 4 runs, 3 requests | `runs/RunsService.ts:41` says at most one of pending and in progress per task; the index is on `(task_id, state)`, and start, stop, start gives a task one of each |
| `ShutdownVm` | `MCRunExecution` | 1 delivery, a signal | `index.ts:36` says all running sandboxes are torn down; one under creation when the list is taken is started after that |
| `BoardInSync` | `MCTaskBoard` | 2 writers, no faults | `src/apps/frontend/app/lib/live-events/LiveEventsProvider.tsx:17-21` says events keep the board in sync, and opening the stream catches up; an event goes out before its commit, and a fetch replaces newer patches |
| `SubtasksAppended` | `MCTaskBoard` | 2 calls of the subtask tools | `tasks/tasks-mcp-handlers.ts:178` says the subtask is appended; of two calls at once the later write drops the earlier subtask |

Behaviour the models have that no run lists as a violation, because the repository promises nothing else:

* a pending run whose `queueRun` was lost stays pending over a restart (section 3);
* a network promise that was rejected once fails every later Docker sandbox until the process restarts;
* a container whose inspection fails after its creation is left until the shutdown;
* a second run of a task whose branch has moved on fails at its push;
* an agent that outlived the server finds the token in its clone while the next attempt fetches (section 9);
* an agent that exchanges the refresh token in its sandbox leaves the stored one dead (section 7);
* of two updates of a project, one of which moves it off a forge at a sub-path, the later can leave that sub-path in the address (section 10);
* a save of the workspace settings before the sandbox query has answered resets the type to the default;
* a redeployment of the version in use replaces the files of the base under `current` in place.

## 14. What is proved

The proofs hold for every number of tasks, runs, requests, slots, attempts, writers, invocations and versions and for every set
of faults except where a theorem says otherwise. They assume only the named assumptions on constants: bounds are natural numbers, and
`NoTask`, `NoRun`, `NoSlot`, `NoAttempt` and the other null values are not elements of the sets they complement; a task's branch is neither
`main` nor `master` (`git/task-branch-name.ts` makes it of short code, number and title); the harnesses are those of `agentHarnessIdSchema`; and
`/home` and the administration are no project's page.
Every safety invariant and action property that a passing run checks is the statement of a theorem. Some proof
modules serve two components: `RunExecutionProofs` has the settings a run is given, too, and `ClientProofs` the task board and the browser tab.

* `TypeCorrect` in each module for its component (in `ClientProofs` for `TaskBoard`), and `RunExecutionProofs!SettingsTypeCorrect`: the
  type invariants, one step per action.
* `RunOrchestrationProofs!CompletedRuns`: a completed run belongs to a completed task.
  The property is not inductive: a slot at `completeWrite` writes `completed` without looking at the
  task again, and an insert could give the run of a slot another task. `CompletionInv` adds that such a
  slot's task is done, and that every job, slot and pending `queueRun` names a run that was inserted, so that an
  insert never touches it. The proof goes action by action; the lemma `SlotKeepsCompletion` covers those that
  only move a slot.
* `RunOrchestrationProofs!ProcessingWorks`: a project that processes has a run that is not over, or a callback to come, until the process
  ends. `ProcessingInv` adds that a stop never writes a state in which the project processes, although it decided on the state before.
* `RunOrchestrationProofs!NobodyOrphaned`: a run that is not over has a `queueRun` to come, a job, or somebody who marks it as failed, until
  the process ends. It assumes `Carried`, no refused jobs and no locks that expire under a live attempt: TLC finds a run without anybody
  under either. `CarryInv` adds that the run of a slot that leaves its job is over. It rests on `JobInv`, which needs only that locks
  hold (`LocksHold`): a run's job is active exactly while one slot holds it, and a run that a `queueRun` still owes has no job.
* `RunOrchestrationProofs!OneExecution` and `RunOrchestrationProofs!RefinesLifecycle`: one execution per task, and every step of the run
  loop maps to a step of `RunLifecycle` or a stutter. Both assume `Steady`: no lock expires under a live job and no shutdown marks
  runs that execute, since either lets one run have two writers; crashes and refused jobs are allowed.
  `MarkInv`: whoever marks a run as failed does so after its job is over, and alone. `ClaimInv`: a run stays claimed while a slot executes
  it. With these a slot that claims, completes or fails
  is the only one to write its run (lemma `SlotAlone`), and the index admits no second claimed run of a task (`SlotKeepsClaims`).
  `RefusedInv` is about `FailUnclaimed`: whoever is to mark a pending run as failed does so of one whose task has another run that was claimed, or whose job was given up.
* `RunOrchestrationProofs!TerminalStates`: under `Steady`, no step changes a completed or failed run. It follows from the refinement, as no
  step of `RunLifecycle` leaves a terminal state; that the code does otherwise under a shutdown is shown by `TerminalState.cfg` (section 13).
* `RunExecutionProofs!NoLeak`: nothing of an attempt that is over is left. `LeakInv`
  adds that an attempt has no VMM before it spawns it, that only attempts that boot, wait or stop
  have a registered sandbox, and that one that stops a registered sandbox has a stop under way;
  without the last, an attempt could pass `Stopped` with its sandbox still known.
* `RunExecutionProofs!NoStaleToken`: the token store never holds the token of an attempt that is over;
  inductive with type correctness.
* `RunExecutionProofs!DriverAccepted`: `TokenInv` drops the state of the VM from `DriverAuthenticated`: an attempt that boots or waits
  alone has its token stored.
* `RunExecutionProofs!OutcomeTrue`: an attempt that is alone reports what its agent did. `OutcomeInv` follows the exit code: a guest
  finished only if it wrote its code, the file has a zero only from a guest that finished, and while the server is up the file
  of a finished guest is there until the attempt has read it.
* `RunExecutionProofs!RunEquipped`: a run that starts has a model its harness offers and, but for OpenCode, a credential, whatever was set or disconnected while
  it read its settings. `SettingsInv` says of every harness setting that is stored, about to be stored or read so far that its model is its
  harness's own (`Offered`): the three reads may see three different times, but each is of a setting that fits by itself, and the run
  takes harness and model from the same one.
* `RunExecutionProofs!AnswersAreStored`: the setting a request is answered for is in force at its commit. `RequestFits`, the part of
  `SettingsInv` about requests, says that one with something to commit holds the lock of its row, so that no other has written the row since.
* `RunExecutionProofs!UnderForge`: an answered update that gives a forge or a path leaves the repository under the project's forge, unless another
  moved the project to another forge in between; whatever sub-paths the forges have, and whichever are not under HTTPS. `UrlIsBuilt` says
  that an address is built under the forge it is built for, and `PatchFits`, a part of `RequestFits`, that an update's address is of the
  forge it gives or, if it gives none, of the one it saw.
* `TaskQueueProofs!Numbers`: the numbers are 1, 2, 3 and so on without a gap or a duplicate. `NumberInv` adds
  that whoever has taken a number holds the lock and that the number is the counter's, so that two
  requests cannot be between reading the counter and committing it.
* `TaskQueueProofs!FirstInFirstOut`: tasks that nobody moved stay in the order of their numbers.
  `OrderInv` adds that a request about to insert has seen every unmoved open task where it still is:
  it took the lock before it looked, so nobody inserted since.
* `TaskQueueProofs!MovesAreMade`: a move lands where it was asked, relative to the tasks that are still where it
  saw them. It needs `SeenInv` (a move that is to write has seen its neighbours) and the lemmas
  `EndsBeyond` and `MidpointBetween` about the places that are computed.
* `ClientProofs!Completion`: a task that is completed stays so. `LockInv` adds that whoever has a new row
  in memory holds the row's lock, and that a lock belongs to such a request; a row therefore does not change between
  `Writes` and `Commits`, and a new row built on a completed one is completed.
* `ClientProofs!BoardCurrent`: `BoardIsCurrent` for any number of tasks and writers. `NewsInv` is about the last event
  of a task on the wire, or the list if there is none: it shows the newest row, that is the one published last even if it has
  not committed, unless the task is stale, is still to be announced, or is about to be fetched. Its proof rests on how
  each kind of step changes the newest row (`UnlockedStep`, `WritesStep`, `ActiveStep`, `EndStep`) and on
  two lemmas about events in a sequence (`AppendNews`, `TailNews`).
* `ClientProofs!ChosenStaysShown`: `ChosenIsShown` for any projects and any number of acts, changes and faults. `ChoiceInv` drops that the
  effects have run: unless the page was lost, the address is the chosen project's, the list has it once it has anything, and where
  `ProjectPage` is about to redirect, the first project is the chosen one. The lemma `SettledIs` adds the selection, for a page whose effects have run.
* `ClientProofs!TypedSurvives` and `ClientProofs!SendsWhatIsListed`: what is typed outlives the news of runs, and a save is of what the list
  shows. By `ListInv`: the form of an edit remembers the settings it was filled from, and an edit, or a request about a project,
  is only there once the list is.
* `ClientProofs!VerdictIsOfTheFields`: `VerdictFits`. `TestInv` follows a test through the API and Git: it has a token, the API has let it
  in before Git is asked, and it is about the fields unless they changed.
* `ClientProofs!NothingIsHidden` and `ClientProofs!TypeIsKept`: the settings dialog. `SandboxInv` says that the
  cache, a query and a save that left the type alone all have the stored type until a change by others overtakes them.
* `DeploymentProofs!HostConsistent`: `HostAgrees` for any number of invocations and versions. `HostInv` adds that only the holder
  of the lock has anything under way, and `Works`, which says for each place of the script what has been achieved so far: which artifacts are whole,
  where the link points and what runs.
* `DockerSandboxProofs!Cleaned`: `NothingLeft` for any number of attempts and faults. `PlaceInv` says what an attempt has made by the
  place it is at (no container before the network is known, one that the service knows from the inspection on), `ExitInv` that a
  container that exits with 0 has an agent that did. `StopInv` is the heart: a stop that is about to remove a container has seen it end, and
  once the shutdown has listed the containers nobody starts one any more.
* `DockerSandboxProofs!LogsFirst`: `LogInv` says that every chunk of output so far was accepted, lost or is under way, and
  that nothing is under way once the script exits.
* `DockerSandboxProofs!NetworkFound`: inductive with type correctness.
* `DockerSandboxProofs!KeepsContract`: the Docker service implements `SandboxContract`. Most steps leave containers, agents and
  verdicts as they are; `Speaks` takes those that only give an attempt its verdict, `Clears` and `Halts` a container that is removed
  or ends. What a step of the contract demands of the verdict so far comes from `PlaceInv`, and that a success is reported of an agent
  that finished from `ExitInv`.
* `MalCliProofs!CredentialKept` and `MalCliProofs!LoginKept`: the stored credential and the stored login, for any number of runs, agents, commands and
  tokens. `CredentialInv` adds that a new token a run has obtained and not committed, or a command and not sent, is alive or counted as lost, is not
  the stored one, and is in nobody else's hands, so that no other refresh can retire it; and of a run that kept its token, that the token is alive,
  counted as lost, or has a successor with another run. `IssuedInv` adds that nobody holds a token that was not issued, so
  that the next one is new; `RequestInv` that a command sends one request, so that its token is not upserted twice.
  `LoginInv` and `LoginIssuedInv` say the same of the file and the commands that are to write it.
* `GitWorkflowProofs!TokenInUse`: the token is in a clone's configuration only while a git operation of the server at that run needs it, or where the
  process died in one or the configuration could not be written; and an agent finds it only where two have worked in its clone. `AloneInv` adds that of
  two attempts at one run that are under way one has lost its lock; so where nobody has, and no agent is left over, the
  attempt's own operations are all that touch its clone (lemma `OthersRest`).
* `GitWorkflowProofs!DeliveredStays`: the work of a run that completed is at the forge, in the primary branch or behind a merge request, unless
  two have worked in its clone. It assumes `OnePrimary`: where `master` is the primary branch, no branch of another place is `main`, for the
  code takes a `main` for the primary branch when it finds one. `PrimaryInv` says that a clone knows the primary branch and which branch can be checked
  out; `OnItsWay`, step by step from the commit to the end, where the commit of the run is, which no other run, person or redelivered job removes
  from a branch of the forge (histories there only grow).
* `GitWorkflowProofs!AnswersAreTrue`: what the forge tools tell an agent is so, for any requests and any size of a page. `PageNewest` says what a page
  has, by counting: of two requests on the same list the older is on the page only if the newer is, and all are when they fit;
  `PageTrue` that a list made of a page of what was asked for, less what is not wanted, has the property; `PullRead` what the adapter makes of
  GitHub's answers.

Every strengthened invariant was checked by TLC before it was proved: `CompletionInv`, `ClaimInv`, `JobInv`, `CarryInv`, `RefusedInv` and
`ProcessingInv` (on `RunLoop.cfg`, with a crash, refused jobs and a shutdown where the theorem allows them), `LeakInv`, `OutcomeInv`,
`TokenInv` (on `Execution.cfg`), `SettingsTypeOK` and `SettingsInv` (on `Config.cfg`), `AloneInv`, `PrimaryInv` and `DeliveryInv` (on `Git.cfg`), `TestInv`,
`SandboxInv`, `ListInv` and `ChoiceInv` (on `Client.cfg`; of `ListInv` all but that lists are sequences), `NumberInv`, `OrderInv`, `SeenInv`,
`LockInv`, `NewsInv`, `HostInv`, `PlaceInv`, `StopInv`, `ExitInv`, `LogInv`, `CredentialInv`, `IssuedInv`, `LoginInv`, `LoginIssuedInv`
and `RequestInv` on the runs of their modules; put in place of a cfg's invariants they can be checked again.

Only model-checked: liveness (`EveryRunEnds`, `ProcessingEnds`, `ExecutingRunEnds`, `EveryAttemptEnds`, `ReopenCatchesUp`, `CommandsEnd`), which is out of
the prover's reach, and what the theorems about the run loop exclude: under the faults that `Carried` and `Steady` name,
`RunFaults` checks that a run that executes ends. `ClientTypeOK` is stated for the reader; the proofs about the tab need only the shapes in `ListInv`, `DialogInv`
and `TestInv`.

## 15. Not modelled

`PROJECT.json` has the status of each component. Left out for good:

* encryption, which is calls of a library, and development scripts;
* argument lists and file contents of the harnesses, and the paths of images: pure construction;
* the migrations at startup, which run before anything else does;
* sign-in, sessions and memberships, which are Better Auth's and single-transaction reads; the administration, whose clearing of the queue deletes jobs and
  leaves their runs pending, as a lost `queueRun` does;
* forge tools that relay an answer (comments, jobs, logs);
* logging, the streaming of container logs, heartbeats, rendering and the component library.
