------------------------------ MODULE TaskBoard ------------------------------
(***************************************************************************)
(* What the users and the agents do to the tasks of one project, and what  *)
(* one browser shows of them: requests that edit rows, the task.updated    *)
(* events they publish, the event stream, and the task list in the         *)
(* client's cache, which events, responses and fetches all write to.       *)
(*                                                                         *)
(* Of a task there is what these writers contend for: its title (with the  *)
(* description), its subtasks, completion and active run.  A value of      *)
(* title, or a subtask, is named for the writer it comes from.  The order  *)
(* of the tasks is the subject of TaskQueue.                               *)
(***************************************************************************)
EXTENDS Integers, Sequences

CONSTANTS
    Tasks,       \* the tasks the project ever has (a bound)
    Writers,     \* requests, tool calls and state changes of runs, each at most once (a bound)
    Kinds,       \* what these may be
    Faults,      \* subset of {"rollback", "drop"}
    MaxDrops,    \* how often the stream breaks (a bound)
    Nobody, Absent, NotLoaded

ASSUME KindsAssumption ==
    Kinds \subseteq {"create", "put", "complete", "move", "tool", "update", "add",
                      "finish", "run"}
ASSUME FaultsAssumption == Faults \subseteq {"rollback", "drop"}
ASSUME DropsAssumption == MaxDrops \in Nat
ASSUME NullAssumption == Nobody \notin Writers /\ Absent \notin Tasks

VARIABLES
    row,         \* committed rows of the tasks table
    run,         \* the active run of each task in the runs table
    lock,        \* the transaction that has updated a row and not ended
    tx,          \* the requests and what they hold in memory
    connected,   \* whether LiveEventsService has the client's subscriber
    wire,        \* events sent to it and not handled yet
    board,       \* the client's task list
    fetch,       \* its GET of the tasks
    stale,       \* history: the last news of a task was not the newest (see BoardIsCurrent)
    drops

table  == <<row, run, lock>>
client == <<board, fetch>>
stream == <<connected, wire, drops>>
vars   == <<table, tx, client, stream, stale>>

Row == [title : Writers \cup {Nobody}, subtasks : SUBSET Writers, done : BOOLEAN]

\* toTaskDto: no active run is shown for a completed task.
Dto(r, state) == [title |-> r.title, subtasks |-> r.subtasks, done |-> r.done,
                  run |-> IF r.done THEN "none" ELSE state]

\* What GET returns of a row: incomplete tasks only.
Listed(r, state) == IF r = Absent \/ r.done THEN Absent ELSE Dto(r, state)
Table == [t \in Tasks |-> Listed(row[t], run[t])]

\* The row as the last handler published it, which may not have committed yet.
Latest(t) ==
    IF lock[t] # Nobody /\ tx[lock[t]].pc = "published" THEN tx[lock[t]].new ELSE row[t]
Newest == [t \in Tasks |-> Listed(Latest(t), run[t])]

\* What an event makes of a task in the list.
Shown(d) == IF d.done THEN Absent ELSE d

Opened    == [task |-> Absent, dto |-> Absent]
OnWire(t) == \E i \in DOMAIN wire : wire[i].task = t
Opening   == \E i \in DOMAIN wire : wire[i] = Opened

NoList == [t \in Tasks |-> Absent]
Idle   == [pc |-> "idle", rows |-> NoList, list |-> NoList]
Asked  == [Idle EXCEPT !.pc = "asked"]

NewTx == [pc |-> "new", kind |-> "none", own |-> FALSE, task |-> Absent, read |-> Absent,
          new |-> Absent, state |-> "none", previous |-> NotLoaded]

\* A request that is over, or failed, lets go of what it held.
Ended(w, pc) ==
    [NewTx EXCEPT !.pc = pc, !.kind = tx[w].kind, !.task = tx[w].task,
                  !.previous = IF pc = "failed" THEN tx[w].previous ELSE NotLoaded]

Init ==
    /\ row \in [Tasks -> {Absent, [title |-> Nobody, subtasks |-> {}, done |-> FALSE]}]
    /\ run = [t \in Tasks |-> "none"]
    /\ lock = [t \in Tasks |-> Nobody]
    /\ tx = [w \in Writers |-> NewTx]
    /\ connected = FALSE /\ wire = <<>> /\ drops = 0
    /\ board = NotLoaded /\ fetch = Asked
    /\ stale = [t \in Tasks |-> FALSE]

-----------------------------------------------------------------------------
\* The client's list after task t is patched with dto d.

\* applyTaskUpdated; without a list, one of this task only.
Applied(t, d) ==
    IF board = NotLoaded
    THEN IF d.done THEN NotLoaded ELSE [NoList EXCEPT ![t] = d]
    ELSE [board EXCEPT ![t] = Shown(d)]

\* mergeTaskIntoTasksList
Merged(t, d) == [(IF board = NotLoaded THEN NoList ELSE board) EXCEPT ![t] = d]

\* onSuccess of updating and completing: only a task in the list is replaced.
Replaced(t, d) == IF board # NotLoaded /\ board[t] = Absent THEN board ELSE Merged(t, d)

\* publish: to the subscriber, if there is one.  r is the newest row of the task then.
Announces(t, d, r) ==
    /\ wire' = IF connected THEN Append(wire, [task |-> t, dto |-> d]) ELSE wire
    /\ stale' = [stale EXCEPT ![t] = Shown(d) # Listed(r, run[t])]

-----------------------------------------------------------------------------
\* The user opens a task's dialog, in this browser or in another.
OpensDialog(w) ==
    /\ "put" \in Kinds /\ tx[w].pc = "new"
    /\ \E t \in Tasks, own \in BOOLEAN :
        LET shown == IF own THEN (IF board = NotLoaded THEN Absent ELSE board[t])
                     ELSE Listed(row[t], run[t])
        IN /\ shown # Absent
           /\ tx' = [tx EXCEPT ![w] = [@ EXCEPT !.pc = "opened", !.kind = "put", !.own = own,
                        !.task = t, !.read = [title |-> shown.title, subtasks |-> shown.subtasks,
                                              done |-> shown.done]]]
    /\ UNCHANGED <<table, client, stream, stale>>

\* The subtask tools read the task first.
ToolReads(w) ==
    /\ tx[w].pc = "new"
    /\ \E t \in Tasks, kind \in {"tool", "update"} \cap Kinds :
        /\ row[t] # Absent
        /\ tx' = [tx EXCEPT ![w] = [@ EXCEPT !.pc = "opened", !.kind = kind, !.task = t,
                                             !.read = row[t]]]
    /\ UNCHANGED <<table, client, stream, stale>>

\* The user drags a task: onMutate cancels a fetch in flight and keeps the list as it was.
Drags(w) ==
    /\ "move" \in Kinds /\ tx[w].pc = "new" /\ board # NotLoaded
    /\ \E t \in Tasks :
        /\ board[t] # Absent
        /\ tx' = [tx EXCEPT ![w] = [@ EXCEPT !.pc = "opened", !.kind = "move", !.own = TRUE,
                                             !.task = t, !.previous = board]]
    /\ fetch' = Idle
    /\ stale' = [t \in Tasks |-> IF fetch.pc = "idle" \/ OnWire(t) THEN stale[t] ELSE TRUE]
    /\ UNCHANGED <<table, board, stream>>

\* The first update of a transaction waits for the row, and keeps it until the end.
Writes(w, t, request) ==
    /\ lock[t] = Nobody
    /\ lock' = [lock EXCEPT ![t] = w]
    /\ tx' = [tx EXCEPT ![w] = [request EXCEPT !.task = t, !.read = Absent]]
    /\ UNCHANGED <<row, run, client, stream, stale>>

\* Mutant: the tool writes the row as it has read it.
ToolWritesRow(w) ==
    /\ tx[w].pc = "opened" /\ tx[w].kind = "tool"
    /\ Writes(w, tx[w].task, [tx[w] EXCEPT !.pc = "written",
                                 !.new = [tx[w].read EXCEPT !.subtasks = @ \cup {w}]])

\* Title, description and the whole array of subtasks go back as they were read.
ToolWrites(w) ==
    /\ tx[w].pc = "opened" /\ tx[w].kind = "tool"
    /\ Writes(w, tx[w].task, [tx[w] EXCEPT !.pc = "written",
                                 !.new = [row[tx[w].task] EXCEPT
                                             !.title = tx[w].read.title,
                                             !.subtasks = tx[w].read.subtasks \cup {w}]])

\* The other tool replaces one of the subtasks it has read.
ToolUpdates(w) ==
    /\ tx[w].pc = "opened" /\ tx[w].kind = "update"
    /\ \E s \in tx[w].read.subtasks :
        Writes(w, tx[w].task, [tx[w] EXCEPT !.pc = "written",
                                 !.new = [row[tx[w].task] EXCEPT
                                             !.title = tx[w].read.title,
                                             !.subtasks = (tx[w].read.subtasks \ {s}) \cup {w}]])

\* The dialog sends its list of subtasks with the title.
Puts(w) ==
    /\ tx[w].pc = "opened" /\ tx[w].kind = "put" /\ row[tx[w].task] # Absent
    /\ Writes(w, tx[w].task, [tx[w] EXCEPT !.pc = "written",
                                 !.new = [row[tx[w].task] EXCEPT
                                             !.title = w, !.subtasks = tx[w].read.subtasks]])

\* moveTask updates by id what it has found incomplete; the columns here stay as they are.
Moves(w) ==
    /\ tx[w].pc = "opened" /\ tx[w].kind = "move" /\ row[tx[w].task] # Absent
    /\ Writes(w, tx[w].task, [tx[w] EXCEPT !.pc = "written", !.new = row[tx[w].task]])

\* A task that was announced and never committed does not exist; one that is done does not move.
Refused(w) ==
    /\ tx[w].pc = "opened" /\ tx[w].kind \in {"put", "move"}
    /\ \/ row[tx[w].task] = Absent
       \/ tx[w].kind = "move" /\ Listed(row[tx[w].task], "none") = Absent
    /\ tx' = [tx EXCEPT ![w] = Ended(w, "failed")]
    /\ UNCHANGED <<table, client, stream, stale>>

\* Creating and completing publish without looking for an active run.
Creates(w) ==
    /\ "create" \in Kinds /\ tx[w].pc = "new"
    /\ \E t \in Tasks, own \in BOOLEAN :
        /\ row[t] = Absent
        /\ Writes(w, t, [tx[w] EXCEPT !.pc = "built", !.kind = "create", !.own = own,
                            !.new = [title |-> w, subtasks |-> {}, done |-> FALSE]])

Completes(w) ==
    /\ "complete" \in Kinds /\ tx[w].pc = "new"
    /\ \E t \in Tasks, own \in BOOLEAN :
        /\ own => board # NotLoaded /\ board[t] # Absent
        /\ row[t] # Absent /\ ~row[t].done
        /\ Writes(w, t, [tx[w] EXCEPT !.pc = "built", !.kind = "complete", !.own = own,
                            !.new = [row[t] EXCEPT !.done = TRUE]])

LooksUpRun(w) ==
    /\ tx[w].pc = "written"
    /\ tx' = [tx EXCEPT ![w] = [@ EXCEPT !.pc = "built", !.state = run[tx[w].task]]]
    /\ UNCHANGED <<table, client, stream, stale>>

\* The event goes out inside the transaction.
Publishes(w) ==
    /\ tx[w].pc = "built"
    /\ Announces(tx[w].task, Dto(tx[w].new, tx[w].state), tx[w].new)
    /\ tx' = [tx EXCEPT ![w].pc = "published"]
    /\ UNCHANGED <<table, client, connected, drops>>

Commits(w) ==
    /\ tx[w].pc = "published"
    /\ row' = [row EXCEPT ![tx[w].task] = tx[w].new]
    /\ lock' = [lock EXCEPT ![tx[w].task] = Nobody]
    /\ tx' = [tx EXCEPT ![w] = IF tx[w].own THEN [@ EXCEPT !.pc = "committed"] ELSE Ended(w, "done")]
    /\ UNCHANGED <<run, client, stream, stale>>

\* A query or the commit fails; what was published stays published.
RollsBack(w) ==
    /\ "rollback" \in Faults /\ tx[w].pc \in {"written", "built", "published"}
    /\ lock' = [lock EXCEPT ![tx[w].task] = Nobody]
    /\ tx' = [tx EXCEPT ![w] = Ended(w, "failed")]
    /\ stale' = [stale EXCEPT ![tx[w].task] = @ \/ tx[w].pc = "published"]
    /\ UNCHANGED <<row, run, client, stream>>

-----------------------------------------------------------------------------
\* The response reaches this browser, however late.
Responds(w) ==
    /\ tx[w].pc = "committed"
    /\ LET t == tx[w].task
           d == Dto(tx[w].new, tx[w].state)
       IN /\ board' = CASE tx[w].kind = "move" -> board
                        [] tx[w].kind = "create" -> Merged(t, d)
                        [] OTHER -> Replaced(t, d)
          /\ stale' = [stale EXCEPT ![t] =
                IF OnWire(t) \/ board' = board THEN @ ELSE board'[t] # Newest[t]]
    /\ tx' = [tx EXCEPT ![w] = Ended(w, "done")]
    /\ UNCHANGED <<table, stream, fetch>>

\* onError of a move puts the old list back and fetches.
RevertsDrag(w) ==
    /\ tx[w].pc = "failed" /\ tx[w].kind = "move"
    /\ board' = tx[w].previous
    /\ fetch' = Asked
    /\ tx' = [tx EXCEPT ![w] = Ended(w, "done")]
    /\ UNCHANGED <<table, stream, stale>>

-----------------------------------------------------------------------------
\* What the MCP server and the worker do in one transaction and publish in another.
FinishesTask(w) ==
    /\ "finish" \in Kinds /\ tx[w].pc = "new"
    /\ \E t \in Tasks :
        /\ lock[t] = Nobody /\ row[t] # Absent /\ ~row[t].done
        /\ row' = [row EXCEPT ![t].done = TRUE]
        /\ tx' = [tx EXCEPT ![w] = [@ EXCEPT !.pc = "late", !.kind = "finish", !.task = t]]
    /\ UNCHANGED <<run, lock, client, stream, stale>>

AddsTask(w) ==
    /\ "add" \in Kinds /\ tx[w].pc = "new"
    /\ \E t \in Tasks :
        /\ lock[t] = Nobody /\ row[t] = Absent
        /\ row' = [row EXCEPT ![t] = [title |-> w, subtasks |-> {}, done |-> FALSE]]
        /\ tx' = [tx EXCEPT ![w] = [@ EXCEPT !.pc = "late", !.kind = "add", !.task = t]]
    /\ UNCHANGED <<run, lock, client, stream, stale>>

RunChanges(w) ==
    /\ "run" \in Kinds /\ tx[w].pc = "new"
    /\ \E t \in Tasks :
        /\ row[t] # Absent
        /\ \E s \in IF run[t] = "pending" THEN {"in_progress", "none"}
                   ELSE IF run[t] = "none" THEN {"pending"} ELSE {"none"} :
              run' = [run EXCEPT ![t] = s]
        /\ tx' = [tx EXCEPT ![w] = [@ EXCEPT !.pc = "late", !.kind = "run", !.task = t]]
    /\ UNCHANGED <<row, lock, client, stream, stale>>

\* publishTaskUpdatedForTask: the task, then its active run, then the event.
LateReadsTask(w) ==
    /\ tx[w].pc = "late"
    /\ tx' = [tx EXCEPT ![w] = [@ EXCEPT !.pc = "lateRead", !.read = row[tx[w].task]]]
    /\ UNCHANGED <<table, client, stream, stale>>

LateReadsRun(w) ==
    /\ tx[w].pc = "lateRead"
    /\ tx' = [tx EXCEPT ![w] = [@ EXCEPT !.pc = "lateBuilt", !.state = run[tx[w].task]]]
    /\ UNCHANGED <<table, client, stream, stale>>

LatePublishes(w) ==
    /\ tx[w].pc = "lateBuilt"
    /\ Announces(tx[w].task, Dto(tx[w].read, tx[w].state), Latest(tx[w].task))
    /\ tx' = [tx EXCEPT ![w] = Ended(w, "done")]
    /\ UNCHANGED <<table, client, connected, drops>>

-----------------------------------------------------------------------------
\* The server registers the subscriber, then answers; the client sees the stream open.
Connects ==
    /\ ~connected
    /\ connected' = TRUE /\ wire' = <<Opened>>
    /\ UNCHANGED <<table, tx, client, stale, drops>>

\* Events on their way are lost; there is no replay.
Drops ==
    /\ "drop" \in Faults /\ connected /\ drops < MaxDrops
    /\ connected' = FALSE /\ wire' = <<>> /\ drops' = drops + 1
    /\ UNCHANGED <<table, tx, client, stale>>

\* Mutant: the list is not fetched again.
OpensUnfetched ==
    /\ wire # <<>> /\ Head(wire) = Opened
    /\ wire' = Tail(wire)
    /\ UNCHANGED <<table, tx, client, stale, connected, drops>>

\* invalidateOnOpen: a fetch in flight starts over, except the first one.
Opens ==
    /\ wire # <<>> /\ Head(wire) = Opened
    /\ wire' = Tail(wire)
    /\ fetch' = IF fetch.pc # "idle" /\ board = NotLoaded THEN fetch ELSE Asked
    /\ UNCHANGED <<table, tx, board, stale, connected, drops>>

\* Mutant: tasks that are not in the list are not inserted.
ReceivesKnown ==
    /\ wire # <<>> /\ Head(wire) # Opened
    /\ board' = IF board # NotLoaded /\ board[Head(wire).task] = Absent THEN board
                ELSE Applied(Head(wire).task, Head(wire).dto)
    /\ wire' = Tail(wire)
    /\ UNCHANGED <<table, tx, fetch, stale, connected, drops>>

Receives ==
    /\ wire # <<>> /\ Head(wire) # Opened
    /\ board' = Applied(Head(wire).task, Head(wire).dto)
    /\ wire' = Tail(wire)
    /\ UNCHANGED <<table, tx, fetch, stale, connected, drops>>

\* The window is focused or the page opened.
Refetches ==
    /\ fetch.pc = "idle"
    /\ fetch' = Asked
    /\ UNCHANGED <<table, tx, board, stream, stale>>

\* GET: the incomplete tasks, then their active runs.
FetchReadsTasks ==
    /\ fetch.pc = "asked"
    /\ fetch' = [fetch EXCEPT !.pc = "read", !.rows = row]
    /\ UNCHANGED <<table, tx, board, stream, stale>>

FetchReadsRuns ==
    /\ fetch.pc = "read"
    /\ fetch' = [Idle EXCEPT !.pc = "answered",
                             !.list = [t \in Tasks |-> Listed(fetch.rows[t], run[t])]]
    /\ UNCHANGED <<table, tx, board, stream, stale>>

\* The answer replaces the list, whatever has patched it meanwhile.
FetchLands ==
    /\ fetch.pc = "answered"
    /\ board' = fetch.list
    /\ fetch' = Idle
    /\ stale' = [t \in Tasks |-> IF OnWire(t) THEN stale[t] ELSE fetch.list[t] # Newest[t]]
    /\ UNCHANGED <<table, tx, stream>>

-----------------------------------------------------------------------------
Edit(w) ==
    \/ OpensDialog(w) \/ ToolReads(w) \/ Drags(w)
    \/ ToolWrites(w) \/ ToolUpdates(w) \/ Puts(w) \/ Moves(w) \/ Refused(w) \/ Creates(w) \/ Completes(w)
    \/ FinishesTask(w) \/ AddsTask(w) \/ RunChanges(w)

\* What follows by itself once a request has been made.
Goes(w) ==
    \/ LooksUpRun(w) \/ Publishes(w) \/ Commits(w) \/ Responds(w) \/ RevertsDrag(w)
    \/ LateReadsTask(w) \/ LateReadsRun(w) \/ LatePublishes(w)

Browser == Connects \/ Opens \/ Receives \/ FetchReadsTasks \/ FetchReadsRuns \/ FetchLands

Next ==
    \/ \E w \in Writers : Edit(w) \/ Goes(w) \/ RollsBack(w)
    \/ Browser \/ Drops \/ Refetches

Spec == Init /\ [][Next]_vars

\* The server answers and publishes, the EventSource reconnects and the browser handles what it
\* gets; users, agents, faults and focus are not fair.
FairSpec ==
    /\ Spec
    /\ \A w \in Writers : WF_vars(Goes(w))
    /\ WF_vars(Connects) /\ WF_vars(Opens \/ Receives)
    /\ WF_vars(FetchReadsTasks \/ FetchReadsRuns \/ FetchLands)

-----------------------------------------------------------------------------
RowOrAbsent == Row \cup {Absent}
RunStates   == {"none", "pending", "in_progress"}
DtoRecord   == [title : Writers \cup {Nobody}, subtasks : SUBSET Writers, done : BOOLEAN,
                run : RunStates]
List        == [Tasks -> DtoRecord \cup {Absent}]
Message     == [task : Tasks, dto : DtoRecord] \cup {Opened}
ASSUME ListAssumption == NotLoaded \notin List /\ Absent \notin Row
TxRecord    == [pc : {"new", "opened", "written", "built", "published", "committed", "done",
                      "failed", "late", "lateRead", "lateBuilt"},
                kind : {"none", "create", "put", "complete", "move", "tool", "update", "add",
                        "finish", "run"},
                own : BOOLEAN, task : Tasks \cup {Absent}, read : RowOrAbsent,
                new : RowOrAbsent, state : RunStates, previous : List \cup {NotLoaded}]

\* Every table, request, event and cache keeps its shape, and a client without a list is fetching one.
TypeOK ==
    /\ row \in [Tasks -> RowOrAbsent]
    /\ run \in [Tasks -> RunStates]
    /\ lock \in [Tasks -> Writers \cup {Nobody}]
    /\ tx \in [Writers -> TxRecord]
    /\ connected \in BOOLEAN /\ drops \in 0..MaxDrops
    /\ wire \in Seq(Message)
    /\ board \in List \cup {NotLoaded}
    /\ fetch \in [pc : {"idle", "asked", "read", "answered"}, rows : [Tasks -> RowOrAbsent],
                  list : List]
    /\ stale \in [Tasks -> BOOLEAN]
    /\ board = NotLoaded => fetch.pc # "idle"

\* What is needed to show that types are kept: a request has read, and made, a row where it uses one.
RequestInv ==
    \A w \in Writers :
        /\ tx[w].pc # "new" => tx[w].task \in Tasks
        /\ tx[w].pc = "opened" /\ tx[w].kind # "move" => tx[w].read \in Row
        /\ tx[w].pc = "opened" /\ tx[w].kind \in {"tool", "update"} => row[tx[w].task] # Absent
        /\ tx[w].pc \in {"written", "built", "published", "committed"} => tx[w].new \in Row
        /\ tx[w].pc = "late" => row[tx[w].task] # Absent
        /\ tx[w].pc \in {"lateRead", "lateBuilt"} => tx[w].read \in Row

\* Who has made a new row holds its lock, has built it on the row as it is, and nobody else has one.
LockInv ==
    /\ \A w \in Writers : tx[w].pc \in {"written", "built", "published"} =>
            /\ lock[tx[w].task] = w
            /\ row[tx[w].task] # Absent /\ row[tx[w].task].done => tx[w].new.done
    /\ \A t \in Tasks : lock[t] # Nobody =>
            tx[lock[t]].task = t /\ tx[lock[t]].pc \in {"written", "built", "published"}

\* A change of the task has committed and is still to be announced.
Unannounced(t) ==
    \E w \in Writers : tx[w].task = t /\ tx[w].pc \in {"late", "lateRead", "lateBuilt"}

\* A change of the task is announced and not committed, or the other way round.
Unsettled(t) == Unannounced(t) \/ \E w \in Writers : tx[w].task = t /\ tx[w].pc = "published"

Delivered == connected /\ wire = <<>> /\ fetch.pc = "idle"

\* When everything published has been received and nothing is being fetched, the list shows each
\* settled task as the table has it (LiveEventsProvider.tsx:17), unless the last the client got of it was
\* overtaken or undone: an event of a transaction that rolled back; an event built from reads
\* that another writer has overtaken since; a fetch or a response that landed after newer events; or
\* a fetch that a drag cancelled.  stale is set in these cases, and cleared by newer news.
BoardIsCurrent ==
    Delivered => \A t \in Tasks : ~Unsettled(t) /\ ~stale[t] => board[t] = Table[t]

\* Its inductive strengthening: the last event on the wire, or without one the list, has the newest row,
\* unless a fetch is to replace it or the change is still to be announced.
LastShows(s, t, entry) ==
    \A i \in DOMAIN s :
        s[i].task = t /\ (\A j \in DOMAIN s : j > i => s[j].task # t) => Shown(s[i].dto) = entry

NewsInv ==
    /\ ~connected => wire = <<>>
    /\ \A t \in Tasks : ~stale[t] /\ ~Unannounced(t) =>
            /\ LastShows(wire, t, Newest[t])
            /\ connected /\ fetch.pc = "idle" /\ ~OnWire(t) /\ ~Opening => board[t] = Newest[t]

\* The provider's claim without the exceptions.
BoardInSync ==
    Delivered /\ (\A t \in Tasks : ~Unsettled(t)) => board = Table

\* A task that was completed stays completed, whichever edits were under way: the tools write back what they
\* have read, but not that column (DatabaseTaskQueue.ts:123).
CompletedStays ==
    [][\A t \in Tasks : row[t] # Absent /\ row[t].done => row'[t] # Absent /\ row'[t].done]_vars

\* "The subtask is appended to the end of the task's subtask list" (tasks-mcp-handlers.ts:175), until
\* somebody removes it, which nobody does here.
SubtasksAppended ==
    \A w \in Writers : tx[w].kind = "tool" /\ tx[w].pc = "done" => w \in row[tx[w].task].subtasks

\* After a stream has opened again, the list catches up with whatever was missed, if the client has a list
\* and nothing is written meanwhile (LiveEventsProvider.tsx:20-21).
Reopened == board # NotLoaded /\ Opening

Quiet ==
    /\ connected
    /\ \A w \in Writers : tx[w].pc \in {"new", "done"} \/ (tx[w].pc = "failed" /\ tx[w].kind # "move")

ReopenCatchesUp == Reopened ~> (board = Table \/ ~Quiet)
=============================================================================
