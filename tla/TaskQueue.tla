------------------------------ MODULE TaskQueue ------------------------------
(***************************************************************************)
(* The queue of one project: rows of the tasks table with their numbers    *)
(* and positions, under concurrent transactions that add, move and         *)
(* complete tasks (DatabaseTaskQueue and the handlers that call it).       *)
(*                                                                         *)
(* Transactions run at READ COMMITTED: every statement sees what was       *)
(* committed when it began, so each read is a step of its own, and the     *)
(* last write is one step with the commit.  What a transaction has read is *)
(* kept until then.                                                        *)
(*                                                                         *)
(* Positions are double precision numbers; here they are integers, in      *)
(* units of the last bit that a midpoint can have.                         *)
(***************************************************************************)
EXTENDS Integers, FiniteSets

CONSTANTS
    Tasks,       \* the tasks the project ever has, each added by one request (a bound)
    Moves,       \* requests to move a task, each at most once (a bound)
    Gap,         \* POSITION_GAP in units: a double halves it some 45 times before it is 1
    NoTask, NoPosition

ASSUME GapAssumption  == Gap \in Nat \ {0}
ASSUME NullAssumption == NoTask \notin Tasks /\ NoPosition \notin Int

VARIABLES
    number,      \* tasks.task_number, 0 while the row does not exist
    position,    \* tasks.position
    completed,   \* tasks with completed_on set
    nextNumber,  \* projects.next_task_number
    lock,        \* the request that holds the lock on the project's row
    add,         \* the transaction of each task's POST or "Add task"
    move         \* the transactions of move requests

rows == <<number, position, completed, nextNumber>>
vars == <<rows, lock, add, move>>

Open == {t \in Tasks : number[t] # 0 /\ t \notin completed}

\* What a select on the incomplete tasks returns: their positions.
Selected == [t \in Tasks |-> IF t \in Open THEN position[t] ELSE NoPosition]

Nothing == [t \in Tasks |-> NoPosition]

NewAdd  == [pc |-> "new", number |-> 0, seen |-> Nothing]
NewMove == [pc |-> "new", to |-> "last", task |-> NoTask, before |-> NoTask, after |-> NoTask,
            seen |-> Nothing]

-----------------------------------------------------------------------------
Found(seen) == {seen[t] : t \in Tasks} \ {NoPosition}

\* The positions a move or an insert computes from what it has seen.
LastOf(seen) ==
    IF Found(seen) = {} THEN {Gap}
    ELSE {p + Gap : p \in {p \in Found(seen) : \A q \in Found(seen) : q <= p}}

FirstOf(seen) ==
    IF Found(seen) = {} THEN {0}
    ELSE {p - Gap : p \in {p \in Found(seen) : \A q \in Found(seen) : p <= q}}

\* Between neighbours without a number in between, the sum is rounded to one of them.
Midpoint(p, q) == {(p + q) \div 2, (p + q + 1) \div 2}

\* Mutant: moving to the front takes the lowest position itself.
PlacesWithoutGap(m) ==
    CASE m.to = "first"   -> {p + Gap : p \in FirstOf(m.seen)}
      [] m.to = "last"    -> LastOf(m.seen)
      [] m.to = "between" -> Midpoint(m.seen[m.before], m.seen[m.after])

Places(m) ==
    CASE m.to = "first"   -> FirstOf(m.seen)
      [] m.to = "last"    -> LastOf(m.seen)
      [] m.to = "between" -> Midpoint(m.seen[m.before], m.seen[m.after])

-----------------------------------------------------------------------------
Init ==
    /\ number = [t \in Tasks |-> 0]
    /\ position = Nothing
    /\ completed = {}
    /\ nextNumber = 1
    /\ lock = NoTask
    /\ add = [t \in Tasks |-> NewAdd]
    /\ move = [m \in Moves |-> NewMove]

\* Mutant: the counter is read without locking the project's row.
AddTakesNumberUnlocked(t) ==
    /\ add[t].pc = "new"
    /\ lock' = t
    /\ add' = [add EXCEPT ![t] = [@ EXCEPT !.pc = "numbered", !.number = nextNumber]]
    /\ UNCHANGED <<rows, move>>

\* addTask: the update of the counter locks the project's row until the transaction ends.
AddTakesNumber(t) ==
    /\ add[t].pc = "new"
    /\ lock = NoTask
    /\ lock' = t
    /\ add' = [add EXCEPT ![t] = [@ EXCEPT !.pc = "numbered", !.number = nextNumber]]
    /\ UNCHANGED <<rows, move>>

AddSelects(t) ==
    /\ add[t].pc = "numbered"
    /\ add' = [add EXCEPT ![t] = [@ EXCEPT !.pc = "selected", !.seen = Selected]]
    /\ UNCHANGED <<rows, lock, move>>

\* Mutant: the place is the count of the tasks.
AddInsertsAtCount(t) ==
    /\ add[t].pc = "selected"
    /\ position' = [position EXCEPT ![t] = Gap * Cardinality(Found(add[t].seen))]
    /\ number' = [number EXCEPT ![t] = add[t].number]
    /\ nextNumber' = add[t].number + 1
    /\ lock' = NoTask
    /\ add' = [add EXCEPT ![t] = [NewAdd EXCEPT !.pc = "done"]]
    /\ UNCHANGED <<completed, move>>

\* The insert and the commit, which also makes the counter's new value visible.
AddInserts(t) ==
    /\ add[t].pc = "selected"
    /\ \E p \in LastOf(add[t].seen) : position' = [position EXCEPT ![t] = p]
    /\ number' = [number EXCEPT ![t] = add[t].number]
    /\ nextNumber' = add[t].number + 1
    /\ lock' = NoTask
    /\ add' = [add EXCEPT ![t] = [NewAdd EXCEPT !.pc = "done"]]
    /\ UNCHANGED <<completed, move>>

\* An error anywhere in the request, its configuration or its event rolls everything back.
AddFails(t) ==
    /\ add[t].pc \in {"numbered", "selected"}
    /\ lock' = NoTask
    /\ add' = [add EXCEPT ![t] = [NewAdd EXCEPT !.pc = "failed"]]
    /\ UNCHANGED <<rows, move>>

-----------------------------------------------------------------------------
\* completeTask, by a user, the MCP server or a run: one guarded update.
CompleteTask(t) ==
    /\ t \in Open
    /\ completed' = completed \cup {t}
    /\ position' = [position EXCEPT ![t] = NoPosition]
    /\ UNCHANGED <<number, nextNumber, lock, add, move>>

-----------------------------------------------------------------------------
\* moveTask: the task must exist and be incomplete; what is next read depends on the request.
MoveFindsTask(m) ==
    /\ move[m].pc = "new"
    /\ \E t \in Open :
        \/ \E to \in {"first", "last"} :
              move' = [move EXCEPT ![m] = [@ EXCEPT !.pc = "ends", !.to = to, !.task = t]]
        \/ \E b, a \in Tasks :
              move' = [move EXCEPT ![m] = [@ EXCEPT !.pc = "before", !.to = "between", !.task = t,
                                                    !.before = b, !.after = a]]
    /\ UNCHANGED <<rows, lock, add>>

MoveSelectsEnds(m) ==
    /\ move[m].pc = "ends"
    /\ move' = [move EXCEPT ![m] = [@ EXCEPT !.pc = "write", !.seen = Selected]]
    /\ UNCHANGED <<rows, lock, add>>

\* The neighbours are two statements; both must be found incomplete.
MoveFindsBefore(m) ==
    /\ move[m].pc = "before" /\ move[m].before \in Open
    /\ move' = [move EXCEPT ![m] = [@ EXCEPT !.pc = "after",
                                             !.seen[move[m].before] = position[move[m].before]]]
    /\ UNCHANGED <<rows, lock, add>>

MoveFindsAfter(m) ==
    /\ move[m].pc = "after" /\ move[m].after \in Open
    /\ move' = [move EXCEPT ![m] = [@ EXCEPT !.pc = "write",
                                             !.seen[move[m].after] = position[move[m].after]]]
    /\ UNCHANGED <<rows, lock, add>>

MoveRefused(m) ==
    /\ \/ move[m].pc = "before" /\ move[m].before \notin Open
       \/ move[m].pc = "after" /\ move[m].after \notin Open
    /\ move' = [move EXCEPT ![m] = [NewMove EXCEPT !.pc = "refused"]]
    /\ UNCHANGED <<rows, lock, add>>

\* The update is by id: a task completed meanwhile gets a position again.
MoveWrites(m) ==
    /\ move[m].pc = "write"
    /\ \E p \in Places(move[m]) : position' = [position EXCEPT ![move[m].task] = p]
    /\ move' = [move EXCEPT ![m] = [NewMove EXCEPT !.pc = "done", !.task = move[m].task]]
    /\ UNCHANGED <<number, completed, nextNumber, lock, add>>

-----------------------------------------------------------------------------
Add(t)  == AddTakesNumber(t) \/ AddSelects(t) \/ AddInserts(t) \/ AddFails(t)

Move(m) ==
    \/ MoveFindsTask(m) \/ MoveSelectsEnds(m) \/ MoveFindsBefore(m) \/ MoveFindsAfter(m)
    \/ MoveRefused(m) \/ MoveWrites(m)

Next ==
    \/ \E t \in Tasks : Add(t) \/ CompleteTask(t)
    \/ \E m \in Moves : Move(m)

Spec == Init /\ [][Next]_vars

-----------------------------------------------------------------------------
AddRecord  == [pc : {"new", "numbered", "selected", "done", "failed"}, number : Nat,
               seen : [Tasks -> Int \cup {NoPosition}]]
MoveRecord == [pc : {"new", "ends", "before", "after", "write", "done", "refused"},
               to : {"first", "last", "between"}, task : Tasks \cup {NoTask},
               before : Tasks \cup {NoTask}, after : Tasks \cup {NoTask},
               seen : [Tasks -> Int \cup {NoPosition}]]

\* Rows and transactions keep their shape, and every incomplete task has a position to sort by.
TypeOK ==
    /\ number \in [Tasks -> Nat]
    /\ position \in [Tasks -> Int \cup {NoPosition}]
    /\ \A t \in Open : position[t] # NoPosition
    /\ completed \in SUBSET Tasks
    /\ nextNumber \in Nat \ {0}
    /\ lock \in Tasks \cup {NoTask}
    /\ add \in [Tasks -> AddRecord]
    /\ move \in [Moves -> MoveRecord]

\* The numbers of a project's tasks are 1, 2, 3 and so on, each given once and none left out by a
\* request that failed: the unique constraint on them never rejects an insert (schema.ts:184).
NumbersInOrder ==
    /\ \A t, u \in Tasks : number[t] = number[u] /\ number[t] # 0 => t = u
    /\ {number[t] : t \in Tasks} \ {0} = 1..(nextNumber - 1)

Moved == {move[m].task : m \in {m \in Moves : move[m].pc = "done"}}

\* Tasks that nobody moved are worked on in the order they were added in, strictly by position,
\* whatever else is added, moved and completed at the same time.
AddedInOrder ==
    \A t, u \in Open \ Moved : number[t] < number[u] => position[t] < position[u]

\* Their inductive strengthening.  A move that is to write has seen the positions it needs.
SeenInv ==
    \A m \in Moves :
        /\ move[m].pc \in {"ends", "before", "after", "write"} => move[m].task \in Tasks
        /\ move[m].to = "between" =>
            /\ move[m].before \in Tasks /\ move[m].after \in Tasks /\ move[m].pc # "ends"
            /\ move[m].pc \in {"after", "write"} => move[m].seen[move[m].before] \in Int
            /\ move[m].pc = "write" => move[m].seen[move[m].after] \in Int

\* Who has a number that is not committed holds the lock, and the number is the counter's.
NumberInv ==
    /\ NumbersInOrder
    /\ \A t \in Tasks : number[t] < nextNumber /\ (number[t] # 0 => add[t].pc = "done")
    /\ \A t \in Tasks : add[t].pc \in {"numbered", "selected"} =>
            lock = t /\ add[t].number = nextNumber

\* Who is about to insert has seen every open task that is still where it was added.
OrderInv ==
    /\ AddedInOrder
    /\ \A t \in Tasks : add[t].pc = "selected" =>
            \A u \in Open \ Moved : add[t].seen[u] = position[u]

\* A move puts its task before, after or between the tasks it was to, as far as these still are
\* where it saw them when it is written, and have room between them.
Stayed(m) == {u \in Open \ {m.task} : position[u] = m.seen[u]}

Lands(m) ==
    CASE m.to = "first"   -> \A u \in Stayed(m) : position'[m.task] < position[u]
      [] m.to = "last"    -> \A u \in Stayed(m) : position[u] < position'[m.task]
      [] m.to = "between" ->
            \A low, high \in {m.before, m.after} \cap Stayed(m) :
                position[low] + 1 < position[high]
                    => position[low] < position'[m.task] /\ position'[m.task] < position[high]

MovesLand == [][\A m \in Moves : move[m].pc = "write" /\ move'[m].pc = "done" => Lands(move[m])]_vars
=============================================================================
