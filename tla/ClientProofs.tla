-------------------------------- MODULE ClientProofs ------------------------
(***************************************************************************)
(* Theorems about what a browser shows: the tasks of a project and the     *)
(* client's list of them (TaskBoard), for any number of tasks and writers  *)
(* and every set of kinds and faults; and the parts of its tab (WebClient),*)
(* for any projects, names, sandbox types and repositories, and any number *)
(* of edits, requests, changes by others and faults.                       *)
(***************************************************************************)
EXTENDS TaskBoard, WebClient, FiniteSetTheorems, TLAPS

\* What is announced or returned of a row is a dto.
LEMMA DtoTyped ==
    ASSUME NEW r \in Row, NEW state \in RunStates PROVE Dto(r, state) \in DtoRecord
BY DEF Dto, Row, DtoRecord, RunStates

LEMMA ListedTyped ==
    ASSUME NEW r \in RowOrAbsent, NEW state \in RunStates
    PROVE  Listed(r, state) \in DtoRecord \cup {Absent}
BY DtoTyped DEF Listed, RowOrAbsent

LEMMA NoListTyped == NoList \in List
BY DEF NoList, List

LEMMA NewTxTyped == NewTx \in TxRecord
BY DEF NewTx, TxRecord, RowOrAbsent, RunStates

\* A request that ends forgets what it has read and made.
LEMMA EndedTyped ==
    ASSUME NEW w \in Writers, tx[w] \in TxRecord, NEW pc \in {"done", "failed"}
    PROVE  /\ Ended(w, pc) \in TxRecord
           /\ Ended(w, pc).pc = pc
           /\ Ended(w, pc).kind = tx[w].kind
           /\ Ended(w, pc).task = tx[w].task
BY ZenonT(60), NewTxTyped DEF Ended, NewTx, TxRecord

\* A step of one request that keeps the types and what is known of that request.
LEMMA OneRequest ==
    ASSUME TypeOK, RequestInv, NEW w \in Writers, NEW r \in TxRecord,
           tx' = [tx EXCEPT ![w] = r],
           \A t \in Tasks : row[t] # Absent => row'[t] # Absent,
           r.pc # "new" => r.task \in Tasks,
           r.pc = "opened" /\ r.kind # "move" => r.read \in Row,
           r.pc = "opened" /\ r.kind \in {"tool", "update"} => row'[r.task] # Absent,
           r.pc \in {"written", "built", "published", "committed"} => r.new \in Row,
           r.pc = "late" => row'[r.task] # Absent,
           r.pc \in {"lateRead", "lateBuilt"} => r.read \in Row
    PROVE  tx' \in [Writers -> TxRecord] /\ RequestInv'
<1>1. tx \in [Writers -> TxRecord]
  BY DEF TypeOK
<1>2. tx' \in [Writers -> TxRecord] /\ tx'[w] = r
  BY <1>1
<1>3. \A v \in Writers : v # w => tx'[v] = tx[v]
  BY <1>1
<1>4. RequestInv'
  BY <1>2, <1>3 DEF RequestInv
<1>5. QED
  BY <1>2, <1>4

\* The first update of a transaction.
LEMMA WritesTyped ==
    ASSUME TypeOK, RequestInv, NEW w \in Writers, NEW t \in Tasks, NEW request \in TxRecord,
           Writes(w, t, request), request.pc \in {"written", "built"}, request.new \in Row
    PROVE  TypeOK' /\ RequestInv'
<1> DEFINE r == [request EXCEPT !.task = t, !.read = Absent]
<1>1. r \in TxRecord /\ r.pc = request.pc /\ r.new = request.new /\ r.task = t
  BY DEF TxRecord, RowOrAbsent
<1>2. tx' = [tx EXCEPT ![w] = r] /\ row' = row
  BY DEF Writes
<1> HIDE DEF r
<1>3. tx' \in [Writers -> TxRecord] /\ RequestInv'
  BY <1>1, <1>2, OneRequest
<1>4. lock' \in [Tasks -> Writers \cup {Nobody}]
  BY DEF Writes, TypeOK
<1>5. QED
  BY <1>3, <1>4 DEF Writes, TypeOK, client, stream

\* A request that updates a row has made the new one of the row as it is.
LEMMA WritingEdit ==
    ASSUME TypeOK, RequestInv, NEW w \in Writers,
           \/ ToolWrites(w) \/ ToolUpdates(w) \/ Puts(w) \/ Moves(w) \/ Creates(w) \/ Completes(w)
    PROVE  \E t \in Tasks, request \in TxRecord :
              /\ Writes(w, t, request) /\ tx[w].pc \in {"new", "opened"}
              /\ request.pc \in {"written", "built"} /\ request.new \in Row
              /\ row[t] # Absent /\ row[t].done => request.new.done
<1>t. tx[w] \in TxRecord
  BY DEF TypeOK
<1>r. row \in [Tasks -> RowOrAbsent]
  BY DEF TypeOK
<1>1. CASE ToolWrites(w)
  <2> DEFINE t == tx[w].task
             new == [row[t] EXCEPT !.title = tx[w].read.title,
                                   !.subtasks = tx[w].read.subtasks \cup {w}]
             r == [tx[w] EXCEPT !.pc = "written", !.new = new]
  <2>1. t \in Tasks /\ tx[w].pc = "opened" /\ row[t] \in Row /\ tx[w].read \in Row
    BY <1>1, <1>r DEF ToolWrites, RequestInv, RowOrAbsent
  <2>2. new \in Row /\ new.done = row[t].done
    BY <2>1 DEF Row
  <2>3. Writes(w, t, r)
    BY <1>1 DEF ToolWrites
  <2> HIDE DEF new
  <2>4. r \in TxRecord /\ r.pc = "written" /\ r.new \in Row
        /\ (row[t] # Absent /\ row[t].done => r.new.done)
    BY <1>t, <2>2 DEF TxRecord, RowOrAbsent
  <2> HIDE DEF r, t
  <2>5. QED
    BY <2>1, <2>3, <2>4
<1>2. CASE ToolUpdates(w)
  <2>0. PICK s \in tx[w].read.subtasks :
        Writes(w, tx[w].task, [tx[w] EXCEPT !.pc = "written",
                                 !.new = [row[tx[w].task] EXCEPT
                                             !.title = tx[w].read.title,
                                             !.subtasks = (tx[w].read.subtasks \ {s}) \cup {w}]])
    BY <1>2 DEF ToolUpdates
  <2> DEFINE t == tx[w].task
             new == [row[t] EXCEPT !.title = tx[w].read.title,
                                   !.subtasks = (tx[w].read.subtasks \ {s}) \cup {w}]
             r == [tx[w] EXCEPT !.pc = "written", !.new = new]
  <2>1. t \in Tasks /\ tx[w].pc = "opened" /\ row[t] \in Row /\ tx[w].read \in Row
    BY <1>2, <1>r DEF ToolUpdates, RequestInv, RowOrAbsent
  <2>2. new \in Row /\ new.done = row[t].done
    BY <2>1 DEF Row
  <2>3. Writes(w, t, r)
    BY <2>0
  <2> HIDE DEF new
  <2>4. r \in TxRecord /\ r.pc = "written" /\ r.new \in Row
        /\ (row[t] # Absent /\ row[t].done => r.new.done)
    BY <1>t, <2>2 DEF TxRecord, RowOrAbsent
  <2> HIDE DEF r, t
  <2>5. QED
    BY <2>1, <2>3, <2>4
<1>3. CASE Puts(w)
  <2> DEFINE t == tx[w].task
             new == [row[t] EXCEPT !.title = w, !.subtasks = tx[w].read.subtasks]
             r == [tx[w] EXCEPT !.pc = "written", !.new = new]
  <2>1. t \in Tasks /\ tx[w].pc = "opened" /\ row[t] \in Row /\ tx[w].read \in Row
    BY <1>3, <1>r DEF Puts, RequestInv, RowOrAbsent
  <2>2. new \in Row /\ new.done = row[t].done
    BY <2>1 DEF Row
  <2>3. Writes(w, t, r)
    BY <1>3 DEF Puts
  <2> HIDE DEF new
  <2>4. r \in TxRecord /\ r.pc = "written" /\ r.new \in Row
        /\ (row[t] # Absent /\ row[t].done => r.new.done)
    BY <1>t, <2>2 DEF TxRecord, RowOrAbsent
  <2> HIDE DEF r, t
  <2>5. QED
    BY <2>1, <2>3, <2>4
<1>4. CASE Moves(w)
  <2> DEFINE t == tx[w].task
             r == [tx[w] EXCEPT !.pc = "written", !.new = row[t]]
  <2>1. t \in Tasks /\ tx[w].pc = "opened" /\ row[t] \in Row
    BY <1>4, <1>r DEF Moves, RequestInv, RowOrAbsent
  <2>3. Writes(w, t, r)
    BY <1>4 DEF Moves
  <2>4. r \in TxRecord /\ r.pc = "written" /\ r.new \in Row
        /\ (row[t] # Absent /\ row[t].done => r.new.done)
    BY <1>t, <2>1 DEF TxRecord, RowOrAbsent
  <2> HIDE DEF r, t
  <2>5. QED
    BY <2>1, <2>3, <2>4
<1>5. CASE Creates(w)
  <2>1. PICK t \in Tasks, own \in BOOLEAN :
          /\ row[t] = Absent
          /\ Writes(w, t, [tx[w] EXCEPT !.pc = "built", !.kind = "create", !.own = own,
                            !.new = [title |-> w, subtasks |-> {}, done |-> FALSE]])
    BY <1>5 DEF Creates
  <2> DEFINE r == [tx[w] EXCEPT !.pc = "built", !.kind = "create", !.own = own,
                            !.new = [title |-> w, subtasks |-> {}, done |-> FALSE]]
  <2>2. r \in TxRecord /\ r.pc = "built" /\ r.new \in Row
    BY ZenonT(60), <1>t DEF TxRecord, RowOrAbsent, Row
  <2>3. Writes(w, t, r) /\ tx[w].pc = "new" /\ row[t] = Absent
    BY <1>5, <2>1 DEF Creates
  <2> HIDE DEF r
  <2>4. QED
    BY <2>2, <2>3
<1>6. CASE Completes(w)
  <2>1. PICK t \in Tasks, own \in BOOLEAN :
        /\ row[t] # Absent
        /\ Writes(w, t, [tx[w] EXCEPT !.pc = "built", !.kind = "complete", !.own = own,
                            !.new = [row[t] EXCEPT !.done = TRUE]])
    BY <1>6 DEF Completes
  <2> DEFINE r == [tx[w] EXCEPT !.pc = "built", !.kind = "complete", !.own = own,
                            !.new = [row[t] EXCEPT !.done = TRUE]]
  <2>2. [row[t] EXCEPT !.done = TRUE] \in Row /\ [row[t] EXCEPT !.done = TRUE].done
    BY <2>1, <1>r DEF RowOrAbsent, Row
  <2>3. r \in TxRecord /\ r.pc = "built" /\ r.new \in Row
        /\ r.new.done
    BY <1>t, <2>2 DEF TxRecord, RowOrAbsent
  <2>4. Writes(w, t, r) /\ tx[w].pc = "new"
    BY <1>6, <2>1 DEF Completes
  <2> HIDE DEF r
  <2>5. QED
    BY <2>3, <2>4
<1>7. QED
  BY <1>1, <1>2, <1>3, <1>4, <1>5, <1>6

\* What users, agents and runs begin.
LEMMA EditTyped ==
    ASSUME TypeOK, RequestInv, NEW w \in Writers, Edit(w) PROVE TypeOK' /\ RequestInv'
<1>t. tx \in [Writers -> TxRecord] /\ tx[w] \in TxRecord
  BY DEF TypeOK
<1>r. row \in [Tasks -> RowOrAbsent] /\ run \in [Tasks -> RunStates]
  BY DEF TypeOK
<1>1. CASE OpensDialog(w)
  <2>1. PICK t \in Tasks, own \in BOOLEAN, shown \in DtoRecord :
            tx' = [tx EXCEPT ![w] = [@ EXCEPT !.pc = "opened", !.kind = "put", !.own = own,
                        !.task = t, !.read = [title |-> shown.title, subtasks |-> shown.subtasks,
                                              done |-> shown.done]]]
    <3>1. PICK t \in Tasks, own \in BOOLEAN :
        LET shown == IF own THEN (IF board = NotLoaded THEN Absent ELSE board[t])
                     ELSE Listed(row[t], run[t])
        IN /\ shown # Absent
           /\ tx' = [tx EXCEPT ![w] = [@ EXCEPT !.pc = "opened", !.kind = "put", !.own = own,
                        !.task = t, !.read = [title |-> shown.title, subtasks |-> shown.subtasks,
                                              done |-> shown.done]]]
      BY <1>1 DEF OpensDialog
    <3> DEFINE shown == IF own THEN (IF board = NotLoaded THEN Absent ELSE board[t])
                     ELSE Listed(row[t], run[t])
    <3>2. shown \in DtoRecord \cup {Absent}
      BY <1>r, ListedTyped DEF TypeOK, List
    <3>3. QED
      BY <3>1, <3>2
  <2> DEFINE read == [title |-> shown.title, subtasks |-> shown.subtasks, done |-> shown.done]
             r == [tx[w] EXCEPT !.pc = "opened", !.kind = "put", !.own = own,
                        !.task = t, !.read = read]
  <2>2. read \in Row
    BY DEF DtoRecord, Row
  <2> HIDE DEF read
  <2>3. r \in TxRecord /\ r.pc = "opened" /\ r.kind = "put" /\ r.task \in Tasks /\ r.read \in Row
    BY <1>t, <2>2 DEF TxRecord, RowOrAbsent
  <2>4. tx' = [tx EXCEPT ![w] = r] /\ row' = row
    BY <1>1, <2>1 DEF OpensDialog, table, read
  <2> HIDE DEF r
  <2>5. tx' \in [Writers -> TxRecord] /\ RequestInv'
    BY <2>3, <2>4, OneRequest
  <2>6. QED
    BY <1>1, <2>5 DEF OpensDialog, TypeOK, table, client, stream
<1>2. CASE ToolReads(w)
  <2>1. PICK t \in Tasks, kind \in {"tool", "update"} :
        /\ row[t] # Absent
        /\ tx' = [tx EXCEPT ![w] = [@ EXCEPT !.pc = "opened", !.kind = kind, !.task = t,
                                             !.read = row[t]]]
    BY <1>2 DEF ToolReads
  <2> DEFINE r == [tx[w] EXCEPT !.pc = "opened", !.kind = kind, !.task = t, !.read = row[t]]
  <2>2. row[t] \in Row
    BY <2>1, <1>r DEF RowOrAbsent
  <2>3. r \in TxRecord /\ r.pc = "opened" /\ r.kind = kind /\ r.task = t /\ r.read \in Row
    BY <1>t, <2>2 DEF TxRecord, RowOrAbsent
  <2>4. tx' = [tx EXCEPT ![w] = r] /\ row' = row
    BY <1>2, <2>1 DEF ToolReads, table
  <2> HIDE DEF r
  <2>5. tx' \in [Writers -> TxRecord] /\ RequestInv'
    BY <2>1, <2>3, <2>4, OneRequest
  <2>6. QED
    BY <1>2, <2>5 DEF ToolReads, TypeOK, table, client, stream
<1>3. CASE Drags(w)
  <2>1. PICK t \in Tasks :
        /\ board[t] # Absent
        /\ tx' = [tx EXCEPT ![w] = [@ EXCEPT !.pc = "opened", !.kind = "move", !.own = TRUE,
                                             !.task = t, !.previous = board]]
    BY <1>3 DEF Drags
  <2> DEFINE r == [tx[w] EXCEPT !.pc = "opened", !.kind = "move", !.own = TRUE,
                                             !.task = t, !.previous = board]
  <2>3. r \in TxRecord /\ r.pc = "opened" /\ r.kind = "move" /\ r.task = t
    BY <1>t DEF TxRecord, TypeOK
  <2>4. tx' = [tx EXCEPT ![w] = r] /\ row' = row
    BY <1>3, <2>1 DEF Drags, table
  <2> HIDE DEF r
  <2>5. tx' \in [Writers -> TxRecord] /\ RequestInv'
    BY <2>1, <2>3, <2>4, OneRequest
  <2>6. fetch' \in [pc : {"idle", "asked", "read", "answered"}, rows : [Tasks -> RowOrAbsent],
                    list : List]
    BY <1>3, NoListTyped DEF Drags, Idle, NoList, RowOrAbsent
  <2>7. stale' \in [Tasks -> BOOLEAN]
    BY <1>3 DEF Drags, TypeOK
  <2>8. board' = board /\ board # NotLoaded
    BY <1>3 DEF Drags
  <2>9. QED
    BY <1>3, <2>5, <2>6, <2>7, <2>8 DEF Drags, TypeOK, table, stream
<1>4. CASE Refused(w)
  <2>1. tx' = [tx EXCEPT ![w] = Ended(w, "failed")] /\ row' = row
    BY <1>4 DEF Refused, table
  <2>2. tx[w].task \in Tasks
    BY <1>4 DEF Refused, RequestInv
  <2>3. tx' \in [Writers -> TxRecord] /\ RequestInv'
    BY <1>t, <2>1, <2>2, EndedTyped, OneRequest
  <2>4. QED
    BY <1>4, <2>3 DEF Refused, TypeOK, table, client, stream
<1>5. CASE FinishesTask(w)
  <2>1. PICK t \in Tasks :
        /\ row[t] # Absent
        /\ row' = [row EXCEPT ![t].done = TRUE]
        /\ tx' = [tx EXCEPT ![w] = [@ EXCEPT !.pc = "late", !.kind = "finish", !.task = t]]
    BY <1>5 DEF FinishesTask
  <2> DEFINE r == [tx[w] EXCEPT !.pc = "late", !.kind = "finish", !.task = t]
  <2>2. r \in TxRecord /\ r.pc = "late" /\ r.task = t
    BY <1>t DEF TxRecord
  <2>3. tx' = [tx EXCEPT ![w] = r]
    BY <2>1
  <2> HIDE DEF r
  <2>4. row'[t] \in Row /\ \A u \in Tasks : u # t => row'[u] = row[u]
    BY <1>r, <2>1 DEF Row, RowOrAbsent
  <2>5. row' \in [Tasks -> RowOrAbsent]
    BY <1>r, <2>1, <2>4 DEF RowOrAbsent
  <2>6. row'[t] # Absent
    BY <2>4, ListAssumption
  <2>7. tx' \in [Writers -> TxRecord] /\ RequestInv'
    BY <2>2, <2>3, <2>4, <2>6, OneRequest
  <2>8. QED
    BY <1>5, <2>5, <2>7 DEF FinishesTask, TypeOK, client, stream
<1>6. CASE AddsTask(w)
  <2>1. PICK t \in Tasks :
        /\ row' = [row EXCEPT ![t] = [title |-> w, subtasks |-> {}, done |-> FALSE]]
        /\ tx' = [tx EXCEPT ![w] = [@ EXCEPT !.pc = "late", !.kind = "add", !.task = t]]
    BY <1>6 DEF AddsTask
  <2> DEFINE r == [tx[w] EXCEPT !.pc = "late", !.kind = "add", !.task = t]
  <2>2. r \in TxRecord /\ r.pc = "late" /\ r.task = t
    BY <1>t DEF TxRecord
  <2>3. tx' = [tx EXCEPT ![w] = r]
    BY <2>1
  <2> HIDE DEF r
  <2>4. row'[t] \in Row /\ \A u \in Tasks : u # t => row'[u] = row[u]
    BY <1>r, <2>1 DEF Row
  <2>5. row' \in [Tasks -> RowOrAbsent]
    BY <1>r, <2>1, <2>4 DEF RowOrAbsent
  <2>6. row'[t] # Absent
    BY <2>4, ListAssumption
  <2>7. tx' \in [Writers -> TxRecord] /\ RequestInv'
    BY <2>2, <2>3, <2>4, <2>6, OneRequest
  <2>8. QED
    BY <1>6, <2>5, <2>7 DEF AddsTask, TypeOK, client, stream
<1>7. CASE RunChanges(w)
  <2>1. PICK t \in Tasks :
        /\ row[t] # Absent
        /\ \E s \in IF run[t] = "pending" THEN {"in_progress", "none"}
                   ELSE IF run[t] = "none" THEN {"pending"} ELSE {"none"} :
              run' = [run EXCEPT ![t] = s]
        /\ tx' = [tx EXCEPT ![w] = [@ EXCEPT !.pc = "late", !.kind = "run", !.task = t]]
    BY <1>7 DEF RunChanges
  <2> DEFINE r == [tx[w] EXCEPT !.pc = "late", !.kind = "run", !.task = t]
  <2>2. r \in TxRecord /\ r.pc = "late" /\ r.task = t
    BY <1>t DEF TxRecord
  <2>3. tx' = [tx EXCEPT ![w] = r] /\ row' = row
    BY <1>7, <2>1 DEF RunChanges
  <2> HIDE DEF r
  <2>4. run' \in [Tasks -> RunStates]
    BY <1>r, <2>1 DEF RunStates
  <2>5. tx' \in [Writers -> TxRecord] /\ RequestInv'
    BY <2>1, <2>2, <2>3, OneRequest
  <2>6. QED
    BY <1>7, <2>4, <2>5 DEF RunChanges, TypeOK, client, stream
<1>8. CASE ToolWrites(w) \/ ToolUpdates(w) \/ Puts(w) \/ Moves(w) \/ Creates(w) \/ Completes(w)
  BY <1>8, WritingEdit, WritesTyped
<1>9. QED
  BY <1>1, <1>2, <1>3, <1>4, <1>5, <1>6, <1>7, <1>8 DEF Edit

\* An event puts a task's dto on the wire.
LEMMA AnnouncesTyped ==
    ASSUME TypeOK, NEW t \in Tasks, NEW d \in DtoRecord, NEW r, Announces(t, d, r)
    PROVE  wire' \in Seq(Message) /\ stale' \in [Tasks -> BOOLEAN]
<1>1. [task |-> t, dto |-> d] \in Message
  BY DEF Message
<1>2. wire' \in Seq(Message)
  BY <1>1 DEF Announces, TypeOK
<1>3. stale' \in [Tasks -> BOOLEAN]
  BY DEF Announces, TypeOK
<1>4. QED
  BY <1>2, <1>3

\* What the list becomes.
LEMMA AppliedTyped ==
    ASSUME TypeOK, NEW t \in Tasks, NEW d \in DtoRecord
    PROVE  /\ Applied(t, d) \in List \cup {NotLoaded}
           /\ Merged(t, d) \in List
           /\ Replaced(t, d) \in List
           /\ board # NotLoaded => Applied(t, d) \in List
<1>1. Shown(d) \in DtoRecord \cup {Absent}
  BY DEF Shown
<1>2. board \in List \cup {NotLoaded} /\ NoList \in List
  BY NoListTyped DEF TypeOK
<1>3. \A l \in List, e \in DtoRecord \cup {Absent} : [l EXCEPT ![t] = e] \in List
  BY DEF List
<1>4. QED
  BY <1>1, <1>2, <1>3 DEF Applied, Merged, Replaced

LEMMA GoesTyped ==
    ASSUME TypeOK, RequestInv, NEW w \in Writers, Goes(w) PROVE TypeOK' /\ RequestInv'
<1>t. tx \in [Writers -> TxRecord] /\ tx[w] \in TxRecord
  BY DEF TypeOK
<1>r. row \in [Tasks -> RowOrAbsent] /\ run \in [Tasks -> RunStates]
  BY DEF TypeOK
<1>k. tx[w].pc # "new" => tx[w].task \in Tasks
  BY DEF RequestInv
<1>e. Ended(w, "done") \in TxRecord /\ Ended(w, "done").pc = "done"
      /\ Ended(w, "done").task = tx[w].task
  BY <1>t, EndedTyped
<1>1. CASE LooksUpRun(w)
  <2> DEFINE r == [tx[w] EXCEPT !.pc = "built", !.state = run[tx[w].task]]
  <2>1. tx[w].pc = "written" /\ tx[w].new \in Row /\ tx[w].task \in Tasks
    BY <1>1, <1>k DEF LooksUpRun, RequestInv
  <2>2. r \in TxRecord /\ r.pc = "built" /\ r.new = tx[w].new /\ r.task = tx[w].task
    BY <1>t, <1>r, <2>1 DEF TxRecord
  <2>3. tx' = [tx EXCEPT ![w] = r] /\ row' = row
    BY <1>1 DEF LooksUpRun, table
  <2> HIDE DEF r
  <2>4. tx' \in [Writers -> TxRecord] /\ RequestInv'
    BY <2>1, <2>2, <2>3, OneRequest
  <2>5. QED
    BY <1>1, <2>4 DEF LooksUpRun, TypeOK, table, client, stream
<1>2. CASE Publishes(w)
  <2> DEFINE r == [tx[w] EXCEPT !.pc = "published"]
  <2>1. tx[w].pc = "built" /\ tx[w].new \in Row /\ tx[w].task \in Tasks
    BY <1>2, <1>k DEF Publishes, RequestInv
  <2>2. r \in TxRecord /\ r.pc = "published" /\ r.new = tx[w].new /\ r.task = tx[w].task
    BY <1>t DEF TxRecord
  <2>3. tx' = [tx EXCEPT ![w] = r] /\ row' = row
    BY <1>2 DEF Publishes, table
  <2> HIDE DEF r
  <2>4. tx' \in [Writers -> TxRecord] /\ RequestInv'
    BY <2>1, <2>2, <2>3, OneRequest
  <2>5. Dto(tx[w].new, tx[w].state) \in DtoRecord
    BY <1>t, <2>1, DtoTyped DEF TxRecord
  <2>6. wire' \in Seq(Message) /\ stale' \in [Tasks -> BOOLEAN]
    BY <1>2, <2>1, <2>5, AnnouncesTyped DEF Publishes
  <2>7. QED
    BY <1>2, <2>4, <2>6 DEF Publishes, TypeOK, table, client
<1>3. CASE Commits(w)
  <2> DEFINE t == tx[w].task
             r == IF tx[w].own THEN [tx[w] EXCEPT !.pc = "committed"] ELSE Ended(w, "done")
  <2>1. tx[w].pc = "published" /\ tx[w].new \in Row /\ t \in Tasks
    BY <1>3, <1>k DEF Commits, RequestInv
  <2>2. r \in TxRecord /\ r.pc \in {"committed", "done"} /\ r.task = t
        /\ (r.pc = "committed" => r.new = tx[w].new)
    BY <1>t, <1>e DEF TxRecord
  <2>3. tx' = [tx EXCEPT ![w] = r] /\ row' = [row EXCEPT ![t] = tx[w].new]
    BY <1>3 DEF Commits
  <2> HIDE DEF r
  <2>4. row' \in [Tasks -> RowOrAbsent] /\ \A u \in Tasks : row[u] # Absent => row'[u] # Absent
    BY <1>r, <2>1, <2>3, ListAssumption DEF RowOrAbsent
  <2>5. tx' \in [Writers -> TxRecord] /\ RequestInv'
    BY <2>1, <2>2, <2>3, <2>4, OneRequest
  <2>6. lock' \in [Tasks -> Writers \cup {Nobody}]
    BY <1>3 DEF Commits, TypeOK
  <2>7. QED
    BY <1>3, <2>4, <2>5, <2>6 DEF Commits, TypeOK, client, stream
<1>4. CASE Responds(w)
  <2> DEFINE t == tx[w].task
             d == Dto(tx[w].new, tx[w].state)
  <2>1. tx[w].pc = "committed" /\ tx[w].new \in Row /\ t \in Tasks
    BY <1>4, <1>k DEF Responds, RequestInv
  <2>2. d \in DtoRecord
    BY <1>t, <2>1, DtoTyped DEF TxRecord
  <2>3. tx' = [tx EXCEPT ![w] = Ended(w, "done")] /\ row' = row
    BY <1>4 DEF Responds, table
  <2>4. board' = board \/ board' = Merged(t, d) \/ board' = Replaced(t, d)
    BY <1>4 DEF Responds
  <2> HIDE DEF d
  <2>5. board' \in List \cup {NotLoaded} /\ (board' = NotLoaded => board = NotLoaded)
    BY <2>1, <2>2, <2>4, AppliedTyped, ListAssumption DEF TypeOK
  <2>6. stale' \in [Tasks -> BOOLEAN]
    BY <1>4 DEF Responds, TypeOK
  <2>7. tx' \in [Writers -> TxRecord] /\ RequestInv'
    BY <1>e, <2>1, <2>3, OneRequest
  <2>8. QED
    BY <1>4, <2>5, <2>6, <2>7 DEF Responds, TypeOK, table, stream
<1>5. CASE RevertsDrag(w)
  <2>1. tx' = [tx EXCEPT ![w] = Ended(w, "done")] /\ row' = row /\ tx[w].task \in Tasks
    BY <1>5, <1>k DEF RevertsDrag, table
  <2>2. tx' \in [Writers -> TxRecord] /\ RequestInv'
    BY <1>e, <2>1, OneRequest
  <2>3. board' \in List \cup {NotLoaded}
    BY <1>5, <1>t DEF RevertsDrag, TxRecord
  <2>4. fetch' \in [pc : {"idle", "asked", "read", "answered"}, rows : [Tasks -> RowOrAbsent],
                    list : List] /\ fetch'.pc = "asked"
    BY <1>5, NoListTyped DEF RevertsDrag, Asked, Idle, NoList, RowOrAbsent
  <2>5. QED
    BY <1>5, <2>2, <2>3, <2>4 DEF RevertsDrag, TypeOK, table, stream
<1>6. CASE LateReadsTask(w)
  <2> DEFINE r == [tx[w] EXCEPT !.pc = "lateRead", !.read = row[tx[w].task]]
  <2>1. tx[w].pc = "late" /\ tx[w].task \in Tasks /\ row[tx[w].task] \in Row
    BY <1>6, <1>k, <1>r DEF LateReadsTask, RequestInv, RowOrAbsent
  <2>2. r \in TxRecord /\ r.pc = "lateRead" /\ r.read \in Row /\ r.task = tx[w].task
    BY <1>t, <2>1 DEF TxRecord, RowOrAbsent
  <2>3. tx' = [tx EXCEPT ![w] = r] /\ row' = row
    BY <1>6 DEF LateReadsTask, table
  <2> HIDE DEF r
  <2>4. tx' \in [Writers -> TxRecord] /\ RequestInv'
    BY <2>1, <2>2, <2>3, OneRequest
  <2>5. QED
    BY <1>6, <2>4 DEF LateReadsTask, TypeOK, table, client, stream
<1>7. CASE LateReadsRun(w)
  <2> DEFINE r == [tx[w] EXCEPT !.pc = "lateBuilt", !.state = run[tx[w].task]]
  <2>1. tx[w].pc = "lateRead" /\ tx[w].task \in Tasks /\ tx[w].read \in Row
    BY <1>7, <1>k DEF LateReadsRun, RequestInv
  <2>2. r \in TxRecord /\ r.pc = "lateBuilt" /\ r.read \in Row /\ r.task = tx[w].task
    BY <1>t, <1>r, <2>1 DEF TxRecord
  <2>3. tx' = [tx EXCEPT ![w] = r] /\ row' = row
    BY <1>7 DEF LateReadsRun, table
  <2> HIDE DEF r
  <2>4. tx' \in [Writers -> TxRecord] /\ RequestInv'
    BY <2>1, <2>2, <2>3, OneRequest
  <2>5. QED
    BY <1>7, <2>4 DEF LateReadsRun, TypeOK, table, client, stream
<1>8. CASE LatePublishes(w)
  <2>1. tx[w].pc = "lateBuilt" /\ tx[w].task \in Tasks /\ tx[w].read \in Row
    BY <1>8, <1>k DEF LatePublishes, RequestInv
  <2>2. tx' = [tx EXCEPT ![w] = Ended(w, "done")] /\ row' = row
    BY <1>8 DEF LatePublishes, table
  <2>3. tx' \in [Writers -> TxRecord] /\ RequestInv'
    BY <1>e, <2>1, <2>2, OneRequest
  <2>4. Dto(tx[w].read, tx[w].state) \in DtoRecord
    BY <1>t, <2>1, DtoTyped DEF TxRecord
  <2>5. wire' \in Seq(Message) /\ stale' \in [Tasks -> BOOLEAN]
    BY <1>8, <2>1, <2>4, AnnouncesTyped DEF LatePublishes
  <2>6. QED
    BY <1>8, <2>3, <2>5 DEF LatePublishes, TypeOK, table, client
<1>9. QED
  BY <1>1, <1>2, <1>3, <1>4, <1>5, <1>6, <1>7, <1>8 DEF Goes

\* A transaction that fails.
LEMMA RollsBackTyped ==
    ASSUME TypeOK, RequestInv, NEW w \in Writers, RollsBack(w) PROVE TypeOK' /\ RequestInv'
<1>1. tx[w] \in TxRecord /\ tx[w].task \in Tasks
  BY DEF TypeOK, RollsBack, RequestInv
<1>2. tx' = [tx EXCEPT ![w] = Ended(w, "failed")] /\ row' = row
  BY DEF RollsBack
<1>3. tx' \in [Writers -> TxRecord] /\ RequestInv'
  BY <1>1, <1>2, EndedTyped, OneRequest
<1>4. lock' \in [Tasks -> Writers \cup {Nobody}] /\ stale' \in [Tasks -> BOOLEAN]
  BY DEF RollsBack, TypeOK
<1>5. QED
  BY <1>3, <1>4 DEF RollsBack, TypeOK, client, stream

\* The stream and the browser.
LEMMA BrowserTyped ==
    ASSUME TypeOK, RequestInv, Browser \/ Drops \/ Refetches PROVE TypeOK' /\ RequestInv'
<1> DEFINE Fetches == [pc : {"idle", "asked", "read", "answered"}, rows : [Tasks -> RowOrAbsent],
                       list : List]
<1>0. /\ fetch \in Fetches
      /\ row \in [Tasks -> RowOrAbsent] /\ run \in [Tasks -> RunStates]
      /\ wire \in Seq(Message)
  BY DEF TypeOK
<1>s. Idle \in Fetches /\ Asked \in Fetches /\ Asked.pc = "asked"
  BY NoListTyped DEF Idle, Asked, NoList, RowOrAbsent
<1>1. CASE Connects
  <2>1. wire' \in Seq(Message)
    BY <1>1 DEF Connects, Message
  <2>2. QED
    BY <1>1, <2>1 DEF Connects, TypeOK, RequestInv, table, client
<1>2. CASE Drops
  <2>0. wire' = <<>> /\ connected' \in BOOLEAN
    BY <1>2, Zenon DEF Drops
  <2>1. wire' \in Seq(Message) /\ connected' \in BOOLEAN
    BY <2>0
  <2>2. drops' \in 0..MaxDrops
    BY <1>2, DropsAssumption DEF Drops, TypeOK
  <2>3. UNCHANGED <<row, run, lock, tx, board, fetch, stale>>
    BY <1>2 DEF Drops, table, client
  <2>4. QED
    BY <2>1, <2>2, <2>3 DEF TypeOK, RequestInv
<1>3. CASE Opens
  <2>1. wire' \in Seq(Message)
    BY <1>0, <1>3 DEF Opens
  <2>2. fetch' \in Fetches /\ (board = NotLoaded => fetch'.pc # "idle")
    BY <1>0, <1>3, <1>s DEF Opens
  <2>3. QED
    BY <1>3, <2>1, <2>2 DEF Opens, TypeOK, RequestInv, table
<1>4. CASE Receives
  <2>1. Head(wire) \in Message /\ Tail(wire) \in Seq(Message) /\ Head(wire) # Opened
    BY <1>0, <1>4 DEF Receives
  <2>2. Head(wire).task \in Tasks /\ Head(wire).dto \in DtoRecord
    BY <2>1 DEF Message
  <2>3. board' \in List \cup {NotLoaded} /\ (board # NotLoaded => board' \in List)
    BY <1>4, <2>2, AppliedTyped DEF Receives
  <2>4. QED
    BY <1>4, <2>1, <2>3, ListAssumption DEF Receives, TypeOK, RequestInv, table
<1>5. CASE Refetches
  BY <1>5, <1>s DEF Refetches, TypeOK, RequestInv, table, stream
<1>6. CASE FetchReadsTasks
  <2>1. fetch' \in Fetches /\ fetch'.pc = "read"
    BY <1>0, <1>6 DEF FetchReadsTasks
  <2>2. QED
    BY <1>6, <2>1 DEF FetchReadsTasks, TypeOK, RequestInv, table, stream
<1>7. CASE FetchReadsRuns
  <2>1. [t \in Tasks |-> Listed(fetch.rows[t], run[t])] \in List
    BY <1>0, ListedTyped DEF List
  <2>2. fetch' \in Fetches /\ fetch'.pc = "answered"
    BY <1>7, <1>s, <2>1 DEF FetchReadsRuns
  <2>3. QED
    BY <1>7, <2>2 DEF FetchReadsRuns, TypeOK, RequestInv, table, stream
<1>8. CASE FetchLands
  <2>1. board' \in List /\ fetch' \in Fetches
    BY <1>0, <1>8, <1>s DEF FetchLands
  <2>2. stale' \in [Tasks -> BOOLEAN]
    BY <1>8 DEF FetchLands, TypeOK
  <2>3. QED
    BY <1>8, <2>1, <2>2, ListAssumption DEF FetchLands, TypeOK, RequestInv, table, stream
<1>9. QED
  BY <1>1, <1>2, <1>3, <1>4, <1>5, <1>6, <1>7, <1>8 DEF Browser

LEMMA InitTyped == Init => TypeOK /\ RequestInv
<1> SUFFICES ASSUME Init PROVE TypeOK /\ RequestInv
  OBVIOUS
<1>1. row \in [Tasks -> RowOrAbsent] /\ run \in [Tasks -> RunStates]
  <2> DEFINE fresh == [title |-> Nobody, subtasks |-> {}, done |-> FALSE]
  <2>1. fresh \in Row
    BY DEF Row
  <2>2. row \in [Tasks -> {Absent, fresh}]
    BY DEF Init
  <2> HIDE DEF fresh
  <2>3. row \in [Tasks -> RowOrAbsent]
    BY <2>1, <2>2 DEF RowOrAbsent
  <2>4. run \in [Tasks -> RunStates]
    BY DEF Init, RunStates
  <2>5. QED
    BY <2>3, <2>4
<1>2. fetch \in [pc : {"idle", "asked", "read", "answered"}, rows : [Tasks -> RowOrAbsent],
                 list : List] /\ fetch.pc = "asked"
  BY NoListTyped DEF Init, Asked, Idle, NoList, RowOrAbsent
<1>3. tx \in [Writers -> TxRecord] /\ \A w \in Writers : tx[w].pc = "new"
  BY NewTxTyped DEF Init, NewTx
<1>4. wire \in Seq(Message)
  BY DEF Init
<1>c. connected \in BOOLEAN /\ drops = 0
  BY Zenon DEF Init
<1>5. connected \in BOOLEAN /\ drops \in 0..MaxDrops
  BY <1>c, DropsAssumption
<1>6. lock \in [Tasks -> Writers \cup {Nobody}] /\ stale \in [Tasks -> BOOLEAN]
      /\ board = NotLoaded
  BY DEF Init
<1>7. TypeOK
  BY <1>1, <1>2, <1>3, <1>4, <1>5, <1>6 DEF TypeOK
<1>8. RequestInv
  BY <1>3 DEF RequestInv
<1>9. QED
  BY <1>7, <1>8

\* Every table, request, event and cache keeps its shape.
THEOREM TypeCorrect == Spec => [](TypeOK /\ RequestInv)
<1>1. TypeOK /\ RequestInv /\ [Next]_vars => (TypeOK /\ RequestInv)'
  <2> SUFFICES ASSUME TypeOK, RequestInv, [Next]_vars PROVE (TypeOK /\ RequestInv)'
    OBVIOUS
  <2>1. CASE Next
    BY <2>1, EditTyped, GoesTyped, RollsBackTyped, BrowserTyped DEF Next
  <2>2. CASE UNCHANGED vars
    BY <2>2 DEF vars, table, client, stream, TypeOK, RequestInv
  <2>3. QED
    BY <2>1, <2>2
<1>2. QED
  BY <1>1, InitTyped, PTL DEF Spec

-----------------------------------------------------------------------------
Active == {"written", "built", "published"}

Stays == \A t \in Tasks : row[t] # Absent /\ row[t].done => row'[t] # Absent /\ row'[t].done

\* A request that holds no lock, before and after a step that does not touch locked rows.
LEMMA UnlockedStep ==
    ASSUME TypeOK, RequestInv, LockInv, NEW w \in Writers, NEW r \in TxRecord,
           tx' = [tx EXCEPT ![w] = r], tx[w].pc \notin Active, r.pc \notin Active,
           lock' = lock, \A t \in Tasks : lock[t] # Nobody => row'[t] = row[t]
    PROVE  /\ LockInv'
           /\ \A t \in Tasks : row'[t] = row[t] /\ run'[t] = run[t] => Newest'[t] = Newest[t]
<1>1. tx'[w] = r /\ \A v \in Writers : v # w => tx'[v] = tx[v]
  BY DEF TypeOK
<1>2. \A t \in Tasks : lock[t] # Nobody => lock[t] \in Writers /\ lock[t] # w
  BY DEF LockInv, TypeOK, Active
<1>3. ASSUME NEW v \in Writers, tx'[v].pc \in Active
      PROVE  lock'[tx'[v].task] = v
             /\ (row'[tx'[v].task] # Absent /\ row'[tx'[v].task].done => tx'[v].new.done)
  <2>1. v # w /\ tx'[v] = tx[v] /\ tx[v].pc \in Active
    BY <1>1, <1>3
  <2>2. lock[tx[v].task] = v /\ (row[tx[v].task] # Absent /\ row[tx[v].task].done => tx[v].new.done)
    BY <2>1 DEF LockInv, Active
  <2>3. tx[v].task \in Tasks
    BY <2>1 DEF RequestInv, Active
  <2>4. QED
    BY <2>1, <2>2, <2>3, NullAssumption
<1>4. \A t \in Tasks : lock'[t] # Nobody =>
            tx'[lock'[t]].task = t /\ tx'[lock'[t]].pc \in Active
  BY <1>1, <1>2 DEF LockInv, Active
<1>5. \A t \in Tasks : row'[t] = row[t] /\ run'[t] = run[t] => Newest'[t] = Newest[t]
  BY <1>1, <1>2 DEF Newest, Latest
<1>6. QED
  BY <1>3, <1>4, <1>5 DEF LockInv, Active

\* A transaction that takes the lock of a row.
LEMMA WritesStep ==
    ASSUME TypeOK, RequestInv, LockInv, NEW w \in Writers, NEW t \in Tasks,
           NEW request \in TxRecord, Writes(w, t, request), tx[w].pc \notin Active,
           request.pc \in {"written", "built"},
           row[t] # Absent /\ row[t].done => request.new.done
    PROVE  LockInv' /\ row' = row /\ \A u \in Tasks : Newest'[u] = Newest[u]
<1> DEFINE r == [request EXCEPT !.task = t, !.read = Absent]
<1>1. r.pc = request.pc /\ r.new = request.new /\ r.task = t
  BY DEF TxRecord
<1>2. /\ tx' = [tx EXCEPT ![w] = r] /\ row' = row
      /\ lock[t] = Nobody /\ lock' = [lock EXCEPT ![t] = w]
  BY DEF Writes
<1> HIDE DEF r
<1>3. tx'[w] = r /\ \A v \in Writers : v # w => tx'[v] = tx[v]
  BY <1>2 DEF TypeOK
<1>4. lock'[t] = w /\ \A u \in Tasks : u # t => lock'[u] = lock[u]
  BY <1>2 DEF TypeOK
<1>5. \A u \in Tasks : lock[u] # Nobody => lock[u] \in Writers /\ lock[u] # w
  BY DEF LockInv, TypeOK, Active
<1>6. ASSUME NEW v \in Writers, v # w, tx[v].pc \in Active PROVE tx[v].task \in Tasks \ {t}
  BY <1>2, <1>6, NullAssumption DEF RequestInv, LockInv, Active
<1>7. ASSUME NEW v \in Writers, tx'[v].pc \in Active
      PROVE  lock'[tx'[v].task] = v
             /\ (row'[tx'[v].task] # Absent /\ row'[tx'[v].task].done => tx'[v].new.done)
  <2>1. CASE v = w
    BY <1>1, <1>2, <1>3, <1>4, <2>1
  <2>2. CASE v # w
    BY <1>2, <1>3, <1>4, <1>6, <1>7, <2>2 DEF LockInv, Active
  <2>3. QED
    BY <2>1, <2>2
<1>8. \A u \in Tasks : lock'[u] # Nobody =>
            tx'[lock'[u]].task = u /\ tx'[lock'[u]].pc \in Active
  BY <1>1, <1>3, <1>4, <1>5 DEF LockInv, Active
<1>9. ASSUME NEW u \in Tasks PROVE Newest'[u] = Newest[u]
  <2>1. Latest(u)' = Latest(u)
    <3>1. CASE u = t
      BY <1>1, <1>2, <1>3, <1>4, <3>1 DEF Latest
    <3>2. CASE u # t
      BY <1>2, <1>3, <1>4, <1>5, <3>2 DEF Latest
    <3>3. QED
      BY <3>1, <3>2
  <2>2. run' = run
    BY DEF Writes
  <2>3. QED
    BY <2>1, <2>2 DEF Newest
<1>10. QED
  BY <1>2, <1>7, <1>8, <1>9 DEF LockInv, Active

\* A transaction that goes on.
LEMMA ActiveStep ==
    ASSUME TypeOK, LockInv, NEW w \in Writers, NEW r \in TxRecord,
           tx' = [tx EXCEPT ![w] = r], tx[w].pc \in Active, r.pc \in Active,
           r.task = tx[w].task, r.new = tx[w].new, lock' = lock, row' = row, run' = run
    PROVE  /\ LockInv'
           /\ \A u \in Tasks : u # tx[w].task => Newest'[u] = Newest[u]
           /\ tx[w].pc # "published" /\ r.pc # "published" =>
                  \A u \in Tasks : Newest'[u] = Newest[u]
           /\ tx[w].task \in Tasks /\ r.pc = "published" =>
                  Newest'[tx[w].task] = Listed(r.new, run[tx[w].task])
<1>1. tx'[w] = r /\ \A v \in Writers : v # w => tx'[v] = tx[v]
  BY DEF TypeOK
<1>2. \A v \in Writers : tx'[v].task = tx[v].task /\ tx'[v].new = tx[v].new
                          /\ (tx'[v].pc \in Active <=> tx[v].pc \in Active)
  BY <1>1
<1>3. \A t \in Tasks : lock[t] # Nobody => lock[t] \in Writers
  BY DEF TypeOK
<1>4. LockInv'
  BY <1>2, <1>3 DEF LockInv, Active
<1>5. ASSUME NEW u \in Tasks, u # tx[w].task PROVE Newest'[u] = Newest[u]
  <2>1. lock[u] # Nobody => lock[u] # w
    BY <1>5 DEF LockInv
  <2>2. Latest(u)' = Latest(u)
    BY <1>1, <1>3, <2>1 DEF Latest
  <2>3. QED
    BY <2>2 DEF Newest
<1>6. lock[tx[w].task] = w /\ w # Nobody
  BY NullAssumption DEF LockInv, Active
<1>7. ASSUME tx[w].task \in Tasks
      PROVE  /\ r.pc = "published" => Newest'[tx[w].task] = Listed(r.new, run[tx[w].task])
             /\ tx[w].pc # "published" /\ r.pc # "published" =>
                    Newest'[tx[w].task] = Newest[tx[w].task]
  <2> DEFINE t == tx[w].task
  <2>1. r.pc = "published" => Latest(t)' = r.new
    BY <1>1, <1>6 DEF Latest
  <2>2. tx[w].pc # "published" /\ r.pc # "published" => Latest(t)' = Latest(t)
    BY <1>1, <1>6 DEF Latest
  <2>3. Newest[t] = Listed(Latest(t), run[t]) /\ Newest'[t] = Listed(Latest(t)', run[t])
    BY <1>7 DEF Newest
  <2>4. QED
    BY <2>1, <2>2, <2>3
<1>8. QED
  BY <1>4, <1>5, <1>7

\* A transaction that ends.
LEMMA EndStep ==
    ASSUME TypeOK, RequestInv, LockInv, NEW w \in Writers, NEW r \in TxRecord,
           tx' = [tx EXCEPT ![w] = r], tx[w].pc \in Active, r.pc \notin Active,
           lock' = [lock EXCEPT ![tx[w].task] = Nobody],
           \A u \in Tasks \ {tx[w].task} : row'[u] = row[u], run' = run,
           row'[tx[w].task] = IF tx[w].pc = "published" /\ r.pc # "failed" THEN tx[w].new
                              ELSE row[tx[w].task]
    PROVE  /\ LockInv'
           /\ \A u \in Tasks : u # tx[w].task => Newest'[u] = Newest[u]
           /\ tx[w].pc # "published" \/ r.pc # "failed" => \A u \in Tasks : Newest'[u] = Newest[u]
<1> DEFINE t == tx[w].task
<1>1. tx'[w] = r /\ \A v \in Writers : v # w => tx'[v] = tx[v]
  BY DEF TypeOK
<1>2. t \in Tasks /\ lock[t] = w
  BY DEF RequestInv, LockInv, Active
<1>3. lock'[t] = Nobody /\ \A u \in Tasks : u # t => lock'[u] = lock[u]
  BY <1>2 DEF TypeOK
<1>4. ASSUME NEW v \in Writers, v # w, tx[v].pc \in Active PROVE tx[v].task \in Tasks \ {t}
  BY <1>2, <1>4 DEF RequestInv, LockInv, Active
<1>5. ASSUME NEW v \in Writers, tx'[v].pc \in Active
      PROVE  lock'[tx'[v].task] = v
             /\ (row'[tx'[v].task] # Absent /\ row'[tx'[v].task].done => tx'[v].new.done)
  BY <1>1, <1>3, <1>4, <1>5 DEF LockInv, Active
<1>6. \A u \in Tasks : lock'[u] # Nobody =>
            tx'[lock'[u]].task = u /\ tx'[lock'[u]].pc \in Active
  <2> SUFFICES ASSUME NEW u \in Tasks, lock'[u] # Nobody
               PROVE  tx'[lock'[u]].task = u /\ tx'[lock'[u]].pc \in Active
    OBVIOUS
  <2>1. u # t /\ lock'[u] = lock[u] /\ lock[u] \in Writers
    BY <1>3 DEF TypeOK
  <2>2. tx[lock[u]].task = u /\ tx[lock[u]].pc \in Active
    BY <2>1 DEF LockInv, Active
  <2>3. lock[u] # w
    BY <2>1, <2>2
  <2>4. QED
    BY <1>1, <2>1, <2>2, <2>3
<1>7. ASSUME NEW u \in Tasks, u # t PROVE Newest'[u] = Newest[u]
  <2>1. lock[u] # Nobody => lock[u] # w /\ lock[u] \in Writers
    BY <1>7 DEF LockInv, TypeOK
  <2>2. Latest(u)' = Latest(u)
    BY <1>1, <1>3, <1>7, <2>1 DEF Latest
  <2>3. QED
    BY <2>2 DEF Newest
<1>8. ASSUME NEW u \in Tasks, u = t, tx[w].pc # "published" \/ r.pc # "failed"
      PROVE  Newest'[u] = Newest[u]
  <2>1. Latest(u)' = row'[u]
    BY <1>3, <1>8 DEF Latest
  <2>2. Latest(u) = IF tx[w].pc = "published" THEN tx[w].new ELSE row[u]
    BY <1>2, <1>8, NullAssumption DEF Latest
  <2>3. Latest(u)' = Latest(u)
    BY <1>8, <2>1, <2>2
  <2>4. QED
    BY <2>3 DEF Newest
<1>9. QED
  BY <1>5, <1>6, <1>7, <1>8 DEF LockInv, Active

\* What begins without a lock: a row or a run that changes is left to be announced.
LEMMA PlainEdit ==
    ASSUME TypeOK, RequestInv, NEW w \in Writers,
           \/ OpensDialog(w) \/ ToolReads(w) \/ Drags(w) \/ Refused(w)
           \/ FinishesTask(w) \/ AddsTask(w) \/ RunChanges(w)
    PROVE  /\ tx'[w] \in TxRecord /\ tx' = [tx EXCEPT ![w] = tx'[w]]
           /\ tx[w].pc \in {"new", "opened"} /\ tx'[w].pc \in {"opened", "failed", "late"}
           /\ lock' = lock /\ \A u \in Tasks : lock[u] # Nobody => row'[u] = row[u]
           /\ \A u \in Tasks : \/ row'[u] = row[u] /\ run'[u] = run[u]
                               \/ tx'[w].pc = "late" /\ tx'[w].task = u
           /\ Stays
           /\ UNCHANGED <<connected, wire, board>>
           /\ Drags(w) \/ UNCHANGED <<fetch, stale>>
<1>t. tx \in [Writers -> TxRecord] /\ tx[w] \in TxRecord /\ tx' \in [Writers -> TxRecord]
  BY EditTyped DEF TypeOK, Edit
<1>r. row \in [Tasks -> RowOrAbsent] /\ row' \in [Tasks -> RowOrAbsent] /\ run \in [Tasks -> RunStates]
  BY EditTyped DEF TypeOK, Edit
<1>1. CASE OpensDialog(w)
  <2>0. PICK t, own, read : tx' = [tx EXCEPT ![w] = [@ EXCEPT !.pc = "opened", !.kind = "put",
                               !.own = own, !.task = t, !.read = read]]
    <3>1. PICK t \in Tasks, own \in BOOLEAN :
        LET shown == IF own THEN (IF board = NotLoaded THEN Absent ELSE board[t])
                     ELSE Listed(row[t], run[t])
        IN  tx' = [tx EXCEPT ![w] = [@ EXCEPT !.pc = "opened", !.kind = "put", !.own = own,
                        !.task = t, !.read = [title |-> shown.title, subtasks |-> shown.subtasks,
                                              done |-> shown.done]]]
      BY <1>1 DEF OpensDialog
    <3> DEFINE shown == IF own THEN (IF board = NotLoaded THEN Absent ELSE board[t])
                        ELSE Listed(row[t], run[t])
               read == [title |-> shown.title, subtasks |-> shown.subtasks, done |-> shown.done]
    <3>2. tx' = [tx EXCEPT ![w] = [@ EXCEPT !.pc = "opened", !.kind = "put", !.own = own,
                               !.task = t, !.read = read]]
      BY <3>1
    <3> HIDE DEF read
    <3>3. QED
      BY <3>2
  <2>1. tx' = [tx EXCEPT ![w] = tx'[w]] /\ tx[w].pc = "new" /\ tx'[w].pc = "opened"
    <3>1. tx'[w] = [tx[w] EXCEPT !.pc = "opened", !.kind = "put", !.own = own, !.task = t,
                                 !.read = read]
      BY <1>t, <2>0
    <3>2. tx'[w].pc = "opened"
      BY <1>t, <3>1 DEF TxRecord
    <3>3. QED
      BY <1>t, <1>1, <2>0, <3>2 DEF OpensDialog
  <2>2. QED
    BY <1>t, <1>1, <2>1 DEF OpensDialog, table, client, stream, Stays
<1>2. CASE ToolReads(w)
  <2>0. PICK t, kind : tx' = [tx EXCEPT ![w] = [@ EXCEPT !.pc = "opened", !.kind = kind,
                            !.task = t, !.read = row[t]]]
    BY <1>2 DEF ToolReads
  <2>1. tx' = [tx EXCEPT ![w] = tx'[w]] /\ tx[w].pc = "new" /\ tx'[w].pc = "opened"
    BY <1>t, <1>2, <2>0 DEF ToolReads, TxRecord
  <2>2. QED
    BY <1>t, <1>2, <2>1 DEF ToolReads, table, client, stream, Stays
<1>3. CASE Drags(w)
  <2>0. PICK t : tx' = [tx EXCEPT ![w] = [@ EXCEPT !.pc = "opened", !.kind = "move",
                      !.own = TRUE, !.task = t, !.previous = board]]
    BY <1>3 DEF Drags
  <2>1. tx' = [tx EXCEPT ![w] = tx'[w]] /\ tx[w].pc = "new" /\ tx'[w].pc = "opened"
    BY <1>t, <1>3, <2>0 DEF Drags, TxRecord
  <2>2. QED
    BY <1>t, <1>3, <2>1 DEF Drags, table, stream, Stays
<1>4. CASE Refused(w)
  <2>1. tx' = [tx EXCEPT ![w] = tx'[w]] /\ tx[w].pc = "opened" /\ tx'[w].pc = "failed"
    BY <1>t, <1>4, EndedTyped DEF Refused
  <2>2. QED
    BY <1>t, <1>4, <2>1 DEF Refused, table, client, stream, Stays
<1>5. CASE FinishesTask(w)
  <2>1. PICK t \in Tasks :
        /\ lock[t] = Nobody /\ row[t] # Absent /\ ~row[t].done
        /\ row' = [row EXCEPT ![t].done = TRUE]
        /\ tx' = [tx EXCEPT ![w] = [@ EXCEPT !.pc = "late", !.kind = "finish", !.task = t]]
    BY <1>5 DEF FinishesTask
  <2>2. tx' = [tx EXCEPT ![w] = tx'[w]] /\ tx[w].pc = "new" /\ tx'[w].pc = "late"
        /\ tx'[w].task = t
    BY <1>t, <1>5, <2>1 DEF FinishesTask, TxRecord
  <2>3. \A u \in Tasks : u # t => row'[u] = row[u]
    BY <1>r, <2>1
  <2>4. UNCHANGED <<run, lock, connected, wire, board, fetch, stale>>
    BY <1>5 DEF FinishesTask, client, stream
  <2>5. QED
    BY <1>t, <2>1, <2>2, <2>3, <2>4 DEF Stays
<1>6. CASE AddsTask(w)
  <2>1. PICK t \in Tasks :
        /\ lock[t] = Nobody /\ row[t] = Absent
        /\ row' = [row EXCEPT ![t] = [title |-> w, subtasks |-> {}, done |-> FALSE]]
        /\ tx' = [tx EXCEPT ![w] = [@ EXCEPT !.pc = "late", !.kind = "add", !.task = t]]
    BY <1>6 DEF AddsTask
  <2>2. tx' = [tx EXCEPT ![w] = tx'[w]] /\ tx[w].pc = "new" /\ tx'[w].pc = "late"
        /\ tx'[w].task = t
    BY <1>t, <1>6, <2>1 DEF AddsTask, TxRecord
  <2>3. \A u \in Tasks : u # t => row'[u] = row[u]
    BY <1>r, <2>1
  <2>4. UNCHANGED <<run, lock, connected, wire, board, fetch, stale>>
    BY <1>6 DEF AddsTask, client, stream
  <2>5. QED
    BY <1>t, <2>1, <2>2, <2>3, <2>4 DEF Stays
<1>7. CASE RunChanges(w)
  <2>1. PICK t \in Tasks :
        /\ \E s \in IF run[t] = "pending" THEN {"in_progress", "none"}
                   ELSE IF run[t] = "none" THEN {"pending"} ELSE {"none"} :
              run' = [run EXCEPT ![t] = s]
        /\ tx' = [tx EXCEPT ![w] = [@ EXCEPT !.pc = "late", !.kind = "run", !.task = t]]
    BY <1>7 DEF RunChanges
  <2>2. tx' = [tx EXCEPT ![w] = tx'[w]] /\ tx[w].pc = "new" /\ tx'[w].pc = "late"
        /\ tx'[w].task = t
    BY <1>t, <1>7, <2>1 DEF RunChanges, TxRecord
  <2>3. \A u \in Tasks : u # t => run'[u] = run[u]
    BY <1>r, <2>1
  <2>4. UNCHANGED <<row, lock, connected, wire, board, fetch, stale>>
    BY <1>7 DEF RunChanges, client, stream
  <2>5. QED
    BY <1>t, <2>2, <2>3, <2>4 DEF Stays
<1>8. QED
  BY <1>1, <1>2, <1>3, <1>4, <1>5, <1>6, <1>7

\* A transaction that goes on keeps its lock and its row.
LEMMA OngoingStep ==
    ASSUME TypeOK, RequestInv, NEW w \in Writers, LooksUpRun(w) \/ Publishes(w)
    PROVE  /\ tx'[w] \in TxRecord /\ tx' = [tx EXCEPT ![w] = tx'[w]]
           /\ tx[w].pc \in {"written", "built"}
           /\ tx'[w].pc = IF Publishes(w) THEN "published" ELSE "built"
           /\ tx'[w].task = tx[w].task /\ tx'[w].new = tx[w].new
           /\ UNCHANGED <<row, run, lock>>
<1>t. tx \in [Writers -> TxRecord] /\ tx[w] \in TxRecord /\ tx' \in [Writers -> TxRecord]
  BY GoesTyped DEF TypeOK, Goes
<1>1. CASE LooksUpRun(w)
  BY <1>1, <1>t DEF LooksUpRun, Publishes, table, TxRecord
<1>2. CASE Publishes(w)
  BY <1>2, <1>t DEF Publishes, table, TxRecord
<1>3. QED
  BY <1>1, <1>2

\* One that ends releases it, and writes its row if it was not rolled back.
LEMMA EndingStep ==
    ASSUME TypeOK, RequestInv, LockInv, NEW w \in Writers, Commits(w) \/ RollsBack(w)
    PROVE  /\ tx'[w] \in TxRecord /\ tx' = [tx EXCEPT ![w] = tx'[w]]
           /\ tx[w].pc \in Active /\ tx[w].task \in Tasks
           /\ tx'[w].pc \in {"committed", "done", "failed"} /\ tx'[w].task = tx[w].task
           /\ tx'[w].pc = "failed" <=> RollsBack(w)
           /\ lock' = [lock EXCEPT ![tx[w].task] = Nobody] /\ run' = run
           /\ \A u \in Tasks \ {tx[w].task} : row'[u] = row[u]
           /\ row'[tx[w].task] = IF tx[w].pc = "published" /\ tx'[w].pc # "failed" THEN tx[w].new
                                 ELSE row[tx[w].task]
           /\ Stays
<1>t. tx \in [Writers -> TxRecord] /\ tx[w] \in TxRecord /\ tx' \in [Writers -> TxRecord]
      /\ row \in [Tasks -> RowOrAbsent]
  BY GoesTyped, RollsBackTyped DEF TypeOK, Goes
<1>k. tx[w].task \in Tasks
  BY DEF RequestInv, Commits, RollsBack
<1>1. CASE Commits(w)
  <2>1. /\ tx[w].pc = "published" /\ row' = [row EXCEPT ![tx[w].task] = tx[w].new]
        /\ lock' = [lock EXCEPT ![tx[w].task] = Nobody] /\ run' = run
        /\ tx' = [tx EXCEPT ![w] = IF tx[w].own THEN [@ EXCEPT !.pc = "committed"]
                                   ELSE Ended(w, "done")]
    BY <1>1 DEF Commits
  <2>2. /\ tx' = [tx EXCEPT ![w] = tx'[w]]
        /\ tx'[w].pc \in {"committed", "done"} /\ tx'[w].task = tx[w].task
    BY <1>t, <2>1, EndedTyped DEF TxRecord
  <2>3. tx[w].new \in Row /\ (row[tx[w].task] # Absent /\ row[tx[w].task].done => tx[w].new.done)
    BY <2>1 DEF RequestInv, LockInv
  <2>4. \A u \in Tasks : row'[u] = IF u = tx[w].task THEN tx[w].new ELSE row[u]
    BY <1>t, <2>1
  <2>5. Stays
    BY <2>3, <2>4, ListAssumption DEF Stays
  <2>6. ~RollsBack(w)
    BY <1>t, <2>2, EndedTyped DEF RollsBack
  <2>7. QED
    BY <1>k, <1>t, <2>1, <2>2, <2>4, <2>5, <2>6 DEF Active
<1>2. CASE RollsBack(w)
  <2>1. tx' = [tx EXCEPT ![w] = tx'[w]] /\ tx'[w].pc = "failed" /\ tx'[w].task = tx[w].task
    BY <1>t, <1>2, EndedTyped DEF RollsBack
  <2>2. QED
    BY <1>k, <1>t, <1>2, <2>1 DEF RollsBack, Active, Stays
<1>3. QED
  BY <1>1, <1>2

\* What follows a commit, or a change in a transaction of its own, has no lock.
LEMMA FreeStep ==
    ASSUME TypeOK, RequestInv, NEW w \in Writers,
           \/ Responds(w) \/ RevertsDrag(w)
           \/ LateReadsTask(w) \/ LateReadsRun(w) \/ LatePublishes(w)
    PROVE  /\ tx'[w] \in TxRecord /\ tx' = [tx EXCEPT ![w] = tx'[w]]
           /\ tx[w].pc \in {"committed", "failed", "late", "lateRead", "lateBuilt"}
           /\ tx'[w].pc \in {"done", "lateRead", "lateBuilt"} /\ tx'[w].task = tx[w].task
           /\ (tx'[w].pc = "done" <=> tx[w].pc \notin {"late", "lateRead"})
           /\ UNCHANGED <<row, run, lock>>
<1>t. tx \in [Writers -> TxRecord] /\ tx[w] \in TxRecord /\ tx' \in [Writers -> TxRecord]
  BY GoesTyped DEF TypeOK, Goes
<1>1. CASE Responds(w)
  BY <1>1, <1>t, EndedTyped DEF Responds, table
<1>2. CASE RevertsDrag(w)
  BY <1>2, <1>t, EndedTyped DEF RevertsDrag, table
<1>3. CASE LateReadsTask(w)
  BY <1>3, <1>t DEF LateReadsTask, table, TxRecord
<1>4. CASE LateReadsRun(w)
  BY <1>4, <1>t DEF LateReadsRun, table, TxRecord
<1>5. CASE LatePublishes(w)
  BY <1>5, <1>t, EndedTyped DEF LatePublishes, table
<1>6. QED
  BY <1>1, <1>2, <1>3, <1>4, <1>5

\* Locks are taken when free and released at the end, and a task that is done stays so.
LEMMA LockStep ==
    ASSUME TypeOK, RequestInv, LockInv, Next PROVE LockInv' /\ Stays
<1>t. tx \in [Writers -> TxRecord]
  BY DEF TypeOK
<1>1. ASSUME NEW w \in Writers, Edit(w) PROVE LockInv' /\ Stays
  <2>1. CASE ToolWrites(w) \/ ToolUpdates(w) \/ Puts(w) \/ Moves(w) \/ Creates(w) \/ Completes(w)
    BY <2>1, WritingEdit, WritesStep DEF Active, Stays
  <2>2. CASE \/ OpensDialog(w) \/ ToolReads(w) \/ Drags(w) \/ Refused(w)
             \/ FinishesTask(w) \/ AddsTask(w) \/ RunChanges(w)
    BY <2>2, PlainEdit, UnlockedStep DEF Active
  <2>3. QED
    BY <1>1, <2>1, <2>2 DEF Edit
<1>2. ASSUME NEW w \in Writers, LooksUpRun(w) \/ Publishes(w) PROVE LockInv' /\ Stays
  BY <1>2, OngoingStep, ActiveStep DEF Active, Stays
<1>3. ASSUME NEW w \in Writers, Commits(w) \/ RollsBack(w) PROVE LockInv' /\ Stays
  BY <1>3, EndingStep, EndStep DEF Active
<1>4. ASSUME NEW w \in Writers, \/ Responds(w) \/ RevertsDrag(w)
                                \/ LateReadsTask(w) \/ LateReadsRun(w) \/ LatePublishes(w)
      PROVE  LockInv' /\ Stays
  BY <1>4, FreeStep, UnlockedStep DEF Active, Stays
<1>5. CASE Browser \/ Drops \/ Refetches
  BY <1>5 DEF Browser, Drops, Refetches, Connects, Opens, Receives, FetchReadsTasks, FetchReadsRuns,
              FetchLands, table, LockInv, Stays
<1>6. QED
  BY <1>1, <1>2, <1>3, <1>4, <1>5 DEF Next, Goes

\* A task that was completed stays completed, whichever edits were under way.
THEOREM Completion == Spec => CompletedStays
<1>1. Init => LockInv
  BY DEF Init, LockInv, NewTx
<1>2. LockInv /\ UNCHANGED vars => LockInv' /\ Stays
  BY DEF vars, table, LockInv, Stays
<1>3. TypeOK /\ RequestInv /\ LockInv /\ [Next]_vars => LockInv' /\ [Stays]_vars
  BY <1>2, LockStep
<1>4. QED
  BY <1>1, <1>3, TypeCorrect, PTL DEF Spec, CompletedStays, Stays

-----------------------------------------------------------------------------
Holds(s, t)  == \E i \in DOMAIN s : s[i].task = t
HasOpened(s) == \E i \in DOMAIN s : s[i] = Opened

\* What a new event makes of what is known of the events.
LEMMA AppendNews ==
    ASSUME NEW s \in Seq(Message), NEW t \in Tasks, NEW d \in DtoRecord, NEW u \in Tasks, NEW x
    PROVE  LET s2 == Append(s, [task |-> t, dto |-> d])
           IN  /\ Holds(s2, t)
               /\ Shown(d) = x => LastShows(s2, t, x)
               /\ u # t /\ LastShows(s, u, x) => LastShows(s2, u, x)
               /\ Holds(s, u) => Holds(s2, u)
               /\ HasOpened(s) => HasOpened(s2)
<1> DEFINE m == [task |-> t, dto |-> d]
           s2 == Append(s, m)
<1>1. m \in Message /\ m.task = t /\ m.dto = d
  BY DEF Message
<1> HIDE DEF m
<1>2. /\ Len(s) \in Nat /\ DOMAIN s = 1..Len(s) /\ DOMAIN s2 = 1..(Len(s) + 1)
      /\ s2[Len(s) + 1] = m /\ \A i \in DOMAIN s : s2[i] = s[i]
  BY <1>1
<1> HIDE DEF s2
<1>3. Holds(s2, t)
  BY <1>1, <1>2 DEF Holds
<1>4. ASSUME Shown(d) = x PROVE LastShows(s2, t, x)
  <2> SUFFICES ASSUME NEW i \in DOMAIN s2, s2[i].task = t,
                      \A j \in DOMAIN s2 : j > i => s2[j].task # t
               PROVE  Shown(s2[i].dto) = x
    BY DEF LastShows
  <2>1. i = Len(s) + 1
    BY <1>1, <1>2
  <2>2. QED
    BY <1>1, <1>2, <1>4, <2>1
<1>5. ASSUME u # t, LastShows(s, u, x) PROVE LastShows(s2, u, x)
  <2> SUFFICES ASSUME NEW i \in DOMAIN s2, s2[i].task = u,
                      \A j \in DOMAIN s2 : j > i => s2[j].task # u
               PROVE  Shown(s2[i].dto) = x
    BY DEF LastShows
  <2>1. i \in DOMAIN s /\ s[i].task = u /\ s2[i] = s[i]
    BY <1>1, <1>2, <1>5
  <2>2. \A j \in DOMAIN s : j > i => s[j].task # u
    BY <1>2
  <2>3. QED
    BY <1>5, <2>1, <2>2 DEF LastShows
<1>6. (Holds(s, u) => Holds(s2, u)) /\ (HasOpened(s) => HasOpened(s2))
  BY <1>2 DEF Holds, HasOpened
<1>7. QED
  BY <1>3, <1>4, <1>5, <1>6 DEF s2, m

\* What handling an event makes of what is known of them.
LEMMA TailNews ==
    ASSUME NEW s \in Seq(Message), s # <<>>, NEW t \in Tasks, NEW x
    PROVE  /\ LastShows(s, t, x) => LastShows(Tail(s), t, x)
           /\ LastShows(s, t, x) /\ Head(s).task = t /\ ~Holds(Tail(s), t) => Shown(Head(s).dto) = x
           /\ Holds(s, t) => Head(s).task = t \/ Holds(Tail(s), t)
           /\ HasOpened(s) => Head(s) = Opened \/ HasOpened(Tail(s))
<1> DEFINE r == Tail(s)
<1>1. /\ Len(s) \in Nat \ {0} /\ DOMAIN s = 1..Len(s) /\ DOMAIN r = 1..(Len(s) - 1)
      /\ \A i \in DOMAIN r : r[i] = s[i + 1]
      /\ Head(s) = s[1]
  OBVIOUS
<1> HIDE DEF r
<1>2. ASSUME NEW i \in DOMAIN s, i # 1 PROVE i - 1 \in DOMAIN r /\ s[i] = r[i - 1]
  BY <1>1, <1>2
<1>3. ASSUME LastShows(s, t, x) PROVE LastShows(r, t, x)
  <2> SUFFICES ASSUME NEW i \in DOMAIN r, r[i].task = t,
                      \A j \in DOMAIN r : j > i => r[j].task # t
               PROVE  Shown(r[i].dto) = x
    BY DEF LastShows
  <2>1. i + 1 \in DOMAIN s /\ s[i + 1] = r[i]
    BY <1>1
  <2>2. ASSUME NEW j \in DOMAIN s, j > i + 1 PROVE s[j].task # t
    BY <1>1, <1>2, <2>2
  <2>3. QED
    BY <1>3, <2>1, <2>2 DEF LastShows
<1>4. ASSUME LastShows(s, t, x), Head(s).task = t, ~Holds(r, t) PROVE Shown(Head(s).dto) = x
  <2>1. 1 \in DOMAIN s /\ s[1].task = t
    BY <1>1, <1>4
  <2>2. ASSUME NEW j \in DOMAIN s, j > 1 PROVE s[j].task # t
    BY <1>1, <1>2, <1>4, <2>2 DEF Holds
  <2>3. QED
    BY <1>1, <1>4, <2>1, <2>2 DEF LastShows
<1>5. (Holds(s, t) => Head(s).task = t \/ Holds(r, t)) /\ (HasOpened(s) => Head(s) = Opened \/ HasOpened(r))
  BY <1>1, <1>2 DEF Holds, HasOpened
<1>6. QED
  BY <1>3, <1>4, <1>5 DEF r

\* What NewsInv says of one task.
NewsOf(t) ==
    /\ LastShows(wire, t, Newest[t])
    /\ connected /\ fetch.pc = "idle" /\ ~OnWire(t) /\ ~Opening => board[t] = Newest[t]

\* A step that leaves the stream, the client and the newest row of a task alone.
LEMMA SameNews ==
    ASSUME NEW t \in Tasks, NewsOf(t), Newest'[t] = Newest[t],
           UNCHANGED <<wire, connected, board, fetch>>
    PROVE  NewsOf(t)'
BY DEF NewsOf, LastShows, OnWire, Opening

\* A fetch that has been asked for excuses the list.
LEMMA FetchingNews ==
    ASSUME NEW t \in Tasks, LastShows(wire', t, Newest'[t]), fetch'.pc # "idle"
    PROVE  NewsOf(t)'
BY DEF NewsOf, LastShows

LEMMA NewsOfInit == Init => NewsInv
<1> SUFFICES ASSUME Init PROVE NewsInv
  OBVIOUS
<1>1. wire = <<>> /\ fetch.pc # "idle"
  BY DEF Init, Asked, Idle
<1>2. DOMAIN wire = {}
  BY <1>1
<1>3. QED
  BY <1>1, <1>2 DEF NewsInv, LastShows

\* A request that does not announce leaves it to be announced, or changes nothing of the task.
LEMMA UnannouncedKept ==
    ASSUME NEW w \in Writers, tx \in [Writers -> TxRecord], tx' = [tx EXCEPT ![w] = tx'[w]],
           \/ tx[w].pc \notin {"late", "lateRead", "lateBuilt"}
           \/ tx'[w].pc \in {"late", "lateRead", "lateBuilt"} /\ tx'[w].task = tx[w].task
    PROVE  \A t \in Tasks : Unannounced(t) => Unannounced(t)'
<1>1. \A v \in Writers : v # w => tx'[v] = tx[v]
  OBVIOUS
<1>2. QED
  BY <1>1 DEF Unannounced

LEMMA PublishedNews ==
    ASSUME TypeOK, NewsInv, NEW t \in Tasks, NEW d \in DtoRecord, NEW r,
           Announces(t, d, r), Newest'[t] = Listed(r, run[t]),
           UNCHANGED <<connected, board, fetch>>,
           NEW u \in Tasks, ~stale'[u], u # t => Newest'[u] = Newest[u] /\ ~Unannounced(u)
    PROVE  NewsOf(u)'
<1> DEFINE m == [task |-> t, dto |-> d]
<1>1. wire' = IF connected THEN Append(wire, m) ELSE wire
  BY DEF Announces
<1>2. stale' = [stale EXCEPT ![t] = Shown(d) # Listed(r, run[t])]
  BY DEF Announces
<1>w. wire \in Seq(Message)
  BY DEF TypeOK
<1>3. CASE u = t
  <2>1. Shown(d) = Newest'[t]
    BY <1>2, <1>3 DEF TypeOK
  <2>2. CASE connected
    <3>1. Holds(wire', t) /\ LastShows(wire', t, Newest'[t])
      BY <1>1, <1>w, <2>1, <2>2, AppendNews
    <3>2. OnWire(t)'
      BY <3>1 DEF Holds, OnWire
    <3>3. QED
      BY <1>3, <3>1, <3>2 DEF NewsOf, LastShows
  <2>3. CASE ~connected
    <3>1. wire' = <<>> /\ DOMAIN wire' = {}
      BY <1>1, <2>3 DEF NewsInv
    <3>2. QED
      BY <2>3, <3>1 DEF NewsOf, LastShows
  <2>4. QED
    BY <2>2, <2>3
<1>4. CASE u # t
  <2>1. ~stale[u] /\ NewsOf(u)
    BY <1>2, <1>4 DEF NewsInv, NewsOf, TypeOK
  <2>2. LastShows(wire, u, Newest'[u])
    BY <1>4, <2>1 DEF NewsOf
  <2>3. LastShows(wire', u, Newest'[u])
    BY <1>1, <1>4, <1>w, <2>2, AppendNews
  <2>4. (OnWire(u) => OnWire(u)') /\ (Opening => Opening')
    BY <1>1, <1>w, AppendNews DEF Holds, HasOpened, OnWire, Opening
  <2>5. QED
    BY <1>4, <2>1, <2>3, <2>4 DEF NewsOf, LastShows
<1>5. QED
  BY <1>3, <1>4

\* What the stream and the browser do to the news of a task.
LEMMA BrowserNews ==
    ASSUME TypeOK, RequestInv, NewsInv, Browser \/ Drops \/ Refetches,
           NEW t \in Tasks, ~stale'[t], ~Unannounced(t)'
    PROVE  NewsOf(t)'
<1>1. UNCHANGED <<row, run, lock, tx>>
  BY DEF Browser, Drops, Refetches, Connects, Opens, Receives, FetchReadsTasks, FetchReadsRuns,
         FetchLands, table
<1>2. Newest' = Newest /\ ~Unannounced(t)
  BY <1>1 DEF Newest, Latest, Unannounced
<1>3. ~stale[t] => NewsOf(t)
  BY <1>2 DEF NewsInv, NewsOf
<1>w. wire \in Seq(Message)
  BY DEF TypeOK
<1>4. CASE Connects
  <2>1. wire' = <<Opened>> /\ DOMAIN wire' = {1} /\ wire'[1] = Opened
    BY <1>4 DEF Connects
  <2>2. Opened.task # t
    BY NullAssumption DEF Opened
  <2>3. Opening' /\ LastShows(wire', t, Newest'[t])
    BY <2>1, <2>2 DEF Opening, LastShows
  <2>4. QED
    BY <2>3 DEF NewsOf, LastShows
<1>5. CASE Drops
  <2>1. ~connected' /\ wire' = <<>> /\ DOMAIN wire' = {}
    BY <1>5 DEF Drops
  <2>2. QED
    BY <2>1 DEF NewsOf, LastShows
<1>6. CASE Opens
  <2>1. wire # <<>> /\ wire' = Tail(wire) /\ stale' = stale /\ fetch'.pc # "idle"
    BY <1>6 DEF Opens, Asked, Idle
  <2>2. LastShows(wire', t, Newest'[t])
    BY <1>2, <1>3, <1>w, <2>1, TailNews DEF NewsOf
  <2>3. QED
    BY <2>1, <2>2, FetchingNews
<1>7. CASE Receives
  <2>1. /\ wire # <<>> /\ Head(wire) # Opened /\ wire' = Tail(wire)
        /\ stale' = stale /\ fetch' = fetch /\ connected' = connected
        /\ board' = Applied(Head(wire).task, Head(wire).dto)
    BY <1>7 DEF Receives
  <2>2. NewsOf(t) /\ LastShows(wire', t, Newest'[t])
    BY <1>2, <1>3, <1>w, <2>1, TailNews DEF NewsOf
  <2>3. ASSUME connected', fetch'.pc = "idle", ~OnWire(t)', ~Opening'
        PROVE  board'[t] = Newest'[t]
    <3>1. ~Holds(Tail(wire), t) /\ ~HasOpened(Tail(wire))
      BY <2>1, <2>3 DEF OnWire, Opening, Holds, HasOpened
    <3>2. board # NotLoaded /\ board \in List
      BY <2>1, <2>3 DEF TypeOK
    <3>3. Head(wire).task \in Tasks /\ board' = [board EXCEPT ![Head(wire).task] = Shown(Head(wire).dto)]
      <4>1. Head(wire) \in Message
        BY <1>w, <2>1
      <4>2. QED
        BY <2>1, <3>2, <4>1 DEF Applied, Message
    <3>4. CASE Head(wire).task = t
      <4>1. Shown(Head(wire).dto) = Newest[t]
        BY <1>w, <2>1, <2>2, <3>1, <3>4, TailNews DEF NewsOf
      <4>2. QED
        BY <1>2, <3>2, <3>3, <3>4, <4>1 DEF List
    <3>5. CASE Head(wire).task # t
      <4>1. ~Holds(wire, t) /\ ~HasOpened(wire)
        BY <1>w, <2>1, <3>1, <3>5, TailNews
      <4>2. board[t] = Newest[t]
        BY <2>1, <2>2, <2>3, <4>1 DEF NewsOf, Holds, HasOpened, OnWire, Opening
      <4>3. QED
        BY <1>2, <3>2, <3>3, <3>5, <4>2 DEF List
    <3>6. QED
      BY <3>4, <3>5
  <2>4. QED
    BY <2>2, <2>3 DEF NewsOf, LastShows
<1>8. CASE Refetches \/ FetchReadsTasks \/ FetchReadsRuns
  <2>1. fetch'.pc # "idle" /\ wire' = wire /\ stale' = stale
    BY <1>8 DEF Refetches, FetchReadsTasks, FetchReadsRuns, Asked, Idle, stream, TypeOK
  <2>2. LastShows(wire', t, Newest'[t])
    BY <1>2, <1>3, <2>1 DEF NewsOf
  <2>3. QED
    BY <2>1, <2>2, FetchingNews
<1>9. CASE FetchLands
  <2>1. /\ board' = fetch.list /\ wire' = wire /\ fetch.pc # "idle" /\ connected' = connected
        /\ stale' = [u \in Tasks |-> IF OnWire(u) THEN stale[u] ELSE fetch.list[u] # Newest[u]]
    BY <1>9 DEF FetchLands, stream
  <2>2. CASE OnWire(t)
    <3>1. NewsOf(t) /\ OnWire(t)'
      BY <1>3, <2>1, <2>2 DEF OnWire
    <3>2. QED
      BY <1>2, <2>1, <3>1 DEF NewsOf, LastShows
  <2>3. CASE ~OnWire(t)
    <3>1. board'[t] = Newest[t]
      BY <2>1, <2>3
    <3>2. LastShows(wire', t, Newest'[t])
      BY <2>1, <2>3 DEF OnWire, LastShows
    <3>3. QED
      BY <1>2, <3>1, <3>2 DEF NewsOf, LastShows
  <2>4. QED
    BY <2>2, <2>3
<1>10. QED
  BY <1>4, <1>5, <1>6, <1>7, <1>8, <1>9 DEF Browser

\* What the requests do to it.
LEMMA RequestNews ==
    ASSUME TypeOK, RequestInv, LockInv, NewsInv, NEW w \in Writers, Edit(w) \/ Goes(w) \/ RollsBack(w),
           NEW t \in Tasks, ~stale'[t], ~Unannounced(t)'
    PROVE  NewsOf(t)'
<1>t. tx \in [Writers -> TxRecord] /\ tx' \in [Writers -> TxRecord] /\ TypeOK'
  BY EditTyped, GoesTyped, RollsBackTyped DEF TypeOK
<1>n. ~stale[t] /\ ~Unannounced(t) => NewsOf(t)
  BY DEF NewsInv, NewsOf
<1>1. CASE ToolWrites(w) \/ ToolUpdates(w) \/ Puts(w) \/ Moves(w) \/ Creates(w) \/ Completes(w)
  <2>1. PICK u \in Tasks, request \in TxRecord :
              /\ Writes(w, u, request) /\ tx[w].pc \in {"new", "opened"}
              /\ request.pc \in {"written", "built"} /\ request.new \in Row
              /\ row[u] # Absent /\ row[u].done => request.new.done
    BY <1>1, WritingEdit
  <2>2. Newest'[t] = Newest[t]
    BY <2>1, WritesStep DEF Active
  <2>3. tx' = [tx EXCEPT ![w] = tx'[w]]
    BY <1>t, <2>1 DEF Writes
  <2>4. ~Unannounced(t)
    BY <1>t, <2>1, <2>3, UnannouncedKept
  <2>5. UNCHANGED <<wire, connected, board, fetch, stale>>
    BY <2>1 DEF Writes, client, stream
  <2>6. QED
    BY <1>n, <2>2, <2>4, <2>5, SameNews
<1>2. CASE \/ OpensDialog(w) \/ ToolReads(w) \/ Drags(w) \/ Refused(w)
           \/ FinishesTask(w) \/ AddsTask(w) \/ RunChanges(w)
  <2>1. ~Unannounced(t)
    BY <1>2, <1>t, PlainEdit, UnannouncedKept
  <2>2. row'[t] = row[t] /\ run'[t] = run[t]
    BY <1>2, PlainEdit DEF Unannounced
  <2>3. Newest'[t] = Newest[t]
    BY <1>2, <2>2, PlainEdit, UnlockedStep DEF Active
  <2>4. UNCHANGED <<connected, wire, board>>
    BY <1>2, PlainEdit
  <2>5. CASE UNCHANGED <<fetch, stale>>
    BY <1>n, <2>1, <2>3, <2>4, <2>5, SameNews
  <2>6. CASE Drags(w)
    <3>1. stale'[t] = IF fetch.pc = "idle" \/ OnWire(t) THEN stale[t] ELSE TRUE
      BY <2>6 DEF Drags
    <3>2. (fetch.pc = "idle" \/ OnWire(t)) /\ NewsOf(t)
      BY <1>n, <2>1, <3>1
    <3>3. QED
      BY <2>3, <2>4, <3>2 DEF NewsOf, LastShows, OnWire, Opening
  <2>7. QED
    BY <1>2, <2>5, <2>6, PlainEdit
<1>3. CASE LooksUpRun(w)
  <2>0. /\ tx'[w] \in TxRecord /\ tx' = [tx EXCEPT ![w] = tx'[w]]
        /\ tx[w].pc = "written" /\ tx'[w].pc = "built"
        /\ tx'[w].task = tx[w].task /\ tx'[w].new = tx[w].new
        /\ UNCHANGED <<row, run, lock>>
    <3>1. tx[w].pc = "written" /\ ~Publishes(w)
      BY <1>3 DEF LooksUpRun, Publishes
    <3>2. QED
      BY <1>3, <3>1, OngoingStep
  <2>a. ~Unannounced(t)
    BY <1>t, <2>0, UnannouncedKept
  <2>b. Newest'[t] = Newest[t]
    BY <2>0, ActiveStep DEF Active
  <2>1. Newest'[t] = Newest[t] /\ ~Unannounced(t)
    BY <2>a, <2>b
  <2>2. UNCHANGED <<wire, connected, board, fetch, stale>>
    BY <1>3 DEF LooksUpRun, client, stream
  <2>3. QED
    BY <1>n, <2>1, <2>2, SameNews
<1>4. CASE Publishes(w)
  <2> DEFINE d == Dto(tx[w].new, tx[w].state)
  <2>1. tx[w].task \in Tasks /\ tx[w].new \in Row /\ d \in DtoRecord
    BY <1>4, <1>t, DtoTyped DEF Publishes, RequestInv, TxRecord
  <2>2. /\ Newest'[tx[w].task] = Listed(tx[w].new, run[tx[w].task])
        /\ t # tx[w].task => Newest'[t] = Newest[t]
        /\ ~Unannounced(t)
    BY <1>4, <1>t, <2>1, OngoingStep, ActiveStep, UnannouncedKept DEF Active
  <2>3. Announces(tx[w].task, d, tx[w].new) /\ UNCHANGED <<connected, board, fetch>>
    BY <1>4 DEF Publishes, client
  <2> HIDE DEF d
  <2>4. QED
    BY <2>1, <2>2, <2>3, PublishedNews
<1>5. CASE Commits(w) \/ RollsBack(w)
  <2>1. ~Unannounced(t)
    BY <1>5, <1>t, EndingStep, UnannouncedKept DEF Active
  <2>2. UNCHANGED <<wire, connected, board, fetch>> /\ ~stale[t]
        /\ (RollsBack(w) /\ tx[w].pc = "published" => t # tx[w].task)
    BY <1>5 DEF Commits, RollsBack, client, stream, TypeOK
  <2>3. Newest'[t] = Newest[t]
    BY <1>5, <2>2, EndingStep, EndStep DEF Active
  <2>4. QED
    BY <1>n, <2>1, <2>2, <2>3, SameNews
<1>6. CASE RevertsDrag(w) \/ LateReadsTask(w) \/ LateReadsRun(w)
  <2>1. Newest'[t] = Newest[t]
    BY <1>6, FreeStep, UnlockedStep DEF Active
  <2>2. ~Unannounced(t)
    BY <1>6, <1>t, FreeStep, UnannouncedKept DEF RevertsDrag, LateReadsTask, LateReadsRun
  <2>3. UNCHANGED <<wire, connected, stale>>
    BY <1>6 DEF RevertsDrag, LateReadsTask, LateReadsRun, stream
  <2>4. CASE RevertsDrag(w)
    <3>1. fetch'.pc # "idle" /\ LastShows(wire', t, Newest'[t])
      BY <1>n, <2>1, <2>2, <2>3, <2>4 DEF RevertsDrag, Asked, Idle, NewsOf
    <3>2. QED
      BY <3>1, FetchingNews
  <2>5. CASE LateReadsTask(w) \/ LateReadsRun(w)
    BY <1>n, <2>1, <2>2, <2>3, <2>5, SameNews DEF LateReadsTask, LateReadsRun, client
  <2>6. QED
    BY <1>6, <2>4, <2>5
<1>7. CASE Responds(w)
  <2> DEFINE u == tx[w].task
             d == Dto(tx[w].new, tx[w].state)
  <2>1. Newest'[t] = Newest[t] /\ ~Unannounced(t)
    BY <1>7, <1>t, FreeStep, UnlockedStep, UnannouncedKept DEF Active, Responds
  <2>2. /\ UNCHANGED <<wire, connected, fetch>>
        /\ board' = board \/ board' = Merged(u, d) \/ board' = Replaced(u, d)
        /\ stale' = [stale EXCEPT ![u] = IF OnWire(u) \/ board' = board THEN @ ELSE board'[u] # Newest[u]]
    BY <1>7 DEF Responds, stream
  <2> HIDE DEF d
  <2>3. CASE t = u /\ ~OnWire(t) /\ board' # board
    <3>1. board'[t] = Newest[t]
      BY <2>2, <2>3 DEF TypeOK
    <3>2. QED
      BY <2>1, <2>2, <2>3, <3>1 DEF NewsOf, LastShows, OnWire
  <2>4. CASE t # u \/ OnWire(t) \/ board' = board
    <3>1. ~stale[t] /\ NewsOf(t)
      BY <1>n, <2>1, <2>2, <2>4 DEF TypeOK
    <3>2. (fetch.pc = "idle" /\ ~OnWire(t)) => board'[t] = board[t]
      BY <2>2, <2>4 DEF Merged, Replaced, TypeOK, List
    <3>3. QED
      BY <2>1, <2>2, <3>1, <3>2 DEF NewsOf, LastShows, OnWire, Opening
  <2>5. QED
    BY <2>3, <2>4
<1>8. CASE LatePublishes(w)
  <2> DEFINE d == Dto(tx[w].read, tx[w].state)
  <2>1. tx[w].task \in Tasks /\ d \in DtoRecord
    BY <1>8, <1>t, DtoTyped DEF LatePublishes, RequestInv, TxRecord
  <2>2. \A u \in Tasks : Newest'[u] = Newest[u]
    BY <1>8, FreeStep, UnlockedStep DEF Active
  <2>3. t # tx[w].task => ~Unannounced(t)
    BY <1>8, <1>t, FreeStep DEF Unannounced
  <2>4. /\ Announces(tx[w].task, d, Latest(tx[w].task))
        /\ UNCHANGED <<connected, board, fetch>>
    BY <1>8 DEF LatePublishes, client
  <2>5. Newest'[tx[w].task] = Listed(Latest(tx[w].task), run[tx[w].task])
    BY <2>1, <2>2 DEF Newest
  <2> HIDE DEF d
  <2>6. QED
    BY <2>1, <2>2, <2>3, <2>4, <2>5, PublishedNews
<1>9. QED
  BY <1>1, <1>2, <1>3, <1>4, <1>5, <1>6, <1>7, <1>8 DEF Edit, Goes

\* The news is kept by every step.
LEMMA NewsStep ==
    ASSUME TypeOK, RequestInv, LockInv, NewsInv, [Next]_vars PROVE NewsInv'
<1>1. ~connected' => wire' = <<>>
  <2>1. CASE \E w \in Writers : Edit(w)
    <3>1. UNCHANGED <<connected, wire>>
      BY ZenonT(60), <2>1 DEF Edit, OpensDialog, ToolReads, Drags, ToolWrites, ToolUpdates, Puts, Moves, Refused,
                  Creates, Completes, FinishesTask, AddsTask, RunChanges, Writes, stream
    <3>2. QED
      BY <3>1 DEF NewsInv
  <2>2. CASE \E w \in Writers : Goes(w) \/ RollsBack(w)
    <3>1. UNCHANGED connected /\ (~connected => wire' = wire)
      BY <2>2 DEF Goes, RollsBack, LooksUpRun, Publishes, Commits, Responds, RevertsDrag, LateReadsTask,
                  LateReadsRun, LatePublishes, Announces, stream
    <3>2. QED
      BY <3>1 DEF NewsInv
  <2>3. CASE Browser \/ Drops \/ Refetches \/ UNCHANGED vars
    BY <2>3 DEF NewsInv, Browser, Drops, Refetches, Connects, Opens, Receives, FetchReadsTasks,
              FetchReadsRuns, FetchLands, stream, vars
  <2>4. QED
    BY <2>1, <2>2, <2>3 DEF Next
<1>2. ASSUME NEW t \in Tasks, ~stale'[t], ~Unannounced(t)' PROVE NewsOf(t)'
  <2>1. CASE UNCHANGED vars
    <3>1. NewsOf(t)
      BY <1>2, <2>1 DEF NewsInv, NewsOf, Unannounced, vars
    <3>2. Newest'[t] = Newest[t]
      BY <2>1 DEF Newest, Latest, vars, table
    <3>3. QED
      BY <2>1, <3>1, <3>2, SameNews DEF vars, client, stream
  <2>2. QED
    BY <1>2, <2>1, BrowserNews, RequestNews DEF Next
<1>3. QED
  BY <1>1, <1>2 DEF NewsInv, NewsOf

\* With everything received and nothing being fetched, the list shows each settled task as the table
\* has it, unless its last news was overtaken or undone.
THEOREM BoardCurrent == Spec => []BoardIsCurrent
<1>1. TypeOK /\ LockInv /\ NewsInv => BoardIsCurrent
  <2> SUFFICES ASSUME TypeOK, LockInv, NewsInv, Delivered, NEW t \in Tasks, ~Unsettled(t), ~stale[t]
               PROVE  board[t] = Table[t]
    BY DEF BoardIsCurrent
  <2>1. connected /\ wire = <<>> /\ fetch.pc = "idle"
    BY DEF Delivered
  <2>2. ~OnWire(t) /\ ~Opening
    BY <2>1 DEF OnWire, Opening
  <2>3. ~Unannounced(t)
    BY DEF Unsettled
  <2>4. board[t] = Newest[t]
    BY <2>1, <2>2, <2>3 DEF NewsInv
  <2>5. Latest(t) = row[t]
    <3>1. lock[t] # Nobody => lock[t] \in Writers /\ tx[lock[t]].task = t
      BY DEF TypeOK, LockInv
    <3>2. QED
      BY <3>1 DEF Latest, Unsettled
  <2>6. QED
    BY <2>4, <2>5 DEF Newest, Table
<1>2. Init => LockInv
  BY DEF Init, LockInv, NewTx
<1>3. TypeOK /\ RequestInv /\ LockInv /\ NewsInv /\ [Next]_vars => LockInv' /\ NewsInv'
  <2>1. LockInv /\ UNCHANGED vars => LockInv'
    BY DEF vars, table, LockInv
  <2>2. QED
    BY <2>1, LockStep, NewsStep
<1>4. QED
  BY <1>1, <1>2, <1>3, NewsOfInit, TypeCorrect, PTL DEF Spec

-----------------------------------------------------------------------------
(* The pages of the tab (WebClient): the connection test of the edit dialog.*)
(* What was tested is what the fields hold, the token aside when it was the  *)
(* stored one.                                                               *)
Of(of) == of = [Tests!Entered EXCEPT !.token = IF fields.token = NoToken THEN of.token ELSE @]

(* A test that goes on has a token, which the API has let in before Git is   *)
(* asked, and it is about the fields unless they have changed; so is a       *)
(* verdict.                                                                  *)
TestInv ==
  /\ test = [at |-> test.at, kind |-> test.kind, of |-> test.of, api |-> test.api,
             edited |-> test.edited]
  /\ test.of = [type |-> test.of.type, host |-> test.of.host, path |-> test.of.path,
                token |-> test.of.token]
  /\ test.kind \in {"typed", "stored"} /\ test.edited \in BOOLEAN
  /\ test.at \in {"api", "git", "succeeded"} => test.of.token # NoToken
  /\ test.at = "sent" /\ test.kind = "typed" => test.of.token # NoToken
  /\ test.at = "sent" /\ test.kind = "stored" /\ ~test.edited => fields.token = NoToken
  /\ test.at \in {"git", "succeeded"} => test.api
  /\ test.at # "none" /\ ~test.edited => Of(test.of)
  /\ verdict.ok /\ ~late => verdict.api /\ Of(verdict.of) /\ verdict.of.token # NoToken

LEMMA TestsStart == Tests!Init => TestInv
  BY DEF Tests!Init, TestInv, Tests!NoTest, Tests!NoVerdict

\* The fields are as they were.
LEMMA TestMoves ==
  ASSUME TestInv, fields' = fields, verdict' = verdict, late' = late,
         Tests!ServesTyped \/ Tests!ServesStored \/ Tests!ApiAnswers \/ Tests!GitAnswers \/ Tests!Breaks
  PROVE  TestInv'
<1>1. Tests!Entered' = Tests!Entered
  BY DEF Tests!Entered, Tests!PathOf
<1> DEFINE e == Tests!Entered
<1>2. CASE Tests!ServesTyped
  BY <1>1, <1>2 DEF TestInv, Of, Tests!ServesTyped, Tests!Serves
<1>3. CASE Tests!ServesStored
  BY <1>1, <1>3 DEF TestInv, Of, Tests!ServesStored, Tests!Serves
<1>4. CASE Tests!ApiAnswers
  BY <1>1, <1>4 DEF TestInv, Of, Tests!ApiAnswers, Tests!Serves
<1>5. CASE Tests!GitAnswers
  BY <1>1, <1>5 DEF TestInv, Of, Tests!GitAnswers, Tests!Serves
<1>6. CASE Tests!Breaks
  BY <1>1, <1>6 DEF TestInv, Of, Tests!Breaks
<1>7. QED
  BY <1>2, <1>3, <1>4, <1>5, <1>6

LEMMA TestsEdited ==
  ASSUME TestInv, test' = [test EXCEPT !.edited = TRUE], verdict' = Tests!NoVerdict
  PROVE  TestInv'
  BY DEF TestInv, Tests!NoVerdict

LEMMA TestsStay == TestInv /\ [Tests!Next]_tests => TestInv'
<1> SUFFICES ASSUME TestInv, [Tests!Next]_tests PROVE TestInv'
  OBVIOUS
<1>1. fields' = fields => Tests!Entered' = Tests!Entered
  BY DEF Tests!Entered, Tests!PathOf
<1>2. fields' = fields /\ test' = test /\ verdict' = verdict /\ late' = late => TestInv'
  BY <1>1 DEF TestInv, Of
<1>3. CASE UNCHANGED tests
  BY <1>2, <1>3 DEF tests
<1>4. CASE Tests!Opens
  BY <1>4, TestsEdited DEF Tests!Opens, Tests!Refills
<1>5. CASE Tests!Dismisses
  BY <1>2, <1>5 DEF Tests!Dismisses
<1>6. CASE Tests!Leaves
  BY <1>6 DEF Tests!Leaves, TestInv, Tests!NoVerdict, Tests!NoTest
<1>7. ASSUME NEW new, Tests!Edits(new) PROVE TestInv'
  BY <1>7, TestsEdited DEF Tests!Edits
<1>8. CASE Tests!AsksTyped \/ Tests!AsksStored
  <2>1. PICK kind \in {"typed", "stored"} :
          Tests!Asks(kind) /\ (IF kind = "typed" THEN fields.token # NoToken ELSE fields.token = NoToken)
    BY <1>8 DEF Tests!AsksTyped, Tests!AsksStored
  <2> DEFINE e == Tests!Entered
  <2>2. /\ e = [type |-> e.type, host |-> e.host, path |-> e.path, token |-> e.token]
        /\ e.token = fields.token
    BY DEF Tests!Entered
  <2>3. e = [e EXCEPT !.token = IF fields.token = NoToken THEN e.token ELSE @]
    BY <2>2
  <2>4. /\ test' = [at |-> "sent", kind |-> kind, of |-> e, api |-> FALSE, edited |-> FALSE]
        /\ verdict' = Tests!NoVerdict /\ fields' = fields /\ Tests!Entered' = e
    BY <1>1, <2>1 DEF Tests!Asks
  <2> HIDE DEF e
  <2>5. verdict'.ok = FALSE
    BY <2>4 DEF Tests!NoVerdict
  <2>6. Of(e)'
    BY <2>3, <2>4 DEF Of, e
  <2>7. QED
    BY <2>1, <2>2, <2>4, <2>5, <2>6 DEF TestInv, Of
<1>9. CASE Tests!Saves \/ Tests!OthersSave
  BY <1>2, <1>9, TestsEdited DEF Tests!Saves, Tests!OthersSave, Tests!Refills
<1>10. CASE Tests!ServesTyped \/ Tests!ServesStored \/ Tests!ApiAnswers \/ Tests!GitAnswers \/ Tests!Breaks
  BY <1>10, TestMoves DEF Tests!ServesTyped, Tests!ServesStored, Tests!ApiAnswers, Tests!GitAnswers,
    Tests!Breaks, Tests!Only
<1>11. CASE Tests!Answers
  BY <1>1, <1>11 DEF Tests!Answers, TestInv, Of, Tests!NoTest
<1>12. QED
  BY <1>3, <1>4, <1>5, <1>6, <1>7, <1>8, <1>9, <1>10, <1>11
  DEF Tests!Next, Tests!SelectsType, Tests!TypesRepository, Tests!SwitchesHosting, Tests!TypesHost, Tests!TypesToken

LEMMA TestsHold == ClientSpec => []TestInv
<1>1. ClientInit => TestInv
  BY TestsStart DEF ClientInit
<1>2. TestInv /\ [ClientNext]_clientVars => TestInv'
  BY TestsStay DEF ClientNext, clientVars
<1>3. QED
  BY <1>1, <1>2, PTL DEF ClientSpec

\* The verdict on the screen is about what the fields hold, unless they changed
\* while it was under way (useTestForgeConnection, ProjectDialog).
THEOREM VerdictIsOfTheFields == ClientSpec => []VerdictFits
<1>1. TestInv => VerdictFits
  BY DEF TestInv, VerdictFits, Tests!VerdictFits, Of
<1>2. QED
  BY <1>1, TestsHold, PTL

-----------------------------------------------------------------------------
(* The settings dialog.                                                      *)
SettingsShape ==
  /\ workspace = [name |-> workspace.name, sandbox |-> workspace.sandbox]
  /\ cache = [name |-> cache.name, sandbox |-> cache.sandbox]
  /\ queries = [name |-> queries.name, sandbox |-> queries.sandbox]
  /\ save = [part \in Settings!Parts |-> save[part]]
  /\ \A part \in Settings!Parts :
       /\ save[part] = [at |-> save[part].at, body |-> save[part].body,
                        touched |-> save[part].touched, told |-> save[part].told]
       /\ queries[part] = [at |-> queries[part].at, data |-> queries[part].data,
                           old |-> queries[part].old]

(* Until the tab may have missed a sandbox type, what it has cached, what a  *)
(* query has read and what a save left alone is the type that is stored; a   *)
(* save whose answer is under way has stored its own.                        *)
SandboxInv ==
  ~overtaken =>
    /\ save["sandbox"].at = "stored" => workspace.sandbox = save["sandbox"].body
    /\ save["sandbox"].at # "stored" => cache.sandbox \in {Unknown, workspace.sandbox}
    /\ queries["sandbox"].at = "read" /\ ~queries["sandbox"].old => queries["sandbox"].data = workspace.sandbox
    /\ save["sandbox"].at = "sent" /\ ~save["sandbox"].touched /\ save["sandbox"].told
         => save["sandbox"].body = workspace.sandbox

DialogInv == SettingsShape /\ SandboxInv

LEMMA BothParts == Settings!Parts = {"name", "sandbox"}
  BY DEF Settings!Parts

LEMMA DialogStart == Settings!Init => DialogInv
<1> SUFFICES ASSUME Settings!Init PROVE DialogInv
  OBVIOUS
<1>1. save = [part \in Settings!Parts |-> Settings!NoRequest] /\ overtaken = FALSE
      /\ cache = [name |-> workspace.name, sandbox |-> Unknown]
      /\ workspace \in [name : Names, sandbox : Settings!Choices]
  BY DEF Settings!Init
<1>2. queries.name = Settings!NoFetch /\ queries.sandbox = [Settings!NoFetch EXCEPT !.at = "asked"]
      /\ queries = [name |-> queries.name, sandbox |-> queries.sandbox]
  BY DEF Settings!Init
<1>3. SettingsShape
  BY <1>1, <1>2, BothParts DEF SettingsShape, Settings!NoRequest, Settings!NoFetch
<1>4. SandboxInv
  BY <1>1, <1>2, BothParts DEF SandboxInv, Settings!NoRequest, Settings!NoFetch
<1>5. QED
  BY <1>3, <1>4 DEF DialogInv

\* A request of a save, changed.
IsRequest(r) == r = [at |-> r.at, body |-> r.body, touched |-> r.touched, told |-> r.told]

LEMMA RequestOf ==
  ASSUME NEW at, NEW body
  PROVE  /\ IsRequest([[Settings!NoRequest EXCEPT !.at = at] EXCEPT !.body = body])
         /\ [[Settings!NoRequest EXCEPT !.at = at] EXCEPT !.body = body].at = at
         /\ [[Settings!NoRequest EXCEPT !.at = at] EXCEPT !.body = body].body = body
<1> DEFINE r == [Settings!NoRequest EXCEPT !.at = at]
<1>1. r \in [at : {at}, body : {Default}, touched : {FALSE}, told : {FALSE}]
  BY DEF Settings!NoRequest
<1> HIDE DEF r
<1>2. IsRequest([r EXCEPT !.body = body]) /\ [r EXCEPT !.body = body].at = at
      /\ [r EXCEPT !.body = body].body = body
  BY <1>1 DEF IsRequest
<1>3. QED
  BY <1>2 DEF r

\* A row that is written makes old what a query has read of it.
Written(part, v) ==
  /\ workspace' = [name |-> workspace'.name, sandbox |-> workspace'.sandbox]
  /\ queries' = [name |-> queries'.name, sandbox |-> queries'.sandbox]
  /\ \A p \in Settings!Parts :
       queries'[p] = [at |-> queries'[p].at, data |-> queries'[p].data, old |-> queries'[p].old]
  /\ queries'["sandbox"].at = queries["sandbox"].at
  /\ queries'["sandbox"].data = queries["sandbox"].data
  /\ queries'["sandbox"].old = IF part = "sandbox" THEN queries["sandbox"].at = "read"
                                ELSE queries["sandbox"].old
  /\ workspace'.sandbox = IF part = "sandbox" THEN v ELSE workspace.sandbox

LEMMA RowWritten ==
  ASSUME SettingsShape, NEW part \in Settings!Parts, NEW v, Settings!Writes(part, v)
  PROVE  Written(part, v)
<1>1. CASE part = "name"
  <2>1. workspace' = [workspace EXCEPT !.name = v]
        /\ queries' = [queries EXCEPT !.name.old = (queries.name.at = "read")]
    BY <1>1 DEF Settings!Writes
  <2>2. QED
    BY <1>1, <2>1, BothParts DEF SettingsShape, Written
<1>2. CASE part = "sandbox"
  <2>1. workspace' = [workspace EXCEPT !.sandbox = v]
        /\ queries' = [queries EXCEPT !.sandbox.old = (queries.sandbox.at = "read")]
    BY <1>2 DEF Settings!Writes
  <2>2. QED
    BY <1>2, <2>1, BothParts DEF SettingsShape, Written
<1>3. QED
  BY <1>1, <1>2, BothParts

LEMMA DialogStays == DialogInv /\ [Settings!Next]_settings => DialogInv'
<1> SUFFICES ASSUME DialogInv, [Settings!Next]_settings PROVE DialogInv'
  OBVIOUS
<1>1. CASE UNCHANGED <<workspace, cache, queries, save, overtaken>>
  BY <1>1 DEF DialogInv, SettingsShape, SandboxInv
<1>2. CASE Settings!Opens \/ Settings!Cancels \/ UNCHANGED settings
  BY <1>1, <1>2 DEF Settings!Opens, Settings!Cancels, settings
<1>3. CASE Settings!Submits
  <2> DEFINE n == [Settings!NoRequest EXCEPT !.at = "sent", !.body = form.name]
             t == [at |-> "sent", body |-> Settings!Displayed,
                   touched |-> form.sandbox # Settings!Untouched, told |-> cache.sandbox # Unknown]
  <2>1. save' = [name |-> n, sandbox |-> t] /\ save["sandbox"].at = "none"
        /\ workspace' = workspace /\ cache' = cache /\ queries' = queries /\ overtaken' = overtaken
    BY <1>3, BothParts DEF Settings!Submits, Settings!Pending
  <2>2. IsRequest(n)
    BY RequestOf
  <2>3. ~t.touched /\ t.told => t.body = cache.sandbox
    BY DEF Settings!Displayed
  <2>4. IsRequest(t) /\ t.at = "sent"
    BY DEF IsRequest
  <2> HIDE DEF n, t
  <2>5. save'["name"] = n /\ save'["sandbox"] = t
    BY <2>1
  <2>6. save' = [part \in Settings!Parts |-> save'[part]]
    BY <2>1, BothParts
  <2>7. SettingsShape'
    BY <2>1, <2>2, <2>4, <2>5, <2>6, BothParts DEF DialogInv, SettingsShape, IsRequest
  <2>8. cache.sandbox # Unknown /\ ~overtaken => cache.sandbox = workspace.sandbox
    BY <2>1 DEF DialogInv, SandboxInv
  <2>9. t.told => cache.sandbox # Unknown
    BY DEF t
  <2>10. SandboxInv'
    BY <2>1, <2>3, <2>4, <2>5, <2>8, <2>9 DEF DialogInv, SandboxInv
  <2>11. QED
    BY <2>7, <2>10 DEF DialogInv
<1>4. ASSUME NEW part \in Settings!Parts, Settings!Edits(part) PROVE DialogInv'
  BY <1>1, <1>4 DEF Settings!Edits
<1>5. ASSUME NEW part \in Settings!Parts, Settings!Stores(part) PROVE DialogInv'
  <2> DEFINE new == [Settings!Ended("stored") EXCEPT !.body = save[part].body]
             v == save[part].body
  <2>1. /\ Settings!Writes(part, v) /\ save' = [save EXCEPT ![part] = new]
        /\ cache' = cache /\ overtaken' = overtaken
    BY <1>5 DEF Settings!Stores
  <2>2. IsRequest(new) /\ new.at = "stored" /\ new.body = v
    BY RequestOf DEF Settings!Ended
  <2>0. Written(part, v)
    BY <2>1, RowWritten DEF DialogInv
  <2> HIDE DEF new, v
  <2>3. \A p \in Settings!Parts : save'[p] = IF p = part THEN new ELSE save[p]
    BY <2>1 DEF DialogInv, SettingsShape
  <2>4. save' = [p \in Settings!Parts |-> save'[p]]
    BY <2>1 DEF DialogInv, SettingsShape
  <2>5. SettingsShape'
    BY <2>1, <2>2, <2>3, <2>4, <2>0 DEF DialogInv, SettingsShape, Written, IsRequest
  <2>6. CASE part = "name"
    <3>1. save'["sandbox"] = save["sandbox"]
      BY <2>3, <2>6, BothParts
    <3>2. workspace'.sandbox = workspace.sandbox /\ queries'["sandbox"].at = queries["sandbox"].at
          /\ queries'["sandbox"].data = queries["sandbox"].data
          /\ queries'["sandbox"].old = queries["sandbox"].old
      BY <2>6, <2>0 DEF Written
    <3>3. QED
      BY <2>1, <2>5, <3>1, <3>2 DEF DialogInv, SandboxInv
  <2>7. CASE part = "sandbox"
    <3>1. save'["sandbox"].at = "stored" /\ save'["sandbox"].body = v
      BY <2>2, <2>3, <2>7, BothParts
    <3>2. workspace'.sandbox = v /\ (queries'["sandbox"].at = "read" => queries'["sandbox"].old)
      BY <2>7, <2>0 DEF Written
    <3>3. QED
      BY <2>5, <3>1, <3>2 DEF DialogInv, SandboxInv
  <2>8. QED
    BY <2>5, <2>6, <2>7, BothParts DEF DialogInv
<1>6. ASSUME NEW part \in Settings!Parts, Settings!Refuses(part) PROVE DialogInv'
  BY <1>6, BothParts DEF Settings!Refuses, Settings!Ended, Settings!NoRequest,
    DialogInv, SettingsShape, SandboxInv
<1>7. ASSUME NEW part \in Settings!Parts, Settings!OtherWrites(part) PROVE DialogInv'
  <2>1. PICK v : Settings!Writes(part, v)
    BY <1>7 DEF Settings!OtherWrites
  <2>2. save' = save /\ cache' = cache /\ overtaken' = (overtaken \/ part = "sandbox")
    BY <1>7 DEF Settings!OtherWrites
  <2>3. Written(part, v)
    BY <2>1, RowWritten DEF DialogInv
  <2>4. SettingsShape'
    BY <2>2, <2>3 DEF DialogInv, SettingsShape, Written
  <2>5. SandboxInv'
    BY <2>2, <2>3, BothParts DEF DialogInv, SandboxInv, Written
  <2>6. QED
    BY <2>4, <2>5 DEF DialogInv
<1>8. ASSUME NEW part \in Settings!Parts, Settings!Succeeds(part) PROVE DialogInv'
  BY <1>8, BothParts DEF Settings!Succeeds, Settings!Caches, Settings!Settled, Settings!Ended, Settings!NoRequest,
    DialogInv, SettingsShape, SandboxInv
<1>9. ASSUME NEW part \in Settings!Parts, Settings!Rejects(part) PROVE DialogInv'
  BY <1>9, BothParts DEF Settings!Rejects, Settings!Settled, Settings!Ended, Settings!NoRequest,
    DialogInv, SettingsShape, SandboxInv
<1>10. ASSUME NEW part \in Settings!Parts, Settings!LosesAnswer(part) PROVE DialogInv'
  BY <1>10, BothParts DEF Settings!LosesAnswer, Settings!Settled, Settings!Ended, Settings!NoRequest,
    DialogInv, SettingsShape, SandboxInv
<1>11. ASSUME NEW part \in Settings!Parts, Settings!Refetches(part) \/ Settings!GivesUp(part) PROVE DialogInv'
  BY <1>11, BothParts DEF Settings!Refetches, Settings!GivesUp, Settings!NoFetch, DialogInv, SettingsShape, SandboxInv
<1>12. ASSUME NEW part \in Settings!Parts, Settings!Reads(part) PROVE DialogInv'
  BY <1>12, BothParts DEF Settings!Reads, DialogInv, SettingsShape, SandboxInv
<1>13. ASSUME NEW part \in Settings!Parts, Settings!Lands(part) PROVE DialogInv'
  BY <1>13, BothParts DEF Settings!Lands, Settings!Learns, Settings!NoFetch, DialogInv, SettingsShape, SandboxInv
<1>14. QED
  BY <1>2, <1>3, <1>4, <1>5, <1>6, <1>7, <1>8, <1>9, <1>10, <1>11, <1>12, <1>13 DEF Settings!Next

LEMMA DialogHolds == ClientSpec => []DialogInv
<1>1. ClientInit => DialogInv
  BY DialogStart DEF ClientInit
<1>2. DialogInv /\ [ClientNext]_clientVars => DialogInv'
  BY DialogStays DEF ClientNext, clientVars
<1>3. QED
  BY <1>1, <1>2, PTL DEF ClientSpec

LEMMA SettingsMove == [ClientNext]_clientVars => [Settings!Next]_settings
  BY DEF ClientNext, clientVars

\* What a step of the tab does to the settings dialog: an answer or a query may
\* close it or, if it brings another name, fill it again.
FormShape == form = [open |-> form.open, name |-> form.name, sandbox |-> form.sandbox]

LEMMA FormMoves ==
  ASSUME [Settings!Next]_settings
  PROVE  \/ form' = form \/ Settings!Opens \/ Settings!Cancels
         \/ \E part \in Settings!Parts :
              \/ Settings!Edits(part)
              \/ Settings!Succeeds(part) /\ form' \in {Settings!Closed, Settings!Shown(cache')}
              \/ Settings!Lands(part) /\ form' = Settings!Shown(cache')
<1>1. ASSUME NEW part \in Settings!Parts, Settings!Succeeds(part)
      PROVE  form' \in {Settings!Closed, Settings!Shown(cache')}
  BY <1>1 DEF Settings!Succeeds, Settings!Closes
<1>2. ASSUME NEW part \in Settings!Parts, Settings!Lands(part) PROVE form' = Settings!Shown(cache')
  BY <1>2 DEF Settings!Lands, Settings!Learns
<1>3. QED
  BY <1>1, <1>2 DEF settings, Settings!Next, Settings!Submits, Settings!Stores, Settings!OtherWrites,
    Settings!Refuses, Settings!Rejects, Settings!LosesAnswer, Settings!Refetches, Settings!Reads, Settings!GivesUp

LEMMA FormHolds == ClientSpec => []FormShape
<1>1. ClientInit => FormShape
  BY DEF ClientInit, Settings!Init, Settings!Closed, FormShape
<1>2. ASSUME FormShape, [ClientNext]_clientVars PROVE FormShape'
  <2>1. \A known : Settings!Reset(known) = [open |-> TRUE, name |-> known.name, sandbox |-> Settings!Untouched]
    BY DEF Settings!Reset
  <2>2. CASE form' = form \/ form' = Settings!Closed \/ \E known : form' = Settings!Reset(known)
    BY <1>2, <2>1, <2>2 DEF FormShape, Settings!Closed
  <2>3. CASE \E part \in Settings!Parts : Settings!Edits(part)
    BY <1>2, <2>3, BothParts DEF FormShape, Settings!Edits
  <2>4. QED
    BY <1>2, <2>2, <2>3, SettingsMove, FormMoves DEF Settings!Opens, Settings!Cancels, Settings!Shown
<1>3. QED
  BY <1>1, <1>2, PTL DEF ClientSpec

\* A settings dialog that closes by itself has stored both the name and the
\* sandbox type, in whatever order the answers came.
THEOREM NothingIsHidden == ClientSpec => ClosedMeansSaved
<1>1. ASSUME DialogInv, FormShape, [ClientNext]_clientVars, form.open, ~form'.open, ~Settings!Cancels
      PROVE  \A part \in Settings!Parts : save[part].at \in {"stored", "ok"}
  <2>1. PICK part \in Settings!Parts : Settings!Succeeds(part)
    <3>1. ASSUME NEW part \in Settings!Parts, Settings!Edits(part) PROVE FALSE
      BY <1>1, <3>1, BothParts DEF Settings!Edits, FormShape
    <3>2. Settings!Reset(cache').open
      BY DEF Settings!Reset
    <3>3. form' # form /\ ~Settings!Opens /\ form' # Settings!Shown(cache')
      BY <1>1, <3>2 DEF Settings!Opens, Settings!Shown
    <3>4. QED
      BY <1>1, <3>1, <3>3, SettingsMove, FormMoves
  <2> DEFINE answered == [save EXCEPT ![part] = Settings!Ended("ok")]
  <2>2. Settings!Both(answered)
    BY <1>1, <2>1 DEF Settings!Succeeds, Settings!Closes, Settings!Shown, Settings!Reset
  <2>3. \A p \in Settings!Parts \ {part} : answered[p] = save[p]
    BY <1>1 DEF DialogInv, SettingsShape
  <2>4. save[part].at = "stored"
    BY <2>1 DEF Settings!Succeeds
  <2> HIDE DEF answered
  <2>5. QED
    BY <2>2, <2>3, <2>4 DEF Settings!Both
<1>2. QED
  BY <1>1, DialogHolds, FormHolds, PTL DEF ClientSpec, ClosedMeansSaved, Settings!ClosedMeansSaved

\* A save of a dialog whose sandbox select was left alone stores the type that
\* is stored already, unless somebody else's change overtook the tab.
THEOREM TypeIsKept == ClientSpec => UntouchedKept
<1>1. ASSUME DialogInv, [ClientNext]_clientVars, save["sandbox"].at = "sent", save'["sandbox"].at = "stored",
             ~save["sandbox"].touched, workspace'.sandbox # workspace.sandbox
      PROVE  ~save["sandbox"].told \/ overtaken
  <2>1. CASE Settings!Stores("sandbox")
    <3>1. Settings!Writes("sandbox", save["sandbox"].body)
      BY <2>1 DEF Settings!Stores
    <3>2. workspace'.sandbox = save["sandbox"].body
      BY <1>1, <3>1, RowWritten, BothParts DEF DialogInv, Written
    <3>3. QED
      BY <1>1, <3>2 DEF DialogInv, SandboxInv
  <2>2. CASE Settings!Stores("name")
    <3>1. save'["sandbox"] = save["sandbox"]
      BY <1>1, <2>2, BothParts DEF Settings!Stores, DialogInv, SettingsShape
    <3>2. QED
      BY <1>1, <3>1
  <2>3. CASE \E part \in Settings!Parts : Settings!OtherWrites(part)
    BY <1>1, <2>3 DEF Settings!OtherWrites
  <2>4. QED
    BY <1>1, <2>1, <2>2, <2>3, SettingsMove, BothParts DEF settings, Settings!Next, Settings!Opens, Settings!Cancels,
      Settings!Submits, Settings!Edits, Settings!Refuses, Settings!Succeeds, Settings!Rejects, Settings!LosesAnswer,
      Settings!Refetches, Settings!Reads, Settings!Lands, Settings!GivesUp
<1>2. QED
  BY <1>1, DialogHolds, PTL DEF ClientSpec, UntouchedKept, Settings!UntouchedKept

-----------------------------------------------------------------------------
(* The project pages.                                                        *)
Listing(s) == \E S : s \in Seq(S)

LEMMA AppendLists ==
  ASSUME NEW s, Listing(s), NEW e
  PROVE  /\ Listing(Append(s, e)) /\ Append(s, e) # <<>>
         /\ \A i \in DOMAIN s : i \in DOMAIN Append(s, e) /\ Append(s, e)[i] = s[i]
         /\ \E i \in DOMAIN Append(s, e) : Append(s, e)[i] = e
         /\ Append(s, e)[1] = IF s = <<>> THEN e ELSE s[1]
<1>1. PICK S : s \in Seq(S)
  BY DEF Listing
<1>2. s \in Seq(S \cup {e})
  BY <1>1
<1>3. Append(s, e) \in Seq(S \cup {e}) /\ Len(s) \in Nat /\ DOMAIN s = 1..Len(s)
      /\ DOMAIN Append(s, e) = 1..(Len(s) + 1) /\ Append(s, e)[Len(s) + 1] = e
      /\ \A i \in 1..Len(s) : Append(s, e)[i] = s[i]
  BY <1>2
<1>4. s = <<>> <=> Len(s) = 0
  BY <1>1
<1>5. Listing(Append(s, e))
  BY <1>3 DEF Listing
<1>6. Append(s, e) # <<>>
  BY <1>3
<1>7. QED
  BY <1>3, <1>4, <1>5, <1>6

LEMMA OthersList ==
  ASSUME NEW s, Listing(s), NEW e
  PROVE  /\ Listing(<<e>>)
         /\ Listing([i \in DOMAIN s |-> IF s[i].id = e.id THEN e ELSE s[i]])
         /\ \A k : Listing([s EXCEPT ![k] = e])
<1>1. PICK S : s \in Seq(S)
  BY DEF Listing
<1> DEFINE o == [i \in DOMAIN s |-> IF s[i].id = e.id THEN e ELSE s[i]]
<1>2. Len(s) \in Nat /\ DOMAIN s = 1..Len(s) /\ \A i \in 1..Len(s) : s[i] \in S
  BY <1>1
<1>3. o \in [1..Len(s) -> S \cup {e}]
  BY <1>2
<1>4. o \in Seq(S \cup {e})
  <2> HIDE DEF o
  <2>1. QED
    BY <1>2, <1>3
<1>5. ASSUME NEW k
      PROVE  [s EXCEPT ![k] = e] \in Seq(S \cup {e})
  <2> DEFINE x == [s EXCEPT ![k] = e]
  <2>1. s \in [1..Len(s) -> S]
    BY <1>1
  <2>2. x \in [1..Len(s) -> S \cup {e}]
    BY <1>2, <2>1
  <2> HIDE DEF x
  <2>3. x \in Seq(S \cup {e})
    BY <1>2, <2>2
  <2>4. QED
    BY <2>3 DEF x
<1>6. <<e>> \in Seq({e})
  OBVIOUS
<1>7. QED
  BY <1>4, <1>5, <1>6 DEF Listing

LEMMA StoredLists == Listing(Pages!Stored)
<1> DEFINE n == Pages!Cardinality(Pages!Existing)
           Nth(k) == Pages!Entry(Pages!NthId(k))
<1>1. n \in Nat
  <2>1. IsFiniteSet(Pages!Existing)
    BY IdsAssumption, FS_Subset DEF Pages!Existing
  <2>2. n = Cardinality(Pages!Existing)
    BY DEF Cardinality, Pages!Cardinality
  <2>3. QED
    BY <2>1, <2>2, FS_CardinalityType
<1>2. Pages!Stored = [k \in 1..n |-> Nth(k)]
  BY DEF Pages!Stored
<1> HIDE DEF n, Nth
<1>3. [k \in 1..n |-> Nth(k)] \in Seq({Nth(k) : k \in 1..n})
  BY <1>1
<1>4. QED
  BY <1>2, <1>3 DEF Listing

\* The list, its query, the request and the dialog; an edit and what it sends
\* are about a project that was listed.
AskedOK(a, known) ==
  /\ a = [kind |-> a.kind, of |-> a.of, at |-> a.at, mounted |-> a.mounted]
  /\ a.kind \in {"update", "start", "stop"} => known

DialogOK(d, known) ==
  /\ d = [mode |-> d.mode, of |-> d.of, base |-> d.base, seen |-> d.seen, typed |-> d.typed,
          submitting |-> d.submitting]
  /\ d.mode \in {"closed", "create", "edit"}
  /\ d.mode = "edit" => known /\ d.seen = <<d.of, d.base, d.seen[3]>>

ListOK ==
  /\ list = [known |-> list.known, entries |-> list.entries] /\ list.known \in BOOLEAN
  /\ Listing(list.entries) /\ (~list.known => list.entries = <<>>)
  /\ listing = [at |-> listing.at, data |-> listing.data]
  /\ listing.at = "read" => Listing(listing.data)

ListInv == ListOK /\ AskedOK(asked, list.known) /\ DialogOK(dialog, list.known)

LEMMA ClosedIs == \A known : /\ DialogOK(Pages!Closed, known) /\ Pages!Closed.mode = "closed"
                             /\ DialogOK([Pages!Closed EXCEPT !.mode = "create"], known)
                             /\ [Pages!Closed EXCEPT !.mode = "create"].mode = "create"
                             /\ AskedOK(Pages!NoRequest, known) /\ Pages!NoRequest.kind = "none"
<1> DEFINE c == [Pages!Closed EXCEPT !.mode = "create"]
<1>1. c \in [mode : {"create"}, of : {None}, base : {0}, seen : {<<>>}, typed : {FALSE}, submitting : {FALSE}]
  BY DEF Pages!Closed
<1> HIDE DEF c
<1>2. \A known : DialogOK(c, known) /\ c.mode = "create"
  BY <1>1 DEF DialogOK
<1>3. \A known : DialogOK(Pages!Closed, known) /\ Pages!Closed.mode = "closed"
  BY DEF DialogOK, Pages!Closed
<1>4. \A known : AskedOK(Pages!NoRequest, known) /\ Pages!NoRequest.kind = "none"
  BY DEF AskedOK, Pages!NoRequest
<1>5. QED
  BY <1>2, <1>3, <1>4 DEF c

\* One field is set.
Mounted(a, v) == [a EXCEPT !.mounted = v]
Answered(a) == [a EXCEPT !.at = "done"]
AskedFor(a, p) == [a EXCEPT !.of = p]
TypedIn(d, v) == [d EXCEPT !.typed = v]
Submitting(d, v) == [d EXCEPT !.submitting = v]

LEMMA AskedStays ==
  ASSUME NEW a, NEW known, AskedOK(a, known)
  PROVE  /\ AskedOK(Answered(a), known)
         /\ \A v : /\ AskedOK(Mounted(a, v), known) /\ Mounted(a, v).kind = a.kind
                   /\ AskedOK(AskedFor(a, v), known)
  BY DEF AskedOK, Mounted, Answered, AskedFor

LEMMA EditStays ==
  ASSUME NEW d, NEW known, DialogOK(d, known)
  PROVE  \A v : DialogOK(TypedIn(d, v), known) /\ DialogOK(Submitting(d, v), known)
<1>1. ASSUME NEW v PROVE DialogOK(TypedIn(d, v), known)
  BY DEF DialogOK, TypedIn
<1>2. ASSUME NEW v PROVE DialogOK(Submitting(d, v), known)
  BY DEF DialogOK, Submitting
<1>3. QED
  BY <1>1, <1>2

LEMMA TypedInStays ==
  ASSUME NEW d, NEW known, DialogOK(d, known)
  PROVE  \A v : TypedIn(d, v).typed = v /\ Submitting(d, v).typed = d.typed
<1>1. ASSUME NEW v PROVE TypedIn(d, v).typed = v
  BY DEF DialogOK, TypedIn
<1>2. ASSUME NEW v PROVE Submitting(d, v).typed = d.typed
  BY DEF DialogOK, Submitting
<1>3. QED
  BY <1>1, <1>2

\* What is known stays known.
LEMMA KnownStays ==
  ASSUME NEW known, NEW known1, known => known1
  PROVE  /\ \A a : AskedOK(a, known) => AskedOK(a, known1)
         /\ \A d : DialogOK(d, known) => DialogOK(d, known1)
  BY DEF AskedOK, DialogOK

LEMMA CurrentKnown == ASSUME ListOK, Pages!Current # None PROVE list.known
  BY DEF ListOK, Pages!Current, Pages!IsListed, Pages!Projects

LEMMA FilledIs ==
  ASSUME list.known
  PROVE  /\ DialogOK(Pages!Filled, TRUE) /\ Pages!Filled.mode = "edit" /\ Pages!Filled.of = Pages!Current
         /\ Pages!Filled.base = Pages!Listed.settings /\ Pages!Filled.seen = Pages!Seen
<1> DEFINE c == Pages!Current
           b == Pages!Listed.settings
           o == Pages!PlaceOf(c)
           s == Pages!Seen
           f == [Pages!Closed EXCEPT !.mode = "edit", !.of = c, !.base = b, !.seen = s]
<1>1. s = <<c, b, o>>
  BY DEF Pages!Seen
<1>2. Pages!Filled = f
  BY DEF Pages!Filled
<1> HIDE DEF c, b, o, s
<1>3. /\ f \in [mode : {"edit"}, of : {c}, base : {b}, seen : {s}, typed : {FALSE}, submitting : {FALSE}]
      /\ f.mode = "edit" /\ f.of = c /\ f.base = b /\ f.seen = s
  BY DEF Pages!Closed
<1> HIDE DEF f
<1>4. f.seen[3] = o
  BY <1>1, <1>3
<1>5. DialogOK(f, TRUE)
  BY <1>1, <1>3, <1>4 DEF DialogOK
<1>6. QED
  BY <1>2, <1>3, <1>5 DEF c, b, s

LEMMA ListStarts == Pages!Init => ListInv
<1> SUFFICES ASSUME Pages!Init PROVE ListInv
  OBVIOUS
<1>1. Listing(<<>>)
  <2>1. <<>> \in Seq({})
    OBVIOUS
  <2>2. QED
    BY <2>1 DEF Listing
<1>2. listing = [at |-> "asked", data |-> <<>>]
  BY DEF Pages!Init, Pages!NoFetch
<1>3. ListOK
  BY <1>1, <1>2 DEF Pages!Init, ListOK
<1>4. QED
  BY <1>3, ClosedIs DEF Pages!Init, ListInv

\* The user's moves and the effects of the page.
LEMMA ListUsed ==
  ASSUME ListInv, Pages!Renders \/ Pages!User
  PROVE  ListInv'
<1>1. list' = list /\ listing' = listing /\ ListOK'
  BY DEF ListInv, ListOK, Pages!Renders, Pages!User, Pages!SelectsProject, Pages!GoesToAdmin, Pages!OpensCreate,
    Pages!OpensEdit, Pages!Types, Pages!Dismisses, Pages!Submits, Pages!PressesRun
<1>2. Pages!Current # None => list.known
  BY CurrentKnown DEF ListInv
<1>3. Pages!Current # None => DialogOK(Pages!Filled, list.known)
  BY <1>2, FilledIs DEF DialogOK
<1>4. CASE Pages!Renders
  <2>1. AskedOK(asked', list.known)
    <3>1. \E v : asked' = Mounted(asked, v)
      BY <1>4 DEF Pages!Renders, Mounted
    <3>2. QED
      BY <3>1, AskedStays DEF ListInv
  <2>2. \/ dialog' \in {dialog, Pages!Closed, [Pages!Closed EXCEPT !.mode = "create"]}
        \/ Pages!Resets /\ dialog' = Pages!Filled
    BY <1>4 DEF Pages!Renders
  <2>3. DialogOK(dialog', list.known)
    BY <1>3, <2>2, ClosedIs DEF ListInv, Pages!Resets
  <2>4. QED
    BY <1>1, <2>1, <2>3 DEF ListInv
<1>5. CASE Pages!GoesToAdmin \/ \E p \in Ids : Pages!SelectsProject(p)
  <2>1. dialog' = dialog /\ \E v : asked' = Mounted(asked, v)
    BY <1>5 DEF Mounted, Pages!SelectsProject, Pages!GoesToAdmin
  <2>2. AskedOK(asked', list.known)
    BY <2>1, AskedStays DEF ListInv
  <2>3. QED
    BY <1>1, <2>1, <2>2 DEF ListInv
<1>6. CASE Pages!OpensCreate \/ Pages!OpensEdit \/ Pages!Types \/ Pages!Dismisses
  <2>1. asked' = asked
    BY <1>6 DEF Pages!OpensCreate, Pages!OpensEdit, Pages!Types, Pages!Dismisses
  <2>2. \/ dialog' \in {Pages!Closed, [Pages!Closed EXCEPT !.mode = "create"]}
        \/ \E v : dialog' = TypedIn(dialog, v)
        \/ Pages!Current # None /\ dialog' = Pages!Filled
    BY <1>6 DEF TypedIn, Pages!OpensCreate, Pages!OpensEdit, Pages!Types, Pages!Dismisses
  <2>3. DialogOK(dialog', list.known)
    BY <1>3, <2>2, ClosedIs, EditStays DEF ListInv
  <2>4. QED
    BY <1>1, <2>1, <2>3 DEF ListInv
<1>7. CASE Pages!Submits
  <2>1. DialogOK(dialog', list.known)
    <3>1. dialog' = Submitting(dialog, TRUE)
      BY <1>7 DEF Submitting, Pages!Submits
    <3>2. QED
      BY <3>1, EditStays DEF ListInv
  <2>2. AskedOK(asked', list.known)
    BY <1>7 DEF ListInv, Pages!Submits, AskedOK, DialogOK
  <2>3. QED
    BY <1>1, <2>1, <2>2 DEF ListInv
<1>8. CASE Pages!PressesRun
  <2>1. dialog' = dialog /\ AskedOK(asked', list.known)
    BY <1>2, <1>8 DEF Pages!PressesRun, AskedOK
  <2>2. QED
    BY <1>1, <2>1 DEF ListInv
<1>9. QED
  BY <1>4, <1>5, <1>6, <1>7, <1>8 DEF Pages!User

\* Answers, queries and events.
LEMMA ListTold ==
  ASSUME ListInv, \/ Pages!Serves \/ Pages!Succeeds \/ Pages!Fails \/ \E p \in Ids : Pages!OthersChange(p)
                  \/ Pages!Refetches \/ Pages!Reads \/ Pages!Lands \/ Pages!GivesUp
                  \/ Pages!StreamOpens \/ Pages!StreamBreaks \/ Pages!Receives
  PROVE  ListInv'
<1> USE DEF ListInv
<1>2. Pages!NoFetch = [at |-> "idle", data |-> <<>>] /\ [Pages!NoFetch EXCEPT !.at = "asked"] = [at |-> "asked", data |-> <<>>]
  BY DEF Pages!NoFetch
<1>3. ASSUME NEW entries, Listing(entries), Pages!Caches(entries), UNCHANGED <<asked, dialog>>,
             listing' = listing \/ listing' = Pages!NoFetch
      PROVE  ListInv'
  <2>1. ListOK' /\ list'.known
    BY <1>2, <1>3 DEF ListOK, Pages!Caches
  <2>2. QED
    BY <1>3, <2>1, KnownStays
<1>4. CASE Pages!Serves
  <2>1. UNCHANGED <<list, listing, dialog>> /\ ListOK'
    BY <1>4 DEF Pages!Serves, ListOK
  <2>2. \A p : [asked EXCEPT !.at = "done", !.of = p] = AskedFor(Answered(asked), p)
    BY DEF AskedOK, AskedFor, Answered
  <2>3. asked' = Answered(asked) \/ \E p : asked' = AskedFor(Answered(asked), p)
    BY ZenonT(60), <1>4, <2>2 DEF Pages!Serves, Answered
  <2>4. AskedOK(Answered(asked), list.known)
    BY AskedStays
  <2>5. AskedOK(asked', list.known)
    BY <2>3, <2>4, AskedStays
  <2>6. QED
    BY <2>1, <2>5
<1>5. CASE Pages!Succeeds
  <2>1. asked' = Pages!NoRequest /\ listing' = listing
    BY <1>5 DEF Pages!Succeeds
  <2>2. dialog' = dialog \/ dialog' = Pages!Closed
    BY <1>5 DEF Pages!Succeeds, Pages!Created, Pages!Updated
  <2>3. \E entries : Listing(entries) /\ Pages!Caches(entries)
    <3>1. CASE Pages!Created
      BY <3>1, AppendLists DEF Pages!Created, ListOK, Pages!Projects
    <3>2. CASE Pages!Updated
      <4>1. Listing(Pages!Replaced(Pages!Entry(asked.of)))
        BY OthersList DEF Pages!Replaced, ListOK, Pages!Projects
      <4>2. QED
        BY <3>2, <4>1 DEF Pages!Updated
    <3>3. QED
      BY <1>5, <3>1, <3>2 DEF Pages!Succeeds
  <2>4. ListOK' /\ list'.known
    BY <2>1, <2>3 DEF ListOK, Pages!Caches
  <2>5. QED
    BY <2>1, <2>2, <2>4, KnownStays, ClosedIs
<1>6. CASE Pages!Fails
  <2>1. asked' = Pages!NoRequest /\ list' = list
    BY <1>6 DEF Pages!Fails
  <2>2. listing' = listing \/ listing' = [Pages!NoFetch EXCEPT !.at = "asked"]
    BY <1>6 DEF Pages!Fails
  <2>3. dialog' = dialog \/ dialog' = Submitting(dialog, FALSE)
    BY <1>6 DEF Pages!Fails, Submitting
  <2>4. ListOK'
    BY <1>2, <2>1, <2>2 DEF ListOK
  <2>5. DialogOK(dialog', list.known)
    BY <2>3, EditStays
  <2>6. QED
    BY <2>1, <2>4, <2>5, ClosedIs
<1>7. CASE Pages!Refetches \/ Pages!StreamOpens \/ Pages!GivesUp \/ Pages!StreamBreaks
           \/ \E p \in Ids : Pages!OthersChange(p)
  <2>1. UNCHANGED <<list, asked, dialog>>
    BY <1>7 DEF Pages!Refetches, Pages!StreamOpens, Pages!GivesUp, Pages!StreamBreaks, Pages!OthersChange
  <2>2. listing' \in {listing, Pages!NoFetch, [Pages!NoFetch EXCEPT !.at = "asked"]}
    BY <1>7 DEF Pages!Refetches, Pages!StreamOpens, Pages!GivesUp, Pages!StreamBreaks, Pages!OthersChange
  <2>3. ListOK'
    BY <1>2, <2>1, <2>2 DEF ListOK
  <2>4. QED
    BY <2>1, <2>3
<1>8. CASE Pages!Reads
  <2>1. ListOK'
    BY <1>8, StoredLists DEF ListOK, Pages!Reads
  <2>2. QED
    BY <1>8, <2>1 DEF Pages!Reads
<1>9. CASE Pages!Lands
  <2>1. Listing(listing.data)
    BY <1>9 DEF Pages!Lands, ListOK
  <2>2. QED
    BY <1>3, <1>9, <2>1 DEF Pages!Lands
<1>10. CASE Pages!Receives
  <2>1. Listing(Pages!Applied(Head(events.events)))
    BY OthersList, AppendLists DEF Pages!Applied, Pages!Projects, ListOK
  <2>2. QED
    BY <1>3, <1>10, <2>1 DEF Pages!Receives
<1>11. QED
  BY <1>4, <1>5, <1>6, <1>7, <1>8, <1>9, <1>10

PagesSame == UNCHANGED pages

LEMMA PagesMove ==
  ASSUME [ClientNext]_clientVars
  PROVE  PagesSame \/ Pages!Next
  BY DEF ClientNext, clientVars, PagesSame

LEMMA ListHolds == ClientSpec => []ListInv
<1>1. ClientInit => ListInv
  BY ListStarts DEF ClientInit
<1>2. ListInv /\ [ClientNext]_clientVars => ListInv'
  <2>1. ListInv /\ PagesSame => ListInv'
    BY DEF PagesSame, pages, ListInv, ListOK
  <2>2. ListInv /\ Pages!Next => ListInv'
    BY ListUsed, ListTold DEF Pages!Next
  <2>3. QED
    BY <2>1, <2>2, PagesMove
<1>3. QED
  BY <1>1, <1>2, PTL DEF ClientSpec

-----------------------------------------------------------------------------
(* What is typed survives, and what is sent is what is listed.               *)
\* The edit dialog's reset effect clears what was typed for other settings,
\* another project or another place in the list; an event of a run that starts
\* or ends does not.
THEOREM TypedSurvives == ClientSpec => EditsSurvive
<1>1. ASSUME ListInv, ListInv', [ClientNext]_clientVars,
             dialog.mode = "edit" /\ dialog'.mode = "edit" /\ dialog.typed
      PROVE  \/ dialog'.typed
             \/ dialog'.of # dialog.of
             \/ dialog'.base # dialog.base
             \/ dialog'.seen[3] # dialog.seen[3]
  <2>1. dialog.seen = <<dialog.of, dialog.base, dialog.seen[3]>>
        /\ dialog'.seen = <<dialog'.of, dialog'.base, dialog'.seen[3]>>
    BY <1>1 DEF ListInv, DialogOK
  <2>2. CASE dialog'.seen # dialog.seen
    BY <2>1, <2>2
  <2>3. CASE dialog' = dialog
    BY <1>1, <2>3
  <2>4. \A known : DialogOK(Pages!Closed, known) /\ Pages!Closed.mode # "edit"
    BY ClosedIs
  <2>5. CASE Pages!Renders
    <3>1. \/ dialog' \in {dialog, Pages!Closed, [Pages!Closed EXCEPT !.mode = "create"]}
          \/ Pages!Resets /\ dialog' = Pages!Filled
      BY <2>5 DEF Pages!Renders
    <3>2. ASSUME Pages!Resets, dialog' = Pages!Filled
          PROVE  dialog'.seen # dialog.seen
      BY <1>1, <3>2, CurrentKnown, FilledIs DEF Pages!Resets, ListInv
    <3>3. QED
      BY <1>1, <2>2, <2>3, <3>1, <3>2, ClosedIs
  <2>6. CASE Pages!Types \/ Pages!Fails \/ Pages!Submits
    <3>1. dialog' = dialog \/ (\E v : v = TRUE /\ dialog' = TypedIn(dialog, v)) \/ \E v : dialog' = Submitting(dialog, v)
      BY <2>6 DEF TypedIn, Submitting, Pages!Types, Pages!Fails, Pages!Submits
    <3>2. QED
      BY <1>1, <3>1, TypedInStays DEF ListInv
  <2>7. CASE Pages!Succeeds \/ Pages!Dismisses
    <3>1. dialog' = dialog \/ dialog' = Pages!Closed
      BY <2>7 DEF Pages!Succeeds, Pages!Created, Pages!Updated, Pages!Dismisses
    <3>2. QED
      BY <1>1, <2>3, <2>4, <3>1
  <2>8. CASE \/ Pages!GoesToAdmin \/ \E p \in Ids : Pages!SelectsProject(p) \/ Pages!OthersChange(p)
             \/ Pages!PressesRun \/ Pages!Serves \/ Pages!Refetches \/ Pages!Reads \/ Pages!Lands
             \/ Pages!GivesUp \/ Pages!StreamOpens \/ Pages!StreamBreaks \/ Pages!Receives
    <3>1. dialog' = dialog
      BY <2>8 DEF Pages!SelectsProject, Pages!GoesToAdmin, Pages!PressesRun, Pages!Serves, Pages!OthersChange,
        Pages!Refetches, Pages!Reads, Pages!Lands, Pages!GivesUp, Pages!StreamOpens, Pages!StreamBreaks, Pages!Receives
    <3>2. QED
      BY <2>3, <3>1
  <2>9. CASE Pages!OpensCreate \/ Pages!OpensEdit
    BY <1>1, <2>9 DEF Pages!OpensCreate, Pages!OpensEdit
  <2>10. CASE PagesSame
    BY <2>3, <2>10 DEF PagesSame, pages
  <2>11. QED
    BY <1>1, <2>5, <2>6, <2>7, <2>8, <2>9, <2>10, PagesMove DEF Pages!Next, Pages!User
<1>2. QED
  BY <1>1, ListHolds, PTL DEF ClientSpec, EditsSurvive, Pages!EditsSurvive

\* When the edit dialog sends a save, its form was filled from the very settings
\* the list has: a newer entry would have reset it before the user could act.
THEOREM SendsWhatIsListed == ClientSpec => SavesWhatIsListed
<1>1. ASSUME ListInv, [ClientNext]_clientVars, asked.kind = "none" /\ asked'.kind = "update"
      PROVE  dialog.base = Pages!Listed.settings
  <2>1. ~Pages!Renders
    <3>1. Pages!Renders => \E v : asked' = Mounted(asked, v)
      BY DEF Mounted, Pages!Renders
    <3>2. QED
      BY ZenonT(60), <1>1, <3>1, AskedStays DEF ListInv
  <2>2. CASE Pages!GoesToAdmin \/ \E p \in Ids : Pages!SelectsProject(p)
    <3>1. \E v : asked' = Mounted(asked, v)
      BY <2>2 DEF Mounted, Pages!SelectsProject, Pages!GoesToAdmin
    <3>2. QED
      BY ZenonT(60), <1>1, <3>1, AskedStays DEF ListInv
  <2>3. CASE Pages!Submits /\ ~Pages!Unsettled
    <3>1. dialog.mode = "edit"
      BY <1>1, <2>3 DEF Pages!Submits, ListInv, DialogOK
    <3>2. Pages!Current # None /\ dialog.seen = Pages!Seen
      BY <2>3, <3>1 DEF Pages!Unsettled, Pages!Unmounts, Pages!Resets
    <3>3. dialog.seen = <<dialog.of, dialog.base, dialog.seen[3]>>
      BY <1>1, <3>1 DEF ListInv, DialogOK
    <3>4. QED
      BY <3>2, <3>3 DEF Pages!Seen
  <2>4. ~Pages!Succeeds /\ ~Pages!Fails /\ ~Pages!Serves
    BY <1>1 DEF Pages!Succeeds, Pages!Created, Pages!Updated, Pages!Fails, Pages!Serves
  <2>5. ~Pages!PressesRun
    BY <1>1 DEF Pages!PressesRun
  <2>6. QED
    BY <1>1, <2>1, <2>2, <2>3, <2>4, <2>5, PagesMove DEF PagesSame, pages, Pages!Next, Pages!User,
      Pages!OpensCreate, Pages!OpensEdit, Pages!Types, Pages!Dismisses, Pages!OthersChange, Pages!Refetches,
      Pages!Reads, Pages!Lands, Pages!GivesUp, Pages!StreamOpens, Pages!StreamBreaks, Pages!Receives
<1>2. QED
  BY <1>1, ListHolds, PTL DEF ClientSpec, SavesWhatIsListed, Pages!SavesWhatIsListed

-----------------------------------------------------------------------------
(* The page shows what the user chose.                                       *)
ListedIn(entries, p) == \E i \in DOMAIN entries : entries[i].id = p

\* The address is that of the project chosen, which the list has once it has
\* anything; where the effects redirect, it is the first.
ChoiceInv ==
  ~lost /\ chosen \in Ids /\ route \in Ids =>
    /\ route = chosen
    /\ list.entries = <<>> \/ ListedIn(list.entries, chosen)
    /\ Pages!Redirects => list.entries[1].id = chosen

LEMMA RedirectsIs ==
  /\ Pages!Redirects => list.entries # <<>> /\ (selected = None \/ ~ListedIn(list.entries, selected))
  /\ Pages!Redirects' => list'.entries # <<>> /\ (selected' = None \/ ~ListedIn(list'.entries, selected'))
  BY DEF Pages!Redirects, Pages!Current, Pages!IsListed, Pages!Projects, ListedIn

LEMMA CurrentIs == Pages!Current # None <=> selected # None /\ ListedIn(list.entries, selected)
  BY DEF Pages!Current, Pages!IsListed, Pages!Projects, ListedIn

LEMMA SettledIs ==
  ASSUME ChoiceInv, ~Pages!Unsettled, ~lost, chosen \in Ids, route \in Ids
  PROVE  route = chosen /\ selected = chosen /\ (list.entries = <<>> \/ ListedIn(list.entries, chosen))
  BY DEF ChoiceInv, Pages!Unsettled, Pages!Selects, Pages!OnProject

LEMMA ChoiceFromSettled ==
  ASSUME ~lost' /\ chosen' \in Ids /\ route' \in Ids =>
           /\ route' = chosen' /\ selected' = chosen'
           /\ list'.entries = <<>> \/ ListedIn(list'.entries, chosen')
  PROVE  ChoiceInv'
<1>1. None \notin Ids
  BY PagesAssumption
<1>2. QED
  BY <1>1, RedirectsIs DEF ChoiceInv

LEMMA ChoiceStarts == Pages!Init => ChoiceInv
  BY RedirectsIs DEF Pages!Init, ChoiceInv

LEMMA CachedIs == \A entries : Pages!Caches(entries) => list'.entries = entries
  BY DEF Pages!Caches

LEMMA ChoiceRendered == ASSUME ListInv, ChoiceInv, Pages!Renders PROVE ChoiceInv'
<1>1. None \notin Ids /\ Home \notin Ids /\ UNCHANGED <<list, listing, lost>>
  BY PagesAssumption DEF Pages!Renders
<1>2. CASE Pages!LeavesHome
  <2>1. route' = list.entries[1].id /\ chosen' = route' /\ list.entries # <<>>
    BY <1>2 DEF Pages!Renders, Pages!LeavesHome, Pages!Goes, Pages!Projects
  <2>2. 1 \in DOMAIN list.entries
    BY <2>1 DEF ListInv, ListOK, Listing
  <2>3. ListedIn(list.entries, list.entries[1].id)
    BY <2>2 DEF ListedIn
  <2>4. QED
    BY <1>1, <2>1, <2>3 DEF ChoiceInv
<1>3. CASE Pages!Redirects
  <2>1. route' = list.entries[1].id /\ chosen' = chosen /\ route \in Ids
    BY <1>1, <1>3 DEF Pages!Renders, Pages!LeavesHome, Pages!Redirects, Pages!OnProject, Pages!Goes, Pages!Projects
  <2>2. QED
    BY <1>1, <1>3, <2>1 DEF ChoiceInv
<1>4. CASE ~Pages!LeavesHome /\ ~Pages!Redirects
  <2>1. route' = route /\ chosen' = chosen /\ (route \in Ids => selected' = route)
    BY <1>4 DEF Pages!Renders, Pages!Goes, Pages!Selects, Pages!OnProject
  <2>2. QED
    BY <1>1, <2>1, ChoiceFromSettled DEF ChoiceInv
<1>5. QED
  BY <1>2, <1>3, <1>4

LEMMA ChoiceSelected ==
  ASSUME ListInv, ChoiceInv, NEW p \in Ids, Pages!SelectsProject(p)
  PROVE  ChoiceInv'
<1>1. /\ selected' = selected /\ route' = p /\ chosen' = p /\ list' = list
      /\ ListedIn(list.entries, p) /\ (~lost' => Pages!Current # None \/ list.entries[1].id = p)
  BY DEF Pages!SelectsProject, Pages!Goes, Pages!IsListed, Pages!Projects, ListedIn
<1>2. QED
  BY <1>1, CurrentIs, RedirectsIs DEF ChoiceInv

LEMMA ChoiceCreated ==
  ASSUME ListInv, ChoiceInv, Pages!Succeeds, Pages!Created
  PROVE  ChoiceInv'
<1> DEFINE p == asked.of
<1>1. selected' = selected /\ route' = p /\ chosen' = p
  BY DEF Pages!Succeeds, Pages!Created, Pages!Goes
<1>2. list'.entries = Append(list.entries, Pages!Entry(p)) /\ Pages!Entry(p).id = p
  BY CachedIs DEF Pages!Created, Pages!Projects, Pages!Entry
<1>3. ~lost' => Pages!Current # None \/ list'.entries[1].id = p
  BY DEF Pages!Created, Pages!Projects
<1> HIDE DEF p
<1>4. \A q : ListedIn(list.entries, q) => ListedIn(list'.entries, q)
  BY <1>2, AppendLists DEF ListInv, ListOK, ListedIn
<1>5. ListedIn(list'.entries, p)
  BY <1>2, AppendLists DEF ListInv, ListOK, ListedIn
<1>6. QED
  BY <1>1, <1>2, <1>3, <1>4, <1>5, CurrentIs, RedirectsIs DEF ChoiceInv

Told == Pages!Lands \/ Pages!Receives \/ (Pages!Succeeds /\ Pages!Updated)

\* What comes to a page whose effects have run.
LEMMA ChoiceTold ==
  ASSUME ListInv, ChoiceInv, ~Pages!Unsettled, UNCHANGED <<route, selected, chosen>>,
         UNCHANGED <<list, lost>> \/ Told
  PROVE  ChoiceInv'
<1>1. SUFFICES ASSUME ~lost', chosen \in Ids, route \in Ids
               PROVE  /\ route = chosen /\ selected = chosen
                      /\ list'.entries = <<>> \/ ListedIn(list'.entries, chosen)
  BY ChoiceFromSettled
<1>2. ~lost
  BY <1>1 DEF Told, Pages!Lands, Pages!Receives, Pages!Succeeds, Pages!Updated
<1>3. route = chosen /\ selected = chosen /\ (list.entries = <<>> \/ ListedIn(list.entries, chosen))
  BY <1>1, <1>2, SettledIs
<1>4. CASE UNCHANGED <<list, lost>>
  BY <1>3, <1>4
<1>5. CASE Pages!Lands
  BY <1>1, <1>3, <1>5, CachedIs DEF Pages!Lands, Pages!Lists, ListedIn
<1>6. CASE Pages!Receives
  BY <1>1, <1>3, <1>6 DEF Pages!Receives, Pages!Lists, Pages!Projects, ListedIn
<1>7. CASE Pages!Succeeds /\ Pages!Updated
  <2>1. list.known
    BY <1>7 DEF ListInv, AskedOK, Pages!Updated
  <2> DEFINE e == Pages!Entry(asked.of)
  <2>2. list'.entries = [i \in DOMAIN list.entries |-> IF list.entries[i].id = e.id THEN e ELSE list.entries[i]]
    BY <1>7, <2>1, CachedIs DEF Pages!Updated, Pages!Replaced, Pages!Projects, Pages!Known
  <2> HIDE DEF e
  <2>3. DOMAIN list'.entries = DOMAIN list.entries
        /\ \A i \in DOMAIN list.entries : list'.entries[i].id = list.entries[i].id
    BY <2>2
  <2>4. list.entries = <<>> => list'.entries = <<>>
    BY <2>2
  <2>5. QED
    BY <1>3, <2>3, <2>4 DEF ListedIn
<1>8. QED
  BY <1>4, <1>5, <1>6, <1>7 DEF Told

LEMMA ChoiceHolds == ClientSpec => []ChoiceInv
<1>1. ClientInit => ChoiceInv
  BY ChoiceStarts DEF ClientInit
<1>2. ListInv /\ ChoiceInv /\ [ClientNext]_clientVars => ChoiceInv'
  <2> SUFFICES ASSUME ListInv, ChoiceInv, [ClientNext]_clientVars PROVE ChoiceInv'
    OBVIOUS
  <2>1. CASE PagesSame
    BY <2>1 DEF PagesSame, pages, ChoiceInv, Pages!Redirects, Pages!OnProject, Pages!IsLoading, Pages!Known,
      Pages!Projects, Pages!Current, Pages!IsListed
  <2>2. CASE Pages!Renders
    BY <2>2, ChoiceRendered
  <2>3. CASE Pages!GoesToAdmin
    <3>1. route' = Admin /\ Admin \notin Ids
      BY <2>3, PagesAssumption DEF Pages!GoesToAdmin, Pages!Goes
    <3>2. QED
      BY <3>1 DEF ChoiceInv
  <2>4. ASSUME NEW p \in Ids, Pages!SelectsProject(p)
        PROVE  ChoiceInv'
    BY <2>4, ChoiceSelected
  <2>5. CASE Pages!Succeeds /\ Pages!Created
    BY <2>5, ChoiceCreated
  <2>6. CASE ~Pages!Unsettled /\ Pages!Succeeds /\ Pages!Updated
    <3>1. UNCHANGED <<route, selected, chosen>> /\ Told
      BY <2>6 DEF Pages!Succeeds, Pages!Updated, Told
    <3>2. QED
      BY <2>6, <3>1, ChoiceTold
  <2>7. CASE ~Pages!Unsettled /\ (Pages!Lands \/ Pages!Receives)
    <3>1. UNCHANGED <<route, selected, chosen>> /\ Told
      BY <2>7 DEF Pages!Lands, Pages!Receives, Told
    <3>2. QED
      BY <2>7, <3>1, ChoiceTold
  <2>8. CASE /\ ~Pages!Unsettled
             /\ \/ Pages!OpensCreate \/ Pages!OpensEdit \/ Pages!Types \/ Pages!Dismisses \/ Pages!Submits
                \/ Pages!PressesRun \/ Pages!Serves \/ Pages!Fails \/ \E p \in Ids : Pages!OthersChange(p)
                \/ Pages!Refetches \/ Pages!Reads \/ Pages!GivesUp \/ Pages!StreamOpens \/ Pages!StreamBreaks
    <3>1. UNCHANGED <<route, selected, chosen, list, lost>>
      BY <2>8 DEF Pages!OpensCreate, Pages!OpensEdit, Pages!Types, Pages!Dismisses, Pages!Submits, Pages!PressesRun,
        Pages!Serves, Pages!Fails, Pages!OthersChange, Pages!Refetches, Pages!Reads, Pages!GivesUp,
        Pages!StreamOpens, Pages!StreamBreaks
    <3>2. QED
      BY <2>8, <3>1, ChoiceTold
  <2>9. QED
    BY <2>1, <2>2, <2>3, <2>4, <2>5, <2>6, <2>7, <2>8, PagesMove DEF Pages!Next, Pages!User, Pages!Succeeds
<1>3. QED
  BY <1>1, <1>2, ListHolds, PTL DEF ClientSpec

\* Once the effects of a page have run, it shows the project the user chose.
THEOREM ChosenStaysShown == ClientSpec => []ChosenIsShown
<1>1. ChoiceInv => ChosenIsShown
  <2>1. SUFFICES ASSUME ChoiceInv, ~Pages!Unsettled, route \in Ids, chosen \in Ids, ~lost
                 PROVE  route = chosen /\ (~Pages!IsListed(chosen) \/ Pages!Current = chosen)
    BY DEF ChosenIsShown, Pages!ChosenIsShown, Pages!OnProject
  <2>2. route = chosen /\ selected = chosen
    BY <2>1, SettledIs
  <2>3. QED
    BY <2>2 DEF Pages!Current
<1>2. QED
  BY <1>1, ChoiceHolds, PTL
=============================================================================
