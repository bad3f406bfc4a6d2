--------------------------- MODULE TaskQueueProofs ---------------------------
(***************************************************************************)
(* Theorems about the queue of a project, for any number of tasks and of   *)
(* move requests and for every gap.                                        *)
(***************************************************************************)
EXTENDS TaskQueue, TLAPS

SeenType == [Tasks -> Int \cup {NoPosition}]

\* The place after the last, or before the first, is a position beyond all that were seen.
LEMMA EndsBeyond ==
    ASSUME NEW seen \in SeenType
    PROVE  /\ \A p \in LastOf(seen) : p \in Int /\ \A u \in Tasks : seen[u] \in Int => seen[u] < p
           /\ \A p \in FirstOf(seen) : p \in Int /\ \A u \in Tasks : seen[u] \in Int => p < seen[u]
<1>1. Gap \in Int /\ Gap > 0 /\ NoPosition \notin Int
  BY GapAssumption, NullAssumption
<1>2. Found(seen) \subseteq Int
  BY DEF Found, SeenType
<1>3. \A u \in Tasks : seen[u] \in Int => seen[u] \in Found(seen)
  BY <1>1 DEF Found
<1>4. \A p \in LastOf(seen) : p \in Int /\ \A q \in Found(seen) : q < p
  BY <1>1, <1>2 DEF LastOf
<1>5. \A p \in FirstOf(seen) : p \in Int /\ \A q \in Found(seen) : p < q
  BY <1>1, <1>2 DEF FirstOf
<1>6. QED
  BY <1>3, <1>4, <1>5

\* A midpoint is a position, and between its neighbours if they leave room.
LEMMA MidpointBetween ==
    ASSUME NEW p \in Int, NEW q \in Int, NEW x \in Midpoint(p, q)
    PROVE  /\ x \in Int
           /\ p + 1 < q => p < x /\ x < q
           /\ q + 1 < p => q < x /\ x < p
BY DEF Midpoint

\* What a move writes is a position.
LEMMA PlacesType ==
    ASSUME TypeOK, SeenInv, NEW m \in Moves, move[m].pc = "write", NEW p \in Places(move[m])
    PROVE  p \in Int
<1>1. move[m].seen \in SeenType /\ move[m].to \in {"first", "last", "between"}
  BY DEF TypeOK, MoveRecord, SeenType
<1>2. CASE move[m].to = "first"
  BY <1>1, <1>2, EndsBeyond DEF Places
<1>3. CASE move[m].to = "last"
  BY <1>1, <1>3, EndsBeyond DEF Places
<1>4. CASE move[m].to = "between"
  <2>1. move[m].seen[move[m].before] \in Int /\ move[m].seen[move[m].after] \in Int
    BY <1>4 DEF SeenInv
  <2>2. p \in Midpoint(move[m].seen[move[m].before], move[m].seen[move[m].after])
    BY <1>4 DEF Places
  <2>3. QED
    BY <2>1, <2>2, MidpointBetween
<1>5. QED
  BY <1>1, <1>2, <1>3, <1>4

\* A select sees a position or none of each task.
LEMMA SelectedType == ASSUME TypeOK PROVE Selected \in SeenType
BY DEF TypeOK, Selected, SeenType

LEMMA NothingType == Nothing \in SeenType
BY DEF Nothing, SeenType

\* A step on the transaction of an add, or of a move, leaves the others as they are.
LEMMA StepTypes ==
    ASSUME TypeOK, SeenInv, Next PROVE TypeOK' /\ SeenInv'
<1> USE NullAssumption
<1>1. ASSUME NEW t \in Tasks, AddTakesNumber(t) PROVE TypeOK' /\ SeenInv'
  BY <1>1 DEF AddTakesNumber, TypeOK, SeenInv, rows, Open, AddRecord
<1>2. ASSUME NEW t \in Tasks, AddSelects(t) PROVE TypeOK' /\ SeenInv'
  <2>1. Selected \in [Tasks -> Int \cup {NoPosition}]
    BY SelectedType DEF SeenType
  <2>2. QED
    BY ZenonT(60), <1>2, <2>1 DEF AddSelects, TypeOK, SeenInv, rows, Open, AddRecord
<1>3. ASSUME NEW t \in Tasks, AddInserts(t) PROVE TypeOK' /\ SeenInv'
  <2>1. PICK p \in LastOf(add[t].seen) : position' = [position EXCEPT ![t] = p]
    BY <1>3 DEF AddInserts
  <2>2. p \in Int
    <3>1. add[t].seen \in SeenType
      BY DEF TypeOK, AddRecord, SeenType
    <3>2. QED
      BY <3>1, EndsBeyond
  <2>3. position' \in [Tasks -> Int \cup {NoPosition}]
    BY <2>1, <2>2 DEF TypeOK
  <2>4. number' \in [Tasks -> Nat] /\ nextNumber' \in Nat \ {0}
    BY <1>3 DEF AddInserts, TypeOK, AddRecord
  <2>5. ASSUME NEW u \in Open' PROVE position'[u] # NoPosition
    <3>1. u \in Tasks
      BY DEF Open
    <3>2. CASE u = t
      BY <2>1, <2>2, <3>2 DEF TypeOK
    <3>3. CASE u # t
      <4>1. u \in Open
        BY <1>3, <3>1, <3>3 DEF AddInserts, Open, TypeOK
      <4>2. position'[u] = position[u]
        BY <2>1, <3>1, <3>3 DEF TypeOK
      <4>3. QED
        BY <4>1, <4>2 DEF TypeOK
    <3>4. QED
      BY <3>2, <3>3
  <2>6. add' \in [Tasks -> AddRecord]
    <3>1. [NewAdd EXCEPT !.pc = "done"] \in AddRecord
      BY NothingType DEF NewAdd, AddRecord, SeenType
    <3>2. QED
      BY <1>3, <3>1 DEF AddInserts, TypeOK
  <2>7. completed' = completed /\ lock' = NoTask /\ move' = move
    BY <1>3 DEF AddInserts
  <2>8. TypeOK'
    BY <2>3, <2>4, <2>5, <2>6, <2>7 DEF TypeOK
  <2>9. QED
    BY <2>7, <2>8 DEF SeenInv
<1>4. ASSUME NEW t \in Tasks, AddFails(t) PROVE TypeOK' /\ SeenInv'
  <2>1. [NewAdd EXCEPT !.pc = "failed"] \in AddRecord
    BY NothingType DEF NewAdd, AddRecord, SeenType
  <2>2. QED
    BY <1>4, <2>1 DEF AddFails, TypeOK, SeenInv, rows, Open
<1>5. ASSUME NEW t \in Tasks, CompleteTask(t) PROVE TypeOK' /\ SeenInv'
  <2>1. \A u \in Open' : u \in Open /\ u # t
    BY <1>5 DEF CompleteTask, Open
  <2>2. position' \in [Tasks -> Int \cup {NoPosition}]
    BY <1>5 DEF CompleteTask, TypeOK
  <2>3. \A u \in Open' : position'[u] # NoPosition
    BY <1>5, <2>1 DEF CompleteTask, TypeOK, Open
  <2>4. QED
    BY <1>5, <2>2, <2>3 DEF CompleteTask, TypeOK, SeenInv
<1>6. ASSUME NEW m \in Moves, MoveFindsTask(m) PROVE TypeOK' /\ SeenInv'
  <2>1. PICK t \in Open :
          \/ \E to \in {"first", "last"} :
                move' = [move EXCEPT ![m] = [@ EXCEPT !.pc = "ends", !.to = to, !.task = t]]
          \/ \E b, a \in Tasks :
                move' = [move EXCEPT ![m] = [@ EXCEPT !.pc = "before", !.to = "between",
                                                      !.task = t, !.before = b, !.after = a]]
    BY <1>6 DEF MoveFindsTask
  <2>2. move[m] \in MoveRecord /\ t \in Tasks
    BY DEF TypeOK, Open
  <2>3. PICK new \in MoveRecord :
          /\ move' = [move EXCEPT ![m] = new]
          /\ new.task \in Tasks
          /\ new.to = "between" =>
                new.pc = "before" /\ new.before \in Tasks /\ new.after \in Tasks
    <3>1. CASE \E to \in {"first", "last"} :
                move' = [move EXCEPT ![m] = [@ EXCEPT !.pc = "ends", !.to = to, !.task = t]]
      <4>1. PICK to \in {"first", "last"} :
                move' = [move EXCEPT ![m] = [@ EXCEPT !.pc = "ends", !.to = to, !.task = t]]
        BY <3>1
      <4> DEFINE r == [move[m] EXCEPT !.pc = "ends", !.to = to, !.task = t]
      <4>2. r \in MoveRecord /\ r.to # "between" /\ r.task \in Tasks
        BY <2>2 DEF MoveRecord
      <4>3. QED
        BY <4>1, <4>2
    <3>2. CASE \E b, a \in Tasks :
                move' = [move EXCEPT ![m] = [@ EXCEPT !.pc = "before", !.to = "between",
                                                      !.task = t, !.before = b, !.after = a]]
      <4>1. PICK b \in Tasks, a \in Tasks :
                move' = [move EXCEPT ![m] = [@ EXCEPT !.pc = "before", !.to = "between",
                                                      !.task = t, !.before = b, !.after = a]]
        BY <3>2
      <4> DEFINE r == [move[m] EXCEPT !.pc = "before", !.to = "between",
                                      !.task = t, !.before = b, !.after = a]
      <4>2. /\ r \in MoveRecord /\ r.pc = "before"
            /\ r.task \in Tasks /\ r.before \in Tasks /\ r.after \in Tasks
        BY <2>2 DEF MoveRecord
      <4>3. QED
        BY <4>1, <4>2
    <3>3. QED
      BY <2>1, <3>1, <3>2
  <2>4. move' \in [Moves -> MoveRecord]
    BY <2>3 DEF TypeOK
  <2>5. SeenInv'
    BY <2>3 DEF SeenInv, TypeOK
  <2>6. QED
    BY <1>6, <2>4, <2>5 DEF MoveFindsTask, TypeOK, rows, Open
<1>7. ASSUME NEW m \in Moves, MoveSelectsEnds(m) PROVE TypeOK' /\ SeenInv'
  <2>1. move' = [move EXCEPT ![m] = [@ EXCEPT !.pc = "write", !.seen = Selected]]
    BY <1>7 DEF MoveSelectsEnds
  <2>2. move[m] \in MoveRecord /\ move[m].to # "between" /\ move[m].task \in Tasks
    BY <1>7 DEF MoveSelectsEnds, TypeOK, SeenInv
  <2>3. move' \in [Moves -> MoveRecord] /\ move'[m].to # "between" /\ move'[m].task \in Tasks
    BY <2>1, <2>2, SelectedType DEF TypeOK, MoveRecord, SeenType
  <2>4. SeenInv'
    BY <2>1, <2>3 DEF SeenInv, TypeOK
  <2>5. QED
    BY <1>7, <2>3, <2>4 DEF MoveSelectsEnds, TypeOK, rows, Open
<1>8. ASSUME NEW m \in Moves, MoveFindsBefore(m) PROVE TypeOK' /\ SeenInv'
  <2> DEFINE t == move[m].before
  <2>1. t \in Tasks /\ position[t] \in Int
    BY <1>8 DEF MoveFindsBefore, TypeOK, Open
  <2>2. move[m] \in MoveRecord
    BY DEF TypeOK
  <2> DEFINE new == [move[m] EXCEPT !.pc = "after", !.seen[t] = position[t]]
  <2>3. move' = [move EXCEPT ![m] = new]
    BY <1>8 DEF MoveFindsBefore
  <2>4. /\ new.pc = "after" /\ new.to = move[m].to /\ new.task = move[m].task
        /\ new.before = move[m].before /\ new.after = move[m].after
        /\ new.seen = [move[m].seen EXCEPT ![t] = position[t]]
        /\ new \in MoveRecord
    BY <2>1, <2>2 DEF MoveRecord
  <2> HIDE DEF new
  <2>5. move' \in [Moves -> MoveRecord]
    BY <2>3, <2>4 DEF TypeOK
  <2>6. new.seen[t] \in Int
        /\ \A u \in Tasks : move[m].seen[u] \in Int => new.seen[u] \in Int
    BY <2>1, <2>2, <2>4 DEF MoveRecord
  <2>7. SeenInv'
    BY <1>8, <2>3, <2>4, <2>6 DEF MoveFindsBefore, SeenInv, TypeOK
  <2>8. QED
    BY <1>8, <2>5, <2>7 DEF MoveFindsBefore, TypeOK, rows, Open
<1>9. ASSUME NEW m \in Moves, MoveFindsAfter(m) PROVE TypeOK' /\ SeenInv'
  <2> DEFINE t == move[m].after
  <2>1. t \in Tasks /\ position[t] \in Int
    BY <1>9 DEF MoveFindsAfter, TypeOK, Open
  <2>2. move[m] \in MoveRecord
    BY DEF TypeOK
  <2> DEFINE new == [move[m] EXCEPT !.pc = "write", !.seen[t] = position[t]]
  <2>3. move' = [move EXCEPT ![m] = new]
    BY <1>9 DEF MoveFindsAfter
  <2>4. /\ new.pc = "write" /\ new.to = move[m].to /\ new.task = move[m].task
        /\ new.before = move[m].before /\ new.after = move[m].after
        /\ new.seen = [move[m].seen EXCEPT ![t] = position[t]]
        /\ new \in MoveRecord
    BY <2>1, <2>2 DEF MoveRecord
  <2> HIDE DEF new
  <2>5. move' \in [Moves -> MoveRecord]
    BY <2>3, <2>4 DEF TypeOK
  <2>6. new.seen[t] \in Int
        /\ \A u \in Tasks : move[m].seen[u] \in Int => new.seen[u] \in Int
    BY <2>1, <2>2, <2>4 DEF MoveRecord
  <2>7. SeenInv'
    BY <1>9, <2>3, <2>4, <2>6 DEF MoveFindsAfter, SeenInv, TypeOK
  <2>8. QED
    BY <1>9, <2>5, <2>7 DEF MoveFindsAfter, TypeOK, rows, Open
<1>10. ASSUME NEW m \in Moves, MoveRefused(m) PROVE TypeOK' /\ SeenInv'
  <2>1. [NewMove EXCEPT !.pc = "refused"] \in MoveRecord
    BY NothingType DEF NewMove, MoveRecord, SeenType
  <2>2. QED
    BY <1>10, <2>1 DEF MoveRefused, TypeOK, SeenInv, rows, Open, NewMove
<1>11. ASSUME NEW m \in Moves, MoveWrites(m) PROVE TypeOK' /\ SeenInv'
  <2>1. PICK p \in Places(move[m]) : position' = [position EXCEPT ![move[m].task] = p]
    BY <1>11 DEF MoveWrites
  <2>2. p \in Int
    BY <1>11, PlacesType DEF MoveWrites
  <2>3. position' \in [Tasks -> Int \cup {NoPosition}]
    BY <2>1, <2>2 DEF TypeOK
  <2>4. \A u \in Open' : u \in Open /\ position'[u] # NoPosition
    BY <1>11, <2>1, <2>2 DEF MoveWrites, TypeOK, Open
  <2>5. [NewMove EXCEPT !.pc = "done", !.task = move[m].task] \in MoveRecord
    BY NothingType DEF NewMove, MoveRecord, SeenType, TypeOK
  <2>6. move' \in [Moves -> MoveRecord] /\ move'[m].to = "last"
    BY <1>11, <2>5 DEF MoveWrites, TypeOK, NewMove
  <2>7. SeenInv'
    BY <1>11, <2>6 DEF MoveWrites, SeenInv, TypeOK
  <2>8. QED
    BY <1>11, <2>3, <2>4, <2>6, <2>7 DEF MoveWrites, TypeOK
<1>12. QED
  BY <1>1, <1>2, <1>3, <1>4, <1>5, <1>6, <1>7, <1>8, <1>9, <1>10, <1>11 DEF Next, Add, Move

LEMMA Types == Spec => [](TypeOK /\ SeenInv)
<1>1. Init => TypeOK /\ SeenInv
  BY NullAssumption, NothingType
  DEF Init, TypeOK, SeenInv, Open, NewAdd, NewMove, AddRecord, MoveRecord, SeenType
<1>2. TypeOK /\ SeenInv /\ [Next]_vars => TypeOK' /\ SeenInv'
  <2>1. CASE UNCHANGED vars
    BY <2>1 DEF vars, rows, TypeOK, SeenInv, Open
  <2>2. QED
    BY <2>1, StepTypes
<1>3. QED
  BY <1>1, <1>2, PTL DEF Spec

\* Type correctness of the tasks table and of every transaction: an incomplete task always has a
\* position to sort by.
THEOREM TypeCorrect == Spec => []TypeOK
BY Types, PTL

\* Only an insert gives a number; any other step keeps what NumberInv says of the rows.
LEMMA StepNumbers ==
    ASSUME TypeOK, NumberInv, Next PROVE NumberInv'
<1> USE NullAssumption
<1>1. ASSUME NEW t \in Tasks, AddTakesNumber(t) PROVE NumberInv'
  <2>1. \A u \in Tasks : add[u].pc \notin {"numbered", "selected"}
    BY <1>1 DEF AddTakesNumber, NumberInv
  <2>2. /\ add'[t].pc = "numbered" /\ add'[t].number = nextNumber /\ lock' = t
        /\ \A u \in Tasks \ {t} : add'[u] = add[u]
        /\ UNCHANGED <<number, nextNumber>>
    BY <1>1 DEF AddTakesNumber, TypeOK, AddRecord, rows
  <2>3. number[t] = 0
    BY <1>1 DEF AddTakesNumber, NumberInv
  <2>4. QED
    BY <2>1, <2>2, <2>3 DEF NumberInv, NumbersInOrder
<1>2. ASSUME NEW t \in Tasks, AddSelects(t) PROVE NumberInv'
  <2>1. /\ add'[t].pc = "selected" /\ add'[t].number = add[t].number
        /\ \A u \in Tasks \ {t} : add'[u] = add[u]
        /\ UNCHANGED <<number, nextNumber, lock>> /\ add[t].pc = "numbered"
    BY <1>2 DEF AddSelects, TypeOK, AddRecord, rows
  <2>2. QED
    BY <2>1 DEF NumberInv, NumbersInOrder
<1>3. ASSUME NEW t \in Tasks, AddInserts(t) PROVE NumberInv'
  <2>1. number[t] = 0 /\ add[t].number = nextNumber /\ lock = t /\ nextNumber \in Nat \ {0}
    BY <1>3 DEF AddInserts, NumberInv, TypeOK
  <2>2. number' = [number EXCEPT ![t] = nextNumber] /\ nextNumber' = nextNumber + 1
    BY <1>3, <2>1 DEF AddInserts
  <2>3. /\ number'[t] = nextNumber
        /\ \A u \in Tasks \ {t} : number'[u] = number[u]
        /\ \A u \in Tasks : number[u] < nextNumber /\ number[u] \in Nat
    BY <2>2 DEF TypeOK, NumberInv
  <2>4. \A u \in Tasks \ {t} : add'[u] = add[u] /\ add[u].pc \notin {"numbered", "selected"}
    BY <1>3, <2>1 DEF AddInserts, TypeOK, NumberInv
  <2>5. add'[t].pc = "done"
    BY <1>3 DEF AddInserts, TypeOK, NewAdd
  <2>6. \A u, v \in Tasks : number'[u] = number'[v] /\ number'[u] # 0 => u = v
    BY <2>1, <2>3 DEF NumberInv, NumbersInOrder
  <2>7. {number'[u] : u \in Tasks} \ {0} = ({number[u] : u \in Tasks} \ {0}) \cup {nextNumber}
    BY <2>1, <2>3
  <2>8. {number'[u] : u \in Tasks} \ {0} = 1..(nextNumber' - 1)
    <3>1. {number[u] : u \in Tasks} \ {0} = 1..(nextNumber - 1)
      BY DEF NumberInv, NumbersInOrder
    <3>2. 1..(nextNumber' - 1) = (1..(nextNumber - 1)) \cup {nextNumber}
      BY <2>1, <2>2
    <3>3. QED
      BY <2>7, <3>1, <3>2
  <2>9. QED
    BY <2>1, <2>2, <2>3, <2>4, <2>5, <2>6, <2>8 DEF NumberInv, NumbersInOrder
<1>4. ASSUME NEW t \in Tasks, AddFails(t) PROVE NumberInv'
  <2>1. /\ number[t] = 0 /\ add'[t].pc = "failed" /\ UNCHANGED <<number, nextNumber>>
        /\ \A u \in Tasks \ {t} : add'[u] = add[u] /\ add[u].pc \notin {"numbered", "selected"}
    BY <1>4 DEF AddFails, NumberInv, TypeOK, NewAdd, rows
  <2>2. QED
    BY <2>1 DEF NumberInv, NumbersInOrder
<1>5. CASE UNCHANGED <<number, nextNumber, lock, add>>
  BY <1>5 DEF NumberInv, NumbersInOrder
<1>6. ASSUME NEW t \in Tasks, CompleteTask(t) PROVE NumberInv'
  BY <1>5, <1>6 DEF CompleteTask
<1>7. ASSUME NEW m \in Moves, Move(m) PROVE NumberInv'
  BY <1>5, <1>7 DEF Move, MoveFindsTask, MoveSelectsEnds, MoveFindsBefore, MoveFindsAfter,
                    MoveRefused, MoveWrites, rows
<1>8. QED
  BY <1>1, <1>2, <1>3, <1>4, <1>6, <1>7 DEF Next, Add

LEMMA NumberInvariant == Spec => [](TypeOK /\ SeenInv /\ NumberInv)
<1>1. Init => NumberInv
  <2>1. SUFFICES ASSUME Init PROVE NumberInv
    OBVIOUS
  <2>2. {number[t] : t \in Tasks} \ {0} = {} /\ 1..(nextNumber - 1) = {}
    BY <2>1 DEF Init
  <2>3. QED
    BY <2>1, <2>2 DEF Init, NumberInv, NumbersInOrder, NewAdd
<1>2. TypeOK /\ SeenInv /\ NumberInv /\ [Next]_vars => NumberInv'
  <2>1. CASE UNCHANGED vars
    BY <2>1 DEF vars, rows, NumberInv, NumbersInOrder
  <2>2. QED
    BY <2>1, StepNumbers
<1>3. QED
  BY <1>1, <1>2, Types, PTL DEF Spec

\* The tasks of a project are numbered 1, 2, 3 and so on without a gap or a duplicate, however its
\* requests interleave and fail.
THEOREM Numbers == Spec => []NumbersInOrder
<1>1. NumberInv => NumbersInOrder
  BY DEF NumberInv
<1>2. QED
  BY <1>1, NumberInvariant, PTL

\* What a step may do to the tasks that are open and were never moved, for OrderInv to survive it:
\* leave them where they are.
LEMMA OrderKept ==
    ASSUME TypeOK, OrderInv, UNCHANGED number,
           \A u \in Open' \ Moved' : u \in Open \ Moved /\ position'[u] = position[u],
           \A t \in Tasks : add'[t].pc = "selected" =>
                add[t].pc = "selected" /\ add'[t].seen = add[t].seen
    PROVE  OrderInv'
BY DEF OrderInv, AddedInOrder, Open

LEMMA StepOrder ==
    ASSUME TypeOK, SeenInv, NumberInv, OrderInv, Next PROVE OrderInv'
<1> USE NullAssumption
<1>1. ASSUME NEW t \in Tasks, AddTakesNumber(t) PROVE OrderInv'
  <2>1. \A u \in Tasks : add'[u].pc = "selected" => add'[u] = add[u]
    BY <1>1 DEF AddTakesNumber, TypeOK, AddRecord
  <2>2. UNCHANGED <<rows, move>>
    BY <1>1 DEF AddTakesNumber
  <2>3. QED
    BY <2>1, <2>2, OrderKept DEF rows, Open, Moved
<1>2. ASSUME NEW t \in Tasks, AddSelects(t) PROVE OrderInv'
  <2>1. UNCHANGED <<number, position, completed, move>>
    BY <1>2 DEF AddSelects, rows
  <2>2. Open' = Open /\ Moved' = Moved
    BY <2>1 DEF Open, Moved
  <2>3. add'[t].seen = Selected /\ \A u \in Tasks \ {t} : add'[u] = add[u]
    BY <1>2 DEF AddSelects, TypeOK, AddRecord
  <2>4. \A u \in Open : Selected[u] = position[u]
    BY DEF Selected, Open
  <2>5. QED
    BY <2>1, <2>2, <2>3, <2>4 DEF OrderInv, AddedInOrder
<1>3. ASSUME NEW t \in Tasks, AddInserts(t) PROVE OrderInv'
  <2>1. PICK p \in LastOf(add[t].seen) : position' = [position EXCEPT ![t] = p]
    BY <1>3 DEF AddInserts
  <2>2. add[t].seen \in SeenType
    BY DEF TypeOK, AddRecord, SeenType
  <2>3. p \in Int /\ \A u \in Tasks : add[t].seen[u] \in Int => add[t].seen[u] < p
    BY <2>2, EndsBeyond
  <2>4. \A u \in Open \ Moved : position[u] \in Int /\ position[u] < p
    <3>1. \A u \in Open : u \in Tasks /\ position[u] \in Int
      BY DEF TypeOK, Open
    <3>2. \A u \in Open \ Moved : add[t].seen[u] = position[u]
      BY <1>3 DEF AddInserts, OrderInv
    <3>3. QED
      BY <2>3, <3>1, <3>2
  <2>5. /\ number[t] = 0 /\ add[t].number = nextNumber /\ lock = t
        /\ \A u \in Tasks : number[u] < nextNumber
    BY <1>3 DEF AddInserts, NumberInv
  <2>6. number' = [number EXCEPT ![t] = nextNumber] /\ completed' = completed /\ Moved' = Moved
    BY <1>3, <2>5 DEF AddInserts, Moved
  <2>7. \A u \in Open' \ {t} : u \in Open /\ number'[u] = number[u] /\ position'[u] = position[u]
    BY <2>1, <2>6 DEF Open, TypeOK
  <2>8. number'[t] = nextNumber /\ position'[t] = p
    BY <2>1, <2>6 DEF TypeOK
  <2>9. AddedInOrder'
    <3> SUFFICES ASSUME NEW u \in (Open \ Moved)', NEW v \in (Open \ Moved)',
                        number'[u] < number'[v]
                 PROVE  position'[u] < position'[v]
      BY DEF AddedInOrder
    <3>1. u \in Tasks /\ v \in Tasks /\ number[u] \in Nat /\ number[v] \in Nat /\ nextNumber \in Nat
      BY DEF Open, TypeOK
    <3>2. CASE v = t
      <4>1. u # t
        BY <2>8, <3>1, <3>2
      <4>2. u \in Open \ Moved /\ position'[u] = position[u]
        BY <2>6, <2>7, <4>1
      <4>3. QED
        BY <2>4, <2>8, <3>2, <4>2
    <3>3. CASE v # t
      <4>1. v \in Open \ Moved /\ number'[v] = number[v] /\ position'[v] = position[v]
        BY <2>6, <2>7, <3>3
      <4>2. u # t
        BY <2>5, <2>8, <3>1, <4>1
      <4>3. u \in Open \ Moved /\ number'[u] = number[u] /\ position'[u] = position[u]
        BY <2>6, <2>7, <4>2
      <4>4. QED
        BY <4>1, <4>3 DEF OrderInv, AddedInOrder
    <3>4. QED
      BY <3>2, <3>3
  <2>10. \A u \in Tasks : add'[u].pc # "selected"
    <3>1. add'[t].pc = "done" /\ \A u \in Tasks \ {t} : add'[u] = add[u]
      BY <1>3 DEF AddInserts, TypeOK, NewAdd
    <3>2. \A u \in Tasks \ {t} : add[u].pc # "selected"
      BY <2>5 DEF NumberInv
    <3>3. QED
      BY <3>1, <3>2
  <2>11. QED
    BY <2>9, <2>10 DEF OrderInv
<1>4. ASSUME NEW t \in Tasks, AddFails(t) PROVE OrderInv'
  <2>1. \A u \in Tasks : add'[u].pc = "selected" => add'[u] = add[u]
    BY <1>4 DEF AddFails, TypeOK, NewAdd
  <2>2. UNCHANGED <<rows, move>>
    BY <1>4 DEF AddFails
  <2>3. QED
    BY <2>1, <2>2, OrderKept DEF rows, Open, Moved
<1>5. ASSUME NEW t \in Tasks, CompleteTask(t) PROVE OrderInv'
  <2>1. UNCHANGED <<number, add, move>> /\ completed' = completed \cup {t}
    BY <1>5 DEF CompleteTask
  <2>2. \A u \in Open' : u \in Open /\ u # t
    BY <2>1 DEF Open
  <2>3. \A u \in Tasks \ {t} : position'[u] = position[u]
    BY <1>5 DEF CompleteTask, TypeOK
  <2>4. Moved' = Moved /\ Open \subseteq Tasks
    BY <2>1 DEF Moved, Open
  <2>5. QED
    BY <2>1, <2>2, <2>3, <2>4, OrderKept
<1>6. ASSUME NEW m \in Moves, MoveWrites(m) PROVE OrderInv'
  <2>1. PICK p \in Places(move[m]) : position' = [position EXCEPT ![move[m].task] = p]
    BY <1>6 DEF MoveWrites
  <2>2. move'[m].pc = "done" /\ move'[m].task = move[m].task /\ move[m].pc = "write"
    BY <1>6 DEF MoveWrites, TypeOK, NewMove
  <2>3. \A n \in Moves \ {m} : move'[n] = move[n]
    BY <1>6 DEF MoveWrites, TypeOK
  <2>4. Moved' = Moved \cup {move[m].task}
    BY <2>2, <2>3 DEF Moved
  <2>5. UNCHANGED <<number, completed, add>> /\ Open' = Open /\ Open \subseteq Tasks
    BY <1>6 DEF MoveWrites, Open
  <2>6. \A u \in Tasks \ {move[m].task} : position'[u] = position[u]
    BY <2>1 DEF TypeOK
  <2>7. QED
    BY <2>4, <2>5, <2>6, OrderKept
<1>7. ASSUME NEW m \in Moves,
             \/ MoveFindsTask(m) \/ MoveSelectsEnds(m) \/ MoveFindsBefore(m)
             \/ MoveFindsAfter(m) \/ MoveRefused(m)
      PROVE  OrderInv'
  <2>1. UNCHANGED <<rows, add>> /\ move[m].pc # "done" /\ \A n \in Moves \ {m} : move'[n] = move[n]
    BY <1>7 DEF MoveFindsTask, MoveSelectsEnds, MoveFindsBefore, MoveFindsAfter, MoveRefused,
                TypeOK, rows
  <2>2. Moved \subseteq Moved'
    BY <2>1 DEF Moved
  <2>3. QED
    BY <2>1, <2>2, OrderKept DEF rows, Open
<1>8. QED
  BY <1>1, <1>2, <1>3, <1>4, <1>5, <1>6, <1>7 DEF Next, Add, Move

\* Tasks that nobody moved stay in the order they were added in, strictly by position: adds see each
\* other because the project's row is locked, and nothing else changes the position of a task.
THEOREM FirstInFirstOut == Spec => []AddedInOrder
<1>1. Init => OrderInv
  BY DEF Init, OrderInv, AddedInOrder, Open, NewAdd
<1>2. TypeOK /\ SeenInv /\ NumberInv /\ OrderInv /\ [Next]_vars => OrderInv'
  <2>1. CASE UNCHANGED vars
    BY <2>1 DEF vars, rows, OrderInv, AddedInOrder, Open, Moved
  <2>2. QED
    BY <2>1, StepOrder
<1>3. OrderInv => AddedInOrder
  BY DEF OrderInv
<1>4. QED
  BY <1>1, <1>2, <1>3, NumberInvariant, PTL DEF Spec

\* A move that is written puts its task first, last or between its neighbours with respect to every
\* task that is still where the move saw it.
THEOREM MovesAreMade == Spec => MovesLand
<1>1. TypeOK /\ SeenInv /\ [Next]_vars
        => [\A m \in Moves : move[m].pc = "write" /\ move'[m].pc = "done" => Lands(move[m])]_vars
  <2> SUFFICES ASSUME TypeOK, SeenInv, Next, NEW m \in Moves,
                      move[m].pc = "write", move'[m].pc = "done"
               PROVE  Lands(move[m])
    BY DEF vars
  <2>1. MoveWrites(m)
    <3>1. \A n \in Moves : Move(n) => n = m
      BY DEF Move, MoveFindsTask, MoveSelectsEnds, MoveFindsBefore, MoveFindsAfter, MoveRefused,
             MoveWrites, TypeOK
    <3>2. ~\E t \in Tasks : Add(t) \/ CompleteTask(t)
      BY DEF Add, AddTakesNumber, AddSelects, AddInserts, AddFails, CompleteTask
    <3>3. Move(m)
      BY <3>1, <3>2 DEF Next
    <3>4. QED
      BY <3>3 DEF Move, MoveFindsTask, MoveSelectsEnds, MoveFindsBefore, MoveFindsAfter, MoveRefused
  <2>2. PICK p \in Places(move[m]) : position' = [position EXCEPT ![move[m].task] = p]
    BY <2>1 DEF MoveWrites
  <2>3. position'[move[m].task] = p
    BY <2>2 DEF TypeOK, SeenInv
  <2>4. move[m].seen \in SeenType /\ move[m].to \in {"first", "last", "between"}
    BY DEF TypeOK, MoveRecord, SeenType
  <2>5. \A u \in Stayed(move[m]) : u \in Tasks /\ position[u] = move[m].seen[u] /\ position[u] \in Int
    BY DEF Stayed, Open, TypeOK
  <2>6. CASE move[m].to = "first"
    <3>1. p \in FirstOf(move[m].seen)
      BY <2>6 DEF Places
    <3>2. \A u \in Stayed(move[m]) : p < position[u]
      BY <2>4, <2>5, <3>1, EndsBeyond
    <3>3. QED
      BY <2>3, <2>6, <3>2 DEF Lands
  <2>7. CASE move[m].to = "last"
    <3>1. p \in LastOf(move[m].seen)
      BY <2>7 DEF Places
    <3>2. \A u \in Stayed(move[m]) : position[u] < p
      BY <2>4, <2>5, <3>1, EndsBeyond
    <3>3. QED
      BY <2>3, <2>7, <3>2 DEF Lands
  <2>8. CASE move[m].to = "between"
    <3> DEFINE b == move[m].before
               a == move[m].after
    <3>1. p \in Midpoint(move[m].seen[b], move[m].seen[a])
      BY <2>8 DEF Places
    <3>2. move[m].seen[b] \in Int /\ move[m].seen[a] \in Int
      BY <2>8 DEF SeenInv
    <3>3. ASSUME NEW low \in {b, a} \cap Stayed(move[m]), NEW high \in {b, a} \cap Stayed(move[m]),
                 position[low] + 1 < position[high]
          PROVE  position[low] < p /\ p < position[high]
      <4>1. low # high
        BY <2>5, <3>3
      <4>2. CASE low = b /\ high = a
        BY <2>5, <3>1, <3>2, <3>3, <4>2, MidpointBetween
      <4>3. CASE low = a /\ high = b
        BY <2>5, <3>1, <3>2, <3>3, <4>3, MidpointBetween
      <4>4. QED
        BY <4>1, <4>2, <4>3
    <3>4. QED
      BY <2>3, <2>8, <3>3 DEF Lands
  <2>9. QED
    BY <2>4, <2>6, <2>7, <2>8
<1>2. QED
  BY <1>1, Types, PTL DEF Spec, MovesLand
=============================================================================
