------------------------ MODULE TransferCleanupProofs ------------------------
(***************************************************************************)
(* What the deletion of delivered files guarantees for any set of objects, *)
(* any number of retries, faults and changes by others.                    *)
(***************************************************************************)
EXTENDS TransferCleanup, TLAPS

-----------------------------------------------------------------------------
(* Facts about the values.                                                 *)

LEMMA Values ==
  /\ "absent" \in RowState /\ "done" \in RowState /\ "cleaned" \in RowState
  /\ "no" \in DueState /\ "later" \in DueState /\ "now" \in DueState
  /\ \A pc \in {"idle", "rows", "acquire", "stat", "remove", "end"} : pc \in RunState
  /\ 0 \in Tries /\ 1 .. RetryCount + 1 \subseteq Tries
  /\ Ended \subseteq JobState /\ "queued" \in JobState /\ "held" \in JobState
  /\ "completed" \in Ended /\ "failed" \in Ended /\ "modified" \in Ended
  BY CountAssumption DEF RowState, DueState, RunState, Tries, JobState, Ended

LEMMA ItemType ==
  ASSUME NEW x \in Item
  PROVE  /\ x.obj \in Obj /\ x.obj.path \in Path
         /\ x.attempt \in Attempt /\ x.attempt \in Tries /\ x.attempt \in 1 .. RetryCount + 1
         /\ x = [obj |-> x.obj, attempt |-> x.attempt]
  BY ObjAssumption, CountAssumption DEF Item, Attempt, Tries

LEMMA CurIsTheItem ==
  ASSUME TypeOK, run.cur # {}
  PROVE  /\ Cur \in run.cur /\ Cur \in Item
         /\ run.cur = {Cur}
  <1>1. Cur \in run.cur
    BY Zenon DEF Cur
  <1> QED BY <1>1 DEF TypeOK

\* What the operations write into a row is a row.
LEMMA RowWrites ==
  ASSUME NEW r \in RowType
  PROVE  /\ [r EXCEPT !.state = "done", !.due = "later"] \in RowType
         /\ [r EXCEPT !.due = "now"] \in RowType
         /\ [r EXCEPT !.wait = FALSE] \in RowType
         /\ GivenUp(r) \in RowType
         /\ [GivenUp(r) EXCEPT !.state = "cleaned"] \in RowType
         /\ Again(r) \in RowType
         /\ \A n \in 1 .. RetryCount + 1 :
              [r EXCEPT !.job = n, !.wait = FALSE, !.attempt = n] \in RowType
  <1>1. GivenUp(r) \in RowType
    BY Values DEF RowType, GivenUp
  <1>2. [GivenUp(r) EXCEPT !.state = "cleaned"] \in RowType
    BY <1>1, Values DEF RowType
  <1>3. Again(r) \in RowType
    BY Values DEF RowType, Again
  <1>4. \A n \in 1 .. RetryCount + 1 :
          [r EXCEPT !.job = n, !.wait = FALSE, !.attempt = n] \in RowType
    BY Values DEF RowType
  <1>5. [r EXCEPT !.state = "done", !.due = "later"] \in RowType
    BY Values DEF RowType
  <1>6. /\ [r EXCEPT !.due = "now"] \in RowType
        /\ [r EXCEPT !.wait = FALSE] \in RowType
    BY Values DEF RowType
  <1> QED BY <1>1, <1>2, <1>3, <1>4, <1>5, <1>6

\* What reconciliation may do to a row: nothing, end it, or let it wait for
\* another attempt after one that failed.
LEMMA ReconciledKinds ==
  ASSUME IInv, NEW o \in Obj
  PROVE  /\ Reconciled(o) \in RowType
         /\ Reconciled(o).attempt = row[o].attempt
         /\ \/ Reconciled(o) = row[o]
            \/ /\ row[o].state = "done" /\ row[o].job # 0
               /\ job[o][row[o].job] = "completed"
               /\ Reconciled(o).state = "cleaned"
               /\ Reconciled(o).due = "no" /\ Reconciled(o).job = 0
            \/ /\ row[o].state = "done" /\ row[o].job # 0
               /\ Reconciled(o).state = "done"
               /\ Reconciled(o).due = "no" /\ Reconciled(o).job = 0
            \/ /\ row[o].state = "done" /\ row[o].job # 0
               /\ job[o][row[o].job] = "failed"
               /\ row[o].attempt <= RetryCount
               /\ Reconciled(o).state = "done"
               /\ Reconciled(o).due = row[o].due /\ Reconciled(o).job = 0
  <1> DEFINE r == row[o]  s == job[o][r.job]
  <1>0. r \in RowType /\ r.attempt \in Nat
    BY CountAssumption DEF IInv, TypeOK, RowType, Tries
  <1>1. CASE Reconciled(o) = r
    BY <1>0, <1>1
  <1>2. CASE /\ r.state = "done" /\ r.job # 0 /\ s = "completed"
             /\ Reconciled(o) = [GivenUp(r) EXCEPT !.state = "cleaned"]
    <2> DEFINE n == [GivenUp(r) EXCEPT !.state = "cleaned"]
    <2>1. /\ n \in RowType /\ n.state = "cleaned" /\ n.due = "no" /\ n.job = 0
          /\ n.attempt = r.attempt
      BY <1>0, RowWrites DEF RowType, GivenUp
    <2> QED BY <1>2, <2>1
  <1>3. CASE r.state = "done" /\ r.job # 0 /\ Reconciled(o) = GivenUp(r)
    <2>1. /\ GivenUp(r) \in RowType /\ GivenUp(r).state = r.state
          /\ GivenUp(r).due = "no" /\ GivenUp(r).job = 0 /\ GivenUp(r).attempt = r.attempt
      BY <1>0, RowWrites DEF RowType, GivenUp
    <2> QED BY <1>3, <2>1
  <1>4. CASE /\ r.state = "done" /\ r.job # 0 /\ s = "failed" /\ r.attempt <= RetryCount
             /\ Reconciled(o) = Again(r)
    <2>1. /\ Again(r) \in RowType
          /\ Again(r).state = r.state /\ Again(r).due = r.due
          /\ Again(r).job = 0 /\ Again(r).attempt = r.attempt
      BY <1>0, RowWrites DEF RowType, Again
    <2> QED BY <1>4, <2>1
  <1>5. \/ Reconciled(o) = r
        \/ /\ r.state = "done" /\ r.job # 0 /\ s = "completed"
           /\ Reconciled(o) = [GivenUp(r) EXCEPT !.state = "cleaned"]
        \/ r.state = "done" /\ r.job # 0 /\ Reconciled(o) = GivenUp(r)
        \/ /\ r.state = "done" /\ r.job # 0 /\ s = "failed" /\ r.attempt <= RetryCount
           /\ Reconciled(o) = Again(r)
    <2> HIDE DEF r, s
    <2>1. Reconciled(o) = IF r.state # "done" \/ r.job = 0 THEN r
                          ELSE IF s \notin Ended THEN r
                          ELSE IF Succeeded(s) THEN [GivenUp(r) EXCEPT !.state = "cleaned"]
                          ELSE IF IsPermanent(s) \/ r.attempt > RetryCount THEN GivenUp(r)
                          ELSE Again(r)
      BY DEF Reconciled, r, s
    <2>2. s \in Ended /\ ~Succeeded(s) /\ ~IsPermanent(s) => s = "failed"
      BY DEF Succeeded, IsPermanent, Ended
    <2>3. ~(r.attempt > RetryCount) => r.attempt <= RetryCount
      BY <1>0, CountAssumption
    <2> QED BY <2>1, <2>2, <2>3 DEF Succeeded
  <1> QED BY <1>1, <1>2, <1>3, <1>4, <1>5

-----------------------------------------------------------------------------
(* The invariant.                                                          *)

LEMMA InitIInv == Init => IInv
  <1> SUFFICES ASSUME Init PROVE IInv
    OBVIOUS
  <1> USE ObjAssumption, CountAssumption, Values DEF Init
  <1>1. TypeOK
    BY DEF TypeOK, RowType, NoRow, NoRun, JobState
  <1>2. /\ CleanedIsGone /\ CompletedIsGone /\ VerdictIsTrue /\ DeliveredFirst /\ RunIsCurrent
    BY DEF CleanedIsGone, CompletedIsGone, VerdictIsTrue, DeliveredFirst, RunIsCurrent,
           NoRow, NoRun
  <1>3. AttemptsInOrder
    BY DEF AttemptsInOrder, NoRow, Attempt
  <1> QED BY <1>1, <1>2, <1>3 DEF IInv

\* Deliver, FallDue, WaitOver and Finish write one row.
LEMMA DeliverIInv ==
  ASSUME IInv, NEW o \in Obj, Deliver(o)
  PROVE  IInv'
  <1> USE DEF IInv
  <1> DEFINE new == [row[o] EXCEPT !.state = "done", !.due = "later"]
  <1>1. /\ o.path \in Path /\ row[o] \in RowType
        /\ run.pc = "idle" /\ row[o].state = "absent"
        /\ dst' = [dst EXCEPT ![o.path] = o]
        /\ UNCHANGED <<job, run, touched, budget>>
    BY ObjAssumption DEF Deliver, TypeOK
  <1>2. /\ new \in RowType
        /\ new.state = "done" /\ new.due = "later" /\ new.job = row[o].job
        /\ new.attempt = row[o].attempt
    BY <1>1, RowWrites DEF RowType
  <1>3. row' = [row EXCEPT ![o] = new]
    BY DEF Deliver, TypeOK
  <1> HIDE DEF new
  <1>4. row'[o] = new /\ \A q \in Obj \ {o} : row'[q] = row[q]
    BY <1>3 DEF TypeOK
  <1>5. TypeOK'
    <2>1. dst' \in [Path -> Obj \cup {Other, Nothing}] /\ row' \in [Obj -> RowType]
      BY <1>1, <1>2, <1>3 DEF TypeOK
    <2> QED BY <1>1, <2>1 DEF TypeOK
  <1>6. CleanedIsGone' /\ CompletedIsGone'
    BY <1>1, <1>2, <1>4, ObjAssumption DEF CleanedIsGone, CompletedIsGone, DeliveredFirst, TypeOK
  <1>7. VerdictIsTrue'
    BY <1>1 DEF VerdictIsTrue
  <1>7a. DeliveredFirst'
    BY <1>1, <1>2, <1>4 DEF DeliveredFirst
  <1>8. AttemptsInOrder'
    <2>1. row[o].job = 0 /\ row[o].attempt = 0 /\ \A n \in Attempt : job[o][n] = "none"
      BY <1>1 DEF DeliveredFirst
    <2> QED BY <1>1, <1>2, <1>4, <2>1, CountAssumption DEF AttemptsInOrder, Attempt
  <1>9. RunIsCurrent'
    BY <1>1, <1>2, <1>4, ItemType DEF RunIsCurrent, TypeOK
  <1> QED BY <1>5, <1>6, <1>7, <1>7a, <1>8, <1>9

LEMMA TimeIInv ==
  ASSUME IInv, NEW o \in Obj, FallDue(o) \/ WaitOver(o)
  PROVE  IInv'
  <1> USE DEF IInv
  <1> DEFINE new == row'[o]
  <1>1. /\ row[o] \in RowType
        /\ UNCHANGED <<dst, job, run, touched, budget>>
    BY DEF TypeOK, FallDue, WaitOver
  <1>2. /\ new \in RowType
        /\ new.state = row[o].state /\ new.job = row[o].job /\ new.attempt = row[o].attempt
        /\ new.due = row[o].due \/ (row[o].due = "later" /\ new.due = "now")
        /\ row' = [row EXCEPT ![o] = new]
    <2>1. CASE FallDue(o)
      BY <1>1, <2>1, RowWrites DEF FallDue, TypeOK, RowType
    <2>2. CASE WaitOver(o)
      <3> DEFINE over == [row[o] EXCEPT !.wait = FALSE]
      <3>1. row' = [row EXCEPT ![o] = over]
        BY <2>2 DEF WaitOver
      <3>2. /\ over \in RowType /\ over.state = row[o].state /\ over.job = row[o].job
            /\ over.attempt = row[o].attempt /\ over.due = row[o].due
        BY <1>1, RowWrites DEF RowType
      <3> HIDE DEF over
      <3> QED BY <3>1, <3>2 DEF TypeOK
    <2> QED BY <2>1, <2>2
  <1> HIDE DEF new
  <1>4. row'[o] = new /\ \A q \in Obj \ {o} : row'[q] = row[q]
    BY <1>2 DEF TypeOK
  <1>5. TypeOK'
    BY <1>1, <1>2 DEF TypeOK
  <1>6. CleanedIsGone' /\ CompletedIsGone'
    BY <1>1, <1>2, <1>4 DEF CleanedIsGone, CompletedIsGone
  <1>7. VerdictIsTrue' /\ DeliveredFirst'
    BY <1>1, <1>2, <1>4 DEF VerdictIsTrue, DeliveredFirst
  <1>8. AttemptsInOrder'
    BY <1>1, <1>2, <1>4 DEF AttemptsInOrder
  <1>9. RunIsCurrent'
    BY <1>1, <1>2, <1>4, ItemType DEF RunIsCurrent, TypeOK
  <1> QED BY <1>5, <1>6, <1>7, <1>8, <1>9

LEMMA TouchIInv ==
  ASSUME IInv, NEW p \in Path, NEW what \in {Other, Nothing}, Touch(p, what)
  PROVE  IInv'
  <1> USE DEF IInv
  <1>1. /\ dst' = [dst EXCEPT ![p] = what] /\ what \notin Obj
        /\ touched' = touched \cup {p}
        /\ UNCHANGED <<row, job, run>>
    BY ObjAssumption DEF Touch
  <1>2. TypeOK'
    BY <1>1, CountAssumption DEF Touch, TypeOK
  <1>3. \A o \in Obj : dst[o.path] # o => dst'[o.path] # o
    BY <1>1 DEF TypeOK
  <1>4. CleanedIsGone' /\ CompletedIsGone' /\ DeliveredFirst' /\ AttemptsInOrder'
    BY <1>1, <1>3 DEF CleanedIsGone, CompletedIsGone, DeliveredFirst, AttemptsInOrder
  <1>5. VerdictIsTrue'
    BY <1>1, <1>3, ItemType DEF VerdictIsTrue, TypeOK
  <1>6. RunIsCurrent'
    BY <1>1, ItemType DEF RunIsCurrent, TypeOK
  <1> QED BY <1>2, <1>4, <1>5, <1>6

\* What is left of a run that goes on to its next row, or dies.
LEMMA ContinueEffect ==
  ASSUME NEW rows \in SUBSET Item
  PROVE  LET next == Continue(rows) IN
         /\ next \in [pc : RunState, rows : SUBSET Item, cur : SUBSET Item, verdict : Ended]
         /\ next.pc \in {"idle", "rows"} /\ next.rows \in {{}, rows} /\ next.cur = {}
  BY Values DEF Continue, NoRun

LEMMA StartRunIInv ==
  ASSUME IInv, StartRun
  PROVE  IInv'
  <1> USE DEF IInv
  <1>1. /\ \A o \in Obj : row'[o] = Reconciled(o)
        /\ row' = [o \in Obj |-> row'[o]]
        /\ UNCHANGED <<dst, job, touched, budget>>
    BY DEF StartRun
  <1>2. \A o \in Obj : row'[o] \in RowType
    BY <1>1, ReconciledKinds
  <1>3. \A o \in Obj :
          /\ row[o].job # 0 => row[o].job = row[o].attempt /\ row[o].job \in Attempt
          /\ row[o].attempt \in Nat
    BY CountAssumption DEF TypeOK, AttemptsInOrder, RowType, Tries, Attempt
  <1>4. CleanedIsGone' /\ CompletedIsGone'
    BY <1>1, <1>3, ReconciledKinds DEF CleanedIsGone, CompletedIsGone
  <1>5. DeliveredFirst'
    BY <1>1, ReconciledKinds DEF DeliveredFirst
  <1>6. AttemptsInOrder'
    <2> SUFFICES ASSUME NEW o \in Obj
                 PROVE  /\ row'[o].job \in {0, row'[o].attempt}
                        /\ row'[o].attempt > RetryCount => row'[o].job # 0 \/ row'[o].due = "no"
                        /\ \A n \in Attempt :
                             /\ n < row'[o].attempt => job[o][n] = "failed"
                             /\ n = row'[o].attempt => job[o][n] \in Ended
                             /\ n = row'[o].attempt /\ job[o][n] # "failed" =>
                                  row'[o].job = n \/ row'[o].due = "no"
                             /\ n > row'[o].attempt + 1 => job[o][n] = "none"
      BY <1>1 DEF AttemptsInOrder
    <2>1. CASE row'[o] = row[o]
      BY <2>1 DEF AttemptsInOrder
    <2>2. CASE row'[o].due = "no" /\ row'[o].job = 0 /\ row'[o].attempt = row[o].attempt
      BY <2>2 DEF AttemptsInOrder
    <2>3. CASE /\ row[o].job # 0 /\ job[o][row[o].job] = "failed"
               /\ row[o].attempt <= RetryCount
               /\ row'[o].job = 0 /\ row'[o].attempt = row[o].attempt
      BY <1>3, <2>3, CountAssumption DEF AttemptsInOrder
    <2> QED BY <1>1, <2>1, <2>2, <2>3, ReconciledKinds
  <1>7. \A x \in Items(row') :
          \E o \in Obj : IsDue(row'[o]) /\ x = [obj |-> o, attempt |-> row'[o].attempt + 1]
    BY DEF Items
  <1>8. Items(row') \in SUBSET Item
    BY <1>2, <1>6, <1>7, CountAssumption DEF AttemptsInOrder, IsDue, Item, RowType, Tries
  <1>9. /\ run' \in [pc : RunState, rows : SUBSET Item, cur : SUBSET Item, verdict : Ended]
        /\ run'.pc \in {"idle", "rows"} /\ run'.rows \in {{}, Items(row')} /\ run'.cur = {}
    BY <1>8, ContinueEffect DEF StartRun
  <1>10. TypeOK'
    <2>1. row' \in [Obj -> RowType]
      BY <1>1, <1>2
    <2> QED BY <1>1, <1>9, <2>1 DEF TypeOK
  <1>11. VerdictIsTrue' /\ RunIsCurrent'
    BY <1>7, <1>9 DEF VerdictIsTrue, RunIsCurrent, IsDue
  <1> QED BY <1>4, <1>5, <1>6, <1>10, <1>11

\* The next attempt of an object is the one whose job changes.
LEMMA JobWrites ==
  ASSUME IInv, NEW o \in Obj, NEW n \in Attempt, NEW s \in JobState,
         row[o].state # "absent", n = row[o].attempt + 1,
         s = "completed" => dst[o.path] # o,
         job' = [job EXCEPT ![o][n] = s],
         UNCHANGED <<dst, row>>
  PROVE  /\ job' \in [Obj -> [Attempt -> JobState]]
         /\ CleanedIsGone' /\ CompletedIsGone' /\ DeliveredFirst' /\ AttemptsInOrder'
  <1> USE DEF IInv
  <1>1. job' \in [Obj -> [Attempt -> JobState]]
    BY DEF TypeOK
  <1>2. \A p \in Obj, m \in Attempt : job'[p][m] = IF p = o /\ m = n THEN s ELSE job[p][m]
    BY DEF TypeOK
  <1>3. row[o].attempt \in Nat
    BY CountAssumption DEF TypeOK, RowType, Tries
  <1>4. CleanedIsGone' /\ CompletedIsGone' /\ DeliveredFirst'
    BY <1>2 DEF CleanedIsGone, CompletedIsGone, DeliveredFirst
  <1>5. AttemptsInOrder'
    BY <1>2, <1>3 DEF AttemptsInOrder, Attempt
  <1> QED BY <1>1, <1>4, <1>5

LEMMA RunIsDropped ==
  ASSUME IInv, NEW rows \in SUBSET run.rows, run' = Continue(rows), UNCHANGED row
  PROVE  /\ run' \in [pc : RunState, rows : SUBSET Item, cur : SUBSET Item, verdict : Ended]
         /\ run'.cur = {}
         /\ VerdictIsTrue' /\ RunIsCurrent'
  <1>1. rows \in SUBSET Item
    BY DEF IInv, TypeOK
  <1>2. /\ run' \in [pc : RunState, rows : SUBSET Item, cur : SUBSET Item, verdict : Ended]
        /\ run'.pc \in {"idle", "rows"} /\ run'.rows \in {{}, rows} /\ run'.cur = {}
    BY <1>1, ContinueEffect
  <1> QED BY <1>2 DEF IInv, VerdictIsTrue, RunIsCurrent

LEMMA FaultBudget ==
  ASSUME TypeOK, Fault
  PROVE  budget' \in [touches : 0 .. MaxTouches, faults : 0 .. MaxFaults]
  BY CountAssumption DEF TypeOK, Fault

LEMMA DropIInv ==
  ASSUME IInv, Crash \/ \E x \in run.rows : EnqueueFails(x)
  PROVE  IInv'
  <1> USE DEF IInv
  <1>1. /\ UNCHANGED <<dst, row, job, touched>>
        /\ Fault
        /\ \E rows \in SUBSET run.rows : run' = Continue(rows)
    BY DEF Crash, EnqueueFails, Continue
  <1>2. TypeOK'
    BY <1>1, RunIsDropped, FaultBudget DEF TypeOK
  <1>3. VerdictIsTrue' /\ RunIsCurrent'
    BY <1>1, RunIsDropped
  <1>4. CleanedIsGone' /\ CompletedIsGone' /\ DeliveredFirst' /\ AttemptsInOrder'
    BY <1>1 DEF CleanedIsGone, CompletedIsGone, DeliveredFirst, AttemptsInOrder
  <1> QED BY <1>2, <1>3, <1>4

LEMMA EnqueueIInv ==
  ASSUME IInv, NEW x \in run.rows, Enqueue(x)
  PROVE  IInv'
  <1> USE DEF IInv
  <1>1. /\ run.pc = "rows" /\ UNCHANGED <<dst, row, touched, budget>>
        /\ run'.pc = "acquire" /\ run'.rows = run.rows \ {x} /\ run'.cur = {x}
        /\ run'.verdict = run.verdict
        /\ run' \in [pc : {run'.pc}, rows : {run'.rows}, cur : {run'.cur}, verdict : {run'.verdict}]
        /\ x \in Item
    BY DEF Enqueue, TypeOK
  <1>2. /\ row[x.obj].state = "done" /\ row[x.obj].due = "now"
        /\ row[x.obj].job = 0 /\ x.attempt = row[x.obj].attempt + 1
    BY DEF RunIsCurrent
  <1>3. CASE job[x.obj][x.attempt] = "none"
    <2>1. job' = [job EXCEPT ![x.obj][x.attempt] = "queued"]
      BY <1>3 DEF Enqueue
    <2>2. /\ job' \in [Obj -> [Attempt -> JobState]]
          /\ CleanedIsGone' /\ CompletedIsGone' /\ DeliveredFirst' /\ AttemptsInOrder'
      BY <1>1, <1>2, <2>1, ItemType, JobWrites, Values
    <2>3. TypeOK'
      BY <1>1, <2>2, Values DEF TypeOK
    <2>4. VerdictIsTrue' /\ RunIsCurrent'
      BY <1>1 DEF VerdictIsTrue, RunIsCurrent
    <2> QED BY <2>2, <2>3, <2>4
  <1>4. CASE job[x.obj][x.attempt] # "none"
    <2>1. job' = job
      BY <1>4 DEF Enqueue
    <2>2. CleanedIsGone' /\ CompletedIsGone' /\ DeliveredFirst' /\ AttemptsInOrder'
      BY <1>1, <2>1 DEF CleanedIsGone, CompletedIsGone, DeliveredFirst, AttemptsInOrder
    <2>3. TypeOK'
      BY <1>1, <2>1, Values DEF TypeOK
    <2>4. VerdictIsTrue' /\ RunIsCurrent'
      BY <1>1 DEF VerdictIsTrue, RunIsCurrent
    <2> QED BY <2>2, <2>3, <2>4
  <1> QED BY <1>3, <1>4

\* The item that the executor has: the next attempt of a row that is due.
LEMMA CurIsCurrent ==
  ASSUME IInv, run.pc \notin {"idle", "rows"}
  PROVE  /\ run.cur = {Cur} /\ Cur \in Item
         /\ Cur.obj \in Obj /\ Cur.obj.path \in Path /\ Cur.attempt \in Attempt
         /\ Cur.attempt \in 1 .. RetryCount + 1
         /\ row[Cur.obj].state = "done" /\ row[Cur.obj].due = "now"
         /\ row[Cur.obj].job = 0 /\ Cur.attempt = row[Cur.obj].attempt + 1
         /\ \A x \in run.rows : x.obj # Cur.obj
  <1>1. TypeOK /\ run.cur # {}
    BY DEF IInv, VerdictIsTrue
  <1>2. Cur \in run.cur /\ Cur \in Item /\ run.cur = {Cur}
    BY <1>1, CurIsTheItem
  <1>3. /\ row[Cur.obj].state = "done" /\ row[Cur.obj].due = "now"
        /\ row[Cur.obj].job = 0 /\ Cur.attempt = row[Cur.obj].attempt + 1
    BY <1>2 DEF IInv, RunIsCurrent
  <1>4. \A x \in run.rows : x.obj # Cur.obj
    <2> SUFFICES ASSUME NEW x \in run.rows, x.obj = Cur.obj
                 PROVE  FALSE
      OBVIOUS
    <2>1. x \in Item
      BY <1>1 DEF TypeOK
    <2>2. x.attempt = row[x.obj].attempt + 1
      BY DEF IInv, RunIsCurrent
    <2>3. x.attempt = Cur.attempt
      BY <1>3, <2>2
    <2>4. x = Cur
      BY <1>2, <2>1, <2>3, ItemType
    <2> QED BY <1>2, <2>4 DEF IInv, RunIsCurrent
  <1> QED BY <1>1, <1>2, <1>3, <1>4, ItemType

\* An executor that moves on with its item, with the same table of jobs.
LEMMA RunMoves ==
  ASSUME IInv, run.pc \notin {"idle", "rows"},
         NEW pc \in {"stat", "remove", "end"}, NEW v \in Ended,
         run' = [run EXCEPT !.pc = pc, !.verdict = v],
         UNCHANGED row,
         pc = "end" /\ v = "completed" => dst'[Cur.obj.path] # Cur.obj,
         pc = "remove" => dst'[Cur.obj.path] = Cur.obj \/ Cur.obj.path \in touched'
  PROVE  /\ run' \in [pc : RunState, rows : SUBSET Item, cur : SUBSET Item, verdict : Ended]
         /\ \A x, y \in run'.cur : x = y
         /\ VerdictIsTrue' /\ RunIsCurrent'
  <1>1. /\ run'.pc = pc /\ run'.rows = run.rows /\ run'.cur = run.cur /\ run'.verdict = v
        /\ run' \in [pc : RunState, rows : SUBSET Item, cur : SUBSET Item, verdict : Ended]
    BY Values DEF IInv, TypeOK
  <1>2. run.cur = {Cur}
    BY CurIsCurrent
  <1> QED BY <1>1, <1>2 DEF IInv, VerdictIsTrue, RunIsCurrent

LEMMA AcquireIInv ==
  ASSUME IInv, Acquire
  PROVE  IInv'
  <1> USE DEF IInv
  <1>1. /\ UNCHANGED <<dst, row, touched, budget>> /\ run.pc = "acquire"
    BY DEF Acquire
  <1>2. CASE CurJob = "queued"
    <2>1. job' = [job EXCEPT ![Cur.obj][Cur.attempt] = "held"] /\ run' = [run EXCEPT !.pc = "stat"]
      BY <1>2 DEF Acquire, SetJob
    <2>2. /\ job' \in [Obj -> [Attempt -> JobState]]
          /\ CleanedIsGone' /\ CompletedIsGone' /\ DeliveredFirst' /\ AttemptsInOrder'
      BY <1>1, <2>1, CurIsCurrent, JobWrites, Values
    <2>3. run' = [run EXCEPT !.pc = "stat", !.verdict = run.verdict] /\ run.verdict \in Ended
      BY <2>1 DEF TypeOK
    <2>4. /\ run' \in [pc : RunState, rows : SUBSET Item, cur : SUBSET Item, verdict : Ended]
          /\ \A x, y \in run'.cur : x = y
          /\ VerdictIsTrue' /\ RunIsCurrent'
      BY <1>1, <2>3, RunMoves
    <2> QED BY <1>1, <2>2, <2>4 DEF TypeOK
  <1>3. CASE CurJob # "queued"
    <2>1. job' = job /\ run' = Continue(run.rows)
      BY <1>3 DEF Acquire
    <2>2. CleanedIsGone' /\ CompletedIsGone' /\ DeliveredFirst' /\ AttemptsInOrder'
      BY <1>1, <2>1 DEF CleanedIsGone, CompletedIsGone, DeliveredFirst, AttemptsInOrder
    <2> QED BY <1>1, <2>1, <2>2, RunIsDropped DEF TypeOK
  <1> QED BY <1>2, <1>3

LEMMA StatIInv ==
  ASSUME IInv, Stat
  PROVE  IInv'
  <1> USE DEF IInv
  <1>1. /\ UNCHANGED <<dst, row, job, budget>> /\ run.pc = "stat" /\ touched' = {}
    BY DEF Stat
  <1>2. CleanedIsGone' /\ CompletedIsGone' /\ DeliveredFirst' /\ AttemptsInOrder'
    BY <1>1 DEF CleanedIsGone, CompletedIsGone, DeliveredFirst, AttemptsInOrder
  <1>3. \E pc \in {"remove", "end"}, v \in Ended :
          /\ run' = [run EXCEPT !.pc = pc, !.verdict = v]
          /\ pc = "end" => v # "completed"
          /\ pc = "remove" => dst[Cur.obj.path] = Cur.obj
    <2>1. CASE dst[Cur.obj.path] = Nothing
      BY <2>1, Values DEF Stat
    <2>2. CASE dst[Cur.obj.path] # Nothing /\ Matches(Cur.obj.path, Cur.obj)
      <3>1. run' = [run EXCEPT !.pc = "remove"]
        BY <2>2 DEF Stat
      <3>2. run' = [run EXCEPT !.pc = "remove", !.verdict = run.verdict] /\ run.verdict \in Ended
        BY <3>1 DEF TypeOK
      <3> QED BY <2>2, <3>2 DEF Matches
    <2>3. CASE dst[Cur.obj.path] # Nothing /\ ~Matches(Cur.obj.path, Cur.obj)
      BY <2>3, Values DEF Stat
    <2> QED BY <2>1, <2>2, <2>3
  <1>4. /\ run' \in [pc : RunState, rows : SUBSET Item, cur : SUBSET Item, verdict : Ended]
        /\ \A x, y \in run'.cur : x = y
        /\ VerdictIsTrue' /\ RunIsCurrent'
    BY <1>1, <1>3, RunMoves
  <1> QED BY <1>1, <1>2, <1>4 DEF TypeOK

LEMMA RemoveIInv ==
  ASSUME IInv, Remove
  PROVE  IInv'
  <1> USE DEF IInv
  <1> DEFINE p == Cur.obj.path
             v == IF dst[p] = Nothing THEN "failed" ELSE "completed"
  <1>1. /\ UNCHANGED <<row, job, touched, budget>> /\ run.pc = "remove"
        /\ dst' = [dst EXCEPT ![p] = Nothing] /\ p \in Path /\ Cur.obj \in Obj
        /\ run' = [run EXCEPT !.pc = "end", !.verdict = v] /\ v \in Ended
    BY CurIsCurrent, Values DEF Remove
  <1>2. /\ dst' \in [Path -> Obj \cup {Other, Nothing}]
        /\ dst'[p] = Nothing /\ \A o \in Obj : dst[o.path] # o => dst'[o.path] # o
    BY <1>1, ObjAssumption DEF TypeOK
  <1>3. CleanedIsGone' /\ CompletedIsGone' /\ DeliveredFirst' /\ AttemptsInOrder'
    BY <1>1, <1>2 DEF CleanedIsGone, CompletedIsGone, DeliveredFirst, AttemptsInOrder
  <1>4. dst'[Cur.obj.path] # Cur.obj
    BY <1>1, <1>2, ObjAssumption
  <1> HIDE DEF v, p
  <1>5. /\ run' \in [pc : RunState, rows : SUBSET Item, cur : SUBSET Item, verdict : Ended]
        /\ \A x, y \in run'.cur : x = y
        /\ VerdictIsTrue' /\ RunIsCurrent'
    BY <1>1, <1>4, RunMoves
  <1> QED BY <1>1, <1>2, <1>3, <1>5 DEF TypeOK

LEMMA FileErrorIInv ==
  ASSUME IInv, FileError
  PROVE  IInv'
  <1> USE DEF IInv
  <1>1. /\ UNCHANGED <<dst, row, job, touched>> /\ run.pc \in {"stat", "remove"} /\ Fault
        /\ run' = [run EXCEPT !.pc = "end", !.verdict = "failed"]
    BY DEF FileError
  <1>2. CleanedIsGone' /\ CompletedIsGone' /\ DeliveredFirst' /\ AttemptsInOrder'
    BY <1>1 DEF CleanedIsGone, CompletedIsGone, DeliveredFirst, AttemptsInOrder
  <1>3. /\ run' \in [pc : RunState, rows : SUBSET Item, cur : SUBSET Item, verdict : Ended]
        /\ \A x, y \in run'.cur : x = y
        /\ VerdictIsTrue' /\ RunIsCurrent'
    BY <1>1, RunMoves, Values
  <1> QED BY <1>1, <1>2, <1>3, FaultBudget DEF TypeOK

\* What the executor is about to write as the end of its job is true.
LEMMA VerdictHolds ==
  ASSUME IInv, run.pc = "end"
  PROVE  /\ run.verdict \in Ended /\ run.verdict \in JobState
         /\ run.verdict = "completed" => dst[Cur.obj.path] # Cur.obj
  <1>1. Cur \in run.cur
    BY CurIsCurrent
  <1> QED BY <1>1, Values DEF IInv, TypeOK, VerdictIsTrue

LEMMA FinishIInv ==
  ASSUME IInv, Finish
  PROVE  IInv'
  <1> USE DEF IInv
  <1> DEFINE c == Cur.obj  n == Cur.attempt
  <1>1. /\ UNCHANGED <<dst, touched, budget>> /\ run.pc = "end" /\ run' = Continue(run.rows)
    BY DEF Finish
  <1>2. /\ c \in Obj /\ n \in Attempt /\ n \in 1 .. RetryCount + 1
        /\ row[c].state = "done" /\ row[c].due = "now" /\ row[c].job = 0
        /\ n = row[c].attempt + 1
        /\ \A x \in run.rows : x.obj # c
        /\ row[c] \in RowType
    BY <1>1, CurIsCurrent DEF TypeOK
  <1>3. CASE CurJob = "held"
    <2> DEFINE new == [row[c] EXCEPT !.job = n, !.wait = FALSE, !.attempt = n]
    <2>1. /\ job' = [job EXCEPT ![c][n] = run.verdict]
          /\ row' = [row EXCEPT ![c] = new]
      <3>1. NamesJob(row[c])
        BY <1>2 DEF NamesJob
      <3>2. /\ job' = SetJob(run.verdict)
            /\ row' = [row EXCEPT ![Cur.obj].job = Cur.attempt, ![Cur.obj].wait = FALSE,
                                  ![Cur.obj].attempt = Cur.attempt]
        BY <1>3, <3>1 DEF Finish
      <3>3. row' = [row EXCEPT ![c] = new]
        BY <1>2, <3>2 DEF TypeOK
      <3> QED BY <3>2, <3>3 DEF SetJob
    <2>2. /\ new \in RowType
          /\ new.state = "done" /\ new.due = "now" /\ new.job = n /\ new.attempt = n
      <3>1. new \in RowType
        BY <1>2, RowWrites
      <3> QED BY <1>2, <3>1 DEF RowType
    <2> HIDE DEF new
    <2>3. /\ row' \in [Obj -> RowType] /\ row'[c] = new
          /\ \A o \in Obj \ {c} : row'[o] = row[o]
      BY <1>2, <2>1, <2>2 DEF TypeOK
    <2>4. /\ job' \in [Obj -> [Attempt -> JobState]]
          /\ \A o \in Obj, m \in Attempt :
               job'[o][m] = IF o = c /\ m = n THEN run.verdict ELSE job[o][m]
      BY <1>1, <1>2, <2>1, VerdictHolds DEF TypeOK
    <2>5. CleanedIsGone' /\ CompletedIsGone'
      BY <1>1, <1>2, <2>2, <2>3, <2>4, VerdictHolds DEF CleanedIsGone, CompletedIsGone
    <2>6. DeliveredFirst'
      BY <1>2, <2>2, <2>3, <2>4 DEF DeliveredFirst
    <2>7. AttemptsInOrder'
      <3>1. \A m \in Attempt : m < n => job[c][m] = "failed"
        <4>1. \A m \in Attempt : m < row[c].attempt => job[c][m] = "failed"
          BY <1>2 DEF AttemptsInOrder
        <4>2. \A m \in Attempt : m = row[c].attempt => job[c][m] = "failed"
          BY <1>2, CountAssumption DEF AttemptsInOrder, Attempt
        <4> QED BY <1>2, <4>1, <4>2, CountAssumption DEF RowType, Tries, Attempt
      <3>2. \A m \in Attempt : m > n + 1 => job[c][m] = "none"
        BY <1>2, CountAssumption DEF AttemptsInOrder, RowType, Tries, Attempt
      <3>3. run.verdict \in Ended
        BY <1>1, VerdictHolds
      <3>4. /\ row'[c].job \in {0, row'[c].attempt}
            /\ row'[c].attempt > RetryCount => row'[c].job # 0 \/ row'[c].due = "no"
            /\ \A m \in Attempt :
                 /\ m < row'[c].attempt => job'[c][m] = "failed"
                 /\ m = row'[c].attempt => job'[c][m] \in Ended
                 /\ m = row'[c].attempt /\ job'[c][m] # "failed" =>
                      row'[c].job = m \/ row'[c].due = "no"
                 /\ m > row'[c].attempt + 1 => job'[c][m] = "none"
        <4>1. row'[c].job = n /\ row'[c].attempt = n
          BY <2>2, <2>3
        <4>2. \A m \in Attempt : job'[c][m] = IF m = n THEN run.verdict ELSE job[c][m]
          BY <1>2, <2>4
        <4>3. n # 0
          BY <1>2, CountAssumption
        <4> HIDE DEF n, c, new
        <4> QED BY <1>2, <3>1, <3>2, <3>3, <4>1, <4>2, <4>3, CountAssumption DEF Attempt
      <3> QED BY <2>3, <2>4, <3>4 DEF AttemptsInOrder
    <2>8. /\ run' \in [pc : RunState, rows : SUBSET Item, cur : SUBSET Item, verdict : Ended]
          /\ run'.pc \in {"idle", "rows"} /\ run'.rows \in {{}, run.rows} /\ run'.cur = {}
      BY <1>1, ContinueEffect DEF TypeOK
    <2>9. VerdictIsTrue' /\ RunIsCurrent'
      BY <1>2, <2>3, <2>8, ItemType DEF TypeOK, VerdictIsTrue, RunIsCurrent
    <2> QED BY <1>1, <2>3, <2>4, <2>5, <2>6, <2>7, <2>8, <2>9 DEF TypeOK
  <1>4. CASE CurJob # "held"
    <2>1. UNCHANGED <<job, row>>
      BY <1>4 DEF Finish
    <2>2. CleanedIsGone' /\ CompletedIsGone' /\ DeliveredFirst' /\ AttemptsInOrder'
      BY <1>1, <2>1 DEF CleanedIsGone, CompletedIsGone, DeliveredFirst, AttemptsInOrder
    <2> QED BY <1>1, <2>1, <2>2, RunIsDropped DEF TypeOK
  <1> QED BY <1>3, <1>4

LEMMA CrashAfterEndIInv ==
  ASSUME IInv, CrashAfterEnd
  PROVE  IInv'
  <1> USE DEF IInv
  <1>1. /\ UNCHANGED <<dst, row, touched>> /\ run.pc = "end" /\ Fault
        /\ job' = [job EXCEPT ![Cur.obj][Cur.attempt] = run.verdict]
        /\ run' = Continue({})
    BY DEF CrashAfterEnd, SetJob, Continue
  <1>2. /\ job' \in [Obj -> [Attempt -> JobState]]
        /\ CleanedIsGone' /\ CompletedIsGone' /\ DeliveredFirst' /\ AttemptsInOrder'
    BY <1>1, CurIsCurrent, JobWrites, VerdictHolds
  <1>3. /\ run' \in [pc : RunState, rows : SUBSET Item, cur : SUBSET Item, verdict : Ended]
        /\ run'.cur = {}
        /\ VerdictIsTrue' /\ RunIsCurrent'
    BY <1>1, RunIsDropped
  <1> QED BY <1>1, <1>2, <1>3, FaultBudget DEF TypeOK

\* A job that is open is the next attempt of an object that was delivered.
LEMMA OpenIsNext ==
  ASSUME IInv, NEW o \in Obj, NEW n \in Attempt, job[o][n] \in {"queued", "held"}
  PROVE  row[o].state # "absent" /\ n = row[o].attempt + 1
  <1>1. row[o].state # "absent"
    BY DEF IInv, DeliveredFirst
  <1>2. row[o].attempt \in Nat
    BY CountAssumption DEF IInv, TypeOK, RowType, Tries
  <1>3. ~(n < row[o].attempt) /\ n # row[o].attempt /\ ~(n > row[o].attempt + 1)
    BY DEF IInv, AttemptsInOrder, Ended
  <1> QED BY <1>1, <1>2, <1>3, CountAssumption DEF Attempt

LEMMA RequeueIInv ==
  ASSUME IInv, NEW o \in Obj, NEW n \in Attempt, Recover(o, n) \/ Lapse(o, n)
  PROVE  IInv'
  <1> USE DEF IInv
  <1>1. /\ UNCHANGED <<dst, row, run, touched>> /\ job[o][n] = "held"
        /\ job' = [job EXCEPT ![o][n] = "queued"]
        /\ Fault \/ UNCHANGED budget
    BY DEF Recover, Lapse
  <1>2. /\ job' \in [Obj -> [Attempt -> JobState]]
        /\ CleanedIsGone' /\ CompletedIsGone' /\ DeliveredFirst' /\ AttemptsInOrder'
    BY <1>1, OpenIsNext, JobWrites, Values
  <1>3. VerdictIsTrue' /\ RunIsCurrent'
    BY <1>1 DEF VerdictIsTrue, RunIsCurrent
  <1> QED BY <1>1, <1>2, <1>3, FaultBudget DEF TypeOK

LEMMA NextIInv == IInv /\ [Next]_vars => IInv'
  <1> SUFFICES ASSUME IInv, [Next]_vars PROVE IInv'
    OBVIOUS
  <1>1. CASE UNCHANGED vars
    BY <1>1 DEF vars, IInv, TypeOK, CleanedIsGone, CompletedIsGone, VerdictIsTrue,
                DeliveredFirst, AttemptsInOrder, RunIsCurrent
  <1>2. ASSUME NEW o \in Obj, Deliver(o) PROVE IInv'
    BY <1>2, DeliverIInv
  <1>3. ASSUME NEW o \in Obj, FallDue(o) \/ WaitOver(o) PROVE IInv'
    BY <1>3, TimeIInv
  <1>4. ASSUME NEW p \in Path, NEW what \in {Other, Nothing}, Touch(p, what) PROVE IInv'
    BY <1>4, TouchIInv
  <1>5. CASE StartRun
    BY <1>5, StartRunIInv
  <1>6. CASE EnqueueNext
    BY <1>6, EnqueueIInv DEF EnqueueNext
  <1>7. CASE Crash \/ \E x \in run.rows : EnqueueFails(x)
    BY <1>7, DropIInv
  <1>8. CASE Acquire \/ Stat \/ Remove
    BY <1>8, AcquireIInv, StatIInv, RemoveIInv
  <1>9. CASE FileError \/ Finish \/ CrashAfterEnd
    BY <1>9, FileErrorIInv, FinishIInv, CrashAfterEndIInv
  <1>10. CASE Recovery
    BY <1>10, RequeueIInv DEF Recovery
  <1>11. ASSUME NEW o \in Obj, NEW n \in Attempt, Lapse(o, n) PROVE IInv'
    BY <1>11, RequeueIInv
  <1> QED
    BY <1>1, <1>2, <1>3, <1>4, <1>5, <1>6, <1>7, <1>8, <1>9, <1>10, <1>11 DEF Next

\* What the table calls cleaned is gone, whatever crashes, lost leases and
\* changes by others come between stat, rm, the end of the job and the UPDATE
\* of the row; with it everything its proof rests on, the order of the
\* attempts among it (transfer-cleanup.mjs:31-48, 88-122).
THEOREM CleanupIsSafe == Spec => []IInv
  <1>1. Init => IInv
    BY InitIInv
  <1>2. IInv /\ [Next]_vars => IInv'
    BY NextIInv
  <1> QED BY <1>1, <1>2, PTL DEF Spec

\* The part of it that the table shows.
COROLLARY CleanedFilesAreGone == Spec => []CleanedIsGone
  <1>1. IInv => CleanedIsGone
    BY DEF IInv
  <1> QED BY <1>1, CleanupIsSafe, PTL

-----------------------------------------------------------------------------
(* What a step may never do.                                               *)

\* Only a delivery, others and the removal change the destination, and of
\* these only the removal is a step of the run.
LEMMA WhoWrites ==
  ASSUME IInv, Next, run' # run, NEW p \in Path, dst'[p] # dst[p]
  PROVE  Remove
  BY DEF Next, Deliver, FallDue, WaitOver, Touch, StartRun, EnqueueNext, Enqueue, EnqueueFails,
         Acquire, Stat, FileError, Finish, Crash, CrashAfterEnd, Recovery, Recover, Lapse

\* A cleanup removes the generation it was asked to remove and nothing that
\* others or a later transfer put in its place, but for what was put there
\* after its stat: local-repository-transfer.mjs:191-195.
THEOREM RemovesOnlyItsOwn == Spec => OnlyOwnRemoved
  <1>1. ASSUME IInv, [Next]_vars, NEW p \in Path,
               dst[p] # Nothing, dst'[p] = Nothing, run # run'
        PROVE  dst[p] = Cur.obj \/ (p = Cur.obj.path /\ p \in touched)
    <2>1. Remove
      BY <1>1, WhoWrites DEF vars
    <2>2. run.pc = "remove" /\ dst' = [dst EXCEPT ![Cur.obj.path] = Nothing]
      BY <2>1 DEF Remove
    <2>3. p = Cur.obj.path
      BY <1>1, <2>2 DEF IInv, TypeOK
    <2>4. Cur \in run.cur
      BY <1>1, <2>2, CurIsCurrent
    <2> QED BY <1>1, <2>2, <2>3, <2>4 DEF IInv, RunIsCurrent
  <1>2. IInv /\ [Next]_vars =>
          [\A p \in Path :
             dst[p] # Nothing /\ dst'[p] = Nothing /\ run # run' =>
                 dst[p] = Cur.obj \/ (p = Cur.obj.path /\ p \in touched)]_vars
    BY <1>1
  <1> QED BY <1>2, CleanupIsSafe, PTL DEF Spec, OnlyOwnRemoved

\* Only an acquisition gives a job an executor.
LEMMA WhoAcquires ==
  ASSUME IInv, Next, NEW o \in Obj, NEW n \in Attempt,
         job[o][n] # "held", job'[o][n] = "held"
  PROVE  Acquire /\ o = Cur.obj /\ n = Cur.attempt /\ CurJob = "queued"
  <1> USE DEF IInv
  <1>1. ASSUME NEW q \in Obj, NEW m \in Attempt, NEW s \in JobState \ {"held"},
               job' = [job EXCEPT ![q][m] = s]
        PROVE  FALSE
    BY <1>1 DEF TypeOK
  <1>2. job' # job
    OBVIOUS
  <1>3. CASE Acquire
    <2>1. CurJob = "queued" /\ job' = [job EXCEPT ![Cur.obj][Cur.attempt] = "held"]
      BY <1>2, <1>3 DEF Acquire, SetJob
    <2> QED BY <1>3, <2>1 DEF TypeOK
  <1>4. CASE EnqueueNext
    <2>1. PICK x \in run.rows : Enqueue(x)
      BY <1>4 DEF EnqueueNext
    <2>2. x.obj \in Obj /\ x.attempt \in Attempt
      BY ItemType DEF TypeOK
    <2> QED BY <1>1, <1>2, <2>1, <2>2, Values DEF Enqueue
  <1>5. CASE Finish \/ CrashAfterEnd
    <2>1. run.pc = "end" /\ job' = [job EXCEPT ![Cur.obj][Cur.attempt] = run.verdict]
      BY <1>2, <1>5 DEF Finish, CrashAfterEnd, SetJob
    <2>2. run.verdict \in JobState \ {"held"}
      BY <2>1, VerdictHolds DEF Ended
    <2> QED BY <1>1, <2>1, <2>2, CurIsCurrent
  <1>6. ASSUME NEW q \in Obj, NEW m \in Attempt, Recover(q, m) \/ Lapse(q, m)
        PROVE  FALSE
    BY <1>1, <1>6, Values DEF Recover, Lapse
  <1>7. CASE Recovery
    BY <1>6, <1>7 DEF Recovery
  <1> QED
    BY <1>2, <1>3, <1>4, <1>5, <1>6, <1>7
    DEF Next, Deliver, FallDue, WaitOver, Touch, StartRun, EnqueueFails, Stat, Remove,
        FileError, Crash

\* A generation whose cleanup was refused is never tried again, also when the
\* process died before the row named the refusal: transfer-cleanup.mjs:46.
THEOREM RefusedForGood == Spec => RefusalIsFinal
  <1>1. ASSUME IInv, [Next]_vars, NEW o \in Obj, NEW m \in Attempt, NEW n \in Attempt,
               job[o][m] = "modified", job[o][n] # "held", job'[o][n] = "held"
        PROVE  FALSE
    <2>1. /\ Acquire /\ o = Cur.obj /\ n = Cur.attempt /\ CurJob = "queued"
      BY <1>1, WhoAcquires DEF vars
    <2>2. /\ run.pc \notin {"idle", "rows"} /\ job[o][n] = "queued"
      BY <2>1 DEF Acquire, CurJob
    <2>3. /\ row[o].due = "now" /\ row[o].job = 0 /\ n = row[o].attempt + 1
      BY <1>1, <2>1, <2>2, CurIsCurrent
    <2>4. row[o].attempt \in Nat
      BY <1>1, CountAssumption DEF IInv, TypeOK, RowType, Tries
    <2>5. /\ m < row[o].attempt => job[o][m] = "failed"
          /\ m = row[o].attempt => row[o].job = m \/ row[o].due = "no"
          /\ m > row[o].attempt + 1 => job[o][m] = "none"
      BY <1>1 DEF IInv, AttemptsInOrder
    <2> QED BY <1>1, <2>2, <2>3, <2>4, <2>5 DEF Attempt
  <1>2. IInv /\ [Next]_vars =>
          [\A o \in Obj, m, n \in Attempt :
             job[o][m] = "modified" => ~(job[o][n] # "held" /\ job'[o][n] = "held")]_vars
    BY <1>1
  <1> QED BY <1>2, CleanupIsSafe, PTL DEF Spec, RefusalIsFinal
=============================================================================
