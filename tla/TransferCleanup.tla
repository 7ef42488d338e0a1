--------------------------- MODULE TransferCleanup ---------------------------
(***************************************************************************)
(* The deletion of delivered files after cleanup_days.                     *)
(*                                                                         *)
(*   apps/local-server/lib/transfer-cleanup.mjs                            *)
(*   apps/local-server/lib/local-repository-transfer.mjs (executeCleanup)  *)
(*   apps/local-server/bin/gateway.mjs (runTransferScheduler)              *)
(*                                                                         *)
(* The destination belongs to others too: somebody may replace or remove a *)
(* file there at any time.  A step is what runs between two real awaits:   *)
(* the enqueueing of a job (an HTTP call), stat and rm.  The statements of *)
(* the database are synchronous, so that the end of a job and the UPDATE   *)
(* of the object are one step unless the process dies in between.          *)
(***************************************************************************)
EXTENDS Integers, FiniteSets

CONSTANTS
    Path,         \* relative paths at the destination
    Obj,          \* object keys: generations [path, gen] that were transferred
    SubMs,        \* those whose modification time has digits below a ms
    Nothing,      \* "no file"
    Other,        \* a file that is not Nexus's
    RetryCount,   \* retry_count of the rule
    MaxTouches,   \* bound: changes by others at the destination
    MaxFaults     \* bound: crashes, lost leases, failed calls

ASSUME ObjAssumption ==
    /\ Obj \subseteq [path : Path, gen : Nat] /\ IsFiniteSet(Obj)
    /\ SubMs \subseteq Obj
    /\ Nothing \notin Obj /\ Other \notin Obj /\ Nothing # Other
ASSUME CountAssumption ==
    RetryCount \in Nat /\ MaxTouches \in Nat /\ MaxFaults \in Nat

VARIABLES
    dst,      \* the destination: the generation at a path, Other or Nothing
    row,      \* table transfer_objects
    job,      \* table backup_jobs: the cleanup jobs of each object by attempt
    run,      \* the cleanup run of the gateway, with the executor in it
    touched,  \* history: paths changed by others since the last stat
    budget    \* touches and faults so far

vars == <<dst, row, job, run, touched, budget>>

Attempt  == 1 .. RetryCount + 2
JobState == {"none", "queued", "held", "completed", "modified", "failed"}
Ended    == {"completed", "modified", "failed"}

\* A row is due when cleanup_after is reached, `wait` is a
\* next_cleanup_retry_at that is not, `job` the attempt of cleanup_job_id.
NoRow == [state |-> "absent", due |-> "no", wait |-> FALSE, job |-> 0, attempt |-> 0]
NoRun == [pc |-> "idle", rows |-> {}, cur |-> {}, verdict |-> "completed"]

Init ==
    /\ dst = [p \in Path |-> Nothing]
    /\ row = [o \in Obj |-> NoRow]
    /\ job = [o \in Obj |-> [n \in Attempt |-> "none"]]
    /\ run = NoRun
    /\ touched = {}
    /\ budget = [touches |-> 0, faults |-> 0]

Fault == budget.faults < MaxFaults /\ budget' = [budget EXCEPT !.faults = @ + 1]

----------------------------------------------------------------------------
(* Deliveries, by the same scheduler and never during a cleanup run; the   *)
(* reconciliation of a transfer sets cleanup_after.                         *)

Deliver(o) ==
    /\ run.pc = "idle" /\ row[o].state = "absent"
    /\ dst' = [dst EXCEPT ![o.path] = o]
    /\ row' = [row EXCEPT ![o].state = "done", ![o].due = "later"]
    /\ UNCHANGED <<job, run, touched, budget>>

\* Others replace or remove a file.  Theirs differ from what was delivered
\* in size or modification time.
Touch(p, what) ==
    /\ dst[p] # what
    /\ budget.touches < MaxTouches
    /\ budget' = [budget EXCEPT !.touches = @ + 1]
    /\ dst' = [dst EXCEPT ![p] = what]
    /\ touched' = touched \cup {p}
    /\ UNCHANGED <<row, job, run>>

FallDue(o) ==
    /\ row[o].due = "later"
    /\ row' = [row EXCEPT ![o].due = "now"]
    /\ UNCHANGED <<dst, job, run, touched, budget>>

WaitOver(o) ==
    /\ row[o].wait
    /\ row' = [row EXCEPT ![o].wait = FALSE]
    /\ UNCHANGED <<dst, job, run, touched, budget>>

----------------------------------------------------------------------------
(* A run: reconcile what has ended, then read the rows that are due.        *)

GivenUp(r) == [r EXCEPT !.due = "no", !.wait = FALSE, !.job = 0]

IsPermanent_Never(s) == FALSE

\* The message of the job starts with MODIFIED_PREFIX.
IsPermanent(s) == s = "modified"

Succeeded_NotRefused(s) == s # "modified"

Succeeded(s) == s = "completed"

Again_KeepsJob(r) == [r EXCEPT !.wait = TRUE]

\* Another try after retry_wait_seconds.
Again(r) == [r EXCEPT !.job = 0, !.wait = TRUE]

Reconciled(o) ==
    LET r == row[o]  s == job[o][r.job] IN
    IF r.state # "done" \/ r.job = 0 THEN r
    ELSE IF s \notin Ended THEN r
    ELSE IF Succeeded(s) THEN [GivenUp(r) EXCEPT !.state = "cleaned"]
    ELSE IF IsPermanent(s) \/ r.attempt > RetryCount THEN GivenUp(r)
    ELSE Again(r)

IsDue(r) == r.state = "done" /\ r.due = "now" /\ r.job = 0 /\ ~r.wait

Continue(rows) == IF rows = {} THEN NoRun ELSE [NoRun EXCEPT !.pc = "rows", !.rows = rows]

\* What a run takes from the table: the next attempt of each row that is due.
Items(table) ==
    {[obj |-> o, attempt |-> table[o].attempt + 1] : o \in {o \in Obj : IsDue(table[o])}}

StartRun ==
    /\ run.pc = "idle"
    /\ row' = [o \in Obj |-> Reconciled(o)]
    /\ run' = Continue(Items(row'))
    /\ UNCHANGED <<dst, job, touched, budget>>

\* executeCleanup enqueues; the operation key names object and attempt.
Enqueue(x) ==
    /\ run.pc = "rows" /\ x \in run.rows
    /\ job' = IF job[x.obj][x.attempt] = "none"
              THEN [job EXCEPT ![x.obj][x.attempt] = "queued"] ELSE job
    /\ run' = [run EXCEPT !.pc = "acquire", !.rows = @ \ {x}, !.cur = {x}]
    /\ UNCHANGED <<dst, row, touched, budget>>

EnqueueFails(x) ==
    /\ run.pc = "rows" /\ x \in run.rows
    /\ Fault
    /\ run' = Continue(run.rows \ {x})
    /\ UNCHANGED <<dst, row, job, touched>>

\* The item the executor works at, where there is one.
Cur        == CHOOSE x \in run.cur : TRUE
CurJob     == job[Cur.obj][Cur.attempt]
SetJob(s)  == [job EXCEPT ![Cur.obj][Cur.attempt] = s]

\* Only a queued job can be acquired: whatever ended or is still leased to an
\* executor that died is a failure of this row, and the loop goes on.
Acquire ==
    /\ run.pc = "acquire"
    /\ IF CurJob = "queued"
       THEN job' = SetJob("held") /\ run' = [run EXCEPT !.pc = "stat"]
       ELSE job' = job /\ run' = Continue(run.rows)
    /\ UNCHANGED <<dst, row, touched, budget>>

Matches_SizeOnly(p, o) == dst[p] # Nothing

\* Size and modification time are those of the object: stat reports digits
\* below the millisecond, the object has none.
Matches(p, o) == dst[p] = o /\ o \notin SubMs

Stat ==
    /\ run.pc = "stat"
    /\ LET p == Cur.obj.path IN
       run' = IF dst[p] = Nothing THEN [run EXCEPT !.pc = "end", !.verdict = "failed"]
              ELSE IF Matches(p, Cur.obj) THEN [run EXCEPT !.pc = "remove"]
              ELSE [run EXCEPT !.pc = "end", !.verdict = "modified"]
    /\ touched' = {}
    /\ UNCHANGED <<dst, row, job, budget>>

Remove ==
    /\ run.pc = "remove"
    /\ LET p == Cur.obj.path
       IN  /\ run' = [run EXCEPT !.pc = "end",
                        !.verdict = IF dst[p] = Nothing THEN "failed" ELSE "completed"]
           /\ dst' = [dst EXCEPT ![p] = Nothing]
    /\ UNCHANGED <<row, job, touched, budget>>

\* stat or rm fail for a reason of their own.
FileError ==
    /\ run.pc \in {"stat", "remove"}
    /\ Fault
    /\ run' = [run EXCEPT !.pc = "end", !.verdict = "failed"]
    /\ UNCHANGED <<dst, row, job, touched>>

NamesJob(r) == r.state = "done" /\ r.job = 0

\* The last transitions, which the lease must still allow, and the UPDATE of
\* the object; if the lease is gone the loop goes on without it.
Finish ==
    /\ run.pc = "end"
    /\ IF CurJob = "held"
       THEN /\ job' = SetJob(run.verdict)
            /\ row' = IF NamesJob(row[Cur.obj])
                      THEN [row EXCEPT ![Cur.obj].job = Cur.attempt, ![Cur.obj].wait = FALSE,
                                       ![Cur.obj].attempt = Cur.attempt]
                      ELSE row
       ELSE UNCHANGED <<job, row>>
    /\ run' = Continue(run.rows)
    /\ UNCHANGED <<dst, touched, budget>>

----------------------------------------------------------------------------
(* Faults. *)

Crash ==
    /\ run.pc # "idle"
    /\ Fault
    /\ run' = NoRun
    /\ UNCHANGED <<dst, row, job, touched>>

\* The process dies after the job ended and before the object names it.
CrashAfterEnd ==
    /\ run.pc = "end" /\ CurJob = "held"
    /\ Fault
    /\ job' = SetJob(run.verdict)
    /\ run' = NoRun
    /\ UNCHANGED <<dst, row, touched>>

HeldByRun(o, n) ==
    run.pc \in {"stat", "remove", "end"} /\ run.cur = {[obj |-> o, attempt |-> n]}

\* The recovery timer queues a job again whose executor is gone.
Recover(o, n) ==
    /\ job[o][n] = "held" /\ ~HeldByRun(o, n)
    /\ job' = [job EXCEPT ![o][n] = "queued"]
    /\ UNCHANGED <<dst, row, run, touched, budget>>

\* Heartbeats fail until the lease of a live executor is over.
Lapse(o, n) ==
    /\ job[o][n] = "held" /\ HeldByRun(o, n)
    /\ Fault
    /\ job' = [job EXCEPT ![o][n] = "queued"]
    /\ UNCHANGED <<dst, row, run, touched>>

----------------------------------------------------------------------------
EnqueueNext == \E x \in run.rows : Enqueue(x)
Recovery    == \E o \in Obj, n \in Attempt : Recover(o, n)

Next ==
    \/ \E o \in Obj : Deliver(o) \/ FallDue(o) \/ WaitOver(o)
    \/ \E p \in Path, what \in {Other, Nothing} : Touch(p, what)
    \/ StartRun \/ EnqueueNext
    \/ \E x \in run.rows : EnqueueFails(x)
    \/ Acquire \/ Stat \/ Remove \/ FileError \/ Finish
    \/ Crash \/ CrashAfterEnd \/ Recovery
    \/ \E o \in Obj, n \in Attempt : Lapse(o, n)

Spec == Init /\ [][Next]_vars

\* Time passes, the two timers fire again and again, calls come back.
Fairness ==
    /\ \A o \in Obj : WF_vars(FallDue(o)) /\ WF_vars(WaitOver(o))
    /\ WF_vars(StartRun) /\ WF_vars(EnqueueNext) /\ WF_vars(Acquire)
    /\ WF_vars(Stat) /\ WF_vars(Remove) /\ WF_vars(Finish) /\ WF_vars(Recovery)

FairSpec == Spec /\ Fairness

----------------------------------------------------------------------------
(* Properties. *)

RowState == {"absent", "done", "cleaned"}
DueState == {"no", "later", "now"}
Tries    == 0 .. RetryCount + 1
RowType  == [state : RowState, due : DueState, wait : BOOLEAN, job : Tries, attempt : Tries]
RunState == {"idle", "rows", "acquire", "stat", "remove", "end"}
Item     == [obj : Obj, attempt : 1 .. RetryCount + 1]

TypeOK ==
    /\ dst \in [Path -> Obj \cup {Other, Nothing}]
    /\ row \in [Obj -> RowType]
    /\ job \in [Obj -> [Attempt -> JobState]]
    /\ run \in [pc : RunState, rows : SUBSET Item, cur : SUBSET Item, verdict : Ended]
    /\ \A x, y \in run.cur : x = y
    /\ touched \subseteq Path
    /\ budget \in [touches : 0 .. MaxTouches, faults : 0 .. MaxFaults]

\* What the database calls cleaned is not at the destination any more: a row
\* and the file it stands for agree, although crashes, lost leases and changes
\* by others come between stat, rm, the end of the job and the two UPDATEs
\* (transfer-cleanup.mjs:35-42, local-repository-transfer.mjs:187-199).
CleanedIsGone ==
    \A o \in Obj : row[o].state = "cleaned" => dst[o.path] # o

\* Its strengthening: a job that completed, and an executor that is about to
\* say so, have removed the file, and nothing happens to an object before it
\* was delivered.
CompletedIsGone ==
    \A o \in Obj, n \in Attempt : job[o][n] = "completed" => dst[o.path] # o
VerdictIsTrue ==
    /\ run.pc \notin {"idle", "rows"} => run.cur # {}
    /\ run.pc = "end" /\ run.verdict = "completed" =>
         \A x \in run.cur : dst[x.obj.path] # x.obj
DeliveredFirst ==
    \A o \in Obj :
        row[o].state = "absent" =>
            /\ row[o].job = 0 /\ row[o].attempt = 0
            /\ \A n \in Attempt : job[o][n] = "none"

\* The attempts of an object are made one after the other: those before the
\* one that the row counts have failed, the next is the only one that may be
\* open, and a refusal or a success ends the row.
AttemptsInOrder ==
    \A o \in Obj :
        /\ row[o].job \in {0, row[o].attempt}
        /\ row[o].attempt > RetryCount => row[o].job # 0 \/ row[o].due = "no"
        /\ \A n \in Attempt :
             /\ n < row[o].attempt => job[o][n] = "failed"
             /\ n = row[o].attempt => job[o][n] \in Ended
             /\ n = row[o].attempt /\ job[o][n] # "failed" =>
                  row[o].job = n \/ row[o].due = "no"
             /\ n > row[o].attempt + 1 => job[o][n] = "none"

\* What a run holds are the next attempts of rows that are due, until it is
\* through with them, and the file that stat has passed is still the object
\* unless others have changed it.
RunIsCurrent ==
    /\ run.rows \cap run.cur = {}
    /\ \A x \in run.rows \cup run.cur :
         /\ row[x.obj].state = "done" /\ row[x.obj].due = "now"
         /\ row[x.obj].job = 0 /\ x.attempt = row[x.obj].attempt + 1
    /\ run.pc = "remove" =>
         \A x \in run.cur : dst[x.obj.path] = x.obj \/ x.obj.path \in touched

\* The invariant: types, CleanedIsGone and what makes it inductive.
IInv ==
    /\ TypeOK /\ CleanedIsGone /\ CompletedIsGone /\ VerdictIsTrue
    /\ DeliveredFirst /\ AttemptsInOrder /\ RunIsCurrent

\* A cleanup removes the file it was asked to remove, in the generation that
\* was delivered, and nothing that somebody else or a later transfer put at
\* its path.  The exception is a file put there between the stat and the rm
\* (local-repository-transfer.mjs:191-195; docs/transfers.md:110-116).
OnlyOwnRemoved ==
    [][\A p \in Path :
          dst[p] # Nothing /\ dst'[p] = Nothing /\ run # run' =>
              dst[p] = Cur.obj \/ (p = Cur.obj.path /\ p \in touched)]_vars

\* A generation whose cleanup was refused because its destination had changed
\* is never tried again, also when the process died before the refusal was
\* recorded (transfer-cleanup.mjs:46; docs/transfers.md:115: "permanently").
RefusalIsFinal ==
    [][\A o \in Obj, m, n \in Attempt :
          job[o][m] = "modified" => ~(job[o][n] # "held" /\ job'[o][n] = "held")]_vars

\* A row that is due is eventually cleaned or given up.  The exception is a
\* crash after the end of the job and before the row names it: the operation
\* key of the next try is that of a finished job, which nobody can acquire
\* (transfer-cleanup.mjs:110-122).
Orphaned(o) == row[o].job = 0 /\ job[o][row[o].attempt + 1] \in Ended

DueSettles ==
    \A o \in Obj : row[o].due = "now" ~> row[o].due = "no" \/ Orphaned(o)
=============================================================================
