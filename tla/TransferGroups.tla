--------------------------- MODULE TransferGroups ---------------------------
(***************************************************************************)
(* Files of a finished torrent: how a scan that asked rTorrent labels      *)
(* them, and how the scheduler hands them over as one manifest.            *)
(*                                                                         *)
(*   apps/local-server/lib/transfer-groups.mjs                             *)
(*   apps/local-server/lib/transfer-rules.mjs                              *)
(*   apps/local-server/lib/local-repository-transfer.mjs                   *)
(*   apps/local-server/lib/runtime-telemetry.mjs                           *)
(*   apps/local-server/bin/gateway.mjs                                     *)
(*                                                                         *)
(* One rule with a gate and one torrent, whose root holds every path.  The *)
(* code has two wirings of a rule: jobs enqueued for an agent (Remote),    *)
(* whose scan is linked to the rule when it is enqueued and whose events   *)
(* arrive later, and the executor inside the gateway, which persists the   *)
(* events of a scan before it links it.                                    *)
(*                                                                         *)
(* Time: `seen` and `started` are the number of the scan; `ripe` says that *)
(* the stability window of a discovered file, or the wait of a retry, is   *)
(* over, and `hold` that stable_since is in the year 9999.                 *)
(***************************************************************************)
EXTENDS Integers, FiniteSets

CONSTANTS
    Path,        \* relative paths below the root of the torrent
    Gen,         \* generations a path may have (size and modification time)
    Obj,         \* object keys: the generations that may come up
    Mode,        \* "copy" or "move"
    Remote,      \* TRUE: jobs for an agent; FALSE: the gateway's executor
    Answers,     \* what a scan may find out about the torrent
    RetryCount,  \* retry_count of the rule
    MaxScans,    \* bound: scans
    MaxFaults    \* bound: crashes, refused calls and scans that fail

ASSUME DataAssumption ==
    /\ IsFiniteSet(Path) /\ IsFiniteSet(Gen)
    /\ Obj \subseteq [path : Path, gen : Gen]
    /\ Mode \in {"copy", "move"} /\ Remote \in BOOLEAN
    /\ Answers \subseteq {"complete", "incomplete", "down"}
ASSUME CountAssumption ==
    RetryCount \in Nat /\ MaxScans \in Nat /\ MaxFaults \in Nat

VARIABLES
    src,     \* the source: the generations that are there
    obj,     \* table transfer_objects
    jobs,    \* table backup_jobs: operation keys and states
    rule,    \* scans in the row of transfer_rules: linked, started, completed
    scan,    \* the discovery job: its number and whether it is open
    sched,   \* the scheduler run of the gateway
    told,    \* history: objects last seen by a scan that knew the torrent
             \* to be complete
    lost,    \* history: those of them whose labels that scan never wrote,
             \* because the process died between its two batches
    upset,   \* history: objects of which a scan was persisted while a job
             \* with them was not recorded yet
    faults   \* faults so far

vars == <<src, obj, jobs, rule, scan, sched, told, lost, upset, faults>>

MaxAttempt == RetryCount + 1

Passive  == {"ignored", "done", "cleaned"}
Blocking == {"queued", "failed", "cancelled"}
Pending  == {"discovered", "retry_wait"}
States   == {"absent", "superseded"} \cup Passive \cup Blocking \cup Pending

NoJob  == [kind |-> "any", items |-> {}, attempt |-> 0]
NoRow  == [state |-> "absent", seen |-> 0, label |-> FALSE, hold |-> FALSE,
           ripe |-> FALSE, attempt |-> 0, last |-> NoJob]
NoRun  == [pc |-> "idle", kind |-> "file", rows |-> {}, items |-> {},
           attempt |-> 0]

\* Operation keys.  The executor of the gateway names a manifest by its
\* items only, an enqueued job also by the torrent.
Key(kind, items, n) ==
    [kind |-> IF Remote THEN kind ELSE "any", items |-> items, attempt |-> n]
CurrentKey == Key(sched.kind, sched.items, sched.attempt)

Init ==
    /\ src = {}
    /\ obj = [o \in Obj |-> NoRow]
    /\ jobs = {}
    /\ rule = [linked |-> 0, started |-> 0, completed |-> 0]
    /\ scan = [n |-> 0, open |-> FALSE]
    /\ sched = NoRun
    /\ told = {} /\ lost = {} /\ upset = {}
    /\ faults = 0

----------------------------------------------------------------------------
(* The source, whose files are written, replaced and put back, until the    *)
(* last scan of the bound lists them.                                       *)

Listable == scan.n < MaxScans

SourceChanges ==
    /\ Listable
    /\ \E o \in Obj \ src :
          src' = {x \in src : x.path # o.path} \cup {o}
    /\ UNCHANGED <<obj, jobs, rule, scan, sched, told, lost, upset, faults>>

----------------------------------------------------------------------------
(* A scan.  Jobs of an agent are linked when they are enqueued: the guard   *)
(* against a second scan sees the open one.                                 *)

StartScan ==
    /\ ~scan.open /\ scan.n < MaxScans
    /\ scan' = [n |-> scan.n + 1, open |-> TRUE]
    /\ rule' = IF Remote
               THEN [rule EXCEPT !.linked = scan.n + 1, !.started = scan.n + 1]
               ELSE rule
    /\ UNCHANGED <<src, obj, jobs, sched, told, lost, upset, faults>>

\* discover: an incomplete torrent is left out of the listing.
Listing(answer) == IF answer = "incomplete" THEN {} ELSE src

ToldBy(answer) ==
    IF answer = "complete" THEN told \cup Listing(answer) ELSE told \ Listing(answer)

\* persistTransferDiscovery, as far as groups depend on it.
Discovered(found) ==
    [o \in Obj |->
        IF o \in found
        THEN IF obj[o].state = "absent"
             THEN [NoRow EXCEPT !.state = "discovered", !.seen = scan.n]
             ELSE [obj[o] EXCEPT !.seen = scan.n]
        ELSE IF obj[o].state \in Pending /\ \E x \in found : x.path = o.path
             THEN [obj[o] EXCEPT !.state = "superseded"]
             ELSE obj[o]]

\* Only the scan that is linked marks the rule as scanned.
Scanned == IF rule.linked = scan.n THEN [rule EXCEPT !.completed = scan.n] ELSE rule

\* The batch of persistTransferGroups: labels of the rows this scan saw are
\* cleared and, when the torrent is complete, set; a copy rule holds the
\* labelled rows back from the per-file scheduler.
Labelled_KeepsHold(rows, grouped) ==
    [o \in Obj |->
        LET row == rows[o]  held == grouped /\ Mode = "copy" IN
        IF row.state = "absent" \/ row.seen # scan.n THEN row
        ELSE [row EXCEPT !.label = grouped, !.hold = held \/ row.hold,
                         !.ripe  = row.ripe /\ ~(row.state = "discovered" /\ held)]]

Labelled(rows, grouped) ==
    [o \in Obj |->
        LET row == rows[o]  held == grouped /\ Mode = "copy" IN
        IF row.state = "absent" \/ row.seen # scan.n THEN row
        ELSE [row EXCEPT !.label = grouped,
                         !.hold  = held \/ (~row.label /\ row.hold),
                         !.ripe  = IF row.state = "discovered" /\ (row.label \/ held)
                                   THEN FALSE ELSE row.ripe]]

\* The checks of persistTransferGroups.
GroupsAccepted == Scanned.linked = scan.n /\ Scanned.completed = scan.n

\* Jobs of an object that still run or have delivered it.
Live(o) == {j \in jobs : o \in j.key.items /\ j.state # "failed"}

\* A pending object that some job already carries, or that the scheduler run
\* has read and is about to send.
Carried(o) ==
    \/ obj[o].state \in Pending /\ Live(o) # {}
    \/ \E r \in sched.rows : r.obj = o

\* The events of a scan are persisted: first the listing, then the groups.
\* Where the groups are refused the scan counts as failed, with its listing
\* in the database and the rule as it was.  The progress and log rows that
\* come with the events are left out.
PersistScan(answer) ==
    /\ scan.open
    /\ LET found == Listing(answer)
           rows  == Discovered(found)
       IN  /\ obj' = IF GroupsAccepted THEN Labelled(rows, answer = "complete") ELSE rows
           /\ told' = ToldBy(answer)
           /\ lost' = lost \ found
           /\ upset' = upset \cup {o \in Obj : Carried(o)}
    /\ rule' = IF GroupsAccepted /\ ~Remote
               THEN [Scanned EXCEPT !.linked = scan.n, !.started = scan.n]
               ELSE Scanned
    /\ scan' = [scan EXCEPT !.open = FALSE]
    /\ UNCHANGED <<src, jobs, sched, faults>>

\* The listing fails, or the gate is required and down: nothing is
\* persisted.  The last scan of the bound succeeds.
ScanFails ==
    /\ scan.open /\ Listable /\ faults < MaxFaults
    /\ scan' = [scan EXCEPT !.open = FALSE]
    /\ faults' = faults + 1
    /\ UNCHANGED <<src, obj, jobs, rule, sched, told, lost, upset>>

\* The process dies between the two batches.
ScanCut(answer) ==
    /\ scan.open /\ Listable /\ faults < MaxFaults
    /\ LET found == Listing(answer)
           rows  == Discovered(found)
       IN  /\ obj' = rows
           /\ told' = ToldBy(answer)
           /\ lost' = (lost \ found) \cup
                       {o \in found : answer = "complete" /\ ~rows[o].label}
           /\ upset' = upset \cup {o \in Obj : Carried(o)}
    /\ rule' = Scanned
    /\ scan' = [scan EXCEPT !.open = FALSE]
    /\ sched' = NoRun
    /\ faults' = faults + 1
    /\ UNCHANGED <<src, jobs>>

----------------------------------------------------------------------------
(* Time passes. *)

Age(o) ==
    /\ ~obj[o].ripe
    /\ \/ obj[o].state = "retry_wait"
       \/ obj[o].state = "discovered" /\ ~obj[o].hold
    /\ obj' = [obj EXCEPT ![o].ripe = TRUE]
    /\ UNCHANGED <<src, jobs, rule, scan, sched, told, lost, upset, faults>>

----------------------------------------------------------------------------
(* runDue of the groups.  The members are the labelled rows of the current *)
(* scan; they go together or not at all.                                    *)

Current(o) == obj[o].seen >= rule.started
Members    == {o \in Obj : obj[o].label /\ Current(o)}
Waiting    == {o \in Members : obj[o].state \in Pending}

MemberReady(o) ==
    obj[o].state = "discovered" \/ (obj[o].state = "retry_wait" /\ obj[o].ripe)

\* The member that no manifest may leave behind: on its way, given up, or
\* not ready.
InTheWay_OnlyFailed(o) == obj[o].state \in {"failed", "cancelled"}

InTheWay(o) ==
    \/ obj[o].state \in Blocking
    \/ obj[o].state \notin Passive /\ ~MemberReady(o)

GroupReady ==
    /\ Mode = "copy"
    /\ Waiting # {}
    /\ \A o \in Members : ~InTheWay(o)

Largest(S)     == CHOOSE m \in S : \A n \in S : n <= m
NextAttempt(O) == 1 + Largest({obj[o].attempt : o \in O})

\* Enqueueing is idempotent on the key; the executor of the gateway refuses
\* a job that has already ended.
Job(k)     == {j \in jobs : j.key = k}
Accepts(k) == Remote \/ \A j \in Job(k) : j.state = "open"
WithJob(k) == IF Job(k) = {} THEN jobs \cup {[key |-> k, state |-> "open"]} ELSE jobs

SendGroup ==
    /\ sched.pc = "idle" /\ GroupReady
    /\ LET n == NextAttempt(Waiting)  k == Key("group", Waiting, n)
       IN  /\ Accepts(k)
           /\ jobs' = WithJob(k)
           /\ sched' = [pc |-> "sent", kind |-> "group", rows |-> {},
                        items |-> Waiting, attempt |-> n]
    /\ UNCHANGED <<src, obj, rule, scan, told, lost, upset, faults>>

\* Enqueueing fails: members that wait for a retry wait once more.
SendGroupFails ==
    /\ sched.pc = "idle" /\ GroupReady
    /\ LET refused == ~Accepts(Key("group", Waiting, NextAttempt(Waiting)))
       IN  /\ refused \/ faults < MaxFaults
           /\ faults' = IF refused THEN faults ELSE faults + 1
    /\ obj' = [o \in Obj |->
                 IF obj[o].label /\ obj[o].state = "retry_wait"
                 THEN [obj[o] EXCEPT !.ripe = FALSE] ELSE obj[o]]
    /\ obj' # obj \/ faults' # faults
    /\ UNCHANGED <<src, jobs, rule, scan, sched, told, lost, upset>>

(* runDue of the rules: the per-file scheduler, which reads the unlabelled *)
(* ready rows once and then sends them one by one.                          *)

FileReady_AnyGroup(o) ==
    /\ obj[o].ripe
    /\ \/ obj[o].state = "discovered" /\ Current(o)
       \/ obj[o].state = "retry_wait"

FileReady(o) ==
    /\ ~obj[o].label
    /\ obj[o].ripe
    /\ \/ obj[o].state = "discovered" /\ Current(o)
       \/ obj[o].state = "retry_wait"

ReadFiles ==
    /\ sched.pc = "idle"
    /\ \E o \in Obj : FileReady(o)
    /\ sched' = [NoRun EXCEPT !.pc = "rows",
                   !.rows = {[obj |-> o, attempt |-> obj[o].attempt] :
                                o \in {x \in Obj : FileReady(x)}}]
    /\ UNCHANGED <<src, obj, jobs, rule, scan, told, lost, upset, faults>>

SendFile(r) ==
    /\ sched.pc = "rows" /\ r \in sched.rows
    /\ LET k == Key("file", {r.obj}, r.attempt + 1)
       IN  /\ Accepts(k)
           /\ jobs' = WithJob(k)
           /\ sched' = [pc |-> "sent", kind |-> "file", rows |-> sched.rows \ {r},
                        items |-> {r.obj}, attempt |-> r.attempt + 1]
    /\ UNCHANGED <<src, obj, rule, scan, told, lost, upset, faults>>

Continue(rows) == IF rows = {} THEN NoRun ELSE [NoRun EXCEPT !.pc = "rows", !.rows = rows]

SendFileFails(r) ==
    /\ sched.pc = "rows" /\ r \in sched.rows
    /\ LET refused == ~Accepts(Key("file", {r.obj}, r.attempt + 1))
       IN  /\ refused \/ faults < MaxFaults
           /\ faults' = IF refused THEN faults ELSE faults + 1
    /\ sched' = Continue(sched.rows \ {r})
    /\ UNCHANGED <<src, obj, jobs, rule, scan, told, lost, upset>>

\* The UPDATE after a job was enqueued (agent) or has ended (gateway).  That
\* of a manifest asks for the label it was sent under.
Recordable(o) ==
    /\ o \in sched.items
    /\ obj[o].state \in Pending
    /\ sched.kind = "group" => obj[o].label

Record ==
    /\ sched.pc = "sent"
    /\ Remote \/ \A j \in Job(CurrentKey) : j.state # "open"
    /\ obj' = [o \in Obj |->
                 IF Recordable(o)
                 THEN [obj[o] EXCEPT !.state = "queued", !.attempt = sched.attempt,
                                     !.ripe = FALSE, !.last = CurrentKey]
                 ELSE obj[o]]
    /\ sched' = Continue(sched.rows)
    /\ UNCHANGED <<src, jobs, rule, scan, told, lost, upset, faults>>

\* A crash loses the run; what was enqueued stays.
Crash ==
    /\ sched.pc # "idle" /\ faults < MaxFaults
    /\ sched' = NoRun
    /\ faults' = faults + 1
    /\ UNCHANGED <<src, obj, jobs, rule, scan, told, lost, upset>>

----------------------------------------------------------------------------
(* Jobs end, and the next run of the rules records how. *)

JobEnds(j, s) ==
    /\ j.state = "open"
    /\ Remote \/ (sched.pc = "sent" /\ j.key = CurrentKey)
    /\ jobs' = (jobs \ {j}) \cup {[j EXCEPT !.state = s]}
    /\ UNCHANGED <<src, obj, rule, scan, sched, told, lost, upset, faults>>

\* The job a queued row names (last_job_id, which is read in this state only)
\* has ended.
Ended(o, j) == obj[o].state = "queued" /\ j.key = obj[o].last /\ j.state # "open"

After(row, s, retries) ==
    IF s = "completed" THEN "done" ELSE IF row.attempt <= retries THEN "retry_wait" ELSE "failed"

Outcome(row, s) == [row EXCEPT !.state = After(row, s, RetryCount), !.last = NoJob]

Reconcile(o, j) ==
    /\ Ended(o, j)
    /\ sched.pc = "idle"
    /\ obj' = [obj EXCEPT ![o] = Outcome(obj[o], j.state)]
    /\ UNCHANGED <<src, jobs, rule, scan, sched, told, lost, upset, faults>>

----------------------------------------------------------------------------
ScanSucceeds == \E a \in Answers : PersistScan(a)
SendFiles    == \E r \in sched.rows : SendFile(r)
EndOfJob     == \E j \in jobs, s \in {"completed", "failed"} : JobEnds(j, s)
Reconciled   == \E o \in Obj, j \in jobs : Reconcile(o, j)

Next ==
    \/ SourceChanges
    \/ StartScan \/ ScanSucceeds \/ ScanFails
    \/ \E a \in Answers : ScanCut(a)
    \/ \E o \in Obj : Age(o)
    \/ SendGroup \/ SendGroupFails
    \/ ReadFiles \/ SendFiles
    \/ \E r \in sched.rows : SendFileFails(r)
    \/ Record \/ Crash
    \/ EndOfJob \/ Reconciled

Spec == Init /\ [][Next]_vars

\* The timers of the gateway fire again and again, scans and jobs end, so that
\* something goes on while there is something to do; the source and the faults
\* are under no obligation.
Progress ==
    \/ StartScan \/ ScanSucceeds
    \/ \E o \in Obj : Age(o)
    \/ SendGroup \/ ReadFiles \/ SendFiles
    \/ \E r \in sched.rows : SendFileFails(r)
    \/ Record \/ EndOfJob \/ Reconciled

FairSpec == Spec /\ WF_vars(Progress)

----------------------------------------------------------------------------
(* Properties. *)

Tries   == 0 .. MaxAttempt
ScanNo  == 0 .. MaxScans
Kinds   == {"any", "file", "group"}
Objects == SUBSET Obj
KeyType == [kind : Kinds, items : Objects, attempt : Tries]
RowType == [state : States, seen : ScanNo, label : BOOLEAN, hold : BOOLEAN,
            ripe : BOOLEAN, attempt : Tries, last : KeyType]

JobState == {"open", "completed", "failed"}
JobType  == [key : KeyType, state : JobState]

Copy    == [obj : Obj, attempt : Tries]
Copies  == SUBSET Copy
RunPc   == {"idle", "rows", "sent"}
RunType == [pc : RunPc, kind : {"file", "group"}, rows : Copies, items : Objects, attempt : Tries]

TypeOK ==
    /\ src \subseteq Obj /\ told \subseteq Obj /\ lost \subseteq Obj /\ upset \subseteq Obj
    /\ obj \in [Obj -> RowType]
    /\ jobs \subseteq JobType
    /\ rule \in [linked : ScanNo, started : ScanNo, completed : ScanNo]
    /\ scan \in [n : ScanNo, open : BOOLEAN]
    /\ sched \in RunType
    /\ faults \in 0 .. MaxFaults

\* A generation is in at most one job that still runs or has delivered it,
\* through retries, supersessions, changes of the torrent and crashes: files
\* that were copied are not copied again.  The exception, which the code has,
\* is a scan that is persisted between the reading of a row and the UPDATE that
\* records its job (or after a crash in between): the group may then have
\* another key, and its members another job (transfer-groups.mjs:79-116,
\* promised by docs/transfers.md:54).
CopiedOnce == \A o \in Obj \ upset : Cardinality(Live(o)) <= 1

\* A file whose last scan found its torrent complete is never taken by the
\* per-file scheduler (docs/transfers.md:52: they are queued as one job).  The
\* exception, which the code has, is a file without a label whose last scan was
\* cut between the batch of the listing and the batch of the groups
\* (runtime-telemetry.mjs:108-113): nothing but the next scan gives it one.
TorrentsStayTogether ==
    [][\A r \in sched'.rows \ sched.rows : r.obj \notin told \ lost]_vars

\* What the documentation says of the same files, and the code does not do:
\* docs/transfers.md:102 - a restart does not forget what was grouped.
RestartKeepsGroups ==
    [][\A r \in sched'.rows \ sched.rows : r.obj \notin told]_vars

\* A pending file that the current scan has seen is eventually on its way or
\* settled, unless a member of its group is in the way for good: a file that
\* was given up, or one that was superseded and put back (it stays superseded
\* and is not passive; transfer-groups.mjs:66-67).
ForGood(o) == Current(o) /\ obj[o].label /\ obj[o].state \in {"failed", "superseded"}

PendingMovesOn ==
    \A o \in Obj :
        (obj[o].state \in Pending /\ Current(o))
            ~> \/ obj[o].state \notin Pending \/ ~Current(o)
               \/ \E x \in Obj : ForGood(x)

----------------------------------------------------------------------------
(* What makes them inductive. *)

\* Scans are counted; an agent's scan is linked to the rule while it is open.
ScansInOrder ==
    /\ \A o \in Obj : obj[o].seen <= scan.n /\ (scan.open => obj[o].seen < scan.n)
    /\ rule.linked <= scan.n /\ rule.started <= scan.n
    /\ Remote /\ scan.open => rule.linked = scan.n

\* What a scan found in a complete torrent has its label, if the scan wrote it.
ToldIsLabelled == Remote => \A o \in told \ lost : obj[o].label /\ obj[o].state # "absent"

\* Objects are pending for an attempt that the rule allows; what is new is in
\* no job.
AttemptsInOrder ==
    \A o \in Obj :
        /\ obj[o].state = "discovered" => obj[o].attempt = 0
        /\ obj[o].state = "retry_wait" => obj[o].attempt <= RetryCount
        /\ obj[o].state = "absent" => \A j \in jobs : o \notin j.key.items

OneJobPerKey == \A i, j \in jobs : i.key = j.key => i = j
InOneJob     == \A o \in Obj \ upset : \A i, j \in Live(o) : i = j

\* A queued object names its job, and no other job holds it.
QueuedIsSent ==
    \A o \in Obj : obj[o].state = "queued" =>
        /\ \E j \in jobs : j.key = obj[o].last
        /\ o \notin upset => \A j \in Live(o) : j.key = obj[o].last

\* Where a pending object has a job already, because the run that enqueued it
\* was lost before it recorded that, it would be sent under the same key
\* again: a file alone, the members of a group all together.
GroupKey == Key("group", Waiting, NextAttempt(Waiting))

SentAgain(o, k) ==
    IF obj[o].label
    THEN Current(o) => k = GroupKey /\ \A x \in Members : obj[x].state # "queued"
    ELSE k = Key("file", {o}, obj[o].attempt + 1)

PendingIsSentAgain ==
    \A o \in Obj \ upset : obj[o].state \in Pending =>
        \A j \in Live(o) : SentAgain(o, j.key)

\* The run: its rows are as it read them, what it sent is in its job only, and
\* while it has files in hand no group is under way that they belong to.
RowIsCurrent(r) ==
    /\ obj[r.obj].state # "absent" /\ r.attempt <= RetryCount
    /\ r.obj \notin upset =>
          obj[r.obj].state \in Pending /\ ~obj[r.obj].label /\ obj[r.obj].attempt = r.attempt

\* A member of a group whose job was not recorded.
Unrecorded(o) == o \notin upset /\ obj[o].state \in Pending /\ obj[o].label /\ Live(o) # {}

RunIsOrdered ==
    /\ sched.pc = "idle" \/ sched.kind = "group" => sched.rows = {}
    /\ sched.kind = "group" => sched.pc = "sent"
    /\ \A r \in sched.rows : RowIsCurrent(r)
    /\ \A q, r \in sched.rows : q.obj = r.obj => q = r
    /\ sched.pc = "sent" =>
          /\ \A r \in sched.rows : r.obj \notin sched.items
          /\ \E j \in jobs : j.key = CurrentKey
          /\ \A o \in sched.items \ upset : \A j \in Live(o) : j.key = CurrentKey
    /\ sched.kind = "group" =>
          \A o \in Obj : Unrecorded(o) /\ Current(o) => o \in sched.items
    /\ sched.pc # "idle" /\ sched.kind = "file" =>
          \/ /\ sched.pc = "sent" => \A o \in sched.items : ~obj[o].label
             /\ \A r \in sched.rows : ~obj[r.obj].label
          \/ \A o \in Obj : ~Unrecorded(o)

IInv ==
    /\ TypeOK /\ ScansInOrder /\ ToldIsLabelled /\ AttemptsInOrder /\ OneJobPerKey
    /\ InOneJob /\ CopiedOnce
    /\ QueuedIsSent /\ PendingIsSentAgain /\ RunIsOrdered
=============================================================================
