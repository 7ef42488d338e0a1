--------------------------- MODULE TransferRules ---------------------------
(***************************************************************************)
(* Transfer rules of the local server: discovery of a source, the life of  *)
(* every object generation, and the transfer of the ready ones into a      *)
(* repository by the executor that runs inside the gateway.                *)
(*                                                                         *)
(*   apps/local-server/lib/transfer-rules.mjs                              *)
(*   apps/local-server/lib/local-repository-transfer.mjs                   *)
(*   apps/local-server/bin/gateway.mjs                                     *)
(*                                                                         *)
(* One rule with a repository destination, ungrouped files.  Four actors   *)
(* share the database: the scheduler of the gateway (one run at a time),   *)
(* the handlers of "Scan now", the handler that edits the rule, and the    *)
(* timer that requeues jobs whose lease ran out.  The source changes under *)
(* them, and the gateway may crash between any two steps.                  *)
(*                                                                         *)
(* The job table is the one of JobEngine, seen through its operation keys: *)
(* job[g][n] is the job "transfer:<rule>:<object key of g>:attempt:<n>".   *)
(***************************************************************************)
EXTENDS Integers, FiniteSets

CONSTANTS
    Path,             \* relative paths in the source
    Gen,              \* generations a file may have: [path, size, stamp]
    None,             \* "no file", "no row", "no scan"
    Manual,           \* concurrent callers of "Scan now"
    Modes,            \* transfer modes the rule may be created with
    InitialBehavior,  \* "ignore_existing" or "process_existing"
    RetryCount,       \* retry_count of the rule
    MaxScans,         \* bound: directory listings
    Reserved,         \* bound: the last of them, which the scheduler makes alone
    MaxCrashes,       \* bound: crashes of the gateway
    MaxLapses,        \* bound: leases lost under a live executor
    MaxEdits          \* bound: edits of the rule

ASSUME PathAssumption == IsFiniteSet(Path) /\ None \notin Path
ASSUME GenAssumption ==
    /\ Gen \subseteq [path : Path, size : Nat, stamp : Nat]
    /\ IsFiniteSet(Gen)
    /\ None \notin Gen
ASSUME ManualAssumption == IsFiniteSet(Manual) /\ "scheduler" \notin Manual
ASSUME RuleAssumption ==
    /\ Modes \subseteq {"copy", "move"}
    /\ InitialBehavior \in {"ignore_existing", "process_existing"}
    /\ RetryCount \in Nat
ASSUME BoundsAssumption ==
    /\ MaxScans \in Nat /\ Reserved \in Nat
    /\ MaxCrashes \in Nat /\ MaxLapses \in Nat /\ MaxEdits \in Nat

VARIABLES
    src,        \* the source: the generation each path has, or None
    born,       \* generations the source has ever had
    delivered,  \* <<generation, version>>: what was committed at the
                \* destination of that version of the rule
    obj,        \* table transfer_objects
    job,        \* table backup_jobs, managed transfers of this rule
    rule,       \* the row of transfer_rules
    sched,      \* the scheduler run of the gateway
    scan,       \* the discovery each caller is in
    clock,      \* listings made so far
    budget      \* crashes, lapses and edits so far

vars == <<src, born, delivered, obj, job, rule, sched, scan, clock, budget>>

Scanner == {"scheduler"} \cup Manual

\* retry_count retries after the first attempt; one more index, so that an
\* attempt beyond the budget is a state and not an evaluation error.
MaxAttempt == RetryCount + 1
Attempt    == 1 .. MaxAttempt + 1

\* The states an object can reach when the executor is local; "unknown" is
\* the absence of a row.
ObjectStates == {"unknown", "discovered", "queued", "retry_wait",
                 "ignored", "done", "failed", "superseded"}
Waiting      == {"discovered", "retry_wait"}
Settled      == {"ignored", "done", "failed", "superseded"}

\* Job states as the rules see them: "waiting" is queued or interrupted,
\* "active" is leased, preparing, running or finalizing.
JobStates   == {"absent", "waiting", "active", "completed", "failed"}
TerminalJob == {"completed", "failed"}

Row == [gen : Gen, attempt : Attempt, version : Nat]

\* Time.  The k-th listing happens at 2k, and what is neither a listing nor
\* its persistence happens at the odd instant after the last one.
Now         == 2 * clock + 1
SeenAt(id)  == 2 * id

NoObject == [state |-> "unknown", attempt |-> 0, ripe |-> FALSE, seen |-> 0]
NoScan   == [pc |-> "idle", at |-> 0, id |-> 0, found |-> {}, first |-> FALSE]
NoRun    == [pc |-> "idle", at |-> 0, rows |-> {}, cur |-> None, staged |-> None]

----------------------------------------------------------------------------
(* Created: enabled, not initialized, due at once, never scanned. *)

Init ==
    /\ src = [p \in Path |-> None]
    /\ born = {}
    /\ delivered = {}
    /\ obj = [g \in Gen |-> NoObject]
    /\ job = [g \in Gen |-> [n \in Attempt |-> "absent"]]
    /\ rule \in [mode : Modes, enabled : {TRUE}, initialized : {FALSE},
                 due : {TRUE}, started : {0}, scanJob : {0}, version : {0}]
    /\ sched = NoRun
    /\ scan = [s \in Scanner |-> NoScan]
    /\ clock = 0
    /\ budget = [crashes |-> 0, lapses |-> 0, edits |-> 0]

----------------------------------------------------------------------------
(* The source: files are written, replaced and removed by their owner.  A   *)
(* generation is written once: its modification time does not come back.    *)

SourceWrite(g) ==
    /\ g \notin born
    /\ clock < MaxScans
    /\ src' = [src EXCEPT ![g.path] = g]
    /\ born' = born \cup {g}
    /\ UNCHANGED <<delivered, obj, job, rule, sched, scan, clock, budget>>

SourceRemove(p) ==
    /\ src[p] # None
    /\ clock < MaxScans
    /\ src' = [src EXCEPT ![p] = None]
    /\ UNCHANGED <<born, delivered, obj, job, rule, sched, scan, clock, budget>>

----------------------------------------------------------------------------
(* Time passes: next_scan_at is reached; a stability window or the wait     *)
(* before a retry is over.  A run compares with the instant it started at,  *)
(* which no object discovered since can have ripened by.                    *)

ScanDue ==
    /\ rule.enabled /\ ~rule.due
    /\ rule' = [rule EXCEPT !.due = TRUE]
    /\ UNCHANGED <<src, born, delivered, obj, job, sched, scan, clock, budget>>

Ripen(g) ==
    /\ obj[g].state \in Waiting
    /\ ~obj[g].ripe
    /\ sched.pc = "reconcile" => obj[g].state = "retry_wait"
    /\ obj' = [obj EXCEPT ![g].ripe = TRUE]
    /\ UNCHANGED <<src, born, delivered, job, rule, sched, scan, clock, budget>>

----------------------------------------------------------------------------
(* runDue: reconcile what the last run queued, transfer what is ready, then *)
(* scan.  transferSchedulerRunning lets one run in at a time.               *)

RunStart ==
    /\ sched.pc = "idle"
    /\ sched' = [sched EXCEPT !.pc = "reconcile", !.at = Now]
    /\ UNCHANGED <<src, born, delivered, obj, job, rule, scan, clock, budget>>

JobOf(g) == job[g][obj[g].attempt]

Reconcilable(g) == obj[g].state = "queued" /\ JobOf(g) \in TerminalJob

\* Mutant: one attempt too many.
MayRetry_OneMore(n) == n <= RetryCount + 1
MayRetry(n) == n <= RetryCount

Outcome(g) ==
    IF JobOf(g) = "completed" THEN "done"
    ELSE IF MayRetry(obj[g].attempt) THEN "retry_wait" ELSE "failed"

Reconcile(g) ==
    /\ sched.pc = "reconcile"
    /\ Reconcilable(g)
    /\ obj' = [obj EXCEPT ![g].state = Outcome(g), ![g].ripe = FALSE]
    /\ UNCHANGED <<src, born, delivered, job, rule, sched, scan, clock, budget>>

\* Seen by the scan last linked to the rule, which started at rule.started.
Fresh(g) == rule.started = 0 \/ obj[g].seen >= rule.started

Ready == {g \in Gen : /\ obj[g].ripe
                      /\ \/ obj[g].state = "discovered" /\ Fresh(g)
                         \/ obj[g].state = "retry_wait"}

\* The rows are read once, with the rule they are joined to; the loop works
\* on this copy while scans and edits go on.
SelectReady ==
    /\ sched.pc = "reconcile"
    /\ \A g \in Gen : ~Reconcilable(g)
    /\ sched' = [sched EXCEPT
         !.pc = "rows",
         !.rows = IF rule.enabled
                  THEN {[gen |-> g, attempt |-> obj[g].attempt + 1,
                         version |-> rule.version] : g \in Ready}
                  ELSE {}]
    /\ UNCHANGED <<src, born, delivered, obj, job, rule, scan, clock, budget>>

----------------------------------------------------------------------------
(* execute: enqueue under the operation key, lease, transfer, settle.       *)

Claimable(state) == state \in {"absent", "waiting"}

\* Mutant: the object is recorded as queued before its job ran.
StartRow_RecordsFirst(r) ==
    /\ sched.pc = "rows" /\ r \in sched.rows
    /\ Claimable(job[r.gen][r.attempt])
    /\ job' = [job EXCEPT ![r.gen][r.attempt] = "active"]
    /\ obj' = IF obj[r.gen].state \in Waiting
              THEN [obj EXCEPT ![r.gen].state = "queued", ![r.gen].attempt = r.attempt]
              ELSE obj
    /\ sched' = [sched EXCEPT !.pc = "copy", !.rows = @ \ {r}, !.cur = r]
    /\ UNCHANGED <<src, born, delivered, rule, scan, clock, budget>>

\* The key is new, or names a job that waits for a lease.
StartRow(r) ==
    /\ sched.pc = "rows" /\ r \in sched.rows
    /\ Claimable(job[r.gen][r.attempt])
    /\ job' = [job EXCEPT ![r.gen][r.attempt] = "active"]
    /\ sched' = [sched EXCEPT !.pc = "copy", !.rows = @ \ {r}, !.cur = r]
    /\ UNCHANGED <<src, born, delivered, obj, rule, scan, clock, budget>>

\* The key names a job that is active or over: acquire throws LeaseConflict,
\* the loop notes the failure and leaves the object as it is.
SkipRow(r) ==
    /\ sched.pc = "rows" /\ r \in sched.rows
    /\ ~Claimable(job[r.gen][r.attempt])
    /\ sched' = [sched EXCEPT !.rows = @ \ {r}]
    /\ UNCHANGED <<src, born, delivered, obj, job, rule, scan, clock, budget>>

\* Mutant: the staged file is not verified.
Verified_Always(staged, g) == TRUE
Verified(staged, g) == staged.size = g.size

\* copyto the staging directory takes whatever the path holds by now, and
\* verify compares sizes; a missing or mismatched file leaves only Fail.
Copy ==
    /\ sched.pc = "copy"
    /\ LET now == src[sched.cur.gen.path]
       IN /\ now # None
          /\ Verified(now, sched.cur.gen)
          /\ sched' = [sched EXCEPT !.pc = "commit", !.staged = now]
    /\ UNCHANGED <<src, born, delivered, obj, job, rule, scan, clock, budget>>

Commit ==
    /\ sched.pc = "commit"
    /\ delivered' = delivered \cup {<<sched.staged, sched.cur.version>>}
    /\ sched' = [sched EXCEPT !.pc = IF rule.mode = "move" THEN "delete" ELSE "finish"]
    /\ UNCHANGED <<src, born, obj, job, rule, scan, clock, budget>>

\* deletefile names the path, not a generation.
DeleteSource ==
    /\ sched.pc = "delete"
    /\ src[sched.cur.gen.path] # None
    /\ src' = [src EXCEPT ![sched.cur.gen.path] = None]
    /\ sched' = [sched EXCEPT !.pc = "finish"]
    /\ UNCHANGED <<born, delivered, obj, job, rule, scan, clock, budget>>

\* The last transition needs the lease; without it execute throws, nothing
\* is recorded, and the loop goes on with the next row.
Settle(outcome) ==
    /\ IF job[sched.cur.gen][sched.cur.attempt] = "active"
       THEN /\ job' = [job EXCEPT ![sched.cur.gen][sched.cur.attempt] = outcome]
            /\ sched' = [sched EXCEPT !.pc = "record", !.staged = None]
       ELSE /\ sched' = [sched EXCEPT !.pc = "rows", !.cur = None, !.staged = None]
            /\ UNCHANGED job
    /\ UNCHANGED <<src, born, delivered, obj, rule, scan, clock, budget>>

Complete == sched.pc = "finish" /\ Settle("completed")

\* rclone exits with an error, a size differs, or the file is gone.
Fail == sched.pc \in {"copy", "commit", "delete"} /\ Settle("failed")

\* Mutant: the UPDATE does not compare the state of the object.
Recordable_Any(g) == obj[g].state # "unknown"
Recordable(g) == obj[g].state \in Waiting

\* UPDATE ... WHERE state IN ('discovered','retry_wait'): a row that a scan
\* superseded or an edit removed meanwhile is not touched.
Record ==
    /\ sched.pc = "record"
    /\ obj' = IF Recordable(sched.cur.gen)
              THEN [obj EXCEPT ![sched.cur.gen].state = "queued",
                               ![sched.cur.gen].attempt = sched.cur.attempt]
              ELSE obj
    /\ sched' = [sched EXCEPT !.pc = "rows", !.cur = None]
    /\ UNCHANGED <<src, born, delivered, job, rule, scan, clock, budget>>

----------------------------------------------------------------------------
(* queueDueScans and scanNow.  Both run the discovery in place, persist it  *)
(* and only then link its job to the rule: lastScanJob is never an active   *)
(* job, so its ACTIVE_STATES tests never hold anybody back.                 *)

BeginScan(s, at) ==
    scan' = [scan EXCEPT ![s] = [NoScan EXCEPT !.pc = "list", !.at = at]]

ScanIfDue ==
    /\ sched.pc = "rows" /\ sched.rows = {}
    /\ IF rule.enabled /\ rule.due /\ clock < MaxScans
       THEN BeginScan("scheduler", sched.at) /\ sched' = [sched EXCEPT !.pc = "scan"]
       ELSE sched' = NoRun /\ UNCHANGED scan
    /\ UNCHANGED <<src, born, delivered, obj, job, rule, clock, budget>>

ScanNow(m) ==
    /\ scan[m].pc = "idle"
    /\ rule.enabled
    /\ clock + Reserved < MaxScans
    /\ BeginScan(m, Now)
    /\ UNCHANGED <<src, born, delivered, obj, job, rule, sched, clock, budget>>

\* MaxScans ends what in the code goes on for ever, the scheduler's listings.
\* The last ones may be reserved to it, after the handlers of "Scan now" have
\* ended, so that nothing waits for one more.
MayList(s) ==
    /\ clock < MaxScans
    /\ clock + Reserved >= MaxScans =>
          s = "scheduler" /\ \A m \in Manual : scan[m].pc = "idle"

ScanList(s) ==
    /\ scan[s].pc = "list"
    /\ MayList(s)
    /\ clock' = clock + 1
    /\ scan' = [scan EXCEPT ![s].pc = "read", ![s].id = clock + 1,
                            ![s].found = {src[p] : p \in Path} \ {None}]
    /\ UNCHANGED <<src, born, delivered, obj, job, rule, sched, budget>>

EndScan(s) ==
    /\ scan' = [scan EXCEPT ![s] = NoScan]
    /\ sched' = IF s = "scheduler" THEN NoRun ELSE sched

\* rclone fails or the lease is lost: nothing is persisted, the rule stays due.
ScanFail(s) ==
    /\ scan[s].pc = "list"
    /\ EndScan(s)
    /\ UNCHANGED <<src, born, delivered, obj, job, rule, clock, budget>>

ScanRead(s) ==
    /\ scan[s].pc = "read"
    /\ scan' = [scan EXCEPT ![s].pc = "persist", ![s].first = ~rule.initialized]
    /\ UNCHANGED <<src, born, delivered, obj, job, rule, sched, clock, budget>>

InitialState(first) ==
    IF first /\ InitialBehavior = "ignore_existing" THEN "ignored" ELSE "discovered"

Replaced(g, found) ==
    \E h \in found : h.path = g.path /\ h # g

\* Mutant: the upsert overwrites the state of a known generation.
Upserted_Resets(g, s) ==
    [obj[g] EXCEPT !.state = InitialState(scan[s].first), !.seen = SeenAt(scan[s].id)]

\* Upsert of what a listing found: a known generation is only seen again.
Upserted(g, s) ==
    IF obj[g].state = "unknown"
    THEN [NoObject EXCEPT !.state = InitialState(scan[s].first), !.seen = SeenAt(scan[s].id)]
    ELSE [obj[g] EXCEPT !.seen = SeenAt(scan[s].id)]

\* One batch: supersede what the listing replaces, upsert what it found, mark
\* the rule initialized if this very scan is the one linked to it.
ScanPersist(s) ==
    /\ scan[s].pc = "persist"
    /\ obj' = [g \in Gen |->
                 IF g \in scan[s].found THEN Upserted(g, s)
                 ELSE IF obj[g].state \in Waiting /\ Replaced(g, scan[s].found)
                 THEN [obj[g] EXCEPT !.state = "superseded", !.ripe = FALSE]
                 ELSE obj[g]]
    /\ rule' = [rule EXCEPT !.initialized = @ \/ rule.scanJob = scan[s].id]
    /\ scan' = [scan EXCEPT ![s].pc = "link"]
    /\ UNCHANGED <<src, born, delivered, job, sched, clock, budget>>

\* Mutant: the scan is linked from the instant it ended.
LinkedFrom_Now(s) == Now
LinkedFrom(s) == scan[s].at

ScanLink(s) ==
    /\ scan[s].pc = "link"
    /\ rule' = [rule EXCEPT !.started = LinkedFrom(s), !.scanJob = scan[s].id, !.due = FALSE]
    /\ EndScan(s)
    /\ UNCHANGED <<src, born, delivered, obj, job, clock, budget>>

----------------------------------------------------------------------------
(* update: a structural change (here: of the destination) is refused while  *)
(* a job of the rule is not terminal.  The database answers synchronously,  *)
(* so the check and the batch are one turn of the event loop.               *)

NoOpenJob == \A g \in Gen, n \in Attempt : job[g][n] \notin {"waiting", "active"}

Edit(on) ==
    /\ budget.edits < MaxEdits
    /\ NoOpenJob
    /\ rule' = [rule EXCEPT !.version = @ + 1, !.initialized = FALSE,
                            !.enabled = on, !.due = on]
    /\ obj' = [g \in Gen |-> NoObject]
    /\ budget' = [budget EXCEPT !.edits = @ + 1]
    /\ UNCHANGED <<src, born, delivered, job, sched, scan, clock>>

SetEnabled(on) ==
    /\ budget.edits < MaxEdits
    /\ rule' = [rule EXCEPT !.enabled = on, !.due = on]
    /\ budget' = [budget EXCEPT !.edits = @ + 1]
    /\ UNCHANGED <<src, born, delivered, obj, job, sched, scan, clock>>

----------------------------------------------------------------------------
(* Leases and crashes.  An active job whose executor is gone lapses and the *)
(* sweep requeues it; a live executor loses its lease when it is suspended  *)
(* for longer than the time to live.  A crash of the gateway loses what the *)
(* runs and handlers hold in memory, never a table.                         *)

IsCurrent(g, n) == sched.cur # None /\ sched.cur.gen = g /\ sched.cur.attempt = n

Recover(g, n) ==
    /\ job[g][n] = "active"
    /\ ~IsCurrent(g, n)
    /\ job' = [job EXCEPT ![g][n] = "waiting"]
    /\ UNCHANGED <<src, born, delivered, obj, rule, sched, scan, clock, budget>>

Lapse(g, n) ==
    /\ job[g][n] = "active"
    /\ IsCurrent(g, n)
    /\ budget.lapses < MaxLapses
    /\ job' = [job EXCEPT ![g][n] = "waiting"]
    /\ budget' = [budget EXCEPT !.lapses = @ + 1]
    /\ UNCHANGED <<src, born, delivered, obj, rule, sched, scan, clock>>

Crash ==
    /\ budget.crashes < MaxCrashes
    /\ \/ sched.pc # "idle"
       \/ \E s \in Scanner : scan[s].pc # "idle"
    /\ sched' = NoRun
    /\ scan' = [s \in Scanner |-> NoScan]
    /\ budget' = [budget EXCEPT !.crashes = @ + 1]
    /\ UNCHANGED <<src, born, delivered, obj, job, rule, clock>>

----------------------------------------------------------------------------

SchedulerStep ==
    \/ \E g \in Gen : Reconcile(g)
    \/ SelectReady
    \/ \E r \in sched.rows : StartRow(r) \/ SkipRow(r)
    \/ Copy \/ Commit \/ DeleteSource \/ Complete \/ Fail \/ Record
    \/ ScanIfDue

ScanStep(s) == ScanList(s) \/ ScanFail(s) \/ ScanRead(s) \/ ScanPersist(s) \/ ScanLink(s)

Environment ==
    \/ \E g \in Gen : SourceWrite(g)
    \/ \E p \in Path : SourceRemove(p)
    \/ ScanDue
    \/ \E g \in Gen : Ripen(g)

Next ==
    \/ Environment
    \/ RunStart
    \/ SchedulerStep
    \/ \E s \in Scanner : ScanStep(s)
    \/ \E m \in Manual : ScanNow(m)
    \/ \E on \in BOOLEAN : Edit(on) \/ SetEnabled(on)
    \/ \E g \in Gen, n \in Attempt : Recover(g, n) \/ Lapse(g, n)
    \/ Crash

Spec == Init /\ [][Next]_vars

\* The scheduler's timer keeps firing and its run keeps going; time passes;
\* expired leases are swept; a listing that is tried again and again succeeds;
\* a handler of "Scan now" comes to its end, and nobody has to press the button.
Fairness ==
    /\ WF_vars(RunStart)
    /\ WF_vars(SchedulerStep)
    /\ \A s \in Scanner : WF_vars(ScanStep(s))
    /\ SF_vars(ScanList("scheduler"))
    /\ WF_vars(ScanDue)
    /\ \A g \in Gen : SF_vars(Ripen(g))
    /\ \A g \in Gen, n \in Attempt : WF_vars(Recover(g, n))

LiveSpec == Spec /\ Fairness

----------------------------------------------------------------------------
(* Type invariant *)

Tries      == 0 .. MaxAttempt
ObjectType == [state : ObjectStates, attempt : Tries, ripe : BOOLEAN, seen : Nat]

Version  == 0 .. MaxEdits
\* A normalized rule: of its fields the mode, and the destination as a version.
RuleType == [mode : Modes, enabled : BOOLEAN, initialized : BOOLEAN, due : BOOLEAN,
             started : Nat, scanJob : Nat, version : Version]

RunPc   == {"idle", "reconcile", "rows", "copy", "commit", "delete", "finish", "record", "scan"}
Rows    == SUBSET Row
CurRow  == Row \cup {None}
File    == Gen \cup {None}
RunType == [pc : RunPc, at : Nat, rows : Rows, cur : CurRow, staged : File]

ScanPc   == {"idle", "list", "read", "persist", "link"}
\* A listing: of an entry its path, size and time.
Found    == SUBSET Gen
ScanType == [pc : ScanPc, at : Nat, id : Nat, found : Found, first : BOOLEAN]

\* Every variable has its type; in particular no object is ever beyond the
\* attempts its rule allows, retries of crashed and lapsed attempts included
\* (queueReadyTransfers, reconcileTerminalTransfers).
TypeOK ==
    /\ src \in [Path -> File]
    /\ born \subseteq Gen
    /\ delivered \subseteq Gen \X Nat
    /\ obj \in [Gen -> ObjectType]
    /\ job \in [Gen -> [Attempt -> JobStates]]
    /\ rule \in RuleType
    /\ sched \in RunType
    /\ scan \in [Scanner -> ScanType]
    /\ clock \in 0 .. MaxScans
    /\ budget \in [crashes : 0 .. MaxCrashes, lapses : 0 .. MaxLapses, edits : Version]

----------------------------------------------------------------------------
(* Safety *)

\* An object reported done was committed and verified: some file of its path
\* and size reached a destination of the rule.  The size is all the executor
\* verifies, so the content may be that of a later generation.
Delivered(g) == \E e \in delivered : e[1].path = g.path /\ e[1].size = g.size

DoneMeansDelivered == \A g \in Gen : obj[g].state = "done" => Delivered(g)

\* An object is queued only under a job that is over, so the next run settles
\* it: no crash, lapse, scan or edit leaves one queued behind a job that
\* nobody will finish.
QueuedMeansSettled ==
    \A g \in Gen : obj[g].state = "queued" => JobOf(g) \in TerminalJob

\* A generation is transferred at most once, whatever is retried, crashes,
\* lapses or is edited: once one of its attempts completed no other attempt
\* is open or completes (operation keys, reconcileTerminalTransfers).
OneDelivery ==
    \A g \in Gen, m, n \in Attempt :
        job[g][m] = "completed" /\ m # n => job[g][n] \in {"absent", "failed"}

\* Ignored, done, failed and superseded generations are never resurrected:
\* only a structural edit, which drops the rows, ends those states.
SettledStaysSettled ==
    [][\A g \in Gen :
         obj[g].state \in Settled /\ obj'[g].state # obj[g].state =>
             rule'.version # rule.version]_vars

----------------------------------------------------------------------------
(* What the documentation says and the code does not do *)

\* docs/transfers.md:36 - generations of the first scan are ignored, future
\* ones start as discovered: nothing is ignored once a scan was completed and
\* linked to the rule.
OnlyFirstScanIgnores ==
    [][\A g \in Gen :
         obj[g].state = "unknown" /\ obj'[g].state = "ignored" => rule.scanJob = 0]_vars

\* docs/transfers.md:83 - Nexus deletes only the committed source file: what
\* a move removes from the source is a generation that was committed.
MoveDeletesOnlyCommitted ==
    [][sched.pc = "delete" /\ sched'.pc = "finish" =>
         \E e \in delivered : e[1] = src[sched.cur.gen.path]]_vars

\* apps/local-server/lib/transfer-rules.mjs:98 - the rule cannot change its
\* endpoints while transfers are active: what the executor works on is a
\* transfer of the rule as it stands.
ActiveTransfersFollowTheRule ==
    sched.pc \in {"copy", "commit", "delete", "finish"} =>
        sched.cur.version = rule.version

----------------------------------------------------------------------------
(* What makes them inductive *)

\* A path holds a generation of its own, and the version of the rule is the
\* number of its structural edits at most.
SourceByPath  == \A p \in Path : src[p] # None => src[p].path = p
EditsCounted  == rule.version <= budget.edits

\* An attempt is made when all before it have failed.  A failed job stays
\* failed, so this holds of the copies in sched.rows too, whatever happened to
\* their objects since they were read.
FailedBelow(g, n) == \A m \in Attempt : m < n => job[g][m] = "failed"

Attemptable(r) == r.attempt <= MaxAttempt /\ FailedBelow(r.gen, r.attempt)

\* An object counts the attempts it was given.
InOrder(g) ==
    /\ obj[g].state = "discovered" => obj[g].attempt = 0
    /\ obj[g].state = "retry_wait" =>
          obj[g].attempt <= RetryCount /\ FailedBelow(g, obj[g].attempt + 1)
    /\ obj[g].state = "queued" => obj[g].attempt >= 1

FailuresComeFirst ==
    /\ \A g \in Gen, n \in Attempt : job[g][n] # "absent" => FailedBelow(g, n)
    /\ \A r \in sched.rows : Attemptable(r)
    /\ \A g \in Gen : InOrder(g)

CompletedIsDelivered ==
    \A g \in Gen, n \in Attempt : job[g][n] = "completed" => Delivered(g)

\* Where the executor is says what it has done for its row.
RunIsOrdered ==
    /\ sched.pc \in {"copy", "commit", "delete", "finish", "record"} =>
          /\ sched.cur \in Row /\ sched.cur.attempt <= MaxAttempt
          /\ job[sched.cur.gen][sched.cur.attempt] # "absent"
    /\ sched.pc = "commit" =>
          /\ sched.staged \in Gen
          /\ sched.staged.path = sched.cur.gen.path
          /\ sched.staged.size = sched.cur.gen.size
    /\ sched.pc \in {"delete", "finish"} => Delivered(sched.cur.gen)
    /\ sched.pc = "record" => job[sched.cur.gen][sched.cur.attempt] \in TerminalJob

IInv ==
    /\ TypeOK /\ SourceByPath /\ EditsCounted
    /\ FailuresComeFirst /\ OneDelivery /\ CompletedIsDelivered /\ RunIsOrdered
    /\ QueuedMeansSettled /\ DoneMeansDelivered

----------------------------------------------------------------------------
(* Liveness *)

\* A file that stays as it is gets transferred, or is given up after the
\* attempts the rule allows; a lost lease or a failed listing only delays it,
\* and so does "Scan now".  The exception, which the code has, is that nothing
\* orders two listings (transfer-rules.mjs:134-140, 186-203): one that is
\* persisted after a younger one supersedes what that discovered (321-327),
\* and the upsert never revives it (331).  The rule is not edited meanwhile,
\* and the gateway does not crash, which may leave a file behind as well.
Overtaken(g) == obj[g].state = "superseded" /\ src[g.path] = g

StableFilesSettle ==
    \A g \in Gen :
        <>[](src[g.path] = g) => <>(obj[g].state \in {"done", "failed"} \/ Overtaken(g))
=============================================================================
