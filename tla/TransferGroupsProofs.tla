----------------------- MODULE TransferGroupsProofs -----------------------
(***************************************************************************)
(* What the grouping of torrent files guarantees for any source, any       *)
(* number of scans, retries and faults, and both wirings of a rule.        *)
(*                                                                         *)
(* A job may be enqueued and the run lost before it records that: its      *)
(* objects are pending and have a job.  What keeps them out of a second    *)
(* one is that they would be sent under the same key (PendingIsSentAgain), *)
(* the members of a group because none of them can leave or join the       *)
(* waiting ones before a scan is persisted.                                *)
(***************************************************************************)
EXTENDS TransferGroups, FiniteSetTheorems, WellFoundedInduction, TLAPS

-----------------------------------------------------------------------------
(* Facts about the values.                                                 *)

LEMMA Values ==
  /\ \A s \in {"absent", "superseded", "ignored", "done", "cleaned", "queued", "failed",
               "cancelled", "discovered", "retry_wait"} : s \in States
  /\ Pending = {"discovered", "retry_wait"} /\ Blocking = {"queued", "failed", "cancelled"}
  /\ \A k \in {"any", "file", "group"} : k \in Kinds
  /\ \A s \in {"open", "completed", "failed"} : s \in JobState
  /\ JobState = {"open", "completed", "failed"}
  /\ \A p \in {"idle", "rows", "sent"} : p \in RunPc
  /\ RunPc = {"idle", "rows", "sent"}
  /\ {} \in Objects /\ {} \in Copies /\ TRUE \in BOOLEAN /\ FALSE \in BOOLEAN
  BY DEF States, Passive, Pending, Blocking, Kinds, JobState, RunPc, Objects, Copies

LEMMA Numbers ==
  /\ RetryCount \in Nat /\ MaxAttempt \in Nat /\ MaxAttempt = RetryCount + 1
  /\ \A n \in Nat : n <= MaxAttempt => n \in Tries
  /\ \A n \in Tries : n \in Nat /\ n <= MaxAttempt
  /\ \A n \in Nat : n <= MaxScans => n \in ScanNo
  /\ \A n \in ScanNo : n \in Nat /\ n <= MaxScans
  /\ 0 \in Tries /\ 0 \in ScanNo
  BY CountAssumption DEF MaxAttempt, Tries, ScanNo

LEMMA RowFields ==
  ASSUME TypeOK, NEW o \in Obj
  PROVE  /\ obj[o] \in RowType /\ obj[o].state \in States /\ obj[o].seen \in ScanNo
         /\ obj[o].seen \in Nat /\ obj[o].attempt \in Tries /\ obj[o].attempt \in Nat
         /\ obj[o].label \in BOOLEAN /\ obj[o].hold \in BOOLEAN /\ obj[o].ripe \in BOOLEAN
         /\ obj[o].last \in KeyType
  BY Numbers DEF TypeOK, RowType

LEMMA JobFields ==
  ASSUME TypeOK, NEW j \in jobs
  PROVE  j \in JobType /\ j.key \in KeyType /\ j.state \in JobState /\ j.key.items \in Objects
  BY DEF TypeOK, JobType, KeyType

LEMMA RunFields ==
  ASSUME TypeOK
  PROVE  /\ sched \in RunType /\ sched.pc \in RunPc /\ sched.kind \in {"file", "group"}
         /\ sched.rows \in Copies /\ sched.items \in Objects /\ sched.attempt \in Tries
         /\ \A r \in sched.rows : r \in Copy /\ r.obj \in Obj /\ r.attempt \in Tries
         /\ \A o \in sched.items : o \in Obj
  BY DEF TypeOK, RunType, Copies, Copy, Objects

LEMMA ScanNumbers ==
  ASSUME TypeOK
  PROVE  /\ scan.n \in Nat /\ scan.n \in ScanNo /\ scan.open \in BOOLEAN
         /\ rule.started \in Nat /\ rule.linked \in Nat /\ rule.completed \in ScanNo
         /\ rule.started \in ScanNo /\ rule.linked \in ScanNo
  BY Numbers DEF TypeOK

LEMMA NoTypes ==
  /\ NoJob \in KeyType
  /\ NoRow \in RowType /\ NoRow.state = "absent" /\ NoRow.seen = 0 /\ NoRow.attempt = 0
  /\ NoRun \in RunType /\ NoRun.pc = "idle" /\ NoRun.kind = "file" /\ NoRun.rows = {}
  /\ NoRun.items = {}
  <1>1. NoJob \in KeyType
    BY Values, Numbers DEF NoJob, KeyType
  <1>2. /\ NoRow \in RowType /\ NoRow.state = "absent" /\ NoRow.seen = 0 /\ NoRow.attempt = 0
    BY <1>1, Values, Numbers DEF NoRow, RowType
  <1> QED BY <1>1, <1>2, Values, Numbers DEF NoRun, RunType

LEMMA KeyFacts ==
  ASSUME NEW kind \in {"file", "group"}, NEW items \in Objects, NEW n \in Tries
  PROVE  Key(kind, items, n) \in KeyType /\ Key(kind, items, n).items = items
  BY Values DEF Key, KeyType

\* What is left of the run after a job.
LEMMA ContinueFacts ==
  ASSUME NEW rows \in Copies
  PROVE  /\ Continue(rows) \in RunType /\ Continue(rows).rows = rows
         /\ Continue(rows).kind = "file" /\ Continue(rows).items = {}
         /\ Continue(rows).pc = IF rows = {} THEN "idle" ELSE "rows"
  BY NoTypes, Values DEF Continue, RunType

-----------------------------------------------------------------------------
(* The largest of finitely many attempts.                                  *)

LEMMA LargestExists ==
  ASSUME NEW S, S \subseteq Nat, S # {}, NEW bound \in Nat, \A n \in S : n <= bound
  PROVE  Largest(S) \in S /\ \A n \in S : n <= Largest(S)
  <1> DEFINE T == {m \in Nat : \A n \in S : n <= m}
  <1>1. T \subseteq Nat /\ T # {}
    OBVIOUS
  <1>2. PICK x \in T : \A y \in T : ~(<<y, x>> \in OpToRel(<, Nat))
    BY <1>1, WFMin, NatLessThanWellFounded
  <1>3. x \in Nat /\ (\A n \in S : n <= x) /\ \A y \in T : ~(y < x)
    BY <1>2 DEF OpToRel
  <1>4. x \in S
    <2> SUFFICES ASSUME x \notin S PROVE FALSE
      OBVIOUS
    <2>1. PICK s \in S : TRUE
      OBVIOUS
    <2>2. x >= 1 /\ x - 1 \in Nat
      BY <1>3, <2>1
    <2>3. x - 1 \in T
      BY <1>3, <2>2
    <2> QED BY <1>3, <2>2, <2>3
  <1>5. \E m \in S : \A n \in S : n <= m
    BY <1>3, <1>4
  <1> QED BY <1>5 DEF Largest

LEMMA NextAttemptType ==
  ASSUME IInv, Waiting # {}
  PROVE  NextAttempt(Waiting) \in Tries /\ NextAttempt(Waiting) \in Nat
  <1> DEFINE S == {obj[o].attempt : o \in Waiting}
  <1>1. \A o \in Waiting : o \in Obj /\ obj[o].state \in Pending
    BY DEF Waiting, Members
  <1>2. \A o \in Waiting : obj[o].attempt \in Nat /\ obj[o].attempt <= RetryCount
    BY <1>1, Values, Numbers, RowFields DEF IInv, AttemptsInOrder
  <1>3. S \subseteq Nat /\ S # {} /\ \A n \in S : n <= RetryCount
    BY <1>2
  <1>4. Largest(S) \in S
    BY <1>3, Numbers, LargestExists
  <1>5. 1 + Largest(S) \in Nat /\ 1 + Largest(S) <= MaxAttempt
    BY <1>3, <1>4, Numbers
  <1>6. NextAttempt(Waiting) = 1 + Largest(S)
    BY DEF NextAttempt
  <1> QED BY <1>5, <1>6, Numbers

-----------------------------------------------------------------------------
(* What the parts of the invariant see of a step.                          *)

\* One live job at most, said without counting.
LEMMA OneIsFew ==
  ASSUME NEW S, \A x, y \in S : x = y
  PROVE  Cardinality(S) <= 1
  <1>1. CASE S = {}
    BY <1>1, FS_EmptySet
  <1>2. CASE S # {}
    <2>1. PICK x \in S : TRUE
      BY <1>2
    <2>2. S = {x}
      BY <2>1
    <2> QED BY <2>2, FS_Singleton
  <1> QED BY <1>1, <1>2

LEMMA CountLive ==
  ASSUME InOneJob
  PROVE  CopiedOnce
  BY OneIsFew DEF InOneJob, CopiedOnce

\* The part of the invariant about the tables, and the part about the run.
TablesInOrder ==
  /\ AttemptsInOrder /\ OneJobPerKey /\ InOneJob /\ QueuedIsSent /\ PendingIsSentAgain

LEMMA Together ==
  ASSUME TypeOK', ScansInOrder', ToldIsLabelled', TablesInOrder', RunIsOrdered'
  PROVE  IInv'
  <1>1. CopiedOnce'
    <2> SUFFICES ASSUME NEW o \in Obj \ upset' PROVE Cardinality(Live(o)') <= 1
      BY DEF CopiedOnce
    <2>1. \A x, y \in Live(o)' : x = y
      BY DEF TablesInOrder, InOneJob
    <2> HIDE DEF Live
    <2> QED BY <2>1, OneIsFew
  <1> QED BY <1>1 DEF IInv, TablesInOrder

\* The jobs keep their keys, and none that failed comes back.
JobsGoOn ==
  /\ \A j \in jobs : \E i \in jobs' : i.key = j.key
  /\ \A i \in jobs' : \E j \in jobs : i.key = j.key /\ (i.state # "failed" => j.state # "failed")
  /\ \A i, j \in jobs' : i.key = j.key => i = j

LEMMA SameJobsGoOn ==
  ASSUME IInv, UNCHANGED jobs
  PROVE  JobsGoOn
  BY DEF IInv, OneJobPerKey, JobsGoOn

LEMMA LiveBefore ==
  ASSUME JobsGoOn, NEW o, NEW i \in Live(o)'
  PROVE  \E j \in Live(o) : i.key = j.key
  BY DEF JobsGoOn, Live

\* Objects whose rows say the same wait for the same key.
LEMMA SameGroup ==
  ASSUME rule'.started = rule.started,
         \A o \in Obj : /\ obj'[o].seen = obj[o].seen
                        /\ obj'[o].label <=> obj[o].label,
         \A o \in Members : obj'[o].state = obj[o].state /\ obj'[o].attempt = obj[o].attempt
  PROVE  /\ \A o \in Obj : Current(o)' <=> Current(o)
         /\ Members' = Members /\ Waiting' = Waiting /\ GroupKey' = GroupKey
  <1>1. \A o \in Obj : Current(o)' <=> Current(o)
    BY DEF Current
  <1>2. Members' = Members
    BY <1>1 DEF Members
  <1>3. Waiting' = Waiting
    BY <1>2 DEF Waiting
  <1>4. {obj'[o].attempt : o \in Waiting'} = {obj[o].attempt : o \in Waiting}
    BY <1>3 DEF Waiting
  <1>5. GroupKey' = GroupKey
    BY <1>3, <1>4 DEF GroupKey, NextAttempt, Key
  <1> QED BY <1>1, <1>2, <1>3, <1>5

\* A step that leaves what the tables say of objects as it is.
LEMMA TablesKept ==
  ASSUME IInv, JobsGoOn, rule'.started = rule.started, UNCHANGED upset,
         \A o \in Obj : /\ obj'[o].state = obj[o].state /\ obj'[o].seen = obj[o].seen
                        /\ obj'[o].label <=> obj[o].label
                        /\ obj'[o].attempt = obj[o].attempt /\ obj'[o].last = obj[o].last
  PROVE  TablesInOrder'
  <1> USE DEF IInv
  <1>1. /\ \A o \in Obj : Current(o)' <=> Current(o)
        /\ Members' = Members /\ GroupKey' = GroupKey
    BY SameGroup DEF Members
  <1>2. AttemptsInOrder'
    BY DEF AttemptsInOrder, JobsGoOn
  <1>3. OneJobPerKey'
    BY DEF OneJobPerKey, JobsGoOn
  <1>4. InOneJob'
    <2> SUFFICES ASSUME NEW o \in Obj \ upset, NEW h \in Live(o)', NEW i \in Live(o)'
                 PROVE  h = i
      BY DEF InOneJob
    <2>1. PICK x \in Live(o) : h.key = x.key
      BY LiveBefore
    <2>2. PICK y \in Live(o) : i.key = y.key
      BY LiveBefore
    <2>3. h \in jobs' /\ i \in jobs'
      BY DEF Live
    <2> QED BY <2>1, <2>2, <2>3 DEF InOneJob, JobsGoOn
  <1>5. QueuedIsSent'
    <2> SUFFICES ASSUME NEW o \in Obj, obj[o].state = "queued"
                 PROVE  /\ \E j \in jobs' : j.key = obj[o].last
                        /\ o \notin upset => \A i \in Live(o)' : i.key = obj[o].last
      BY DEF QueuedIsSent
    <2>1. \E j \in jobs' : j.key = obj[o].last
      BY DEF QueuedIsSent, JobsGoOn
    <2>2. ASSUME o \notin upset, NEW i \in Live(o)'
          PROVE  i.key = obj[o].last
      <3>1. PICK j \in Live(o) : i.key = j.key
        BY LiveBefore
      <3> QED BY <2>2, <3>1 DEF QueuedIsSent
    <2> QED BY <2>1, <2>2
  <1>6. PendingIsSentAgain'
    <2> SUFFICES ASSUME NEW o \in Obj \ upset, obj[o].state \in Pending, NEW i \in Live(o)'
                 PROVE  SentAgain(o, i.key)'
      BY DEF PendingIsSentAgain
    <2>1. PICK j \in Live(o) : i.key = j.key
      BY LiveBefore
    <2>2. SentAgain(o, i.key)
      BY <2>1 DEF PendingIsSentAgain
    <2>3. \A x \in Members : x \in Obj
      BY DEF Members
    <2> QED BY <1>1, <2>2, <2>3 DEF SentAgain, Key
  <1> QED BY <1>2, <1>3, <1>4, <1>5, <1>6 DEF TablesInOrder

\* The run that goes on sees the same.
LEMMA RunKept ==
  ASSUME IInv, JobsGoOn, UNCHANGED <<sched, upset>>,
         \A o \in Obj : Current(o)' => Current(o),
         \A o \in Obj : /\ obj'[o].state = obj[o].state /\ obj'[o].attempt = obj[o].attempt
                        /\ obj'[o].label <=> obj[o].label
  PROVE  RunIsOrdered'
  <1> USE DEF IInv
  <1>1. \A o \in Obj : Unrecorded(o)' => Unrecorded(o)
    BY LiveBefore DEF Unrecorded
  <1>2. \A r \in sched.rows : RowIsCurrent(r)'
    BY RunFields DEF RunIsOrdered, RowIsCurrent
  <1>3. sched.pc = "sent" =>
          /\ \E j \in jobs' : j.key = CurrentKey
          /\ \A o \in sched.items \ upset : \A i \in Live(o)' : i.key = CurrentKey
    BY LiveBefore DEF RunIsOrdered, JobsGoOn
  <1>4. CurrentKey' = CurrentKey
    BY DEF CurrentKey, Key
  <1>5. sched.kind = "group" =>
          \A o \in Obj : Unrecorded(o)' /\ Current(o)' => o \in sched.items
    BY <1>1 DEF RunIsOrdered
  <1>6. sched.pc # "idle" /\ sched.kind = "file" =>
          \/ /\ sched.pc = "sent" => \A o \in sched.items : ~obj'[o].label
             /\ \A r \in sched.rows : ~obj'[r.obj].label
          \/ \A o \in Obj : ~Unrecorded(o)'
    BY <1>1, RunFields DEF RunIsOrdered
  <1> QED BY <1>2, <1>3, <1>4, <1>5, <1>6 DEF RunIsOrdered

\* A run that is over, or was lost, is in order.
LEMMA NoRunInOrder ==
  ASSUME sched' = NoRun
  PROVE  RunIsOrdered'
  BY NoTypes DEF RunIsOrdered

-----------------------------------------------------------------------------
(* Steps that leave the tables of objects and jobs as they are, or nearly. *)

\* A step in which objects only age or lose their place in time.
LEMMA ObjectsStay ==
  ASSUME IInv, UNCHANGED <<rule, scan, told, lost, upset>>, JobsGoOn,
         \A o \in Obj : /\ obj'[o].state = obj[o].state /\ obj'[o].seen = obj[o].seen
                        /\ obj'[o].label <=> obj[o].label
                        /\ obj'[o].attempt = obj[o].attempt /\ obj'[o].last = obj[o].last,
         TypeOK', RunIsOrdered' \/ UNCHANGED sched
  PROVE  IInv'
  <1>1. TablesInOrder'
    BY TablesKept
  <1>2. ScansInOrder' /\ ToldIsLabelled'
    BY DEF IInv, TypeOK, ScansInOrder, ToldIsLabelled
  <1>3. RunIsOrdered'
    BY RunKept DEF Current
  <1> QED BY <1>1, <1>2, <1>3, Together

\* A step that changes neither table.
LEMMA TablesStay ==
  ASSUME IInv, UNCHANGED <<obj, jobs, rule, scan, told, lost, upset>>, src' \subseteq Obj,
         sched' \in RunType, faults' \in 0 .. MaxFaults, RunIsOrdered' \/ UNCHANGED sched
  PROVE  IInv'
  <1>1. TypeOK'
    BY DEF IInv, TypeOK
  <1> QED BY <1>1, SameJobsGoOn, ObjectsStay

LEMMA FaultCounted ==
  ASSUME TypeOK, faults' = faults \/ (faults < MaxFaults /\ faults' = faults + 1)
  PROVE  faults' \in 0 .. MaxFaults
  BY CountAssumption DEF TypeOK

LEMMA SourceIInv ==
  ASSUME IInv, SourceChanges
  PROVE  IInv'
  <1>1. src' \subseteq Obj /\ UNCHANGED <<obj, jobs, rule, scan, sched, told, lost, upset, faults>>
    BY DEF SourceChanges, IInv, TypeOK
  <1> QED BY <1>1, TablesStay DEF IInv, TypeOK

LEMMA CrashIInv ==
  ASSUME IInv, Crash
  PROVE  IInv'
  BY TablesStay, NoRunInOrder, NoTypes, FaultCounted DEF Crash, IInv, TypeOK

LEMMA ScanFailsIInv ==
  ASSUME IInv, ScanFails
  PROVE  IInv'
  <1> USE DEF IInv
  <1>1. /\ scan' = [scan EXCEPT !.open = FALSE] /\ faults' = faults + 1 /\ faults < MaxFaults
        /\ UNCHANGED <<src, obj, jobs, rule, sched, told, lost, upset>>
    BY DEF ScanFails
  <1>2. scan' \in [n : ScanNo, open : BOOLEAN] /\ scan'.n = scan.n /\ ~scan'.open
    BY <1>1 DEF TypeOK
  <1>3. TypeOK'
    BY <1>1, <1>2, FaultCounted DEF TypeOK
  <1>4. ScansInOrder' /\ ToldIsLabelled'
    BY <1>1, <1>2 DEF ScansInOrder, ToldIsLabelled
  <1>5. TablesInOrder'
    BY <1>1, SameJobsGoOn, TablesKept
  <1>6. RunIsOrdered'
    BY <1>1, SameJobsGoOn, RunKept DEF Current
  <1> QED BY <1>3, <1>4, <1>5, <1>6, Together

LEMMA AgeIInv ==
  ASSUME IInv, NEW o \in Obj, Age(o)
  PROVE  IInv'
  <1>1. obj' = [obj EXCEPT ![o].ripe = TRUE] /\ UNCHANGED <<src, jobs, rule, scan, sched, told, lost, upset, faults>>
    BY DEF Age
  <1>2. [obj[o] EXCEPT !.ripe = TRUE] \in RowType
    BY RowFields DEF IInv, RowType
  <1>3. TypeOK'
    BY <1>1, <1>2 DEF IInv, TypeOK
  <1>4. \A x \in Obj : /\ obj'[x].state = obj[x].state /\ obj'[x].seen = obj[x].seen
                       /\ obj'[x].label <=> obj[x].label
                       /\ obj'[x].attempt = obj[x].attempt /\ obj'[x].last = obj[x].last
    BY <1>1 DEF IInv, TypeOK, RowType
  <1> QED BY <1>1, <1>3, <1>4, SameJobsGoOn, ObjectsStay

LEMMA SendGroupFailsIInv ==
  ASSUME IInv, SendGroupFails
  PROVE  IInv'
  <1>1. /\ faults' = faults \/ (faults < MaxFaults /\ faults' = faults + 1)
        /\ obj' = [o \in Obj |->
                     IF obj[o].label /\ obj[o].state = "retry_wait"
                     THEN [obj[o] EXCEPT !.ripe = FALSE] ELSE obj[o]]
        /\ UNCHANGED <<src, jobs, rule, scan, sched, told, lost, upset>>
    BY DEF SendGroupFails
  <1>2. \A o \in Obj : /\ [obj[o] EXCEPT !.ripe = FALSE] \in RowType
                       /\ [obj[o] EXCEPT !.ripe = FALSE].state = obj[o].state
                       /\ [obj[o] EXCEPT !.ripe = FALSE].seen = obj[o].seen
                       /\ [obj[o] EXCEPT !.ripe = FALSE].label <=> obj[o].label
                       /\ [obj[o] EXCEPT !.ripe = FALSE].attempt = obj[o].attempt
                       /\ [obj[o] EXCEPT !.ripe = FALSE].last = obj[o].last
    BY RowFields DEF IInv, RowType
  <1>3. obj' \in [Obj -> RowType]
    BY <1>1, <1>2 DEF IInv, TypeOK
  <1>4. TypeOK'
    BY <1>1, <1>3, FaultCounted DEF IInv, TypeOK
  <1>5. \A x \in Obj : /\ obj'[x].state = obj[x].state /\ obj'[x].seen = obj[x].seen
                       /\ obj'[x].label <=> obj[x].label
                       /\ obj'[x].attempt = obj[x].attempt /\ obj'[x].last = obj[x].last
    BY <1>1, <1>2
  <1> QED BY <1>1, <1>4, <1>5, SameJobsGoOn, ObjectsStay

LEMMA SendFileFailsIInv ==
  ASSUME IInv, NEW r \in sched.rows, SendFileFails(r)
  PROVE  IInv'
  <1> USE DEF IInv
  <1> DEFINE rows == sched.rows \ {r}
  <1>1. /\ sched.pc = "rows" /\ sched' = Continue(rows)
        /\ faults' = faults \/ (faults < MaxFaults /\ faults' = faults + 1)
        /\ UNCHANGED <<src, obj, jobs, rule, scan, told, lost, upset>>
    BY DEF SendFileFails
  <1>2. rows \in Copies /\ \A q \in rows : q \in sched.rows
    BY RunFields DEF Copies
  <1> HIDE DEF rows
  <1>3. /\ sched' \in RunType /\ sched'.rows = rows /\ sched'.kind = "file" /\ sched'.items = {}
        /\ sched'.pc = IF rows = {} THEN "idle" ELSE "rows"
    BY <1>1, <1>2, ContinueFacts
  <1>4. sched.kind = "file"
    BY <1>1, RunFields DEF RunIsOrdered
  <1>5. \A o \in Obj : Unrecorded(o)' <=> Unrecorded(o)
    BY <1>1 DEF Unrecorded, Live
  <1>6. RunIsOrdered'
    BY <1>1, <1>2, <1>3, <1>4, <1>5 DEF RunIsOrdered, RowIsCurrent
  <1> QED BY <1>1, <1>3, <1>6, FaultCounted, TablesStay DEF TypeOK

LEMMA ReadFilesIInv ==
  ASSUME IInv, ReadFiles
  PROVE  IInv'
  <1> USE DEF IInv
  <1> DEFINE rows == {[obj |-> o, attempt |-> obj[o].attempt] : o \in {x \in Obj : FileReady(x)}}
  <1>1. /\ sched' = [NoRun EXCEPT !.pc = "rows", !.rows = rows]
        /\ UNCHANGED <<src, obj, jobs, rule, scan, told, lost, upset, faults>>
    BY DEF ReadFiles
  <1>2. \A r \in rows : \E o \in Obj : FileReady(o) /\ r = [obj |-> o, attempt |-> obj[o].attempt]
    OBVIOUS
  <1>3. ASSUME NEW r \in rows
        PROVE  /\ r \in Copy /\ RowIsCurrent(r) /\ ~obj[r.obj].label
               /\ r = [obj |-> r.obj, attempt |-> obj[r.obj].attempt]
    <2>1. PICK o \in Obj : FileReady(o) /\ r = [obj |-> o, attempt |-> obj[o].attempt]
      BY <1>2
    <2>2. r.obj = o /\ r.attempt = obj[o].attempt
      BY <2>1
    <2>3. ~obj[o].label /\ obj[o].state \in Pending /\ obj[o].state # "absent"
      BY <2>1, Values DEF FileReady
    <2>4. obj[o].attempt <= RetryCount
      BY <2>3, Values, Numbers DEF AttemptsInOrder
    <2>5. r \in Copy
      BY <2>1, RowFields DEF Copy
    <2> QED BY <2>1, <2>2, <2>3, <2>4, <2>5 DEF RowIsCurrent
  <1> HIDE DEF rows
  <1>4. rows \in Copies
    BY <1>3 DEF Copies
  <1>5. /\ sched' \in RunType /\ sched'.pc = "rows" /\ sched'.rows = rows /\ sched'.kind = "file"
        /\ sched'.items = {}
    BY <1>1, <1>4, NoTypes, Values DEF RunType
  <1>6. RunIsOrdered'
    <2>1. \A q, r \in rows : q.obj = r.obj => q = r
      BY <1>3
    <2>2. \A r \in rows : RowIsCurrent(r)' /\ ~obj'[r.obj].label
      BY <1>1, <1>3 DEF RowIsCurrent
    <2> QED BY <1>5, <2>1, <2>2 DEF RunIsOrdered
  <1> QED BY <1>1, <1>5, <1>6, TablesStay DEF TypeOK

LEMMA JobEndsIInv ==
  ASSUME IInv, NEW j \in jobs, NEW s \in {"completed", "failed"}, JobEnds(j, s)
  PROVE  IInv'
  <1> USE DEF IInv
  <1> DEFINE n == [j EXCEPT !.state = s]
  <1>1. /\ j.state = "open" /\ jobs' = (jobs \ {j}) \cup {n}
        /\ UNCHANGED <<src, obj, rule, scan, sched, told, lost, upset, faults>>
    BY DEF JobEnds
  <1>2. n \in JobType /\ n.key = j.key /\ n.state = s
    BY JobFields, Values DEF JobType
  <1> HIDE DEF n
  <1>3. JobsGoOn
    <2>1. \A i \in jobs : \E h \in jobs' : h.key = i.key
      BY <1>1, <1>2
    <2>2. \A h \in jobs' : \E i \in jobs : h.key = i.key /\ (h.state # "failed" => i.state # "failed")
      BY <1>1, <1>2
    <2>3. \A h, i \in jobs' : h.key = i.key => h = i
      BY <1>1, <1>2 DEF OneJobPerKey
    <2> QED BY <2>1, <2>2, <2>3 DEF JobsGoOn
  <1>4. TypeOK'
    BY <1>1, <1>2 DEF TypeOK
  <1> QED BY <1>1, <1>3, <1>4, ObjectsStay

LEMMA StartScanIInv ==
  ASSUME IInv, StartScan
  PROVE  IInv'
  <1> USE DEF IInv
  <1>1. /\ ~scan.open /\ scan.n < MaxScans /\ scan' = [n |-> scan.n + 1, open |-> TRUE]
        /\ rule' = IF Remote THEN [rule EXCEPT !.linked = scan.n + 1, !.started = scan.n + 1]
                   ELSE rule
        /\ UNCHANGED <<src, obj, jobs, sched, told, lost, upset, faults>>
    BY DEF StartScan
  <1>2. scan.n + 1 \in ScanNo /\ scan.n + 1 \in Nat
    BY <1>1, CountAssumption, ScanNumbers, Numbers
  <1>3. /\ scan' \in [n : ScanNo, open : BOOLEAN] /\ scan'.n = scan.n + 1 /\ scan'.open
        /\ rule' \in [linked : ScanNo, started : ScanNo, completed : ScanNo]
    BY <1>1, <1>2 DEF TypeOK
  <1>4. IF Remote THEN rule'.linked = scan.n + 1 /\ rule'.started = scan.n + 1
        ELSE rule'.linked = rule.linked /\ rule'.started = rule.started
    BY <1>1, <1>2 DEF TypeOK
  <1>5. TypeOK'
    BY <1>1, <1>3 DEF TypeOK
  <1>6. ScansInOrder' /\ ToldIsLabelled'
    BY <1>1, <1>2, <1>3, <1>4, RowFields, ScanNumbers DEF ScansInOrder, ToldIsLabelled
  <1>7. \A o \in Obj : Current(o)' => ~Remote /\ Current(o)
    BY <1>1, <1>2, <1>4, RowFields, ScanNumbers DEF Current, ScansInOrder
  <1>8. TablesInOrder'
    <2>1. CASE ~Remote
      BY <1>1, <1>4, <2>1, SameJobsGoOn, TablesKept
    <2>2. CASE Remote
      <3>1. AttemptsInOrder' /\ OneJobPerKey' /\ InOneJob' /\ QueuedIsSent'
        BY <1>1 DEF AttemptsInOrder, OneJobPerKey, InOneJob, QueuedIsSent, Live
      <3>2. ASSUME NEW o \in Obj \ upset, obj[o].state \in Pending, NEW j \in Live(o)
            PROVE  SentAgain(o, j.key)'
        <4>1. SentAgain(o, j.key) /\ ~Current(o)'
          BY <1>7, <2>2, <3>2 DEF PendingIsSentAgain
        <4> QED BY <1>1, <4>1 DEF SentAgain, Key
      <3>3. PendingIsSentAgain'
        BY <1>1, <3>2 DEF PendingIsSentAgain, Live
      <3> QED BY <3>1, <3>3 DEF TablesInOrder
    <2> QED BY <2>1, <2>2
  <1>9. RunIsOrdered'
    BY <1>1, <1>7, SameJobsGoOn, RunKept
  <1> QED BY <1>5, <1>6, <1>8, <1>9, Together

-----------------------------------------------------------------------------
(* The events of a scan.                                                   *)

\* A generation that was found is known and seen, one that it replaces is
\* superseded.
LEMMA DiscoveredFacts ==
  ASSUME TypeOK, NEW found \in Objects
  PROVE  \A o \in Obj :
           LET row == Discovered(found)[o] IN
           /\ row \in RowType
           /\ obj[o].state = "absent" =>
                row.state = "absent" \/ (row.state = "discovered" /\ row.attempt = 0)
           /\ obj[o].state # "absent" =>
                /\ row.state = obj[o].state \/ (obj[o].state \in Pending /\ row.state = "superseded")
                /\ row.attempt = obj[o].attempt /\ row.last = obj[o].last
                /\ row.label <=> obj[o].label
           /\ o \in found => row.state # "absent" /\ row.seen = scan.n
           /\ o \notin found => row.seen = obj[o].seen
  <1> SUFFICES ASSUME NEW o \in Obj
               PROVE  LET row == Discovered(found)[o] IN
           /\ row \in RowType
           /\ obj[o].state = "absent" =>
                row.state = "absent" \/ (row.state = "discovered" /\ row.attempt = 0)
           /\ obj[o].state # "absent" =>
                /\ row.state = obj[o].state \/ (obj[o].state \in Pending /\ row.state = "superseded")
                /\ row.attempt = obj[o].attempt /\ row.last = obj[o].last
                /\ row.label <=> obj[o].label
           /\ o \in found => row.state # "absent" /\ row.seen = scan.n
           /\ o \notin found => row.seen = obj[o].seen
    OBVIOUS
  <1>1. CASE o \in found /\ obj[o].state = "absent"
    <2>1. Discovered(found)[o] = [NoRow EXCEPT !.state = "discovered", !.seen = scan.n]
      BY <1>1 DEF Discovered
    <2> QED BY <1>1, <2>1, NoTypes, ScanNumbers, Values DEF RowType
  <1>2. CASE o \in found /\ obj[o].state # "absent"
    <2>1. Discovered(found)[o] = [obj[o] EXCEPT !.seen = scan.n]
      BY <1>2 DEF Discovered
    <2> QED BY <1>2, <2>1, RowFields, ScanNumbers DEF RowType
  <1>3. CASE o \notin found /\ obj[o].state \in Pending /\ \E x \in found : x.path = o.path
    <2>1. Discovered(found)[o] = [obj[o] EXCEPT !.state = "superseded"]
      BY <1>3 DEF Discovered
    <2>2. obj[o].state # "absent"
      BY <1>3, Values
    <2> QED BY <1>3, <2>1, <2>2, RowFields, Values DEF RowType
  <1>4. CASE o \notin found /\ ~(obj[o].state \in Pending /\ \E x \in found : x.path = o.path)
    <2>1. Discovered(found)[o] = obj[o]
      BY <1>4 DEF Discovered
    <2> QED BY <1>4, <2>1, RowFields
  <1> QED BY <1>1, <1>2, <1>3, <1>4

\* Labels are given to the rows that this scan saw, and nothing else changes
\* that the tables are about.
LEMMA LabelledFacts ==
  ASSUME NEW rows, NEW grouped \in BOOLEAN, NEW o \in Obj, rows[o] \in RowType
  PROVE  LET row == Labelled(rows, grouped)[o] IN
         /\ row \in RowType /\ row.state = rows[o].state /\ row.seen = rows[o].seen
         /\ row.attempt = rows[o].attempt /\ row.last = rows[o].last
         /\ rows[o].state # "absent" /\ rows[o].seen = scan.n => (row.label <=> grouped)
         /\ ~(rows[o].state # "absent" /\ rows[o].seen = scan.n) => (row.label <=> rows[o].label)
  <1> DEFINE row == rows[o]
             held == grouped /\ Mode = "copy"
             hold == held \/ (~row.label /\ row.hold)
             ripe == IF row.state = "discovered" /\ (row.label \/ held) THEN FALSE ELSE row.ripe
  <1>1. CASE row.state = "absent" \/ row.seen # scan.n
    <2>1. Labelled(rows, grouped)[o] = row
      BY <1>1 DEF Labelled
    <2> QED BY <1>1, <2>1
  <1>2. CASE ~(row.state = "absent" \/ row.seen # scan.n)
    <2>1. Labelled(rows, grouped)[o] =
            [row EXCEPT !.label = grouped, !.hold = hold, !.ripe = ripe]
      BY <1>2 DEF Labelled
    <2>2. hold \in BOOLEAN /\ ripe \in BOOLEAN
      BY DEF RowType
    <2> HIDE DEF hold, ripe
    <2> QED BY <1>2, <2>1, <2>2 DEF RowType
  <1> QED BY <1>1, <1>2

\* Whatever a scan brings: what is pending and has a job is upset by it, so of
\* the others none is both.
LEMMA ScanTables ==
  ASSUME IInv, UNCHANGED jobs, sched' = sched \/ sched' = NoRun,
         upset' = upset \cup {o \in Obj : Carried(o)},
         \A o \in Obj :
            /\ obj[o].state = "absent" =>
                 obj'[o].state = "absent" \/ (obj'[o].state = "discovered" /\ obj'[o].attempt = 0)
            /\ obj[o].state # "absent" =>
                 /\ \/ obj'[o].state = obj[o].state
                    \/ obj[o].state \in Pending /\ obj'[o].state = "superseded"
                 /\ obj'[o].attempt = obj[o].attempt /\ obj'[o].last = obj[o].last
  PROVE  TablesInOrder' /\ RunIsOrdered'
  <1> USE DEF IInv
  <1>1. AttemptsInOrder'
    BY DEF AttemptsInOrder
  <1>2. OneJobPerKey' /\ InOneJob'
    BY DEF OneJobPerKey, InOneJob, Live
  <1>3. QueuedIsSent'
    BY Values DEF QueuedIsSent, Live
  <1>4. ASSUME NEW o \in Obj \ upset', obj'[o].state \in Pending
        PROVE  Live(o)' = {}
    <2>1. ~Carried(o)
      OBVIOUS
    <2>2. CASE obj[o].state = "absent"
      BY <2>2 DEF AttemptsInOrder, Live
    <2>3. CASE obj[o].state # "absent"
      <3>1. obj[o].state \in Pending
        BY <1>4, <2>3, Values
      <3> QED BY <2>1, <3>1 DEF Carried, Live
    <2> QED BY <2>2, <2>3
  <1>5. PendingIsSentAgain'
    BY <1>4 DEF PendingIsSentAgain
  <1>6. RunIsOrdered'
    <2>1. CASE sched' = NoRun
      BY <2>1, NoRunInOrder
    <2>2. CASE sched' = sched
      <3>1. \A o \in Obj : ~Unrecorded(o)'
        BY <1>4 DEF Unrecorded
      <3>2. ASSUME NEW r \in sched.rows
            PROVE  RowIsCurrent(r)'
        <4>1. r.obj \in Obj /\ r.obj \in upset' /\ RowIsCurrent(r)
          BY RunFields DEF RunIsOrdered, Carried
        <4> QED BY <4>1, Values DEF RowIsCurrent
      <3>3. sched.pc = "sent" =>
              /\ \E j \in jobs' : j.key = CurrentKey
              /\ \A o \in sched.items \ upset' : \A i \in Live(o)' : i.key = CurrentKey
        BY DEF RunIsOrdered, Live
      <3>4. CurrentKey' = CurrentKey
        BY <2>2 DEF CurrentKey, Key
      <3> QED BY <2>2, <3>1, <3>2, <3>3, <3>4 DEF RunIsOrdered
    <2> QED BY <2>1, <2>2
  <1> QED BY <1>1, <1>2, <1>3, <1>5, <1>6 DEF TablesInOrder

LEMMA ListingFacts ==
  ASSUME TypeOK, NEW answer
  PROVE  /\ Listing(answer) \in Objects
         /\ Listing(answer) = src \/ Listing(answer) = {}
         /\ answer = "complete" => Listing(answer) = src
  BY DEF TypeOK, Listing, Objects

LEMMA ScannedFacts ==
  ASSUME TypeOK
  PROVE  /\ Scanned \in [linked : ScanNo, started : ScanNo, completed : ScanNo]
         /\ Scanned.linked = rule.linked /\ Scanned.started = rule.started
         /\ rule.linked = scan.n => Scanned.completed = scan.n
  BY ScanNumbers DEF TypeOK, Scanned

LEMMA PersistScanIInv ==
  ASSUME IInv, NEW answer \in Answers, PersistScan(answer)
  PROVE  IInv'
  <1> USE DEF IInv
  <1> DEFINE found   == Listing(answer)
             grouped == answer = "complete"
             rows    == Discovered(found)
  <1>1. /\ scan.open
        /\ obj' = IF GroupsAccepted THEN Labelled(rows, grouped) ELSE rows
        /\ told' = IF grouped THEN told \cup found ELSE told \ found
        /\ lost' = lost \ found
        /\ upset' = upset \cup {o \in Obj : Carried(o)}
        /\ rule' = IF GroupsAccepted /\ ~Remote
                   THEN [Scanned EXCEPT !.linked = scan.n, !.started = scan.n] ELSE Scanned
        /\ scan' = [scan EXCEPT !.open = FALSE]
        /\ UNCHANGED <<src, jobs, sched, faults>>
    BY DEF PersistScan, ToldBy
  <1>2. found \in Objects /\ grouped \in BOOLEAN /\ (grouped => found = src)
    BY ListingFacts
  <1>3. /\ scan' \in [n : ScanNo, open : BOOLEAN] /\ scan'.n = scan.n /\ ~scan'.open
    BY <1>1 DEF TypeOK
  <1>4. /\ rule' \in [linked : ScanNo, started : ScanNo, completed : ScanNo]
        /\ rule'.linked <= scan.n /\ rule'.started <= scan.n
    <2> DEFINE S == Scanned
    <2>1. /\ S \in [linked : ScanNo, started : ScanNo, completed : ScanNo]
          /\ S.linked = rule.linked /\ S.started = rule.started
      BY ScannedFacts
    <2>2. rule' = S \/ rule' = [S EXCEPT !.linked = scan.n, !.started = scan.n]
      BY <1>1
    <2> HIDE DEF S
    <2>3. CASE rule' = S
      BY <2>1, <2>3 DEF ScansInOrder
    <2>4. CASE rule' = [S EXCEPT !.linked = scan.n, !.started = scan.n]
      <3>1. rule' \in [linked : ScanNo, started : ScanNo, completed : ScanNo]
        BY <2>1, <2>4, ScanNumbers
      <3>2. rule'.linked = scan.n /\ rule'.started = scan.n
        BY <2>1, <2>4
      <3> QED BY <3>1, <3>2, ScanNumbers
    <2> QED BY <2>2, <2>3, <2>4
  <1>5. Remote => GroupsAccepted
    BY <1>1, ScannedFacts DEF GroupsAccepted, ScansInOrder
  <1>6. ASSUME NEW o \in Obj
        PROVE  /\ obj'[o] \in RowType
               /\ obj'[o].seen = IF o \in found THEN scan.n ELSE obj[o].seen
               /\ o \in found => obj'[o].state # "absent"
               /\ obj[o].state = "absent" =>
                    obj'[o].state = "absent" \/ (obj'[o].state = "discovered" /\ obj'[o].attempt = 0)
               /\ obj[o].state # "absent" =>
                    /\ obj'[o].state # "absent"
                    /\ \/ obj'[o].state = obj[o].state
                       \/ obj[o].state \in Pending /\ obj'[o].state = "superseded"
                    /\ obj'[o].attempt = obj[o].attempt /\ obj'[o].last = obj[o].last
               /\ Remote /\ o \in found => (obj'[o].label <=> grouped)
               /\ Remote /\ o \notin found /\ obj[o].state # "absent" =>
                    (obj'[o].label <=> obj[o].label)
    <2> HIDE DEF found, grouped
    <2> DEFINE D == rows[o]
               L == Labelled(rows, grouped)[o]
    <2>1. /\ D \in RowType
          /\ obj[o].state = "absent" =>
               D.state = "absent" \/ (D.state = "discovered" /\ D.attempt = 0)
          /\ obj[o].state # "absent" =>
               /\ D.state = obj[o].state \/ (obj[o].state \in Pending /\ D.state = "superseded")
               /\ D.attempt = obj[o].attempt /\ D.last = obj[o].last
               /\ D.label <=> obj[o].label
          /\ o \in found => D.state # "absent" /\ D.seen = scan.n
          /\ o \notin found => D.seen = obj[o].seen
      BY <1>2, DiscoveredFacts
    <2>2. /\ L \in RowType /\ L.state = D.state /\ L.seen = D.seen
          /\ L.attempt = D.attempt /\ L.last = D.last
          /\ D.state # "absent" /\ D.seen = scan.n => (L.label <=> grouped)
          /\ ~(D.state # "absent" /\ D.seen = scan.n) => (L.label <=> D.label)
      BY <1>2, <2>1, LabelledFacts
    <2>3. obj'[o] = IF GroupsAccepted THEN L ELSE D
      BY <1>1
    <2>4. obj[o].seen # scan.n
      BY <1>1, RowFields, ScanNumbers DEF ScansInOrder
    <2> HIDE DEF D, L
    <2>5. CASE GroupsAccepted
      BY <2>1, <2>2, <2>3, <2>4, <2>5
    <2>6. CASE ~GroupsAccepted
      BY <1>5, <2>1, <2>3, <2>6
    <2> QED BY <2>5, <2>6
  <1>7. obj' \in [Obj -> RowType]
    <2>1. obj' = [o \in Obj |-> obj'[o]]
      <3>1. CASE GroupsAccepted
        <4>1. obj' = Labelled(rows, grouped)
          BY <1>1, <3>1
        <4> HIDE DEF rows, grouped
        <4> QED BY <4>1 DEF Labelled
      <3>2. CASE ~GroupsAccepted
        <4>1. obj' = Discovered(found)
          BY <1>1, <3>2
        <4> HIDE DEF found
        <4> QED BY <4>1 DEF Discovered
      <3> QED BY <3>1, <3>2
    <2> QED BY <1>6, <2>1
  <1>8. TypeOK'
    BY <1>1, <1>2, <1>3, <1>4, <1>7 DEF TypeOK, Objects
  <1>9. ScansInOrder'
    BY <1>3, <1>4, <1>6, RowFields, ScanNumbers DEF ScansInOrder
  <1>10. ToldIsLabelled'
    <2> SUFFICES ASSUME Remote, NEW o \in told' \ lost' PROVE obj'[o].label /\ obj'[o].state # "absent"
      BY DEF ToldIsLabelled
    <2>1. o \in Obj
      BY <1>1, <1>2 DEF TypeOK, Objects
    <2>2. CASE o \in found
      BY <1>1, <1>6, <2>1, <2>2
    <2>3. CASE o \notin found
      BY <1>1, <1>6, <2>1, <2>3 DEF ToldIsLabelled
    <2> QED BY <2>2, <2>3
  <1>11. TablesInOrder' /\ RunIsOrdered'
    BY <1>1, <1>6, ScanTables
  <1> QED BY <1>8, <1>9, <1>10, <1>11, Together

LEMMA ScanCutIInv ==
  ASSUME IInv, NEW answer \in Answers, ScanCut(answer)
  PROVE  IInv'
  <1> USE DEF IInv
  <1> DEFINE found   == Listing(answer)
             grouped == answer = "complete"
  <1>1. /\ scan.open /\ faults < MaxFaults /\ faults' = faults + 1
        /\ obj' = Discovered(found)
        /\ told' = IF grouped THEN told \cup found ELSE told \ found
        /\ lost' = (lost \ found) \cup {o \in found : grouped /\ ~obj'[o].label}
        /\ upset' = upset \cup {o \in Obj : Carried(o)}
        /\ rule' = Scanned /\ scan' = [scan EXCEPT !.open = FALSE] /\ sched' = NoRun
        /\ UNCHANGED <<src, jobs>>
    BY DEF ScanCut, ToldBy
  <1>2. found \in Objects
    BY ListingFacts
  <1> HIDE DEF found, grouped
  <1>3. scan' \in [n : ScanNo, open : BOOLEAN] /\ scan'.n = scan.n /\ ~scan'.open
    BY <1>1 DEF TypeOK
  <1>4. ASSUME NEW o \in Obj
        PROVE  /\ obj'[o] \in RowType
               /\ obj'[o].seen = IF o \in found THEN scan.n ELSE obj[o].seen
               /\ obj[o].state = "absent" =>
                    obj'[o].state = "absent" \/ (obj'[o].state = "discovered" /\ obj'[o].attempt = 0)
               /\ obj[o].state # "absent" =>
                    /\ obj'[o].state # "absent"
                    /\ \/ obj'[o].state = obj[o].state
                       \/ obj[o].state \in Pending /\ obj'[o].state = "superseded"
                    /\ obj'[o].attempt = obj[o].attempt /\ obj'[o].last = obj[o].last
                    /\ obj'[o].label <=> obj[o].label
    BY <1>1, <1>2, DiscoveredFacts
  <1>5. obj' \in [Obj -> RowType]
    <2>1. obj' = [o \in Obj |-> obj'[o]]
      BY <1>1 DEF Discovered
    <2> QED BY <1>4, <2>1
  <1>6. TypeOK'
    <2>1. told' \subseteq Obj /\ lost' \subseteq Obj
      BY <1>1, <1>2 DEF TypeOK, Objects
    <2> QED BY <1>1, <1>3, <1>5, <2>1, ScannedFacts, NoTypes, FaultCounted DEF TypeOK
  <1>7. ScansInOrder'
    BY <1>1, <1>3, <1>4, ScannedFacts, RowFields, ScanNumbers DEF ScansInOrder
  <1>8. ToldIsLabelled'
    <2> SUFFICES ASSUME Remote, NEW o \in told' \ lost' PROVE obj'[o].label /\ obj'[o].state # "absent"
      BY DEF ToldIsLabelled
    <2>1. o \in Obj
      BY <1>1, <1>2 DEF TypeOK, Objects
    <2>2. CASE o \in found
      <3>1. obj'[o].label
        BY <1>1, <2>2
      <3>2. obj'[o].state # "absent"
        BY <1>1, <2>1, <2>2, RowFields, NoTypes, Values DEF Discovered
      <3> QED BY <3>1, <3>2
    <2>3. CASE o \notin found
      BY <1>1, <1>4, <2>1, <2>3 DEF ToldIsLabelled
    <2> QED BY <2>2, <2>3
  <1>9. TablesInOrder' /\ RunIsOrdered'
    BY <1>1, <1>4, ScanTables
  <1> QED BY <1>6, <1>7, <1>8, <1>9, Together

-----------------------------------------------------------------------------
(* A run enqueues a job.                                                   *)

LEMMA SendFacts ==
  ASSUME TypeOK, OneJobPerKey, NEW k \in KeyType, jobs' = WithJob(k)
  PROVE  /\ jobs' \subseteq JobType /\ OneJobPerKey'
         /\ \E j \in jobs' : j.key = k
         /\ \A j \in jobs : j \in jobs'
         /\ \A j \in jobs' : j \in jobs \/ j.key = k
  <1> DEFINE n == [key |-> k, state |-> "open"]
  <1>1. n \in JobType /\ n.key = k
    BY Values DEF JobType
  <1>2. CASE Job(k) = {}
    <2>1. jobs' = jobs \cup {n}
      BY <1>2 DEF WithJob
    <2> HIDE DEF n
    <2> QED BY <1>1, <1>2, <2>1 DEF TypeOK, OneJobPerKey, Job
  <1>3. CASE Job(k) # {}
    BY <1>3 DEF WithJob, Job, TypeOK, OneJobPerKey
  <1> QED BY <1>2, <1>3

\* The objects of the job are in no other one, and would be sent under its key.
MayBeSent(k) ==
  \A o \in k.items :
    /\ o \in Obj /\ obj[o].state # "absent"
    /\ o \notin upset => /\ obj[o].state \in Pending /\ SentAgain(o, k)
                         /\ \A j \in Live(o) : j.key = k

LEMMA SendSafe ==
  ASSUME IInv, UNCHANGED <<obj, rule, upset>>, NEW k \in KeyType, jobs' = WithJob(k), MayBeSent(k)
  PROVE  /\ TablesInOrder'
         /\ \A o \in Obj : o \notin k.items => \A j \in Live(o)' : j \in Live(o)
         /\ \A o \in k.items \ upset : \A j \in Live(o)' : j.key = k
  <1> USE DEF IInv
  <1>1. /\ OneJobPerKey' /\ (\A j \in jobs : j \in jobs')
        /\ \A j \in jobs' : j \in jobs \/ j.key = k
    BY SendFacts
  <1>2. \A o \in Obj : o \notin k.items => \A j \in Live(o)' : j \in Live(o)
    BY <1>1 DEF Live
  <1>3. \A o \in k.items \ upset : \A j \in Live(o)' : j.key = k
    BY <1>1 DEF Live, MayBeSent
  <1>4. AttemptsInOrder'
    BY <1>1 DEF AttemptsInOrder, MayBeSent
  <1>5. InOneJob'
    <2> SUFFICES ASSUME NEW o \in Obj \ upset, NEW i \in Live(o)', NEW j \in Live(o)'
                 PROVE  i = j
      BY DEF InOneJob
    <2>1. CASE o \in k.items
      BY <1>1, <1>3, <2>1 DEF OneJobPerKey, Live
    <2>2. CASE o \notin k.items
      BY <1>2, <2>2 DEF InOneJob
    <2> QED BY <2>1, <2>2
  <1>6. QueuedIsSent'
    <2> SUFFICES ASSUME NEW o \in Obj, obj[o].state = "queued"
                 PROVE  /\ \E j \in jobs' : j.key = obj[o].last
                        /\ o \notin upset => \A j \in Live(o)' : j.key = obj[o].last
      BY DEF QueuedIsSent
    <2>1. \E j \in jobs' : j.key = obj[o].last
      BY <1>1 DEF QueuedIsSent
    <2>2. ASSUME o \notin upset PROVE \A j \in Live(o)' : j.key = obj[o].last
      <3>1. o \notin k.items
        BY <2>2, Values DEF MayBeSent
      <3> QED BY <1>2, <2>2, <3>1 DEF QueuedIsSent
    <2> QED BY <2>1, <2>2
  <1>7. PendingIsSentAgain'
    <2> SUFFICES ASSUME NEW o \in Obj \ upset, obj[o].state \in Pending, NEW j \in Live(o)'
                 PROVE  SentAgain(o, j.key)'
      BY DEF PendingIsSentAgain
    <2>1. SentAgain(o, j.key)
      <3>1. CASE o \in k.items
        BY <1>3, <3>1 DEF MayBeSent
      <3>2. CASE o \notin k.items
        BY <1>2, <3>2 DEF PendingIsSentAgain
      <3> QED BY <3>1, <3>2
    <2>2. /\ Current(o)' <=> Current(o)
          /\ Members' = Members /\ GroupKey' = GroupKey
      BY SameGroup DEF Members
    <2>3. \A x \in Members : x \in Obj
      BY DEF Members
    <2> QED BY <2>1, <2>2, <2>3 DEF SentAgain, Key
  <1> QED BY <1>1, <1>2, <1>3, <1>4, <1>5, <1>6, <1>7 DEF TablesInOrder

LEMMA SendGroupIInv ==
  ASSUME IInv, SendGroup
  PROVE  IInv'
  <1> USE DEF IInv
  <1> DEFINE n == NextAttempt(Waiting)
             k == Key("group", Waiting, n)
  <1>1. /\ GroupReady /\ jobs' = WithJob(k)
        /\ sched' = [pc |-> "sent", kind |-> "group", rows |-> {},
                     items |-> Waiting, attempt |-> n]
        /\ UNCHANGED <<src, obj, rule, scan, told, lost, upset, faults>>
    BY DEF SendGroup
  <1>2. n \in Tries
    BY <1>1, NextAttemptType DEF GroupReady
  <1>3. Waiting \in Objects /\ k = GroupKey
    BY DEF Objects, Waiting, Members, GroupKey
  <1>4. \A o \in Waiting : /\ o \in Obj /\ o \in Members /\ obj[o].state \in Pending
                           /\ obj[o].label /\ Current(o)
    BY DEF Waiting, Members
  <1>5. \A x \in Members : obj[x].state # "queued"
    BY <1>1, Values DEF GroupReady, InTheWay
  <1>6. k \in KeyType /\ k.items = Waiting
    BY <1>2, <1>3, KeyFacts
  <1>7. sched' \in RunType
    BY <1>1, <1>2, <1>3, Values DEF RunType
  <1>8. CurrentKey' = k
    BY <1>1 DEF CurrentKey, Key
  <1> HIDE DEF n, k
  <1>9. MayBeSent(k)
    <2> SUFFICES ASSUME NEW o \in Waiting
                 PROVE  /\ o \in Obj /\ obj[o].state # "absent"
                        /\ o \notin upset => /\ obj[o].state \in Pending /\ SentAgain(o, k)
                                             /\ \A j \in Live(o) : j.key = k
      BY <1>6 DEF MayBeSent
    <2>1. SentAgain(o, k)
      BY <1>3, <1>4, <1>5 DEF SentAgain
    <2>2. o \notin upset => \A j \in Live(o) : j.key = k
      BY <1>3, <1>4 DEF PendingIsSentAgain, SentAgain
    <2> QED BY <1>4, <2>1, <2>2, Values
  <1>10. TablesInOrder' /\ \A o \in Waiting \ upset : \A j \in Live(o)' : j.key = k
    BY <1>1, <1>6, <1>9, SendSafe
  <1>11. jobs' \subseteq JobType /\ \E j \in jobs' : j.key = k
    BY <1>1, <1>6, SendFacts
  <1>12. TypeOK' /\ ScansInOrder' /\ ToldIsLabelled'
    BY <1>1, <1>7, <1>11 DEF TypeOK, ScansInOrder, ToldIsLabelled
  <1>13. RunIsOrdered'
    <2>1. ASSUME NEW o \in Obj, Unrecorded(o)', Current(o)'
          PROVE  o \in Waiting
      BY <1>1, <2>1 DEF Unrecorded, Current, Waiting, Members
    <2> QED BY <1>1, <1>8, <1>10, <1>11, <2>1 DEF RunIsOrdered
  <1> QED BY <1>10, <1>12, <1>13, Together

LEMMA SendFileIInv ==
  ASSUME IInv, NEW r \in sched.rows, SendFile(r)
  PROVE  IInv'
  <1> USE DEF IInv
  <1> DEFINE n    == r.attempt + 1
             k    == Key("file", {r.obj}, n)
             rows == sched.rows \ {r}
  <1>1. /\ sched.pc = "rows" /\ jobs' = WithJob(k)
        /\ sched' = [pc |-> "sent", kind |-> "file", rows |-> rows,
                     items |-> {r.obj}, attempt |-> n]
        /\ UNCHANGED <<src, obj, rule, scan, told, lost, upset, faults>>
    BY DEF SendFile
  <1>2. /\ r.obj \in Obj /\ RowIsCurrent(r) /\ sched.kind = "file"
        /\ \A q \in sched.rows : q.obj = r.obj => q = r
    BY <1>1, RunFields DEF RunIsOrdered
  <1>3. n \in Tries
    BY <1>2, RunFields, Numbers DEF RowIsCurrent
  <1>4. rows \in Copies /\ {r.obj} \in Objects
    BY <1>2, RunFields DEF Copies, Objects
  <1>5. k \in KeyType /\ k.items = {r.obj}
    BY <1>3, <1>4, KeyFacts
  <1>6. sched' \in RunType
    BY <1>1, <1>3, <1>4, Values DEF RunType
  <1>7. CurrentKey' = k
    BY <1>1 DEF CurrentKey, Key
  <1>8. r.obj \notin upset => SentAgain(r.obj, k) /\ \A j \in Live(r.obj) : j.key = k
    BY <1>2 DEF RowIsCurrent, PendingIsSentAgain, SentAgain
  <1>9. MayBeSent(k)
    BY <1>2, <1>5, <1>8 DEF MayBeSent, RowIsCurrent
  <1> HIDE DEF n, k
  <1>10. /\ TablesInOrder'
         /\ \A o \in Obj : o # r.obj => \A j \in Live(o)' : j \in Live(o)
         /\ \A o \in {r.obj} \ upset : \A j \in Live(o)' : j.key = k
    BY <1>1, <1>5, <1>9, SendSafe
  <1>11. jobs' \subseteq JobType /\ \E j \in jobs' : j.key = k
    BY <1>1, <1>5, SendFacts
  <1>12. TypeOK' /\ ScansInOrder' /\ ToldIsLabelled'
    BY <1>1, <1>6, <1>11 DEF TypeOK, ScansInOrder, ToldIsLabelled
  <1>13. RunIsOrdered'
    <2>1. \A q \in rows : RowIsCurrent(q)' /\ q.obj # r.obj
      BY <1>1, <1>2 DEF RunIsOrdered, RowIsCurrent
    <2>2. \/ ~obj[r.obj].label /\ \A q \in rows : ~obj[q.obj].label
          \/ \A o \in Obj : ~Unrecorded(o)
      BY <1>1, <1>2 DEF RunIsOrdered
    <2>3. ASSUME \A o \in Obj : ~Unrecorded(o), NEW o \in Obj
          PROVE  ~Unrecorded(o)'
      <3>1. CASE o = r.obj
        BY <1>1, <1>2, <3>1 DEF RowIsCurrent, Unrecorded
      <3>2. CASE o # r.obj
        BY <1>1, <1>10, <2>3, <3>2 DEF Unrecorded
      <3> QED BY <3>1, <3>2
    <2>4. \/ ~obj'[r.obj].label /\ \A q \in rows : ~obj'[q.obj].label
          \/ \A o \in Obj : ~Unrecorded(o)'
      BY <1>1, <2>2, <2>3
    <2>5. \A p, q \in rows : p.obj = q.obj => p = q
      BY DEF RunIsOrdered
    <2> HIDE DEF rows
    <2> QED BY <1>1, <1>7, <1>10, <1>11, <2>1, <2>4, <2>5 DEF RunIsOrdered
  <1> QED BY <1>10, <1>12, <1>13, Together

-----------------------------------------------------------------------------
(* A run records what it sent, and how jobs ended.                         *)

LEMMA RecordIInv ==
  ASSUME IInv, Record
  PROVE  IInv'
  <1> USE DEF IInv
  <1>1. /\ sched.pc = "sent" /\ sched' = Continue(sched.rows)
        /\ obj' = [o \in Obj |->
                     IF Recordable(o)
                     THEN [obj[o] EXCEPT !.state = "queued", !.attempt = sched.attempt,
                                         !.ripe = FALSE, !.last = CurrentKey]
                     ELSE obj[o]]
        /\ UNCHANGED <<src, jobs, rule, scan, told, lost, upset, faults>>
    BY DEF Record
  <1>2. CurrentKey \in KeyType
    BY RunFields, KeyFacts DEF CurrentKey
  <1>3. ASSUME NEW o \in Obj
        PROVE  /\ obj'[o] \in RowType /\ obj'[o].seen = obj[o].seen
               /\ obj'[o].label <=> obj[o].label
               /\ Recordable(o) => /\ obj'[o].state = "queued" /\ obj'[o].last = CurrentKey
                                   /\ o \in sched.items /\ obj[o].state \in Pending
               /\ ~Recordable(o) => obj'[o] = obj[o]
    <2>1. CASE ~Recordable(o)
      BY <1>1, <2>1, RowFields
    <2>2. CASE Recordable(o)
      <3>1. obj'[o] = [obj[o] EXCEPT !.state = "queued", !.attempt = sched.attempt,
                                     !.ripe = FALSE, !.last = CurrentKey]
        BY <1>1, <2>2
      <3>2. o \in sched.items /\ obj[o].state \in Pending
        BY <2>2 DEF Recordable
      <3> HIDE DEF CurrentKey
      <3> QED BY <1>2, <2>2, <3>1, <3>2, RowFields, RunFields, Values DEF RowType
    <2> QED BY <2>1, <2>2
  <1>4. obj' \in [Obj -> RowType]
    <2>1. obj' = [o \in Obj |-> obj'[o]]
      BY <1>1
    <2> QED BY <1>3, <2>1
  <1>5. /\ sched' \in RunType /\ sched'.rows = sched.rows /\ sched'.kind = "file"
        /\ sched'.items = {} /\ sched'.pc = IF sched.rows = {} THEN "idle" ELSE "rows"
    BY <1>1, RunFields, ContinueFacts
  <1>6. TypeOK'
    BY <1>1, <1>4, <1>5 DEF TypeOK
  <1>7. ScansInOrder'
    BY <1>1, <1>3 DEF ScansInOrder
  <1>8. ToldIsLabelled'
    BY <1>1, <1>3 DEF ToldIsLabelled, TypeOK
  <1>9. /\ UNCHANGED <<jobs, upset>> /\ (\A o : Live(o)' = Live(o))
        /\ \E j \in jobs : j.key = CurrentKey
        /\ \A o \in sched.items \ upset : \A j \in Live(o) : j.key = CurrentKey
    BY <1>1 DEF RunIsOrdered, Live
  <1>10. \A o \in Obj : obj'[o].state \in Pending =>
            ~Recordable(o) /\ obj'[o] = obj[o] /\ obj[o].state \in Pending
    BY <1>3, Values
  <1>11. AttemptsInOrder' /\ OneJobPerKey' /\ InOneJob'
    <2>1. AttemptsInOrder'
      <3> SUFFICES ASSUME NEW o \in Obj
                   PROVE  /\ obj'[o].state = "discovered" => obj'[o].attempt = 0
                          /\ obj'[o].state = "retry_wait" => obj'[o].attempt <= RetryCount
                          /\ obj'[o].state = "absent" => \A j \in jobs' : o \notin j.key.items
        BY DEF AttemptsInOrder
      <3>1. CASE Recordable(o)
        BY <1>3, <3>1
      <3>2. CASE ~Recordable(o)
        BY <1>3, <1>9, <3>2 DEF AttemptsInOrder
      <3> QED BY <3>1, <3>2
    <2>2. OneJobPerKey' /\ InOneJob'
      BY <1>9 DEF OneJobPerKey, InOneJob
    <2> QED BY <2>1, <2>2
  <1>12. QueuedIsSent'
    <2> SUFFICES ASSUME NEW o \in Obj, obj'[o].state = "queued"
                 PROVE  /\ \E j \in jobs' : j.key = obj'[o].last
                        /\ o \notin upset' => \A j \in Live(o)' : j.key = obj'[o].last
      BY DEF QueuedIsSent
    <2>1. CASE Recordable(o)
      <3>1. obj'[o].last = CurrentKey /\ o \in sched.items
        BY <1>3, <2>1
      <3> HIDE DEF CurrentKey
      <3> QED BY <1>9, <3>1
    <2>2. CASE ~Recordable(o)
      BY <1>3, <1>9, <2>2 DEF QueuedIsSent
    <2> QED BY <2>1, <2>2
  <1>13. \A o \in Obj : Current(o)' <=> Current(o)
    BY <1>1, <1>3 DEF Current
  <1>14. ASSUME NEW o \in Obj, Unrecorded(o)'
         PROVE  ~Recordable(o) /\ Unrecorded(o)
    BY <1>14, <1>9, <1>10 DEF Unrecorded
  <1>15. ASSUME NEW o \in Obj \ upset, obj'[o].state \in Pending, NEW j \in Live(o)'
         PROVE  SentAgain(o, j.key)'
    <2>1. ~Recordable(o) /\ obj'[o] = obj[o] /\ j \in Live(o)
      BY <1>15, <1>9, <1>10
    <2>2. SentAgain(o, j.key)
      BY <1>15, <2>1 DEF PendingIsSentAgain
    <2>3. CASE ~obj[o].label
      BY <2>1, <2>2, <2>3 DEF SentAgain, Key
    <2>4. CASE obj[o].label /\ ~Current(o)
      BY <1>13, <2>1, <2>4 DEF SentAgain
    <2>5. CASE obj[o].label /\ Current(o)
      <3>1. Unrecorded(o) /\ o \notin sched.items
        BY <1>15, <2>1, <2>5 DEF Unrecorded, RunIsOrdered, Recordable
      <3>2. \A x \in sched.items : ~obj[x].label
        BY <1>1, <2>5, <3>1, RunFields DEF RunIsOrdered
      <3>3. \A x \in Members : x \in Obj /\ obj'[x] = obj[x]
        BY <1>3, <3>2 DEF Members, Recordable
      <3>4. Members' = Members /\ GroupKey' = GroupKey
        BY <1>1, <1>3, <3>3, SameGroup
      <3> QED BY <1>13, <2>1, <2>2, <2>5, <3>3, <3>4 DEF SentAgain
    <2> QED BY <2>3, <2>4, <2>5
  <1>16. PendingIsSentAgain'
    BY <1>1, <1>15 DEF PendingIsSentAgain
  <1>17. RunIsOrdered'
    <2>1. ASSUME NEW r \in sched.rows
          PROVE  RowIsCurrent(r)' /\ obj'[r.obj] = obj[r.obj]
      <3>1. r.obj \in Obj /\ r.obj \notin sched.items /\ RowIsCurrent(r)
        BY <1>1, RunFields DEF RunIsOrdered
      <3> QED BY <1>1, <1>3, <3>1 DEF RowIsCurrent, Recordable
    <2>2. \/ \A r \in sched.rows : ~obj'[r.obj].label
          \/ \A o \in Obj : ~Unrecorded(o)'
      <3>1. CASE sched.rows = {}
        BY <3>1
      <3>2. CASE sched.rows # {}
        BY <1>1, <1>14, <2>1, <3>2, RunFields DEF RunIsOrdered
      <3> QED BY <3>1, <3>2
    <2>3. \A q, r \in sched.rows : q.obj = r.obj => q = r
      BY DEF RunIsOrdered
    <2> QED BY <1>5, <2>1, <2>2, <2>3 DEF RunIsOrdered
  <1> QED BY <1>6, <1>7, <1>8, <1>11, <1>12, <1>16, <1>17, Together DEF TablesInOrder

LEMMA OutcomeFacts ==
  ASSUME TypeOK, NEW o \in Obj, NEW s \in {"completed", "failed"}
  PROVE  LET row == Outcome(obj[o], s) IN
         /\ row \in RowType /\ row.seen = obj[o].seen /\ (row.label <=> obj[o].label)
         /\ row.attempt = obj[o].attempt
         /\ row.state \in {"done", "retry_wait", "failed"}
         /\ row.state = "retry_wait" => s = "failed" /\ row.attempt <= RetryCount
  <1> DEFINE a == After(obj[o], s, RetryCount)
  <1>1. /\ a \in States /\ a \in {"done", "retry_wait", "failed"}
        /\ a = "retry_wait" => s = "failed" /\ obj[o].attempt <= RetryCount
    BY Values DEF After
  <1>2. Outcome(obj[o], s) = [obj[o] EXCEPT !.state = a, !.last = NoJob]
    BY DEF Outcome
  <1> HIDE DEF a
  <1> QED BY <1>1, <1>2, RowFields, NoTypes DEF RowType

LEMMA ReconcileIInv ==
  ASSUME IInv, NEW o \in Obj, NEW j \in jobs, Reconcile(o, j)
  PROVE  IInv'
  <1> USE DEF IInv
  <1> DEFINE row == Outcome(obj[o], j.state)
  <1>1. /\ obj[o].state = "queued" /\ j.key = obj[o].last /\ j.state # "open"
        /\ sched.pc = "idle" /\ obj' = [obj EXCEPT ![o] = row]
        /\ UNCHANGED <<src, jobs, rule, scan, sched, told, lost, upset, faults>>
    BY DEF Reconcile, Ended
  <1>2. j.state \in {"completed", "failed"}
    BY <1>1, JobFields, Values
  <1>3. /\ row \in RowType /\ row.seen = obj[o].seen /\ (row.label <=> obj[o].label)
        /\ row.attempt = obj[o].attempt
        /\ row.state \in {"done", "retry_wait", "failed"}
        /\ row.state = "retry_wait" => j.state = "failed" /\ row.attempt <= RetryCount
    BY <1>2, OutcomeFacts
  <1> HIDE DEF row
  <1>4. obj'[o] = row /\ \A x \in Obj : x # o => obj'[x] = obj[x]
    BY <1>1 DEF TypeOK
  <1>5. \A x \in Obj : obj'[x].seen = obj[x].seen /\ (obj'[x].label <=> obj[x].label)
    BY <1>3, <1>4
  <1>6. TypeOK'
    BY <1>1, <1>3 DEF TypeOK
  <1>7. ScansInOrder' /\ ToldIsLabelled'
    BY <1>1, <1>3, <1>4, <1>5 DEF ScansInOrder, ToldIsLabelled, TypeOK
  <1>8. AttemptsInOrder' /\ OneJobPerKey' /\ InOneJob'
    BY <1>1, <1>3, <1>4 DEF AttemptsInOrder, OneJobPerKey, InOneJob, Live
  <1>9. QueuedIsSent'
    BY <1>1, <1>3, <1>4 DEF QueuedIsSent, Live
  <1>10. \A x \in Obj : Current(x)' <=> Current(x)
    BY <1>1, <1>5 DEF Current
  <1>11. ASSUME NEW x \in Obj \ upset, obj'[x].state \in Pending, NEW i \in Live(x)'
         PROVE  SentAgain(x, i.key)'
    <2>1. i \in Live(x)
      BY <1>1 DEF Live
    <2>2. x # o
      <3> SUFFICES ASSUME x = o PROVE FALSE
        OBVIOUS
      <3>1. j.state = "failed"
        BY <1>3, <1>4, <1>11, Values
      <3>2. i.key = j.key /\ i.state # "failed" /\ i \in jobs
        BY <1>1, <2>1 DEF QueuedIsSent, Live
      <3> QED BY <3>1, <3>2 DEF OneJobPerKey
    <2>3. obj'[x] = obj[x] /\ SentAgain(x, i.key)
      BY <1>4, <1>11, <2>1, <2>2 DEF PendingIsSentAgain
    <2>4. CASE ~obj[x].label
      BY <2>3, <2>4 DEF SentAgain, Key
    <2>5. CASE obj[x].label /\ ~Current(x)
      BY <1>10, <2>3, <2>5 DEF SentAgain
    <2>6. CASE obj[x].label /\ Current(x)
      <3>1. \A y \in Members : y \in Obj /\ obj'[y] = obj[y]
        BY <1>1, <1>4, <2>3, <2>6 DEF SentAgain, Members
      <3>2. Members' = Members /\ GroupKey' = GroupKey
        BY <1>1, <1>5, <3>1, SameGroup
      <3> QED BY <1>10, <2>3, <2>6, <3>1, <3>2 DEF SentAgain
    <2> QED BY <2>4, <2>5, <2>6
  <1>12. PendingIsSentAgain'
    BY <1>1, <1>11 DEF PendingIsSentAgain
  <1>13. RunIsOrdered'
    BY <1>1, RunFields DEF RunIsOrdered
  <1> QED BY <1>6, <1>7, <1>8, <1>9, <1>12, <1>13, Together DEF TablesInOrder

-----------------------------------------------------------------------------
(* The theorems.                                                           *)

LEMMA InitIInv ==
  ASSUME Init
  PROVE  IInv
  <1> USE DEF Init
  <1>1. TypeOK
    BY NoTypes, Numbers, CountAssumption DEF TypeOK
  <1>2. ScansInOrder /\ ToldIsLabelled
    BY NoTypes DEF ScansInOrder, ToldIsLabelled
  <1>3. AttemptsInOrder /\ OneJobPerKey /\ InOneJob
    BY NoTypes DEF AttemptsInOrder, OneJobPerKey, InOneJob, Live
  <1>4. QueuedIsSent /\ PendingIsSentAgain
    BY NoTypes DEF QueuedIsSent, PendingIsSentAgain, Live
  <1>5. RunIsOrdered
    BY NoTypes DEF RunIsOrdered
  <1> QED BY <1>1, <1>2, <1>3, <1>4, <1>5, CountLive DEF IInv

LEMMA NextIInv ==
  ASSUME IInv, [Next]_vars
  PROVE  IInv'
  <1>1. CASE SourceChanges
    BY <1>1, SourceIInv
  <1>2. CASE StartScan
    BY <1>2, StartScanIInv
  <1>3. CASE ScanSucceeds
    BY <1>3, PersistScanIInv DEF ScanSucceeds
  <1>4. CASE ScanFails
    BY <1>4, ScanFailsIInv
  <1>5. CASE \E a \in Answers : ScanCut(a)
    BY <1>5, ScanCutIInv
  <1>6. CASE \E o \in Obj : Age(o)
    BY <1>6, AgeIInv
  <1>7. CASE SendGroup
    BY <1>7, SendGroupIInv
  <1>8. CASE SendGroupFails
    BY <1>8, SendGroupFailsIInv
  <1>9. CASE ReadFiles
    BY <1>9, ReadFilesIInv
  <1>10. CASE SendFiles
    BY <1>10, SendFileIInv DEF SendFiles
  <1>11. CASE \E r \in sched.rows : SendFileFails(r)
    BY <1>11, SendFileFailsIInv
  <1>12. CASE Record
    BY <1>12, RecordIInv
  <1>13. CASE Crash
    BY <1>13, CrashIInv
  <1>14. CASE EndOfJob
    BY <1>14, JobEndsIInv DEF EndOfJob
  <1>15. CASE Reconciled
    BY <1>15, ReconcileIInv DEF Reconciled
  <1>16. CASE UNCHANGED vars
    BY <1>16, TablesStay DEF vars, IInv, TypeOK
  <1> QED BY <1>1, <1>2, <1>3, <1>4, <1>5, <1>6, <1>7, <1>8, <1>9, <1>10, <1>11, <1>12,
             <1>13, <1>14, <1>15, <1>16 DEF Next

\* The tables of a rule and its torrent stay in order through every scan,
\* retry, crash and refused call, in both wirings (transfer-groups.mjs:18-116,
\* transfer-rules.mjs: runDue).
THEOREM GroupsAreSafe == Spec => []IInv
  <1>1. Init => IInv
    BY InitIInv
  <1>2. IInv /\ [Next]_vars => IInv'
    BY NextIInv
  <1> QED BY <1>1, <1>2, PTL DEF Spec

\* A generation is in at most one job that runs or has delivered it, unless a
\* scan was persisted while its job was not recorded (docs/transfers.md:54).
COROLLARY FilesAreCopiedOnce == Spec => []CopiedOnce
  BY GroupsAreSafe, PTL DEF IInv

\* Where jobs are enqueued for an agent, the per-file scheduler never takes a
\* file whose last scan found the torrent complete (docs/transfers.md:52), unless
\* that scan was cut before it wrote the label of the file.  The executor of the
\* gateway has no such theorem: groups_gateway refutes it.
THEOREM AgentsKeepTorrentsTogether ==
  ASSUME Remote
  PROVE  Spec => TorrentsStayTogether
  <1>1. ASSUME IInv, [Next]_vars
        PROVE  [\A r \in sched'.rows \ sched.rows : r.obj \notin told \ lost]_vars
    <2>1. CASE ReadFiles
      <3>1. sched'.rows = {[obj |-> o, attempt |-> obj[o].attempt] : o \in {x \in Obj : FileReady(x)}}
        BY <2>1, NoTypes DEF ReadFiles, NoRun
      <3>2. \A r \in sched'.rows : ~obj[r.obj].label
        BY <3>1 DEF FileReady
      <3> QED BY <1>1, <3>2 DEF IInv, ToldIsLabelled
    <2>2. CASE ~ReadFiles
      <3>1. sched'.rows \subseteq sched.rows
        <4>1. CASE SendGroup
          BY <4>1 DEF SendGroup
        <4>2. CASE SendFiles
          BY <4>2 DEF SendFiles, SendFile
        <4>3. CASE \E r \in sched.rows : SendFileFails(r)
          BY <1>1, <4>3, ContinueFacts, RunFields DEF SendFileFails, IInv, Copies
        <4>4. CASE Record
          BY <1>1, <4>4, ContinueFacts, RunFields DEF Record, IInv
        <4>5. CASE sched' = NoRun
          BY <4>5, NoTypes
        <4>6. CASE UNCHANGED sched
          BY <4>6
        <4> QED BY <1>1, <2>2, <4>1, <4>2, <4>3, <4>4, <4>5, <4>6
              DEF Next, SourceChanges, StartScan, ScanSucceeds, PersistScan, ScanFails, ScanCut,
                  Age, SendGroupFails, Crash, EndOfJob, JobEnds, Reconciled, Reconcile, vars
      <3> QED BY <3>1
    <2> QED BY <2>1, <2>2
  <1>2. IInv /\ [Next]_vars => [\A r \in sched'.rows \ sched.rows : r.obj \notin told \ lost]_vars
    BY <1>1
  <1> QED BY <1>2, GroupsAreSafe, PTL DEF Spec, TorrentsStayTogether
=============================================================================
