------------------------ MODULE TransferRulesProofs ------------------------
(***************************************************************************)
(* What the life of an object generation guarantees for any source, any    *)
(* number of callers of "Scan now", of retries, crashes, lapses and edits. *)
(*                                                                         *)
(* The argument is about the job table, which no edit and no crash         *)
(* empties: attempt n of a generation is only ever made when the attempts  *)
(* below it have failed (FailuresComeFirst).  A failed job stays failed,   *)
(* so the rows that the scheduler read before an edit are as good as those *)
(* it would read after it.                                                 *)
(***************************************************************************)
EXTENDS TransferRules, FiniteSetTheorems, TLAPS

-----------------------------------------------------------------------------
(* Facts about the values.                                                 *)

LEMMA Values ==
  /\ \A s \in {"unknown", "discovered", "queued", "retry_wait", "ignored", "done", "failed",
               "superseded"} : s \in ObjectStates
  /\ \A s \in {"absent", "waiting", "active", "completed", "failed"} : s \in JobStates
  /\ JobStates = {"absent", "waiting", "active", "completed", "failed"}
  /\ \A s \in {"idle", "reconcile", "rows", "copy", "commit", "delete", "finish", "record", "scan"} :
        s \in RunPc
  /\ \A s \in {"idle", "list", "read", "persist", "link"} : s \in ScanPc
  /\ TerminalJob = {"completed", "failed"} /\ Waiting = {"discovered", "retry_wait"}
  /\ {} \in Rows /\ {} \in Found /\ None \in CurRow /\ None \in File
  /\ TRUE \in BOOLEAN /\ FALSE \in BOOLEAN
  BY DEF ObjectStates, JobStates, RunPc, ScanPc, TerminalJob, Waiting, Rows, Found, CurRow, File

LEMMA Numbers ==
  /\ RetryCount \in Nat /\ MaxAttempt \in Nat /\ MaxAttempt = RetryCount + 1
  /\ \A n \in Attempt : n \in Nat /\ n >= 1 /\ n <= MaxAttempt + 1
  /\ \A n \in Nat : n >= 1 /\ n <= MaxAttempt + 1 => n \in Attempt
  /\ \A n \in Nat : n <= MaxAttempt => n \in Tries
  /\ \A n \in Tries : n \in Nat /\ n <= MaxAttempt
  /\ 0 \in Tries
  /\ \A n \in Version : n \in Nat
  /\ 0 \in Version
  BY RuleAssumption, BoundsAssumption DEF MaxAttempt, Attempt, Tries, Version

LEMMA GenFields ==
  ASSUME NEW g \in Gen
  PROVE  g.path \in Path /\ g.size \in Nat /\ g # None
  BY GenAssumption

LEMMA RowFields ==
  ASSUME NEW r \in Row
  PROVE  r.gen \in Gen /\ r.attempt \in Attempt /\ r.version \in Nat
  BY DEF Row

LEMMA NoneTypes ==
  /\ NoRun \in RunType /\ NoRun.pc = "idle" /\ NoRun.rows = {} /\ NoRun.cur = None
  /\ NoScan \in ScanType
  /\ NoObject \in ObjectType /\ NoObject.state = "unknown" /\ NoObject.attempt = 0
  BY Values, Numbers DEF NoRun, RunType, NoScan, ScanType, NoObject, ObjectType

LEMMA ObjectFields ==
  ASSUME TypeOK, NEW g \in Gen
  PROVE  /\ obj[g] \in ObjectType /\ obj[g].state \in ObjectStates /\ obj[g].attempt \in Tries
         /\ obj[g].attempt \in Nat /\ obj[g].ripe \in BOOLEAN /\ obj[g].seen \in Nat
  BY Numbers DEF TypeOK, ObjectType

LEMMA JobState ==
  ASSUME TypeOK, NEW g \in Gen, NEW n \in Attempt
  PROVE  job[g][n] \in {"absent", "waiting", "active", "completed", "failed"}
  BY Values DEF TypeOK

LEMMA SchedFields ==
  ASSUME TypeOK
  PROVE  /\ sched \in RunType /\ sched.pc \in RunPc /\ sched.at \in Nat /\ sched.rows \in Rows
         /\ sched.cur \in CurRow /\ sched.staged \in File
         /\ \A r \in sched.rows : r \in Row
  BY DEF TypeOK, RunType, Rows

LEMMA ScanFields ==
  ASSUME TypeOK, NEW s \in Scanner
  PROVE  /\ scan[s] \in ScanType /\ scan[s].pc \in ScanPc /\ scan[s].at \in Nat
         /\ scan[s].id \in Nat /\ scan[s].found \in Found /\ scan[s].first \in BOOLEAN
  BY DEF TypeOK, ScanType

LEMMA NowNat ==
  ASSUME TypeOK
  PROVE  Now \in Nat /\ clock \in Nat
  BY BoundsAssumption DEF TypeOK, Now

-----------------------------------------------------------------------------
(* What the parts of the invariant see of a step.                          *)

\* The tables are as they were.
LEMMA TablesKept ==
  ASSUME IInv, UNCHANGED <<obj, job, delivered>>, \A r \in sched'.rows : r \in sched.rows
  PROVE  /\ FailuresComeFirst' /\ OneDelivery' /\ CompletedIsDelivered'
         /\ QueuedMeansSettled' /\ DoneMeansDelivered'
  BY DEF IInv, FailuresComeFirst, FailedBelow, Attemptable, InOrder, OneDelivery,
         CompletedIsDelivered, Delivered, QueuedMeansSettled, DoneMeansDelivered, JobOf

\* One job that is not over yet changes its state.
LEMMA JobChanges ==
  ASSUME IInv, NEW g \in Gen, NEW n \in Attempt, NEW s \in JobStates \ {"absent"},
         job' = [job EXCEPT ![g][n] = s], job[g][n] \notin TerminalJob,
         FailedBelow(g, n), s = "completed" => Delivered(g),
         UNCHANGED <<obj, delivered>>, \A r \in sched'.rows : r \in sched.rows
  PROVE  /\ job' \in [Gen -> [Attempt -> JobStates]] /\ job'[g][n] = s
         /\ \A h \in Gen, m \in Attempt :
               /\ job[h][m] # "absent" => job'[h][m] # "absent"
               /\ job[h][m] \in TerminalJob => job'[h][m] = job[h][m]
         /\ FailuresComeFirst' /\ OneDelivery' /\ CompletedIsDelivered'
         /\ QueuedMeansSettled' /\ DoneMeansDelivered'
  <1> USE DEF IInv
  <1>1. /\ job' \in [Gen -> [Attempt -> JobStates]] /\ job'[g][n] = s
        /\ \A h \in Gen, m \in Attempt : h # g \/ m # n => job'[h][m] = job[h][m]
    BY DEF TypeOK
  <1>2. \A h \in Gen, m \in Attempt :
          /\ job[h][m] # "absent" => job'[h][m] # "absent"
          /\ job[h][m] \in TerminalJob => job'[h][m] = job[h][m]
    BY <1>1
  <1>3. ASSUME NEW h \in Gen, NEW m, FailedBelow(h, m)
        PROVE  FailedBelow(h, m)'
    BY <1>2, <1>3, Values DEF FailedBelow
  <1>4. ASSUME NEW h \in Gen, NEW m \in Attempt, job'[h][m] # "absent"
        PROVE  FailedBelow(h, m)'
    <2>1. CASE h = g /\ m = n
      BY <1>3, <2>1
    <2>2. CASE h # g \/ m # n
      BY <1>1, <1>3, <1>4, <2>2 DEF FailuresComeFirst
    <2> QED BY <2>1, <2>2
  <1>5. \A h \in Gen : InOrder(h)'
    <2> SUFFICES ASSUME NEW h \in Gen PROVE InOrder(h)'
      OBVIOUS
    <2>1. InOrder(h)
      BY DEF FailuresComeFirst
    <2>2. FailedBelow(h, obj[h].attempt + 1) => FailedBelow(h, obj[h].attempt + 1)'
      BY <1>2, Values DEF FailedBelow
    <2> QED BY <2>1, <2>2 DEF InOrder
  <1>6. \A r \in sched'.rows : Attemptable(r)'
    <2> SUFFICES ASSUME NEW r \in sched'.rows PROVE Attemptable(r)'
      OBVIOUS
    <2>1. r \in Row /\ r.gen \in Gen /\ Attemptable(r)
      BY SchedFields, RowFields DEF FailuresComeFirst
    <2> QED BY <1>3, <2>1 DEF Attemptable
  <1>7. FailuresComeFirst'
    BY <1>4, <1>5, <1>6 DEF FailuresComeFirst
  <1>8. OneDelivery'
    <2> SUFFICES ASSUME NEW h \in Gen, NEW k \in Attempt, NEW m \in Attempt,
                        job'[h][k] = "completed", k # m
                 PROVE  job'[h][m] \in {"absent", "failed"}
      BY DEF OneDelivery
    <2>1. CASE m < k
      BY <1>4, <2>1 DEF FailedBelow
    <2>2. CASE k < m
      BY <1>4, <2>2 DEF FailedBelow
    <2> QED BY <2>1, <2>2, Numbers
  <1>9. CompletedIsDelivered'
    <2> SUFFICES ASSUME NEW h \in Gen, NEW m \in Attempt, job'[h][m] = "completed"
                 PROVE  Delivered(h)
      BY DEF CompletedIsDelivered, Delivered
    <2> QED BY <1>1 DEF CompletedIsDelivered
  <1>10. QueuedMeansSettled'
    <2> SUFFICES ASSUME NEW h \in Gen, obj[h].state = "queued"
                 PROVE  job'[h][obj[h].attempt] \in TerminalJob
      BY DEF QueuedMeansSettled, JobOf
    <2>1. job[h][obj[h].attempt] \in TerminalJob
      BY DEF QueuedMeansSettled, JobOf
    <2>2. obj[h].attempt \in Attempt
      BY Numbers, ObjectFields DEF FailuresComeFirst, InOrder
    <2> QED BY <1>2, <2>1, <2>2
  <1>11. DoneMeansDelivered'
    BY DEF DoneMeansDelivered, Delivered
  <1> QED BY <1>1, <1>2, <1>7, <1>8, <1>9, <1>10, <1>11

\* Objects change, each to something that its jobs and deliveries justify.
LEMMA ObjectsChange ==
  ASSUME IInv, UNCHANGED <<job, delivered>>, \A r \in sched'.rows : r \in sched.rows,
         \A g \in Gen :
            \/ obj'[g].state = obj[g].state /\ obj'[g].attempt = obj[g].attempt
            \/ /\ InOrder(g)'
               /\ obj'[g].state = "queued" => job[g][obj'[g].attempt] \in TerminalJob
               /\ obj'[g].state = "done" => Delivered(g)
  PROVE  /\ FailuresComeFirst' /\ OneDelivery' /\ CompletedIsDelivered'
         /\ QueuedMeansSettled' /\ DoneMeansDelivered'
  <1> USE DEF IInv
  <1>1. \A g \in Gen : InOrder(g)'
    BY DEF FailuresComeFirst, InOrder, FailedBelow
  <1>2. FailuresComeFirst'
    BY <1>1 DEF FailuresComeFirst, FailedBelow, Attemptable
  <1>3. OneDelivery' /\ CompletedIsDelivered'
    BY DEF OneDelivery, CompletedIsDelivered, Delivered
  <1>4. QueuedMeansSettled'
    BY DEF QueuedMeansSettled, JobOf
  <1>5. DoneMeansDelivered'
    BY DEF DoneMeansDelivered, Delivered
  <1> QED BY <1>2, <1>3, <1>4, <1>5

\* The run is where it was, and jobs and deliveries only went on.
LEMMA RunKept ==
  ASSUME IInv, UNCHANGED <<sched, delivered>>,
         \A h \in Gen, m \in Attempt :
            /\ job[h][m] # "absent" => job'[h][m] # "absent"
            /\ job[h][m] \in TerminalJob => job'[h][m] = job[h][m]
  PROVE  RunIsOrdered'
  <1> USE DEF IInv
  <1>1. sched.pc \in {"copy", "commit", "delete", "finish", "record"} =>
          sched.cur.gen \in Gen /\ sched.cur.attempt \in Attempt
    BY RowFields DEF RunIsOrdered
  <1> QED BY <1>1 DEF RunIsOrdered, Delivered

-----------------------------------------------------------------------------
(* The source, the clock and the scans: the tables stay as they are.       *)

LEMMA TablesStay ==
  ASSUME IInv, UNCHANGED <<obj, job, delivered>>, \A r \in sched'.rows : r \in sched.rows,
         src' \in [Path -> File], born' \subseteq Gen, rule' \in RuleType, sched' \in RunType,
         scan' \in [Scanner -> ScanType], clock' \in 0 .. MaxScans,
         budget' \in [crashes : 0 .. MaxCrashes, lapses : 0 .. MaxLapses, edits : Version],
         SourceByPath', EditsCounted', RunIsOrdered'
  PROVE  IInv'
  <1>1. TypeOK'
    BY DEF IInv, TypeOK
  <1> QED BY <1>1, TablesKept DEF IInv

\* The run of the scheduler goes on too.
LEMMA RunStays ==
  ASSUME IInv, UNCHANGED <<obj, job, delivered, sched>>,
         src' \in [Path -> File], born' \subseteq Gen, rule' \in RuleType,
         scan' \in [Scanner -> ScanType], clock' \in 0 .. MaxScans,
         budget' \in [crashes : 0 .. MaxCrashes, lapses : 0 .. MaxLapses, edits : Version],
         SourceByPath', EditsCounted'
  PROVE  IInv'
  <1>1. RunIsOrdered'
    BY RunKept
  <1> QED BY <1>1, TablesStay DEF IInv, TypeOK

LEMMA SourceIInv ==
  ASSUME IInv, (\E g \in Gen : SourceWrite(g)) \/ (\E p \in Path : SourceRemove(p))
  PROVE  IInv'
  <1> USE DEF IInv
  <1>1. UNCHANGED <<delivered, obj, job, rule, sched, scan, clock, budget>>
    BY DEF SourceWrite, SourceRemove
  <1>2. src' \in [Path -> File] /\ SourceByPath' /\ born' \subseteq Gen
    <2>1. ASSUME NEW g \in Gen, SourceWrite(g)
          PROVE  src' \in [Path -> File] /\ SourceByPath' /\ born' \subseteq Gen
      BY <2>1, GenFields DEF SourceWrite, TypeOK, File, SourceByPath
    <2>2. ASSUME NEW p \in Path, SourceRemove(p)
          PROVE  src' \in [Path -> File] /\ SourceByPath' /\ born' \subseteq Gen
      BY <2>2 DEF SourceRemove, TypeOK, File, SourceByPath
    <2> QED BY <2>1, <2>2
  <1> QED BY <1>1, <1>2, RunStays DEF TypeOK, EditsCounted

LEMMA ScanDueIInv ==
  ASSUME IInv, ScanDue
  PROVE  IInv'
  <1> USE DEF IInv
  <1>1. rule' = [rule EXCEPT !.due = TRUE] /\ UNCHANGED <<src, born, delivered, obj, job, sched, scan, clock, budget>>
    BY DEF ScanDue
  <1>2. rule' \in RuleType /\ rule'.version = rule.version
    BY <1>1 DEF TypeOK, RuleType
  <1> QED BY <1>1, <1>2, RunStays DEF TypeOK, EditsCounted, SourceByPath

LEMMA ScanNowIInv ==
  ASSUME IInv, NEW m \in Manual, ScanNow(m)
  PROVE  IInv'
  <1> USE DEF IInv
  <1>1. /\ scan' = [scan EXCEPT ![m] = [NoScan EXCEPT !.pc = "list", !.at = Now]]
        /\ UNCHANGED <<src, born, delivered, obj, job, rule, sched, clock, budget>>
    BY DEF ScanNow, BeginScan
  <1>2. m \in Scanner /\ Now \in Nat /\ "list" \in ScanPc
    BY NowNat, Values DEF Scanner
  <1>3. [NoScan EXCEPT !.pc = "list", !.at = Now] \in ScanType
    BY <1>2, NoneTypes DEF ScanType
  <1>4. scan' \in [Scanner -> ScanType]
    BY <1>1, <1>3 DEF TypeOK
  <1> QED BY <1>1, <1>4, RunStays DEF TypeOK, EditsCounted, SourceByPath

LEMMA ScanListIInv ==
  ASSUME IInv, NEW s \in Scanner, ScanList(s)
  PROVE  IInv'
  <1> USE DEF IInv
  <1> DEFINE found == {src[p] : p \in Path} \ {None}
  <1>1. /\ clock < MaxScans /\ clock' = clock + 1
        /\ scan' = [scan EXCEPT ![s].pc = "read", ![s].id = clock + 1, ![s].found = found]
        /\ UNCHANGED <<src, born, delivered, obj, job, rule, sched, budget>>
    BY DEF ScanList, MayList
  <1>2. found \in Found
    BY DEF TypeOK, File, Found
  <1> HIDE DEF found
  <1>3. clock' \in 0 .. MaxScans /\ clock + 1 \in Nat
    BY <1>1, BoundsAssumption DEF TypeOK
  <1>4. [scan[s] EXCEPT !.pc = "read", !.id = clock + 1, !.found = found] \in ScanType
    BY <1>2, <1>3, ScanFields, Values DEF ScanType
  <1>5. scan' \in [Scanner -> ScanType]
    BY <1>1, <1>4 DEF TypeOK
  <1> QED BY <1>1, <1>3, <1>5, RunStays DEF TypeOK, EditsCounted, SourceByPath

LEMMA ScanReadIInv ==
  ASSUME IInv, NEW s \in Scanner, ScanRead(s)
  PROVE  IInv'
  <1> USE DEF IInv
  <1>1. /\ scan' = [scan EXCEPT ![s].pc = "persist", ![s].first = ~rule.initialized]
        /\ UNCHANGED <<src, born, delivered, obj, job, rule, sched, clock, budget>>
    BY DEF ScanRead
  <1>2. (~rule.initialized) \in BOOLEAN
    OBVIOUS
  <1>3. [scan[s] EXCEPT !.pc = "persist", !.first = ~rule.initialized] \in ScanType
    BY <1>2, ScanFields, Values DEF ScanType
  <1>4. scan' \in [Scanner -> ScanType]
    BY <1>1, <1>3 DEF TypeOK
  <1> QED BY <1>1, <1>4, RunStays DEF TypeOK, EditsCounted, SourceByPath

\* The end of a scan is the end of the scheduler's run where the scan is its own.
LEMMA EndScanFacts ==
  ASSUME IInv, NEW s \in Scanner, EndScan(s), UNCHANGED <<job, delivered>>
  PROVE  /\ scan' \in [Scanner -> ScanType] /\ sched' \in RunType
         /\ \A r \in sched'.rows : r \in sched.rows
         /\ RunIsOrdered'
  <1>1. scan' = [scan EXCEPT ![s] = NoScan] /\ (sched' = NoRun \/ sched' = sched)
    BY DEF EndScan
  <1>2. scan' \in [Scanner -> ScanType]
    BY <1>1, NoneTypes DEF IInv, TypeOK
  <1>3. CASE sched' = sched
    BY <1>2, <1>3, RunKept DEF IInv, TypeOK
  <1>4. CASE sched' = NoRun
    BY <1>2, <1>4, NoneTypes DEF RunIsOrdered
  <1> QED BY <1>1, <1>3, <1>4

LEMMA ScanFailIInv ==
  ASSUME IInv, NEW s \in Scanner, ScanFail(s)
  PROVE  IInv'
  <1>1. EndScan(s) /\ UNCHANGED <<src, born, delivered, obj, job, rule, clock, budget>>
    BY DEF ScanFail
  <1> QED BY <1>1, EndScanFacts, TablesStay DEF IInv, TypeOK, EditsCounted, SourceByPath

LEMMA ScanLinkIInv ==
  ASSUME IInv, NEW s \in Scanner, ScanLink(s)
  PROVE  IInv'
  <1> USE DEF IInv
  <1>1. /\ rule' = [rule EXCEPT !.started = scan[s].at, !.scanJob = scan[s].id, !.due = FALSE]
        /\ EndScan(s) /\ UNCHANGED <<src, born, delivered, obj, job, clock, budget>>
    BY DEF ScanLink, LinkedFrom
  <1>2. scan[s].at \in Nat /\ scan[s].id \in Nat
    BY ScanFields
  <1>3. rule' \in RuleType /\ rule'.version = rule.version
    BY <1>1, <1>2 DEF TypeOK, RuleType
  <1> QED BY <1>1, <1>3, EndScanFacts, TablesStay DEF TypeOK, EditsCounted, SourceByPath

\* What a listing found is known, what it replaced and was waiting is superseded.
LEMMA ScanPersistIInv ==
  ASSUME IInv, NEW s \in Scanner, ScanPersist(s)
  PROVE  IInv'
  <1> USE DEF IInv
  <1>1. /\ obj' = [g \in Gen |->
                 IF g \in scan[s].found THEN Upserted(g, s)
                 ELSE IF obj[g].state \in Waiting /\ Replaced(g, scan[s].found)
                 THEN [obj[g] EXCEPT !.state = "superseded", !.ripe = FALSE]
                 ELSE obj[g]]
        /\ rule' = [rule EXCEPT !.initialized = @ \/ rule.scanJob = scan[s].id]
        /\ scan' = [scan EXCEPT ![s].pc = "link"]
        /\ UNCHANGED <<src, born, delivered, job, sched, clock, budget>>
    BY DEF ScanPersist
  <1>2. rule' \in RuleType /\ rule'.version = rule.version
    BY <1>1 DEF TypeOK, RuleType
  <1>3. [scan[s] EXCEPT !.pc = "link"] \in ScanType
    BY ScanFields, Values DEF ScanType
  <1>4. scan' \in [Scanner -> ScanType]
    BY <1>1, <1>3 DEF TypeOK
  <1>5. ASSUME NEW g \in Gen
        PROVE  /\ Upserted(g, s) \in ObjectType
               /\ obj[g].state # "unknown" =>
                     Upserted(g, s).state = obj[g].state /\ Upserted(g, s).attempt = obj[g].attempt
               /\ obj[g].state = "unknown" =>
                     /\ Upserted(g, s).state \in {"ignored", "discovered"}
                     /\ Upserted(g, s).attempt = 0
    <2>1. SeenAt(scan[s].id) \in Nat
      BY ScanFields DEF SeenAt
    <2>2. InitialState(scan[s].first) \in {"ignored", "discovered"}
      BY DEF InitialState
    <2>3. CASE obj[g].state = "unknown"
      <3>1. Upserted(g, s) = [NoObject EXCEPT !.state = InitialState(scan[s].first),
                                              !.seen = SeenAt(scan[s].id)]
        BY <2>3 DEF Upserted
      <3>2. InitialState(scan[s].first) \in ObjectStates
        BY <2>2, Values
      <3> QED BY <2>1, <2>2, <2>3, <3>1, <3>2, NoneTypes DEF ObjectType
    <2>4. CASE obj[g].state # "unknown"
      BY <2>1, <2>4, ObjectFields DEF Upserted, ObjectType
    <2> QED BY <2>3, <2>4
  <1>6. ASSUME NEW g \in Gen
        PROVE  /\ [obj[g] EXCEPT !.state = "superseded", !.ripe = FALSE] \in ObjectType
               /\ [obj[g] EXCEPT !.state = "superseded", !.ripe = FALSE].state = "superseded"
    BY ObjectFields, Values DEF ObjectType
  <1>7. obj' \in [Gen -> ObjectType]
    BY <1>1, <1>5, <1>6 DEF TypeOK
  <1>8. ASSUME NEW g \in Gen
        PROVE  \/ obj'[g].state = obj[g].state /\ obj'[g].attempt = obj[g].attempt
               \/ obj'[g].state \in {"ignored", "superseded"}
               \/ obj'[g].state = "discovered" /\ obj'[g].attempt = 0
    BY <1>1, <1>5, <1>6
  <1>9. ASSUME NEW g \in Gen
        PROVE  \/ obj'[g].state = obj[g].state /\ obj'[g].attempt = obj[g].attempt
               \/ /\ InOrder(g)'
                  /\ obj'[g].state = "queued" => job[g][obj'[g].attempt] \in TerminalJob
                  /\ obj'[g].state = "done" => Delivered(g)
    BY <1>8 DEF InOrder
  <1>10. RunIsOrdered'
    BY <1>1, RunKept
  <1>11. TypeOK'
    BY <1>1, <1>2, <1>4, <1>7 DEF TypeOK
  <1> QED BY <1>1, <1>2, <1>9, <1>10, <1>11, ObjectsChange DEF EditsCounted, SourceByPath

-----------------------------------------------------------------------------
(* The run of the scheduler.                                               *)

\* A step of the run that changes nothing else.
LEMMA RunSteps ==
  ASSUME IInv, UNCHANGED <<src, born, delivered, obj, job, rule, clock, budget>>,
         sched' \in RunType, \A r \in sched'.rows : r \in sched.rows,
         scan' \in [Scanner -> ScanType], RunIsOrdered'
  PROVE  IInv'
  BY TablesStay DEF IInv, TypeOK, EditsCounted, SourceByPath

LEMMA RunStartIInv ==
  ASSUME IInv, RunStart
  PROVE  IInv'
  <1> USE DEF IInv
  <1>1. /\ sched' = [sched EXCEPT !.pc = "reconcile", !.at = Now]
        /\ UNCHANGED <<src, born, delivered, obj, job, rule, scan, clock, budget>>
    BY DEF RunStart
  <1>2. sched' \in RunType /\ sched'.pc = "reconcile" /\ sched'.rows = sched.rows
    BY <1>1, NowNat, SchedFields, Values DEF RunType
  <1>3. RunIsOrdered'
    BY <1>2 DEF RunIsOrdered
  <1> QED BY <1>1, <1>2, <1>3, RunSteps DEF TypeOK

LEMMA SelectReadyIInv ==
  ASSUME IInv, SelectReady
  PROVE  IInv'
  <1> USE DEF IInv
  <1> DEFINE rows == IF rule.enabled
                     THEN {[gen |-> g, attempt |-> obj[g].attempt + 1,
                            version |-> rule.version] : g \in Ready}
                     ELSE {}
  <1>1. /\ sched' = [sched EXCEPT !.pc = "rows", !.rows = rows]
        /\ UNCHANGED <<src, born, delivered, obj, job, rule, scan, clock, budget>>
    BY DEF SelectReady
  <1>2. \A r \in rows : \E g \in Ready :
          r = [gen |-> g, attempt |-> obj[g].attempt + 1, version |-> rule.version]
    OBVIOUS
  <1>3. ASSUME NEW r \in rows
        PROVE  r \in Row /\ Attemptable(r)
    <2>1. PICK g \in Ready :
            r = [gen |-> g, attempt |-> obj[g].attempt + 1, version |-> rule.version]
      BY <1>2
    <2>2. g \in Gen /\ (obj[g].state = "discovered" \/ obj[g].state = "retry_wait")
      BY DEF Ready
    <2>3. InOrder(g) /\ obj[g].attempt \in Nat /\ rule.version \in Nat
      BY <2>2, ObjectFields, Numbers DEF FailuresComeFirst, TypeOK, RuleType
    <2>4. obj[g].attempt <= RetryCount /\ FailedBelow(g, obj[g].attempt + 1)
      BY <2>2, <2>3, Numbers DEF InOrder, FailedBelow
    <2>5. obj[g].attempt + 1 \in Attempt /\ obj[g].attempt + 1 <= MaxAttempt
      BY <2>3, <2>4, Numbers
    <2>6. r.gen = g /\ r.attempt = obj[g].attempt + 1
      BY <2>1
    <2>7. r \in Row
      BY <2>1, <2>2, <2>3, <2>5 DEF Row
    <2> QED BY <2>4, <2>5, <2>6, <2>7 DEF Attemptable
  <1> HIDE DEF rows
  <1>4. rows \in Rows
    BY <1>3 DEF Rows
  <1>5. sched' \in RunType /\ sched'.pc = "rows" /\ sched'.rows = rows
    BY <1>1, <1>4, SchedFields, Values DEF RunType
  <1>6. RunIsOrdered'
    BY <1>5 DEF RunIsOrdered
  <1>7. TypeOK'
    BY <1>1, <1>5 DEF TypeOK
  <1>8. FailuresComeFirst'
    <2>1. \A r \in sched'.rows : Attemptable(r)'
      BY <1>1, <1>3, <1>5 DEF Attemptable, FailedBelow
    <2> QED BY <1>1, <2>1 DEF FailuresComeFirst, InOrder, FailedBelow
  <1>9. /\ OneDelivery' /\ CompletedIsDelivered' /\ QueuedMeansSettled' /\ DoneMeansDelivered'
        /\ SourceByPath' /\ EditsCounted'
    BY <1>1 DEF OneDelivery, CompletedIsDelivered, Delivered, QueuedMeansSettled,
                DoneMeansDelivered, JobOf, SourceByPath, EditsCounted
  <1> QED BY <1>6, <1>7, <1>8, <1>9

LEMMA SkipRowIInv ==
  ASSUME IInv, NEW r \in sched.rows, SkipRow(r)
  PROVE  IInv'
  <1> USE DEF IInv
  <1>1. /\ sched.pc = "rows" /\ sched' = [sched EXCEPT !.rows = @ \ {r}]
        /\ UNCHANGED <<src, born, delivered, obj, job, rule, scan, clock, budget>>
    BY DEF SkipRow
  <1>2. sched.rows \ {r} \in Rows
    BY SchedFields DEF Rows
  <1>3. sched' \in RunType /\ sched'.pc = "rows" /\ sched'.rows = sched.rows \ {r}
    BY <1>1, <1>2, SchedFields DEF RunType
  <1>4. RunIsOrdered'
    BY <1>3 DEF RunIsOrdered
  <1> QED BY <1>1, <1>3, <1>4, RunSteps DEF TypeOK

LEMMA StartRowIInv ==
  ASSUME IInv, NEW r \in sched.rows, StartRow(r)
  PROVE  IInv'
  <1> USE DEF IInv
  <1>1. /\ Claimable(job[r.gen][r.attempt])
        /\ job' = [job EXCEPT ![r.gen][r.attempt] = "active"]
        /\ sched' = [sched EXCEPT !.pc = "copy", !.rows = @ \ {r}, !.cur = r]
        /\ UNCHANGED <<src, born, delivered, obj, rule, scan, clock, budget>>
    BY DEF StartRow
  <1>2. r \in Row /\ r.gen \in Gen /\ r.attempt \in Attempt /\ r \in CurRow
    BY SchedFields, RowFields DEF CurRow
  <1>3. r.attempt <= MaxAttempt /\ FailedBelow(r.gen, r.attempt)
    BY DEF FailuresComeFirst, Attemptable
  <1>4. sched.rows \ {r} \in Rows
    BY SchedFields DEF Rows
  <1>5. /\ sched' \in RunType /\ sched'.pc = "copy" /\ sched'.cur = r
        /\ \A x \in sched'.rows : x \in sched.rows
    BY <1>1, <1>2, <1>4, SchedFields, Values DEF RunType
  <1>6. job[r.gen][r.attempt] \notin TerminalJob
    BY <1>1, Values DEF Claimable
  <1>7. /\ job' \in [Gen -> [Attempt -> JobStates]] /\ job'[r.gen][r.attempt] = "active"
        /\ FailuresComeFirst' /\ OneDelivery' /\ CompletedIsDelivered'
        /\ QueuedMeansSettled' /\ DoneMeansDelivered'
    <2>1. "active" \in JobStates \ {"absent"} /\ "active" # "completed"
      BY Values
    <2>2. UNCHANGED <<obj, delivered>> /\ job' = [job EXCEPT ![r.gen][r.attempt] = "active"]
      BY <1>1
    <2>3. PICK g \in Gen, n \in Attempt : g = r.gen /\ n = r.attempt
      BY <1>2
    <2>4. /\ job' = [job EXCEPT ![g][n] = "active"] /\ job[g][n] \notin TerminalJob
          /\ FailedBelow(g, n)
      BY <1>3, <1>6, <2>2, <2>3
    <2>5. \A x \in sched'.rows : x \in sched.rows
      BY <1>5
    <2>6. /\ job' \in [Gen -> [Attempt -> JobStates]] /\ job'[g][n] = "active"
          /\ FailuresComeFirst' /\ OneDelivery' /\ CompletedIsDelivered'
          /\ QueuedMeansSettled' /\ DoneMeansDelivered'
      BY ZenonT(40), <2>1, <2>2, <2>4, <2>5, JobChanges
    <2> QED BY <2>3, <2>6
  <1>8. RunIsOrdered'
    BY <1>2, <1>3, <1>5, <1>7 DEF RunIsOrdered
  <1>9. TypeOK'
    BY <1>1, <1>5, <1>7 DEF TypeOK
  <1> QED BY <1>1, <1>7, <1>8, <1>9 DEF SourceByPath, EditsCounted

LEMMA CopyIInv ==
  ASSUME IInv, Copy
  PROVE  IInv'
  <1> USE DEF IInv
  <1> DEFINE now == src[sched.cur.gen.path]
  <1>1. /\ sched.pc = "copy" /\ now # None /\ now.size = sched.cur.gen.size
        /\ sched' = [sched EXCEPT !.pc = "commit", !.staged = now]
        /\ UNCHANGED <<src, born, delivered, obj, job, rule, scan, clock, budget>>
    BY DEF Copy, Verified
  <1>2. /\ sched.cur \in Row /\ sched.cur.gen \in Gen /\ sched.cur.gen.path \in Path
        /\ sched.cur.attempt <= MaxAttempt /\ job[sched.cur.gen][sched.cur.attempt] # "absent"
    BY <1>1, RowFields, GenFields DEF RunIsOrdered
  <1>3. now \in File /\ now \in Gen /\ now.path = sched.cur.gen.path
    BY <1>1, <1>2 DEF TypeOK, File, SourceByPath
  <1> HIDE DEF now
  <1>4. /\ sched' \in RunType /\ sched'.pc = "commit" /\ sched'.staged = now
        /\ sched'.cur = sched.cur /\ sched'.rows = sched.rows
    BY <1>1, <1>3, SchedFields, Values DEF RunType
  <1>5. RunIsOrdered'
    BY <1>1, <1>2, <1>3, <1>4 DEF RunIsOrdered
  <1> QED BY <1>1, <1>4, <1>5, RunSteps DEF TypeOK

LEMMA CommitIInv ==
  ASSUME IInv, Commit
  PROVE  IInv'
  <1> USE DEF IInv
  <1> DEFINE next == IF rule.mode = "move" THEN "delete" ELSE "finish"
  <1>1. /\ sched.pc = "commit"
        /\ delivered' = delivered \cup {<<sched.staged, sched.cur.version>>}
        /\ sched' = [sched EXCEPT !.pc = next]
        /\ UNCHANGED <<src, born, obj, job, rule, scan, clock, budget>>
    BY DEF Commit
  <1>2. next \in RunPc /\ next \in {"delete", "finish"}
    BY Values
  <1> HIDE DEF next
  <1>3. /\ sched.cur \in Row /\ sched.cur.version \in Nat
        /\ sched.cur.attempt <= MaxAttempt /\ job[sched.cur.gen][sched.cur.attempt] # "absent"
        /\ sched.staged \in Gen /\ sched.staged.path = sched.cur.gen.path
        /\ sched.staged.size = sched.cur.gen.size
    BY <1>1, RowFields DEF RunIsOrdered
  <1>4. /\ sched' \in RunType /\ sched'.pc = next /\ sched'.cur = sched.cur
        /\ sched'.rows = sched.rows
    BY <1>1, <1>2, SchedFields DEF RunType
  <1>5. Delivered(sched.cur.gen)'
    <2> DEFINE e == <<sched.staged, sched.cur.version>>
    <2>1. e \in delivered' /\ e[1].path = sched.cur.gen.path /\ e[1].size = sched.cur.gen.size
      BY <1>1, <1>3
    <2> QED BY <1>4, <2>1 DEF Delivered
  <1>6. \A g \in Gen : Delivered(g) => Delivered(g)'
    BY <1>1 DEF Delivered
  <1>7. RunIsOrdered'
    BY <1>1, <1>2, <1>3, <1>4, <1>5 DEF RunIsOrdered
  <1>8. TypeOK'
    BY <1>1, <1>3, <1>4 DEF TypeOK
  <1>9. FailuresComeFirst' /\ OneDelivery' /\ QueuedMeansSettled'
    BY <1>1, <1>4 DEF FailuresComeFirst, FailedBelow, Attemptable, InOrder, OneDelivery,
                      QueuedMeansSettled, JobOf
  <1>10. CompletedIsDelivered' /\ DoneMeansDelivered'
    BY <1>1, <1>6 DEF CompletedIsDelivered, DoneMeansDelivered
  <1> QED BY <1>1, <1>7, <1>8, <1>9, <1>10 DEF SourceByPath, EditsCounted

LEMMA DeleteSourceIInv ==
  ASSUME IInv, DeleteSource
  PROVE  IInv'
  <1> USE DEF IInv
  <1>1. /\ sched.pc = "delete" /\ src' = [src EXCEPT ![sched.cur.gen.path] = None]
        /\ sched' = [sched EXCEPT !.pc = "finish"]
        /\ UNCHANGED <<born, delivered, obj, job, rule, scan, clock, budget>>
    BY DEF DeleteSource
  <1>2. src' \in [Path -> File] /\ SourceByPath'
    BY <1>1 DEF TypeOK, File, SourceByPath
  <1>3. /\ sched' \in RunType /\ sched'.pc = "finish" /\ sched'.cur = sched.cur
        /\ sched'.rows = sched.rows
    BY <1>1, SchedFields, Values DEF RunType
  <1>4. RunIsOrdered'
    BY <1>1, <1>3 DEF RunIsOrdered, Delivered
  <1> QED BY <1>1, <1>2, <1>3, <1>4, TablesStay DEF TypeOK, EditsCounted

LEMMA SettleIInv ==
  ASSUME IInv, NEW outcome \in TerminalJob, Settle(outcome),
         sched.pc \in {"copy", "commit", "delete", "finish"},
         outcome = "completed" => sched.pc = "finish"
  PROVE  IInv'
  <1> USE DEF IInv
  <1> DEFINE g == sched.cur.gen
             n == sched.cur.attempt
  <1>1. UNCHANGED <<src, born, delivered, obj, rule, scan, clock, budget>>
    BY DEF Settle
  <1>2. /\ sched.cur \in Row /\ sched.cur \in CurRow /\ g \in Gen /\ n \in Attempt
        /\ n <= MaxAttempt /\ FailedBelow(g, n)
    BY RowFields DEF RunIsOrdered, FailuresComeFirst, CurRow
  <1>3. CASE job[g][n] = "active"
    <2>1. /\ job' = [job EXCEPT ![g][n] = outcome]
          /\ sched' = [sched EXCEPT !.pc = "record", !.staged = None]
      BY <1>3 DEF Settle
    <2>2. /\ sched' \in RunType /\ sched'.pc = "record" /\ sched'.cur = sched.cur
          /\ sched'.rows = sched.rows
      BY <2>1, SchedFields, Values DEF RunType
    <2>3. outcome \in JobStates \ {"absent"}
      BY Values
    <2>4. outcome = "completed" => Delivered(g)
      BY DEF RunIsOrdered
    <2>5. job[g][n] \notin TerminalJob
      BY <1>3, Values
    <2>6. /\ job' \in [Gen -> [Attempt -> JobStates]] /\ job'[g][n] = outcome
          /\ FailuresComeFirst' /\ OneDelivery' /\ CompletedIsDelivered'
          /\ QueuedMeansSettled' /\ DoneMeansDelivered'
      BY <1>1, <1>2, <2>1, <2>2, <2>3, <2>4, <2>5, JobChanges
    <2>7. RunIsOrdered'
      BY <1>2, <2>2, <2>3, <2>6 DEF RunIsOrdered
    <2>8. TypeOK'
      BY <1>1, <2>2, <2>6 DEF TypeOK
    <2> QED BY <1>1, <2>6, <2>7, <2>8 DEF SourceByPath, EditsCounted
  <1>4. CASE job[g][n] # "active"
    <2>1. job' = job /\ sched' = [sched EXCEPT !.pc = "rows", !.cur = None, !.staged = None]
      BY <1>4 DEF Settle
    <2>2. sched' \in RunType /\ sched'.pc = "rows" /\ sched'.rows = sched.rows
      BY <2>1, SchedFields, Values DEF RunType
    <2>3. RunIsOrdered'
      BY <2>2 DEF RunIsOrdered
    <2> QED BY <1>1, <2>1, <2>2, <2>3, RunSteps DEF TypeOK
  <1> QED BY <1>3, <1>4

LEMMA RecordIInv ==
  ASSUME IInv, Record
  PROVE  IInv'
  <1> USE DEF IInv
  <1> DEFINE g == sched.cur.gen
             n == sched.cur.attempt
  <1>1. /\ sched.pc = "record"
        /\ obj' = IF Recordable(g)
                  THEN [obj EXCEPT ![g].state = "queued", ![g].attempt = n] ELSE obj
        /\ sched' = [sched EXCEPT !.pc = "rows", !.cur = None]
        /\ UNCHANGED <<src, born, delivered, job, rule, scan, clock, budget>>
    BY DEF Record
  <1>2. /\ g \in Gen /\ n \in Attempt /\ n \in Tries /\ n >= 1 /\ job[g][n] \in TerminalJob
    BY <1>1, RowFields, Numbers DEF RunIsOrdered
  <1>3. sched' \in RunType /\ sched'.pc = "rows" /\ sched'.rows = sched.rows
    BY <1>1, SchedFields, Values DEF RunType
  <1>4. RunIsOrdered'
    BY <1>3 DEF RunIsOrdered
  <1> HIDE DEF g, n
  <1>5. /\ [obj[g] EXCEPT !.state = "queued", !.attempt = n] \in ObjectType
        /\ [obj[g] EXCEPT !.state = "queued", !.attempt = n].state = "queued"
        /\ [obj[g] EXCEPT !.state = "queued", !.attempt = n].attempt = n
    BY <1>2, ObjectFields, Values DEF ObjectType
  <1>6. obj' \in [Gen -> ObjectType]
    BY <1>1, <1>2, <1>5 DEF TypeOK
  <1>7. ASSUME NEW h \in Gen
        PROVE  \/ obj'[h].state = obj[h].state /\ obj'[h].attempt = obj[h].attempt
               \/ h = g /\ obj'[h].state = "queued" /\ obj'[h].attempt = n
    BY <1>1, <1>2, <1>5 DEF TypeOK
  <1>8. ASSUME NEW h \in Gen
        PROVE  \/ obj'[h].state = obj[h].state /\ obj'[h].attempt = obj[h].attempt
               \/ /\ InOrder(h)'
                  /\ obj'[h].state = "queued" => job[h][obj'[h].attempt] \in TerminalJob
                  /\ obj'[h].state = "done" => Delivered(h)
    BY <1>2, <1>7 DEF InOrder
  <1>9. TypeOK'
    BY <1>1, <1>3, <1>6 DEF TypeOK
  <1> QED BY <1>1, <1>3, <1>4, <1>8, <1>9, ObjectsChange DEF SourceByPath, EditsCounted

LEMMA ScanIfDueIInv ==
  ASSUME IInv, ScanIfDue
  PROVE  IInv'
  <1> USE DEF IInv
  <1>1. UNCHANGED <<src, born, delivered, obj, job, rule, clock, budget>>
    BY DEF ScanIfDue
  <1>2. CASE rule.enabled /\ rule.due /\ clock < MaxScans
    <2>1. /\ scan' = [scan EXCEPT !["scheduler"] = [NoScan EXCEPT !.pc = "list", !.at = sched.at]]
          /\ sched' = [sched EXCEPT !.pc = "scan"]
      BY <1>2 DEF ScanIfDue, BeginScan
    <2>2. [NoScan EXCEPT !.pc = "list", !.at = sched.at] \in ScanType
      BY SchedFields, NoneTypes, Values DEF ScanType
    <2>3. scan' \in [Scanner -> ScanType]
      BY <2>1, <2>2 DEF TypeOK
    <2>4. sched' \in RunType /\ sched'.pc = "scan" /\ sched'.rows = sched.rows
      BY <2>1, SchedFields, Values DEF RunType
    <2>5. RunIsOrdered'
      BY <2>4 DEF RunIsOrdered
    <2> QED BY <1>1, <2>3, <2>4, <2>5, RunSteps
  <1>3. CASE ~(rule.enabled /\ rule.due /\ clock < MaxScans)
    <2>1. sched' = NoRun /\ scan' = scan
      BY <1>3 DEF ScanIfDue
    <2>2. RunIsOrdered'
      BY <2>1, NoneTypes DEF RunIsOrdered
    <2> QED BY <1>1, <2>1, <2>2, NoneTypes, RunSteps DEF TypeOK
  <1> QED BY <1>2, <1>3

-----------------------------------------------------------------------------
(* Time, and what becomes of a queued object.                              *)

LEMMA RipenIInv ==
  ASSUME IInv, NEW g \in Gen, Ripen(g)
  PROVE  IInv'
  <1> USE DEF IInv
  <1>1. /\ obj' = [obj EXCEPT ![g].ripe = TRUE]
        /\ UNCHANGED <<src, born, delivered, job, rule, sched, scan, clock, budget>>
    BY DEF Ripen
  <1>2. [obj[g] EXCEPT !.ripe = TRUE] \in ObjectType
    BY ObjectFields DEF ObjectType
  <1>3. obj' \in [Gen -> ObjectType]
    BY <1>1, <1>2 DEF TypeOK
  <1>4. \A h \in Gen : obj'[h].state = obj[h].state /\ obj'[h].attempt = obj[h].attempt
    BY <1>1, ObjectFields DEF TypeOK, ObjectType
  <1>5. TypeOK'
    BY <1>1, <1>3 DEF TypeOK
  <1>6. RunIsOrdered'
    BY <1>1, RunKept
  <1> QED BY <1>1, <1>4, <1>5, <1>6, ObjectsChange DEF SourceByPath, EditsCounted

LEMMA ReconcileIInv ==
  ASSUME IInv, NEW g \in Gen, Reconcile(g)
  PROVE  IInv'
  <1> USE DEF IInv
  <1> DEFINE out == Outcome(g)
             n == obj[g].attempt
  <1>1. /\ obj[g].state = "queued" /\ job[g][n] \in TerminalJob
        /\ obj' = [obj EXCEPT ![g].state = out, ![g].ripe = FALSE]
        /\ UNCHANGED <<src, born, delivered, job, rule, sched, scan, clock, budget>>
    BY DEF Reconcile, Reconcilable, JobOf
  <1>2. n \in Attempt /\ n \in Nat /\ job[g][n] \in {"completed", "failed"}
    BY <1>1, Values, Numbers, ObjectFields DEF FailuresComeFirst, InOrder
  <1>3. \/ out = "done" /\ job[g][n] = "completed"
        \/ out = "retry_wait" /\ n <= RetryCount /\ job[g][n] = "failed"
        \/ out = "failed"
    BY <1>2 DEF Outcome, MayRetry, JobOf
  <1> HIDE DEF out
  <1>4. out \in ObjectStates
    BY <1>3, Values
  <1>5. /\ [obj[g] EXCEPT !.state = out, !.ripe = FALSE] \in ObjectType
        /\ [obj[g] EXCEPT !.state = out, !.ripe = FALSE].state = out
        /\ [obj[g] EXCEPT !.state = out, !.ripe = FALSE].attempt = n
    BY <1>4, ObjectFields DEF ObjectType
  <1>6. obj' \in [Gen -> ObjectType]
    BY <1>1, <1>5 DEF TypeOK
  <1>7. obj'[g].state = out /\ obj'[g].attempt = n /\ \A h \in Gen \ {g} : obj'[h] = obj[h]
    BY <1>1, <1>5 DEF TypeOK
  <1>8. /\ InOrder(g)'
        /\ out # "queued"
        /\ out = "done" => Delivered(g)
    <2>1. CASE out = "done" /\ job[g][n] = "completed"
      BY <1>2, <1>7, <2>1 DEF InOrder, CompletedIsDelivered
    <2>2. CASE out = "retry_wait" /\ n <= RetryCount /\ job[g][n] = "failed"
      <3>1. FailedBelow(g, n)
        BY <1>2, <2>2 DEF FailuresComeFirst
      <3>2. FailedBelow(g, n + 1)
        BY <1>2, <2>2, <3>1, Numbers DEF FailedBelow
      <3>3. FailedBelow(g, n + 1)'
        BY <1>1, <1>7, <3>2 DEF FailedBelow
      <3> QED BY <1>7, <2>2, <3>3 DEF InOrder
    <2>3. CASE out = "failed"
      BY <1>7, <2>3 DEF InOrder
    <2> QED BY <1>3, <2>1, <2>2, <2>3
  <1>9. ASSUME NEW h \in Gen
        PROVE  \/ obj'[h].state = obj[h].state /\ obj'[h].attempt = obj[h].attempt
               \/ /\ InOrder(h)'
                  /\ obj'[h].state = "queued" => job[h][obj'[h].attempt] \in TerminalJob
                  /\ obj'[h].state = "done" => Delivered(h)
    BY <1>7, <1>8
  <1>10. TypeOK'
    BY <1>1, <1>6 DEF TypeOK
  <1>11. RunIsOrdered'
    BY <1>1, RunKept
  <1> QED BY <1>1, <1>9, <1>10, <1>11, ObjectsChange DEF SourceByPath, EditsCounted

-----------------------------------------------------------------------------
(* The rule, the leases and the crash.                                     *)

LEMMA EditIInv ==
  ASSUME IInv, NEW on \in BOOLEAN, Edit(on)
  PROVE  IInv'
  <1> USE DEF IInv
  <1>1. /\ budget.edits < MaxEdits
        /\ rule' = [rule EXCEPT !.version = @ + 1, !.initialized = FALSE,
                                !.enabled = on, !.due = on]
        /\ obj' = [g \in Gen |-> NoObject]
        /\ budget' = [budget EXCEPT !.edits = @ + 1]
        /\ UNCHANGED <<src, born, delivered, job, sched, scan, clock>>
    BY DEF Edit
  <1>2. /\ rule.version \in Nat /\ budget.edits \in Nat /\ rule.version <= budget.edits
        /\ rule.version + 1 \in Version /\ budget.edits + 1 \in Version
    BY <1>1, BoundsAssumption DEF TypeOK, RuleType, Version, EditsCounted
  <1>3. rule' \in RuleType /\ rule'.version = rule.version + 1
    BY <1>1, <1>2 DEF TypeOK, RuleType
  <1>4. /\ budget' \in [crashes : 0 .. MaxCrashes, lapses : 0 .. MaxLapses, edits : Version]
        /\ budget'.edits = budget.edits + 1
    BY <1>1, <1>2 DEF TypeOK
  <1>5. TypeOK' /\ EditsCounted'
    BY <1>1, <1>2, <1>3, <1>4, NoneTypes DEF TypeOK, EditsCounted
  <1>6. \A g \in Gen : obj'[g].state = "unknown" /\ InOrder(g)'
    BY <1>1, NoneTypes DEF InOrder
  <1>7. RunIsOrdered'
    BY <1>1, RunKept
  <1> QED BY <1>1, <1>5, <1>6, <1>7, ObjectsChange DEF SourceByPath

LEMMA SetEnabledIInv ==
  ASSUME IInv, NEW on \in BOOLEAN, SetEnabled(on)
  PROVE  IInv'
  <1> USE DEF IInv
  <1>1. /\ budget.edits < MaxEdits
        /\ rule' = [rule EXCEPT !.enabled = on, !.due = on]
        /\ budget' = [budget EXCEPT !.edits = @ + 1]
        /\ UNCHANGED <<src, born, delivered, obj, job, sched, scan, clock>>
    BY DEF SetEnabled
  <1>2. /\ rule.version \in Nat /\ budget.edits \in Nat /\ rule.version <= budget.edits
        /\ budget.edits + 1 \in Version
    BY <1>1, BoundsAssumption DEF TypeOK, RuleType, Version, EditsCounted
  <1>3. rule' \in RuleType /\ rule'.version = rule.version
    BY <1>1 DEF TypeOK, RuleType
  <1>4. /\ budget' \in [crashes : 0 .. MaxCrashes, lapses : 0 .. MaxLapses, edits : Version]
        /\ budget'.edits = budget.edits + 1
    BY <1>1, <1>2 DEF TypeOK
  <1>5. EditsCounted'
    BY <1>2, <1>3, <1>4 DEF EditsCounted
  <1> QED BY <1>1, <1>3, <1>4, <1>5, RunStays DEF TypeOK, SourceByPath

\* A lease is over and the sweep puts the job back in the queue.
LEMMA RequeueIInv ==
  ASSUME IInv, NEW g \in Gen, NEW n \in Attempt, Recover(g, n) \/ Lapse(g, n)
  PROVE  IInv'
  <1> USE DEF IInv
  <1>1. /\ job[g][n] = "active" /\ job' = [job EXCEPT ![g][n] = "waiting"]
        /\ UNCHANGED <<src, born, delivered, obj, rule, sched, scan, clock>>
    BY DEF Recover, Lapse
  <1>2. /\ budget' \in [crashes : 0 .. MaxCrashes, lapses : 0 .. MaxLapses, edits : Version]
        /\ budget'.edits = budget.edits
    BY BoundsAssumption DEF Recover, Lapse, TypeOK
  <1>3. "waiting" \in JobStates \ {"absent"} /\ "waiting" # "completed"
    BY Values
  <1>4. job[g][n] \notin TerminalJob /\ FailedBelow(g, n)
    BY <1>1, Values DEF FailuresComeFirst
  <1>5. UNCHANGED <<obj, delivered>> /\ \A r \in sched'.rows : r \in sched.rows
    BY <1>1
  <1>6. /\ job' \in [Gen -> [Attempt -> JobStates]]
        /\ \A h \in Gen, m \in Attempt :
              /\ job[h][m] # "absent" => job'[h][m] # "absent"
              /\ job[h][m] \in TerminalJob => job'[h][m] = job[h][m]
        /\ FailuresComeFirst' /\ OneDelivery' /\ CompletedIsDelivered'
        /\ QueuedMeansSettled' /\ DoneMeansDelivered'
    BY <1>1, <1>3, <1>4, <1>5, JobChanges
  <1>7. RunIsOrdered'
    BY <1>1, <1>6, RunKept
  <1>8. TypeOK'
    BY <1>1, <1>2, <1>6 DEF TypeOK
  <1> QED BY <1>1, <1>2, <1>6, <1>7, <1>8 DEF SourceByPath, EditsCounted

LEMMA CrashIInv ==
  ASSUME IInv, Crash
  PROVE  IInv'
  <1> USE DEF IInv
  <1>1. /\ budget.crashes < MaxCrashes /\ sched' = NoRun /\ scan' = [s \in Scanner |-> NoScan]
        /\ budget' = [budget EXCEPT !.crashes = @ + 1]
        /\ UNCHANGED <<src, born, delivered, obj, job, rule, clock>>
    BY DEF Crash
  <1>2. /\ budget' \in [crashes : 0 .. MaxCrashes, lapses : 0 .. MaxLapses, edits : Version]
        /\ budget'.edits = budget.edits
    BY <1>1, BoundsAssumption DEF TypeOK
  <1>3. scan' \in [Scanner -> ScanType]
    BY <1>1, NoneTypes
  <1>4. RunIsOrdered'
    BY <1>1, NoneTypes DEF RunIsOrdered
  <1> QED BY <1>1, <1>2, <1>3, <1>4, NoneTypes, TablesStay DEF TypeOK, SourceByPath, EditsCounted

-----------------------------------------------------------------------------
LEMMA InitIInv ==
  ASSUME Init
  PROVE  IInv
  <1> USE DEF Init
  <1>1. rule \in RuleType /\ rule.version = 0
    BY Numbers DEF RuleType
  <1>2. /\ budget \in [crashes : 0 .. MaxCrashes, lapses : 0 .. MaxLapses, edits : Version]
        /\ budget.edits = 0
    BY BoundsAssumption, Numbers
  <1>3. TypeOK
    BY <1>1, <1>2, NoneTypes, Values, BoundsAssumption DEF TypeOK
  <1>4. \A g \in Gen, n \in Attempt : job[g][n] = "absent"
    OBVIOUS
  <1>5. \A g \in Gen : obj[g].state = "unknown"
    BY NoneTypes
  <1>6. sched.pc = "idle" /\ sched.rows = {}
    BY NoneTypes
  <1>7. SourceByPath /\ EditsCounted
    BY <1>1, <1>2 DEF SourceByPath, EditsCounted
  <1>8. FailuresComeFirst /\ OneDelivery /\ CompletedIsDelivered /\ RunIsOrdered
    BY <1>4, <1>5, <1>6 DEF FailuresComeFirst, InOrder, OneDelivery, CompletedIsDelivered, RunIsOrdered
  <1>9. QueuedMeansSettled /\ DoneMeansDelivered
    BY <1>5 DEF QueuedMeansSettled, DoneMeansDelivered
  <1> QED BY <1>3, <1>7, <1>8, <1>9 DEF IInv

LEMMA SchedulerStepIInv ==
  ASSUME IInv, SchedulerStep
  PROVE  IInv'
  <1>1. CASE \E g \in Gen : Reconcile(g)
    BY <1>1, ReconcileIInv
  <1>2. CASE SelectReady
    BY <1>2, SelectReadyIInv
  <1>3. CASE \E r \in sched.rows : StartRow(r) \/ SkipRow(r)
    BY <1>3, StartRowIInv, SkipRowIInv
  <1>4. CASE Copy \/ Commit \/ DeleteSource \/ Record \/ ScanIfDue
    BY <1>4, CopyIInv, CommitIInv, DeleteSourceIInv, RecordIInv, ScanIfDueIInv
  <1>5. CASE Complete
    <2>1. sched.pc = "finish" /\ Settle("completed") /\ "completed" \in TerminalJob
      BY <1>5, Values DEF Complete
    <2> QED BY <2>1, SettleIInv
  <1>6. CASE Fail
    <2>1. /\ sched.pc \in {"copy", "commit", "delete"} /\ Settle("failed")
          /\ "failed" \in TerminalJob /\ "failed" # "completed"
      BY <1>6, Values DEF Fail
    <2> QED BY <2>1, SettleIInv
  <1> QED BY <1>1, <1>2, <1>3, <1>4, <1>5, <1>6 DEF SchedulerStep

LEMMA NextIInv ==
  ASSUME IInv, [Next]_vars
  PROVE  IInv'
  <1>1. CASE Environment
    BY <1>1, SourceIInv, ScanDueIInv, RipenIInv DEF Environment
  <1>2. CASE RunStart \/ SchedulerStep
    BY <1>2, RunStartIInv, SchedulerStepIInv
  <1>3. CASE \E s \in Scanner : ScanStep(s)
    BY <1>3, ScanListIInv, ScanFailIInv, ScanReadIInv, ScanPersistIInv, ScanLinkIInv DEF ScanStep
  <1>4. CASE \E m \in Manual : ScanNow(m)
    BY <1>4, ScanNowIInv
  <1>5. CASE \E on \in BOOLEAN : Edit(on) \/ SetEnabled(on)
    BY <1>5, EditIInv, SetEnabledIInv
  <1>6. CASE \E g \in Gen, n \in Attempt : Recover(g, n) \/ Lapse(g, n)
    BY <1>6, RequeueIInv
  <1>7. CASE Crash
    BY <1>7, CrashIInv
  <1>8. CASE UNCHANGED vars
    BY <1>8, RunStays DEF vars, IInv, TypeOK, SourceByPath, EditsCounted
  <1> QED BY <1>1, <1>2, <1>3, <1>4, <1>5, <1>6, <1>7, <1>8 DEF Next

-----------------------------------------------------------------------------
(* The theorems.                                                           *)

\* Through every interleaving of the scheduler, the callers of "Scan now", the
\* edits of the rule and the sweep of leases, through crashes and lapses: no
\* object is beyond the attempts of its rule, no generation is transferred by
\* two jobs, and where the executor is says what it has done
\* (transfer-rules.mjs, local-repository-transfer.mjs).
THEOREM TransfersAreSafe == Spec => []IInv
  <1>1. Init => IInv
    BY InitIInv
  <1>2. IInv /\ [Next]_vars => IInv'
    BY NextIInv
  <1> QED BY <1>1, <1>2, PTL DEF Spec

\* What is reported done was committed at a destination, with its path and size.
COROLLARY DoneFilesAreDelivered == Spec => []DoneMeansDelivered
  <1>1. IInv => DoneMeansDelivered
    BY DEF IInv
  <1> QED BY <1>1, TransfersAreSafe, PTL

\* What is queued has a job that is over, so the next run settles it.
COROLLARY QueuedFilesAreSettled == Spec => []QueuedMeansSettled
  <1>1. IInv => QueuedMeansSettled
    BY DEF IInv
  <1> QED BY <1>1, TransfersAreSafe, PTL

\* A generation that one attempt delivered is in no other open or completed job.
COROLLARY FilesAreDeliveredOnce == Spec => []OneDelivery
  <1>1. IInv => OneDelivery
    BY DEF IInv
  <1> QED BY <1>1, TransfersAreSafe, PTL

\* Only a structural edit takes an object out of a settled state.
THEOREM SettledForGood == Spec => SettledStaysSettled
  <1> DEFINE Kept == \A g \in Gen :
               obj[g].state \in Settled /\ obj'[g].state # obj[g].state =>
                   rule'.version # rule.version
  <1>1. ASSUME IInv, Next
        PROVE  Kept
    <2> SUFFICES ASSUME NEW g \in Gen, obj[g].state \in Settled, obj'[g].state # obj[g].state
                 PROVE  rule'.version # rule.version
      OBVIOUS
    <2>1. obj[g].state \notin Waiting /\ obj[g].state \notin {"queued", "unknown"}
      BY Values DEF Settled
    <2>2. TypeOK
      BY <1>1 DEF IInv
    <2>3. CASE obj' = obj
      BY <2>3
    <2>4. ASSUME NEW h \in Gen, Reconcile(h)
          PROVE  FALSE
      <3>1. h # g
        BY <2>1, <2>4 DEF Reconcile, Reconcilable
      <3> QED BY <2>2, <2>4, <3>1 DEF Reconcile, TypeOK
    <2>5. ASSUME NEW h \in Gen, Ripen(h)
          PROVE  FALSE
      <3>1. h # g
        BY <2>1, <2>5 DEF Ripen
      <3> QED BY <2>2, <2>5, <3>1 DEF Ripen, TypeOK
    <2>6. ~Record
      <3> SUFFICES ASSUME Record PROVE FALSE
        OBVIOUS
      <3>1. sched.cur.gen # g
        BY <2>1, <2>2 DEF Record, Recordable
      <3> QED BY <2>2, <3>1 DEF Record, TypeOK
    <2>7. ASSUME NEW s \in Scanner, ScanPersist(s)
          PROVE  FALSE
      BY <2>1, <2>2, <2>7, ObjectFields DEF ScanPersist, Upserted, ObjectType
    <2>8. ASSUME NEW on \in BOOLEAN, Edit(on)
          PROVE  rule'.version # rule.version
      <3>1. rule.version \in Nat
        BY <2>2, Numbers DEF TypeOK, RuleType
      <3>2. rule'.version = rule.version + 1
        BY <2>2, <2>8 DEF Edit, TypeOK, RuleType
      <3> QED BY <3>1, <3>2
    <2>9. CASE Environment
      BY <2>5, <2>9 DEF Environment, SourceWrite, SourceRemove, ScanDue
    <2>10. CASE RunStart \/ Crash \/ \E m \in Manual : ScanNow(m)
      BY <2>10 DEF RunStart, Crash, ScanNow
    <2>11. CASE SchedulerStep
      BY <2>4, <2>6, <2>11 DEF SchedulerStep, SelectReady, StartRow, SkipRow, Copy, Commit,
         DeleteSource, Complete, Fail, Settle, ScanIfDue
    <2>12. CASE \E s \in Scanner : ScanStep(s)
      BY <2>7, <2>12 DEF ScanStep, ScanList, ScanFail, ScanRead, ScanLink
    <2>13. CASE \E on \in BOOLEAN : Edit(on) \/ SetEnabled(on)
      BY <2>8, <2>13 DEF SetEnabled
    <2>14. CASE \E h \in Gen, n \in Attempt : Recover(h, n) \/ Lapse(h, n)
      BY <2>14 DEF Recover, Lapse
    <2> QED BY <1>1, <2>9, <2>10, <2>11, <2>12, <2>13, <2>14 DEF Next
  <1>2. IInv /\ [Next]_vars => [Kept]_vars
    BY <1>1
  <1> QED BY <1>2, TransfersAreSafe, PTL DEF Spec, SettledStaysSettled
=============================================================================
