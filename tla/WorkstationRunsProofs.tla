------------------------ MODULE WorkstationRunsProofs ------------------------
(***************************************************************************)
(* What the runs of a workstation guarantee for any number of runs, slots, *)
(* edits of the policy, faults and requests under way.                     *)
(*                                                                         *)
(* A handler's turn is a sequence of tables, one after each statement, and *)
(* a crash leaves one of them: so what is proved of a turn is proved of    *)
(* each of its tables (Good), and of the last one in particular.           *)
(***************************************************************************)
EXTENDS WorkstationRuns, FiniteSetTheorems, SequenceTheorems, TLAPS

-----------------------------------------------------------------------------
(* Sequences of tables.                                                    *)

LEMMA Final2 == ASSUME NEW a, NEW b PROVE Final(<<a, b>>) = b
  BY DEF Final

LEMMA Final3 == ASSUME NEW a, NEW b, NEW c PROVE Final(<<a, b, c>>) = c
  BY DEF Final

LEMMA Final4 == ASSUME NEW a, NEW b, NEW c, NEW d PROVE Final(<<a, b, c, d>>) = d
  BY DEF Final

LEMMA Append2 == ASSUME NEW a, NEW b, NEW c PROVE Append(<<a, b>>, c) = <<a, b, c>>
  <1> DEFINE S == {a, b, c}
  <1>1. <<a, b>> \in Seq(S) /\ <<a, b, c>> \in Seq(S) /\ c \in S
    OBVIOUS
  <1> HIDE DEF S
  <1>2. /\ Append(<<a, b>>, c) \in Seq(S) /\ Len(Append(<<a, b>>, c)) = 3
        /\ Append(<<a, b>>, c)[1] = a /\ Append(<<a, b>>, c)[2] = b
        /\ Append(<<a, b>>, c)[3] = c
    BY <1>1, AppendProperties
  <1>3. \A i \in 1 .. Len(Append(<<a, b>>, c)) : Append(<<a, b>>, c)[i] = <<a, b, c>>[i]
    BY <1>2
  <1> QED BY <1>1, <1>2, <1>3, SeqEqual

LEMMA Concat2 ==
  ASSUME NEW a, NEW b, NEW c, NEW d
  PROVE  <<a, b>> \o <<c, d>> = <<a, b, c, d>>
  <1> DEFINE S == {a, b, c, d}
             s == <<a, b>> \o <<c, d>>
  <1>1. <<a, b>> \in Seq(S) /\ <<c, d>> \in Seq(S) /\ <<a, b, c, d>> \in Seq(S)
    OBVIOUS
  <1> HIDE DEF S
  <1>2. /\ s \in Seq(S) /\ Len(s) = 4
        /\ s[1] = a /\ s[2] = b /\ s[3] = c /\ s[4] = d
    BY <1>1, ConcatProperties
  <1>3. \A i \in 1 .. Len(s) : s[i] = <<a, b, c, d>>[i]
    BY <1>2
  <1> HIDE DEF s
  <1>4. s = <<a, b, c, d>>
    BY <1>1, <1>2, <1>3, SeqEqual
  <1> QED BY <1>4 DEF s

LEMMA Dies2 ==
  ASSUME NEW a, NEW b, Dies(<<a, b>>)
  PROVE  db' = a
  BY DEF Dies

LEMMA Dies3 ==
  ASSUME NEW a, NEW b, NEW c, Dies(<<a, b, c>>)
  PROVE  db' = a \/ db' = b
  BY DEF Dies

LEMMA Dies4 ==
  ASSUME NEW a, NEW b, NEW c, NEW d, Dies(<<a, b, c, d>>)
  PROVE  db' = a \/ db' = b \/ db' = c
  BY DEF Dies

-----------------------------------------------------------------------------
(* Facts about the values.                                                 *)

LEMMA Values ==
  /\ \A s \in {"absent"} \cup Active \cup Ended : s \in State
  /\ Active = {"queued", "leased", "running"} /\ Leased = {"leased", "running"}
  /\ Ended = {"completed", "partial", "failed"}
  /\ "backup" \in Op /\ "source-scan" \in Op /\ "restore" \in Op /\ Operations \subseteq Op
  /\ \A p \in {"idle", "polling", "working", "reporting", "reported",
               "uploading", "uploaded", "ending"} : p \in AgentPc
  /\ \A t \in {"poll", "status", "progress", "upload", "finish"} : t \in MessageType
  /\ "none" \in Outcome /\ Ended \subseteq Outcome
  /\ UnderLease = {"progress", "upload", "finish"}
  /\ None \in MayRun /\ Run \subseteq MayRun /\ MayRun \subseteq Run \cup {None} /\ None \notin Run
  BY RunAssumption
  DEF State, Active, Leased, Ended, Op, AgentPc, MessageType, Outcome, UnderLease, MayRun

LEMMA RowFields ==
  ASSUME NEW row \in RowType
  PROVE  /\ row.state \in State /\ row.op \in Op /\ row.key \in Nat /\ row.token \in Nat
         /\ row.lapsed \in BOOLEAN
  BY DEF RowType

LEMMA AbsentType == Absent \in RowType /\ Absent.state = "absent" /\ Absent.token = 0 /\ Absent.key = 0
  BY Values DEF Absent, RowType

LEMMA DbFields ==
  ASSUME NEW d \in DbType
  PROVE  /\ d.run \in [Run -> RowType] /\ d.shown \in MayRun /\ d.scan \in MayRun
         /\ d.policy \in PolicyType
  BY DEF DbType

\* A row is replaced.
LEMMA RowUpdate ==
  ASSUME NEW d \in DbType, NEW r \in Run, NEW row \in RowType
  PROVE  /\ [d EXCEPT !.run[r] = row] \in DbType
         /\ [d EXCEPT !.run[r] = row].run[r] = row
         /\ \A s \in Run \ {r} : [d EXCEPT !.run[r] = row].run[s] = d.run[s]
         /\ [d EXCEPT !.run[r] = row].shown = d.shown
         /\ [d EXCEPT !.run[r] = row].scan = d.scan
         /\ [d EXCEPT !.run[r] = row].policy = d.policy
  BY DEF DbType

LEMMA RenewedRow ==
  ASSUME NEW d \in DbType, NEW r \in Run
  PROVE  [d EXCEPT !.run[r].state = "running", !.run[r].lapsed = FALSE]
         = [d EXCEPT !.run[r] = [d.run[r] EXCEPT !.state = "running", !.lapsed = FALSE]]
  BY DEF DbType

LEMMA LeasedRow ==
  ASSUME NEW d \in DbType, NEW r \in Run, NEW n \in Nat
  PROVE  [d EXCEPT !.run[r].state = "leased", !.run[r].token = n]
         = [d EXCEPT !.run[r] = [d.run[r] EXCEPT !.state = "leased", !.token = n]]
  BY DEF DbType

LEMMA LapsedRow ==
  ASSUME NEW d \in DbType, NEW r \in Run
  PROVE  [d EXCEPT !.run[r].lapsed = TRUE]
         = [d EXCEPT !.run[r] = [d.run[r] EXCEPT !.lapsed = TRUE]]
  BY DEF DbType

LEMMA ShownUpdate ==
  ASSUME NEW d \in DbType, NEW s \in MayRun
  PROVE  /\ [d EXCEPT !.shown = s] \in DbType
         /\ [d EXCEPT !.shown = s].run = d.run /\ [d EXCEPT !.shown = s].scan = d.scan
         /\ [d EXCEPT !.shown = s].policy = d.policy
  BY DEF DbType

LEMMA PolicyUpdate ==
  ASSUME NEW d \in DbType, NEW p \in PolicyType
  PROVE  /\ [d EXCEPT !.policy = p] \in DbType
         /\ [d EXCEPT !.policy = p].run = d.run /\ [d EXCEPT !.policy = p].scan = d.scan
         /\ [d EXCEPT !.policy = p].policy = p
  BY DEF DbType

LEMMA AdvanceUpdate ==
  ASSUME NEW d \in DbType
  PROVE  /\ Advance(d) \in DbType /\ Advance(d).run = d.run /\ Advance(d).scan = d.scan
  <1>1. d.policy \in PolicyType
    BY DEF DbType
  <1>2. [d.policy EXCEPT !.slot = @ + 1, !.due = FALSE] \in PolicyType
    <2>1. d.policy.slot + 1 \in Slot
      BY <1>1 DEF PolicyType, Slot
    <2> QED BY <1>1, <2>1 DEF PolicyType
  <1>3. Advance(d) = [d EXCEPT !.policy = [d.policy EXCEPT !.slot = @ + 1, !.due = FALSE]]
    BY DEF Advance, DbType, PolicyType
  <1> QED BY <1>2, <1>3, PolicyUpdate

-----------------------------------------------------------------------------
(* Tables that keep what the invariant says of them, and the statements    *)
(* that lead from the tables at the start of a turn to such tables.        *)

Good(d, grants) ==
  /\ d \in DbType
  /\ \A r \in Run : d.run[r].token # 0 <=> d.run[r].state \in Leased
  /\ \A r, s \in Run : d.run[r].state \in Active /\ d.run[s].state \in Active => r = s
  /\ \A r, s \in Run : d.run[r].key = d.run[s].key /\ r # s => d.run[r].key = 0
  /\ \A r \in Run :
       d.run[r].state = "absent" \/ (d.run[r].state = "queued" /\ d.run[r].op = "restore")
         => \A g \in grants : g[1] # r
  /\ \A r \in Run : d.run[r].op = "restore" =>
       \A g, h \in grants : g[1] = r /\ h[1] = r => g = h

\* A row that is neither inserted nor handed out.
Moves(old, new) ==
  /\ new.key = old.key /\ new.op = old.op
  /\ new.token # 0 <=> new.state \in Leased
  /\ new.state \in Active => old.state \in Active
  /\ new.state = "absent" => old.state = "absent"
  /\ new.state = "queued" /\ new.op = "restore" => old.state = "queued"

\* What ResultIsTheHolders says of the row of r.
ResultKept(r, old, new) ==
  /\ old.state \in Ended => new = old
  /\ old.state \notin Ended /\ new.state \in Ended =>
       \/ <<r, old.token, new.state>> \in seen.sent
       \/ old.op = "restore" /\ old.lapsed /\ new.state = "failed"

\* A slot is left behind only with its run (NoSlotSkipped).
SlotKept(d) ==
  d.policy.slot # db.policy.slot => \E r \in Run : d.run[r].key = db.policy.slot

Follows(d, grants) ==
  /\ Good(d, grants)
  /\ \A r \in Run : ResultKept(r, db.run[r], d.run[r])
  /\ SlotKept(d)

LEMMA GoodNow ==
  ASSUME IInv
  PROVE  Good(db, seen.grants) /\ Follows(db, seen.grants)
  <1>1. Good(db, seen.grants)
    BY DEF IInv, TypeOK, OneActiveRun, SlotRunsOnce, FreshRuns, RestoreNeverRetried, Good
  <1>2. \A r \in Run : ResultKept(r, db.run[r], db.run[r])
    BY DEF ResultKept
  <1> QED BY <1>1, <1>2 DEF Follows, SlotKept

LEMMA MovesGood ==
  ASSUME NEW d, NEW grants, Good(d, grants), NEW e \in DbType,
         \A r \in Run : Moves(d.run[r], e.run[r])
  PROVE  Good(e, grants)
  <1>1. \A r \in Run : e.run[r].token # 0 <=> e.run[r].state \in Leased
    BY DEF Moves
  <1>2. \A r, s \in Run : e.run[r].state \in Active /\ e.run[s].state \in Active => r = s
    BY DEF Moves, Good
  <1>3. \A r, s \in Run : e.run[r].key = e.run[s].key /\ r # s => e.run[r].key = 0
    BY DEF Moves, Good
  <1>4. \A r \in Run :
          e.run[r].state = "absent" \/ (e.run[r].state = "queued" /\ e.run[r].op = "restore")
            => \A g \in grants : g[1] # r
    BY DEF Moves, Good
  <1>5. \A r \in Run : e.run[r].op = "restore" =>
          \A g, h \in grants : g[1] = r /\ h[1] = r => g = h
    BY DEF Moves, Good
  <1> QED BY <1>1, <1>2, <1>3, <1>4, <1>5 DEF Good

\* A row that stays as it is moves.
LEMMA StaysMoves ==
  ASSUME NEW d, NEW grants, Good(d, grants), NEW r \in Run
  PROVE  Moves(d.run[r], d.run[r])
  BY DEF Moves, Good

\* Statements that do not touch the rows.
LEMMA SameRows ==
  ASSUME NEW d, NEW grants, Follows(d, grants), NEW e \in DbType, e.run = d.run, SlotKept(e)
  PROVE  Follows(e, grants)
  BY DEF Follows, Good

\* A row that waits is inserted while no other is active.
LEMMA InsertFollows ==
  ASSUME NEW d, NEW grants, Follows(d, grants), NEW r \in Run, NEW op \in Op, NEW key \in Nat,
         d.run[r].state = "absent", db.run[r].state = "absent", ~Busy(d),
         key # 0 => \A s \in Run : d.run[s].key # key,
         d.policy = db.policy
  PROVE  /\ Follows(Insert(d, r, op, key), grants)
         /\ Insert(d, r, op, key).scan = d.scan /\ Insert(d, r, op, key).policy = d.policy
         /\ Insert(d, r, op, key).run[r].key = key
  <1> DEFINE row == [Absent EXCEPT !.state = "queued", !.op = op, !.key = key]
             e == Insert(d, r, op, key)
  <1>1. row \in RowType /\ row.state = "queued" /\ row.op = op /\ row.key = key /\ row.token = 0
    BY Values DEF Absent, RowType
  <1>2. d \in DbType /\ Good(d, grants)
    BY DEF Follows, Good
  <1>3. e = [d EXCEPT !.run[r] = row]
    BY DEF Insert
  <1> HIDE DEF row, e
  <1>4. /\ e \in DbType /\ e.run[r] = row /\ \A s \in Run \ {r} : e.run[s] = d.run[s]
        /\ e.scan = d.scan /\ e.policy = d.policy
    BY <1>1, <1>2, <1>3, RowUpdate
  <1>5. Good(e, grants)
    <2>1. \A s \in Run : e.run[s].token # 0 <=> e.run[s].state \in Leased
      BY <1>1, <1>2, <1>4, Values DEF Good
    <2>2. \A s \in Run \ {r} : e.run[s].state \notin Active
      BY <1>4 DEF Busy
    <2>3. \A s, t \in Run : e.run[s].key = e.run[t].key /\ s # t => e.run[s].key = 0
      BY <1>1, <1>2, <1>4 DEF Good
    <2>4. \A s \in Run :
            e.run[s].state = "absent" \/ (e.run[s].state = "queued" /\ e.run[s].op = "restore")
              => \A g \in grants : g[1] # s
      BY <1>1, <1>2, <1>4 DEF Good
    <2>5. \A s \in Run : e.run[s].op = "restore" =>
            \A g, h \in grants : g[1] = s /\ h[1] = s => g = h
      BY <1>2, <1>4 DEF Good
    <2> QED BY <1>4, <2>1, <2>2, <2>3, <2>4, <2>5 DEF Good
  <1>6. \A s \in Run : ResultKept(s, db.run[s], e.run[s])
    BY <1>1, <1>4, Values DEF Follows, ResultKept
  <1>7. SlotKept(e)
    BY <1>4 DEF SlotKept
  <1> QED BY <1>1, <1>4, <1>5, <1>6, <1>7 DEF Follows, e

-----------------------------------------------------------------------------
(* recoverExpired.                                                         *)

LEMMA ReleaseRow ==
  ASSUME NEW row \in RowType, NEW s \in State
  PROVE  /\ Release(row, s) \in RowType
         /\ Release(row, s).state = s /\ Release(row, s).token = 0 /\ Release(row, s).key = row.key
         /\ Release(row, s).op = row.op
  BY DEF Release, RowType

LEMMA Recovery ==
  ASSUME IInv
  PROVE  \E a, b \in DbType :
           /\ RecoverSteps(db) = <<a, b>> /\ Final(RecoverSteps(db)) = b
           /\ Follows(a, seen.grants) /\ Follows(b, seen.grants)
           /\ a.run = b.run /\ a.scan = db.scan /\ b.scan = db.scan
           /\ a.policy = db.policy /\ b.policy = db.policy
           /\ \A r \in Run : /\ Moves(db.run[r], b.run[r])
                             /\ b.run[r] = db.run[r] \/ (Lapsed(db, r) /\ b.run[r].state # "absent")
  <1> DEFINE lapsed == {r \in Run : Lapsed(db, r)}
             rows == [r \in Run |-> IF r \in lapsed
                                    THEN Release(db.run[r], RecoveredTo(db.run[r])) ELSE db.run[r]]
             a == [db EXCEPT !.run = rows]
             b == [a EXCEPT !.shown = IF @ \in lapsed THEN None ELSE @]
  <1>1. db \in DbType /\ Good(db, seen.grants)
    BY GoodNow DEF Good
  <1>2. \A r \in Run : db.run[r] \in RowType
    BY <1>1 DEF DbType
  <1>3. \A r \in Run : RecoveredTo(db.run[r]) \in {"failed", "queued"}
                       /\ (db.run[r].op = "restore" <=> RecoveredTo(db.run[r]) = "failed")
    BY DEF RecoveredTo
  <1>4. rows \in [Run -> RowType]
    BY <1>2, <1>3, ReleaseRow, Values
  <1>5. RecoverSteps(db) = <<a, b>>
    BY DEF RecoverSteps
  <1>6. ASSUME NEW r \in Run
        PROVE  /\ Moves(db.run[r], rows[r]) /\ ResultKept(r, db.run[r], rows[r])
               /\ rows[r] = db.run[r] \/ (Lapsed(db, r) /\ rows[r].state # "absent")
    <2>1. CASE r \notin lapsed
      <3>1. rows[r] = db.run[r]
        BY <2>1
      <3>2. Moves(db.run[r], db.run[r])
        BY <1>1, StaysMoves
      <3> QED BY <3>1, <3>2 DEF ResultKept
    <2>2. CASE r \in lapsed
      <3>1. db.run[r].state \in Leased /\ db.run[r].lapsed
        BY <2>2 DEF Lapsed
      <3>2. /\ rows[r].state = RecoveredTo(db.run[r]) /\ rows[r].token = 0
            /\ rows[r].key = db.run[r].key /\ rows[r].op = db.run[r].op
        <4>1. RecoveredTo(db.run[r]) \in State
          BY <1>3, Values
        <4> QED BY <1>2, <2>2, <4>1, ReleaseRow
      <3> HIDE DEF rows
      <3>3. Moves(db.run[r], rows[r])
        BY <1>3, <3>1, <3>2, Values DEF Moves
      <3>4. ResultKept(r, db.run[r], rows[r])
        BY <1>3, <3>1, <3>2, Values DEF ResultKept
      <3> QED BY <1>3, <2>2, <3>2, <3>3, <3>4
    <2> QED BY <2>1, <2>2
  <1> HIDE DEF rows
  <1>7. /\ a \in DbType /\ a.run = rows /\ a.scan = db.scan /\ a.policy = db.policy
        /\ a.shown = db.shown
    BY <1>1, <1>4 DEF DbType
  <1>8. b \in DbType /\ b.run = rows /\ b.scan = db.scan /\ b.policy = db.policy
    <2>1. (IF a.shown \in lapsed THEN None ELSE a.shown) \in MayRun
      BY <1>7, Values DEF DbType
    <2> HIDE DEF a
    <2> QED BY <1>7, <2>1, ShownUpdate
  <1> HIDE DEF a, b
  <1>9. Good(a, seen.grants) /\ Good(b, seen.grants)
    BY <1>1, <1>6, <1>7, <1>8, MovesGood
  <1>10. Follows(a, seen.grants) /\ Follows(b, seen.grants)
    BY <1>6, <1>7, <1>8, <1>9 DEF Follows, SlotKept
  <1>11. Final(RecoverSteps(db)) = b
    BY <1>5, Final2
  <1> QED BY <1>5, <1>6, <1>7, <1>8, <1>10, <1>11

-----------------------------------------------------------------------------
(* The parts of the invariant beside the tables, and the steps of a turn.  *)

Beside ==
  /\ artifacts \subseteq Run
  /\ server \in ServerType
  /\ agent \in AgentType /\ (agent.pc \in {"idle", "polling"} <=> agent.run = None)
  /\ net \in Messages
  /\ \A m \in net \cup server.finishing : m.type \in UnderLease => m.run \in Run
  /\ \A m \in server.finishing : m.type = "finish"
  /\ seen \in SeenType /\ IsFiniteSet(seen.grants)
  /\ used \in [Events -> Nat] /\ \A e \in Events : used[e] <= Budget[e]

LEMMA Parts ==
  ASSUME Good(db, seen.grants), Beside, ResultsAsSent, ShownScanIsStored
  PROVE  IInv
  BY DEF Good, Beside, IInv, TypeOK, OneActiveRun, SlotRunsOnce, FreshRuns, RestoreNeverRetried

LEMMA PartsOf ==
  ASSUME IInv
  PROVE  Good(db, seen.grants) /\ Beside /\ ResultsAsSent /\ ShownScanIsStored
  BY GoodNow DEF IInv, TypeOK, Beside

LEMMA NextParts ==
  ASSUME Good(db', seen'.grants), Beside', ResultsAsSent', ShownScanIsStored'
  PROVE  IInv'
  <1>1. Good(db, seen.grants)'
    BY DEF Good
  <1>2. (Good(db, seen.grants) /\ Beside /\ ResultsAsSent /\ ShownScanIsStored)' => IInv'
    BY Parts, PTL
  <1> QED BY <1>1, <1>2

\* What a step keeps: the results of the runs and, but for an edit, the slot.
Kept ==
  /\ \A r \in Run : ResultKept(r, db.run[r], db'.run[r])
  /\ used'["edits"] = used["edits"] => SlotKept(db')

LEMMA UsedKept ==
  ASSUME TypeOK, used' = used \/ \E e \in Events : Spend(e)
  PROVE  used' \in [Events -> Nat] /\ \A e \in Events : used'[e] <= Budget[e]
  <1>1. CASE used' = used
    BY <1>1 DEF TypeOK
  <1>2. CASE \E e \in Events : Spend(e)
    <2>1. PICK e \in Events : used[e] < Budget[e] /\ used' = [used EXCEPT ![e] = @ + 1]
      BY <1>2 DEF Spend
    <2>2. used[e] \in Nat /\ Budget[e] \in Nat
      BY RunAssumption DEF TypeOK
    <2> QED BY <2>1, <2>2 DEF TypeOK
  <1> QED BY <1>1, <1>2

\* A step of the server that answers nobody.
LEMMA TablesStep ==
  ASSUME IInv, Follows(db', seen.grants), db'.scan = db.scan,
         UNCHANGED <<artifacts, agent, seen>>,
         \/ UNCHANGED <<net, server>>
         \/ net' \subseteq net /\ server' = server
         \/ net' = {} /\ server' = NoHandlers,
         used' = used \/ \E e \in Events : Spend(e)
  PROVE  IInv' /\ Kept
  <1>1. Beside /\ ResultsAsSent /\ ShownScanIsStored /\ TypeOK
    BY PartsOf DEF IInv
  <1>2. server' \in ServerType /\ server'.finishing \subseteq server.finishing
    BY <1>1 DEF Beside, NoHandlers, ServerType, Messages, Leases
  <1>3. net' \in Messages /\ net' \subseteq net
    BY <1>1 DEF Beside, Messages
  <1>4. used' \in [Events -> Nat] /\ \A e \in Events : used'[e] <= Budget[e]
    BY <1>1, UsedKept
  <1>5. Beside'
    BY <1>1, <1>2, <1>3, <1>4 DEF Beside
  <1>6. ResultsAsSent' /\ ShownScanIsStored'
    BY <1>1, <1>2, <1>3 DEF ResultsAsSent, ShownScanIsStored
  <1>7. Good(db', seen'.grants)
    BY DEF Follows
  <1>8. Kept
    BY DEF Follows, Kept
  <1> QED BY <1>5, <1>6, <1>7, <1>8, NextParts

LEMMA DiesIInv ==
  ASSUME IInv, NEW steps, Dies(steps), Follows(db', seen.grants), db'.scan = db.scan
  PROVE  IInv' /\ Kept
  <1>1. /\ net' = {} /\ server' = NoHandlers /\ UNCHANGED <<artifacts, agent, seen>>
        /\ "faults" \in Events /\ Spend("faults")
    BY DEF Dies, Events
  <1> QED BY <1>1, TablesStep

LEMMA TurnIInv ==
  ASSUME IInv, NEW steps, Turn(steps), Follows(db', seen.grants), db'.scan = db.scan
  PROVE  IInv' /\ Kept
  <1>1. CASE Dies(steps)
    BY <1>1, DiesIInv
  <1>2. CASE db' = Final(steps) /\ UNCHANGED <<rest, used>>
    BY <1>2, TablesStep DEF rest
  <1> QED BY <1>1, <1>2 DEF Turn

-----------------------------------------------------------------------------
(* Requests of the user, the scheduler, time and the network.              *)

LEMMA AskIInv ==
  ASSUME IInv, NEW op \in Operations, Ask(op)
  PROVE  IInv' /\ Kept
  <1>1. /\ Spend("manual") /\ "manual" \in Events /\ ~Busy(db) /\ UNCHANGED rest
    BY DEF Ask, Events
  <1>2. PICK r \in Run : db.run[r].state = "absent" /\ db' = Insert(db, r, op, 0)
    BY DEF Ask
  <1>3. Follows(db', seen.grants) /\ db'.scan = db.scan
    BY <1>1, <1>2, GoodNow, InsertFollows, Values
  <1> QED BY <1>1, <1>3, TablesStep DEF rest

LEMMA PutPolicyIInv ==
  ASSUME IInv, NEW on \in BOOLEAN, PutPolicy(on)
  PROVE  IInv' /\ Kept
  <1> DEFINE p == [slot |-> IF db.policy.due THEN db.policy.slot + 1 ELSE db.policy.slot,
                   due |-> FALSE, enabled |-> on, bound |-> TRUE]
  <1>1. Spend("edits") /\ "edits" \in Events /\ db' = [db EXCEPT !.policy = p] /\ UNCHANGED rest
    BY DEF PutPolicy, Events
  <1>2. db \in DbType /\ db.policy.slot \in Slot /\ p \in PolicyType
    <2>1. db \in DbType /\ db.policy.slot \in Slot
      BY DEF IInv, TypeOK, DbType, PolicyType
    <2>2. p.slot \in Slot
      BY <2>1 DEF Slot
    <2> QED BY <2>1, <2>2 DEF PolicyType
  <1> HIDE DEF p
  <1>3. db' \in DbType /\ db'.run = db.run /\ db'.scan = db.scan
    BY <1>1, <1>2, PolicyUpdate
  <1>4. Beside /\ ResultsAsSent /\ ShownScanIsStored /\ TypeOK /\ Good(db, seen.grants)
    BY PartsOf DEF IInv
  <1>5. Good(db', seen'.grants)
    BY <1>1, <1>3, <1>4 DEF Good, rest
  <1>6. Beside'
    BY <1>1, <1>4, UsedKept DEF Beside, rest
  <1>7. ResultsAsSent' /\ ShownScanIsStored'
    BY <1>1, <1>3, <1>4 DEF ResultsAsSent, ShownScanIsStored, rest
  <1>8. Kept
    <2>1. used'["edits"] # used["edits"]
      <3>1. used["edits"] \in Nat
        BY <1>1, <1>4 DEF TypeOK
      <3> QED BY <1>1, <1>4, <3>1 DEF Spend, TypeOK
    <2> QED BY <1>3, <2>1 DEF Kept, ResultKept
  <1> QED BY <1>5, <1>6, <1>7, <1>8, NextParts

LEMMA SlotDueIInv ==
  ASSUME IInv, SlotDue
  PROVE  IInv' /\ Kept
  <1> DEFINE p == [db.policy EXCEPT !.due = TRUE]
  <1>1. db \in DbType /\ db.policy \in PolicyType
    BY DEF IInv, TypeOK, DbType
  <1>2. /\ Spend("slots") /\ "slots" \in Events /\ UNCHANGED rest
        /\ db' = [db EXCEPT !.policy = p]
    BY <1>1 DEF SlotDue, Events, DbType
  <1>3. p \in PolicyType /\ p.slot = db.policy.slot
    BY <1>1 DEF PolicyType
  <1> HIDE DEF p
  <1>4. db' \in DbType /\ db'.run = db.run /\ db'.scan = db.scan /\ db'.policy = p
    BY <1>1, <1>2, <1>3, PolicyUpdate
  <1>5. Follows(db', seen.grants)
    BY <1>3, <1>4, GoodNow, SameRows DEF SlotKept
  <1> QED BY <1>2, <1>4, <1>5, TablesStep DEF rest

LEMMA SchedulerIInv ==
  ASSUME IInv, Scheduler
  PROVE  IInv' /\ Kept
  <1>1. PICK a, b \in DbType :
          /\ RecoverSteps(db) = <<a, b>> /\ Final(RecoverSteps(db)) = b
          /\ Follows(a, seen.grants) /\ Follows(b, seen.grants)
          /\ a.run = b.run /\ a.scan = db.scan /\ b.scan = db.scan
          /\ a.policy = db.policy /\ b.policy = db.policy
          /\ \A r \in Run : /\ Moves(db.run[r], b.run[r])
                            /\ b.run[r] = db.run[r] \/ (Lapsed(db, r) /\ b.run[r].state # "absent")
    BY Recovery
  <1>2. CASE Due(b) /\ PassesOver(b) /\ Turn(Append(<<a, b>>, Advance(b)))
    <2>1. /\ Advance(b) \in DbType /\ Advance(b).run = b.run /\ Advance(b).scan = db.scan
      BY <1>1, AdvanceUpdate
    <2>2. \E r \in Run : b.run[r].key = db.policy.slot
      BY <1>1, <1>2 DEF PassesOver, KeyFree
    <2>3. Follows(Advance(b), seen.grants)
      BY <1>1, <2>1, <2>2, SameRows DEF SlotKept
    <2>4. Turn(<<a, b, Advance(b)>>)
      BY <1>2, Append2
    <2>5. db' \in {a, b, Advance(b)}
      BY <2>4, Dies3, Final3 DEF Turn
    <2>6. Follows(db', seen.grants) /\ db'.scan = db.scan
      BY <1>1, <2>1, <2>3, <2>5
    <2> QED BY <2>4, <2>6, TurnIInv
  <1>3. CASE /\ Due(b) /\ ~PassesOver(b) /\ KeyFree(b) /\ ~Busy(b)
             /\ \E r \in Run :
                  /\ b.run[r].state = "absent"
                  /\ Turn(<<a, b>> \o <<Insert(b, r, "backup", b.policy.slot),
                                        Advance(Insert(b, r, "backup", b.policy.slot))>>)
    <2>1. PICK r \in Run :
            /\ b.run[r].state = "absent"
            /\ Turn(<<a, b>> \o <<Insert(b, r, "backup", b.policy.slot),
                                  Advance(Insert(b, r, "backup", b.policy.slot))>>)
      BY <1>3
    <2> DEFINE q == Insert(b, r, "backup", b.policy.slot)
    <2>2. b.policy.slot \in Nat
      BY DEF DbType, PolicyType, Slot
    <2>3. db.run[r].state = "absent"
      BY <1>1, <2>1
    <2>4. /\ Follows(q, seen.grants) /\ q.scan = b.scan /\ q.policy = b.policy
          /\ q.run[r].key = b.policy.slot
      <3>1. \A s \in Run : b.run[s].key # b.policy.slot
        BY <1>3 DEF KeyFree
      <3>2. "backup" \in Op
        BY Values
      <3> HIDE DEF q
      <3> QED BY <1>1, <1>3, <2>1, <2>2, <2>3, <3>1, <3>2, InsertFollows DEF q
    <2>5. Turn(<<a, b, q, Advance(q)>>)
      BY <2>1, Concat2
    <2> HIDE DEF q
    <2>6. q \in DbType
      BY <2>4 DEF Follows, Good
    <2>7. /\ Advance(q) \in DbType /\ Advance(q).run = q.run /\ Advance(q).scan = q.scan
      BY <2>6, AdvanceUpdate
    <2>8. Follows(Advance(q), seen.grants)
      BY <1>1, <2>4, <2>7, SameRows DEF SlotKept
    <2>9. db' \in {a, b, q, Advance(q)}
      BY <2>5, Dies4, Final4 DEF Turn
    <2>10. Follows(db', seen.grants) /\ db'.scan = db.scan
      BY <1>1, <2>4, <2>7, <2>8, <2>9
    <2> QED BY <2>5, <2>10, TurnIInv
  <1>4. CASE Turn(<<a, b>>)
    <2>1. db' \in {a, b}
      BY <1>4, Dies2, Final2 DEF Turn
    <2> QED BY <1>1, <1>4, <2>1, TurnIInv
  <1> QED BY <1>1, <1>2, <1>3, <1>4 DEF Scheduler

LEMMA LeaseLapsesIInv ==
  ASSUME IInv, NEW r \in Run, LeaseLapses(r)
  PROVE  IInv' /\ Kept
  <1> DEFINE row == [db.run[r] EXCEPT !.lapsed = TRUE]
  <1>1. Good(db, seen.grants) /\ db \in DbType /\ db.run[r] \in RowType
    BY GoodNow DEF Good, DbType
  <1>2. /\ db.run[r].state \in Leased /\ db' = [db EXCEPT !.run[r] = row] /\ UNCHANGED rest
    BY <1>1, LapsedRow DEF LeaseLapses
  <1>3. used' = used \/ \E e \in Events : Spend(e)
    BY DEF LeaseLapses, Events
  <1>4. /\ row \in RowType /\ row.state = db.run[r].state /\ row.token = db.run[r].token
        /\ row.key = db.run[r].key /\ row.op = db.run[r].op
    BY <1>1 DEF RowType
  <1> HIDE DEF row
  <1>5. /\ db' \in DbType /\ db'.run[r] = row /\ \A s \in Run \ {r} : db'.run[s] = db.run[s]
        /\ db'.scan = db.scan /\ db'.policy = db.policy
    BY <1>1, <1>2, <1>4, RowUpdate
  <1>6. \A s \in Run : Moves(db.run[s], db'.run[s])
    BY <1>1, <1>4, <1>5, StaysMoves DEF Moves, Good
  <1>7. \A s \in Run : ResultKept(s, db.run[s], db'.run[s])
    BY <1>2, <1>4, <1>5, Values DEF ResultKept
  <1>8. Follows(db', seen.grants)
    BY <1>1, <1>5, <1>6, <1>7, MovesGood DEF Follows, SlotKept
  <1> QED BY <1>2, <1>3, <1>5, <1>8, TablesStep DEF rest

LEMMA LoseIInv ==
  ASSUME IInv, NEW m \in net, Lose(m)
  PROVE  IInv' /\ Kept
  <1>1. /\ Spend("faults") /\ "faults" \in Events /\ net' \subseteq net
        /\ UNCHANGED <<db, artifacts, server, agent, seen>>
    BY DEF Lose, Events
  <1>2. Follows(db', seen.grants) /\ db'.scan = db.scan
    BY <1>1, GoodNow
  <1> QED BY <1>1, <1>2, TablesStep

LEMMA CrashIInv ==
  ASSUME IInv, Crash
  PROVE  IInv' /\ Kept
  <1>1. db' = db
    BY Dies2 DEF Crash
  <1>2. Follows(db', seen.grants) /\ db'.scan = db.scan
    BY <1>1, GoodNow
  <1> QED BY <1>2, DiesIInv DEF Crash

-----------------------------------------------------------------------------
(* The agent.                                                              *)

LEMMA AgentFields ==
  ASSUME TypeOK
  PROVE  /\ agent.pc \in AgentPc /\ agent.run \in MayRun /\ agent.token \in Nat
         /\ agent.fail \in BOOLEAN
         /\ agent.pc \notin {"idle", "polling"} => agent.run \in Run
  BY Values DEF TypeOK, AgentType

\* The program counter moves among those of a running agent.
LEMMA AgentPcUpdate ==
  ASSUME TypeOK, NEW p \in AgentPc, p \notin {"idle", "polling"},
         agent.pc \notin {"idle", "polling"}
  PROVE  /\ [agent EXCEPT !.pc = p] \in AgentType
         /\ [agent EXCEPT !.pc = p].pc = p /\ [agent EXCEPT !.pc = p].run = agent.run
         /\ [agent EXCEPT !.pc = p, !.fail = TRUE] \in AgentType
         /\ [agent EXCEPT !.pc = p, !.fail = TRUE].pc = p
         /\ [agent EXCEPT !.pc = p, !.fail = TRUE].run = agent.run
         /\ agent.run # None
  BY Values DEF TypeOK, AgentType

LEMMA IdleType == Idle \in AgentType /\ Idle.pc = "idle" /\ Idle.run = None
  BY Values DEF Idle, AgentType

LEMMA Requests ==
  ASSUME NEW type \in MessageType, NEW run \in MayRun, NEW token \in Nat, NEW outcome \in Outcome
  PROVE  /\ Request(type, run, token, outcome) \in Message
         /\ Request(type, run, token, outcome).type = type
         /\ Request(type, run, token, outcome).run = run
         /\ Request(type, run, token, outcome).token = token
         /\ Request(type, run, token, outcome).outcome = outcome
  BY DEF Request, Message

\* A step of the agent that sends m, or nothing.
LEMMA AgentMoves ==
  ASSUME IInv, UNCHANGED <<db, artifacts, server>>,
         agent' \in AgentType, agent'.pc \in {"idle", "polling"} <=> agent'.run = None,
         NEW m \in Message, net' = net \/ net' = net \cup {m},
         m.type \in UnderLease => m.run \in Run,
         m.type = "finish" => <<m.run, m.token, m.outcome>> \in seen'.sent,
         seen' \in SeenType, seen'.grants = seen.grants, seen.sent \subseteq seen'.sent,
         used' = used \/ \E e \in Events : Spend(e)
  PROVE  IInv' /\ Kept
  <1>1. Beside /\ ResultsAsSent /\ ShownScanIsStored /\ TypeOK /\ Good(db, seen.grants)
    BY PartsOf DEF IInv
  <1>2. net' \in Messages
    BY <1>1 DEF Beside, Messages
  <1>3. used' \in [Events -> Nat] /\ \A e \in Events : used'[e] <= Budget[e]
    BY <1>1, UsedKept
  <1>4. \A x \in net' \cup server'.finishing : x \in net \cup server.finishing \/ x = m
    OBVIOUS
  <1>5. Beside'
    BY <1>1, <1>2, <1>3, <1>4 DEF Beside
  <1>6. ResultsAsSent' /\ ShownScanIsStored'
    BY <1>1, <1>4 DEF ResultsAsSent, ShownScanIsStored
  <1>7. Kept
    BY GoodNow DEF Kept, Follows
  <1> QED BY <1>1, <1>5, <1>6, <1>7, NextParts

LEMMA PollType ==
  PollRequest \in Message /\ PollRequest.type = "poll"
  BY Requests, Values DEF PollRequest

LEMMA StatusType ==
  ASSUME NEW run \in MayRun
  PROVE  StatusOf(run) \in Message /\ StatusOf(run).type = "status"
  BY Requests, Values DEF StatusOf

\* The agent moves and sends nothing.
LEMMA AgentSilent ==
  ASSUME IInv, UNCHANGED <<db, artifacts, server, net, seen>>,
         agent' \in AgentType, agent'.pc \in {"idle", "polling"} <=> agent'.run = None,
         used' = used \/ \E e \in Events : Spend(e)
  PROVE  IInv' /\ Kept
  <1>1. PollRequest \in Message /\ PollRequest.type \notin UnderLease
    BY PollType, Values
  <1>2. seen \in SeenType
    BY DEF IInv, TypeOK
  <1> QED BY <1>1, <1>2, PollType, AgentMoves

LEMMA OwnType ==
  ASSUME TypeOK, agent.pc \notin {"idle", "polling"},
         NEW type \in MessageType, NEW outcome \in Outcome
  PROVE  /\ Own(type, outcome) \in Message
         /\ Own(type, outcome).type = type /\ Own(type, outcome).run = agent.run
         /\ Own(type, outcome).token = agent.token /\ Own(type, outcome).outcome = outcome
         /\ agent.run \in Run
  BY AgentFields, Requests DEF Own

LEMMA AgentPollIInv ==
  ASSUME IInv, AgentPoll
  PROVE  IInv' /\ Kept
  <1>1. /\ agent.run = None /\ agent' = [agent EXCEPT !.pc = "polling"]
        /\ net' = net \cup {PollRequest}
        /\ UNCHANGED <<db, artifacts, server, seen, used>>
    BY DEF AgentPoll, Send
  <1>2. agent \in AgentType /\ seen \in SeenType
    BY DEF IInv, TypeOK
  <1>3. agent' \in AgentType /\ agent'.pc = "polling" /\ agent'.run = None
    BY <1>1, <1>2, Values DEF AgentType
  <1>4. PollRequest \in Message /\ PollRequest.type \notin UnderLease
    BY PollType, Values
  <1> QED BY <1>1, <1>2, <1>3, <1>4, PollType, AgentMoves

LEMMA AgentStatusIInv ==
  ASSUME IInv, AgentStatus
  PROVE  IInv' /\ Kept
  <1>1. net' = net \cup {StatusOf(agent.run)} /\ UNCHANGED <<db, artifacts, server, agent, seen, used>>
    BY DEF AgentStatus, Send
  <1>2. /\ agent \in AgentType /\ seen \in SeenType /\ agent.run \in MayRun
        /\ (agent.pc \in {"idle", "polling"} <=> agent.run = None)
    BY AgentFields DEF IInv, TypeOK
  <1>3. /\ StatusOf(agent.run) \in Message /\ StatusOf(agent.run).type \notin UnderLease
        /\ StatusOf(agent.run).type = "status"
    BY <1>2, StatusType, Values
  <1> QED BY <1>1, <1>2, <1>3, AgentMoves

LEMMA AgentProgressIInv ==
  ASSUME IInv, AgentProgress
  PROVE  IInv' /\ Kept
  <1> DEFINE m == Own("progress", "none")
  <1>1. /\ agent.pc \notin {"idle", "polling"} /\ net' = net \cup {m}
        /\ agent' = agent \/ agent' = [agent EXCEPT !.pc = "reporting"]
        /\ UNCHANGED <<db, artifacts, server, seen, used>>
    BY DEF AgentProgress, Send
  <1>2. TypeOK /\ agent \in AgentType /\ seen \in SeenType
        /\ (agent.pc \in {"idle", "polling"} <=> agent.run = None)
    BY DEF IInv, TypeOK
  <1>3. m \in Message /\ m.type = "progress" /\ m.run \in Run
    BY <1>1, <1>2, OwnType, Values
  <1>4. agent' \in AgentType /\ (agent'.pc \in {"idle", "polling"} <=> agent'.run = None)
    <2>1. CASE agent' = agent
      BY <1>2, <2>1
    <2>2. CASE agent' = [agent EXCEPT !.pc = "reporting"]
      BY <1>1, <1>2, <2>2, AgentPcUpdate, Values
    <2> QED BY <1>1, <2>1, <2>2
  <1> HIDE DEF m
  <1> QED BY <1>1, <1>2, <1>3, <1>4, AgentMoves

LEMMA AgentUploadIInv ==
  ASSUME IInv, AgentUpload
  PROVE  IInv' /\ Kept
  <1> DEFINE m == Own("upload", "none")
  <1>1. /\ agent.pc \notin {"idle", "polling"} /\ net' = net \cup {m}
        /\ agent' = [agent EXCEPT !.pc = "uploading"]
        /\ UNCHANGED <<db, artifacts, server, seen, used>>
    BY DEF AgentUpload, Send
  <1>2. TypeOK /\ seen \in SeenType
    BY DEF IInv, TypeOK
  <1>3. m \in Message /\ m.type = "upload" /\ m.run \in Run
    BY <1>1, <1>2, OwnType, Values
  <1>4. agent' \in AgentType /\ agent'.pc \notin {"idle", "polling"} /\ agent'.run # None
    BY <1>1, <1>2, AgentPcUpdate, Values
  <1> HIDE DEF m
  <1> QED BY <1>1, <1>2, <1>3, <1>4, AgentMoves

LEMMA AgentFinishIInv ==
  ASSUME IInv, NEW outcome \in Ended, AgentFinish(outcome)
  PROVE  IInv' /\ Kept
  <1> DEFINE m == Own("finish", outcome)
             sent == seen.sent \cup {<<agent.run, agent.token, outcome>>}
  <1>1. /\ agent.pc \notin {"idle", "polling"} /\ net' = net \cup {m}
        /\ agent' = [agent EXCEPT !.pc = "ending"]
        /\ seen' = [seen EXCEPT !.sent = sent]
        /\ UNCHANGED <<db, artifacts, server, used>>
    BY DEF AgentFinish, Send, IInv, TypeOK, SeenType
  <1>2. TypeOK /\ seen \in SeenType
    BY DEF IInv, TypeOK
  <1>3. /\ m \in Message /\ m.type = "finish" /\ m.run = agent.run /\ m.run \in Run
        /\ m.token = agent.token /\ m.outcome = outcome /\ agent.token \in Nat
    BY <1>1, <1>2, OwnType, AgentFields, Values
  <1>4. agent' \in AgentType /\ agent'.pc \notin {"idle", "polling"} /\ agent'.run # None
    BY <1>1, <1>2, AgentPcUpdate, Values
  <1>5. sent \in Results
    BY <1>2, <1>3 DEF SeenType, Results
  <1>6. <<m.run, m.token, m.outcome>> \in sent /\ seen.sent \subseteq sent
    BY <1>3
  <1> HIDE DEF m, sent
  <1>7. /\ seen' \in SeenType /\ seen'.sent = sent /\ seen'.grants = seen.grants
    BY <1>1, <1>2, <1>5 DEF SeenType
  <1> QED BY <1>1, <1>3, <1>4, <1>6, <1>7, AgentMoves

LEMMA AgentDoneIInv ==
  ASSUME IInv, AgentDone
  PROVE  IInv' /\ Kept
  <1>1. /\ agent' = Idle /\ net' = net \cup {StatusOf(None)}
        /\ UNCHANGED <<db, artifacts, server, seen>>
    BY IdleType DEF AgentDone, AfterRun, Send
  <1>2. used' = used \/ \E e \in Events : Spend(e)
    BY DEF AgentDone, Unanswered, Events
  <1>3. /\ StatusOf(None) \in Message /\ StatusOf(None).type = "status"
        /\ StatusOf(None).type \notin UnderLease
    BY StatusType, Values
  <1>4. seen \in SeenType
    BY DEF IInv, TypeOK
  <1> QED BY <1>1, <1>2, <1>3, <1>4, IdleType, AgentMoves

LEMMA AgentPollFailsIInv ==
  ASSUME IInv, AgentPollFails \/ AgentRestart
  PROVE  IInv' /\ Kept
  <1>1. agent' = Idle /\ UNCHANGED <<db, artifacts, server, net, seen>>
    BY DEF AgentPollFails, AgentRestart
  <1>2. used' = used \/ \E e \in Events : Spend(e)
    BY DEF AgentPollFails, AgentRestart, Events
  <1> QED BY <1>1, <1>2, IdleType, AgentSilent

LEMMA AgentScanFailsIInv ==
  ASSUME IInv, AgentScanFails
  PROVE  IInv' /\ Kept
  <1>1. /\ agent.pc \notin {"idle", "polling"}
        /\ agent' = [agent EXCEPT !.pc = "working", !.fail = TRUE]
        /\ UNCHANGED <<db, artifacts, server, net, seen>>
    BY DEF AgentScanFails
  <1>2. used' = used \/ \E e \in Events : Spend(e)
    BY DEF AgentScanFails, Unanswered, Events
  <1>3. agent' \in AgentType /\ agent'.pc \notin {"idle", "polling"} /\ agent'.run # None
    BY <1>1, AgentPcUpdate, Values DEF IInv
  <1> QED BY <1>1, <1>2, <1>3, AgentSilent

-----------------------------------------------------------------------------
(* The handlers.                                                           *)

\* A handler has taken m; what it does to the tables follows from them.
LEMMA HandlerStep ==
  ASSUME IInv, Follows(db', seen.grants),
         net' \subseteq net, UNCHANGED <<seen, used>>,
         server'.finishing \subseteq net \cup server.finishing, server' \in ServerType,
         \A m \in server'.finishing : m.type = "finish",
         artifacts' \in SUBSET Run, db'.scan # None => db'.scan \in artifacts',
         agent' \in AgentType, agent'.pc \in {"idle", "polling"} <=> agent'.run = None
  PROVE  IInv' /\ Kept
  <1>1. Beside /\ ResultsAsSent /\ ShownScanIsStored /\ Good(db, seen.grants)
    BY PartsOf
  <1>2. net' \in Messages
    BY <1>1 DEF Beside, Messages
  <1>3. Beside'
    BY <1>1, <1>2 DEF Beside
  <1>4. ResultsAsSent' /\ ShownScanIsStored'
    BY <1>1 DEF ResultsAsSent, ShownScanIsStored
  <1>5. Kept /\ Good(db', seen'.grants)
    BY DEF Kept, Follows
  <1> QED BY <1>3, <1>4, <1>5, NextParts

LEMMA TokenIsNew ==
  ASSUME IInv
  PROVE  NextToken \in Nat /\ NextToken # 0
  <1>1. Cardinality(seen.grants) \in Nat
    BY FS_CardinalityType DEF IInv, TypeOK
  <1> QED BY <1>1 DEF NextToken

\* A queued run is handed out under a new lease.
LEMMA HandOutFollows ==
  ASSUME IInv, NEW d, Follows(d, seen.grants), NEW r \in Run, d.run[r].state = "queued",
         db' = [d EXCEPT !.run[r].state = "leased", !.run[r].token = NextToken],
         d.policy.slot = db.policy.slot
  PROVE  /\ Good(db', seen.grants \cup {<<r, NextToken>>}) /\ db'.scan = d.scan
         /\ \A s \in Run : ResultKept(s, db.run[s], db'.run[s])
         /\ db'.policy = d.policy
  <1> DEFINE row == [d.run[r] EXCEPT !.state = "leased", !.token = NextToken]
             grants == seen.grants \cup {<<r, NextToken>>}
             e == [d EXCEPT !.run[r] = row]
  <1>1. d \in DbType /\ Good(d, seen.grants) /\ d.run[r] \in RowType
    BY DEF Follows, Good, DbType
  <1>2. NextToken \in Nat /\ NextToken # 0
    BY TokenIsNew
  <1>3. db' = e
    <2>1. [d EXCEPT !.run[r].state = "leased", !.run[r].token = NextToken] = e
      BY <1>1 DEF DbType
    <2> QED BY <2>1
  <1>4. /\ row \in RowType /\ row.state = "leased" /\ row.token # 0
        /\ row.key = d.run[r].key /\ row.op = d.run[r].op
    BY <1>1, <1>2, Values DEF RowType
  <1> HIDE DEF row
  <1>5. /\ e \in DbType /\ e.run[r] = row /\ \A s \in Run \ {r} : e.run[s] = d.run[s]
        /\ e.scan = d.scan /\ e.policy = d.policy
    BY <1>1, <1>4, RowUpdate
  <1> HIDE DEF e
  <1>6. Good(e, grants)
    <2>1. \A s \in Run : e.run[s].token # 0 <=> e.run[s].state \in Leased
      BY <1>1, <1>4, <1>5, Values DEF Good
    <2>2. \A s \in Run : e.run[s].state \in Active => d.run[s].state \in Active
      BY <1>5, Values
    <2>3. \A s, t \in Run : e.run[s].state \in Active /\ e.run[t].state \in Active => s = t
      BY <1>1, <2>2 DEF Good
    <2>4. \A s, t \in Run : e.run[s].key = e.run[t].key /\ s # t => e.run[s].key = 0
      <3>1. \A s \in Run : e.run[s].key = d.run[s].key
        BY <1>4, <1>5
      <3> QED BY <1>1, <3>1 DEF Good
    <2>5. \A s \in Run : e.run[s].op = d.run[s].op
      BY <1>4, <1>5
    <2>6. \A g \in grants : g \in seen.grants \/ (g = <<r, NextToken>> /\ g[1] = r)
      OBVIOUS
    <2> HIDE DEF grants
    <2>7. \A s \in Run :
            e.run[s].state = "absent" \/ (e.run[s].state = "queued" /\ e.run[s].op = "restore")
              => \A g \in grants : g[1] # s
      BY <1>1, <1>4, <1>5, <2>6 DEF Good
    <2>8. \A s \in Run : e.run[s].op = "restore" =>
            \A g, h \in grants : g[1] = s /\ h[1] = s => g = h
      <3> SUFFICES ASSUME NEW s \in Run, e.run[s].op = "restore",
                          NEW g \in grants, NEW h \in grants, g[1] = s, h[1] = s
                   PROVE  g = h
        OBVIOUS
      <3>1. CASE s = r
        <4>1. \A x \in seen.grants : x[1] # r
          BY <1>1, <2>5, <3>1 DEF Good
        <4> QED BY <2>6, <3>1, <4>1
      <3>2. CASE s # r
        BY <1>1, <2>5, <2>6, <3>2 DEF Good
      <3> QED BY <3>1, <3>2
    <2> QED BY <1>5, <2>1, <2>3, <2>4, <2>7, <2>8 DEF Good
  <1>7. \A s \in Run : ResultKept(s, db.run[s], e.run[s])
    <2>1. db.run[r].state \notin Ended
      BY Values DEF Follows, ResultKept
    <2> QED BY <1>4, <1>5, <2>1, Values DEF Follows, ResultKept
  <1> QED BY <1>3, <1>5, <1>6, <1>7

LEMMA PollIInv ==
  ASSUME IInv, Poll
  PROVE  IInv' /\ Kept
  <1>1. PICK a, b \in DbType :
          /\ RecoverSteps(db) = <<a, b>> /\ Final(RecoverSteps(db)) = b
          /\ Follows(a, seen.grants) /\ Follows(b, seen.grants)
          /\ a.run = b.run /\ a.scan = db.scan /\ b.scan = db.scan
          /\ a.policy = db.policy /\ b.policy = db.policy
    BY Recovery
  <1>2. Beside /\ ResultsAsSent /\ ShownScanIsStored /\ TypeOK
    BY PartsOf DEF IInv
  <1>3. CASE Dies(Append(<<a, b>>, b))
    <2>1. Dies(<<a, b, b>>)
      BY <1>3, Append2
    <2>2. db' \in {a, b}
      BY <2>1, Dies3
    <2> QED BY <1>1, <2>1, <2>2, DiesIInv
  <1>4. ASSUME NEW r \in Run, Pollable(b, r),
               db' = [b EXCEPT !.run[r].state = "leased", !.run[r].token = NextToken],
               HandOut(r),
               seen' = [seen EXCEPT !.grants = @ \cup {<<r, NextToken>>}],
               net' = net \ {PollRequest}, UNCHANGED <<artifacts, server>>
        PROVE  IInv' /\ Kept
    <2> DEFINE grants == seen.grants \cup {<<r, NextToken>>}
    <2>1. b.run[r].state = "queued" /\ b.policy.slot = db.policy.slot
      BY <1>1, <1>4 DEF Pollable
    <2>2. /\ Good(db', grants) /\ db'.scan = db.scan /\ db'.policy = db.policy
          /\ \A s \in Run : ResultKept(s, db.run[s], db'.run[s])
      BY <1>1, <1>4, <2>1, HandOutFollows
    <2>3. NextToken \in Nat
      BY TokenIsNew
    <2>4. grants \in Leases /\ IsFiniteSet(grants)
      <3>1. grants \in Leases
        BY <1>2, <2>3 DEF Beside, SeenType, Leases, Lease
      <3>2. IsFiniteSet(grants)
        BY <1>2, FS_AddElement DEF Beside
      <3> QED BY <3>1, <3>2
    <2>5. seen' = [seen EXCEPT !.grants = grants]
      BY <1>2, <1>4 DEF Beside, SeenType
    <2> HIDE DEF grants
    <2>6. seen' \in SeenType /\ seen'.grants = grants /\ seen'.sent = seen.sent
      BY <1>2, <2>4, <2>5 DEF Beside, SeenType
    <2>7. agent' \in AgentType /\ (agent'.pc \in {"idle", "polling"} <=> agent'.run = None)
      <3>1. CASE agent' = agent
        BY <1>2, <3>1 DEF Beside
      <3>2. CASE agent' = [pc |-> "working", run |-> r, token |-> NextToken, fail |-> FALSE]
        BY <2>3, <3>2, Values DEF AgentType
      <3> QED BY <1>4, <3>1, <3>2 DEF HandOut
    <2>8. used' = used \/ \E e \in Events : Spend(e)
      BY <1>4 DEF HandOut, Events
    <2>9. used' \in [Events -> Nat] /\ \A e \in Events : used'[e] <= Budget[e]
      BY <1>2, <2>8, UsedKept
    <2>10. net' \in Messages /\ net' \subseteq net
      BY <1>2, <1>4 DEF Beside, Messages
    <2>11. Beside'
      BY <1>2, <1>4, <2>4, <2>6, <2>7, <2>9, <2>10 DEF Beside
    <2>12. ResultsAsSent' /\ ShownScanIsStored'
      BY <1>2, <1>4, <2>2, <2>6, <2>10 DEF ResultsAsSent, ShownScanIsStored
    <2>13. Kept
      BY <2>2 DEF Kept, SlotKept
    <2> QED BY <2>2, <2>6, <2>11, <2>12, <2>13, NextParts
  <1>5. CASE /\ db' = b /\ agent' = IF agent.pc = "polling" THEN Idle ELSE agent
             /\ net' = net \ {PollRequest}
             /\ UNCHANGED <<artifacts, server, seen, used>>
    <2>1. agent' \in AgentType /\ (agent'.pc \in {"idle", "polling"} <=> agent'.run = None)
      BY <1>2, <1>5, IdleType DEF Beside
    <2>2. /\ server' \in ServerType /\ artifacts' \in SUBSET Run
          /\ \A m \in server'.finishing : m.type = "finish"
          /\ db'.scan # None => db'.scan \in artifacts'
      BY <1>1, <1>2, <1>5 DEF Beside, ShownScanIsStored
    <2>3. net' \subseteq net /\ server'.finishing \subseteq net \cup server.finishing
      BY <1>5
    <2> QED BY <1>1, <1>5, <2>1, <2>2, <2>3, HandlerStep
  <1> QED BY <1>1, <1>3, <1>4, <1>5 DEF Poll

\* The agent hears of an answer, or does not.
LEMMA AnswerAgent ==
  ASSUME TypeOK, NEW m, NEW p \in AgentPc, p \notin {"idle", "polling"}, NEW reaction,
         Answer(m, p, reaction),
         agent.pc = p /\ agent.run = m.run =>
            /\ reaction \in AgentType /\ reaction.pc \notin {"idle", "polling"}
            /\ reaction.run # None
  PROVE  agent' \in AgentType /\ (agent'.pc \in {"idle", "polling"} <=> agent'.run = None)
  <1>1. CASE agent' = agent
    BY <1>1 DEF TypeOK
  <1>2. CASE agent' # agent
    <2>1. agent.pc = p /\ agent.run = m.run /\ agent' = reaction
      BY <1>2 DEF Answer
    <2> QED BY <2>1
  <1> QED BY <1>1, <1>2

LEMMA Reactions ==
  ASSUME TypeOK, agent.pc \notin {"idle", "polling"}
  PROVE  /\ Reported \in AgentType /\ Reported.pc \notin {"idle", "polling"} /\ Reported.run # None
         /\ Cancelled \in AgentType /\ Cancelled.pc \notin {"idle", "polling"}
         /\ Cancelled.run # None
  <1>1. /\ Reported \in AgentType /\ Reported.pc = "reported" /\ Reported.run # None
    BY AgentPcUpdate, Values DEF Reported
  <1>2. /\ Cancelled \in AgentType /\ Cancelled.pc = agent.pc /\ Cancelled.run = agent.run
    BY DEF Cancelled, TypeOK, AgentType
  <1> QED BY <1>1, <1>2 DEF TypeOK

\* progress and the upload's authorization renew a lease that is held.
LEMMA RenewedFollows ==
  ASSUME IInv, NEW m \in Message, m.run \in Run, Holds(m)
  PROVE  /\ Renewed(m.run) \in DbType /\ Follows(Renewed(m.run), seen.grants)
         /\ Renewed(m.run).scan = db.scan /\ Renewed(m.run).policy = db.policy
  <1> DEFINE r   == m.run
             row == [db.run[r] EXCEPT !.state = "running", !.lapsed = FALSE]
             e   == [db EXCEPT !.run[r] = row]
  <1>1. Good(db, seen.grants) /\ db \in DbType /\ db.run[r] \in RowType
    BY GoodNow DEF Good, DbType
  <1>2. db.run[r].state \in Leased
    BY DEF Holds
  <1>3. /\ row \in RowType /\ row.state = "running" /\ row.token = db.run[r].token
        /\ row.key = db.run[r].key /\ row.op = db.run[r].op
    BY <1>1, Values DEF RowType
  <1>4. Renewed(r) = e
    BY <1>1, RenewedRow, Zenon DEF Renewed
  <1> HIDE DEF row
  <1>5. /\ e \in DbType /\ e.run[r] = row /\ \A s \in Run \ {r} : e.run[s] = db.run[s]
        /\ e.scan = db.scan /\ e.policy = db.policy
    BY <1>1, <1>3, RowUpdate
  <1> HIDE DEF e, r
  <1>6. \A s \in Run : Moves(db.run[s], e.run[s])
    <2>1. Moves(db.run[r], row)
      BY <1>1, <1>2, <1>3, Values DEF Moves, Good, r
    <2>2. \A s \in Run \ {r} : Moves(db.run[s], e.run[s])
      BY <1>1, <1>5, StaysMoves
    <2> QED BY <1>5, <2>1, <2>2
  <1>7. \A s \in Run : ResultKept(s, db.run[s], e.run[s])
    BY <1>2, <1>3, <1>5, Values DEF ResultKept
  <1>8. Follows(e, seen.grants)
    BY <1>1, <1>5, <1>6, <1>7, MovesGood DEF Follows, SlotKept
  <1> QED BY <1>4, <1>5, <1>8 DEF r

LEMMA ShownFollows ==
  ASSUME IInv, NEW d, Follows(d, seen.grants), d.policy = db.policy, NEW s \in MayRun
  PROVE  /\ [d EXCEPT !.shown = s] \in DbType
         /\ Follows([d EXCEPT !.shown = s], seen.grants)
         /\ [d EXCEPT !.shown = s].scan = d.scan /\ [d EXCEPT !.shown = s].policy = db.policy
  <1> DEFINE e == [d EXCEPT !.shown = s]
  <1>1. d \in DbType
    BY DEF Follows, Good
  <1>2. e \in DbType /\ e.run = d.run /\ e.scan = d.scan /\ e.policy = d.policy
    BY <1>1, ShownUpdate
  <1> HIDE DEF e
  <1>3. Follows(e, seen.grants)
    BY <1>2, SameRows DEF SlotKept
  <1> QED BY <1>2, <1>3 DEF e

LEMMA MessageFields ==
  ASSUME IInv, NEW m \in net \cup server.finishing
  PROVE  /\ m \in Message /\ m.run \in MayRun /\ m.token \in Nat
         /\ m.type \in UnderLease => m.run \in Run
         /\ m.type = "finish" => <<m.run, m.token, m.outcome>> \in seen.sent /\ m.outcome \in Ended
  <1>1. m \in Message
    BY DEF IInv, TypeOK, ServerType, Messages
  <1>2. m.type = "finish" => <<m.run, m.token, m.outcome>> \in seen.sent
    BY DEF IInv, ResultsAsSent
  <1>3. m.type = "finish" => m.outcome \in Ended
    BY <1>2 DEF IInv, TypeOK, SeenType, Results
  <1> QED BY <1>1, <1>2, <1>3 DEF IInv, TypeOK, Message

\* The handler leaves artifacts and agent, or changes them as HandlerStep wants.
LEMMA ServerFields ==
  ASSUME IInv
  PROVE  /\ server \in ServerType /\ artifacts \in SUBSET Run
         /\ \A m \in server.finishing : m.type = "finish"
         /\ db.scan # None => db.scan \in artifacts
         /\ agent \in AgentType /\ (agent.pc \in {"idle", "polling"} <=> agent.run = None)
  BY DEF IInv, TypeOK, ShownScanIsStored

LEMMA ProgressIInv ==
  ASSUME IInv, NEW m \in net, Progress(m)
  PROVE  IInv' /\ Kept
  <1> DEFINE a == Renewed(m.run)
             b == [a EXCEPT !.shown = m.run]
  <1>1. m \in Message /\ m.type = "progress" /\ m.run \in Run /\ m.run \in MayRun /\ TypeOK
    BY MessageFields, Values DEF Progress, IInv
  <1>2. /\ \/ Holds(m) /\ Dies(<<a, b>>)
           \/ /\ IF Holds(m)
                 THEN db' = Final(<<a, b>>) /\ Answer(m, "reporting", Reported)
                 ELSE db' = db /\ Answer(m, "working", Cancelled)
              /\ net' = net \ {m}
              /\ UNCHANGED <<artifacts, server, seen, used>>
    BY DEF Progress
  <1>3. Holds(m) => /\ Follows(a, seen.grants) /\ a.scan = db.scan
                    /\ Follows(b, seen.grants) /\ b.scan = db.scan
    BY <1>1, RenewedFollows, ShownFollows
  <1> HIDE DEF a, b
  <1>4. CASE Holds(m) /\ Dies(<<a, b>>)
    BY <1>3, <1>4, Dies2, DiesIInv
  <1>5. ASSUME IF Holds(m)
               THEN db' = Final(<<a, b>>) /\ Answer(m, "reporting", Reported)
               ELSE db' = db /\ Answer(m, "working", Cancelled),
               net' = net \ {m}, UNCHANGED <<artifacts, server, seen, used>>
        PROVE  IInv' /\ Kept
    <2>1. Follows(db', seen.grants) /\ db'.scan = db.scan
      BY <1>3, <1>5, Final2, GoodNow
    <2>2. agent' \in AgentType /\ (agent'.pc \in {"idle", "polling"} <=> agent'.run = None)
      <3>1. CASE Holds(m)
        <4>1. Answer(m, "reporting", Reported)
          BY <1>5, <3>1
        <4> QED BY <1>1, <4>1, Reactions, AnswerAgent, Values
      <3>2. CASE ~Holds(m)
        <4>1. Answer(m, "working", Cancelled)
          BY <1>5, <3>2
        <4> QED BY <1>1, <4>1, Reactions, AnswerAgent, Values
      <3> QED BY <3>1, <3>2
    <2>3. /\ server' \in ServerType /\ artifacts' \in SUBSET Run
          /\ \A x \in server'.finishing : x.type = "finish"
          /\ db'.scan # None => db'.scan \in artifacts'
      BY <1>5, <2>1, ServerFields
    <2>4. net' \subseteq net /\ server'.finishing \subseteq net \cup server.finishing
      BY <1>5
    <2> QED BY <1>5, <2>1, <2>2, <2>3, <2>4, HandlerStep
  <1> QED BY <1>2, <1>4, <1>5

LEMMA StatusIInv ==
  ASSUME IInv, NEW m \in net, Status(m)
  PROVE  IInv' /\ Kept
  <1>1. /\ db' = [db EXCEPT !.shown = m.run] /\ net' = net \ {m}
        /\ UNCHANGED <<artifacts, server, agent, seen, used>>
    BY DEF Status
  <1>2. m.run \in MayRun
    BY MessageFields
  <1>3. Follows(db', seen.grants) /\ db'.scan = db.scan
    BY <1>1, <1>2, GoodNow, ShownFollows
  <1>4. net' \subseteq net
    BY <1>1
  <1> QED BY <1>1, <1>3, <1>4, TablesStep

LEMMA UploadIInv ==
  ASSUME IInv, NEW m \in net, Upload(m)
  PROVE  IInv' /\ Kept
  <1>1. /\ m.type = "upload" /\ net' = net \ {m} /\ UNCHANGED <<artifacts, agent, seen, used>>
        /\ db' = IF Holds(m) THEN Renewed(m.run) ELSE db
        /\ server' = IF Holds(m) THEN [server EXCEPT !.writing = @ \cup {<<m.run, m.token>>}]
                     ELSE server
    BY DEF Upload
  <1>2. m \in Message /\ m.run \in Run /\ m.token \in Nat
    BY <1>1, MessageFields, Values
  <1>3. Follows(db', seen.grants) /\ db'.scan = db.scan
    BY <1>1, <1>2, GoodNow, RenewedFollows
  <1>4. server' \in ServerType /\ server'.finishing = server.finishing
    <2>1. server \in ServerType /\ server.writing \in Leases
      BY ServerFields DEF ServerType
    <2>2. server.writing \cup {<<m.run, m.token>>} \in Leases
      BY <1>2, <2>1 DEF Leases, Lease
    <2> QED BY <1>1, <2>1, <2>2 DEF ServerType
  <1>5. /\ artifacts' \in SUBSET Run /\ net' \subseteq net
        /\ server'.finishing \subseteq net \cup server.finishing
        /\ \A x \in server'.finishing : x.type = "finish"
        /\ db'.scan # None => db'.scan \in artifacts'
        /\ agent' \in AgentType /\ (agent'.pc \in {"idle", "polling"} <=> agent'.run = None)
    BY <1>1, <1>3, <1>4, ServerFields
  <1> QED BY <1>1, <1>3, <1>4, <1>5, HandlerStep

LEMMA WriteEndsIInv ==
  ASSUME IInv, NEW w \in server.writing, NEW stored \in BOOLEAN, WriteEnds(w, stored)
  PROVE  IInv' /\ Kept
  <1>1. /\ server' = [server EXCEPT !.writing = @ \ {w}] /\ UNCHANGED <<db, net, seen, used>>
    BY DEF WriteEnds
  <1>2. server \in ServerType /\ server.writing \in Leases /\ w[1] \in Run /\ TypeOK
    <2>1. server \in ServerType /\ server.writing \in Leases
      BY ServerFields DEF ServerType
    <2> QED BY <2>1 DEF Leases, Lease, IInv
  <1>3. server' \in ServerType /\ server'.finishing = server.finishing
    <2>1. server.writing \ {w} \in Leases
      BY <1>2 DEF Leases
    <2> QED BY <1>1, <1>2, <2>1 DEF ServerType
  <1>4. artifacts' \in SUBSET Run /\ artifacts \subseteq artifacts'
    BY <1>2, ServerFields DEF WriteEnds
  <1>5. agent' \in AgentType /\ (agent'.pc \in {"idle", "polling"} <=> agent'.run = None)
    <2>1. agent' = agent \/ (agent.pc = "uploading" /\ agent' = [agent EXCEPT !.pc = "uploaded"])
      BY DEF WriteEnds
    <2>2. CASE agent' = agent
      BY <2>2, ServerFields
    <2>3. CASE agent.pc = "uploading" /\ agent' = [agent EXCEPT !.pc = "uploaded"]
      BY <1>2, <2>3, AgentPcUpdate, Values
    <2> QED BY <2>1, <2>2, <2>3
  <1>6. Follows(db', seen.grants) /\ db'.scan = db.scan
    BY <1>1, GoodNow
  <1>7. /\ net' \subseteq net
        /\ server'.finishing \subseteq net \cup server.finishing
        /\ \A x \in server'.finishing : x.type = "finish"
        /\ db'.scan # None => db'.scan \in artifacts'
    BY <1>1, <1>3, <1>4, <1>6, ServerFields
  <1> QED BY <1>1, <1>3, <1>4, <1>5, <1>6, <1>7, HandlerStep

-----------------------------------------------------------------------------
(* Results.                                                                *)

LEMMA ResultFollows ==
  ASSUME IInv, NEW m \in net \cup server.finishing, m.type = "finish", Holds(m)
  PROVE  \E a, b, c \in DbType :
           /\ FinishSteps(m) = IF NeedsArtifact(m) THEN <<a, b, c>> ELSE <<a, b>>
           /\ Follows(a, seen.grants) /\ Follows(b, seen.grants) /\ Follows(c, seen.grants)
           /\ a.scan = db.scan /\ b.scan = db.scan /\ c.scan = m.run
  <1> DEFINE r   == m.run
             row == Release(db.run[r], m.outcome)
             a   == [db EXCEPT !.run[r] = row]
             b   == [a EXCEPT !.shown = None]
             c   == [b EXCEPT !.scan = r]
  <1>1. /\ r \in Run /\ r \in MayRun /\ m.token \in Nat /\ m.outcome \in Ended
        /\ <<r, m.token, m.outcome>> \in seen.sent
    BY MessageFields, Values
  <1>2. Good(db, seen.grants) /\ db \in DbType /\ db.run[r] \in RowType
    BY <1>1, GoodNow DEF Good, DbType
  <1>3. db.run[r].state \in Leased /\ db.run[r].token = m.token
    BY DEF Holds
  <1>4. FinishSteps(m) = IF NeedsArtifact(m) THEN <<a, b, c>> ELSE <<a, b>>
    BY <1>1, <1>2 DEF FinishSteps, DbType
  <1>5. /\ row \in RowType /\ row.state = m.outcome /\ row.token = 0
        /\ row.key = db.run[r].key /\ row.op = db.run[r].op
    <2>1. m.outcome \in State
      BY <1>1, Values
    <2> QED BY <1>2, <2>1, ReleaseRow
  <1> HIDE DEF row
  <1>6. /\ a \in DbType /\ a.run[r] = row /\ \A s \in Run \ {r} : a.run[s] = db.run[s]
        /\ a.scan = db.scan /\ a.policy = db.policy
    BY <1>1, <1>2, <1>5, RowUpdate
  <1> HIDE DEF a
  <1>7. \A s \in Run : Moves(db.run[s], a.run[s])
    <2>1. Moves(db.run[r], row)
      BY <1>1, <1>5, Values DEF Moves
    <2>2. \A s \in Run \ {r} : Moves(db.run[s], a.run[s])
      BY <1>2, <1>6, StaysMoves
    <2> QED BY <1>6, <2>1, <2>2
  <1>8. \A s \in Run : ResultKept(s, db.run[s], a.run[s])
    BY <1>1, <1>3, <1>5, <1>6, Values DEF ResultKept
  <1>9. Follows(a, seen.grants)
    BY <1>2, <1>6, <1>7, <1>8, MovesGood DEF Follows, SlotKept
  <1>10. b \in DbType /\ Follows(b, seen.grants) /\ b.scan = db.scan /\ b.policy = db.policy
    BY <1>6, <1>9, ShownFollows, Values
  <1> HIDE DEF b
  <1>11. c \in DbType /\ c.run = b.run /\ c.policy = b.policy /\ c.scan = r
    BY <1>1, <1>10 DEF DbType
  <1> HIDE DEF c
  <1>12. Follows(c, seen.grants)
    BY <1>10, <1>11, SameRows DEF SlotKept
  <1> QED BY <1>4, <1>6, <1>9, <1>10, <1>11, <1>12

LEMMA SaveIInv ==
  ASSUME IInv, NEW m \in net \cup server.finishing, m.type = "finish", Holds(m),
         NeedsArtifact(m) => Stored(m), Save(m)
  PROVE  IInv' /\ Kept
  <1>1. PICK a, b, c \in DbType :
          /\ FinishSteps(m) = IF NeedsArtifact(m) THEN <<a, b, c>> ELSE <<a, b>>
          /\ Follows(a, seen.grants) /\ Follows(b, seen.grants) /\ Follows(c, seen.grants)
          /\ a.scan = db.scan /\ b.scan = db.scan /\ c.scan = m.run
    BY ResultFollows
  <1>2. CASE Dies(FinishSteps(m))
    <2>1. db' \in {a, b}
      <3>1. CASE NeedsArtifact(m)
        BY <1>1, <1>2, <3>1, Dies3
      <3>2. CASE ~NeedsArtifact(m)
        BY <1>1, <1>2, <3>2, Dies2
      <3> QED BY <3>1, <3>2
    <2> QED BY <1>1, <1>2, <2>1, DiesIInv
  <1>3. ASSUME db' = Final(FinishSteps(m)), artifacts' = artifacts \ Obsolete(m),
               net' = net \ {m}, server' = [server EXCEPT !.finishing = @ \ {m}],
               UNCHANGED <<agent, seen, used>>
        PROVE  IInv' /\ Kept
    <2>1. db' = IF NeedsArtifact(m) THEN c ELSE b
      BY <1>1, <1>3, Final2, Final3
    <2>2. Follows(db', seen.grants)
      BY <1>1, <2>1
    <2>3. db'.scan # None => db'.scan \in artifacts'
      <3>1. CASE NeedsArtifact(m)
        BY <1>1, <1>3, <2>1, <3>1 DEF Stored, Obsolete
      <3>2. CASE ~NeedsArtifact(m)
        BY <1>1, <1>3, <2>1, <3>2, ServerFields DEF Obsolete
      <3> QED BY <3>1, <3>2
    <2>4. server' \in ServerType /\ server'.finishing = server.finishing \ {m}
      <3>1. server \in ServerType /\ server.finishing \in Messages
        BY ServerFields DEF ServerType
      <3>2. server.finishing \ {m} \in Messages
        BY <3>1 DEF Messages
      <3> QED BY <1>3, <3>1, <3>2 DEF ServerType
    <2>5. /\ artifacts' \in SUBSET Run /\ net' \subseteq net
          /\ server'.finishing \subseteq net \cup server.finishing
          /\ \A x \in server'.finishing : x.type = "finish"
          /\ agent' \in AgentType /\ (agent'.pc \in {"idle", "polling"} <=> agent'.run = None)
      BY <1>3, <2>4, ServerFields
    <2> QED BY <1>3, <2>2, <2>3, <2>4, <2>5, HandlerStep
  <1> QED BY <1>2, <1>3 DEF Save

\* A request that is taken, with the tables as they were.
LEMMA TakenIInv ==
  ASSUME IInv, NEW m \in net \cup server.finishing, m.type = "finish",
         net' = net \ {m},
         \/ server' = [server EXCEPT !.finishing = @ \ {m}]
         \/ server' = [server EXCEPT !.finishing = @ \cup {m}],
         UNCHANGED <<db, artifacts, agent, seen, used>>
  PROVE  IInv' /\ Kept
  <1>1. server \in ServerType /\ server.finishing \in Messages /\ m \in Message
    BY ServerFields, MessageFields DEF ServerType
  <1>2. server.finishing \ {m} \in Messages /\ server.finishing \cup {m} \in Messages
    BY <1>1 DEF Messages
  <1>3. /\ server' \in ServerType
        /\ server'.finishing \subseteq server.finishing \cup {m}
    BY <1>1, <1>2 DEF ServerType
  <1>4. Follows(db', seen.grants)
    BY GoodNow
  <1>5. /\ artifacts' \in SUBSET Run /\ net' \subseteq net
        /\ server'.finishing \subseteq net \cup server.finishing
        /\ \A x \in server'.finishing : x.type = "finish"
        /\ db'.scan # None => db'.scan \in artifacts'
        /\ agent' \in AgentType /\ (agent'.pc \in {"idle", "polling"} <=> agent'.run = None)
    BY <1>3, ServerFields
  <1> QED BY <1>3, <1>4, <1>5, HandlerStep

LEMMA FinishIInv ==
  ASSUME IInv, NEW m \in net, Finish(m)
  PROVE  IInv' /\ Kept
  <1>1. m.type = "finish" /\ m \in net \cup server.finishing
    BY DEF Finish
  <1>2. CASE ~Holds(m) \/ ~WellFormed(m)
    BY <1>1, <1>2, TakenIInv DEF Finish, Refuse
  <1>3. CASE Holds(m) /\ WellFormed(m) /\ ~NeedsArtifact(m)
    BY <1>1, <1>3, SaveIInv DEF Finish
  <1>4. CASE Holds(m) /\ WellFormed(m) /\ NeedsArtifact(m)
    BY <1>1, <1>4, TakenIInv DEF Finish
  <1> QED BY <1>2, <1>3, <1>4

LEMMA FinishScanIInv ==
  ASSUME IInv, NEW m \in server.finishing, FinishScan(m)
  PROVE  IInv' /\ Kept
  <1>1. m.type = "finish" /\ m \in net \cup server.finishing
    BY ServerFields
  <1>2. CASE Stored(m) /\ Holds(m)
    BY <1>1, <1>2, SaveIInv DEF FinishScan
  <1>3. CASE ~(Stored(m) /\ Holds(m))
    BY <1>1, <1>3, TakenIInv DEF FinishScan, Refuse
  <1> QED BY <1>2, <1>3

-----------------------------------------------------------------------------
LEMMA InitIInv ==
  ASSUME Init
  PROVE  IInv
  <1> USE DEF Init
  <1>1. Absent \in RowType /\ Absent.state = "absent" /\ Absent.token = 0 /\ Absent.key = 0
    BY AbsentType
  <1>2. db \in DbType /\ db.scan = None /\ \A r \in Run : db.run[r] = Absent
    <2>1. 1 \in Slot /\ PolicyBound \in BOOLEAN
      BY RunAssumption DEF Slot
    <2>2. [slot |-> 1, due |-> FALSE, enabled |-> TRUE, bound |-> PolicyBound] \in PolicyType
      BY <2>1 DEF PolicyType
    <2> QED BY <1>1, <2>2, Values DEF DbType
  <1>3. seen.grants = {} /\ seen.sent = {} /\ seen \in SeenType /\ IsFiniteSet(seen.grants)
    BY FS_EmptySet DEF SeenType, Leases, Results
  <1>4. Good(db, seen.grants)
    BY <1>1, <1>2, <1>3, Values DEF Good, Absent
  <1>5. /\ server \in ServerType /\ server.finishing = {} /\ net = {} /\ net \in Messages
    BY DEF NoHandlers, ServerType, Messages, Leases
  <1>6. used \in [Events -> Nat] /\ \A e \in Events : used[e] <= Budget[e]
    BY RunAssumption
  <1>7. Beside
    BY <1>3, <1>5, <1>6, IdleType DEF Beside
  <1>8. ResultsAsSent /\ ShownScanIsStored
    BY <1>2, <1>5 DEF ResultsAsSent, ShownScanIsStored
  <1> QED BY <1>4, <1>7, <1>8, Parts

LEMMA NextIInv ==
  ASSUME IInv, [Next]_vars
  PROVE  IInv' /\ Kept
  <1>1. CASE Handler
    <2>1. CASE Poll
      BY <2>1, PollIInv
    <2>2. CASE \E m \in net : Progress(m) \/ Status(m) \/ Upload(m) \/ Finish(m)
      BY <2>2, ProgressIInv, StatusIInv, UploadIInv, FinishIInv
    <2>3. CASE Resumed
      BY <2>3, FinishScanIInv, WriteEndsIInv DEF Resumed
    <2> QED BY <1>1, <2>1, <2>2, <2>3 DEF Handler
  <1>2. CASE AgentStep
    BY <1>2, AgentPollIInv, AgentPollFailsIInv, AgentStatusIInv, AgentProgressIInv,
       AgentUploadIInv, AgentScanFailsIInv, AgentDoneIInv, AgentFinishIInv DEF AgentStep
  <1>3. CASE Scheduler
    BY <1>3, SchedulerIInv
  <1>4. CASE Environment
    BY <1>4, AskIInv, PutPolicyIInv, SlotDueIInv, CrashIInv, LeaseLapsesIInv, LoseIInv
    DEF Environment
  <1>5. CASE UNCHANGED vars
    <2>1. Follows(db', seen.grants)
      BY <1>5, GoodNow DEF vars
    <2> QED BY <1>5, <2>1, TablesStep DEF vars
  <1> QED BY <1>1, <1>2, <1>3, <1>4, <1>5 DEF Next

-----------------------------------------------------------------------------
(* The theorems.                                                           *)

\* Whatever is requested, due, renewed, recovered, lost, late or cut by a
\* crash: one active run per device, each slot run once, each restore handed
\* out once, and the scan that is shown on disk (workstations.mjs:226-454,
\* source-scan-store.mjs).
THEOREM RunsAreSafe == Spec => []IInv
  <1>1. Init => IInv
    BY InitIInv
  <1>2. IInv /\ [Next]_vars => IInv'
    BY NextIInv
  <1> QED BY <1>1, <1>2, PTL DEF Spec

\* A slot that a crash cut between the run and the policy is not run again
\* (workstations.mjs:415-454).
COROLLARY SlotsRunOnce == Spec => []SlotRunsOnce
  <1>1. IInv => SlotRunsOnce
    BY DEF IInv
  <1> QED BY <1>1, RunsAreSafe, PTL

\* A restore has one lease, whatever becomes of it (docs/workstations.md:132).
COROLLARY RestoresRunOnce == Spec => []RestoreNeverRetried
  <1>1. IInv => RestoreNeverRetried
    BY DEF IInv
  <1> QED BY <1>1, RunsAreSafe, PTL

\* The scan that is shown can be opened, however uploads, results and the
\* removal of older artifacts interleave.
COROLLARY ShownScansAreStored == Spec => []ShownScanIsStored
  <1>1. IInv => ShownScanIsStored
    BY DEF IInv
  <1> QED BY <1>1, RunsAreSafe, PTL

\* Only the holder of the current lease ends a run, and nothing changes a
\* result (workstations.mjs:377-411).
THEOREM ResultsAreTheHolders == Spec => ResultIsTheHolders
  <1>1. IInv /\ [Next]_vars =>
          [\A r \in Run :
             LET row == db.run[r]  new == db'.run[r]
             IN /\ row.state \in Ended => new = row
                /\ row.state \notin Ended /\ new.state \in Ended =>
                     \/ <<r, row.token, new.state>> \in seen.sent
                     \/ row.op = "restore" /\ row.lapsed /\ new.state = "failed"]_vars
    BY NextIInv DEF Kept, ResultKept
  <1> QED BY <1>1, RunsAreSafe, PTL DEF Spec, ResultIsTheHolders

\* The scheduler leaves no slot without its run: one that finds the device
\* busy stays due (workstations.mjs:419-454).
THEOREM SlotsAreTaken == Spec => NoSlotSkipped
  <1>1. IInv /\ [Next]_vars =>
          [db'.policy.slot # db.policy.slot /\ used'["edits"] = used["edits"]
             => \E r \in Run : db'.run[r].key = db.policy.slot]_vars
    BY NextIInv DEF Kept, SlotKept
  <1> QED BY <1>1, RunsAreSafe, PTL DEF Spec, NoSlotSkipped
=============================================================================
