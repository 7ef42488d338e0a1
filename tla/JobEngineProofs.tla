--------------------------- MODULE JobEngineProofs ---------------------------
(***************************************************************************)
(* What the job engine guarantees for any number of jobs, agents, tokens,  *)
(* concurrent requests and recovery passes.                                *)
(*                                                                         *)
(* Along the way every step of JobEngine is classified by what it does to  *)
(* the jobs table (StepKinds); the invariants and the refinement follow    *)
(* from the kinds, not from the handlers.                                  *)
(***************************************************************************)
EXTENDS JobEngine, TLAPS

-----------------------------------------------------------------------------
(* Facts about rows.                                                       *)

\* What SaveRow writes.
Saved(row) == [row EXCEPT !.revision = @ + 1]

\* The table never leads a job in work back to "leased" or "queued", and leads
\* nowhere from a terminal state.
LEMMA ActiveMoves ==
  /\ \A s \in Active : Transitions[s] \subseteq
       (Active \ {"leased"}) \union Terminal \union {"interrupted"}
  /\ \A s \in Terminal : Transitions[s] = {}
  BY DEF Transitions, Active, Terminal, Waiting, States

\* The columns of a row stay in their domains through every helper.
LEMMA RowTypes ==
  ASSUME NEW row \in Row
  PROVE  /\ Unleased(row) \in Row
         /\ \A to \in States : TransitionJob(row, to) \in Row
         /\ Requeued(row) \in Row
         /\ \A a \in Agent, t \in Token, e \in Nat : Lease(row, a, t, e) \in Row
  <1>1. /\ Unleased(row) \in Row
        /\ \A to \in States : TransitionJob(row, to) \in Row
    BY DEF Row, Unleased, TransitionJob, States
  <1>2. Requeued(row) \in Row
    BY DEF Row, Requeued, Unleased, TransitionJob, States, Terminal, Active, Waiting
  <1>3. \A a \in Agent, t \in Token, e \in Nat : Lease(row, a, t, e) \in Row
    <2>1. row.attempt + 1 \in Nat /\ row.revision + 1 \in Nat /\ "leased" \in States
      BY DEF Row, States, Active
    <2> QED BY <2>1 DEF Row, Lease
  <1> QED BY <1>1, <1>2, <1>3

\* What a transition keeps, and what it gives up.
LEMMA MoveEffect ==
  ASSUME NEW row \in Row, NEW to \in States
  PROVE  LET moved == TransitionJob(row, to) IN
         /\ moved.state = to
         /\ moved.key = row.key
         /\ moved.revision = row.revision
         /\ IF to \in Terminal \union {"interrupted"}
            THEN moved.token = None /\ moved.expires = 0
            ELSE moved.token = row.token /\ moved.expires = row.expires
  BY DEF TransitionJob, Unleased, Row

LEMMA RequeueEffect ==
  ASSUME NEW row \in Row
  PROVE  /\ Requeued(row).state = "queued"
         /\ Requeued(row).key = row.key
         /\ Requeued(row).revision = row.revision
         /\ Requeued(row).token = None
         /\ Requeued(row).expires = 0
  BY DEF Requeued, TransitionJob, Unleased, Row, Terminal

\* SaveRow's write touches the revision only.
LEMMA SavedEffect ==
  ASSUME NEW row \in Row
  PROVE  /\ Saved(row) \in Row
         /\ Saved(row).revision = row.revision + 1
         /\ Saved(row).state = row.state
         /\ Saved(row).key = row.key
         /\ Saved(row).token = row.token
         /\ Saved(row).expires = row.expires
  <1>1. row.revision + 1 \in Nat
    BY DEF Row
  <1> QED BY <1>1 DEF Row, Saved

LEMMA NoRowType == NoRow \in Row
  BY DEF NoRow, Row

-----------------------------------------------------------------------------
(* The kinds of steps.                                                     *)

\* j's row is inserted.
Inserts(j) ==
  /\ jobs[j].state = "absent"
  /\ \E k \in Key, at \in Nat :
       /\ ByKey(k) = {}
       /\ jobs' = [jobs EXCEPT ![j] = [NoRow EXCEPT !.state = "queued", !.key = k,
                                                    !.createdAt = at]]
  /\ UNCHANGED granted

\* j is leased under a token that was never granted.
Leases(j) ==
  \E a \in Agent, t \in Token, e \in Nat :
    /\ jobs[j].state \in Waiting
    /\ \A g \in granted : g.token # t
    /\ jobs' = [jobs EXCEPT ![j] = Lease(jobs[j], a, t, e)]
    /\ granted' = granted \union {[job |-> j, agent |-> a, token |-> t]}

\* j's lease gets another deadline.
Renews(j) ==
  /\ jobs[j].token # None
  /\ \E e \in Nat : jobs' = [jobs EXCEPT ![j].expires = e, ![j].revision = @ + 1]
  /\ UNCHANGED granted

\* j's holder moves it along the table.
Moves(j) ==
  /\ jobs[j].token # None
  /\ \E to \in Transitions[jobs[j].state] :
       jobs' = [jobs EXCEPT ![j] = Saved(TransitionJob(jobs[j], to))]
  /\ UNCHANGED granted

\* j is taken from a holder whose lease has expired.
Reclaims(j) ==
  /\ jobs[j].token # None
  /\ IsLeaseExpired(jobs[j], now)
  /\ jobs' = [jobs EXCEPT ![j] = Saved(Requeued(jobs[j]))]
  /\ UNCHANGED granted

Mutates(j) ==
  /\ Inserts(j) \/ Leases(j) \/ Renews(j) \/ Moves(j) \/ Reclaims(j)
  /\ events' = [events EXCEPT ![j] = @ + 1]
  /\ UNCHANGED now

LeavesTable ==
  /\ UNCHANGED <<jobs, events, granted>>
  /\ now' \in {now, now + 1}

\* Every step of the engine writes no row, or one row in one of the five ways.
LEMMA StepKinds ==
  ASSUME IInv, [Next]_vars
  PROVE  LeavesTable \/ \E j \in Job : Mutates(j)
  <1> USE DEF IInv
  <1>1. CASE UNCHANGED vars
    BY <1>1 DEF vars, LeavesTable
  <1>2. ASSUME NEW w \in Worker, Submit(w)
        PROVE  LeavesTable
    BY <1>2 DEF Submit, SubmitCreate, SubmitLease, SubmitHeartbeat,
                SubmitTransition, LeavesTable
  <1>3. ASSUME NEW w \in Worker, Handle(w)
        PROVE  LeavesTable \/ \E j \in Job : Mutates(j)
    <2>1. ASSUME NEW j \in Job, GrantLease(w, j)
          PROVE  Mutates(j)
      <3> DEFINE r == req[w]
      <3>1. /\ r.agent \in Agent /\ r.token \in Token /\ r.at + r.ttl \in Nat
            /\ \A g \in granted : g.token # r.token
        BY <2>1 DEF GrantLease, RequestsWellFormed, WellFormed, TokensFresh, IsLeasing, TypeOK, Request
      <3>2. jobs[j].state \in Waiting
        BY <2>1 DEF GrantLease, Leasable, Oldest, Claimable, IsClaimable
      <3>3. Leases(j)
        BY <2>1, <3>1, <3>2 DEF GrantLease, Leases
      <3> QED BY <2>1, <3>3 DEF GrantLease, Mutates
    <2>2. ASSUME CreateInsert(w)
          PROVE  \E j \in Job : Mutates(j)
      <3>1. req[w].job \in Job /\ req[w].key \in Key /\ req[w].at \in Nat
        BY <2>2 DEF CreateInsert, RequestsWellFormed, WellFormed, TypeOK, Request
      <3>2. Mutates(req[w].job)
        BY <2>2, <3>1 DEF CreateInsert, Mutates, Inserts
      <3> QED BY <3>1, <3>2
    <2>3. ASSUME Save(w)
          PROVE  \E j \in Job : Mutates(j)
      <3> DEFINE r == req[w]
                 j == r.job
      <3>1. /\ r.op \in {"heartbeat", "transition"} /\ r.step = "save"
            /\ CanSave(j, r.row) /\ SaveRow(j, r.row)
            /\ UNCHANGED <<granted, now>>
        BY <2>3 DEF Save
      <3>2. j \in Job /\ jobs[j] \in Row /\ r.at + r.ttl \in Nat
        BY <3>1 DEF RequestsWellFormed, WellFormed, TypeOK, Request
      <3>3. Owns(r, jobs[j])
        BY <3>1 DEF SaveIsCurrent, IsSaving, ComputedFrom
      <3>4. jobs[j].token # None
        BY <3>3 DEF Owns
      <3>5. CASE r.op = "heartbeat"
        <4>1. r.row = [jobs[j] EXCEPT !.expires = r.at + r.ttl]
          BY <3>1, <3>5 DEF SaveIsCurrent, IsSaving, ComputedFrom
        <4>2. Renews(j)
          BY <3>1, <3>2, <3>4, <4>1 DEF Renews, SaveRow, TypeOK, Row
        <4> QED BY <3>1, <3>2, <4>2 DEF Mutates, SaveRow
      <3>6. CASE r.op = "transition"
        <4>1. r.to \in Transitions[jobs[j].state] /\ r.row = TransitionJob(jobs[j], r.to)
          BY <3>1, <3>6 DEF SaveIsCurrent, IsSaving, ComputedFrom
        <4>2. Moves(j)
          BY <3>1, <3>2, <3>4, <4>1 DEF Moves, SaveRow, Saved
        <4> QED BY <3>1, <3>2, <4>2 DEF Mutates, SaveRow
      <3> QED BY <3>1, <3>5, <3>6
    <2>4. ASSUME \/ \E j \in Job : CreateExisting(w, j)
                 \/ CreateMissing(w) \/ CreateCollides(w) \/ RefuseLease(w)
                 \/ Load(w) \/ Refuse(w) \/ SaveConflict(w)
          PROVE  LeavesTable
      BY <2>4 DEF CreateExisting, CreateMissing, CreateCollides, RefuseLease, Load,
                  Refuse, SaveConflict, LeavesTable
    <2> QED BY <1>3, <2>1, <2>2, <2>3, <2>4 DEF Handle
  <1>4. ASSUME NEW s \in Sweeper, Sweep(s)
        PROVE  LeavesTable \/ \E j \in Job : Mutates(j)
    <2>1. CASE SweepList(s)
      BY <2>1 DEF SweepList, LeavesTable
    <2>2. CASE SweepSave(s)
      <3>1. PICK p \in NextListed(s) :
              /\ \/ CanSave(p.job, p.row) /\ SaveRow(p.job, Requeued(p.row))
                 \/ UNCHANGED <<jobs, events>>
              /\ UNCHANGED <<granted, now>>
        BY <2>2 DEF SweepSave
      <3>2. /\ p \in listed[s] /\ p.job \in Job
            /\ p.row.token # None /\ IsLeaseExpired(p.row, now)
        BY <3>1 DEF NextListed, ListedExpired, TypeOK, ListedRow
      <3>3. CASE CanSave(p.job, p.row) /\ SaveRow(p.job, Requeued(p.row))
        <4>1. p.row = jobs[p.job]
          BY <3>2, <3>3 DEF SaveIsCurrent
        <4>2. Mutates(p.job)
          BY <3>1, <3>2, <3>3, <4>1 DEF Mutates, Reclaims, SaveRow, Saved, TypeOK
        <4> QED BY <3>2, <4>2
      <3> QED BY <3>1, <3>3 DEF LeavesTable
    <2> QED BY <1>4, <2>1, <2>2 DEF Sweep
  <1>5. CASE Tick \/ Restart
    BY <1>5 DEF Tick, Restart, LeavesTable
  <1> QED BY <1>1, <1>2, <1>3, <1>4, <1>5 DEF Next

-----------------------------------------------------------------------------
(* What a mutation does to the table.                                      *)

LEMMA MutatedRow ==
  ASSUME IInv, NEW j \in Job, Mutates(j)
  PROVE  /\ jobs' \in [Job -> Row]
         /\ \A i \in Job \ {j} : jobs'[i] = jobs[i]
         /\ jobs'[j].state # "absent"
         /\ jobs'[j].token # None <=> jobs'[j].state \in Active
         /\ jobs'[j].token = None => jobs'[j].expires = 0
         /\ IF jobs[j].state = "absent"
            THEN jobs'[j].revision = 0
            ELSE /\ jobs'[j].revision = jobs[j].revision + 1
                 /\ jobs'[j].key = jobs[j].key
  <1>1. /\ jobs \in [Job -> Row] /\ jobs[j] \in Row
        /\ jobs[j].token # None <=> jobs[j].state \in Active
        /\ jobs[j].token = None => jobs[j].expires = 0
    BY DEF IInv, TypeOK, LeaseOnlyWhileActive, LeaseColumns
  <1>2. CASE Inserts(j)
    <2>1. PICK k \in Key, at \in Nat :
            jobs' = [jobs EXCEPT ![j] = [NoRow EXCEPT !.state = "queued", !.key = k,
                                                      !.createdAt = at]]
      BY <1>2 DEF Inserts
    <2> QED BY <1>1, <1>2, <2>1 DEF Inserts, NoRow, Row, States, Waiting, Terminal, Active
  <1>3. CASE Leases(j)
    <2>1. PICK a \in Agent, t \in Token, e \in Nat :
            jobs[j].state \in Waiting /\ jobs' = [jobs EXCEPT ![j] = Lease(jobs[j], a, t, e)]
      BY <1>3 DEF Leases
    <2>2. Lease(jobs[j], a, t, e) \in Row
      BY <1>1, RowTypes
    <2>3. t # None
      BY NoneAssumption
    <2> QED BY <1>1, <2>1, <2>2, <2>3 DEF Lease, Row, Waiting, Active
  <1>4. CASE Renews(j)
    BY <1>1, <1>4 DEF Renews, Row, Active
  <1>5. CASE Moves(j)
    <2>1. PICK to \in Transitions[jobs[j].state] :
            jobs' = [jobs EXCEPT ![j] = Saved(TransitionJob(jobs[j], to))]
      BY <1>5 DEF Moves
    <2>2. to \in (Active \ {"leased"}) \union Terminal \union {"interrupted"}
      BY <1>1, <1>5, <2>1, ActiveMoves DEF Moves
    <2>3. to \in States /\ TransitionJob(jobs[j], to) \in Row
      BY <1>1, <2>2, RowTypes DEF States, Waiting
    <2>4. jobs'[j] = Saved(TransitionJob(jobs[j], to))
      BY <1>1, <2>1
    <2>5. jobs[j].state \in Active
      BY <1>1, <1>5 DEF Moves
    <2>6. /\ jobs'[j].state = to
          /\ jobs'[j].token # None <=> jobs'[j].state \in Active
          /\ jobs'[j].token = None => jobs'[j].expires = 0
      BY <1>1, <2>2, <2>3, <2>4, <2>5, MoveEffect, SavedEffect DEF Active, Terminal
    <2>7. jobs'[j].revision = jobs[j].revision + 1 /\ jobs'[j].key = jobs[j].key
      BY <1>1, <2>3, <2>4, MoveEffect, SavedEffect
    <2>8. jobs' \in [Job -> Row] /\ \A i \in Job \ {j} : jobs'[i] = jobs[i]
      BY <1>1, <2>1, <2>3, SavedEffect
    <2> QED BY <2>2, <2>5, <2>6, <2>7, <2>8 DEF Active, Terminal
  <1>6. CASE Reclaims(j)
    <2>1. Requeued(jobs[j]) \in Row
      BY <1>1, RowTypes
    <2>2. /\ jobs' = [jobs EXCEPT ![j] = Saved(Requeued(jobs[j]))]
          /\ jobs'[j] = Saved(Requeued(jobs[j]))
          /\ jobs[j].state \in Active
      BY <1>1, <1>6 DEF Reclaims
    <2>3. /\ jobs'[j].state = "queued" /\ jobs'[j].token = None /\ jobs'[j].expires = 0
          /\ jobs'[j].revision = jobs[j].revision + 1 /\ jobs'[j].key = jobs[j].key
      BY <1>1, <2>1, <2>2, RequeueEffect, SavedEffect
    <2>4. jobs' \in [Job -> Row] /\ \A i \in Job \ {j} : jobs'[i] = jobs[i]
      BY <1>1, <2>1, <2>2, SavedEffect
    <2> QED BY <2>2, <2>3, <2>4 DEF Active
  <1> QED BY <1>2, <1>3, <1>4, <1>5, <1>6 DEF Mutates

\* The table's own invariants survive every step.
LEMMA TableStep ==
  ASSUME IInv, [Next]_vars
  PROVE  /\ jobs' \in [Job -> Row]
         /\ events' \in [Job -> Nat]
         /\ granted' \subseteq [job : Job, agent : Agent, token : Token]
         /\ now' \in Nat /\ now <= now'
         /\ LeaseOnlyWhileActive'
         /\ EventPerMutation'
         /\ \A j \in Job : jobs'[j].token = None => jobs'[j].expires = 0
  <1>1. CASE LeavesTable
    BY <1>1 DEF LeavesTable, IInv, TypeOK, LeaseOnlyWhileActive, EventPerMutation,
                LeaseColumns
  <1>2. ASSUME NEW j \in Job, Mutates(j)
        PROVE  /\ jobs' \in [Job -> Row]
               /\ events' \in [Job -> Nat]
               /\ granted' \subseteq [job : Job, agent : Agent, token : Token]
               /\ now' = now
               /\ LeaseOnlyWhileActive'
               /\ EventPerMutation'
               /\ \A i \in Job : jobs'[i].token = None => jobs'[i].expires = 0
    <2>1. /\ events \in [Job -> Nat] /\ jobs \in [Job -> Row]
          /\ events' = [events EXCEPT ![j] = @ + 1] /\ now' = now
      BY <1>2 DEF IInv, TypeOK, Mutates
    <2>2. events' \in [Job -> Nat]
      BY <2>1
    <2>3. granted' \subseteq [job : Job, agent : Agent, token : Token]
      <3>1. granted \subseteq [job : Job, agent : Agent, token : Token]
        BY DEF IInv, TypeOK
      <3>2. CASE UNCHANGED granted
        BY <3>1, <3>2
      <3>3. CASE Leases(j)
        BY <3>1, <3>3 DEF Leases
      <3> QED BY <1>2, <3>2, <3>3 DEF Mutates, Inserts, Renews, Moves, Reclaims
    <2>4. LeaseOnlyWhileActive'
      BY <1>2, MutatedRow DEF IInv, LeaseOnlyWhileActive
    <2>5. EventPerMutation'
      <3> SUFFICES ASSUME NEW i \in Job
                   PROVE  events'[i] = IF jobs'[i].state = "absent" THEN 0
                                       ELSE jobs'[i].revision + 1
        BY DEF EventPerMutation
      <3>1. events[i] = IF jobs[i].state = "absent" THEN 0 ELSE jobs[i].revision + 1
        BY DEF IInv, EventPerMutation
      <3>2. jobs[i].revision \in Nat
        BY <2>1 DEF Row
      <3> QED BY <1>2, <2>1, <3>1, <3>2, MutatedRow
    <2>6. \A i \in Job : jobs'[i].token = None => jobs'[i].expires = 0
      BY <1>2, MutatedRow DEF IInv, LeaseColumns
    <2> QED BY <1>2, <2>1, <2>2, <2>3, <2>4, <2>5, <2>6, MutatedRow
  <1> QED BY <1>1, <1>2, StepKinds DEF IInv, TypeOK

\* A row that was read stays behind the table; if it is still current, then
\* nobody has written the table's row since.
LEMMA SnapshotStep ==
  ASSUME IInv, [Next]_vars, NEW j \in Job, NEW row \in Row, NotAhead(j, row)
  PROVE  /\ jobs'[j].state # "absent" /\ row.revision <= jobs'[j].revision
         /\ jobs'[j].revision = row.revision =>
              jobs'[j] = jobs[j] /\ jobs[j].revision = row.revision
  <1>1. jobs[j].revision \in Nat /\ row.revision \in Nat
    BY DEF IInv, TypeOK, Row
  <1>2. CASE LeavesTable
    BY <1>2 DEF LeavesTable, NotAhead
  <1>3. ASSUME NEW i \in Job, Mutates(i)
        PROVE  /\ jobs'[j].state # "absent" /\ row.revision <= jobs'[j].revision
               /\ jobs'[j].revision = row.revision =>
                    jobs'[j] = jobs[j] /\ jobs[j].revision = row.revision
    BY <1>1, <1>3, MutatedRow DEF NotAhead
  <1> QED BY <1>2, <1>3, StepKinds

-----------------------------------------------------------------------------
(* What a step does to the requests in progress.                           *)

\* A request arrives; a lease request brings a token nobody generated before.
Arrives(r) ==
  /\ r.step = "load"
  /\ WellFormed(r)
  /\ IF IsLeasing(r) THEN r.token \notin issued /\ issued' = issued \union {r.token}
                     ELSE UNCHANGED issued
  /\ UNCHANGED granted

\* The handler of r has read the row and holds the one it wants to save.
Holds(r) ==
  /\ r.job \in Job
  /\ ComputedFrom(r, jobs[r.job])
  /\ UNCHANGED <<jobs, issued, granted>>

\* A leasing request ends by granting its token, or not; no other request
\* grants anything.
Ends(r) ==
  /\ UNCHANGED issued
  /\ \/ UNCHANGED granted
     \/ IsLeasing(r) /\ \E j \in Job :
          granted' = granted \union {[job |-> j, agent |-> r.agent, token |-> r.token]}

\* The request of w becomes r.
RequestStep(w, r) ==
  /\ r \in Request
  /\ req' = [req EXCEPT ![w] = r]
  /\ \/ r = Idle /\ Ends(req[w])
     \/ Arrives(r)
     \/ req[w].op = "create" /\ r = [req[w] EXCEPT !.step = "save"]
        /\ UNCHANGED <<issued, granted>>
     \/ Holds(r)

LEMMA IdleRequest == Idle \in Request /\ WellFormed(Idle) /\ ~IsLeasing(Idle)
                     /\ ~IsSaving(Idle)
  BY NoRowType DEF Idle, Request, Ops, WellFormed, IsLeasing, IsSaving

LEMMA RequestKinds ==
  ASSUME IInv, [Next]_vars
  PROVE  \/ UNCHANGED <<req, issued, granted>>
         \/ req' = [w \in Worker |-> Idle] /\ UNCHANGED <<issued, granted>>
         \/ \E w \in Worker, r \in Request : RequestStep(w, r)
  <1>1. CASE UNCHANGED vars
    BY <1>1 DEF vars
  <1>2. ASSUME NEW w \in Worker, Submit(w)
        PROVE  \E r \in Request : RequestStep(w, r)
    <2> DEFINE r == req'[w]
    <2>0. /\ req \in [Worker -> Request] /\ now \in Nat
          /\ granted \subseteq [job : Job, agent : Agent, token : Token]
          /\ Ttl \subseteq Nat
      BY BoundsAssumption DEF IInv, TypeOK
    <2>1. ASSUME NEW j \in Job, NEW k \in Key, SubmitCreate(w, j, k)
          PROVE  RequestStep(w, r) /\ r \in Request
      BY <2>0, <2>1, IdleRequest DEF SubmitCreate, RequestStep, Arrives, Request, Ops, Idle,
                        WellFormed, IsLeasing
    <2>2. ASSUME NEW op \in {"acquire", "claim"}, NEW j \in Job \union {None},
                 op = "acquire" => j \in Job,
                 NEW a \in Agent, NEW t \in Token, NEW ttl \in Ttl,
                 SubmitLease(w, op, j, a, t, ttl)
          PROVE  RequestStep(w, r) /\ r \in Request
      BY <2>0, <2>2, IdleRequest DEF SubmitLease, RequestStep, Arrives, Request, Ops, Idle,
                        WellFormed, IsLeasing
    <2>3. ASSUME NEW g \in granted, NEW ttl \in Ttl, SubmitHeartbeat(w, g, ttl)
          PROVE  RequestStep(w, r) /\ r \in Request
      BY <2>0, <2>3, IdleRequest DEF SubmitHeartbeat, RequestStep, Arrives, Request, Ops, Idle,
                        WellFormed, IsLeasing
    <2>4. ASSUME NEW g \in granted, NEW to \in Target, SubmitTransition(w, g, to)
          PROVE  RequestStep(w, r) /\ r \in Request
      BY <2>0, <2>4, IdleRequest DEF SubmitTransition, RequestStep, Arrives, Request, Ops, Idle,
                        WellFormed, IsLeasing
    <2> QED BY <1>2, <2>1, <2>2, <2>3, <2>4 DEF Submit
  <1>3. ASSUME NEW w \in Worker, Handle(w)
        PROVE  \E r \in Request : RequestStep(w, r)
    <2>0. req \in [Worker -> Request] /\ req[w] \in Request
      BY DEF IInv, TypeOK
    <2>1. ASSUME \/ \E j \in Job : CreateExisting(w, j) \/ GrantLease(w, j)
                 \/ CreateInsert(w) \/ CreateCollides(w) \/ RefuseLease(w)
                 \/ Refuse(w) \/ Save(w) \/ SaveConflict(w)
          PROVE  RequestStep(w, Idle)
      BY <2>1, IdleRequest DEF CreateExisting, GrantLease, CreateInsert, CreateCollides,
         RefuseLease, Refuse, Save, SaveConflict, Done, RequestStep, Ends, IsLeasing
    <2>2. ASSUME CreateMissing(w)
          PROVE  RequestStep(w, [req[w] EXCEPT !.step = "save"])
      BY <2>0, <2>2 DEF CreateMissing, RequestStep, Request
    <2>3. ASSUME Load(w)
          PROVE  \E r \in Request : RequestStep(w, r)
      <3> DEFINE r == req[w]
                 row == jobs[r.job]
                 Held(next) == [r EXCEPT !.step = "save", !.row = next]
      <3>1. /\ r.step = "load" /\ UNCHANGED <<jobs, issued, granted>>
            /\ r.op \in {"heartbeat", "transition"}
        BY <2>3 DEF Load
      <3>2. r.job \in Job /\ row \in Row /\ r.at + r.ttl \in Nat
        BY <3>1 DEF IInv, TypeOK, RequestsWellFormed, WellFormed, Request
      <3>3. CASE r.op = "heartbeat"
        <4> DEFINE next == [row EXCEPT !.expires = r.at + r.ttl]
        <4>1. req' = [req EXCEPT ![w] = Held(next)] /\ Owns(r, row)
          BY <2>0, <2>3, <3>3 DEF Load, MayRenew
        <4>2. next \in Row
          BY <3>2 DEF Row
        <4>22. \A n \in Row : Held(n) \in Request
          BY <2>0 DEF Request
        <4>3. Holds(Held(next))
          BY <2>0, <3>1, <3>2, <3>3, <4>1, <4>2 DEF Holds, ComputedFrom, Owns, Request
        <4> QED BY <4>1, <4>2, <4>22, <4>3 DEF RequestStep
      <3>4. CASE r.op = "transition"
        <4> DEFINE next == TransitionJob(row, r.to)
        <4>1. req' = [req EXCEPT ![w] = Held(next)] /\ MayMove(r, row)
          BY <2>0, <2>3, <3>4 DEF Load
        <4>2. row.state \in Active
          BY <3>2, <4>1 DEF MayMove, Owns, IInv, LeaseOnlyWhileActive
        <4>3. r.to \in States
          BY <4>1, <4>2, ActiveMoves DEF MayMove, States, Waiting
        <4>4. next \in Row /\ Held(next) \in Request
          BY <2>0, <3>2, <4>3, RowTypes DEF Request
        <4>5. Holds(Held(next))
          BY <2>0, <3>1, <3>2, <3>4, <4>1, <4>4
             DEF Holds, ComputedFrom, MayMove, Owns, Request
        <4> QED BY <4>1, <4>4, <4>5 DEF RequestStep
      <3> QED BY <3>1, <3>3, <3>4
    <2> QED BY <1>3, <2>0, <2>1, <2>2, <2>3, IdleRequest DEF Handle, RequestStep
  <1>4. ASSUME NEW s \in Sweeper, Sweep(s)
        PROVE  UNCHANGED <<req, issued, granted>>
    BY <1>4 DEF Sweep, SweepList, SweepSave
  <1>5. CASE Tick
    BY <1>5 DEF Tick
  <1>6. CASE Restart
    BY <1>6 DEF Restart
  <1> QED BY <1>1, <1>2, <1>3, <1>4, <1>5, <1>6 DEF Next

-----------------------------------------------------------------------------
(* The invariant is inductive.                                             *)

LEMMA RequestsStep ==
  ASSUME IInv, [Next]_vars
  PROVE  /\ req' \in [Worker -> Request]
         /\ issued' \subseteq Token
         /\ RequestsWellFormed'
  <1>0. /\ req \in [Worker -> Request] /\ issued \subseteq Token
        /\ \A w \in Worker : WellFormed(req[w])
    BY DEF IInv, TypeOK, RequestsWellFormed
  <1>1. CASE UNCHANGED <<req, issued, granted>>
    BY <1>0, <1>1 DEF RequestsWellFormed, WellFormed, IsLeasing
  <1>2. CASE req' = [w \in Worker |-> Idle] /\ UNCHANGED <<issued, granted>>
    BY <1>0, <1>2, IdleRequest DEF RequestsWellFormed, WellFormed, IsLeasing
  <1>3. ASSUME NEW w \in Worker, NEW r \in Request, RequestStep(w, r)
        PROVE  /\ req' \in [Worker -> Request]
               /\ issued' \subseteq Token
               /\ RequestsWellFormed'
    <2>1. req' = [req EXCEPT ![w] = r]
      BY <1>3 DEF RequestStep
    <2>2. WellFormed(r) /\ issued' \subseteq Token
      <3>1. CASE r = Idle /\ Ends(req[w])
        BY <1>0, <3>1, IdleRequest DEF Ends
      <3>2. CASE Arrives(r)
        BY <1>0, <3>2 DEF Arrives, WellFormed
      <3>3. CASE /\ req[w].op = "create" /\ r = [req[w] EXCEPT !.step = "save"]
                 /\ UNCHANGED <<issued, granted>>
        BY <1>0, <3>3 DEF WellFormed, IsLeasing, Request
      <3>4. CASE Holds(r)
        BY <1>0, <3>4 DEF Holds, ComputedFrom, WellFormed, IsLeasing
      <3> QED BY <1>3, <3>1, <3>2, <3>3, <3>4 DEF RequestStep
    <2>3. \A v \in Worker : WellFormed(req'[v])
      BY <1>0, <2>1, <2>2
    <2>4. RequestsWellFormed'
      BY <2>3 DEF RequestsWellFormed, WellFormed, IsLeasing
    <2> QED BY <1>0, <2>1, <2>2, <2>4
  <1> QED BY <1>1, <1>2, <1>3, RequestKinds

LEMMA TokensStep ==
  ASSUME IInv, [Next]_vars
  PROVE  TokensFresh'
  <1>0. req \in [Worker -> Request] /\ TokensFresh
    BY DEF IInv, TypeOK
  <1>1. CASE UNCHANGED <<req, issued, granted>>
    BY <1>0, <1>1 DEF TokensFresh, IsLeasing
  <1>2. CASE req' = [w \in Worker |-> Idle] /\ UNCHANGED <<issued, granted>>
    BY <1>0, <1>2 DEF TokensFresh, IsLeasing, Idle
  <1>3. ASSUME NEW w \in Worker, NEW r \in Request, RequestStep(w, r)
        PROVE  TokensFresh'
    <2>1. req' = [req EXCEPT ![w] = r]
      BY <1>3 DEF RequestStep
    <2>2. CASE r = Idle /\ Ends(req[w])
      <3>1. /\ issued' = issued
            /\ \A v \in Worker : IsLeasing(req'[v]) => v # w /\ req'[v] = req[v]
        BY <1>0, <2>1, <2>2, IdleRequest DEF Ends
      <3>2. \A g \in granted' :
               g \in granted \/ (IsLeasing(req[w]) /\ g.token = req[w].token)
        BY <2>2 DEF Ends
      <3> QED BY <1>0, <3>1, <3>2 DEF TokensFresh, IsLeasing
    <2>3. CASE Arrives(r)
      <3>1. \A v \in Worker : req'[v] = IF v = w THEN r ELSE req[v]
        BY <1>0, <2>1
      <3>2. CASE IsLeasing(r)
        <4>1. /\ r.token \notin issued /\ issued' = issued \union {r.token}
              /\ granted' = granted
          BY <2>3, <3>2 DEF Arrives
        <4> QED BY <1>0, <3>1, <4>1 DEF TokensFresh, IsLeasing
      <3>3. CASE ~IsLeasing(r)
        <4>1. issued' = issued /\ granted' = granted
          BY <2>3, <3>3 DEF Arrives
        <4> QED BY <1>0, <3>1, <3>3, <4>1 DEF TokensFresh, IsLeasing
      <3> QED BY <3>2, <3>3
    <2>4. CASE /\ UNCHANGED <<issued, granted>>
               /\ ~IsLeasing(r)
      <3>1. \A v \in Worker : req'[v] = IF v = w THEN r ELSE req[v]
        BY <1>0, <2>1
      <3> QED BY <1>0, <2>4, <3>1 DEF TokensFresh, IsLeasing
    <2>6. CASE /\ req[w].op = "create" /\ r = [req[w] EXCEPT !.step = "save"]
               /\ UNCHANGED <<issued, granted>>
      <3>1. ~IsLeasing(r)
        BY <1>0, <2>6 DEF IsLeasing, Request
      <3> QED BY <2>4, <2>6, <3>1
    <2>7. CASE Holds(r)
      <3>1. ~IsLeasing(r) /\ UNCHANGED <<issued, granted>>
        BY <2>7 DEF IsLeasing, Holds, ComputedFrom
      <3> QED BY <2>4, <3>1
    <2> QED BY <1>3, <2>2, <2>3, <2>6, <2>7 DEF RequestStep
  <1> QED BY <1>1, <1>2, <1>3, RequestKinds

\* A handler still holds what it would compute from the table's row, unless
\* the table's row has moved on.
LEMMA SavingStep ==
  ASSUME IInv, [Next]_vars, NEW v \in Worker, IsSaving(req'[v])
  PROVE  LET q == req'[v] IN
         /\ jobs'[q.job].state # "absent" /\ q.row.revision <= jobs'[q.job].revision
         /\ jobs'[q.job].revision = q.row.revision => ComputedFrom(q, jobs'[q.job])
  <1>0. req \in [Worker -> Request] /\ req'[v] \in Request
    BY RequestsStep DEF IInv, TypeOK
  <1> SUFFICES ASSUME NEW q \in Request, q = req'[v]
               PROVE  /\ jobs'[q.job].state # "absent"
                      /\ q.row.revision <= jobs'[q.job].revision
                      /\ jobs'[q.job].revision = q.row.revision
                         => ComputedFrom(q, jobs'[q.job])
    BY <1>0
  <1>1. CASE q = req[v]
    <2>1. q.job \in Job /\ q.row \in Row /\ NotAhead(q.job, q.row)
      BY <1>0, <1>1 DEF IInv, RequestsWellFormed, WellFormed, SnapshotsBehind, IsSaving,
                        Request
    <2>2. jobs[q.job].revision = q.row.revision => ComputedFrom(q, jobs[q.job])
      BY <1>1 DEF IInv, SaveIsCurrent, CanSave
    <2> QED BY <2>1, <2>2, SnapshotStep
  <1>2. CASE q # req[v]
    <2>1. PICK w \in Worker, r \in Request : RequestStep(w, r)
      <3>1. ~(req' = [w \in Worker |-> Idle])
        BY IdleRequest
      <3> QED BY <1>2, <3>1, RequestKinds
    <2>2. r = q /\ w = v
      BY <1>0, <1>2, <2>1 DEF RequestStep
    <2>3. Holds(q)
      BY <1>0, <2>1, <2>2, IdleRequest DEF RequestStep, Arrives, IsSaving, Request
    <2>4. q.job \in Job /\ jobs' = jobs /\ jobs[q.job] \in Row
          /\ ComputedFrom(q, jobs[q.job])
      BY <2>3 DEF Holds, IInv, TypeOK
    <2>5. jobs[q.job].state # "absent"
      BY <2>4 DEF ComputedFrom, Owns, IInv, LeaseOnlyWhileActive, Active
    <2>6. q.row.revision = jobs[q.job].revision
      <3>1. CASE q.row = [jobs[q.job] EXCEPT !.expires = q.at + q.ttl]
        BY <2>4, <3>1 DEF Row
      <3>2. CASE q.row = TransitionJob(jobs[q.job], q.to)
                 /\ q.to \in Transitions[jobs[q.job].state]
        <4>1. q.to \in States
          BY <2>4, <3>2, ActiveMoves
             DEF ComputedFrom, Owns, IInv, LeaseOnlyWhileActive, States, Waiting
        <4> QED BY <2>4, <3>2, <4>1, MoveEffect
      <3> QED BY <2>4, <3>1, <3>2 DEF ComputedFrom
    <2>7. jobs[q.job].revision \in Nat
      BY <2>4 DEF Row
    <2> QED BY <2>4, <2>5, <2>6, <2>7
  <1> QED BY <1>1, <1>2

\* The rows a recovery pass has listed: each was listed before, or was just read
\* from the table because its lease has expired.
LEMMA ListedStep ==
  ASSUME IInv, [Next]_vars
  PROVE  /\ listed' \in [Sweeper -> SUBSET ListedRow]
         /\ \A s \in Sweeper : \A p \in listed'[s] :
              /\ p.job \in Job /\ p.row \in Row
              /\ p.row.token # None /\ IsLeaseExpired(p.row, now')
              /\ jobs'[p.job].state # "absent"
              /\ p.row.revision <= jobs'[p.job].revision
              /\ jobs'[p.job].revision = p.row.revision => p.row = jobs'[p.job]
  <1>0. /\ listed \in [Sweeper -> SUBSET ListedRow] /\ jobs \in [Job -> Row]
        /\ now \in Nat /\ now' \in Nat /\ now <= now'
    BY TableStep DEF IInv, TypeOK
  <1>1. /\ listed' \in [Sweeper -> SUBSET ListedRow]
        /\ \A s \in Sweeper : \A p \in listed'[s] :
             \/ p \in listed[s]
             \/ /\ p \in ListedRow /\ p.job \in Expired(now) /\ p.row = jobs[p.job]
                /\ jobs' = jobs
    <2>1. CASE UNCHANGED listed
      BY <1>0, <2>1
    <2>2. CASE Restart
      BY <2>2 DEF Restart
    <2>3. ASSUME NEW s \in Sweeper, SweepSave(s)
          PROVE  /\ listed' \in [Sweeper -> SUBSET ListedRow]
                 /\ \A i \in Sweeper : listed'[i] \subseteq listed[i]
      BY <1>0, <2>3 DEF SweepSave
    <2>4. ASSUME NEW s \in Sweeper, SweepList(s)
          PROVE  /\ listed' \in [Sweeper -> SUBSET ListedRow]
                 /\ \A i \in Sweeper : \A p \in listed'[i] :
                      \/ p \in listed[i]
                      \/ /\ p \in ListedRow /\ p.job \in Expired(now)
                         /\ p.row = jobs[p.job] /\ jobs' = jobs
      <3>1. PICK P \in SUBSET Expired(now) :
              /\ listed' = [listed EXCEPT ![s] =
                              {[job |-> j, row |-> jobs[j]] : j \in P}]
              /\ jobs' = jobs
        BY <2>4 DEF SweepList
      <3>2. P \subseteq Job
        BY <3>1 DEF Expired
      <3>3. {[job |-> j, row |-> jobs[j]] : j \in P} \subseteq ListedRow
        BY <1>0, <3>2 DEF ListedRow
      <3> QED BY <1>0, <3>1, <3>3
    <2>5. ASSUME NEW w \in Worker, Submit(w) \/ Handle(w)
          PROVE  UNCHANGED listed
      BY <2>5 DEF Submit, Handle, SubmitCreate, SubmitLease, SubmitHeartbeat,
         SubmitTransition, CreateExisting, CreateMissing, CreateInsert, CreateCollides,
         GrantLease, RefuseLease, Load, Refuse, Save, SaveConflict
    <2> QED BY <2>1, <2>2, <2>3, <2>4, <2>5 DEF Next, Sweep, Tick, vars
  <1>2. ASSUME NEW s \in Sweeper, NEW p \in listed'[s]
        PROVE  /\ p.job \in Job /\ p.row \in Row
               /\ p.row.token # None /\ IsLeaseExpired(p.row, now')
               /\ jobs'[p.job].state # "absent"
               /\ p.row.revision <= jobs'[p.job].revision
               /\ jobs'[p.job].revision = p.row.revision => p.row = jobs'[p.job]
    <2>1. p.job \in Job /\ p.row \in Row
      BY <1>1, <1>2 DEF ListedRow
    <2>2. CASE p \in listed[s]
      <3>1. /\ p.row.token # None /\ p.row.expires <= now
            /\ NotAhead(p.job, p.row)
            /\ jobs[p.job].revision = p.row.revision => p.row = jobs[p.job]
        BY <2>2 DEF IInv, ListedExpired, IsLeaseExpired, SnapshotsBehind, SaveIsCurrent,
                    CanSave
      <3>2. p.row.expires \in Nat
        BY <2>1 DEF Row
      <3> QED BY <1>0, <2>1, <3>1, <3>2, SnapshotStep DEF IsLeaseExpired
    <2>3. CASE p.job \in Expired(now) /\ p.row = jobs[p.job] /\ jobs' = jobs
      <3>1. /\ p.row.token # None /\ p.row.expires <= now
            /\ p.row.revision \in Nat /\ p.row.expires \in Nat
        BY <2>1, <2>3 DEF Expired, IsLeaseExpired, Row
      <3>2. p.row.state # "absent"
        BY <2>1, <2>3, <3>1 DEF IInv, LeaseOnlyWhileActive, Active
      <3> QED BY <1>0, <2>1, <2>3, <3>1, <3>2 DEF IsLeaseExpired
    <2> QED BY <1>1, <1>2, <2>2, <2>3
  <1> QED BY <1>1, <1>2

\* An answer is given when the row with its key is in the table, and keys of
\* rows are neither changed nor given twice.
LEMMA AnswersStep ==
  ASSUME IInv, [Next]_vars
  PROVE  /\ answers' \subseteq Key \X Job
         /\ KeysUnique'
         /\ \A j \in Job : jobs'[j].state = "absent" => jobs'[j].key = None
         /\ restarts' \in Nat
  <1>0. /\ answers \subseteq Key \X Job /\ jobs \in [Job -> Row] /\ restarts \in Nat
        /\ \A i, j \in Job : jobs[i].key = jobs[j].key /\ jobs[i].key # None => i = j
        /\ \A x \in answers : jobs[x[2]].key = x[1] /\ x[2] \in Job /\ x[1] # None
        /\ \A j \in Job : jobs[j].state = "absent" => jobs[j].key = None
    BY NoneAssumption DEF IInv, TypeOK, KeysUnique, LeaseColumns
  <1>1. /\ \A i, j \in Job : jobs'[i].key = jobs'[j].key /\ jobs'[i].key # None => i = j
        /\ \A x \in answers : jobs'[x[2]].key = x[1]
        /\ \A j \in Job : jobs'[j].state = "absent" => jobs'[j].key = None
    <2>1. CASE LeavesTable
      BY <1>0, <2>1 DEF LeavesTable
    <2>2. ASSUME NEW j \in Job, Mutates(j)
          PROVE  /\ \A x \in answers : jobs'[x[2]].key = x[1]
                 /\ \A i, l \in Job : jobs'[i].key = jobs'[l].key /\ jobs'[i].key # None
                                      => i = l
                 /\ \A i \in Job : jobs'[i].state = "absent" => jobs'[i].key = None
      <3>1. CASE jobs[j].state = "absent"
        <4>1. Inserts(j)
          BY <2>2, <1>0, <3>1 DEF Mutates, Leases, Renews, Moves, Reclaims, Waiting,
             IInv, LeaseOnlyWhileActive, Active
        <4>2. PICK k \in Key, at \in Nat :
                /\ ByKey(k) = {}
                /\ jobs' = [jobs EXCEPT ![j] = [NoRow EXCEPT !.state = "queued", !.key = k,
                                                             !.createdAt = at]]
          BY <4>1 DEF Inserts
        <4>3. jobs'[j].key = k /\ k # None
          BY <1>0, <4>2, NoneAssumption DEF NoRow
        <4>4. \A i \in Job : jobs[i].key # k
          BY <4>2 DEF ByKey
        <4> QED BY <1>0, <2>2, <3>1, <4>3, <4>4, MutatedRow
      <3>2. CASE jobs[j].state # "absent"
        BY <1>0, <2>2, <3>2, MutatedRow
      <3> QED BY <3>1, <3>2
    <2> QED BY <2>1, <2>2, StepKinds
  <1>2. \A x \in answers' \ answers : x \in Key \X Job /\ jobs'[x[2]].key = x[1]
    <2>1. ASSUME NEW w \in Worker, NEW j \in Job, CreateExisting(w, j)
          PROVE  \A x \in answers' \ answers : x \in Key \X Job /\ jobs'[x[2]].key = x[1]
      <3>1. req[w].key \in Key
        BY <2>1 DEF CreateExisting, IInv, RequestsWellFormed, WellFormed
      <3> QED BY <2>1, <3>1 DEF CreateExisting, ByKey
    <2>2. ASSUME NEW w \in Worker, CreateInsert(w)
          PROVE  \A x \in answers' \ answers : x \in Key \X Job /\ jobs'[x[2]].key = x[1]
      <3>1. req[w].key \in Key /\ req[w].job \in Job
        BY <2>2 DEF CreateInsert, IInv, RequestsWellFormed, WellFormed
      <3>2. jobs'[req[w].job].key = req[w].key
        BY <1>0, <2>2, <3>1 DEF CreateInsert, NoRow
      <3> QED BY <2>2, <3>1, <3>2 DEF CreateInsert
    <2>3. ASSUME NEW w \in Worker,
                 \/ Submit(w) \/ \E j \in Job : GrantLease(w, j)
                 \/ CreateMissing(w) \/ CreateCollides(w) \/ RefuseLease(w)
                 \/ Load(w) \/ Refuse(w) \/ Save(w) \/ SaveConflict(w)
          PROVE  UNCHANGED answers
      BY <2>3 DEF Submit, SubmitCreate, SubmitLease, SubmitHeartbeat,
         SubmitTransition, CreateMissing, CreateCollides,
         GrantLease, RefuseLease, Load, Refuse, Save, SaveConflict
    <2>4. CASE UNCHANGED answers
      BY <2>4
    <2>5. ASSUME NEW s \in Sweeper, Sweep(s)
          PROVE  UNCHANGED answers
      BY <2>5 DEF Sweep, SweepList, SweepSave
    <2>6. CASE Tick \/ Restart \/ UNCHANGED vars
      BY <2>6 DEF Tick, Restart, vars
    <2> QED BY <2>1, <2>2, <2>3, <2>4, <2>5, <2>6 DEF Next, Handle
  <1>3. restarts' \in Nat
    <2>1. restarts' = restarts \/ restarts' = restarts + 1
      BY DEF Next, Submit, Handle, Sweep, Tick, Restart, vars, SubmitCreate, SubmitLease,
         SubmitHeartbeat, SubmitTransition, CreateExisting, CreateMissing, CreateInsert,
         CreateCollides, GrantLease, RefuseLease, Load, Refuse, Save, SaveConflict,
         SweepList, SweepSave
    <2> QED BY <1>0, <2>1
  <1>4. answers' \subseteq Key \X Job /\ \A x \in answers' : jobs'[x[2]].key = x[1]
    BY <1>0, <1>1, <1>2
  <1> QED BY <1>1, <1>3, <1>4 DEF KeysUnique

LEMMA InitIInv == Init => IInv
  <1> SUFFICES ASSUME Init PROVE IInv
    OBVIOUS
  <1> USE DEF Init
  <1>1. TypeOK
    BY NoRowType, IdleRequest DEF TypeOK
  <1>2. LeaseOnlyWhileActive /\ LeaseColumns /\ EventPerMutation /\ KeysUnique
    BY DEF LeaseOnlyWhileActive, LeaseColumns, EventPerMutation, KeysUnique, NoRow, Active
  <1>3. RequestsWellFormed /\ TokensFresh
    BY IdleRequest DEF RequestsWellFormed, TokensFresh
  <1>4. SnapshotsBehind /\ SaveIsCurrent /\ ListedExpired
    BY IdleRequest DEF SnapshotsBehind, SaveIsCurrent, ListedExpired
  <1> QED BY <1>1, <1>2, <1>3, <1>4 DEF IInv

LEMMA NextIInv == IInv /\ [Next]_vars => IInv'
  <1> SUFFICES ASSUME IInv, [Next]_vars PROVE IInv'
    OBVIOUS
  <1>1. TypeOK'
    BY TableStep, RequestsStep, ListedStep, AnswersStep DEF TypeOK
  <1>2. LeaseColumns' /\ KeysUnique'
    BY TableStep, AnswersStep DEF LeaseColumns
  <1>3. SnapshotsBehind'
    BY SavingStep, ListedStep DEF SnapshotsBehind, NotAhead, IsSaving
  <1>4. SaveIsCurrent'
    BY SavingStep, ListedStep DEF SaveIsCurrent, CanSave, IsSaving, ComputedFrom, Owns
  <1>5. ListedExpired'
    BY ListedStep DEF ListedExpired, IsLeaseExpired
  <1> QED BY <1>1, <1>2, <1>3, <1>4, <1>5, TableStep, RequestsStep, TokensStep DEF IInv

-----------------------------------------------------------------------------
(* The invariants.                                                         *)

\* IInv holds in every reachable state.
THEOREM Invariant == Spec => []IInv
  BY InitIInv, NextIInv, PTL DEF Spec

\* Every variable stays in its domain: in particular the lease columns of a row
\* always form a lease or none.
THEOREM TypeCorrect == Spec => []TypeOK
  BY Invariant, PTL DEF IInv

\* Terminal, queued and interrupted jobs never carry a lease, and jobs in work
\* always do.
THEOREM LeaseTracksState == Spec => []LeaseOnlyWhileActive
  BY Invariant, PTL DEF IInv

\* Optimistic concurrency works: a row is only saved over the row it was
\* computed from, for any number of handlers and recovery passes.
THEOREM NoLostUpdate == Spec => []SaveIsCurrent
  BY Invariant, PTL DEF IInv

\* The history has one event per version of a row.
THEOREM HistoryComplete == Spec => []EventPerMutation
  BY Invariant, PTL DEF IInv

\* All answers to one operation key name the same job.
THEOREM CreateIsIdempotent == Spec => []IdempotentCreate
  <1>1. IInv => IdempotentCreate
    <2> SUFFICES ASSUME IInv, NEW x \in answers, NEW y \in answers, x[1] = y[1]
                 PROVE  x[2] = y[2]
      BY DEF IdempotentCreate
    <2>1. x \in Key \X Job /\ y \in Key \X Job
      BY DEF IInv, TypeOK
    <2>2. jobs[x[2]].key = x[1] /\ jobs[y[2]].key = y[1]
      BY DEF IInv, KeysUnique
    <2>3. x[1] # None
      BY <2>1, NoneAssumption
    <2> QED BY <2>1, <2>2, <2>3 DEF IInv, KeysUnique
  <1> QED BY <1>1, Invariant, PTL

-----------------------------------------------------------------------------
(* The action properties.                                                  *)

\* A job in work goes back to the queue only when its lease has expired, judged
\* by the clock at the write and not at the listing.
THEOREM RecoveryIsLate == Spec => RecoveryOnlyAfterExpiry
  <1> DEFINE A == \A j \in Job : jobs[j].token # None /\ jobs'[j].state = "queued"
                                 => jobs[j].expires <= now
  <1>1. IInv /\ [Next]_vars => A
    <2> SUFFICES ASSUME IInv, [Next]_vars, NEW j \in Job,
                        jobs[j].token # None, jobs'[j].state = "queued"
                 PROVE  jobs[j].expires <= now
      OBVIOUS
    <2>1. jobs \in [Job -> Row] /\ jobs[j].state \in Active
      BY DEF IInv, TypeOK, LeaseOnlyWhileActive
    <2>2. jobs'[j] # jobs[j]
      BY <2>1 DEF Active
    <2>3. PICK i \in Job : Mutates(i)
      BY <2>2, StepKinds DEF LeavesTable
    <2>4. i = j
      BY <2>2, <2>3, MutatedRow
    <2>5. ~Inserts(j) /\ ~Leases(j)
      BY <2>1 DEF Inserts, Leases, Active, Waiting
    <2>6. ~Renews(j)
      BY <2>1 DEF Renews, Row, Active
    <2>7. ~Moves(j)
      <3> SUFFICES ASSUME Moves(j) PROVE FALSE
        OBVIOUS
      <3>1. PICK to \in Transitions[jobs[j].state] :
              jobs' = [jobs EXCEPT ![j] = Saved(TransitionJob(jobs[j], to))]
        BY DEF Moves
      <3>2. to \in (Active \ {"leased"}) \union Terminal \union {"interrupted"}
        BY <2>1, <3>1, ActiveMoves
      <3>3. to \in States /\ TransitionJob(jobs[j], to) \in Row
        BY <2>1, <3>2, RowTypes DEF States, Waiting
      <3>4. jobs'[j].state = to
        BY <2>1, <3>1, <3>3, MoveEffect, SavedEffect
      <3> QED BY <3>2, <3>4 DEF Active, Terminal
    <2> QED BY <2>3, <2>4, <2>5, <2>6, <2>7 DEF Mutates, Reclaims, IsLeaseExpired
  <1>2. IInv /\ [Next]_vars => [A]_vars
    BY <1>1
  <1> QED BY <1>2, Invariant, PTL DEF Spec, RecoveryOnlyAfterExpiry

\* A finished job is never written again.
THEOREM TerminalIsFinal == Spec => TerminalFrozen
  <1> DEFINE A == \A j \in Job : jobs[j].state \in Terminal => jobs'[j] = jobs[j]
  <1>1. IInv /\ [Next]_vars => A
    <2> SUFFICES ASSUME IInv, [Next]_vars, NEW j \in Job, jobs[j].state \in Terminal
                 PROVE  jobs'[j] = jobs[j]
      OBVIOUS
    <2>1. jobs[j].token = None
      BY DEF IInv, LeaseOnlyWhileActive, Active, Terminal
    <2>2. ~Mutates(j)
      BY <2>1 DEF Mutates, Inserts, Leases, Renews, Moves, Reclaims, Terminal, Waiting
    <2> QED BY <2>2, StepKinds, MutatedRow DEF LeavesTable
  <1>2. IInv /\ [Next]_vars => [A]_vars
    BY <1>1
  <1> QED BY <1>2, Invariant, PTL DEF Spec, TerminalFrozen

\* Only the agent and token that hold a job's lease change it by a heartbeat or
\* a transition, however long ago the handler read the row.
THEOREM StaleHoldersAreHarmless == Spec => OnlyHolderWrites
  <1> DEFINE A == \A w \in Worker :
                    LET r == req[w] IN
                    r.op \in {"heartbeat", "transition"} /\ req'[w] = Idle /\ jobs' # jobs
                    => Owns(r, jobs[r.job])
  <1>1. ASSUME IInv, Next, NEW w \in Worker,
               req[w].op \in {"heartbeat", "transition"}, req'[w] = Idle, jobs' # jobs
        PROVE  Owns(req[w], jobs[req[w].job])
    <2>0. req \in [Worker -> Request] /\ req[w] # Idle
      BY <1>1 DEF IInv, TypeOK, Idle
    <2>1. ASSUME NEW v \in Worker, Submit(v)
          PROVE  FALSE
      BY <1>1, <2>1 DEF Submit, SubmitCreate, SubmitLease, SubmitHeartbeat, SubmitTransition
    <2>2. ASSUME NEW s \in Sweeper, Sweep(s)
          PROVE  FALSE
      BY <1>1, <2>0, <2>2 DEF Sweep, SweepList, SweepSave
    <2>3. ASSUME Tick \/ Restart
          PROVE  FALSE
      BY <1>1, <2>3 DEF Tick, Restart
    <2>4. PICK v \in Worker : Handle(v)
      BY <1>1, <2>1, <2>2, <2>3 DEF Next
    <2>5. v = w
      BY <1>1, <2>0, <2>4 DEF Handle, CreateExisting, CreateMissing, CreateInsert,
         CreateCollides, GrantLease, RefuseLease, Load, Refuse, Save, SaveConflict, Done
    <2>6. Save(w)
      BY <1>1, <2>0, <2>4, <2>5 DEF Handle, CreateExisting, CreateMissing, CreateInsert,
         CreateCollides, GrantLease, RefuseLease, Load, Refuse, SaveConflict
    <2> QED BY <1>1, <2>6 DEF Save, IInv, SaveIsCurrent, IsSaving, ComputedFrom
  <1>2. IInv /\ [Next]_vars => [A]_vars
    BY <1>1
  <1> QED BY <1>2, Invariant, PTL DEF Spec, OnlyHolderWrites

-----------------------------------------------------------------------------
(* Refinement.                                                             *)

\* The life cycle's table of states is the engine's.
LEMMA SameTable ==
  /\ Lifecycle!Terminal = Terminal
  /\ Lifecycle!Active = Active
  /\ Lifecycle!Waiting = Waiting
  /\ Lifecycle!States = States
  /\ Lifecycle!Successors = Transitions
  BY DEF Lifecycle!Terminal, Lifecycle!Active, Lifecycle!Waiting, Lifecycle!States,
         Lifecycle!Successors, Terminal, Active, Waiting, States, Transitions

\* The engine implements the atomic life cycle: the two-step handlers, the
\* recovery passes that work from old listings, and restarts are not visible.
THEOREM EngineImplementsLifecycle == Spec => ImplementsLifecycle
  <1> DEFINE phase == [j \in Job |-> jobs[j].state]
             holder == [j \in Job |-> jobs[j].token]
             deadline == [j \in Job |-> jobs[j].expires]
             spent == {g.token : g \in granted}
             Map(j) == /\ phase' = [phase EXCEPT ![j] = jobs'[j].state]
                       /\ holder' = [holder EXCEPT ![j] = jobs'[j].token]
                       /\ deadline' = [deadline EXCEPT ![j] = jobs'[j].expires]
                       /\ deadline'[j] = jobs'[j].expires
  <1>1. Init => Lifecycle!LifecycleInit
    BY DEF Init, NoRow, Lifecycle!LifecycleInit
  <1>2. ASSUME IInv, [Next]_vars
        PROVE  [Lifecycle!LifecycleNext]_(Lifecycle!lifecycleVars)
    <2>0. /\ jobs \in [Job -> Row] /\ jobs' \in [Job -> Row]
          /\ now \in Nat /\ now' \in Nat
      BY <1>2, TableStep DEF IInv, TypeOK
    <2>1. CASE LeavesTable
      <3>1. phase' = phase /\ holder' = holder /\ deadline' = deadline /\ spent' = spent
        BY <2>1 DEF LeavesTable
      <3>2. CASE now' = now
        BY <3>1, <3>2 DEF Lifecycle!lifecycleVars
      <3>3. CASE now' = now + 1
        <4>1. Lifecycle!Pass
          BY <2>0, <2>1, <3>3 DEF LeavesTable, Lifecycle!Pass
        <4> QED BY <4>1 DEF Lifecycle!LifecycleNext
      <3> QED BY <2>1, <3>2, <3>3 DEF LeavesTable
    <2>2. ASSUME NEW j \in Job, Mutates(j)
          PROVE  Lifecycle!LifecycleNext
      <3>0. /\ Map(j) /\ now' = now
            /\ jobs[j] \in Row /\ jobs'[j] \in Row
            /\ jobs[j].token # None <=> jobs[j].state \in Active
            /\ phase[j] = jobs[j].state /\ holder[j] = jobs[j].token
            /\ deadline[j] = jobs[j].expires
        BY <1>2, <2>0, <2>2, MutatedRow DEF IInv, LeaseOnlyWhileActive, Mutates
      <3>1. jobs[j].token = None => jobs[j].expires = 0
        BY <1>2 DEF IInv, LeaseColumns
      <3>2. CASE Inserts(j)
        <4>1. /\ jobs[j].state = "absent" /\ spent' = spent
              /\ jobs'[j].state = "queued" /\ jobs'[j].token = None /\ jobs'[j].expires = 0
          BY <2>0, <3>2 DEF Inserts, NoRow
        <4>2. jobs[j].token = None /\ jobs[j].expires = 0
          BY <3>0, <3>1, <4>1 DEF Active
        <4>3. holder' = holder /\ deadline' = deadline
          <5>1. \A i \in Job : /\ jobs'[i].token = jobs[i].token
                              /\ jobs'[i].expires = jobs[i].expires
            BY <1>2, <2>2, <4>1, <4>2, MutatedRow
          <5> QED BY <5>1
        <4>4. Lifecycle!Enqueue(j)
          BY <3>0, <4>1, <4>3 DEF Lifecycle!Enqueue
        <4> QED BY <4>4 DEF Lifecycle!LifecycleNext
      <3>3. CASE Leases(j)
        <4>1. PICK a \in Agent, t \in Token, e \in Nat :
                /\ jobs[j].state \in Waiting
                /\ \A g \in granted : g.token # t
                /\ jobs' = [jobs EXCEPT ![j] = Lease(jobs[j], a, t, e)]
                /\ granted' = granted \union {[job |-> j, agent |-> a, token |-> t]}
          BY <3>3 DEF Leases
        <4>2. jobs'[j].state = "leased" /\ jobs'[j].token = t /\ jobs'[j].expires \in Nat
          BY <2>0, <3>0, <4>1 DEF Lease, Row
        <4>3. t \in Token \ spent /\ spent' = spent \union {t}
          <5>1. t \notin spent
            BY <4>1
          <5> DEFINE g0 == [job |-> j, agent |-> a, token |-> t]
          <5>2. g0.token = t /\ granted' = granted \union {g0}
            BY <4>1
          <5> HIDE DEF g0
          <5>3. spent' = spent \union {t}
            BY <5>2
          <5> QED BY <5>1, <5>3
        <4>4. Lifecycle!Grant(j, t)
          BY <3>0, <4>1, <4>2, <4>3, SameTable
             DEF Lifecycle!Grant, Lifecycle!NewDeadline
        <4> QED BY <4>4 DEF Lifecycle!LifecycleNext
      <3>4. CASE Renews(j)
        <4>1. /\ jobs[j].token # None /\ spent' = spent
              /\ jobs'[j].state = jobs[j].state /\ jobs'[j].token = jobs[j].token
              /\ jobs'[j].expires \in Nat
          BY <2>0, <3>0, <3>4 DEF Renews, Row
        <4>2. Lifecycle!Renew(j)
          BY <3>0, <4>1 DEF Lifecycle!Renew, Lifecycle!NewDeadline
        <4> QED BY <4>2 DEF Lifecycle!LifecycleNext
      <3>5. CASE Moves(j)
        <4>1. /\ jobs[j].token # None /\ jobs[j].state \in Active /\ spent' = spent
          BY <3>0, <3>5 DEF Moves
        <4>2. PICK to \in Transitions[jobs[j].state] :
                jobs' = [jobs EXCEPT ![j] = Saved(TransitionJob(jobs[j], to))]
          BY <3>5 DEF Moves
        <4>3. to \in (Active \ {"leased"}) \union Terminal \union {"interrupted"}
          BY <4>1, <4>2, ActiveMoves
        <4>4. to \in States /\ TransitionJob(jobs[j], to) \in Row
          BY <3>0, <4>3, RowTypes DEF States, Waiting
        <4>5. jobs'[j] = Saved(TransitionJob(jobs[j], to))
          BY <2>0, <4>2
        <4>6. CASE to \in Terminal \union {"interrupted"}
          <5>1. jobs'[j].state = to /\ jobs'[j].token = None /\ jobs'[j].expires = 0
            BY <3>0, <4>4, <4>5, <4>6, MoveEffect, SavedEffect
          <5>2. Lifecycle!Release(j, to)
            BY <3>0, <4>1, <4>2, <4>6, <5>1, SameTable DEF Lifecycle!Release
          <5> QED BY <4>4, <5>2, SameTable DEF Lifecycle!LifecycleNext
        <4>7. CASE to \notin Terminal \union {"interrupted"}
          <5>1. /\ jobs'[j].state = to /\ jobs'[j].token = jobs[j].token
                /\ jobs'[j].expires = jobs[j].expires
            BY <3>0, <4>4, <4>5, <4>7, MoveEffect, SavedEffect
          <5>2. holder' = holder /\ deadline' = deadline
            BY <3>0, <5>1
          <5>3. Lifecycle!Advance(j, to)
            BY <3>0, <4>1, <4>2, <4>3, <4>7, <5>1, <5>2, SameTable DEF Lifecycle!Advance
          <5> QED BY <4>4, <5>3, SameTable DEF Lifecycle!LifecycleNext
        <4> QED BY <4>6, <4>7
      <3>6. CASE Reclaims(j)
        <4>1. /\ jobs[j].token # None /\ jobs[j].expires <= now /\ spent' = spent
              /\ jobs'[j] = Saved(Requeued(jobs[j]))
          BY <2>0, <3>6 DEF Reclaims, IsLeaseExpired
        <4>2. /\ jobs'[j].state = "queued" /\ jobs'[j].token = None
              /\ jobs'[j].expires = 0
          BY <3>0, <4>1, RowTypes, RequeueEffect, SavedEffect
        <4>3. Lifecycle!Reclaim(j)
          BY <3>0, <4>1, <4>2 DEF Lifecycle!Reclaim
        <4> QED BY <4>3 DEF Lifecycle!LifecycleNext
      <3> QED BY <2>2, <3>2, <3>3, <3>4, <3>5, <3>6 DEF Mutates
    <2> QED BY <1>2, <2>1, <2>2, StepKinds
  <1> QED BY <1>1, <1>2, Invariant, PTL DEF Spec, ImplementsLifecycle, Lifecycle!LifecycleSpec
=============================================================================
