------------------------------ MODULE JobEngine ------------------------------
(***************************************************************************)
(* The job engine of packages/core over the D1/SQLite repository of        *)
(* apps/control-plane, driven by the HTTP handlers of api.ts and by the    *)
(* recovery timer of the local server.                                     *)
(*                                                                         *)
(* Every SQL statement or batch is atomic; everything between two awaits   *)
(* of a handler can interleave with any other handler.  So a request is    *)
(* submitted (the handler reads the clock), loads its row, and later       *)
(* writes the row it computed under the revision it read.                  *)
(***************************************************************************)
EXTENDS Naturals, FiniteSets

CONSTANTS
  Job,          \* job identifiers
  Key,          \* operation keys
  Agent,        \* registered agents
  Token,        \* lease tokens the server can generate
  Ttl,          \* lease durations an agent may ask for
  Target,       \* states an agent asks a transition to
  Worker,       \* request handlers in progress at a time
  Sweeper,      \* recovery passes in progress at a time
  None,         \* SQL NULL
  PageLimit,    \* LIMIT of the expired-lease query
  Horizon,      \* bound: no lease is asked for beyond this time
  MaxRevision,  \* bound: no heartbeat is submitted from this revision on
  MaxRestarts   \* bound: how often the process is killed and started again

ASSUME NoneAssumption == None \notin Key \union Agent \union Token

ASSUME BoundsAssumption ==
  /\ Ttl \subseteq Nat \ {0}
  /\ PageLimit \in Nat \ {0}
  /\ Horizon \in Nat
  /\ MaxRevision \in Nat
  /\ MaxRestarts \in Nat

VARIABLES
  jobs,      \* the table backup_jobs: a row per job identifier
  events,    \* how many rows of backup_job_events each job has
  issued,    \* tokens generated so far
  granted,   \* leases ever handed out, as [job, agent, token]
  answers,   \* <<operation key, job>> pairs create has returned
  req,       \* req[w]: the request handler w is working on
  listed,    \* listed[s]: expired rows recovery pass s has still to process
  now,       \* the wall clock
  restarts   \* process restarts so far

vars == <<jobs, events, issued, granted, answers, req, listed, now, restarts>>

-----------------------------------------------------------------------------
(* Rows and the state machine.                                             *)

Terminal == {"completed", "partial", "failed", "cancelled"}
Active == {"leased", "preparing", "running", "finalizing"}
Waiting == {"queued", "interrupted"}
States == Terminal \union Active \union Waiting

ASSUME TargetAssumption == Target \subseteq States

\* const transitions.
Transitions == [s \in States |->
  CASE s = "queued"      -> {"leased", "cancelled"}
    [] s = "leased"      -> {"preparing", "running", "interrupted", "cancelled"}
    [] s = "preparing"   -> {"running", "failed", "partial", "interrupted",
                             "cancelled"}
    [] s = "running"     -> {"finalizing", "completed", "partial", "failed",
                             "interrupted", "cancelled"}
    [] s = "finalizing"  -> {"completed", "partial", "failed", "interrupted"}
    [] s = "interrupted" -> {"queued", "leased", "failed", "cancelled"}
    [] s \in Terminal    -> {}]

\* A row of backup_jobs, restricted to the columns the engine decides on.
\* The lease columns are NULL together.
Row == [state : States \union {"absent"}, key : Key \union {None},
        agent : Agent \union {None}, token : Token \union {None},
        expires : Nat, attempt : Nat, revision : Nat, createdAt : Nat]

NoRow == [state |-> "absent", key |-> None, agent |-> None, token |-> None,
          expires |-> 0, attempt |-> 0, revision |-> 0, createdAt |-> 0]

\* Mutant: a transition that writes NULL where the reader expects a date.
Unleased_NullExpiry(row) ==
  [row EXCEPT !.agent = None, !.token = None, !.expires = None]

Unleased(row) == [row EXCEPT !.agent = None, !.token = None, !.expires = 0]

\* Mutant: an interrupted job keeps its lease.
TransitionJob_KeepsLease(row, to) ==
  IF to \in Terminal THEN [Unleased(row) EXCEPT !.state = to]
                     ELSE [row EXCEPT !.state = to]

\* transitionJob: terminal states and "interrupted" give the lease up.
TransitionJob(row, to) ==
  IF to \in Terminal \union {"interrupted"}
  THEN [Unleased(row) EXCEPT !.state = to]
  ELSE [row EXCEPT !.state = to]

\* recoverExpired: interrupted and queued again in one write.
Requeued(row) == TransitionJob(Unleased(TransitionJob(row, "interrupted")), "queued")

\* Mutant: a lease counts as expired one tick early.
IsLeaseExpired_Early(row, at) == row.expires <= at + 1

\* isLeaseExpired.
IsLeaseExpired(row, at) == row.expires <= at

\* Mutant: the WHERE clause forgets the state.
IsClaimable_AnyState(row, at) ==
  row.state # "absent" /\ (row.token = None \/ IsLeaseExpired(row, at))

\* tryAcquireLease, tryAcquireNextLease: the WHERE clause ...
IsClaimable(row, at) ==
  /\ row.state \in Waiting
  /\ row.token = None \/ IsLeaseExpired(row, at)

\* ... and the SET clause.
Lease(row, agent, token, expires) ==
  [row EXCEPT !.state = "leased", !.attempt = @ + 1, !.revision = @ + 1,
              !.agent = agent, !.token = token, !.expires = expires]

ByKey(k) == {j \in Job : jobs[j].key = k}

Claimable(at) == {j \in Job : IsClaimable(jobs[j], at)}

\* ORDER BY created_at, id LIMIT 1; identifiers are random, so any of the
\* oldest may come first.
Oldest(S) == {j \in S : \A i \in S : jobs[j].createdAt <= jobs[i].createdAt}

\* Mutant: the query forgets the jobs that were not started.
Expired_Started(at) == {j \in Job : /\ jobs[j].token # None
                                   /\ IsLeaseExpired(jobs[j], at)
                                   /\ jobs[j].state \notin Terminal \cup {"leased"}}

\* listExpiredLeases.
Expired(at) == {j \in Job : /\ jobs[j].token # None
                            /\ IsLeaseExpired(jobs[j], at)
                            /\ jobs[j].state \notin Terminal}

\* The LIMIT rows of S that expired first, in any order among equals.
IsPage(P, S) ==
  /\ P \subseteq S
  /\ P = S \/ Cardinality(P) = PageLimit
  /\ Cardinality(P) <= PageLimit
  /\ \A j \in P, i \in S \ P : jobs[j].expires <= jobs[i].expires

-----------------------------------------------------------------------------
(* Requests in progress.                                                   *)

Ops == {"idle", "create", "acquire", "claim", "heartbeat", "transition"}

Request == [op : Ops, step : {"load", "save"}, job : Job \union {None},
            key : Key \union {None}, agent : Agent \union {None},
            token : Token \union {None}, to : Target \union {None},
            ttl : Nat, at : Nat, row : Row]

Idle == [op |-> "idle", step |-> "load", job |-> None, key |-> None,
         agent |-> None, token |-> None, to |-> None, ttl |-> 0, at |-> 0,
         row |-> NoRow]

Done(w) == req' = [req EXCEPT ![w] = Idle]

ListedRow == [job : Job, row : Row]

TypeOK ==
  /\ jobs \in [Job -> Row]
  /\ events \in [Job -> Nat]
  /\ issued \subseteq Token
  /\ granted \subseteq [job : Job, agent : Agent, token : Token]
  /\ answers \subseteq Key \X Job
  /\ req \in [Worker -> Request]
  /\ listed \in [Sweeper -> SUBSET ListedRow]
  /\ now \in Nat
  /\ restarts \in Nat

Init ==
  /\ jobs = [j \in Job |-> NoRow]
  /\ events = [j \in Job |-> 0]
  /\ issued = {}
  /\ granted = {}
  /\ answers = {}
  /\ req = [w \in Worker |-> Idle]
  /\ listed = [s \in Sweeper |-> {}]
  /\ now = 0
  /\ restarts = 0

-----------------------------------------------------------------------------
(* JobService.create                                                       *)

\* POST /v1/jobs arrives.
SubmitCreate(w, j, k) ==
  /\ req[w].op = "idle"
  /\ req' = [req EXCEPT ![w] = [Idle EXCEPT !.op = "create", !.job = j,
                                            !.key = k, !.at = now]]
  /\ UNCHANGED <<jobs, events, issued, granted, answers, listed, now, restarts>>

\* getByOperationKey finds the job: it is the answer.
CreateExisting(w, j) ==
  /\ req[w].op = "create"
  /\ j \in ByKey(req[w].key)
  /\ answers' = answers \union {<<req[w].key, j>>}
  /\ Done(w)
  /\ UNCHANGED <<jobs, events, issued, granted, listed, now, restarts>>

\* getByOperationKey finds nothing: on to the INSERT.
CreateMissing(w) ==
  /\ req[w].op = "create"
  /\ req[w].step = "load"
  /\ ByKey(req[w].key) = {}
  /\ req' = [req EXCEPT ![w].step = "save"]
  /\ UNCHANGED <<jobs, events, issued, granted, answers, listed, now, restarts>>

\* Mutant: no UNIQUE constraint on the operation key.
CreateInsert_NotUnique(w) ==
  LET j == req[w].job IN
  /\ req[w].op = "create"
  /\ req[w].step = "save"
  /\ jobs[j].state = "absent"
  /\ jobs' = [jobs EXCEPT ![j] = [NoRow EXCEPT !.state = "queued",
                                               !.key = req[w].key,
                                               !.createdAt = req[w].at]]
  /\ events' = [events EXCEPT ![j] = @ + 1]
  /\ answers' = answers \union {<<req[w].key, j>>}
  /\ Done(w)
  /\ UNCHANGED <<issued, granted, listed, now, restarts>>

\* The INSERT, which the UNIQUE operation key and the primary key guard; a
\* raced insert is answered by CreateExisting.
CreateInsert(w) ==
  LET j == req[w].job IN
  /\ req[w].op = "create"
  /\ req[w].step = "save"
  /\ ByKey(req[w].key) = {}
  /\ jobs[j].state = "absent"
  /\ jobs' = [jobs EXCEPT ![j] = [NoRow EXCEPT !.state = "queued",
                                               !.key = req[w].key,
                                               !.createdAt = req[w].at]]
  /\ events' = [events EXCEPT ![j] = @ + 1]
  /\ answers' = answers \union {<<req[w].key, j>>}
  /\ Done(w)
  /\ UNCHANGED <<issued, granted, listed, now, restarts>>

\* The identifier is taken under another operation key: an error.
CreateCollides(w) ==
  /\ req[w].op = "create"
  /\ req[w].step = "save"
  /\ ByKey(req[w].key) = {}
  /\ jobs[req[w].job].state # "absent"
  /\ Done(w)
  /\ UNCHANGED <<jobs, events, issued, granted, answers, listed, now, restarts>>

-----------------------------------------------------------------------------
(* JobService.acquire and JobService.claim                                 *)

\* acquire(j) by the local executor, or POST /v1/agent/claim (j = None); the
\* server generates the token.
SubmitLease(w, op, j, a, t, ttl) ==
  /\ req[w].op = "idle"
  /\ op = "claim" <=> j = None
  /\ t \notin issued
  /\ now + ttl <= Horizon
  /\ issued' = issued \union {t}
  /\ req' = [req EXCEPT ![w] = [Idle EXCEPT !.op = op, !.job = j, !.agent = a,
                                            !.token = t, !.ttl = ttl, !.at = now]]
  /\ UNCHANGED <<jobs, events, granted, answers, listed, now, restarts>>

\* The jobs the UPDATE of tryAcquireLease / tryAcquireNextLease may hit.
Leasable(r) ==
  CASE r.op = "acquire" -> {r.job} \intersect Claimable(r.at)
    [] r.op = "claim"   -> Oldest(Claimable(r.at))

GrantLease(w, j) ==
  LET r == req[w] IN
  /\ r.op \in {"acquire", "claim"}
  /\ j \in Leasable(r)
  /\ jobs' = [jobs EXCEPT ![j] = Lease(jobs[j], r.agent, r.token, r.at + r.ttl)]
  /\ events' = [events EXCEPT ![j] = @ + 1]
  /\ granted' = granted \union {[job |-> j, agent |-> r.agent, token |-> r.token]}
  /\ Done(w)
  /\ UNCHANGED <<issued, answers, listed, now, restarts>>

\* LeaseConflictError, JobNotFoundError or 204.
RefuseLease(w) ==
  /\ req[w].op \in {"acquire", "claim"}
  /\ Leasable(req[w]) = {}
  /\ Done(w)
  /\ UNCHANGED <<jobs, events, issued, granted, answers, listed, now, restarts>>

-----------------------------------------------------------------------------
(* JobService.heartbeat and JobService.transition                          *)

\* An agent uses a lease it once got, however stale.
SubmitHeartbeat(w, g, ttl) ==
  /\ req[w].op = "idle"
  /\ now + ttl <= Horizon
  /\ jobs[g.job].revision < MaxRevision
  /\ req' = [req EXCEPT ![w] = [Idle EXCEPT !.op = "heartbeat", !.job = g.job,
                  !.agent = g.agent, !.token = g.token, !.ttl = ttl, !.at = now]]
  /\ UNCHANGED <<jobs, events, issued, granted, answers, listed, now, restarts>>

SubmitTransition(w, g, to) ==
  /\ req[w].op = "idle"
  /\ req' = [req EXCEPT ![w] = [Idle EXCEPT !.op = "transition", !.job = g.job,
                  !.agent = g.agent, !.token = g.token, !.to = to, !.at = now]]
  /\ UNCHANGED <<jobs, events, issued, granted, answers, listed, now, restarts>>

Owns(r, row) == row.token # None /\ row.agent = r.agent /\ row.token = r.token

\* renewLease accepts the row read, transitionJob and #assertLeaseOwner do.
MayRenew(r, row) == Owns(r, row) /\ ~IsLeaseExpired(row, r.at)
MayMove(r, row) == Owns(r, row) /\ r.to \in Transitions[row.state]

\* The row read by #requireJob passes the checks; the handler now holds the
\* row it wants to save.
Load(w) ==
  LET r == req[w]
      row == jobs[r.job]
      Hold(next) == req' = [req EXCEPT ![w].step = "save", ![w].row = next]
  IN
  /\ r.step = "load"
  /\ \/ /\ r.op = "heartbeat"
        /\ MayRenew(r, row)
        /\ Hold([row EXCEPT !.expires = r.at + r.ttl])
     \/ /\ r.op = "transition"
        /\ MayMove(r, row)
        /\ Hold(TransitionJob(row, r.to))
  /\ UNCHANGED <<jobs, events, issued, granted, answers, listed, now, restarts>>

\* LeaseConflictError, LeaseExpiredError, InvalidJobTransitionError, or the
\* state is already the one asked for.
Refuse(w) ==
  LET r == req[w] IN
  /\ r.step = "load"
  /\ \/ r.op = "heartbeat" /\ ~MayRenew(r, jobs[r.job])
     \/ r.op = "transition" /\ ~MayMove(r, jobs[r.job])
  /\ Done(w)
  /\ UNCHANGED <<jobs, events, issued, granted, answers, listed, now, restarts>>

\* Mutant: the UPDATE does not compare the revision.
CanSave_AnyRevision(j, row) == TRUE

\* UPDATE ... WHERE id = ? AND revision = ?, with its event.
CanSave(j, row) == jobs[j].revision = row.revision

\* Mutant: the UPDATE leaves the revision as it is.
SaveRow_SameRevision(j, row) ==
  /\ jobs' = [jobs EXCEPT ![j] = row]
  /\ events' = [events EXCEPT ![j] = @ + 1]

\* Mutant: the row is saved without its history event.
SaveRow_NoEvent(j, row) ==
  /\ jobs' = [jobs EXCEPT ![j] = [row EXCEPT !.revision = @ + 1]]
  /\ UNCHANGED events

SaveRow(j, row) ==
  /\ jobs' = [jobs EXCEPT ![j] = [row EXCEPT !.revision = @ + 1]]
  /\ events' = [events EXCEPT ![j] = @ + 1]

Save(w) ==
  /\ req[w].op \in {"heartbeat", "transition"}
  /\ req[w].step = "save"
  /\ CanSave(req[w].job, req[w].row)
  /\ SaveRow(req[w].job, req[w].row)
  /\ Done(w)
  /\ UNCHANGED <<issued, granted, answers, listed, now, restarts>>

\* Mutant: the event is inserted even when the UPDATE hit no row.
SaveConflict_Event(w) ==
  /\ req[w].op \in {"heartbeat", "transition"}
  /\ req[w].step = "save"
  /\ ~CanSave(req[w].job, req[w].row)
  /\ events' = [events EXCEPT ![req[w].job] = @ + 1]
  /\ Done(w)
  /\ UNCHANGED <<jobs, issued, granted, answers, listed, now, restarts>>

\* ConcurrentMutationError.
SaveConflict(w) ==
  /\ req[w].op \in {"heartbeat", "transition"}
  /\ req[w].step = "save"
  /\ ~CanSave(req[w].job, req[w].row)
  /\ Done(w)
  /\ UNCHANGED <<jobs, events, issued, granted, answers, listed, now, restarts>>

-----------------------------------------------------------------------------
(* JobService.recoverExpired, run by the recovery timer                    *)

SweepList(s) ==
  /\ listed[s] = {}
  /\ \E P \in SUBSET Expired(now) \ {{}} :
       /\ IsPage(P, Expired(now))
       /\ listed' = [listed EXCEPT ![s] = {[job |-> j, row |-> jobs[j]] : j \in P}]
  /\ UNCHANGED <<jobs, events, issued, granted, answers, req, now, restarts>>

\* The rows of a page in the order of the query.
NextListed(s) ==
  {p \in listed[s] : \A q \in listed[s] : p.row.expires <= q.row.expires}

SweepSave(s) ==
  \E p \in NextListed(s) :
    /\ listed' = [listed EXCEPT ![s] = @ \ {p}]
    /\ \/ /\ CanSave(p.job, p.row)
          /\ SaveRow(p.job, Requeued(p.row))
       \/ /\ ~CanSave(p.job, p.row)
          /\ UNCHANGED <<jobs, events>>
    /\ UNCHANGED <<issued, granted, answers, req, now, restarts>>

-----------------------------------------------------------------------------

Tick ==
  /\ now < Horizon
  /\ now' = now + 1
  /\ UNCHANGED <<jobs, events, issued, granted, answers, req, listed, restarts>>

\* The process dies and starts again: the table stays, handlers are gone.
Restart ==
  /\ restarts < MaxRestarts
  /\ req' = [w \in Worker |-> Idle]
  /\ listed' = [s \in Sweeper |-> {}]
  /\ restarts' = restarts + 1
  /\ UNCHANGED <<jobs, events, issued, granted, answers, now>>

Submit(w) ==
  \/ \E j \in Job, k \in Key : SubmitCreate(w, j, k)
  \/ \E j \in Job, a \in Agent, t \in Token, ttl \in Ttl :
       SubmitLease(w, "acquire", j, a, t, ttl)
  \/ \E a \in Agent, t \in Token, ttl \in Ttl :
       SubmitLease(w, "claim", None, a, t, ttl)
  \/ \E g \in granted, ttl \in Ttl : SubmitHeartbeat(w, g, ttl)
  \/ \E g \in granted, to \in Target : SubmitTransition(w, g, to)

Handle(w) ==
  \/ \E j \in Job : CreateExisting(w, j) \/ GrantLease(w, j)
  \/ CreateMissing(w) \/ CreateInsert(w) \/ CreateCollides(w)
  \/ RefuseLease(w)
  \/ Load(w) \/ Refuse(w) \/ Save(w) \/ SaveConflict(w)

Sweep(s) == SweepList(s) \/ SweepSave(s)

Next ==
  \/ \E w \in Worker : Submit(w) \/ Handle(w)
  \/ \E s \in Sweeper : Sweep(s)
  \/ Tick
  \/ Restart

Spec == Init /\ [][Next]_vars

\* The timer keeps firing, its passes run to their end, and time passes;
\* nothing is assumed of agents.
Fairness == WF_vars(Tick) /\ \A s \in Sweeper : WF_vars(Sweep(s))

FairSpec == Spec /\ Fairness

-----------------------------------------------------------------------------
(* Properties.                                                             *)

\* A job has a lease exactly while an agent is working on it: terminal,
\* queued and interrupted jobs carry no lease capability (docs/architecture.md,
\* invariant 8).  It is also why recoverExpired never throws half-way through
\* a page: every row it lists may be interrupted.
LeaseOnlyWhileActive ==
  \A j \in Job : jobs[j].token # None <=> jobs[j].state \in Active

\* The handler of r holds a row that it is about to write ...
IsSaving(r) == r.op \in {"heartbeat", "transition"} /\ r.step = "save"

\* ... and that it would compute again from row.
ComputedFrom(r, row) ==
  /\ Owns(r, row)
  /\ \/ /\ r.op = "heartbeat"
        /\ r.row = [row EXCEPT !.expires = r.at + r.ttl]
     \/ /\ r.op = "transition"
        /\ r.to \in Transitions[row.state]
        /\ r.row = TransitionJob(row, r.to)

\* A row that a handler or a recovery pass is about to write under the
\* revision it read was computed from the row that is still in the table:
\* equal revisions mean that nobody wrote in between, so no update is lost.
SaveIsCurrent ==
  /\ \A w \in Worker :
       IsSaving(req[w]) /\ CanSave(req[w].job, req[w].row)
       => ComputedFrom(req[w], jobs[req[w].job])
  /\ \A s \in Sweeper : \A p \in listed[s] :
       CanSave(p.job, p.row) => p.row = jobs[p.job]

\* Creating twice under one operation key answers with the same job, also
\* when the two calls race (docs/architecture.md, invariant 1).
IdempotentCreate ==
  \A x, y \in answers : x[1] = y[1] => x[2] = y[2]

\* A mutation and its history event are one transaction: a job has as many
\* events as its row had versions, also when writers lose the revision race
\* (docs/architecture.md, invariant 7).
EventPerMutation ==
  \A j \in Job : events[j] = IF jobs[j].state = "absent" THEN 0
                             ELSE jobs[j].revision + 1

\* Recovery never takes a job from an agent whose lease is alive when it
\* writes, whatever happened since it listed the job (docs/architecture.md,
\* invariant 9); at the instant of expiry the job is recovery's (lease.ts:5).
RecoveryOnlyAfterExpiry ==
  [][\A j \in Job : jobs[j].token # None /\ jobs'[j].state = "queued"
                    => jobs[j].expires <= now]_vars

\* A heartbeat or a transition changes a job only for the agent and token
\* that hold its lease at that very moment: a handler that read the row before
\* the lease was recovered and given away writes nothing.
OnlyHolderWrites ==
  [][\A w \in Worker :
       LET r == req[w] IN
       r.op \in {"heartbeat", "transition"} /\ req'[w] = Idle /\ jobs' # jobs
       => Owns(r, jobs[r.job])]_vars

\* A finished job is never written again: no late heartbeat, transition,
\* claim or recovery pass brings it back.
TerminalFrozen ==
  [][\A j \in Job : jobs[j].state \in Terminal => jobs'[j] = jobs[j]]_vars

Lifecycle == INSTANCE JobLifecycle WITH
  NoToken  <- None,
  phase    <- [j \in Job |-> jobs[j].state],
  holder   <- [j \in Job |-> jobs[j].token],
  deadline <- [j \in Job |-> jobs[j].expires],
  spent    <- {g.token : g \in granted}

\* The engine implements the life cycle with atomic handlers: in particular a
\* token that lost its job never holds one again.
ImplementsLifecycle == Lifecycle!LifecycleSpec

\* An agent that stops renewing loses its job: no job stays with a dead agent
\* for ever.
LeaseEventuallyReleased ==
  \A j \in Job : jobs[j].state \in Active ~> jobs[j].state \notin Active

-----------------------------------------------------------------------------
(* The inductive invariant behind these properties; JobEngineProofs shows  *)
(* that it is one.                                                         *)

\* The lease columns are NULL together, and a row that is not there has none.
LeaseColumns ==
  \A j \in Job : /\ jobs[j].token = None => jobs[j].expires = 0
                 /\ jobs[j].state = "absent" => jobs[j].key = None

\* Every request has the parameters its handler reads.
IsLeasing(r) == r.op \in {"acquire", "claim"}

WellFormed(r) ==
  /\ r.op \notin {"idle", "claim"} => r.job \in Job
  /\ r.op = "create" => r.key \in Key
  /\ IsLeasing(r) => r.agent \in Agent /\ r.token \in Token

RequestsWellFormed == \A w \in Worker : WellFormed(req[w])

\* A token about to be granted was never granted before, and no other request
\* is about to grant it.
TokensFresh ==
  /\ \A g \in granted : g.token \in issued
  /\ \A w \in Worker : IsLeasing(req[w]) =>
       /\ req[w].token \in issued
       /\ \A g \in granted : g.token # req[w].token
       /\ \A v \in Worker \ {w} : IsLeasing(req[v]) => req[v].token # req[w].token

\* The row a handler or a recovery pass has read is there, and not newer than
\* the table.
NotAhead(j, row) == jobs[j].state # "absent" /\ row.revision <= jobs[j].revision

SnapshotsBehind ==
  /\ \A w \in Worker : IsSaving(req[w]) => NotAhead(req[w].job, req[w].row)
  /\ \A s \in Sweeper : \A p \in listed[s] : NotAhead(p.job, p.row)

\* What a recovery pass has listed had expired, and stays so.
ListedExpired ==
  \A s \in Sweeper : \A p \in listed[s] :
    p.row.token # None /\ IsLeaseExpired(p.row, now)

\* An operation key belongs to one row, and an answer names that row.
KeysUnique ==
  /\ \A i, j \in Job : jobs[i].key = jobs[j].key /\ jobs[i].key # None => i = j
  /\ \A x \in answers : jobs[x[2]].key = x[1]

IInv ==
  /\ TypeOK
  /\ LeaseOnlyWhileActive
  /\ LeaseColumns
  /\ RequestsWellFormed
  /\ TokensFresh
  /\ SnapshotsBehind
  /\ SaveIsCurrent
  /\ ListedExpired
  /\ KeysUnique
  /\ EventPerMutation
=============================================================================
