---------------------------- MODULE JobLifecycle ----------------------------
(***************************************************************************)
(* What the job engine promises to the rest of Nexus Backup, with every    *)
(* handler a single atomic step: a job goes through the life cycle of      *)
(* packages/core/src/state-machine.ts, at most one lease capability is     *)
(* live for it, a capability once given up never comes back, and a holder  *)
(* is deprived of its job only when its lease has run out.                 *)
(*                                                                         *)
(* JobEngine, where handlers read a row and write it back later under a    *)
(* revision check, is shown to implement this specification.               *)
(***************************************************************************)
EXTENDS Naturals

CONSTANTS
  Job,        \* job identifiers
  Token,      \* lease tokens
  NoToken     \* "the job has no lease"

VARIABLES
  phase,      \* phase[j]: the state of job j, "absent" before it is created
  holder,     \* holder[j]: the token of the live lease, or NoToken
  deadline,   \* deadline[j]: when the live lease expires (0 without a lease)
  spent,      \* tokens that were ever given to a job
  now         \* the wall clock

lifecycleVars == <<phase, holder, deadline, spent, now>>

Terminal == {"completed", "partial", "failed", "cancelled"}

\* The states in which an agent holds the job's lease.
Active == {"leased", "preparing", "running", "finalizing"}

Waiting == {"queued", "interrupted"}

States == Terminal \union Active \union Waiting

\* The table of state-machine.ts.
Successors == [s \in States |->
  CASE s = "queued"      -> {"leased", "cancelled"}
    [] s = "leased"      -> {"preparing", "running", "interrupted", "cancelled"}
    [] s = "preparing"   -> {"running", "failed", "partial", "interrupted",
                             "cancelled"}
    [] s = "running"     -> {"finalizing", "completed", "partial", "failed",
                             "interrupted", "cancelled"}
    [] s = "finalizing"  -> {"completed", "partial", "failed", "interrupted"}
    [] s = "interrupted" -> {"queued", "leased", "failed", "cancelled"}
    [] s \in Terminal    -> {}]

LifecycleTypeOK ==
  /\ phase \in [Job -> States \union {"absent"}]
  /\ holder \in [Job -> Token \union {NoToken}]
  /\ deadline \in [Job -> Nat]
  /\ spent \subseteq Token
  /\ now \in Nat

LifecycleInit ==
  /\ phase = [j \in Job |-> "absent"]
  /\ holder = [j \in Job |-> NoToken]
  /\ deadline = [j \in Job |-> 0]
  /\ spent = {}
  /\ now \in Nat

\* The lease of j gets some deadline, the other leases keep theirs.
NewDeadline(j) ==
  /\ deadline'[j] \in Nat
  /\ deadline' = [deadline EXCEPT ![j] = deadline'[j]]

\* A job enters the queue.
Enqueue(j) ==
  /\ phase[j] = "absent"
  /\ phase' = [phase EXCEPT ![j] = "queued"]
  /\ UNCHANGED <<holder, deadline, spent, now>>

\* A waiting job is given to an agent under a token nobody had before.
Grant(j, t) ==
  /\ phase[j] \in Waiting
  /\ t \in Token \ spent
  /\ phase' = [phase EXCEPT ![j] = "leased"]
  /\ holder' = [holder EXCEPT ![j] = t]
  /\ NewDeadline(j)
  /\ spent' = spent \union {t}
  /\ now' = now

\* The holder renews its lease.
Renew(j) ==
  /\ holder[j] # NoToken
  /\ NewDeadline(j)
  /\ UNCHANGED <<phase, holder, spent, now>>

\* The holder moves its job along the table and keeps the lease.
Advance(j, s) ==
  /\ holder[j] # NoToken
  /\ s \in Successors[phase[j]] \intersect Active
  /\ phase' = [phase EXCEPT ![j] = s]
  /\ UNCHANGED <<holder, deadline, spent, now>>

\* The holder ends its job, or gives it back: the lease goes at once.
Release(j, s) ==
  /\ holder[j] # NoToken
  /\ s \in Successors[phase[j]] \intersect (Terminal \union {"interrupted"})
  /\ phase' = [phase EXCEPT ![j] = s]
  /\ holder' = [holder EXCEPT ![j] = NoToken]
  /\ deadline' = [deadline EXCEPT ![j] = 0]
  /\ UNCHANGED <<spent, now>>

\* The engine takes the job from a holder whose lease has run out.
Reclaim(j) ==
  /\ holder[j] # NoToken
  /\ deadline[j] <= now
  /\ phase' = [phase EXCEPT ![j] = "queued"]
  /\ holder' = [holder EXCEPT ![j] = NoToken]
  /\ deadline' = [deadline EXCEPT ![j] = 0]
  /\ UNCHANGED <<spent, now>>

Pass ==
  /\ now' \in Nat
  /\ now' > now
  /\ UNCHANGED <<phase, holder, deadline, spent>>

LifecycleNext ==
  \/ \E j \in Job : Enqueue(j) \/ Renew(j) \/ Reclaim(j)
  \/ \E j \in Job, t \in Token : Grant(j, t)
  \/ \E j \in Job, s \in States : Advance(j, s) \/ Release(j, s)
  \/ Pass

LifecycleSpec == LifecycleInit /\ [][LifecycleNext]_lifecycleVars
=============================================================================
