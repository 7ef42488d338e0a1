-------------------------- MODULE WorkstationRuns --------------------------
(***************************************************************************)
(* The runs of one workstation: apps/local-server/lib/workstations.mjs and *)
(* source-scan-store.mjs, the workstation timer of bin/gateway.mjs, and    *)
(* the agent of apps/workstation-agent, which talk over HTTP.              *)
(*                                                                         *)
(* The database of the local server answers synchronously, so a handler    *)
(* that awaits nothing else is one turn of the event loop: its statements  *)
(* run without interruption, but a crash leaves a prefix of them.  A       *)
(* request may be lost before or after it was handled, or be handled after *)
(* the agent gave it up.                                                   *)
(***************************************************************************)
EXTENDS Naturals, Sequences, FiniteSets

CONSTANTS
    Run,            \* run identifiers
    None,           \* NULL
    Operations,     \* operations that are requested, of "backup", "source-scan", "restore"
    PolicyBound,    \* does the policy name a repository at first?
    Budget,         \* bounds: how often each of Events happens
    MaxUnderWay     \* bound: a report is sent while fewer requests are under way

\* A fault is a crash of the server or the agent, a lost or late answer, or a
\* lease that lapses under a working agent.
Events == {"manual", "slots", "edits", "faults"}

ASSUME RunAssumption ==
    /\ IsFiniteSet(Run) /\ None \notin Run
    /\ Operations \subseteq {"backup", "source-scan", "restore"}
    /\ PolicyBound \in BOOLEAN
    /\ Budget \in [Events -> Nat] /\ MaxUnderWay \in Nat \ {0}

\* Identifiers never run out: every request and slot finds one.
ASSUME EnoughRuns == Cardinality(Run) >= Budget["manual"] + Budget["slots"]

VARIABLES
    db,         \* the tables
    artifacts,  \* uploaded source scans on disk
    server,     \* what handlers hold in memory across a real await
    agent,      \* the agent process
    net,        \* requests that are under way
    seen,       \* observed: leases granted and results sent
    used        \* events so far

vars == <<db, artifacts, server, agent, net, seen, used>>
rest == <<artifacts, server, agent, net, seen>>

Active == {"queued", "leased", "running"}
Leased == {"leased", "running"}
Ended == {"completed", "partial", "failed"}

Absent == [state |-> "absent", op |-> "backup", key |-> 0, token |-> 0, lapsed |-> FALSE]

\* A request of the agent; run and token are those of a lease.
Request(type, run, token, outcome) ==
    [type |-> type, run |-> run, token |-> token, outcome |-> outcome]
PollRequest == Request("poll", None, 0, "none")
StatusOf(run) == Request("status", run, 0, "none")

Idle == [pc |-> "idle", run |-> None, token |-> 0, fail |-> FALSE]
NoHandlers == [finishing |-> {}, writing |-> {}]

Init ==
    /\ db = [run |-> [r \in Run |-> Absent], shown |-> None, scan |-> None,
             policy |-> [slot |-> 1, due |-> FALSE, enabled |-> TRUE, bound |-> PolicyBound]]
    /\ artifacts = {}
    /\ server = NoHandlers
    /\ agent = Idle
    /\ net = {}
    /\ seen = [grants |-> {}, sent |-> {}]
    /\ used = [e \in Events |-> 0]

Spend(e) == used[e] < Budget[e] /\ used' = [used EXCEPT ![e] = @ + 1]

----------------------------------------------------------------------------
(* Turns.  `steps` are the tables after each statement of a handler.        *)

Final(steps) == steps[Len(steps)]

\* The process is killed within the turn: connections and memory are gone.
Dies(steps) ==
    /\ Spend("faults")
    /\ \E i \in 1 .. Len(steps) - 1 : db' = steps[i]
    /\ net' = {} /\ server' = NoHandlers
    /\ UNCHANGED <<artifacts, agent, seen>>

\* A turn of the server that answers nobody.
Turn(steps) ==
    \/ Dies(steps)
    \/ db' = Final(steps) /\ UNCHANGED <<rest, used>>

Crash == Dies(<<db, db>>)

----------------------------------------------------------------------------
(* Rows of workstation_runs.                                                *)

\* Mutant: a leased run does not count as active.
Busy_Queued(d) == \E r \in Run : d.run[r].state \in {"queued", "running"}
Busy(d) == \E r \in Run : d.run[r].state \in Active

Insert(d, r, op, key) ==
    [d EXCEPT !.run[r] = [Absent EXCEPT !.state = "queued", !.op = op, !.key = key]]

\* Mutant: the token is kept.
Release_KeepsToken(row, state) == [row EXCEPT !.state = state, !.lapsed = FALSE]
Release(row, state) ==
    [row EXCEPT !.state = state, !.token = 0, !.lapsed = FALSE]

\* The WHERE of every write under a lease.  It does not look at the expiry.
\* Mutant: any lease of the run will do.
Holds_AnyToken(m) == db.run[m.run].state \in Leased
Holds(m) == db.run[m.run].state \in Leased /\ db.run[m.run].token = m.token

\* Mutant: only runs that reported progress are recovered.
Lapsed_Running(d, r) == d.run[r].state = "running" /\ d.run[r].lapsed
Lapsed(d, r) == d.run[r].state \in Leased /\ d.run[r].lapsed

\* Mutant: a restore is queued again like everything else.
RecoveredTo_Queued(row) == IF row.op = "none" THEN "failed" ELSE "queued"
RecoveredTo(row) == IF row.op = "restore" THEN "failed" ELSE "queued"

\* recoverExpired: the rows, then the status that shows them.
RecoverSteps(d) ==
    LET lapsed == {r \in Run : Lapsed(d, r)}
        a == [d EXCEPT !.run = [r \in Run |-> IF r \in lapsed
                                             THEN Release(@[r], RecoveredTo(@[r]))
                                             ELSE @[r]]]
    IN <<a, [a EXCEPT !.shown = IF @ \in lapsed THEN None ELSE @]>>

----------------------------------------------------------------------------
(* Requests of the user, and the scheduler.                                 *)

\* runNow, queueSourceScan, queueRecovery.  Their keys are unique.
Ask(op) ==
    /\ Spend("manual")
    /\ ~Busy(db)
    /\ \E r \in Run : db.run[r].state = "absent" /\ db' = Insert(db, r, op, 0)
    /\ UNCHANGED rest

\* putPolicy counts the next slot from now: a due slot is passed over.
PutPolicy(on) ==
    /\ Spend("edits")
    /\ db' = [db EXCEPT !.policy = [slot |-> IF @.due THEN @.slot + 1 ELSE @.slot,
                                    due |-> FALSE, enabled |-> on, bound |-> TRUE]]
    /\ UNCHANGED rest

SlotDue ==
    /\ db.policy.enabled /\ ~db.policy.due
    /\ Spend("slots")
    /\ db' = [db EXCEPT !.policy.due = TRUE]
    /\ UNCHANGED rest

\* Mutant: the operation key is not looked up.
KeyFree_Always(d) == d.policy.slot > 0
KeyFree(d) == \A r \in Run : d.run[r].key # d.policy.slot

Advance(d) == [d EXCEPT !.policy.slot = @ + 1, !.policy.due = FALSE]

\* Mutant: a slot that finds the device busy is passed over.
PassesOver_Busy(d) == ~KeyFree(d) \/ Busy(d)
\* Mutant: a slot whose run exists is left alone.
PassesOver_Never(d) == d.policy.slot = 0
PassesOver(d) == ~KeyFree(d)

Due(d) == d.policy.enabled /\ d.policy.due

\* recoverExpired, then runDue: queue the run of the slot under its key, which
\* may be there already, and go on to the next slot.  A busy device leaves the
\* slot due.
Scheduler ==
    LET recovered == RecoverSteps(db)
        d == Final(recovered)
    IN \/ /\ Due(d) /\ PassesOver(d)
          /\ Turn(Append(recovered, Advance(d)))
       \/ /\ Due(d) /\ ~PassesOver(d) /\ KeyFree(d) /\ ~Busy(d)
          /\ \E r \in Run :
               /\ d.run[r].state = "absent"
               /\ LET queued == Insert(d, r, "backup", d.policy.slot)
                  IN Turn(recovered \o <<queued, Advance(queued)>>)
       \/ /\ ~Due(d) \/ (~PassesOver(d) /\ Busy(d))
          /\ Turn(recovered)

----------------------------------------------------------------------------
(* Time and the network.                                                    *)

AgentHolds(r) == agent.run = r /\ agent.token = db.run[r].token

\* Five minutes without a renewal.  While the agent works under the lease that
\* takes a suspended machine, a broken link or a long upload.
LeaseLapses(r) ==
    /\ db.run[r].state \in Leased /\ ~db.run[r].lapsed
    /\ IF AgentHolds(r) THEN Spend("faults") ELSE UNCHANGED used
    /\ db' = [db EXCEPT !.run[r].lapsed = TRUE]
    /\ UNCHANGED rest

Lose(m) ==
    /\ m \in net
    /\ Spend("faults")
    /\ net' = net \ {m}
    /\ UNCHANGED <<db, artifacts, server, agent, seen>>

----------------------------------------------------------------------------
(* The agent.  Its main loop polls and reports, one goroutine executes.     *)

Send(m) == net' = net \cup {m}
Own(type, outcome) == Request(type, agent.run, agent.token, outcome)
Operation == db.run[agent.run].op

AgentPoll ==
    /\ agent.pc = "idle" /\ agent.run = None
    /\ Send(PollRequest)
    /\ agent' = [agent EXCEPT !.pc = "polling"]
    /\ UNCHANGED <<db, artifacts, server, seen, used>>

AgentStatus ==
    /\ agent.pc # "polling"
    /\ StatusOf(agent.run) \notin net /\ Cardinality(net) < MaxUnderWay
    /\ Send(StatusOf(agent.run))
    /\ UNCHANGED <<db, artifacts, server, agent, seen, used>>

\* A backup goes on while another goroutine reports; a scan waits for the answer.
AgentProgress ==
    /\ agent.pc \in {"working", "reported"} /\ ~agent.fail /\ Operation # "restore"
    /\ Own("progress", "none") \notin net /\ Cardinality(net) < MaxUnderWay
    /\ Send(Own("progress", "none"))
    /\ agent' = IF Operation = "backup" THEN agent ELSE [agent EXCEPT !.pc = "reporting"]
    /\ UNCHANGED <<db, artifacts, server, seen, used>>

AgentUpload ==
    /\ agent.pc = "reported"
    /\ Send(Own("upload", "none"))
    /\ agent' = [agent EXCEPT !.pc = "uploading"]
    /\ UNCHANGED <<db, artifacts, server, seen, used>>

\* What executeBackup and execute report: a scan succeeds only after its
\* upload, and operations that are not supported fail at once.
Outcomes ==
    IF agent.fail THEN {"failed"}
    ELSE IF agent.pc = "uploaded" THEN {"completed"}
    ELSE IF Operation = "backup" THEN Ended ELSE {"failed"}

AgentFinish(outcome) ==
    /\ agent.pc \in {"working", "reported", "uploaded"}
    /\ outcome \in Outcomes
    /\ Send(Own("finish", outcome))
    /\ agent' = [agent EXCEPT !.pc = "ending"]
    /\ seen' = [seen EXCEPT !.sent = @ \cup {<<agent.run, agent.token, outcome>>}]
    /\ UNCHANGED <<db, artifacts, server, used>>

\* Is a request of the agent, sent under its lease, still without an answer?
Pending(type) ==
    \/ \E m \in net \cup server.finishing :
         m.type = type /\ m.run = agent.run /\ m.token = agent.token
    \/ type = "upload" /\ <<agent.run, agent.token>> \in server.writing

\* The answer, whatever it is, or a timeout; results are not sent again.
Unanswered(type) == IF Pending(type) THEN Spend("faults") ELSE UNCHANGED used

\* Mutant: runningID is not cleared.
AfterRun_Kept == [agent EXCEPT !.pc = "idle", !.fail = FALSE]
AfterRun == Idle

AgentDone ==
    /\ agent.pc = "ending"
    /\ Unanswered("finish")
    /\ agent' = AfterRun
    /\ Send(StatusOf(AfterRun.run))
    /\ UNCHANGED <<db, artifacts, server, seen>>

AgentPollFails ==
    /\ agent.pc = "polling"
    /\ IF PollRequest \in net THEN Spend("faults") ELSE UNCHANGED used
    /\ agent' = Idle
    /\ UNCHANGED <<db, artifacts, server, net, seen>>

\* A scan gives up when a report or its upload is refused or not answered.
AgentScanFails ==
    /\ \/ agent.pc = "reporting" /\ Unanswered("progress")
       \/ agent.pc = "uploading" /\ Unanswered("upload")
    /\ agent' = [agent EXCEPT !.pc = "working", !.fail = TRUE]
    /\ UNCHANGED <<db, artifacts, server, net, seen>>

AgentRestart ==
    /\ Spend("faults")
    /\ agent' = Idle
    /\ UNCHANGED <<db, artifacts, server, net, seen>>

----------------------------------------------------------------------------
(* The handlers of the agent's requests.                                    *)

\* Without a repository for the device only source scans are handed out.
Pollable(d, r) ==
    /\ d.run[r].state = "queued"
    /\ d.policy.bound \/ d.run[r].op = "source-scan"

NextToken == Cardinality(seen.grants) + 1

\* The agent takes the run from the answer, or the answer is lost.
HandOut(r) ==
    \/ /\ agent.pc = "polling"
       /\ agent' = [pc |-> "working", run |-> r, token |-> NextToken, fail |-> FALSE]
       /\ UNCHANGED used
    \/ /\ IF agent.pc = "polling" THEN Spend("faults") ELSE UNCHANGED used
       /\ UNCHANGED agent

Poll ==
    LET recovered == RecoverSteps(db)
        d == Final(recovered)
    IN /\ PollRequest \in net
       /\ \/ Dies(Append(recovered, d))
          \/ \E r \in Run :
               /\ Pollable(d, r)
               /\ db' = [d EXCEPT !.run[r].state = "leased", !.run[r].token = NextToken]
               /\ HandOut(r)
               /\ seen' = [seen EXCEPT !.grants = @ \cup {<<r, NextToken>>}]
               /\ net' = net \ {PollRequest}
               /\ UNCHANGED <<artifacts, server>>
          \/ /\ \A r \in Run : ~Pollable(d, r)
             /\ db' = d
             /\ agent' = IF agent.pc = "polling" THEN Idle ELSE agent
             /\ net' = net \ {PollRequest}
             /\ UNCHANGED <<artifacts, server, seen, used>>

Renewed(r) == [db EXCEPT !.run[r].state = "running", !.run[r].lapsed = FALSE]

\* A backup whose report is rejected with 409 is cancelled.
Cancelled == [agent EXCEPT !.fail = TRUE]
Reported == [agent EXCEPT !.pc = "reported"]

\* The agent may get to know of the answer, if it still executes that lease.
Answer(m, pc, reaction) ==
    IF agent.pc = pc /\ agent.run = m.run /\ agent.token = m.token
    THEN agent' \in {agent, reaction} ELSE UNCHANGED agent

Progress(m) ==
    /\ m \in net /\ m.type = "progress"
    /\ LET steps == <<Renewed(m.run), [Renewed(m.run) EXCEPT !.shown = m.run]>>
       IN \/ Holds(m) /\ Dies(steps)
          \/ /\ IF Holds(m)
                THEN db' = Final(steps) /\ Answer(m, "reporting", Reported)
                ELSE db' = db /\ Answer(m, "working", Cancelled)
             /\ net' = net \ {m}
             /\ UNCHANGED <<artifacts, server, seen, used>>

Status(m) ==
    /\ m \in net /\ m.type = "status"
    /\ db' = [db EXCEPT !.shown = m.run]
    /\ net' = net \ {m}
    /\ UNCHANGED <<artifacts, server, agent, seen, used>>

\* authorizeSourceScanUpload, then the store writes a temporary file.
Upload(m) ==
    /\ m \in net /\ m.type = "upload"
    /\ db' = IF Holds(m) THEN Renewed(m.run) ELSE db
    /\ server' = IF Holds(m) THEN [server EXCEPT !.writing = @ \cup {<<m.run, m.token>>}]
                 ELSE server
    /\ net' = net \ {m}
    /\ UNCHANGED <<artifacts, agent, seen, used>>

\* The file is renamed into place and the agent is told, or the connection breaks.
WriteEnds(w, stored) ==
    /\ w \in server.writing
    /\ server' = [server EXCEPT !.writing = @ \ {w}]
    /\ IF stored
       THEN /\ artifacts' = artifacts \cup {w[1]}
            /\ IF agent.pc = "uploading" /\ w = <<agent.run, agent.token>>
               THEN agent' \in {agent, [agent EXCEPT !.pc = "uploaded"]}
               ELSE UNCHANGED agent
       ELSE UNCHANGED <<artifacts, agent>>
    /\ UNCHANGED <<db, net, seen, used>>

NeedsArtifact(m) == db.run[m.run].op = "source-scan" /\ m.outcome = "completed"

Stored(m) == m.run \in artifacts

\* The row, the status, and what a scan found; then the artifact before it goes.
FinishSteps(m) ==
    LET a == [db EXCEPT !.run[m.run] = Release(@, m.outcome)]
        b == [a EXCEPT !.shown = None]
    IN IF NeedsArtifact(m) THEN <<a, b, [b EXCEPT !.scan = m.run]>> ELSE <<a, b>>

\* Mutant: the result of any operation removes the artifact.
Obsolete_Always(m) == {db.scan} \ {m.run}
Obsolete(m) == IF NeedsArtifact(m) THEN {db.scan} \ {m.run} ELSE {}

Save(m) ==
    \/ Dies(FinishSteps(m))
    \/ /\ db' = Final(FinishSteps(m))
       /\ artifacts' = artifacts \ Obsolete(m)
       /\ net' = net \ {m}
       /\ server' = [server EXCEPT !.finishing = @ \ {m}]
       /\ UNCHANGED <<agent, seen, used>>

\* normalizeResult takes no result of a restore that does not name its snapshot,
\* and the agent, which does not restore, reports a failure that names none.
WellFormed(m) == db.run[m.run].op # "restore"

\* 409, or 400 for a result that is not well-formed; the agent drops the error.
Refuse(m) ==
    /\ net' = net \ {m}
    /\ server' = [server EXCEPT !.finishing = @ \ {m}]
    /\ UNCHANGED <<db, artifacts, agent, seen, used>>

Finish(m) ==
    /\ m \in net /\ m.type = "finish"
    /\ IF ~Holds(m) \/ ~WellFormed(m) THEN Refuse(m)
       ELSE IF ~NeedsArtifact(m) THEN Save(m)
       ELSE /\ net' = net \ {m}
            /\ server' = [server EXCEPT !.finishing = @ \cup {m}]
            /\ UNCHANGED <<db, artifacts, agent, seen, used>>

\* The turn after sourceScanStore.exists: the UPDATE repeats the conditions.
FinishScan(m) ==
    /\ m \in server.finishing
    /\ IF Stored(m) /\ Holds(m) THEN Save(m) ELSE Refuse(m)

----------------------------------------------------------------------------
\* Handlers that awaited a file.
Resumed ==
    \/ \E m \in server.finishing : FinishScan(m)
    \/ \E w \in server.writing, stored \in BOOLEAN : WriteEnds(w, stored)

Handler ==
    \/ Poll
    \/ \E m \in net : Progress(m) \/ Status(m) \/ Upload(m) \/ Finish(m)
    \/ Resumed

AgentStep ==
    \/ AgentPoll \/ AgentPollFails \/ AgentStatus \/ AgentProgress
    \/ AgentUpload \/ AgentScanFails \/ AgentDone \/ AgentRestart
    \/ \E outcome \in Ended : AgentFinish(outcome)

Environment ==
    \/ \E op \in Operations : Ask(op)
    \/ \E on \in BOOLEAN : PutPolicy(on)
    \/ SlotDue \/ Crash
    \/ \E r \in Run : LeaseLapses(r)
    \/ \E m \in net : Lose(m)

Next == Handler \/ AgentStep \/ Scheduler \/ Environment

Spec == Init /\ [][Next]_vars

\* The timers of the gateway and the agent fire, what was sent is handled in
\* the end, and a lease nobody renews lapses.  The strong forms: the status
\* report takes turns with the poll in one loop, and work that reports its
\* progress again and again is finite.
Fairness ==
    /\ WF_vars(Scheduler)
    /\ WF_vars(Poll)
    /\ WF_vars(\E m \in net : Status(m))
    /\ WF_vars(\E m \in net : Progress(m))
    /\ WF_vars(\E m \in net : Upload(m) \/ Finish(m))
    /\ WF_vars(Resumed)
    /\ WF_vars(AgentPoll \/ AgentPollFails \/ AgentScanFails \/ AgentDone)
    /\ SF_vars(AgentUpload \/ \E outcome \in Ended : AgentFinish(outcome))
    /\ SF_vars(AgentStatus)
    /\ WF_vars(\E r \in Run : LeaseLapses(r) /\ ~AgentHolds(r))

LiveSpec == Spec /\ Fairness

----------------------------------------------------------------------------
(* Properties.                                                              *)

Lease == Run \X Nat
MayRun == Run \cup {None}
State == {"absent"} \cup Active \cup Ended
Op == {"backup", "source-scan", "restore"}
\* Of a run as it is handed out the columns that decide about it; of a policy
\* whether it is on and names a repository, its schedule being the slot.
RowType == [state : State, op : Op, key : Nat, token : Nat, lapsed : BOOLEAN]
Slot == Nat \ {0}
PolicyType == [slot : Slot, due : BOOLEAN, enabled : BOOLEAN, bound : BOOLEAN]
DbType == [run : [Run -> RowType], shown : MayRun, scan : MayRun, policy : PolicyType]
AgentPc == {"idle", "polling", "working", "reporting", "reported",
            "uploading", "uploaded", "ending"}
AgentType == [pc : AgentPc, run : MayRun, token : Nat, fail : BOOLEAN]
UnderLease == {"progress", "upload", "finish"}
MessageType == {"poll", "status"} \cup UnderLease
\* What is left of a result once it is accepted as one of its operation.
Outcome == {"none"} \cup Ended
Message == [type : MessageType, run : MayRun, token : Nat, outcome : Outcome]
Messages == SUBSET Message
Leases == SUBSET Lease
Results == SUBSET (Run \X Nat \X Ended)
ServerType == [finishing : Messages, writing : Leases]
SeenType == [grants : Leases, sent : Results]

TypeOK ==
    /\ db \in DbType
    /\ \A r \in Run : db.run[r].token # 0 <=> db.run[r].state \in Leased
    /\ artifacts \subseteq Run
    /\ server \in ServerType
    /\ agent \in AgentType /\ (agent.pc \in {"idle", "polling"} <=> agent.run = None)
    /\ net \in Messages
    /\ \A m \in net \cup server.finishing : m.type \in UnderLease => m.run \in Run
    /\ \A m \in server.finishing : m.type = "finish"
    /\ seen \in SeenType
    /\ IsFiniteSet(seen.grants)
    /\ used \in [Events -> Nat] /\ \A e \in Events : used[e] <= Budget[e]

\* A device has at most one active run, whatever is requested, due, recovered
\* or cut short by a crash (docs/workstations.md:127).
OneActiveRun ==
    \A r, s \in Run : db.run[r].state \in Active /\ db.run[s].state \in Active => r = s

\* A scheduled slot is run once, although a crash may separate the insertion
\* of its run from the advance of the policy.
SlotRunsOnce ==
    \A r, s \in Run : db.run[r].key = db.run[s].key /\ r # s => db.run[r].key = 0

\* The scheduler leaves a slot only when the slot has its run.
NoSlotSkipped ==
    [][db'.policy.slot # db.policy.slot /\ used'["edits"] = used["edits"]
         => \E r \in Run : db'.run[r].key = db.policy.slot]_vars

\* An interrupted restore is never handed out again (docs/workstations.md:132).
RestoreNeverRetried ==
    \A r \in Run : db.run[r].op = "restore" =>
        \A g, h \in seen.grants : g[1] = r /\ h[1] = r => g = h

\* A result is the one that the holder of the current lease sent, or the
\* failure of a restore whose lease lapsed; nothing changes it afterwards.
ResultIsTheHolders ==
    [][\A r \in Run :
         LET row == db.run[r]  new == db'.run[r]
         IN /\ row.state \in Ended => new = row
            /\ row.state \notin Ended /\ new.state \in Ended =>
                 \/ <<r, row.token, new.state>> \in seen.sent
                 \/ row.op = "restore" /\ row.lapsed /\ new.state = "failed"]_vars

\* The scan that is shown can be opened: its artifact is on disk, although
\* uploads, results and the removal of the previous artifact interleave.
ShownScanIsStored == db.scan # None => db.scan \in artifacts

\* What makes them inductive.  A run that waits for its first lease, and a
\* restore that is queued, have had none; a result under way was sent as it is.
FreshRuns ==
    \A r \in Run :
        db.run[r].state = "absent" \/ (db.run[r].state = "queued" /\ db.run[r].op = "restore")
            => \A g \in seen.grants : g[1] # r
ResultsAsSent ==
    \A m \in net \cup server.finishing :
        m.type = "finish" => <<m.run, m.token, m.outcome>> \in seen.sent

IInv ==
    /\ TypeOK /\ OneActiveRun /\ SlotRunsOnce /\ FreshRuns
    /\ RestoreNeverRetried /\ ResultsAsSent /\ ShownScanIsStored

\* docs/workstations.md:92: a lease that has expired is rejected, so its run is
\* changed by recovery only.
ExpiredLeaseRejected ==
    [][\A r \in Run : Lapsed(db, r) /\ db'.run[r] # db.run[r]
         => db'.run[r].state = RecoveredTo(db.run[r])]_vars

\* Every run ends, whatever answer was lost, as long as the agent lives.
RunsEnd == \A r \in Run : db.run[r].state \in Active ~> db.run[r].state \in Ended

\* A slot that is due gets its run, or is passed over by an edit.
DueSlotIsTaken == Due(db) ~> ~Due(db)

\* Status reports may be late and overtake each other, yet when no run is
\* active for good none is shown for good.
StatusSettles ==
    <>[](\A r \in Run : db.run[r].state \notin Active) => <>[](db.shown = None)
=============================================================================
