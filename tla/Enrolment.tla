------------------------------ MODULE Enrolment ------------------------------
(***************************************************************************)
(* How a workstation is enrolled, gets its identity and is given a folder. *)
(*                                                                         *)
(*   apps/local-server/lib/managed-devices.mjs                             *)
(*   apps/local-server/lib/receiver-users.mjs                              *)
(*   apps/local-server/lib/workstations.mjs (putPolicy, remove)            *)
(*   apps/local-server/bin/gateway.mjs (enroll, repository-profile)        *)
(*   apps/local-server/web/install.ps1                                     *)
(*   apps/workstation-agent/main.go (report, saveConfig)                   *)
(*                                                                         *)
(* The server's handlers are cut at the awaits of the file system and of   *)
(* scrypt; those that only use the database are one step.  A token is the  *)
(* device and a number: whoever has it was given it.  Left out are the     *)
(* receivers made by hand, and of the others what turns one off or gives   *)
(* it another password, which no property here depends on.                 *)
(***************************************************************************)
EXTENDS Integers, FiniteSets

CONSTANTS
    Device,      \* devices; one enrolment request creates each
    Machine,     \* computers
    Editor,      \* callers that change a policy
    Name,        \* names a workstation may be given
    Folder,      \* folders below its repository
    None,        \* "no token", "no folder", "no device"
    MaxTokens,   \* bound: tokens of a device
    MaxEvents    \* bound: what the operator does after enrolling, a config
                 \* written by hand included, lost answers, crashes and
                 \* failed calls, taken together

ASSUME SetAssumption ==
    /\ IsFiniteSet(Device) /\ IsFiniteSet(Machine) /\ IsFiniteSet(Editor)
    /\ Device \cap Editor = {}
    /\ None \notin Device \cup Folder \cup Name
ASSUME BoundAssumption ==
    MaxTokens \in Nat \ {0} /\ MaxEvents \in Nat

VARIABLES
    dev,      \* table managed_devices
    recv,     \* table receiver_users: name, device and folder
    policy,   \* table workstation_policies: the folder
    task,     \* handlers of enroll and of putPolicy that are under way
    shown,    \* install commands that were shown
    file,     \* the token in workstation.json of each machine
    pc,       \* the installer or the agent's report on each machine
    mixed,    \* history: devices of which two handlers were between policy
              \* and receiver at a time, or one was cut there, and no handler
              \* has written both alone since
    bereft,   \* history: devices that lost their receiver and stayed
    budget    \* how many acts of the operator and faults there were

vars == <<dev, recv, policy, task, shown, file, pc, mixed, bereft, budget>>

Token    == [dev : Device, n : 1 .. MaxTokens]
Caller   == Device \cup Editor
NoDevice == [there |-> FALSE, token |-> 0, seen |-> FALSE, old |-> FALSE, enabled |-> TRUE]
NoTask   == [pc |-> "idle", dev |-> None, name |-> None, folder |-> None]
NoCall   == [pc |-> "idle", kind |-> "installer", cmd |-> {}, held |-> {}]

Init ==
    /\ dev = [d \in Device |-> NoDevice]
    /\ recv = {}
    /\ policy = [d \in Device |-> None]
    /\ task = [c \in Caller |-> NoTask]
    /\ shown = {}
    /\ file = [m \in Machine |-> {}]
    /\ pc = [m \in Machine |-> NoCall]
    /\ mixed = {} /\ bereft = {}
    /\ budget = 0

Event == budget < MaxEvents /\ budget' = budget + 1

----------------------------------------------------------------------------
(* enroll: the device, then its receiver, whose password is hashed, then   *)
(* its policy.  The handler stands for the device it creates.               *)

Enrol(d, name, folder) ==
    /\ dev[d].token = 0
    /\ dev' = [dev EXCEPT ![d].there = TRUE, ![d].token = 1]
    /\ task' = [task EXCEPT ![d] = [pc |-> "hash", dev |-> d, name |-> name, folder |-> folder]]
    /\ UNCHANGED <<recv, policy, shown, file, pc, mixed, bereft, budget>>

NameTaken(name) == \E r \in recv : r.name = name

\* The name must be free and the device still there; otherwise the request
\* fails and the device stays behind.
AddReceiver(d) ==
    /\ task[d].pc = "hash"
    /\ IF dev[d].there /\ ~NameTaken(task[d].name)
       THEN /\ recv' = recv \cup {[name |-> task[d].name, dev |-> d, folder |-> task[d].folder]}
            /\ task' = [task EXCEPT ![d].pc = "policy"]
       ELSE recv' = recv /\ task' = [task EXCEPT ![d] = NoTask]
    /\ UNCHANGED <<dev, policy, shown, file, pc, mixed, bereft, budget>>

----------------------------------------------------------------------------
(* putPolicy: the row of the policy, and after another look at the disk    *)
(* the folder of the receiver.                                              *)

Edit(e, d, folder) ==
    /\ Event
    /\ task[e].pc = "idle"
    /\ dev[d].there
    /\ task' = [task EXCEPT ![e] = [pc |-> "policy", dev |-> d, name |-> None, folder |-> folder]]
    /\ UNCHANGED <<dev, recv, policy, shown, file, pc, mixed, bereft>>

Between(c, d) == task[c].pc = "root" /\ task[c].dev = d

WritePolicy(c) ==
    /\ task[c].pc = "policy"
    /\ LET d == task[c].dev IN
       IF dev[d].there
       THEN /\ policy' = [policy EXCEPT ![d] = task[c].folder]
            /\ mixed' = IF \E x \in Caller \ {c} : Between(x, d)
                        THEN mixed \cup {d} ELSE mixed \ {d}
            /\ task' = [task EXCEPT ![c].pc = "root"]
       ELSE UNCHANGED <<policy, mixed>> /\ task' = [task EXCEPT ![c] = NoTask]
    /\ UNCHANGED <<dev, recv, shown, file, pc, bereft, budget>>

Moved_Never(r, c) == r

\* updateWorkstationRoot.
Moved(r, c) == IF r.dev = task[c].dev THEN [r EXCEPT !.folder = task[c].folder] ELSE r

HasReceiver(d) == \E r \in recv : r.dev = d

\* The enrolment is answered with the install command.
WriteRoot(c) ==
    /\ task[c].pc = "root"
    /\ recv' = {Moved(r, c) : r \in recv}
    /\ shown' = IF c \in Device /\ HasReceiver(c) THEN shown \cup {[dev |-> c, n |-> 1]} ELSE shown
    /\ task' = [task EXCEPT ![c] = NoTask]
    /\ UNCHANGED <<dev, policy, file, pc, mixed, bereft, budget>>

----------------------------------------------------------------------------
(* The operator: rotateToken, update, and the removal of a workstation or  *)
(* of a receiver.                                                           *)

Rotate(d) ==
    /\ Event
    /\ dev[d].there /\ dev[d].token < MaxTokens
    /\ dev' = [dev EXCEPT ![d].token = @ + 1]
    /\ shown' = shown \cup {[dev |-> d, n |-> dev[d].token + 1]}
    /\ UNCHANGED <<recv, policy, task, file, pc, mixed, bereft>>

SetEnabled(d) ==
    /\ Event
    /\ dev[d].there
    /\ dev' = [dev EXCEPT ![d].enabled = ~@]
    /\ UNCHANGED <<recv, policy, task, shown, file, pc, mixed, bereft>>

Remove(d) ==
    /\ Event
    /\ dev[d].there
    /\ recv' = {r \in recv : r.dev # d}
    /\ dev' = [dev EXCEPT ![d].there = FALSE]
    /\ policy' = [policy EXCEPT ![d] = None]
    /\ UNCHANGED <<task, shown, file, pc, mixed, bereft>>

\* Transfer users are deleted one by one, those of workstations as well.
RemoveReceiver(d) ==
    /\ Event
    /\ HasReceiver(d)
    /\ recv' = {r \in recv : r.dev # d}
    /\ bereft' = bereft \cup {d}
    /\ UNCHANGED <<dev, policy, task, shown, file, pc, mixed>>

\* The 15 minutes since created_at are over.
Expire(d) ==
    /\ dev[d].there /\ ~dev[d].seen /\ ~dev[d].old
    /\ dev' = [dev EXCEPT ![d].old = TRUE]
    /\ UNCHANGED <<recv, policy, task, shown, file, pc, mixed, bereft, budget>>

----------------------------------------------------------------------------
(* A machine: install.ps1, and the agent's report.                          *)

\* A saved token is tried first, a credential of the command line without it.
Install(m, cmd) ==
    /\ pc[m].pc = "idle"
    /\ cmd \cup file[m] # {}
    /\ pc' = [pc EXCEPT ![m] = IF file[m] = {}
                 THEN [NoCall EXCEPT !.pc = "report", !.cmd = cmd]
                 ELSE [NoCall EXCEPT !.pc = "profile", !.cmd = cmd, !.held = file[m]]]
    /\ UNCHANGED <<dev, recv, policy, task, shown, file, mixed, bereft, budget>>

\* A config written by hand has the credential of the command in it.
Configure(m, t) ==
    /\ Event
    /\ file[m] = {} /\ pc[m].pc = "idle"
    /\ t.n = 1
    /\ file' = [file EXCEPT ![m] = {t}]
    /\ UNCHANGED <<dev, recv, policy, task, shown, pc, mixed, bereft>>

AgentReport(m) ==
    /\ pc[m].pc = "idle" /\ file[m] # {}
    /\ pc' = [pc EXCEPT ![m] = [NoCall EXCEPT !.pc = "report", !.kind = "agent", !.cmd = file[m]]]
    /\ UNCHANGED <<dev, recv, policy, task, shown, file, mixed, bereft, budget>>

IsCurrent(t) == dev[t.dev].there /\ dev[t.dev].token = t.n

\* Requests with this token are authenticated.
Accepted(t) == IsCurrent(t) /\ dev[t.dev].enabled /\ dev[t.dev].seen

NeedsBootstrap_Always(t) == IsCurrent(t)

NeedsBootstrap(t) == IsCurrent(t) /\ ~dev[t.dev].seen

Bootstraps(t) ==
    NeedsBootstrap(t) /\ dev[t.dev].enabled /\ ~dev[t.dev].old /\ t.n < MaxTokens

Renewed_Same(d) == dev[d].token
Renewed(d) == dev[d].token + 1

\* report: an install credential is exchanged for the token of the device; a
\* token of a device changes nothing, and the installer has no use for that.
Report(m) ==
    /\ pc[m].pc = "report"
    /\ \E t \in pc[m].cmd :
          IF Bootstraps(t)
          THEN /\ dev' = [dev EXCEPT ![t.dev].seen = TRUE, ![t.dev].token = Renewed(t.dev)]
               /\ pc' = [pc EXCEPT ![m].pc = "answer",
                                   ![m].held = {[dev |-> t.dev, n |-> Renewed(t.dev)]}]
          ELSE dev' = dev /\ pc' = [pc EXCEPT ![m] = NoCall]
    /\ UNCHANGED <<recv, policy, task, shown, file, mixed, bereft, budget>>

\* The agent saves the new token, the installer asks for the profile first.
Answer(m) ==
    /\ pc[m].pc = "answer"
    /\ IF pc[m].kind = "agent"
       THEN file' = [file EXCEPT ![m] = pc[m].held] /\ pc' = [pc EXCEPT ![m] = NoCall]
       ELSE file' = file /\ pc' = [pc EXCEPT ![m].pc = "profile", ![m].cmd = {}]
    /\ UNCHANGED <<dev, recv, policy, task, shown, mixed, bereft, budget>>

HasProfile(t) == Accepted(t) /\ policy[t.dev] # None /\ HasReceiver(t.dev)

\* Without a profile the installer falls back to its credential, if it has
\* one left, and ends otherwise.
FallBack(m) ==
    [pc EXCEPT ![m] = IF pc[m].cmd = {} THEN NoCall
                      ELSE [NoCall EXCEPT !.pc = "report", !.cmd = pc[m].cmd]]

Profile(m) ==
    /\ pc[m].pc = "profile"
    /\ IF \E t \in pc[m].held : HasProfile(t)
       THEN file' = [file EXCEPT ![m] = pc[m].held] /\ pc' = [pc EXCEPT ![m] = NoCall]
       ELSE file' = file /\ pc' = FallBack(m)
    /\ UNCHANGED <<dev, recv, policy, task, shown, mixed, bereft, budget>>

----------------------------------------------------------------------------
(* Faults. *)

CallFails(m) ==
    /\ pc[m].pc # "idle"
    /\ Event
    /\ pc' = IF pc[m].pc = "profile" THEN FallBack(m) ELSE [pc EXCEPT ![m] = NoCall]
    /\ UNCHANGED <<dev, recv, policy, task, shown, file, mixed, bereft>>

\* The machine stops while saveConfig writes the file.
SaveIsCut(m) ==
    /\ pc[m].pc = "answer" /\ pc[m].kind = "agent"
    /\ Event
    /\ file' = [file EXCEPT ![m] = {}]
    /\ pc' = [pc EXCEPT ![m] = NoCall]
    /\ UNCHANGED <<dev, recv, policy, task, shown, mixed, bereft>>

\* Devices between whose policy and receiver a handler is.
HalfWritten == {d \in Device : \E c \in Caller : Between(c, d)}

Crash ==
    /\ Event
    /\ \E c \in Caller : task[c].pc # "idle"
    /\ task' = [c \in Caller |-> NoTask]
    /\ mixed' = mixed \cup HalfWritten
    /\ UNCHANGED <<dev, recv, policy, shown, file, pc, bereft>>

\* The process dies between the two deletions of a removal.
RemoveIsCut(d) ==
    /\ dev[d].there /\ HasReceiver(d)
    /\ Event
    /\ recv' = {r \in recv : r.dev # d}
    /\ task' = [c \in Caller |-> NoTask]
    /\ mixed' = mixed \cup HalfWritten
    /\ bereft' = bereft \cup {d}
    /\ UNCHANGED <<dev, policy, shown, file, pc>>

----------------------------------------------------------------------------
Operator == \E d \in Device : Rotate(d) \/ SetEnabled(d) \/ Remove(d) \/ RemoveReceiver(d)

Next ==
    \/ \E d \in Device, n \in Name, f \in Folder : Enrol(d, n, f)
    \/ \E d \in Device : AddReceiver(d) \/ Expire(d) \/ RemoveIsCut(d)
    \/ \E e \in Editor, d \in Device, f \in Folder : Edit(e, d, f)
    \/ \E c \in Caller : WritePolicy(c) \/ WriteRoot(c)
    \/ Operator
    \/ \E m \in Machine : \E cmd \in {{}} \cup {{t} : t \in shown} : Install(m, cmd)
    \/ \E m \in Machine : \E t \in shown : Configure(m, t)
    \/ \E m \in Machine : AgentReport(m) \/ Report(m) \/ Answer(m) \/ Profile(m)
    \/ \E m \in Machine : CallFails(m) \/ SaveIsCut(m)
    \/ Crash

Spec == Init /\ [][Next]_vars

----------------------------------------------------------------------------
(* Properties. *)

TaskPc   == {"idle", "hash", "policy", "root"}
CallPc   == {"idle", "report", "answer", "profile"}
Kind     == {"installer", "agent"}
Count    == 0 .. MaxTokens
Tokens   == SUBSET Token
\* Of a device its token, whether it was seen, and whether it may report.
DevType  == [there : BOOLEAN, token : Count, seen : BOOLEAN, old : BOOLEAN, enabled : BOOLEAN]
TaskDev    == Device \cup {None}
TaskName   == Name \cup {None}
TaskFolder == Folder \cup {None}
TaskType == [pc : TaskPc, dev : TaskDev, name : TaskName, folder : TaskFolder]
CallType == [pc : CallPc, kind : Kind, cmd : Tokens, held : Tokens]

TypeOK ==
    /\ dev \in [Device -> DevType]
    /\ recv \subseteq [name : Name, dev : Device, folder : Folder]
    /\ policy \in [Device -> TaskFolder]
    /\ task \in [Caller -> TaskType]
    /\ shown \in Tokens /\ mixed \subseteq Device /\ bereft \subseteq Device
    /\ file \in [Machine -> Tokens] /\ pc \in [Machine -> CallType]
    /\ budget \in 0 .. MaxEvents

\* No two machines have a token the server accepts for one device, although
\* one command may be run on both at a time, the credential may have been put
\* into a config by hand, and calls are lost and repeated
\* (managed-devices.mjs:91-161; docs/workstations.md:13-20).
Holds(m, t) == t \in file[m] \/ (pc[m].pc \in {"answer", "profile"} /\ t \in pc[m].held)

OneIdentity ==
    \A t \in Token, m, q \in Machine : Accepted(t) /\ Holds(m, t) /\ Holds(q, t) => m = q

\* A machine whose saved token is accepted loses that only by what the
\* operator does, never by a report, an installation elsewhere or a fault of
\* the server (main.go:119-155, managed-devices.mjs:140;
\* docs/workstations.md:24: the machine keeps its durable device token).
IdentityKept ==
    [][\A m \in Machine : \A t \in file[m] :
          (Accepted(t) /\ file'[m] = file[m] /\ ~Accepted(t)') => Operator]_vars

\* A workstation whose install command was shown has a receiver to itself,
\* bound to the folder its policy names, as soon as no handler is between the
\* two: enrolments under one name, edits of the policy, removals of devices and
\* of receivers, and crashes may come between the three rows.  The exceptions
\* are a receiver that was deleted with its device left in place, by the
\* operator (receiver-users.mjs:47-51) or by a removal that was cut, which
\* nothing brings back; and a folder that two handlers wrote at a time, or one
\* that was cut before it wrote it (workstations.mjs:66-110,
\* receiver-users.mjs:52-61), which the next undisturbed edit repairs.
Own(d)     == {r \in recv : r.dev = d}
Settled(d) == d \notin mixed \cup HalfWritten

ShownIsWhole ==
    \A t \in shown :
        t.n = 1 /\ dev[t.dev].there =>
            /\ Own(t.dev) = {} <=> t.dev \in bereft
            /\ \A r \in Own(t.dev) :
                  /\ \A x \in recv : x.dev = r.dev \/ x.name = r.name => x = r
                  /\ Settled(t.dev) => r.folder = policy[t.dev]

\* What makes them inductive.  A token is younger than all before it, and
\* other than an install credential it was given in one answer to one machine.
TokensInOrder ==
    /\ \A t \in shown : t.n <= dev[t.dev].token
    /\ \A m \in Machine : \A t \in file[m] \cup pc[m].cmd \cup pc[m].held : t.n <= dev[t.dev].token
    /\ \A d \in Device : dev[d].seen => dev[d].token >= 2
GivenOnce ==
    \A t \in Token, m, q \in Machine :
        t.n >= 2 /\ t \in file[m] \cup pc[m].held /\ t \in file[q] \cup pc[q].held => m = q

\* A device is enrolled once, by a handler that has shown nothing while it
\* runs and adds its receiver first.
EnrolledOnce ==
    /\ \A d \in Device : dev[d].there => dev[d].token >= 1
    /\ \A c \in Caller :
         task[c].pc # "idle" =>
             /\ task[c].dev \in Device /\ dev[task[c].dev].token >= 1
             /\ task[c].folder \in Folder
    /\ \A c \in Editor : task[c].pc # "hash"
    /\ \A d \in Device :
         task[d].pc # "idle" => task[d].dev = d /\ [dev |-> d, n |-> 1] \notin shown
    /\ \A d \in Device : task[d].pc = "hash" => task[d].name \in Name
    /\ \A r \in recv : dev[r.dev].token >= 1 /\ task[r.dev].pc # "hash"

\* Receivers have a name and a device to themselves, and unless its policy was
\* written by two at a time the handler between policy and receiver is the one
\* that wrote the policy.
ReceiversApart ==
    \A r, x \in recv : r.name = x.name \/ r.dev = x.dev => r = x
FoldersAgree ==
    \A d \in Device :
        d \notin mixed /\ dev[d].there =>
            /\ \A b, c \in Caller :
                 Between(b, d) /\ Between(c, d) => b = c
            /\ \A c \in Caller :
                 Between(c, d) => policy[d] = task[c].folder
            /\ [dev |-> d, n |-> 1] \in shown =>
                 d \in HalfWritten \/ \A r \in Own(d) : r.folder = policy[d]

\* A receiver that was shown is there or was deleted, once and for all.
ReceiversKept ==
    /\ \A d \in bereft : dev[d].token >= 1
    /\ \A d \in Device :
        dev[d].there =>
            /\ d \in bereft => ~HasReceiver(d) /\ task[d].pc # "hash"
            /\ [dev |-> d, n |-> 1] \in shown => HasReceiver(d) \/ d \in bereft

IInv ==
    /\ TypeOK /\ TokensInOrder /\ GivenOnce
    /\ EnrolledOnce /\ ReceiversApart /\ FoldersAgree /\ ReceiversKept
    /\ OneIdentity
=============================================================================
