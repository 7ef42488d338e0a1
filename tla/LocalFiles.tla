------------------------------ MODULE LocalFiles -----------------------------
(***************************************************************************)
(* What the gateway keeps in files instead of the database:                *)
(*                                                                         *)
(*   integrations.json   apps/local-server/lib/integration-config.mjs      *)
(*   auth.json, setup-token      lib/local-auth.mjs                        *)
(*                                                                         *)
(* Requests are handled by one process; each await of the file system, of  *)
(* rclone or of scrypt lets another request run, and the process may be    *)
(* restarted at any of them.  Sources and destinations are entries of one  *)
(* file; an entry is the number of the request that wrote it.              *)
(***************************************************************************)
EXTENDS Integers, FiniteSets

CONSTANTS
    Request,     \* requests that are handled at the same time
    Entry,       \* ids of sources and destinations
    Password,    \* passwords an administrator may choose
    None,        \* "no file"
    Half,        \* a file that was created and not yet written
    MaxActs,     \* bound: requests
    MaxFaults    \* bound: failed calls and restarts

ASSUME SetAssumption ==
    /\ IsFiniteSet(Request) /\ IsFiniteSet(Entry)
    /\ None # Half /\ {None, Half} \cap (Password \cup Entry) = {}
ASSUME BoundAssumption == MaxActs \in Nat /\ MaxFaults \in Nat

VARIABLES
    up,          \* the process could start
    task,        \* requests that are under way
    inode,       \* files: the one in place and the temporary ones
    live,        \* the inode named integrations.json
    auth,        \* auth.json
    token,       \* is there a setup-token?
    configured,  \* the process's variable of that name
    acts, faults,
    kept, lost, shared,    \* history of integrations.json: each entry as it
                           \* was last saved, those that a save which was read
                           \* before put back, and one temporary file for two
    accepted, broken       \* history of auth.json: passwords that were
                           \* accepted, and a setup cut while it filled it

confVars == <<inode, live, kept, lost, shared>>
authVars == <<auth, token, configured, accepted, broken>>
vars == <<up, task, confVars, authVars, acts, faults>>

Inode   == 0 .. Cardinality(Request)
Version == 0 .. MaxActs
Empty   == [e \in Entry |-> 0]
Idle    == [pc |-> "idle", act |-> 0, kind |-> "none", subject |-> None, old |-> Empty,
            copy |-> Empty, at |-> 0, pass |-> None]

Init ==
    /\ up = TRUE
    /\ task = [r \in Request |-> Idle]
    /\ inode = [i \in Inode |-> [whole |-> TRUE, entry |-> Empty]]
    /\ live = 0
    /\ auth = None /\ token = TRUE /\ configured = FALSE
    /\ acts = 0 /\ faults = 0
    /\ kept = Empty /\ lost = {} /\ shared = FALSE
    /\ accepted = {} /\ broken = FALSE

Begin(r, t) ==
    /\ up /\ task[r].pc = "idle" /\ acts < MaxActs
    /\ acts' = acts + 1
    /\ task' = [task EXCEPT ![r] = t]
    /\ UNCHANGED <<up, confVars, authVars, faults>>

End(r) == task' = [task EXCEPT ![r] = Idle]
Goes(r, pc) == task' = [task EXCEPT ![r].pc = pc]
Fault == faults < MaxFaults /\ faults' = faults + 1

----------------------------------------------------------------------------
(* integrations.json: read, change the copy, write a temporary file, rename *)
(* it into place.                                                           *)

Change(r, kind, e) ==
    Begin(r, [Idle EXCEPT !.pc = "read", !.act = acts + 1, !.kind = kind, !.subject = e])

\* A new id must be free and a known one there.
Allowed(kind, old) == (kind = "create") <=> (old = 0)

Written(r) == IF task[r].kind = "delete" THEN 0 ELSE task[r].act

\* readRaw and the change of the copy; a torn file is answered with 500.
ReadConfig(r) ==
    /\ task[r].pc = "read"
    /\ LET now == inode[live]
           e   == task[r].subject IN
       IF now.whole /\ Allowed(task[r].kind, now.entry[e])
       THEN task' = [task EXCEPT
              ![r].pc = "open",
              ![r].copy = [now.entry EXCEPT ![e] = Written(r)],
              ![r].old = now.entry]
       ELSE End(r)
    /\ UNCHANGED <<up, confVars, authVars, acts, faults>>

Opened(r) == task[r].pc \in {"write", "rename"}
Unused == CHOOSE i \in Inode : i # live /\ \A q \in Request : Opened(q) => task[q].at # i

WriteTarget_InPlace(r) == {live}

\* The temporary file's name is the process and the millisecond: one that is
\* taken, by a write of the same millisecond, is opened again.
WriteTarget(r) ==
    {Unused} \cup {task[q].at : q \in {q \in Request : Opened(q) /\ task[q].at # live}}

OpenTemp(r) ==
    /\ task[r].pc = "open"
    /\ \E i \in WriteTarget(r) :
         /\ task' = [task EXCEPT ![r].pc = "write", ![r].at = i]
         /\ inode' = [inode EXCEPT ![i].whole = FALSE]
         /\ shared' = (shared \/ \E q \in Request : Opened(q) /\ task[q].at = i)
    /\ UNCHANGED <<up, live, kept, lost, authVars, acts, faults>>

\* Over the text of another request a longer tail may stay.
WriteTemp(r) ==
    /\ task[r].pc = "write"
    /\ \E tail \in BOOLEAN :
         /\ tail => \E q \in Request \ {r} : Opened(q) /\ task[q].at = task[r].at
         /\ inode' = [inode EXCEPT ![task[r].at] = [whole |-> ~tail, entry |-> task[r].copy]]
    /\ Goes(r, "rename")
    /\ UNCHANGED <<up, live, kept, lost, shared, authVars, acts, faults>>

\* Entries that were saved since the request read the file.
Stale(r) == {e \in Entry : task[r].old[e] # inode[live].entry[e]}

\* The name is gone when the other request has renamed the file it shares.
RenameTemp(r) ==
    /\ task[r].pc = "rename"
    /\ live' = task[r].at
    /\ IF task[r].at # live
       THEN /\ kept' = [kept EXCEPT ![task[r].subject] = Written(r)]
            /\ lost' = (lost \cup Stale(r)) \ {task[r].subject}
       ELSE UNCHANGED <<kept, lost>>
    /\ End(r)
    /\ UNCHANGED <<up, inode, shared, authVars, acts, faults>>

----------------------------------------------------------------------------
(* auth.json: the setup token is read, the password hashed, the file       *)
(* created and then filled.                                                 *)

Setup(r, p) ==
    ~configured /\ Begin(r, [Idle EXCEPT !.pc = "token", !.act = acts + 1, !.pass = p])

ReadToken(r) ==
    /\ task[r].pc = "token"
    /\ IF token THEN Goes(r, "create") ELSE End(r)
    /\ UNCHANGED <<up, confVars, authVars, acts, faults>>

MayCreate_Always(f) == TRUE

\* open(path, "wx").
MayCreate(f) == f = None

CreateAuth(r) ==
    /\ task[r].pc = "create"
    /\ IF MayCreate(auth)
       THEN auth' = Half /\ Goes(r, "fill")
       ELSE auth' = auth /\ End(r)
    /\ UNCHANGED <<up, confVars, token, configured, accepted, broken, acts, faults>>

FillAuth(r) ==
    /\ task[r].pc = "fill"
    /\ auth' = task[r].pass
    /\ Goes(r, "answer")
    /\ UNCHANGED <<up, confVars, token, configured, accepted, broken, acts, faults>>

\* The variable, the token and the answer with a session.
FinishSetup(r) ==
    /\ task[r].pc = "answer"
    /\ configured' = TRUE
    /\ token' = FALSE
    /\ accepted' = accepted \cup {task[r].pass}
    /\ End(r)
    /\ UNCHANGED <<up, confVars, auth, broken, acts, faults>>

----------------------------------------------------------------------------
(* Failures and restarts.                                                   *)

Filling(r) == task[r].pc \in {"fill", "answer"}

\* A disk, rclone or chmod says no.
Fails(r) ==
    /\ Fault
    /\ task[r].pc \in {"read", "open", "write", "rename", "token", "create", "fill", "answer"}
    /\ broken' = (broken \/ Filling(r))
    /\ End(r)
    /\ UNCHANGED <<up, confVars, auth, token, configured, accepted, acts>>

\* The process ends and starts again: createLocalAuth reads auth.json, and
\* one without a record stops it.
Restart ==
    /\ up /\ Fault
    /\ task' = [r \in Request |-> Idle]
    /\ up' = (auth # Half)
    /\ configured' = (auth \in Password)
    /\ token' = IF auth = Half THEN token ELSE auth = None
    /\ broken' = (broken \/ auth = Half)
    /\ UNCHANGED <<confVars, auth, accepted, acts>>

----------------------------------------------------------------------------
Next ==
    \/ \E r \in Request :
         \/ \E kind \in {"create", "update", "delete"}, e \in Entry : Change(r, kind, e)
         \/ ReadConfig(r) \/ OpenTemp(r) \/ WriteTemp(r) \/ RenameTemp(r)
         \/ \E p \in Password : Setup(r, p)
         \/ ReadToken(r) \/ CreateAuth(r) \/ FillAuth(r) \/ FinishSetup(r)
         \/ Fails(r)
    \/ Restart

Spec == Init /\ [][Next]_vars

----------------------------------------------------------------------------
(* Properties                                                               *)

Pc ==
    {"idle", "read", "open", "write", "rename", "token", "create", "fill", "answer"}
Kind    == {"none", "create", "update", "delete"}
Subject == Entry \cup {None}
\* A source or destination is who wrote it last.
Content == [Entry -> Version]
Pass    == Password \cup {None}
File    == [whole : BOOLEAN, entry : Content]
TaskType ==
    [pc : Pc, act : Version, kind : Kind, subject : Subject, old : Content, copy : Content,
     at : Inode, pass : Pass]

TypeOK ==
    /\ up \in BOOLEAN
    /\ task \in [Request -> TaskType]
    /\ inode \in [Inode -> File] /\ live \in Inode
    /\ kept \in Content /\ lost \subseteq Entry /\ shared \in BOOLEAN
    /\ auth \in Pass \cup {Half} /\ token \in BOOLEAN /\ configured \in BOOLEAN
    /\ accepted \subseteq Password /\ broken \in BOOLEAN
    /\ acts \in Version /\ faults \in 0 .. MaxFaults

\* integrations.json is readable and holds every source and destination as it
\* was last saved, whatever failed or was restarted in the middle of a save
\* (integration-config.mjs:44-49).  An entry is lost only to a request that
\* had read the file before it was saved (54-58), the others stay as they are,
\* and only until the entry is saved again; and the file is torn only by two
\* writes of one millisecond (46).
ConfigKept ==
    \/ shared
    \/ /\ inode[live].whole
       /\ \A e \in Entry \ lost : inode[live].entry[e] = kept[e]

\* At most one setup is accepted, and the password that counts is the one it
\* was given, however many run at a time (local-auth.mjs:57-67).  In between
\* the appliance is either set up or can still be, also after a restart
\* (17-23), unless a setup was cut while it filled auth.json (193-196).
SetUpOnce ==
    /\ accepted \subseteq {auth}
    /\ broken \/ (\E r \in Request : Filling(r)) \/
         (up /\ IF configured THEN auth \in Password ELSE auth = None /\ token)

\* What makes them inductive.  A request that saves has its own change in its
\* copy, and a temporary file to itself that holds the copy once written.
CopiesAreChanges ==
    \A r \in Request :
        /\ task[r].pc \in {"read", "open", "write", "rename"} => task[r].subject \in Entry
        /\ task[r].pc \in {"open", "write", "rename"} =>
             task[r].copy = [task[r].old EXCEPT ![task[r].subject] = Written(r)]
TempsApart ==
    \A r \in Request :
        ~shared /\ Opened(r) =>
            /\ task[r].at # live
            /\ \A q \in Request \ {r} : Opened(q) => task[q].at # task[r].at
            /\ task[r].pc = "rename" =>
                 inode[task[r].at].whole /\ inode[task[r].at].entry = task[r].copy

\* One request at a time fills auth.json, with its own password.
OneFills ==
    /\ up \/ broken
    /\ \A r \in Request :
         /\ task[r].pc \in {"token", "create", "fill", "answer"} => task[r].pass \in Password
         /\ task[r].pc = "fill" => auth = Half
         /\ task[r].pc = "answer" => auth = task[r].pass
         /\ \A q \in Request : Filling(r) /\ Filling(q) => r = q

IInv ==
    /\ TypeOK
    /\ ConfigKept /\ CopiesAreChanges /\ TempsApart
    /\ SetUpOnce /\ OneFills

=============================================================================
