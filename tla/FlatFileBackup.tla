--------------------------- MODULE FlatFileBackup ---------------------------
(***************************************************************************)
(* The files of a workstation backup: what the agent walks, inspects and   *)
(* uploads, and how the gateway puts an upload in place.                   *)
(*                                                                         *)
(*   apps/workstation-agent/flat_file.go (executeFlatFileBackup)           *)
(*   apps/workstation-agent/client.go (fileMetadata, uploadFileWithMtime)  *)
(*   apps/local-server/bin/gateway.mjs (/v1/device/workstation/files)      *)
(*   apps/local-server/lib/receiver-users.mjs (resolvePath)                *)
(*                                                                         *)
(* One workstation, whose receiver may be given another folder at any      *)
(* time.  A file has numbered versions, each with contents and a time      *)
(* stamp of its own and all of one size, the case in which only the time   *)
(* tells them apart.  When a backup runs is the business of                *)
(* WorkstationRuns: here one may start whenever none is under way.         *)
(***************************************************************************)
EXTENDS Integers, FiniteSets

CONSTANTS
    Path,        \* upload paths
    Folder,      \* folders the receiver may be bound to
    MaxVersion,  \* bound: versions of a file
    Undated,     \* items dated 1970 or before, whose time is not set
    MaxFaults,   \* bound: failed or cancelled runs and crashes
    MaxMoves     \* bound: changes of the folder

ASSUME SetAssumption == IsFiniteSet(Path) /\ IsFiniteSet(Folder) /\ Folder # {}
ASSUME VersionAssumption ==
    /\ MaxVersion \in Nat \ {0}
    /\ Undated \subseteq [path : Path, version : 1 .. MaxVersion]
ASSUME BoundAssumption == MaxFaults \in Nat /\ MaxMoves \in Nat

VARIABLES
    src,      \* the version each source file has
    folder,   \* the folder of the receiver
    remote,   \* what is in each folder: contents and time of each path
    puts,     \* uploads the gateway is working at
    run,      \* the run of the agent
    crossed,  \* history: places written by two uploads at a time
    budget    \* faults and moves so far

vars == <<src, folder, remote, puts, run, crossed, budget>>

Version == 1 .. MaxVersion
Missing == 0             \* contents: no file
Torn    == -1            \* contents: parts of two versions
Clock   == 0             \* time: when the server wrote the file
Item    == [path : Path, version : Version]

NoFile == [holds |-> Missing, time |-> Clock]
NoRun  == [pc |-> "idle", left |-> {}, cur |-> {}, walked |-> {}, folder |-> {}]

Init ==
    /\ src = [p \in Path |-> 1]
    /\ folder \in Folder
    /\ remote = [f \in Folder |-> [p \in Path |-> NoFile]]
    /\ puts = {}
    /\ run = NoRun
    /\ crossed = {}
    /\ budget = [faults |-> 0, moves |-> 0]

----------------------------------------------------------------------------
(* The owner of the file writes a version, over the old one, of which an   *)
(* upload then reads a part, or in its place.                               *)

Write(p, over) ==
    /\ src[p] < MaxVersion
    /\ src' = [src EXCEPT ![p] = @ + 1]
    /\ puts' = {IF over /\ u.path = p /\ u.pc = "sending" THEN [u EXCEPT !.holds = Torn] ELSE u :
                    u \in puts}
    /\ UNCHANGED <<folder, remote, run, crossed, budget>>

\* updateWorkstationRoot.
Move(f) ==
    /\ f # folder /\ budget.moves < MaxMoves
    /\ folder' = f
    /\ run' = IF run.pc = "idle" THEN run ELSE [run EXCEPT !.folder = @ \cup {f}]
    /\ budget' = [budget EXCEPT !.moves = @ + 1]
    /\ UNCHANGED <<src, remote, puts, crossed>>

----------------------------------------------------------------------------
(* The agent. *)

\* The walk takes the size and time of every file before anything is sent.
Walk ==
    /\ run.pc = "idle"
    /\ LET files == {[path |-> p, version |-> src[p]] : p \in Path}
       IN  run' = [NoRun EXCEPT !.pc = "next", !.left = files, !.walked = files,
                                !.folder = {folder}]
    /\ UNCHANGED <<src, folder, remote, puts, crossed, budget>>

Unmodified_AnyTime(file, item) == file.holds # Missing

\* Sizes are equal; the times are compared in milliseconds.
Unmodified(file, item) == file.holds # Missing /\ file.time = item.version

Inspect(i) ==
    /\ run.pc = "next" /\ i \in run.left
    /\ run' = IF Unmodified(remote[folder][i.path], i)
              THEN [run EXCEPT !.left = @ \ {i}]
              ELSE [run EXCEPT !.pc = "open", !.cur = {i}]
    /\ UNCHANGED <<src, folder, remote, puts, crossed, budget>>

\* The time of the walk goes with contents that are read now.
TimeOf(i) == IF i \in Undated THEN Clock ELSE i.version

\* The request reaches the gateway, which resolves the path and opens a
\* temporary file of its own.
Open ==
    /\ run.pc = "open"
    /\ \E i \in run.cur :
          /\ puts' = puts \cup {[folder |-> folder, path |-> i.path, time |-> TimeOf(i),
                                 holds |-> src[i.path], pc |-> "sending", mine |-> TRUE]}
          /\ crossed' = IF \E u \in puts : u.folder = folder /\ u.path = i.path
                        THEN crossed \cup {<<folder, i.path>>} ELSE crossed
    /\ run' = [run EXCEPT !.pc = "put"]
    /\ UNCHANGED <<src, folder, remote, budget>>

Step(u, pc) == puts' = (puts \ {u}) \cup {[u EXCEPT !.pc = pc]}

Received_TimeAtEnd(u) ==
    /\ u.pc = "sending"
    /\ puts' = (puts \ {u}) \cup {[u EXCEPT !.pc = "received", !.time = src[u.path]]}
    /\ UNCHANGED <<src, folder, remote, run, crossed, budget>>

\* The last byte has arrived, and fsync begins.
Received(u) ==
    /\ u.pc = "sending"
    /\ Step(u, "received")
    /\ UNCHANGED <<src, folder, remote, run, crossed, budget>>

Finish ==
    /\ run.pc = "next" /\ run.left = {}
    /\ run' = NoRun
    /\ UNCHANGED <<src, folder, remote, puts, crossed, budget>>

----------------------------------------------------------------------------
(* The gateway: rename, then utimes, then the answer. *)

Rename(u) ==
    /\ u.pc = "received"
    /\ remote' = [remote EXCEPT ![u.folder][u.path] = [holds |-> u.holds, time |-> Clock]]
    /\ Step(u, "renamed")
    /\ UNCHANGED <<src, folder, run, crossed, budget>>

SetTime(u) ==
    /\ u.pc = "renamed"
    /\ remote' = IF u.time = Clock THEN remote
                 ELSE [remote EXCEPT ![u.folder][u.path].time = u.time]
    /\ Step(u, "stamped")
    /\ UNCHANGED <<src, folder, run, crossed, budget>>

InPlace_Flushed(u) == u.pc = "received"

InPlace(u) == u.pc = "stamped"

Answer(u) ==
    /\ InPlace(u)
    /\ puts' = puts \ {u}
    /\ run' = IF u.mine THEN [run EXCEPT !.pc = "next", !.left = @ \ run.cur, !.cur = {}]
              ELSE run
    /\ UNCHANGED <<src, folder, remote, crossed, budget>>

----------------------------------------------------------------------------
(* Faults. *)

Fault == budget.faults < MaxFaults /\ budget' = [budget EXCEPT !.faults = @ + 1]

\* An error, a cancellation or the end of the agent: the first stops the run.
\* An upload whose last byte has arrived goes on without its client.
RunFails ==
    /\ run.pc # "idle"
    /\ Fault
    /\ run' = NoRun
    /\ puts' = {[u EXCEPT !.mine = FALSE] : u \in {x \in puts : x.pc # "sending"}}
    /\ UNCHANGED <<src, folder, remote, crossed>>

GatewayCrash ==
    /\ puts # {}
    /\ Fault
    /\ puts' = {}
    /\ run' = NoRun
    /\ UNCHANGED <<src, folder, remote, crossed>>

----------------------------------------------------------------------------
InspectNext == \E i \in run.left : Inspect(i)
Gateway     == \E u \in puts : Received(u) \/ Rename(u) \/ SetTime(u) \/ Answer(u)

Next ==
    \/ \E p \in Path, over \in BOOLEAN : Write(p, over)
    \/ \E f \in Folder : Move(f)
    \/ Walk \/ InspectNext \/ Open \/ Finish
    \/ Gateway
    \/ RunFails \/ GatewayCrash

Spec == Init /\ [][Next]_vars

\* Backups are scheduled again and again, requests are answered.
Fairness ==
    WF_vars(Walk) /\ WF_vars(InspectNext) /\ WF_vars(Open) /\ WF_vars(Finish) /\ WF_vars(Gateway)

FairSpec == Spec /\ Fairness

----------------------------------------------------------------------------
(* Properties. *)

Time   == Clock .. MaxVersion
Held   == Torn .. MaxVersion
File   == [holds : Held, time : Time]
PutPc  == {"sending", "received", "renamed", "stamped"}
PutType == [folder : Folder, path : Path, time : Time, holds : Held, mine : BOOLEAN, pc : PutPc]
RunPc  == {"idle", "next", "open", "put"}
Items  == SUBSET Item
Folders == SUBSET Folder
RunType == [pc : RunPc, left : Items, cur : Items, walked : Items, folder : Folders]

TypeOK ==
    /\ src \in [Path -> Version]
    /\ folder \in Folder
    /\ remote \in [Folder -> [Path -> File]]
    /\ puts \subseteq PutType
    /\ run \in RunType
    /\ crossed \subseteq Folder \X Path
    /\ budget \in [faults : 0 .. MaxFaults, moves : 0 .. MaxMoves]

\* Where no two uploads of one path were at work at a time, a file that the
\* next run would skip as unmodified holds the version the source has,
\* although its time is taken before its contents are read and set after they
\* are in place, and runs and the gateway stop in between
\* (flat_file.go:124-141, gateway.mjs:220-224).
Judged(f, p, v) == Unmodified(remote[f][p], [path |-> p, version |-> v])

SkippedIsCurrent ==
    \A f \in Folder, p \in Path :
        <<f, p>> \notin crossed /\ Judged(f, p, src[p]) => remote[f][p].holds = src[p]

\* A run that completes has every file of its walk in one folder, in the
\* version it found, unless the file has changed since.  The exception is a
\* change of the folder during the run: the files of the backup are then in
\* two (flat_file.go:114-161, gateway.mjs:204-207).
CompletedIsWhole ==
    [][Finish /\ Cardinality(run.folder) = 1 =>
          \A i \in run.walked :
              \/ remote[folder][i.path].holds = i.version
              \/ src[i.path] # i.version
              \/ <<folder, i.path>> \in crossed]_vars

\* When the source is left alone, the folder holds it in the end, after
\* failed runs, crashes, torn uploads and a move.
Converges ==
    \A p \in Path :
        <>[](\/ remote[folder][p].holds = src[p]
             \/ <<folder, p>> \in crossed)

----------------------------------------------------------------------------
(* What makes them inductive. *)

Place(u) == <<u.folder, u.path>>

\* No time is later than the version of the source, and an upload that has the
\* time of that version has its contents.
TimesInOrder ==
    /\ \A f \in Folder, p \in Path : remote[f][p].time <= src[p]
    /\ \A u \in puts : u.time <= src[u.path] /\ (u.time = src[u.path] => u.holds = src[u.path])

\* A place that is not crossed has one upload at a time.  What it renamed is
\* what it holds, and it comes too late for a place with the latest time only
\* if it holds the same.
Arrives(u) ==
    IF u.pc \in {"renamed", "stamped"}
    THEN remote[u.folder][u.path].holds = u.holds
    ELSE remote[u.folder][u.path].time = src[u.path] => u.holds = src[u.path]
UploadsApart ==
    \A u \in puts : Place(u) \notin crossed =>
        Arrives(u) /\ \A v \in puts : Place(v) = Place(u) => v = u

\* The run has one item under way, and one upload then.
RunIsOrdered ==
    /\ run.cur \subseteq run.left /\ run.left \subseteq run.walked
    /\ \A i \in run.walked : i.version <= src[i.path]
    /\ \A i, j \in run.walked : i.path = j.path => i = j
    /\ \A i, j \in run.cur : i = j
    /\ run.cur # {} => run.pc \in {"open", "put"}
    /\ run.pc # "idle" => folder \in run.folder
    /\ \A u \in puts : u.mine =>
         /\ run.pc = "put" /\ u.folder \in run.folder
         /\ \E i \in run.cur :
              i.path = u.path /\ (src[i.path] = i.version => u.holds = i.version)
    /\ \A u, v \in puts : u.mine /\ v.mine => u = v

\* An item that is done is in place, and no upload is under way that brings
\* anything else.
InOneFolder(i) ==
    \/ src[i.path] # i.version \/ <<folder, i.path>> \in crossed
    \/ /\ remote[folder][i.path].holds = i.version
       /\ \A u \in puts : Place(u) = <<folder, i.path>> => u.holds = i.version
DoneIsThere ==
    run.pc # "idle" /\ run.folder = {folder} =>
        \A i \in run.walked \ run.left : InOneFolder(i)

IInv ==
    /\ TypeOK /\ SkippedIsCurrent /\ TimesInOrder /\ UploadsApart
    /\ RunIsOrdered /\ DoneIsThere
=============================================================================
