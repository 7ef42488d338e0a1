------------------------ MODULE FlatFileBackupProofs ------------------------
(***************************************************************************)
(* What a backup of files guarantees for any number of files, versions,    *)
(* folders, faults and moves of the folder.                                *)
(*                                                                         *)
(* Two facts carry the rest.  The time of an upload is that of the walk    *)
(* and its contents are read later, so an upload with the time of the      *)
(* latest version has its contents (TimesInOrder).  A place with one       *)
(* upload at a time has what that upload renamed there (UploadsApart).     *)
(***************************************************************************)
EXTENDS FlatFileBackup, FiniteSetTheorems, TLAPS

-----------------------------------------------------------------------------
(* Facts about the values.                                                 *)

LEMMA Values ==
  /\ Clock \in Time /\ Missing \in Held /\ Torn \in Held /\ Clock = 0 /\ Torn = -1 /\ Missing = 0
  /\ Version \subseteq Nat /\ 0 \notin Version /\ 1 \in Version
  /\ Version \subseteq Time /\ Version \subseteq Held /\ Time \subseteq Nat
  /\ \A p \in {"sending", "received", "renamed", "stamped"} : p \in PutPc
  /\ PutPc = {"sending", "received", "renamed", "stamped"}
  /\ \A p \in {"idle", "next", "open", "put"} : p \in RunPc
  /\ {} \in Items
  BY VersionAssumption
  DEF Clock, Missing, Torn, Version, Time, Held, PutPc, RunPc, Items

LEMMA ItemType ==
  ASSUME NEW i \in Item
  PROVE  i.path \in Path /\ i.version \in Version /\ i.version \in Nat /\ i.version >= 1
  <1>1. i.path \in Path /\ i.version \in Version
    BY DEF Item
  <1> QED BY <1>1, VersionAssumption DEF Version

LEMMA PutFields ==
  ASSUME NEW u \in PutType
  PROVE  /\ u.folder \in Folder /\ u.path \in Path /\ u.time \in Time /\ u.time \in Nat
         /\ u.holds \in Held /\ u.mine \in BOOLEAN /\ u.pc \in PutPc
  BY Values DEF PutType

LEMMA PutUpdate ==
  ASSUME NEW u \in PutType
  PROVE  /\ \A pc \in PutPc :
              /\ [u EXCEPT !.pc = pc] \in PutType /\ [u EXCEPT !.pc = pc].pc = pc
              /\ [u EXCEPT !.pc = pc].folder = u.folder /\ [u EXCEPT !.pc = pc].path = u.path
              /\ [u EXCEPT !.pc = pc].time = u.time /\ [u EXCEPT !.pc = pc].holds = u.holds
              /\ ([u EXCEPT !.pc = pc].mine <=> u.mine)
         /\ [u EXCEPT !.holds = Torn] \in PutType /\ [u EXCEPT !.holds = Torn].pc = u.pc
         /\ [u EXCEPT !.holds = Torn].folder = u.folder
         /\ [u EXCEPT !.holds = Torn].path = u.path /\ [u EXCEPT !.holds = Torn].time = u.time
         /\ ([u EXCEPT !.holds = Torn].mine <=> u.mine)
         /\ [u EXCEPT !.mine = FALSE] \in PutType /\ [u EXCEPT !.mine = FALSE].pc = u.pc
         /\ [u EXCEPT !.mine = FALSE].folder = u.folder
         /\ [u EXCEPT !.mine = FALSE].path = u.path /\ [u EXCEPT !.mine = FALSE].time = u.time
         /\ [u EXCEPT !.mine = FALSE].holds = u.holds /\ ~[u EXCEPT !.mine = FALSE].mine
  BY Values DEF PutType

LEMMA RemoteUpdate ==
  ASSUME TypeOK, NEW f \in Folder, NEW p \in Path, NEW file \in File,
         remote' = [remote EXCEPT ![f][p] = file]
  PROVE  /\ remote' \in [Folder -> [Path -> File]]
         /\ remote'[f][p] = file
         /\ \A g \in Folder, q \in Path : <<g, q>> # <<f, p>> => remote'[g][q] = remote[g][q]
  BY DEF TypeOK

LEMMA RunFields ==
  ASSUME TypeOK
  PROVE  /\ run.pc \in RunPc /\ run.folder \in Folders
         /\ run.left \in Items /\ run.cur \in Items /\ run.walked \in Items
         /\ \A i \in run.walked : i \in Item
  BY DEF TypeOK, RunType, Items

LEMMA NoRunType ==
  /\ NoRun \in RunType /\ NoRun.pc = "idle" /\ NoRun.left = {} /\ NoRun.cur = {}
  /\ NoRun.walked = {} /\ NoRun.folder = {}
  BY Values DEF NoRun, RunType, Folders

LEMMA BudgetKept ==
  ASSUME TypeOK, Fault \/ UNCHANGED budget
  PROVE  budget' \in [faults : 0 .. MaxFaults, moves : 0 .. MaxMoves]
  BY BoundAssumption DEF TypeOK, Fault

LEMMA SrcNat ==
  ASSUME TypeOK
  PROVE  \A p \in Path : src[p] \in Nat /\ src[p] \in Version /\ src[p] # 0
  BY Values DEF TypeOK

LEMMA FileFields ==
  ASSUME TypeOK, NEW f \in Folder, NEW p \in Path
  PROVE  remote[f][p].holds \in Held /\ remote[f][p].time \in Time /\ remote[f][p].time \in Nat
  BY Values DEF TypeOK, File

-----------------------------------------------------------------------------
(* The source.                                                             *)

LEMMA WriteIInv ==
  ASSUME IInv, NEW p \in Path, NEW over \in BOOLEAN, Write(p, over)
  PROVE  IInv'
  <1> USE DEF IInv
  <1> DEFINE New(u) == IF over /\ u.path = p /\ u.pc = "sending"
                       THEN [u EXCEPT !.holds = Torn] ELSE u
  <1>1. /\ src[p] < MaxVersion /\ src' = [src EXCEPT ![p] = @ + 1]
        /\ puts' = {New(u) : u \in puts}
        /\ UNCHANGED <<folder, remote, run, crossed, budget>>
    BY DEF Write
  <1>2. /\ src' \in [Path -> Version] /\ src'[p] = src[p] + 1
        /\ \A q \in Path \ {p} : src'[q] = src[q]
    BY <1>1, VersionAssumption DEF TypeOK, Version
  <1>3. ASSUME NEW u \in puts
        PROVE  /\ u \in PutType /\ New(u) \in PutType
               /\ New(u).folder = u.folder /\ New(u).path = u.path /\ New(u).time = u.time
               /\ New(u).pc = u.pc /\ (New(u).mine <=> u.mine)
               /\ Place(New(u)) = Place(u)
               /\ u.path # p \/ u.pc # "sending" => New(u) = u
    <2>1. u \in PutType
      BY DEF TypeOK
    <2>2. CASE New(u) = u
      BY <2>1, <2>2
    <2>3. CASE u.path = p /\ u.pc = "sending" /\ New(u) = [u EXCEPT !.holds = Torn]
      <3> DEFINE t == [u EXCEPT !.holds = Torn]
      <3>1. /\ t \in PutType /\ t.folder = u.folder /\ t.path = u.path
            /\ t.time = u.time /\ t.pc = u.pc /\ (t.mine <=> u.mine)
        BY <2>1, PutUpdate
      <3>2. New(u) = t
        BY <2>3
      <3> HIDE DEF t, New
      <3> QED BY <2>1, <2>3, <3>1, <3>2 DEF Place
    <2> QED BY <2>2, <2>3
  <1>4. /\ \A v \in puts' : \E u \in puts : v = New(u)
    BY <1>1
  <1> HIDE DEF New
  <1>5. TypeOK'
    BY <1>1, <1>2, <1>3, <1>4 DEF TypeOK
  <1>6. SkippedIsCurrent'
    <2> SUFFICES ASSUME NEW f \in Folder, NEW q \in Path, <<f, q>> \notin crossed',
                        Judged(f, q, src[q])'
                 PROVE  remote'[f][q].holds = src'[q]
      BY DEF SkippedIsCurrent
    <2>1. q # p
      <3>1. remote[f][p].time <= src[p]
        BY DEF TimesInOrder
      <3>2. remote[f][q].time = src'[q]
        BY <1>1 DEF Judged, Unmodified
      <3> QED BY <1>2, <3>1, <3>2, SrcNat
    <2> QED BY <1>1, <1>2, <2>1 DEF SkippedIsCurrent, Judged, Unmodified
  <1>7. TimesInOrder'
    <2>1. \A f \in Folder, q \in Path : remote'[f][q].time <= src'[q]
      BY <1>1, <1>2, SrcNat, FileFields DEF TimesInOrder
    <2>2. ASSUME NEW u \in puts
          PROVE  /\ New(u).time <= src'[New(u).path]
                 /\ New(u).time = src'[New(u).path] => New(u).holds = src'[New(u).path]
      <3>1. u.time <= src[u.path] /\ (u.time = src[u.path] => u.holds = src[u.path])
        BY DEF TimesInOrder
      <3>2. u.path \in Path /\ u.time \in Nat
        BY <1>3, PutFields
      <3> QED BY <1>2, <1>3, <3>1, <3>2, SrcNat
    <2> QED BY <1>4, <2>1, <2>2 DEF TimesInOrder
  <1>8. UploadsApart'
    <2>1. ASSUME NEW u \in puts, Arrives(u)
          PROVE  Arrives(New(u))'
      <3>0. u.path \in Path /\ u.folder \in Folder
        BY <1>3, PutFields
      <3>1. CASE u.pc \in {"renamed", "stamped"}
        BY <1>1, <1>3, <2>1, <3>1 DEF Arrives
      <3>2. CASE u.pc \notin {"renamed", "stamped"} /\ u.path = p
        <4>1. remote[u.folder][u.path].time <= src[p]
          BY <3>0, <3>2 DEF TimesInOrder
        <4> QED BY <1>1, <1>2, <1>3, <3>0, <3>2, <4>1, SrcNat, FileFields DEF Arrives
      <3>3. CASE u.pc \notin {"renamed", "stamped"} /\ u.path # p
        BY <1>1, <1>2, <1>3, <2>1, <3>0, <3>3 DEF Arrives
      <3> QED BY <3>1, <3>2, <3>3
    <2>2. \A u, v \in puts : Place(New(u)) = Place(New(v)) => Place(u) = Place(v)
      BY <1>3
    <2> SUFFICES ASSUME NEW x \in puts', Place(x) \notin crossed'
                 PROVE  Arrives(x)' /\ \A y \in puts' : Place(y) = Place(x) => y = x
      BY DEF UploadsApart, Place
    <2>3. PICK u \in puts : x = New(u)
      BY <1>4
    <2>4. Arrives(u) /\ \A v \in puts : Place(v) = Place(u) => v = u
      BY <1>1, <1>3, <2>3 DEF UploadsApart
    <2> QED BY <1>4, <2>1, <2>2, <2>3, <2>4
  <1>9. RunIsOrdered'
    <2>1. \A i \in run.walked : i.version < src'[i.path] \/ (i.path # p /\ src'[i.path] = src[i.path])
      BY <1>2, RunFields, ItemType, SrcNat DEF RunIsOrdered
    <2>2. \A i \in run.walked : i.version <= src'[i.path]
      BY <1>2, <2>1, RunFields, ItemType, SrcNat DEF RunIsOrdered
    <2>3. ASSUME NEW u \in puts, New(u).mine
          PROVE  /\ run'.pc = "put" /\ New(u).folder \in run'.folder
                 /\ \E i \in run'.cur :
                      i.path = New(u).path /\ (src'[i.path] = i.version => New(u).holds = i.version)
      <3>1. u.mine
        BY <1>3, <2>3
      <3>2. PICK i \in run.cur :
              i.path = u.path /\ (src[i.path] = i.version => u.holds = i.version)
        BY <3>1 DEF RunIsOrdered
      <3>3. i \in run.walked /\ i.version \in Nat /\ i.path \in Path
        BY <3>2, RunFields, ItemType DEF RunIsOrdered
      <3>4. src'[i.path] = i.version => New(u).holds = i.version
        BY <1>2, <1>3, <2>1, <3>2, <3>3, SrcNat
      <3> QED BY <1>1, <1>3, <3>1, <3>2, <3>4 DEF RunIsOrdered
    <2>4. \A u, v \in puts : New(u).mine /\ New(v).mine => u = v
      BY <1>3 DEF RunIsOrdered
    <2>5. \A u, v \in puts' : u.mine /\ v.mine => u = v
      BY <1>4, <2>4
    <2>6. \A u \in puts' : u.mine =>
            /\ run'.pc = "put" /\ u.folder \in run'.folder
            /\ \E i \in run'.cur :
                 i.path = u.path /\ (src'[i.path] = i.version => u.holds = i.version)
      BY <1>4, <2>3
    <2>7. /\ run'.cur \subseteq run'.left /\ run'.left \subseteq run'.walked
          /\ \A i, j \in run'.walked : i.path = j.path => i = j
          /\ \A i, j \in run'.cur : i = j
          /\ run'.cur # {} => run'.pc \in {"open", "put"}
          /\ run'.pc # "idle" => folder' \in run'.folder
      BY <1>1 DEF RunIsOrdered
    <2> QED BY <1>1, <2>2, <2>5, <2>6, <2>7 DEF RunIsOrdered
  <1>10. DoneIsThere'
    <2> SUFFICES ASSUME run'.pc # "idle", run'.folder = {folder'},
                        NEW i \in run'.walked \ run'.left
                 PROVE  InOneFolder(i)'
      BY DEF DoneIsThere
    <2>1. InOneFolder(i) /\ i \in run.walked /\ i.path \in Path /\ i.version \in Nat
      BY <1>1, RunFields, ItemType DEF DoneIsThere
    <2>2. CASE i.path = p
      <3>1. i.version <= src[p]
        BY <2>1, <2>2 DEF RunIsOrdered
      <3>2. src'[i.path] # i.version
        BY <1>2, <2>1, <2>2, <3>1, SrcNat
      <3> QED BY <3>2 DEF InOneFolder
    <2>3. CASE i.path # p
      <3>1. src'[i.path] = src[i.path]
        BY <1>2, <2>1, <2>3
      <3>2. \A x \in puts' : Place(x) = <<folder, i.path>> => x \in puts
        BY <1>3, <1>4, <2>3 DEF Place
      <3> QED BY <1>1, <2>1, <3>1, <3>2 DEF InOneFolder, Place
    <2> QED BY <2>2, <2>3
  <1> QED BY <1>5, <1>6, <1>7, <1>8, <1>9, <1>10

-----------------------------------------------------------------------------
(* The run of the agent.                                                   *)

\* A step that changes neither source, folders nor uploads.
LEMMA RunOnly ==
  ASSUME IInv, UNCHANGED <<src, remote, puts, crossed>>,
         folder' \in Folder, run' \in RunType,
         budget' \in [faults : 0 .. MaxFaults, moves : 0 .. MaxMoves],
         RunIsOrdered', DoneIsThere'
  PROVE  IInv'
  <1> USE DEF IInv
  <1>1. TypeOK'
    BY DEF TypeOK
  <1>2. SkippedIsCurrent'
    BY DEF SkippedIsCurrent, Judged, Unmodified
  <1>3. TimesInOrder'
    BY DEF TimesInOrder
  <1>4. UploadsApart'
    BY DEF UploadsApart, Arrives, Place
  <1> QED BY <1>1, <1>2, <1>3, <1>4

LEMMA MoveIInv ==
  ASSUME IInv, NEW f \in Folder, Move(f)
  PROVE  IInv'
  <1> USE DEF IInv
  <1> DEFINE r == [run EXCEPT !.folder = @ \cup {f}]
  <1>1. /\ f # folder /\ folder' = f /\ budget.moves < MaxMoves
        /\ budget' = [budget EXCEPT !.moves = @ + 1]
        /\ run' = IF run.pc = "idle" THEN run ELSE r
        /\ UNCHANGED <<src, remote, puts, crossed>>
    BY DEF Move
  <1>2. budget' \in [faults : 0 .. MaxFaults, moves : 0 .. MaxMoves]
    BY <1>1, BoundAssumption DEF TypeOK
  <1>3. run.folder \cup {f} \in Folders
    BY RunFields DEF Folders
  <1>4. /\ r \in RunType /\ r.folder = run.folder \cup {f} /\ r.pc = run.pc
        /\ r.cur = run.cur /\ r.left = run.left /\ r.walked = run.walked
    BY <1>3 DEF TypeOK, RunType
  <1> HIDE DEF r
  <1>5. /\ run' \in RunType /\ run'.pc = run.pc /\ run'.cur = run.cur /\ run'.left = run.left
        /\ run'.walked = run.walked /\ run.folder \subseteq run'.folder
        /\ run.pc # "idle" => f \in run'.folder /\ folder \in run'.folder
    BY <1>1, <1>4 DEF TypeOK, RunIsOrdered
  <1>6. RunIsOrdered'
    BY <1>1, <1>5 DEF RunIsOrdered
  <1>7. DoneIsThere'
    BY <1>1, <1>5 DEF DoneIsThere
  <1> QED BY <1>1, <1>2, <1>5, <1>6, <1>7, RunOnly

LEMMA NoneMine ==
  ASSUME IInv, run.pc # "put", NEW u \in puts
  PROVE  ~u.mine
  BY DEF IInv, RunIsOrdered

LEMMA WalkIInv ==
  ASSUME IInv, Walk
  PROVE  IInv'
  <1> USE DEF IInv
  <1> DEFINE files == {[path |-> p, version |-> src[p]] : p \in Path}
  <1>1. /\ run.pc = "idle"
        /\ run' = [NoRun EXCEPT !.pc = "next", !.left = files, !.walked = files, !.folder = {folder}]
        /\ UNCHANGED <<src, folder, remote, puts, crossed, budget>>
    BY DEF Walk
  <1>2. files \in Items /\ {folder} \in Folders
    BY SrcNat DEF Items, Item, Folders, TypeOK
  <1>3. \A i \in files : i.path \in Path /\ i.version = src[i.path] /\ i.version \in Nat
    BY SrcNat
  <1>4. \A i, j \in files : i.path = j.path => i = j
    OBVIOUS
  <1> HIDE DEF files
  <1>5. /\ run' \in RunType /\ run'.pc = "next" /\ run'.left = files /\ run'.walked = files
        /\ run'.folder = {folder} /\ run'.cur = {}
    BY <1>1, <1>2, Values DEF NoRun, RunType
  <1>6. RunIsOrdered'
    BY <1>1, <1>3, <1>4, <1>5, NoneMine DEF RunIsOrdered
  <1>7. DoneIsThere'
    BY <1>5 DEF DoneIsThere
  <1> QED BY <1>1, <1>5, <1>6, <1>7, RunOnly DEF TypeOK

LEMMA InspectIInv ==
  ASSUME IInv, NEW i \in run.left, Inspect(i)
  PROVE  IInv'
  <1> USE DEF IInv
  <1>1. /\ run.pc = "next"
        /\ run' = IF Unmodified(remote[folder][i.path], i)
                  THEN [run EXCEPT !.left = @ \ {i}]
                  ELSE [run EXCEPT !.pc = "open", !.cur = {i}]
        /\ UNCHANGED <<src, folder, remote, puts, crossed, budget>>
    BY DEF Inspect
  <1>2. i \in run.walked /\ i \in Item /\ i.path \in Path /\ i.version \in Nat /\ folder \in Folder
    BY RunFields, ItemType DEF RunIsOrdered, TypeOK
  <1>3. run.left \ {i} \in Items /\ {i} \in Items
    BY <1>2, RunFields DEF Items
  <1>4. \A u \in puts : ~u.mine
    BY <1>1, NoneMine
  <1>5. CASE Unmodified(remote[folder][i.path], i)
    <2>1. /\ run' \in RunType /\ run'.left = run.left \ {i} /\ run'.pc = "next"
          /\ run'.cur = run.cur /\ run'.walked = run.walked /\ run'.folder = run.folder
      BY <1>1, <1>3, <1>5 DEF TypeOK, RunType
    <2>2. run.cur = {}
      BY <1>1 DEF RunIsOrdered
    <2>3. RunIsOrdered'
      BY <1>1, <1>4, <2>1, <2>2 DEF RunIsOrdered
    <2>4. InOneFolder(i)
      <3> SUFFICES ASSUME src[i.path] = i.version, <<folder, i.path>> \notin crossed
                   PROVE  /\ remote[folder][i.path].holds = i.version
                          /\ \A u \in puts : Place(u) = <<folder, i.path>> => u.holds = i.version
        BY DEF InOneFolder
      <3>1. remote[folder][i.path].time = src[i.path] /\ Judged(folder, i.path, src[i.path])
        BY <1>5 DEF Unmodified, Judged
      <3>2. remote[folder][i.path].holds = i.version
        BY <1>2, <3>1 DEF SkippedIsCurrent
      <3>3. ASSUME NEW u \in puts, Place(u) = <<folder, i.path>>
            PROVE  u.holds = i.version
        <4>1. u.folder = folder /\ u.path = i.path /\ Arrives(u)
          BY <3>3 DEF Place, UploadsApart
        <4> QED BY <3>1, <3>2, <4>1 DEF Arrives
      <3> QED BY <3>2, <3>3
    <2>5. DoneIsThere'
      BY <1>1, <2>1, <2>4 DEF DoneIsThere, InOneFolder
    <2> QED BY <1>1, <2>1, <2>3, <2>5, RunOnly DEF TypeOK
  <1>6. CASE ~Unmodified(remote[folder][i.path], i)
    <2>1. /\ run' \in RunType /\ run'.left = run.left /\ run'.pc = "open"
          /\ run'.cur = {i} /\ run'.walked = run.walked /\ run'.folder = run.folder
      BY <1>1, <1>3, <1>6, Values DEF TypeOK, RunType
    <2>2. RunIsOrdered'
      BY <1>1, <1>4, <2>1 DEF RunIsOrdered
    <2>3. DoneIsThere'
      BY <1>1, <2>1 DEF DoneIsThere, InOneFolder
    <2> QED BY <1>1, <2>1, <2>2, <2>3, RunOnly DEF TypeOK
  <1> QED BY <1>5, <1>6

LEMMA FinishIInv ==
  ASSUME IInv, Finish
  PROVE  IInv'
  <1> USE DEF IInv
  <1>1. run.pc = "next" /\ run' = NoRun /\ UNCHANGED <<src, folder, remote, puts, crossed, budget>>
    BY DEF Finish
  <1>2. RunIsOrdered' /\ DoneIsThere'
    BY <1>1, NoRunType, NoneMine DEF RunIsOrdered, DoneIsThere
  <1> QED BY <1>1, <1>2, NoRunType, RunOnly DEF TypeOK

LEMMA OpenIInv ==
  ASSUME IInv, Open
  PROVE  IInv'
  <1> USE DEF IInv
  <1>1. run.pc = "open" /\ run' = [run EXCEPT !.pc = "put"] /\ UNCHANGED <<src, folder, remote, budget>>
    BY DEF Open
  <1>2. PICK i \in run.cur :
          /\ puts' = puts \cup {[folder |-> folder, path |-> i.path, time |-> TimeOf(i),
                                 holds |-> src[i.path], pc |-> "sending", mine |-> TRUE]}
          /\ crossed' = IF \E u \in puts : u.folder = folder /\ u.path = i.path
                        THEN crossed \cup {<<folder, i.path>>} ELSE crossed
    BY DEF Open
  <1> DEFINE n == [folder |-> folder, path |-> i.path, time |-> TimeOf(i),
                   holds |-> src[i.path], pc |-> "sending", mine |-> TRUE]
  <1>3. /\ i \in run.left /\ i \in run.walked /\ i.path \in Path /\ i.version \in Version
        /\ i.version \in Nat /\ i.version >= 1 /\ folder \in Folder /\ i.version <= src[i.path]
    BY RunFields, ItemType DEF RunIsOrdered, TypeOK
  <1>4. TimeOf(i) \in Time /\ (TimeOf(i) = 0 \/ TimeOf(i) = i.version)
    BY <1>3, Values DEF TimeOf
  <1>5. /\ n \in PutType /\ n.folder = folder /\ n.path = i.path /\ n.time = TimeOf(i)
        /\ n.holds = src[i.path] /\ n.pc = "sending" /\ n.mine /\ Place(n) = <<folder, i.path>>
    BY <1>3, <1>4, SrcNat, Values DEF PutType, Place
  <1>6. puts' = puts \cup {n}
    BY <1>2
  <1> HIDE DEF n
  <1>7. /\ run' \in RunType /\ run'.pc = "put" /\ run'.left = run.left /\ run'.cur = run.cur
        /\ run'.walked = run.walked /\ run'.folder = run.folder
    BY <1>1, Values DEF TypeOK, RunType
  <1>8. /\ crossed \subseteq crossed' /\ crossed' \subseteq Folder \X Path
        /\ Place(n) \notin crossed' => \A u \in puts : Place(u) # Place(n)
    BY <1>2, <1>3, <1>5 DEF TypeOK, Place
  <1>9. TypeOK'
    BY <1>1, <1>5, <1>6, <1>7, <1>8 DEF TypeOK
  <1>10. SkippedIsCurrent'
    BY <1>1, <1>8 DEF SkippedIsCurrent, Judged, Unmodified
  <1>11. TimesInOrder'
    <2>1. n.time <= src[n.path] /\ (n.time = src[n.path] => n.holds = src[n.path])
      BY <1>3, <1>4, <1>5, SrcNat
    <2> QED BY <1>1, <1>6, <2>1 DEF TimesInOrder
  <1>12. UploadsApart'
    <2>1. \A u \in puts : Arrives(u)' <=> Arrives(u)
      BY <1>1 DEF Arrives
    <2>2. ASSUME NEW u \in PutType, u.pc = "sending", u.holds = src[u.path]
          PROVE  Arrives(u)'
      BY <1>1, <2>2 DEF Arrives
    <2> SUFFICES ASSUME NEW u \in puts', Place(u) \notin crossed'
                 PROVE  Arrives(u)' /\ \A v \in puts' : Place(v) = Place(u) => v = u
      BY DEF UploadsApart, Place
    <2>3. CASE u = n
      BY <1>5, <1>6, <1>8, <2>2, <2>3
    <2>4. CASE u \in puts /\ u # n
      <3>1. Place(u) # Place(n) /\ Place(u) \notin crossed
        BY <1>8, <2>4
      <3> QED BY <1>6, <2>1, <2>4, <3>1 DEF UploadsApart
    <2> QED BY <1>6, <2>3, <2>4
  <1>13. RunIsOrdered'
    <2>1. \A u \in puts : ~u.mine
      BY <1>1, NoneMine
    <2>2. folder \in run.folder
      BY <1>1 DEF RunIsOrdered
    <2>3. \A u \in puts' : u.mine => u = n
      BY <1>6, <2>1
    <2>4. i \in run'.cur /\ i.path = n.path /\ (src'[i.path] = i.version => n.holds = i.version)
      BY <1>1, <1>5, <1>7
    <2> QED BY <1>1, <1>5, <1>7, <2>2, <2>3, <2>4 DEF RunIsOrdered
  <1>14. DoneIsThere'
    <2> SUFFICES ASSUME run.folder = {folder}, NEW j \in run.walked \ run.left
                 PROVE  InOneFolder(j)'
      BY <1>1, <1>7 DEF DoneIsThere
    <2>1. InOneFolder(j)
      BY <1>1 DEF DoneIsThere
    <2>2. j.path # i.path
      BY <1>3 DEF RunIsOrdered
    <2>3. Place(n) # <<folder, j.path>>
      BY <1>5, <2>2
    <2> QED BY <1>1, <1>6, <1>8, <2>1, <2>3 DEF InOneFolder, Place
  <1> QED BY <1>9, <1>10, <1>11, <1>12, <1>13, <1>14

-----------------------------------------------------------------------------
(* The gateway.                                                            *)

\* An upload goes on to its next step: it is the same but for its pc.
LEMMA StepFacts ==
  ASSUME IInv, NEW u \in puts, NEW pc \in PutPc, Step(u, pc)
  PROVE  \E n \in PutType :
           /\ puts' = (puts \ {u}) \cup {n}
           /\ n.pc = pc /\ n.folder = u.folder /\ n.path = u.path /\ n.time = u.time
           /\ n.holds = u.holds /\ (n.mine <=> u.mine) /\ Place(n) = Place(u)
           /\ puts' \subseteq PutType
  <1> DEFINE n == [u EXCEPT !.pc = pc]
  <1>1. u \in PutType /\ puts' = (puts \ {u}) \cup {n}
    BY DEF Step, IInv, TypeOK
  <1>2. /\ n \in PutType /\ n.pc = pc /\ n.folder = u.folder /\ n.path = u.path
        /\ n.time = u.time /\ n.holds = u.holds /\ (n.mine <=> u.mine)
    BY <1>1 DEF PutType
  <1> HIDE DEF n
  <1>3. Place(n) = Place(u) /\ puts' \subseteq PutType
    BY <1>1, <1>2 DEF Place, IInv, TypeOK
  <1> QED BY <1>1, <1>2, <1>3

\* RunIsOrdered and the order of times see nothing of a step of an upload.
LEMMA StepOrder ==
  ASSUME IInv, NEW u \in puts, NEW n, puts' = (puts \ {u}) \cup {n},
         n.folder = u.folder, n.path = u.path, n.time = u.time, n.holds = u.holds,
         n.mine <=> u.mine, UNCHANGED <<src, folder, run, crossed>>,
         \A f \in Folder, p \in Path : remote'[f][p].time <= src[p]
  PROVE  RunIsOrdered' /\ TimesInOrder'
  <1> USE DEF IInv
  <1>1. TimesInOrder'
    BY DEF TimesInOrder
  <1>2. \A v, w \in puts' : v.mine /\ w.mine => v = w
    BY DEF RunIsOrdered
  <1>3. \A v \in puts' : v.mine =>
          /\ run'.pc = "put" /\ v.folder \in run'.folder
          /\ \E i \in run'.cur :
               i.path = v.path /\ (src'[i.path] = i.version => v.holds = i.version)
    <2> SUFFICES ASSUME NEW v \in puts', v.mine
                 PROVE  /\ run'.pc = "put" /\ v.folder \in run'.folder
                        /\ \E i \in run'.cur :
                             i.path = v.path /\ (src'[i.path] = i.version => v.holds = i.version)
      OBVIOUS
    <2>1. PICK x \in puts : x.mine /\ x.folder = v.folder /\ x.path = v.path /\ x.holds = v.holds
      OBVIOUS
    <2> QED BY <2>1 DEF RunIsOrdered
  <1>4. /\ run'.cur \subseteq run'.left /\ run'.left \subseteq run'.walked
        /\ \A i \in run'.walked : i.version <= src'[i.path]
        /\ \A i, j \in run'.walked : i.path = j.path => i = j
        /\ \A i, j \in run'.cur : i = j
        /\ run'.cur # {} => run'.pc \in {"open", "put"}
        /\ run'.pc # "idle" => folder' \in run'.folder
    BY DEF RunIsOrdered
  <1> QED BY <1>1, <1>2, <1>3, <1>4 DEF RunIsOrdered

\* Uploads stay apart when one of them goes on, and arrives where it was going.
LEMMA StepApart ==
  ASSUME IInv, NEW u \in puts, NEW n, puts' = (puts \ {u}) \cup {n}, Place(n) = Place(u),
         UNCHANGED <<src, crossed>>,
         Place(u) \notin crossed => Arrives(n)',
         \A f \in Folder, p \in Path : <<f, p>> # Place(u) => remote'[f][p] = remote[f][p]
  PROVE  UploadsApart'
  <1> USE DEF IInv
  <1> SUFFICES ASSUME NEW v \in puts', Place(v) \notin crossed
               PROVE  Arrives(v)' /\ \A w \in puts' : Place(w) = Place(v) => w = v
    BY DEF UploadsApart, Place
  <1>1. CASE v = n
    <2>1. \A w \in puts : Place(w) = Place(u) => w = u
      BY <1>1 DEF UploadsApart
    <2> QED BY <1>1, <2>1
  <1>2. CASE v # n
    <2>1. v \in puts /\ v # u
      BY <1>2
    <2>2. Arrives(v) /\ Place(v) # Place(u) /\ \A w \in puts : Place(w) = Place(v) => w = v
      BY <2>1 DEF UploadsApart
    <2>3. v.folder \in Folder /\ v.path \in Path
      BY <2>1, PutFields DEF TypeOK
    <2>4. remote'[v.folder][v.path] = remote[v.folder][v.path]
      BY <2>2, <2>3 DEF Place
    <2>5. Arrives(v)'
      BY <2>2, <2>4 DEF Arrives
    <2> QED BY <2>2, <2>5
  <1> QED BY <1>1, <1>2

\* What is done stays in place when an upload goes on that holds the same.
LEMMA StepDone ==
  ASSUME IInv, NEW u \in puts, NEW n, puts' = (puts \ {u}) \cup {n}, Place(n) = Place(u),
         n.holds = u.holds, UNCHANGED <<src, folder, run, crossed>>,
         \A f \in Folder, p \in Path :
            <<f, p>> # Place(u) => remote'[f][p].holds = remote[f][p].holds,
         remote'[u.folder][u.path].holds \in {u.holds, remote[u.folder][u.path].holds}
  PROVE  DoneIsThere'
  <1> USE DEF IInv
  <1> SUFFICES ASSUME run.pc # "idle", run.folder = {folder}, NEW i \in run.walked \ run.left
               PROVE  InOneFolder(i)'
    BY DEF DoneIsThere
  <1>1. InOneFolder(i) /\ i.path \in Path /\ folder \in Folder
    BY RunFields, ItemType DEF DoneIsThere, TypeOK
  <1> SUFFICES ASSUME src[i.path] = i.version, <<folder, i.path>> \notin crossed
               PROVE  /\ remote'[folder][i.path].holds = i.version
                      /\ \A v \in puts' : Place(v) = <<folder, i.path>> => v.holds = i.version
    BY DEF InOneFolder, Place
  <1>2. /\ remote[folder][i.path].holds = i.version
        /\ \A v \in puts : Place(v) = <<folder, i.path>> => v.holds = i.version
    BY <1>1 DEF InOneFolder
  <1>3. \A v \in puts' : Place(v) = <<folder, i.path>> => v.holds = i.version
    BY <1>2
  <1>4. remote'[folder][i.path].holds = i.version
    BY <1>1, <1>2 DEF Place
  <1> QED BY <1>3, <1>4

LEMMA ReceivedIInv ==
  ASSUME IInv, NEW u \in puts, Received(u)
  PROVE  IInv'
  <1> USE DEF IInv
  <1>1. u.pc = "sending" /\ Step(u, "received") /\ UNCHANGED <<src, folder, remote, run, crossed, budget>>
    BY DEF Received
  <1>2. PICK n \in PutType :
          /\ puts' = (puts \ {u}) \cup {n}
          /\ n.pc = "received" /\ n.folder = u.folder /\ n.path = u.path /\ n.time = u.time
          /\ n.holds = u.holds /\ (n.mine <=> u.mine) /\ Place(n) = Place(u)
          /\ puts' \subseteq PutType
    BY <1>1, StepFacts, Values
  <1>3. TypeOK'
    BY <1>1, <1>2 DEF TypeOK
  <1>4. SkippedIsCurrent'
    BY <1>1 DEF SkippedIsCurrent, Judged, Unmodified
  <1>5. RunIsOrdered' /\ TimesInOrder'
    BY <1>1, <1>2, StepOrder DEF TimesInOrder
  <1>6. UploadsApart'
    <2>1. Place(u) \notin crossed => Arrives(n)'
      BY <1>1, <1>2 DEF UploadsApart, Arrives
    <2> QED BY <1>1, <1>2, <2>1, StepApart
  <1>7. DoneIsThere'
    BY <1>1, <1>2, StepDone
  <1> QED BY <1>3, <1>4, <1>5, <1>6, <1>7

LEMMA RenameIInv ==
  ASSUME IInv, NEW u \in puts, Rename(u)
  PROVE  IInv'
  <1> USE DEF IInv
  <1> DEFINE file == [holds |-> u.holds, time |-> Clock]
  <1>1. /\ u.pc = "received" /\ Step(u, "renamed") /\ UNCHANGED <<src, folder, run, crossed, budget>>
        /\ remote' = [remote EXCEPT ![u.folder][u.path] = file]
    BY DEF Rename
  <1>2. PICK n \in PutType :
          /\ puts' = (puts \ {u}) \cup {n}
          /\ n.pc = "renamed" /\ n.folder = u.folder /\ n.path = u.path /\ n.time = u.time
          /\ n.holds = u.holds /\ (n.mine <=> u.mine) /\ Place(n) = Place(u)
          /\ puts' \subseteq PutType
    BY <1>1, StepFacts, Values
  <1>3. u.folder \in Folder /\ u.path \in Path /\ u.holds \in Held
    BY PutFields DEF TypeOK
  <1>4. file \in File /\ file.holds = u.holds /\ file.time = 0
    BY <1>3, Values DEF File
  <1> HIDE DEF file
  <1>5. /\ remote' \in [Folder -> [Path -> File]] /\ remote'[u.folder][u.path] = file
        /\ \A f \in Folder, p \in Path : <<f, p>> # Place(u) => remote'[f][p] = remote[f][p]
    <2>1. /\ remote' \in [Folder -> [Path -> File]] /\ remote'[u.folder][u.path] = file
          /\ \A f \in Folder, p \in Path :
                <<f, p>> # <<u.folder, u.path>> => remote'[f][p] = remote[f][p]
      BY <1>1, <1>3, <1>4 DEF TypeOK
    <2> QED BY <2>1 DEF Place
  <1>6. TypeOK'
    BY <1>1, <1>2, <1>5 DEF TypeOK
  <1>7. SkippedIsCurrent'
    <2> SUFFICES ASSUME NEW f \in Folder, NEW p \in Path, <<f, p>> \notin crossed,
                        remote'[f][p].holds # Missing, remote'[f][p].time = src[p]
                 PROVE  remote'[f][p].holds = src[p]
      BY <1>1 DEF SkippedIsCurrent, Judged, Unmodified
    <2>1. CASE <<f, p>> = Place(u)
      BY <1>4, <1>5, <2>1, SrcNat DEF Place
    <2>2. CASE <<f, p>> # Place(u)
      BY <1>5, <2>2 DEF SkippedIsCurrent, Judged, Unmodified
    <2> QED BY <2>1, <2>2
  <1>8. RunIsOrdered' /\ TimesInOrder'
    <2>1. \A f \in Folder, p \in Path : remote'[f][p].time <= src[p]
      <3> SUFFICES ASSUME NEW f \in Folder, NEW p \in Path PROVE remote'[f][p].time <= src[p]
        OBVIOUS
      <3>1. CASE <<f, p>> = Place(u)
        BY <1>4, <1>5, <3>1, SrcNat DEF Place
      <3>2. CASE <<f, p>> # Place(u)
        BY <1>5, <3>2 DEF TimesInOrder
      <3> QED BY <3>1, <3>2
    <2> QED BY <1>1, <1>2, <2>1, StepOrder
  <1>9. UploadsApart'
    <2>1. Arrives(n)'
      BY <1>2, <1>4, <1>5 DEF Arrives
    <2> QED BY <1>1, <1>2, <1>5, <2>1, StepApart
  <1>10. DoneIsThere'
    BY <1>1, <1>2, <1>4, <1>5, StepDone
  <1> QED BY <1>6, <1>7, <1>8, <1>9, <1>10

LEMMA SetTimeIInv ==
  ASSUME IInv, NEW u \in puts, SetTime(u)
  PROVE  IInv'
  <1> USE DEF IInv
  <1> DEFINE file == [remote[u.folder][u.path] EXCEPT !.time = u.time]
  <1>1. /\ u.pc = "renamed" /\ Step(u, "stamped") /\ UNCHANGED <<src, folder, run, crossed, budget>>
        /\ remote' = IF u.time = Clock THEN remote
                     ELSE [remote EXCEPT ![u.folder][u.path].time = u.time]
    BY DEF SetTime
  <1>2. PICK n \in PutType :
          /\ puts' = (puts \ {u}) \cup {n}
          /\ n.pc = "stamped" /\ n.folder = u.folder /\ n.path = u.path /\ n.time = u.time
          /\ n.holds = u.holds /\ (n.mine <=> u.mine) /\ Place(n) = Place(u)
          /\ puts' \subseteq PutType
    BY <1>1, StepFacts, Values
  <1>3. u.folder \in Folder /\ u.path \in Path /\ u.time \in Time /\ u.time \in Nat
    BY PutFields DEF TypeOK
  <1>4. file \in File /\ file.holds = remote[u.folder][u.path].holds /\ file.time = u.time
    BY <1>3 DEF TypeOK, File
  <1>5. u.time # Clock => remote' = [remote EXCEPT ![u.folder][u.path] = file]
    BY <1>1, <1>3 DEF TypeOK, File
  <1> HIDE DEF file
  <1>6. /\ remote' \in [Folder -> [Path -> File]]
        /\ remote'[u.folder][u.path] \in {remote[u.folder][u.path], file}
        /\ \A f \in Folder, p \in Path : <<f, p>> # Place(u) => remote'[f][p] = remote[f][p]
    <2>1. CASE u.time = Clock
      BY <1>1, <2>1 DEF TypeOK
    <2>2. CASE u.time # Clock
      BY <1>3, <1>4, <1>5, <2>2, RemoteUpdate DEF Place
    <2> QED BY <2>1, <2>2
  <1>7. /\ remote'[u.folder][u.path].holds = remote[u.folder][u.path].holds
        /\ remote'[u.folder][u.path].time \in {remote[u.folder][u.path].time, u.time}
    BY <1>4, <1>6
  <1>8. TypeOK'
    BY <1>1, <1>2, <1>6 DEF TypeOK
  <1>9. u.time <= src[u.path] /\ (u.time = src[u.path] => u.holds = src[u.path])
    BY DEF TimesInOrder
  <1>10. Place(u) \notin crossed => remote[u.folder][u.path].holds = u.holds
    BY <1>1 DEF UploadsApart, Arrives
  <1>11. SkippedIsCurrent'
    <2> SUFFICES ASSUME NEW f \in Folder, NEW p \in Path, <<f, p>> \notin crossed,
                        remote'[f][p].holds # Missing, remote'[f][p].time = src[p]
                 PROVE  remote'[f][p].holds = src[p]
      BY <1>1 DEF SkippedIsCurrent, Judged, Unmodified
    <2>1. CASE <<f, p>> = Place(u)
      <3>1. f = u.folder /\ p = u.path
        BY <2>1 DEF Place
      <3>2. CASE remote'[f][p].time = u.time
        BY <1>7, <1>9, <1>10, <2>1, <3>1, <3>2
      <3>3. CASE remote'[f][p].time = remote[f][p].time
        BY <1>7, <3>1, <3>3 DEF SkippedIsCurrent, Judged, Unmodified
      <3> QED BY <1>7, <3>1, <3>2, <3>3
    <2>2. CASE <<f, p>> # Place(u)
      BY <1>6, <2>2 DEF SkippedIsCurrent, Judged, Unmodified
    <2> QED BY <2>1, <2>2
  <1>12. RunIsOrdered' /\ TimesInOrder'
    <2>1. \A f \in Folder, p \in Path : remote'[f][p].time <= src[p]
      <3> SUFFICES ASSUME NEW f \in Folder, NEW p \in Path PROVE remote'[f][p].time <= src[p]
        OBVIOUS
      <3>1. CASE <<f, p>> = Place(u)
        BY <1>7, <1>9, <3>1 DEF Place, TimesInOrder
      <3>2. CASE <<f, p>> # Place(u)
        BY <1>6, <3>2 DEF TimesInOrder
      <3> QED BY <3>1, <3>2
    <2> QED BY <1>1, <1>2, <2>1, StepOrder
  <1>13. UploadsApart'
    <2>1. Place(u) \notin crossed => Arrives(n)'
      BY <1>2, <1>7, <1>10 DEF Arrives
    <2> QED BY SMTT(30), <1>1, <1>2, <1>6, <2>1, StepApart
  <1>14. DoneIsThere'
    BY ZenonT(40), <1>1, <1>2, <1>6, <1>7, StepDone
  <1> QED BY <1>8, <1>11, <1>12, <1>13, <1>14

LEMMA AnswerIInv ==
  ASSUME IInv, NEW u \in puts, Answer(u)
  PROVE  IInv'
  <1> USE DEF IInv
  <1> DEFINE r == [run EXCEPT !.pc = "next", !.left = @ \ run.cur, !.cur = {}]
  <1>1. /\ u.pc = "stamped" /\ puts' = puts \ {u} /\ run' = IF u.mine THEN r ELSE run
        /\ UNCHANGED <<src, folder, remote, crossed, budget>>
    BY DEF Answer, InPlace
  <1>2. run.left \ run.cur \in Items
    BY RunFields DEF Items
  <1>3. /\ r \in RunType /\ r.pc = "next" /\ r.left = run.left \ run.cur /\ r.cur = {}
        /\ r.walked = run.walked /\ r.folder = run.folder
    BY <1>2, Values DEF TypeOK, RunType
  <1> HIDE DEF r
  <1>4. TypeOK'
    BY <1>1, <1>3 DEF TypeOK
  <1>5. SkippedIsCurrent' /\ TimesInOrder'
    BY <1>1 DEF SkippedIsCurrent, TimesInOrder, Judged, Unmodified
  <1>6. UploadsApart'
    BY <1>1 DEF UploadsApart, Arrives, Place
  <1>7. CASE ~u.mine
    <2>1. RunIsOrdered'
      BY <1>1, <1>7 DEF RunIsOrdered
    <2>2. DoneIsThere'
      BY <1>1, <1>7 DEF DoneIsThere, InOneFolder, Place
    <2> QED BY <1>4, <1>5, <1>6, <2>1, <2>2
  <1>8. CASE u.mine
    <2>1. run' = r /\ run.pc = "put" /\ u.folder \in run.folder
      BY <1>1, <1>8 DEF RunIsOrdered
    <2>2. PICK i \in run.cur :
            i.path = u.path /\ (src[i.path] = i.version => u.holds = i.version)
      BY <1>8 DEF RunIsOrdered
    <2>3. run.cur = {i}
      BY DEF RunIsOrdered
    <2>4. \A v \in puts' : ~v.mine
      BY <1>1, <1>8 DEF RunIsOrdered
    <2>5. RunIsOrdered'
      BY <1>1, <1>3, <2>1, <2>4 DEF RunIsOrdered
    <2>6. DoneIsThere'
      <3> SUFFICES ASSUME run.folder = {folder}, NEW j \in run.walked \ r.left
                   PROVE  InOneFolder(j)'
        BY <1>1, <1>3, <2>1 DEF DoneIsThere
      <3>1. CASE j \notin run.left
        BY <1>1, <2>1, <3>1 DEF DoneIsThere, InOneFolder, Place
      <3>2. CASE j \in run.left
        <4>1. j = i /\ Place(u) = <<folder, j.path>>
          BY <1>3, <2>1, <2>2, <2>3, <3>2 DEF Place
        <4> SUFFICES ASSUME src[j.path] = j.version, Place(u) \notin crossed
                     PROVE  /\ remote[folder][j.path].holds = j.version
                            /\ \A v \in puts \ {u} : Place(v) # Place(u)
          BY <1>1, <4>1 DEF InOneFolder, Place
        <4>2. Arrives(u) /\ \A v \in puts : Place(v) = Place(u) => v = u
          BY DEF UploadsApart
        <4>3. remote[u.folder][u.path].holds = u.holds
          BY <1>1, <4>2 DEF Arrives
        <4> QED BY <2>1, <2>2, <4>1, <4>2, <4>3
      <3> QED BY <3>1, <3>2
    <2> QED BY <1>4, <1>5, <1>6, <2>5, <2>6
  <1> QED BY <1>7, <1>8

-----------------------------------------------------------------------------
(* Faults.                                                                 *)

\* The run is over, and uploads that go on are its no longer.
LEMMA EndsIInv ==
  ASSUME IInv, Fault, run' = NoRun, UNCHANGED <<src, folder, remote, crossed>>,
         \A v \in puts' : \E u \in puts : v = [u EXCEPT !.mine = FALSE]
  PROVE  IInv'
  <1> USE DEF IInv
  <1>1. ASSUME NEW v \in puts'
        PROVE  \E u \in puts :
                 /\ v = [u EXCEPT !.mine = FALSE]
                 /\ v \in PutType /\ v.folder = u.folder /\ v.path = u.path /\ v.pc = u.pc
                 /\ v.time = u.time /\ v.holds = u.holds /\ ~v.mine /\ Place(v) = Place(u)
    <2>1. PICK u \in puts : v = [u EXCEPT !.mine = FALSE]
      OBVIOUS
    <2>2. u \in PutType
      BY DEF TypeOK
    <2>3. /\ v \in PutType /\ v.folder = u.folder /\ v.path = u.path /\ v.pc = u.pc
          /\ v.time = u.time /\ v.holds = u.holds /\ ~v.mine
      BY <2>1, <2>2, PutUpdate
    <2> QED BY <2>1, <2>3 DEF Place
  <1>2. TypeOK'
    BY <1>1, NoRunType, BudgetKept DEF TypeOK
  <1>3. SkippedIsCurrent'
    BY DEF SkippedIsCurrent, Judged, Unmodified
  <1>4. TimesInOrder'
    BY <1>1 DEF TimesInOrder
  <1>5. UploadsApart'
    <2> SUFFICES ASSUME NEW v \in puts', Place(v) \notin crossed
                 PROVE  Arrives(v)' /\ \A w \in puts' : Place(w) = Place(v) => w = v
      BY DEF UploadsApart, Place
    <2>1. PICK u \in puts :
            /\ v = [u EXCEPT !.mine = FALSE] /\ Place(v) = Place(u) /\ v.folder = u.folder
            /\ v.path = u.path /\ v.pc = u.pc /\ v.holds = u.holds
      BY <1>1
    <2>2. Arrives(u) /\ \A x \in puts : Place(x) = Place(u) => x = u
      BY <2>1 DEF UploadsApart
    <2>3. Arrives(v)'
      BY <2>1, <2>2 DEF Arrives
    <2>4. ASSUME NEW w \in puts', Place(w) = Place(v)
          PROVE  w = v
      <3>1. PICK x \in puts : w = [x EXCEPT !.mine = FALSE] /\ Place(w) = Place(x)
        BY <1>1
      <3> QED BY <2>1, <2>2, <2>4, <3>1
    <2> QED BY <2>3, <2>4
  <1>6. RunIsOrdered' /\ DoneIsThere'
    BY <1>1, NoRunType DEF RunIsOrdered, DoneIsThere
  <1> QED BY <1>2, <1>3, <1>4, <1>5, <1>6

LEMMA RunFailsIInv ==
  ASSUME IInv, RunFails
  PROVE  IInv'
  BY EndsIInv DEF RunFails

LEMMA GatewayCrashIInv ==
  ASSUME IInv, GatewayCrash
  PROVE  IInv'
  BY EndsIInv DEF GatewayCrash

-----------------------------------------------------------------------------
LEMMA InitIInv ==
  ASSUME Init
  PROVE  IInv
  <1> USE DEF Init
  <1>1. NoFile \in File /\ NoFile.holds = Missing /\ NoFile.time = 0
    BY Values DEF NoFile, File
  <1>2. budget \in [faults : 0 .. MaxFaults, moves : 0 .. MaxMoves]
    BY BoundAssumption
  <1>3. TypeOK
    BY <1>1, <1>2, Values, NoRunType DEF TypeOK
  <1>4. \A f \in Folder, p \in Path : remote[f][p] = NoFile
    OBVIOUS
  <1>5. SkippedIsCurrent /\ TimesInOrder
    BY <1>1, <1>3, <1>4, SrcNat DEF SkippedIsCurrent, TimesInOrder, Judged, Unmodified
  <1>6. UploadsApart /\ RunIsOrdered /\ DoneIsThere
    BY NoRunType DEF UploadsApart, RunIsOrdered, DoneIsThere
  <1> QED BY <1>3, <1>5, <1>6 DEF IInv

LEMMA NextIInv ==
  ASSUME IInv, [Next]_vars
  PROVE  IInv'
  <1>1. CASE \E p \in Path, over \in BOOLEAN : Write(p, over)
    BY <1>1, WriteIInv
  <1>2. CASE \E f \in Folder : Move(f)
    BY <1>2, MoveIInv
  <1>3. CASE Walk \/ InspectNext \/ Open \/ Finish
    BY <1>3, WalkIInv, InspectIInv, OpenIInv, FinishIInv DEF InspectNext
  <1>4. CASE Gateway
    BY <1>4, ReceivedIInv, RenameIInv, SetTimeIInv, AnswerIInv DEF Gateway
  <1>5. CASE RunFails \/ GatewayCrash
    BY <1>5, RunFailsIInv, GatewayCrashIInv
  <1>6. CASE UNCHANGED vars
    <2>1. RunIsOrdered' /\ DoneIsThere'
      BY <1>6 DEF IInv, vars, RunIsOrdered, DoneIsThere, InOneFolder, Place
    <2> QED BY <1>6, <2>1, RunOnly DEF vars, IInv, TypeOK
  <1> QED BY <1>1, <1>2, <1>3, <1>4, <1>5, <1>6 DEF Next

-----------------------------------------------------------------------------
(* The theorems.                                                           *)

\* Whatever is written, moved, cancelled or cut between the steps of an
\* upload: a file that the next backup would skip is the one the source has
\* (flat_file.go:124-141, gateway.mjs:204-224).
THEOREM BackupIsSafe == Spec => []IInv
  <1>1. Init => IInv
    BY InitIInv
  <1>2. IInv /\ [Next]_vars => IInv'
    BY NextIInv
  <1> QED BY <1>1, <1>2, PTL DEF Spec

\* The part of it that is about the folder: a place whose uploads did not overlap
\* and that the next run would skip holds the version of the source.
COROLLARY SkippedFilesAreCurrent == Spec => []SkippedIsCurrent
  <1>1. IInv => SkippedIsCurrent
    BY DEF IInv
  <1> QED BY <1>1, BackupIsSafe, PTL

\* A run in one folder that completes has there every file of its walk, in the
\* version it found or with the source changed since (flat_file.go:114-161).
THEOREM CompletedRunsAreWhole == Spec => CompletedIsWhole
  <1>1. ASSUME IInv, Finish, Cardinality(run.folder) = 1, NEW i \in run.walked
        PROVE  \/ remote[folder][i.path].holds = i.version
               \/ src[i.path] # i.version
               \/ <<folder, i.path>> \in crossed
    <2>1. run.pc = "next" /\ run.left = {} /\ TypeOK
      BY <1>1 DEF Finish, IInv
    <2>2. folder \in run.folder
      BY <1>1, <2>1 DEF IInv, RunIsOrdered
    <2>3. IsFiniteSet(run.folder)
      BY <2>1, RunFields, SetAssumption, FS_Subset DEF Folders
    <2>4. run.folder = {folder}
      BY <1>1, <2>2, <2>3, FS_Singleton
    <2>5. InOneFolder(i)
      BY <1>1, <2>1, <2>4 DEF IInv, DoneIsThere
    <2> QED BY <2>5 DEF InOneFolder
  <1>2. IInv /\ [Next]_vars =>
          [Finish /\ Cardinality(run.folder) = 1 =>
             \A i \in run.walked :
                \/ remote[folder][i.path].holds = i.version
                \/ src[i.path] # i.version
                \/ <<folder, i.path>> \in crossed]_vars
    BY <1>1
  <1> QED BY <1>2, BackupIsSafe, PTL DEF Spec, CompletedIsWhole
=============================================================================
