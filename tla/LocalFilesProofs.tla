--------------------------- MODULE LocalFilesProofs ---------------------------
(***************************************************************************)
(* What the files of the gateway guarantee for any number of requests at   *)
(* a time, entries, passwords, failures and restarts.                      *)
(*                                                                         *)
(* Every request is a task that moves along its own steps; each file has   *)
(* its own variables.  A step that is not one of a file's leaves the part  *)
(* of the invariant that speaks of it alone (ConfigUntouched,              *)
(* AuthUntouched).                                                         *)
(***************************************************************************)
EXTENDS LocalFiles, FiniteSetTheorems, TLAPS

-----------------------------------------------------------------------------
(* Facts about the values.                                                 *)

LEMMA Values ==
  /\ \A pc \in {"idle", "read", "open", "write", "rename", "token", "create", "fill", "answer"} :
       pc \in Pc
  /\ \A k \in {"none", "create", "update", "delete"} : k \in Kind
  /\ None \in Subject /\ Entry \subseteq Subject
  /\ None \in Pass /\ Password \subseteq Pass
  /\ 0 \in Version /\ Empty \in Content
  BY BoundAssumption DEF Pc, Kind, Subject, Pass, Version, Empty, Content

LEMMA Inodes == 0 \in Inode /\ Cardinality(Request) \in Nat
  <1>1. Cardinality(Request) \in Nat
    BY SetAssumption, FS_CardinalityType
  <1> QED BY <1>1 DEF Inode

LEMMA IdleType ==
  /\ Idle \in TaskType
  /\ Idle.pc = "idle"
  BY Values, Inodes DEF Idle, TaskType

-----------------------------------------------------------------------------
(* A step of one request.                                                  *)

Takes(r, t) == task' = [task EXCEPT ![r] = t]

LEMMA TaskStep ==
  ASSUME TypeOK, NEW r \in Request, NEW t \in TaskType, Takes(r, t)
  PROVE  /\ task' \in [Request -> TaskType]
         /\ task'[r] = t
         /\ \A q \in Request \ {r} : task'[q] = task[q]
  BY DEF TypeOK, Takes

\* integrations.json does not see a step that leaves its files alone and its
\* request nowhere in a save.
LEMMA ConfigUntouched ==
  ASSUME IInv, NEW r \in Request, NEW t \in TaskType, Takes(r, t),
         UNCHANGED confVars, t.pc \notin {"open", "write", "rename"},
         t.pc = "read" => t.subject \in Entry
  PROVE  ConfigKept' /\ CopiesAreChanges' /\ TempsApart'
  <1> USE DEF IInv
  <1>1. /\ task'[r] = t
        /\ \A q \in Request \ {r} : task'[q] = task[q]
    BY TaskStep
  <1>2. UNCHANGED <<inode, live, kept, lost, shared>>
    BY DEF confVars
  <1>3. ConfigKept'
    BY <1>2 DEF ConfigKept
  <1>4. CopiesAreChanges'
    BY <1>1 DEF CopiesAreChanges, Written
  <1>5. TempsApart'
    BY <1>1, <1>2 DEF TempsApart, Opened
  <1> QED BY <1>3, <1>4, <1>5

\* auth.json does not see a step of a request that does not fill it.
LEMMA AuthUntouched ==
  ASSUME IInv, NEW r \in Request, NEW t \in TaskType, Takes(r, t),
         UNCHANGED <<up, authVars>>,
         t.pc \notin {"fill", "answer"}, task[r].pc \notin {"fill", "answer"},
         t.pc \in {"token", "create"} => t.pass \in Password
  PROVE  SetUpOnce' /\ OneFills'
  <1> USE DEF IInv
  <1>1. /\ task'[r] = t
        /\ \A q \in Request \ {r} : task'[q] = task[q]
    BY TaskStep
  <1>2. UNCHANGED <<up, auth, token, configured, accepted, broken>>
    BY DEF authVars
  <1>3. \A q \in Request : Filling(q)' = Filling(q)
    BY <1>1 DEF Filling
  <1>4. SetUpOnce'
    BY <1>2, <1>3 DEF SetUpOnce
  <1>5. OneFills'
    BY <1>1, <1>2, <1>3 DEF OneFills
  <1> QED BY <1>4, <1>5

\* No file sees it.
LEMMA NoFileTouched ==
  ASSUME IInv, NEW r \in Request, NEW t \in TaskType, Takes(r, t),
         UNCHANGED <<up, confVars, authVars>>,
         acts' \in Version, faults' \in 0 .. MaxFaults,
         t.pc \notin {"open", "write", "rename", "fill", "answer"},
         t.pc = "read" => t.subject \in Entry,
         t.pc \in {"token", "create"} => t.pass \in Password,
         task[r].pc \notin {"fill", "answer"}
  PROVE  IInv'
  <1>1. ConfigKept' /\ CopiesAreChanges' /\ TempsApart'
    BY ConfigUntouched
  <1>2. SetUpOnce' /\ OneFills'
    BY AuthUntouched
  <1>3. TypeOK'
    BY TaskStep DEF IInv, TypeOK, confVars, authVars
  <1> QED BY <1>1, <1>2, <1>3 DEF IInv

LEMMA BeginIInv ==
  ASSUME IInv, NEW r \in Request, NEW t \in TaskType, Begin(r, t),
         t.pc \in {"read", "token"},
         t.pc = "read" => t.subject \in Entry,
         t.pc = "token" => t.pass \in Password
  PROVE  IInv'
  <1>1. /\ Takes(r, t) /\ UNCHANGED <<up, confVars, authVars, faults>>
        /\ acts' = acts + 1 /\ acts < MaxActs /\ task[r].pc = "idle"
    BY DEF Begin, Takes
  <1>2. acts' \in Version /\ faults' \in 0 .. MaxFaults
    BY <1>1, BoundAssumption DEF IInv, TypeOK, Version
  <1> QED BY <1>1, <1>2, NoFileTouched

LEMMA RequestsBegin ==
  ASSUME IInv, NEW r \in Request,
         \/ \E kind \in {"create", "update", "delete"}, e \in Entry : Change(r, kind, e)
         \/ \E p \in Password : Setup(r, p)
  PROVE  IInv'
  <1>1. ASSUME acts < MaxActs PROVE acts + 1 \in Version
    BY <1>1, BoundAssumption DEF IInv, TypeOK, Version
  <1>2. ASSUME NEW kind \in {"create", "update", "delete"}, NEW e \in Entry, Change(r, kind, e)
        PROVE  IInv'
    <2> DEFINE t == [Idle EXCEPT !.pc = "read", !.act = acts + 1, !.kind = kind, !.subject = e]
    <2>1. Begin(r, t) /\ acts < MaxActs
      BY <1>2 DEF Change, Begin
    <2>2. t \in TaskType /\ t.pc = "read" /\ t.subject = e
      BY <1>1, <2>1, IdleType, Values DEF TaskType
    <2> HIDE DEF t
    <2> QED BY <2>1, <2>2, BeginIInv
  <1>3. ASSUME NEW p \in Password, Setup(r, p)
        PROVE  IInv'
    <2> DEFINE t == [Idle EXCEPT !.pc = "token", !.act = acts + 1, !.pass = p]
    <2>1. Begin(r, t) /\ acts < MaxActs
      BY <1>3 DEF Setup, Begin
    <2>2. t \in TaskType /\ t.pc = "token" /\ t.pass = p
      BY <1>1, <2>1, IdleType, Values DEF TaskType
    <2> HIDE DEF t
    <2> QED BY <2>1, <2>2, BeginIInv
  <1> QED BY <1>2, <1>3

\* A request that ends without having changed a file, or moves between steps
\* that change none.
LEMMA BoundsKept ==
  ASSUME IInv, UNCHANGED <<acts, faults>>
  PROVE  acts' \in Version /\ faults' \in 0 .. MaxFaults
  BY DEF IInv, TypeOK

LEMMA TaskTypeOf ==
  ASSUME IInv, NEW r \in Request
  PROVE  task[r] \in TaskType
  BY DEF IInv, TypeOK

LEMMA ReadTokenIInv ==
  ASSUME IInv, NEW r \in Request, ReadToken(r)
  PROVE  IInv'
  <1> DEFINE moved == [task[r] EXCEPT !.pc = "create"]
  <1>1. /\ UNCHANGED <<up, confVars, authVars, acts, faults>> /\ task[r].pc = "token"
        /\ Takes(r, moved) \/ Takes(r, Idle)
    BY DEF ReadToken, Goes, End, Takes
  <1>2. /\ moved \in TaskType /\ moved.pc = "create" /\ moved.pass = task[r].pass
        /\ task[r].pass \in Password
    BY <1>1, TaskTypeOf, Values DEF TaskType, IInv, OneFills
  <1> HIDE DEF moved
  <1> QED BY <1>1, <1>2, BoundsKept, IdleType, NoFileTouched

-----------------------------------------------------------------------------
(* Saving integrations.json.                                               *)

\* auth.json does not see a step of a save.
LEMMA SaveStep ==
  ASSUME IInv, NEW r \in Request, NEW t \in TaskType, Takes(r, t),
         UNCHANGED <<up, authVars, acts, faults>>,
         task[r].pc \in {"read", "open", "write", "rename"},
         t.pc \in {"idle", "open", "write", "rename"},
         inode' \in [Inode -> File], live' \in Inode, kept' \in Content,
         lost' \subseteq Entry, shared' \in BOOLEAN
  PROVE  TypeOK' /\ SetUpOnce' /\ OneFills'
  <1>1. SetUpOnce' /\ OneFills'
    BY AuthUntouched
  <1>2. TypeOK'
    BY TaskStep DEF IInv, TypeOK, authVars
  <1> QED BY <1>1, <1>2

LEMMA ReadConfigIInv ==
  ASSUME IInv, NEW r \in Request, ReadConfig(r)
  PROVE  IInv'
  <1> USE DEF IInv
  <1> DEFINE now  == inode[live]
             e    == task[r].subject
             copy == [now.entry EXCEPT ![e] = Written(r)]
             t    == [task[r] EXCEPT !.pc = "open", !.copy = copy, !.old = now.entry]
  <1>1. /\ task[r].pc = "read" /\ UNCHANGED <<up, confVars, authVars, acts, faults>>
        /\ Takes(r, t) \/ Takes(r, Idle)
    BY DEF ReadConfig, End, Takes
  <1>2. CASE Takes(r, Idle)
    BY <1>1, <1>2, BoundsKept, IdleType, NoFileTouched
  <1>3. CASE Takes(r, t)
    <2>1. e \in Entry /\ now.entry \in Content
      BY <1>1 DEF CopiesAreChanges, TypeOK, File
    <2>2. copy \in Content
      <3>1. Written(r) \in Version
        BY TaskTypeOf, Values DEF Written, TaskType
      <3> QED BY <2>1, <3>1 DEF Content
    <2> HIDE DEF copy, now
    <2>3. /\ t \in TaskType /\ t.pc = "open" /\ t.copy = copy /\ t.old = now.entry
          /\ t.subject = e /\ t.act = task[r].act /\ t.kind = task[r].kind
      BY <2>1, <2>2, TaskTypeOf, Values DEF TaskType
    <2> HIDE DEF t
    <2>4. /\ task'[r] = t
          /\ \A q \in Request \ {r} : task'[q] = task[q]
      BY <1>3, <2>3, TaskStep
    <2>5. UNCHANGED <<inode, live, kept, lost, shared>>
      BY <1>1 DEF confVars
    <2>6. CopiesAreChanges'
      <3>1. Written(r)' = Written(r) /\ \A q \in Request \ {r} : Written(q)' = Written(q)
        BY <2>3, <2>4 DEF Written
      <3>2. t.copy = [t.old EXCEPT ![t.subject] = Written(r)]
        BY <2>3 DEF copy
      <3> QED BY <2>1, <2>3, <2>4, <3>1, <3>2 DEF CopiesAreChanges
    <2>7. ConfigKept' /\ TempsApart'
      BY <2>3, <2>4, <2>5 DEF ConfigKept, TempsApart, Opened
    <2>8. TypeOK' /\ SetUpOnce' /\ OneFills'
      BY <1>1, <1>3, <2>3, <2>5, SaveStep DEF TypeOK
    <2> QED BY <2>6, <2>7, <2>8
  <1> QED BY <1>1, <1>2, <1>3

\* With one inode more than requests there is always a name that is free: a
\* request that is about to open its file has none.
LEMMA UnusedExists ==
  ASSUME TypeOK, NEW r \in Request, ~Opened(r)
  PROVE  /\ Unused \in Inode /\ Unused # live
         /\ \A q \in Request : Opened(q) => task[q].at # Unused
  <1> DEFINE Others == Request \ {r}
             Names  == {task[q].at : q \in Others}
             n      == Cardinality(Request)
  <1>1. IsFiniteSet(Others) /\ Cardinality(Others) = n - 1 /\ n \in Nat
    BY SetAssumption, Inodes, FS_RemoveElement
  <1>2. IsFiniteSet(Names) /\ Cardinality(Names) <= Cardinality(Others)
    <2> DEFINE at == [q \in Others |-> task[q].at]
    <2>1. at \in Surjection(Others, Names)
      BY DEF Surjection
    <2> HIDE DEF at, Others, Names
    <2> QED BY <1>1, <2>1, FS_Surjection
  <1>3. IsFiniteSet(Names \cup {live}) /\ Cardinality(Names \cup {live}) <= n
    <2> HIDE DEF Names, Others
    <2>1. Cardinality(Names) \in Nat
      BY <1>2, FS_CardinalityType
    <2>2. /\ IsFiniteSet(Names \cup {live})
          /\ Cardinality(Names \cup {live}) =
               IF live \in Names THEN Cardinality(Names) ELSE Cardinality(Names) + 1
      BY <1>2, FS_AddElement
    <2> QED BY <1>1, <1>2, <2>1, <2>2
  <1>4. IsFiniteSet(Inode) /\ Cardinality(Inode) = n + 1
    BY <1>1, FS_Interval DEF Inode
  <1>5. ~(Inode \subseteq Names \cup {live})
    BY <1>1, <1>3, <1>4, FS_Subset, FS_CardinalityType
  <1>6. \E i \in Inode : i # live /\ \A q \in Request : Opened(q) => task[q].at # i
    BY <1>5
  <1> QED BY <1>6 DEF Unused

LEMMA OpenTempIInv ==
  ASSUME IInv, NEW r \in Request, OpenTemp(r)
  PROVE  IInv'
  <1> USE DEF IInv
  <1>1. PICK i \in WriteTarget(r) :
          /\ task' = [task EXCEPT ![r].pc = "write", ![r].at = i]
          /\ inode' = [inode EXCEPT ![i].whole = FALSE]
          /\ shared' = (shared \/ \E q \in Request : Opened(q) /\ task[q].at = i)
    BY DEF OpenTemp
  <1>2. /\ task[r].pc = "open"
        /\ UNCHANGED <<up, authVars, acts, faults>> /\ UNCHANGED <<live, kept, lost>>
    BY DEF OpenTemp
  <1>3. /\ Unused \in Inode /\ Unused # live
        /\ \A q \in Request : Opened(q) => task[q].at # Unused
    BY <1>2, UnusedExists DEF Opened
  <1>4. i \in Inode /\ (i = Unused \/ shared')
    BY <1>1, <1>3, TaskTypeOf DEF WriteTarget, TaskType
  <1> DEFINE t == [task[r] EXCEPT !.pc = "write", !.at = i]
  <1>5. Takes(r, t)
    BY <1>1 DEF Takes, TypeOK
  <1>6. /\ t \in TaskType /\ t.pc = "write" /\ t.at = i
        /\ t.copy = task[r].copy /\ t.old = task[r].old
        /\ t.subject = task[r].subject /\ t.act = task[r].act /\ t.kind = task[r].kind
    BY <1>4, TaskTypeOf, Values DEF TaskType
  <1> HIDE DEF t
  <1>7. /\ task'[r] = t
        /\ \A q \in Request \ {r} : task'[q] = task[q]
    BY <1>5, <1>6, TaskStep
  <1>8. /\ inode' \in [Inode -> File]
        /\ \A j \in Inode \ {i} : inode'[j] = inode[j]
    BY <1>1, <1>4 DEF TypeOK, File
  <1>9. shared' \in BOOLEAN /\ (shared => shared')
    BY <1>1 DEF TypeOK
  <1>10. ConfigKept'
    BY <1>2, <1>3, <1>4, <1>8, <1>9 DEF ConfigKept, TypeOK
  <1>11. CopiesAreChanges'
    <2>1. \A q \in Request : Written(q)' = Written(q)
      BY <1>6, <1>7 DEF Written
    <2> QED BY <1>2, <1>6, <1>7, <2>1 DEF CopiesAreChanges
  <1>12. TempsApart'
    <2> SUFFICES ASSUME ~shared' PROVE TempsApart'
      BY DEF TempsApart
    <2>1. i = Unused /\ ~shared
      BY <1>4, <1>9
    <2>2. ASSUME NEW q \in Request, q # r, Opened(q)
          PROVE  /\ task[q].at \in Inode /\ task[q].at # i
                 /\ inode'[task[q].at] = inode[task[q].at]
      BY <1>3, <1>8, <2>1, <2>2, TaskTypeOf DEF TaskType
    <2> QED BY <1>2, <1>3, <1>6, <1>7, <2>1, <2>2 DEF TempsApart, Opened
  <1>13. TypeOK' /\ SetUpOnce' /\ OneFills'
    BY <1>2, <1>5, <1>6, <1>8, <1>9, SaveStep DEF TypeOK
  <1> QED BY <1>10, <1>11, <1>12, <1>13

LEMMA WriteTempIInv ==
  ASSUME IInv, NEW r \in Request, WriteTemp(r)
  PROVE  IInv'
  <1> USE DEF IInv
  <1> DEFINE i == task[r].at
             t == [task[r] EXCEPT !.pc = "rename"]
  <1>1. PICK tail \in BOOLEAN :
          /\ tail => \E q \in Request \ {r} : Opened(q) /\ task[q].at = i
          /\ inode' = [inode EXCEPT ![i] = [whole |-> ~tail, entry |-> task[r].copy]]
    BY DEF WriteTemp
  <1>2. /\ task[r].pc = "write"
        /\ UNCHANGED <<up, authVars, acts, faults>>
        /\ UNCHANGED <<live, kept, lost, shared>>
        /\ Takes(r, t)
    BY DEF WriteTemp, Goes, Takes
  <1>3. i \in Inode /\ task[r].copy \in Content
    BY TaskTypeOf DEF TaskType
  <1>4. /\ t \in TaskType /\ t.pc = "rename" /\ t.at = i
        /\ t.copy = task[r].copy /\ t.old = task[r].old
        /\ t.subject = task[r].subject /\ t.act = task[r].act /\ t.kind = task[r].kind
    BY TaskTypeOf, Values DEF TaskType
  <1> HIDE DEF t
  <1>5. /\ task'[r] = t
        /\ \A q \in Request \ {r} : task'[q] = task[q]
    BY <1>2, <1>4, TaskStep
  <1>6. /\ inode' \in [Inode -> File]
        /\ (inode'[i].whole <=> ~tail) /\ inode'[i].entry = task[r].copy
        /\ \A j \in Inode \ {i} : inode'[j] = inode[j]
    BY <1>1, <1>3 DEF TypeOK, File
  <1>7. ~shared => ~tail /\ i # live
    BY <1>1, <1>2 DEF TempsApart, Opened
  <1>8. ConfigKept'
    BY <1>2, <1>3, <1>6, <1>7 DEF ConfigKept, TypeOK
  <1>9. CopiesAreChanges'
    <2>1. \A q \in Request : Written(q)' = Written(q)
      BY <1>4, <1>5 DEF Written
    <2> QED BY <1>2, <1>4, <1>5, <2>1 DEF CopiesAreChanges
  <1>10. TempsApart'
    <2> SUFFICES ASSUME ~shared PROVE TempsApart'
      BY <1>2 DEF TempsApart
    <2>1. inode'[i].whole /\ inode'[i].entry = task[r].copy
      BY <1>6, <1>7
    <2>2. ASSUME NEW q \in Request, q # r, Opened(q)
          PROVE  /\ task[q].at \in Inode /\ task[q].at # i
                 /\ inode'[task[q].at] = inode[task[q].at]
      BY <1>2, <1>6, <2>2, TaskTypeOf DEF TaskType, TempsApart, Opened
    <2>3. \A q \in Request : Opened(q)' <=> Opened(q)
      BY <1>2, <1>4, <1>5 DEF Opened
    <2>4. ASSUME NEW q \in Request \ {r}, Opened(q)
          PROVE  /\ task[q].at # live /\ task'[q] = task[q]
                 /\ \A p \in Request \ {q} : Opened(p) => task'[p].at # task[q].at
                 /\ task[q].pc = "rename" =>
                      inode'[task[q].at].whole /\ inode'[task[q].at].entry = task[q].copy
      BY <1>2, <1>4, <1>5, <2>2, <2>4 DEF TempsApart
    <2>5. \A p \in Request \ {r} : Opened(p) => task'[p].at # i
      BY <1>5, <2>2
    <2> QED BY <1>2, <1>4, <1>5, <1>7, <2>1, <2>3, <2>4, <2>5 DEF TempsApart
  <1>11. TypeOK' /\ SetUpOnce' /\ OneFills'
    BY <1>2, <1>4, <1>6, SaveStep DEF TypeOK
  <1> QED BY <1>8, <1>9, <1>10, <1>11

LEMMA RenameTempIInv ==
  ASSUME IInv, NEW r \in Request, RenameTemp(r)
  PROVE  IInv'
  <1> USE DEF IInv
  <1> DEFINE i == task[r].at
             e == task[r].subject
  <1>1. /\ task[r].pc = "rename" /\ live' = i
        /\ UNCHANGED <<up, authVars, acts, faults>> /\ UNCHANGED <<inode, shared>>
        /\ Takes(r, Idle)
    BY DEF RenameTemp, End, Takes
  <1>2. i \in Inode /\ e \in Entry /\ Written(r) \in Version
    BY <1>1, TaskTypeOf, Values DEF TaskType, CopiesAreChanges, Written
  <1>3. kept' \in Content /\ lost' \subseteq Entry
    BY <1>2 DEF RenameTemp, TypeOK, Content, Stale
  <1>4. /\ task'[r] = Idle
        /\ \A q \in Request \ {r} : task'[q] = task[q]
    BY <1>1, IdleType, TaskStep
  <1>5. ConfigKept'
    <2> SUFFICES ASSUME ~shared PROVE ConfigKept'
      BY <1>1 DEF ConfigKept
    <2>1. /\ i # live /\ inode[i].whole /\ inode[i].entry = task[r].copy
          /\ task[r].copy = [task[r].old EXCEPT ![e] = Written(r)]
      BY <1>1 DEF TempsApart, CopiesAreChanges, Opened
    <2>2. /\ kept' = [kept EXCEPT ![e] = Written(r)]
          /\ lost' = (lost \cup Stale(r)) \ {e}
      BY <2>1 DEF RenameTemp
    <2>3. task[r].old \in Content /\ kept \in Content
      BY TaskTypeOf DEF TaskType, TypeOK
    <2> SUFFICES ASSUME NEW x \in Entry \ lost'
                 PROVE  inode[i].entry[x] = kept'[x]
      BY <1>1, <2>1 DEF ConfigKept
    <2>4. CASE x = e
      BY <2>1, <2>2, <2>3, <2>4 DEF Content
    <2>5. CASE x # e
      <3>1. x \notin lost /\ task[r].old[x] = inode[live].entry[x]
        BY <2>2, <2>5 DEF Stale
      <3>2. inode[live].entry[x] = kept[x]
        BY <3>1 DEF ConfigKept
      <3>3. inode[i].entry[x] = task[r].old[x] /\ kept'[x] = kept[x]
        BY <2>1, <2>2, <2>3, <2>5 DEF Content
      <3> QED BY <3>1, <3>2, <3>3
    <2> QED BY <2>4, <2>5
  <1>6. CopiesAreChanges'
    <2>1. \A q \in Request \ {r} : Written(q)' = Written(q)
      BY <1>4 DEF Written
    <2> QED BY <1>4, <2>1, IdleType DEF CopiesAreChanges
  <1>7. TempsApart'
    BY <1>1, <1>4, IdleType DEF TempsApart, Opened
  <1>8. TypeOK' /\ SetUpOnce' /\ OneFills'
    BY <1>1, <1>2, <1>3, IdleType, SaveStep DEF TypeOK
  <1> QED BY <1>5, <1>6, <1>7, <1>8

-----------------------------------------------------------------------------
(* Setting the password.                                                   *)

\* integrations.json does not see a step of a setup.
LEMMA SetupStep ==
  ASSUME IInv, NEW r \in Request, NEW t \in TaskType, Takes(r, t),
         UNCHANGED <<up, confVars, acts, faults>>,
         task[r].pc \in {"create", "fill", "answer"}, t.pc \in {"idle", "fill", "answer"},
         auth' \in Pass \cup {Half}, token' \in BOOLEAN, configured' \in BOOLEAN,
         accepted' \subseteq Password, broken' \in BOOLEAN
  PROVE  TypeOK' /\ ConfigKept' /\ CopiesAreChanges' /\ TempsApart'
  <1>1. ConfigKept' /\ CopiesAreChanges' /\ TempsApart'
    BY ConfigUntouched
  <1>2. TypeOK'
    BY TaskStep DEF IInv, TypeOK, confVars
  <1> QED BY <1>1, <1>2

LEMMA CreateAuthIInv ==
  ASSUME IInv, NEW r \in Request, CreateAuth(r)
  PROVE  IInv'
  <1> USE DEF IInv
  <1> DEFINE t == [task[r] EXCEPT !.pc = "fill"]
  <1>1. /\ task[r].pc = "create"
        /\ UNCHANGED <<up, confVars, acts, faults>>
        /\ UNCHANGED <<token, configured, accepted, broken>>
    BY DEF CreateAuth
  <1>2. CASE auth # None
    <2>1. auth' = auth /\ Takes(r, Idle)
      BY <1>2 DEF CreateAuth, MayCreate, End, Takes
    <2> QED BY <1>1, <2>1, BoundsKept, IdleType, NoFileTouched DEF authVars
  <1>3. CASE auth = None
    <2>1. auth' = Half /\ Takes(r, t)
      BY <1>3 DEF CreateAuth, MayCreate, Goes, Takes
    <2>2. /\ t \in TaskType /\ t.pc = "fill" /\ t.pass = task[r].pass
          /\ task[r].pass \in Password
      BY <1>1, TaskTypeOf, Values DEF TaskType, OneFills
    <2> HIDE DEF t
    <2>3. /\ task'[r] = t
          /\ \A q \in Request \ {r} : task'[q] = task[q]
      BY <2>1, <2>2, TaskStep
    <2>4. /\ accepted = {}
          /\ \A q \in Request : task[q].pc # "fill" /\ task[q].pc # "answer"
      BY <1>3, SetAssumption DEF SetUpOnce, TypeOK, OneFills
    <2>5. SetUpOnce'
      BY <1>1, <2>2, <2>3, <2>4 DEF SetUpOnce, Filling
    <2>6. OneFills'
      BY <1>1, <2>1, <2>2, <2>3, <2>4 DEF OneFills, Filling
    <2>7. TypeOK' /\ ConfigKept' /\ CopiesAreChanges' /\ TempsApart'
      BY <1>1, <2>1, <2>2, SetupStep DEF TypeOK
    <2> QED BY <2>5, <2>6, <2>7
  <1> QED BY <1>2, <1>3

LEMMA FillAuthIInv ==
  ASSUME IInv, NEW r \in Request, FillAuth(r)
  PROVE  IInv'
  <1> USE DEF IInv
  <1> DEFINE t == [task[r] EXCEPT !.pc = "answer"]
  <1>1. /\ task[r].pc = "fill" /\ auth' = task[r].pass /\ Takes(r, t)
        /\ UNCHANGED <<up, confVars, acts, faults>>
        /\ UNCHANGED <<token, configured, accepted, broken>>
    BY DEF FillAuth, Goes, Takes
  <1>2. /\ t \in TaskType /\ t.pc = "answer" /\ t.pass = task[r].pass
        /\ task[r].pass \in Password
    BY <1>1, TaskTypeOf, Values DEF TaskType, OneFills
  <1> HIDE DEF t
  <1>3. /\ task'[r] = t
        /\ \A q \in Request \ {r} : task'[q] = task[q]
    BY <1>1, <1>2, TaskStep
  <1>4. /\ accepted = {}
        /\ \A q \in Request \ {r} : task[q].pc # "fill" /\ task[q].pc # "answer"
    BY <1>1, SetAssumption DEF SetUpOnce, TypeOK, OneFills, Filling
  <1>5. SetUpOnce'
    BY <1>1, <1>2, <1>3, <1>4 DEF SetUpOnce, Filling
  <1>6. OneFills'
    BY <1>1, <1>2, <1>3, <1>4 DEF OneFills, Filling
  <1>7. TypeOK' /\ ConfigKept' /\ CopiesAreChanges' /\ TempsApart'
    BY <1>1, <1>2, Values, SetupStep DEF TypeOK
  <1> QED BY <1>5, <1>6, <1>7

LEMMA FinishSetupIInv ==
  ASSUME IInv, NEW r \in Request, FinishSetup(r)
  PROVE  IInv'
  <1> USE DEF IInv
  <1>1. /\ task[r].pc = "answer" /\ Takes(r, Idle)
        /\ configured' = TRUE /\ token' = FALSE /\ accepted' = accepted \cup {task[r].pass}
        /\ UNCHANGED <<up, confVars, acts, faults>> /\ UNCHANGED <<auth, broken>>
    BY DEF FinishSetup, End, Takes
  <1>2. /\ task'[r] = Idle
        /\ \A q \in Request \ {r} : task'[q] = task[q]
    BY <1>1, IdleType, TaskStep
  <1>3. /\ auth = task[r].pass /\ auth \in Password
        /\ \A q \in Request \ {r} : task[q].pc # "fill" /\ task[q].pc # "answer"
    BY <1>1 DEF OneFills, Filling
  <1>4. SetUpOnce'
    BY <1>1, <1>3 DEF SetUpOnce, OneFills
  <1>5. OneFills'
    BY <1>1, <1>2, <1>3, IdleType DEF OneFills, Filling
  <1>6. TypeOK' /\ ConfigKept' /\ CopiesAreChanges' /\ TempsApart'
    BY <1>1, <1>3, IdleType, SetupStep DEF TypeOK
  <1> QED BY <1>4, <1>5, <1>6

-----------------------------------------------------------------------------
(* Failures and restarts.                                                  *)

LEMMA FailsIInv ==
  ASSUME IInv, NEW r \in Request, Fails(r)
  PROVE  IInv'
  <1> USE DEF IInv
  <1>1. /\ Takes(r, Idle)
        /\ UNCHANGED <<up, confVars, acts>>
        /\ UNCHANGED <<auth, token, configured, accepted>>
        /\ broken' = (broken \/ Filling(r))
    BY DEF Fails, End, Takes
  <1>2. /\ task'[r] = Idle
        /\ \A q \in Request \ {r} : task'[q] = task[q]
    BY <1>1, IdleType, TaskStep
  <1>3. faults' \in 0 .. MaxFaults /\ broken' \in BOOLEAN
    BY <1>1, BoundAssumption DEF Fails, Fault, TypeOK, Filling
  <1>4. ConfigKept' /\ CopiesAreChanges' /\ TempsApart'
    BY <1>1, IdleType, ConfigUntouched
  <1>5. SetUpOnce'
    BY <1>1, <1>2 DEF SetUpOnce, Filling
  <1>6. OneFills'
    BY <1>1, <1>2, IdleType DEF OneFills, Filling
  <1>7. TypeOK'
    BY <1>1, <1>3, IdleType, TaskStep DEF TypeOK, confVars
  <1> QED BY <1>4, <1>5, <1>6, <1>7

LEMMA RestartIInv ==
  ASSUME IInv, Restart
  PROVE  IInv'
  <1> USE DEF IInv
  <1>1. /\ task' = [r \in Request |-> Idle] /\ up' = (auth # Half)
        /\ configured' = (auth \in Password)
        /\ token' = IF auth = Half THEN token ELSE auth = None
        /\ broken' = (broken \/ auth = Half)
        /\ UNCHANGED <<confVars, auth, accepted, acts>>
    BY DEF Restart
  <1>2. \A r \in Request : task'[r] \in TaskType /\ task'[r].pc = "idle"
    BY <1>1, IdleType
  <1>3. faults' \in 0 .. MaxFaults
    BY BoundAssumption DEF Restart, Fault, TypeOK
  <1>4. ConfigKept' /\ CopiesAreChanges' /\ TempsApart'
    BY <1>1, <1>2 DEF confVars, ConfigKept, CopiesAreChanges, TempsApart, Opened
  <1>5. SetUpOnce' /\ OneFills'
    BY <1>1, <1>2 DEF SetUpOnce, OneFills, Filling, TypeOK, Pass
  <1>6. TypeOK'
    <2>1. task' \in [Request -> TaskType]
      BY <1>1, <1>2
    <2>2. UNCHANGED <<inode, live, kept, lost, shared>>
      BY <1>1 DEF confVars
    <2>3. up' \in BOOLEAN /\ configured' \in BOOLEAN
      BY <1>1
    <2>4. token' \in BOOLEAN
      <3>1. token \in BOOLEAN
        BY DEF TypeOK
      <3> QED BY <1>1, <3>1
    <2>5. broken' \in BOOLEAN
      BY <1>1
    <2> QED BY <1>1, <1>3, <2>1, <2>2, <2>3, <2>4, <2>5 DEF TypeOK
  <1> QED BY <1>4, <1>5, <1>6

-----------------------------------------------------------------------------
(* The invariant.                                                          *)

LEMMA InitIInv == Init => IInv
  <1> SUFFICES ASSUME Init PROVE IInv
    OBVIOUS
  <1> USE DEF Init
  <1>1. \A r \in Request : task[r] \in TaskType /\ task[r].pc = "idle"
    BY IdleType
  <1>2. TypeOK
    <2>1. task \in [Request -> TaskType]
      BY IdleType
    <2>2. inode \in [Inode -> File] /\ live \in Inode
      BY Values, Inodes DEF File
    <2>3. acts \in Version /\ faults \in 0 .. MaxFaults
      BY Values, BoundAssumption
    <2> QED BY <2>1, <2>2, <2>3, Values DEF TypeOK
  <1>3. ConfigKept /\ CopiesAreChanges /\ TempsApart
    BY <1>1, Inodes DEF ConfigKept, CopiesAreChanges, TempsApart, Opened
  <1>4. SetUpOnce /\ OneFills
    BY <1>1 DEF SetUpOnce, OneFills, Filling
  <1> QED BY <1>2, <1>3, <1>4 DEF IInv

LEMMA NextIInv == IInv /\ [Next]_vars => IInv'
  <1> SUFFICES ASSUME IInv, [Next]_vars PROVE IInv'
    OBVIOUS
  <1>1. CASE UNCHANGED vars
    <2>1. UNCHANGED <<up, task, inode, live, kept, lost, shared, auth, token, configured,
                      accepted, broken, acts, faults>>
      BY <1>1 DEF vars, confVars, authVars
    <2>2. TypeOK' /\ ConfigKept' /\ CopiesAreChanges' /\ TempsApart'
      BY <2>1 DEF IInv, TypeOK, ConfigKept, CopiesAreChanges, Written, TempsApart, Opened
    <2>3. SetUpOnce' /\ OneFills'
      BY <2>1 DEF IInv, SetUpOnce, OneFills, Filling
    <2> QED BY <2>2, <2>3 DEF IInv
  <1>2. CASE Restart
    BY <1>2, RestartIInv
  <1>3. ASSUME NEW r \in Request,
               \/ \E kind \in {"create", "update", "delete"}, e \in Entry : Change(r, kind, e)
               \/ \E p \in Password : Setup(r, p)
        PROVE  IInv'
    BY <1>3, RequestsBegin
  <1>4. ASSUME NEW r \in Request, ReadConfig(r) \/ OpenTemp(r) \/ WriteTemp(r) \/ RenameTemp(r)
        PROVE  IInv'
    BY <1>4, ReadConfigIInv, OpenTempIInv, WriteTempIInv, RenameTempIInv
  <1>5. ASSUME NEW r \in Request, ReadToken(r) \/ CreateAuth(r) \/ FillAuth(r) \/ FinishSetup(r)
        PROVE  IInv'
    BY <1>5, ReadTokenIInv, CreateAuthIInv, FillAuthIInv, FinishSetupIInv
  <1>6. ASSUME NEW r \in Request, Fails(r)
        PROVE  IInv'
    BY <1>6, FailsIInv
  <1> QED BY <1>1, <1>2, <1>3, <1>4, <1>5, <1>6 DEF Next

\* The files at once: integrations.json whole and as last saved, at most one
\* setup and its password the one that counts, with the invariants that make
\* these inductive.
THEOREM FilesAreSafe == Spec => []IInv
  <1>1. Init => IInv
    BY InitIInv
  <1>2. IInv /\ [Next]_vars => IInv'
    BY NextIInv
  <1> QED BY <1>1, <1>2, PTL DEF Spec

\* No failure and no restart in the middle of a save loses an entry of
\* integrations.json.  A save that had read the file before another one loses
\* what that one saved, that entry alone and until it is saved again; two
\* writes of one millisecond may lose anything (integration-config.mjs:44-58).
THEOREM ConfigIsKept == Spec => []ConfigKept
  <1>1. IInv => ConfigKept
    BY DEF IInv
  <1> QED BY <1>1, FilesAreSafe, PTL

\* However many setups run at a time at most one is accepted, and the password
\* that counts is its own: local-auth.mjs:57-67, 193-196.
THEOREM OnePassword == Spec => []SetUpOnce
  <1>1. IInv => SetUpOnce
    BY DEF IInv
  <1> QED BY <1>1, FilesAreSafe, PTL

=============================================================================
