--------------------------- MODULE EnrolmentProofs ---------------------------
(***************************************************************************)
(* What enrolment guarantees for any number of devices, machines, editors, *)
(* names, folders, tokens, acts of the operator and faults.                *)
(*                                                                         *)
(* The invariant has two halves.  The tokens: a step of the server gives   *)
(* none to a machine (TokensOfServer), and the one report that does gives  *)
(* one that nobody had.  The rows: a step that leaves the handlers alone   *)
(* leaves them alone (RowsUntouched), and each handler has a lemma.        *)
(***************************************************************************)
EXTENDS Enrolment, TLAPS

-----------------------------------------------------------------------------
(* Facts about the values.                                                 *)

LEMMA Values ==
  /\ 0 \in Count /\ 1 \in Count /\ Count \subseteq Nat
  /\ \A p \in {"idle", "hash", "policy", "root"} : p \in TaskPc
  /\ \A p \in {"idle", "report", "answer", "profile"} : p \in CallPc
  /\ "installer" \in Kind /\ "agent" \in Kind
  /\ {} \in Tokens
  /\ None \in TaskDev /\ None \in TaskName /\ None \in TaskFolder
  /\ Device \subseteq TaskDev /\ Name \subseteq TaskName /\ Folder \subseteq TaskFolder
  /\ Device \subseteq Caller /\ Editor \subseteq Caller /\ Device \cap Editor = {}
  /\ None \notin Device /\ None \notin Folder
  BY SetAssumption, BoundAssumption
  DEF Count, TaskPc, CallPc, Kind, Tokens, TaskDev, TaskName, TaskFolder, Caller

LEMMA TokenType ==
  ASSUME NEW t \in Token
  PROVE  /\ t.dev \in Device /\ t.n \in Count /\ t.n \in Nat /\ t.n >= 1
         /\ t = [dev |-> t.dev, n |-> t.n]
  BY BoundAssumption DEF Token, Count

LEMMA TokenOf ==
  ASSUME NEW d \in Device, NEW n \in Count, n >= 1
  PROVE  [dev |-> d, n |-> n] \in Token
  BY BoundAssumption DEF Token, Count

LEMMA NoTaskType == NoTask \in TaskType /\ NoTask.pc = "idle"
  BY Values DEF NoTask, TaskType

LEMMA NoCallType == NoCall \in CallType /\ NoCall.held = {} /\ NoCall.cmd = {}
  BY Values DEF NoCall, CallType

LEMMA DevTypes ==
  ASSUME NEW r \in DevType
  PROVE  /\ r.token \in Nat /\ r.token \in Count
         /\ r.there \in BOOLEAN /\ r.seen \in BOOLEAN /\ r.old \in BOOLEAN /\ r.enabled \in BOOLEAN
  BY Values DEF DevType

LEMMA BudgetKept ==
  ASSUME TypeOK, Event \/ UNCHANGED budget
  PROVE  budget' \in 0 .. MaxEvents
  BY BoundAssumption DEF TypeOK, Event

-----------------------------------------------------------------------------
(* The halves of the invariant.                                            *)

Rows == EnrolledOnce /\ ReceiversApart /\ FoldersAgree /\ ReceiversKept

\* A token that is accepted is none of an install command: the device it was
\* exchanged for has another.
LEMMA IdentityFromTokens ==
  ASSUME TypeOK, TokensInOrder, GivenOnce
  PROVE  OneIdentity
  <1> SUFFICES ASSUME NEW t \in Token, NEW m \in Machine, NEW q \in Machine,
                      Accepted(t), Holds(m, t), Holds(q, t)
               PROVE  m = q
    BY DEF OneIdentity
  <1>1. t.n >= 2
    BY TokenType DEF Accepted, IsCurrent, TokensInOrder
  <1> QED BY <1>1 DEF Holds, GivenOnce

LEMMA TokensOfServer ==
  ASSUME IInv, dev' \in [Device -> DevType], shown' \in Tokens,
         UNCHANGED <<file, pc>>,
         \A d \in Device :
            dev'[d].token >= dev[d].token /\ (dev'[d].seen => dev[d].seen),
         \A t \in shown' : t \in shown \/ t.n <= dev'[t.dev].token
  PROVE  TokensInOrder' /\ GivenOnce'
  <1> USE DEF IInv
  <1>1. \A d \in Device : dev[d].token \in Nat /\ dev'[d].token \in Nat
    BY DevTypes DEF TypeOK
  <1>2. \A t \in shown' : t \in Token
    BY DEF Tokens
  <1>3. \A t \in shown' : t.n <= dev'[t.dev].token
    BY <1>1, <1>2, TokenType DEF TokensInOrder
  <1>4. \A m \in Machine : file[m] \cup pc[m].cmd \cup pc[m].held \subseteq Token
    BY DEF TypeOK, CallType, Tokens
  <1>5. \A m \in Machine : \A t \in file[m] \cup pc[m].cmd \cup pc[m].held :
          t.n <= dev'[t.dev].token
    BY <1>1, <1>4, TokenType DEF TokensInOrder
  <1>6. TokensInOrder'
    BY <1>1, <1>3, <1>5 DEF TokensInOrder
  <1>7. GivenOnce'
    BY DEF GivenOnce
  <1> QED BY <1>6, <1>7

LEMMA RowsUntouched ==
  ASSUME IInv, dev' \in [Device -> DevType],
         UNCHANGED <<recv, policy, task, mixed, bereft>>,
         \A d \in Device :
            /\ dev'[d].token >= dev[d].token /\ dev'[d].there = dev[d].there
            /\ [dev |-> d, n |-> 1] \in shown' <=> [dev |-> d, n |-> 1] \in shown
  PROVE  Rows'
  <1> USE DEF IInv
  <1>1. \A d \in Device : dev[d].token \in Nat /\ dev'[d].token \in Nat
    BY DevTypes DEF TypeOK
  <1>2. \A r \in recv : r.dev \in Device
    BY DEF TypeOK
  <1>3. EnrolledOnce'
    <2>1. \A d \in Device : dev[d].token >= 1 => dev'[d].token >= 1
      <3>1. \A d \in Device : dev'[d].token >= dev[d].token
        OBVIOUS
      <3> QED BY <1>1, <3>1
    <2>2. \A d \in Device : dev'[d].there => dev'[d].token >= 1
      BY <2>1 DEF EnrolledOnce
    <2>3. \A d \in Device :
            task[d].pc # "idle" => task[d].dev = d /\ [dev |-> d, n |-> 1] \notin shown'
      BY DEF EnrolledOnce
    <2>4. \A r \in recv : dev'[r.dev].token >= 1 /\ task[r.dev].pc # "hash"
      BY <1>2, <2>1 DEF EnrolledOnce
    <2>5. \A c \in Caller :
            task[c].pc # "idle" =>
              task[c].dev \in Device /\ dev'[task[c].dev].token >= 1 /\ task[c].folder \in Folder
      BY <2>1 DEF EnrolledOnce
    <2> QED BY <2>2, <2>3, <2>4, <2>5 DEF EnrolledOnce
  <1>4. ReceiversApart'
    BY DEF ReceiversApart
  <1>5. FoldersAgree'
    BY DEF FoldersAgree, HalfWritten, Between, Own
  <1>6. ReceiversKept'
    <2>1. \A e \in bereft : e \in Device /\ dev'[e].token >= 1
      <3>1. \A e \in Device : dev'[e].token >= dev[e].token
        OBVIOUS
      <3> QED BY <1>1, <3>1 DEF TypeOK, ReceiversKept
    <2> QED BY <2>1 DEF ReceiversKept, HasReceiver
  <1> QED BY <1>3, <1>4, <1>5, <1>6 DEF Rows

LEMMA Halves ==
  ASSUME TypeOK', TokensInOrder', GivenOnce', Rows'
  PROVE  IInv'
  <1>1. TypeOK' /\ TokensInOrder' /\ GivenOnce' => OneIdentity'
    BY IdentityFromTokens, PTL
  <1> QED BY <1>1 DEF IInv, Rows

-----------------------------------------------------------------------------
(* The handlers of enroll and putPolicy.                                   *)

LEMMA EnrolIInv ==
  ASSUME IInv, NEW d \in Device, NEW name \in Name, NEW folder \in Folder, Enrol(d, name, folder)
  PROVE  IInv'
  <1> USE DEF IInv
  <1> DEFINE new == [dev[d] EXCEPT !.there = TRUE, !.token = 1]
             t   == [pc |-> "hash", dev |-> d, name |-> name, folder |-> folder]
  <1>1. /\ dev[d].token = 0 /\ dev' = [dev EXCEPT ![d] = new]
        /\ task' = [task EXCEPT ![d] = t]
        /\ UNCHANGED <<recv, policy, shown, file, pc, mixed, bereft, budget>>
    BY DEF Enrol, TypeOK
  <1>2. /\ new \in DevType /\ new.token = 1 /\ new.there = TRUE /\ new.seen = dev[d].seen
    BY Values DEF TypeOK, DevType
  <1>3. t \in TaskType
    BY Values DEF TaskType
  <1> HIDE DEF new
  <1>4. /\ dev' \in [Device -> DevType]
        /\ dev'[d] = new /\ \A e \in Device \ {d} : dev'[e] = dev[e]
    BY <1>1, <1>2 DEF TypeOK
  <1>5. /\ task' \in [Caller -> TaskType] /\ d \in Caller
        /\ task'[d] = t /\ \A c \in Caller \ {d} : task'[c] = task[c]
    BY <1>1, <1>3, Values DEF TypeOK
  <1>6. TypeOK'
    BY <1>1, <1>4, <1>5 DEF TypeOK
  <1>7. TokensInOrder' /\ GivenOnce'
    <2>1. \A e \in Device :
            dev'[e].token >= dev[e].token /\ (dev'[e].seen => dev[e].seen)
      BY <1>1, <1>2, <1>4, DevTypes DEF TypeOK
    <2> QED BY <1>1, <1>4, <1>6, <2>1, TokensOfServer DEF TypeOK
  <1>8. ~dev[d].there /\ [dev |-> d, n |-> 1] \notin shown /\ task[d].pc = "idle"
    <2>1. ~dev[d].there
      BY <1>1 DEF EnrolledOnce
    <2>2. task[d].pc = "idle"
      <3>1. task[d].pc # "idle" => task[d].dev = d
        BY DEF EnrolledOnce
      <3>2. task[d].pc # "idle" => dev[task[d].dev].token >= 1
        BY Values DEF EnrolledOnce
      <3> QED BY <1>1, <3>1, <3>2
    <2>3. [dev |-> d, n |-> 1] \notin shown
      BY <1>1 DEF TokensInOrder
    <2> QED BY <2>1, <2>2, <2>3
  <1>9. \A r \in recv : r.dev # d /\ r.dev \in Device
    BY <1>1 DEF EnrolledOnce, TypeOK
  <1>10. EnrolledOnce'
    BY <1>1, <1>2, <1>4, <1>5, <1>8, <1>9, Values DEF EnrolledOnce
  <1>11. ReceiversApart'
    BY <1>1 DEF ReceiversApart
  <1>12. FoldersAgree'
    <2>1. \A c \in Caller : task'[c].pc = "root" => task'[c] = task[c] /\ task[c].dev # d
      BY <1>1, <1>5 DEF EnrolledOnce
    <2>2. \A c \in Caller : task[c].pc = "root" => task'[c] = task[c]
      BY <1>5, <1>8
    <2>3. HalfWritten' = HalfWritten
      BY <2>1, <2>2 DEF HalfWritten, Between
    <2>4. \A e \in Device \ {d} : dev'[e].there = dev[e].there
      BY <1>4
    <2> QED BY <1>1, <1>8, <2>1, <2>2, <2>3, <2>4 DEF FoldersAgree, Between, Own
  <1>13. ReceiversKept'
    <2>1. ASSUME NEW e \in Device \ {d}, dev'[e].there
          PROVE  /\ dev[e].there /\ task'[e] = task[e]
                 /\ HasReceiver(e)' <=> HasReceiver(e)
      BY <1>1, <1>4, <1>5, <2>1, Values DEF HasReceiver
    <2>2. d \notin bereft
      BY <1>1 DEF ReceiversKept
    <2>3. \A e \in bereft : e \in Device /\ dev'[e].token >= 1
      BY <1>2, <1>4, DevTypes DEF TypeOK, ReceiversKept
    <2> QED BY <1>1, <1>8, <2>1, <2>2, <2>3 DEF ReceiversKept
  <1> QED BY <1>6, <1>7, <1>10, <1>11, <1>12, <1>13, Halves DEF Rows

\* The tokens do not see a step of a handler that shows none.
LEMMA HandlerTokens ==
  ASSUME IInv, UNCHANGED <<dev, shown, file, pc>>
  PROVE  TokensInOrder' /\ GivenOnce'
  <1>1. \A d \in Device :
          dev'[d].token >= dev[d].token /\ (dev'[d].seen => dev[d].seen)
    BY DevTypes DEF IInv, TypeOK
  <1>2. dev' \in [Device -> DevType] /\ shown' \in Tokens
    BY DEF IInv, TypeOK
  <1> QED BY <1>1, <1>2, TokensOfServer

\* The step of a handler that moves to t.
LEMMA HandlerStep ==
  ASSUME TypeOK, NEW c \in Caller, NEW t \in TaskType, task' = [task EXCEPT ![c] = t]
  PROVE  /\ task' \in [Caller -> TaskType]
         /\ task'[c] = t
         /\ \A b \in Caller \ {c} : task'[b] = task[b]
  BY DEF TypeOK

\* A handler that ends before it has written the policy.
LEMMA HandlerGivesUp ==
  ASSUME IInv, NEW c \in Caller, task[c].pc # "root",
         task' = [task EXCEPT ![c] = NoTask],
         UNCHANGED <<dev, recv, policy, shown, file, pc, mixed, bereft, budget>>
  PROVE  IInv'
  <1> USE DEF IInv
  <1>1. /\ task' \in [Caller -> TaskType]
        /\ task'[c].pc = "idle" /\ \A b \in Caller \ {c} : task'[b] = task[b]
    BY HandlerStep, NoTaskType
  <1>2. TypeOK'
    BY <1>1 DEF TypeOK
  <1>3. TokensInOrder' /\ GivenOnce'
    BY HandlerTokens
  <1>4. EnrolledOnce'
    BY <1>1, Values DEF EnrolledOnce
  <1>5. ReceiversApart'
    BY DEF ReceiversApart
  <1>6. FoldersAgree'
    <2>1. \A b \in Caller : task'[b].pc = "root" => task'[b] = task[b]
      BY <1>1
    <2>2. \A b \in Caller : task[b].pc = "root" => task'[b] = task[b]
      BY <1>1
    <2>3. HalfWritten' = HalfWritten
      BY <2>1, <2>2 DEF HalfWritten, Between
    <2> QED BY <2>1, <2>2, <2>3 DEF FoldersAgree, Between, Own
  <1>7. ReceiversKept'
    BY <1>1, Values DEF ReceiversKept, HasReceiver
  <1> QED BY <1>2, <1>3, <1>4, <1>5, <1>6, <1>7, Halves DEF Rows

LEMMA AddReceiverIInv ==
  ASSUME IInv, NEW d \in Device, AddReceiver(d)
  PROVE  IInv'
  <1> USE DEF IInv
  <1> DEFINE r0 == [name |-> task[d].name, dev |-> d, folder |-> task[d].folder]
             t  == [task[d] EXCEPT !.pc = "policy"]
  <1>1. task[d].pc = "hash" /\ UNCHANGED <<dev, policy, shown, file, pc, mixed, bereft, budget>>
    BY DEF AddReceiver
  <1>2. d \in Caller
    BY Values
  <1>3. CASE ~(dev[d].there /\ ~NameTaken(task[d].name))
    <2>1. recv' = recv /\ task' = [task EXCEPT ![d] = NoTask]
      BY <1>3 DEF AddReceiver
    <2> QED BY <1>1, <1>2, <2>1, HandlerGivesUp
  <1>4. CASE dev[d].there /\ ~NameTaken(task[d].name)
    <2>1. recv' = recv \cup {r0} /\ task' = [task EXCEPT ![d] = t]
      BY <1>4 DEF AddReceiver
    <2>2. /\ t \in TaskType /\ t.pc = "policy" /\ t.dev = task[d].dev
          /\ t.folder = task[d].folder
      BY <1>2, Values DEF TypeOK, TaskType
    <2> HIDE DEF t
    <2>3. /\ task' \in [Caller -> TaskType]
          /\ task'[d] = t /\ \A b \in Caller \ {d} : task'[b] = task[b]
      BY <1>2, <2>1, <2>2, HandlerStep
    <2>4. /\ task[d].dev = d /\ task[d].name \in Name /\ task[d].folder \in Folder
          /\ dev[d].token >= 1 /\ [dev |-> d, n |-> 1] \notin shown
          /\ \A r \in recv : r.dev # d
      BY <1>1, <1>2 DEF EnrolledOnce
    <2>5. recv' \subseteq [name : Name, dev : Device, folder : Folder]
      BY <2>1, <2>4 DEF TypeOK
    <2>6. TypeOK'
      BY <1>1, <2>3, <2>5 DEF TypeOK
    <2>7. TokensInOrder' /\ GivenOnce'
      BY <1>1, HandlerTokens
    <2>8. EnrolledOnce'
      <3>1. \A r \in recv' : dev[r.dev].token >= 1 /\ task'[r.dev].pc # "hash"
        BY <2>1, <2>2, <2>3, <2>4, Values DEF EnrolledOnce, TypeOK
      <3> QED BY <1>1, <2>2, <2>3, <2>4, <3>1, Values DEF EnrolledOnce
    <2>9. ReceiversApart'
      BY <1>4, <2>1, <2>4 DEF ReceiversApart, NameTaken
    <2>10. FoldersAgree'
      <3>1. \A b \in Caller : task'[b].pc = "root" => task'[b] = task[b]
        BY <2>2, <2>3
      <3>2. \A b \in Caller : task[b].pc = "root" => task'[b] = task[b]
        BY <1>1, <2>3
      <3>3. HalfWritten' = HalfWritten
        BY <3>1, <3>2 DEF HalfWritten, Between
      <3>4. \A e \in Device : [dev |-> e, n |-> 1] \in shown => Own(e)' = Own(e)
        BY <2>1, <2>4 DEF Own
      <3> QED BY <1>1, <3>1, <3>2, <3>3, <3>4 DEF FoldersAgree, Between
    <2>11. ReceiversKept'
      <3>1. d \notin bereft
        BY <1>1, <1>4 DEF ReceiversKept
      <3>2. \A e \in Device \ {d} : HasReceiver(e)' <=> HasReceiver(e)
        BY <2>1 DEF HasReceiver
      <3>3. \A e \in Device : task'[e].pc = "hash" => task[e].pc = "hash"
        BY <2>2, <2>3, Values
      <3> QED BY <1>1, <2>4, <3>1, <3>2, <3>3 DEF ReceiversKept
    <2> QED BY <2>6, <2>7, <2>8, <2>9, <2>10, <2>11, Halves DEF Rows
  <1> QED BY <1>3, <1>4

LEMMA EditIInv ==
  ASSUME IInv, NEW e \in Editor, NEW d \in Device, NEW folder \in Folder, Edit(e, d, folder)
  PROVE  IInv'
  <1> USE DEF IInv
  <1> DEFINE t == [pc |-> "policy", dev |-> d, name |-> None, folder |-> folder]
  <1>1. /\ task[e].pc = "idle" /\ dev[d].there /\ task' = [task EXCEPT ![e] = t] /\ Event
        /\ UNCHANGED <<dev, recv, policy, shown, file, pc, mixed, bereft>>
    BY DEF Edit
  <1>2. t \in TaskType /\ e \in Caller /\ e \notin Device
    BY Values DEF TaskType
  <1>3. /\ task' \in [Caller -> TaskType]
        /\ task'[e] = t /\ \A b \in Caller \ {e} : task'[b] = task[b]
    BY <1>1, <1>2, HandlerStep
  <1>4. TypeOK'
    BY <1>1, <1>3, BudgetKept DEF TypeOK
  <1>5. TokensInOrder' /\ GivenOnce'
    BY <1>1, HandlerTokens
  <1>6. EnrolledOnce'
    <2>1. \A r \in recv : r.dev \in Device
      BY DEF TypeOK
    <2> QED BY <1>1, <1>2, <1>3, <2>1, Values DEF EnrolledOnce
  <1>7. ReceiversApart'
    BY <1>1 DEF ReceiversApart
  <1>8. FoldersAgree'
    <2>1. \A b \in Caller : task'[b].pc = "root" => task'[b] = task[b]
      BY <1>3
    <2>2. \A b \in Caller : task[b].pc = "root" => task'[b] = task[b]
      BY <1>1, <1>3
    <2>3. HalfWritten' = HalfWritten
      BY <2>1, <2>2 DEF HalfWritten, Between
    <2> QED BY <1>1, <2>1, <2>2, <2>3 DEF FoldersAgree, Between, Own
  <1>9. ReceiversKept'
    BY <1>1, <1>2, <1>3, Values DEF ReceiversKept, HasReceiver
  <1> QED BY <1>4, <1>5, <1>6, <1>7, <1>8, <1>9, Halves DEF Rows

LEMMA WritePolicyIInv ==
  ASSUME IInv, NEW c \in Caller, WritePolicy(c)
  PROVE  IInv'
  <1> USE DEF IInv
  <1> DEFINE t == [task[c] EXCEPT !.pc = "root"]
  <1>1. task[c].pc = "policy" /\ UNCHANGED <<dev, recv, shown, file, pc, bereft, budget>>
    BY DEF WritePolicy
  <1>2. PICK d \in Device :
          d = task[c].dev /\ dev[d].token >= 1 /\ task[c].folder \in Folder
    BY <1>1 DEF EnrolledOnce
  <1>3. CASE ~dev[d].there
    <2>1. UNCHANGED <<policy, mixed>> /\ task' = [task EXCEPT ![c] = NoTask]
      BY <1>2, <1>3 DEF WritePolicy
    <2> QED BY <1>1, <2>1, HandlerGivesUp
  <1>4. CASE dev[d].there
    <2>1. /\ policy' = [policy EXCEPT ![d] = task[c].folder]
          /\ mixed' = IF \E x \in Caller \ {c} : Between(x, d) THEN mixed \cup {d} ELSE mixed \ {d}
          /\ task' = [task EXCEPT ![c] = t]
      BY <1>2, <1>4 DEF WritePolicy
    <2>2. /\ t \in TaskType /\ t.pc = "root" /\ t.dev = d /\ t.folder = task[c].folder
      BY <1>2, Values DEF TypeOK, TaskType
    <2> HIDE DEF t
    <2>3. /\ task' \in [Caller -> TaskType]
          /\ task'[c] = t /\ \A b \in Caller \ {c} : task'[b] = task[b]
      BY <2>1, <2>2, HandlerStep
    <2>4. /\ policy' \in [Device -> TaskFolder] /\ policy'[d] = task[c].folder
          /\ \A e \in Device \ {d} : policy'[e] = policy[e]
      BY <1>2, <2>1, Values DEF TypeOK
    <2>5. mixed \ {d} \subseteq mixed' /\ mixed' \subseteq Device
      BY <1>2, <2>1 DEF TypeOK
    <2>6. TypeOK'
      BY <1>1, <2>3, <2>4, <2>5 DEF TypeOK
    <2>7. TokensInOrder' /\ GivenOnce'
      BY <1>1, HandlerTokens
    <2>8. EnrolledOnce'
      <3>1. \A r \in recv : dev[r.dev].token >= 1 /\ task'[r.dev].pc # "hash"
        BY <2>2, <2>3, Values DEF EnrolledOnce, TypeOK
      <3>2. \A e \in Device :
              task'[e].pc # "idle" => task'[e].dev = e /\ [dev |-> e, n |-> 1] \notin shown
        BY <1>1, <1>2, <2>2, <2>3, Values DEF EnrolledOnce
      <3> QED BY <1>1, <1>2, <2>2, <2>3, <3>1, <3>2, Values DEF EnrolledOnce
    <2>9. ReceiversApart'
      BY <1>1 DEF ReceiversApart
    <2>10. ASSUME NEW e \in Device \ {d}
           PROVE  /\ e \in HalfWritten' <=> e \in HalfWritten
                  /\ \A b \in Caller : Between(b, e)' => Between(b, e) /\ task'[b] = task[b]
      <3>1. \A b \in Caller : Between(b, e)' => Between(b, e) /\ task'[b] = task[b]
        BY <2>2, <2>3 DEF Between
      <3>2. \A b \in Caller : Between(b, e) => Between(b, e)'
        BY <1>1, <2>3 DEF Between
      <3> QED BY <3>1, <3>2 DEF HalfWritten
    <2>11. d \notin mixed' => \A b \in Caller : Between(b, d)' => b = c
      <3>1. d \notin mixed' => \A b \in Caller \ {c} : ~Between(b, d)
        BY <2>1
      <3>2. \A b \in Caller \ {c} : Between(b, d)' => Between(b, d)
        BY <2>3 DEF Between
      <3> QED BY <3>1, <3>2
    <2>12. d \in HalfWritten'
      BY <1>2, <2>2, <2>3 DEF HalfWritten, Between
    <2>13. FoldersAgree'
      <3> SUFFICES ASSUME NEW e \in Device, e \notin mixed', dev'[e].there
                   PROVE  /\ \A a, b \in Caller : Between(a, e)' /\ Between(b, e)' => a = b
                          /\ \A b \in Caller : Between(b, e)' => policy'[e] = task'[b].folder
                          /\ [dev |-> e, n |-> 1] \in shown' =>
                              e \in HalfWritten' \/ \A r \in Own(e)' : r.folder = policy'[e]
        BY DEF FoldersAgree
      <3>1. CASE e = d
        BY <2>2, <2>3, <2>4, <2>11, <2>12, <3>1
      <3>2. CASE e # d
        <4>1. e \notin mixed /\ dev[e].there
          BY <1>1, <2>5, <3>2
        <4>2. /\ \A a, b \in Caller : Between(a, e) /\ Between(b, e) => a = b
              /\ \A b \in Caller : Between(b, e) => policy[e] = task[b].folder
              /\ [dev |-> e, n |-> 1] \in shown =>
                  e \in HalfWritten \/ \A r \in Own(e) : r.folder = policy[e]
          BY <4>1 DEF FoldersAgree
        <4>3. policy'[e] = policy[e] /\ shown' = shown /\ Own(e)' = Own(e)
          BY <1>1, <2>4, <3>2 DEF Own
        <4> QED BY <2>10, <3>2, <4>2, <4>3
      <3> QED BY <3>1, <3>2
    <2>14. ReceiversKept'
      <3>1. \A e \in Device : task'[e].pc = "hash" => task[e].pc = "hash"
        BY <2>2, <2>3, Values
      <3> QED BY <1>1, <3>1 DEF ReceiversKept, HasReceiver
    <2> QED BY <2>6, <2>7, <2>8, <2>9, <2>13, <2>14, Halves DEF Rows
  <1> QED BY <1>3, <1>4

\* updateWorkstationRoot changes nothing but folders.
LEMMA MovedFields ==
  ASSUME TypeOK, NEW c \in Caller, NEW r \in recv, task[c].folder \in Folder
  PROVE  /\ Moved(r, c) \in [name : Name, dev : Device, folder : Folder]
         /\ Moved(r, c).name = r.name /\ Moved(r, c).dev = r.dev
         /\ r.dev = task[c].dev => Moved(r, c).folder = task[c].folder
         /\ r.dev # task[c].dev => Moved(r, c) = r
  BY DEF TypeOK, Moved

LEMMA WriteRootIInv ==
  ASSUME IInv, NEW c \in Caller, WriteRoot(c)
  PROVE  IInv'
  <1> USE DEF IInv
  <1> DEFINE cmd == [dev |-> c, n |-> 1]
  <1>1. /\ task[c].pc = "root" /\ task' = [task EXCEPT ![c] = NoTask]
        /\ recv' = {Moved(r, c) : r \in recv}
        /\ shown' = IF c \in Device /\ HasReceiver(c) THEN shown \cup {cmd} ELSE shown
        /\ UNCHANGED <<dev, policy, file, pc, mixed, bereft, budget>>
    BY DEF WriteRoot
  <1>2. PICK d \in Device :
          /\ d = task[c].dev /\ dev[d].token >= 1
          /\ task[c].folder \in Folder /\ (c \in Device => d = c)
    BY <1>1 DEF EnrolledOnce
  <1>3. /\ task' \in [Caller -> TaskType]
        /\ task'[c].pc = "idle" /\ \A b \in Caller \ {c} : task'[b] = task[b]
    BY <1>1, HandlerStep, NoTaskType
  <1>4. /\ \A r \in recv' : \E o \in recv : r = Moved(o, c)
        /\ \A o \in recv : Moved(o, c) \in recv'
    BY <1>1
  <1>5. shown' \in Tokens /\ \A t \in shown' : t \in shown \/ (t = cmd /\ c = d)
    <2>1. c = d => cmd \in Token
      BY <1>2, TokenOf, Values
    <2> QED BY <1>1, <1>2, <2>1 DEF TypeOK, Tokens
  <1>6. TypeOK'
    <2>1. recv' \subseteq [name : Name, dev : Device, folder : Folder]
      BY <1>2, <1>4, MovedFields
    <2> QED BY <1>1, <1>3, <1>5, <2>1 DEF TypeOK
  <1>7. TokensInOrder' /\ GivenOnce'
    <2>1. \A t \in shown' : t \in shown \/ t.n <= dev'[t.dev].token
      BY <1>1, <1>2, <1>5, DevTypes DEF TypeOK
    <2>2. \A e \in Device :
            dev'[e].token >= dev[e].token /\ (dev'[e].seen => dev[e].seen)
      BY <1>1, DevTypes DEF TypeOK
    <2> QED BY <1>1, <1>5, <1>6, <2>1, <2>2, TokensOfServer DEF TypeOK
  <1>8. EnrolledOnce'
    <2>1. \A r \in recv' : dev'[r.dev].token >= 1 /\ task'[r.dev].pc # "hash"
      <3> SUFFICES ASSUME NEW r \in recv'
                   PROVE  dev'[r.dev].token >= 1 /\ task'[r.dev].pc # "hash"
        OBVIOUS
      <3>1. PICK o \in recv : r = Moved(o, c)
        BY <1>4
      <3>2. r.dev = o.dev /\ o.dev \in Device
        BY <1>2, <3>1, MovedFields DEF TypeOK
      <3> QED BY <1>1, <1>3, <3>2, Values DEF EnrolledOnce
    <2>2. \A e \in Device : task'[e].pc # "idle" =>
            task'[e].dev = e /\ [dev |-> e, n |-> 1] \notin shown'
      BY <1>3, <1>5, Values DEF EnrolledOnce
    <2>3. /\ \A e \in Device : dev'[e].there => dev'[e].token >= 1
          /\ \A e \in Device : task'[e].pc = "hash" => task'[e].name \in Name
          /\ \A e \in Editor : task'[e].pc # "hash"
      BY <1>1, <1>3, Values DEF EnrolledOnce
    <2>4. \A b \in Caller :
            task'[b].pc # "idle" =>
                /\ task'[b].dev \in Device /\ dev'[task'[b].dev].token >= 1
                /\ task'[b].folder \in Folder
      BY <1>1, <1>3 DEF EnrolledOnce
    <2> QED BY <2>1, <2>2, <2>3, <2>4 DEF EnrolledOnce
  <1>9. ReceiversApart'
    <2> SUFFICES ASSUME NEW r \in recv', NEW x \in recv', r.name = x.name \/ r.dev = x.dev
                 PROVE  r = x
      BY DEF ReceiversApart
    <2>1. PICK o \in recv : r = Moved(o, c)
      BY <1>4
    <2>2. PICK p \in recv : x = Moved(p, c)
      BY <1>4
    <2>3. o.name = p.name \/ o.dev = p.dev
      BY <1>2, <2>1, <2>2, MovedFields
    <2> QED BY <2>1, <2>2, <2>3 DEF ReceiversApart
  <1>10. \A e \in Device : HasReceiver(e)' <=> HasReceiver(e)
    BY <1>2, <1>4, MovedFields DEF HasReceiver
  <1>11. FoldersAgree'
    <2> SUFFICES ASSUME NEW e \in Device, e \notin mixed', dev'[e].there
                 PROVE  /\ \A a, b \in Caller : Between(a, e)' /\ Between(b, e)' => a = b
                        /\ \A b \in Caller : Between(b, e)' => policy'[e] = task'[b].folder
                        /\ [dev |-> e, n |-> 1] \in shown' =>
                            e \in HalfWritten' \/ \A r \in Own(e)' : r.folder = policy'[e]
      BY DEF FoldersAgree
    <2>1. /\ \A a, b \in Caller : Between(a, e) /\ Between(b, e) => a = b
          /\ \A b \in Caller : Between(b, e) => policy[e] = task[b].folder
          /\ [dev |-> e, n |-> 1] \in shown =>
              e \in HalfWritten \/ \A r \in Own(e) : r.folder = policy[e]
      BY <1>1 DEF FoldersAgree
    <2>2. \A b \in Caller : Between(b, e)' => Between(b, e) /\ task'[b] = task[b]
      BY <1>3 DEF Between
    <2>3. /\ \A a, b \in Caller : Between(a, e)' /\ Between(b, e)' => a = b
          /\ \A b \in Caller : Between(b, e)' => policy'[e] = task'[b].folder
      <3>1. policy' = policy
        BY <1>1
      <3> HIDE <1>1
      <3> QED BY <2>1, <2>2, <3>1
    <2>4. CASE e = d
      <3>1. policy[d] = task[c].folder
        BY <1>1, <1>2, <2>1, <2>4 DEF Between
      <3>2. \A r \in Own(d)' : r.folder = policy'[d]
        BY <1>1, <1>2, <1>4, <3>1, MovedFields DEF Own
      <3> QED BY <2>3, <2>4, <3>2
    <2>5. CASE e # d
      <3>1. [dev |-> e, n |-> 1] \in shown' => [dev |-> e, n |-> 1] \in shown
        BY <1>5, <2>5
      <3>2. e \in HalfWritten => e \in HalfWritten'
        BY <1>2, <1>3, <2>5 DEF HalfWritten, Between
      <3>3. Own(e)' \subseteq Own(e)
        BY <1>2, <1>4, <2>5, MovedFields DEF Own
      <3>4. policy' = policy
        BY <1>1
      <3> QED BY <2>1, <2>3, <3>1, <3>2, <3>3, <3>4
    <2> QED BY <2>4, <2>5
  <1>12. ReceiversKept'
    <2>1. \A e \in Device : [dev |-> e, n |-> 1] \in shown' =>
            [dev |-> e, n |-> 1] \in shown \/ HasReceiver(e)
      BY <1>1, <1>2
    <2>2. \A e \in Device : task'[e].pc = "hash" => task[e].pc = "hash"
      BY <1>3, Values
    <2> QED BY <1>1, <1>10, <2>1, <2>2 DEF ReceiversKept
  <1> QED BY <1>6, <1>7, <1>8, <1>9, <1>11, <1>12, Halves DEF Rows

-----------------------------------------------------------------------------
(* The operator, and the 15 minutes of a credential.                       *)

LEMMA DeviceStep ==
  ASSUME TypeOK, NEW d \in Device, NEW new \in DevType, dev' = [dev EXCEPT ![d] = new]
  PROVE  /\ dev' \in [Device -> DevType]
         /\ dev'[d] = new /\ \A e \in Device \ {d} : dev'[e] = dev[e]
  BY DEF TypeOK

\* What is done to a device that stays where it is.
LEMMA DeviceIInv ==
  ASSUME IInv, NEW d \in Device, NEW new \in DevType, dev' = [dev EXCEPT ![d] = new],
         new.there = dev[d].there, new.seen = dev[d].seen, new.token >= dev[d].token,
         UNCHANGED <<recv, policy, task, file, pc, mixed, bereft>>,
         Event \/ UNCHANGED budget,
         shown' = shown \/ (shown' = shown \cup {[dev |-> d, n |-> new.token]} /\ new.token >= 2)
  PROVE  IInv'
  <1> USE DEF IInv
  <1>1. /\ dev' \in [Device -> DevType]
        /\ dev'[d] = new /\ \A e \in Device \ {d} : dev'[e] = dev[e]
    BY DeviceStep
  <1>2. /\ new.token \in Nat /\ new.token \in Count
        /\ \A e \in Device : dev[e].token \in Nat
    BY DevTypes DEF TypeOK
  <1>3. shown' \in Tokens
    BY <1>2, TokenOf DEF TypeOK, Tokens
  <1>4. TypeOK'
    BY <1>1, <1>3, BudgetKept DEF TypeOK
  <1>5. \A e \in Device : /\ dev'[e].token >= dev[e].token
                          /\ dev'[e].seen => dev[e].seen
                          /\ dev'[e].there = dev[e].there
    BY <1>1, <1>2
  <1>6. \A t \in shown' : t \in shown \/ t.n <= dev'[t.dev].token
    BY <1>1, <1>2
  <1>7. TokensInOrder' /\ GivenOnce'
    BY <1>1, <1>3, <1>5, <1>6, TokensOfServer
  <1>8. \A e \in Device : [dev |-> e, n |-> 1] \in shown' <=> [dev |-> e, n |-> 1] \in shown
    BY <1>2
  <1>9. Rows'
    BY <1>1, <1>5, <1>8, RowsUntouched
  <1> QED BY <1>4, <1>7, <1>9, Halves

LEMMA RotateIInv ==
  ASSUME IInv, NEW d \in Device, Rotate(d)
  PROVE  IInv'
  <1> DEFINE new == [dev[d] EXCEPT !.token = @ + 1]
  <1>1. /\ dev[d].there /\ dev[d].token < MaxTokens /\ dev' = [dev EXCEPT ![d] = new]
        /\ shown' = shown \cup {[dev |-> d, n |-> dev[d].token + 1]}
        /\ Event /\ UNCHANGED <<recv, policy, task, file, pc, mixed, bereft>>
    BY DEF Rotate
  <1>2. dev[d] \in DevType /\ dev[d].token \in Nat /\ dev[d].token >= 1
    BY <1>1, DevTypes DEF IInv, TypeOK, EnrolledOnce
  <1>3. dev[d].token + 1 \in Count
    BY <1>1, <1>2, BoundAssumption DEF Count
  <1>4. /\ new \in DevType /\ new.there = dev[d].there /\ new.seen = dev[d].seen
        /\ new.token = dev[d].token + 1
    BY <1>2, <1>3 DEF DevType
  <1> HIDE DEF new
  <1>5. new.token >= dev[d].token /\ new.token >= 2
    BY <1>2, <1>4
  <1>6. shown' = shown \cup {[dev |-> d, n |-> new.token]}
    BY <1>1, <1>4
  <1> QED BY <1>1, <1>4, <1>5, <1>6, DeviceIInv

LEMMA SetEnabledIInv ==
  ASSUME IInv, NEW d \in Device, SetEnabled(d)
  PROVE  IInv'
  <1> DEFINE new == [dev[d] EXCEPT !.enabled = ~@]
  <1>1. dev' = [dev EXCEPT ![d] = new] /\ Event
        /\ UNCHANGED <<recv, policy, task, shown, file, pc, mixed, bereft>>
    BY DEF SetEnabled
  <1>2. dev[d] \in DevType /\ dev[d].token \in Nat
    BY DevTypes DEF IInv, TypeOK
  <1>3. /\ new \in DevType /\ new.there = dev[d].there /\ new.seen = dev[d].seen
        /\ new.token = dev[d].token
    BY <1>2 DEF DevType
  <1> HIDE DEF new
  <1>4. new.token >= dev[d].token
    BY <1>2, <1>3
  <1> QED BY <1>1, <1>3, <1>4, DeviceIInv

LEMMA ExpireIInv ==
  ASSUME IInv, NEW d \in Device, Expire(d)
  PROVE  IInv'
  <1> DEFINE new == [dev[d] EXCEPT !.old = TRUE]
  <1>1. dev' = [dev EXCEPT ![d] = new]
        /\ UNCHANGED <<recv, policy, task, shown, file, pc, mixed, bereft, budget>>
    BY DEF Expire
  <1>2. dev[d] \in DevType /\ dev[d].token \in Nat
    BY DevTypes DEF IInv, TypeOK
  <1>3. /\ new \in DevType /\ new.there = dev[d].there /\ new.seen = dev[d].seen
        /\ new.token = dev[d].token
    BY <1>2 DEF DevType
  <1> HIDE DEF new
  <1>4. new.token >= dev[d].token
    BY <1>2, <1>3
  <1> QED BY <1>1, <1>3, <1>4, DeviceIInv

\* Receivers that go with a device leave the others as they were.
LEMMA Removed ==
  ASSUME NEW d \in Device, recv' = {r \in recv : r.dev # d}, NEW e \in Device \ {d}
  PROVE  /\ HasReceiver(e)' <=> HasReceiver(e)
         /\ Own(e)' = Own(e)
  BY DEF HasReceiver, Own

LEMMA RemoveIInv ==
  ASSUME IInv, NEW d \in Device, Remove(d)
  PROVE  IInv'
  <1> USE DEF IInv
  <1> DEFINE new == [dev[d] EXCEPT !.there = FALSE]
  <1>1. /\ dev' = [dev EXCEPT ![d] = new]
        /\ recv' = {r \in recv : r.dev # d} /\ policy' = [policy EXCEPT ![d] = None]
        /\ Event /\ UNCHANGED <<task, shown, file, pc, mixed, bereft>>
    BY DEF Remove
  <1>2. dev[d] \in DevType /\ \A e \in Device : dev[e].token \in Nat
    BY DevTypes DEF TypeOK
  <1>3. /\ new \in DevType /\ ~new.there /\ new.seen = dev[d].seen
        /\ new.token = dev[d].token
    BY <1>2 DEF DevType
  <1> HIDE DEF new
  <1>4. /\ dev' \in [Device -> DevType]
        /\ dev'[d] = new /\ \A e \in Device \ {d} : dev'[e] = dev[e]
    BY <1>1, <1>3, DeviceStep
  <1>5. /\ policy' \in [Device -> TaskFolder]
        /\ \A e \in Device \ {d} : policy'[e] = policy[e]
    BY <1>1, Values DEF TypeOK
  <1>6. TypeOK'
    BY <1>1, <1>4, <1>5, BudgetKept DEF TypeOK
  <1>7. \A e \in Device : dev'[e].token = dev[e].token /\ dev'[e].seen = dev[e].seen
    BY <1>3, <1>4
  <1>8. TokensInOrder' /\ GivenOnce'
    <2>1. \A e \in Device : dev'[e].token >= dev[e].token /\ (dev'[e].seen => dev[e].seen)
      BY <1>2, <1>7
    <2> QED BY <1>1, <1>4, <1>6, <2>1, TokensOfServer DEF TypeOK
  <1>9. EnrolledOnce'
    <2>1. \A e \in Device : dev'[e].there => dev[e].there
      BY <1>3, <1>4
    <2>2. \A r \in recv' : r \in recv /\ r.dev \in Device
      BY <1>1 DEF TypeOK
    <2> QED BY <1>1, <1>7, <2>1, <2>2 DEF EnrolledOnce
  <1>10. ReceiversApart'
    BY <1>1 DEF ReceiversApart
  <1>11. FoldersAgree'
    <2>1. \A e \in Device : dev'[e].there => e # d /\ dev[e].there /\ policy'[e] = policy[e]
      BY <1>3, <1>4, <1>5
    <2>2. HalfWritten' = HalfWritten
      BY <1>1 DEF HalfWritten, Between
    <2>3. \A e \in Device \ {d} : Own(e)' = Own(e)
      BY <1>1, Removed
    <2> QED BY <1>1, <2>1, <2>2, <2>3 DEF FoldersAgree, Between
  <1>12. ReceiversKept'
    <2>1. \A e \in Device : dev'[e].there => e # d /\ dev[e].there
      BY <1>3, <1>4
    <2>2. \A e \in Device \ {d} : HasReceiver(e)' <=> HasReceiver(e)
      BY <1>1, Removed
    <2>3. \A e \in bereft : dev'[e].token >= 1
      BY <1>7 DEF TypeOK, ReceiversKept
    <2> QED BY <1>1, <2>1, <2>2, <2>3 DEF ReceiversKept
  <1> QED BY <1>6, <1>8, <1>9, <1>10, <1>11, <1>12, Halves DEF Rows

LEMMA RemoveReceiverIInv ==
  ASSUME IInv, NEW d \in Device, RemoveReceiver(d)
  PROVE  IInv'
  <1> USE DEF IInv
  <1>1. /\ HasReceiver(d) /\ recv' = {r \in recv : r.dev # d} /\ bereft' = bereft \cup {d}
        /\ Event /\ UNCHANGED <<dev, policy, task, shown, file, pc, mixed>>
    BY DEF RemoveReceiver
  <1>2. TypeOK'
    BY <1>1, BudgetKept DEF TypeOK
  <1>3. TokensInOrder' /\ GivenOnce'
    BY <1>1, HandlerTokens
  <1>4. EnrolledOnce' /\ ReceiversApart'
    BY <1>1 DEF EnrolledOnce, ReceiversApart
  <1>5. \A e \in Device : Own(e)' \subseteq Own(e)
    BY <1>1 DEF Own
  <1>6. FoldersAgree'
    <2>1. HalfWritten' = HalfWritten
      BY <1>1 DEF HalfWritten, Between
    <2> QED BY <1>1, <1>5, <2>1 DEF FoldersAgree, Between
  <1>7. ReceiversKept'
    <2>1. ~HasReceiver(d)' /\ task[d].pc # "hash"
      BY <1>1 DEF HasReceiver, EnrolledOnce
    <2>2. \A e \in Device \ {d} : HasReceiver(e)' <=> HasReceiver(e)
      BY <1>1, Removed
    <2>3. dev[d].token >= 1
      BY <1>1 DEF HasReceiver, EnrolledOnce
    <2> QED BY <1>1, <2>1, <2>2, <2>3 DEF ReceiversKept
  <1> QED BY <1>2, <1>3, <1>4, <1>6, <1>7, Halves DEF Rows

-----------------------------------------------------------------------------
(* A crash ends all handlers; the devices they were between the rows of are *)
(* mixed, and a removal it cut leaves its device without a receiver.        *)

LEMMA CutIInv ==
  ASSUME IInv, NEW gone \in SUBSET Device,
         \A d \in gone : HasReceiver(d), recv' = {r \in recv : r.dev \notin gone},
         task' = [c \in Caller |-> NoTask],
         mixed' = mixed \cup HalfWritten, bereft' = bereft \cup gone,
         Event, UNCHANGED <<dev, policy, shown, file, pc>>
  PROVE  IInv'
  <1> USE DEF IInv
  <1>1. task' \in [Caller -> TaskType] /\ \A c \in Caller : task'[c].pc = "idle"
    BY NoTaskType
  <1>2. TypeOK'
    BY <1>1, BudgetKept DEF TypeOK, HalfWritten
  <1>3. TokensInOrder' /\ GivenOnce'
    BY HandlerTokens
  <1>4. EnrolledOnce'
    <2>1. \A r \in recv' : r \in recv /\ r.dev \in Device
      BY DEF TypeOK
    <2> QED BY <1>1, <2>1, Values DEF EnrolledOnce
  <1>5. ReceiversApart'
    BY DEF ReceiversApart
  <1>6. FoldersAgree'
    <2>1. \A c \in Caller, e \in Device : ~Between(c, e)'
      BY <1>1 DEF Between
    <2>2. \A e \in Device : e \notin mixed' => e \notin mixed /\ e \notin HalfWritten
      OBVIOUS
    <2>3. \A e \in Device : Own(e)' \subseteq Own(e)
      BY DEF Own
    <2> QED BY <2>1, <2>2, <2>3 DEF FoldersAgree
  <1>7. ReceiversKept'
    <2>1. \A e \in gone : ~HasReceiver(e)'
      BY DEF HasReceiver
    <2>2. \A e \in Device \ gone : HasReceiver(e)' <=> HasReceiver(e)
      BY DEF HasReceiver
    <2>3. \A e \in Device : task'[e].pc # "hash"
      BY <1>1, Values
    <2>4. \A e \in gone : dev[e].token >= 1
      BY DEF HasReceiver, EnrolledOnce
    <2> QED BY <2>1, <2>2, <2>3, <2>4 DEF ReceiversKept
  <1> QED BY <1>2, <1>3, <1>4, <1>5, <1>6, <1>7, Halves DEF Rows

LEMMA CrashIInv ==
  ASSUME IInv, Crash
  PROVE  IInv'
  <1> DEFINE gone == {}
  <1>1. /\ recv' = {r \in recv : r.dev \notin gone} /\ mixed' = mixed \cup HalfWritten
        /\ bereft' = bereft \cup gone /\ \A d \in gone : HasReceiver(d)
        /\ task' = [c \in Caller |-> NoTask] /\ Event
        /\ UNCHANGED <<dev, policy, shown, file, pc>> /\ gone \in SUBSET Device
    BY DEF Crash
  <1> HIDE DEF gone
  <1> QED BY <1>1, CutIInv

LEMMA RemoveIsCutIInv ==
  ASSUME IInv, NEW d \in Device, RemoveIsCut(d)
  PROVE  IInv'
  <1> DEFINE gone == {d}
  <1>1. /\ recv' = {r \in recv : r.dev \notin gone} /\ mixed' = mixed \cup HalfWritten
        /\ bereft' = bereft \cup gone /\ \A e \in gone : HasReceiver(e)
        /\ task' = [c \in Caller |-> NoTask] /\ Event
        /\ UNCHANGED <<dev, policy, shown, file, pc>> /\ gone \in SUBSET Device
    BY DEF RemoveIsCut
  <1> HIDE DEF gone
  <1> QED BY <1>1, CutIInv

-----------------------------------------------------------------------------
(* The machines.                                                           *)

\* A step of a machine that gets no token from the server but those shown.
LEMMA MachineIInv ==
  ASSUME IInv, NEW m \in Machine, NEW call \in CallType, NEW f \in Tokens,
         file' = [file EXCEPT ![m] = f], pc' = [pc EXCEPT ![m] = call],
         f \cup call.held \subseteq file[m] \cup pc[m].held \cup {t \in shown : t.n = 1},
         call.cmd \subseteq pc[m].cmd \cup file[m] \cup shown,
         UNCHANGED <<dev, recv, policy, task, shown, mixed, bereft>>,
         Event \/ UNCHANGED budget
  PROVE  IInv'
  <1> USE DEF IInv
  <1>1. /\ file' \in [Machine -> Tokens] /\ file'[m] = f
        /\ pc' \in [Machine -> CallType] /\ pc'[m] = call
        /\ \A q \in Machine \ {m} : file'[q] = file[q] /\ pc'[q] = pc[q]
    BY DEF TypeOK
  <1>2. TypeOK'
    BY <1>1, BudgetKept DEF TypeOK
  <1>3. \A q \in Machine : \A t \in file'[q] \cup pc'[q].cmd \cup pc'[q].held :
          t \in file[q] \cup pc[q].cmd \cup pc[q].held \cup shown
    BY <1>1
  <1>4. TokensInOrder'
    BY <1>3 DEF TokensInOrder
  <1>5. \A q \in Machine : \A t \in file'[q] \cup pc'[q].held :
          t \in file[q] \cup pc[q].held \/ t.n = 1
    BY <1>1
  <1>6. GivenOnce'
    BY <1>5, TokenType DEF GivenOnce
  <1>7. Rows'
    BY RowsUntouched, DevTypes DEF TypeOK
  <1> QED BY <1>2, <1>4, <1>6, <1>7, Halves

LEMMA Calls ==
  ASSUME TypeOK, NEW m \in Machine
  PROVE  /\ file[m] \in Tokens /\ pc[m] \in CallType
         /\ pc[m].cmd \in Tokens /\ pc[m].held \in Tokens /\ pc[m].kind \in Kind
         /\ file' = file => file' = [file EXCEPT ![m] = file[m]]
  BY DEF TypeOK, CallType

LEMMA NewCall ==
  ASSUME NEW cmd \in Tokens, NEW held \in Tokens
  PROVE  /\ [NoCall EXCEPT !.pc = "report", !.cmd = cmd] \in CallType
         /\ [NoCall EXCEPT !.pc = "report", !.cmd = cmd].cmd = cmd
         /\ [NoCall EXCEPT !.pc = "report", !.cmd = cmd].held = {}
         /\ [NoCall EXCEPT !.pc = "report", !.kind = "agent", !.cmd = cmd] \in CallType
         /\ [NoCall EXCEPT !.pc = "report", !.kind = "agent", !.cmd = cmd].cmd = cmd
         /\ [NoCall EXCEPT !.pc = "report", !.kind = "agent", !.cmd = cmd].held = {}
         /\ [NoCall EXCEPT !.pc = "profile", !.cmd = cmd, !.held = held] \in CallType
         /\ [NoCall EXCEPT !.pc = "profile", !.cmd = cmd, !.held = held].cmd = cmd
         /\ [NoCall EXCEPT !.pc = "profile", !.cmd = cmd, !.held = held].held = held
  BY Values DEF NoCall, CallType

\* The machine ends its call, with or without a new file.
LEMMA EndsIInv ==
  ASSUME IInv, NEW m \in Machine, NEW f \in Tokens,
         file' = [file EXCEPT ![m] = f], pc' = [pc EXCEPT ![m] = NoCall],
         f \subseteq file[m] \cup pc[m].held,
         UNCHANGED <<dev, recv, policy, task, shown, mixed, bereft>>,
         Event \/ UNCHANGED budget
  PROVE  IInv'
  <1>1. /\ f \cup NoCall.held \subseteq file[m] \cup pc[m].held \cup {t \in shown : t.n = 1}
        /\ NoCall.cmd \subseteq pc[m].cmd \cup file[m] \cup shown
    BY NoCallType
  <1> QED BY <1>1, NoCallType, MachineIInv

LEMMA FallBackIInv ==
  ASSUME IInv, NEW m \in Machine, file' = file, pc' = FallBack(m),
         UNCHANGED <<dev, recv, policy, task, shown, mixed, bereft>>,
         Event \/ UNCHANGED budget
  PROVE  IInv'
  <1> DEFINE call == IF pc[m].cmd = {} THEN NoCall
                     ELSE [NoCall EXCEPT !.pc = "report", !.cmd = pc[m].cmd]
  <1>1. pc' = [pc EXCEPT ![m] = call]
    BY DEF FallBack
  <1>2. file[m] \in Tokens /\ pc[m].cmd \in Tokens /\ file' = [file EXCEPT ![m] = file[m]]
    BY Calls DEF IInv
  <1>3. call \in CallType /\ call.held = {} /\ call.cmd \subseteq pc[m].cmd
    BY <1>2, NewCall, NoCallType
  <1> HIDE DEF call
  <1> QED BY <1>1, <1>2, <1>3, MachineIInv

LEMMA InstallIInv ==
  ASSUME IInv, NEW m \in Machine, NEW cmd \in {{}} \cup {{t} : t \in shown}, Install(m, cmd)
  PROVE  IInv'
  <1> DEFINE call == IF file[m] = {}
                     THEN [NoCall EXCEPT !.pc = "report", !.cmd = cmd]
                     ELSE [NoCall EXCEPT !.pc = "profile", !.cmd = cmd, !.held = file[m]]
  <1>1. pc' = [pc EXCEPT ![m] = call] /\ UNCHANGED <<dev, recv, policy, task, shown, file, mixed, bereft, budget>>
    BY DEF Install
  <1>2. file[m] \in Tokens /\ file' = [file EXCEPT ![m] = file[m]]
    BY <1>1, Calls DEF IInv
  <1>3. cmd \in Tokens /\ cmd \subseteq shown
    BY DEF IInv, TypeOK, Tokens
  <1>4. call \in CallType /\ call.held \subseteq file[m] /\ call.cmd = cmd
    <2>1. CASE file[m] = {}
      BY <1>3, <2>1, NewCall
    <2>2. CASE file[m] # {}
      <3> DEFINE asks == [NoCall EXCEPT !.pc = "profile", !.cmd = cmd, !.held = file[m]]
      <3>1. asks \in CallType /\ asks.cmd = cmd /\ asks.held = file[m]
        BY <1>2, <1>3, NewCall, Zenon
      <3>2. call = asks
        BY <2>2
      <3> QED BY <3>1, <3>2
    <2> QED BY <2>1, <2>2
  <1> HIDE DEF call
  <1> QED BY <1>1, <1>2, <1>3, <1>4, MachineIInv

LEMMA ConfigureIInv ==
  ASSUME IInv, NEW m \in Machine, NEW t \in shown, Configure(m, t)
  PROVE  IInv'
  <1>1. /\ t.n = 1 /\ file' = [file EXCEPT ![m] = {t}]
        /\ UNCHANGED <<dev, recv, policy, task, shown, pc, mixed, bereft>> /\ Event
    BY DEF Configure
  <1>2. {t} \in Tokens /\ pc[m] \in CallType /\ pc' = [pc EXCEPT ![m] = pc[m]]
    BY <1>1 DEF IInv, TypeOK, Tokens
  <1> QED BY <1>1, <1>2, MachineIInv

LEMMA AgentReportIInv ==
  ASSUME IInv, NEW m \in Machine, AgentReport(m)
  PROVE  IInv'
  <1> DEFINE call == [NoCall EXCEPT !.pc = "report", !.kind = "agent", !.cmd = file[m]]
  <1>1. pc' = [pc EXCEPT ![m] = call] /\ UNCHANGED <<dev, recv, policy, task, shown, file, mixed, bereft, budget>>
    BY DEF AgentReport
  <1>2. file[m] \in Tokens /\ file' = [file EXCEPT ![m] = file[m]]
    BY <1>1, Calls DEF IInv
  <1>3. call \in CallType /\ call.held = {} /\ call.cmd = file[m]
    BY <1>2, NewCall
  <1> HIDE DEF call
  <1> QED BY <1>1, <1>2, <1>3, MachineIInv

LEMMA AnswerIInv ==
  ASSUME IInv, NEW m \in Machine, Answer(m)
  PROVE  IInv'
  <1>1. UNCHANGED <<dev, recv, policy, task, shown, mixed, bereft, budget>>
    BY DEF Answer
  <1>2. file[m] \in Tokens /\ pc[m] \in CallType /\ pc[m].held \in Tokens
    BY Calls DEF IInv
  <1>3. CASE pc[m].kind = "agent"
    <2>1. file' = [file EXCEPT ![m] = pc[m].held] /\ pc' = [pc EXCEPT ![m] = NoCall]
      BY <1>3 DEF Answer
    <2> QED BY <1>1, <1>2, <2>1, EndsIInv
  <1>4. CASE pc[m].kind # "agent"
    <2> DEFINE call == [pc[m] EXCEPT !.pc = "profile", !.cmd = {}]
    <2>1. file' = file /\ pc' = [pc EXCEPT ![m] = call]
      BY <1>4 DEF Answer, IInv, TypeOK
    <2>2. call \in CallType /\ call.held = pc[m].held /\ call.cmd = {}
      BY <1>2, Values DEF CallType
    <2>3. file' = [file EXCEPT ![m] = file[m]]
      BY <2>1, Calls DEF IInv
    <2> HIDE DEF call
    <2> QED BY <1>1, <1>2, <2>1, <2>2, <2>3, MachineIInv
  <1> QED BY <1>3, <1>4

LEMMA ProfileIInv ==
  ASSUME IInv, NEW m \in Machine, Profile(m)
  PROVE  IInv'
  <1>1. UNCHANGED <<dev, recv, policy, task, shown, mixed, bereft, budget>>
    BY DEF Profile
  <1>2. CASE \E t \in pc[m].held : HasProfile(t)
    <2>1. file' = [file EXCEPT ![m] = pc[m].held] /\ pc' = [pc EXCEPT ![m] = NoCall]
      BY <1>2 DEF Profile
    <2>2. pc[m].held \in Tokens
      BY Calls DEF IInv
    <2> QED BY <1>1, <2>1, <2>2, EndsIInv
  <1>3. CASE ~\E t \in pc[m].held : HasProfile(t)
    <2>1. file' = file /\ pc' = FallBack(m)
      BY <1>3 DEF Profile
    <2> QED BY <1>1, <2>1, FallBackIInv
  <1> QED BY <1>2, <1>3

LEMMA CallFailsIInv ==
  ASSUME IInv, NEW m \in Machine, CallFails(m)
  PROVE  IInv'
  <1>1. UNCHANGED <<dev, recv, policy, task, shown, file, mixed, bereft>> /\ Event
    BY DEF CallFails
  <1>2. file[m] \in Tokens /\ file' = [file EXCEPT ![m] = file[m]]
    BY <1>1, Calls DEF IInv
  <1>3. pc' = FallBack(m) \/ pc' = [pc EXCEPT ![m] = NoCall]
    BY DEF CallFails
  <1> QED BY <1>1, <1>2, <1>3, FallBackIInv, EndsIInv

LEMMA SaveIsCutIInv ==
  ASSUME IInv, NEW m \in Machine, SaveIsCut(m)
  PROVE  IInv'
  <1>1. /\ UNCHANGED <<dev, recv, policy, task, shown, mixed, bereft>> /\ Event
        /\ file' = [file EXCEPT ![m] = {}] /\ pc' = [pc EXCEPT ![m] = NoCall]
    BY DEF SaveIsCut
  <1> QED BY <1>1, Values, EndsIInv

\* The one step that gives a token to a machine gives one that nobody had.
LEMMA ReportIInv ==
  ASSUME IInv, NEW m \in Machine, Report(m)
  PROVE  IInv'
  <1> USE DEF IInv
  <1>1. UNCHANGED <<recv, policy, task, shown, file, mixed, bereft, budget>>
    BY DEF Report
  <1>2. file[m] \in Tokens /\ file' = [file EXCEPT ![m] = file[m]]
    BY <1>1, Calls
  <1>3. PICK t \in pc[m].cmd :
          IF Bootstraps(t)
          THEN /\ dev' = [dev EXCEPT ![t.dev].seen = TRUE, ![t.dev].token = Renewed(t.dev)]
               /\ pc' = [pc EXCEPT ![m].pc = "answer",
                                   ![m].held = {[dev |-> t.dev, n |-> Renewed(t.dev)]}]
          ELSE dev' = dev /\ pc' = [pc EXCEPT ![m] = NoCall]
    BY DEF Report
  <1>4. CASE ~Bootstraps(t)
    <2>1. dev' = dev /\ pc' = [pc EXCEPT ![m] = NoCall]
      BY <1>3, <1>4
    <2> QED BY <1>1, <1>2, <2>1, EndsIInv
  <1>5. CASE Bootstraps(t)
    <2> DEFINE d    == t.dev
               new  == [dev[d] EXCEPT !.seen = TRUE, !.token = dev[d].token + 1]
               got  == [dev |-> d, n |-> dev[d].token + 1]
               call == [pc[m] EXCEPT !.pc = "answer", !.held = {got}]
    <2>1. t \in Token
      BY Calls DEF Tokens
    <2>2. d \in Device /\ dev[d] \in DevType /\ dev[d].token \in Nat
      BY <2>1, TokenType, DevTypes DEF TypeOK
    <2>3. dev[d].there /\ dev[d].token < MaxTokens /\ dev[d].token >= 1
      BY <1>5, <2>2 DEF Bootstraps, NeedsBootstrap, IsCurrent, EnrolledOnce
    <2>4. dev[d].token + 1 \in Count /\ got \in Token
      <3>1. dev[d].token + 1 \in Count
        BY <2>2, <2>3, BoundAssumption DEF Count
      <3> QED BY <2>2, <3>1, TokenOf
    <2>5. dev' = [dev EXCEPT ![d] = new] /\ pc' = [pc EXCEPT ![m] = call]
      BY <1>3, <1>5, <2>2 DEF Renewed, TypeOK
    <2>6. new \in DevType /\ new.there = dev[d].there /\ new.token = dev[d].token + 1
      BY <2>2, <2>4 DEF DevType
    <2>7. call \in CallType /\ call.held = {got} /\ call.cmd = pc[m].cmd
      BY <2>4, Calls, Values DEF CallType, Tokens
    <2> HIDE DEF d, new, got, call
    <2>8. /\ dev' \in [Device -> DevType]
          /\ dev'[d] = new /\ \A e \in Device \ {d} : dev'[e] = dev[e]
      BY <2>2, <2>5, <2>6, DeviceStep
    <2>9. /\ pc' \in [Machine -> CallType] /\ pc'[m] = call
          /\ \A q \in Machine \ {m} : pc'[q] = pc[q]
      BY <2>5, <2>7 DEF TypeOK
    <2>10. TypeOK'
      BY <1>1, <2>8, <2>9 DEF TypeOK
    <2>11. \A e \in Device :
             /\ dev[e].token \in Nat /\ dev'[e].token \in Nat
             /\ dev'[e].token >= dev[e].token /\ dev'[e].there = dev[e].there
      BY <2>2, <2>6, <2>8, DevTypes DEF TypeOK
    <2>12. \A q \in Machine : file[q] \cup pc[q].cmd \cup pc[q].held \subseteq Token
      BY DEF TypeOK, CallType, Tokens
    <2>13. got.dev = d /\ got.n = dev[d].token + 1
      BY DEF got
    <2>14. \A q \in Machine : got \notin file[q] \cup pc[q].held
      <3> SUFFICES ASSUME NEW q \in Machine, got \in file[q] \cup pc[q].held
                   PROVE  FALSE
        OBVIOUS
      <3>1. got.n <= dev[got.dev].token
        BY DEF TokensInOrder
      <3> QED BY <2>2, <2>13, <3>1
    <2>15. TokensInOrder'
      <3>1. \A x \in shown' : x.n <= dev'[x.dev].token
        <4>1. \A x \in shown : x \in Token
          BY DEF TypeOK, Tokens
        <4> QED BY <1>1, <2>11, <4>1, TokenType DEF TokensInOrder
      <3>2. \A q \in Machine : \A x \in file[q] \cup pc[q].cmd \cup pc[q].held :
              x.n <= dev'[x.dev].token
        BY <2>11, <2>12, TokenType DEF TokensInOrder
      <3>3. got.n <= dev'[got.dev].token
        BY <2>2, <2>6, <2>8, <2>13
      <3>4. \A q \in Machine : \A x \in file'[q] \cup pc'[q].cmd \cup pc'[q].held :
              x \in file[q] \cup pc[q].cmd \cup pc[q].held \/ x = got
        BY <1>1, <2>7, <2>9
      <3>5. \A e \in Device : dev'[e].seen => dev'[e].token >= 2
        BY <2>2, <2>3, <2>6, <2>8 DEF TokensInOrder
      <3> QED BY <3>1, <3>2, <3>3, <3>4, <3>5 DEF TokensInOrder
    <2>16. GivenOnce'
      <3>1. \A q \in Machine : \A x \in file'[q] \cup pc'[q].held :
              x \in file[q] \cup pc[q].held \/ (x = got /\ q = m)
        BY <1>1, <2>7, <2>9
      <3> QED BY <2>14, <3>1 DEF GivenOnce
    <2>17. Rows'
      BY <1>1, <2>8, <2>11, RowsUntouched
    <2> QED BY <2>10, <2>15, <2>16, <2>17, Halves
  <1> QED BY <1>4, <1>5

-----------------------------------------------------------------------------
LEMMA InitIInv ==
  ASSUME Init
  PROVE  IInv
  <1> USE DEF Init
  <1>1. NoDevice \in DevType /\ NoDevice.token = 0 /\ ~NoDevice.there /\ ~NoDevice.seen
    BY Values DEF NoDevice, DevType
  <1>2. budget \in 0 .. MaxEvents
    BY BoundAssumption
  <1>3. TypeOK
    BY <1>1, <1>2, Values, NoTaskType, NoCallType DEF TypeOK, Tokens
  <1>4. TokensInOrder /\ GivenOnce
    BY <1>1, NoCallType DEF TokensInOrder, GivenOnce
  <1>5. EnrolledOnce /\ ReceiversApart
    BY <1>1, NoTaskType, Values DEF EnrolledOnce, ReceiversApart
  <1>6. FoldersAgree
    BY <1>1 DEF FoldersAgree
  <1>7. ReceiversKept
    BY <1>1 DEF ReceiversKept
  <1> QED BY <1>3, <1>4, <1>5, <1>6, <1>7, IdentityFromTokens DEF IInv

LEMMA NextIInv ==
  ASSUME IInv, [Next]_vars
  PROVE  IInv'
  <1>1. CASE \E d \in Device, n \in Name, f \in Folder : Enrol(d, n, f)
    BY <1>1, EnrolIInv
  <1>2. CASE \E d \in Device : AddReceiver(d) \/ Expire(d) \/ RemoveIsCut(d)
    BY <1>2, AddReceiverIInv, ExpireIInv, RemoveIsCutIInv
  <1>3. CASE \E e \in Editor, d \in Device, f \in Folder : Edit(e, d, f)
    BY <1>3, EditIInv
  <1>4. CASE \E c \in Caller : WritePolicy(c) \/ WriteRoot(c)
    BY <1>4, WritePolicyIInv, WriteRootIInv
  <1>5. CASE Operator
    BY <1>5, RotateIInv, SetEnabledIInv, RemoveIInv, RemoveReceiverIInv DEF Operator
  <1>6. CASE \E m \in Machine : \E cmd \in {{}} \cup {{t} : t \in shown} : Install(m, cmd)
    BY <1>6, InstallIInv
  <1>7. CASE \E m \in Machine : \E t \in shown : Configure(m, t)
    BY <1>7, ConfigureIInv
  <1>8. CASE \E m \in Machine : AgentReport(m) \/ Report(m) \/ Answer(m) \/ Profile(m)
    BY <1>8, AgentReportIInv, ReportIInv, AnswerIInv, ProfileIInv
  <1>9. CASE \E m \in Machine : CallFails(m) \/ SaveIsCut(m)
    BY <1>9, CallFailsIInv, SaveIsCutIInv
  <1>10. CASE Crash
    BY <1>10, CrashIInv
  <1>11. CASE UNCHANGED vars
    <2>1. TypeOK' /\ TokensInOrder' /\ GivenOnce'
      BY <1>11 DEF IInv, vars, TypeOK, TokensInOrder, GivenOnce
    <2>2. Rows'
      BY <1>11, RowsUntouched, DevTypes DEF IInv, vars, TypeOK
    <2> QED BY <2>1, <2>2, Halves
  <1> QED BY <1>1, <1>2, <1>3, <1>4, <1>5, <1>6, <1>7, <1>8, <1>9, <1>10, <1>11 DEF Next

-----------------------------------------------------------------------------
(* The theorems.                                                           *)

\* Enrolments, edits, removals, installations and reports in any order, with
\* lost answers and crashes: no two machines have a token that is accepted for
\* one device, and the rows of a workstation stay in step as its handlers
\* write them (gateway.mjs:424-436, managed-devices.mjs:91-161,
\* workstations.mjs:55-110, main.go:119-155).
THEOREM EnrolmentIsSafe == Spec => []IInv
  <1>1. Init => IInv
    BY InitIInv
  <1>2. IInv /\ [Next]_vars => IInv'
    BY NextIInv
  <1> QED BY <1>1, <1>2, PTL DEF Spec

\* One identity per device, whatever was retried, lost or put into a config by
\* hand (managed-devices.mjs:131-147).
COROLLARY MachinesHaveOneIdentity == Spec => []OneIdentity
  <1>1. IInv => OneIdentity
    BY DEF IInv
  <1> QED BY <1>1, EnrolmentIsSafe, PTL

\* A workstation whose command was shown has one receiver, with a name to
\* itself and with the folder of the policy once no handler is between the two,
\* unless the operator, or a removal that was cut, deleted the receiver; what
\* two handlers wrote at a time, or one that was cut, waits for the next edit
\* (gateway.mjs:433-435, workstations.mjs:66-110, receiver-users.mjs:47-61).
THEOREM ShownCommandsAreWhole == Spec => []ShownIsWhole
  <1>1. ASSUME IInv
        PROVE  ShownIsWhole
    <2> SUFFICES ASSUME NEW t \in shown, t.n = 1, dev[t.dev].there
                 PROVE  /\ Own(t.dev) = {} <=> t.dev \in bereft
                        /\ \A r \in Own(t.dev) :
                             /\ \A x \in recv : x.dev = r.dev \/ x.name = r.name => x = r
                             /\ Settled(t.dev) => r.folder = policy[t.dev]
      BY DEF ShownIsWhole
    <2>1. t \in Token /\ t.dev \in Device /\ t = [dev |-> t.dev, n |-> 1]
      BY <1>1, TokenType DEF IInv, TypeOK, Tokens
    <2>2. Own(t.dev) = {} <=> t.dev \in bereft
      BY <1>1, <2>1 DEF IInv, ReceiversKept, HasReceiver, Own
    <2>3. \A r \in Own(t.dev) : \A x \in recv : x.dev = r.dev \/ x.name = r.name => x = r
      BY <1>1 DEF IInv, ReceiversApart, Own
    <2>4. Settled(t.dev) => \A r \in Own(t.dev) : r.folder = policy[t.dev]
      BY <1>1, <2>1 DEF IInv, FoldersAgree, Settled
    <2> QED BY <2>2, <2>3, <2>4
  <1> QED BY <1>1, EnrolmentIsSafe, PTL

\* The token of a machine stops being accepted only when the operator rotates
\* it, disables the device or removes the workstation: no installation
\* elsewhere, report or fault does that (managed-devices.mjs:140).
THEOREM OnlyTheOperatorRevokes == Spec => IdentityKept
  <1>1. ASSUME IInv, [Next]_vars, ~Operator, NEW t \in Token, Accepted(t)
        PROVE  Accepted(t)'
    <2>1. t.dev \in Device
      BY TokenType
    <2>2. dev[t.dev] \in DevType /\ dev[t.dev].token # 0
      BY <1>1, <2>1, TokenType DEF IInv, TypeOK, Accepted, IsCurrent
    <2> SUFFICES dev'[t.dev] = dev[t.dev] \/ \E d \in Device : Expire(d)
      <3>1. ASSUME NEW d \in Device, Expire(d)
            PROVE  dev'[t.dev] = dev[t.dev]
        <4>1. d # t.dev
          BY <1>1, <3>1 DEF Expire, Accepted
        <4> QED BY <1>1, <2>1, <3>1, <4>1 DEF Expire, IInv, TypeOK
      <3> QED BY <1>1, <3>1 DEF Accepted, IsCurrent
    <2>3. CASE \E d \in Device, n \in Name, f \in Folder : Enrol(d, n, f)
      BY <1>1, <2>1, <2>2, <2>3 DEF Enrol, IInv, TypeOK
    <2>4. CASE \E m \in Machine : Report(m)
      <3> SUFFICES ASSUME NEW m \in Machine, Report(m), dev' # dev
                   PROVE  dev'[t.dev] = dev[t.dev]
        BY <2>4
      <3>1. PICK u \in pc[m].cmd :
              /\ Bootstraps(u)
              /\ dev' = [dev EXCEPT ![u.dev].seen = TRUE, ![u.dev].token = Renewed(u.dev)]
        BY DEF Report
      <3>2. u.dev # t.dev
        BY <1>1, <3>1 DEF Bootstraps, NeedsBootstrap, Accepted
      <3> QED BY <1>1, <2>1, <3>1, <3>2 DEF IInv, TypeOK
    <2>5. CASE UNCHANGED dev
      BY <2>5
    <2>6. CASE \E d \in Device : AddReceiver(d) \/ Expire(d) \/ RemoveIsCut(d)
      BY <2>6 DEF AddReceiver, RemoveIsCut
    <2>7. CASE \E e \in Editor, d \in Device, f \in Folder : Edit(e, d, f)
      BY <2>7 DEF Edit
    <2>8. CASE \E c \in Caller : WritePolicy(c) \/ WriteRoot(c)
      BY <2>8 DEF WritePolicy, WriteRoot
    <2>9. CASE \E m \in Machine : \E cmd \in {{}} \cup {{x} : x \in shown} : Install(m, cmd)
      BY <2>9 DEF Install
    <2>10. CASE \E m \in Machine : \E x \in shown : Configure(m, x)
      BY <2>10 DEF Configure
    <2>11. CASE \E m \in Machine : AgentReport(m) \/ Answer(m) \/ Profile(m)
      BY <2>11 DEF AgentReport, Answer, Profile
    <2>12. CASE \E m \in Machine : CallFails(m) \/ SaveIsCut(m)
      BY <2>12 DEF CallFails, SaveIsCut
    <2>13. CASE Crash
      BY <2>13 DEF Crash
    <2> QED
      BY <1>1, <2>3, <2>4, <2>5, <2>6, <2>7, <2>8, <2>9, <2>10, <2>11, <2>12, <2>13 DEF Next, vars
  <1>2. IInv /\ [Next]_vars =>
          [\A m \in Machine : \A t \in file[m] :
             (Accepted(t) /\ file'[m] = file[m] /\ ~Accepted(t)') => Operator]_vars
    <2>1. IInv => \A m \in Machine : \A t \in file[m] : t \in Token
      BY DEF IInv, TypeOK, Tokens
    <2> QED BY <1>1, <2>1
  <1> QED BY <1>2, EnrolmentIsSafe, PTL DEF Spec, IdentityKept
=============================================================================
