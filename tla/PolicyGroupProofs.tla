------------------------- MODULE PolicyGroupProofs -------------------------
(***************************************************************************)
(* Theorems about PolicyGroups: its types, that overlapping creates of one *)
(* name have one winner, and that it implements PolicyGroupRegistry.       *)
(***************************************************************************)
EXTENDS PolicyGroups, TLAPS

----------------------------------------------------------------------------
(***************************************************************************)
(* The inductive invariants.                                               *)
(***************************************************************************)

\* What the program counter says of a handler's own variables, and of its group: who
\* is about to write an existing document has found it, and documents never go.
HandlerShape(h) ==
  /\ pc[h] # "idle" =>
       /\ request[h] \in Request
       /\ request[h].op # "Delete" => request[h].description \in Description
  /\ pc[h] \in {"createGroup", "writeGroup"} => snapshot[h] \in GroupDocument
  /\ pc[h] = "createGroup" =>
       request[h].op = "Create" /\ request[h].group \in ValidName
  /\ pc[h] = "writeGroup" =>
       request[h].op # "Create" /\ groupDoc[request[h].group] # Missing

ShapeInv == TypeOK /\ \A h \in Handler : HandlerShape(h)

\* Who was told that it created a group is done, and the group is there.
CreatedThere == \A h \in Handler :
  /\ reply[h] # Missing => pc[h] = "done"
  /\ reply[h] = "OK" /\ request[h].op = "Create" =>
       groupDoc[request[h].group] # Missing

CreateInv == CreatedThere /\ OneCreateWins

----------------------------------------------------------------------------
(***************************************************************************)
(* Facts about the data.                                                   *)
(***************************************************************************)

\* The sentinel is none of the values it stands apart from.
LEMMA MissingApart ==
  /\ Missing \notin Description /\ Missing \notin GroupDocument
  /\ Missing \notin Request /\ Missing \notin Code
  BY MissingAssumption

\* The fields of a request have their types.
LEMMA RequestFields ==
  \A m \in Request :
    /\ m.op \in {"Create", "Update", "Delete"} /\ m.group \in Group
    /\ m.deleted \in BOOLEAN
  BY DEF Request

\* What a handler that is not refused is going to write is a group.
LEMMA EditedTyped ==
  ASSUME ShapeInv, NEW h \in Handler, pc[h] = "getGroup", Refusal(h) = "OK"
  PROVE  Edited(h) \in GroupDocument
<1>1. request[h] \in Request /\ (request[h].op # "Delete" => request[h].description \in Description)
  BY DEF ShapeInv, HandlerShape
<1>2. request[h].group \in Group /\ groupDoc[request[h].group] \in GroupDocument \cup {Missing}
  BY <1>1, RequestFields DEF ShapeInv, TypeOK
<1>3. CASE request[h].op = "Create"
  BY <1>1, <1>3, RequestFields DEF Edited, GroupDocument
<1>4. CASE request[h].op = "Update"
  BY <1>1, <1>2, <1>4 DEF Edited, GroupDocument, Refusal, Found
<1>5. CASE request[h].op = "Delete"
  BY <1>1, <1>2, <1>5 DEF Edited, GroupDocument, Refusal, Found
<1> QED
  BY <1>1, <1>3, <1>4, <1>5, RequestFields

----------------------------------------------------------------------------
(***************************************************************************)
(* ShapeInv is inductive.                                                  *)
(***************************************************************************)

\* Initially nothing exists and nobody is served.
LEMMA ShapeInit == Init => ShapeInv
  BY DEF Init, ShapeInv, TypeOK, HandlerShape, Label

\* A handler that does not move keeps its shape, if no group goes.
LEMMA OthersKeepShape ==
  ASSUME ShapeInv, NEW h \in Handler, NEW g \in Handler, g # h,
         pc'[g] = pc[g], request'[g] = request[g], snapshot'[g] = snapshot[g],
         \A n \in Group : groupDoc[n] # Missing => groupDoc'[n] # Missing
  PROVE  HandlerShape(g)'
  BY RequestFields DEF ShapeInv, HandlerShape

\* A step keeps the shapes.
LEMMA ShapeStep == ShapeInv /\ [Next]_vars => ShapeInv'
<1> SUFFICES ASSUME ShapeInv, [Next]_vars PROVE ShapeInv'
  OBVIOUS
<1>1. CASE UNCHANGED vars
  BY <1>1 DEF ShapeInv, TypeOK, HandlerShape, vars
<1>2. ASSUME NEW h \in Handler, Serve(h) PROVE ShapeInv'
  <2> USE <1>2
  <2> DEFINE Rest == \A g \in Handler \ {h} : HandlerShape(g)'
  <2>0. HandlerShape(h) /\ TypeOK
    BY DEF ShapeInv
  <2>1. ASSUME NEW op \in {"Create", "Update", "Delete"}, NEW g \in Group,
               NEW d \in Description \cup {Missing}, NEW deleted \in BOOLEAN,
               op # "Delete" => d \in Description,
               Accept(h, op, g, d, deleted)
        PROVE  ShapeInv'
    <3>1. [op |-> op, group |-> g, description |-> d, deleted |-> deleted] \in Request
      BY <2>1 DEF Request
    <3>2. TypeOK'
      BY <2>0, <2>1, <3>1, MissingApart DEF Accept, Goto, TypeOK, Label
    <3>3. HandlerShape(h)'
      BY <2>0, <2>1, <3>1 DEF Accept, Goto, TypeOK, HandlerShape
    <3>4. Rest
      BY <2>0, <2>1, OthersKeepShape DEF Accept, Goto, TypeOK
    <3> QED
      BY <3>2, <3>3, <3>4 DEF ShapeInv
  <2>2. CASE CreatePolicyGroup(h)
    BY <2>1, <2>2 DEF CreatePolicyGroup
  <2>3. CASE UpdatePolicyGroup(h)
    BY <2>1, <2>3 DEF UpdatePolicyGroup
  <2>4. CASE DeletePolicyGroup(h)
    BY <2>1, <2>4 DEF DeletePolicyGroup
  \* A step that answers and writes nothing.
  <2>5. ASSUME NEW from, NEW code \in Code, from # "idle", Answer(h, from, code),
               UNCHANGED <<groupDoc, request, snapshot>>
        PROVE  ShapeInv'
    <3>1. TypeOK'
      BY <2>0, <2>5, MissingApart DEF Answer, Goto, TypeOK, Label, HandlerShape
    <3>2. HandlerShape(h)'
      BY <2>0, <2>5 DEF Answer, Goto, TypeOK, HandlerShape
    <3>3. Rest
      BY <2>0, <2>5, OthersKeepShape DEF Answer, Goto, TypeOK
    <3> QED
      BY <3>1, <3>2, <3>3 DEF ShapeInv
  <2>6. CASE Refuse(h)
    <3>1. Refusal(h) \in Code
      BY DEF Refusal, Code
    <3> QED
      BY <2>5, <2>6, <3>1 DEF Refuse
  <2>7. CASE Prepare(h)
    <3>1. Edited(h) \in GroupDocument /\ Edited(h) # Missing
      BY <2>7, EditedTyped, MissingApart DEF Prepare
    <3>2. request[h] \in Request /\ request[h].group \in Group
      BY <2>0, <2>7, RequestFields DEF Prepare, HandlerShape
    <3>3. /\ request[h].op = "Create" => request[h].group \in ValidName
          /\ request[h].op # "Create" => groupDoc[request[h].group] # Missing
      BY <2>7, <3>2, RequestFields DEF Prepare, Refusal, Found
    <3>4. TypeOK'
      BY <2>0, <2>7, <3>1 DEF Prepare, Goto, TypeOK, Label
    <3>5. HandlerShape(h)'
      BY <2>0, <2>7, <3>1, <3>3 DEF Prepare, Goto, TypeOK, HandlerShape
    <3>6. Rest
      BY <2>0, <2>7, OthersKeepShape DEF Prepare, Goto, TypeOK
    <3> QED
      BY <3>4, <3>5, <3>6 DEF ShapeInv
  <2>8. ASSUME NEW label \in {"createGroup", "writeGroup"}, WriteDocument(h, label)
        PROVE  ShapeInv'
    <3>1. request[h] \in Request /\ snapshot[h] \in GroupDocument /\ snapshot[h] # Missing
      BY <2>0, <2>8, MissingApart DEF WriteDocument, HandlerShape
    <3>2. groupDoc' = [groupDoc EXCEPT ![request[h].group] = snapshot[h]]
      BY <2>8 DEF WriteDocument
    <3>3. PICK code \in Code : Answer(h, label, code)
      BY <2>8 DEF WriteDocument, Outcome, Code
    <3>4. \A n \in Group : groupDoc[n] # Missing => groupDoc'[n] # Missing
      BY <2>0, <3>1, <3>2 DEF TypeOK
    <3>5. TypeOK'
      BY <2>0, <2>8, <3>1, <3>2, <3>3, MissingApart
      DEF WriteDocument, Answer, Goto, TypeOK, Label, HandlerShape
    <3>6. HandlerShape(h)'
      BY <2>0, <2>8, <3>1, <3>3 DEF WriteDocument, Answer, Goto, TypeOK, HandlerShape
    <3>7. Rest
      BY <2>0, <2>8, <3>3, <3>4, OthersKeepShape DEF WriteDocument, Answer, Goto, TypeOK
    <3> QED
      BY <3>5, <3>6, <3>7 DEF ShapeInv
  <2>9. CASE CreateGroup(h)
    BY <2>8, <2>9 DEF CreateGroup
  <2>10. CASE WriteGroup(h)
    BY <2>8, <2>10 DEF WriteGroup
  <2>11. CASE GroupConflict(h)
    BY <2>5, <2>11 DEF GroupConflict, Code
  <2>12. CASE CallFails(h)
    BY <2>5, <2>12 DEF CallFails, Code
  <2>13. CASE Finish(h)
    <3>1. TypeOK'
      BY <2>0, <2>13 DEF Finish, TypeOK, Label
    <3>2. HandlerShape(h)'
      BY <2>0, <2>13 DEF Finish, TypeOK, HandlerShape
    <3>3. Rest
      BY <2>0, <2>13, OthersKeepShape DEF Finish, TypeOK
    <3> QED
      BY <3>1, <3>2, <3>3 DEF ShapeInv
  <2> QED
    BY <2>2, <2>3, <2>4, <2>6, <2>7, <2>9, <2>10, <2>11, <2>12, <2>13 DEF Serve
<1> QED
  BY <1>1, <1>2 DEF Next

----------------------------------------------------------------------------
(***************************************************************************)
(* The theorems.                                                           *)
(***************************************************************************)

\* ShapeInv holds in every behaviour.
LEMMA ShapeAlways == Spec => []ShapeInv
  BY ShapeInit, ShapeStep, PTL DEF Spec

\* Every variable of the group manager keeps its type, whatever fails and whatever
\* Create does to an existing id.
THEOREM TypeCorrect == Spec => []TypeOK
<1>1. ShapeInv => TypeOK
  BY DEF ShapeInv
<1> QED
  BY <1>1, ShapeAlways, PTL

\* Initially no one was told anything.
LEMMA CreateInit == Init => CreateInv
  BY MissingApart DEF Init, CreateInv, CreatedThere, OneCreateWins, Code

\* If Create refuses an existing id, a step that tells a client that it created a group
\* finds none of that name, hence nobody who was told so before.
LEMMA CreateStep ==
  ASSUME CreateOverwrites = FALSE
  PROVE  ShapeInv /\ CreateInv /\ [Next]_vars => CreateInv'
<1> SUFFICES ASSUME ShapeInv, CreateInv, [Next]_vars PROVE CreateInv'
  OBVIOUS
<1>1. CASE UNCHANGED vars
  BY <1>1 DEF CreateInv, CreatedThere, OneCreateWins, vars
<1>2. ASSUME NEW h \in Handler, Serve(h) PROVE CreateInv'
  <2> USE <1>2
  <2>0. HandlerShape(h) /\ TypeOK
    BY DEF ShapeInv
  \* A step after which nobody is told more than before.
  <2>1. ASSUME \A n \in Group : groupDoc[n] # Missing => groupDoc'[n] # Missing,
               \A g \in Handler \ {h} :
                 pc'[g] = pc[g] /\ request'[g] = request[g] /\ reply'[g] = reply[g],
               reply'[h] # "OK" \/ request'[h].op # "Create",
               reply'[h] # Missing => pc'[h] = "done"
        PROVE  CreateInv'
    <3>1. \A g \in Handler : pc[g] = "done" => request[g].group \in Group
      BY RequestFields DEF ShapeInv, HandlerShape
    <3> QED
      BY <2>1, <3>1, MissingApart DEF CreateInv, CreatedThere, OneCreateWins, Code
  \* A step that answers, but not a create with OK.
  <2>2. ASSUME NEW from, NEW code, code # "OK", Answer(h, from, code),
               UNCHANGED <<groupDoc, request, snapshot>>
        PROVE  CreateInv'
    BY <2>0, <2>1, <2>2 DEF Answer, Goto, TypeOK
  <2>3. ASSUME NEW op, NEW g, NEW d, NEW deleted, Accept(h, op, g, d, deleted)
        PROVE  CreateInv'
    <3>1. reply[h] = Missing
      BY <2>3 DEF Accept, Goto, CreateInv, CreatedThere
    <3> QED
      BY <2>0, <2>1, <2>3, <3>1, MissingApart DEF Accept, Goto, TypeOK, Code
  <2>4. CASE CreatePolicyGroup(h)
    BY <2>3, <2>4 DEF CreatePolicyGroup
  <2>5. CASE UpdatePolicyGroup(h)
    BY <2>3, <2>5 DEF UpdatePolicyGroup
  <2>6. CASE DeletePolicyGroup(h)
    BY <2>3, <2>6 DEF DeletePolicyGroup
  <2>7. CASE Refuse(h)
    BY <2>2, <2>7 DEF Refuse
  <2>8. CASE Prepare(h)
    <3>1. reply[h] = Missing
      BY <2>8 DEF Prepare, CreateInv, CreatedThere
    <3> QED
      BY <2>0, <2>1, <2>8, <3>1, MissingApart DEF Prepare, Goto, TypeOK, Code
  <2>9. CASE WriteGroup(h)
    <3>1. request[h].op # "Create" /\ snapshot[h] # Missing
      BY <2>0, <2>9, MissingApart DEF WriteGroup, WriteDocument, HandlerShape
    <3>2. \A n \in Group : groupDoc[n] # Missing => groupDoc'[n] # Missing
      BY <2>0, <2>9, <3>1 DEF WriteGroup, WriteDocument, TypeOK
    <3> QED
      BY <2>0, <2>1, <2>9, <3>1, <3>2 DEF WriteGroup, WriteDocument, Answer, Goto, TypeOK
  <2>10. CASE CreateGroup(h)
    <3>1. /\ request[h] \in Request /\ request[h].group \in Group
          /\ groupDoc[request[h].group] = Missing
          /\ snapshot[h] # Missing
      BY <2>0, <2>10, RequestFields, MissingApart, CreateOverwrites = FALSE
      DEF CreateGroup, HandlerShape, Found
    <3>2. groupDoc' = [groupDoc EXCEPT ![request[h].group] = snapshot[h]]
      BY <2>10 DEF CreateGroup, WriteDocument
    <3>3. \A g \in Handler \ {h} :
            /\ pc'[g] = pc[g] /\ reply'[g] = reply[g]
            /\ pc[g] = "done" => request[g].group \in Group
      BY <2>0, <2>10, RequestFields
      DEF CreateGroup, WriteDocument, Answer, Goto, TypeOK, ShapeInv, HandlerShape
    <3>4. request' = request /\ pc'[h] = "done"
      BY <2>0, <2>10 DEF CreateGroup, WriteDocument, Answer, Goto, TypeOK
    <3>5. \A g \in Handler \ {h} :
            reply[g] = "OK" /\ request[g].op = "Create" => request[g].group # request[h].group
      BY <3>1 DEF CreateInv, CreatedThere
    <3>6. \A n \in Group : groupDoc[n] # Missing => groupDoc'[n] # Missing
      BY <2>0, <3>1, <3>2 DEF TypeOK
    <3>7. groupDoc'[request[h].group] # Missing
      BY <2>0, <3>1, <3>2 DEF TypeOK
    <3>8. CreatedThere'
      BY <3>3, <3>4, <3>6, <3>7, MissingApart DEF CreateInv, CreatedThere, Code
    <3>9. OneCreateWins'
      BY <3>3, <3>4, <3>5 DEF CreateInv, OneCreateWins
    <3> QED
      BY <3>8, <3>9 DEF CreateInv
  <2>11. CASE GroupConflict(h)
    BY <2>2, <2>11 DEF GroupConflict
  <2>12. CASE CallFails(h)
    BY <2>2, <2>12 DEF CallFails
  <2>13. CASE Finish(h)
    BY <2>0, <2>1, <2>13, MissingApart DEF Finish, TypeOK, Code
  <2> QED
    BY <2>4, <2>5, <2>6, <2>7, <2>8, <2>9, <2>10, <2>11, <2>12, <2>13 DEF Serve
<1> QED
  BY <1>1, <1>2 DEF Next

\* Any number of overlapping CreatePolicyGroup of one name: one client at most is told
\* that it created the group, if esutil's Create refuses an existing id.
THEOREM UniqueCreate ==
  ASSUME CreateOverwrites = FALSE
  PROVE  Spec => []OneCreateWins
<1>1. CreateInv => OneCreateWins
  BY DEF CreateInv
<1> QED
  BY <1>1, CreateInit, CreateStep, ShapeAlways, PTL DEF Spec

\* A step of the group manager is one of the registry, or changes no group.
LEMMA RegistryStep == ShapeInv /\ [Next]_vars => [Registry!Next]_groupDoc
<1> SUFFICES ASSUME ShapeInv, [Next]_vars, groupDoc' # groupDoc PROVE Registry!Next
  OBVIOUS
<1>1. PICK h \in Handler : CreateGroup(h) \/ WriteGroup(h)
  BY DEF Next, vars, Serve, CreatePolicyGroup, UpdatePolicyGroup, DeletePolicyGroup, Accept,
         Refuse, Prepare, GroupConflict, CallFails, Finish
<1>2. HandlerShape(h) /\ TypeOK
  BY DEF ShapeInv
<1>3. /\ request[h].group \in Group /\ snapshot[h] \in GroupDocument
      /\ groupDoc' = [groupDoc EXCEPT ![request[h].group] = snapshot[h]]
  BY <1>1, <1>2, RequestFields DEF CreateGroup, WriteGroup, WriteDocument, HandlerShape
<1>4. Registry!Write(request[h].group)
  BY <1>3 DEF Registry!Write, Registry!GroupDocument, GroupDocument
<1>5. request[h].group \in ValidName \/ groupDoc[request[h].group] # Missing
  BY <1>1, <1>2 DEF CreateGroup, WriteGroup, WriteDocument, HandlerShape
<1> QED
  BY <1>3, <1>4, <1>5 DEF Registry!Next, Registry!Create, Registry!Change

\* However the group RPCs overlap and fail, they do to the groups what the registry
\* allows: no group goes, and none has a name the pattern refuses.
THEOREM GroupsImplementRegistry == Spec => ImplementsRegistry
<1>1. Init => Registry!Init
  BY DEF Init, Registry!Init
<1> QED
  BY <1>1, ShapeAlways, RegistryStep, PTL DEF Spec, ImplementsRegistry, Registry!Spec
=============================================================================
