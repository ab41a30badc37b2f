------------------------ MODULE PolicyManagerProofs -------------------------
(***************************************************************************)
(* Proofs about PolicyManager, and about PolicyListing from "Every step of *)
(* PolicyListing" on, for any number of RPCs in flight, of policies and of *)
(* versions.                                                               *)
(***************************************************************************)
EXTENDS PolicyListing, TLAPS

----------------------------------------------------------------------------
(***************************************************************************)
(* The inductive invariants behind the properties above.  NumberingInv and *)
(* PointerInv need the items of a bulk not to fail alone, AnswerInv needs  *)
(* plain ids; ShapeInv needs nothing.                                      *)
(***************************************************************************)

BulkLabel == {"policyItem", "counterItem", "versionItem", "bulkReply"}

\* What the program counter says of a handler's own variables.
HandlerShape(h) ==
  /\ pc[h] = "idle" => newVersion[h] = 0
  /\ pc[h] = "done" /\ reply[h].code = "OK" => request[h] \in Request
  /\ pc[h] \notin {"idle", "done"} =>
       /\ request[h] \in Request
       /\ request[h].op = "Update" => request[h].name \in Name
       /\ pc[h] \notin BulkLabel => newVersion[h] = 0
  /\ pc[h] \in {"getVersion", "increment"} \cup BulkLabel =>
       snapshot[h] \in PolicyDocument
  /\ pc[h] = "writeDelete" =>
       /\ request[h].op = "Delete"
       /\ request[h].version = 0 => snapshot[h] \in PolicyDocument
  /\ pc[h] = "getPolicy" => request[h].op # "Create"
  /\ pc[h] = "getVersion" => request[h].op \in {"Get", "Update"}
  /\ pc[h] = "increment" => request[h].op = "Update" /\ request[h].rego \in Rego
  /\ pc[h] \in BulkLabel =>
       /\ request[h].op \in {"Create", "Update"} /\ request[h].rego \in Rego
       /\ request[h].op = "Create" => newVersion[h] = 1
       /\ newVersion[h] # 0 =>
            request[h].version = 0 /\ snapshot[h].currentVersion = newVersion[h]
  /\ pc[h] = "counterItem" => request[h].op = "Create"
  /\ pc[h] = "versionItem" => newVersion[h] # 0

ShapeInv == TypeOK /\ \A h \in Handler : HandlerShape(h)

Stored(p, v) == versionDoc[p][v] # Missing

\* h is writing the first documents of policy p.
Creating(h, p) ==
  /\ pc[h] \in {"policyItem", "counterItem", "versionItem"}
  /\ request[h].op = "Create" /\ request[h].policy = p

\* While a policy is being created its counter has not moved, it has no version,
\* and nobody else is past reading it.
CreationPrivate == \A h \in Handler, p \in Policy :
  Creating(h, p) =>
    /\ counter[p] = IF pc[h] = "versionItem" THEN 1 ELSE 0
    /\ \A v \in Version : ~Stored(p, v)
    /\ \A g \in Handler \ {h} : pc[g] \in {"increment"} \cup BulkLabel =>
         request[g].policy # p

\* The counter bounds the numbers that were stored or handed out, and only a
\* policy that has a version is updated.
CounterBounds ==
  /\ \A p \in Policy, v \in Version : Stored(p, v) => v <= counter[p]
  /\ \A h \in Handler : pc[h] \in BulkLabel /\ request[h].op = "Update" =>
       newVersion[h] <= counter[request[h].policy]
  /\ \A h \in Handler :
       pc[h] \in {"increment", "policyItem"} /\ request[h].op = "Update" =>
         \E v \in Version : Stored(request[h].policy, v)
  /\ \A h \in Handler :
       pc[h] \in {"writeDelete", "increment", "policyItem"} /\ request[h].version # 0 =>
         Stored(request[h].policy, request[h].version)

NumberingInv == CreationPrivate /\ CounterBounds /\ VersionNumbersUnique

\* Every copy of a policy document points to a version that is stored or about to
\* be, unless the handler is itself creating that version.
PointerInv ==
  /\ CurrentVersionStored
  /\ \A h \in Handler :
       \/ pc[h] \in {"getVersion", "increment"}
       \/ pc[h] \in BulkLabel /\ newVersion[h] = 0
       \/ pc[h] = "writeDelete" /\ request[h].version = 0
       => Landed(request[h].policy, snapshot[h].currentVersion)

IInv == ShapeInv /\ NumberingInv /\ PointerInv

\* With plain ids only, what an update is going to answer is already stored.
AnswerInv ==
  /\ \A h \in Handler :
       pc[h] \notin {"idle", "done"} /\ request[h].op # "Get" => request[h].version = 0
  /\ \A h \in Handler :
       \/ pc[h] = "policyItem" /\ newVersion[h] = 0
       \/ pc[h] = "bulkReply" /\ ~bulkFailed[h]
       => \/ bulkFailed[h]
          \/ versionDoc[request[h].policy][snapshot[h].currentVersion] = request[h].rego
  /\ \A h \in Handler :
       pc[h] = "done" /\ reply[h].code = "OK" /\ reply[h].version # 0 =>
         reply[h].version \in Version /\ reply[h].rego \in Rego
  /\ AnswersStayTrue

----------------------------------------------------------------------------
(***************************************************************************)
(* Facts about the data.                                                   *)
(***************************************************************************)

\* The sentinel is none of the values it stands apart from.
LEMMA MissingApart == Missing \notin PolicyDocument /\ Missing \notin Request /\ Missing \notin Rego
  BY MissingAssumption

\* Version numbers are positive naturals, and an increment below the bound is one.
LEMMA Bounds ==
  /\ MaxVersion \in Nat /\ 1 \in Version /\ 1 \in 0..MaxVersion /\ 0 \in 0..MaxVersion
  /\ \A v \in Version : v \in 0..MaxVersion /\ v # 0 /\ v \in Nat
  /\ \A n \in 0..MaxVersion : n \in Nat /\ (n < MaxVersion => n + 1 \in Version)
  BY VersionAssumption DEF Version

\* Editing a copy of a policy document, as UpdatePolicy and DeletePolicy do in
\* place, gives a policy document.
LEMMA DocumentEdits ==
  \A d \in PolicyDocument :
    /\ \A n \in Name : [d EXCEPT !.name = n] \in PolicyDocument
    /\ \A v \in Version : [d EXCEPT !.currentVersion = v] \in PolicyDocument
    /\ \A v \in Version : [d EXCEPT !.currentVersion = v].currentVersion = v
    /\ [d EXCEPT !.deleted = TRUE] \in PolicyDocument
    /\ d.currentVersion \in Version
  BY DEF PolicyDocument

\* The fields of a request have their types.
LEMMA RequestFields ==
  \A m \in Request :
    /\ m.policy \in Policy /\ m.version \in 0..MaxVersion
    /\ m.op \in {"Create", "Get", "Update", "Delete"}
    /\ m.version # 0 => m.version \in Version
    /\ m.rego \in Rego \cup {Missing}
  BY VersionAssumption DEF Request, Version

\* Answering a client touches the reply and the label of one handler only.
LEMMA AnswerTyped ==
  ASSUME TypeOK, NEW h \in Handler, NEW from, NEW code \in Code,
         NEW v \in 0..MaxVersion, NEW r \in Rego \cup {Missing},
         Answer(h, from, code, v, r)
  PROVE  /\ reply' \in [Handler -> Reply \cup {Missing}]
         /\ pc' \in [Handler -> Label] /\ pc'[h] = "done"
         /\ \A g \in Handler \ {h} : pc'[g] = pc[g] /\ reply'[g] = reply[g]
         /\ reply'[h].code = code
  BY DEF Answer, Goto, TypeOK, Reply, Label

\* A handler that is serving has a request.
LEMMA Active ==
  ASSUME ShapeInv, NEW h \in Handler, pc[h] \notin {"idle", "done"}
  PROVE  request[h] \in Request
  BY DEF ShapeInv, HandlerShape

----------------------------------------------------------------------------
(***************************************************************************)
(* Types: the actions that need more than one step.                        *)
(***************************************************************************)

\* FetchPolicy keeps the types and the shape of the handlers.
LEMMA ShapeFetchPolicy ==
  ASSUME ShapeInv, NEW h \in Handler, FetchPolicy(h) PROVE ShapeInv'
<1>0. /\ pc[h] = "getPolicy" /\ request[h] \in Request
      /\ request[h].op \in {"Create", "Get", "Update", "Delete"}
      /\ ~LooksUpVersion(h) => policyDoc[request[h].policy] \in PolicyDocument
      /\ policyDoc[request[h].policy] \in PolicyDocument \cup {Missing}
  BY Active, RequestFields DEF FetchPolicy, DocumentFound, LooksUpVersion, ShapeInv, TypeOK
<1>1. TypeOK'
  BY <1>0 DEF FetchPolicy, Goto, Label, ShapeInv, TypeOK, store
<1>2. ASSUME NEW g \in Handler, g # h PROVE HandlerShape(g)'
  BY <1>2 DEF FetchPolicy, Goto, ShapeInv, TypeOK, HandlerShape, Label, BulkLabel, store
<1>3. HandlerShape(h)'
  <2>1. newVersion[h] = 0 /\ (request[h].op = "Update" => request[h].name \in Name)
    BY <1>0 DEF ShapeInv, HandlerShape, BulkLabel
  <2>2. CASE request[h].op = "Delete"
    BY <1>0, <2>1, <2>2 DEF FetchPolicy, Goto, LooksUpVersion, ShapeInv, TypeOK, HandlerShape,
       BulkLabel
  <2>3. CASE request[h].op \in {"Get", "Update"}
    BY <1>0, <2>1, <2>3 DEF FetchPolicy, Goto, LooksUpVersion, ShapeInv, TypeOK, HandlerShape,
       BulkLabel
  <2> QED
    BY <1>0, <2>2, <2>3 DEF ShapeInv, HandlerShape
<1> QED
  BY <1>1, <1>2, <1>3 DEF ShapeInv

\* UpdateMetadata keeps the types and the shape of the handlers.
LEMMA ShapeUpdateMetadata ==
  ASSUME ShapeInv, NEW h \in Handler, UpdateMetadata(h) PROVE ShapeInv'
<1>0. /\ request[h] \in Request /\ request[h].op = "Update"
      /\ EditedCopy(h) \in PolicyDocument /\ snapshot \in [Handler -> PolicyDocument \cup {Missing}]
      /\ pc[h] = "getVersion" /\ request[h].rego \in Rego /\ newVersion[h] = 0
  BY DocumentEdits, RequestFields, RegoAssumption, MissingApart DEF UpdateMetadata, UpdateRead,
     UpdateRefusal, EditedCopy, Goto, ShapeInv, TypeOK, HandlerShape, Label, BulkLabel
<1>1. TypeOK'
  BY <1>0, Bounds DEF UpdateMetadata, Goto, Label, ShapeInv, TypeOK, store
<1>2. ASSUME NEW g \in Handler, g # h PROVE HandlerShape(g)'
  BY <1>2 DEF UpdateMetadata, Goto, ShapeInv, TypeOK, HandlerShape, Label, BulkLabel, store
<1>3. HandlerShape(h)'
  BY <1>0, Bounds DEF UpdateMetadata, Goto, ShapeInv, TypeOK, HandlerShape, Label, BulkLabel, store
<1> QED
  BY <1>1, <1>2, <1>3 DEF ShapeInv

\* UpdateContent keeps the types and the shape of the handlers.
LEMMA ShapeUpdateContent ==
  ASSUME ShapeInv, NEW h \in Handler, UpdateContent(h) PROVE ShapeInv'
<1>0. /\ request[h] \in Request /\ request[h].op = "Update"
      /\ EditedCopy(h) \in PolicyDocument /\ snapshot \in [Handler -> PolicyDocument \cup {Missing}]
      /\ pc[h] = "getVersion" /\ request[h].rego \in Rego /\ newVersion[h] = 0
  BY DocumentEdits, RequestFields, RegoAssumption, MissingApart DEF UpdateContent, UpdateRead,
     UpdateRefusal, EditedCopy, Goto, ShapeInv, TypeOK, HandlerShape, Label, BulkLabel
<1>1. TypeOK'
  BY <1>0, Bounds DEF UpdateContent, Goto, Label, ShapeInv, TypeOK, store
<1>2. ASSUME NEW g \in Handler, g # h PROVE HandlerShape(g)'
  BY <1>2 DEF UpdateContent, Goto, ShapeInv, TypeOK, HandlerShape, Label, BulkLabel, store
<1>3. HandlerShape(h)'
  BY <1>0, Bounds DEF UpdateContent, Goto, ShapeInv, TypeOK, HandlerShape, Label, BulkLabel, store
<1> QED
  BY <1>1, <1>2, <1>3 DEF ShapeInv

\* IncrementPolicyVersion keeps the types and the shape of the handlers.
LEMMA ShapeIncrementPolicyVersion ==
  ASSUME ShapeInv, NEW h \in Handler, IncrementPolicyVersion(h) PROVE ShapeInv'
<1> DEFINE n == counter[request[h].policy] + 1
<1>0. /\ pc[h] = "increment" /\ request[h] \in Request /\ request[h].op = "Update"
      /\ request[h].rego \in Rego /\ request[h].name \in Name
      /\ snapshot[h] \in PolicyDocument /\ snapshot \in [Handler -> PolicyDocument \cup {Missing}]
  BY DEF IncrementPolicyVersion, Goto, ShapeInv, TypeOK, HandlerShape, BulkLabel
<1>1. n \in Version /\ n # 0 /\ n \in 0..MaxVersion
  BY <1>0, Bounds, RequestFields DEF IncrementPolicyVersion, ShapeInv, TypeOK
<1>2. snapshot' = [snapshot EXCEPT ![h] = [snapshot[h] EXCEPT !.currentVersion = n]]
  BY DEF IncrementPolicyVersion
<1> HIDE DEF n
<1>3. /\ snapshot' \in [Handler -> PolicyDocument \cup {Missing}]
      /\ snapshot'[h] \in PolicyDocument /\ snapshot'[h].currentVersion = n
  BY <1>0, <1>1, <1>2, DocumentEdits
<1>4. TypeOK'
  BY <1>1, <1>3 DEF IncrementPolicyVersion, n, Goto, Label, ShapeInv, TypeOK
<1>5. ASSUME NEW g \in Handler, g # h PROVE HandlerShape(g)'
  BY <1>5 DEF IncrementPolicyVersion, Goto, ShapeInv, TypeOK, HandlerShape, Label, BulkLabel
<1>6. HandlerShape(h)'
  BY <1>0, <1>1, <1>3 DEF IncrementPolicyVersion, n, Goto, ShapeInv, TypeOK, HandlerShape, Label,
     BulkLabel
<1> QED
  BY <1>4, <1>5, <1>6 DEF ShapeInv

\* IncrementLost keeps the types and the shape of the handlers.
LEMMA ShapeIncrementLost ==
  ASSUME ShapeInv, NEW h \in Handler, IncrementLost(h) PROVE ShapeInv'
<1>0. /\ request[h] \in Request
  BY Active DEF IncrementLost, Refuse, Answer, Goto
<1>1. TypeOK'
  BY <1>0, AnswerTyped, Bounds DEF IncrementLost, Refuse, Code, ShapeInv, TypeOK, store
<1>2. ASSUME NEW g \in Handler, g # h PROVE HandlerShape(g)'
  BY <1>2 DEF IncrementLost, Refuse, Answer, Goto, ShapeInv, TypeOK, HandlerShape, Label,
     BulkLabel, store
<1>3. HandlerShape(h)'
  BY <1>0, AnswerTyped, Bounds DEF IncrementLost, Refuse, Code, ShapeInv, TypeOK, HandlerShape,
     Label, BulkLabel, store
<1> QED
  BY <1>1, <1>2, <1>3 DEF ShapeInv

\* WritePolicyItem keeps the types and the shape of the handlers.
LEMMA ShapeWritePolicyItem ==
  ASSUME ShapeInv, NEW h \in Handler, WritePolicyItem(h) PROVE ShapeInv'
<1>0. /\ request[h] \in Request /\ snapshot[h] \in PolicyDocument
      /\ AfterPolicyItem(h) \in Label
  BY Active DEF WritePolicyItem, AfterPolicyItem, ShapeInv, TypeOK, HandlerShape, Label, BulkLabel
<1>1. policyDoc' \in [Policy -> PolicyDocument \cup {Missing}]
  BY <1>0 DEF WritePolicyItem, ShapeInv, TypeOK
<1>2. versionDoc' \in [Policy -> [Version -> Rego \cup {Missing}]]
  <2>1. EmptyRego \in Rego
    BY RegoAssumption
  <2>2. CASE request[h].version = 0
    BY <2>2 DEF WritePolicyItem, ShapeInv, TypeOK
  <2>3. CASE request[h].version # 0
    BY <2>1, <2>3 DEF WritePolicyItem, ShapeInv, TypeOK
  <2> QED
    BY <2>2, <2>3
<1>3. TypeOK'
  BY <1>0, <1>1, <1>2 DEF WritePolicyItem, Goto, ShapeInv, TypeOK
<1>4. ASSUME NEW g \in Handler, g # h PROVE HandlerShape(g)'
  BY <1>4 DEF WritePolicyItem, Goto, ShapeInv, TypeOK, HandlerShape, Label, BulkLabel
<1>5. HandlerShape(h)'
  BY DEF WritePolicyItem, AfterPolicyItem, Goto, ShapeInv, TypeOK, HandlerShape, Label, BulkLabel
<1> QED
  BY <1>3, <1>4, <1>5 DEF ShapeInv

\* WriteCounterItem keeps the types and the shape of the handlers.
LEMMA ShapeWriteCounterItem ==
  ASSUME ShapeInv, NEW h \in Handler, WriteCounterItem(h) PROVE ShapeInv'
<1>1. TypeOK'
  BY Bounds DEF WriteCounterItem, Goto, Label, ShapeInv, TypeOK, store
<1>2. ASSUME NEW g \in Handler, g # h PROVE HandlerShape(g)'
  BY <1>2 DEF WriteCounterItem, Goto, ShapeInv, TypeOK, HandlerShape, Label, BulkLabel, store
<1>3. HandlerShape(h)'
  BY Bounds DEF WriteCounterItem, Goto, ShapeInv, TypeOK, HandlerShape, Label, BulkLabel, store
<1> QED
  BY <1>1, <1>2, <1>3 DEF ShapeInv

\* ItemFails keeps the types and the shape of the handlers.
LEMMA ShapeItemFails ==
  ASSUME ShapeInv, NEW h \in Handler, ItemFails(h) PROVE ShapeInv'
<1>1. TypeOK'
  BY Bounds DEF ItemFails, Goto, Label, AfterPolicyItem, ShapeInv, TypeOK, store
<1>2. ASSUME NEW g \in Handler, g # h PROVE HandlerShape(g)'
  BY <1>2 DEF ItemFails, Goto, ShapeInv, TypeOK, HandlerShape, Label, BulkLabel, store
<1>3. HandlerShape(h)'
  BY Bounds DEF ItemFails, AfterPolicyItem, Goto, ShapeInv, TypeOK, HandlerShape, Label,
     BulkLabel, store
<1> QED
  BY <1>1, <1>2, <1>3 DEF ShapeInv

\* BulkReply keeps the types and the shape of the handlers.
LEMMA ShapeBulkReply ==
  ASSUME ShapeInv, NEW h \in Handler, BulkReply(h) PROVE ShapeInv'
<1>0. request[h] \in Request /\ request[h].rego \in Rego \cup {Missing} /\ snapshot[h] \in PolicyDocument
  BY Active DEF BulkReply, ShapeInv, HandlerShape, BulkLabel
<1>1. (IF request[h].version = 0 THEN snapshot[h].currentVersion ELSE 0) \in 0..MaxVersion
  BY <1>0, Bounds, DocumentEdits
<1>2. PICK code \in Code, v \in 0..MaxVersion, r \in Rego \cup {Missing} :
        Answer(h, "bulkReply", code, v, r)
  BY <1>0, <1>1, Bounds DEF BulkReply, Outcome, Refuse, Code
<1>3. TypeOK'
  BY <1>2, AnswerTyped DEF BulkReply, store, ShapeInv, TypeOK
<1>4. ASSUME NEW g \in Handler, g # h PROVE HandlerShape(g)'
  BY <1>2, <1>4, AnswerTyped DEF BulkReply, store, ShapeInv, HandlerShape, BulkLabel
<1>5. HandlerShape(h)'
  BY <1>0, <1>2, AnswerTyped DEF BulkReply, store, ShapeInv, HandlerShape, BulkLabel
<1> QED
  BY <1>3, <1>4, <1>5 DEF ShapeInv

\* WriteDelete keeps the types and the shape of the handlers.
LEMMA ShapeWriteDelete ==
  ASSUME ShapeInv, NEW h \in Handler, WriteDelete(h) PROVE ShapeInv'
<1>0. /\ request[h] \in Request
      /\ request[h].version = 0 => [snapshot[h] EXCEPT !.deleted = TRUE] \in PolicyDocument
  BY Active, DocumentEdits DEF WriteDelete, ShapeInv, HandlerShape, BulkLabel
<1>1. PICK code \in Code : Answer(h, "writeDelete", code, 0, Missing)
  BY DEF WriteDelete, Outcome, Refuse, Code
<1>2. /\ policyDoc' \in [Policy -> PolicyDocument \cup {Missing}]
      /\ versionDoc' \in [Policy -> [Version -> Rego \cup {Missing}]]
  <2>1. EmptyRego \in Rego
    BY RegoAssumption
  <2> QED
    BY <1>0, <2>1 DEF WriteDelete, ShapeInv, TypeOK
<1>3. TypeOK'
  BY <1>1, <1>2, AnswerTyped, Bounds DEF WriteDelete, ShapeInv, TypeOK
<1>4. ASSUME NEW g \in Handler, g # h PROVE HandlerShape(g)'
  BY <1>1, <1>4, AnswerTyped, Bounds DEF WriteDelete, ShapeInv, HandlerShape, BulkLabel
<1>5. HandlerShape(h)'
  BY <1>0, <1>1, AnswerTyped, Bounds DEF WriteDelete, ShapeInv, HandlerShape, BulkLabel
<1> QED
  BY <1>3, <1>4, <1>5 DEF ShapeInv

\* AnswerGet keeps the types and the shape of the handlers.
LEMMA ShapeAnswerGet ==
  ASSUME ShapeInv, NEW h \in Handler, AnswerGet(h) PROVE ShapeInv'
<1>0. request[h] \in Request /\ snapshot[h] \in PolicyDocument
  BY Active DEF AnswerGet, ShapeInv, HandlerShape
<1>1. ReadVersion(h) \in Version
  BY <1>0, RequestFields, DocumentEdits DEF ReadVersion
<1>2. ReadVersion(h) \in 0..MaxVersion /\ ReadContent(h) \in Rego \cup {Missing}
  BY <1>0, <1>1, Bounds, RequestFields DEF ReadContent, ShapeInv, TypeOK
<1>3. Answer(h, "getVersion", "OK", ReadVersion(h), ReadContent(h)) /\ "OK" \in Code
  BY DEF AnswerGet, Code
<1>4. TypeOK'
  BY <1>2, <1>3, AnswerTyped DEF AnswerGet, store, ShapeInv, TypeOK
<1>5. ASSUME NEW g \in Handler, g # h PROVE HandlerShape(g)'
  BY <1>2, <1>3, <1>5, AnswerTyped DEF AnswerGet, store, ShapeInv, HandlerShape, BulkLabel
<1>6. HandlerShape(h)'
  BY <1>0, <1>2, <1>3, AnswerTyped DEF AnswerGet, store, ShapeInv, HandlerShape, BulkLabel
<1> QED
  BY <1>4, <1>5, <1>6 DEF ShapeInv

\* Every step of every handler keeps the types and the shape of the handlers.
THEOREM ShapeStep == ShapeInv /\ [Next]_vars => ShapeInv'
<1> SUFFICES ASSUME ShapeInv, [Next]_vars PROVE ShapeInv'
  OBVIOUS
<1>1. CASE UNCHANGED vars
  BY <1>1 DEF vars, ShapeInv, TypeOK, HandlerShape
<1>2. ASSUME NEW h \in Handler, Serve(h) PROVE ShapeInv'
  <2>1. CASE CreatePolicy(h)
    BY <2>1, Bounds, RegoAssumption, MissingApart DEF CreatePolicy, Accept, Message, Goto,
       PolicyDocument, Request, ShapeInv, TypeOK, HandlerShape, Label, BulkLabel, store
  <2>2. CASE RefuseCreate(h)
    BY <2>2, Bounds DEF RefuseCreate, Refuse, Answer, Goto, Reply, Code, ShapeInv, TypeOK,
       HandlerShape, Label, BulkLabel, store
  <2>3. CASE GetPolicy(h)
    BY <2>3, Bounds DEF GetPolicy, Accept, Message, Goto, Request, ShapeInv, TypeOK, HandlerShape,
       Label, BulkLabel, store
  <2>4. CASE UpdatePolicy(h)
    BY <2>4, Bounds, VersionAssumption DEF UpdatePolicy, Accept, Message, Goto, Request, ShapeInv,
       TypeOK, HandlerShape, Label, BulkLabel, store
  <2>5. CASE DeletePolicy(h)
    BY <2>5, Bounds, VersionAssumption DEF DeletePolicy, Accept, Message, Goto, Request, ShapeInv,
       TypeOK, HandlerShape, Label, BulkLabel, store
  <2>6. CASE PolicyNotFound(h)
    BY <2>6, Bounds DEF PolicyNotFound, Refuse, Answer, Goto, Reply, Code, ShapeInv, TypeOK,
       HandlerShape, Label, BulkLabel, store
  <2>7. CASE FetchPolicy(h)
    BY <2>7, ShapeFetchPolicy
  <2>8. CASE VersionNotFound(h)
    BY <2>8, Bounds DEF VersionNotFound, Refuse, Answer, Goto, Reply, Code, ShapeInv, TypeOK,
       HandlerShape, Label, BulkLabel, store
  <2>9. CASE AnswerGet(h)
    BY <2>9, ShapeAnswerGet
  <2>10. CASE RefuseUpdate(h)
    BY <2>10, Bounds DEF RefuseUpdate, Refuse, Answer, Goto, UpdateRefusal, UpdateRead, Reply,
       Code, ShapeInv, TypeOK, HandlerShape, Label, BulkLabel, store
  <2>11. CASE UpdateMetadata(h)
    BY <2>11, ShapeUpdateMetadata
  <2>12. CASE UpdateContent(h)
    BY <2>12, ShapeUpdateContent
  <2>13. CASE IncrementPolicyVersion(h)
    BY <2>13, ShapeIncrementPolicyVersion
  <2>14. CASE IncrementVersionedId(h)
    BY <2>14, Bounds DEF IncrementVersionedId, Goto, ShapeInv, TypeOK, HandlerShape, Label,
       BulkLabel, store
  <2>15. CASE IncrementLost(h)
    BY <2>15, ShapeIncrementLost
  <2>17. CASE WritePolicyItem(h)
    BY <2>17, ShapeWritePolicyItem
  <2>18. CASE WriteCounterItem(h)
    BY <2>18, ShapeWriteCounterItem
  <2>19. CASE WriteVersionItem(h)
    BY <2>19, Bounds, ZenonT(60) DEF WriteVersionItem, Goto, ShapeInv, TypeOK, HandlerShape, Label, BulkLabel,
       store
  <2>20. CASE VersionConflict(h)
    BY <2>20, Bounds DEF VersionConflict, Goto, ShapeInv, TypeOK, HandlerShape, Label, BulkLabel,
       store
  <2>21. CASE ItemFails(h)
    BY <2>21, ShapeItemFails
  <2>22. CASE BulkReply(h)
    BY <2>22, ShapeBulkReply
  <2>23. CASE WriteDelete(h)
    BY <2>23, ShapeWriteDelete
  <2>24. CASE CallFails(h)
    BY <2>24, Bounds DEF CallFails, Refuse, Answer, Goto, Reply, Code, ShapeInv, TypeOK,
       HandlerShape, Label, BulkLabel, store
  <2>25. CASE Deliver(h)
    BY <2>25, Bounds DEF Deliver, Forget, ShapeInv, TypeOK, HandlerShape, Label, BulkLabel, store
  <2>26. CASE Abandon(h)
    BY <2>26, Bounds DEF Abandon, Forget, ShapeInv, TypeOK, HandlerShape, Label, BulkLabel, store
  <2> QED
    BY <1>2, <2>1, <2>2, <2>3, <2>4, <2>5, <2>6, <2>7, <2>8, <2>9, <2>10, <2>11, <2>12, <2>13,
       <2>14, <2>15, <2>17, <2>18, <2>19, <2>20, <2>21, <2>22, <2>23, <2>24, <2>25, <2>26
       DEF Serve
<1> QED
  BY <1>1, <1>2 DEF Next

----------------------------------------------------------------------------
(***************************************************************************)
(* Numbering.                                                              *)
(***************************************************************************)

\* Handlers share nothing but the index: a step of one leaves the variables of the
\* others alone.
LEMMA OthersUnchanged ==
  ASSUME ShapeInv, NEW h \in Handler, Serve(h), NEW g \in Handler, g # h
  PROVE  /\ pc'[g] = pc[g] /\ request'[g] = request[g] /\ newVersion'[g] = newVersion[g]
         /\ snapshot'[g] = snapshot[g] /\ bulkFailed'[g] = bulkFailed[g] /\ reply'[g] = reply[g]
<1> USE DEF ShapeInv, TypeOK
<1>1. CASE CreatePolicy(h) \/ RefuseCreate(h) \/ GetPolicy(h) \/ UpdatePolicy(h) \/ DeletePolicy(h)
  BY <1>1 DEF CreatePolicy, RefuseCreate, GetPolicy, UpdatePolicy, DeletePolicy, Accept, Refuse,
     Answer, Goto
<1>2. CASE PolicyNotFound(h) \/ FetchPolicy(h) \/ VersionNotFound(h) \/ AnswerGet(h) \/ RefuseUpdate(h)
  BY <1>2 DEF PolicyNotFound, FetchPolicy, VersionNotFound, AnswerGet, RefuseUpdate, Refuse,
     Answer, Goto
<1>3. CASE UpdateMetadata(h) \/ UpdateContent(h) \/ IncrementPolicyVersion(h) \/ IncrementVersionedId(h)
  BY <1>3 DEF UpdateMetadata, UpdateContent, IncrementPolicyVersion, IncrementVersionedId, Goto
<1>4. CASE IncrementLost(h) \/ BulkReply(h) \/ WriteDelete(h) \/ CallFails(h)
  BY <1>4 DEF IncrementLost, BulkReply, WriteDelete, CallFails, Refuse, Answer, Goto
<1>5. CASE WritePolicyItem(h) \/ WriteCounterItem(h) \/ WriteVersionItem(h) \/ VersionConflict(h) \/ ItemFails(h)
  BY <1>5 DEF WritePolicyItem, WriteCounterItem, WriteVersionItem, VersionConflict, ItemFails, Goto
<1>6. CASE Deliver(h) \/ Abandon(h)
  BY <1>6 DEF Deliver, Abandon, Forget
<1> QED
  BY <1>1, <1>2, <1>3, <1>4, <1>5, <1>6 DEF Serve

\* A step that stores no new version, and leaves its handler with no number to
\* create, keeps the numbering invariant.
LEMMA QuietStep ==
  ASSUME NumberingInv, ShapeInv, ShapeInv', NEW h \in Handler,
         \A g \in Handler \ {h} :
           pc'[g] = pc[g] /\ request'[g] = request[g] /\ newVersion'[g] = newVersion[g],
         pc'[h] \in {"idle", "getPolicy", "getVersion", "done"},
         \A p \in Policy, v \in Version : Stored(p, v)' <=> Stored(p, v),
         \A p \in Policy : counter'[p] >= counter[p],
         \A p \in Policy, g \in Handler : Creating(g, p) => counter'[p] = counter[p]
  PROVE  NumberingInv'
<1>1. \A g \in Handler, p \in Policy : Creating(g, p)' => g # h /\ Creating(g, p)
  BY DEF Creating
<1>2. CreationPrivate'
  BY <1>1 DEF NumberingInv, CreationPrivate, BulkLabel
<1>3. CounterBounds'
  <2>1. \A p \in Policy : counter[p] \in Nat /\ counter'[p] \in Nat
    BY Bounds DEF ShapeInv, TypeOK
  <2>2. \A g \in Handler : newVersion[g] \in Nat
    BY Bounds DEF ShapeInv, TypeOK
  <2>3. \A v \in Version : v \in Nat
    BY Bounds
  <2>4. \A g \in Handler : pc[g] \in BulkLabel \cup {"writeDelete", "increment"} =>
          request[g].policy \in Policy /\ request[g].version \in 0..MaxVersion
             /\ (request[g].version # 0 => request[g].version \in Version)
    BY RequestFields, Active DEF BulkLabel
  <2>5. \A p \in Policy, v \in Version : Stored(p, v)' => v <= counter'[p]
    BY <2>1, <2>3 DEF NumberingInv, CounterBounds
  <2>6. ASSUME NEW g \in Handler, pc'[g] \in BulkLabel, request'[g].op = "Update"
        PROVE  newVersion'[g] <= counter'[request'[g].policy]
    BY <2>1, <2>2, <2>4, <2>6 DEF NumberingInv, CounterBounds, BulkLabel
  <2>7. ASSUME NEW g \in Handler, pc'[g] \in {"increment", "policyItem"}, request'[g].op = "Update"
        PROVE  \E v \in Version : Stored(request[g].policy, v)'
    <3>1. g # h /\ pc'[g] = pc[g] /\ request'[g] = request[g] /\ request[g].policy \in Policy
      BY <2>4, <2>7 DEF BulkLabel
    <3>2. PICK v \in Version : Stored(request[g].policy, v)
      BY <2>7, <3>1 DEF NumberingInv, CounterBounds
    <3> QED
      BY <3>1, <3>2 DEF Stored
  <2>8. ASSUME NEW g \in Handler, pc'[g] \in {"writeDelete", "increment", "policyItem"},
               request'[g].version # 0
        PROVE  Stored(request[g].policy, request[g].version)'
    <3>1. /\ g # h /\ pc'[g] = pc[g] /\ request'[g] = request[g]
          /\ request[g].policy \in Policy /\ request[g].version \in Version
      BY <2>4, <2>8 DEF BulkLabel
    <3>2. Stored(request[g].policy, request[g].version)
      BY <2>8, <3>1 DEF NumberingInv, CounterBounds
    <3> QED
      BY <3>1, <3>2 DEF Stored
  <2> QED
    BY <2>5, <2>6, <2>7, <2>8 DEF CounterBounds, Stored
<1>4. VersionNumbersUnique'
  BY DEF NumberingInv, VersionNumbersUnique, Holds, Stored
<1> QED
  BY <1>2, <1>3, <1>4 DEF NumberingInv

\* A handler that moves on with the copy it read, without a number, keeps the
\* numbering invariant.
LEMMA ReaderStep ==
  ASSUME NumberingInv, ShapeInv, ShapeInv', NEW h \in Handler,
         \A g \in Handler \ {h} : pc'[g] = pc[g],
         UNCHANGED <<versionDoc, counter, request, newVersion>>,
         newVersion[h] = 0, request[h].policy \in Policy, request[h].op # "Create",
         pc'[h] \in {"getVersion", "writeDelete", "increment", "policyItem"},
         pc'[h] \in {"increment", "policyItem"} => \E v \in Version : Stored(request[h].policy, v),
         pc'[h] # "getVersion" /\ request[h].version # 0 => Stored(request[h].policy, request[h].version)
  PROVE  NumberingInv'
<1>1. CreationPrivate'
  <2>1. ASSUME NEW g \in Handler, NEW p \in Policy, Creating(g, p)', g # h
        PROVE  pc'[h] \in {"increment"} \cup BulkLabel => request[h].policy # p
    BY <2>1 DEF NumberingInv, CreationPrivate, Creating, BulkLabel
  <2> QED
    BY <2>1 DEF NumberingInv, CreationPrivate, Creating, Stored, BulkLabel
<1>2. CounterBounds'
  <2>1. \A p \in Policy, v \in Version : Stored(p, v)' => v <= counter'[p]
    BY DEF NumberingInv, CounterBounds, Stored
  <2>2. counter[request[h].policy] \in Nat
    BY Bounds DEF ShapeInv, TypeOK
  <2>3. \A g \in Handler : pc'[g] \in BulkLabel /\ request'[g].op = "Update" =>
          newVersion'[g] <= counter'[request'[g].policy]
    BY <2>2 DEF NumberingInv, CounterBounds
  <2>4. \A g \in Handler : pc'[g] \in {"increment", "policyItem"} /\ request'[g].op = "Update" =>
          \E v \in Version : Stored(request[g].policy, v)
    BY DEF NumberingInv, CounterBounds
  <2>5. \A g \in Handler : pc'[g] \in {"writeDelete", "increment", "policyItem"} /\ request'[g].version # 0 =>
          Stored(request[g].policy, request[g].version)
    BY DEF NumberingInv, CounterBounds
  <2> QED
    BY <2>1, <2>3, <2>4, <2>5 DEF CounterBounds, Stored
<1>3. VersionNumbersUnique'
  BY DEF NumberingInv, VersionNumbersUnique, Holds
<1> QED
  BY <1>1, <1>2, <1>3 DEF NumberingInv

\* Writing a policy message under a versioned id overwrites a document that exists.
LEMMA StoredAfterOverwrite ==
  ASSUME ShapeInv, NumberingInv, NEW h \in Handler, pc[h] \in {"policyItem", "writeDelete"},
         request[h].version # 0,
         versionDoc' = [versionDoc EXCEPT ![request[h].policy][request[h].version] = EmptyRego]
  PROVE  \A p \in Policy, v \in Version : Stored(p, v)' <=> Stored(p, v)
<1>1. request[h].policy \in Policy /\ request[h].version \in Version
  BY RequestFields, Active
<1>2. Stored(request[h].policy, request[h].version)
  BY <1>1 DEF NumberingInv, CounterBounds
<1>3. EmptyRego # Missing
  BY RegoAssumption, MissingApart
<1> QED
  BY <1>1, <1>2, <1>3 DEF Stored, ShapeInv, TypeOK

\* Every step keeps the numbering invariant when bulk items do not fail alone: the
\* counter is 1 before the first version is stored, and only grows.
THEOREM NumberingStep ==
  ASSUME ItemFaults = FALSE, IInv, [Next]_vars, ShapeInv' PROVE NumberingInv'
<1> USE DEF IInv
<1>1. CASE UNCHANGED vars
  BY <1>1 DEF vars, NumberingInv, CreationPrivate, CounterBounds, VersionNumbersUnique, Creating,
     Holds, Stored
<1>2. ASSUME NEW h \in Handler, Serve(h) PROVE NumberingInv'
  <2> DEFINE OthersSame == \A g \in Handler \ {h} :
                             pc'[g] = pc[g] /\ request'[g] = request[g] /\ newVersion'[g] = newVersion[g]
  <2>0. OthersSame
    BY <1>2, OthersUnchanged
  <2>a. pc \in [Handler -> Label] /\ request \in [Handler -> Request \cup {Missing}]
          /\ newVersion \in [Handler -> 0..MaxVersion] /\ counter \in [Policy -> 0..MaxVersion]
    BY DEF ShapeInv, TypeOK
  <2>b. \A p \in Policy : counter[p] \in Nat
    BY <2>a, Bounds
  <2>1. CASE RefuseCreate(h) \/ GetPolicy(h) \/ UpdatePolicy(h) \/ DeletePolicy(h)
    <3>1. pc'[h] \in {"getPolicy", "done"} /\ UNCHANGED store
      BY <2>1, <2>a DEF RefuseCreate, GetPolicy, UpdatePolicy, DeletePolicy, Accept, Refuse,
         Answer, Goto
    <3> QED
      BY <2>0, <2>b, <3>1, QuietStep DEF store, Stored
  <2>2. CASE PolicyNotFound(h) \/ VersionNotFound(h) \/ AnswerGet(h) \/ RefuseUpdate(h)
    <3>1. pc'[h] = "done" /\ UNCHANGED store
      BY <2>2, <2>a DEF PolicyNotFound, VersionNotFound, AnswerGet, RefuseUpdate,
         Refuse, Answer, Goto
    <3> QED
      BY <2>0, <2>b, <3>1, QuietStep DEF store, Stored
  <2>3. CASE BulkReply(h) \/ CallFails(h) \/ Deliver(h) \/ Abandon(h)
    <3>1. pc'[h] \in {"idle", "done"} /\ UNCHANGED store
      BY <2>3, <2>a DEF BulkReply, CallFails, Deliver, Abandon, Forget, Refuse, Answer, Goto
    <3> QED
      BY <2>0, <2>b, <3>1, QuietStep DEF store, Stored
  <2>4. CASE WriteDelete(h)
    <3>1. pc[h] = "writeDelete" /\ pc'[h] = "done" /\ UNCHANGED counter
      BY <2>4, <2>a DEF WriteDelete, Refuse, Answer, Goto
    <3>2. \A p \in Policy, v \in Version : Stored(p, v)' <=> Stored(p, v)
      <4>1. CASE request[h].version = 0
        BY <2>4, <4>1 DEF WriteDelete, Stored
      <4>2. CASE request[h].version # 0
        BY <2>4, <3>1, <4>2, StoredAfterOverwrite DEF WriteDelete
      <4> QED
        BY <4>1, <4>2
    <3> QED
      BY <2>0, <2>b, <3>1, <3>2, QuietStep
  <2>5. CASE IncrementLost(h)
    <3>1. /\ pc[h] = "increment" /\ pc'[h] = "done" /\ UNCHANGED versionDoc
          /\ counter' = [counter EXCEPT ![request[h].policy] = @ + 1]
          /\ request[h].policy \in Policy
      BY <2>5, <2>a, Active, RequestFields DEF IncrementLost, Refuse, Answer, Goto
    <3>2. \A p \in Policy, g \in Handler : Creating(g, p) => p # request[h].policy
      BY <3>1 DEF NumberingInv, CreationPrivate, Creating, BulkLabel
    <3>3. \A p \in Policy : counter'[p] >= counter[p] /\ (p # request[h].policy => counter'[p] = counter[p])
      BY <2>a, <2>b, <3>1
    <3> QED
      BY <2>0, <3>1, <3>2, <3>3, QuietStep DEF Stored
  <2>6. CASE ItemFails(h)
    BY <2>6 DEF ItemFails
  <2>7. CASE FetchPolicy(h)
    <3>1. /\ pc[h] = "getPolicy" /\ request[h] \in Request /\ request[h].policy \in Policy
          /\ newVersion[h] = 0 /\ request[h].op # "Create"
      BY <2>7, Active, RequestFields DEF FetchPolicy, ShapeInv, HandlerShape, BulkLabel
    <3>2. /\ pc'[h] \in {"getVersion", "writeDelete"}
          /\ UNCHANGED <<versionDoc, counter, request, newVersion>>
          /\ pc'[h] # "getVersion" /\ request[h].version # 0 => Stored(request[h].policy, request[h].version)
      BY <2>7, <2>a DEF FetchPolicy, DocumentFound, LooksUpVersion, Goto, store, Stored
    <3> QED
      BY <2>0, <3>1, <3>2, ReaderStep
  <2>8. CASE UpdateMetadata(h) \/ UpdateContent(h)
    <3>1. /\ pc[h] = "getVersion" /\ request[h] \in Request /\ request[h].policy \in Policy
          /\ newVersion[h] = 0 /\ request[h].op = "Update" /\ ReadVersion(h) \in Version
      BY <2>8, Active, RequestFields, DocumentEdits
         DEF UpdateMetadata, UpdateContent, UpdateRead, ReadVersion, ShapeInv, HandlerShape, BulkLabel
    <3>2. /\ pc'[h] \in {"increment", "policyItem"}
          /\ UNCHANGED <<versionDoc, counter, request, newVersion>>
          /\ Stored(request[h].policy, ReadVersion(h))
      BY <2>8, <2>a DEF UpdateMetadata, UpdateContent, UpdateRead, ReadContent, Goto, store, Stored
    <3>3. request[h].version # 0 => ReadVersion(h) = request[h].version
      BY DEF ReadVersion
    <3> QED
      BY <2>0, <3>1, <3>2, <3>3, ReaderStep
  <2>9. CASE IncrementVersionedId(h)
    <3>1. /\ pc[h] = "increment" /\ request[h] \in Request /\ request[h].policy \in Policy
          /\ newVersion[h] = 0 /\ request[h].op = "Update"
      BY <2>9, Active, RequestFields DEF IncrementVersionedId, Goto, ShapeInv, HandlerShape,
         BulkLabel
    <3>2. pc'[h] = "policyItem" /\ UNCHANGED <<versionDoc, counter, request, newVersion>>
      BY <2>9, <2>a DEF IncrementVersionedId, Goto, store
    <3> QED
      BY <2>0, <3>1, <3>2, ReaderStep DEF NumberingInv, CounterBounds
  <2>10. CASE CreatePolicy(h)
    <3>1. PICK q \in Policy :
            /\ Fresh(q) /\ pc[h] = "idle" /\ pc'[h] = "policyItem" /\ newVersion'[h] = 1
            /\ request'[h].policy = q /\ request'[h].op = "Create" /\ request'[h].version = 0
            /\ UNCHANGED store
      BY <2>10, <2>a DEF CreatePolicy, Accept, Message, Goto
    <3>2. /\ counter[q] = 0 /\ \A v \in Version : ~Stored(q, v)
          /\ \A g \in Handler : pc[g] \notin {"idle", "done"} => request[g].policy # q
      BY <3>1, MissingApart, Active DEF Fresh, Stored
    <3>3. CreationPrivate'
      BY <2>0, <3>1, <3>2 DEF NumberingInv, CreationPrivate, Creating, Stored, store, BulkLabel
    <3>4. CounterBounds'
      BY <2>0, <3>1, <3>2 DEF NumberingInv, CounterBounds, Stored, store, BulkLabel
    <3>5. VersionNumbersUnique'
      BY <2>0, <3>1, <3>2 DEF NumberingInv, VersionNumbersUnique, Holds, Stored, store
    <3> QED
      BY <3>3, <3>4, <3>5 DEF NumberingInv
  <2>11. CASE IncrementPolicyVersion(h)
    <3> DEFINE q == request[h].policy
               n == counter[q] + 1
    <3>1. /\ pc[h] = "increment" /\ pc'[h] = "policyItem" /\ q \in Policy
          /\ request' = request /\ request[h].op = "Update" /\ request[h].version = 0
          /\ newVersion'[h] = n /\ UNCHANGED versionDoc
          /\ counter' = [counter EXCEPT ![q] = n] /\ n \in Nat /\ n \in Version
      BY <2>11, <2>a, <2>b, Active, RequestFields, Bounds
         DEF IncrementPolicyVersion, Goto, ShapeInv, HandlerShape
    <3>2. /\ \A p \in Policy : p # q => counter'[p] = counter[p]
          /\ counter'[q] = n /\ counter[q] < n
      BY <2>a, <2>b, <3>1
    <3>3. \A g \in Handler : ~Creating(g, q)
      BY <3>1 DEF NumberingInv, CreationPrivate, Creating, BulkLabel
    <3>4. CreationPrivate'
      BY <2>0, <3>1, <3>2, <3>3 DEF NumberingInv, CreationPrivate, Creating, Stored, BulkLabel
    <3>5. ~Stored(q, n) /\ \A g \in Handler \ {h} : ~Holds(g, q, n)
      <4>1. ~Stored(q, n)
        BY <2>b, <3>1, <3>2 DEF NumberingInv, CounterBounds
      <4>2. ASSUME NEW g \in Handler, Holds(g, q, n) PROVE FALSE
        <5>1. pc[g] \in BulkLabel /\ newVersion[g] = n /\ request[g].policy = q /\ request[g].op = "Update"
          BY <3>3, <4>2 DEF Holds, Creating, BulkLabel, ShapeInv, HandlerShape
        <5> QED
          BY <2>b, <3>1, <3>2, <5>1 DEF NumberingInv, CounterBounds
      <4> QED
        BY <4>1, <4>2
    <3>6. CounterBounds'
      <4>1. \A p \in Policy : counter'[p] \in Nat /\ counter[p] <= counter'[p]
        BY <2>b, <3>1, <3>2
      <4>2. \A p \in Policy, v \in Version : Stored(p, v)' => v <= counter'[p]
        BY <2>b, <3>1, <4>1, Bounds DEF NumberingInv, CounterBounds, Stored
      <4>3. ASSUME NEW g \in Handler, pc'[g] \in BulkLabel, request'[g].op = "Update"
            PROVE  newVersion'[g] <= counter'[request'[g].policy]
        <5>1. CASE g = h
          BY <3>1, <3>2, <5>1
        <5>2. CASE g # h
          <6>1. newVersion[g] <= counter[request[g].policy] /\ request[g].policy \in Policy
            BY <2>0, <4>3, <5>2, Active, RequestFields DEF NumberingInv, CounterBounds, BulkLabel
          <6> QED
            BY <2>0, <2>a, <2>b, <3>1, <4>1, <5>2, <6>1, Bounds
        <5> QED
          BY <5>1, <5>2
      <4> QED
        BY <2>0, <3>1, <4>2, <4>3 DEF NumberingInv, CounterBounds, Stored
    <3>7. VersionNumbersUnique'
      BY <2>0, <3>1, <3>5 DEF NumberingInv, VersionNumbersUnique, Holds, Stored
    <3> QED
      BY <3>4, <3>6, <3>7 DEF NumberingInv
  <2>12. CASE WritePolicyItem(h)
    <3>1. /\ pc[h] = "policyItem" /\ pc'[h] = AfterPolicyItem(h)
          /\ UNCHANGED <<counter, request, newVersion>>
      BY <2>12, <2>a DEF WritePolicyItem, Goto
    <3>2. \A p \in Policy, v \in Version : Stored(p, v)' <=> Stored(p, v)
      <4>1. CASE request[h].version = 0
        BY <2>12, <4>1 DEF WritePolicyItem, Stored
      <4>2. CASE request[h].version # 0
        BY <2>12, <3>1, <4>2, StoredAfterOverwrite DEF WritePolicyItem
      <4> QED
        BY <4>1, <4>2
    <3>3. CreationPrivate'
      BY <2>0, <3>1, <3>2 DEF NumberingInv, CreationPrivate, Creating, AfterPolicyItem, BulkLabel
    <3>4. CounterBounds'
      BY <2>0, <3>1, <3>2, Active, RequestFields DEF NumberingInv, CounterBounds, AfterPolicyItem,
         BulkLabel, Stored
    <3>5. VersionNumbersUnique'
      BY <2>0, <3>1, <3>2 DEF NumberingInv, VersionNumbersUnique, Holds, AfterPolicyItem, Stored
    <3> QED
      BY <3>3, <3>4, <3>5 DEF NumberingInv
  <2>13. CASE WriteCounterItem(h)
    <3> DEFINE q == request[h].policy
    <3>1. /\ pc[h] = "counterItem" /\ pc'[h] = "versionItem" /\ q \in Policy
          /\ request[h].op = "Create" /\ counter' = [counter EXCEPT ![q] = 1]
          /\ UNCHANGED <<versionDoc, request, newVersion>>
      BY <2>13, <2>a, Active, RequestFields DEF WriteCounterItem, Goto, ShapeInv, HandlerShape
    <3>2. Creating(h, q) /\ counter[q] = 0
      BY <3>1 DEF Creating, NumberingInv, CreationPrivate
    <3>3. \A p \in Policy : p # q => counter'[p] = counter[p]
      BY <2>a, <3>1
    <3>4. counter'[q] = 1
      BY <2>a, <3>1
    <3>5. CreationPrivate'
      BY <2>0, <3>1, <3>2, <3>3, <3>4 DEF NumberingInv, CreationPrivate, Creating, Stored, BulkLabel
    <3>6. CounterBounds'
      BY <2>0, <3>1, <3>2, <3>3 DEF NumberingInv, CounterBounds, CreationPrivate, Stored, BulkLabel
    <3>7. VersionNumbersUnique'
      BY <2>0, <3>1 DEF NumberingInv, VersionNumbersUnique, Holds
    <3> QED
      BY <3>5, <3>6, <3>7 DEF NumberingInv
  <2>14. CASE WriteVersionItem(h)
    <3> DEFINE q == request[h].policy
               n == newVersion[h]
    <3>1. /\ pc[h] = "versionItem" /\ pc'[h] = "bulkReply" /\ q \in Policy
          /\ n \in Version /\ n \in Nat
          /\ versionDoc' = [versionDoc EXCEPT ![q][n] = request[h].rego]
          /\ UNCHANGED <<counter, request, newVersion>>
      BY <2>14, <2>a, Active, RequestFields, Bounds
         DEF WriteVersionItem, Goto, ShapeInv, HandlerShape, Version
    <3>2. \A p \in Policy, v \in Version : Stored(p, v)' => Stored(p, v) \/ (p = q /\ v = n)
      BY <3>1 DEF Stored, ShapeInv, TypeOK
    <3>3. \A p \in Policy, v \in Version : Stored(p, v) => Stored(p, v)'
      BY <3>1, MissingApart DEF Stored, ShapeInv, TypeOK, HandlerShape, BulkLabel
    <3>4. Holds(h, q, n) /\ n <= counter[q]
      <4>1. Holds(h, q, n)
        BY <3>1, Bounds DEF Holds
      <4>2. CASE request[h].op = "Create"
        BY <3>1, <4>1, <4>2 DEF Creating, NumberingInv, CreationPrivate, ShapeInv, HandlerShape,
           BulkLabel
      <4>3. CASE request[h].op = "Update"
        BY <3>1, <4>1, <4>3 DEF NumberingInv, CounterBounds, BulkLabel
      <4> QED
        BY <3>1, <4>1, <4>2, <4>3 DEF ShapeInv, HandlerShape, BulkLabel
    <3>5. \A g \in Handler : ~Creating(g, q) \/ g = h
      BY <3>1 DEF NumberingInv, CreationPrivate, Creating, BulkLabel
    <3>6. CreationPrivate'
      BY <2>0, <3>1, <3>2, <3>5 DEF NumberingInv, CreationPrivate, Creating, BulkLabel
    <3>7. CounterBounds'
      BY <2>0, <3>1, <3>2, <3>3, <3>4, Active, RequestFields
         DEF NumberingInv, CounterBounds, BulkLabel, Stored
    <3>8. VersionNumbersUnique'
      BY <2>0, <3>1, <3>2, <3>4 DEF NumberingInv, VersionNumbersUnique, Holds, Stored
    <3> QED
      BY <3>6, <3>7, <3>8 DEF NumberingInv
  <2>15. CASE VersionConflict(h)
    <3>1. pc[h] = "versionItem" /\ pc'[h] = "bulkReply" /\ UNCHANGED <<store, request, newVersion>>
      BY <2>15, <2>a DEF VersionConflict, Goto
    <3>2. CreationPrivate'
      BY <2>0, <3>1 DEF NumberingInv, CreationPrivate, Creating, Stored, store, BulkLabel
    <3>3. CounterBounds'
      BY <2>0, <3>1 DEF NumberingInv, CounterBounds, Stored, store, BulkLabel
    <3>4. VersionNumbersUnique'
      BY <2>0, <3>1 DEF NumberingInv, VersionNumbersUnique, Holds, store
    <3> QED
      BY <3>2, <3>3, <3>4 DEF NumberingInv
  <2> QED
    BY <1>2, <2>1, <2>2, <2>3, <2>4, <2>5, <2>6, <2>7, <2>8,
       <2>9, <2>10, <2>11, <2>12, <2>13, <2>14, <2>15 DEF Serve
<1> QED
  BY <1>1, <1>2 DEF Next

----------------------------------------------------------------------------
(***************************************************************************)
(* Pointers.                                                               *)
(***************************************************************************)

\* What has landed stays: version documents are never removed, and a bulk whose
\* first item is applied is applied to its end.
LEMMA LandedStays ==
  ASSUME ItemFaults = FALSE, ShapeInv, NumberingInv, NEW h \in Handler, Serve(h),
         NEW p \in Policy, NEW v \in Version, Landed(p, v)
  PROVE  Landed(p, v)'
<1>1. ASSUME Stored(p, v) PROVE Stored(p, v)'
  <2>1. EmptyRego # Missing
    BY RegoAssumption, MissingApart
  <2>2. CASE WritePolicyItem(h)
    <3>1. CASE request[h].version = 0
      BY <1>1, <2>2, <3>1 DEF WritePolicyItem, Stored
    <3>2. CASE request[h].version # 0
      BY <1>1, <2>2, <3>2, StoredAfterOverwrite DEF WritePolicyItem
    <3> QED
      BY <3>1, <3>2
  <2>3. CASE WriteVersionItem(h)
    BY <1>1, <2>3, MissingApart DEF WriteVersionItem, Stored, ShapeInv, TypeOK, HandlerShape,
       BulkLabel
  <2>4. CASE WriteDelete(h)
    <3>1. CASE request[h].version = 0
      BY <1>1, <2>4, <3>1 DEF WriteDelete, Stored
    <3>2. CASE request[h].version # 0
      BY <1>1, <2>4, <3>2, StoredAfterOverwrite DEF WriteDelete
    <3> QED
      BY <3>1, <3>2
  <2>5. ASSUME ~WritePolicyItem(h), ~WriteVersionItem(h), ~WriteDelete(h) PROVE UNCHANGED versionDoc
    BY <1>1, <2>5 DEF Serve, CreatePolicy, RefuseCreate, GetPolicy, UpdatePolicy, DeletePolicy,
       PolicyNotFound, FetchPolicy, VersionNotFound, AnswerGet, RefuseUpdate, UpdateMetadata, UpdateContent,
       IncrementPolicyVersion, IncrementVersionedId, IncrementLost, WriteCounterItem,
       VersionConflict, ItemFails, BulkReply, CallFails, Deliver, Abandon, Forget, store
  <2> QED
    BY <1>1, <2>2, <2>3, <2>4, <2>5 DEF Stored
<1>2. ASSUME NEW g \in Handler, g # h, Holds(g, p, v), pc[g] # "policyItem" PROVE Landed(p, v)'
  BY <1>2, OthersUnchanged DEF Landed, Holds
<1>3. ASSUME Holds(h, p, v), pc[h] # "policyItem" PROVE Landed(p, v)'
  <2>1. pc[h] \in {"counterItem", "versionItem"} /\ request[h].policy = p /\ newVersion[h] = v
    BY <1>3 DEF Holds
  <2>2. WriteCounterItem(h) \/ WriteVersionItem(h) \/ VersionConflict(h) \/ ItemFails(h)
    BY <2>1 DEF Serve, CreatePolicy, RefuseCreate, GetPolicy, UpdatePolicy, DeletePolicy,
       PolicyNotFound, FetchPolicy, VersionNotFound, AnswerGet, RefuseUpdate, UpdateRead, UpdateMetadata, UpdateContent,
       IncrementPolicyVersion, IncrementVersionedId, IncrementLost, WritePolicyItem,
       BulkReply, WriteDelete, CallFails, Deliver, Abandon, Accept, Refuse, Answer, Goto
  <2>3. CASE WriteCounterItem(h)
    BY <1>3, <2>1, <2>3 DEF WriteCounterItem, Goto, Landed, Holds, ShapeInv, TypeOK
  <2>4. CASE WriteVersionItem(h)
    BY <2>1, <2>4, MissingApart DEF WriteVersionItem, Landed, ShapeInv, TypeOK, HandlerShape,
       BulkLabel
  <2>5. CASE VersionConflict(h)
    BY <2>1, <2>5 DEF VersionConflict, Landed, store
  <2> QED
    BY <2>2, <2>3, <2>4, <2>5 DEF ItemFails
<1> QED
  BY <1>1, <1>2, <1>3 DEF Landed, Stored

\* Every step keeps the pointers, stored or copied, on versions that have landed.
LEMMA PointerStep ==
  ASSUME ItemFaults = FALSE, IInv, [Next]_vars, ShapeInv' PROVE PointerInv'
<1> USE DEF IInv
<1>1. CASE UNCHANGED vars
  BY <1>1 DEF vars, PointerInv, CurrentVersionStored, Landed, Holds
<1>2. ASSUME NEW h \in Handler, Serve(h) PROVE PointerInv'
  <2> DEFINE Copies(g) == \/ pc[g] \in {"getVersion", "increment"}
                          \/ pc[g] \in BulkLabel /\ newVersion[g] = 0
                          \/ pc[g] = "writeDelete" /\ request[g].version = 0
             Points(g) == Landed(request[g].policy, snapshot[g].currentVersion)
  <2>a. \A p \in Policy, v \in Version : Landed(p, v) => Landed(p, v)'
    BY <1>2, LandedStays
  <2>b. \A g \in Handler : Copies(g) =>
          /\ Points(g) /\ request[g].policy \in Policy
          /\ snapshot[g].currentVersion \in Version /\ snapshot[g] \in PolicyDocument
    BY Active, RequestFields, DocumentEdits DEF PointerInv, ShapeInv, HandlerShape, BulkLabel
  <2>c. \A g \in Handler \ {h} : /\ pc'[g] = pc[g] /\ request'[g] = request[g]
                                 /\ newVersion'[g] = newVersion[g]
    BY <1>2, OthersUnchanged
  <2>d. \A g \in Handler \ {h} : snapshot'[g] = snapshot[g]
    BY <1>2, OthersUnchanged
  <2>e. \A p \in Policy : policyDoc[p] # Missing =>
          policyDoc[p] \in PolicyDocument /\ policyDoc[p].currentVersion \in Version
                     /\ Landed(p, policyDoc[p].currentVersion)
    BY DocumentEdits DEF ShapeInv, TypeOK, PointerInv, CurrentVersionStored
  <2>1. ASSUME NEW g \in Handler \ {h}, Copies(g)' PROVE Points(g)'
    <3>1. Copies(g)
      BY <2>1, <2>c
    <3> QED
      BY <2>a, <2>b, <2>c, <2>d, <3>1 DEF Landed, Holds
  <2>2. ASSUME Copies(h)' PROVE Points(h)'
    <3>1. CASE FetchPolicy(h)
      <4>1. /\ pc[h] = "getPolicy" /\ request[h].policy \in Policy /\ request' = request
            /\ request[h].op = "Delete" => pc'[h] = "writeDelete"
        BY <3>1, Active, RequestFields DEF FetchPolicy, Goto, ShapeInv, TypeOK
      <4>2. ~LooksUpVersion(h)
        BY <2>2, <3>1, <4>1 DEF LooksUpVersion, BulkLabel
      <4>3. snapshot'[h] = policyDoc[request[h].policy] /\ policyDoc[request[h].policy] # Missing
        BY <3>1, <4>2 DEF FetchPolicy, DocumentFound, ShapeInv, TypeOK
      <4> QED
        BY <2>a, <2>e, <4>1, <4>3 DEF Landed, Holds
    <3>2. CASE UpdateMetadata(h) \/ UpdateContent(h)
      <4>1. pc[h] = "getVersion" /\ request' = request /\ snapshot' = [snapshot EXCEPT ![h] = EditedCopy(h)]
        BY <3>2 DEF UpdateMetadata, UpdateContent, UpdateRead
      <4>2. EditedCopy(h).currentVersion = snapshot[h].currentVersion
        BY <2>b, <4>1 DEF EditedCopy, PolicyDocument
      <4>3. snapshot'[h].currentVersion = snapshot[h].currentVersion
        BY <4>1, <4>2 DEF ShapeInv, TypeOK
      <4> QED
        BY <2>a, <2>b, <4>1, <4>3 DEF Landed, Holds
    <3>3. CASE IncrementVersionedId(h) \/ WritePolicyItem(h)
      <4>1. Copies(h) /\ request' = request /\ snapshot' = snapshot
        BY <2>2, <3>3 DEF IncrementVersionedId, WritePolicyItem, Goto, ShapeInv, HandlerShape,
           BulkLabel
      <4> QED
        BY <2>a, <2>b, <4>1 DEF Landed, Holds
    <3>4. CASE IncrementPolicyVersion(h)
      <4>1. newVersion'[h] # 0 /\ pc'[h] = "policyItem"
        BY <3>4, Bounds, Active, RequestFields DEF IncrementPolicyVersion, Goto, ShapeInv, TypeOK
      <4> QED
        BY <2>2, <4>1
    <3>5. CASE CreatePolicy(h)
      <4>1. newVersion'[h] # 0 /\ pc'[h] = "policyItem"
        BY <3>5 DEF CreatePolicy, Accept, Goto, ShapeInv, TypeOK
      <4> QED
        BY <2>2, <4>1
    <3>6. CASE WriteCounterItem(h) \/ WriteVersionItem(h) \/ VersionConflict(h)
      <4>1. newVersion'[h] # 0 /\ pc'[h] \in {"versionItem", "bulkReply"}
        BY <3>6 DEF WriteCounterItem, WriteVersionItem, VersionConflict, Goto, ShapeInv, TypeOK,
           HandlerShape, BulkLabel
      <4> QED
        BY <2>2, <4>1
    <3>7. ASSUME pc'[h] \in {"idle", "getPolicy", "done"} PROVE FALSE
      BY <2>2, <3>7 DEF BulkLabel
    <3> QED
      BY <1>2, <3>1, <3>2, <3>3, <3>4, <3>5, <3>6, <3>7
         DEF Serve, RefuseCreate, GetPolicy, UpdatePolicy, DeletePolicy, PolicyNotFound, VersionNotFound,
         AnswerGet, RefuseUpdate, IncrementLost, ItemFails, BulkReply, WriteDelete,
         CallFails, Deliver, Abandon, Forget, Accept, Refuse, Answer, Goto, ShapeInv, TypeOK
  <2>3. CurrentVersionStored'
    <3>1. CASE WritePolicyItem(h) /\ request[h].version = 0
      <4>0. PICK q \in Policy, c \in Version : q = request[h].policy /\ c = snapshot[h].currentVersion
        BY <3>1, Active, RequestFields, DocumentEdits DEF WritePolicyItem, ShapeInv, HandlerShape,
           BulkLabel
      <4>1. /\ pc[h] = "policyItem" /\ policyDoc' = [policyDoc EXCEPT ![q] = snapshot[h]]
            /\ pc'[h] = AfterPolicyItem(h) /\ UNCHANGED <<request, newVersion, snapshot>>
        BY <3>1, <4>0 DEF WritePolicyItem, Goto, ShapeInv, TypeOK
      <4>2. Landed(q, c)'
        <5>1. CASE newVersion[h] = 0
          <6>1. Landed(q, c)
            BY <2>b, <4>0, <4>1, <5>1 DEF BulkLabel
          <6> QED
            BY <2>a, <6>1
        <5>2. CASE newVersion[h] # 0
          <6>1. c = newVersion[h]
            BY <4>0, <4>1, <5>2 DEF ShapeInv, HandlerShape, BulkLabel
          <6> QED
            BY <4>0, <4>1, <5>2, <6>1 DEF AfterPolicyItem, Landed, Holds
        <5> QED
          BY <5>1, <5>2
      <4>3. \A p \in Policy : policyDoc'[p] = IF p = q THEN snapshot[h] ELSE policyDoc[p]
        BY <4>1 DEF ShapeInv, TypeOK
      <4>4. ASSUME NEW p \in Policy, p # q, policyDoc[p] # Missing
            PROVE  Landed(p, policyDoc[p].currentVersion)'
        <5>1. PICK v \in Version : v = policyDoc[p].currentVersion /\ Landed(p, v)
          BY <2>e, <4>4
        <5>2. Landed(p, v)'
          BY <2>a, <5>1
        <5> QED
          BY <4>3, <4>4, <5>1, <5>2 DEF Landed, Holds
      <4> QED
        BY <4>0, <4>2, <4>3, <4>4 DEF CurrentVersionStored, Landed, Holds
    <3>2. CASE WriteDelete(h) /\ request[h].version = 0
      <4> DEFINE q == request[h].policy
                 d == [snapshot[h] EXCEPT !.deleted = TRUE]
      <4>1. q \in Policy /\ Points(h) /\ snapshot[h] \in PolicyDocument
        BY <2>b, <3>2 DEF WriteDelete
      <4>2. d.currentVersion = snapshot[h].currentVersion /\ snapshot[h].currentVersion \in Version
        BY <4>1, DocumentEdits DEF PolicyDocument
      <4>3. policyDoc' = [policyDoc EXCEPT ![q] = d]
        BY <3>2 DEF WriteDelete
      <4> HIDE DEF d
      <4>4. \A p \in Policy : policyDoc'[p] = IF p = q THEN d ELSE policyDoc[p]
        BY <4>3 DEF ShapeInv, TypeOK
      <4> QED
        BY <2>a, <2>e, <4>1, <4>2, <4>4 DEF CurrentVersionStored, Landed, Holds
    <3>3. CASE UNCHANGED policyDoc
      BY <2>a, <2>e, <3>3 DEF CurrentVersionStored, Landed, Holds
    <3> QED
      BY <1>2, <3>1, <3>2, <3>3
         DEF Serve, CreatePolicy, RefuseCreate, GetPolicy, UpdatePolicy, DeletePolicy,
         PolicyNotFound, FetchPolicy, VersionNotFound, AnswerGet, RefuseUpdate, UpdateMetadata, UpdateContent,
         IncrementPolicyVersion, IncrementVersionedId, IncrementLost, WritePolicyItem, WriteDelete,
         WriteCounterItem, WriteVersionItem, VersionConflict, ItemFails, BulkReply, CallFails, Deliver, Abandon, Forget, store
  <2> QED
    BY <2>1, <2>2, <2>3 DEF PointerInv
<1> QED
  BY <1>1, <1>2 DEF Next

----------------------------------------------------------------------------
(***************************************************************************)
(* Answers, with plain ids.                                                *)
(***************************************************************************)

\* With plain ids no step changes a stored version: UpdatePolicy and DeletePolicy
\* write policy documents, and BULK_CREATE does not overwrite.
LEMMA PlainWrites ==
  ASSUME ShapeInv, AnswerInv, NEW h \in Handler, Serve(h),
         NEW p \in Policy, NEW v \in Version, Stored(p, v)
  PROVE  versionDoc'[p][v] = versionDoc[p][v]
<1>1. CASE WritePolicyItem(h)
  <2>1. request[h].version = 0
    BY <1>1 DEF WritePolicyItem, AnswerInv, ShapeInv, HandlerShape, BulkLabel
  <2> QED
    BY <1>1, <2>1 DEF WritePolicyItem
<1>2. CASE WriteDelete(h)
  <2>1. request[h].version = 0
    BY <1>2 DEF WriteDelete, AnswerInv, ShapeInv, HandlerShape, LooksUpVersion
  <2> QED
    BY <1>2, <2>1 DEF WriteDelete
<1>3. CASE WriteVersionItem(h)
  BY <1>3 DEF WriteVersionItem, Stored, ShapeInv, TypeOK
<1> QED
  BY <1>1, <1>2, <1>3
     DEF Serve, CreatePolicy, RefuseCreate, GetPolicy, UpdatePolicy, DeletePolicy,
     PolicyNotFound, FetchPolicy, VersionNotFound, AnswerGet, RefuseUpdate, UpdateMetadata, UpdateContent,
     IncrementPolicyVersion, IncrementVersionedId, IncrementLost,
     WriteCounterItem, VersionConflict, ItemFails, BulkReply, CallFails, Deliver, Abandon, Forget, store

\* Every step keeps the answers true and the pending answers prepared.
LEMMA AnswerStep ==
  ASSUME IdVersions = {0}, ShapeInv, AnswerInv, [Next]_vars, ShapeInv' PROVE AnswerInv'
<1>1. CASE UNCHANGED vars
  BY <1>1 DEF vars, AnswerInv, AnswersStayTrue
<1>2. ASSUME NEW h \in Handler, Serve(h) PROVE AnswerInv'
  <2> DEFINE Plain(g) == pc[g] \notin {"idle", "done"} /\ request[g].op # "Get" => request[g].version = 0
             Ready(g) == \/ pc[g] = "policyItem" /\ newVersion[g] = 0
                         \/ pc[g] = "bulkReply" /\ ~bulkFailed[g]
             Prepared(g) == \/ bulkFailed[g]
                            \/ versionDoc[request[g].policy][snapshot[g].currentVersion] = request[g].rego
             Answered(g) == pc[g] = "done" /\ reply[g].code = "OK" /\ reply[g].version # 0
             Typed(g) == reply[g].version \in Version /\ reply[g].rego \in Rego
             Correct(g) == versionDoc[request[g].policy][reply[g].version] = reply[g].rego
  <2>a. \A p \in Policy, v \in Version : Stored(p, v) => versionDoc'[p][v] = versionDoc[p][v]
    BY <1>2, PlainWrites
  <2>b. \A g \in Handler \ {h} :
          /\ pc'[g] = pc[g] /\ request'[g] = request[g] /\ newVersion'[g] = newVersion[g]
          /\ snapshot'[g] = snapshot[g] /\ bulkFailed'[g] = bulkFailed[g] /\ reply'[g] = reply[g]
    BY <1>2, OthersUnchanged
  <2>c. \A g \in Handler : Plain(g) /\ (Ready(g) => Prepared(g)) /\ (Answered(g) => Correct(g) /\ Typed(g))
    BY DEF AnswerInv, AnswersStayTrue
  <2>1. \A g \in Handler : Plain(g)'
    <3>1. CASE CreatePolicy(h) \/ GetPolicy(h) \/ UpdatePolicy(h) \/ DeletePolicy(h)
      <4>1. request'[h].op # "Get" => request'[h].version = 0
        BY <3>1 DEF CreatePolicy, GetPolicy, UpdatePolicy, DeletePolicy, Accept, Message,
           ShapeInv, TypeOK
      <4> QED
        BY <2>b, <2>c, <4>1
    <3>2. CASE RefuseCreate(h) \/ Deliver(h) \/ Abandon(h)
      <4>1. pc'[h] \in {"done", "idle"}
        BY <3>2 DEF RefuseCreate, Deliver, Abandon, Forget, Refuse, Answer, Goto, ShapeInv, TypeOK
      <4> QED
        BY <2>b, <2>c, <4>1
    <3>3. ASSUME pc[h] \notin {"idle", "done"}, UNCHANGED request PROVE \A g \in Handler : Plain(g)'
      BY <2>b, <2>c, <3>3
    <3> QED
      BY <1>2, <3>1, <3>2, <3>3
         DEF Serve, PolicyNotFound, FetchPolicy, VersionNotFound, AnswerGet, RefuseUpdate, UpdateRead,
         UpdateMetadata, UpdateContent, IncrementPolicyVersion, IncrementVersionedId, IncrementLost, WritePolicyItem, WriteCounterItem, WriteVersionItem, VersionConflict, ItemFails,
         BulkReply, WriteDelete, CallFails, Refuse, Answer, Goto
  <2>2. ASSUME NEW g \in Handler, Ready(g)' PROVE Prepared(g)'
    <3>1. CASE g # h
      <4>1. /\ Prepared(g) /\ request[g].policy \in Policy /\ request[g].rego \in Rego
            /\ snapshot[g].currentVersion \in Version
        BY <2>2, <2>b, <2>c, <3>1, Active, RequestFields, DocumentEdits, ZenonT(60) DEF ShapeInv,
           HandlerShape, BulkLabel
      <4> QED
        BY <2>a, <2>b, <3>1, <4>1, MissingApart DEF Stored
    <3>2. CASE UpdateMetadata(h) /\ g = h
      <4>1. /\ request[h].version = 0 /\ request[h].rego = ReadContent(h)
            /\ EditedCopy(h).currentVersion = snapshot[h].currentVersion
            /\ UNCHANGED <<request, versionDoc>>
        BY <2>c, <3>2, Active DEF UpdateMetadata, UpdateRead, EditedCopy, ShapeInv, HandlerShape,
           PolicyDocument, store
      <4>2. snapshot'[h] = EditedCopy(h)
        BY <3>2 DEF UpdateMetadata, ShapeInv, TypeOK
      <4> QED
        BY <3>2, <4>1, <4>2 DEF ReadContent, ReadVersion
    <3>3. CASE WritePolicyItem(h) /\ g = h
      <4>1. pc[h] = "policyItem" /\ request[h].version = 0 /\ newVersion'[h] = newVersion[h] /\ bulkFailed' = bulkFailed
        BY <2>c, <3>3 DEF WritePolicyItem, ShapeInv, HandlerShape, BulkLabel
      <4>2. Ready(h) /\ UNCHANGED <<versionDoc, request, snapshot>>
        BY <2>2, <3>3, <4>1 DEF WritePolicyItem, AfterPolicyItem, Goto, ShapeInv, TypeOK,
           HandlerShape, BulkLabel
      <4> QED
        BY <2>c, <3>3, <4>1, <4>2
    <3>4. CASE WriteVersionItem(h) /\ g = h
      <4>1. /\ request[h].policy \in Policy /\ newVersion[h] \in Version
            /\ snapshot[h].currentVersion = newVersion[h]
        BY <3>4, Active, RequestFields DEF WriteVersionItem, ShapeInv, TypeOK, HandlerShape,
           BulkLabel, Version
      <4> QED
        BY <3>4, <4>1 DEF WriteVersionItem, ShapeInv, TypeOK
    <3>5. CASE (VersionConflict(h) \/ ItemFails(h)) /\ g = h
      BY <3>5 DEF VersionConflict, ItemFails, ShapeInv, TypeOK
    <3>6. CASE IncrementPolicyVersion(h) /\ g = h
      <4>1. newVersion'[h] # 0 /\ pc'[h] = "policyItem"
        BY <3>6, Bounds, Active, RequestFields DEF IncrementPolicyVersion, Goto, ShapeInv, TypeOK
      <4> QED
        BY <2>2, <3>6, <4>1
    <3>7. CASE CreatePolicy(h) /\ g = h
      <4>1. newVersion'[h] # 0 /\ pc'[h] = "policyItem"
        BY <3>7 DEF CreatePolicy, Accept, Goto, ShapeInv, TypeOK
      <4> QED
        BY <2>2, <3>7, <4>1
    <3>8. CASE IncrementVersionedId(h) /\ g = h
      BY <2>c, <3>8 DEF IncrementVersionedId, Goto, ShapeInv, HandlerShape
    <3>9. pc'[h] \in {"policyItem", "bulkReply"} =>
            \/ UpdateMetadata(h) \/ WritePolicyItem(h) \/ WriteVersionItem(h) \/ VersionConflict(h) \/ ItemFails(h)
            \/ IncrementPolicyVersion(h) \/ CreatePolicy(h) \/ IncrementVersionedId(h)
      BY <1>2 DEF Serve, RefuseCreate, GetPolicy, UpdatePolicy, DeletePolicy, PolicyNotFound,
         FetchPolicy,
         VersionNotFound, AnswerGet, RefuseUpdate, UpdateContent, IncrementLost, WriteCounterItem,
         BulkReply, WriteDelete, CallFails, Deliver, Abandon, Forget, Accept, Refuse, Answer, Goto, ShapeInv, TypeOK
    <3> QED
      BY <2>2, <3>1, <3>2, <3>3, <3>4, <3>5, <3>6, <3>7, <3>8, <3>9
  <2>3. ASSUME NEW g \in Handler, Answered(g)' PROVE Correct(g)' /\ Typed(g)'
    <3>1. CASE g # h
      <4>1. /\ Correct(g) /\ reply[g].rego \in Rego /\ request[g].policy \in Policy
            /\ reply[g].version \in Version
        BY <2>3, <2>b, <2>c, <3>1, RequestFields DEF ShapeInv, HandlerShape
      <4> QED
        BY <2>a, <2>b, <3>1, <4>1, MissingApart DEF Stored
    <3>2. CASE AnswerGet(h) /\ g = h
      <4>1. /\ request[h].policy \in Policy /\ ReadVersion(h) \in Version
            /\ ReadContent(h) \in Rego
        <5>1. request[h] \in Request /\ snapshot[h] \in PolicyDocument
          BY <3>2, Active DEF AnswerGet, ShapeInv, HandlerShape
        <5>2. ReadVersion(h) \in Version /\ request[h].policy \in Policy
          BY <5>1, RequestFields, DocumentEdits DEF ReadVersion
        <5> QED
          BY <3>2, <5>2 DEF AnswerGet, ReadContent, ShapeInv, TypeOK
      <4>2. reply'[h].version = ReadVersion(h) /\ reply'[h].rego = ReadContent(h)
        BY <3>2 DEF AnswerGet, Answer, ShapeInv, TypeOK
      <4> QED
        BY <3>2, <4>1, <4>2 DEF AnswerGet, ReadContent, store
    <3>3. CASE BulkReply(h) /\ g = h
      <4>1. pc[h] = "bulkReply" /\ request[h].version = 0 /\ request[h].rego \in Rego
              /\ snapshot[h].currentVersion \in Version
        BY <2>c, <3>3, DocumentEdits DEF BulkReply, ShapeInv, HandlerShape, BulkLabel
      <4>2. CASE bulkFailed[h]
        BY <2>3, <3>3, <4>2 DEF BulkReply, Refuse, Answer, ShapeInv, TypeOK
      <4>3. CASE ~bulkFailed[h]
        <5>1. versionDoc[request[h].policy][snapshot[h].currentVersion] = request[h].rego
          BY <2>c, <4>1, <4>3
        <5>2. reply'[h].version = snapshot[h].currentVersion /\ reply'[h].rego = request[h].rego
          BY <2>3, <3>3, <4>1, <4>3 DEF BulkReply, Refuse, Answer, ShapeInv, TypeOK
        <5> QED
          BY <3>3, <4>1, <5>1, <5>2 DEF BulkReply, store
      <4> QED
        BY <4>2, <4>3 DEF ShapeInv, TypeOK
    <3>4. CASE g = h /\ ~AnswerGet(h) /\ ~BulkReply(h)
      <4>1. CASE \/ RefuseCreate(h) \/ PolicyNotFound(h) \/ VersionNotFound(h) \/ RefuseUpdate(h)
                \/ IncrementLost(h) \/ WriteDelete(h) \/ CallFails(h)
        <5>1. reply'[h].version = 0
          BY <4>1 DEF RefuseCreate, PolicyNotFound, VersionNotFound, RefuseUpdate, IncrementLost, WriteDelete, CallFails, Refuse, Answer, ShapeInv, TypeOK
        <5> QED
          BY <2>3, <3>4, <5>1
      <4>2. CASE \/ CreatePolicy(h) \/ GetPolicy(h) \/ UpdatePolicy(h) \/ DeletePolicy(h) \/ FetchPolicy(h)
                \/ UpdateMetadata(h) \/ UpdateContent(h) \/ IncrementPolicyVersion(h) \/ IncrementVersionedId(h)
                \/ WritePolicyItem(h) \/ WriteCounterItem(h) \/ WriteVersionItem(h) \/ VersionConflict(h)
                \/ ItemFails(h) \/ Deliver(h) \/ Abandon(h)
        <5>1. pc'[h] # "done"
          BY <4>2 DEF CreatePolicy, GetPolicy, UpdatePolicy, DeletePolicy, FetchPolicy,
             UpdateMetadata,
             UpdateContent, IncrementPolicyVersion, IncrementVersionedId, WritePolicyItem, WriteCounterItem,
             WriteVersionItem, VersionConflict, ItemFails, AfterPolicyItem, Deliver, Abandon, Forget,
             Accept, Goto, ShapeInv, TypeOK
        <5> QED
          BY <2>3, <3>4, <5>1
      <4> QED
        BY <1>2, <3>4, <4>1, <4>2 DEF Serve
    <3> QED
      BY <3>1, <3>2, <3>3, <3>4
  <2> QED
    BY <2>1, <2>2, <2>3 DEF AnswerInv, AnswersStayTrue
<1> QED
  BY <1>1, <1>2 DEF Next

----------------------------------------------------------------------------
(***************************************************************************)
(* The theorems.                                                           *)
(***************************************************************************)

\* The empty index and the idle handlers have the shape.
LEMMA InitShape == Init => ShapeInv
  BY Bounds DEF Init, ShapeInv, TypeOK, HandlerShape, Label, BulkLabel

\* The empty index satisfies the inductive invariant.
LEMMA InitInv == Init => IInv
<1> SUFFICES ASSUME Init PROVE IInv
  OBVIOUS
<1>1. ShapeInv
  BY InitShape
<1>2. NumberingInv
  BY DEF Init, NumberingInv, CreationPrivate, CounterBounds, VersionNumbersUnique, Creating,
     Holds, Stored, BulkLabel
<1>3. PointerInv
  BY DEF Init, PointerInv, CurrentVersionStored, BulkLabel
<1> QED
  BY <1>1, <1>2, <1>3 DEF IInv

\* Nothing has been answered yet.
LEMMA InitAnswer == Init => AnswerInv
  BY DEF Init, AnswerInv, AnswersStayTrue

\* The handlers keep their shape in every behaviour, whatever fails.
THEOREM ShapeHolds == Spec => []ShapeInv
<1>1. Init => ShapeInv
  BY InitShape
<1>2. ShapeInv /\ [Next]_vars => ShapeInv'
  BY ShapeStep
<1> QED
  BY <1>1, <1>2, PTL DEF Spec

\* Type correctness of the policy manager, for every number of handlers, policies
\* and versions, and whatever calls and bulk items fail.
THEOREM TypeCorrect == Spec => []TypeOK
<1>1. ShapeInv => TypeOK
  BY DEF ShapeInv
<1> QED
  BY <1>1, ShapeHolds, PTL

\* The inductive invariant holds as long as bulk items do not fail alone.
THEOREM InvariantHolds == ASSUME ItemFaults = FALSE PROVE Spec => []IInv
<1>1. Init => IInv
  BY InitInv
<1>2. IInv /\ [Next]_vars => IInv'
  BY ShapeStep, NumberingStep, PointerStep DEF IInv
<1> QED
  BY <1>1, <1>2, PTL DEF Spec

\* incrementPolicyVersion is a correct allocator: however many handlers and replicas
\* update a policy at once, no two hold the same number and no BULK_CREATE conflicts.
THEOREM UniqueNumbers == ASSUME ItemFaults = FALSE PROVE Spec => []VersionNumbersUnique
<1>1. IInv => VersionNumbersUnique
  BY DEF IInv, NumberingInv
<1> QED
  BY <1>1, InvariantHolds, PTL

\* The current version of a policy is always stored, or being stored by the bulk that
\* moved the pointer, however the handlers interleave and wherever they are abandoned.
THEOREM NoDanglingPointer == ASSUME ItemFaults = FALSE PROVE Spec => []CurrentVersionStored
<1>1. IInv => CurrentVersionStored
  BY DEF IInv, PointerInv
<1> QED
  BY <1>1, InvariantHolds, PTL

\* With plain ids the answer invariant holds, whatever fails.
THEOREM AnswerInvariantHolds == ASSUME IdVersions = {0} PROVE Spec => [](ShapeInv /\ AnswerInv)
<1>1. Init => ShapeInv /\ AnswerInv
  BY InitShape, InitAnswer
<1>2. (ShapeInv /\ AnswerInv) /\ [Next]_vars => (ShapeInv /\ AnswerInv)'
  BY ShapeStep, AnswerStep
<1> QED
  BY <1>1, <1>2, PTL DEF Spec

\* What GetPolicy, CreatePolicy and UpdatePolicy answered about a version stays true
\* under any interleaving and any failure, as long as update and delete ids are plain.
THEOREM TrueAnswers == ASSUME IdVersions = {0} PROVE Spec => []AnswersStayTrue
<1>1. AnswerInv => AnswersStayTrue
  BY DEF AnswerInv
<1> QED
  BY <1>1, AnswerInvariantHolds, PTL

\* Policy contents are immutable under any interleaving and any failure, as long as
\* update and delete ids are plain.
THEOREM ImmutableVersions == ASSUME IdVersions = {0} PROVE Spec => VersionsWriteOnce
<1> DEFINE WriteOnce == \A p \in Policy, v \in Version :
                          versionDoc[p][v] # Missing => versionDoc'[p][v] = versionDoc[p][v]
<1>1. (ShapeInv /\ AnswerInv) /\ [Next]_vars => [WriteOnce]_vars
  BY PlainWrites DEF Next, Stored
<1> QED
  BY <1>1, AnswerInvariantHolds, PTL DEF Spec, VersionsWriteOnce

----------------------------------------------------------------------------
(***************************************************************************)
(* Answers without faults.                                                 *)
(***************************************************************************)

BulksWhole == \A h \in Handler : ~bulkFailed[h]

\* Without faults no item of a bulk fails: the number of a version that is about to be
\* created is not stored.
LEMMA BulksStayWhole ==
  ASSUME ItemFaults = FALSE, IInv, BulksWhole, [Next]_vars
  PROVE  BulksWhole'
<1> USE DEF BulksWhole
<1>1. CASE UNCHANGED vars
  BY <1>1 DEF vars
<1>2. ASSUME NEW h \in Handler, Serve(h)
      PROVE  BulksWhole'
  <2>1. ~VersionConflict(h)
    <3> SUFFICES ASSUME VersionConflict(h) PROVE FALSE
      OBVIOUS
    <3>1. /\ pc[h] = "versionItem" /\ newVersion[h] # 0 /\ request[h].policy \in Policy
          /\ newVersion[h] \in Version
      BY RequestFields, Bounds DEF VersionConflict, IInv, ShapeInv, HandlerShape, TypeOK, Version
    <3>2. Holds(h, request[h].policy, newVersion[h])
      BY <3>1 DEF Holds
    <3> QED
      BY <3>1, <3>2 DEF IInv, NumberingInv, VersionNumbersUnique, VersionConflict
  <2>2. ~ItemFails(h)
    BY DEF ItemFails
  <2>3. CASE UNCHANGED bulkFailed
    BY <2>3
  <2>4. CASE Forget(h)
    BY <2>4 DEF Forget
  <2>5. UNCHANGED bulkFailed \/ Forget(h)
    BY <1>2, <2>1, <2>2 DEF Serve, CreatePolicy, RefuseCreate, GetPolicy, UpdatePolicy,
       DeletePolicy, PolicyNotFound, FetchPolicy, VersionNotFound, AnswerGet, RefuseUpdate,
       UpdateMetadata, UpdateContent, IncrementPolicyVersion, IncrementVersionedId,
       IncrementLost, WritePolicyItem, WriteCounterItem, WriteVersionItem, BulkReply,
       WriteDelete, CallFails, Deliver, Abandon
  <2> QED
    BY <2>3, <2>4, <2>5
<1> QED
  BY <1>1, <1>2 DEF Next

\* The answers Internal of a step of h.
InternalBesideBulk(h) ==
  pc[h] # "done" /\ pc'[h] = "done" /\ reply'[h].code = "Internal" =>
    \/ request[h].version # 0
    \/ request[h].op = "Update" /\ request[h].rego = Missing
    \/ \E g \in Handler \ {h} :
         /\ pc[g] \in {"counterItem", "versionItem"}
         /\ request[g].policy = request[h].policy

\* A handler that misses the current version of its copy runs beside the bulk that
\* stores it, and the other answers Internal are those of an update without an entity.
LEMMA InternalStep ==
  ASSUME CallFaults = FALSE, IInv, BulksWhole, NEW h \in Handler, Serve(h)
  PROVE  InternalBesideBulk(h)
<1> SUFFICES ASSUME pc[h] # "done", pc'[h] = "done", reply'[h].code = "Internal"
             PROVE  \/ request[h].version # 0
                    \/ request[h].op = "Update" /\ request[h].rego = Missing
                    \/ \E g \in Handler \ {h} :
                         /\ pc[g] \in {"counterItem", "versionItem"}
                         /\ request[g].policy = request[h].policy
  BY DEF InternalBesideBulk
<1>1. pc \in [Handler -> Label] /\ reply \in [Handler -> Reply \cup {Missing}]
  BY DEF IInv, ShapeInv, TypeOK
<1>2. CASE VersionNotFound(h)
  <2> SUFFICES ASSUME request[h].version = 0
               PROVE  \E g \in Handler \ {h} :
                         /\ pc[g] \in {"counterItem", "versionItem"}
                         /\ request[g].policy = request[h].policy
    OBVIOUS
  <2>1. /\ pc[h] = "getVersion"
        /\ versionDoc[request[h].policy][snapshot[h].currentVersion] = Missing
    BY <1>2 DEF VersionNotFound, ReadContent, ReadVersion
  <2>2. Landed(request[h].policy, snapshot[h].currentVersion)
    BY <2>1 DEF IInv, PointerInv
  <2>3. PICK g \in Handler : Holds(g, request[h].policy, snapshot[h].currentVersion)
                              /\ pc[g] # "policyItem"
    BY <2>1, <2>2 DEF Landed
  <2> QED
    BY <2>1, <2>3 DEF Holds
<1>3. CASE RefuseUpdate(h)
  <2>1. UpdateRefusal(h) = "Internal" /\ request[h].op = "Update"
    BY <1>1, <1>3 DEF RefuseUpdate, UpdateRead, Refuse, Answer, Goto
  <2>2. request[h].rego = Missing
    <3> SUFFICES ASSUME request[h].rego # Missing PROVE FALSE
      OBVIOUS
    <3>1. snapshot[h].deleted \in BOOLEAN
      BY <1>3 DEF RefuseUpdate, UpdateRead, IInv, ShapeInv, HandlerShape, PolicyDocument
    <3> QED
      BY <2>1, <3>1 DEF UpdateRefusal
  <2> QED
    BY <2>1, <2>2
<1>4. CASE BulkReply(h) \/ WriteDelete(h)
  <2>1. reply'[h].code = "OK"
    BY <1>1, <1>4 DEF BulkReply, WriteDelete, Outcome, Refuse, Answer, Goto, BulksWhole
  <2> QED
    BY <2>1
<1>5. CASE RefuseCreate(h) \/ PolicyNotFound(h) \/ AnswerGet(h)
  <2>1. reply'[h].code \in {"InvalidArgument", "NotFound", "OK"}
    BY <1>1, <1>5 DEF RefuseCreate, PolicyNotFound, AnswerGet, Refuse, Answer, Goto
  <2> QED
    BY <2>1
<1>6. CASE \/ CreatePolicy(h) \/ GetPolicy(h) \/ UpdatePolicy(h) \/ DeletePolicy(h)
           \/ FetchPolicy(h) \/ UpdateMetadata(h) \/ UpdateContent(h)
           \/ IncrementPolicyVersion(h) \/ IncrementVersionedId(h)
  BY <1>1, <1>6 DEF CreatePolicy, GetPolicy, UpdatePolicy, DeletePolicy, FetchPolicy,
     UpdateMetadata, UpdateContent, IncrementPolicyVersion, IncrementVersionedId, Accept, Goto
<1>7. CASE \/ WritePolicyItem(h) \/ WriteCounterItem(h) \/ WriteVersionItem(h)
           \/ VersionConflict(h) \/ ItemFails(h) \/ Deliver(h) \/ Abandon(h)
  BY <1>1, <1>7 DEF WritePolicyItem, AfterPolicyItem, WriteCounterItem, WriteVersionItem,
     VersionConflict, ItemFails, Deliver, Abandon, Forget, Goto
<1>8. ~IncrementLost(h) /\ ~CallFails(h)
  BY DEF IncrementLost, CallFails
<1> QED
  BY <1>2, <1>3, <1>4, <1>5, <1>6, <1>7, <1>8 DEF Serve

\* Without faults, for any number of handlers, an RPC on a policy that is there is
\* answered Internal only while another one's bulk is between its items, or if it named a
\* version or had no entity.
THEOREM InternalExplained ==
  ASSUME CallFaults = FALSE, ItemFaults = FALSE
  PROVE  Spec => InternalOnlyBesideBulk
<1> DEFINE Explained == \A h \in Handler : InternalBesideBulk(h)
<1>1. Init => BulksWhole
  BY DEF Init, BulksWhole
<1>2. IInv /\ BulksWhole /\ [Next]_vars => BulksWhole'
  BY BulksStayWhole
<1>3. IInv /\ BulksWhole /\ [Next]_vars => [Explained]_vars
  <2> SUFFICES ASSUME IInv, BulksWhole, NEW g \in Handler, Serve(g), NEW h \in Handler
               PROVE  InternalBesideBulk(h)
    BY DEF Next
  <2>1. CASE h = g
    BY <2>1, InternalStep
  <2>2. CASE h # g
    BY <2>2, OthersUnchanged DEF InternalBesideBulk, IInv
  <2> QED
    BY <2>1, <2>2
<1>4. Spec => []IInv
  BY InvariantHolds
<1>5. Spec => [][Explained]_vars
  BY <1>1, <1>2, <1>3, <1>4, PTL DEF Spec
<1> QED
  BY <1>5 DEF InternalOnlyBesideBulk, InternalBesideBulk

----------------------------------------------------------------------------
(***************************************************************************)
(* RPCs that do not overlap: a policy manager with one handler, on plain   *)
(* ids, is a policy registry, whatever calls fail.                         *)
(***************************************************************************)

OneAtATime == \A g, h \in Handler : g = h

\* With nobody beside it the copy of a handler is the document, but for its own edits.
CopyIsDocument(h) == LET p == request[h].policy document == policyDoc[request[h].policy] IN
  /\ pc[h] \in {"getVersion", "writeDelete"} =>
       document # Missing /\ snapshot[h] = document
  /\ pc[h] = "increment" \/ (pc[h] = "policyItem" /\ request[h].op = "Update") =>
       document # Missing /\ ~document.deleted
  /\ pc[h] = "increment" =>
       /\ snapshot[h] = [document EXCEPT !.name = request[h].name]
       /\ request[h].rego \in ValidRego \ {versionDoc[p][document.currentVersion]}
  /\ pc[h] = "policyItem" /\ request[h].op = "Update" /\ newVersion[h] = 0 =>
       snapshot[h] = [document EXCEPT !.name = request[h].name]
  /\ pc[h] = "policyItem" /\ request[h].op = "Update" /\ newVersion[h] # 0 =>
       /\ snapshot[h] = [document EXCEPT !.name = request[h].name,
                                         !.currentVersion = newVersion[h]]
       /\ request[h].rego \in ValidRego \ {versionDoc[p][document.currentVersion]}
       /\ \A v \in Version : Stored(p, v) => v < newVersion[h]
  /\ pc[h] = "policyItem" /\ request[h].op = "Create" =>
       /\ document = Missing /\ request[h].rego \in ValidRego
       /\ \E name \in Name, deleted \in BOOLEAN :
            snapshot[h] = [name |-> name, currentVersion |-> 1, deleted |-> deleted]

SoloInv == ShapeInv /\ NumberingInv /\ AnswerInv /\ \A h \in Handler : CopyIsDocument(h)

\* What a registry sees of the versions beside one handler.
Published(h) ==
  [p \in Policy |-> [v \in Version |->
    IF /\ versionDoc[p][v] = Missing
       /\ pc[h] \in {"counterItem", "versionItem"}
       /\ newVersion[h] = v /\ request[h].policy = p
    THEN request[h].rego
    ELSE versionDoc[p][v]]]

LEMMA PublishedByOne ==
  ASSUME OneAtATime, NEW h \in Handler
  PROVE  PublishedVersions = Published(h)
<1> SUFFICES ASSUME NEW p \in Policy, NEW v \in Version
             PROVE  PublishedVersions[p][v] = Published(h)[p][v]
  BY DEF PublishedVersions, Published
<1>1. Landed(p, v) <=> versionDoc[p][v] # Missing \/ (Holds(h, p, v) /\ pc[h] # "policyItem")
  BY DEF Landed, OneAtATime
<1>2. v # 0
  BY Bounds
<1>3. Holds(h, p, v) /\ pc[h] # "policyItem" <=>
        pc[h] \in {"counterItem", "versionItem"} /\ newVersion[h] = v /\ request[h].policy = p
  BY <1>2 DEF Holds
<1>4. Holds(h, p, v) => (CHOOSE g \in Handler : Holds(g, p, v)) = h
  BY DEF OneAtATime
<1> QED
  BY <1>1, <1>3, <1>4 DEF PublishedVersions, Published

\* The copy stays the document through each step of the handler.
LEMMA CopyStep ==
  ASSUME OneAtATime, IdVersions = {0}, ItemFaults = FALSE, SoloInv, ShapeInv',
         NEW h \in Handler, Serve(h)
  PROVE  CopyIsDocument(h)'
<1> USE DEF SoloInv
<1>1. CASE CreatePolicy(h)
  <2>1. PICK p \in Policy, name \in Name, rego \in ValidRego, deleted \in BOOLEAN :
          /\ Fresh(p) /\ Accept(h, "policyItem", Message("Create", p, 0, name, rego))
          /\ snapshot' = [snapshot EXCEPT ![h] =
                            [name |-> name, currentVersion |-> 1, deleted |-> deleted]]
          /\ UNCHANGED store
    BY <1>1 DEF CreatePolicy
  <2>2. /\ pc'[h] = "policyItem" /\ request'[h] = Message("Create", p, 0, name, rego)
        /\ snapshot'[h] = [name |-> name, currentVersion |-> 1, deleted |-> deleted]
        /\ policyDoc'[p] = Missing
    BY <2>1 DEF Fresh, Accept, Goto, ShapeInv, TypeOK, store
  <2>3. request'[h].op = "Create" /\ request'[h].policy = p /\ request'[h].rego = rego
    BY <2>2 DEF Message
  <2>4. \E n \in Name, d \in BOOLEAN :
          snapshot'[h] = [name |-> n, currentVersion |-> 1, deleted |-> d]
    BY <2>2
  <2> HIDE DEF SoloInv
  <2> QED
    BY <2>2, <2>3, <2>4 DEF CopyIsDocument
<1>2. CASE GetPolicy(h) \/ UpdatePolicy(h) \/ DeletePolicy(h)
  BY <1>2 DEF GetPolicy, UpdatePolicy, DeletePolicy, Accept, Goto, ShapeInv, TypeOK, CopyIsDocument
<1>3. CASE RefuseCreate(h) \/ PolicyNotFound(h) \/ VersionNotFound(h) \/ AnswerGet(h) \/ RefuseUpdate(h)
           \/ IncrementLost(h) \/ BulkReply(h) \/ WriteDelete(h) \/ CallFails(h)
  <2>1. pc'[h] = "done"
    BY <1>3 DEF RefuseCreate, PolicyNotFound, VersionNotFound, AnswerGet, RefuseUpdate,
       IncrementLost, BulkReply, WriteDelete, CallFails, Refuse, Answer, Goto, ShapeInv, TypeOK
  <2> QED
    BY <2>1 DEF CopyIsDocument
<1>4. CASE FetchPolicy(h)
  <2>1. /\ pc[h] = "getPolicy" /\ pc'[h] \in {"getVersion", "writeDelete"}
        /\ DocumentFound(h) /\ UNCHANGED <<policyDoc, request>>
    BY <1>4 DEF FetchPolicy, Goto, ShapeInv, TypeOK, store
  <2>2. ~LooksUpVersion(h)
    BY <2>1 DEF LooksUpVersion, AnswerInv
  <2>3. policyDoc[request[h].policy] # Missing /\ snapshot'[h] = policyDoc[request[h].policy]
    BY <1>4, <2>1, <2>2 DEF FetchPolicy, DocumentFound, ShapeInv, TypeOK
  <2> QED
    BY <2>1, <2>3 DEF CopyIsDocument
<1>5. CASE UpdateMetadata(h) \/ UpdateContent(h)
  <2>1. /\ pc[h] = "getVersion" /\ request[h].op = "Update" /\ UpdateRefusal(h) = "OK"
        /\ snapshot'[h] = EditedCopy(h) /\ newVersion[h] = 0
        /\ UNCHANGED <<policyDoc, versionDoc, request, newVersion>>
    BY <1>5 DEF UpdateMetadata, UpdateContent, UpdateRead, ShapeInv, TypeOK, HandlerShape,
       BulkLabel, store
  <2>2. /\ snapshot[h] \in PolicyDocument /\ snapshot[h] = policyDoc[request[h].policy]
        /\ policyDoc[request[h].policy] # Missing
    BY <2>1 DEF CopyIsDocument, ShapeInv, HandlerShape
  <2>3. snapshot[h].deleted \in BOOLEAN
    BY <2>2 DEF PolicyDocument
  <2>4. ~snapshot[h].deleted /\ request[h].rego \in ValidRego \cup {ReadContent(h)}
    BY <2>1, <2>3 DEF UpdateRefusal
  <2>5. ReadContent(h) = versionDoc[request[h].policy][policyDoc[request[h].policy].currentVersion]
    BY <2>1, <2>2 DEF ReadContent, ReadVersion, AnswerInv
  <2>6. CASE UpdateMetadata(h)
    <3>1. pc'[h] = "policyItem"
      BY <2>6, SMTT(30) DEF UpdateMetadata, Goto, ShapeInv, TypeOK
    <3> QED
      BY <2>1, <2>2, <2>4, <3>1 DEF CopyIsDocument, EditedCopy
  <2>7. CASE UpdateContent(h)
    <3>1. pc'[h] = "increment" /\ request[h].rego # ReadContent(h)
      BY <2>7 DEF UpdateContent, Goto, ShapeInv, TypeOK
    <3> QED
      BY <2>1, <2>2, <2>4, <2>5, <3>1, ZenonT(30) DEF CopyIsDocument, EditedCopy
  <2> QED
    BY <1>5, <2>6, <2>7
<1>6. CASE IncrementPolicyVersion(h)
  <2> DEFINE p == request[h].policy
  <2>1. /\ pc[h] = "increment" /\ pc'[h] = "policyItem" /\ request[h].op = "Update" /\ p \in Policy
        /\ newVersion'[h] = counter[p] + 1
        /\ snapshot'[h] = [snapshot[h] EXCEPT !.currentVersion = counter[p] + 1]
        /\ UNCHANGED <<policyDoc, versionDoc, request>>
    BY <1>6, RequestFields DEF IncrementPolicyVersion, Goto, ShapeInv, TypeOK, HandlerShape, BulkLabel
  <2>2. counter[p] \in Nat /\ newVersion'[h] # 0
    BY <2>1, Bounds DEF ShapeInv, TypeOK
  <2>3. \A v \in Version : Stored(p, v) => v < newVersion'[h]
    BY <2>1, <2>2, Bounds DEF NumberingInv, CounterBounds
  <2>4. /\ policyDoc[p] # Missing /\ ~policyDoc[p].deleted
        /\ snapshot[h] = [policyDoc[p] EXCEPT !.name = request[h].name]
        /\ request[h].rego \in ValidRego \ {versionDoc[p][policyDoc[p].currentVersion]}
    BY <2>1 DEF CopyIsDocument
  <2>5. policyDoc[p] \in PolicyDocument
    BY <2>1, <2>4 DEF ShapeInv, TypeOK
  <2>6. snapshot'[h] = [policyDoc[p] EXCEPT !.name = request[h].name,
                                           !.currentVersion = newVersion'[h]]
    BY <2>1, <2>4, <2>5 DEF PolicyDocument
  <2> QED
    BY <2>1, <2>2, <2>3, <2>4, <2>6 DEF CopyIsDocument, Stored
<1>7. CASE IncrementVersionedId(h)
  BY <1>7 DEF IncrementVersionedId, Goto, AnswerInv, ShapeInv, HandlerShape, BulkLabel
<1>8. CASE \/ WritePolicyItem(h) \/ WriteCounterItem(h) \/ WriteVersionItem(h)
           \/ VersionConflict(h) \/ ItemFails(h)
  <2>1. pc'[h] \in {"counterItem", "versionItem", "bulkReply"}
    BY <1>8 DEF WritePolicyItem, AfterPolicyItem, WriteCounterItem, WriteVersionItem,
       VersionConflict, ItemFails, Goto, ShapeInv, TypeOK
  <2> QED
    BY <2>1 DEF CopyIsDocument
<1>9. CASE Deliver(h) \/ Abandon(h)
  BY <1>9 DEF Deliver, Abandon, Forget, ShapeInv, TypeOK, CopyIsDocument
<1> QED
  BY <1>1, <1>2, <1>3, <1>4, <1>5, <1>6, <1>7, <1>8, <1>9 DEF Serve

\* A step that writes no policy document is a stutter of the registry: what is being
\* created counts as stored when it is.
LEMMA QuietStutter ==
  ASSUME OneAtATime, ItemFaults = FALSE, SoloInv, NEW h \in Handler, Serve(h),
         ~WritePolicyItem(h), ~WriteDelete(h)
  PROVE  UNCHANGED <<policyDoc, Published(h)>>
<1> USE DEF SoloInv
<1>1. CASE WriteCounterItem(h)
  BY <1>1 DEF WriteCounterItem, Goto, Published, ShapeInv, TypeOK
<1>2. CASE WriteVersionItem(h)
  <2> DEFINE p == request[h].policy
  <2>1. /\ pc[h] = "versionItem" /\ pc'[h] = "bulkReply" /\ versionDoc[p][newVersion[h]] = Missing
        /\ versionDoc' = [versionDoc EXCEPT ![p][newVersion[h]] = request[h].rego]
        /\ UNCHANGED <<policyDoc, request, newVersion>>
    BY <1>2 DEF WriteVersionItem, Goto, ShapeInv, TypeOK
  <2>2. p \in Policy /\ newVersion[h] \in Version /\ request[h].rego # Missing
    BY <2>1, RequestFields, Bounds, MissingApart DEF ShapeInv, TypeOK, HandlerShape, BulkLabel, Version
  <2>3. ASSUME NEW q \in Policy, NEW v \in Version
        PROVE  Published(h)'[q][v] = Published(h)[q][v]
    BY <2>1, <2>2 DEF Published, ShapeInv, TypeOK
  <2> QED
    BY <2>1, <2>3 DEF Published
<1>3. ~VersionConflict(h) /\ ~ItemFails(h)
  <2> SUFFICES ASSUME VersionConflict(h) PROVE FALSE
    BY DEF ItemFails
  <2>1. /\ pc[h] = "versionItem" /\ newVersion[h] # 0 /\ request[h].policy \in Policy
        /\ newVersion[h] \in Version
    BY RequestFields, Bounds DEF VersionConflict, ShapeInv, HandlerShape, TypeOK, Version
  <2>2. Holds(h, request[h].policy, newVersion[h])
    BY <2>1 DEF Holds
  <2> QED
    BY <2>1, <2>2 DEF NumberingInv, VersionNumbersUnique, VersionConflict
<1>4. ASSUME UNCHANGED <<policyDoc, versionDoc>>,
             pc[h] \notin {"counterItem", "versionItem"}, pc'[h] \notin {"counterItem", "versionItem"}
      PROVE  UNCHANGED <<policyDoc, Published(h)>>
  BY <1>4 DEF Published
<1>5. CASE CreatePolicy(h) \/ RefuseCreate(h) \/ GetPolicy(h) \/ UpdatePolicy(h) \/ DeletePolicy(h)
  BY <1>4, <1>5 DEF CreatePolicy, RefuseCreate, GetPolicy, UpdatePolicy, DeletePolicy, Accept,
     Refuse, Answer, Goto, ShapeInv, TypeOK, store
<1>6. CASE PolicyNotFound(h) \/ FetchPolicy(h) \/ VersionNotFound(h) \/ AnswerGet(h) \/ RefuseUpdate(h)
  BY <1>4, <1>6 DEF PolicyNotFound, FetchPolicy, VersionNotFound, AnswerGet, RefuseUpdate,
     UpdateRead, Refuse, Answer, Goto, ShapeInv, TypeOK, store
<1>7. CASE UpdateMetadata(h) \/ UpdateContent(h) \/ IncrementPolicyVersion(h) \/ IncrementVersionedId(h)
  BY <1>4, <1>7 DEF UpdateMetadata, UpdateContent, IncrementPolicyVersion, IncrementVersionedId,
     Goto, ShapeInv, TypeOK, store
<1>8. CASE IncrementLost(h) \/ BulkReply(h) \/ CallFails(h)
  BY <1>4, <1>8 DEF IncrementLost, BulkReply, CallFails, Refuse, Answer, Goto, ShapeInv, TypeOK, store
<1>9. CASE Deliver(h) \/ Abandon(h)
  BY <1>4, <1>9 DEF Deliver, Abandon, Forget, ShapeInv, TypeOK, store
<1> QED
  BY <1>1, <1>2, <1>3, <1>5, <1>6, <1>7, <1>8, <1>9 DEF Serve

\* A delete writes the document it read with the flag set.
LEMMA DeleteRefines ==
  ASSUME OneAtATime, SoloInv, NEW h \in Handler, WriteDelete(h)
  PROVE  \E p \in Policy : /\ policyDoc[p] # Missing
                           /\ policyDoc' = [policyDoc EXCEPT ![p].deleted = TRUE]
                           /\ UNCHANGED Published(h)
<1> USE DEF SoloInv
<1> DEFINE p == request[h].policy
<1>1. /\ pc[h] = "writeDelete" /\ pc'[h] = "done" /\ request[h].op = "Delete" /\ p \in Policy
  BY RequestFields DEF WriteDelete, Refuse, Answer, Goto, ShapeInv, TypeOK, HandlerShape
<1>2. request[h].version = 0
  BY <1>1 DEF AnswerInv
<1>3. policyDoc[p] # Missing /\ snapshot[h] = policyDoc[p]
  BY <1>1 DEF CopyIsDocument
<1>4. /\ policyDoc' = [policyDoc EXCEPT ![p] = [snapshot[h] EXCEPT !.deleted = TRUE]]
      /\ UNCHANGED versionDoc
  BY <1>2 DEF WriteDelete
<1>5. UNCHANGED Published(h)
  BY <1>1, <1>4 DEF Published
<1>6. policyDoc' = [policyDoc EXCEPT ![p].deleted = TRUE]
  BY <1>3, <1>4
<1> QED
  BY <1>1, <1>3, <1>5, <1>6

\* From its first item on a bulk counts as whole: it creates a policy, renames one, or gives
\* it a version with a number above those it has.
LEMMA BulkRefines ==
  ASSUME OneAtATime, SoloInv, NEW h \in Handler, WritePolicyItem(h)
  PROVE  LET p == request[h].policy IN
         \/ /\ p \in Policy /\ policyDoc[p] = Missing
            /\ \E name \in Name, rego \in ValidRego, deleted \in BOOLEAN :
                 /\ policyDoc' = [policyDoc EXCEPT ![p] =
                                   [name |-> name, currentVersion |-> 1, deleted |-> deleted]]
                 /\ Published(h)' = [Published(h) EXCEPT ![p][1] = rego]
         \/ /\ p \in Policy /\ policyDoc[p] # Missing /\ ~policyDoc[p].deleted
            /\ \E name \in Name :
                 /\ policyDoc' = [policyDoc EXCEPT ![p].name = name]
                 /\ UNCHANGED Published(h)
         \/ /\ p \in Policy /\ policyDoc[p] # Missing /\ ~policyDoc[p].deleted
            /\ \E name \in Name, rego \in ValidRego, v \in Version :
                 /\ \A used \in Version : Published(h)[p][used] # Missing => used < v
                 /\ rego # Published(h)[p][policyDoc[p].currentVersion]
                 /\ policyDoc' = [policyDoc EXCEPT ![p].name = name, ![p].currentVersion = v]
                 /\ Published(h)' = [Published(h) EXCEPT ![p][v] = rego]
<1> USE DEF SoloInv
<1> DEFINE p == request[h].policy
           v == newVersion[h]
<1>1. /\ pc[h] = "policyItem" /\ pc'[h] = AfterPolicyItem(h) /\ p \in Policy
      /\ request[h].op \in {"Create", "Update"} /\ request[h].version = 0
      /\ request[h].op = "Create" => v = 1
      /\ v \in 0..MaxVersion /\ (v # 0 => v \in Version)
  BY RequestFields DEF WritePolicyItem, Goto, ShapeInv, TypeOK, HandlerShape, BulkLabel,
     AnswerInv, Version
<1>2. /\ policyDoc' = [policyDoc EXCEPT ![p] = snapshot[h]]
      /\ UNCHANGED <<versionDoc, request, newVersion>>
  BY <1>1 DEF WritePolicyItem
<1>3. Published(h) = [q \in Policy |-> [u \in Version |-> versionDoc[q][u]]]
  BY <1>1 DEF Published
<1>4. /\ policyDoc \in [Policy -> PolicyDocument \cup {Missing}]
      /\ versionDoc \in [Policy -> [Version -> Rego \cup {Missing}]]
  BY DEF ShapeInv, TypeOK
<1>5. Published(h) = versionDoc
  BY <1>3, <1>4
<1>6. ASSUME v \in Version, pc'[h] \in {"counterItem", "versionItem"}, versionDoc[p][v] = Missing
      PROVE  Published(h)' = [versionDoc EXCEPT ![p][v] = request[h].rego]
  <2>1. Published(h)' = [q \in Policy |-> [u \in Version |->
                          IF versionDoc[q][u] = Missing /\ v = u /\ p = q
                          THEN request[h].rego ELSE versionDoc[q][u]]]
    BY <1>2, <1>6 DEF Published
  <2>2. ASSUME NEW q \in Policy
        PROVE  [u \in Version |-> IF versionDoc[q][u] = Missing /\ v = u /\ p = q
                                   THEN request[h].rego ELSE versionDoc[q][u]]
               = [versionDoc EXCEPT ![p][v] = request[h].rego][q]
    <3>1. CASE q = p
      BY <1>1, <1>4, <1>6, <3>1
    <3>2. CASE q # p
      BY <1>4, <3>2
    <3> QED
      BY <3>1, <3>2
  <2> QED
    BY <1>4, <2>1, <2>2
<1>7. v \in Version => versionDoc[p][v] = Missing
  BY <1>1, Bounds DEF NumberingInv, VersionNumbersUnique, Holds
<1>8. CASE request[h].op = "Create"
  <2>1. pc'[h] = "counterItem" /\ v = 1 /\ v \in Version
    BY <1>1, <1>8, Bounds DEF AfterPolicyItem
  <2>2. Published(h)' = [Published(h) EXCEPT ![p][1] = request[h].rego]
    BY <1>5, <1>6, <1>7, <2>1
  <2>3. /\ policyDoc[p] = Missing /\ request[h].rego \in ValidRego
        /\ \E name \in Name, deleted \in BOOLEAN :
             snapshot[h] = [name |-> name, currentVersion |-> 1, deleted |-> deleted]
    BY <1>1, <1>8 DEF CopyIsDocument
  <2>4. PICK name \in Name, deleted \in BOOLEAN :
               snapshot[h] = [name |-> name, currentVersion |-> 1, deleted |-> deleted]
    BY <2>3
  <2>5. policyDoc' = [policyDoc EXCEPT ![p] =
                       [name |-> name, currentVersion |-> 1, deleted |-> deleted]]
    BY <1>2, <2>4
  <2>6. request[h].rego \in ValidRego /\ p \in Policy /\ policyDoc[p] = Missing
    BY <1>1, <2>3
  <2>7. \E n \in Name, rego \in ValidRego, d \in BOOLEAN :
          /\ policyDoc' = [policyDoc EXCEPT ![p] =
                            [name |-> n, currentVersion |-> 1, deleted |-> d]]
          /\ Published(h)' = [Published(h) EXCEPT ![p][1] = rego]
    BY ONLY <2>2, <2>4, <2>5, <2>6
  <2> QED
    BY ONLY <2>6, <2>7
<1>9. ASSUME request[h].op = "Update"
      PROVE  policyDoc[p] # Missing /\ ~policyDoc[p].deleted /\ request[h].name \in Name
  BY <1>1, <1>9 DEF CopyIsDocument, ShapeInv, HandlerShape
<1>10. CASE request[h].op = "Update" /\ v = 0
  <2>1. pc'[h] = "bulkReply"
    BY <1>1, <1>10 DEF AfterPolicyItem
  <2>2. UNCHANGED Published(h)
    BY <1>1, <1>2, <2>1 DEF Published
  <2>3. snapshot[h] = [policyDoc[p] EXCEPT !.name = request[h].name]
    BY <1>1, <1>10 DEF CopyIsDocument
  <2>4. policyDoc' = [policyDoc EXCEPT ![p].name = request[h].name]
    BY <1>2, <2>3, SMTT(30)
  <2> QED
    BY <1>1, <1>9, <1>10, <2>2, <2>4
<1>11. CASE request[h].op = "Update" /\ v # 0
  <2>1. pc'[h] = "versionItem" /\ v \in Version
    BY <1>1, <1>11 DEF AfterPolicyItem
  <2>2. Published(h)' = [Published(h) EXCEPT ![p][v] = request[h].rego]
    BY <1>5, <1>6, <1>7, <2>1
  <2>3. /\ snapshot[h] = [policyDoc[p] EXCEPT !.name = request[h].name, !.currentVersion = v]
        /\ request[h].rego \in ValidRego
        /\ request[h].rego # versionDoc[p][policyDoc[p].currentVersion]
        /\ \A used \in Version : versionDoc[p][used] # Missing => used < v
    BY <1>1, <1>11 DEF CopyIsDocument, Stored
  <2>4. policyDoc' = [policyDoc EXCEPT ![p].name = request[h].name, ![p].currentVersion = v]
    BY <1>1, <1>2, <1>4, <1>9, <1>11, <2>3 DEF PolicyDocument
  <2>5. /\ \A used \in Version : Published(h)[p][used] # Missing => used < v
        /\ request[h].rego # Published(h)[p][policyDoc[p].currentVersion]
    BY <1>5, <2>3
  <2>6. request[h].name \in Name /\ request[h].rego \in ValidRego /\ v \in Version
    BY <1>9, <1>11, <2>1, <2>3, SMTT(30)
  <2>7. \E name \in Name, rego \in ValidRego, u \in Version :
          /\ \A used \in Version : Published(h)[p][used] # Missing => used < u
          /\ rego # Published(h)[p][policyDoc[p].currentVersion]
          /\ policyDoc' = [policyDoc EXCEPT ![p].name = name, ![p].currentVersion = u]
          /\ Published(h)' = [Published(h) EXCEPT ![p][u] = rego]
    BY <2>2, <2>4, <2>5, <2>6
  <2> QED
    BY <1>1, <1>9, <1>11, <2>7
<1> QED
  BY <1>1, <1>8, <1>10, <1>11

LEMMA PublishedByOneNext ==
  ASSUME OneAtATime, NEW h \in Handler
  PROVE  PublishedVersions' = Published(h)'
<1> SUFFICES ASSUME NEW p \in Policy, NEW v \in Version
             PROVE  PublishedVersions'[p][v] = Published(h)'[p][v]
  BY DEF PublishedVersions, Published
<1>1. Landed(p, v)' <=> versionDoc'[p][v] # Missing \/ (Holds(h, p, v)' /\ pc'[h] # "policyItem")
  BY DEF Landed, OneAtATime
<1>2. v # 0
  BY Bounds
<1>3. Holds(h, p, v)' /\ pc'[h] # "policyItem" <=>
        pc'[h] \in {"counterItem", "versionItem"} /\ newVersion'[h] = v /\ request'[h].policy = p
  BY <1>2 DEF Holds
<1>4. Holds(h, p, v)' => (CHOOSE g \in Handler : Holds(g, p, v)') = h
  BY DEF OneAtATime
<1> QED
  BY <1>1, <1>3, <1>4 DEF PublishedVersions, Published

\* Every step beside no other handler is a step of the registry, or a stutter.
LEMMA RegistryStep ==
  ASSUME OneAtATime, ItemFaults = FALSE, SoloInv, [Next]_vars
  PROVE  [Registry!Next]_(Registry!vars)
<1>1. CASE UNCHANGED vars
  BY <1>1 DEF vars, Registry!vars, PublishedVersions, Landed, Holds
<1>2. ASSUME NEW h \in Handler, Serve(h)
      PROVE  [Registry!Next]_(Registry!vars)
  <2>1. PublishedVersions = Published(h)
    BY PublishedByOne
  <2>2. PublishedVersions' = Published(h)'
    BY PublishedByOneNext
  <2>3. CASE WritePolicyItem(h)
    <3> DEFINE p == request[h].policy
    <3>1. \/ p \in Policy /\ Registry!Create(p)
          \/ p \in Policy /\ Registry!Rename(p)
          \/ p \in Policy /\ Registry!Revise(p)
      <4>1. CASE /\ p \in Policy /\ policyDoc[p] = Missing
                 /\ \E name \in Name, rego \in ValidRego, deleted \in BOOLEAN :
                      /\ policyDoc' = [policyDoc EXCEPT ![p] =
                                        [name |-> name, currentVersion |-> 1, deleted |-> deleted]]
                      /\ Published(h)' = [Published(h) EXCEPT ![p][1] = rego]
        BY <2>1, <2>2, <4>1 DEF Registry!Create
      <4>2. CASE /\ p \in Policy /\ policyDoc[p] # Missing /\ ~policyDoc[p].deleted
                 /\ \E name \in Name :
                      /\ policyDoc' = [policyDoc EXCEPT ![p].name = name]
                      /\ UNCHANGED Published(h)
        BY <2>1, <2>2, <4>2 DEF Registry!Rename, Registry!Live
      <4>3. CASE /\ p \in Policy /\ policyDoc[p] # Missing /\ ~policyDoc[p].deleted
                 /\ \E name \in Name, rego \in ValidRego, v \in Version :
                      /\ \A used \in Version : Published(h)[p][used] # Missing => used < v
                      /\ rego # Published(h)[p][policyDoc[p].currentVersion]
                      /\ policyDoc' = [policyDoc EXCEPT ![p].name = name, ![p].currentVersion = v]
                      /\ Published(h)' = [Published(h) EXCEPT ![p][v] = rego]
        BY <2>1, <2>2, <4>3, ZenonT(60) DEF Registry!Revise, Registry!Live, Registry!Version, Version
      <4> QED
        BY <2>3, <4>1, <4>2, <4>3, BulkRefines
    <3> QED
      BY <3>1 DEF Registry!Next
  <2>4. CASE WriteDelete(h)
    BY <2>1, <2>2, <2>4, DeleteRefines DEF Registry!Next, Registry!Delete
  <2>5. CASE ~WritePolicyItem(h) /\ ~WriteDelete(h)
    BY <1>2, <2>1, <2>2, <2>5, QuietStutter DEF Registry!vars
  <2> QED
    BY <2>3, <2>4, <2>5
<1> QED
  BY <1>1, <1>2 DEF Next

\* The invariant of a handler that is alone.
LEMMA SoloHolds ==
  ASSUME OneAtATime, IdVersions = {0}, ItemFaults = FALSE
  PROVE  Spec => []SoloInv
<1>1. Init => SoloInv
  BY InitInv, InitAnswer DEF Init, SoloInv, IInv, CopyIsDocument
<1>2. IInv /\ SoloInv /\ [Next]_vars => SoloInv'
  <2> SUFFICES ASSUME IInv, SoloInv, [Next]_vars PROVE SoloInv'
    OBVIOUS
  <2>1. (ShapeInv /\ NumberingInv /\ AnswerInv)'
    BY ShapeStep, NumberingStep, AnswerStep DEF SoloInv, IInv
  <2>2. CASE UNCHANGED vars
    <3>1. /\ policyDoc' = policyDoc /\ versionDoc' = versionDoc /\ pc' = pc /\ request' = request
          /\ snapshot' = snapshot /\ newVersion' = newVersion
      BY <2>2 DEF vars
    <3>2. ASSUME NEW g \in Handler PROVE CopyIsDocument(g)'
      <4>1. CopyIsDocument(g)
        BY DEF SoloInv
      <4> QED
        BY <3>1, <4>1, Zenon DEF CopyIsDocument, Stored
    <3> QED
      BY <2>1, <3>2 DEF SoloInv
  <2>3. ASSUME NEW h \in Handler, Serve(h) PROVE SoloInv'
    <3>1. ShapeInv'
      BY <2>1
    <3>2. CopyIsDocument(h)'
      BY <2>3, <3>1, CopyStep
    <3>3. \A g \in Handler : CopyIsDocument(g)'
      BY <3>2, Zenon DEF OneAtATime
    <3> QED
      BY <2>1, <3>3 DEF SoloInv
  <2> QED
    BY <2>2, <2>3 DEF Next
<1> QED
  BY <1>1, <1>2, InvariantHolds, PTL DEF Spec

\* The RPCs of a policy manager that do not overlap are atomic: with one handler on plain
\* ids, whatever calls fail and wherever an RPC is cut off, the documents behave as a
\* registry of policies.
THEOREM ManagerImplementsRegistry ==
  ASSUME OneAtATime, IdVersions = {0}, ItemFaults = FALSE
  PROVE  Spec => ImplementsRegistry
<1>1. Init => Registry!Init
  BY DEF Init, Registry!Init, PublishedVersions, Landed, Holds, Registry!Version, Version
<1>2. SoloInv /\ [Next]_vars => [Registry!Next]_(Registry!vars)
  BY RegistryStep
<1> QED
  BY <1>1, <1>2, SoloHolds, PTL DEF Spec, ImplementsRegistry, Registry!Spec

\* A handler that is alone never moves the pointer of a policy back.
LEMMA PointerForward ==
  ASSUME OneAtATime, SoloInv, PointerInv, NEW h \in Handler, Serve(h), NEW p \in Policy,
         policyDoc[p] # Missing
  PROVE  policyDoc'[p].currentVersion >= policyDoc[p].currentVersion
<1>1. policyDoc[p] \in PolicyDocument /\ policyDoc[p].currentVersion \in Version
  BY DEF SoloInv, ShapeInv, TypeOK, PolicyDocument
<1>2. policyDoc[p].currentVersion >= policyDoc[p].currentVersion
  BY <1>1, Bounds
<1>3. CASE WritePolicyItem(h) /\ request[h].policy = p
  <2>1. /\ pc[h] = "policyItem" /\ request[h].op \in {"Create", "Update"} /\ request[h].version = 0
        /\ newVersion[h] \in 0..MaxVersion
    BY <1>3 DEF WritePolicyItem, SoloInv, ShapeInv, TypeOK, HandlerShape, BulkLabel, AnswerInv
  <2>2. request[h].op = "Update"
    BY <1>3, <2>1 DEF SoloInv, CopyIsDocument
  <2>3. policyDoc'[p] = snapshot[h]
    BY <1>3, <2>1 DEF WritePolicyItem, SoloInv, ShapeInv, TypeOK
  <2>4. CASE newVersion[h] = 0
    <3>1. snapshot[h] = [policyDoc[p] EXCEPT !.name = request[h].name]
      BY <1>3, <2>1, <2>2, <2>4 DEF SoloInv, CopyIsDocument
    <3>2. snapshot[h].currentVersion = policyDoc[p].currentVersion
      BY <1>1, <3>1 DEF PolicyDocument
    <3> QED
      BY <1>2, <2>3, <3>2
  <2>5. CASE newVersion[h] # 0
    <3>1. /\ snapshot[h] = [policyDoc[p] EXCEPT !.name = request[h].name,
                                               !.currentVersion = newVersion[h]]
          /\ \A v \in Version : Stored(p, v) => v < newVersion[h]
      BY <1>3, <2>1, <2>2, <2>5 DEF SoloInv, CopyIsDocument
    <3>2. snapshot[h].currentVersion = newVersion[h]
      BY <1>1, <3>1 DEF PolicyDocument
    <3>3. Landed(p, policyDoc[p].currentVersion)
      BY DEF PointerInv, CurrentVersionStored
    <3>4. Stored(p, policyDoc[p].currentVersion)
      BY <2>1, <3>3 DEF Landed, OneAtATime, Stored
    <3>5. policyDoc[p].currentVersion < newVersion[h]
      BY <1>1, <3>1, <3>4
    <3> QED
      BY <1>1, <2>1, <2>3, <3>2, <3>5, Bounds
  <2> QED
    BY <2>4, <2>5
<1>4. CASE WritePolicyItem(h) /\ request[h].policy # p
  BY <1>2, <1>4 DEF WritePolicyItem, SoloInv, ShapeInv, TypeOK
<1>5. CASE WriteDelete(h)
  <2>1. PICK q \in Policy : policyDoc[q] # Missing /\ policyDoc' = [policyDoc EXCEPT ![q].deleted = TRUE]
    BY <1>5, DeleteRefines
  <2>2. policyDoc'[p].currentVersion = policyDoc[p].currentVersion
    BY <1>1, <2>1 DEF SoloInv, ShapeInv, TypeOK, PolicyDocument
  <2> QED
    BY <1>2, <2>2
<1>6. CASE ~WritePolicyItem(h) /\ ~WriteDelete(h)
  <2>1. UNCHANGED policyDoc
    BY <1>6 DEF Serve, CreatePolicy, RefuseCreate, GetPolicy, UpdatePolicy, DeletePolicy,
       PolicyNotFound, FetchPolicy, VersionNotFound, AnswerGet, RefuseUpdate, UpdateMetadata,
       UpdateContent, IncrementPolicyVersion, IncrementVersionedId, IncrementLost,
       WriteCounterItem, WriteVersionItem, VersionConflict, ItemFails, BulkReply, CallFails,
       Deliver, Abandon, Forget, store
  <2> QED
    BY <1>2, <2>1
<1> QED
  BY <1>3, <1>4, <1>5, <1>6

----------------------------------------------------------------------------
(***************************************************************************)
(* Every step of PolicyListing is one of PolicyManager, or leaves its      *)
(* variables alone: the theorems about PolicyManager hold here too.        *)
(***************************************************************************)

\* The RPCs of PolicyManager are taken as they are.
LEMMA RpcServes == \A h \in Handler : Rpc(h) => Serve(h)
  BY DEF Rpc, Serve

\* The listings and the refresh of the index leave the RPCs alone.
LEMMA ListingStep == ListingNext => [Next]_vars
  BY RpcServes DEF ListingNext, Next, Refresh, ListPolicies, GetVersions

\* PolicyListing adds what searches see to PolicyManager and changes no RPC.
THEOREM ListingImplementsManager == ListingSpec => Spec
<1>1. ListingInit => Init
  BY DEF ListingInit
<1>2. [ListingNext]_listingVars => [Next]_vars
  BY ListingStep DEF listingVars
<1> QED
  BY <1>1, <1>2, PTL DEF ListingSpec, Spec

----------------------------------------------------------------------------
(***************************************************************************)
(* Types.                                                                  *)
(***************************************************************************)

\* What a client is told has its type: with plain ids an answer names a version.
LEMMA ToldTyped ==
  ASSUME ShapeInv, AnswerInv, told \in Told, NEW h \in Handler, Acknowledges(h),
         request[h].policy \in Policy
  PROVE  TellAfter(h) \in [version : 0..MaxVersion, deleted : BOOLEAN]
<1>1. told[request[h].policy] \in [version : 0..MaxVersion, deleted : BOOLEAN]
  BY DEF Told
<1>2. reply[h].version # 0 => reply[h].version \in Version
  BY DEF AnswerInv, Acknowledges
<1>3. CASE request[h].op = "Delete"
  BY <1>1, <1>3 DEF TellAfter
<1>4. CASE request[h].op # "Delete"
  BY <1>1, <1>2, <1>4, Bounds DEF TellAfter, Version
<1> QED
  BY <1>3, <1>4

\* A step of the manager or of a listing keeps the types of what searches see.
LEMMA ListingTypeStep ==
  ASSUME ShapeInv, AnswerInv, ListingTypeOK, [ListingNext]_listingVars
  PROVE  ListingTypeOK'
<1> USE DEF ListingTypeOK
<1>1. policyDoc \in [Policy -> PolicyDocument \cup {Missing}]
      /\ versionDoc \in [Policy -> [Version -> Rego \cup {Missing}]]
  BY DEF ShapeInv, TypeOK
<1>2. CASE UNCHANGED listingVars
  BY <1>2 DEF listingVars
<1>3. ASSUME NEW h \in Handler, Rpc(h) PROVE ListingTypeOK'
  <2>1. joined' \subseteq Policy
    <3>1. CASE WritePolicyItem(h)
      <4>1. pc[h] = "policyItem"
        BY <3>1 DEF WritePolicyItem, Goto
      <4>2. request[h].policy \in Policy
        BY <4>1, Active, RequestFields
      <4> QED
        BY <1>3, <4>1, <4>2 DEF Rpc, WriteDelete, Goto
    <3> QED
      BY <1>3, <3>1 DEF Rpc
  <2>2. told' \in Told
    <3>1. CASE Acknowledges(h) /\ request[h].policy \in Policy
      BY <1>3, <3>1, ToldTyped DEF Rpc, Told
    <3> QED
      BY <1>3, <3>1 DEF Rpc, Told
  <2> QED
    BY <1>3, <2>1, <2>2 DEF Rpc
<1>4. CASE Refresh
  BY <1>1, <1>4 DEF Refresh
<1>5. CASE ListPolicies
  BY <1>5 DEF ListPolicies
<1>6. CASE GetVersions
  BY <1>6 DEF GetVersions, NothingFound
<1> QED
  BY <1>2, <1>3, <1>4, <1>5, <1>6 DEF ListingNext

\* With plain ids, every variable a listing adds has its type.
THEOREM ListingTypeCorrect == ASSUME IdVersions = {0} PROVE ListingSpec => []ListingTypeOK
<1>1. ListingInit => ListingTypeOK
  <2> SUFFICES ASSUME ListingInit PROVE ListingTypeOK
    OBVIOUS
  <2>1. TypeOK
    BY InitShape DEF ListingInit, ShapeInv
  <2>2. searchable = [policies |-> policyDoc, versions |-> versionDoc, joined |-> joined]
        /\ joined \subseteq Policy
    BY DEF ListingInit
  <2>3. told \in Told
    BY Bounds DEF ListingInit, NothingTold, Told
  <2>4. found \in [Policy -> PolicyDocument \cup {Missing}] /\ unrefreshed \subseteq Handler
    BY DEF ListingInit, NothingFound
  <2> QED
    BY <2>1, <2>2, <2>3, <2>4 DEF ListingTypeOK, TypeOK
<1>2. Spec => [](ShapeInv /\ AnswerInv)
  BY AnswerInvariantHolds
<1>3. (ShapeInv /\ AnswerInv) /\ ListingTypeOK /\ [ListingNext]_listingVars => ListingTypeOK'
  BY ListingTypeStep
<1> QED
  BY <1>1, <1>2, <1>3, ListingImplementsManager, PTL DEF ListingSpec

----------------------------------------------------------------------------
(***************************************************************************)
(* A listing beside updates.                                               *)
(***************************************************************************)

\* The copies of policies that searches and listings hold, however old, point to
\* versions that are stored or about to be, as the documents do.
CopiesLanded ==
  \A p \in Policy :
    /\ searchable.policies[p] # Missing => Landed(p, searchable.policies[p].currentVersion)
    /\ found[p] # Missing => Landed(p, found[p].currentVersion)

LEMMA CopiesStep ==
  ASSUME ItemFaults = FALSE, IInv, ListingTypeOK, CopiesLanded, [ListingNext]_listingVars
  PROVE  CopiesLanded'
<1> USE DEF IInv
<1>1. CASE UNCHANGED listingVars
  BY <1>1 DEF listingVars, vars, CopiesLanded, Landed, Holds
<1>2. ASSUME NEW h \in Handler, Rpc(h) PROVE CopiesLanded'
  <2>1. Serve(h) /\ UNCHANGED <<searchable, found>>
    BY <1>2, RpcServes DEF Rpc
  <2>2. SUFFICES ASSUME NEW p \in Policy
                 PROVE  /\ searchable.policies[p] # Missing =>
                             Landed(p, searchable.policies[p].currentVersion)'
                        /\ found[p] # Missing => Landed(p, found[p].currentVersion)'
    BY <2>1 DEF CopiesLanded
  <2>3. ASSUME searchable.policies[p] # Missing
        PROVE  Landed(p, searchable.policies[p].currentVersion)'
    <3>1. searchable.policies[p].currentVersion \in Version
      BY <2>3, DocumentEdits DEF ListingTypeOK, PolicyDocument
    <3>2. \A v \in Version : Landed(p, v) => Landed(p, v)'
      BY <2>1, LandedStays
    <3> QED
      BY <2>1, <2>3, <3>1, <3>2 DEF CopiesLanded, Landed, Holds
  <2>4. ASSUME found[p] # Missing PROVE Landed(p, found[p].currentVersion)'
    <3>1. found[p].currentVersion \in Version
      BY <2>4, DocumentEdits DEF ListingTypeOK, PolicyDocument
    <3>2. \A v \in Version : Landed(p, v) => Landed(p, v)'
      BY <2>1, LandedStays
    <3> QED
      BY <2>1, <2>4, <3>1, <3>2 DEF CopiesLanded, Landed, Holds
  <2> QED
    BY <2>3, <2>4
<1>3. CASE Refresh
  BY <1>3 DEF Refresh, vars, CopiesLanded, PointerInv, CurrentVersionStored, Landed, Holds
<1>4. CASE ListPolicies
  BY <1>4 DEF ListPolicies, vars, CopiesLanded, Landed, Holds
<1>5. CASE GetVersions
  BY <1>5 DEF GetVersions, NothingFound, vars, CopiesLanded, Landed, Holds
<1> QED
  BY <1>1, <1>2, <1>3, <1>4, <1>5 DEF ListingNext

\* However far the search lags and however many updates and deletes overlap the listing,
\* the version that a policy found points to is stored, or in the bulk of an RPC that is
\* being applied.
THEOREM ListingFindsVersions ==
  ASSUME IdVersions = {0}, ItemFaults = FALSE
  PROVE  ListingSpec => []MissingOnlyBesideBulk
<1>1. ListingInit => CopiesLanded
  <2> SUFFICES ASSUME ListingInit, NEW p \in Policy
               PROVE  searchable.policies[p] = Missing /\ found[p] = Missing
    BY DEF CopiesLanded
  <2>1. searchable.policies = policyDoc /\ policyDoc[p] = Missing
    BY DEF ListingInit, Init
  <2> QED
    BY <2>1 DEF ListingInit, NothingFound
<1>2. Spec => []IInv
  BY InvariantHolds
<1>3. IInv /\ ListingTypeOK /\ CopiesLanded /\ [ListingNext]_listingVars => CopiesLanded'
  BY CopiesStep
<1>4. CopiesLanded => MissingOnlyBesideBulk
  BY DEF CopiesLanded, MissingOnlyBesideBulk, MissingVersions, CurrentVersionOf, Found, Landed, Holds
<1> QED
  BY <1>1, <1>2, <1>3, <1>4, ListingImplementsManager, ListingTypeCorrect, PTL DEF ListingSpec

----------------------------------------------------------------------------
(***************************************************************************)
(* What clients were told, when RPCs do not overlap.                       *)
(***************************************************************************)

\* A policy that is deleted or was told about stays so, in the documents.
LEMMA DocumentsGrow ==
  ASSUME OneAtATime, SoloInv, PointerInv, joined \subseteq Policy, NEW h \in Handler, Rpc(h),
         NEW p \in Policy, policyDoc[p] # Missing
  PROVE  /\ policyDoc'[p] # Missing
         /\ policyDoc[p].deleted => policyDoc'[p].deleted
         /\ policyDoc'[p].currentVersion >= policyDoc[p].currentVersion
         /\ p \in joined => p \in joined' \/ policyDoc'[p].deleted
<1> USE DEF SoloInv
<1>1. Serve(h)
  BY RpcServes
<1>2. policyDoc'[p].currentVersion >= policyDoc[p].currentVersion
  BY <1>1, PointerForward
<1>3. policyDoc \in [Policy -> PolicyDocument \cup {Missing}]
  BY DEF ShapeInv, TypeOK
<1>4. CASE WritePolicyItem(h)
  <2>1. /\ pc[h] = "policyItem" /\ request[h].op \in {"Create", "Update"} /\ request[h].version = 0
        /\ snapshot[h] # Missing
    BY <1>4, MissingApart
       DEF WritePolicyItem, ShapeInv, TypeOK, HandlerShape, BulkLabel, AnswerInv
  <2>2. /\ policyDoc' = [policyDoc EXCEPT ![request[h].policy] = snapshot[h]]
        /\ p \in joined => p \in joined'
    BY <1>4, <2>1 DEF Rpc, WritePolicyItem, WriteDelete, Goto
  <2>3. request[h].policy = p => ~policyDoc[p].deleted
    BY <2>1 DEF CopyIsDocument
  <2> QED
    BY <1>2, <1>3, <2>1, <2>2, <2>3
<1>5. CASE WriteDelete(h)
  <2>1. /\ pc[h] = "writeDelete" /\ request[h].op = "Delete" /\ request[h].version = 0
        /\ snapshot[h] \in PolicyDocument
    BY <1>5 DEF WriteDelete, ShapeInv, HandlerShape, AnswerInv
  <2>2. policyDoc' = [policyDoc EXCEPT ![request[h].policy] = [snapshot[h] EXCEPT !.deleted = TRUE]]
    BY <1>5, <2>1 DEF WriteDelete
  <2>3. /\ [snapshot[h] EXCEPT !.deleted = TRUE] # Missing
        /\ [snapshot[h] EXCEPT !.deleted = TRUE].deleted
    BY <2>1, DocumentEdits, MissingApart DEF PolicyDocument
  <2>4. p # request[h].policy => (p \in joined => p \in joined')
    BY <1>5, <2>1 DEF Rpc, WritePolicyItem, CallFails, ItemFails, Abandon, Refuse, Answer, Goto
  <2> QED
    BY <1>2, <1>3, <2>2, <2>3, <2>4
<1>6. CASE ~WritePolicyItem(h) /\ ~WriteDelete(h)
  <2>1. UNCHANGED <<policyDoc, joined>>
    BY <1>6 DEF Rpc, Serve, CreatePolicy, RefuseCreate, GetPolicy, UpdatePolicy, DeletePolicy,
       PolicyNotFound, FetchPolicy, VersionNotFound, AnswerGet, RefuseUpdate, UpdateMetadata,
       UpdateContent, IncrementPolicyVersion, IncrementVersionedId, IncrementLost,
       WriteCounterItem, WriteVersionItem, VersionConflict, ItemFails, BulkReply, CallFails,
       Deliver, Abandon, Forget, store
  <2> QED
    BY <1>2, <2>1
<1> QED
  BY <1>4, <1>5, <1>6

\* What a handler has written, and is going to tell its client.
HasWritten(h) == LET p == request[h].policy IN
  /\ pc[h] \in {"counterItem", "versionItem", "bulkReply"} =>
       /\ p \in joined /\ policyDoc[p] # Missing
       /\ policyDoc[p].currentVersion = snapshot[h].currentVersion
  /\ Acknowledges(h) /\ request[h].op = "Delete" => policyDoc[p] # Missing /\ policyDoc[p].deleted
  /\ Acknowledges(h) /\ request[h].op # "Delete" =>
       /\ p \in joined /\ policyDoc[p] # Missing
       /\ policyDoc[p].currentVersion = reply[h].version

LEMMA HasWrittenStep ==
  ASSUME OneAtATime, ItemFaults = FALSE, SoloInv, ShapeInv', NEW h \in Handler, HasWritten(h), Rpc(h)
  PROVE  HasWritten(h)'
<1> USE DEF SoloInv
<1>1. Serve(h) /\ ~ItemFails(h)
  BY RpcServes DEF ItemFails
<1>2. /\ pc \in [Handler -> Label] /\ reply \in [Handler -> Reply \cup {Missing}]
      /\ policyDoc \in [Policy -> PolicyDocument \cup {Missing}]
  BY DEF ShapeInv, TypeOK
<1>3. CASE WritePolicyItem(h)
  <2>1. /\ pc[h] = "policyItem" /\ request[h].version = 0 /\ request[h].policy \in Policy
        /\ snapshot[h] \in PolicyDocument
    BY <1>3, RequestFields DEF WritePolicyItem, ShapeInv, TypeOK, HandlerShape, BulkLabel, AnswerInv
  <2>2. /\ policyDoc'[request[h].policy] = snapshot[h] /\ snapshot[h] # Missing
        /\ request' = request /\ snapshot' = snapshot
    BY <1>2, <1>3, <2>1, MissingApart DEF WritePolicyItem
  <2>3. pc'[h] \notin {"done", "idle"}
    BY <1>2, <1>3 DEF WritePolicyItem, AfterPolicyItem, Goto
  <2>4. ~CallFails(h) /\ ~Abandon(h) /\ ~WriteDelete(h)
    BY <1>2, <2>1, <2>3 DEF CallFails, Abandon, WriteDelete, Refuse, Answer, Goto, Forget
  <2>5. request[h].policy \in joined'
    BY <1>1, <2>1, <2>4 DEF Rpc
  <2> QED
    BY <2>2, <2>3, <2>5 DEF HasWritten, Acknowledges
<1>4. CASE WriteDelete(h)
  <2>1. /\ pc[h] = "writeDelete" /\ request[h].op = "Delete" /\ request[h].version = 0
        /\ snapshot[h] \in PolicyDocument /\ request[h].policy \in Policy /\ pc'[h] = "done"
        /\ request' = request
    BY <1>4, <1>2, RequestFields DEF WriteDelete, ShapeInv, TypeOK, HandlerShape, AnswerInv, Refuse,
       Answer, Goto
  <2>2. policyDoc'[request[h].policy] = [snapshot[h] EXCEPT !.deleted = TRUE]
    BY <1>2, <1>4, <2>1 DEF WriteDelete
  <2>3. /\ [snapshot[h] EXCEPT !.deleted = TRUE] # Missing
        /\ [snapshot[h] EXCEPT !.deleted = TRUE].deleted
    BY <2>1, DocumentEdits, MissingApart DEF PolicyDocument
  <2> QED
    BY <2>1, <2>2, <2>3 DEF HasWritten, Acknowledges
<1>5. CASE WriteCounterItem(h) \/ WriteVersionItem(h) \/ VersionConflict(h)
  <2>1. /\ pc[h] \in {"counterItem", "versionItem"} /\ pc'[h] \in {"versionItem", "bulkReply"}
        /\ UNCHANGED <<policyDoc, request, snapshot, joined>>
    BY <1>2, <1>5 DEF Rpc, WriteCounterItem, WriteVersionItem, VersionConflict, WriteDelete,
       WritePolicyItem, Goto, store
  <2> QED
    BY <2>1 DEF HasWritten, Acknowledges
<1>6. CASE BulkReply(h)
  <2>1. /\ pc[h] = "bulkReply" /\ pc'[h] = "done" /\ request[h].op # "Delete" /\ request[h].version = 0
        /\ UNCHANGED <<policyDoc, request, joined>>
    BY <1>2, <1>6 DEF Rpc, BulkReply, WriteDelete, WritePolicyItem, Refuse, Answer, Goto, store,
       ShapeInv, HandlerShape, BulkLabel, AnswerInv
  <2>2. reply'[h].code = "OK" => reply'[h].version = snapshot[h].currentVersion
    BY <1>2, <1>6, <2>1 DEF BulkReply, Refuse, Answer, Outcome
  <2> QED
    BY <2>1, <2>2 DEF HasWritten, Acknowledges
<1>7. CASE \/ RefuseCreate(h) \/ PolicyNotFound(h) \/ VersionNotFound(h) \/ AnswerGet(h)
           \/ RefuseUpdate(h) \/ IncrementLost(h) \/ CallFails(h)
  <2>1. pc'[h] = "done"
    BY <1>2, <1>7 DEF RefuseCreate, PolicyNotFound, VersionNotFound, AnswerGet, RefuseUpdate,
       IncrementLost, CallFails, Refuse, Answer, Goto
  <2>2. request' = request /\ (reply'[h].code = "OK" => request[h].op = "Get")
    BY <1>2, <1>7 DEF RefuseCreate, PolicyNotFound, VersionNotFound, AnswerGet, RefuseUpdate,
       IncrementLost, CallFails, Refuse, Answer, Goto
  <2> QED
    BY <2>1, <2>2 DEF HasWritten, Acknowledges
<1>8. CASE \/ CreatePolicy(h) \/ GetPolicy(h) \/ UpdatePolicy(h) \/ DeletePolicy(h) \/ FetchPolicy(h)
           \/ UpdateMetadata(h) \/ UpdateContent(h) \/ IncrementPolicyVersion(h)
           \/ IncrementVersionedId(h) \/ Deliver(h) \/ Abandon(h)
  <2>1. pc'[h] \in {"idle", "policyItem", "getPolicy", "getVersion", "writeDelete", "increment"}
    BY <1>2, <1>8 DEF CreatePolicy, GetPolicy, UpdatePolicy, DeletePolicy, FetchPolicy,
       UpdateMetadata, UpdateContent, IncrementPolicyVersion, IncrementVersionedId, Deliver, Abandon,
       Forget, Accept, Goto
  <2> QED
    BY <2>1 DEF HasWritten, Acknowledges
<1> QED
  BY <1>1, <1>3, <1>4, <1>5, <1>6, <1>7, <1>8 DEF Serve

\* The documents that a client was told about, and what a search has of them.
ToldOfDocuments ==
  \A p \in Policy :
    /\ told[p].deleted => policyDoc[p] # Missing /\ policyDoc[p].deleted
    /\ told[p].version # 0 =>
         /\ policyDoc[p] # Missing /\ policyDoc[p].currentVersion >= told[p].version
         /\ versionDoc[p][told[p].version] # Missing
         /\ p \in joined \/ policyDoc[p].deleted

SearchFresh ==
  (\A h \in Handler : h \notin unrefreshed) =>
    searchable = [policies |-> policyDoc, versions |-> versionDoc, joined |-> joined]

ToldInv ==
  /\ \A h \in Handler : HasWritten(h)
  /\ ToldOfDocuments /\ SearchFresh /\ ListsWhatWasTold

\* A search that sees the documents as they are finds what the documents hold.
SearchIsExact == searchable = [policies |-> policyDoc, versions |-> versionDoc, joined |-> joined]

LEMMA FreshSearch == SearchIsExact /\ ToldOfDocuments /\ ListingTypeOK => ListsWhatWasTold
<1> USE DEF SearchIsExact
<1> SUFFICES ASSUME SearchIsExact, ToldOfDocuments, ListingTypeOK, NEW p \in Policy
             PROVE  /\ told[p].deleted => p \notin LivePolicies
                    /\ told[p].version # 0 =>
                         \/ policyDoc[p].deleted
                         \/ /\ p \in LivePolicies /\ told[p].version \in VersionsListed(p)
                            /\ searchable.policies[p].currentVersion >= told[p].version
  BY DEF ListsWhatWasTold
<1>1. told[p].version # 0 => told[p].version \in Version
  BY DEF ListingTypeOK, Told, Version
<1> QED
  BY <1>1 DEF ToldOfDocuments, LivePolicies, VersionsListed

\* An answer tells what its RPC has written, and nothing else is told.
LEMMA TellStep ==
  ASSUME OneAtATime, SoloInv, ListingTypeOK, ToldInv, NEW h \in Handler, Rpc(h), Acknowledges(h)
  PROVE  ToldOfDocuments' /\ UNCHANGED <<policyDoc, versionDoc, joined>>
<1> USE DEF SoloInv
<1> DEFINE p == request[h].policy
<1>1. pc[h] = "done" /\ reply[h].code = "OK" /\ request[h] \in Request /\ p \in Policy
  BY RequestFields, SMTT(30) DEF Acknowledges, ShapeInv, HandlerShape
<1>2. UNCHANGED <<policyDoc, versionDoc, joined>>
  BY <1>1, RpcServes DEF Rpc, Serve, CreatePolicy, RefuseCreate, GetPolicy, UpdatePolicy,
     DeletePolicy, PolicyNotFound, FetchPolicy, VersionNotFound, AnswerGet, RefuseUpdate,
     UpdateMetadata, UpdateContent, IncrementPolicyVersion, IncrementVersionedId, IncrementLost,
     WritePolicyItem, WriteCounterItem, WriteVersionItem, VersionConflict, ItemFails, BulkReply,
     WriteDelete, CallFails, Deliver, Abandon, Forget, Accept, Refuse, Answer, Goto, store
<1>3. told' = [told EXCEPT ![p] = TellAfter(h)]
  BY DEF Rpc
<1>4. told \in Told /\ told[p] \in [version : 0..MaxVersion, deleted : BOOLEAN]
  BY <1>1 DEF ListingTypeOK, Told
<1>5. /\ policyDoc[p] # Missing
      /\ request[h].op = "Delete" => policyDoc[p].deleted
      /\ request[h].op # "Delete" => p \in joined /\ policyDoc[p].currentVersion = reply[h].version
  BY DEF ToldInv, HasWritten
<1>6. request[h].op # "Delete" /\ reply[h].version # 0 =>
        versionDoc[p][reply[h].version] # Missing
  BY <1>1, MissingApart DEF AnswerInv, AnswersStayTrue
<1>7. policyDoc[p].currentVersion \in Version
  BY <1>1, <1>5 DEF ShapeInv, TypeOK, PolicyDocument
<1>8. /\ TellAfter(h).deleted => policyDoc[p].deleted
      /\ TellAfter(h).version # 0 =>
           /\ policyDoc[p].currentVersion >= TellAfter(h).version
           /\ versionDoc[p][TellAfter(h).version] # Missing
           /\ p \in joined \/ policyDoc[p].deleted
  <2>1. CASE request[h].op = "Delete"
    BY <1>1, <1>4, <1>5, <2>1 DEF TellAfter, ToldInv, ToldOfDocuments
  <2>2. CASE request[h].op # "Delete" /\ reply[h].version > told[p].version
    <3>1. /\ TellAfter(h).version = reply[h].version /\ TellAfter(h).deleted = told[p].deleted
      BY <1>4, <2>2 DEF TellAfter
    <3>2. reply[h].version >= reply[h].version
      BY <1>5, <1>7, <2>2, Bounds
    <3>3. reply[h].version # 0
      BY <1>5, <1>7, <2>2, Bounds
    <3> QED
      BY <1>1, <1>5, <1>6, <2>2, <3>1, <3>2, <3>3 DEF ToldInv, ToldOfDocuments
  <2>3. CASE request[h].op # "Delete" /\ ~(reply[h].version > told[p].version)
    BY <1>1, <1>5, <2>3 DEF TellAfter, ToldInv, ToldOfDocuments
  <2> QED
    BY <2>1, <2>2, <2>3
<1>9. ASSUME NEW q \in Policy
      PROVE  /\ told'[q].deleted => policyDoc[q] # Missing /\ policyDoc[q].deleted
             /\ told'[q].version # 0 =>
                  /\ policyDoc[q] # Missing /\ policyDoc[q].currentVersion >= told'[q].version
                  /\ versionDoc[q][told'[q].version] # Missing
                  /\ q \in joined \/ policyDoc[q].deleted
  <2>1. CASE q = p
    <3>1. told'[q] = TellAfter(h)
      BY <1>3, <1>4, <2>1 DEF Told
    <3> QED
      BY <1>5, <1>8, <2>1, <3>1
  <2>2. CASE q # p
    <3>1. told'[q] = told[q]
      BY <1>3, <1>4, <2>2 DEF Told
    <3> QED
      BY <3>1 DEF ToldInv, ToldOfDocuments
  <2> QED
    BY <2>1, <2>2
<1> QED
  BY <1>2, <1>9 DEF ToldOfDocuments

LEMMA FreshSearchNext ==
  SearchIsExact' /\ ToldOfDocuments' /\ ListingTypeOK' => ListsWhatWasTold'
<1>1. SearchIsExact /\ ToldOfDocuments /\ ListingTypeOK => ListsWhatWasTold
  BY FreshSearch
<1> QED
  BY <1>1, PTL

\* What clients were told stays true of the documents, and of the search.
LEMMA ToldStep ==
  ASSUME OneAtATime, ItemFaults = FALSE, SoloInv, PointerInv, ShapeInv', ListingTypeOK,
         ListingTypeOK', ToldInv, [ListingNext]_listingVars
  PROVE  ToldInv'
<1>1. CASE UNCHANGED listingVars
  <2>1. /\ policyDoc' = policyDoc /\ versionDoc' = versionDoc /\ pc' = pc /\ request' = request
        /\ snapshot' = snapshot /\ reply' = reply /\ joined' = joined /\ searchable' = searchable
        /\ unrefreshed' = unrefreshed /\ told' = told
    BY <1>1 DEF listingVars, vars
  <2> QED
    BY <2>1 DEF ToldInv, HasWritten, Acknowledges, ToldOfDocuments, SearchFresh, ListsWhatWasTold,
       LivePolicies, VersionsListed
<1>2. ASSUME NEW h \in Handler, Rpc(h) PROVE ToldInv'
  <2>1. \A g \in Handler : HasWritten(g)'
    <3>1. HasWritten(h)'
      BY <1>2, HasWrittenStep DEF ToldInv
    <3> QED
      BY <3>1, Zenon DEF OneAtATime
  <2>2. ToldOfDocuments'
    <3>1. CASE Acknowledges(h)
      BY <1>2, <3>1, TellStep
    <3>2. CASE ~Acknowledges(h)
      <4>1. told' = told
        BY <1>2, <3>2 DEF Rpc
      <4>2. SUFFICES ASSUME NEW p \in Policy
                     PROVE  /\ told[p].deleted => policyDoc'[p] # Missing /\ policyDoc'[p].deleted
                            /\ told[p].version # 0 =>
                                 /\ policyDoc'[p] # Missing
                                 /\ policyDoc'[p].currentVersion >= told[p].version
                                 /\ versionDoc'[p][told[p].version] # Missing
                                 /\ p \in joined' \/ policyDoc'[p].deleted
        BY <4>1 DEF ToldOfDocuments
      <4>3. policyDoc[p] # Missing =>
              /\ policyDoc'[p] # Missing
              /\ policyDoc[p].deleted => policyDoc'[p].deleted
              /\ policyDoc'[p].currentVersion >= policyDoc[p].currentVersion
              /\ p \in joined => p \in joined' \/ policyDoc'[p].deleted
        BY <1>2, DocumentsGrow DEF ListingTypeOK
      <4>4. \A v \in Version : versionDoc[p][v] # Missing => versionDoc'[p][v] # Missing
        BY <1>2, RpcServes, PlainWrites DEF SoloInv, Stored
      <4>5. told[p].version # 0 => told[p].version \in Version
        BY DEF ListingTypeOK, Told, Version
      <4>6. policyDoc[p] # Missing /\ policyDoc'[p] # Missing =>
              /\ policyDoc[p].currentVersion \in Nat /\ policyDoc'[p].currentVersion \in Nat
        BY Bounds DEF SoloInv, ShapeInv, TypeOK, PolicyDocument
      <4>7. told[p].version \in Nat
        BY Bounds DEF ListingTypeOK, Told
      <4>8. told[p].version # 0 /\ policyDoc[p] # Missing =>
              policyDoc[p].currentVersion >= told[p].version
        BY DEF ToldInv, ToldOfDocuments
      <4> QED
        BY <4>3, <4>4, <4>5, <4>6, <4>7, <4>8 DEF ToldInv, ToldOfDocuments
    <3> QED
      BY <3>1, <3>2
  <2>3. SearchFresh'
    <3>1. CASE <<policyDoc, versionDoc, joined>>' = <<policyDoc, versionDoc, joined>>
      BY <1>2, <3>1 DEF Rpc, ToldInv, SearchFresh
    <3>2. CASE <<policyDoc, versionDoc, joined>>' # <<policyDoc, versionDoc, joined>>
      <4>1. h \in unrefreshed'
        BY <1>2, <3>2 DEF Rpc
      <4> QED
        BY <4>1 DEF SearchFresh
    <3> QED
      BY <3>1, <3>2
  <2>4. ListsWhatWasTold'
    <3>1. CASE Acknowledges(h)
      <4>1. CASE WaitsForRefresh
        <5>1. h \notin unrefreshed
          BY <1>2, <3>1, <4>1 DEF Rpc, Answerable
        <5>2. \A g \in Handler : g \notin unrefreshed
          BY <5>1, Zenon DEF OneAtATime
        <5>3. SearchIsExact
          BY <5>2 DEF ToldInv, SearchFresh, SearchIsExact
        <5>4. UNCHANGED <<policyDoc, versionDoc, joined, searchable>>
          BY <1>2, <3>1, TellStep DEF Rpc
        <5>5. SearchIsExact'
          BY <5>3, <5>4 DEF SearchIsExact
        <5> QED
          BY <2>2, <5>5, FreshSearchNext
      <4>2. CASE ~WaitsForRefresh
        BY <4>2 DEF ListsWhatWasTold
      <4> QED
        BY <4>1, <4>2
    <3>2. CASE ~Acknowledges(h)
      <4>1. told' = told /\ searchable' = searchable
        BY <1>2, <3>2 DEF Rpc
      <4>2. \A p \in Policy : policyDoc[p] # Missing /\ policyDoc[p].deleted => policyDoc'[p].deleted
        BY <1>2, DocumentsGrow DEF ListingTypeOK
      <4>3. \A p \in Policy : told[p].version # 0 => policyDoc[p] # Missing
        BY DEF ToldInv, ToldOfDocuments
      <4> QED
        BY <4>1, <4>2, <4>3 DEF ToldInv, ListsWhatWasTold, LivePolicies, VersionsListed
    <3> QED
      BY <3>1, <3>2
  <2> QED
    BY <2>1, <2>2, <2>3, <2>4 DEF ToldInv
<1>3. CASE Refresh
  <2>1. /\ policyDoc' = policyDoc /\ versionDoc' = versionDoc /\ pc' = pc /\ request' = request
        /\ snapshot' = snapshot /\ reply' = reply /\ joined' = joined /\ told' = told
        /\ SearchIsExact'
    BY <1>3 DEF Refresh, vars, SearchIsExact
  <2>2. ToldOfDocuments' /\ SearchFresh'
    BY <2>1 DEF ToldInv, ToldOfDocuments, SearchFresh, SearchIsExact
  <2>3. \A g \in Handler : HasWritten(g)'
    BY <2>1 DEF ToldInv, HasWritten, Acknowledges
  <2> QED
    BY <2>1, <2>2, <2>3, FreshSearchNext DEF ToldInv
<1>4. CASE ListPolicies \/ GetVersions
  <2>1. /\ policyDoc' = policyDoc /\ versionDoc' = versionDoc /\ pc' = pc /\ request' = request
        /\ snapshot' = snapshot /\ reply' = reply /\ joined' = joined /\ searchable' = searchable
        /\ unrefreshed' = unrefreshed /\ told' = told
    BY <1>4 DEF ListPolicies, GetVersions, vars
  <2> QED
    BY <2>1 DEF ToldInv, HasWritten, Acknowledges, ToldOfDocuments, SearchFresh, ListsWhatWasTold,
       LivePolicies, VersionsListed
<1> QED
  BY <1>1, <1>2, <1>3, <1>4 DEF ListingNext

\* Where answers wait for the refresh, and RPCs do not overlap, a client that was told that a
\* policy was created, updated or deleted finds it so in every listing from then on,
\* whatever calls fail.
THEOREM ListsAreTrue ==
  ASSUME OneAtATime, IdVersions = {0}, ItemFaults = FALSE
  PROVE  ListingSpec => []ListsWhatWasTold
<1>1. ListingInit => ToldInv
  <2> SUFFICES ASSUME ListingInit PROVE ToldInv
    OBVIOUS
  <2>1. \A h \in Handler : HasWritten(h)
    BY DEF ListingInit, Init, HasWritten, Acknowledges
  <2>2. ToldOfDocuments /\ ListsWhatWasTold
    BY DEF ListingInit, NothingTold, ToldOfDocuments, ListsWhatWasTold
  <2>3. SearchFresh
    BY DEF ListingInit, SearchFresh
  <2> QED
    BY <2>1, <2>2, <2>3 DEF ToldInv
<1>2. Spec => [](IInv /\ SoloInv)
  BY InvariantHolds, SoloHolds, PTL
<1>3. /\ IInv /\ SoloInv /\ ListingTypeOK /\ ToldInv /\ [ListingNext]_listingVars
      /\ IInv' /\ ListingTypeOK'
      => ToldInv'
  BY ToldStep DEF IInv
<1>4. ToldInv => ListsWhatWasTold
  BY DEF ToldInv
<1> QED
  BY <1>1, <1>2, <1>3, <1>4, ListingImplementsManager, ListingTypeCorrect, PTL DEF ListingSpec
=============================================================================
