----------------------- MODULE PolicyAssignmentProofs -----------------------
(***************************************************************************)
(* Proofs about PolicyAssignments, for any number of policies, versions,   *)
(* groups and assignment RPCs in flight, whatever calls fail, whatever     *)
(* Create does to an existing id and whether or not writes wait for the    *)
(* refresh.                                                                *)
(***************************************************************************)
EXTENDS PolicyAssignments, TLAPS

InFlight(h) == pc[h] \notin {"idle", "done"}
Writes == {"createAssignment", "writeAssignment"}

Version == 1..MaxVersion
VersionStored(a) == versions[a.policy][a.version] # Missing
GroupStored(a) == groupDoc[a.group] # Missing

\* What a handler relies on between its calls: what a check has found stays true, or
\* has been seen during the RPC.
HandlerShape(h) ==
  /\ pc[h] # "idle" => request[h] \in Request
  /\ pc[h] = "idle" => seen[h] = {}
  /\ pc[h] = "getAssignment" /\ request[h].op = "Create" =>
       request[h].path = PolicyAssignmentId(Asked(h))
  /\ pc[h] \in {"getPolicy", "getGroup"} \cup Writes =>
       /\ Asked(h).version # 0 /\ request[h].path = PolicyAssignmentId(Asked(h))
       /\ request[h].op = "Update" => "present" \in seen[h]
       /\ request[h].op # "Delete"
  /\ pc[h] \in {"getGroup"} \cup Writes => VersionStored(Asked(h)) /\ "policy" \in seen[h]
  /\ pc[h] \in Writes => GroupStored(Asked(h)) /\ "group" \in seen[h]
  /\ pc[h] = "removeAssignment" => request[h].op = "Delete"
  /\ InFlight(h) /\ request[h].op = "Delete" /\ "searchable" \in seen[h] =>
       searchable[request[h].path] \/ "absent" \in seen[h]
  /\ pc[h] = "refresh" /\ request[h].op = "Delete" => "absent" \in seen[h]

RegistryTypes ==
  /\ versions \in [Policy -> [Version -> Rego \cup {Missing}]]
  /\ groupDoc \in [Group -> Groups!GroupDocument \cup {Missing}]

ShapeInv ==
  /\ TypeOK /\ RegistryTypes
  /\ AssignmentNamesItsPath /\ AssignmentsResolve
  /\ \A h \in Handler : HandlerShape(h)

----------------------------------------------------------------------------
\* The sentinel is none of the values it stands apart from.
LEMMA MissingApart ==
  /\ Missing \notin Rego /\ Missing \notin Groups!GroupDocument
  /\ Missing \notin Assignment /\ Missing \notin Request /\ Missing \notin Code
  BY MissingAssumption

\* The fields of a request and of an assignment have their types.
LEMMA Fields ==
  /\ \A m \in Request :
       /\ m.op \in {"Create", "Update", "Delete"} /\ m.path \in Path
       /\ m.assignment \in Assignment
  /\ \A a \in Assignment :
       /\ a.policy \in Policy /\ a.version \in 0..MaxVersion /\ a.group \in Group
       /\ PolicyAssignmentId(a) \in Path
       /\ a.version # 0 => a.version \in Version
  BY BoundAssumption DEF Request, Assignment, Path, PolicyAssignmentId, Version

\* What an RPC sees after a step.
LEMMA SightsAfter ==
  ASSUME NEW h \in Handler
  PROVE  /\ "policy" \in Sights(h)' <=>
              request'[h].op # "Delete" /\ Live(policies[Asked(h).policy])'
         /\ "group" \in Sights(h)' <=>
              request'[h].op # "Delete" /\ Live(groupDoc[Asked(h).group])'
         /\ "present" \in Sights(h)' <=> request'[h].op = "Update" /\ Existing(h)' # Missing
         /\ "absent" \in Sights(h)' <=> request'[h].op = "Delete" /\ Existing(h)' = Missing
         /\ "searchable" \in Sights(h)' <=>
              request'[h].op = "Delete" /\ searchable'[request'[h].path]
  BY DEF Sights

\* Init puts nothing anywhere.
LEMMA ShapeInit == Init => ShapeInv
<1> SUFFICES ASSUME Init PROVE ShapeInv
  OBVIOUS
<1>1. TypeOK
  BY DEF Init, TypeOK, Label
<1>2. RegistryTypes
  BY DEF Init, RegistryTypes, Policies!Init, Policies!Version, Groups!Init, Version
<1>3. AssignmentNamesItsPath /\ AssignmentsResolve
  BY DEF Init, AssignmentNamesItsPath, AssignmentsResolve
<1>4. \A h \in Handler : HandlerShape(h)
  BY DEF Init, HandlerShape, InFlight, Writes
<1> QED
  BY <1>1, <1>2, <1>3, <1>4 DEF ShapeInv

\* What an RPC in flight has seen it will have seen after the step, and no step takes
\* a searchable document from the index without showing that it is absent.
SearchKept ==
  \/ searchable' = searchable
  \/ \A path \in Path : searchable'[path] <=> assignmentDoc'[path] # Missing

LEMMA SeenAfter ==
  ASSUME Observe, NEW h \in Handler
  PROVE  seen'[h] = IF pc'[h] \in {"idle", "done"} THEN {} ELSE seen[h] \cup Sights(h)'
  BY DEF Observe

LEMMA SearchSeen ==
  ASSUME Observe, SearchKept, NEW h \in Handler,
         HandlerShape(h), InFlight(h)', request'[h] \in Request,
         pc[h] = "idle" \/ (InFlight(h) /\ request'[h] = request[h])
  PROVE  request'[h].op = "Delete" /\ "searchable" \in seen'[h] =>
           searchable'[request'[h].path] \/ "absent" \in seen'[h]
<1>1. request'[h].path \in Path
  BY Fields
<1>2. seen'[h] = seen[h] \cup Sights(h)'
  BY SeenAfter DEF InFlight
<1>3. CASE searchable' = searchable
  BY <1>2, <1>3, SightsAfter DEF HandlerShape
<1>4. CASE \A path \in Path : searchable'[path] <=> assignmentDoc'[path] # Missing
  BY <1>1, <1>2, <1>4, SightsAfter DEF Existing
<1> QED
  BY <1>3, <1>4 DEF SearchKept

\* Versions and groups stay once they are there.
Grows ==
  /\ RegistryTypes'
  /\ \A a \in Assignment :
       /\ a.version # 0 /\ VersionStored(a) => VersionStored(a)'
       /\ GroupStored(a) => GroupStored(a)'

LEMMA RegistriesGrow ==
  ASSUME RegistryTypes, Policies!Next \/ UNCHANGED policyVars, Groups!Next \/ UNCHANGED groupDoc
  PROVE  Grows
<1> DEFINE VersionsStay ==
      /\ versions' \in [Policy -> [Version -> Rego \cup {Missing}]]
      /\ \A p \in Policy, v \in Version : versions[p][v] # Missing => versions'[p][v] # Missing
<1>1. VersionsStay
  <2>1. CASE UNCHANGED policyVars
    BY <2>1 DEF RegistryTypes, policyVars
  <2>2. ASSUME NEW p \in Policy, NEW rego \in Rego, NEW v \in Version,
               versions' = [versions EXCEPT ![p][v] = rego]
        PROVE  VersionsStay
    <3>1. versions \in [Policy -> [Version -> Rego \cup {Missing}]]
      BY DEF RegistryTypes
    <3>2. versions' = [versions EXCEPT ![p] = [versions[p] EXCEPT ![v] = rego]]
      BY <2>2
    <3>3. [versions[p] EXCEPT ![v] = rego] \in [Version -> Rego \cup {Missing}]
      BY <3>1
    <3>4. versions' \in [Policy -> [Version -> Rego \cup {Missing}]]
      BY <3>1, <3>2, <3>3
    <3>5. \A q \in Policy, w \in Version :
            versions'[q][w] = IF q = p /\ w = v THEN rego ELSE versions[q][w]
      BY <3>1, <3>2
    <3> QED
      BY <3>4, <3>5, MissingApart
  <2>3. ASSUME NEW p \in Policy, Policies!Create(p)
        PROVE  VersionsStay
    <3>1. PICK rego \in Rego : versions' = [versions EXCEPT ![p][1] = rego]
      BY <2>3 DEF Policies!Create
    <3>2. 1 \in Version
      BY BoundAssumption DEF Version
    <3> HIDE DEF VersionsStay
    <3> QED
      BY <2>2, <3>1, <3>2
  <2>4. ASSUME NEW p \in Policy, Policies!Revise(p)
        PROVE  VersionsStay
    BY <2>2, <2>4 DEF Policies!Revise, Policies!Version, Version
  <2>5. ASSUME NEW p \in Policy, Policies!Rename(p) \/ Policies!Delete(p)
        PROVE  VersionsStay
    BY <2>5 DEF Policies!Rename, Policies!Delete, RegistryTypes
  <2> QED
    BY <2>1, <2>3, <2>4, <2>5 DEF Policies!Next
<1>2. /\ groupDoc' \in [Group -> Groups!GroupDocument \cup {Missing}]
      /\ \A g \in Group : groupDoc[g] # Missing => groupDoc'[g] # Missing
  <2>1. CASE UNCHANGED groupDoc
    BY <2>1 DEF RegistryTypes
  <2>2. CASE Groups!Next
    <3>1. PICK g \in Group, document \in Groups!GroupDocument :
            groupDoc' = [groupDoc EXCEPT ![g] = document]
      BY <2>2 DEF Groups!Next, Groups!Create, Groups!Change, Groups!Write
    <3> QED
      BY <3>1, MissingApart DEF RegistryTypes
  <2> QED
    BY <2>1, <2>2
<1> QED
  BY <1>1, <1>2, Fields DEF Grows, RegistryTypes, VersionStored, GroupStored

\* A step of others leaves an RPC what it relies on.
LEMMA OthersKeepShape ==
  ASSUME ShapeInv, Observe, SearchKept, Grows, NEW h \in Handler,
         pc'[h] = pc[h], request'[h] = request[h]
  PROVE  HandlerShape(h)'
<1>0. HandlerShape(h)
  BY DEF ShapeInv
<1>1. CASE pc[h] \in {"idle", "done"}
  BY <1>0, <1>1, SeenAfter DEF HandlerShape, InFlight, Writes
<1>2. CASE InFlight(h)
  <2>1. request[h] \in Request /\ Asked(h) \in Assignment
    BY <1>0, <1>2, Fields DEF HandlerShape, InFlight, Asked
  <2>2. seen[h] \subseteq seen'[h] /\ Asked(h)' = Asked(h) /\ InFlight(h)'
    BY <1>2, SeenAfter DEF InFlight, Asked
  <2>3. request'[h].op = "Delete" /\ "searchable" \in seen'[h] =>
          searchable'[request'[h].path] \/ "absent" \in seen'[h]
    BY <1>0, <1>2, <2>1, <2>2, SearchSeen
  <2>4. /\ Asked(h).version # 0 /\ VersionStored(Asked(h)) => VersionStored(Asked(h))'
        /\ GroupStored(Asked(h)) => GroupStored(Asked(h))'
    BY <2>1, <2>2 DEF Grows, VersionStored, GroupStored
  <2> QED
    BY <1>0, <1>2, <2>1, <2>2, <2>3, <2>4 DEF HandlerShape, InFlight, Writes
<1> QED
  BY <1>1, <1>2 DEF InFlight

----------------------------------------------------------------------------
(***************************************************************************)
(* The step of a handler.                                                  *)
(***************************************************************************)

\* Only the handler moves, and the registries stay.
MovesOnly(h) ==
  /\ \A g \in Handler \ {h} : pc'[g] = pc[g] /\ request'[g] = request[g]
  /\ UNCHANGED <<policyVars, groupDoc>>
  /\ pc' \in [Handler -> Label]
  /\ request' \in [Handler -> Request \cup {Missing}]
  /\ reply' \in [Handler -> Code \cup {Missing}]

LEMMA HandlerKeepsShape ==
  ASSUME ShapeInv, Observe, SearchKept, NEW h \in Handler, MovesOnly(h),
         UNCHANGED index, HandlerShape(h)'
  PROVE  ShapeInv'
<1>1. Grows
  BY RegistriesGrow DEF MovesOnly, ShapeInv
<1>2. \A g \in Handler \ {h} : HandlerShape(g)'
  BY <1>1, OthersKeepShape DEF MovesOnly
<1>3. TypeOK'
  BY DEF ShapeInv, TypeOK, MovesOnly, index
<1>4. AssignmentNamesItsPath' /\ AssignmentsResolve'
  BY DEF ShapeInv, AssignmentNamesItsPath, AssignmentsResolve, MovesOnly, index, policyVars
<1> QED
  BY <1>1, <1>2, <1>3, <1>4 DEF ShapeInv, Grows

\* An answer ends what the handler relies on.
LEMMA AnswerKeepsShape ==
  ASSUME ShapeInv, Observe, NEW h \in Handler, NEW from, NEW code \in Code, from # "idle",
         Answer(h, from, code), UNCHANGED index
  PROVE  ShapeInv'
<1>1. MovesOnly(h) /\ pc'[h] = "done" /\ request'[h] = request[h] /\ pc[h] # "idle"
  BY DEF ShapeInv, TypeOK, Answer, Goto, MovesOnly, Label
<1>2. HandlerShape(h)'
  BY <1>1 DEF ShapeInv, HandlerShape, InFlight, Writes
<1> QED
  BY <1>1, <1>2, HandlerKeepsShape DEF SearchKept, index

\* A call that takes the RPC further.
LEMMA ContinueKeepsShape ==
  ASSUME ShapeInv, Observe, NEW h \in Handler, NEW from, NEW to \in Label,
         from \notin {"idle", "done"}, to \notin {"idle", "done", "getAssignment"},
         Continue(h, from, to), HandlerShape(h)'
  PROVE  ShapeInv'
<1>1. MovesOnly(h)
  BY DEF ShapeInv, TypeOK, Continue, Goto, MovesOnly
<1> QED
  BY <1>1, HandlerKeepsShape DEF SearchKept, Continue, index

\* A write puts at the path of its RPC an assignment that names that path and resolves, or
\* nothing.
LEMMA WriteKeepsShape ==
  ASSUME ShapeInv, Observe, NEW h \in Handler, NEW label \in Label \ {"idle", "done"},
         NEW document, Written(h, label, document), pc[h] = label,
         \/ document = Missing /\ request[h].op = "Delete"
         \/ /\ document \in Assignment /\ PolicyAssignmentId(document) = request[h].path
            /\ document.version # 0 /\ VersionStored(document) /\ GroupStored(document)
            /\ request[h].op # "Delete"
  PROVE  ShapeInv'
<1>0. /\ TypeOK /\ HandlerShape(h) /\ request[h] \in Request /\ request[h].path \in Path
      /\ InFlight(h)
  BY Fields DEF ShapeInv, HandlerShape, InFlight
<1>1. /\ MovesOnly(h) /\ request'[h] = request[h]
      /\ pc'[h] = IF WaitsForRefresh THEN "refresh" ELSE "done"
  BY <1>0 DEF Written, Goto, TypeOK, MovesOnly, Label, Code
<1>2. assignmentDoc' = [assignmentDoc EXCEPT ![request[h].path] = document]
      /\ dirty' = [dirty EXCEPT ![request[h].path] = TRUE] /\ searchable' = searchable
  BY DEF Written
<1>3. Grows
  BY <1>1, RegistriesGrow DEF MovesOnly, ShapeInv
<1>4. \A g \in Handler \ {h} : HandlerShape(g)'
  BY <1>1, <1>2, <1>3, OthersKeepShape DEF MovesOnly, SearchKept
<1>5. HandlerShape(h)'
  <2>1. CASE pc'[h] = "done"
    BY <1>0, <1>1, <2>1 DEF HandlerShape, InFlight, Writes
  <2>2. CASE pc'[h] = "refresh"
    <3>1. request'[h].op = "Delete" /\ "searchable" \in seen'[h] =>
            searchable'[request'[h].path] \/ "absent" \in seen'[h]
      BY <1>0, <1>1, <1>2, <2>2, SearchSeen DEF SearchKept, InFlight
    <3>2. request'[h].op = "Delete" => "absent" \in seen'[h]
      BY <1>0, <1>1, <1>2, <2>2, SeenAfter, SightsAfter DEF Existing, TypeOK
    <3> QED
      BY <1>0, <1>1, <2>2, <3>1, <3>2 DEF HandlerShape, InFlight, Writes
  <2> QED
    BY <1>1, <2>1, <2>2
<1>6. TypeOK'
  BY <1>0, <1>1, <1>2 DEF TypeOK, MovesOnly
<1>7. AssignmentNamesItsPath'
  BY <1>0, <1>2 DEF ShapeInv, TypeOK, AssignmentNamesItsPath
<1>8. AssignmentsResolve'
  BY <1>0, <1>1, <1>2
  DEF ShapeInv, TypeOK, AssignmentsResolve, MovesOnly, policyVars, VersionStored, GroupStored
<1> QED
  BY <1>3, <1>4, <1>5, <1>6, <1>7, <1>8 DEF ShapeInv, Grows

LEMMA AcceptStep ==
  ASSUME ShapeInv, Observe, NEW h \in Handler,
         CreatePolicyAssignment(h) \/ UpdatePolicyAssignment(h) \/ DeletePolicyAssignment(h)
  PROVE  ShapeInv'
<1> DEFINE Accepted(message) ==
      /\ Goto(h, "idle", "getAssignment")
      /\ request' = [request EXCEPT ![h] = message]
      /\ UNCHANGED <<policyVars, groupDoc, index, reply>>
      /\ message.op = "Create" => message.path = PolicyAssignmentId(message.assignment)
<1>1. PICK message \in Request : Accepted(message)
  <2>1. ASSUME NEW op \in {"Create", "Update", "Delete"}, NEW path \in Path,
               NEW assignment \in Assignment, Accept(h, op, path, assignment),
               op = "Create" => path = PolicyAssignmentId(assignment)
        PROVE  \E message \in Request : Accepted(message)
    <3> DEFINE m == [op |-> op, path |-> path, assignment |-> assignment]
    <3>1. m \in Request
      BY <2>1 DEF Request
    <3> QED
      BY <2>1, <3>1 DEF Accept
  <2>2. CASE CreatePolicyAssignment(h)
    BY <2>1, <2>2, Fields DEF CreatePolicyAssignment
  <2>3. CASE UpdatePolicyAssignment(h)
    BY <2>1, <2>3 DEF UpdatePolicyAssignment
  <2>4. CASE DeletePolicyAssignment(h)
    <3>1. \A path \in Path :
            [policy |-> path[1], version |-> 0, group |-> path[2]] \in Assignment
      BY BoundAssumption DEF Path, Assignment
    <3> QED
      BY <2>1, <2>4, <3>1 DEF DeletePolicyAssignment
  <2> QED
    BY <2>2, <2>3, <2>4
<1>2. /\ MovesOnly(h) /\ pc[h] = "idle" /\ pc'[h] = "getAssignment" /\ request'[h] = message
  BY <1>1 DEF ShapeInv, TypeOK, Goto, MovesOnly, Label
<1>3. HandlerShape(h)'
  <2>1. request'[h].op = "Delete" /\ "searchable" \in seen'[h] =>
          searchable'[request'[h].path] \/ "absent" \in seen'[h]
    <3>1. InFlight(h)' /\ SearchKept /\ HandlerShape(h) /\ request'[h] \in Request
      <4>1. InFlight(h)' /\ request'[h] \in Request
        BY <1>2 DEF InFlight
      <4>2. SearchKept
        BY <1>1 DEF SearchKept, index
      <4> QED
        BY <4>1, <4>2 DEF ShapeInv
    <3> QED
      BY <1>2, <3>1, SearchSeen
  <2> QED
    BY <1>1, <1>2, <2>1 DEF HandlerShape, InFlight, Writes, Asked
<1> QED
  BY <1>1, <1>2, <1>3, HandlerKeepsShape DEF SearchKept, index

\* The checks of an RPC.
LEMMA CheckStep ==
  ASSUME ShapeInv, Observe, NEW h \in Handler,
         GetAssignment(h) \/ GetPolicy(h) \/ GetGroup(h)
  PROVE  ShapeInv'
<1>0. /\ TypeOK /\ HandlerShape(h) /\ request[h] \in Request
      /\ request[h].op \in {"Create", "Update", "Delete"} /\ request[h].path \in Path
      /\ InFlight(h) /\ Asked(h) \in Assignment
  BY Fields DEF ShapeInv, HandlerShape, GetAssignment, GetPolicy, GetGroup, InFlight, Asked
<1>1. ASSUME NEW from, NEW to \in Label, to \notin {"idle", "done", "getAssignment"},
             Continue(h, from, to)
      PROVE  /\ pc[h] = from /\ pc'[h] = to
             /\ request'[h] = request[h] /\ Asked(h)' = Asked(h) /\ Existing(h)' = Existing(h)
             /\ policies' = policies /\ versions' = versions /\ groupDoc' = groupDoc
             /\ seen'[h] = seen[h] \cup Sights(h)'
             /\ request'[h].op = "Delete" /\ "searchable" \in seen'[h] =>
                  searchable'[request'[h].path] \/ "absent" \in seen'[h]
  <2>1. /\ pc[h] = from /\ pc'[h] = to /\ request'[h] = request[h] /\ Asked(h)' = Asked(h)
        /\ Existing(h)' = Existing(h) /\ InFlight(h)' /\ SearchKept
        /\ policies' = policies /\ versions' = versions /\ groupDoc' = groupDoc
    BY <1>0, <1>1
    DEF Continue, Goto, TypeOK, Asked, Existing, InFlight, SearchKept, index, policyVars
  <2>2. seen'[h] = seen[h] \cup Sights(h)'
    BY <2>1, SeenAfter DEF InFlight
  <2>3. request'[h].op = "Delete" /\ "searchable" \in seen'[h] =>
          searchable'[request'[h].path] \/ "absent" \in seen'[h]
    BY <1>0, <2>1, SearchSeen
  <2> QED
    BY <2>1, <2>2, <2>3
<1>2. CASE GetAssignment(h)
  <2>1. CASE request[h].op = "Delete"
    <3>1. Continue(h, "getAssignment", "removeAssignment")
      BY <1>2, <2>1 DEF GetAssignment
    <3>2. HandlerShape(h)'
      BY <1>1, <1>0, <2>1, <3>1 DEF HandlerShape, InFlight, Writes, Label
    <3> QED
      BY <3>1, <3>2, ContinueKeepsShape DEF Label
  <2>2. CASE request[h].op # "Delete"
    <3>1. Continue(h, "getAssignment", "getPolicy")
      BY <1>2, <2>2 DEF GetAssignment
    <3>2. Asked(h).version # 0
      BY <1>2, <2>2 DEF GetAssignment, Refusal
    <3>3. request[h].op = "Create" => PolicyAssignmentId(Asked(h)) = request[h].path
      BY <1>0, <1>2 DEF GetAssignment, HandlerShape
    <3>4. request[h].op = "Update" =>
            Existing(h) # Missing /\ PolicyAssignmentId(Asked(h)) = request[h].path
      <4>1. request[h].op = "Update" =>
              Existing(h) # Missing /\ PolicyAssignmentId(Existing(h)) = PolicyAssignmentId(Asked(h))
        BY <1>2, <2>2 DEF GetAssignment, Refusal
      <4> QED
        BY <1>0, <4>1 DEF ShapeInv, AssignmentNamesItsPath, Existing
    <3>5. HandlerShape(h)'
      <4>1. request[h].op = "Update" => "present" \in seen'[h]
        BY <1>1, <3>1, <3>4, SightsAfter DEF Label
      <4> QED
        BY <1>0, <1>1, <2>2, <3>1, <3>2, <3>3, <3>4, <4>1
        DEF HandlerShape, InFlight, Writes, Label
    <3> QED
      BY <3>1, <3>5, ContinueKeepsShape DEF Label
  <2> QED
    BY <2>1, <2>2
<1>3. CASE GetPolicy(h)
  <2>1. CASE PolicyUsable(h)
    <3>1. Continue(h, "getPolicy", "getGroup")
      BY <1>3, <2>1 DEF GetPolicy
    <3>2. VersionStored(Asked(h)) /\ Live(policies[Asked(h).policy])
      BY <2>1 DEF PolicyUsable, VersionExists, VersionStored, Live
    <3>3. (VersionStored(Asked(h)) /\ Live(policies[Asked(h).policy]))'
      BY <1>1, <3>1, <3>2 DEF VersionStored, Live, Label
    <3>4. "policy" \in seen'[h]
      BY <1>0, <1>1, <3>1, <3>3, SightsAfter DEF HandlerShape, Label
    <3>5. HandlerShape(h)'
      BY <1>0, <1>1, <3>1, <3>3, <3>4 DEF HandlerShape, InFlight, Writes, Label
    <3> QED
      BY <3>1, <3>5, ContinueKeepsShape DEF Label
  <2>2. CASE ~PolicyUsable(h)
    BY <1>3, <2>2, AnswerKeepsShape DEF GetPolicy, Code
  <2> QED
    BY <2>1, <2>2
<1>4. CASE GetGroup(h)
  <2>1. CASE GroupUsable(h)
    <3> DEFINE to == IF request[h].op = "Create" THEN "createAssignment" ELSE "writeAssignment"
    <3>1. Continue(h, "getGroup", to) /\ to \in Writes
      BY <1>4, <2>1 DEF GetGroup, Writes
    <3>2. GroupStored(Asked(h)) /\ Live(groupDoc[Asked(h).group])
      BY <2>1 DEF GroupUsable, GroupStored, Live
    <3> HIDE DEF to
    <3>0. /\ to \in Label /\ to \notin {"idle", "done", "getAssignment", "getPolicy", "getGroup"}
          /\ to # "removeAssignment" /\ to # "refresh"
      BY <3>1 DEF Writes, Label
    <3>3. (GroupStored(Asked(h)) /\ Live(groupDoc[Asked(h).group]) /\ VersionStored(Asked(h)))'
      BY <1>0, <1>1, <3>0, <3>1, <3>2 DEF HandlerShape, VersionStored, GroupStored, Live
    <3>4. "group" \in seen'[h]
      BY <1>0, <1>1, <3>0, <3>1, <3>3, SightsAfter DEF HandlerShape
    <3>5. HandlerShape(h)'
      BY <1>0, <1>1, <3>0, <3>1, <3>3, <3>4 DEF HandlerShape, InFlight
    <3> QED
      BY <3>0, <3>1, <3>5, ContinueKeepsShape
  <2>2. CASE ~GroupUsable(h)
    BY <1>4, <2>2, AnswerKeepsShape DEF GetGroup, Code
  <2> QED
    BY <2>1, <2>2
<1> QED
  BY <1>2, <1>3, <1>4

\* The writes, the answers and the end of an RPC.
LEMMA WriteStep ==
  ASSUME ShapeInv, Observe, NEW h \in Handler,
         CreateAssignment(h) \/ WriteAssignment(h) \/ RemoveAssignment(h)
  PROVE  ShapeInv'
<1>0. HandlerShape(h) /\ pc[h] \in Writes \cup {"removeAssignment"} /\ request[h] \in Request
  BY DEF ShapeInv, HandlerShape, CreateAssignment, WriteAssignment, RemoveAssignment, Written,
         Goto, Writes
<1>1. CASE RemoveAssignment(h)
  BY <1>0, <1>1, WriteKeepsShape DEF RemoveAssignment, HandlerShape, Label
<1>2. CASE CreateAssignment(h) \/ WriteAssignment(h)
  <2>1. /\ pc[h] \in Writes /\ Written(h, pc[h], Asked(h))
        /\ pc[h] \in Label \ {"idle", "done"}
    BY <1>2 DEF CreateAssignment, WriteAssignment, Written, Goto, Writes, Label
  <2>2. /\ Asked(h) \in Assignment /\ PolicyAssignmentId(Asked(h)) = request[h].path
        /\ Asked(h).version # 0 /\ VersionStored(Asked(h)) /\ GroupStored(Asked(h))
        /\ request[h].op # "Delete"
    BY <1>0, <2>1, Fields DEF HandlerShape, Asked
  <2> QED
    BY <2>1, <2>2, WriteKeepsShape
<1> QED
  BY <1>1, <1>2

LEMMA AnswerStep ==
  ASSUME ShapeInv, Observe, NEW h \in Handler,
         \/ Refuse(h) \/ AssignmentConflict(h) \/ NothingFound(h) \/ RemovalConflict(h)
         \/ Refreshed(h) \/ CallFails(h)
  PROVE  ShapeInv'
<1>1. Refusal(h) \in Code
  BY DEF Refusal, Code
<1>2. CASE Refuse(h)
  BY <1>1, <1>2, AnswerKeepsShape DEF Refuse
<1>3. CASE CallFails(h)
  BY <1>3, AnswerKeepsShape DEF CallFails, Code
<1> QED
  BY <1>2, <1>3, AnswerKeepsShape
  DEF AssignmentConflict, NothingFound, RemovalConflict, Refreshed, Code

LEMMA EndStep ==
  ASSUME ShapeInv, Observe, NEW h \in Handler, Deliver(h) \/ Abandon(h)
  PROVE  ShapeInv'
<1>1. Forget(h) /\ MovesOnly(h) /\ pc'[h] = "idle"
  BY DEF ShapeInv, TypeOK, Deliver, Abandon, Forget, MovesOnly, Label
<1>2. HandlerShape(h)'
  BY <1>1, SeenAfter DEF HandlerShape, InFlight, Writes
<1> QED
  BY <1>1, <1>2, HandlerKeepsShape DEF SearchKept, Forget, index

\* The steps of the other actors.
LEMMA OtherStep ==
  ASSUME ShapeInv, Observe, PolicyRpc \/ GroupRpc \/ Refresh
  PROVE  ShapeInv'
<1>1. /\ SearchKept /\ UNCHANGED <<assignmentDoc, pc, request, reply>>
      /\ Policies!Next \/ UNCHANGED policyVars
      /\ Groups!Next \/ UNCHANGED groupDoc
  BY DEF PolicyRpc, GroupRpc, Refresh, SearchKept, index
<1>2. Grows
  BY <1>1, RegistriesGrow DEF ShapeInv
<1>3. \A h \in Handler : HandlerShape(h)'
  BY <1>1, <1>2, OthersKeepShape
<1>4. TypeOK'
  <2>1. CASE UNCHANGED index
    BY <1>1, <2>1 DEF ShapeInv, TypeOK, index
  <2>2. CASE Refresh
    BY <1>1, <2>2 DEF ShapeInv, TypeOK, Refresh
  <2> QED
    BY <2>1, <2>2 DEF PolicyRpc, GroupRpc
<1>5. AssignmentNamesItsPath' /\ AssignmentsResolve'
  BY <1>1, <1>2
  DEF ShapeInv, TypeOK, Grows, AssignmentNamesItsPath, AssignmentsResolve, VersionStored,
      GroupStored
<1> QED
  BY <1>2, <1>3, <1>4, <1>5 DEF ShapeInv, Grows

\* Every step keeps ShapeInv.
LEMMA ShapeStep == ShapeInv /\ [Next]_vars => ShapeInv'
<1> SUFFICES ASSUME ShapeInv, [Next]_vars PROVE ShapeInv'
  OBVIOUS
<1>1. CASE UNCHANGED vars
  <2>1. TypeOK' /\ RegistryTypes' /\ AssignmentNamesItsPath' /\ AssignmentsResolve'
    BY <1>1
    DEF vars, policyVars, index, ShapeInv, TypeOK, RegistryTypes, AssignmentNamesItsPath,
        AssignmentsResolve
  <2>2. \A h \in Handler : HandlerShape(h)'
    BY <1>1
    DEF vars, policyVars, index, ShapeInv, HandlerShape, InFlight, Asked, VersionStored,
        GroupStored
  <2> QED
    BY <2>1, <2>2 DEF ShapeInv
<1>2. CASE Next
  BY <1>2, AcceptStep, CheckStep, WriteStep, AnswerStep, EndStep, OtherStep DEF Next, Serve
<1> QED
  BY <1>1, <1>2

----------------------------------------------------------------------------
(***************************************************************************)
(* The theorems.                                                           *)
(***************************************************************************)

\* ShapeInv holds in every behaviour.
LEMMA ShapeAlways == Spec => []ShapeInv
  BY ShapeInit, ShapeStep, PTL DEF Spec

\* Every variable of the assignment manager keeps its type, and the search index only
\* differs from the documents where a refresh is due.
THEOREM TypeCorrect == Spec => []TypeOK
<1>1. ShapeInv => TypeOK
  BY DEF ShapeInv
<1> QED
  BY <1>1, ShapeAlways, PTL

\* No update moves an assignment: what is stored under a path names that path.
THEOREM PathsNamed == Spec => []AssignmentNamesItsPath
<1>1. ShapeInv => AssignmentNamesItsPath
  BY DEF ShapeInv
<1> QED
  BY <1>1, ShapeAlways, PTL

\* Every assignment leads to a version and a group that exist, since neither ever goes
\* and validateAssignment has looked.
THEOREM Resolves == Spec => []AssignmentsResolve
<1>1. ShapeInv => AssignmentsResolve
  BY DEF ShapeInv
<1> QED
  BY <1>1, ShapeAlways, PTL

\* A step that writes an assignment is that of a handler whose checks have passed.
LEMMA WriterChecked ==
  ASSUME ShapeInv, NEW h \in Handler, Writing(h)
  PROVE  /\ {"policy", "group"} \subseteq seen[h]
         /\ request[h].op = "Update" => "present" \in seen[h]
  BY DEF ShapeInv, HandlerShape, Writing, Writes

\* An assignment is only written for a policy and a group that were live during the RPC,
\* and by UpdatePolicyAssignment only over what was there during the RPC.
THEOREM CheckedWhileLive == Spec => AssignedWhileLive
<1>1. ShapeInv => \A h \in Handler : Writing(h) =>
        /\ {"policy", "group"} \subseteq seen[h]
        /\ request[h].op = "Update" => "present" \in seen[h]
  BY WriterChecked
<1> QED
  BY <1>1, ShapeAlways, PTL DEF AssignedWhileLive

\* What DeletePolicyAssignment answers OK for, if a search could find it, was gone at some
\* moment of the RPC.
THEOREM DeletesSearchable == Spec => DeletesWhatIsSearchable
<1>1. ShapeInv /\ [Next]_vars =>
        [\A h \in Handler :
           Deleted(h) /\ "searchable" \in seen[h] =>
             "absent" \in seen[h] \/ assignmentDoc'[request[h].path] = Missing]_vars
  <2> SUFFICES ASSUME ShapeInv, Next, NEW h \in Handler, Deleted(h), "searchable" \in seen[h]
               PROVE  "absent" \in seen[h] \/ assignmentDoc'[request[h].path] = Missing
    OBVIOUS
  <2>0. TypeOK /\ HandlerShape(h) /\ pc[h] # "done" /\ pc'[h] = "done" /\ reply'[h] = "OK"
        /\ request[h].op = "Delete"
    BY DEF ShapeInv, Deleted
  <2>1. InFlight(h) /\ request[h] \in Request /\ request[h].path \in Path
    BY <2>0, Fields DEF HandlerShape, InFlight
  <2>2. PICK g \in Handler : Serve(g)
    BY <2>0 DEF Next, PolicyRpc, GroupRpc, Refresh
  <2>3. g = h
    BY <2>0, <2>2
    DEF TypeOK, Serve, CreatePolicyAssignment, UpdatePolicyAssignment, DeletePolicyAssignment,
        Accept, Refuse, GetAssignment, GetPolicy, GetGroup, CreateAssignment, AssignmentConflict,
        WriteAssignment, NothingFound, RemovalConflict, RemoveAssignment, Refreshed, CallFails,
        Deliver, Abandon, Forget, Written, Answer, Continue, Goto
  <2>4. CASE NothingFound(h)
    BY <2>0, <2>1, <2>4 DEF NothingFound, HandlerShape
  <2>5. CASE Refreshed(h)
    BY <2>0, <2>5 DEF Refreshed, Answer, Goto, HandlerShape
  <2>6. CASE RemoveAssignment(h)
    BY <2>0, <2>1, <2>6 DEF RemoveAssignment, Written, TypeOK
  <2>7. ASSUME NEW from, NEW code, code # "OK", Answer(h, from, code) PROVE FALSE
    BY <2>0, <2>7 DEF TypeOK, Answer
  <2>8. CASE Refuse(h)
    BY <2>7, <2>8 DEF Refuse
  <2>9. CASE AssignmentConflict(h) \/ RemovalConflict(h) \/ CallFails(h)
    BY <2>7, <2>9 DEF AssignmentConflict, RemovalConflict, CallFails
  <2>10. CASE GetPolicy(h) \/ GetGroup(h)
    <3>1. CASE Answer(h, "getPolicy", "FailedPrecondition") \/ Answer(h, "getGroup", "FailedPrecondition")
      BY <2>7, <3>1
    <3>2. ASSUME NEW from, Continue(h, from, "getGroup") \/ Continue(h, from, "createAssignment")
                   \/ Continue(h, from, "writeAssignment")
          PROVE  FALSE
      BY <2>0, <3>2 DEF TypeOK, Continue, Goto
    <3> QED
      BY <2>10, <3>1, <3>2 DEF GetPolicy, GetGroup
  <2>11. CASE CreateAssignment(h) \/ WriteAssignment(h)
    BY <2>0, <2>11 DEF CreateAssignment, WriteAssignment, Written, Goto, HandlerShape, Writes
  <2>12. CASE CreatePolicyAssignment(h) \/ UpdatePolicyAssignment(h) \/ DeletePolicyAssignment(h)
    BY <2>1, <2>12
    DEF CreatePolicyAssignment, UpdatePolicyAssignment, DeletePolicyAssignment, Accept, Goto, InFlight
  <2>13. CASE GetAssignment(h) \/ Deliver(h) \/ Abandon(h)
    BY <2>0, <2>13 DEF TypeOK, GetAssignment, Continue, Goto, Deliver, Abandon, Forget
  <2> QED
    BY <2>2, <2>3, <2>4, <2>5, <2>6, <2>8, <2>9, <2>10, <2>11, <2>12, <2>13 DEF Serve
<1> QED
  BY <1>1, ShapeAlways, PTL DEF Spec, DeletesWhatIsSearchable
=============================================================================
