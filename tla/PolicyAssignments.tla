------------------------- MODULE PolicyAssignments -------------------------
(***************************************************************************)
(* The assignment manager (pkg/policy/assignment_manager.go), composed     *)
(* with the policy groups and the policies an assignment links.  An        *)
(* assignment is one document; its id is the path of a policy and a group, *)
(* its content names a version of that policy.                             *)
(*                                                                         *)
(* The other RPCs are those of PolicyGroupRegistry, which the group        *)
(* manager implements, and of PolicyRegistry, which the policy manager     *)
(* implements as long as its RPCs do not overlap.                          *)
(*                                                                         *)
(* Reads by id see the last write.  The delete is by query and works on    *)
(* what the last refresh of the index made searchable.                     *)
(*                                                                         *)
(* Left out: timestamps, the read-only RPCs, and the two identifiers that  *)
(* do not parse (an empty field, a version id with several dots).          *)
(***************************************************************************)
EXTENDS Naturals

CONSTANTS
  Policy, Rego, MaxVersion,                             \* of the policies
  Group, ValidName, Description,                        \* of the groups
  Handler,          \* the assignment RPCs that can be in flight at once
  Missing,
  CallFaults,       \* may the calls of an assignment RPC fail, or the RPC be cut off?
  CreateOverwrites, \* does esutil's Create replace an existing document?
  WaitsForRefresh   \* is elasticsearch-refresh "true" or "wait_for"?

ASSUME BoundAssumption == MaxVersion \in Nat \ {0}
ASSUME NameAssumption == ValidName \subseteq Group
ASSUME SwitchAssumption == {CallFaults, CreateOverwrites, WaitsForRefresh} \subseteq BOOLEAN

VARIABLES
  policies, versions,                                   \* of PolicyRegistry
  groupDoc,                                             \* of PolicyGroupRegistry
  assignmentDoc,  \* assignmentDoc[p, g]: the document with id policies/p/assignments/g
  searchable,     \* searchable[p, g]: does the search index hold a document of that id?
  dirty,          \* dirty[p, g]: was it written since the last refresh?
  pc, request, reply,
  seen            \* history: what has held at some moment since h's RPC began

policyVars == <<policies, versions>>
index == <<assignmentDoc, searchable, dirty>>
vars == <<policyVars, groupDoc, index, pc, request, reply, seen>>

Policies == INSTANCE PolicyRegistry
              WITH Name <- {"name"}, ValidRego <- Rego

Groups == INSTANCE PolicyGroupRegistry

Path == Policy \X Group

\* PolicyVersionId is a policy and a version; 0 is an id without a version.
Assignment == [policy : Policy, version : 0..MaxVersion, group : Group]

\* path is the Id of an update or delete, and the one a create computes.
Request == [op : {"Create", "Update", "Delete"}, path : Path, assignment : Assignment]

Code == {"OK", "InvalidArgument", "NotFound", "AlreadyExists",
         "FailedPrecondition", "Internal"}

ASSUME MissingAssumption ==
  Missing \notin Rego \cup Groups!GroupDocument \cup Assignment \cup Request \cup Code

Label == {"idle", "getAssignment", "getPolicy", "getGroup", "createAssignment",
          "writeAssignment", "removeAssignment", "refresh", "done"}

Init ==
  /\ Policies!Init /\ Groups!Init
  /\ assignmentDoc = [path \in Path |-> Missing]
  /\ searchable = [path \in Path |-> FALSE]
  /\ dirty = [path \in Path |-> FALSE]
  /\ pc = [h \in Handler |-> "idle"]
  /\ request = [h \in Handler |-> Missing]
  /\ reply = [h \in Handler |-> Missing]
  /\ seen = [h \in Handler |-> {}]

----------------------------------------------------------------------------
Goto(h, from, to) == pc[h] = from /\ pc' = [pc EXCEPT ![h] = to]

Answer(h, from, code) ==
  /\ Goto(h, from, "done")
  /\ reply' = [reply EXCEPT ![h] = code]
  /\ UNCHANGED <<policyVars, groupDoc, request>>

\* A call that answers with what the next one is about.
Continue(h, from, to) ==
  /\ Goto(h, from, to)
  /\ UNCHANGED <<policyVars, groupDoc, index, request, reply>>

Accept(h, op, path, assignment) ==
  /\ Goto(h, "idle", "getAssignment")
  /\ request' = [request EXCEPT ![h] =
                   [op |-> op, path |-> path, assignment |-> assignment]]
  /\ UNCHANGED <<policyVars, groupDoc, index, reply>>

PolicyAssignmentId(assignment) == <<assignment.policy, assignment.group>>

CreatePolicyAssignment(h) == \E assignment \in Assignment :
  Accept(h, "Create", PolicyAssignmentId(assignment), assignment)

UpdatePolicyAssignment(h) == \E path \in Path, assignment \in Assignment :
  Accept(h, "Update", path, assignment)

DeletePolicyAssignment(h) == \E path \in Path :
  Accept(h, "Delete", path, [policy |-> path[1], version |-> 0, group |-> path[2]])

----------------------------------------------------------------------------
\* validateAssignment: the request, then validateCreate or validateUpdate on the
\* existing assignment, then the policy, the version and the group.

Asked(h) == request[h].assignment
Existing(h) == assignmentDoc[request[h].path]

\* Mutant: validateUpdate compares the groups only.
ChangesPolicy(h) ==
  IF request[h].op # "Delete" /\ Asked(h).version = 0 THEN "InvalidArgument"
  ELSE CASE request[h].op = "Create" -> IF Existing(h) = Missing THEN "OK" ELSE "AlreadyExists"
         [] request[h].op # "Create" /\ Existing(h) = Missing -> "NotFound"
         [] OTHER -> IF request[h].op = "Delete" \/ Existing(h).group = Asked(h).group
                     THEN "OK" ELSE "InvalidArgument"

Refusal(h) ==
  IF request[h].op # "Delete" /\ Asked(h).version = 0 THEN "InvalidArgument"
  ELSE CASE request[h].op = "Create" -> IF Existing(h) = Missing THEN "OK" ELSE "AlreadyExists"
         [] request[h].op # "Create" /\ Existing(h) = Missing -> "NotFound"
         [] OTHER -> IF PolicyAssignmentId(Existing(h)) = PolicyAssignmentId(Asked(h))
                     THEN "OK" ELSE "InvalidArgument"

Refuse(h) ==
  /\ pc[h] = "getAssignment" /\ Refusal(h) # "OK"
  /\ Answer(h, "getAssignment", Refusal(h))
  /\ UNCHANGED index

GetAssignment(h) ==
  /\ pc[h] = "getAssignment" /\ Refusal(h) = "OK"
  /\ Continue(h, "getAssignment",
              IF request[h].op = "Delete" THEN "removeAssignment" ELSE "getPolicy")

\* The MultiGet is no snapshot: its policy documents and its group document are
\* read one after the other.

VersionExists(h) ==
  /\ policies[Asked(h).policy] # Missing
  /\ versions[Asked(h).policy][Asked(h).version] # Missing

\* Mutant: only the version is looked at.
VersionIsEnough(h) == VersionExists(h)

PolicyUsable(h) == VersionExists(h) /\ ~policies[Asked(h).policy].deleted

\* Mutant: the group may be gone.
AnyGroup(h) == Asked(h).group \in Group

GroupUsable(h) ==
  /\ groupDoc[Asked(h).group] # Missing
  /\ ~groupDoc[Asked(h).group].deleted

GetPolicy(h) ==
  /\ pc[h] = "getPolicy"
  /\ IF PolicyUsable(h)
     THEN Continue(h, "getPolicy", "getGroup")
     ELSE Answer(h, "getPolicy", "FailedPrecondition") /\ UNCHANGED index

GetGroup(h) ==
  /\ pc[h] = "getGroup"
  /\ IF GroupUsable(h)
     THEN Continue(h, "getGroup", IF request[h].op = "Create" THEN "createAssignment"
                                  ELSE "writeAssignment")
     ELSE Answer(h, "getGroup", "FailedPrecondition") /\ UNCHANGED index

----------------------------------------------------------------------------
\* The writes.  With refresh "true" or "wait_for" their answer waits until they are
\* searchable.

Written(h, label, document) ==
  /\ Goto(h, label, IF WaitsForRefresh THEN "refresh" ELSE "done")
  /\ assignmentDoc' = [assignmentDoc EXCEPT ![request[h].path] = document]
  /\ dirty' = [dirty EXCEPT ![request[h].path] = TRUE]
  /\ reply' = IF WaitsForRefresh THEN reply ELSE [reply EXCEPT ![h] = "OK"]
  /\ UNCHANGED <<policyVars, groupDoc, searchable, request>>

CreateAssignment(h) ==
  /\ pc[h] = "createAssignment"
  /\ Existing(h) = Missing \/ CreateOverwrites
  /\ Written(h, "createAssignment", Asked(h))

AssignmentConflict(h) ==
  /\ pc[h] = "createAssignment"
  /\ Existing(h) # Missing /\ ~CreateOverwrites
  /\ Answer(h, "createAssignment", "Internal")
  /\ UNCHANGED index

\* esutil's Update indexes the whole message, whether or not the document is still there.
WriteAssignment(h) == Written(h, "writeAssignment", Asked(h))

\* The query finds the document in the search index only, and the removal fails
\* on a document that has changed since.

NothingFound(h) ==
  /\ pc[h] = "removeAssignment" /\ ~searchable[request[h].path]
  /\ Answer(h, "removeAssignment", "OK")
  /\ UNCHANGED index

RemovalConflict(h) ==
  /\ pc[h] = "removeAssignment" /\ searchable[request[h].path] /\ dirty[request[h].path]
  /\ Answer(h, "removeAssignment", "Internal")
  /\ UNCHANGED index

\* Mutant: the assignment is kept, as a policy or a group is.
MarksRemoved(h) ==
  /\ pc[h] = "removeAssignment" /\ searchable[request[h].path] /\ ~dirty[request[h].path]
  /\ Written(h, "removeAssignment", Existing(h))

RemoveAssignment(h) ==
  /\ pc[h] = "removeAssignment" /\ searchable[request[h].path] /\ ~dirty[request[h].path]
  /\ Written(h, "removeAssignment", Missing)

Refreshed(h) ==
  /\ pc[h] = "refresh" /\ ~dirty[request[h].path]
  /\ Answer(h, "refresh", "OK")
  /\ UNCHANGED index

CallFails(h) ==
  /\ CallFaults
  /\ pc[h] \notin {"idle", "done"}
  /\ Answer(h, pc[h], "Internal")
  /\ UNCHANGED index

Forget(h) ==
  /\ pc' = [pc EXCEPT ![h] = "idle"]
  /\ request' = [request EXCEPT ![h] = Missing]
  /\ reply' = [reply EXCEPT ![h] = Missing]
  /\ UNCHANGED <<policyVars, groupDoc, index>>

Deliver(h) == pc[h] = "done" /\ Forget(h)

\* The process dies, or the RPC is cancelled.
Abandon(h) == CallFaults /\ pc[h] \notin {"idle", "done"} /\ Forget(h)

Serve(h) ==
  \/ CreatePolicyAssignment(h) \/ UpdatePolicyAssignment(h) \/ DeletePolicyAssignment(h)
  \/ Refuse(h) \/ GetAssignment(h) \/ GetPolicy(h) \/ GetGroup(h)
  \/ CreateAssignment(h) \/ AssignmentConflict(h) \/ WriteAssignment(h)
  \/ NothingFound(h) \/ RemovalConflict(h) \/ RemoveAssignment(h)
  \/ Refreshed(h) \/ CallFails(h)
  \/ Deliver(h) \/ Abandon(h)

----------------------------------------------------------------------------
\* The other actors.

PolicyRpc ==
  /\ Policies!Next
  /\ UNCHANGED <<groupDoc, index, pc, request, reply>>

GroupRpc ==
  /\ Groups!Next
  /\ UNCHANGED <<policyVars, index, pc, request, reply>>

\* Elasticsearch makes every write of the index searchable.
Refresh ==
  /\ \E path \in Path : dirty[path]
  /\ dirty' = [path \in Path |-> FALSE]
  /\ searchable' = [path \in Path |-> assignmentDoc[path] # Missing]
  /\ UNCHANGED <<policyVars, groupDoc, assignmentDoc, pc, request, reply>>

Live(document) == document # Missing /\ ~document.deleted

\* What matters to the RPC of h: whether the policy and the group it links are live,
\* whether the assignment is there, and whether the index knows it.
Sights(h) ==
  LET deletes == request[h].op = "Delete"
      holds == [policy     |-> ~deletes /\ Live(policies[Asked(h).policy]),
                group      |-> ~deletes /\ Live(groupDoc[Asked(h).group]),
                present    |-> request[h].op = "Update" /\ Existing(h) # Missing,
                absent     |-> deletes /\ Existing(h) = Missing,
                searchable |-> deletes /\ searchable[request[h].path]]
  IN  {sight \in DOMAIN holds : holds[sight]}

Observe ==
  seen' = [h \in Handler |->
             IF pc'[h] \in {"idle", "done"} THEN {} ELSE seen[h] \cup Sights(h)']

Next == ((\E h \in Handler : Serve(h)) \/ PolicyRpc \/ GroupRpc \/ Refresh) /\ Observe

Spec == Init /\ [][Next]_vars

----------------------------------------------------------------------------
\* Every variable has its type.
TypeOK ==
  /\ assignmentDoc \in [Path -> Assignment \cup {Missing}]
  /\ searchable \in [Path -> BOOLEAN]
  /\ dirty \in [Path -> BOOLEAN]
  /\ pc \in [Handler -> Label]
  /\ request \in [Handler -> Request \cup {Missing}]
  /\ reply \in [Handler -> Code \cup {Missing}]
  /\ \A path \in Path :
       ~dirty[path] => (searchable[path] <=> assignmentDoc[path] # Missing)

\* An assignment is found under the path of the policy and the group it links,
\* whatever ids and messages updates combine: no update moves it elsewhere.
AssignmentNamesItsPath ==
  \A path \in Path :
    assignmentDoc[path] # Missing => PolicyAssignmentId(assignmentDoc[path]) = path

\* EvaluateResource can follow every assignment: its version and its group exist
\* ("the version must exist at the time of assignment"), deleted or not.
AssignmentsResolve ==
  \A path \in Path :
    LET assignment == assignmentDoc[path] IN
    assignment # Missing =>
      /\ assignment.version # 0
      /\ versions[assignment.policy][assignment.version] # Missing
      /\ groupDoc[assignment.group] # Missing

\* Writing(h) is a step in which h writes an assignment.
Writing(h) == pc[h] \in {"createAssignment", "writeAssignment"}
              /\ pc'[h] # pc[h] /\ assignmentDoc' # assignmentDoc

\* An assignment is only written for a policy and a group that were live at some
\* moment of the RPC: the checks of validateAssignment can be late, never stale
\* from before the RPC began.  UpdatePolicyAssignment, whose write would create the
\* document, also writes only what was there at some moment of the RPC.
AssignedWhileLive ==
  [][\A h \in Handler : Writing(h) =>
       /\ {"policy", "group"} \subseteq seen[h]
       /\ request[h].op = "Update" => "present" \in seen[h]]_vars

Deleted(h) == pc[h] # "done" /\ pc'[h] = "done" /\ reply'[h] = "OK" /\ request[h].op = "Delete"

\* The assignment a DeletePolicyAssignment answers OK for, if a search could find
\* it, was gone at some moment of the RPC, whatever refreshes and writes overlap.
DeletesWhatIsSearchable ==
  [][\A h \in Handler :
       Deleted(h) /\ "searchable" \in seen[h] =>
         "absent" \in seen[h] \/ assignmentDoc'[request[h].path] = Missing]_vars
=============================================================================
