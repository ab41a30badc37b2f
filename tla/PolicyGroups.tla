---------------------------- MODULE PolicyGroups ----------------------------
(***************************************************************************)
(* The policy group manager (pkg/policy/policy_group_manager.go).  A group *)
(* is one document whose id is its name.  Every write follows a read in    *)
(* another call to Elasticsearch, and nothing ties the two together: each  *)
(* call is a step, and handlers interleave between them.                   *)
(*                                                                         *)
(* Left out: timestamps, and the read-only RPCs.                           *)
(***************************************************************************)

CONSTANTS
  Group,            \* the names clients use
  ValidName,        \* those that match policyGroupNamePattern
  Description,
  Handler,          \* the RPCs that can be in flight at once
  Missing,
  CallFaults,       \* may a call to Elasticsearch fail, before or after its effect?
  CreateOverwrites  \* does esutil's Create replace an existing document?

ASSUME NameAssumption == ValidName \subseteq Group
ASSUME SwitchAssumption == {CallFaults, CreateOverwrites} \subseteq BOOLEAN

VARIABLES
  groupDoc,  \* groupDoc[g]: the document with id g
  pc,        \* pc[h]: the call handler h is about to make
  request,   \* request[h]: the message h serves
  snapshot,  \* snapshot[h]: the document h is about to write
  reply      \* reply[h]: the status of the answer

vars == <<groupDoc, pc, request, snapshot, reply>>

GroupDocument == [description : Description, deleted : BOOLEAN]

Request == [op : {"Create", "Update", "Delete"}, group : Group,
            description : Description \cup {Missing}, deleted : BOOLEAN]

Code == {"OK", "InvalidArgument", "NotFound", "AlreadyExists",
         "FailedPrecondition", "Internal"}

ASSUME MissingAssumption ==
  Missing \notin Description \cup GroupDocument \cup Request \cup Code

Label == {"idle", "getGroup", "createGroup", "writeGroup", "done"}

Init ==
  /\ groupDoc = [g \in Group |-> Missing]
  /\ pc = [h \in Handler |-> "idle"]
  /\ request = [h \in Handler |-> Missing]
  /\ snapshot = [h \in Handler |-> Missing]
  /\ reply = [h \in Handler |-> Missing]

----------------------------------------------------------------------------
Goto(h, from, to) == pc[h] = from /\ pc' = [pc EXCEPT ![h] = to]

Answer(h, from, code) ==
  /\ Goto(h, from, "done")
  /\ reply' = [reply EXCEPT ![h] = code]

\* What the caller of a write that took effect may be told.
Outcome == IF CallFaults THEN {"OK", "Internal"} ELSE {"OK"}

Accept(h, op, group, description, deleted) ==
  /\ Goto(h, "idle", "getGroup")
  /\ request' = [request EXCEPT ![h] =
       [op |-> op, group |-> group, description |-> description, deleted |-> deleted]]
  /\ UNCHANGED <<groupDoc, snapshot, reply>>

\* The message of a create is stored as the client sent it, its deleted flag too.
CreatePolicyGroup(h) == \E g \in Group, d \in Description, deleted \in BOOLEAN :
  Accept(h, "Create", g, d, deleted)

UpdatePolicyGroup(h) == \E g \in Group, d \in Description :
  Accept(h, "Update", g, d, FALSE)

DeletePolicyGroup(h) == \E g \in Group : Accept(h, "Delete", g, Missing, FALSE)

----------------------------------------------------------------------------
\* GetPolicyGroup, the first call of all three, and what each makes of it.

Found(h) == groupDoc[request[h].group]

Refusal(h) ==
  CASE request[h].op = "Create" /\ Found(h) # Missing -> "AlreadyExists"
    [] request[h].op = "Create" /\ Found(h) = Missing /\ request[h].group \notin ValidName ->
         "InvalidArgument"
    [] request[h].op # "Create" /\ Found(h) = Missing -> "NotFound"
    [] request[h].op = "Update" /\ Found(h) # Missing /\ Found(h).deleted -> "FailedPrecondition"
    [] OTHER -> "OK"

Refuse(h) ==
  /\ pc[h] = "getGroup" /\ Refusal(h) # "OK"
  /\ Answer(h, "getGroup", Refusal(h))
  /\ UNCHANGED <<groupDoc, request, snapshot>>

\* Only the description is editable.
Edited(h) ==
  CASE request[h].op = "Create" -> [description |-> request[h].description,
                                    deleted |-> request[h].deleted]
    [] request[h].op = "Update" -> [Found(h) EXCEPT !.description = request[h].description]
    [] request[h].op = "Delete" -> [Found(h) EXCEPT !.deleted = TRUE]

\* Mutant: a new group is written with Update.
CreatesWithUpdate(h) ==
  /\ pc[h] = "getGroup" /\ Refusal(h) = "OK"
  /\ Goto(h, "getGroup", "writeGroup")
  /\ snapshot' = [snapshot EXCEPT ![h] = Edited(h)]
  /\ UNCHANGED <<groupDoc, request, reply>>

Prepare(h) ==
  /\ pc[h] = "getGroup" /\ Refusal(h) = "OK"
  /\ Goto(h, "getGroup", IF request[h].op = "Create" THEN "createGroup" ELSE "writeGroup")
  /\ snapshot' = [snapshot EXCEPT ![h] = Edited(h)]
  /\ UNCHANGED <<groupDoc, request, reply>>

WriteDocument(h, label) ==
  /\ pc[h] = label
  /\ groupDoc' = [groupDoc EXCEPT ![request[h].group] = snapshot[h]]
  /\ \E code \in Outcome : Answer(h, label, code)
  /\ UNCHANGED <<request, snapshot>>

CreateGroup(h) ==
  /\ pc[h] = "createGroup"
  /\ Found(h) = Missing \/ CreateOverwrites
  /\ WriteDocument(h, "createGroup")

GroupConflict(h) ==
  /\ pc[h] = "createGroup"
  /\ Found(h) # Missing /\ ~CreateOverwrites
  /\ Answer(h, "createGroup", "Internal")
  /\ UNCHANGED <<groupDoc, request, snapshot>>

\* Mutant: the group is removed, as an assignment is.
RemovesGroup(h) ==
  /\ pc[h] = "writeGroup"
  /\ groupDoc' = [groupDoc EXCEPT ![request[h].group] =
                    IF request[h].op = "Delete" THEN Missing ELSE snapshot[h]]
  /\ \E code \in Outcome : Answer(h, "writeGroup", code)
  /\ UNCHANGED <<request, snapshot>>

\* esutil's Update indexes the whole message.
WriteGroup(h) == WriteDocument(h, "writeGroup")

CallFails(h) ==
  /\ CallFaults
  /\ \E label \in {"getGroup", "createGroup", "writeGroup"} : Answer(h, label, "Internal")
  /\ UNCHANGED <<groupDoc, request, snapshot>>

\* The answer leaves, or the process dies or the RPC is cancelled before.
Finish(h) ==
  /\ pc[h] # "idle"
  /\ pc' = [pc EXCEPT ![h] = "idle"]
  /\ request' = [request EXCEPT ![h] = Missing]
  /\ snapshot' = [snapshot EXCEPT ![h] = Missing]
  /\ reply' = [reply EXCEPT ![h] = Missing]
  /\ UNCHANGED groupDoc

Serve(h) ==
  \/ CreatePolicyGroup(h) \/ UpdatePolicyGroup(h) \/ DeletePolicyGroup(h)
  \/ Refuse(h) \/ Prepare(h)
  \/ CreateGroup(h) \/ GroupConflict(h) \/ WriteGroup(h)
  \/ CallFails(h) \/ Finish(h)

Next == \E h \in Handler : Serve(h)

Spec == Init /\ [][Next]_vars

----------------------------------------------------------------------------
\* Every variable has its type, and a handler about to write has a document.
TypeOK ==
  /\ groupDoc \in [Group -> GroupDocument \cup {Missing}]
  /\ pc \in [Handler -> Label]
  /\ request \in [Handler -> Request \cup {Missing}]
  /\ snapshot \in [Handler -> GroupDocument \cup {Missing}]
  /\ reply \in [Handler -> Code \cup {Missing}]
  /\ \A h \in Handler :
       /\ pc[h] = "idle" <=> request[h] = Missing
       /\ pc[h] \in {"createGroup", "writeGroup"} => snapshot[h] # Missing

\* A name is given to one client only: of the overlapping CreatePolicyGroup of one
\* name, at most one is answered OK, although each looked the name up before.
OneCreateWins ==
  \A h, other \in Handler :
    /\ reply[h] = "OK" /\ request[h].op = "Create"
    /\ reply[other] = "OK" /\ request[other].op = "Create"
    /\ request[h].group = request[other].group
    => h = other

\* Overlapping RPCs leave what PolicyGroupRegistry promises: no group goes, and
\* none has a name the pattern refuses.
Registry == INSTANCE PolicyGroupRegistry
ImplementsRegistry == Registry!Spec
=============================================================================
