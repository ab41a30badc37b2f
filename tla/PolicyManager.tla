--------------------------- MODULE PolicyManager ---------------------------
(***************************************************************************)
(* The policy manager (pkg/policy/manager.go) over one Elasticsearch       *)
(* index.  A policy is three kinds of documents: the policy document       *)
(* (metadata, the pointer to the current version, the soft-delete flag),   *)
(* one write-once document per version, and a counter document whose       *)
(* Elasticsearch version number hands out the version numbers.             *)
(*                                                                         *)
(* A handler is one RPC being served, by any replica of the server: the    *)
(* replicas share nothing but the index.  Every call to Elasticsearch is   *)
(* one step; a bulk request is one step per item, because the items of a   *)
(* bulk are applied one by one, each may fail alone, and the realtime Get  *)
(* of another handler can fall between two of them.                        *)
(*                                                                         *)
(* Left out: descriptions, timestamps and the version message (they never  *)
(* decide anything), the search calls (ListPolicies, ListPolicyVersions,   *)
(* which write nothing), the check for an empty policy name, and ids that  *)
(* are neither of a policy nor of a version.  The index has one shard, so  *)
(* that routing never hides a document.                                    *)
(***************************************************************************)
EXTENDS Naturals

CONSTANTS
  Policy,         \* the uuids that may be handed out
  Handler,        \* the RPCs that can be in flight at once
  Name,           \* policy names
  Rego,           \* contents: what (rego_content, source_path) can be
  ValidRego,      \* the contents validatePolicy accepts
  EmptyRego,      \* the empty content, what a version without one reads as
  Missing,        \* no document, or an unset field of a message
  MaxVersion,     \* bound on the version counter of a policy
  IdVersions,     \* n # 0: update/delete ids of the form "policy.n"; 0: plain ids
  CallFaults,     \* may a call to Elasticsearch fail, before or after its effect?
  ItemFaults      \* may one item of a bulk fail (e.g. content over the term limit)?

ASSUME RegoAssumption ==
  /\ ValidRego \subseteq Rego
  /\ EmptyRego \in Rego \ ValidRego
ASSUME VersionAssumption ==
  /\ MaxVersion \in Nat \ {0}
  /\ IdVersions \subseteq 0..MaxVersion
ASSUME FaultAssumption == {CallFaults, ItemFaults} \subseteq BOOLEAN

VARIABLES
  policyDoc,   \* policyDoc[p]: the document with id p
  versionDoc,  \* versionDoc[p][v]: the content of the document with id p.v
  counter,     \* counter[p]: the _version of the document p.counter, 0 if there is none
  pc,          \* pc[h]: the call handler h is about to make
  request,     \* request[h]: the message h serves
  snapshot,    \* snapshot[h]: h's copy of the policy document, edited in place
  newVersion,  \* newVersion[h]: the version number h is creating, 0 if none
  bulkFailed,  \* bulkFailed[h]: has an item of h's bulk failed?
  reply        \* reply[h]: the answer to the client

store == <<policyDoc, versionDoc, counter>>
vars == <<policyDoc, versionDoc, counter,
          pc, request, snapshot, newVersion, bulkFailed, reply>>

Version == 1..MaxVersion

PolicyDocument == [name : Name, currentVersion : Version, deleted : BOOLEAN]

Request ==
  [op      : {"Create", "Get", "Update", "Delete"},
   policy  : Policy,
   version : 0..MaxVersion,
   name    : Name \cup {Missing},
   rego    : Rego \cup {Missing}]

Code == {"OK", "InvalidArgument", "NotFound", "FailedPrecondition", "Internal"}

\* version and rego are the PolicyEntity's; Missing and 0 when there is none.
Reply == [code : Code, version : 0..MaxVersion, rego : Rego \cup {Missing}]

ASSUME MissingAssumption ==
  Missing \notin Rego \cup Name \cup PolicyDocument \cup Request \cup Reply

Label == {"idle", "getPolicy", "getVersion", "increment", "policyItem",
          "counterItem", "versionItem", "bulkReply", "writeDelete", "done"}

Init ==
  /\ policyDoc = [p \in Policy |-> Missing]
  /\ versionDoc = [p \in Policy |-> [v \in Version |-> Missing]]
  /\ counter = [p \in Policy |-> 0]
  /\ pc = [h \in Handler |-> "idle"]
  /\ request = [h \in Handler |-> Missing]
  /\ snapshot = [h \in Handler |-> Missing]
  /\ newVersion = [h \in Handler |-> 0]
  /\ bulkFailed = [h \in Handler |-> FALSE]
  /\ reply = [h \in Handler |-> Missing]

----------------------------------------------------------------------------
\* Helpers.

Goto(h, from, to) == pc[h] = from /\ pc' = [pc EXCEPT ![h] = to]

Answer(h, from, code, version, rego) ==
  /\ Goto(h, from, "done")
  /\ reply' = [reply EXCEPT ![h] = [code |-> code, version |-> version, rego |-> rego]]

Refuse(h, from, code) == Answer(h, from, code, 0, Missing)

\* What the caller of a write that took effect may be told.
Outcome == IF CallFaults THEN {"OK", "Internal"} ELSE {"OK"}

Accept(h, to, message) ==
  /\ Goto(h, "idle", to)
  /\ request' = [request EXCEPT ![h] = message]

Message(op, p, v, name, rego) ==
  [op |-> op, policy |-> p, version |-> v, name |-> name, rego |-> rego]

\* A uuid that nobody has seen yet.
Fresh(p) ==
  /\ policyDoc[p] = Missing
  /\ counter[p] = 0
  /\ \A v \in Version : versionDoc[p][v] = Missing
  /\ \A h \in Handler : request[h] # Missing => request[h].policy # p

\* The version GetPolicy reads: the one named in the id, or the current one.
ReadVersion(h) ==
  IF request[h].version = 0 THEN snapshot[h].currentVersion ELSE request[h].version

ReadContent(h) == versionDoc[request[h].policy][ReadVersion(h)]

----------------------------------------------------------------------------
\* CreatePolicy

\* The message is stored as the client sent it but for the id, the version and the
\* timestamps: its deleted flag too.
CreatePolicy(h) ==
  \E p \in Policy, name \in Name, rego \in ValidRego, deleted \in BOOLEAN :
  /\ Fresh(p)
  /\ Accept(h, "policyItem", Message("Create", p, 0, name, rego))
  /\ snapshot' = [snapshot EXCEPT ![h] =
                    [name |-> name, currentVersion |-> 1, deleted |-> deleted]]
  /\ newVersion' = [newVersion EXCEPT ![h] = 1]
  /\ UNCHANGED <<store, bulkFailed, reply>>

\* The policy entity is unset, or does not compile.
RefuseCreate(h) ==
  /\ Refuse(h, "idle", "InvalidArgument")
  /\ UNCHANGED <<store, request, snapshot, newVersion, bulkFailed>>

\* GetPolicy, UpdatePolicy and DeletePolicy start by reading the policy document.

GetPolicy(h) == \E p \in Policy, v \in 0..MaxVersion :
  /\ Accept(h, "getPolicy", Message("Get", p, v, Missing, Missing))
  /\ UNCHANGED <<store, snapshot, newVersion, bulkFailed, reply>>

UpdatePolicy(h) ==
  \E p \in Policy, v \in IdVersions, name \in Name, rego \in Rego \cup {Missing} :
  /\ Accept(h, "getPolicy", Message("Update", p, v, name, rego))
  /\ UNCHANGED <<store, snapshot, newVersion, bulkFailed, reply>>

DeletePolicy(h) == \E p \in Policy, v \in IdVersions :
  /\ Accept(h, "getPolicy", Message("Delete", p, v, Missing, Missing))
  /\ UNCHANGED <<store, snapshot, newVersion, bulkFailed, reply>>

----------------------------------------------------------------------------
\* getPolicy: GetPolicy and UpdatePolicy strip the version from the id, while
\* DeletePolicy looks the id up as it is.

LooksUpVersion(h) == request[h].op = "Delete" /\ request[h].version # 0

DocumentFound(h) ==
  IF LooksUpVersion(h)
  THEN versionDoc[request[h].policy][request[h].version] # Missing
  ELSE policyDoc[request[h].policy] # Missing

PolicyNotFound(h) ==
  /\ pc[h] = "getPolicy" /\ ~DocumentFound(h)
  /\ Refuse(h, "getPolicy", "NotFound")
  /\ UNCHANGED <<store, request, snapshot, newVersion, bulkFailed>>

FetchPolicy(h) ==
  /\ pc[h] = "getPolicy" /\ DocumentFound(h)
  /\ Goto(h, "getPolicy", IF request[h].op = "Delete" THEN "writeDelete" ELSE "getVersion")
  /\ snapshot' = IF LooksUpVersion(h) THEN snapshot
                 ELSE [snapshot EXCEPT ![h] = policyDoc[request[h].policy]]
  /\ UNCHANGED <<store, request, newVersion, bulkFailed, reply>>

\* GetPolicyVersion: what follows the read of the version document.

VersionNotFound(h) ==
  /\ pc[h] = "getVersion" /\ ReadContent(h) = Missing
  /\ Refuse(h, "getVersion", "Internal")
  /\ UNCHANGED <<store, request, snapshot, newVersion, bulkFailed>>

AnswerGet(h) ==
  /\ pc[h] = "getVersion" /\ ReadContent(h) # Missing
  /\ request[h].op = "Get"
  /\ Answer(h, "getVersion", "OK", ReadVersion(h), ReadContent(h))
  /\ UNCHANGED <<store, request, snapshot, newVersion, bulkFailed>>

\* Mutant: the deleted flag is not looked at.
UpdatesDeleted(h) ==
  CASE request[h].rego = Missing -> "Internal"
    [] OTHER -> IF request[h].rego \in ValidRego \cup {ReadContent(h)}
                THEN "OK" ELSE "InvalidArgument"

\* UpdatePolicy decides on the copy it read.  An unset entity is dereferenced by
\* hasPolicyContentChanges: the panic is answered as Internal.
UpdateRefusal(h) ==
  CASE snapshot[h].deleted -> "FailedPrecondition"
    [] ~snapshot[h].deleted /\ request[h].rego = Missing -> "Internal"
    [] OTHER -> IF request[h].rego \in ValidRego \cup {ReadContent(h)}
                THEN "OK" ELSE "InvalidArgument"

UpdateRead(h) ==
  /\ pc[h] = "getVersion" /\ ReadContent(h) # Missing
  /\ request[h].op = "Update"

RefuseUpdate(h) ==
  /\ UpdateRead(h) /\ UpdateRefusal(h) # "OK"
  /\ Refuse(h, "getVersion", UpdateRefusal(h))
  /\ UNCHANGED <<store, request, snapshot, newVersion, bulkFailed>>

\* The CurrentVersion of the request is not copied: the pointer only moves with new
\* content.
EditedCopy(h) == [snapshot[h] EXCEPT !.name = request[h].name]

\* hasPolicyContentChanges is false: the bulk has the policy document only.
UpdateMetadata(h) ==
  /\ UpdateRead(h) /\ UpdateRefusal(h) = "OK"
  /\ request[h].rego = ReadContent(h)
  /\ Goto(h, "getVersion", "policyItem")
  /\ snapshot' = [snapshot EXCEPT ![h] = EditedCopy(h)]
  /\ UNCHANGED <<store, request, newVersion, bulkFailed, reply>>

UpdateContent(h) ==
  /\ UpdateRead(h) /\ UpdateRefusal(h) = "OK"
  /\ request[h].rego # ReadContent(h)
  /\ Goto(h, "getVersion", "increment")
  /\ snapshot' = [snapshot EXCEPT ![h] = EditedCopy(h)]
  /\ UNCHANGED <<store, request, newVersion, bulkFailed, reply>>

\* Mutant: the next number is computed from the copy of the policy document.
NumberFromCopy(h) == LET n == snapshot[h].currentVersion + 1 IN
  /\ Goto(h, "increment", "policyItem")
  /\ request[h].version = 0 /\ n <= MaxVersion
  /\ newVersion' = [newVersion EXCEPT ![h] = n]
  /\ snapshot' = [snapshot EXCEPT ![h].currentVersion = n]
  /\ UNCHANGED <<store, request, bulkFailed, reply>>

\* incrementPolicyVersion.  The counter relies on esutil's Update indexing the whole
\* message: that counts a document up although it stays empty, and makes it if it is
\* missing.  With a versioned id the counter is the document "p.n.counter" and the
\* new version "p.n.m", which no id of an update can name again: the model leaves
\* both out and keeps newVersion at 0.

IncrementPolicyVersion(h) == LET p == request[h].policy IN
  /\ Goto(h, "increment", "policyItem")
  /\ request[h].version = 0
  /\ counter[p] < MaxVersion
  /\ counter' = [counter EXCEPT ![p] = @ + 1]
  /\ newVersion' = [newVersion EXCEPT ![h] = counter[p] + 1]
  /\ snapshot' = [snapshot EXCEPT ![h].currentVersion = counter[p] + 1]
  /\ UNCHANGED <<policyDoc, versionDoc, request, bulkFailed, reply>>

IncrementVersionedId(h) ==
  /\ Goto(h, "increment", "policyItem")
  /\ request[h].version # 0
  /\ UNCHANGED <<store, request, snapshot, newVersion, bulkFailed, reply>>

\* The counter moved and the caller never learns it.
IncrementLost(h) == LET p == request[h].policy IN
  /\ CallFaults
  /\ Refuse(h, "increment", "Internal")
  /\ request[h].version = 0
  /\ counter[p] < MaxVersion
  /\ counter' = [counter EXCEPT ![p] = @ + 1]
  /\ UNCHANGED <<policyDoc, versionDoc, request, snapshot, newVersion, bulkFailed>>

----------------------------------------------------------------------------
\* The bulk request, item by item.  An item that fails does not stop the next.

\* Mutant: the version is not in the bulk of an update.
NoVersionItem(h) == IF request[h].op = "Create" THEN "counterItem" ELSE "bulkReply"

AfterPolicyItem(h) ==
  CASE request[h].op = "Create" -> "counterItem"
    [] request[h].op # "Create" /\ newVersion[h] # 0 -> "versionItem"
    [] OTHER -> "bulkReply"

\* The document is written under the id of the request: with a versioned id that
\* is a version document, and a policy message has no content.
WritePolicyItem(h) == LET p == request[h].policy v == request[h].version IN
  /\ pc[h] = "policyItem"
  /\ Goto(h, "policyItem", AfterPolicyItem(h))
  /\ IF v = 0
     THEN /\ policyDoc' = [policyDoc EXCEPT ![p] = snapshot[h]]
          /\ UNCHANGED versionDoc
     ELSE /\ versionDoc' = [versionDoc EXCEPT ![p][v] = EmptyRego]
          /\ UNCHANGED policyDoc
  /\ UNCHANGED <<counter, request, snapshot, newVersion, bulkFailed, reply>>

WriteCounterItem(h) ==
  /\ Goto(h, "counterItem", "versionItem")
  /\ counter' = [counter EXCEPT ![request[h].policy] = 1]
  /\ UNCHANGED <<policyDoc, versionDoc, request, snapshot, newVersion, bulkFailed, reply>>

\* Mutant: BULK_INDEX instead of BULK_CREATE.
IndexVersion(h) == LET p == request[h].policy v == newVersion[h] IN
  /\ Goto(h, "versionItem", "bulkReply")
  /\ versionDoc' = [versionDoc EXCEPT ![p][v] = request[h].rego]
  /\ UNCHANGED <<policyDoc, counter, request, snapshot, newVersion, bulkFailed, reply>>

\* BULK_CREATE never overwrites: on an existing document the item fails.
WriteVersionItem(h) == LET p == request[h].policy v == newVersion[h] IN
  /\ pc[h] = "versionItem" /\ versionDoc[p][v] = Missing
  /\ Goto(h, "versionItem", "bulkReply")
  /\ versionDoc' = [versionDoc EXCEPT ![p][v] = request[h].rego]
  /\ UNCHANGED <<policyDoc, counter, request, snapshot, newVersion, bulkFailed, reply>>

VersionConflict(h) ==
  /\ pc[h] = "versionItem" /\ versionDoc[request[h].policy][newVersion[h]] # Missing
  /\ Goto(h, "versionItem", "bulkReply")
  /\ bulkFailed' = [bulkFailed EXCEPT ![h] = TRUE]
  /\ UNCHANGED <<store, request, snapshot, newVersion, reply>>

ItemFails(h) ==
  /\ ItemFaults
  /\ \/ pc[h] = "policyItem" /\ Goto(h, "policyItem", AfterPolicyItem(h))
     \/ Goto(h, "counterItem", "versionItem")
     \/ Goto(h, "versionItem", "bulkReply")
  /\ bulkFailed' = [bulkFailed EXCEPT ![h] = TRUE]
  /\ UNCHANGED <<store, request, snapshot, newVersion, reply>>

\* Mutant: the errors of the items are not looked at.
UncheckedReply(h) ==
  /\ Answer(h, "bulkReply", "OK", snapshot[h].currentVersion, request[h].rego)
  /\ UNCHANGED <<store, request, snapshot, newVersion, bulkFailed>>

\* CheckBulkResponseErrors, then the answer: the entity is the new version, or
\* for a metadata-only update the one that was read.
BulkReply(h) ==
  /\ pc[h] = "bulkReply"
  /\ \E code \in IF bulkFailed[h] THEN {"Internal"} ELSE Outcome :
       IF code = "OK"
       THEN Answer(h, "bulkReply", "OK",
                   IF request[h].version = 0 THEN snapshot[h].currentVersion ELSE 0,
                   request[h].rego)
       ELSE Refuse(h, "bulkReply", code)
  /\ UNCHANGED <<store, request, snapshot, newVersion, bulkFailed>>

\* DeletePolicy writes back the whole copy it read.
WriteDelete(h) == LET p == request[h].policy v == request[h].version IN
  /\ pc[h] = "writeDelete"
  /\ IF v = 0
     THEN /\ policyDoc' = [policyDoc EXCEPT ![p] = [snapshot[h] EXCEPT !.deleted = TRUE]]
          /\ UNCHANGED versionDoc
     ELSE /\ versionDoc' = [versionDoc EXCEPT ![p][v] = EmptyRego]
          /\ UNCHANGED policyDoc
  /\ \E code \in Outcome : Refuse(h, "writeDelete", code)
  /\ UNCHANGED <<counter, request, snapshot, newVersion, bulkFailed>>

----------------------------------------------------------------------------
\* A call that fails before it has any effect.
CallFails(h) ==
  /\ CallFaults
  /\ \E label \in {"getPolicy", "getVersion", "increment", "policyItem", "writeDelete"} :
       Refuse(h, label, "Internal")
  /\ UNCHANGED <<store, request, snapshot, newVersion, bulkFailed>>

Forget(h) ==
  /\ pc' = [pc EXCEPT ![h] = "idle"]
  /\ request' = [request EXCEPT ![h] = Missing]
  /\ snapshot' = [snapshot EXCEPT ![h] = Missing]
  /\ newVersion' = [newVersion EXCEPT ![h] = 0]
  /\ bulkFailed' = [bulkFailed EXCEPT ![h] = FALSE]
  /\ reply' = [reply EXCEPT ![h] = Missing]
  /\ UNCHANGED store

Deliver(h) == pc[h] = "done" /\ Forget(h)

\* The process dies or the context of the RPC ends.  A bulk that was sent is
\* still applied to its end by Elasticsearch.
Abandon(h) ==
  /\ pc[h] \in Label \ {"idle", "counterItem", "versionItem", "done"}
  /\ Forget(h)

Serve(h) ==
  \/ CreatePolicy(h) \/ RefuseCreate(h)
  \/ GetPolicy(h) \/ UpdatePolicy(h) \/ DeletePolicy(h)
  \/ PolicyNotFound(h) \/ FetchPolicy(h)
  \/ VersionNotFound(h) \/ AnswerGet(h)
  \/ RefuseUpdate(h) \/ UpdateMetadata(h) \/ UpdateContent(h)
  \/ IncrementPolicyVersion(h) \/ IncrementVersionedId(h)
  \/ IncrementLost(h)
  \/ WritePolicyItem(h) \/ WriteCounterItem(h)
  \/ WriteVersionItem(h) \/ VersionConflict(h) \/ ItemFails(h)
  \/ BulkReply(h) \/ WriteDelete(h)
  \/ CallFails(h) \/ Deliver(h) \/ Abandon(h)

Next == \E h \in Handler : Serve(h)

Spec == Init /\ [][Next]_vars

----------------------------------------------------------------------------
(***************************************************************************)
(* Properties.                                                             *)
(***************************************************************************)

\* Every variable has its type.
TypeOK ==
  /\ policyDoc \in [Policy -> PolicyDocument \cup {Missing}]
  /\ versionDoc \in [Policy -> [Version -> Rego \cup {Missing}]]
  /\ counter \in [Policy -> 0..MaxVersion]
  /\ pc \in [Handler -> Label]
  /\ request \in [Handler -> Request \cup {Missing}]
  /\ snapshot \in [Handler -> PolicyDocument \cup {Missing}]
  /\ newVersion \in [Handler -> 0..MaxVersion]
  /\ bulkFailed \in [Handler -> BOOLEAN]
  /\ reply \in [Handler -> Reply \cup {Missing}]

\* Handler h is going to create version v of p.
Holds(h, p, v) ==
  /\ pc[h] \in {"policyItem", "counterItem", "versionItem"}
  /\ newVersion[h] = v /\ v # 0
  /\ request[h].policy = p

\* Version v of p is stored, or the bulk that creates it is being applied.
Landed(p, v) ==
  \/ versionDoc[p][v] # Missing
  \/ \E h \in Handler : Holds(h, p, v) /\ pc[h] # "policyItem"

\* The counter document is enough to allocate version numbers: no two RPCs, on
\* whatever replicas, ever hold the same number of a policy, and a held number is
\* not stored, so that the BULK_CREATE of a version never conflicts.
VersionNumbersUnique ==
  \A h \in Handler, p \in Policy, v \in Version :
    Holds(h, p, v) =>
      /\ versionDoc[p][v] = Missing
      /\ \A g \in Handler \ {h} : ~Holds(g, p, v)

\* The pointer of a policy document never dangles, except while the bulk that
\* moved it is still being applied (UpdatePolicy writes the pointer first).
CurrentVersionStored ==
  \A p \in Policy :
    policyDoc[p] # Missing => Landed(p, policyDoc[p].currentVersion)

\* What an RPC answered stays true: the version it named exists with the content
\* it returned, whatever other RPCs did between the read or write and the answer.
AnswersStayTrue ==
  \A h \in Handler :
    pc[h] = "done" /\ reply[h].code = "OK" /\ reply[h].version # 0 =>
      versionDoc[request[h].policy][reply[h].version] = reply[h].rego

\* Without faults, GetPolicy and UpdatePolicy answer Internal for a known policy
\* only in the window another handler's bulk opens between its items (or for a
\* version that was asked for by number, or an update with no entity).
InternalOnlyBesideBulk ==
  [][\A h \in Handler :
       pc[h] # "done" /\ pc'[h] = "done" /\ reply'[h].code = "Internal" =>
         \/ request[h].version # 0
         \/ request[h].op = "Update" /\ request[h].rego = Missing
         \/ \E g \in Handler \ {h} :
              /\ pc[g] \in {"counterItem", "versionItem"}
              /\ request[g].policy = request[h].policy]_vars

\* A version is written once: "Policy contents are immutable".
VersionsWriteOnce ==
  [][\A p \in Policy, v \in Version :
       versionDoc[p][v] # Missing => versionDoc'[p][v] = versionDoc[p][v]]_vars

\* No RPC brings a deleted policy back: UpdatePolicy refuses a deleted policy.
DeletedIsFinal ==
  [][\A p \in Policy :
       policyDoc[p] # Missing /\ policyDoc[p].deleted => policyDoc'[p].deleted]_vars

\* A version counts as published as soon as the bulk that stores it moved the
\* pointer to it: the content is then in the request of the handler.
PublishedVersions ==
  [p \in Policy |-> [v \in Version |->
    IF versionDoc[p][v] = Missing /\ Landed(p, v)
    THEN request[CHOOSE h \in Handler : Holds(h, p, v)].rego
    ELSE versionDoc[p][v]]]

Registry == INSTANCE PolicyRegistry
              WITH policies <- policyDoc, versions <- PublishedVersions

\* RPCs that do not overlap are atomic: the documents behave as a PolicyRegistry,
\* every RPC taking effect when its bulk (or its delete) writes the policy document.
ImplementsRegistry == Registry!Spec
=============================================================================
