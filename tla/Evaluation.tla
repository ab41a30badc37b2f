----------------------------- MODULE Evaluation -----------------------------
(***************************************************************************)
(* The evaluation manager (pkg/evaluation/manager.go) and the OPA client   *)
(* (opa/opa.go).  A policy is loaded into OPA under an id, once, and is    *)
(* then queried by the package its source names.  EvaluateResource does so *)
(* for every assignment of a policy group, and stores the results in one   *)
(* bulk request; EvaluatePolicy does so for one policy and stores nothing. *)
(*                                                                         *)
(* Of the policies, what evaluations read is left: the sources of their    *)
(* versions.  Which of them is the current one is up to the reader.  There *)
(* is one resource version and one policy group: the refusals when either  *)
(* is missing are left out, and so are violations, explanations and        *)
(* timestamps, and the status of an error.                                 *)
(***************************************************************************)
EXTENDS FiniteSets, Naturals

CONSTANTS
  Policy, Rego,
  MaxVersion,  \* the versions a policy can have
  MaxStored,   \* the versions all policies can have together
  PackageOf,   \* PackageOf[r]: the package r declares
  Passing,     \* the contents whose "pass" is true of the resource's occurrences
  Handler,     \* the RPCs that can be in flight at once
  Missing,
  CallFaults,  \* may a call fail, before or after its effect, or the RPC be cut off?
  ItemFaults,  \* may one item of a bulk fail alone?
  OpaRestarts  \* may OPA restart?  It keeps what is loaded in memory.

ASSUME BoundAssumption == MaxVersion \in Nat \ {0} /\ MaxStored \in Nat
ASSUME RegoAssumption == Passing \subseteq Rego /\ DOMAIN PackageOf = Rego
ASSUME SwitchAssumption == {CallFaults, ItemFaults, OpaRestarts} \subseteq BOOLEAN

VARIABLES
  source,               \* source[p][v]: the content of version v of p
  opa,                  \* opa[id]: the source of the OPA policy with that id
  resourceEvaluation,   \* resourceEvaluation[h]: the pass of the document h stored
  policyEvaluation,     \* policyEvaluation[h][id]: the pass of its child for version id
  pc,                   \* pc[h]: the call handler h is about to make
  request,              \* request[h]: the message h serves
  todo,                 \* todo[h]: the assignments h has still to evaluate
  current,              \* current[h]: the one it is evaluating
  verdict,              \* verdict[h][id]: the results so far
  unsent,               \* unsent[h]: the policy evaluations left in h's bulk request
  bulkFailed,           \* bulkFailed[h]: has an item of it failed?
  reply,                \* reply[h]: the pass of an answer OK
  restarted             \* history: has OPA restarted since h made sure of its policy?

stored == <<resourceEvaluation, policyEvaluation>>
local == <<request, todo, current, verdict, unsent, bulkFailed>>
Outside == <<source, restarted>>
vars == <<source, opa, stored, pc, local, reply, restarted>>

Version == 1..MaxVersion

\* A policy version id, or with version 0 a policy id: OPA takes both as names.
Id == Policy \X (0..MaxVersion)

Request == [op : {"EvaluateResource"}]
           \cup [op : {"EvaluatePolicy"}, policy : Policy]

ASSUME MissingAssumption == Missing \notin Rego \cup BOOLEAN \cup Request \cup [id : Id, rego : Rego]

None == <<>>

Init ==
  /\ source = [p \in Policy |-> [v \in Version |-> Missing]]
  /\ opa = [id \in Id |-> Missing]
  /\ resourceEvaluation = [h \in Handler |-> Missing]
  /\ policyEvaluation = [h \in Handler |-> None]
  /\ pc = [h \in Handler |-> "idle"]
  /\ request = [h \in Handler |-> Missing]
  /\ todo = [h \in Handler |-> {}]
  /\ current = [h \in Handler |-> Missing]
  /\ verdict = [h \in Handler |-> None]
  /\ unsent = [h \in Handler |-> {}]
  /\ bulkFailed = [h \in Handler |-> FALSE]
  /\ reply = [h \in Handler |-> Missing]
  /\ restarted = [h \in Handler |-> FALSE]

----------------------------------------------------------------------------
Goto(h, from, to) == pc[h] = from /\ pc' = [pc EXCEPT ![h] = to]

\* The RPC is over, whatever its client was told.  No other RPC reads or writes the
\* documents it stored under its new ids, and the model forgets them with it.
End(h) ==
  /\ pc' = [pc EXCEPT ![h] = "idle"]
  /\ request' = [request EXCEPT ![h] = Missing]
  /\ todo' = [todo EXCEPT ![h] = {}]
  /\ current' = [current EXCEPT ![h] = Missing]
  /\ verdict' = [verdict EXCEPT ![h] = None]
  /\ unsent' = [unsent EXCEPT ![h] = {}]
  /\ resourceEvaluation' = [resourceEvaluation EXCEPT ![h] = Missing]
  /\ policyEvaluation' = [policyEvaluation EXCEPT ![h] = None]
  /\ bulkFailed' = [bulkFailed EXCEPT ![h] = FALSE]
  /\ reply' = [reply EXCEPT ![h] = Missing]
  /\ restarted' = [restarted EXCEPT ![h] = FALSE]
  /\ UNCHANGED source

Fail(h, from) == pc[h] = from /\ End(h)

\* An answer OK.
Answer(h, from, pass) ==
  /\ Goto(h, from, "done")
  /\ reply' = [reply EXCEPT ![h] = pass]
  /\ UNCHANGED <<Outside, opa, stored, local>>

EvaluateResource(h) ==
  /\ Goto(h, "idle", "listAssignments")
  /\ request' = [request EXCEPT ![h] = [op |-> "EvaluateResource"]]
  /\ UNCHANGED <<Outside, opa, stored, todo, current, verdict, unsent,
                 bulkFailed, reply>>

EvaluatePolicy(h) == \E p \in Policy :
  /\ Goto(h, "idle", "getPolicy")
  /\ request' = [request EXCEPT ![h] = [op |-> "EvaluatePolicy", policy |-> p]]
  /\ UNCHANGED <<Outside, opa, stored, todo, current, verdict, unsent,
                 bulkFailed, reply>>

NoAssignments(h) == Fail(h, "listAssignments") /\ UNCHANGED opa

StoredVersions == {id \in Policy \X Version : source[id[1]][id[2]] # Missing}

\* What a search of the group can find: an assignment names a version that exists,
\* and no two name versions of one policy.
ListPolicyAssignments(h) ==
  /\ Goto(h, "listAssignments", "getVersion")
  /\ \E listed \in SUBSET StoredVersions \ {{}} :
       /\ \A id, other \in listed : id[1] = other[1] => id = other
       /\ todo' = [todo EXCEPT ![h] = listed]
  /\ UNCHANGED <<Outside, opa, stored, request, current, verdict, unsent, bulkFailed, reply>>

Evaluate(h, from, id, rego) ==
  /\ Goto(h, from, "policyExists")
  /\ current' = [current EXCEPT ![h] = [id |-> id, rego |-> rego]]
  /\ UNCHANGED <<Outside, opa, stored, request, todo, verdict, unsent,
                 bulkFailed, reply>>

GetPolicyVersion(h) == \E id \in todo[h] : Evaluate(h, "getVersion", id, source[id[1]][id[2]])

\* GetPolicy answers with the current version or the one asked for, and in both
\* cases with the id of the policy.
GetPolicy(h) ==
  /\ pc[h] = "getPolicy"
  /\ LET p == request[h].policy IN
     \E v \in Version : source[p][v] # Missing /\ Evaluate(h, "getPolicy", <<p, 0>>, source[p][v])

VersionNotFound(h) ==
  /\ pc[h] = "getPolicy" /\ \E v \in Version : source[request[h].policy][v] = Missing
  /\ Fail(h, "getPolicy") /\ UNCHANGED opa

----------------------------------------------------------------------------
\* The OPA client.

\* Mutant: any version of the policy will do.
PolicyKnown(h) ==
  /\ Goto(h, "policyExists",
          IF \E v \in 0..MaxVersion : opa[<<current[h].id[1], v>>] # Missing
          THEN "query" ELSE "loadPolicy")
  /\ UNCHANGED <<Outside, opa, stored, local, reply>>

PolicyExists(h) ==
  /\ Goto(h, "policyExists", IF opa[current[h].id] # Missing THEN "query" ELSE "loadPolicy")
  /\ UNCHANGED <<Outside, opa, stored, local, reply>>

\* What OPA evaluates for a query about the package of a source.
Loaded(rego) ==
  {opa[id] : id \in {i \in Id : opa[i] # Missing /\ PackageOf[opa[i]] = PackageOf[rego]}}

LoadPolicy(h) ==
  /\ pc[h] = "loadPolicy"
  /\ opa' = [opa EXCEPT ![current[h].id] = current[h].rego]
  /\ \/ Goto(h, "loadPolicy", "query") /\ UNCHANGED <<Outside, stored, local, reply>>
     \/ CallFaults /\ Fail(h, "loadPolicy")

\* Rules of two sources of one package can contradict each other: OPA may refuse to
\* load the second, or to answer.
Contradiction(h) ==
  /\ pc[h] \in {"loadPolicy", "query"}
  /\ Loaded(current[h].rego) \ {current[h].rego} # {}
  /\ Fail(h, pc[h]) /\ UNCHANGED opa

\* The values of "pass" OPA can answer with: one source decides, several are merged.
Results(rego) ==
  IF Cardinality(Loaded(rego)) = 1 THEN {Loaded(rego) \subseteq Passing} ELSE BOOLEAN

----------------------------------------------------------------------------
\* Mutant: a policy evaluation gets the result of the resource evaluation so far.
NoteSoFar(h, pass) ==
  /\ Goto(h, "query", IF todo[h] = {current[h].id} THEN "resourceItem" ELSE "getVersion")
  /\ todo' = [todo EXCEPT ![h] = @ \ {current[h].id}]
  /\ verdict' = [verdict EXCEPT ![h] =
       [id \in DOMAIN @ \cup {current[h].id} |->
          IF id = current[h].id THEN pass /\ \A other \in DOMAIN @ : @[other] ELSE @[id]]]
  /\ current' = [current EXCEPT ![h] = Missing]
  /\ restarted' = [restarted EXCEPT ![h] = FALSE]
  /\ UNCHANGED <<source, opa, stored, request, unsent, bulkFailed, reply>>

Note(h, pass) ==
  /\ Goto(h, "query", IF todo[h] = {current[h].id} THEN "resourceItem" ELSE "getVersion")
  /\ todo' = [todo EXCEPT ![h] = @ \ {current[h].id}]
  /\ verdict' = [verdict EXCEPT ![h] =
       [id \in DOMAIN @ \cup {current[h].id} |-> IF id = current[h].id THEN pass ELSE @[id]]]
  /\ current' = [current EXCEPT ![h] = Missing]
  /\ restarted' = [restarted EXCEPT ![h] = FALSE]
  /\ UNCHANGED <<source, opa, stored, request, unsent, bulkFailed, reply>>

Query(h) ==
  /\ pc[h] = "query" /\ Loaded(current[h].rego) # {}
  /\ \E pass \in Results(current[h].rego) :
       IF request[h].op = "EvaluateResource" THEN Note(h, pass)
       ELSE Answer(h, "query", pass)

\* Without a result EvaluatePolicy says that the policy does not pass, and
\* EvaluateResource panics, which the interceptor turns into an error.
NoResult(h) ==
  /\ pc[h] = "query" /\ Loaded(current[h].rego) = {}
  /\ IF request[h].op = "EvaluateResource" THEN Fail(h, "query") /\ UNCHANGED opa
     ELSE Answer(h, "query", FALSE)

----------------------------------------------------------------------------
\* The bulk request: the resource evaluation, then its children.

\* Mutant: one policy that passes is enough.
AnyPasses(h) == \E id \in DOMAIN verdict[h] : verdict[h][id]

Pass(h) == \A id \in DOMAIN verdict[h] : verdict[h][id]

WriteResourceEvaluation(h) ==
  /\ Goto(h, "resourceItem", "policyItems")
  /\ resourceEvaluation' = [resourceEvaluation EXCEPT ![h] = Pass(h)]
  /\ unsent' = [unsent EXCEPT ![h] = DOMAIN verdict[h]]
  /\ UNCHANGED <<Outside, opa, policyEvaluation, request, todo, current, verdict,
                 bulkFailed, reply>>

WritePolicyEvaluation(h) ==
  /\ pc[h] = "policyItems"
  /\ \E id \in unsent[h] :
       /\ policyEvaluation' = [policyEvaluation EXCEPT ![h] =
            [i \in DOMAIN @ \cup {id} |-> IF i = id THEN verdict[h][id] ELSE @[i]]]
       /\ unsent' = [unsent EXCEPT ![h] = @ \ {id}]
  /\ UNCHANGED <<Outside, opa, resourceEvaluation, pc, request, todo, current, verdict,
                 bulkFailed, reply>>

ItemFails(h) ==
  /\ ItemFaults
  /\ \/ /\ Goto(h, "resourceItem", "policyItems")
        /\ unsent' = [unsent EXCEPT ![h] = DOMAIN verdict[h]]
     \/ /\ \E id \in unsent[h] : unsent' = [unsent EXCEPT ![h] = @ \ {id}]
        /\ UNCHANGED pc
  /\ bulkFailed' = [bulkFailed EXCEPT ![h] = TRUE]
  /\ UNCHANGED <<Outside, opa, stored, request, todo, current, verdict, reply>>

\* Mutant: the errors of the items are not looked at.
UncheckedReply(h) ==
  /\ pc[h] = "policyItems" /\ unsent[h] = {}
  /\ Answer(h, "policyItems", Pass(h))

BulkReply(h) ==
  /\ pc[h] = "policyItems" /\ unsent[h] = {}
  /\ IF bulkFailed[h] THEN Fail(h, "policyItems") /\ UNCHANGED opa
     ELSE Answer(h, "policyItems", Pass(h))

----------------------------------------------------------------------------
\* The answer leaves; or, before that, a call fails, the process dies or the RPC is
\* cancelled.  A bulk that was sent is still applied to its end by Elasticsearch.
Finish(h) ==
  /\ pc[h] = "done" \/ (CallFaults /\ pc[h] # "idle" /\ unsent[h] = {})
  /\ End(h) /\ UNCHANGED opa

Serve(h) ==
  \/ EvaluateResource(h) \/ EvaluatePolicy(h)
  \/ NoAssignments(h) \/ ListPolicyAssignments(h) \/ GetPolicyVersion(h)
  \/ GetPolicy(h) \/ VersionNotFound(h)
  \/ PolicyExists(h) \/ LoadPolicy(h) \/ Contradiction(h) \/ Query(h) \/ NoResult(h)
  \/ WriteResourceEvaluation(h) \/ WritePolicyEvaluation(h) \/ ItemFails(h) \/ BulkReply(h)
  \/ Finish(h)

\* CreatePolicy, which stores version 1, or UpdatePolicy: numbers may be skipped, never
\* used again.
StoreVersion == \E p \in Policy, rego \in Rego, v \in Version :
  /\ Cardinality(StoredVersions) < MaxStored
  /\ v = 1 \/ source[p][1] # Missing
  /\ \A used \in Version : source[p][used] # Missing => used < v
  /\ source' = [source EXCEPT ![p][v] = rego]
  /\ UNCHANGED <<opa, stored, pc, local, reply, restarted>>

OpaRestart ==
  /\ OpaRestarts
  /\ opa' = [id \in Id |-> Missing]
  /\ restarted' = [h \in Handler |-> pc[h] = "query"]
  /\ UNCHANGED <<source, stored, pc, local, reply>>

Next == (\E h \in Handler : Serve(h)) \/ StoreVersion \/ OpaRestart

Spec == Init /\ [][Next]_vars

----------------------------------------------------------------------------
\* Every variable has its type.
TypeOK ==
  /\ source \in [Policy -> [Version -> Rego \cup {Missing}]]
  /\ opa \in [Id -> Rego \cup {Missing}]
  /\ resourceEvaluation \in [Handler -> BOOLEAN \cup {Missing}]
  /\ \A h \in Handler :
       /\ request[h] \in Request \cup {Missing}
       /\ todo[h] \subseteq Policy \X Version /\ unsent[h] \subseteq DOMAIN verdict[h]
       /\ pc[h] \in {"policyExists", "loadPolicy", "query"} =>
            current[h] \in [id : Id, rego : Rego]
       /\ policyEvaluation[h] \in UNION {[S -> BOOLEAN] : S \in SUBSET (Policy \X Version)}
       /\ bulkFailed[h] \in BOOLEAN /\ restarted[h] \in BOOLEAN
       /\ reply[h] \in BOOLEAN \cup {Missing}

OwnsItsPackage(rego) == \A r \in Rego : PackageOf[r] = PackageOf[rego] => r = rego

\* The result stored for a policy version is that of its own source, whatever is
\* loaded in OPA, if the source shares its package with no other.
VerdictOfItsVersion ==
  \A h \in Handler : \A id \in DOMAIN policyEvaluation[h] :
    LET rego == source[id[1]][id[2]] IN
    OwnsItsPackage(rego) => (policyEvaluation[h][id] <=> rego \in Passing)

\* "Pass ... will be set to false if any policy evaluations fail": a stored resource
\* evaluation that passes has no stored policy evaluation that fails.
PassMeansAllPass ==
  \A h \in Handler : resourceEvaluation[h] = TRUE =>
    \A id \in DOMAIN policyEvaluation[h] : policyEvaluation[h][id]

\* An EvaluateResource answered OK has stored its resource evaluation and one policy
\* evaluation per assignment: GetResourceEvaluation finds what the client was told.
AcknowledgedEvaluationStored ==
  \A h \in Handler :
    reply[h] # Missing /\ request[h].op = "EvaluateResource" =>
      /\ resourceEvaluation[h] = reply[h]
      /\ policyEvaluation[h] = verdict[h]

\* OPA has a result for what EvaluateResource has made sure is loaded, so that the
\* dereference of Result never panics, unless OPA restarted meanwhile.
OnlyRestartsPanic ==
  \A h \in Handler :
    pc[h] = "query" /\ request[h].op = "EvaluateResource" /\ ~restarted[h] =>
      Loaded(current[h].rego) # {}

\* EvaluatePolicy answers for the source GetPolicy gave it: "CurrentVersion is the
\* default policy version that's used when a policy is retrieved or evaluated".
CurrentSourceEvaluated ==
  \A h \in Handler :
    reply[h] # Missing /\ request[h].op = "EvaluatePolicy" =>
      (reply[h] <=> current[h].rego \in Passing)
=============================================================================
