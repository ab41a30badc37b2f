# Rode in TLA+

Rode is a metadata server for software supply chains. Collectors send it
occurrences (builds, scans, deployments), policy developers give it policies in
Rego, and enforcers ask it whether a resource passes the policies of a group. It
is a stateless gRPC server: everything it remembers is in Elasticsearch, in
Grafeas (which keeps occurrences and notes) and, as a cache, in OPA. Several
replicas can run, and one replica serves every RPC in a goroutine of its own. No
lock and no transaction spans two calls, so each hard question about this code is
about RPCs that interleave between calls, calls that fail, bulk requests that
succeed in part, and processes that start, stop and die beside each other.

This directory models that, checks it with TLC, and proves with TLAPS, for every
number of clients and replicas, all the safety properties that hold. Paths are
relative to the root of the repository.

## Inventory

| Component | State | Operations | What makes it correct |
| --- | --- | --- | --- |
| Policy manager, `pkg/policy/manager.go` | index `policies`: policy, version and counter documents | Create, Get, Update, Delete | numbers are given once; a version is written once; the pointer names a stored version; answers are true; a deleted policy stays deleted |
| Policy search, same file | the index as of its last refresh | ListPolicies, ListPolicyVersions | a listing shows what clients were told is done; an update beside it does not make it fail |
| Policy ids, same file | none | parsePolicyVersionId, policyVersionId, policyCounterId | an id names one document, of the kind that is read or written |
| Policy validation, same file | none | ValidatePolicy and its helpers | exactly the modules with the required rules are accepted; every error is told |
| Policy groups, `policy_group_manager.go` | index `policy-groups` | Create, Get, Update, Delete, List | one client creates a name; groups are never removed |
| Policy assignments, `assignment_manager.go` | index `policy-assignments` | Create, Get, Update, Delete, List | an assignment links what exists, under the path its content gives; an acknowledged delete removed what a search could find |
| Resources, `pkg/resource`, `server/server.go` | index `resources`: resources and their child versions | BatchCreateOccurrences and its two steps, searches | an acknowledged batch is stored; a resource precedes its versions; names are kept |
| Evaluation, `pkg/evaluation` | index `evaluations`: resource evaluations and their child policy evaluations | EvaluateResource, EvaluatePolicy, Get, List | a result is that of the version it names; a pass means that all pass; what is answered is found, and what is shown agrees |
| OPA client, `opa/opa.go` | the policies loaded in OPA | InitializePolicy, EvaluatePolicy | the source that is asked about answers |
| Collectors and notes, `server/server.go` | notes in Grafeas | RegisterCollector, CreateNote | a registration answered OK has all its notes; a note that exists is not created again |
| Start and stop, `main.go`, `server/server.go`, `healthz.go` | project, indices, the ready flag, the listener | initialize, Ready, NotReady, GracefulStop, Shutdown | no call runs unprepared; ready means served; a stop ends and loses no call; every replica gets up |
| Authentication, authorization, configuration, `auth`, `config` | constant tables, the configuration | Build, Authenticate, Authorize | where authentication was asked for, nobody else writes; the tables of roles, methods and verbs agree |
| HTTP gateway, `proto/v1alpha1/rode.pb.gw.go` | none | the route and the message of a request | one method for a request; the path decides over the body |
| Occurrence proxies, `pkg/grafeas`, `server/server.go` | none; the client holds the page token | ListVersionedResourceOccurrences with its related notes, UpdateOccurrence, ListOccurrences | what is related to a version is not lost between pages |
| Client library, mappings, protocol, generated code | none at run time | - | - |

How they interact: a call comes over gRPC, or over HTTP to the gateway, which makes a gRPC
call of it; it passes the recovery, authentication and authorization interceptors and
reaches a handler. An update of a policy reads the policy document and its current
version, takes a number from the counter document, and sends one bulk. An assignment
reads a policy, a version and a group before it writes a document that names all
three; nothing stops those from being deleted afterwards. An evaluation lists the
assignments of a group, reads each version, loads it into OPA, queries OPA, and
writes all results in one bulk. A batch of occurrences goes to Grafeas first and to
the resource index after. A replica that starts creates what the others may be creating.

The hard behaviours, each at its line, are the `hazards` of `PROJECT.json`.

## Modules

| Module | Models |
| --- | --- |
| `PolicyManager` | the policy RPCs, call by call |
| `PolicyRegistry` | abstract: policies whose RPCs are atomic |
| `PolicyListing` | `PolicyManager` with the search index, its refresh, and the two listings |
| `PolicyIds` | ids, what they parse to, and which documents each policy RPC reads and writes for any id |
| `PolicyValidation` | which Rego modules are policies |
| `PolicyGroups` | the group RPCs, call by call |
| `PolicyGroupRegistry` | abstract: what holds of the groups whatever overlaps |
| `PolicyAssignments` | the assignment RPCs, composed with both registries and the index refresh |
| `Resources` | BatchCreateOccurrences and the resource manager |
| `Evaluation` | the evaluation manager and the OPA client, with what OPA holds |
| `EvaluationListing` | `Evaluation` with the search index, its refresh, and the Get and listing of evaluations |
| `Collectors` | RegisterCollector and CreateNote |
| `RelatedOccurrences` | extends `Collectors` with a client that lists the occurrences of a resource version page by page |
| `ServerLifecycle` | replicas that start, serve, stop and die over one Grafeas and one Elasticsearch |
| `Auth` | flags, roles, permissions of methods, both interceptors |
| `Gateway` | the routes and the message id of an HTTP request |
| `RequestPath` | composes `Auth`, `Gateway`, `PolicyIds` and `PolicyValidation`: the way of a call from its header to its answer |
| `PolicyManagerProofs`, `PolicyGroupProofs`, `PolicyAssignmentProofs`, `ResourceProofs`, `EvaluationProofs`, `CollectorProofs`, `ServerLifecycleProofs`, `RequestPathProofs` | theorems about the module each extends, those of `PolicyManagerProofs` about `PolicyListing` too, those of `EvaluationProofs` about `EvaluationListing` and those of `CollectorProofs` about `RelatedOccurrences` |
| `MCPolicyManager`, `MCPolicyListing`, `MCPolicyGroups`, `MCPolicyAssignments`, `MCResources`, `MCEvaluation`, `MCEvaluationListing`, `MCRelatedOccurrences`, `MCServerLifecycle`, `MCRequestPath` | small instances for TLC |

### How state and actions correspond to the code

In the modules of the managers a *handler* is one RPC being served, on any replica. `pc[h]`
names the call it makes next, `request[h]` is its message, `reply[h]` its answer, and one
action is one call with the Go code up to the next call. Each action that starts
an RPC has the name of its Go method. The documents of an index are functions from
ids to documents or `Missing`.

*PolicyManager.* `policyDoc[p]`, `versionDoc[p][v]` and `counter[p]` are the documents
with ids `p`, `p.v` and `p.counter`; the value of `counter` is the `_version`
Elasticsearch keeps, which `incrementPolicyVersion` hands out. A bulk is one action per
item (`WritePolicyItem`, `WriteCounterItem`, `WriteVersionItem`): items are applied one by
one and other handlers read between them. `snapshot[h]` is the `*pb.Policy` the handler
edits in place and writes whole, which is why races undo each other's changes. In update
and delete `request[h].version` is not 0 if the id has the form `p.n`: the code uses the
id as it came, so the write goes to the version document.

*PolicyListing.* `searchable` is the index as the last refresh left it, `joined` the policy
documents that have their join field; a search reads both, a MultiGet the documents
themselves. `found` is what the search of a listing has returned until its MultiGet
is answered. The answer of a write waits in `Answerable` for the refresh, as with
`elasticsearch-refresh` `true` or `wait_for`. `told` is a history variable: what clients
were answered.

*PolicyIds.* An id is the sequence of the pieces between its dots, a piece a word or a
numeral; a numeral has a value and says whether it is spelled as `strconv.Itoa` does.
`ParsePolicyVersionId` is `strings.Split`, `Atoi` and the conversion to `uint32`, whose width is
`Width`. The policy RPCs are operators here: what they answer, read and write, one at a time,
for any id. `CreatePolicy` keeps the `Deleted` flag of its message; the model leaves that
flag unset.

*PolicyValidation.* A source is what OPA's parser and compiler make of it: its errors, and its
rules with their keys and bodies. `RodeErrors` is `validateRodeRequirementsForPolicy`; `Passed` is its
loop, which breaks at the first rule that is not well formed, and `ReturnFieldsExist` the flag it sets at
the end of the last. `ErrorsList` is the list made with its length and then appended to.

*PolicyGroups.* The same as for policies over one document per group. `CreateOverwrites` says
what esutil's `Create` does to an existing id, which is not decided in this repository.

*PolicyAssignments.* `assignmentDoc` is what reads by id see, `searchable` what the
delete by query sees, `dirty` what a refresh has still to do. The answer of a write
waits for the refresh when `elasticsearch-refresh` is `true` or `wait_for`. Policies and
groups move by the next-state relations of the two registries. `seen[h]` is a history
variable: what has been true at some moment since the RPC began.

*Resources.* `ResourcesOf[u]` are the resources `parseResourceUri` can find in `u`: none,
one, or several when several patterns match, since a map iteration tries them. It is called for each
occurrence, and then for each version, so that one batch can name two resources by one uri (`Parses`).
`VersionsPanic` is a build without a provenance, whose artifacts are read through a nil pointer: the
recovery interceptor answers Internal. Items of
a bulk come in any order, and fail alone. `known[h]` is a history variable: the versions
that were stored when the RPC began.

*Evaluation.* `opa[id]` is what OPA holds. A query is about a package, and OPA merges every
loaded source of that package (`Loaded`, `Results`). The documents a handler stores have
fresh ids: they are kept while the RPC lasts, which is where the properties speak of
them. A version above 1 is stored for a policy that has version 1, as CreatePolicy and UpdatePolicy do. OPA keeps its policies in memory and may restart.

*EvaluationListing.* `searchable[h]` is what the last refresh left of the documents of `h`. A Get or a
listing is two steps with `found` between them, since even the two searches of one MultiSearch
are made one after the other, and a refresh can fall between them as between two items of
a bulk. `Hits` leaves open to how many a search without a size is cut, which esutil and
Elasticsearch decide. The answer to a bulk waits in `Answerable` for the refresh.

*Collectors.* `notes` are the ids of the notes in Grafeas, each a collector and a kind. The
list of a registration is by prefix and finds the notes of every collector in
`PrefixedBy[c]`, of which Grafeas returns a page. `listed[h]` is a history variable: the
notes there were when `h` listed them. That Grafeas refuses to create a note that exists
is an assumption about it; what it does with the rest of such a batch is left open.

*RelatedOccurrences.* Here `pc[h]` is a client that walks through the pages of a listing: one
RPC per page, three calls of Grafeas in it (`ListBuilds`, `ListOccurrences`, `FetchRelatedNotes`).
`resourceUris` is the map of the same name, made anew for each page; `spot` is the page
token, a place in a list whose order lasts, which is what the protocol says of it ("a
particular spot in the list", `protodeps/grafeas/proto/v1beta1/grafeas.proto:360`); `page` is what the second list
returned. Occurrences are tracked while a client walks, over any set of them to begin with. `owed` is
a history variable: what was related when the walk began and is not listed yet. An update
empties it, since it may take an occurrence out of the list before the spot, and nothing is promised
then. After `PageFails`, and after `BuildsPanic`, a page of builds one of which has no provenance, the client
asks again with the token it had.

*ServerLifecycle.* `pc[r]` is the main goroutine of replica `r`, from `net.Listen` to the return of
`main`; `Accepting` is the moment the server goroutines get to run, `Forward` the gRPC call the
gateway makes on the port of its own process. `logger.Fatal`, a signal before
`signal.Notify` and a crash are `Dies`: the memory and the calls of the process are gone, Grafeas
and Elasticsearch stay.

*RequestPath.* `stage` walks through gateway, interceptors (in the order `Interceptors`, as
`grpc_middleware.ChainUnaryServer` has them) and handler; `index` is the policies
index between calls. `Restart` and `Boot` start the server again with other flags. `misused` is a
history variable: the documents that clients had written as policies by naming them in
a delete or in an update of `p.n`.

Faults are constants. `CallFaults`: a call fails before or after its effect (the handler
is answered with an error either way), or the RPC is cut off, by a cancelled client or
the end of the process. `ItemFaults`: an item of a bulk fails alone. `MaxFaults`: how many calls of
a start fail and processes die.

## Runs

| Run | Shows |
| --- | --- |
| `policy_concurrent` | two RPCs in flight on one policy, plain and version ids, no fault: numbers are never held twice, the pointer does not dangle, and an Internal is answered only beside another RPC's bulk |
| `policy_faults` | the same with every fault and plain ids: an OK is true and stays true, and versions are written once |
| `policy_registry` | RPCs that do not overlap implement the abstract registry, failing calls included; listings beside them show everything that clients were told is done, and miss a version only beside an update |
| `policy_deleted_race` | violated: an update that overlaps a delete writes the policy back undeleted |
| `groups_concurrent` | three RPCs and failing calls: one client at most is told it created a name, and every write creates or changes one valid group |
| `assignments_concurrent` | assignments are stored under the path of their content and resolve to a version and a group; what a write checked was true at some moment of its RPC; a delete answered OK removed what a search could find |
| `resources_concurrent` | a batch answered OK is stored whole; a resource is written before its versions; names are lost to overlapping batches only |
| `evaluation_concurrent` | stored results are those of the version they name; an evaluation whose client was answered OK is found whole; a Get or listing shows no pass beside a failure, and a failure without its cause only beside the bulk, a failed item, a due refresh or a cut; and only a restart of OPA makes the handler panic |
| `collectors_concurrent` | a registration answered OK has all its notes in Grafeas and names them; a note that existed when the notes were listed is created again only if the list is longer than a page; a client that walks through the related occurrences beside them, with pages that fail and occurrences that are created, has seen at the end all that was related when it began |
| `evaluation_stale` | violated: EvaluatePolicy answers for the source it loaded first |
| `server_lifecycle` | two replicas start at once, fail, crash and are signalled: no call runs and none is told "ready" before all is there, an orderly stop loses no call, every replica serves in the end, every stop ends, and no call hangs |
| `request_path` | calls of every method, header and configuration, for odd ids and all kinds of sources: roles, methods and verbs agree, a panic is answered, an id is read as the version it spells, only verified callers write, the path decides, refusals write nothing, listings are answered |

Each violated property quotes what a document or test of the repository says, under
`findings` in `PROJECT.json`.

Only `request_path` lists its type invariant; that of every module with behaviours is a theorem.

### Bounds

- *Handlers.* Two; three for the groups, whose RPCs have two calls, and one in `policy_registry`,
  whose question is about RPCs that do not overlap. A race between a read and a write needs
  two. The proofs cover any number.
- *Versions.* `MaxVersion` is 3 in `PolicyManager`: a create, two overlapping updates, and
  thus a number that is skipped and a pointer that can move back. It is 4 in
  `policy_registry`, for an update that failed between updates that did not; 1 for the
  assignments, which only ask whether a version exists; 2 for evaluations, where
  `MaxStored` also bounds the versions of both policies together: an update of one
  policy and two policies side by side both happen.
- *Hits.* A search for policy evaluations is cut to one, or not (`HitsPerSearch` is 1 and 2): an evaluation has
  up to two.
- *Policies, groups.* One where the property is about one document, two where documents
  could be confused (paths of assignments, evaluations).
- *Contents.* Two valid ones, so that an update can change the content, and the empty one,
  which a version reads as when a policy message was written over it.
- *Batches* (`MCBatches`): scans and builds of uris that parse to one, several or no resource,
  with and without names, one uri with several resources twice in a batch, and a build without a provenance.
- *Notes.* Two collectors, `sonar` and `sonar-ci`, of which one id begins the other, two kinds
  of note, and pages of three: the four notes the two can have are more than a page.
- *Occurrences.* Two builds of one image, from a repository and from a fork of it, a scan of the
  repository, and a build of the image without a provenance. `MaxPageSize` is 2: one build is enough for a
  second page of occurrences, and two fit the page of builds, so that a build can be created, and the filter
  change, while a token is in use and something is owed; three builds are more than a page. The image is
  listed page by page with notes, its repository two at a time without.
- *Replicas.* Two, with one call over gRPC and one over HTTP, and two faults (`MaxFaults`): a
  crash in the middle of a start, beside the other replica's start, and one after it.
- *Ids* (`MCIds`): the plain id, `p.counter`, versions 1 and 2, 1 spelled otherwise, 0, -1, one more than
  an int holds, one that wraps to 1, ids with an empty piece and with three. `Width` is 2: four
  numbers before the wrap, of which 1 and 2 are versions. `MaxChanges` is 3: a create and two
  changes of what it made.
- *Sources* (`MCSources`): sources that do not parse or compile, and modules with up to three rules,
  among them every pair of violations rules from seven, in both orders around a pass rule.
- *Symmetry* is used for sets of interchangeable model values only, in safety runs only.

Deadlock is checked in every run that must pass: something can always go on.

### Fairness

`ServerLifecycle` assumes weak fairness, action by action: of each replica's main goroutine
(`Main`) and of the goroutines of its servers (`Accepting`), which the Go scheduler gives; of
the steps of a call that was made (`Serve`), since calls of a backend return with an answer or
an error and a handler has no loop that waits; and of `Start`, the restart of a replica
that ended by itself, which is the duty of whoever runs the replicas
(the documented way to run them is a Helm chart on Kubernetes, `docs/README.md:58`). Nothing is
assumed of signals, faults and clients. `EveryReplicaServes` rests on `MaxFaults` being
finite: a start that always fails never serves. Beyond that number it needs no luck, since a conflict with the other replica's project can happen to a replica once only.

The other modules have safety properties and refinements of specifications without
fairness: the code retries nothing and has no background work, so what an RPC promises in
time is that it is answered if its calls return, which holds by the shape of its straight-line
handler.

## Proofs

| Theorem | Statement | Assumes |
| --- | --- | --- |
| `PolicyManagerProofs!TypeCorrect` | `[]TypeOK` | - |
| `InvariantHolds` | `[]IInv` | `ItemFaults = FALSE` |
| `UniqueNumbers` | `[]VersionNumbersUnique` | `ItemFaults = FALSE` |
| `NoDanglingPointer` | `[]CurrentVersionStored` | `ItemFaults = FALSE` |
| `AnswerInvariantHolds` | `[](ShapeInv /\ AnswerInv)` | `IdVersions = {0}` |
| `TrueAnswers` | `[]AnswersStayTrue` | `IdVersions = {0}` |
| `ImmutableVersions` | `VersionsWriteOnce` | `IdVersions = {0}` |
| `InternalExplained` | `InternalOnlyBesideBulk` | `CallFaults = ItemFaults = FALSE` |
| `ManagerImplementsRegistry` | `ImplementsRegistry` | `OneAtATime`, `IdVersions = {0}`, `ItemFaults = FALSE` |
| `ListingImplementsManager` | every behaviour of `PolicyListing` is one of `PolicyManager` | - |
| `ListingTypeCorrect` (`PolicyListing`) | `[]ListingTypeOK` | `IdVersions = {0}` |
| `ListingFindsVersions` | `[]MissingOnlyBesideBulk` | `IdVersions = {0}`, `ItemFaults = FALSE` |
| `ListsAreTrue` | `[]ListsWhatWasTold` | `OneAtATime`, `IdVersions = {0}`, `ItemFaults = FALSE` |
| `PolicyGroupProofs!TypeCorrect` | `[]TypeOK` | - |
| `UniqueCreate` | `[]OneCreateWins` | `CreateOverwrites = FALSE` |
| `GroupsImplementRegistry` | `ImplementsRegistry` | - |
| `PolicyAssignmentProofs!TypeCorrect` | `[]TypeOK` | - |
| `PathsNamed` | `[]AssignmentNamesItsPath` | - |
| `Resolves` | `[]AssignmentsResolve` | - |
| `CheckedWhileLive` | `AssignedWhileLive` | - |
| `DeletesSearchable` | `DeletesWhatIsSearchable` | - |
| `ResourceProofs!TypeCorrect` | `[]TypeOK` | - |
| `BatchStored` | `[]AcknowledgedBatchStored` | - |
| `ParentsBeforeVersions` | `ParentsFirst` | - |
| `NamesSurvive` | `NamesSurviveLaterBatches` | - |
| `EvaluationProofs!TypeCorrect` | `[]TypeOK` | - |
| `StoredVerdicts` | `[]VerdictOfItsVersion` | - |
| `PassedThroughout` | `[]PassMeansAllPass` | - |
| `AnsweredIsStored` | `[]AcknowledgedEvaluationStored` | - |
| `PanicsOnlyOnRestart` | `[]OnlyRestartsPanic` | - |
| `ListingImplementsEvaluation` | every behaviour of `EvaluationListing` is one of `Evaluation` | - |
| `ListingTypeCorrect` (`EvaluationListing`) | `[]ListingTypeOK` | - |
| `AnsweredFound` | `[]AnsweredEvaluationsFound` | - |
| `ListedAgree` | `[]ListedVerdictsAgree` | - |
| `CollectorProofs!TypeCorrect` | `[]TypeOK` | - |
| `Registered` | `[]RegisteredNotesExist`, with and without a client that walks | - |
| `OnlyNewNotes` | `[]NotRecreated`, with and without a client that walks | - |
| `WalksLoseNothing` | `[]PagesLoseNothing` | - |
| `ServerLifecycleProofs!TypeCorrect` | `[]TypeOK` | - |
| `PreparedToServe` | `[]ServesPrepared` | - |
| `OrderlyStop` | `StopLosesNothing` | - |
| `RequestPathProofs!TypeCorrect` | `[]TypeOK` | - |
| `AllPanicsAnswered` | `[]PanicsAnswered` | - |
| `OnlyVerifiedCallersDoWrite` | `OnlyVerifiedCallersWrite` | - |
| `TheRolesMatchTheMethods` | `[]RolesMatchMethods` | - |
| `ThePathDecides` | `PathDecides` | - |
| `KindsAreKept` | `[]KindsKept` | - |
| `RefusalsChangeNothing` | `RefusedChangesNothing` | - |
| `ListingsAreAnswered` | `ListingsAnswered` | - |
| `ReadsWhatIsNamed` | `[]ReadsTheVersionNamed` | - |
| `ValidationIsExact` | `[]ValidationExact` | - |

Each holds for every value of the constants that meets the assumptions its module declares,
so for any number of handlers, replicas, policies, batches and versions, and with the faults
the constants allow. The assumptions in the last column are added, and needed:

- `ItemFaults = FALSE`: if the version item of a bulk fails alone the pointer dangles, and a
  number that was taken is not stored.
- `IdVersions = {0}`: an update of the id `p.1` writes a policy over version 1. What holds of the
  documents whatever the ids is in `RequestPathProofs`, for calls one after another.
- `OneAtATime` (one handler): overlapping RPCs write back old copies of a policy, which moves the
  pointer back, undeletes, and so is no step of an atomic registry.
- `CallFaults = FALSE`: a call that fails is answered Internal whether or not anybody's bulk is in
  flight, as when the answer of the counter is lost.
- `CreateOverwrites = FALSE`: if esutil's `Create` indexed over an existing id, two creates of one
  name would both be answered OK.

Of the assumptions that modules declare, those of `RequestPath` say more than the type of a constant.
`ChangesAssumption`: there are fewer changes of the index than a `uint32` has values, since with more the
number of a version would wrap; this bounds the calls that write and no others. `IdsAssumption`: ids are
not the empty sequence (an empty string is one empty piece), and those in the paths of requests are among
the ids of calls. `SourcesAssumption`: an expression has two terms, as assignments and unifications have;
others decide nothing.

### How the proofs go

None of these properties is inductive. In each module the strengthening is first
about the *shape* of a handler or replica: what its program counter says of its own variables
(`HandlerShape`, `ReplicaShape`, `CallShape`). A step of one handler then leaves the shape of the
others alone except where it writes what they have read, and that is where the arguments are:

- *Policy manager.* `NumberingInv`: while a policy is being created its counter has not moved
  and no update is past its reads (`CreationPrivate`); stored numbers and numbers handed out are at
  most the counter, and only a policy that has a version is updated (`CounterBounds`). Together
  they make the next number new. `PointerInv`: not only the stored pointer but the pointer of
  every *copy* a handler may still write back names a version that is stored or about to be;
  without the copies it is not inductive, since deletes and metadata updates write a copy
  read long ago. `AnswerInv`: what an update is about to answer is stored already, unless an item
  of its bulk failed. `IInv` is `ShapeInv /\ NumberingInv /\ PointerInv`; one lemma per part
  shows that a step keeps it, one case per action.
- *Policy RPCs one at a time.* A lone handler's copy of a policy is the document but for its own
  edits (`CopyIsDocument`), so what it writes back changes nothing else. In `PublishedVersions` a bulk counts
  as whole from its first item on, which makes that item the atomic step of the registry
  and the others stutters. `SoloInv` ties both to the program counter.
- *Internal answers.* Without faults no item of a bulk fails (`BulksWhole`), since numbers are new. A handler
  that misses the version its copy points to then has, by `PointerInv`, another handler beside it whose
  bulk will store it (`InternalStep`).
- *Listings.* A copy of a policy in the search, or found by a listing, points to a version that has
  *landed*: it is stored, or in the bulk of a handler that is applying it. The refresh copies
  documents, for which `PointerInv` says this; what has landed stays so (`LandedStays`).
  For one handler `ToldInv` says that what was told holds of the documents, and that search and documents are
  equal once nothing waits for a refresh.
- *Groups.* A handler that is about to create a group, and one whose create was answered, exclude
  each other for one name: the document that the first made refuses the second. The refinement maps
  each action to one action of the registry or to a stutter.
- *Assignments.* Versions and groups are never removed, only marked, so what a handler has checked
  stays resolvable although it need not stay live; the history variable `seen` is tied to
  the program counter.
- *Resources.* What a handler has still to write, joined with what is stored, covers its batch;
  documents are never removed. `known` only holds stored versions, and a version without names is
  left out of the bulk if it was stored when the bulk was made, which is after the RPC began.
- *Evaluation.* `OpaShape` (what OPA holds under the id of a version is that version's source, since sources
  are written once) carries `VerdictOfItsVersion`; that what is loaded stays until a restart
  (`restarted`) carries `OnlyRestartsPanic`; `EvaluationShape` and `ResultShape` say how much of the
  bulk is stored and that it is what the handler computed. `SearchShape`: documents only grow while an RPC lasts
  (`DocumentsGrow`), so what a search saw of them, at whatever moment, is a part of what is stored, and all of it
  once an answer has waited for the refresh.
- *Collectors.* The notes to create together with the notes in Grafeas cover the request;
  notes are never removed.
- *Walks.* What is owed comes after the spot in the list (`OwedBeyond`), unless the builds are more than a page. A page takes what
  ranks between its spot and its end (`Rank`, the place of an occurrence among those found), so what
  is owed and found is on the page or beyond its end. An occurrence that is created can only move others back,
  and a filter made anew has every uri that is related, if the builds fit in a page. That rests
  on three lemmas about `Rank`: it only grows with what is found (`RankMonotone`), no two of those found share it
  (`RankInjective`), and what is beyond a spot is on its page or beyond the next (`PageOfSpot`).
- *Request path.* `CallInv` is what each stage says of the interceptors before it: with authentication on, who is past
  `authenticate` has a role, and is but `Anonymous` if not verified; who is past `authorize` has the permission of the
  method. `IndexInv` is about the documents, for any ids: the counter beside a version has counted at
  least to its number (`Counted`), whatever was written over it, so the next number of an update is
  new; a plain policy points to a version (`CurrentExists`); and the kinds, with `misused` (`KindsGood`).
  `AnswerInv` ties an answer to its message. That routes and permissions agree is shown over the tables of `Auth`
  and `Gateway`, row against row. `ValidationIsExact` takes the last violations rule, and induction
  up to it along the loop.
- *Start and stop.* A replica past a step of the start has its effect in Grafeas and
  Elasticsearch, which no replica undoes; a call at a replica means that the replica serves.

`IInv`, the `AnswerInv` of `PolicyManagerProofs`, `CallInv`, `IndexInv` and every `TypeOK` were checked by TLC on the instances
of the runs before they were proved.

### Only model-checked

`EveryReplicaServes`, `SignalEnds` and `NoCallHangs`, the liveness properties of `ServerLifecycle`: liveness
under fairness, and ENABLED, are out of the prover's reach. Every other property of a run that must pass is a theorem.

TLC's instances add to the theorems that every action fires in them, so that none holds because a step never
happens. What Elasticsearch, Grafeas and OPA do is assumed, and named where it is.

## What the code does that its documents do not say

Beside the findings, met while modelling:

*Policies.*
- UpdatePolicy accepts a `CurrentVersion` and ignores it (`proto/v1alpha1/rode_policy.proto:132`
  says it can be updated).
- CreatePolicyGroup and CreatePolicy store the `Deleted` flag of the client, which the
  protocol calls output only.
- An update of a group that overlaps its delete undeletes it, as with policies.
- Overlapping updates of one policy can move its pointer back: each writes the copy it read.
- If the version item of a bulk fails alone (`pkg/policy/manager.go:473`), the policy points to a
  version that is not there, and every Get and Update of it answers Internal.
- UpdatePolicy and DeletePolicy use the id of the request as it came (`pkg/policy/manager.go:429`, `:220`):
  with `p.1` they write a policy over a version. From then on ListPolicies answers Internal for
  every caller, since the stray policy points to a version `p.1.n` that does not exist
  (`pkg/policy/manager.go:296-316`). Ids like `p.01` or `p.+1` are read as version 1
  and written as documents of their own.
- DeletePolicy takes `p.counter` for a policy.
- `p.4294967297` names version 1, and `p.0` the current version (`pkg/policy/manager.go:776`).
- The list of compile errors starts with as many empty strings as there are errors
  (`pkg/policy/manager.go:522`).
- Validation looks at `result := {...}` and `result = {...}` with an object on the right; a
  rule that writes `{...} = result`, or makes the result otherwise, is not looked at.

*Assignments, resources, evaluations.*
- With `elasticsearch-refresh` `false`, a delete of an assignment right after its create
  is answered OK and removes nothing: it looks with a Get and deletes by query.
  `DeletesWhatIsSearchable` says what is left of the promise.
- An update of an assignment that overlaps its delete writes it back (`pkg/policy/assignment_manager.go:136`):
  esutil's `Update` indexes the document, there or not.
- A uri that several patterns match is parsed anew for each occurrence and each version, in the order of a map
  (`pkg/resource/uri.go:82`): one batch can create two resources for it, and give its version a parent that nobody stored.
- A build without a provenance panics: in a batch (`pkg/resource/manager.go:464`) after its occurrences and
  resources are written, which the client is told as Internal, and in a listing of related
  occurrences (`pkg/grafeas/extensions.go:62`), which is answered Internal as long as that build is on its page of builds.
  `protodeps/grafeas/proto/v1beta1/build.proto:81` calls the provenance required; whether Grafeas refuses
  a build without one is not decided in this repository.
- A batch of occurrences without names that overlaps the one that first stored a
  version's names can remove them.
- The MultiGet of versions (`pkg/resource/manager.go:186`) has no routing, while versions are indexed with that
  of their resource: with several shards an existing version would not be found.
- The assignments of a group are listed without a page size (`pkg/evaluation/manager.go:123`): those
  beyond the default page are not evaluated.
- GetResourceEvaluation with the id of a policy evaluation finds that document and answers it as a
  resource evaluation (`pkg/evaluation/manager.go:229`): both kinds share the index, and the search is by id.
- OPA merges sources of one package. Two versions of a policy normally share one, so
  once both are loaded a query about either may be answered by both together.
- The related occurrences beyond a page are only warned about (`pkg/grafeas/extensions.go`).

*Collectors.*
- RegisterCollector is "idempotent" (`proto/v1alpha1/rode.proto:167`) one call after another. Two
  replicas of a collector that start together can both list nothing, and one of them is
  answered Internal. For a note that exists its answer repeats what the request said of
  it, with the stored name.

*Server.*
- Replicas that start for the first time together race for the project: all but one
  end with `Fatal` (`server/server.go:151`) and have to be started again.
- A signal between `Ready` and `signal.Notify` (`main.go:181-184`) ends the process without grace.
- With basic auth and OIDC both configured OIDC is never tried (`auth/auth.go:58-63`).
- A basic auth password with a colon is accepted by the configuration and by no login
  (`auth/auth.go:81`).

## Not modelled

- Generated code. The protobuf messages, their registration, the gRPC stubs, fakes and mocks,
  and the vendored Grafeas definitions are some 27,000 of the 32,600 lines of Go and have no behaviour of
  their own beyond what the handlers use of them; of the gateway the routes and the messages
  they make are in `Gateway`. The hand-written program has about 5,000 lines.
- Filters that clients write for occurrences (ListOccurrences): they are passed on as they came.
- The client library (`common`): it makes a connection and its credentials.
- Text: names, descriptions, messages, timestamps, violations and explanations; the parsing of Rego and of
  uris character by character, whose verdicts are constants.
- Of a Get of an evaluation, the id of a policy evaluation (above).
- Filters and pages of the searches, which narrow what a listing shows; the bodies and query
  parameters of HTTP requests beyond the id.
- What the gateway's mux library does beside the routes: a POST with a form as its body, or with the header
  `X-HTTP-Method-Override`, can reach handlers of other verbs, and a pattern without a verb also takes ids with a
  colon. `Gateway` has the patterns and the decoding that the generated code gives that library.
- Routing and shards: the indices are taken to have one shard, Elasticsearch's default.
- A server whose listener breaks: nobody waits for the group of servers (`main.go:169`), so the process
  would stay and serve nothing. What makes `Serve` return is below this code.

## Plan

Done: the policy manager, its listings, its ids and its validation; groups; assignments;
resources; evaluation and its listings; collectors; the listing of related occurrences; start and stop; authentication, authorization and gateway;
the theorems above, which are all the safety properties of the runs.

Left, in this order:

1. An abstract specification of what an evaluation promises, a verdict computed from one state of the
   assignments and policies, and which steps of `Evaluation` refine it; the evaluation reads these one by one,
   so the question is what the abstract one may see.
2. `PolicyGroups` under a delete that overlaps an update, with the group as `EvaluateResource` reads it.
3. The messages the gateway makes for the methods without an id in `Gateway`.

## Running

    tlc -config PolicyManager_concurrent.cfg MCPolicyManager.tla
    tlapm PolicyManagerProofs.tla

`runs` in `PROJECT.json` lists the module, configuration and expected result of each run. `server_lifecycle`,
`collectors_concurrent` and `policy_faults` take some minutes, the others less; `EvaluationProofs`, `PolicyManagerProofs` and
`RequestPathProofs` are the long proofs.
