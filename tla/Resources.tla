----------------------------- MODULE Resources -----------------------------
(***************************************************************************)
(* BatchCreateOccurrences (server/server.go) and the resource manager      *)
(* (pkg/resource).  A batch of occurrences goes to Grafeas, then the       *)
(* resources its uris name are written, then their versions, each from a   *)
(* MultiGet and a bulk request.  Nothing undoes the first steps when a     *)
(* later one fails, and batches of several clients interleave.             *)
(*                                                                         *)
(* Left out: creation times, resource types, the search RPCs, and          *)
(* occurrences with no resource.  A MultiGet is one step: no document of   *)
(* the index is ever removed.  The items of a bulk come in any order.      *)
(***************************************************************************)
EXTENDS FiniteSetsExt, Sequences

CONSTANTS
  Resource,
  Uri,
  ResourcesOf,  \* ResourcesOf[u]: the resources parseResourceUri can find in u
  NameList,     \* the non-empty lists of names a built artifact can have
  NoNames,
  Batches,      \* the batches clients send
  Handler,      \* the RPCs that can be in flight at once
  Missing,
  CallFaults,   \* may a call fail, before or after its effect?
  ItemFaults    \* may one item of a bulk fail alone?

\* No resource is found in a uri that no pattern matches, several in one that
\* several match: the patterns are tried in the order of a map iteration.
ASSUME UriAssumption ==
  ResourcesOf \in [Uri -> SUBSET Resource] /\ \A u \in Uri : IsFiniteSet(ResourcesOf[u])
ASSUME NameAssumption == NoNames \notin NameList
ASSUME SwitchAssumption == {CallFaults, ItemFaults} \subseteq BOOLEAN

VARIABLES
  occurrences,  \* the uris of the resources with an occurrence in Grafeas
  resourceDoc,  \* the ids of the resource documents
  versionDoc,   \* versionDoc[u]: the resource version document with id u
  pc,           \* pc[h]: the call handler h is about to make
  batch,        \* batch[h]: the occurrences h serves
  items,        \* items[h]: what is left of h's bulk request
  bulkFailed,   \* bulkFailed[h]: has an item of it failed?
  reply,        \* reply[h]: the status of the answer
  known         \* history: the versions that were stored when h's RPC began

store == <<occurrences, resourceDoc, versionDoc>>
vars == <<store, pc, batch, items, bulkFailed, reply, known>>

\* A build occurrence has artifacts, each with its names.  provenance is FALSE for a build
\* that came without one, and so without artifacts.
Artifacts == UNION {[built -> NameList \cup {NoNames}] : built \in SUBSET Uri}
Occurrence == [resource : Uri, artifacts : Artifacts, provenance : BOOLEAN]
ASSUME BatchAssumption == Batches \subseteq Seq(Occurrence) \ {<<>>}

ASSUME MissingAssumption == Missing \notin {"OK", "Internal"}

VersionDocument == [names : NameList \cup {NoNames}, parent : Resource]
ASSUME MissingDocumentAssumption == Missing \notin VersionDocument
VersionItem == [uri : Uri, document : VersionDocument]

Init ==
  /\ occurrences = {} /\ resourceDoc = {}
  /\ versionDoc = [u \in Uri |-> Missing]
  /\ pc = [h \in Handler |-> "idle"]
  /\ batch = [h \in Handler |-> <<>>]
  /\ items = [h \in Handler |-> {}]
  /\ bulkFailed = [h \in Handler |-> FALSE]
  /\ reply = [h \in Handler |-> Missing]
  /\ known = [h \in Handler |-> {}]

----------------------------------------------------------------------------
Goto(h, from, to) == pc[h] = from /\ pc' = [pc EXCEPT ![h] = to]

Answer(h, from, code) ==
  /\ Goto(h, from, "done")
  /\ reply' = [reply EXCEPT ![h] = code]

\* What the caller of a call that took effect may be told.
Outcome == IF CallFaults THEN {"OK", "Internal"} ELSE {"OK"}

\* The answer of a call that took effect: go on, or fail.
Proceed(h, from, to) ==
  \/ Goto(h, from, to) /\ UNCHANGED reply
  \/ CallFaults /\ Answer(h, from, "Internal")

StoredVersions == {u \in Uri : versionDoc[u] # Missing}

BatchCreateOccurrences(h) ==
  /\ Goto(h, "idle", "grafeas")
  /\ \E b \in Batches : batch' = [batch EXCEPT ![h] = b]
  /\ known' = [known EXCEPT ![h] = StoredVersions]
  /\ UNCHANGED <<store, items, bulkFailed, reply>>

Occurrences(h) == {batch[h][i] : i \in DOMAIN batch[h]}
ResourceUris(h) == {o.resource : o \in Occurrences(h)}
ArtifactUris(h) == UNION {DOMAIN o.artifacts : o \in Occurrences(h)}

CreateOccurrences(h) ==
  /\ Proceed(h, "grafeas", "getResources")
  /\ occurrences' = occurrences \cup ResourceUris(h)
  /\ UNCHANGED <<resourceDoc, versionDoc, batch, items, bulkFailed, known>>

----------------------------------------------------------------------------
\* BatchCreateResources.

\* What the calls of parseResourceUri may find.  parsed[c] is the uri of call c: a uri that
\* is parsed twice may name two resources.
Parses(parsed) ==
  {f \in [DOMAIN parsed -> Resource] : \A c \in DOMAIN parsed : f[c] \in ResourcesOf[parsed[c]]}

CannotParse(h, label, uris) ==
  /\ \E u \in uris : ResourcesOf[u] = {}
  /\ Answer(h, label, "Internal")
  /\ UNCHANGED <<store, batch, items, bulkFailed, known>>

\* With nothing to write there is no bulk request.
Send(h, label, sent, bulkLabel, noBulkLabel) ==
  /\ Goto(h, label, IF sent = {} THEN noBulkLabel ELSE bulkLabel)
  /\ items' = [items EXCEPT ![h] = sent]
  /\ UNCHANGED <<store, batch, bulkFailed, reply, known>>

ResourcesUnparsed(h) == CannotParse(h, "getResources", ResourceUris(h))

\* Every occurrence has its uri parsed.
GetResources(h) == \E parses \in Parses([i \in DOMAIN batch[h] |-> batch[h][i].resource]) :
  Send(h, "getResources", Range(parses) \ resourceDoc, "resourceBulk", "getVersions")

WriteResource(h) ==
  /\ pc[h] = "resourceBulk"
  /\ \E r \in items[h] : /\ resourceDoc' = resourceDoc \cup {r}
                         /\ items' = [items EXCEPT ![h] = @ \ {r}]
  /\ UNCHANGED <<occurrences, versionDoc, pc, batch, bulkFailed, reply, known>>

----------------------------------------------------------------------------
\* BatchCreateResourceVersions.  In a batch, the last occurrence that gives an
\* artifact names gives the names.

VersionUris(h) == ResourceUris(h) \cup ArtifactUris(h)

NamesInBatch(h, u) ==
  LET naming == {i \in DOMAIN batch[h] :
                   u \in DOMAIN batch[h][i].artifacts /\ batch[h][i].artifacts[u] # NoNames}
  IN  IF naming = {} THEN NoNames ELSE batch[h][Max(naming)].artifacts[u]

\* Mutant: a version that exists is written again, names or not.
AllVersions(h) == VersionUris(h)

\* What the MultiGet leaves to write: a new version, or one with names to update.
VersionsToWrite(h) ==
  {u \in VersionUris(h) : versionDoc[u] = Missing \/ NamesInBatch(h, u) # NoNames}

\* The artifacts of a build without a provenance: a nil pointer, when the occurrences and
\* their resources are written.
ArtifactsReadable(h) == \A o \in Occurrences(h) : o.provenance

VersionsPanic(h) ==
  /\ ~ArtifactsReadable(h)
  /\ Answer(h, "getVersions", "Internal")
  /\ UNCHANGED <<store, batch, items, bulkFailed, known>>

VersionsUnparsed(h) == ArtifactsReadable(h) /\ CannotParse(h, "getVersions", VersionUris(h))

\* Every version has its id parsed once, however many occurrences give it.
GetVersions(h) == ArtifactsReadable(h) /\ \E parents \in Parses([u \in VersionUris(h) |-> u]) :
  Send(h, "getVersions",
       {[uri |-> u, document |-> [names |-> NamesInBatch(h, u), parent |-> parents[u]]] :
          u \in VersionsToWrite(h)},
       "versionBulk", "answer")

\* BULK_INDEX replaces the document, the names too.
WriteVersion(h) ==
  /\ pc[h] = "versionBulk"
  /\ \E item \in items[h] :
       /\ versionDoc' = [versionDoc EXCEPT ![item.uri] = item.document]
       /\ items' = [items EXCEPT ![h] = @ \ {item}]
  /\ UNCHANGED <<occurrences, resourceDoc, pc, batch, bulkFailed, reply, known>>

----------------------------------------------------------------------------
ItemFails(h) ==
  /\ ItemFaults
  /\ \E item \in items[h] : items' = [items EXCEPT ![h] = @ \ {item}]
  /\ bulkFailed' = [bulkFailed EXCEPT ![h] = TRUE]
  /\ UNCHANGED <<store, pc, batch, reply, known>>

AfterBulk(h) == IF pc[h] = "resourceBulk" THEN "getVersions" ELSE "answer"

\* Mutant: the errors of the items are not looked at.
UncheckedReply(h) ==
  /\ pc[h] \in {"resourceBulk", "versionBulk"} /\ items[h] = {}
  /\ Proceed(h, pc[h], AfterBulk(h))
  /\ UNCHANGED <<store, batch, items, bulkFailed, known>>

\* An item that failed fails the RPC, after all items.
BulkReply(h) ==
  /\ pc[h] \in {"resourceBulk", "versionBulk"} /\ items[h] = {}
  /\ IF bulkFailed[h] THEN Answer(h, pc[h], "Internal")
     ELSE Proceed(h, pc[h], AfterBulk(h))
  /\ UNCHANGED <<store, batch, items, bulkFailed, known>>

AnswerOK(h) ==
  /\ Answer(h, "answer", "OK")
  /\ UNCHANGED <<store, batch, items, bulkFailed, known>>

\* A call that fails before it has any effect.  A bulk has effects from its first
\* item: what is left of it stays unwritten.
CallFails(h) ==
  /\ CallFaults
  /\ \E label \in {"grafeas", "getResources", "resourceBulk", "getVersions", "versionBulk"} :
       Answer(h, label, "Internal")
  /\ items' = [items EXCEPT ![h] = {}]
  /\ UNCHANGED <<store, batch, bulkFailed, known>>

\* The answer leaves, or the process dies or the RPC is cancelled before.  A bulk
\* that was sent is still applied to its end by Elasticsearch.
Finish(h) ==
  /\ pc[h] # "idle" /\ items[h] = {}
  /\ pc' = [pc EXCEPT ![h] = "idle"]
  /\ batch' = [batch EXCEPT ![h] = <<>>]
  /\ bulkFailed' = [bulkFailed EXCEPT ![h] = FALSE]
  /\ reply' = [reply EXCEPT ![h] = Missing]
  /\ known' = [known EXCEPT ![h] = {}]
  /\ UNCHANGED <<store, items>>

Serve(h) ==
  \/ BatchCreateOccurrences(h) \/ CreateOccurrences(h)
  \/ ResourcesUnparsed(h) \/ GetResources(h) \/ WriteResource(h)
  \/ VersionsPanic(h) \/ VersionsUnparsed(h) \/ GetVersions(h) \/ WriteVersion(h)
  \/ ItemFails(h) \/ BulkReply(h) \/ AnswerOK(h)
  \/ CallFails(h) \/ Finish(h)

Next == \E h \in Handler : Serve(h)

Spec == Init /\ [][Next]_vars

----------------------------------------------------------------------------
\* Every variable has its type.
TypeOK ==
  /\ occurrences \subseteq Uri
  /\ resourceDoc \subseteq Resource
  /\ versionDoc \in [Uri -> VersionDocument \cup {Missing}]
  /\ pc \in [Handler -> {"idle", "grafeas", "getResources", "resourceBulk", "getVersions",
                         "versionBulk", "answer", "done"}]
  /\ batch \in [Handler -> Batches \cup {<<>>}]
  /\ \A h \in Handler : items[h] \subseteq
       (IF pc[h] = "resourceBulk" THEN Resource
        ELSE IF pc[h] = "versionBulk" THEN VersionItem ELSE {})
  /\ bulkFailed \in [Handler -> BOOLEAN]
  /\ reply \in [Handler -> {"OK", "Internal", Missing}]
  /\ known \in [Handler -> SUBSET Uri]

\* A batch answered OK is stored whole: the occurrences, a resource for each of
\* their uris, and a version for each uri and each built artifact.
AcknowledgedBatchStored ==
  \A h \in Handler : reply[h] = "OK" =>
    /\ ResourceUris(h) \subseteq occurrences
    /\ \A u \in ResourceUris(h) : ResourcesOf[u] \cap resourceDoc # {}
    /\ VersionUris(h) \subseteq StoredVersions

Writes(h, u) == pc[h] = "versionBulk" /\ items'[h] # items[h] /\ versionDoc'[u] # versionDoc[u]

\* A version of a resource with an occurrence has that resource as its parent, and
\* the resource is there first: the has_parent search of ListResourceVersions finds
\* it.  Only the versions of built artifacts may have no resource, and those of a
\* uri that several patterns match a parent nobody stored.
ParentsFirst ==
  [][\A h \in Handler, u \in Uri :
       Writes(h, u) /\ u \in ResourceUris(h) /\ Cardinality(ResourcesOf[u]) = 1 =>
         versionDoc'[u].parent \in ResourcesOf[u] \cap resourceDoc]_vars

\* The names of a version are only lost to a batch that overlapped the one that
\* created it, never to one that began when the version was there.
NamesSurviveLaterBatches ==
  [][\A h \in Handler, u \in Uri :
       Writes(h, u) /\ u \in known[h] /\ versionDoc[u].names # NoNames => versionDoc'[u].names # NoNames]_vars
=============================================================================
