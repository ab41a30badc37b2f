--------------------------- MODULE ResourceProofs ---------------------------
(***************************************************************************)
(* Proofs about Resources, for any batches, uris and number of RPCs in     *)
(* flight, whatever calls and items fail.                                  *)
(***************************************************************************)
EXTENDS Resources, FiniteSetTheorems, TLAPS

Serving == {"grafeas", "getResources", "resourceBulk", "getVersions", "versionBulk",
            "answer", "done"}
AfterGrafeas == {"getResources", "resourceBulk", "getVersions", "versionBulk", "answer"}

ResourcesStored(h, pending) ==
  \A u \in ResourceUris(h) : ResourcesOf[u] \cap (resourceDoc \cup pending) # {}

\* An item of the bulk of versions is one of the batch, under a resource of its uri; one
\* of a version there was when the RPC began has names to give.
ItemShape(h, item) ==
  /\ item \in VersionItem /\ item.uri \in VersionUris(h)
  /\ item.document.parent \in ResourcesOf[item.uri]
  /\ item.uri \in known[h] => item.document.names # NoNames

\* What is stored, and what the items that are left will store, if none has failed.
HandlerShape(h) ==
  /\ reply[h] # Missing => pc[h] = "done"
  /\ pc[h] = "idle" => bulkFailed[h] = FALSE
  /\ pc[h] # "idle" => batch[h] \in Batches
  /\ known[h] \subseteq StoredVersions
  /\ pc[h] \in AfterGrafeas => ResourceUris(h) \subseteq occurrences
  /\ pc[h] = "resourceBulk" =>
       items[h] \subseteq Resource /\ (bulkFailed[h] \/ ResourcesStored(h, items[h]))
  /\ pc[h] \in {"getVersions", "versionBulk", "answer"} => ResourcesStored(h, {})
  /\ pc[h] = "versionBulk" =>
       /\ \A item \in items[h] : ItemShape(h, item)
       /\ bulkFailed[h] \/
            VersionUris(h) \subseteq StoredVersions \cup {item.uri : item \in items[h]}
  /\ pc[h] = "answer" => VersionUris(h) \subseteq StoredVersions
  /\ pc[h] \notin {"resourceBulk", "versionBulk"} => items[h] = {}
  /\ reply[h] = "OK" =>
       /\ ResourceUris(h) \subseteq occurrences /\ ResourcesStored(h, {})
       /\ VersionUris(h) \subseteq StoredVersions

ShapeInv ==
  /\ TypeOK
  /\ items \in [Handler -> SUBSET (Resource \cup VersionItem)]
  /\ \A h \in Handler : HandlerShape(h)

----------------------------------------------------------------------------
\* A finite set of numbers has a greatest one.
LEMMA MaxExists ==
  ASSUME NEW S \in SUBSET Nat, IsFiniteSet(S), S # {}
  PROVE  Max(S) \in S
<1> DEFINE Above(x) == {y \in S : y > x}
           Tails == {Above(x) : x \in S}
<1>1. Tails \subseteq FiniteSubsetsOf(S) /\ Tails # {}
  <2>1. \A x \in S : Above(x) \subseteq S /\ IsFiniteSet(Above(x))
    BY FS_Subset
  <2>2. PICK x \in S : TRUE
    OBVIOUS
  <2>3. Above(x) \in Tails
    OBVIOUS
  <2>4. Tails \subseteq FiniteSubsetsOf(S)
    <3> HIDE DEF Above
    <3> QED
      BY <2>1 DEF FiniteSubsetsOf
  <2> QED
    BY <2>3, <2>4
<1>2. PICK T \in Tails : \A U \in Tails : <<U, T>> \notin StrictSubsetOrdering(S)
  BY <1>1, FS_StrictSubsetOrderingWellFounded, WFMin
<1>3. PICK x \in S : T = Above(x)
  BY <1>2
<1>4. ASSUME NEW y \in S, y > x PROVE FALSE
  <2>1. Above(y) \subseteq Above(x) /\ y \in Above(x) /\ y \notin Above(y)
    <3>1. ASSUME NEW z \in Above(y) PROVE z \in Above(x)
      <4>1. z \in S /\ z \in Nat /\ y \in Nat /\ x \in Nat /\ z > y
        BY <3>1
      <4> QED
        BY <1>4, <4>1
    <3>2. y \in Above(x) /\ y \notin Above(y)
      <4>1. y \in Nat
        OBVIOUS
      <4> QED
        BY <1>4, <4>1
    <3> QED
      BY <3>1, <3>2
  <2>2. <<Above(y), Above(x)>> \in StrictSubsetOrdering(S)
    <3>1. <<Above(y), Above(x)>> \in (SUBSET S) \X (SUBSET S) /\ Above(y) # Above(x)
      BY <2>1
    <3> HIDE DEF Above
    <3> QED
      BY <2>1, <3>1 DEF StrictSubsetOrdering
  <2> QED
    BY <1>2, <1>3, <2>2
<1>5. x \in S /\ \A y \in S : x >= y
  BY <1>4
<1> QED
  BY <1>5 DEF Max

\* What a batch names are uris, and it names some.
LEMMA BatchUris ==
  ASSUME NEW h \in Handler, batch[h] \in Batches
  PROVE  /\ VersionUris(h) \subseteq Uri /\ ResourceUris(h) \subseteq VersionUris(h)
         /\ \A u \in Uri : NamesInBatch(h, u) \in NameList \cup {NoNames}
<1>1. batch[h] \in Seq(Occurrence)
  BY BatchAssumption
<1>2. \A o \in Occurrences(h) : o \in Occurrence
  BY <1>1 DEF Occurrences
<1>3. \A o \in Occurrence : o.resource \in Uri /\ o.artifacts \in Artifacts
  BY DEF Occurrence
<1>4. \A f \in Artifacts :
        DOMAIN f \subseteq Uri /\ \A u \in DOMAIN f : f[u] \in NameList \cup {NoNames}
  BY DEF Artifacts
<1>5. VersionUris(h) \subseteq Uri /\ ResourceUris(h) \subseteq VersionUris(h)
  BY <1>2, <1>3, <1>4 DEF VersionUris, ResourceUris, ArtifactUris
<1>6. ASSUME NEW u \in Uri PROVE NamesInBatch(h, u) \in NameList \cup {NoNames}
  <2> DEFINE naming == {i \in DOMAIN batch[h] :
                 u \in DOMAIN batch[h][i].artifacts /\ batch[h][i].artifacts[u] # NoNames}
  <2>1. CASE naming = {}
    BY <2>1 DEF NamesInBatch
  <2>2. CASE naming # {}
    <3>1. naming \subseteq 1..Len(batch[h]) /\ Len(batch[h]) \in Nat
      BY <1>1
    <3>2. naming \in SUBSET Nat /\ IsFiniteSet(naming)
      <4>1. IsFiniteSet(1..Len(batch[h]))
        BY <3>1, FS_Interval
      <4> HIDE DEF naming
      <4>2. naming \in SUBSET Nat
        BY <3>1
      <4>3. IsFiniteSet(naming)
        BY <3>1, <4>1, FS_Subset
      <4> QED
        BY <4>2, <4>3
    <3>3. Max(naming) \in naming
      BY <2>2, <3>2, MaxExists
    <3>4. batch[h][Max(naming)] \in Occurrence /\ u \in DOMAIN batch[h][Max(naming)].artifacts
      <4>1. \A i \in naming : i \in 1..Len(batch[h]) /\ u \in DOMAIN batch[h][i].artifacts
        BY <3>1
      <4>2. \A i \in 1..Len(batch[h]) : batch[h][i] \in Occurrence
        BY <1>1
      <4> HIDE DEF naming
      <4> QED
        BY <3>3, <4>1, <4>2
    <3>5. batch[h][Max(naming)].artifacts[u] \in NameList \cup {NoNames}
      BY <1>3, <1>4, <3>4
    <3> QED
      BY <2>2, <3>5 DEF NamesInBatch
  <2> QED
    BY <2>1, <2>2
<1> QED
  BY <1>5, <1>6

\* Nothing is stored and nothing in flight.
LEMMA ShapeInit == Init => ShapeInv
  BY MissingAssumption
  DEF Init, ShapeInv, TypeOK, HandlerShape, AfterGrafeas

\* A step of another leaves an RPC what it relies on, since nothing is ever removed.
LEMMA OthersKeepShape ==
  ASSUME ShapeInv, NEW h \in Handler,
         pc'[h] = pc[h], batch'[h] = batch[h], items'[h] = items[h],
         bulkFailed'[h] = bulkFailed[h], reply'[h] = reply[h], known'[h] = known[h],
         occurrences \subseteq occurrences', resourceDoc \subseteq resourceDoc',
         StoredVersions \subseteq StoredVersions'
  PROVE  HandlerShape(h)'
<1>1. /\ ResourceUris(h)' = ResourceUris(h) /\ VersionUris(h)' = VersionUris(h)
      /\ \A item : ItemShape(h, item) => ItemShape(h, item)'
  BY DEF ResourceUris, VersionUris, ArtifactUris, Occurrences, ItemShape
<1>2. ResourcesStored(h, items[h]) => ResourcesStored(h, items[h])'
  BY <1>1 DEF ResourcesStored
<1>3. ResourcesStored(h, {}) => ResourcesStored(h, {})'
  BY <1>1 DEF ResourcesStored
<1> QED
  BY <1>1, <1>2, <1>3 DEF ShapeInv, HandlerShape

----------------------------------------------------------------------------
(***************************************************************************)
(* The step of a handler.                                                  *)
(***************************************************************************)

\* Only the handler moves, and nothing that is stored goes.
MovesOnly(h) ==
  /\ \A g \in Handler \ {h} :
       /\ pc'[g] = pc[g] /\ batch'[g] = batch[g] /\ items'[g] = items[g]
       /\ bulkFailed'[g] = bulkFailed[g] /\ reply'[g] = reply[g] /\ known'[g] = known[g]
  /\ occurrences \subseteq occurrences' /\ occurrences' \subseteq Uri
  /\ resourceDoc \subseteq resourceDoc' /\ resourceDoc' \subseteq Resource
  /\ StoredVersions \subseteq StoredVersions'
  /\ versionDoc' \in [Uri -> VersionDocument \cup {Missing}]
  /\ pc' \in [Handler -> {"idle"} \cup Serving]
  /\ batch' \in [Handler -> Batches \cup {<<>>}]
  /\ items' \in [Handler -> SUBSET (Resource \cup VersionItem)]
  /\ bulkFailed' \in [Handler -> BOOLEAN]
  /\ reply' \in [Handler -> {"OK", "Internal", Missing}]
  /\ known' \in [Handler -> SUBSET Uri]

LEMMA HandlerKeepsShape ==
  ASSUME ShapeInv, NEW h \in Handler, MovesOnly(h), HandlerShape(h)'
  PROVE  ShapeInv'
<1>1. \A g \in Handler : HandlerShape(g)'
  BY OthersKeepShape DEF MovesOnly
<1>2. \A g \in Handler : items'[g] \subseteq
        (IF pc'[g] = "resourceBulk" THEN Resource
         ELSE IF pc'[g] = "versionBulk" THEN VersionItem ELSE {})
  BY <1>1 DEF HandlerShape, ItemShape
<1> QED
  BY <1>1, <1>2 DEF ShapeInv, TypeOK, MovesOnly, Serving

\* An answer that is an error ends what the handler relies on, once its bulk is over.
LEMMA FailureKeepsShape ==
  ASSUME ShapeInv, NEW h \in Handler, NEW from \in Serving, Answer(h, from, "Internal"),
         items' \in [Handler -> SUBSET (Resource \cup VersionItem)], items'[h] = {},
         \A g \in Handler \ {h} : items'[g] = items[g],
         occurrences \subseteq occurrences', occurrences' \subseteq Uri,
         UNCHANGED <<resourceDoc, versionDoc, batch, bulkFailed, known>>
  PROVE  ShapeInv'
<1>1. MovesOnly(h)
  BY DEF ShapeInv, TypeOK, Answer, Goto, MovesOnly, Serving, StoredVersions
<1>2. /\ pc[h] # "idle" /\ pc'[h] = "done" /\ reply'[h] = "Internal" /\ batch'[h] = batch[h]
      /\ known'[h] = known[h] /\ StoredVersions' = StoredVersions
  BY DEF ShapeInv, TypeOK, Answer, Goto, Serving, StoredVersions
<1>3. HandlerShape(h)'
  BY <1>2 DEF ShapeInv, HandlerShape, AfterGrafeas
<1> QED
  BY <1>1, <1>3, HandlerKeepsShape

\* A call that fails leaves no item, and its effect on Grafeas at most.
LEMMA FailStep ==
  ASSUME ShapeInv, NEW h \in Handler,
         \/ ResourcesUnparsed(h) \/ VersionsPanic(h) \/ VersionsUnparsed(h) \/ CallFails(h)
  PROVE  ShapeInv'
<1>1. CASE CallFails(h)
  BY <1>1, FailureKeepsShape DEF ShapeInv, TypeOK, CallFails, store, Serving
<1>2. ASSUME NEW label \in {"getResources", "getVersions"}, Answer(h, label, "Internal"),
             UNCHANGED <<store, batch, items, bulkFailed, known>>
      PROVE  ShapeInv'
  <2>1. pc[h] = label /\ items[h] = {} /\ items' = items
    BY <1>2 DEF Answer, Goto, ShapeInv, HandlerShape
  <2> QED
    BY <1>2, <2>1, FailureKeepsShape DEF ShapeInv, TypeOK, store, Serving
<1> QED
  BY <1>1, <1>2 DEF ResourcesUnparsed, VersionsPanic, VersionsUnparsed, CannotParse

\* The first call, and Grafeas.
LEMMA BeginStep ==
  ASSUME ShapeInv, NEW h \in Handler, BatchCreateOccurrences(h) \/ CreateOccurrences(h)
  PROVE  ShapeInv'
<1>0. TypeOK /\ HandlerShape(h) /\ items \in [Handler -> SUBSET (Resource \cup VersionItem)]
  BY DEF ShapeInv
<1>1. CASE BatchCreateOccurrences(h)
  <2>1. MovesOnly(h)
    BY <1>0, <1>1
    DEF BatchCreateOccurrences, Goto, TypeOK, MovesOnly, Serving, StoredVersions, store
  <2>2. /\ pc[h] = "idle" /\ pc'[h] = "grafeas" /\ batch'[h] \in Batches
        /\ reply'[h] = reply[h] /\ items'[h] = items[h]
        /\ known'[h] = StoredVersions /\ StoredVersions' = StoredVersions
    BY <1>0, <1>1 DEF BatchCreateOccurrences, Goto, TypeOK, StoredVersions, store
  <2>3. HandlerShape(h)'
    BY <1>0, <2>2, MissingAssumption DEF HandlerShape, TypeOK, AfterGrafeas
  <2> QED
    BY <2>1, <2>3, HandlerKeepsShape
<1>2. CASE CreateOccurrences(h)
  <2>1. pc[h] = "grafeas" /\ batch[h] \in Batches
    BY <1>0, <1>2 DEF CreateOccurrences, Proceed, Answer, Goto, HandlerShape
  <2>2. ResourceUris(h) \subseteq Uri
    BY <2>1, BatchUris
  <2>3. CASE Goto(h, "grafeas", "getResources") /\ UNCHANGED reply
    <3>1. MovesOnly(h)
      BY <1>0, <1>2, <2>2, <2>3
      DEF CreateOccurrences, Goto, TypeOK, MovesOnly, Serving, StoredVersions
    <3>2. /\ pc'[h] = "getResources" /\ batch' = batch /\ reply' = reply /\ items' = items
          /\ known' = known /\ StoredVersions' = StoredVersions
          /\ ResourceUris(h)' \subseteq occurrences'
      BY <1>0, <1>2, <2>3
      DEF CreateOccurrences, Goto, TypeOK, StoredVersions, ResourceUris, Occurrences
    <3>3. HandlerShape(h)'
      BY <1>0, <2>1, <3>2, MissingAssumption DEF HandlerShape, TypeOK, AfterGrafeas
    <3> QED
      BY <3>1, <3>3, HandlerKeepsShape
  <2>4. CASE Answer(h, "grafeas", "Internal")
    <3>1. items[h] = {}
      BY <1>0, <2>1 DEF HandlerShape
    <3> QED
      BY <1>0, <1>2, <2>2, <2>4, <3>1, FailureKeepsShape DEF CreateOccurrences, TypeOK, Serving
  <2> QED
    BY <1>2, <2>3, <2>4 DEF CreateOccurrences, Proceed
<1> QED
  BY <1>1, <1>2

\* What a MultiGet leaves to write.
LEMMA SendStep ==
  ASSUME ShapeInv, NEW h \in Handler, GetResources(h) \/ GetVersions(h)
  PROVE  ShapeInv'
<1>0. TypeOK /\ HandlerShape(h) /\ items \in [Handler -> SUBSET (Resource \cup VersionItem)]
  BY DEF ShapeInv
<1>1. ASSUME NEW label, NEW sent \in SUBSET (Resource \cup VersionItem), NEW bulk \in Serving,
             NEW noBulk \in Serving, Send(h, label, sent, bulk, noBulk)
      PROVE  /\ MovesOnly(h) /\ pc[h] = label
             /\ pc'[h] = (IF sent = {} THEN noBulk ELSE bulk)
             /\ items'[h] = sent /\ bulkFailed'[h] = bulkFailed[h]
             /\ reply' = reply /\ batch' = batch /\ known' = known
             /\ occurrences' = occurrences /\ resourceDoc' = resourceDoc
             /\ StoredVersions' = StoredVersions
  BY <1>0, <1>1
  DEF Send, Goto, TypeOK, MovesOnly, Serving, StoredVersions, store
<1>2. CASE GetResources(h)
  <2>1. PICK parses \in Parses([i \in DOMAIN batch[h] |-> batch[h][i].resource]) :
          Send(h, "getResources", Range(parses) \ resourceDoc, "resourceBulk", "getVersions")
    BY <1>2 DEF GetResources
  <2>0. PICK sent : sent = Range(parses) \ resourceDoc
    OBVIOUS
  <2>2. pc[h] = "getResources" /\ batch[h] \in Batches
    BY <1>0, <2>1 DEF Send, Goto, HandlerShape
  <2>3. /\ sent \subseteq Resource
        /\ \A u \in ResourceUris(h) : ResourcesOf[u] \cap (resourceDoc \cup sent) # {}
    <3>1. /\ DOMAIN parses = DOMAIN batch[h]
          /\ \A i \in DOMAIN batch[h] :
               parses[i] \in Resource /\ parses[i] \in ResourcesOf[batch[h][i].resource]
      BY <2>1 DEF Parses
    <3>2. sent \subseteq Resource
      BY <2>0, <3>1 DEF Range
    <3>3. ASSUME NEW u \in ResourceUris(h)
          PROVE  ResourcesOf[u] \cap (resourceDoc \cup sent) # {}
      <4>1. PICK i \in DOMAIN batch[h] : batch[h][i].resource = u
        BY DEF ResourceUris, Occurrences
      <4> QED
        BY <2>0, <3>1, <4>1 DEF Range
    <3> QED
      BY <3>2, <3>3
  <2>4. /\ MovesOnly(h) /\ pc'[h] = (IF sent = {} THEN "getVersions" ELSE "resourceBulk")
        /\ items'[h] = sent /\ bulkFailed'[h] = bulkFailed[h]
        /\ reply' = reply /\ batch' = batch /\ known' = known
        /\ occurrences' = occurrences /\ resourceDoc' = resourceDoc
        /\ StoredVersions' = StoredVersions
    BY <1>1, <2>0, <2>1, <2>3 DEF Serving
  <2>5. ResourceUris(h)' = ResourceUris(h)
    BY <2>4 DEF ResourceUris, Occurrences
  <2>6. ResourcesStored(h, sent)'
    BY <2>3, <2>4, <2>5 DEF ResourcesStored
  <2>7. HandlerShape(h)'
    <3>1. CASE sent = {}
      BY <1>0, <2>2, <2>4, <2>5, <2>6, <3>1, MissingAssumption
      DEF HandlerShape, AfterGrafeas, TypeOK
    <3>2. CASE sent # {}
      BY <1>0, <2>2, <2>3, <2>4, <2>5, <2>6, <3>2, MissingAssumption
      DEF HandlerShape, AfterGrafeas, TypeOK
    <3> QED
      BY <3>1, <3>2
  <2> QED
    BY <2>4, <2>7, HandlerKeepsShape
<1>3. CASE GetVersions(h)
  <2> DEFINE Item(u, parents) ==
        [uri |-> u, document |-> [names |-> NamesInBatch(h, u), parent |-> parents[u]]]
  <2>1. PICK parents \in Parses([u \in VersionUris(h) |-> u]) :
          Send(h, "getVersions", {Item(u, parents) : u \in VersionsToWrite(h)},
               "versionBulk", "answer")
    BY <1>3 DEF GetVersions
  <2> DEFINE sent == {Item(u, parents) : u \in VersionsToWrite(h)}
  <2>2. pc[h] = "getVersions" /\ batch[h] \in Batches
    BY <1>0, <2>1 DEF Send, Goto, HandlerShape
  <2>3. /\ VersionUris(h) \subseteq Uri
        /\ \A u \in Uri : NamesInBatch(h, u) \in NameList \cup {NoNames}
    BY <2>2, BatchUris
  <2>4. \A u \in VersionUris(h) : parents[u] \in ResourcesOf[u] /\ parents[u] \in Resource
    BY <2>3, UriAssumption DEF Parses
  <2>5. ASSUME NEW u \in VersionsToWrite(h) PROVE ItemShape(h, Item(u, parents))
    <3>1. u \in VersionUris(h) /\ (versionDoc[u] = Missing \/ NamesInBatch(h, u) # NoNames)
      BY DEF VersionsToWrite
    <3>2. u \in known[h] => NamesInBatch(h, u) # NoNames
      BY <1>0, <3>1 DEF HandlerShape, StoredVersions
    <3> QED
      BY <2>3, <2>4, <3>1, <3>2 DEF ItemShape, VersionItem, VersionDocument
  <2>6. /\ \A item \in sent : ItemShape(h, item)
        /\ VersionUris(h) \subseteq StoredVersions \cup {item.uri : item \in sent}
    <3>1. ASSUME NEW u \in VersionUris(h), u \notin StoredVersions
          PROVE  \E item \in sent : item.uri = u
      <4>1. u \in VersionsToWrite(h)
        BY <2>3, <3>1 DEF VersionsToWrite, StoredVersions
      <4>2. Item(u, parents) \in sent /\ Item(u, parents).uri = u
        BY <4>1
      <4> QED
        BY <4>2
    <3> QED
      BY <2>5, <3>1
  <2>7. sent \subseteq VersionItem
    BY <2>6 DEF ItemShape
  <2>8. Send(h, "getVersions", sent, "versionBulk", "answer")
    BY <2>1
  <2> HIDE DEF sent
  <2>9. /\ MovesOnly(h) /\ pc'[h] = (IF sent = {} THEN "answer" ELSE "versionBulk")
        /\ items'[h] = sent /\ bulkFailed'[h] = bulkFailed[h]
        /\ reply' = reply /\ batch' = batch /\ known' = known
        /\ occurrences' = occurrences /\ resourceDoc' = resourceDoc
        /\ StoredVersions' = StoredVersions
    BY <1>1, <2>7, <2>8 DEF Serving
  <2>10. /\ ResourceUris(h)' = ResourceUris(h) /\ VersionUris(h)' = VersionUris(h)
         /\ \A item : ItemShape(h, item) => ItemShape(h, item)'
    BY <2>9 DEF ResourceUris, VersionUris, ArtifactUris, Occurrences, ItemShape
  <2>11. ResourcesStored(h, {})'
    BY <1>0, <2>2, <2>9, <2>10 DEF HandlerShape, ResourcesStored
  <2>12. HandlerShape(h)'
    <3>1. CASE sent = {}
      BY <1>0, <2>2, <2>6, <2>9, <2>10, <2>11, <3>1, MissingAssumption
      DEF HandlerShape, AfterGrafeas, TypeOK
    <3>2. CASE sent # {}
      BY <1>0, <2>2, <2>6, <2>9, <2>10, <2>11, <3>2, MissingAssumption
      DEF HandlerShape, AfterGrafeas, TypeOK
    <3> QED
      BY <3>1, <3>2
  <2> QED
    BY <2>9, <2>12, HandlerKeepsShape
<1> QED
  BY <1>2, <1>3

\* An item of a bulk is written, or fails alone.
LEMMA ItemStep ==
  ASSUME ShapeInv, NEW h \in Handler, WriteResource(h) \/ WriteVersion(h) \/ ItemFails(h)
  PROVE  ShapeInv'
<1>0. /\ TypeOK /\ HandlerShape(h) /\ items \in [Handler -> SUBSET (Resource \cup VersionItem)]
      /\ pc[h] # "idle" => batch[h] \in Batches
  BY DEF ShapeInv, HandlerShape
<1>1. CASE WriteResource(h)
  <2>1. PICK r \in items[h] : /\ resourceDoc' = resourceDoc \cup {r}
                              /\ items' = [items EXCEPT ![h] = @ \ {r}]
    BY <1>1 DEF WriteResource
  <2>2. /\ pc[h] = "resourceBulk" /\ r \in Resource /\ items'[h] = items[h] \ {r}
        /\ UNCHANGED <<occurrences, versionDoc, pc, batch, bulkFailed, reply, known>>
    BY <1>0, <1>1, <2>1 DEF WriteResource, HandlerShape
  <2>3. MovesOnly(h)
    BY <1>0, <2>1, <2>2 DEF TypeOK, MovesOnly, Serving, StoredVersions
  <2>4. /\ ResourceUris(h)' = ResourceUris(h) /\ StoredVersions' = StoredVersions
        /\ resourceDoc' \cup items'[h] = resourceDoc \cup items[h]
    BY <2>1, <2>2 DEF ResourceUris, Occurrences, StoredVersions
  <2>5. HandlerShape(h)'
    BY <1>0, <2>2, <2>4, MissingAssumption DEF HandlerShape, ResourcesStored, AfterGrafeas
  <2> QED
    BY <2>3, <2>5, HandlerKeepsShape
<1>2. CASE WriteVersion(h)
  <2>1. PICK item \in items[h] : /\ versionDoc' = [versionDoc EXCEPT ![item.uri] = item.document]
                                 /\ items' = [items EXCEPT ![h] = @ \ {item}]
    BY <1>2 DEF WriteVersion
  <2>2. /\ pc[h] = "versionBulk" /\ items'[h] = items[h] \ {item} /\ ItemShape(h, item)
        /\ item.uri \in Uri /\ item.document \in VersionDocument
        /\ UNCHANGED <<occurrences, resourceDoc, pc, batch, bulkFailed, reply, known>>
    BY <1>0, <1>2, <2>1 DEF WriteVersion, HandlerShape, ItemShape, VersionItem
  <2>3. StoredVersions' = StoredVersions \cup {item.uri}
    BY <1>0, <2>1, <2>2, MissingDocumentAssumption DEF StoredVersions, TypeOK
  <2>4. MovesOnly(h)
    BY <1>0, <2>1, <2>2, <2>3 DEF TypeOK, MovesOnly, Serving
  <2>5. /\ ResourceUris(h)' = ResourceUris(h) /\ VersionUris(h)' = VersionUris(h)
        /\ \A other : ItemShape(h, other) => ItemShape(h, other)'
    BY <2>2 DEF ResourceUris, VersionUris, ArtifactUris, Occurrences, ItemShape
  <2>6. ResourcesStored(h, {})'
    BY <1>0, <2>2, <2>5 DEF HandlerShape, ResourcesStored
  <2>7. HandlerShape(h)'
    BY <1>0, <2>2, <2>3, <2>5, <2>6, MissingAssumption DEF HandlerShape, AfterGrafeas
  <2> QED
    BY <2>4, <2>7, HandlerKeepsShape
<1>3. CASE ItemFails(h)
  <2>1. PICK item \in items[h] : items' = [items EXCEPT ![h] = @ \ {item}]
    BY <1>3 DEF ItemFails
  <2>2. /\ items'[h] = items[h] \ {item} /\ bulkFailed'[h] = TRUE
        /\ UNCHANGED <<store, pc, batch, reply, known>>
        /\ pc[h] \in {"resourceBulk", "versionBulk"}
    BY <1>0, <1>3, <2>1 DEF ItemFails, HandlerShape, TypeOK
  <2>3. MovesOnly(h)
    BY <1>0, <1>3, <2>1, <2>2 DEF ItemFails, TypeOK, MovesOnly, Serving, StoredVersions, store
  <2>4. /\ ResourceUris(h)' = ResourceUris(h) /\ VersionUris(h)' = VersionUris(h)
        /\ \A other : ItemShape(h, other) => ItemShape(h, other)'
        /\ StoredVersions' = StoredVersions
    BY <2>2
    DEF ResourceUris, VersionUris, ArtifactUris, Occurrences, ItemShape, StoredVersions, store
  <2>5. ResourcesStored(h, {}) => ResourcesStored(h, {})'
    BY <2>2, <2>4 DEF ResourcesStored, store
  <2>6. HandlerShape(h)'
    BY <1>0, <2>2, <2>4, <2>5, MissingAssumption DEF HandlerShape, AfterGrafeas, store
  <2> QED
    BY <2>3, <2>6, HandlerKeepsShape
<1> QED
  BY <1>1, <1>2, <1>3

\* A bulk that is over, the answer, and the end.
LEMMA ReplyStep ==
  ASSUME ShapeInv, NEW h \in Handler, BulkReply(h) \/ AnswerOK(h) \/ Finish(h)
  PROVE  ShapeInv'
<1>0. TypeOK /\ HandlerShape(h) /\ items \in [Handler -> SUBSET (Resource \cup VersionItem)]
  BY DEF ShapeInv
<1>1. ASSUME UNCHANGED <<store, batch, items, bulkFailed, known>>
      PROVE  /\ ResourceUris(h)' = ResourceUris(h) /\ VersionUris(h)' = VersionUris(h)
             /\ StoredVersions' = StoredVersions
             /\ ResourcesStored(h, {}) => ResourcesStored(h, {})'
  <2>1. ResourceUris(h)' = ResourceUris(h) /\ VersionUris(h)' = VersionUris(h)
        /\ StoredVersions' = StoredVersions
    BY <1>1 DEF ResourceUris, VersionUris, ArtifactUris, Occurrences, StoredVersions, store
  <2> QED
    BY <1>1, <2>1 DEF ResourcesStored, store
<1>2. CASE BulkReply(h)
  <2>1. /\ pc[h] \in {"resourceBulk", "versionBulk"} /\ items[h] = {}
        /\ UNCHANGED <<store, batch, items, bulkFailed, known>>
    BY <1>2 DEF BulkReply
  <2>2. CASE Answer(h, pc[h], "Internal")
    BY <1>0, <2>1, <2>2, FailureKeepsShape DEF TypeOK, store, Serving
  <2>3. CASE Goto(h, pc[h], AfterBulk(h)) /\ UNCHANGED reply /\ ~bulkFailed[h]
    <3>1. MovesOnly(h)
      BY <1>0, <2>1, <2>3
      DEF Goto, AfterBulk, TypeOK, MovesOnly, Serving, StoredVersions, store
    <3>2. pc'[h] = (IF pc[h] = "resourceBulk" THEN "getVersions" ELSE "answer")
      BY <1>0, <2>3 DEF Goto, AfterBulk, TypeOK
    <3>3. ResourcesStored(h, {})
      BY <1>0, <2>1, <2>3 DEF HandlerShape
    <3>4. pc[h] = "versionBulk" => VersionUris(h) \subseteq StoredVersions
      BY <1>0, <2>1, <2>3 DEF HandlerShape
    <3>5. HandlerShape(h)'
      BY <1>0, <1>1, <2>1, <2>3, <3>2, <3>3, <3>4, MissingAssumption
      DEF HandlerShape, AfterGrafeas, store
    <3> QED
      BY <3>1, <3>5, HandlerKeepsShape
  <2> QED
    BY <1>2, <2>2, <2>3 DEF BulkReply, Proceed
<1>3. CASE AnswerOK(h)
  <2>1. MovesOnly(h)
    BY <1>0, <1>3 DEF AnswerOK, Answer, Goto, TypeOK, MovesOnly, Serving, StoredVersions, store
  <2>2. /\ pc[h] = "answer" /\ pc'[h] = "done"
        /\ UNCHANGED <<store, batch, items, bulkFailed, known>>
    BY <1>0, <1>3 DEF AnswerOK, Answer, Goto, TypeOK
  <2>3. HandlerShape(h)'
    BY <1>0, <1>1, <2>2, MissingAssumption DEF HandlerShape, AfterGrafeas, store
  <2> QED
    BY <2>1, <2>3, HandlerKeepsShape
<1>4. CASE Finish(h)
  <2>1. MovesOnly(h)
    BY <1>0, <1>4 DEF Finish, TypeOK, MovesOnly, Serving, StoredVersions, store
  <2>2. /\ pc'[h] = "idle" /\ items'[h] = {} /\ bulkFailed'[h] = FALSE /\ reply'[h] = Missing
        /\ known'[h] = {}
    BY <1>0, <1>4 DEF Finish, TypeOK
  <2>3. HandlerShape(h)'
    BY <2>2, MissingAssumption DEF HandlerShape, AfterGrafeas
  <2> QED
    BY <2>1, <2>3, HandlerKeepsShape
<1> QED
  BY <1>2, <1>3, <1>4

\* Every step keeps ShapeInv.
LEMMA ShapeStep == ShapeInv /\ [Next]_vars => ShapeInv'
<1> SUFFICES ASSUME ShapeInv, [Next]_vars PROVE ShapeInv'
  OBVIOUS
<1>1. CASE UNCHANGED vars
  <2>1. \A h \in Handler : HandlerShape(h)'
    BY <1>1, OthersKeepShape DEF vars, store, StoredVersions
  <2> QED
    BY <1>1, <2>1 DEF vars, store, ShapeInv, TypeOK
<1>2. CASE Next
  BY <1>2, FailStep, BeginStep, SendStep, ItemStep, ReplyStep DEF Next, Serve
<1> QED
  BY <1>1, <1>2

----------------------------------------------------------------------------
(***************************************************************************)
(* The theorems.                                                           *)
(***************************************************************************)

\* ShapeInv holds in every behaviour.
LEMMA ShapeAlways == Spec => []ShapeInv
  BY ShapeInit, ShapeStep, PTL DEF Spec

\* Every variable of the resource manager keeps its type, whatever calls and items fail.
THEOREM TypeCorrect == Spec => []TypeOK
<1>1. ShapeInv => TypeOK
  BY DEF ShapeInv
<1> QED
  BY <1>1, ShapeAlways, PTL

\* BatchCreateOccurrences only answers OK when the occurrences, their resources and all
\* versions are stored, although the three are written one after the other and other
\* batches write in between.
THEOREM BatchStored == Spec => []AcknowledgedBatchStored
<1>1. ShapeInv => AcknowledgedBatchStored
  BY DEF ShapeInv, HandlerShape, ResourcesStored, AcknowledgedBatchStored
<1> QED
  BY <1>1, ShapeAlways, PTL

\* A step of a handler in its bulk of versions that changes a version writes an item.
LEMMA WritesItem ==
  ASSUME ShapeInv, Next, NEW h \in Handler, NEW u \in Uri, Writes(h, u)
  PROVE  \E item \in items[h] :
           item.uri = u /\ ItemShape(h, item) /\ versionDoc'[u] = item.document
<1>0. /\ TypeOK /\ HandlerShape(h) /\ pc[h] = "versionBulk" /\ items'[h] # items[h]
      /\ versionDoc'[u] # versionDoc[u]
      /\ items \in [Handler -> SUBSET (Resource \cup VersionItem)]
  BY DEF ShapeInv, Writes
<1>1. PICK g \in Handler : WriteVersion(g)
  BY <1>0
  DEF Next, Serve, BatchCreateOccurrences, CreateOccurrences, ResourcesUnparsed, CannotParse,
      GetResources, Send, WriteResource, VersionsPanic, VersionsUnparsed, GetVersions, ItemFails,
      BulkReply, AnswerOK, CallFails, Finish, store
<1>2. g = h
  BY <1>0, <1>1 DEF WriteVersion
<1>3. PICK item \in items[h] : versionDoc' = [versionDoc EXCEPT ![item.uri] = item.document]
  BY <1>1, <1>2 DEF WriteVersion
<1>4. item.uri = u /\ versionDoc'[u] = item.document
  BY <1>0, <1>3 DEF TypeOK
<1> QED
  BY <1>0, <1>3, <1>4 DEF HandlerShape

\* A version of a resource that has an occurrence is written under that resource, and after
\* it.
THEOREM ParentsBeforeVersions == Spec => ParentsFirst
<1>1. ShapeInv /\ [Next]_vars =>
        [\A h \in Handler, u \in Uri :
           Writes(h, u) /\ u \in ResourceUris(h) /\ Cardinality(ResourcesOf[u]) = 1 =>
             versionDoc'[u].parent \in ResourcesOf[u] \cap resourceDoc]_vars
  <2> SUFFICES ASSUME ShapeInv, Next, NEW h \in Handler, NEW u \in Uri,
                      Writes(h, u), u \in ResourceUris(h), Cardinality(ResourcesOf[u]) = 1
               PROVE  versionDoc'[u].parent \in ResourcesOf[u] \cap resourceDoc
    OBVIOUS
  <2>1. versionDoc'[u].parent \in ResourcesOf[u]
    BY WritesItem DEF ItemShape
  <2>2. ResourcesOf[u] \cap resourceDoc # {}
    BY DEF ShapeInv, HandlerShape, ResourcesStored, Writes
  <2>3. PICK r : ResourcesOf[u] = {r}
    BY FS_Singleton, UriAssumption
  <2> QED
    BY <2>1, <2>2, <2>3
<1> QED
  BY <1>1, ShapeAlways, PTL DEF Spec, ParentsFirst

\* A batch that began when a version was there does not take its names.
THEOREM NamesSurvive == Spec => NamesSurviveLaterBatches
<1>1. ShapeInv /\ [Next]_vars =>
        [\A h \in Handler, u \in Uri :
           Writes(h, u) /\ u \in known[h] /\ versionDoc[u].names # NoNames =>
             versionDoc'[u].names # NoNames]_vars
  BY WritesItem DEF ItemShape
<1> QED
  BY <1>1, ShapeAlways, PTL DEF Spec, NamesSurviveLaterBatches
=============================================================================
