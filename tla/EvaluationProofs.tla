-------------------------- MODULE EvaluationProofs --------------------------
(***************************************************************************)
(* Proofs about Evaluation and EvaluationListing, for any policies,        *)
(* versions and sources and any number of RPCs in flight, whatever calls   *)
(* and items fail and whenever OPA restarts or the index is refreshed.     *)
(***************************************************************************)
EXTENDS EvaluationListing, FiniteSetTheorems, SequenceTheorems, TLAPS

Label == {"idle", "listAssignments", "getVersion", "getPolicy", "policyExists", "loadPolicy",
          "query", "resourceItem", "policyItems", "done"}
BeforeBulk == Label \ {"policyItems", "done"}
InOpa == {"policyExists", "loadPolicy", "query"}

VersionId == Policy \X Version
Verdicts == UNION {[S -> BOOLEAN] : S \in SUBSET VersionId}
SourceOf(id) == source[id[1]][id[2]]

IsResource(h) == request[h].op = "EvaluateResource"

Types ==
  /\ source \in [Policy -> [Version -> Rego \cup {Missing}]]
  /\ opa \in [Id -> Rego \cup {Missing}]
  /\ resourceEvaluation \in [Handler -> BOOLEAN \cup {Missing}]
  /\ policyEvaluation \in [Handler -> Verdicts]
  /\ pc \in [Handler -> Label]
  /\ request \in [Handler -> Request \cup {Missing}]
  /\ todo \in [Handler -> SUBSET VersionId]
  /\ current \in [Handler -> [id : Id, rego : Rego] \cup {Missing}]
  /\ verdict \in [Handler -> Verdicts]
  /\ unsent \in [Handler -> SUBSET VersionId]
  /\ bulkFailed \in [Handler -> BOOLEAN]
  /\ reply \in [Handler -> BOOLEAN \cup {Missing}]
  /\ restarted \in [Handler -> BOOLEAN]

\* What OPA has under a version id is the source of that version.
OpaShape == \A id \in VersionId : opa[id] # Missing => opa[id] = SourceOf(id)

\* The evaluation of h, up to the answer of OPA.
EvaluationShape(h) ==
  /\ pc[h] # "idle" => request[h] \in Request
  /\ pc[h] \in {"listAssignments", "getVersion", "resourceItem", "policyItems"} => IsResource(h)
  /\ pc[h] = "getPolicy" => ~IsResource(h)
  /\ todo[h] \subseteq StoredVersions
  /\ pc[h] \in InOpa =>
       /\ current[h] # Missing
       /\ IF IsResource(h)
          THEN current[h].id \in StoredVersions /\ current[h].rego = SourceOf(current[h].id)
          ELSE current[h].id[2] = 0
  /\ pc[h] = "query" /\ IsResource(h) /\ ~restarted[h] => opa[current[h].id] # Missing

\* The verdicts of h are those of the sources, and what h has stored are its verdicts.
ResultShape(h) ==
  /\ pc[h] = "idle" \/ (pc[h] # "idle" /\ ~IsResource(h)) => DOMAIN verdict[h] = {}
  /\ \A id \in DOMAIN verdict[h] :
       /\ id \in StoredVersions
       /\ OwnsItsPackage(SourceOf(id)) => (verdict[h][id] <=> SourceOf(id) \in Passing)
  /\ pc[h] \in BeforeBulk =>
       /\ resourceEvaluation[h] = Missing /\ DOMAIN policyEvaluation[h] = {}
       /\ unsent[h] = {} /\ bulkFailed[h] = FALSE
  /\ pc[h] # "done" => reply[h] = Missing
  /\ unsent[h] \cup DOMAIN policyEvaluation[h] \subseteq DOMAIN verdict[h]
  /\ \A id \in DOMAIN policyEvaluation[h] : policyEvaluation[h][id] = verdict[h][id]
  /\ resourceEvaluation[h] # Missing => resourceEvaluation[h] = Pass(h)
  /\ pc[h] = "policyItems" /\ ~bulkFailed[h] =>
       /\ resourceEvaluation[h] # Missing
       /\ unsent[h] \cup DOMAIN policyEvaluation[h] = DOMAIN verdict[h]
  /\ pc[h] = "done" /\ IsResource(h) =>
       /\ resourceEvaluation[h] # Missing /\ reply[h] = Pass(h)
       /\ DOMAIN policyEvaluation[h] = DOMAIN verdict[h]

ShapeInv ==
  /\ Types /\ OpaShape
  /\ \A h \in Handler : EvaluationShape(h) /\ ResultShape(h)

----------------------------------------------------------------------------
\* The sentinel is none of the values it stands apart from.
LEMMA MissingApart ==
  /\ Missing \notin Rego /\ Missing \notin BOOLEAN /\ Missing \notin Request
  /\ Missing \notin [id : Id, rego : Rego]
  BY MissingAssumption

\* A version id is a name in OPA.
LEMMA VersionIds ==
  /\ VersionId \subseteq Id /\ StoredVersions \subseteq VersionId
  /\ \A p \in Policy : <<p, 0>> \in Id
  /\ \A id \in VersionId : id[1] \in Policy /\ id[2] \in Version /\ id[2] # 0
  BY BoundAssumption DEF VersionId, Id, Version, StoredVersions

\* None is a result for nothing.
LEMMA NoVerdict == DOMAIN None = {} /\ None \in Verdicts
<1>1. <<>> \in Seq(BOOLEAN) /\ Len(<<>>) = 0
  OBVIOUS
<1>2. <<>> \in [1..0 -> BOOLEAN] /\ 1..0 = {}
  BY <1>1
<1> QED
  BY <1>2 DEF None, Verdicts

\* The results of a query are truth values; a source alone in its package decides.
LEMMA ResultsOf ==
  ASSUME NEW rego \in Rego
  PROVE  /\ Results(rego) \subseteq BOOLEAN
         /\ Types /\ OwnsItsPackage(rego) /\ Loaded(rego) # {} =>
              \A pass \in Results(rego) : pass <=> rego \in Passing
<1>1. Results(rego) \subseteq BOOLEAN
  BY DEF Results
<1>2. ASSUME Types, OwnsItsPackage(rego), Loaded(rego) # {}
      PROVE  \A pass \in Results(rego) : pass <=> rego \in Passing
  <2>1. Loaded(rego) = {rego}
    <3>1. \A r \in Loaded(rego) : r \in Rego /\ PackageOf[r] = PackageOf[rego]
      BY <1>2 DEF Types, Loaded
    <3> QED
      BY <1>2, <3>1 DEF OwnsItsPackage
  <2>2. Cardinality(Loaded(rego)) = 1
    BY <2>1, FS_Singleton
  <2>3. Results(rego) = {Loaded(rego) \subseteq Passing}
    BY <2>2 DEF Results
  <2>4. (Loaded(rego) \subseteq Passing) <=> rego \in Passing
    BY <2>1
  <2>5. ASSUME NEW pass \in Results(rego) PROVE pass <=> rego \in Passing
    <3>1. pass = (Loaded(rego) \subseteq Passing)
      BY <2>3
    <3> QED
      BY <3>1, <2>4
  <2> QED
    BY <2>5
<1> QED
  BY <1>1, <1>2

\* Nothing is stored or loaded, and nothing in flight.
LEMMA ShapeInit == Init => ShapeInv
<1> SUFFICES ASSUME Init PROVE ShapeInv
  OBVIOUS
<1>1. Types
  BY NoVerdict DEF Init, Types, Label
<1>2. OpaShape
  BY VersionIds DEF Init, OpaShape
<1>3. ASSUME NEW h \in Handler PROVE EvaluationShape(h) /\ ResultShape(h)
  BY NoVerdict DEF Init, EvaluationShape, ResultShape, BeforeBulk, Label, InOpa
<1> QED
  BY <1>1, <1>2, <1>3 DEF ShapeInv

----------------------------------------------------------------------------
\* What an evaluation relies on beside its own variables: stored sources stay as they
\* are, and a policy that is loaded stays loaded unless OPA restarts.
Untouched(h) ==
  /\ pc'[h] = pc[h] /\ request'[h] = request[h] /\ todo'[h] = todo[h]
  /\ current'[h] = current[h] /\ verdict'[h] = verdict[h] /\ unsent'[h] = unsent[h]
  /\ bulkFailed'[h] = bulkFailed[h] /\ reply'[h] = reply[h]
  /\ resourceEvaluation'[h] = resourceEvaluation[h]
  /\ policyEvaluation'[h] = policyEvaluation[h]

SourcesKept == \A id \in StoredVersions : SourceOf(id)' = SourceOf(id)

LoadedKept(h) ==
  pc[h] = "query" /\ ~restarted'[h] =>
    ~restarted[h] /\ (opa[current[h].id] # Missing => opa'[current[h].id] # Missing)

LEMMA StoredStay ==
  ASSUME Types, SourcesKept
  PROVE  StoredVersions \subseteq StoredVersions'
<1> SUFFICES ASSUME NEW id \in StoredVersions PROVE id \in StoredVersions'
  OBVIOUS
<1>1. id \in VersionId /\ SourceOf(id) # Missing
  BY DEF StoredVersions, VersionId, SourceOf
<1>2. SourceOf(id)' # Missing
  BY <1>1 DEF SourcesKept
<1> QED
  BY <1>1, <1>2 DEF StoredVersions, VersionId, SourceOf

\* A handler that does not move keeps its shape.
LEMMA OthersKeepShape ==
  ASSUME NEW h \in Handler, ShapeInv, Untouched(h), SourcesKept, LoadedKept(h)
  PROVE  EvaluationShape(h)' /\ ResultShape(h)'
<1>1. Types /\ EvaluationShape(h) /\ ResultShape(h)
  BY DEF ShapeInv
<1>2. StoredVersions \subseteq StoredVersions'
  BY <1>1, StoredStay
<1>3. IsResource(h)' <=> IsResource(h)
  BY DEF Untouched, IsResource
<1>4. EvaluationShape(h)'
  <2>1. /\ pc'[h] # "idle" => request'[h] \in Request
        /\ pc'[h] \in {"listAssignments", "getVersion", "resourceItem", "policyItems"} =>
             IsResource(h)'
        /\ pc'[h] = "getPolicy" => ~IsResource(h)'
    BY <1>1, <1>3 DEF Untouched, EvaluationShape
  <2>2. todo'[h] \subseteq StoredVersions'
    BY <1>1, <1>2 DEF Untouched, EvaluationShape
  <2>3. ASSUME pc'[h] \in InOpa
        PROVE  /\ current'[h] # Missing
               /\ IsResource(h)' =>
                    /\ current'[h].id \in StoredVersions'
                    /\ current'[h].rego = source'[current'[h].id[1]][current'[h].id[2]]
               /\ ~IsResource(h)' => current'[h].id[2] = 0
    <3>1. pc[h] \in InOpa /\ current'[h] = current[h]
      BY <2>3 DEF Untouched
    <3>2. current[h] # Missing /\ (~IsResource(h) => current[h].id[2] = 0)
      BY <1>1, <3>1 DEF EvaluationShape
    <3>3. ASSUME IsResource(h), NEW id, id = current[h].id
          PROVE  id \in StoredVersions' /\ current[h].rego = source'[id[1]][id[2]]
      <4>1. id \in StoredVersions /\ current[h].rego = source[id[1]][id[2]]
        BY <1>1, <3>1, <3>3 DEF EvaluationShape, SourceOf
      <4>2. source'[id[1]][id[2]] = source[id[1]][id[2]]
        BY <4>1 DEF SourcesKept, SourceOf
      <4> QED
        BY <4>1, <4>2, <1>2
    <3> QED
      BY <1>3, <3>1, <3>2, <3>3
  <2>4. pc'[h] = "query" /\ IsResource(h)' /\ ~restarted'[h] => opa'[current'[h].id] # Missing
    BY <1>1, <1>3 DEF Untouched, EvaluationShape, LoadedKept
  <2> QED
    BY <2>1, <2>2, <2>3, <2>4 DEF EvaluationShape, SourceOf
<1>5. ResultShape(h)'
  <2>1. Pass(h)' = Pass(h)
    BY DEF Untouched, Pass
  <2>2. ASSUME NEW id \in DOMAIN verdict'[h]
        PROVE  /\ id \in StoredVersions'
               /\ OwnsItsPackage(SourceOf(id)') =>
                    (verdict'[h][id] <=> SourceOf(id)' \in Passing)
    <3>1. id \in DOMAIN verdict[h] /\ verdict'[h][id] = verdict[h][id]
      BY <2>2 DEF Untouched
    <3>2. id \in StoredVersions /\ SourceOf(id)' = SourceOf(id)
      BY <1>1, <3>1 DEF ResultShape, SourcesKept
    <3> QED
      BY <1>1, <1>2, <3>1, <3>2 DEF ResultShape
  <2> QED
    BY <1>1, <1>3, <2>1, <2>2 DEF Untouched, ResultShape, OwnsItsPackage, SourceOf
<1> QED
  BY <1>4, <1>5

\* So a step of h keeps the invariant if it keeps the shape of h.
LEMMA StepOfHandler ==
  ASSUME NEW h \in Handler, ShapeInv, Types', OpaShape', UNCHANGED source,
         \A g \in Handler \ {h} : Untouched(g) /\ restarted'[g] = restarted[g],
         \A id \in Id : opa[id] # Missing => opa'[id] # Missing,
         EvaluationShape(h)', ResultShape(h)'
  PROVE  ShapeInv'
<1>1. SourcesKept
  BY DEF SourcesKept, SourceOf
<1>2. ASSUME NEW g \in Handler \ {h} PROVE EvaluationShape(g)' /\ ResultShape(g)'
  <2>1. LoadedKept(g)
    <3>1. ASSUME pc[g] = "query" PROVE current[g].id \in Id
      <4>1. current[g] \in [id : Id, rego : Rego]
        BY <3>1 DEF ShapeInv, Types, EvaluationShape, InOpa
      <4> QED
        BY <4>1
    <3> QED
      BY <3>1 DEF LoadedKept
  <2> QED
    BY <1>1, <2>1, OthersKeepShape
<1> QED
  BY <1>2 DEF ShapeInv

LEMMA OpaStays ==
  ASSUME OpaShape, UNCHANGED <<source, opa>>
  PROVE  OpaShape' /\ \A id \in Id : opa[id] # Missing => opa'[id] # Missing
  BY DEF OpaShape, SourceOf

\* An RPC that ends leaves nothing behind.
LEMMA EndKeepsShape ==
  ASSUME NEW h \in Handler, ShapeInv, End(h),
         opa' \in [Id -> Rego \cup {Missing}], OpaShape',
         \A id \in Id : opa[id] # Missing => opa'[id] # Missing
  PROVE  ShapeInv'
<1>1. Types
  BY DEF ShapeInv
<1>2. Types'
  <2>1. pc' \in [Handler -> Label] /\ request' \in [Handler -> Request \cup {Missing}]
    BY <1>1 DEF End, Types, Label
  <2>2. /\ todo' \in [Handler -> SUBSET VersionId] /\ unsent' \in [Handler -> SUBSET VersionId]
        /\ current' \in [Handler -> [id : Id, rego : Rego] \cup {Missing}]
    BY <1>1 DEF End, Types
  <2>3. verdict' \in [Handler -> Verdicts] /\ policyEvaluation' \in [Handler -> Verdicts]
    BY <1>1, NoVerdict DEF End, Types
  <2>4. /\ resourceEvaluation' \in [Handler -> BOOLEAN \cup {Missing}]
        /\ reply' \in [Handler -> BOOLEAN \cup {Missing}]
    BY <1>1 DEF End, Types
  <2>5. bulkFailed' \in [Handler -> BOOLEAN] /\ restarted' \in [Handler -> BOOLEAN]
    BY <1>1 DEF End, Types
  <2>6. source' \in [Policy -> [Version -> Rego \cup {Missing}]]
    BY <1>1 DEF End, Types
  <2> QED
    BY <2>1, <2>2, <2>3, <2>4, <2>5, <2>6 DEF Types
<1>3. /\ pc'[h] = "idle" /\ request'[h] = Missing /\ todo'[h] = {} /\ unsent'[h] = {}
      /\ verdict'[h] = None /\ policyEvaluation'[h] = None /\ resourceEvaluation'[h] = Missing
      /\ reply'[h] = Missing /\ bulkFailed'[h] = FALSE
  <2>1. pc'[h] = "idle" /\ request'[h] = Missing /\ todo'[h] = {} /\ unsent'[h] = {}
    BY <1>1 DEF End, Types
  <2>2. verdict'[h] = None /\ policyEvaluation'[h] = None /\ resourceEvaluation'[h] = Missing
    BY <1>1 DEF End, Types
  <2>3. reply'[h] = Missing /\ bulkFailed'[h] = FALSE
    BY <1>1 DEF End, Types
  <2> QED
    BY <2>1, <2>2, <2>3
<1>4. EvaluationShape(h)'
  BY <1>3 DEF EvaluationShape, InOpa
<1>5. ResultShape(h)'
  BY <1>3, NoVerdict DEF ResultShape, BeforeBulk, Label
<1>6. \A g \in Handler \ {h} : Untouched(g) /\ restarted'[g] = restarted[g]
  BY <1>1 DEF End, Types, Untouched
<1>7. UNCHANGED source
  BY DEF End
<1> QED
  BY <1>2, <1>4, <1>5, <1>6, <1>7, StepOfHandler

LEMMA FailKeepsShape ==
  ASSUME NEW h \in Handler, ShapeInv, End(h), UNCHANGED opa
  PROVE  ShapeInv'
<1>1. UNCHANGED source
  BY DEF End
<1>2. OpaShape' /\ \A id \in Id : opa[id] # Missing => opa'[id] # Missing
  BY <1>1, OpaStays DEF ShapeInv
<1>3. opa' \in [Id -> Rego \cup {Missing}]
  BY DEF ShapeInv, Types
<1> QED
  BY <1>2, <1>3, EndKeepsShape

\* The actions that only end an RPC.
LEMMA EndsKeepShape ==
  ASSUME NEW h \in Handler, ShapeInv,
         NoAssignments(h) \/ VersionNotFound(h) \/ Contradiction(h) \/ Finish(h)
  PROVE  ShapeInv'
<1>1. End(h) /\ UNCHANGED opa
  BY DEF NoAssignments, VersionNotFound, Contradiction, Finish, Fail
<1> QED
  BY <1>1, FailKeepsShape

----------------------------------------------------------------------------
\* The RPC begins.
LEMMA BeginKeepsShape ==
  ASSUME NEW h \in Handler, ShapeInv, EvaluateResource(h) \/ EvaluatePolicy(h)
  PROVE  ShapeInv'
<1>1. Types /\ OpaShape /\ EvaluationShape(h) /\ ResultShape(h)
  BY DEF ShapeInv
<1>2. PICK message \in Request, to \in {"listAssignments", "getPolicy"} :
        /\ to = "listAssignments" <=> message.op = "EvaluateResource"
        /\ Goto(h, "idle", to)
        /\ request' = [request EXCEPT ![h] = message]
  BY DEF EvaluateResource, EvaluatePolicy, Request
<1>3. UNCHANGED <<Outside, opa, stored, todo, current, verdict, unsent, bulkFailed, reply>>
  BY DEF EvaluateResource, EvaluatePolicy
<1>4. pc[h] = "idle" /\ pc'[h] = to /\ request'[h] = message
  BY <1>1, <1>2 DEF Goto, Types
<1>5. Types'
  <2>1. pc' \in [Handler -> Label] /\ request' \in [Handler -> Request \cup {Missing}]
    BY <1>1, <1>2 DEF Goto, Types, Label
  <2> QED
    BY <1>1, <1>3, <2>1 DEF Types, Outside, stored
<1>6. EvaluationShape(h)'
  BY <1>1, <1>2, <1>3, <1>4
     DEF EvaluationShape, InOpa, IsResource, Outside, StoredVersions
<1>7. ResultShape(h)'
  <2>1. DOMAIN verdict[h] = {} /\ unsent[h] = {} /\ DOMAIN policyEvaluation[h] = {}
    BY <1>1, <1>4 DEF ResultShape, BeforeBulk, Label
  <2>2. resourceEvaluation[h] = Missing /\ bulkFailed[h] = FALSE /\ reply[h] = Missing
    BY <1>1, <1>4 DEF ResultShape, BeforeBulk, Label
  <2> QED
    BY <1>2, <1>3, <1>4, <2>1, <2>2 DEF ResultShape, BeforeBulk, Label, Outside, stored
<1>8. \A g \in Handler \ {h} : Untouched(g) /\ restarted'[g] = restarted[g]
  BY <1>1, <1>2, <1>3 DEF Goto, Types, Untouched, Outside, stored
<1>9. OpaShape' /\ \A id \in Id : opa[id] # Missing => opa'[id] # Missing
  BY <1>1, <1>3, OpaStays DEF Outside
<1> QED
  BY <1>3, <1>5, <1>6, <1>7, <1>8, <1>9, StepOfHandler DEF Outside

\* A step up to the query, which leaves the results alone.
LEMMA BeforeQueryStep ==
  ASSUME NEW h \in Handler, ShapeInv, NEW from \in BeforeBulk \ {"idle"},
         NEW to \in BeforeBulk \ {"idle"}, Goto(h, from, to),
         NEW left \in SUBSET VersionId, NEW now \in [id : Id, rego : Rego] \cup {Missing},
         todo' = [todo EXCEPT ![h] = left], current' = [current EXCEPT ![h] = now],
         UNCHANGED <<Outside, stored, request, verdict, unsent, bulkFailed, reply>>,
         opa' \in [Id -> Rego \cup {Missing}], OpaShape',
         \A id \in Id : opa[id] # Missing => opa'[id] # Missing,
         EvaluationShape(h)'
  PROVE  ShapeInv'
<1>1. Types /\ OpaShape /\ ResultShape(h)
  BY DEF ShapeInv
<1>2. pc[h] = from /\ pc'[h] = to /\ from \in Label /\ to \in Label
  BY <1>1 DEF Goto, Types, BeforeBulk
<1>3. Types'
  <2>1. pc' \in [Handler -> Label] /\ todo' \in [Handler -> SUBSET VersionId]
    BY <1>1, <1>2 DEF Goto, Types
  <2>2. current' \in [Handler -> [id : Id, rego : Rego] \cup {Missing}]
    BY <1>1 DEF Types
  <2> QED
    BY <1>1, <2>1, <2>2 DEF Types, Outside, stored
<1>4. ResultShape(h)'
  <2>1. ASSUME NEW id \in DOMAIN verdict'[h]
        PROVE  /\ id \in StoredVersions'
               /\ OwnsItsPackage(SourceOf(id)') =>
                    (verdict'[h][id] <=> SourceOf(id)' \in Passing)
    BY <1>1, <2>1 DEF ResultShape, StoredVersions, SourceOf, Outside
  <2>2. Pass(h)' = Pass(h) /\ (IsResource(h)' <=> IsResource(h))
    BY DEF Pass, IsResource
  <2>3. ~IsResource(h) => DOMAIN verdict[h] = {}
    BY <1>1, <1>2 DEF ResultShape
  <2>4. /\ resourceEvaluation[h] = Missing /\ DOMAIN policyEvaluation[h] = {}
        /\ unsent[h] = {} /\ bulkFailed[h] = FALSE /\ reply[h] = Missing
    BY <1>1, <1>2 DEF ResultShape, BeforeBulk
  <2> QED
    BY <1>2, <2>1, <2>2, <2>3, <2>4
       DEF ResultShape, BeforeBulk, Outside, stored, OwnsItsPackage, SourceOf
<1>5. \A g \in Handler \ {h} : Untouched(g) /\ restarted'[g] = restarted[g]
  BY <1>1 DEF Goto, Types, Untouched, Outside, stored
<1> QED
  BY <1>3, <1>4, <1>5, StepOfHandler DEF Outside

LEMMA ListKeepsShape ==
  ASSUME NEW h \in Handler, ShapeInv, ListPolicyAssignments(h)
  PROVE  ShapeInv'
<1>1. Types /\ EvaluationShape(h)
  BY DEF ShapeInv
<1>2. PICK listed \in SUBSET StoredVersions : todo' = [todo EXCEPT ![h] = listed]
  BY DEF ListPolicyAssignments
<1>3. /\ Goto(h, "listAssignments", "getVersion")
      /\ UNCHANGED <<Outside, opa, stored, request, current, verdict, unsent, bulkFailed, reply>>
  BY DEF ListPolicyAssignments
<1>4. current' = [current EXCEPT ![h] = current[h]] /\ listed \in SUBSET VersionId
      /\ current[h] \in [id : Id, rego : Rego] \cup {Missing}
  BY <1>1, <1>2, <1>3, VersionIds DEF Types
<1>5. pc[h] = "listAssignments" /\ pc'[h] = "getVersion" /\ todo'[h] = listed
  BY <1>1, <1>2, <1>3 DEF Goto, Types
<1>6. EvaluationShape(h)'
  BY <1>1, <1>2, <1>3, <1>5 DEF EvaluationShape, InOpa, IsResource, StoredVersions, Outside
<1>7. "listAssignments" \in BeforeBulk \ {"idle"} /\ "getVersion" \in BeforeBulk \ {"idle"}
  BY DEF BeforeBulk, Label
<1>8. /\ opa' \in [Id -> Rego \cup {Missing}] /\ OpaShape'
      /\ \A i \in Id : opa[i] # Missing => opa'[i] # Missing
  BY <1>1, <1>3, OpaStays DEF ShapeInv, Types, Outside
<1> QED
  BY <1>2, <1>3, <1>4, <1>6, <1>7, <1>8, BeforeQueryStep

\* The evaluation of one source begins.
LEMMA EvaluateKeepsShape ==
  ASSUME NEW h \in Handler, ShapeInv, NEW from \in {"getVersion", "getPolicy"},
         NEW id \in Id, NEW rego \in Rego, Evaluate(h, from, id, rego),
         from = "getVersion" => id \in todo[h] /\ rego = SourceOf(id),
         from = "getPolicy" => id[2] = 0
  PROVE  ShapeInv'
<1>1. Types /\ EvaluationShape(h)
  BY DEF ShapeInv
<1> DEFINE now == [id |-> id, rego |-> rego]
<1>2. now \in [id : Id, rego : Rego] /\ now.id = id /\ now.rego = rego
  OBVIOUS
<1>3. /\ Goto(h, from, "policyExists") /\ current' = [current EXCEPT ![h] = now]
      /\ UNCHANGED <<Outside, opa, stored, request, todo, verdict, unsent, bulkFailed, reply>>
  BY DEF Evaluate
<1> HIDE DEF now
<1>4. pc[h] = from /\ pc'[h] = "policyExists" /\ current'[h] = now
  BY <1>1, <1>3 DEF Goto, Types
<1>5. now # Missing
  BY <1>2, MissingApart
<1>6. EvaluationShape(h)'
  <2>1. pc'[h] # "idle" => request'[h] \in Request
    BY <1>1, <1>3, <1>4 DEF EvaluationShape
  <2>2. todo'[h] \subseteq StoredVersions'
    BY <1>1, <1>3 DEF EvaluationShape, StoredVersions, Outside
  <2>3. CASE from = "getVersion"
    <3>1. IsResource(h) /\ id \in StoredVersions /\ rego = SourceOf(id)
      BY <1>1, <1>4, <2>3 DEF EvaluationShape
    <3>2. id \in StoredVersions' /\ rego = source'[id[1]][id[2]] /\ IsResource(h)'
      BY <1>3, <3>1 DEF StoredVersions, SourceOf, IsResource, Outside
    <3> QED
      BY <1>2, <1>4, <1>5, <2>1, <2>2, <3>2 DEF EvaluationShape, InOpa, SourceOf
  <2>4. CASE from = "getPolicy"
    <3>1. ~IsResource(h)' /\ id[2] = 0
      BY <1>1, <1>3, <1>4, <2>4 DEF EvaluationShape, IsResource
    <3> QED
      BY <1>2, <1>4, <1>5, <2>1, <2>2, <3>1 DEF EvaluationShape, InOpa
  <2> QED
    BY <2>3, <2>4
<1>7. todo' = [todo EXCEPT ![h] = todo[h]] /\ todo[h] \in SUBSET VersionId
  BY <1>1, <1>3 DEF Types
<1>8. from \in BeforeBulk \ {"idle"} /\ "policyExists" \in BeforeBulk \ {"idle"}
  BY DEF BeforeBulk, Label
<1>9. /\ opa' \in [Id -> Rego \cup {Missing}] /\ OpaShape'
      /\ \A i \in Id : opa[i] # Missing => opa'[i] # Missing
  BY <1>1, <1>3, OpaStays DEF ShapeInv, Types, Outside
<1> QED
  BY <1>2, <1>3, <1>6, <1>7, <1>8, <1>9, BeforeQueryStep

LEMMA ReadsKeepShape ==
  ASSUME NEW h \in Handler, ShapeInv, GetPolicyVersion(h) \/ GetPolicy(h)
  PROVE  ShapeInv'
<1>1. Types /\ EvaluationShape(h)
  BY DEF ShapeInv
<1>2. CASE GetPolicyVersion(h)
  <2>1. PICK id \in todo[h] : Evaluate(h, "getVersion", id, source[id[1]][id[2]])
    BY <1>2 DEF GetPolicyVersion
  <2>2. id \in StoredVersions /\ id \in Id
    BY <1>1, VersionIds DEF EvaluationShape
  <2>3. SourceOf(id) \in Rego /\ SourceOf(id) = source[id[1]][id[2]]
    BY <1>1, <2>2 DEF StoredVersions, SourceOf, Types
  <2> QED
    BY <2>1, <2>2, <2>3, EvaluateKeepsShape
<1>3. CASE GetPolicy(h)
  <2> DEFINE p == request[h].policy
  <2>1. PICK v \in Version : source[p][v] # Missing /\ Evaluate(h, "getPolicy", <<p, 0>>, source[p][v])
    BY <1>3 DEF GetPolicy
  <2>2. pc[h] = "getPolicy"
    BY <1>3 DEF GetPolicy
  <2>3. p \in Policy
    <3>1. request[h] \in Request /\ request[h].op # "EvaluateResource"
      BY <1>1, <2>2 DEF EvaluationShape, IsResource
    <3> QED
      BY <3>1 DEF Request
  <2>4. source[p][v] \in Rego
    BY <1>1, <2>1, <2>3 DEF Types
  <2> HIDE DEF p
  <2>5. <<p, 0>> \in Id /\ <<p, 0>>[2] = 0
    BY <2>3, VersionIds
  <2> QED
    BY <2>1, <2>4, <2>5, EvaluateKeepsShape
<1> QED
  BY <1>2, <1>3

----------------------------------------------------------------------------
\* OPA is asked whether it has the policy, given it, and asked for a result.
LEMMA PolicyExistsKeepsShape ==
  ASSUME NEW h \in Handler, ShapeInv, PolicyExists(h)
  PROVE  ShapeInv'
<1>1. Types /\ EvaluationShape(h) /\ OpaShape
  BY DEF ShapeInv
<1>2. PICK to \in {"query", "loadPolicy"} :
        Goto(h, "policyExists", to) /\ (to = "query" => opa[current[h].id] # Missing)
  BY DEF PolicyExists
<1>3. UNCHANGED <<Outside, opa, stored, local, reply>>
  BY DEF PolicyExists
<1>4. pc[h] = "policyExists" /\ pc'[h] = to
  BY <1>1, <1>2 DEF Goto, Types
<1>5. EvaluationShape(h)'
  <2>1. /\ current'[h] # Missing
        /\ IF IsResource(h)
           THEN current'[h].id \in StoredVersions /\ current'[h].rego = SourceOf(current[h].id)
           ELSE current'[h].id[2] = 0
    BY <1>1, <1>3, <1>4 DEF EvaluationShape, InOpa, local
  <2>2. pc'[h] # "idle" => request'[h] \in Request
    BY <1>1, <1>3, <1>4 DEF EvaluationShape, local
  <2>3. todo'[h] \subseteq StoredVersions
    BY <1>1, <1>3 DEF EvaluationShape, local
  <2> QED
    BY <1>2, <1>3, <1>4, <2>1, <2>2, <2>3
       DEF EvaluationShape, InOpa, IsResource, StoredVersions, SourceOf, Outside, local
<1>6. /\ todo' = [todo EXCEPT ![h] = todo[h]] /\ todo[h] \in SUBSET VersionId
      /\ current' = [current EXCEPT ![h] = current[h]]
      /\ current[h] \in [id : Id, rego : Rego] \cup {Missing}
  BY <1>1, <1>3 DEF Types, local
<1>7. "policyExists" \in BeforeBulk \ {"idle"} /\ to \in BeforeBulk \ {"idle"}
  BY DEF BeforeBulk, Label
<1>8. /\ opa' \in [Id -> Rego \cup {Missing}] /\ OpaShape'
      /\ \A i \in Id : opa[i] # Missing => opa'[i] # Missing
  BY <1>1, <1>3, OpaStays DEF Types, Outside
<1>9. UNCHANGED <<Outside, stored, request, verdict, unsent, bulkFailed, reply>>
  BY <1>3 DEF local
<1> QED
  BY <1>2, <1>5, <1>6, <1>7, <1>8, <1>9, BeforeQueryStep

LEMMA LoadPolicyKeepsShape ==
  ASSUME NEW h \in Handler, ShapeInv, LoadPolicy(h)
  PROVE  ShapeInv'
<1>1. Types /\ EvaluationShape(h) /\ OpaShape
  BY DEF ShapeInv
<1>2. pc[h] = "loadPolicy" /\ opa' = [opa EXCEPT ![current[h].id] = current[h].rego]
      /\ UNCHANGED source
  BY DEF LoadPolicy, Fail, End, Outside
<1>3. /\ current[h] \in [id : Id, rego : Rego] /\ current[h] # Missing
      /\ IF IsResource(h)
         THEN current[h].id \in StoredVersions /\ current[h].rego = SourceOf(current[h].id)
         ELSE current[h].id[2] = 0
  BY <1>1, <1>2 DEF Types, EvaluationShape, InOpa
<1>4. current[h].id \in Id /\ current[h].rego \in Rego /\ current[h].rego # Missing
  BY <1>3, MissingApart
<1>5. /\ opa' \in [Id -> Rego \cup {Missing}]
      /\ \A i \in Id : opa[i] # Missing => opa'[i] # Missing
      /\ opa'[current[h].id] # Missing
  BY <1>1, <1>2, <1>4 DEF Types
<1>6. OpaShape'
  <2>1. ASSUME NEW id \in VersionId, opa'[id] # Missing PROVE opa'[id] = source'[id[1]][id[2]]
    <3>1. id \in Id /\ id[2] # 0
      BY VersionIds
    <3>2. CASE id # current[h].id
      BY <1>1, <1>2, <2>1, <3>1, <3>2 DEF OpaShape, Types, SourceOf
    <3>3. CASE id = current[h].id
      <4>1. current[h].rego = source[id[1]][id[2]]
        BY <1>3, <3>1, <3>3 DEF SourceOf
      <4> QED
        BY <1>1, <1>2, <3>1, <3>3, <4>1 DEF Types
    <3> QED
      BY <3>2, <3>3
  <2> QED
    BY <2>1 DEF OpaShape, SourceOf
<1>7. CASE Goto(h, "loadPolicy", "query") /\ UNCHANGED <<Outside, stored, local, reply>>
  <2>1. pc'[h] = "query"
    BY <1>1, <1>7 DEF Goto, Types
  <2>2. EvaluationShape(h)'
    <3>1. request'[h] \in Request /\ todo'[h] \subseteq StoredVersions /\ current'[h] = current[h]
      BY <1>1, <1>2, <1>7 DEF EvaluationShape, local
    <3> QED
      BY <1>3, <1>5, <1>7, <2>1, <3>1
         DEF EvaluationShape, InOpa, IsResource, StoredVersions, SourceOf, Outside, local
  <2>3. /\ todo' = [todo EXCEPT ![h] = todo[h]] /\ todo[h] \in SUBSET VersionId
        /\ current' = [current EXCEPT ![h] = current[h]]
        /\ current[h] \in [id : Id, rego : Rego] \cup {Missing}
    BY <1>1, <1>7 DEF Types, local
  <2>4. "loadPolicy" \in BeforeBulk \ {"idle"} /\ "query" \in BeforeBulk \ {"idle"}
    BY DEF BeforeBulk, Label
  <2>5. UNCHANGED <<Outside, stored, request, verdict, unsent, bulkFailed, reply>>
    BY <1>7 DEF local
  <2> QED
    BY <1>5, <1>6, <1>7, <2>2, <2>3, <2>4, <2>5, BeforeQueryStep
<1>8. CASE End(h)
  BY <1>5, <1>6, <1>8, EndKeepsShape
<1> QED
  BY <1>7, <1>8 DEF LoadPolicy, Fail

\* A result is noted for the version whose source was asked about.
LEMMA NoteKeepsShape ==
  ASSUME NEW h \in Handler, ShapeInv, NEW pass \in BOOLEAN, Note(h, pass), IsResource(h),
         OwnsItsPackage(current[h].rego) => (pass <=> current[h].rego \in Passing)
  PROVE  ShapeInv'
<1> DEFINE id == current[h].id
           given == [i \in DOMAIN verdict[h] \cup {id} |-> IF i = id THEN pass ELSE verdict[h][i]]
<1>1. Types /\ OpaShape /\ EvaluationShape(h) /\ ResultShape(h)
  BY DEF ShapeInv
<1>2. PICK to \in {"resourceItem", "getVersion"} : Goto(h, "query", to)
  BY DEF Note
<1>3. /\ todo' = [todo EXCEPT ![h] = @ \ {id}] /\ verdict' = [verdict EXCEPT ![h] = given]
      /\ current' = [current EXCEPT ![h] = Missing]
      /\ restarted' = [restarted EXCEPT ![h] = FALSE]
      /\ UNCHANGED <<source, opa, stored, request, unsent, bulkFailed, reply>>
  BY DEF Note
<1>4. pc[h] = "query" /\ pc'[h] = to
  BY <1>1, <1>2 DEF Goto, Types
<1>5. id \in StoredVersions /\ id \in VersionId /\ current[h].rego = SourceOf(id)
  BY <1>1, <1>4, VersionIds DEF EvaluationShape, InOpa
<1>6. given \in Verdicts
  <2>1. verdict[h] \in Verdicts
    BY <1>1 DEF Types
  <2>2. PICK S \in SUBSET VersionId : verdict[h] \in [S -> BOOLEAN]
    BY <2>1 DEF Verdicts
  <2>3. given \in [S \cup {id} -> BOOLEAN] /\ S \cup {id} \in SUBSET VersionId
    BY <2>2, <1>5
  <2> HIDE DEF given, id
  <2> QED
    BY <2>3 DEF Verdicts
<1>7. /\ DOMAIN given = DOMAIN verdict[h] \cup {id} /\ (given[id] <=> pass)
      /\ \A i \in DOMAIN verdict[h] : i # id => given[i] = verdict[h][i]
  OBVIOUS
<1>8. verdict'[h] = given /\ todo'[h] = todo[h] \ {id} /\ current'[h] = Missing
  <2> HIDE DEF given, id
  <2> QED
    BY <1>1, <1>3 DEF Types
<1> HIDE DEF given, id
<1>9. Types'
  <2>1. pc' \in [Handler -> Label] /\ todo' \in [Handler -> SUBSET VersionId]
    BY <1>1, <1>2, <1>3 DEF Goto, Types, Label
  <2>2. /\ current' \in [Handler -> [id : Id, rego : Rego] \cup {Missing}]
        /\ restarted' \in [Handler -> BOOLEAN]
    BY <1>1, <1>3 DEF Types
  <2>3. verdict' \in [Handler -> Verdicts]
    BY <1>1, <1>3, <1>6 DEF Types
  <2> QED
    BY <1>1, <1>3, <2>1, <2>2, <2>3 DEF Types, stored
<1>10. EvaluationShape(h)'
  <2>1. request'[h] \in Request /\ IsResource(h)'
    BY <1>1, <1>3, <1>4 DEF EvaluationShape, IsResource
  <2>2. todo'[h] \subseteq StoredVersions'
    BY <1>1, <1>3, <1>8 DEF EvaluationShape, StoredVersions
  <2> QED
    BY <1>4, <2>1, <2>2 DEF EvaluationShape, InOpa
<1>11. ResultShape(h)'
  <2>1. ASSUME NEW i \in DOMAIN verdict'[h]
        PROVE  /\ i \in StoredVersions'
               /\ OwnsItsPackage(SourceOf(i)') =>
                    (verdict'[h][i] <=> SourceOf(i)' \in Passing)
    <3>1. SourceOf(i)' = SourceOf(i) /\ StoredVersions' = StoredVersions
      BY <1>3 DEF SourceOf, StoredVersions
    <3>2. CASE i = id
      BY <1>5, <1>7, <1>8, <3>1, <3>2
    <3>3. CASE i # id
      <4>1. i \in DOMAIN verdict[h] /\ verdict'[h][i] = verdict[h][i]
        BY <1>7, <1>8, <2>1, <3>3
      <4> QED
        BY <1>1, <3>1, <4>1 DEF ResultShape
    <3> QED
      BY <3>2, <3>3
  <2>2. /\ resourceEvaluation[h] = Missing /\ DOMAIN policyEvaluation[h] = {}
        /\ unsent[h] = {} /\ bulkFailed[h] = FALSE /\ reply[h] = Missing
    BY <1>1, <1>4 DEF ResultShape, BeforeBulk, Label
  <2>3. IsResource(h)'
    BY <1>3 DEF IsResource
  <2> QED
    BY <1>3, <1>4, <2>1, <2>2, <2>3
       DEF ResultShape, BeforeBulk, Label, stored, OwnsItsPackage, SourceOf
<1>12. \A g \in Handler \ {h} : Untouched(g) /\ restarted'[g] = restarted[g]
  BY <1>1, <1>2, <1>3 DEF Goto, Types, Untouched, stored
<1>13. OpaShape' /\ \A i \in Id : opa[i] # Missing => opa'[i] # Missing
  BY <1>1, <1>3, OpaStays
<1> QED
  BY <1>3, <1>9, <1>10, <1>11, <1>12, <1>13, StepOfHandler

\* The answer of EvaluatePolicy, or of EvaluateResource when its bulk has not failed.
LEMMA AnswerKeepsShape ==
  ASSUME NEW h \in Handler, ShapeInv, NEW from \in {"query", "policyItems"},
         NEW pass \in BOOLEAN, Answer(h, from, pass),
         from = "query" => ~IsResource(h),
         from = "policyItems" => ~bulkFailed[h] /\ unsent[h] = {} /\ pass = Pass(h)
  PROVE  ShapeInv'
<1>1. Types /\ OpaShape /\ EvaluationShape(h) /\ ResultShape(h)
  BY DEF ShapeInv
<1>2. /\ Goto(h, from, "done") /\ reply' = [reply EXCEPT ![h] = pass]
      /\ UNCHANGED <<Outside, opa, stored, local>>
  BY DEF Answer
<1>3. pc[h] = from /\ pc'[h] = "done" /\ reply'[h] = pass
  BY <1>1, <1>2 DEF Goto, Types
<1>4. Types'
  <2>1. pc' \in [Handler -> Label] /\ reply' \in [Handler -> BOOLEAN \cup {Missing}]
    BY <1>1, <1>2 DEF Goto, Types, Label
  <2> QED
    BY <1>1, <1>2, <2>1 DEF Types, Outside, stored, local
<1>5. EvaluationShape(h)'
  BY <1>1, <1>2, <1>3 DEF EvaluationShape, InOpa, StoredVersions, Outside, local
<1>6. ResultShape(h)'
  <2>1. ASSUME NEW i \in DOMAIN verdict'[h]
        PROVE  /\ i \in StoredVersions'
               /\ OwnsItsPackage(SourceOf(i)') =>
                    (verdict'[h][i] <=> SourceOf(i)' \in Passing)
    BY <1>1, <1>2, <2>1 DEF ResultShape, StoredVersions, SourceOf, Outside, local
  <2>2. Pass(h)' = Pass(h) /\ (IsResource(h)' <=> IsResource(h))
    BY <1>2 DEF Pass, IsResource, local
  <2>3. /\ ~IsResource(h) => DOMAIN verdict[h] = {}
        /\ unsent[h] \cup DOMAIN policyEvaluation[h] \subseteq DOMAIN verdict[h]
        /\ \A id \in DOMAIN policyEvaluation[h] : policyEvaluation[h][id] = verdict[h][id]
        /\ resourceEvaluation[h] # Missing => resourceEvaluation[h] = Pass(h)
    BY <1>1, <1>3 DEF ResultShape
  <2>4. IsResource(h) =>
          /\ resourceEvaluation[h] # Missing /\ pass = Pass(h)
          /\ DOMAIN policyEvaluation[h] = DOMAIN verdict[h]
    BY <1>1, <1>3 DEF ResultShape
  <2> QED
    BY <1>2, <1>3, <2>1, <2>2, <2>3, <2>4
       DEF ResultShape, BeforeBulk, stored, local, OwnsItsPackage, SourceOf
<1>7. \A g \in Handler \ {h} : Untouched(g) /\ restarted'[g] = restarted[g]
  BY <1>1, <1>2 DEF Goto, Types, Untouched, Outside, stored, local
<1>8. OpaShape' /\ \A id \in Id : opa[id] # Missing => opa'[id] # Missing
  BY <1>1, <1>2, OpaStays DEF Outside
<1> QED
  BY <1>2, <1>4, <1>5, <1>6, <1>7, <1>8, StepOfHandler DEF Outside

LEMMA QueryKeepsShape ==
  ASSUME NEW h \in Handler, ShapeInv, Query(h) \/ NoResult(h)
  PROVE  ShapeInv'
<1>1. Types /\ EvaluationShape(h)
  BY DEF ShapeInv
<1>2. CASE Query(h)
  <2>1. PICK pass \in Results(current[h].rego) :
          IF request[h].op = "EvaluateResource" THEN Note(h, pass) ELSE Answer(h, "query", pass)
    BY <1>2 DEF Query
  <2>2. pc[h] = "query" /\ Loaded(current[h].rego) # {}
    BY <1>2 DEF Query
  <2>3. current[h].rego \in Rego
    <3>1. current[h] \in [id : Id, rego : Rego]
      BY <1>1, <2>2 DEF Types, EvaluationShape, InOpa
    <3> QED
      BY <3>1
  <2>4. /\ pass \in BOOLEAN
        /\ OwnsItsPackage(current[h].rego) => (pass <=> current[h].rego \in Passing)
    BY <1>1, <2>1, <2>2, <2>3, ResultsOf
  <2>5. CASE IsResource(h)
    BY <2>1, <2>4, <2>5, NoteKeepsShape DEF IsResource
  <2>6. CASE ~IsResource(h)
    BY <2>1, <2>4, <2>6, AnswerKeepsShape DEF IsResource
  <2> QED
    BY <2>5, <2>6
<1>3. CASE NoResult(h)
  <2>1. CASE IsResource(h)
    BY <1>3, <2>1, FailKeepsShape DEF NoResult, IsResource, Fail
  <2>2. CASE ~IsResource(h)
    <3>1. Answer(h, "query", FALSE)
      BY <1>3, <2>2 DEF NoResult, IsResource
    <3> QED
      BY <2>2, <3>1, AnswerKeepsShape
  <2> QED
    BY <2>1, <2>2
<1> QED
  BY <1>2, <1>3

----------------------------------------------------------------------------
\* The bulk.  A step of it leaves the evaluation and its verdicts alone.
LEMMA BulkStep ==
  ASSUME NEW h \in Handler, ShapeInv, pc[h] \in {"resourceItem", "policyItems", "done"},
         NEW to \in {"policyItems", "done"}, pc' = [pc EXCEPT ![h] = to],
         pc[h] # "done" => to = "policyItems", pc[h] = "done" => to = "done",
         resourceEvaluation' \in [Handler -> BOOLEAN \cup {Missing}],
         policyEvaluation' \in [Handler -> Verdicts],
         unsent' \in [Handler -> SUBSET VersionId], bulkFailed' \in [Handler -> BOOLEAN],
         UNCHANGED <<Outside, opa, request, todo, current, verdict, reply>>,
         \A g \in Handler \ {h} :
           /\ resourceEvaluation'[g] = resourceEvaluation[g]
           /\ policyEvaluation'[g] = policyEvaluation[g]
           /\ unsent'[g] = unsent[g] /\ bulkFailed'[g] = bulkFailed[g],
         unsent'[h] \cup DOMAIN policyEvaluation'[h] \subseteq DOMAIN verdict[h],
         \A id \in DOMAIN policyEvaluation'[h] : policyEvaluation'[h][id] = verdict[h][id],
         resourceEvaluation'[h] # Missing => resourceEvaluation'[h] = Pass(h),
         to = "policyItems" /\ ~bulkFailed'[h] =>
           /\ resourceEvaluation'[h] # Missing
           /\ unsent'[h] \cup DOMAIN policyEvaluation'[h] = DOMAIN verdict[h],
         to = "done" => UNCHANGED <<resourceEvaluation, policyEvaluation>>
  PROVE  ShapeInv'
<1>1. Types /\ OpaShape /\ EvaluationShape(h) /\ ResultShape(h)
  BY DEF ShapeInv
<1>2. pc'[h] = to
  BY <1>1 DEF Types
<1>3. Types'
  <2>1. pc' \in [Handler -> Label]
    BY <1>1 DEF Types, Label
  <2> QED
    BY <1>1, <2>1 DEF Types, Outside
<1>4. EvaluationShape(h)'
  BY <1>1, <1>2 DEF EvaluationShape, InOpa, IsResource, StoredVersions, Outside
<1>5. ResultShape(h)'
  <2>1. ASSUME NEW i \in DOMAIN verdict'[h]
        PROVE  /\ i \in StoredVersions'
               /\ OwnsItsPackage(SourceOf(i)') =>
                    (verdict'[h][i] <=> SourceOf(i)' \in Passing)
    BY <1>1, <2>1 DEF ResultShape, StoredVersions, SourceOf, Outside
  <2>2. Pass(h)' = Pass(h) /\ (IsResource(h)' <=> IsResource(h))
    BY DEF Pass, IsResource
  <2>3. /\ ~IsResource(h) => DOMAIN verdict[h] = {}
        /\ to # "done" => reply[h] = Missing
    BY <1>1 DEF ResultShape
  <2>4. to = "done" /\ IsResource(h) =>
          /\ resourceEvaluation[h] # Missing /\ reply[h] = Pass(h)
          /\ DOMAIN policyEvaluation[h] = DOMAIN verdict[h]
    BY <1>1 DEF ResultShape
  <2> QED
    BY <1>2, <2>1, <2>2, <2>3, <2>4
       DEF ResultShape, BeforeBulk, OwnsItsPackage, SourceOf
<1>6. \A g \in Handler \ {h} : Untouched(g) /\ restarted'[g] = restarted[g]
  BY <1>1 DEF Types, Untouched, Outside
<1>7. OpaShape' /\ \A id \in Id : opa[id] # Missing => opa'[id] # Missing
  BY <1>1, OpaStays DEF Outside
<1> QED
  BY <1>3, <1>4, <1>5, <1>6, <1>7, StepOfHandler DEF Outside

LEMMA VerdictDomain ==
  ASSUME NEW h \in Handler, ShapeInv
  PROVE  DOMAIN verdict[h] \in SUBSET VersionId
<1>1. verdict[h] \in Verdicts
  BY DEF ShapeInv, Types
<1> QED
  BY <1>1 DEF Verdicts

LEMMA WriteResourceKeepsShape ==
  ASSUME NEW h \in Handler, ShapeInv, WriteResourceEvaluation(h)
  PROVE  ShapeInv'
<1>1. Types /\ ResultShape(h)
  BY DEF ShapeInv
<1>2. /\ pc[h] = "resourceItem" /\ pc' = [pc EXCEPT ![h] = "policyItems"]
      /\ resourceEvaluation' = [resourceEvaluation EXCEPT ![h] = Pass(h)]
      /\ unsent' = [unsent EXCEPT ![h] = DOMAIN verdict[h]]
      /\ UNCHANGED <<Outside, opa, policyEvaluation, request, todo, current, verdict,
                     bulkFailed, reply>>
  BY DEF WriteResourceEvaluation, Goto
<1>3. DOMAIN policyEvaluation[h] = {}
  BY <1>1, <1>2 DEF ResultShape, BeforeBulk, Label
<1>4. Pass(h) \in BOOLEAN /\ Pass(h) # Missing
  BY MissingApart DEF Pass
<1>5. resourceEvaluation'[h] = Pass(h) /\ unsent'[h] = DOMAIN verdict[h]
  BY <1>1, <1>2 DEF Types
<1>6. /\ resourceEvaluation' \in [Handler -> BOOLEAN \cup {Missing}]
      /\ unsent' \in [Handler -> SUBSET VersionId]
  BY <1>1, <1>2, <1>4, VerdictDomain DEF Types
<1>7. policyEvaluation' \in [Handler -> Verdicts] /\ bulkFailed' \in [Handler -> BOOLEAN]
  BY <1>1, <1>2 DEF Types
<1>8. \A g \in Handler \ {h} :
        /\ resourceEvaluation'[g] = resourceEvaluation[g]
        /\ policyEvaluation'[g] = policyEvaluation[g]
        /\ unsent'[g] = unsent[g] /\ bulkFailed'[g] = bulkFailed[g]
  BY <1>1, <1>2 DEF Types
<1>9. /\ unsent'[h] \cup DOMAIN policyEvaluation'[h] = DOMAIN verdict[h]
      /\ DOMAIN policyEvaluation'[h] = {}
  BY <1>2, <1>3, <1>5
<1> QED
  BY <1>2, <1>4, <1>5, <1>6, <1>7, <1>8, <1>9, BulkStep

LEMMA WritePolicyKeepsShape ==
  ASSUME NEW h \in Handler, ShapeInv, WritePolicyEvaluation(h)
  PROVE  ShapeInv'
<1>1. Types /\ ResultShape(h)
  BY DEF ShapeInv
<1>2. PICK id \in unsent[h] :
        /\ policyEvaluation' = [policyEvaluation EXCEPT ![h] =
             [i \in DOMAIN @ \cup {id} |-> IF i = id THEN verdict[h][id] ELSE @[i]]]
        /\ unsent' = [unsent EXCEPT ![h] = @ \ {id}]
  BY DEF WritePolicyEvaluation
<1>3. /\ pc[h] = "policyItems"
      /\ UNCHANGED <<Outside, opa, resourceEvaluation, pc, request, todo, current, verdict,
                     bulkFailed, reply>>
  BY DEF WritePolicyEvaluation
<1> DEFINE given == [i \in DOMAIN policyEvaluation[h] \cup {id} |->
                       IF i = id THEN verdict[h][id] ELSE policyEvaluation[h][i]]
<1>4. id \in DOMAIN verdict[h] /\ id \in VersionId
  BY <1>1, VerdictDomain DEF ResultShape
<1>5. given \in Verdicts
  <2>1. policyEvaluation[h] \in Verdicts /\ verdict[h] \in Verdicts
    BY <1>1 DEF Types
  <2>2. PICK S \in SUBSET VersionId : policyEvaluation[h] \in [S -> BOOLEAN]
    BY <2>1 DEF Verdicts
  <2>3. verdict[h][id] \in BOOLEAN
    <3>1. PICK D \in SUBSET VersionId : verdict[h] \in [D -> BOOLEAN]
      BY <2>1 DEF Verdicts
    <3> QED
      BY <3>1, <1>4
  <2>4. given \in [S \cup {id} -> BOOLEAN] /\ S \cup {id} \in SUBSET VersionId
    BY <2>2, <2>3, <1>4
  <2> HIDE DEF given
  <2> QED
    BY <2>4 DEF Verdicts
<1>6. policyEvaluation'[h] = given /\ unsent'[h] = unsent[h] \ {id}
  <2>1. policyEvaluation' = [policyEvaluation EXCEPT ![h] = given]
    BY <1>2
  <2> HIDE DEF given
  <2> QED
    BY <1>1, <1>2, <2>1 DEF Types
<1>7. /\ DOMAIN given = DOMAIN policyEvaluation[h] \cup {id}
      /\ \A i \in DOMAIN given : given[i] = verdict[h][i]
  BY <1>1 DEF ResultShape
<1>8. policyEvaluation' \in [Handler -> Verdicts]
  <2>1. policyEvaluation' = [policyEvaluation EXCEPT ![h] = given]
    BY <1>2
  <2> HIDE DEF given
  <2> QED
    BY <1>1, <1>5, <2>1 DEF Types
<1> HIDE DEF given
<1>9. /\ unsent' \in [Handler -> SUBSET VersionId]
      /\ resourceEvaluation' \in [Handler -> BOOLEAN \cup {Missing}]
      /\ bulkFailed' \in [Handler -> BOOLEAN]
      /\ pc' = [pc EXCEPT ![h] = "policyItems"]
  BY <1>1, <1>2, <1>3 DEF Types
<1>10. \A g \in Handler \ {h} :
        /\ resourceEvaluation'[g] = resourceEvaluation[g]
        /\ policyEvaluation'[g] = policyEvaluation[g]
        /\ unsent'[g] = unsent[g] /\ bulkFailed'[g] = bulkFailed[g]
  BY <1>1, <1>2, <1>3 DEF Types
<1>11. /\ unsent'[h] \cup DOMAIN policyEvaluation'[h]
            = unsent[h] \cup DOMAIN policyEvaluation[h]
       /\ unsent[h] \cup DOMAIN policyEvaluation[h] \subseteq DOMAIN verdict[h]
  BY <1>1, <1>2, <1>6, <1>7 DEF ResultShape
<1>12. /\ resourceEvaluation'[h] # Missing => resourceEvaluation'[h] = Pass(h)
       /\ ~bulkFailed'[h] =>
            /\ resourceEvaluation'[h] # Missing
            /\ unsent'[h] \cup DOMAIN policyEvaluation'[h] = DOMAIN verdict[h]
  BY <1>1, <1>3, <1>11 DEF ResultShape
<1> QED
  BY <1>3, <1>6, <1>7, <1>8, <1>9, <1>10, <1>11, <1>12, BulkStep

LEMMA ItemFailsKeepsShape ==
  ASSUME NEW h \in Handler, ShapeInv, ItemFails(h)
  PROVE  ShapeInv'
<1>1. Types /\ ResultShape(h)
  BY DEF ShapeInv
<1>2. /\ bulkFailed' = [bulkFailed EXCEPT ![h] = TRUE]
      /\ UNCHANGED <<Outside, opa, stored, request, todo, current, verdict, reply>>
  BY DEF ItemFails
<1>3. PICK left \in SUBSET DOMAIN verdict[h], to \in {"policyItems", "done"} :
        /\ pc[h] \in {"resourceItem", "policyItems", "done"}
        /\ pc' = [pc EXCEPT ![h] = to] /\ unsent' = [unsent EXCEPT ![h] = left]
        /\ pc[h] # "done" => to = "policyItems"
        /\ pc[h] = "done" => to = "done"
  <2>1. CASE Goto(h, "resourceItem", "policyItems") /\ unsent' = [unsent EXCEPT ![h] = DOMAIN verdict[h]]
    BY <2>1 DEF Goto
  <2>2. CASE /\ \E id \in unsent[h] : unsent' = [unsent EXCEPT ![h] = @ \ {id}]
             /\ UNCHANGED pc
    <3>1. PICK id \in unsent[h] : unsent' = [unsent EXCEPT ![h] = unsent[h] \ {id}]
      BY <2>2
    <3>2. pc[h] \in {"policyItems", "done"} /\ unsent[h] \subseteq DOMAIN verdict[h]
      BY <1>1, <3>1 DEF ResultShape, BeforeBulk, Types
    <3>3. pc' = [pc EXCEPT ![h] = pc[h]]
      BY <1>1, <2>2 DEF Types
    <3> QED
      BY <3>1, <3>2, <3>3
  <2> QED
    BY <2>1, <2>2 DEF ItemFails
<1>4. bulkFailed'[h] /\ unsent'[h] = left
  BY <1>1, <1>2, <1>3 DEF Types
<1>5. left \in SUBSET VersionId
  BY <1>3, VerdictDomain
<1>6. /\ unsent' \in [Handler -> SUBSET VersionId] /\ bulkFailed' \in [Handler -> BOOLEAN]
      /\ resourceEvaluation' \in [Handler -> BOOLEAN \cup {Missing}]
      /\ policyEvaluation' \in [Handler -> Verdicts]
  BY <1>1, <1>2, <1>3, <1>5 DEF Types, stored
<1>7. \A g \in Handler \ {h} :
        /\ resourceEvaluation'[g] = resourceEvaluation[g]
        /\ policyEvaluation'[g] = policyEvaluation[g]
        /\ unsent'[g] = unsent[g] /\ bulkFailed'[g] = bulkFailed[g]
  BY <1>1, <1>2, <1>3 DEF Types, stored
<1>8. /\ unsent'[h] \cup DOMAIN policyEvaluation'[h] \subseteq DOMAIN verdict[h]
      /\ \A id \in DOMAIN policyEvaluation'[h] : policyEvaluation'[h][id] = verdict[h][id]
      /\ resourceEvaluation'[h] # Missing => resourceEvaluation'[h] = Pass(h)
  BY <1>1, <1>2, <1>4 DEF ResultShape, stored
<1>9. UNCHANGED <<resourceEvaluation, policyEvaluation>>
  BY <1>2 DEF stored
<1> QED
  BY <1>2, <1>3, <1>4, <1>6, <1>7, <1>8, <1>9, BulkStep

LEMMA BulkReplyKeepsShape ==
  ASSUME NEW h \in Handler, ShapeInv, BulkReply(h)
  PROVE  ShapeInv'
<1>1. CASE bulkFailed[h]
  BY <1>1, FailKeepsShape DEF BulkReply, Fail
<1>2. CASE ~bulkFailed[h]
  <2>1. Answer(h, "policyItems", Pass(h)) /\ unsent[h] = {} /\ Pass(h) \in BOOLEAN
    BY <1>2 DEF BulkReply, Pass
  <2> QED
    BY <1>2, <2>1, AnswerKeepsShape
<1> QED
  BY <1>1, <1>2

----------------------------------------------------------------------------
\* A version is stored under a number that has none.
LEMMA StoreKeepsShape == ShapeInv /\ StoreVersion => ShapeInv'
<1> SUFFICES ASSUME ShapeInv, StoreVersion PROVE ShapeInv'
  OBVIOUS
<1>1. Types /\ OpaShape
  BY DEF ShapeInv
<1>2. PICK p \in Policy, rego \in Rego, v \in Version :
        /\ \A used \in Version : source[p][used] # Missing => used < v
        /\ source' = [source EXCEPT ![p][v] = rego]
  BY DEF StoreVersion
<1>3. UNCHANGED <<opa, stored, pc, local, reply, restarted>>
  BY DEF StoreVersion
<1>4. SourcesKept
  <2> SUFFICES ASSUME NEW id \in StoredVersions
               PROVE  source'[id[1]][id[2]] = source[id[1]][id[2]]
    BY DEF SourcesKept, SourceOf
  <2>1. id[1] \in Policy /\ id[2] \in Version /\ source[id[1]][id[2]] # Missing
    BY DEF StoredVersions
  <2>2. id[1] # p \/ id[2] # v
    <3>1. ~(v < v)
      BY DEF Version
    <3> QED
      BY <1>2, <2>1, <3>1
  <2>3. source[id[1]] \in [Version -> Rego \cup {Missing}]
    BY <1>1, <2>1 DEF Types
  <2> QED
    BY <1>1, <1>2, <2>1, <2>2, <2>3 DEF Types
<1>5. Types'
  <2>1. source[p] \in [Version -> Rego \cup {Missing}]
    BY <1>1 DEF Types
  <2>2. source' \in [Policy -> [Version -> Rego \cup {Missing}]]
    BY <1>1, <1>2, <2>1 DEF Types
  <2> QED
    BY <1>1, <1>3, <2>2 DEF Types, stored, local
<1>6. OpaShape'
  <2> SUFFICES ASSUME NEW id \in VersionId, opa[id] # Missing
               PROVE  opa[id] = source'[id[1]][id[2]]
    BY <1>3 DEF OpaShape, SourceOf
  <2>1. opa[id] = source[id[1]][id[2]]
    BY <1>1 DEF OpaShape, SourceOf
  <2>2. id \in StoredVersions
    BY <2>1 DEF StoredVersions, VersionId
  <2> QED
    BY <1>4, <2>1, <2>2 DEF SourcesKept, SourceOf
<1>7. ASSUME NEW h \in Handler PROVE EvaluationShape(h)' /\ ResultShape(h)'
  <2>1. Untouched(h) /\ LoadedKept(h)
    BY <1>3 DEF Untouched, LoadedKept, stored, local
  <2> QED
    BY <1>4, <2>1, OthersKeepShape
<1> QED
  BY <1>5, <1>6, <1>7 DEF ShapeInv

\* OPA forgets, and an RPC that was about to query it is marked.
LEMMA RestartKeepsShape == ShapeInv /\ OpaRestart => ShapeInv'
<1> SUFFICES ASSUME ShapeInv, OpaRestart PROVE ShapeInv'
  OBVIOUS
<1>1. Types
  BY DEF ShapeInv
<1>2. /\ opa' = [id \in Id |-> Missing] /\ restarted' = [h \in Handler |-> pc[h] = "query"]
      /\ UNCHANGED <<source, stored, pc, local, reply>>
  BY DEF OpaRestart
<1>3. Types'
  <2>1. opa' \in [Id -> Rego \cup {Missing}] /\ restarted' \in [Handler -> BOOLEAN]
    BY <1>2
  <2> QED
    BY <1>1, <1>2, <2>1 DEF Types, stored, local
<1>4. OpaShape'
  BY <1>2, VersionIds DEF OpaShape
<1>5. SourcesKept
  BY <1>2 DEF SourcesKept, SourceOf
<1>6. ASSUME NEW h \in Handler PROVE EvaluationShape(h)' /\ ResultShape(h)'
  <2>1. Untouched(h) /\ LoadedKept(h)
    BY <1>2 DEF Untouched, LoadedKept, stored, local
  <2> QED
    BY <1>5, <2>1, OthersKeepShape
<1> QED
  BY <1>3, <1>4, <1>6 DEF ShapeInv

LEMMA ShapeStep == ShapeInv /\ [Next]_vars => ShapeInv'
<1> SUFFICES ASSUME ShapeInv, [Next]_vars PROVE ShapeInv'
  OBVIOUS
<1>1. ASSUME NEW h \in Handler, Serve(h) PROVE ShapeInv'
  <2>1. CASE EvaluateResource(h) \/ EvaluatePolicy(h)
    BY <2>1, BeginKeepsShape
  <2>2. CASE ListPolicyAssignments(h)
    BY <2>2, ListKeepsShape
  <2>3. CASE GetPolicyVersion(h) \/ GetPolicy(h)
    BY <2>3, ReadsKeepShape
  <2>4. CASE NoAssignments(h) \/ VersionNotFound(h) \/ Contradiction(h) \/ Finish(h)
    BY <2>4, EndsKeepShape
  <2>5. CASE PolicyExists(h)
    BY <2>5, PolicyExistsKeepsShape
  <2>6. CASE LoadPolicy(h)
    BY <2>6, LoadPolicyKeepsShape
  <2>7. CASE Query(h) \/ NoResult(h)
    BY <2>7, QueryKeepsShape
  <2>8. CASE WriteResourceEvaluation(h)
    BY <2>8, WriteResourceKeepsShape
  <2>9. CASE WritePolicyEvaluation(h)
    BY <2>9, WritePolicyKeepsShape
  <2>10. CASE ItemFails(h)
    BY <2>10, ItemFailsKeepsShape
  <2>11. CASE BulkReply(h)
    BY <2>11, BulkReplyKeepsShape
  <2> QED
    BY <1>1, <2>1, <2>2, <2>3, <2>4, <2>5, <2>6, <2>7, <2>8, <2>9, <2>10, <2>11 DEF Serve
<1>2. CASE StoreVersion
  BY <1>2, StoreKeepsShape
<1>3. CASE OpaRestart
  BY <1>3, RestartKeepsShape
<1>4. CASE UNCHANGED vars
  <2>1. UNCHANGED <<source, opa, resourceEvaluation, policyEvaluation, pc, request, todo,
                    current, verdict, unsent, bulkFailed, reply, restarted>>
    BY <1>4 DEF vars, stored, local
  <2>2. ASSUME NEW h \in Handler PROVE EvaluationShape(h)' /\ ResultShape(h)'
    <3>1. Untouched(h) /\ SourcesKept /\ LoadedKept(h)
      BY <2>1 DEF Untouched, SourcesKept, LoadedKept, SourceOf
    <3> QED
      BY <3>1, OthersKeepShape
  <2>3. Types' /\ OpaShape'
    <3>1. OpaShape'
      BY <2>1, OpaStays DEF ShapeInv
    <3> QED
      BY <2>1, <3>1 DEF ShapeInv, Types
  <2> QED
    BY <2>2, <2>3 DEF ShapeInv
<1> QED
  BY <1>1, <1>2, <1>3, <1>4 DEF Next

LEMMA ShapeAlways == Spec => []ShapeInv
  BY ShapeInit, ShapeStep, PTL DEF Spec

----------------------------------------------------------------------------
\* Every variable has its type.
THEOREM TypeCorrect == Spec => []TypeOK
<1>1. ShapeInv => TypeOK
  <2> SUFFICES ASSUME ShapeInv PROVE TypeOK
    OBVIOUS
  <2>1. Types
    BY DEF ShapeInv
  <2>2. ASSUME NEW h \in Handler
        PROVE  /\ request[h] \in Request \cup {Missing}
               /\ todo[h] \subseteq Policy \X Version /\ unsent[h] \subseteq DOMAIN verdict[h]
               /\ pc[h] \in InOpa => current[h] \in [id : Id, rego : Rego]
               /\ policyEvaluation[h] \in Verdicts
               /\ bulkFailed[h] \in BOOLEAN /\ restarted[h] \in BOOLEAN
               /\ reply[h] \in BOOLEAN \cup {Missing}
    <3>1. EvaluationShape(h) /\ ResultShape(h)
      BY DEF ShapeInv
    <3>2. pc[h] \in InOpa => current[h] \in [id : Id, rego : Rego]
      BY <2>1, <3>1 DEF EvaluationShape, Types
    <3>3. unsent[h] \subseteq DOMAIN verdict[h]
      BY <3>1 DEF ResultShape
    <3> QED
      BY <2>1, <3>2, <3>3 DEF Types, VersionId
  <2> QED
    BY <2>1, <2>2 DEF TypeOK, Types, InOpa, Verdicts, VersionId
<1> QED
  BY <1>1, ShapeAlways, PTL

\* The result that evaluateResource stores for a version (manager.go:184) is the one its
\* own source has, whatever else OPA holds, if no other source declares its package.
THEOREM StoredVerdicts == Spec => []VerdictOfItsVersion
<1>1. ShapeInv => VerdictOfItsVersion
  <2> SUFFICES ASSUME ShapeInv, NEW h \in Handler, NEW id \in DOMAIN policyEvaluation[h],
                      OwnsItsPackage(SourceOf(id))
               PROVE  policyEvaluation[h][id] <=> SourceOf(id) \in Passing
    BY DEF VerdictOfItsVersion, SourceOf
  <2>1. ResultShape(h)
    BY DEF ShapeInv
  <2>2. id \in DOMAIN verdict[h] /\ policyEvaluation[h][id] = verdict[h][id]
    BY <2>1 DEF ResultShape
  <2> QED
    BY <2>1, <2>2 DEF ResultShape
<1> QED
  BY <1>1, ShapeAlways, PTL

\* A stored resource evaluation that passes has no stored child that fails, however far
\* its bulk has come and whichever items of it failed.
THEOREM PassedThroughout == Spec => []PassMeansAllPass
<1>1. ShapeInv => PassMeansAllPass
  <2> SUFFICES ASSUME ShapeInv, NEW h \in Handler, resourceEvaluation[h] = TRUE,
                      NEW id \in DOMAIN policyEvaluation[h]
               PROVE  policyEvaluation[h][id]
    BY DEF PassMeansAllPass
  <2>1. ResultShape(h)
    BY DEF ShapeInv
  <2>2. Pass(h)
    BY <2>1, MissingApart DEF ResultShape
  <2>3. id \in DOMAIN verdict[h] /\ policyEvaluation[h][id] = verdict[h][id]
    BY <2>1 DEF ResultShape
  <2> QED
    BY <2>2, <2>3 DEF Pass
<1> QED
  BY <1>1, ShapeAlways, PTL

\* When evaluateResource answers OK its bulk is stored, all of it.
THEOREM AnsweredIsStored == Spec => []AcknowledgedEvaluationStored
<1>1. ShapeInv => AcknowledgedEvaluationStored
  <2> SUFFICES ASSUME ShapeInv, NEW h \in Handler, reply[h] # Missing, IsResource(h)
               PROVE  resourceEvaluation[h] = reply[h] /\ policyEvaluation[h] = verdict[h]
    BY DEF AcknowledgedEvaluationStored, IsResource
  <2>1. Types /\ ResultShape(h)
    BY DEF ShapeInv
  <2>2. /\ pc[h] = "done" /\ resourceEvaluation[h] = Pass(h) /\ reply[h] = Pass(h)
        /\ DOMAIN policyEvaluation[h] = DOMAIN verdict[h]
        /\ \A id \in DOMAIN policyEvaluation[h] : policyEvaluation[h][id] = verdict[h][id]
    BY <2>1 DEF ResultShape
  <2>3. PICK S \in SUBSET VersionId : policyEvaluation[h] \in [S -> BOOLEAN]
    BY <2>1 DEF Types, Verdicts
  <2>4. PICK D \in SUBSET VersionId : verdict[h] \in [D -> BOOLEAN]
    BY <2>1 DEF Types, Verdicts
  <2> QED
    BY <2>2, <2>3, <2>4
<1> QED
  BY <1>1, ShapeAlways, PTL

\* OPA has a result for what InitializePolicy made sure of, unless it restarted: then
\* the dereference of Result (manager.go:178) does not panic.
THEOREM PanicsOnlyOnRestart == Spec => []OnlyRestartsPanic
<1>1. ShapeInv => OnlyRestartsPanic
  <2> SUFFICES ASSUME ShapeInv, NEW h \in Handler, pc[h] = "query", IsResource(h), ~restarted[h]
               PROVE  Loaded(current[h].rego) # {}
    BY DEF OnlyRestartsPanic, IsResource
  <2>1. EvaluationShape(h) /\ OpaShape
    BY DEF ShapeInv
  <2>2. PICK id \in StoredVersions : id = current[h].id /\ current[h].rego = SourceOf(id)
    BY <2>1 DEF EvaluationShape, InOpa
  <2>3. id \in VersionId /\ id \in Id /\ opa[id] # Missing
    BY <2>1, <2>2, VersionIds DEF EvaluationShape
  <2>4. opa[id] = current[h].rego
    BY <2>1, <2>2, <2>3 DEF OpaShape
  <2>5. id \in {i \in Id : opa[i] # Missing /\ PackageOf[opa[i]] = PackageOf[current[h].rego]}
    BY <2>3, <2>4
  <2> QED
    BY <2>5 DEF Loaded
<1> QED
  BY <1>1, ShapeAlways, PTL

----------------------------------------------------------------------------
(***************************************************************************)
(* What a Get or a listing shows.                                          *)
(***************************************************************************)

\* What a search sees of the documents of h, and what has been found of them, is what h
\* has stored or a part of it; an answer OK has waited until it is all of it.
SearchShape(h) ==
  /\ searchable[h].resource # Missing => searchable[h].resource = resourceEvaluation[h]
  /\ Children(h) \subseteq DOMAIN policyEvaluation[h]
  /\ \A id \in Children(h) : searchable[h].policies[id] = policyEvaluation[h][id]
  /\ found[h] # Missing => found[h] = resourceEvaluation[h]
  /\ WaitsForRefresh /\ pc[h] = "done" /\ IsResource(h) => searchable[h] = Documents(h)

ListingInv == ShapeInv /\ ListingTypeOK /\ \A h \in Handler : SearchShape(h)

\* The searches and the refresh leave the RPCs alone: every behaviour is one of
\* Evaluation, and what holds there holds here.
THEOREM ListingImplementsEvaluation == ListingSpec => Spec
<1>1. ListingInit => Init
  BY DEF ListingInit
<1>2. [ListingNext]_listingVars => [Next]_vars
  BY DEF ListingNext, Rpc, Outsider, Refresh, ListResourceEvaluations, GetResourceEvaluation,
     SearchPolicyEvaluations, Next, listingVars
<1> QED
  BY <1>1, <1>2, PTL DEF ListingSpec, Spec

\* What a step of h does to documents: it leaves those of the others alone, and adds to
\* those of h or, at the end of the RPC, forgets them.
Grown(h) ==
  /\ \A g \in Handler \ {h} :
       /\ resourceEvaluation'[g] = resourceEvaluation[g]
       /\ policyEvaluation'[g] = policyEvaluation[g]
       /\ request'[g] = request[g] /\ pc'[g] = pc[g]
  /\ pc'[h] = "idle" => resourceEvaluation'[h] = Missing /\ policyEvaluation'[h] = None
  /\ pc'[h] # "idle" =>
       /\ resourceEvaluation[h] # Missing => resourceEvaluation'[h] = resourceEvaluation[h]
       /\ DOMAIN policyEvaluation[h] \subseteq DOMAIN policyEvaluation'[h]
       /\ \A id \in DOMAIN policyEvaluation[h] :
            policyEvaluation'[h][id] = policyEvaluation[h][id]
  /\ pc'[h] = "done" /\ IsResource(h)' =>
       /\ pc[h] \in {"policyItems", "done"}
       /\ resourceEvaluation'[h] = resourceEvaluation[h]
       /\ policyEvaluation'[h] = policyEvaluation[h]

LEMMA EndForgets ==
  ASSUME Types, NEW h \in Handler, End(h)
  PROVE  Grown(h)
<1>1. /\ pc'[h] = "idle" /\ resourceEvaluation'[h] = Missing /\ policyEvaluation'[h] = None
  BY DEF End, Types
<1>2. \A g \in Handler \ {h} :
        /\ resourceEvaluation'[g] = resourceEvaluation[g]
        /\ policyEvaluation'[g] = policyEvaluation[g]
        /\ request'[g] = request[g] /\ pc'[g] = pc[g]
  BY DEF End, Types
<1> QED
  BY <1>1, <1>2 DEF Grown

\* Steps that store nothing.
LEMMA QuietGrows ==
  ASSUME Types, NEW h \in Handler, NEW from, NEW to \in Label \ {"idle"}, Goto(h, from, to),
         UNCHANGED stored, \A g \in Handler \ {h} : request'[g] = request[g],
         to = "done" /\ IsResource(h)' => from = "policyItems"
  PROVE  Grown(h)
<1>1. pc[h] = from /\ pc'[h] = to /\ \A g \in Handler \ {h} : pc'[g] = pc[g]
  BY DEF Goto, Types
<1> QED
  BY <1>1 DEF Grown, stored

LEMMA DocumentsGrow ==
  ASSUME ShapeInv, NEW h \in Handler, Serve(h)
  PROVE  Grown(h)
<1>1. Types /\ EvaluationShape(h) /\ ResultShape(h)
  BY DEF ShapeInv
<1>2. CASE EvaluateResource(h) \/ EvaluatePolicy(h)
  <2>1. \A g \in Handler \ {h} : request'[g] = request[g]
    BY <1>1, <1>2 DEF EvaluateResource, EvaluatePolicy, Types
  <2>2. UNCHANGED stored
    BY <1>2 DEF EvaluateResource, EvaluatePolicy
  <2>3. Goto(h, "idle", "listAssignments") \/ Goto(h, "idle", "getPolicy")
    BY <1>2 DEF EvaluateResource, EvaluatePolicy
  <2> QED
    BY <1>1, <2>1, <2>2, <2>3, QuietGrows DEF Label
<1>3. ASSUME \/ ListPolicyAssignments(h) \/ GetPolicyVersion(h) \/ GetPolicy(h)
             \/ PolicyExists(h)
      PROVE  Grown(h)
  <2>1. UNCHANGED <<stored, request>>
    BY <1>3 DEF ListPolicyAssignments, GetPolicyVersion, GetPolicy, Evaluate, PolicyExists, local
  <2>2. \E from, to \in Label \ {"idle", "done"} : Goto(h, from, to)
    BY <1>3 DEF ListPolicyAssignments, GetPolicyVersion, GetPolicy, Evaluate, PolicyExists, Label
  <2> QED
    BY <1>1, <2>1, <2>2, QuietGrows
<1>4. CASE NoAssignments(h) \/ VersionNotFound(h) \/ Contradiction(h) \/ Finish(h)
  BY <1>1, <1>4, EndForgets DEF NoAssignments, VersionNotFound, Contradiction, Finish, Fail
<1>5. CASE LoadPolicy(h)
  <2>1. CASE Goto(h, "loadPolicy", "query") /\ UNCHANGED <<Outside, stored, local, reply>>
    BY <1>1, <2>1, QuietGrows DEF Label, local
  <2>2. CASE Fail(h, "loadPolicy")
    BY <1>1, <2>2, EndForgets DEF Fail
  <2> QED
    BY <1>5, <2>1, <2>2 DEF LoadPolicy
<1>6. ASSUME NEW pass, Note(h, pass) PROVE Grown(h)
  <2>1. UNCHANGED <<stored, request>>
    BY <1>6 DEF Note
  <2>2. \E to \in {"resourceItem", "getVersion"} : Goto(h, "query", to)
    BY <1>6 DEF Note
  <2> QED
    BY <1>1, <2>1, <2>2, QuietGrows DEF Label
<1>7. ASSUME NEW from, NEW pass, Answer(h, from, pass), IsResource(h) => from = "policyItems"
      PROVE  Grown(h)
  <2>1. UNCHANGED <<stored, request>> /\ Goto(h, from, "done")
    BY <1>7 DEF Answer, local
  <2> QED
    BY <1>1, <1>7, <2>1, QuietGrows DEF Label, IsResource
<1>8. CASE Query(h)
  BY <1>6, <1>7, <1>8 DEF Query, IsResource
<1>9. CASE NoResult(h)
  BY <1>1, <1>7, <1>9, EndForgets DEF NoResult, IsResource, Fail
<1>10. CASE WriteResourceEvaluation(h)
  <2>1. pc[h] = "resourceItem" /\ pc'[h] = "policyItems" /\ \A g \in Handler \ {h} : pc'[g] = pc[g]
    BY <1>1, <1>10 DEF WriteResourceEvaluation, Goto, Types
  <2>2. resourceEvaluation[h] = Missing
    BY <1>1, <2>1 DEF ResultShape, BeforeBulk, Label
  <2>3. /\ UNCHANGED <<policyEvaluation, request>>
        /\ \A g \in Handler \ {h} : resourceEvaluation'[g] = resourceEvaluation[g]
    BY <1>1, <1>10 DEF WriteResourceEvaluation, Types
  <2> QED
    BY <2>1, <2>2, <2>3 DEF Grown
<1>11. CASE WritePolicyEvaluation(h)
  <2>1. pc[h] = "policyItems" /\ UNCHANGED <<resourceEvaluation, request, pc>>
    BY <1>11 DEF WritePolicyEvaluation
  <2>2. PICK id \in unsent[h] : policyEvaluation' = [policyEvaluation EXCEPT ![h] =
          [i \in DOMAIN @ \cup {id} |-> IF i = id THEN verdict[h][id] ELSE @[i]]]
    BY <1>11 DEF WritePolicyEvaluation
  <2>3. /\ \A g \in Handler \ {h} : policyEvaluation'[g] = policyEvaluation[g]
        /\ policyEvaluation'[h] = [i \in DOMAIN policyEvaluation[h] \cup {id} |->
                                     IF i = id THEN verdict[h][id] ELSE policyEvaluation[h][i]]
    BY <1>1, <2>2 DEF Types
  <2>4. \A i \in DOMAIN policyEvaluation[h] : policyEvaluation[h][i] = verdict[h][i]
    BY <1>1 DEF ResultShape
  <2> QED
    BY <2>1, <2>3, <2>4 DEF Grown
<1>12. CASE ItemFails(h)
  <2>1. UNCHANGED <<stored, request>>
    BY <1>12 DEF ItemFails
  <2>2. CASE UNCHANGED pc /\ unsent[h] # {}
    <3>1. pc[h] = "policyItems" \/ pc[h] = "done"
      BY <1>1, <2>2 DEF ResultShape, BeforeBulk, Label, Types
    <3> QED
      BY <2>1, <2>2, <3>1 DEF Grown, stored
  <2>3. CASE Goto(h, "resourceItem", "policyItems")
    BY <1>1, <2>1, <2>3, QuietGrows DEF Label
  <2> QED
    BY <1>12, <2>2, <2>3 DEF ItemFails
<1>13. CASE BulkReply(h)
  BY <1>1, <1>7, <1>13, EndForgets DEF BulkReply, Fail
<1> QED
  BY <1>2, <1>3, <1>4, <1>5, <1>8, <1>9, <1>10, <1>11, <1>12, <1>13 DEF Serve

\* An RPC that is answered keeps its message until it is over.
LEMMA DoneStays ==
  ASSUME ShapeInv, NEW h \in Handler, Serve(h), pc[h] = "done", pc'[h] # "idle"
  PROVE  IsResource(h)' <=> IsResource(h)
<1>1. ItemFails(h)
  <2>1. Types
    BY DEF ShapeInv
  <2>2. ~Finish(h)
    BY <2>1 DEF Finish, End, Types
  <2> QED
    BY <2>2 DEF Serve, EvaluateResource, EvaluatePolicy, ListPolicyAssignments, GetPolicyVersion,
       GetPolicy, Evaluate, NoAssignments, VersionNotFound, Contradiction, Fail, PolicyExists,
       LoadPolicy, Query, NoResult, WriteResourceEvaluation, WritePolicyEvaluation, BulkReply, Goto
<1> QED
  BY <1>1 DEF ItemFails, IsResource

\* Nothing is searchable and nothing found.
LEMMA SearchInit == ListingInit => ListingInv
<1> SUFFICES ASSUME ListingInit PROVE ListingInv
  OBVIOUS
<1>1. ShapeInv
  BY ShapeInit DEF ListingInit
<1>2. searchable = [h \in Handler |-> NothingStored] /\ found = [h \in Handler |-> Missing]
  BY DEF ListingInit, NothingFound
<1>3. ListingTypeOK
  BY <1>2, NoVerdict DEF ListingTypeOK, NothingStored, Verdicts, VersionId
<1>4. ASSUME NEW h \in Handler PROVE SearchShape(h)
  BY <1>2, NoVerdict DEF ListingInit, Init, SearchShape, NothingStored, Children
<1> QED
  BY <1>1, <1>3, <1>4 DEF ListingInv

\* A step of an RPC.
LEMMA SearchRpc ==
  ASSUME ListingInv, NEW h \in Handler, Rpc(h)
  PROVE  ListingTypeOK' /\ \A g \in Handler : SearchShape(g)'
<1>1. Grown(h) /\ ListingTypeOK
  BY DocumentsGrow DEF ListingInv, Rpc
<1>2. CASE pc'[h] = "idle"
  <2>1. /\ searchable' = [searchable EXCEPT ![h] = NothingStored]
        /\ found' = [found EXCEPT ![h] = Missing]
    BY <1>2 DEF Rpc
  <2>2. ListingTypeOK'
    BY <1>1, <2>1, NoVerdict DEF ListingTypeOK, NothingStored, Verdicts, VersionId
  <2>3. SearchShape(h)'
    BY <1>1, <1>2, <2>1, NoVerdict DEF SearchShape, ListingTypeOK, NothingStored, Children, Grown
  <2>4. ASSUME NEW g \in Handler \ {h} PROVE SearchShape(g)'
    <3>1. searchable'[g] = searchable[g] /\ found'[g] = found[g] /\ SearchShape(g)
      BY <1>1, <2>1 DEF ListingTypeOK, ListingInv
    <3> QED
      BY <1>1, <3>1 DEF SearchShape, Grown, Children, Documents, IsResource
  <2> QED
    BY <2>2, <2>3, <2>4
<1>3. CASE pc'[h] # "idle"
  <2>1. UNCHANGED <<searchable, found>>
    BY <1>3 DEF Rpc
  <2>2. ListingTypeOK'
    BY <1>1, <2>1 DEF ListingTypeOK
  <2>3. SearchShape(h)'
    <3>1. SearchShape(h)
      BY DEF ListingInv
    <3>2. /\ searchable'[h].resource # Missing =>
               searchable'[h].resource = resourceEvaluation'[h]
          /\ found'[h] # Missing => found'[h] = resourceEvaluation'[h]
      BY <1>1, <1>3, <2>1, <3>1 DEF SearchShape, Grown
    <3>3. /\ Children(h)' \subseteq DOMAIN policyEvaluation'[h]
          /\ \A id \in Children(h)' : searchable'[h].policies[id] = policyEvaluation'[h][id]
      BY <1>1, <1>3, <2>1, <3>1 DEF SearchShape, Grown, Children
    <3>4. ASSUME WaitsForRefresh, pc'[h] = "done", IsResource(h)'
          PROVE  (searchable[h] = Documents(h))'
      <4>1. pc[h] \in {"policyItems", "done"} /\ Documents(h)' = Documents(h)
        BY <1>1, <3>4 DEF Grown, Documents
      <4>2. CASE pc[h] = "policyItems"
        BY <2>1, <3>4, <4>1, <4>2 DEF Rpc, Answerable
      <4>3. CASE pc[h] = "done"
        <5>1. IsResource(h)
          BY <3>4, <4>3, DoneStays DEF Rpc, ListingInv
        <5> QED
          BY <2>1, <3>1, <3>4, <4>1, <4>3, <5>1 DEF SearchShape
      <4> QED
        BY <4>1, <4>2, <4>3
    <3> QED
      BY <3>2, <3>3, <3>4 DEF SearchShape
  <2>4. ASSUME NEW g \in Handler \ {h} PROVE SearchShape(g)'
    <3>1. SearchShape(g)
      BY DEF ListingInv
    <3> QED
      BY <1>1, <2>1, <3>1 DEF SearchShape, Grown, Children, Documents, IsResource
  <2> QED
    BY <2>2, <2>3, <2>4
<1> QED
  BY <1>2, <1>3

LEMMA SearchStep == ListingInv /\ [ListingNext]_listingVars => ListingInv'
<1> SUFFICES ASSUME ListingInv, [ListingNext]_listingVars PROVE ListingInv'
  OBVIOUS
<1>1. ShapeInv'
  <2>1. [Next]_vars
    BY DEF ListingNext, Rpc, Outsider, Refresh, ListResourceEvaluations, GetResourceEvaluation,
       SearchPolicyEvaluations, Next, listingVars
  <2> QED
    BY <2>1, ShapeStep DEF ListingInv
<1> SUFFICES ListingTypeOK' /\ \A h \in Handler : SearchShape(h)'
  BY <1>1 DEF ListingInv
<1>2. ASSUME NEW h \in Handler, Rpc(h)
      PROVE  ListingTypeOK' /\ \A g \in Handler : SearchShape(g)'
  BY <1>2, SearchRpc
<1>3. CASE Outsider \/ UNCHANGED listingVars
  <2>1. UNCHANGED <<resourceEvaluation, policyEvaluation, pc, request, searchable, found>>
    BY <1>3 DEF Outsider, StoreVersion, OpaRestart, listingVars, vars, stored, local
  <2> QED
    BY <2>1 DEF ListingInv, ListingTypeOK, SearchShape, Children, Documents, IsResource
<1>4. CASE Refresh
  <2>1. /\ UNCHANGED <<resourceEvaluation, policyEvaluation, pc, request, found>>
        /\ searchable' = [h \in Handler |-> Documents(h)]
    BY <1>4 DEF Refresh, vars, stored, local
  <2>2. ASSUME NEW h \in Handler
        PROVE  searchable'[h].resource = resourceEvaluation[h]
               /\ searchable'[h].policies = policyEvaluation[h]
    BY <2>1 DEF Documents
  <2>3. ListingTypeOK'
    <3>1. Types /\ ListingTypeOK
      BY DEF ListingInv, ShapeInv
    <3> QED
      BY <2>1, <3>1 DEF Types, ListingTypeOK, Documents, Verdicts, VersionId
  <2>4. ASSUME NEW h \in Handler PROVE SearchShape(h)'
    <3>1. SearchShape(h)
      BY DEF ListingInv
    <3> QED
      BY <2>1, <2>2, <3>1 DEF SearchShape, Children, Documents
  <2> QED
    BY <2>3, <2>4
<1>5. CASE ListResourceEvaluations \/ GetResourceEvaluation \/ SearchPolicyEvaluations
  <2>1. UNCHANGED <<resourceEvaluation, policyEvaluation, pc, request, searchable>>
    BY <1>5 DEF ListResourceEvaluations, GetResourceEvaluation, SearchPolicyEvaluations,
       vars, stored, local
  <2>2. found' \in [Handler -> BOOLEAN \cup {Missing}]
        /\ \A h \in Handler : found'[h] \in {Missing, searchable[h].resource}
    BY <1>5 DEF ListResourceEvaluations, GetResourceEvaluation, SearchPolicyEvaluations,
       NothingFound, ListingInv, ListingTypeOK
  <2>3. ASSUME NEW h \in Handler PROVE SearchShape(h)'
    <3>1. SearchShape(h)
      BY DEF ListingInv
    <3> QED
      BY <2>1, <2>2, <3>1 DEF SearchShape, Children, Documents, IsResource
  <2> QED
    BY <2>1, <2>2, <2>3 DEF ListingInv, ListingTypeOK
<1> QED
  BY <1>2, <1>3, <1>4, <1>5 DEF ListingNext

LEMMA SearchAlways == ListingSpec => []ListingInv
  BY SearchInit, SearchStep, PTL DEF ListingSpec

\* The variables of the searches keep their types.
THEOREM ListingTypeCorrect == ListingSpec => []ListingTypeOK
<1>1. ListingInv => ListingTypeOK
  BY DEF ListingInv
<1> QED
  BY <1>1, SearchAlways, PTL

\* When EvaluateResource has answered OK a Get finds what it answered, if the refresh
\* option makes the answer wait.
THEOREM AnsweredFound == ListingSpec => []AnsweredEvaluationsFound
<1>1. ListingInv /\ AcknowledgedEvaluationStored => AnsweredEvaluationsFound
  <2> SUFFICES ASSUME ListingInv, AcknowledgedEvaluationStored, WaitsForRefresh,
                      NEW h \in Handler, reply[h] # Missing, IsResource(h)
               PROVE  searchable[h] = [resource |-> reply[h], policies |-> verdict[h]]
    BY DEF AnsweredEvaluationsFound, IsResource
  <2>1. pc[h] = "done"
    BY DEF ListingInv, ShapeInv, ResultShape
  <2>2. searchable[h] = Documents(h)
    BY <2>1 DEF ListingInv, SearchShape
  <2> QED
    BY <2>2 DEF AcknowledgedEvaluationStored, IsResource, Documents
<1> QED
  BY <1>1, SearchAlways, ListingImplementsEvaluation, AnsweredIsStored, PTL

\* What the two searches of a Get or a listing show agrees, whatever falls between them.
THEOREM ListedAgree == ListingSpec => []ListedVerdictsAgree
<1>1. ListingInv => ListedVerdictsAgree
  <2> SUFFICES ASSUME ListingInv, NEW h \in Handler, found[h] # Missing
               PROVE  /\ found[h] => \A id \in Children(h) : searchable[h].policies[id]
                      /\ ~found[h] =>
                           \/ \E id \in Children(h) : ~searchable[h].policies[id]
                           \/ unsent[h] # {} \/ bulkFailed[h]
                           \/ searchable[h] # Documents(h)
    BY DEF ListedVerdictsAgree, Hits
  <2>1. SearchShape(h) /\ ResultShape(h) /\ Types
    BY DEF ListingInv, ShapeInv
  <2>2. found[h] = resourceEvaluation[h] /\ resourceEvaluation[h] = Pass(h)
    BY <2>1 DEF SearchShape, ResultShape
  <2>3. \A id \in Children(h) :
          id \in DOMAIN verdict[h] /\ searchable[h].policies[id] = verdict[h][id]
    BY <2>1 DEF SearchShape, ResultShape
  <2>4. found[h] => \A id \in Children(h) : searchable[h].policies[id]
    BY <2>2, <2>3 DEF Pass
  <2>5. ASSUME ~found[h], unsent[h] = {}, ~bulkFailed[h], searchable[h] = Documents(h)
        PROVE  \E id \in Children(h) : ~searchable[h].policies[id]
    <3>1. PICK id \in DOMAIN verdict[h] : ~verdict[h][id]
      BY <2>2, <2>5 DEF Pass
    <3>2. pc[h] \in {"policyItems", "done"}
      BY <2>1, <2>2 DEF ResultShape, BeforeBulk, Label, Types
    <3>3. pc[h] = "done" => IsResource(h)
      BY <2>1, <3>1 DEF ResultShape
    <3>4. DOMAIN policyEvaluation[h] = DOMAIN verdict[h]
      BY <2>1, <2>5, <3>2, <3>3 DEF ResultShape
    <3>5. Children(h) = DOMAIN policyEvaluation[h]
      BY <2>5 DEF Children, Documents
    <3> QED
      BY <2>3, <3>1, <3>4, <3>5
  <2> QED
    BY <2>4, <2>5
<1> QED
  BY <1>1, SearchAlways, PTL
=============================================================================
