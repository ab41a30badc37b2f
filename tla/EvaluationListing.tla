------------------------- MODULE EvaluationListing -------------------------
(***************************************************************************)
(* GetResourceEvaluation and ListResourceEvaluations                       *)
(* (pkg/evaluation/manager.go) beside the RPCs of Evaluation.              *)
(*                                                                         *)
(* Both search twice: for resource evaluations, then for the policy        *)
(* evaluations that are children of those found.  A search sees the        *)
(* documents as the last refresh of the index left them, and a refresh can *)
(* fall between two items of a bulk or between the two searches.  With     *)
(* elasticsearch-refresh "true" or "wait_for" the answer to a bulk waits   *)
(* for the refresh that makes it searchable.  A search of a MultiSearch    *)
(* has no size: it returns a default number of hits.                       *)
(*                                                                         *)
(* Left out: the filter, the pages and the order of a listing, which only  *)
(* narrow it, the refusal of a resource version that is unknown, and a Get *)
(* with the id of a policy evaluation.                                     *)
(***************************************************************************)
EXTENDS Evaluation

CONSTANTS
  WaitsForRefresh,  \* the refresh option is "true" or "wait_for"
  HitsPerSearch     \* how many hits a search that asks for no size may be cut to

ASSUME RefreshAssumption == WaitsForRefresh \in BOOLEAN
ASSUME HitsAssumption == HitsPerSearch \subseteq Nat \ {0}

VARIABLES
  searchable,  \* searchable[h]: what a search sees of the documents h stored
  found        \* found[h]: the pass of h's resource evaluation, as the first search of
               \* the Get or listing under way has found it

listingVars == <<vars, searchable, found>>

Documents(h) == [resource |-> resourceEvaluation[h], policies |-> policyEvaluation[h]]

NothingFound == [h \in Handler |-> Missing]
NothingStored == [resource |-> Missing, policies |-> None]

ListingInit ==
  /\ Init
  /\ searchable = [h \in Handler |-> NothingStored]
  /\ found = NothingFound

----------------------------------------------------------------------------
\* Mutant: the answer to a bulk does not wait.
AnswersAtOnce(h) == TRUE

\* Documents are created once: those of h are refreshed when a search sees them all.
Answerable(h) == WaitsForRefresh => searchable[h] = Documents(h)

\* A step of Evaluation.  With the documents the model forgets what was found of them.
Rpc(h) ==
  /\ Serve(h)
  /\ pc[h] = "policyItems" /\ pc'[h] = "done" => Answerable(h)
  /\ IF pc'[h] = "idle"
     THEN /\ searchable' = [searchable EXCEPT ![h] = NothingStored]
          /\ found' = [found EXCEPT ![h] = Missing]
     ELSE UNCHANGED <<searchable, found>>

Outsider == (StoreVersion \/ OpaRestart) /\ UNCHANGED <<searchable, found>>

\* The index is refreshed.
Refresh ==
  /\ searchable' = [h \in Handler |-> Documents(h)]
  /\ UNCHANGED <<vars, found>>

----------------------------------------------------------------------------
\* The first search.  Without a hit there is no second, and the answer is empty.
ListResourceEvaluations ==
  /\ found = NothingFound
  /\ found' = [h \in Handler |-> searchable[h].resource]
  /\ UNCHANGED <<vars, searchable>>

\* The same for one id.  Without a hit the answer is NotFound.
GetResourceEvaluation == \E h \in Handler :
  /\ found = NothingFound
  /\ found' = [NothingFound EXCEPT ![h] = searchable[h].resource]
  /\ UNCHANGED <<vars, searchable>>

\* The policy evaluations of h's resource evaluation, and what a search may return of
\* them: all, or as many as it is cut to.
Children(h) == DOMAIN searchable[h].policies

Hits(h) == {shown \in SUBSET Children(h) :
              shown = Children(h) \/ Cardinality(shown) \in HitsPerSearch}

\* The second search, and the answer or the error.
SearchPolicyEvaluations ==
  /\ found # NothingFound
  /\ found' = NothingFound
  /\ UNCHANGED <<vars, searchable>>

----------------------------------------------------------------------------
ListingNext ==
  \/ \E h \in Handler : Rpc(h)
  \/ Outsider
  \/ Refresh
  \/ ListResourceEvaluations \/ GetResourceEvaluation \/ SearchPolicyEvaluations

ListingSpec == ListingInit /\ [][ListingNext]_listingVars

----------------------------------------------------------------------------
\* The variables of this module have their types.
ListingTypeOK ==
  /\ searchable \in [Handler -> [resource : BOOLEAN \cup {Missing},
                                 policies : UNION {[S -> BOOLEAN] : S \in SUBSET (Policy \X Version)}]]
  /\ found \in [Handler -> BOOLEAN \cup {Missing}]

\* An evaluation whose client was answered OK can be found from then on, with the pass
\* that was answered and a policy evaluation for every assignment it listed.
AnsweredEvaluationsFound ==
  WaitsForRefresh =>
    \A h \in Handler :
      reply[h] # Missing /\ request[h].op = "EvaluateResource" =>
        searchable[h] = [resource |-> reply[h], policies |-> verdict[h]]

\* Although the two searches see the index at two moments, a Get or a listing shows no
\* pass beside a policy evaluation that failed; and no failure without one, unless it
\* ran beside the bulk that stores it, an item of that bulk failed, a refresh is due, or
\* there are more than a search returns.
ListedVerdictsAgree ==
  \A h \in Handler : found[h] # Missing =>
    \A shown \in Hits(h) :
      IF found[h] THEN \A id \in shown : searchable[h].policies[id]
      ELSE \/ \E id \in shown : ~searchable[h].policies[id]
           \/ shown # Children(h)
           \/ unsent[h] # {} \/ bulkFailed[h] \/ searchable[h] # Documents(h)
=============================================================================
