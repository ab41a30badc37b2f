--------------------------- MODULE PolicyListing ---------------------------
(***************************************************************************)
(* ListPolicies and ListPolicyVersions (pkg/policy/manager.go) beside the  *)
(* RPCs of PolicyManager.                                                  *)
(*                                                                         *)
(* A search sees the documents as the last refresh of the index left them, *)
(* a MultiGet sees them as they are: a listing of policies is a search for *)
(* the policy documents followed by a MultiGet of the versions they point  *)
(* to, and a listing of versions a search for the children of a policy.    *)
(* With elasticsearch-refresh "true" or "wait_for" the answer of a write   *)
(* waits for the refresh that makes it searchable.                         *)
(*                                                                         *)
(* A document is found as a policy, and as the parent of its versions, by  *)
(* its join field.  The bulks give it with the policy item, DeletePolicy   *)
(* does not: whether it survives esutil's Update is not decided in this    *)
(* repository, and left open.                                              *)
(*                                                                         *)
(* Left out: the filter and the pages of a listing, which only narrow it,  *)
(* its order, ids of versions in ListPolicyVersions, which find nothing,   *)
(* and updates and deletes under such ids: IdVersions is {0} here.         *)
(***************************************************************************)
EXTENDS PolicyManager

CONSTANT WaitsForRefresh   \* the refresh option is "true" or "wait_for"

ASSUME RefreshAssumption == WaitsForRefresh \in BOOLEAN

VARIABLES
  joined,      \* the policies whose document has its join field
  searchable,  \* what a search sees: policies, versions and joined
  unrefreshed, \* handlers that wrote since the last refresh
  told,        \* told[p]: the highest version of p, and the delete, answered OK so far
  found        \* found[p]: p as the listing of policies under way has found it

listingVars == <<vars, joined, searchable, unrefreshed, told, found>>

Told == [Policy -> [version : 0..MaxVersion, deleted : BOOLEAN]]
NothingTold == [p \in Policy |-> [version |-> 0, deleted |-> FALSE]]

NothingFound == [p \in Policy |-> Missing]

ListingInit ==
  /\ Init
  /\ joined = {}
  /\ searchable = [policies |-> policyDoc, versions |-> versionDoc, joined |-> joined]
  /\ unrefreshed = {}
  /\ told = NothingTold
  /\ found = NothingFound

----------------------------------------------------------------------------
\* The RPCs of PolicyManager, and what they do to the search.

\* The client of h is going to be told that its write is done.
Acknowledges(h) ==
  pc[h] = "done" /\ reply[h].code = "OK" /\ request[h].op # "Get"

\* The answer of a write waits.
Answerable(h) == WaitsForRefresh => h \notin unrefreshed

TellAfter(h) == LET before == told[request[h].policy] IN
  IF request[h].op = "Delete" THEN [before EXCEPT !.deleted = TRUE]
  ELSE IF reply[h].version > before.version
       THEN [before EXCEPT !.version = reply[h].version] ELSE before

Rpc(h) ==
  /\ \/ WriteDelete(h) /\ joined' \in {joined, joined \ {request[h].policy}}
     \/ WritePolicyItem(h) /\ joined' = joined \cup {request[h].policy}
     \/ (CallFails(h) \/ ItemFails(h) \/ Abandon(h)) /\ UNCHANGED joined
     \/ pc[h] \notin {"policyItem", "writeDelete"} /\ Serve(h) /\ UNCHANGED joined
  /\ Acknowledges(h) => Answerable(h)
  /\ unrefreshed' = IF <<policyDoc, versionDoc, joined>>' = <<policyDoc, versionDoc, joined>>
                    THEN unrefreshed ELSE unrefreshed \cup {h}
  /\ told' = IF Acknowledges(h) THEN [told EXCEPT ![request[h].policy] = TellAfter(h)] ELSE told
  /\ UNCHANGED <<searchable, found>>

\* The index is refreshed.
Refresh ==
  /\ searchable' = [policies |-> policyDoc, versions |-> versionDoc, joined |-> joined]
  /\ unrefreshed' = {}
  /\ UNCHANGED <<vars, joined, told, found>>

----------------------------------------------------------------------------
\* ListPolicies

\* Mutant: deleted policies are not left out.
Hits == {p \in searchable.joined : searchable.policies[p] # Missing}

\* The hits of the search: policies that are not deleted.
LivePolicies ==
  {p \in searchable.joined :
     searchable.policies[p] # Missing /\ ~searchable.policies[p].deleted}

\* The search.  Without a hit the answer is empty, and no MultiGet is sent.
ListPolicies ==
  /\ found = NothingFound
  /\ found' = [p \in Policy |->
                IF p \in LivePolicies THEN searchable.policies[p] ELSE Missing]
  /\ UNCHANGED <<vars, joined, searchable, unrefreshed, told>>

Found == {p \in Policy : found[p] # Missing}

\* Mutant: the versions are searched for.
SearchedVersion(p) == searchable.versions[p][found[p].currentVersion]

CurrentVersionOf(p) == versionDoc[p][found[p].currentVersion]

\* The MultiGet, and the answer: the policies found, or Internal if one of their
\* versions is missing or a call fails.
GetVersions ==
  /\ found # NothingFound
  /\ found' = NothingFound
  /\ UNCHANGED <<vars, joined, searchable, unrefreshed, told>>

MissingVersions == {p \in Found : CurrentVersionOf(p) = Missing}

\* ListPolicyVersions of a policy: the children of a parent that is a policy.
VersionsListed(p) ==
  IF p \in searchable.joined /\ searchable.policies[p] # Missing
  THEN {v \in Version : searchable.versions[p][v] # Missing}
  ELSE {}

----------------------------------------------------------------------------
ListingNext ==
  \/ \E h \in Handler : Rpc(h)
  \/ Refresh
  \/ ListPolicies \/ GetVersions

ListingSpec == ListingInit /\ [][ListingNext]_listingVars

----------------------------------------------------------------------------
(***************************************************************************)
(* Properties.                                                             *)
(***************************************************************************)

\* The variables of this module have their types.
ListingTypeOK ==
  /\ joined \subseteq Policy
  /\ searchable \in [policies : [Policy -> PolicyDocument \cup {Missing}],
                     versions : [Policy -> [Version -> Rego \cup {Missing}]],
                     joined : SUBSET Policy]
  /\ unrefreshed \subseteq Handler
  /\ told \in Told
  /\ found \in [Policy -> PolicyDocument \cup {Missing}]

\* What clients were told is in every listing of policies that begins after it: a
\* policy they created or updated, with that version or a later one, unless it is
\* deleted by now, and no policy that they deleted.  The version itself is in every
\* listing of the policy's versions.
ListsWhatWasTold ==
  WaitsForRefresh =>
    \A p \in Policy :
      /\ told[p].deleted => p \notin LivePolicies
      /\ told[p].version # 0 =>
           \/ policyDoc[p].deleted
           \/ /\ p \in LivePolicies /\ told[p].version \in VersionsListed(p)
              /\ searchable.policies[p].currentVersion >= told[p].version

\* However far the search lags, a listing of policies finds the version it needs: only
\* while the bulk that writes this very version is being applied can it be missing.
MissingOnlyBesideBulk ==
  \A p \in MissingVersions : \E h \in Handler :
    /\ pc[h] \in {"counterItem", "versionItem"}
    /\ request[h].policy = p
    /\ newVersion[h] = found[p].currentVersion
=============================================================================
