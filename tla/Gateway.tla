------------------------------ MODULE Gateway ------------------------------
(***************************************************************************)
(* The HTTP gateway (proto/v1alpha1/rode.pb.gw.go, main.go): the binding   *)
(* of the methods to HTTP verbs and paths, and the id in the message that  *)
(* is made of a request.                                                   *)
(*                                                                         *)
(* A path is a sequence of segments, without the "v1alpha1" every path     *)
(* begins with, and the verb after its colon, which is "" if there is      *)
(* none.  A segment is the sequence of the pieces between its dots, as in  *)
(* PolicyIds; Field is what a pattern has in the place of a field.           *)
(***************************************************************************)
EXTENDS PolicyIds

Field == <<>>
Segment(text) == <<Word(text)>>

Route(verb, path, suffix, method) ==
  [verb |-> verb, path |-> path, suffix |-> suffix, method |-> method]

\* In the order in which RegisterRodeHandlerClient registers them.
OccurrenceRoutes ==
  {Route("POST", <<Segment("occurrences")>>, "batchCreate", "BatchCreateOccurrences"),
   Route("POST", <<Segment("policies"), Field>>, "attest", "EvaluatePolicy"),
   Route("GET", <<Segment("resources")>>, "", "ListResources"),
   Route("GET", <<Segment("resource-versions")>>, "", "ListResourceVersions"),
   Route("GET", <<Segment("versioned-resource-occurrences")>>, "", "ListVersionedResourceOccurrences"),
   Route("GET", <<Segment("occurrences")>>, "", "ListOccurrences"),
   Route("PATCH", <<Segment("occurrences"), Field>>, "", "UpdateOccurrence")}

PolicyRoutes ==
  {Route("POST", <<Segment("policies")>>, "", "CreatePolicy"),
   Route("GET", <<Segment("policies"), Field>>, "", "GetPolicy"),
   Route("DELETE", <<Segment("policies"), Field>>, "", "DeletePolicy"),
   Route("GET", <<Segment("policies")>>, "", "ListPolicies"),
   Route("GET", <<Segment("policies"), Field, Segment("versions")>>, "", "ListPolicyVersions"),
   Route("POST", <<Segment("policies")>>, "validate", "ValidatePolicy"),
   Route("PATCH", <<Segment("policies"), Field>>, "", "UpdatePolicy")}

CollectorRoutes ==
  {Route("POST", <<Segment("collectors"), Field>>, "register", "RegisterCollector"),
   Route("POST", <<Segment("notes")>>, "", "CreateNote")}

PolicyGroupRoutes ==
  {Route("POST", <<Segment("policy-groups")>>, "", "CreatePolicyGroup"),
   Route("GET", <<Segment("policy-groups")>>, "", "ListPolicyGroups"),
   Route("GET", <<Segment("policy-groups"), Field>>, "", "GetPolicyGroup"),
   Route("PATCH", <<Segment("policy-groups"), Field>>, "", "UpdatePolicyGroup"),
   Route("DELETE", <<Segment("policy-groups"), Field>>, "", "DeletePolicyGroup")}

AssignmentRoutes ==
  {Route("POST", <<Segment("policies"), Field, Segment("assignments"), Field>>, "", "CreatePolicyAssignment"),
   Route("GET", <<Segment("policies"), Field, Segment("assignments"), Field>>, "", "GetPolicyAssignment"),
   Route("PATCH", <<Segment("policies"), Field, Segment("assignments"), Field>>, "", "UpdatePolicyAssignment"),
   Route("DELETE", <<Segment("policies"), Field, Segment("assignments"), Field>>, "", "DeletePolicyAssignment"),
   Route("GET", <<Segment("policies"), Field, Segment("assignments")>>, "", "ListPolicyAssignments"),
   Route("GET", <<Segment("policy-groups"), Field, Segment("assignments")>>, "", "ListPolicyAssignments")}

EvaluationRoutes ==
  {Route("POST", <<Segment("resource-evaluations")>>, "", "EvaluateResource"),
   Route("GET", <<Segment("resource-evaluations"), Field>>, "", "GetResourceEvaluation"),
   Route("GET", <<Segment("resource-evaluations")>>, "", "ListResourceEvaluations")}

Routes ==
  OccurrenceRoutes \cup PolicyRoutes \cup CollectorRoutes \cup PolicyGroupRoutes
    \cup AssignmentRoutes \cup EvaluationRoutes

Matches(route, request) ==
  /\ route.verb = request.verb
  /\ route.suffix = request.suffix
  /\ Len(route.path) = Len(request.path)
  /\ \A i \in DOMAIN route.path : route.path[i] \in {Field, request.path[i]}

\* The handlers that would take a request; the mux takes one of them.
Methods(request) == {r.method : r \in {s \in Routes : Matches(s, request)}}

\* What a request has at the first Field of a route's path.
PathId(route, request) ==
  LET fields == {i \in DOMAIN route.path : route.path[i] = Field} IN
  IF fields = {} THEN <<>>
  ELSE request.path[CHOOSE i \in fields : \A j \in fields : i <= j]

\* Mutant: an id in the body of an update stands.
BodyFirst(route, request) ==
  IF request.bodyId # <<>> THEN request.bodyId ELSE PathId(route, request)

\* The id of the message: the field of the path is written over that of the body.
MessageId(route, request) == PathId(route, request)
=============================================================================
