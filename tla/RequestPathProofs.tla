-------------------------- MODULE RequestPathProofs --------------------------
(***************************************************************************)
(* Theorems about RequestPath.  Two invariants carry them: CallInv, what   *)
(* each interceptor has established of the call by the stage it is at, and *)
(* IndexInv, which ids the documents of the policies index have.           *)
(***************************************************************************)
EXTENDS RequestPath, FiniteSetTheorems, SequenceTheorems, NaturalsInduction,
        WellFoundedInduction, TLAPS

----------------------------------------------------------------------------
(***************************************************************************)
(* The call.                                                               *)
(***************************************************************************)

\* The message of a call to a method of the service, with an id where it takes one.
WellFormed(m) ==
  \E method \in Method, id \in Ids \cup {<<>>} :
    m = Message(method, id) /\ ((id = <<>>) = (method \notin IdMethods))

\* main.go: what is known of a call at each stage of its way.
CallInv ==
  /\ config \in Config /\ config.enabled = (config.basic \/ config.oidc)
  /\ {secured, verified} \subseteq BOOLEAN
  /\ stage \in {"boot", "idle", "gateway", "recovery", "authenticate", "authorize",
                "handle", "answered"}
  /\ stage # "boot" => secured = config.enabled
  /\ stage = "boot" => ~secured /\ config = NoConfig
  /\ stage = "gateway" => http \in HttpRequests
  /\ stage # "gateway" => http = NoRequest
  /\ stage \in {"boot", "idle", "gateway"} => message = NoMessage
  /\ stage \in {"recovery", "authenticate", "authorize", "handle"} => WellFormed(message)
  /\ stage \in {"authorize", "handle"} /\ config.enabled =>
       roles # {} /\ (~verified => roles = {"Anonymous"})
  /\ stage = "handle" => Authorize(config, roles, message.method)
  /\ roles \subseteq Role

\* Build makes a configuration that authenticates callers exactly if the flags ask for it.
LEMMA BuildEnables ==
  ASSUME NEW f \in Flags, Accepted(f)
  PROVE  /\ Build(f) \in Config
         /\ Build(f).enabled = (Build(f).basic \/ Build(f).oidc)
         /\ Secured(f) = Build(f).enabled
         /\ Secured(f) \in BOOLEAN
  BY DEF Flags, Accepted, Build, Secured, Config

\* The order of the chain: recovery, authenticate, authorize, and the handler behind it.
LEMMA ChainOrder ==
  /\ Interceptors[1] = "recovery"
  /\ Position("recovery") = 1 /\ Position("authenticate") = 2
  /\ Position("authorize") = 3 /\ Position("handle") = 4
  /\ After("recovery") = "authenticate" /\ After("authenticate") = "authorize"
  /\ After("authorize") = "handle"
<1>1. /\ DOMAIN Interceptors = {1, 2, 3} /\ Len(Interceptors) = 3
      /\ Interceptors[1] = "recovery" /\ Interceptors[2] = "authenticate"
      /\ Interceptors[3] = "authorize"
  BY DEF Interceptors
<1>2. /\ Position("recovery") = 1 /\ Position("authenticate") = 2
      /\ Position("authorize") = 3 /\ Position("handle") = 4
  BY <1>1 DEF Position
<1> QED BY <1>1, <1>2 DEF After

\* auth.go: who passes the interceptor has a role, and is anonymous if not verified.
LEMMA AuthenticateGivesRoles ==
  ASSUME NEW c \in Config, c.enabled = (c.basic \/ c.oidc),
         NEW claims, NEW header \in Header(claims)
  PROVE  /\ Authenticate(c, header).code \in {"OK", "Unauthenticated", "panic"}
         /\ Authenticate(c, header).roles \subseteq Role
         /\ Verified(c, header) \in BOOLEAN
         /\ Authenticate(c, header).code = "OK" /\ c.enabled =>
              /\ Authenticate(c, header).roles # {}
              /\ ~Verified(c, header) => Authenticate(c, header).roles = {"Anonymous"}
<1>1. {"Anonymous", "Administrator"} \subseteq Role
  BY DEF Role, RolePermissions
<1>2. /\ header.scheme \in {"none", "other", "basic", "bearer"} /\ header.holds \in BOOLEAN
      /\ header.scheme = "none" => ~header.holds
  BY DEF Header
<1>3. c.basic \in BOOLEAN /\ c.oidc \in BOOLEAN
  BY DEF Config
<1> HIDE DEF Role
<1> QED BY <1>1, <1>2, <1>3 DEF Authenticate, Verified, Basic, Oidc, Refused, Authenticated

\* rode.proto: the methods of the service, by name.
LEMMA MethodNames ==
  RodeMethod = {
    "BatchCreateOccurrences", "EvaluatePolicy", "ListResources",
    "ListResourceVersions", "ListVersionedResourceOccurrences",
    "ListOccurrences", "UpdateOccurrence", "CreatePolicy", "GetPolicy",
    "DeletePolicy", "ListPolicies", "ListPolicyVersions", "ValidatePolicy",
    "UpdatePolicy", "RegisterCollector", "CreateNote", "CreatePolicyGroup",
    "ListPolicyGroups", "GetPolicyGroup", "UpdatePolicyGroup",
    "DeletePolicyGroup", "CreatePolicyAssignment", "GetPolicyAssignment",
    "UpdatePolicyAssignment", "DeletePolicyAssignment", "ListPolicyAssignments",
    "EvaluateResource", "GetResourceEvaluation", "ListResourceEvaluations"}
  BY DEF RodeMethod, MethodPermission

\* The parts of a route.
LEMMA RouteFields ==
  \A verb, path, suffix, method :
    /\ Route(verb, path, suffix, method).verb = verb
    /\ Route(verb, path, suffix, method).path = path
    /\ Route(verb, path, suffix, method).suffix = suffix
    /\ Route(verb, path, suffix, method).method = method
  BY DEF Route

----------------------------------------------------------------------------
(***************************************************************************)
(* The routes.  What a request matches is decided by its verb, its suffix, *)
(* the length of its path and the words of the first and third segments.   *)
(***************************************************************************)

MethodOf(verb, suffix, length, first, third) ==
  CASE length = 1 /\ first = "occurrences" ->
         IF verb = "GET" THEN "ListOccurrences" ELSE "BatchCreateOccurrences"
    [] length = 1 /\ first = "resources" -> "ListResources"
    [] length = 1 /\ first = "resource-versions" -> "ListResourceVersions"
    [] length = 1 /\ first = "versioned-resource-occurrences" ->
         "ListVersionedResourceOccurrences"
    [] length = 1 /\ first = "policies" ->
         IF verb = "GET" THEN "ListPolicies"
         ELSE IF suffix = "validate" THEN "ValidatePolicy" ELSE "CreatePolicy"
    [] length = 1 /\ first = "notes" -> "CreateNote"
    [] length = 1 /\ first = "policy-groups" ->
         IF verb = "GET" THEN "ListPolicyGroups" ELSE "CreatePolicyGroup"
    [] length = 1 /\ first = "resource-evaluations" ->
         IF verb = "GET" THEN "ListResourceEvaluations" ELSE "EvaluateResource"
    [] length = 2 /\ first = "policies" ->
         IF verb = "GET" THEN "GetPolicy" ELSE IF verb = "PATCH" THEN "UpdatePolicy"
         ELSE IF verb = "DELETE" THEN "DeletePolicy" ELSE "EvaluatePolicy"
    [] length = 2 /\ first = "occurrences" -> "UpdateOccurrence"
    [] length = 2 /\ first = "collectors" -> "RegisterCollector"
    [] length = 2 /\ first = "policy-groups" ->
         IF verb = "GET" THEN "GetPolicyGroup"
         ELSE IF verb = "PATCH" THEN "UpdatePolicyGroup" ELSE "DeletePolicyGroup"
    [] length = 2 /\ first = "resource-evaluations" -> "GetResourceEvaluation"
    [] length = 3 ->
         IF third = "versions" THEN "ListPolicyVersions" ELSE "ListPolicyAssignments"
    [] length = 4 ->
         IF verb = "GET" THEN "GetPolicyAssignment"
         ELSE IF verb = "PATCH" THEN "UpdatePolicyAssignment"
         ELSE IF verb = "DELETE" THEN "DeletePolicyAssignment" ELSE "CreatePolicyAssignment"

\* What a request that matches the route shares with it decides its method.
Distinct(r) ==
  /\ r.method \in Method
  /\ r.method \in IdMethods => r.path = <<Segment("policies"), Field>>
  /\ \A q : Matches(r, q) =>
       r.method = MethodOf(q.verb, q.suffix, Len(q.path), q.path[1][1].text, q.path[3][1].text)

\* Routes of one, two, three and four segments.
LEMMA OneDistinct ==
  ASSUME NEW verb, NEW suffix, NEW method \in RodeMethod, NEW first,
         \A third : MethodOf(verb, suffix, 1, first, third) = method,
         method \notin IdMethods
  PROVE  Distinct(Route(verb, <<Segment(first)>>, suffix, method))
<1> DEFINE r == Route(verb, <<Segment(first)>>, suffix, method)
<1>1. \A q : Matches(r, q) =>
         /\ q.verb = verb /\ q.suffix = suffix
         /\ Len(q.path) = 1 /\ q.path[1][1].text = first
  BY DEF Matches, Route, Segment, Word, Field
<1>2. r.method = method /\ r.path = <<Segment(first)>>
  BY DEF Route
<1>3. method \in Method
  BY DEF Method
<1> HIDE DEF r
<1>4. Distinct(r)
  BY <1>1, <1>2, <1>3 DEF Distinct
<1> QED BY <1>4 DEF r

LEMMA TwoDistinct ==
  ASSUME NEW verb, NEW suffix, NEW method \in RodeMethod, NEW first,
         \A third : MethodOf(verb, suffix, 2, first, third) = method,
         method \in IdMethods => first = "policies"
  PROVE  Distinct(Route(verb, <<Segment(first), Field>>, suffix, method))
<1> DEFINE r == Route(verb, <<Segment(first), Field>>, suffix, method)
<1>1. \A q : Matches(r, q) =>
         /\ q.verb = verb /\ q.suffix = suffix
         /\ Len(q.path) = 2 /\ q.path[1][1].text = first
  BY DEF Matches, Route, Segment, Word, Field
<1>2. r.method = method /\ r.path = <<Segment(first), Field>>
  BY DEF Route
<1>3. method \in Method
  BY DEF Method
<1> HIDE DEF r
<1>4. Distinct(r)
  BY <1>1, <1>2, <1>3 DEF Distinct
<1> QED BY <1>4 DEF r

LEMMA ThreeDistinct ==
  ASSUME NEW verb, NEW suffix, NEW method \in RodeMethod, NEW first, NEW third,
         MethodOf(verb, suffix, 3, first, third) = method,
         method \notin IdMethods
  PROVE  Distinct(Route(verb, <<Segment(first), Field, Segment(third)>>, suffix, method))
<1> DEFINE r == Route(verb, <<Segment(first), Field, Segment(third)>>, suffix, method)
<1>1. \A q : Matches(r, q) =>
         /\ q.verb = verb /\ q.suffix = suffix
         /\ Len(q.path) = 3 /\ q.path[1][1].text = first /\ q.path[3][1].text = third
  BY DEF Matches, Route, Segment, Word, Field
<1>2. r.method = method /\ r.path = <<Segment(first), Field, Segment(third)>>
  BY DEF Route
<1>3. method \in Method
  BY DEF Method
<1> HIDE DEF r
<1>4. Distinct(r)
  BY <1>1, <1>2, <1>3 DEF Distinct
<1> QED BY <1>4 DEF r

LEMMA FourDistinct ==
  ASSUME NEW verb, NEW suffix, NEW method \in RodeMethod, NEW first, NEW third,
         MethodOf(verb, suffix, 4, first, third) = method,
         method \notin IdMethods
  PROVE  Distinct(Route(verb, <<Segment(first), Field, Segment(third), Field>>, suffix, method))
<1> DEFINE r == Route(verb, <<Segment(first), Field, Segment(third), Field>>, suffix, method)
<1>1. \A q : Matches(r, q) =>
         /\ q.verb = verb /\ q.suffix = suffix
         /\ Len(q.path) = 4 /\ q.path[1][1].text = first /\ q.path[3][1].text = third
  BY DEF Matches, Route, Segment, Word, Field
<1>2. r.method = method /\ r.path = <<Segment(first), Field, Segment(third), Field>>
  BY DEF Route
<1>3. method \in Method
  BY DEF Method
<1> HIDE DEF r
<1>4. Distinct(r)
  BY <1>1, <1>2, <1>3 DEF Distinct
<1> QED BY <1>4 DEF r

\* Each route is of one method, service by service.
LEMMA OccurrenceRoutesDistinct == \A r \in OccurrenceRoutes : Distinct(r)
<1> SUFFICES ASSUME NEW r \in OccurrenceRoutes PROVE Distinct(r)
  OBVIOUS
<1>1. /\ \A third : MethodOf("POST", "batchCreate", 1, "occurrences", third) =
           "BatchCreateOccurrences"
      /\ \A third : MethodOf("POST", "attest", 2, "policies", third) = "EvaluatePolicy"
      /\ \A third : MethodOf("GET", "", 1, "resources", third) = "ListResources"
      /\ \A third : MethodOf("GET", "", 1, "resource-versions", third) =
           "ListResourceVersions"
      /\ \A third : MethodOf("GET", "", 1, "versioned-resource-occurrences", third) =
           "ListVersionedResourceOccurrences"
      /\ \A third : MethodOf("GET", "", 1, "occurrences", third) = "ListOccurrences"
      /\ \A third : MethodOf("PATCH", "", 2, "occurrences", third) = "UpdateOccurrence"
  BY DEF MethodOf
<1>2. {"BatchCreateOccurrences", "EvaluatePolicy", "ListResources",
       "ListResourceVersions", "ListVersionedResourceOccurrences",
       "ListOccurrences", "UpdateOccurrence"}
        \subseteq RodeMethod \ IdMethods
  BY MethodNames DEF IdMethods
<1>3. CASE r = Route("POST",
                     <<Segment("occurrences")>>, "batchCreate", "BatchCreateOccurrences")
  BY <1>1, <1>2, <1>3, OneDistinct
<1>4. CASE r = Route("POST", <<Segment("policies"), Field>>, "attest", "EvaluatePolicy")
  BY <1>1, <1>2, <1>4, TwoDistinct
<1>5. CASE r = Route("GET", <<Segment("resources")>>, "", "ListResources")
  BY <1>1, <1>2, <1>5, OneDistinct
<1>6. CASE r = Route("GET", <<Segment("resource-versions")>>, "", "ListResourceVersions")
  BY <1>1, <1>2, <1>6, OneDistinct
<1>7. CASE r = Route("GET",
                     <<Segment("versioned-resource-occurrences")>>,
                     "", "ListVersionedResourceOccurrences")
  BY <1>1, <1>2, <1>7, OneDistinct
<1>8. CASE r = Route("GET", <<Segment("occurrences")>>, "", "ListOccurrences")
  BY <1>1, <1>2, <1>8, OneDistinct
<1>9. CASE r = Route("PATCH", <<Segment("occurrences"), Field>>, "", "UpdateOccurrence")
  BY <1>1, <1>2, <1>9, TwoDistinct
<1> QED BY <1>3, <1>4, <1>5, <1>6, <1>7, <1>8, <1>9, ZenonT(30) DEF OccurrenceRoutes

LEMMA PolicyRoutesDistinct == \A r \in PolicyRoutes : Distinct(r)
<1> SUFFICES ASSUME NEW r \in PolicyRoutes PROVE Distinct(r)
  OBVIOUS
<1>1. /\ \A third : MethodOf("POST", "", 1, "policies", third) = "CreatePolicy"
      /\ \A third : MethodOf("GET", "", 2, "policies", third) = "GetPolicy"
      /\ \A third : MethodOf("DELETE", "", 2, "policies", third) = "DeletePolicy"
      /\ \A third : MethodOf("GET", "", 1, "policies", third) = "ListPolicies"
      /\ MethodOf("GET", "", 3, "policies", "versions") = "ListPolicyVersions"
      /\ \A third : MethodOf("POST", "validate", 1, "policies", third) = "ValidatePolicy"
      /\ \A third : MethodOf("PATCH", "", 2, "policies", third) = "UpdatePolicy"
  BY DEF MethodOf
<1>2. /\ {"GetPolicy", "DeletePolicy", "UpdatePolicy"} \subseteq RodeMethod
      /\ {"CreatePolicy", "ListPolicies", "ListPolicyVersions", "ValidatePolicy"}
           \subseteq RodeMethod \ IdMethods
  BY MethodNames DEF IdMethods
<1>3. CASE r = Route("POST", <<Segment("policies")>>, "", "CreatePolicy")
  BY <1>1, <1>2, <1>3, OneDistinct
<1>4. CASE r = Route("GET", <<Segment("policies"), Field>>, "", "GetPolicy")
  BY <1>1, <1>2, <1>4, TwoDistinct
<1>5. CASE r = Route("DELETE", <<Segment("policies"), Field>>, "", "DeletePolicy")
  BY <1>1, <1>2, <1>5, TwoDistinct
<1>6. CASE r = Route("GET", <<Segment("policies")>>, "", "ListPolicies")
  BY <1>1, <1>2, <1>6, OneDistinct
<1>7. CASE r = Route("GET",
                     <<Segment("policies"), Field, Segment("versions")>>, "", "ListPolicyVersions")
  BY <1>1, <1>2, <1>7, ThreeDistinct
<1>8. CASE r = Route("POST", <<Segment("policies")>>, "validate", "ValidatePolicy")
  BY <1>1, <1>2, <1>8, OneDistinct
<1>9. CASE r = Route("PATCH", <<Segment("policies"), Field>>, "", "UpdatePolicy")
  BY <1>1, <1>2, <1>9, TwoDistinct
<1> QED BY <1>3, <1>4, <1>5, <1>6, <1>7, <1>8, <1>9, ZenonT(30) DEF PolicyRoutes

LEMMA CollectorRoutesDistinct == \A r \in CollectorRoutes : Distinct(r)
<1> SUFFICES ASSUME NEW r \in CollectorRoutes PROVE Distinct(r)
  OBVIOUS
<1>1. /\ \A third : MethodOf("POST", "register", 2, "collectors", third) =
           "RegisterCollector"
      /\ \A third : MethodOf("POST", "", 1, "notes", third) = "CreateNote"
  BY DEF MethodOf
<1>2. {"RegisterCollector", "CreateNote"}
        \subseteq RodeMethod \ IdMethods
  BY MethodNames DEF IdMethods
<1>3. CASE r = Route("POST",
                     <<Segment("collectors"), Field>>, "register", "RegisterCollector")
  BY <1>1, <1>2, <1>3, TwoDistinct
<1>4. CASE r = Route("POST", <<Segment("notes")>>, "", "CreateNote")
  BY <1>1, <1>2, <1>4, OneDistinct
<1> QED BY <1>3, <1>4, ZenonT(30) DEF CollectorRoutes

LEMMA PolicyGroupRoutesDistinct == \A r \in PolicyGroupRoutes : Distinct(r)
<1> SUFFICES ASSUME NEW r \in PolicyGroupRoutes PROVE Distinct(r)
  OBVIOUS
<1>1. /\ \A third : MethodOf("POST", "", 1, "policy-groups", third) = "CreatePolicyGroup"
      /\ \A third : MethodOf("GET", "", 1, "policy-groups", third) = "ListPolicyGroups"
      /\ \A third : MethodOf("GET", "", 2, "policy-groups", third) = "GetPolicyGroup"
      /\ \A third : MethodOf("PATCH", "", 2, "policy-groups", third) = "UpdatePolicyGroup"
      /\ \A third : MethodOf("DELETE", "", 2, "policy-groups", third) = "DeletePolicyGroup"
  BY DEF MethodOf
<1>2. {"CreatePolicyGroup", "ListPolicyGroups", "GetPolicyGroup",
       "UpdatePolicyGroup", "DeletePolicyGroup"}
        \subseteq RodeMethod \ IdMethods
  BY MethodNames DEF IdMethods
<1>3. CASE r = Route("POST", <<Segment("policy-groups")>>, "", "CreatePolicyGroup")
  BY <1>1, <1>2, <1>3, OneDistinct
<1>4. CASE r = Route("GET", <<Segment("policy-groups")>>, "", "ListPolicyGroups")
  BY <1>1, <1>2, <1>4, OneDistinct
<1>5. CASE r = Route("GET", <<Segment("policy-groups"), Field>>, "", "GetPolicyGroup")
  BY <1>1, <1>2, <1>5, TwoDistinct
<1>6. CASE r = Route("PATCH",
                     <<Segment("policy-groups"), Field>>, "", "UpdatePolicyGroup")
  BY <1>1, <1>2, <1>6, TwoDistinct
<1>7. CASE r = Route("DELETE",
                     <<Segment("policy-groups"), Field>>, "", "DeletePolicyGroup")
  BY <1>1, <1>2, <1>7, TwoDistinct
<1> QED BY <1>3, <1>4, <1>5, <1>6, <1>7, ZenonT(30) DEF PolicyGroupRoutes

LEMMA AssignmentRoutesDistinct == \A r \in AssignmentRoutes : Distinct(r)
<1> SUFFICES ASSUME NEW r \in AssignmentRoutes PROVE Distinct(r)
  OBVIOUS
<1>1. /\ MethodOf("POST", "", 4, "policies", "assignments") = "CreatePolicyAssignment"
      /\ MethodOf("GET", "", 4, "policies", "assignments") = "GetPolicyAssignment"
      /\ MethodOf("PATCH", "", 4, "policies", "assignments") = "UpdatePolicyAssignment"
      /\ MethodOf("DELETE", "", 4, "policies", "assignments") = "DeletePolicyAssignment"
      /\ MethodOf("GET", "", 3, "policies", "assignments") = "ListPolicyAssignments"
      /\ MethodOf("GET", "", 3, "policy-groups", "assignments") = "ListPolicyAssignments"
  BY DEF MethodOf
<1>2. {"CreatePolicyAssignment", "GetPolicyAssignment", "UpdatePolicyAssignment",
       "DeletePolicyAssignment", "ListPolicyAssignments"}
        \subseteq RodeMethod \ IdMethods
  BY MethodNames DEF IdMethods
<1>3. CASE r = Route("POST",
                     <<Segment("policies"), Field, Segment("assignments"), Field>>,
                     "", "CreatePolicyAssignment")
  BY <1>1, <1>2, <1>3, FourDistinct
<1>4. CASE r = Route("GET",
                     <<Segment("policies"), Field, Segment("assignments"), Field>>,
                     "", "GetPolicyAssignment")
  BY <1>1, <1>2, <1>4, FourDistinct
<1>5. CASE r = Route("PATCH",
                     <<Segment("policies"), Field, Segment("assignments"), Field>>,
                     "", "UpdatePolicyAssignment")
  BY <1>1, <1>2, <1>5, FourDistinct
<1>6. CASE r = Route("DELETE",
                     <<Segment("policies"), Field, Segment("assignments"), Field>>,
                     "", "DeletePolicyAssignment")
  BY <1>1, <1>2, <1>6, FourDistinct
<1>7. CASE r = Route("GET",
                     <<Segment("policies"), Field, Segment("assignments")>>,
                     "", "ListPolicyAssignments")
  BY <1>1, <1>2, <1>7, ThreeDistinct
<1>8. CASE r = Route("GET",
                     <<Segment("policy-groups"), Field, Segment("assignments")>>,
                     "", "ListPolicyAssignments")
  BY <1>1, <1>2, <1>8, ThreeDistinct
<1> QED BY <1>3, <1>4, <1>5, <1>6, <1>7, <1>8, ZenonT(30) DEF AssignmentRoutes

LEMMA EvaluationRoutesDistinct == \A r \in EvaluationRoutes : Distinct(r)
<1> SUFFICES ASSUME NEW r \in EvaluationRoutes PROVE Distinct(r)
  OBVIOUS
<1>1. /\ \A third : MethodOf("POST", "", 1, "resource-evaluations", third) =
           "EvaluateResource"
      /\ \A third : MethodOf("GET", "", 2, "resource-evaluations", third) =
           "GetResourceEvaluation"
      /\ \A third : MethodOf("GET", "", 1, "resource-evaluations", third) =
           "ListResourceEvaluations"
  BY DEF MethodOf
<1>2. {"EvaluateResource", "GetResourceEvaluation", "ListResourceEvaluations"}
        \subseteq RodeMethod \ IdMethods
  BY MethodNames DEF IdMethods
<1>3. CASE r = Route("POST", <<Segment("resource-evaluations")>>, "", "EvaluateResource")
  BY <1>1, <1>2, <1>3, OneDistinct
<1>4. CASE r = Route("GET",
                     <<Segment("resource-evaluations"), Field>>, "", "GetResourceEvaluation")
  BY <1>1, <1>2, <1>4, TwoDistinct
<1>5. CASE r = Route("GET",
                     <<Segment("resource-evaluations")>>, "", "ListResourceEvaluations")
  BY <1>1, <1>2, <1>5, OneDistinct
<1> QED BY <1>3, <1>4, <1>5, ZenonT(30) DEF EvaluationRoutes

\* rode.pb.gw.go: no request is one for two methods.
LEMMA RoutesDistinct == \A r \in Routes : Distinct(r)
  BY OccurrenceRoutesDistinct, PolicyRoutesDistinct, CollectorRoutesDistinct,
     PolicyGroupRoutesDistinct, AssignmentRoutesDistinct, EvaluationRoutesDistinct DEF Routes

\* The panics that are left to the call are behind the recovery: they are answered.
LEMMA PanicsAreBehind ==
  ASSUME stage \in {"authenticate", "handle"}, Panics
  PROVE  Answered("Internal")
<1>1. Position("recovery") < Position(stage)
  BY ChainOrder
<1> QED BY <1>1 DEF Panics

\* So a panic does not end the process.
LEMMA PanicsCaught ==
  ASSUME stage \in {"authenticate", "handle"}, Panics
  PROVE  stage' = "answered"
  BY PanicsAreBehind DEF Answered

\* Before anything happens, and then step by step.
LEMMA CallInit == Init => CallInv
<1>1. NoConfig \in Config /\ NoConfig.enabled = (NoConfig.basic \/ NoConfig.oidc)
  BY DEF NoConfig, Config
<1> QED BY <1>1 DEF Init, CallInv

LEMMA CallStep == CallInv /\ [Next]_vars => CallInv'
<1> SUFFICES ASSUME CallInv, [Next]_vars PROVE CallInv'
  OBVIOUS
<1> USE ChainOrder
<1> HIDE DEF Role, Flags, Method, Routes
<1>1. CASE Boot
  <2>1. PICK f \in Flags : Boot!(f)
    BY <1>1 DEF Boot
  <2> QED BY <2>1, BuildEnables DEF CallInv, context
<1>2. CASE Restart
  BY <1>2 DEF Restart, CallInv, context, NoConfig, Config
<1>3. CASE Receive
  BY <1>3 DEF Receive, CallInv, context, server, WellFormed
<1>4. CASE ReceiveHttp
  BY <1>4 DEF ReceiveHttp, CallInv, context, server
<1>5. CASE Forward
  <2>1. PICK route \in Routes : Forward!(route)
    BY <1>5 DEF Forward
  <2>2. WellFormed(message')
    <3> DEFINE id == IF route.method \in IdMethods THEN MessageId(route, http) ELSE <<>>
    <3>1. http \in HttpRequests /\ Matches(route, http)
      BY <2>1 DEF CallInv
    <3>2. id \in Ids \cup {<<>>} /\ (id = <<>>) = (route.method \notin IdMethods)
      BY <3>1, IdsAssumption
    <3>3. route.method \in Method
      BY RoutesDistinct DEF Distinct
    <3> QED BY <2>1, <3>2, <3>3 DEF WellFormed
  <2> QED BY <2>1, <2>2 DEF CallInv, context, server
<1>6. CASE NoRoute
  BY <1>6 DEF NoRoute, Answered, CallInv, context, server
<1>7. CASE PassRecovery
  BY <1>7 DEF PassRecovery, CallInv, context, server
<1>8. CASE AuthenticateCall
  <2>1. PICK header \in Header(Claims) : AuthenticateCall!(header)
    BY <1>8 DEF AuthenticateCall
  <2> DEFINE outcome == Authenticate(config, header)
  <2>2. /\ outcome.code \in {"OK", "Unauthenticated", "panic"}
        /\ outcome.roles \subseteq Role
        /\ Verified(config, header) \in BOOLEAN
        /\ outcome.code = "OK" /\ config.enabled =>
             /\ outcome.roles # {}
             /\ ~Verified(config, header) => outcome.roles = {"Anonymous"}
    BY AuthenticateGivesRoles DEF CallInv
  <2> HIDE DEF outcome
  <2>3. /\ stage = "authenticate" /\ verified' = Verified(config, header)
        /\ roles' = outcome.roles /\ UNCHANGED <<server, http, message>>
    BY <2>1 DEF outcome
  <2>4. stage' = "answered" \/ (outcome.code = "OK" /\ stage' = "authorize")
    BY <2>1, <2>2, PanicsCaught DEF outcome, Answered
  <2> QED BY <2>2, <2>3, <2>4 DEF CallInv, server
<1>9. CASE AuthorizeCall
  BY <1>9 DEF AuthorizeCall, Answered, CallInv, context, server
<1>10. CASE HandlePolicy
  BY <1>10, PanicsCaught DEF HandlePolicy, CallInv, context, server
<1>11. CASE HandleValidate
  BY <1>11 DEF HandleValidate, CallInv, context, server
<1>12. CASE HandleOther
  BY <1>12 DEF HandleOther, Answered, CallInv, context, server
<1>13. CASE Finish
  BY <1>13 DEF Finish, CallInv, server
<1>14. CASE UNCHANGED vars
  BY <1>14 DEF vars, CallInv, server, context
<1> QED BY <1>1, <1>2, <1>3, <1>4, <1>5, <1>6, <1>7, <1>8, <1>9, <1>10, <1>11, <1>12,
           <1>13, <1>14 DEF Next

\* What is known of a call holds throughout.
LEMMA CallInvariant == Spec => []CallInv
  BY CallInit, CallStep, PTL DEF Spec

\* What panics in the handler or the interceptors is answered, and the process goes on.
THEOREM AllPanicsAnswered == Spec => []PanicsAnswered
<1>1. CallInv => PanicsAnswered
  BY DEF CallInv, PanicsAnswered
<1> QED BY <1>1, CallInvariant, PTL

\* The path of a request over HTTP decides its method and the policy it is about: no two
\* routes of different methods match one request, and the field of the path is the id.
THEOREM ThePathDecides == Spec => PathDecides
<1> DEFINE Decided == stage = "gateway" =>
                        /\ Cardinality(Methods(http)) <= 1
                        /\ message'.id # <<>> => message'.id = http.path[2]
<1>1. CallInv /\ [Next]_vars => [Decided]_vars
  <2> SUFFICES ASSUME CallInv, [Next]_vars, stage = "gateway"
               PROVE  UNCHANGED vars \/ Decided
    OBVIOUS
  <2>1. Cardinality(Methods(http)) <= 1
    <3> DEFINE q == http
               m == MethodOf(q.verb, q.suffix, Len(q.path), q.path[1][1].text,
                             q.path[3][1].text)
    <3>1. Methods(q) \subseteq {m}
      BY RoutesDistinct DEF Methods, Distinct
    <3> HIDE DEF m
    <3>2. IsFiniteSet({m}) /\ Cardinality({m}) = 1
      BY FS_Singleton
    <3> QED BY <3>1, <3>2, FS_Subset
  <2>2. CASE Forward
    <3>1. PICK route \in Routes : Forward!(route)
      BY <2>2 DEF Forward
    <3>2. CASE route.method \in IdMethods
      <4>1. route.path = <<Segment("policies"), Field>>
        BY <3>2, RoutesDistinct DEF Distinct
      <4>2. {i \in DOMAIN route.path : route.path[i] = Field} = {2}
        BY <4>1 DEF Segment, Field
      <4>3. MessageId(route, http) = http.path[2]
        BY <4>2 DEF MessageId, PathId
      <4> QED BY <2>1, <3>1, <3>2, <4>3 DEF Message, NoMessage
    <3>3. CASE route.method \notin IdMethods
      BY <2>1, <3>1, <3>3 DEF Message, NoMessage
    <3> QED BY <3>2, <3>3
  <2>3. CASE NoRoute
    BY <2>1, <2>3 DEF NoRoute, CallInv, NoMessage
  <2>4. CASE UNCHANGED vars
    BY <2>4
  <2> QED BY <2>2, <2>3, <2>4 DEF Next, Boot, Restart, Receive, ReceiveHttp, PassRecovery,
             AuthenticateCall, AuthorizeCall, HandlePolicy, HandleValidate, HandleOther, Finish
<1> QED BY <1>1, CallInvariant, PTL DEF Spec, PathDecides

----------------------------------------------------------------------------
(***************************************************************************)
(* Numbers of versions.                                                    *)
(***************************************************************************)

\* The number of a version is that of its id: the conversion to uint32 keeps it.
LEMMA VersionNumbers ==
  /\ 2 ^ Width \in Nat /\ 2 ^ Width > 0
  /\ \A n \in Version : n \in Nat /\ n # 0 /\ n % 2 ^ Width = n
  /\ \A n \in Int : n % 2 ^ Width \in 0..(2 ^ Width - 1)
<1>1. ASSUME NEW m \in Nat, m > 0
      PROVE  /\ \A n \in 1..(m - 1) : n \in Nat /\ n # 0 /\ n % m = n
             /\ \A n \in Int : n % m \in 0..(m - 1)
  BY <1>1
<1>2. 2 ^ Width \in Nat /\ 2 ^ Width > 0
  BY ChangesAssumption, WidthAssumption
<1> QED BY <1>1, <1>2, Zenon DEF Version

----------------------------------------------------------------------------
(***************************************************************************)
(* The documents of the index.                                             *)
(***************************************************************************)

\* What the ids of calls, and those that are made of them, have between their dots.
CallPiece == UNION {Range(id) : id \in Ids}
Numerals == {Numeral(n, TRUE) : n \in Nat}
Piece == CallPiece \cup {Word("counter"), Word("p")} \cup Numerals

DocType == [kind : {"policy", "version", "counter"}, current : 0..(2 ^ Width - 1),
            deleted : BOOLEAN, writes : Nat]

DocsTyped(ix, n) ==
  ix \in [DOMAIN ix -> DocType] /\ \A id \in DOMAIN ix : ix[id].writes <= n

\* The policy is the only document without a dot in its id, and the first there is.
IdsShaped(ix) ==
  \A id \in DOMAIN ix :
    /\ id \in Seq(Piece) \ {<<>>}
    /\ Len(id) > 1 \/ id = PolicyId
    /\ PolicyId \in DOMAIN ix

CurrentExists(ix) ==
  PolicyId \in DOMAIN ix =>
    PolicyVersionId(Word("p"), ix[PolicyId].current) \in DOMAIN ix

\* The counter beside a version.
CounterOf(id) == [id EXCEPT ![Len(id)] = Word("counter")]

\* Whatever an id was written from, the counter beside it has counted up to its number.
Counted(ix) ==
  \A id \in DOMAIN ix : \A n \in Version :
    Len(id) > 1 /\ id[Len(id)] = Numeral(n, TRUE) =>
      CounterOf(id) \in DOMAIN ix /\ n <= ix[CounterOf(id)].writes

KindsGood(ix, mis) ==
  /\ mis \subseteq DOMAIN ix /\ \A id \in mis : Len(id) > 1
  /\ \A id \in DOMAIN ix \ mis : ix[id].kind = KindOf(id)

IndexGood(ix, mis, n) ==
  DocsTyped(ix, n) /\ IdsShaped(ix) /\ CurrentExists(ix) /\ Counted(ix) /\ KindsGood(ix, mis)

IndexInv == changes \in 0..MaxChanges /\ IndexGood(index, misused, changes)

\* Words and numerals are different pieces.
LEMMA Pieces ==
  /\ \A n \in Nat : Numeral(n, TRUE) \in Piece
  /\ \A n, m : Numeral(n, TRUE) = Numeral(m, TRUE) => n = m
  /\ \A n : IsNumeral(Numeral(n, TRUE)) /\ Numeral(n, TRUE).number = n
  /\ Word("counter") \in Piece /\ Word("p") \in Piece
  /\ ~IsNumeral(Word("counter")) /\ Word("p") # Empty
<1>1. /\ Word("counter") \in Piece /\ Word("p") \in Piece
      /\ \A n \in Nat : Numeral(n, TRUE) \in Piece
  BY DEF Piece, Numerals
<1>2. \A n : Numeral(n, TRUE).number = n /\ Numeral(n, TRUE).text = ""
  BY DEF Numeral
<1>3. Word("counter").text = "counter" /\ Word("p").text = "p" /\ Empty.text = "empty"
  BY DEF Word, Empty
<1>4. ASSUME NEW n, NEW m, Numeral(n, TRUE) = Numeral(m, TRUE) PROVE n = m
  <2>1. Numeral(n, TRUE).number = Numeral(m, TRUE).number
    BY <1>4
  <2>2. Numeral(n, TRUE).number = n
    BY DEF Numeral
  <2>3. Numeral(m, TRUE).number = m
    BY DEF Numeral
  <2> QED BY <2>1, <2>2, <2>3, Zenon
<1>5. ~IsNumeral(Word("counter")) /\ \A n : IsNumeral(Numeral(n, TRUE))
  BY <1>2, <1>3 DEF IsNumeral
<1>6. Word("p") # Empty
  BY <1>3
<1> QED BY <1>1, <1>2, <1>4, <1>5, <1>6, Zenon

\* The ids of calls are sequences of pieces.
LEMMA IdPieces == Ids \subseteq Seq(Piece) \ {<<>>}
<1> SUFFICES ASSUME NEW id \in Ids PROVE id \in Seq(Piece) \ {<<>>}
  OBVIOUS
<1> DEFINE S == {id[i] : i \in DOMAIN id}
<1>1. id # <<>> /\ id \in Seq(S)
  BY IdsAssumption DEF IsSequence
<1>2. S \subseteq Piece
  BY DEF Piece, CallPiece, Range
<1> HIDE DEF S
<1> QED BY <1>1, <1>2

\* What an id and a piece after a dot are.
LEMMA Appended ==
  ASSUME NEW b \in Seq(Piece), NEW x \in Piece
  PROVE  /\ Append(b, x) \in Seq(Piece) \ {<<>>}
         /\ Len(Append(b, x)) = Len(b) + 1
         /\ Append(b, x)[Len(Append(b, x))] = x
         /\ CounterOf(Append(b, x)) = PolicyCounterId(b)
         /\ b # <<>> => Len(Append(b, x)) > 1
<1>1. Word("counter") \in Piece
  BY Pieces
<1>2. /\ Append(b, x) \in Seq(Piece) \ {<<>>} /\ Len(Append(b, x)) = Len(b) + 1
      /\ Append(b, x)[Len(Append(b, x))] = x /\ Len(b) \in Nat
      /\ b # <<>> => Len(b) > 0
  OBVIOUS
<1>3. [Append(b, x) EXCEPT ![Len(b) + 1] = Word("counter")] = Append(b, Word("counter"))
  <2> DEFINE a == [Append(b, x) EXCEPT ![Len(b) + 1] = Word("counter")]
             c == Append(b, Word("counter"))
  <2>1. a \in Seq(Piece) /\ c \in Seq(Piece) /\ Len(a) = Len(c)
    BY <1>1
  <2>2. ASSUME NEW i \in 1..Len(c) PROVE a[i] = c[i]
    <3>1. CASE i = Len(b) + 1
      BY <1>1, <3>1
    <3>2. CASE i \in 1..Len(b)
      <4>1. c[i] = b[i] /\ Append(b, x)[i] = b[i]
        BY <3>2
      <4>2. i \in DOMAIN Append(b, x) /\ i # Len(b) + 1
        BY <3>2
      <4>3. a[i] = Append(b, x)[i]
        BY <4>2, Zenon
      <4> QED BY <4>1, <4>3
    <3> QED BY <1>1, <3>1, <3>2
  <2> HIDE DEF a, c
  <2>3. a = c
    BY <2>1, <2>2, SeqEqual
  <2> QED BY <2>3 DEF a, c
<1> QED BY <1>2, <1>3 DEF CounterOf, PolicyCounterId

\* What the counter beside an id is.
LEMMA CounterShape ==
  ASSUME NEW id \in Seq(Piece) \ {<<>>}
  PROVE  /\ CounterOf(id) \in Seq(Piece) \ {<<>>} /\ Len(CounterOf(id)) = Len(id)
         /\ CounterOf(id)[Len(id)] = Word("counter")
<1>1. Word("counter") \in Piece
  BY Pieces
<1> QED BY <1>1 DEF CounterOf

\* The empty index is in order.
LEMMA IndexInit == Init => IndexInv
<1>1. IndexGood(NoWrites, {}, 0)
  BY DEF NoWrites, IndexGood, DocsTyped, IdsShaped, CurrentExists, Counted, KindsGood, DocType
<1> QED BY <1>1, ChangesAssumption, VersionNumbers DEF Init, IndexInv

\* The kinds of ids with a dot, and of the one without.
LEMMA Kinds ==
  /\ KindOf(PolicyId) = "policy"
  /\ \A id \in Seq(Piece) : Len(id) > 1 =>
       KindOf(id) = IF id[Len(id)] = Word("counter") THEN "counter" ELSE "version"
<1>1. Len(PolicyId) = 1 /\ PolicyId[Len(PolicyId)] # Word("counter")
  <2>1. Len(PolicyId) = 1 /\ PolicyId[1] = Word("p")
    BY DEF PolicyId
  <2>2. Word("p") # Word("counter")
    BY DEF Word
  <2> QED BY <2>1, <2>2, Zenon
<1>2. \A n \in Nat : n > 1 => n # 1
  OBVIOUS
<1>3. \A id \in Seq(Piece) : Len(id) \in Nat
  OBVIOUS
<1> QED BY <1>1, <1>2, <1>3, Zenon DEF KindOf

\* A policy document is what the id of the policy leads to, and nothing else without a dot.
LEMMA PolicyDocument ==
  ASSUME NEW ix, NEW mis, NEW n, IndexGood(ix, mis, n), PolicyId \in DOMAIN ix
  PROVE  ix[PolicyId].kind = "policy" /\ ix[PolicyId] \in DocType
<1>1. ~(Len(PolicyId) > 1)
  BY DEF PolicyId
<1>2. \A id \in mis : Len(id) > 1
  BY DEF IndexGood, KindsGood
<1>3. PolicyId \notin mis
  BY <1>1, <1>2
<1>4. ix[PolicyId].kind = KindOf(PolicyId)
  BY <1>3 DEF IndexGood, KindsGood
<1>5. KindOf(PolicyId) = "policy"
  BY Kinds
<1>6. ix[PolicyId] \in DocType
  BY DEF IndexGood, DocsTyped
<1> QED BY <1>4, <1>5, <1>6

\* GetPolicy: which ids are answered OK, and what is read.
LEMMA GetReads ==
  ASSUME NEW ix, NEW mis, NEW k, IndexGood(ix, mis, k), NEW id \in Seq(Piece) \ {<<>>}
  PROVE  LET got == GetPolicy(ix, id) IN
         /\ got.writes = NoWrites
         /\ got.code \in {"OK", "InvalidArgument", "NotFound", "Internal"}
         /\ got.code = "OK" =>
              /\ got.read \in DOMAIN ix /\ PolicyId \in DOMAIN ix /\ <<id[1]>> = PolicyId
              /\ Len(id) = 1 => /\ id = PolicyId
                                /\ got.read = PolicyVersionId(id[1], ix[id].current)
              /\ Len(id) # 1 => Len(id) = 2 /\ IsNumeral(id[2])
              /\ Len(id) = 2 /\ id[2].number \in Version =>
                   got.read = PolicyVersionId(id[1], id[2].number)
<1> DEFINE got      == GetPolicy(ix, id)
           parsed   == ParsePolicyVersionId(id)
           version  == IF parsed.version = 0 THEN ix[<<parsed.policy>>].current
                       ELSE parsed.version
           entity   == PolicyVersionId(parsed.policy, version)
<1>1. /\ got.writes = NoWrites
      /\ got.code \in {"OK", "InvalidArgument", "NotFound", "Internal"}
      /\ got.code = "OK" =>
           /\ parsed.ok /\ <<parsed.policy>> \in DOMAIN ix
           /\ entity \in DOMAIN ix /\ got.read = entity
  <2> HIDE DEF parsed, version, entity
  <2>1. got = IF ~parsed.ok \/ parsed.policy = Empty THEN Refusal("InvalidArgument")
              ELSE IF <<parsed.policy>> \notin DOMAIN ix THEN Refusal("NotFound")
              ELSE IF entity \notin DOMAIN ix THEN Refusal("Internal")
              ELSE Outcome("OK", entity, NoWrites)
    BY DEF GetPolicy, parsed, version, entity
  <2> HIDE DEF got
  <2> QED BY <2>1 DEF Refusal, Outcome
<1>2. /\ Len(id) = 1 => parsed.ok /\ parsed.policy = id[1] /\ parsed.version = 0
      /\ parsed.ok /\ Len(id) # 1 =>
           /\ Len(id) = 2 /\ IsNumeral(id[2])
           /\ parsed.policy = id[1] /\ parsed.version = id[2].number % 2 ^ Width
  BY DEF ParsePolicyVersionId, Readable, Unreadable
<1>3. Len(id) \in Nat /\ (Len(id) = 1 => id = <<id[1]>>)
  OBVIOUS
<1> HIDE DEF parsed, got
<1> SUFFICES ASSUME got.code = "OK"
             PROVE  /\ got.read \in DOMAIN ix /\ PolicyId \in DOMAIN ix /\ <<id[1]>> = PolicyId
                    /\ Len(id) = 1 => /\ id = PolicyId
                                      /\ got.read = PolicyVersionId(id[1], ix[id].current)
                    /\ Len(id) # 1 => Len(id) = 2 /\ IsNumeral(id[2])
                    /\ Len(id) = 2 /\ id[2].number \in Version =>
                         got.read = PolicyVersionId(id[1], id[2].number)
  BY <1>1 DEF got
<1>4. /\ parsed.ok /\ <<parsed.policy>> \in DOMAIN ix
      /\ entity \in DOMAIN ix /\ got.read = entity
  BY <1>1
<1>5. parsed.policy = id[1]
  BY <1>2, <1>4
<1>6. <<id[1]>> = PolicyId /\ PolicyId \in DOMAIN ix
  <2>1. <<id[1]>> \in DOMAIN ix /\ ~(Len(<<id[1]>>) > 1)
    BY <1>4, <1>5
  <2> QED BY <2>1 DEF IndexGood, IdsShaped
<1>7. Len(id) = 1 => entity = PolicyVersionId(id[1], ix[id].current)
  BY <1>2, <1>3
<1>8. Len(id) = 2 /\ id[2].number \in Version => entity = PolicyVersionId(id[1], id[2].number)
  <2> SUFFICES ASSUME Len(id) = 2, id[2].number \in Version
               PROVE  entity = PolicyVersionId(id[1], id[2].number)
    OBVIOUS
  <2>1. parsed.version = id[2].number % 2 ^ Width
    BY <1>2, <1>4
  <2>2. id[2].number # 0 /\ id[2].number % 2 ^ Width = id[2].number
    BY VersionNumbers, Zenon
  <2>3. parsed.version # 0 /\ parsed.version = id[2].number
    BY <2>1, <2>2, Zenon
  <2> QED BY <1>5, <2>3, Zenon
<1> HIDE DEF entity
<1> QED BY <1>2, <1>3, <1>4, <1>6, <1>7, <1>8

\* What there was holds of a longer history.
LEMMA LaterGood ==
  ASSUME NEW ix, NEW mis, NEW n \in Nat, IndexGood(ix, mis, n)
  PROVE  IndexGood(ix, mis, n + 1)
<1>1. \A id \in DOMAIN ix : ix[id].writes \in Nat
  BY DEF IndexGood, DocsTyped, DocType
<1>2. DocsTyped(ix, n + 1)
  BY <1>1 DEF IndexGood, DocsTyped
<1> QED BY <1>2 DEF IndexGood

\* What is where after documents are written.
IsFcn(f) == f = [x \in DOMAIN f |-> f[x]]

\* The documents after several are written over others.
LEMMA Overwritten ==
  ASSUME NEW f, NEW g
  PROVE  /\ IsFcn(Over(f, g))
         /\ DOMAIN Over(f, g) = DOMAIN f \cup DOMAIN g
         /\ \A x \in DOMAIN f : Over(f, g)[x] = f[x]
         /\ \A x \in DOMAIN g : x \notin DOMAIN f => Over(f, g)[x] = g[x]
  BY DEF Over, IsFcn

\* The documents after one is written.
LEMMA SingleDomain ==
  ASSUME NEW d, NEW e, NEW g
  PROVE  DOMAIN Write(d, e, g) = {d} \cup DOMAIN g
  BY DEF Write, Over

LEMMA SingleValues ==
  ASSUME NEW d, NEW e, NEW g
  PROVE  /\ Write(d, e, g)[d] = e
         /\ \A x \in DOMAIN g : x # d => Write(d, e, g)[x] = g[x]
  BY DEF Write, Over

\* The documents after a call has written one.
LEMMA PutDomain ==
  ASSUME NEW ix, NEW a, NEW x
  PROVE  DOMAIN Over(Write(a, x, NoWrites), ix) = {a} \cup DOMAIN ix
  BY DEF Over, Write, NoWrites

LEMMA PutValues ==
  ASSUME NEW ix, NEW a, NEW x
  PROVE  /\ IsFcn(Over(Write(a, x, NoWrites), ix))
         /\ Over(Write(a, x, NoWrites), ix)[a] = x
         /\ \A d \in DOMAIN ix : d # a => Over(Write(a, x, NoWrites), ix)[d] = ix[d]
  BY DEF Over, Write, NoWrites, IsFcn

Three(ix, a, x, b, y, c, z) == Over(Write(a, x, Write(b, y, Write(c, z, NoWrites))), ix)

IsThree(new, ix, a, x, b, y, c, z) ==
  /\ DOMAIN new = {a, b, c} \cup DOMAIN ix
  /\ IsFcn(new)
  /\ new[a] = x /\ new[b] = y /\ new[c] = z
  /\ \A d \in DOMAIN ix : d \notin {a, b, c} => new[d] = ix[d]

\* The documents after a call has written three with different ids.
LEMMA PutThree ==
  ASSUME NEW ix, NEW a, NEW x, NEW b, NEW y, NEW c, NEW z, a # b, a # c, b # c
  PROVE  IsThree(Three(ix, a, x, b, y, c, z), ix, a, x, b, y, c, z)
<1> DEFINE new == Three(ix, a, x, b, y, c, z)
           g == Write(c, z, NoWrites)
           h == Write(b, y, g)
           w == Write(a, x, h)
<1>1. DOMAIN NoWrites = {}
  BY DEF NoWrites
<1>2. DOMAIN g = {c} \cup DOMAIN NoWrites /\ g[c] = z
  BY SingleDomain, SingleValues
<1> HIDE DEF g
<1>3. /\ DOMAIN h = {b} \cup DOMAIN g
      /\ h[b] = y /\ \A d \in DOMAIN g : d # b => h[d] = g[d]
  <2>1. DOMAIN h = {b} \cup DOMAIN g
    BY SingleDomain
  <2>2. h[b] = y /\ \A d \in DOMAIN g : d # b => h[d] = g[d]
    BY SingleValues
  <2> QED BY <2>1, <2>2
<1> HIDE DEF h
<1>4. /\ DOMAIN w = {a} \cup DOMAIN h
      /\ w[a] = x /\ \A d \in DOMAIN h : d # a => w[d] = h[d]
  <2>1. DOMAIN w = {a} \cup DOMAIN h
    BY SingleDomain
  <2>2. w[a] = x /\ \A d \in DOMAIN h : d # a => w[d] = h[d]
    BY SingleValues
  <2> QED BY <2>1, <2>2
<1> HIDE DEF w
<1>5. /\ DOMAIN Over(w, ix) = DOMAIN w \cup DOMAIN ix /\ IsFcn(Over(w, ix))
      /\ \A d \in DOMAIN w : Over(w, ix)[d] = w[d]
      /\ \A d \in DOMAIN ix : d \notin DOMAIN w => Over(w, ix)[d] = ix[d]
  BY Overwritten
<1>6. new = Over(w, ix)
  BY DEF g, h, w, Three
<1> HIDE DEF new
<1>7. DOMAIN w = {a, b, c} /\ w[a] = x /\ w[b] = y /\ w[c] = z
  BY <1>1, <1>2, <1>3, <1>4
<1>8. /\ DOMAIN new = {a, b, c} \cup DOMAIN ix
      /\ IsFcn(new) /\ new[a] = x /\ new[b] = y /\ new[c] = z
      /\ \A d \in DOMAIN ix : d \notin {a, b, c} => new[d] = ix[d]
  BY <1>5, <1>6, <1>7
<1> QED BY <1>8 DEF new, IsThree

\* A call that is refused writes nothing.
LEMMA NothingWritten == ASSUME NEW ix, IsFcn(ix) PROVE Over(NoWrites, ix) = ix
<1> DEFINE new == Over(NoWrites, ix)
<1>1. DOMAIN NoWrites = {}
  BY DEF NoWrites
<1>2. /\ DOMAIN new = DOMAIN NoWrites \cup DOMAIN ix /\ IsFcn(new)
      /\ \A x \in DOMAIN ix : x \notin DOMAIN NoWrites => new[x] = ix[x]
  BY Overwritten
<1> HIDE DEF new
<1>3. DOMAIN new = DOMAIN ix /\ \A x \in DOMAIN ix : new[x] = ix[x]
  BY <1>1, <1>2
<1>4. new = ix
  BY <1>2, <1>3 DEF IsFcn
<1> QED BY <1>4 DEF new

\* An id of one piece and what is after its dot.
LEMMA AppendOne == ASSUME NEW a, NEW b PROVE Append(<<a>>, b) = <<a, b>>
<1>1. Append(<<a>>, b) \in Seq({a, b}) /\ Len(Append(<<a>>, b)) = 1 + 1
  OBVIOUS
<1>2. Append(<<a>>, b)[1] = a /\ Append(<<a>>, b)[2] = b
  OBVIOUS
<1>3. <<a, b>> \in Seq({a, b}) /\ Len(<<a, b>>) = 1 + 1 /\ <<a, b>>[1] = a /\ <<a, b>>[2] = b
  OBVIOUS
<1>4. \A i \in 1..(1 + 1) : i = 1 \/ i = 2
  OBVIOUS
<1>5. \A i \in 1..Len(Append(<<a>>, b)) : Append(<<a>>, b)[i] = <<a, b>>[i]
  BY <1>1, <1>2, <1>3, <1>4
<1> QED BY <1>1, <1>3, <1>5, SeqEqual

\* The id of the policy is a piece.
LEMMA PolicyIdShape ==
  /\ PolicyId \in Seq(Piece) \ {<<>>} /\ Len(PolicyId) = 1 /\ ~(Len(PolicyId) > 1)
  /\ PolicyId[1] = Word("p")
  BY Pieces DEF PolicyId

\* CreatePolicy: the policy, its counter and its first version.
LEMMA CreateKeeps ==
  ASSUME NEW ix, NEW mis, NEW n \in Nat, IndexGood(ix, mis, n), n < MaxChanges,
         PolicyId \notin DOMAIN ix,
         NEW new,
         new = Over(CreatePolicy(ix, PolicyId, "valid").writes, ix)
  PROVE  IndexGood(new, mis, n + 1)
<1> DEFINE counter == PolicyCounterId(PolicyId)
           version == PolicyVersionId(PolicyId[1], 1)
<1>1. DOMAIN ix = {}
  BY DEF IndexGood, IdsShaped
<1>2. version = Append(PolicyId, Numeral(1, TRUE)) /\ counter = Append(PolicyId, Word("counter"))
  BY AppendOne, PolicyIdShape DEF PolicyVersionId, PolicyCounterId, PolicyId
<1>3. /\ counter \in Seq(Piece) \ {<<>>} /\ Len(counter) > 1
      /\ counter[Len(counter)] = Word("counter")
  <2> HIDE DEF counter
  <2> QED BY <1>2, Pieces, Appended, PolicyIdShape
<1>4. /\ version \in Seq(Piece) \ {<<>>} /\ Len(version) > 1
      /\ version[Len(version)] = Numeral(1, TRUE) /\ CounterOf(version) = counter
  <2> HIDE DEF version
  <2> QED BY <1>2, Pieces, Appended, PolicyIdShape
<1>5. new = Three(ix, PolicyId, Doc("policy", 1, FALSE, 0), counter, Counter(1),
                  version, VersionDoc)
  BY DEF CreatePolicy, Outcome, Three
<1> HIDE DEF counter, version
<1>6. Numeral(1, TRUE) # Word("counter")
  BY Pieces
<1>7. PolicyId # counter /\ PolicyId # version /\ counter # version
  BY <1>3, <1>4, <1>6, PolicyIdShape
<1>8. /\ IsFcn(new) /\ DOMAIN new = {PolicyId, counter, version}
      /\ new[PolicyId] = Doc("policy", 1, FALSE, 0) /\ new[counter] = Counter(1)
      /\ new[version] = VersionDoc
  <2>1. IsThree(new, ix, PolicyId, Doc("policy", 1, FALSE, 0), counter, Counter(1),
                version, VersionDoc)
    BY <1>5, <1>7, PutThree
  <2> QED BY <1>1, <2>1 DEF IsThree
<1>9. 1 \in 0..(2 ^ Width - 1) /\ 0 \in 0..(2 ^ Width - 1)
  BY ChangesAssumption, WidthAssumption
<1>10. DocsTyped(new, n + 1)
  <2>1. Doc("policy", 1, FALSE, 0) \in DocType /\ Doc("policy", 1, FALSE, 0).writes <= n + 1
    BY <1>9 DEF DocType, Doc
  <2>2. Counter(1) \in DocType /\ Counter(1).writes <= n + 1
    BY <1>9 DEF DocType, Counter, Doc
  <2>3. VersionDoc \in DocType /\ VersionDoc.writes <= n + 1
    BY <1>9 DEF DocType, VersionDoc, Doc
  <2>4. \A id \in DOMAIN new : new[id] \in DocType /\ new[id].writes <= n + 1
    BY <1>8, <2>1, <2>2, <2>3
  <2> QED BY <1>8, <2>4 DEF DocsTyped, IsFcn
<1>11. IdsShaped(new)
  BY <1>3, <1>4, <1>8, PolicyIdShape DEF IdsShaped
<1>12. CurrentExists(new)
  BY <1>8, PolicyIdShape DEF CurrentExists, Doc, version
<1>13. Counted(new)
  <2> SUFFICES ASSUME NEW id \in DOMAIN new, NEW m \in Version,
                      Len(id) > 1, id[Len(id)] = Numeral(m, TRUE)
               PROVE  CounterOf(id) \in DOMAIN new /\ m <= new[CounterOf(id)].writes
    BY DEF Counted
  <2>1. id # PolicyId
    BY PolicyIdShape
  <2>2. id # counter
    <3>1. Numeral(m, TRUE) # Word("counter")
      BY Pieces, Zenon
    <3> QED BY <1>3, <3>1, Zenon
  <2>3. id = version
    BY <1>8, <2>1, <2>2
  <2>4. m = 1
    BY <1>4, <2>3, Pieces
  <2> QED BY <1>4, <1>8, <2>3, <2>4 DEF Counter, Doc
<1>14. KindsGood(new, mis)
  <2>1. mis = {}
    BY <1>1 DEF IndexGood, KindsGood
  <2>2. KindOf(counter) = "counter" /\ KindOf(version) = "version" /\ KindOf(PolicyId) = "policy"
    BY <1>3, <1>4, <1>6, Kinds
  <2> QED BY <1>8, <2>1, <2>2 DEF KindsGood, Doc, Counter, VersionDoc
<1> QED BY <1>10, <1>11, <1>12, <1>13, <1>14 DEF IndexGood

\* The ids a call wrote a policy under that are no policies' ids.
Dotted(id) == IF Len(id) > 1 THEN {id} ELSE {}

\* DeletePolicy: the document of the id, marked as a deleted policy.
LEMMA DeleteKeeps ==
  ASSUME NEW ix, NEW mis, NEW n \in Nat, IndexGood(ix, mis, n),
         NEW id \in DOMAIN ix, id # <<Empty>>,
         NEW new, new = Over(DeletePolicy(ix, id).writes, ix)
  PROVE  IndexGood(new, mis \cup Dotted(id), n + 1)
<1> DEFINE doc   == ix[id]
           count == IF doc.writes = 0 THEN 0 ELSE doc.writes + 1
           put   == Doc("policy", doc.current, TRUE, count)
           now   == mis \cup Dotted(id)
<1>1. new = Over(Write(id, put, NoWrites), ix)
  BY DEF DeletePolicy, Outcome
<1>2. /\ doc \in DocType /\ doc.writes <= n
      /\ \A d \in DOMAIN ix : ix[d] \in DocType /\ ix[d].writes <= n
  BY DEF IndexGood, DocsTyped
<1> HIDE DEF doc
<1>3. /\ put \in DocType /\ put.kind = "policy" /\ put.current = doc.current
      /\ put.writes <= n + 1 /\ doc.writes <= put.writes
  BY <1>2 DEF Doc, DocType
<1> HIDE DEF put
<1>4. /\ DOMAIN new = DOMAIN ix /\ IsFcn(new) /\ new[id] = put
      /\ \A d \in DOMAIN ix : d # id => new[d] = ix[d]
  <2>1. DOMAIN new = {id} \cup DOMAIN ix
    BY <1>1, PutDomain
  <2>2. IsFcn(new) /\ new[id] = put /\ \A d \in DOMAIN ix : d # id => new[d] = ix[d]
    BY <1>1, PutValues
  <2> QED BY <2>1, <2>2
<1>5. \A d \in DOMAIN ix :
        ix[d].writes \in Nat /\ new[d].writes \in Nat /\ ix[d].writes <= new[d].writes
  BY <1>2, <1>3, <1>4 DEF doc, DocType
<1>6. DocsTyped(new, n + 1)
  <2>1. \A d \in DOMAIN ix : new[d] \in DocType
    BY <1>2, <1>3, <1>4
  <2>2. \A d \in DOMAIN ix : new[d].writes <= n + 1
    BY <1>2, <1>3, <1>4, <1>5
  <2> QED BY <1>4, <2>1, <2>2 DEF DocsTyped, IsFcn
<1>7. IdsShaped(new)
  BY <1>4 DEF IndexGood, IdsShaped
<1>8. CurrentExists(new)
  BY <1>3, <1>4 DEF IndexGood, CurrentExists, doc
<1>9. Counted(new)
  <2> SUFFICES ASSUME NEW d \in DOMAIN new, NEW m \in Version,
                      Len(d) > 1, d[Len(d)] = Numeral(m, TRUE)
               PROVE  CounterOf(d) \in DOMAIN new /\ m <= new[CounterOf(d)].writes
    BY DEF Counted
  <2>1. CounterOf(d) \in DOMAIN ix /\ m <= ix[CounterOf(d)].writes
    BY <1>4 DEF IndexGood, Counted
  <2>2. m \in Nat
    BY VersionNumbers
  <2> QED BY <1>4, <1>5, <2>1, <2>2
<1>10. KindsGood(new, now)
  <2>1. mis \subseteq DOMAIN ix /\ \A d \in mis : Len(d) > 1
    BY DEF IndexGood, KindsGood
  <2>2. \A d \in DOMAIN ix \ mis : ix[d].kind = KindOf(d)
    BY DEF IndexGood, KindsGood
  <2>3. now \subseteq DOMAIN ix /\ \A d \in now : Len(d) > 1
    BY <2>1 DEF Dotted
  <2>4. ~(Len(id) > 1) => KindOf(id) = "policy"
    BY Kinds DEF IndexGood, IdsShaped
  <2>5. ASSUME NEW d \in DOMAIN ix \ now PROVE new[d].kind = KindOf(d)
    BY <1>3, <1>4, <2>2, <2>4 DEF Dotted
  <2> QED BY <1>4, <2>3, <2>5 DEF KindsGood
<1> QED BY <1>6, <1>7, <1>8, <1>9, <1>10 DEF IndexGood

\* The id of an update that is answered OK, if it is a version's: the version is there.
LEMMA ReadableId ==
  ASSUME NEW ix, NEW mis, NEW k, IndexGood(ix, mis, k), NEW id \in Seq(Piece) \ {<<>>},
         GetPolicy(ix, id).code = "OK"
  PROVE  /\ PolicyId \in DOMAIN ix /\ <<id[1]>> = PolicyId
         /\ Len(id) > 1 \/ id = PolicyId
         /\ id # PolicyId => id[Len(id)] # Word("counter")
         /\ \A m \in Version : Len(id) > 1 /\ id[Len(id)] = Numeral(m, TRUE) =>
              id \in DOMAIN ix
<1> DEFINE got == GetPolicy(ix, id)
<1>1. /\ got.read \in DOMAIN ix /\ PolicyId \in DOMAIN ix /\ <<id[1]>> = PolicyId
      /\ Len(id) = 1 => id = PolicyId
      /\ Len(id) # 1 => Len(id) = 2 /\ IsNumeral(id[2])
      /\ Len(id) = 2 /\ id[2].number \in Version =>
           got.read = PolicyVersionId(id[1], id[2].number)
  BY GetReads
<1> HIDE DEF got
<1>2. CASE Len(id) = 1
  <2>1. id = PolicyId /\ ~(Len(id) > 1)
    BY <1>1, <1>2, PolicyIdShape
  <2> QED BY <1>1, <2>1
<1>3. CASE Len(id) # 1
  <2>1. Len(id) = 2 /\ IsNumeral(id[2])
    BY <1>1, <1>3
  <2>2. id = <<id[1], id[2]>> /\ id[Len(id)] = id[2] /\ Len(id) > 1
    BY <2>1
  <2>3. id[2] # Word("counter")
    BY <2>1, Pieces
  <2>4. ASSUME NEW m \in Version, id[2] = Numeral(m, TRUE) PROVE id \in DOMAIN ix
    <3>1. id[2].number = m
      BY <2>4, Pieces
    <3>2. got.read = PolicyVersionId(id[1], m)
      BY <1>1, <2>1, <3>1
    <3>3. got.read = id
      BY <2>2, <2>4, <3>2 DEF PolicyVersionId
    <3> QED BY <1>1, <3>3
  <2> QED BY <1>1, <2>2, <2>3, <2>4
<1> QED BY <1>2, <1>3

\* UpdatePolicy with the content there is: the policy, under the id as it came.
LEMMA SameKeeps ==
  ASSUME NEW ix, NEW mis, NEW n \in Nat, IndexGood(ix, mis, n),
         NEW id \in Seq(Piece) \ {<<>>}, GetPolicy(ix, id).code = "OK",
         NEW new, new = Over(Write(id, ix[<<id[1]>>], NoWrites), ix)
  PROVE  IndexGood(new, mis \cup Dotted(id), n + 1)
<1>1. /\ PolicyId \in DOMAIN ix /\ <<id[1]>> = PolicyId
      /\ Len(id) > 1 \/ id = PolicyId
      /\ id # PolicyId => id[Len(id)] # Word("counter")
      /\ \A m \in Version : Len(id) > 1 /\ id[Len(id)] = Numeral(m, TRUE) => id \in DOMAIN ix
  BY ReadableId
<1>2. /\ DOMAIN new = {id} \cup DOMAIN ix /\ IsFcn(new) /\ new[id] = ix[PolicyId]
      /\ \A d \in DOMAIN ix : d # id => new[d] = ix[d]
  <2>1. DOMAIN new = {id} \cup DOMAIN ix
    BY PutDomain
  <2>2. IsFcn(new) /\ new[id] = ix[PolicyId] /\ \A d \in DOMAIN ix : d # id => new[d] = ix[d]
    BY <1>1, PutValues
  <2> QED BY <2>1, <2>2
<1>3. \A d \in DOMAIN ix : ix[d] \in DocType /\ ix[d].writes \in Nat /\ ix[d].writes <= n
  BY DEF IndexGood, DocsTyped, DocType
<1>4. DocsTyped(new, n + 1)
  <2>1. \A d \in DOMAIN new : new[d] \in DocType
    BY <1>1, <1>2, <1>3
  <2>2. \A d \in DOMAIN new : new[d].writes <= n + 1
    BY <1>1, <1>2, <1>3
  <2> QED BY <1>2, <2>1, <2>2 DEF DocsTyped, IsFcn
<1>5. IdsShaped(new)
  BY <1>1, <1>2 DEF IndexGood, IdsShaped
<1>6. CurrentExists(new)
  <2>1. new[PolicyId] = ix[PolicyId]
    BY <1>1, <1>2
  <2> QED BY <1>1, <1>2, <2>1 DEF IndexGood, CurrentExists
<1>7. Counted(new)
  <2> SUFFICES ASSUME NEW d \in DOMAIN new, NEW m \in Version,
                      Len(d) > 1, d[Len(d)] = Numeral(m, TRUE)
               PROVE  CounterOf(d) \in DOMAIN new /\ m <= new[CounterOf(d)].writes
    BY DEF Counted
  <2>1. d \in DOMAIN ix
    BY <1>1, <1>2
  <2>2. CounterOf(d) \in DOMAIN ix /\ m <= ix[CounterOf(d)].writes
    BY <2>1 DEF IndexGood, Counted
  <2>3. d \in Seq(Piece) \ {<<>>}
    BY <2>1 DEF IndexGood, IdsShaped
  <2>4. Len(CounterOf(d)) = Len(d) /\ CounterOf(d)[Len(d)] = Word("counter")
    BY <2>3, CounterShape
  <2>5. CounterOf(d) # id
    BY <1>1, <2>4, PolicyIdShape
  <2> QED BY <1>2, <2>2, <2>5
<1>8. KindsGood(new, mis \cup Dotted(id))
  <2>1. mis \subseteq DOMAIN ix /\ \A d \in mis : Len(d) > 1
    BY DEF IndexGood, KindsGood
  <2>2. \A d \in DOMAIN ix \ mis : ix[d].kind = KindOf(d)
    BY DEF IndexGood, KindsGood
  <2>3. ix[PolicyId].kind = "policy" /\ KindOf(PolicyId) = "policy"
    BY <1>1, PolicyDocument, Kinds
  <2>4. ASSUME NEW d \in DOMAIN new \ (mis \cup Dotted(id)) PROVE new[d].kind = KindOf(d)
    BY <1>1, <1>2, <2>2, <2>3 DEF Dotted
  <2> QED BY <1>2, <2>1, <2>4 DEF KindsGood, Dotted
<1> QED BY <1>4, <1>5, <1>6, <1>7, <1>8 DEF IndexGood

\* UpdatePolicy with new content: the policy under the id as it came, the counter of that
\* id, and the next version, which is new.
NextNumber(ix, id) ==
  1 + IF PolicyCounterId(id) \in DOMAIN ix THEN ix[PolicyCounterId(id)].writes ELSE 0
NextVersion(ix, id) == Append(id, Numeral(NextNumber(ix, id), TRUE))
WithVersion(ix, id) ==
  Three(ix, id, [ix[<<id[1]>>] EXCEPT !.current = NextNumber(ix, id)],
        PolicyCounterId(id), Counter(NextNumber(ix, id)), NextVersion(ix, id), VersionDoc)

\* That version is new, and what is written keeps the index in order.
LEMMA NewVersionKeeps ==
  ASSUME NEW ix, NEW mis, NEW n \in Nat, IndexGood(ix, mis, n), n < MaxChanges,
         NEW id \in Seq(Piece) \ {<<>>}, GetPolicy(ix, id).code = "OK"
  PROVE  /\ NextVersion(ix, id) \notin DOMAIN ix
         /\ IndexGood(WithVersion(ix, id), mis \cup Dotted(id), n + 1)
<1> DEFINE counter == PolicyCounterId(id)
           next    == NextNumber(ix, id)
           version == NextVersion(ix, id)
           new     == WithVersion(ix, id)
           policy  == [ix[PolicyId] EXCEPT !.current = next]
           count   == Counter(next)
           first   == VersionDoc
<1>1. /\ PolicyId \in DOMAIN ix /\ <<id[1]>> = PolicyId
      /\ Len(id) > 1 \/ id = PolicyId
      /\ id # PolicyId => id[Len(id)] # Word("counter")
      /\ \A m \in Version : Len(id) > 1 /\ id[Len(id)] = Numeral(m, TRUE) => id \in DOMAIN ix
  BY ReadableId
<1>2. \A d \in DOMAIN ix : ix[d] \in DocType /\ ix[d].writes \in Nat /\ ix[d].writes <= n
  BY DEF IndexGood, DocsTyped, DocType
<1>3. next \in Nat /\ next > 0 /\ next <= n + 1 /\ next \in 0..(2 ^ Width - 1) /\ next \in Version
  <2>1. next \in Nat /\ next > 0 /\ next <= n + 1
    BY <1>2 DEF NextNumber
  <2> QED BY <2>1, ChangesAssumption, WidthAssumption DEF Version
<1>4. /\ counter \in Seq(Piece) \ {<<>>} /\ Len(counter) > 1 /\ Len(counter) = Len(id) + 1
      /\ counter[Len(counter)] = Word("counter")
  <2> HIDE DEF counter
  <2>1. counter = Append(id, Word("counter"))
    BY DEF counter, PolicyCounterId
  <2> QED BY <2>1, Pieces, Appended
<1>5. /\ version \in Seq(Piece) \ {<<>>} /\ Len(version) > 1 /\ Len(version) = Len(id) + 1
      /\ version[Len(version)] = Numeral(next, TRUE) /\ CounterOf(version) = counter
  <2>1. version = Append(id, Numeral(next, TRUE)) /\ Numeral(next, TRUE) \in Piece
    BY <1>3, Pieces DEF NextVersion
  <2>2. counter = CounterOf(Append(id, Numeral(next, TRUE)))
    BY <2>1, Appended, Zenon
  <2> HIDE DEF version, counter, next
  <2> QED BY <2>1, <2>2, Appended
<1>6. next = 1 + IF counter \in DOMAIN ix THEN ix[counter].writes ELSE 0
  BY DEF NextNumber
<1> HIDE DEF counter, next, version
<1>7. Numeral(next, TRUE) # Word("counter")
  BY Pieces, Zenon
<1>8. id # counter /\ id # version /\ counter # version
  <2>1. Len(id) \in Nat /\ Len(id) # Len(id) + 1
    OBVIOUS
  <2>2. id # counter
    BY <1>4, <2>1, Zenon
  <2>3. id # version
    BY <1>5, <2>1, Zenon
  <2>4. counter # version
    BY <1>4, <1>5, <1>7, Zenon
  <2> QED BY <2>2, <2>3, <2>4
<1>9. version \notin DOMAIN ix
  <2> SUFFICES ASSUME version \in DOMAIN ix PROVE FALSE
    OBVIOUS
  <2>1. counter \in DOMAIN ix /\ next <= ix[counter].writes
    BY <1>3, <1>5 DEF IndexGood, Counted
  <2> QED BY <1>2, <1>6, <2>1
<1>10. policy \in DocType /\ policy.kind = "policy" /\ policy.current = next /\ policy.writes <= n
  <2>1. ix[PolicyId].kind = "policy" /\ ix[PolicyId] \in DocType
    BY <1>1, PolicyDocument
  <2> QED BY <1>1, <1>2, <1>3, <2>1 DEF DocType
<1>11. new = Three(ix, id, policy, counter, count, version, first)
  BY <1>1 DEF WithVersion, counter, next, version
<1>12. /\ count \in DocType /\ count.kind = "counter" /\ count.writes = next
       /\ first \in DocType /\ first.kind = "version" /\ first.writes = 0
  <2>1. 0 \in 0..(2 ^ Width - 1)
    BY ChangesAssumption, WidthAssumption
  <2>2. count.kind = "counter" /\ count.writes = next
    BY DEF Counter, Doc
  <2>3. count \in DocType
    BY <1>3, <2>1 DEF DocType, Counter, Doc
  <2>4. first.kind = "version" /\ first.writes = 0
    BY DEF VersionDoc, Doc
  <2>5. first \in DocType
    BY <2>1 DEF DocType, VersionDoc, Doc
  <2> QED BY <2>2, <2>3, <2>4, <2>5
<1> HIDE DEF policy, count, first, new
<1>13. /\ DOMAIN new = {id, counter, version} \cup DOMAIN ix /\ IsFcn(new)
       /\ new[id] = policy /\ new[counter] = count /\ new[version] = first
       /\ \A d \in DOMAIN ix : d \notin {id, counter, version} => new[d] = ix[d]
  <2>1. IsThree(Three(ix, id, policy, counter, count, version, first),
                ix, id, policy, counter, count, version, first)
    BY <1>8, PutThree
  <2>2. IsThree(new, ix, id, policy, counter, count, version, first)
    BY <1>11, <2>1, Zenon
  <2> QED BY <2>2 DEF IsThree
<1>14. DocsTyped(new, n + 1)
  <2>1. ASSUME NEW d \in DOMAIN new PROVE new[d] \in DocType
    BY <1>2, <1>10, <1>13, <1>12
  <2>2. ASSUME NEW d \in DOMAIN new PROVE new[d].writes <= n + 1
    <3>1. CASE d = id
      <4>1. policy.writes \in Nat
        BY <1>10 DEF DocType
      <4> QED BY <1>10, <1>13, <3>1, <4>1
    <3>2. CASE d = counter
      BY <1>3, <1>13, <1>12, <3>2
    <3>3. CASE d = version
      BY <1>13, <1>12, <3>3
    <3>4. CASE d \notin {id, counter, version}
      <4>1. d \in DOMAIN ix /\ new[d] = ix[d]
        BY <1>13, <3>4
      <4>2. ix[d].writes \in Nat /\ ix[d].writes <= n
        BY <1>2, <4>1
      <4> QED BY <4>1, <4>2
    <3> QED BY <3>1, <3>2, <3>3, <3>4
  <2> QED BY <1>13, <2>1, <2>2 DEF DocsTyped, IsFcn
<1>15. IdsShaped(new)
  BY <1>1, <1>4, <1>5, <1>13 DEF IndexGood, IdsShaped
<1>16. CurrentExists(new)
  <2>1. CASE id = PolicyId
    <3>1. version = PolicyVersionId(Word("p"), next)
      BY <2>1, AppendOne DEF PolicyId, PolicyVersionId, version, NextVersion, next
    <3> QED BY <1>10, <1>13, <2>1, <3>1 DEF CurrentExists, policy
  <2>2. CASE id # PolicyId
    <3>1. PolicyId # counter /\ PolicyId # version
      BY <1>4, <1>5, PolicyIdShape
    <3>2. new[PolicyId] = ix[PolicyId]
      BY <1>1, <1>13, <2>2, <3>1
    <3> QED BY <1>1, <1>13, <3>2 DEF IndexGood, CurrentExists
  <2> QED BY <2>1, <2>2
<1>17. Counted(new)
  <2> SUFFICES ASSUME NEW d \in DOMAIN new, NEW m \in Version,
                      Len(d) > 1, d[Len(d)] = Numeral(m, TRUE)
               PROVE  CounterOf(d) \in DOMAIN new /\ m <= new[CounterOf(d)].writes
    BY Zenon DEF Counted
  <2>1. Numeral(m, TRUE) # Word("counter") /\ m \in Nat
    BY Pieces, VersionNumbers, Zenon
  <2>2. CASE d = version
    <3>1. Numeral(m, TRUE) = Numeral(next, TRUE)
      BY <1>5, <2>2, Zenon
    <3>2. m = next
      BY <3>1, Pieces, Zenon
    <3> QED BY <1>3, <1>5, <1>13, <1>12, <2>2, <3>2
  <2>3. CASE d # version
    <3>1. d # counter
      BY <1>4, <2>1, Zenon
    <3>2. d \in DOMAIN ix
      BY <1>1, <1>13, <2>3, <3>1
    <3>3. CounterOf(d) \in DOMAIN ix /\ m <= ix[CounterOf(d)].writes
      BY <3>2 DEF IndexGood, Counted
    <3>4. d \in Seq(Piece) \ {<<>>}
      BY <3>2 DEF IndexGood, IdsShaped
    <3>5. Len(CounterOf(d)) = Len(d) /\ CounterOf(d)[Len(d)] = Word("counter")
      BY <3>4, CounterShape
    <3>6. CounterOf(d) # id
      BY <1>1, <3>5, PolicyIdShape
    <3>7. CounterOf(d) # version
      BY <1>9, <3>3
    <3>8. CASE CounterOf(d) = counter
      <4>1. counter \in DOMAIN ix /\ m <= ix[counter].writes
        BY <3>3, <3>8, Zenon
      <4>2. ix[counter].writes \in Nat /\ next = 1 + ix[counter].writes
        BY <1>2, <1>6, <4>1
      <4>3. m <= next
        BY <2>1, <4>1, <4>2
      <4> QED BY <1>13, <1>12, <3>8, <4>3
    <3>9. CASE CounterOf(d) # counter
      BY <1>13, <3>3, <3>6, <3>7, <3>9
    <3> QED BY <3>8, <3>9
  <2> QED BY <2>2, <2>3
<1>18. KindsGood(new, mis \cup Dotted(id))
  <2>1. mis \subseteq DOMAIN ix /\ \A d \in mis : Len(d) > 1
    BY DEF IndexGood, KindsGood
  <2>2. \A d \in DOMAIN ix \ mis : ix[d].kind = KindOf(d)
    BY DEF IndexGood, KindsGood
  <2>3. KindOf(counter) = "counter" /\ KindOf(version) = "version" /\ KindOf(PolicyId) = "policy"
    BY <1>4, <1>5, <1>7, Kinds
  <2>5. ASSUME NEW d \in DOMAIN new \ (mis \cup Dotted(id)) PROVE new[d].kind = KindOf(d)
    <3>1. CASE d \in {id, counter, version}
      BY <1>1, <1>10, <1>13, <1>12, <2>3, <3>1 DEF Dotted
    <3>2. CASE d \notin {id, counter, version}
      BY <1>13, <2>2, <3>2
    <3> QED BY <3>1, <3>2
  <2> QED BY <1>13, <2>1, <2>5 DEF KindsGood, Dotted
<1> QED BY <1>9, <1>14, <1>15, <1>16, <1>17, <1>18 DEF IndexGood, new, version

\* What is written is something.
LEMMA WritesOne == ASSUME NEW d, NEW e, NEW g PROVE Write(d, e, g) # NoWrites
<1>1. DOMAIN Write(d, e, g) = {d} \cup DOMAIN g
  BY SingleDomain
<1>2. DOMAIN NoWrites = {}
  BY DEF NoWrites
<1> QED BY <1>1, <1>2

\* What the calls that write find and leave: a call that is refused writes nothing, and
\* what the others write keeps the index in order.
Kept(ix, mis, n, id, outcome) ==
  \/ /\ outcome.code \in {"InvalidArgument", "NotFound", "FailedPrecondition", "Internal",
                          "panic"}
     /\ outcome.writes = NoWrites
  \/ /\ outcome.code = "OK" /\ outcome.writes # NoWrites
     /\ n < MaxChanges => IndexGood(Over(outcome.writes, ix), mis \cup Dotted(id), n + 1)

\* CreatePolicy is refused for its content, or writes its three documents.
LEMMA CreateOutcome ==
  ASSUME NEW ix, NEW mis, NEW n \in Nat, IndexGood(ix, mis, n), PolicyId \notin DOMAIN ix,
         NEW content
  PROVE  Kept(ix, mis, n, PolicyId, CreatePolicy(ix, PolicyId, content))
<1>1. CASE content # "valid"
  BY <1>1 DEF Kept, CreatePolicy, Refusal, Outcome
<1>2. CASE content = "valid"
  <2> DEFINE outcome == CreatePolicy(ix, PolicyId, "valid")
  <2>1. n < MaxChanges => IndexGood(Over(outcome.writes, ix), mis, n + 1)
    BY CreateKeeps
  <2>2. outcome.code = "OK" /\ outcome.writes # NoWrites
    BY WritesOne DEF CreatePolicy, Outcome
  <2>3. mis \cup Dotted(PolicyId) = mis
    BY PolicyIdShape DEF Dotted
  <2> HIDE DEF outcome
  <2>4. Kept(ix, mis, n, PolicyId, outcome)
    BY <2>1, <2>2, <2>3 DEF Kept
  <2> QED BY <1>2, <2>4 DEF outcome
<1> QED BY <1>1, <1>2

\* DeletePolicy is refused for its id, or marks the document.
LEMMA DeleteOutcome ==
  ASSUME NEW ix, NEW mis, NEW n \in Nat, IndexGood(ix, mis, n), NEW id
  PROVE  Kept(ix, mis, n, id, DeletePolicy(ix, id))
<1>1. CASE id = <<Empty>> \/ id \notin DOMAIN ix
  BY <1>1 DEF Kept, DeletePolicy, Refusal, Outcome
<1>2. CASE id # <<Empty>> /\ id \in DOMAIN ix
  <2> DEFINE outcome == DeletePolicy(ix, id)
  <2>1. IndexGood(Over(outcome.writes, ix), mis \cup Dotted(id), n + 1)
    BY <1>2, DeleteKeeps
  <2>2. outcome.code = "OK" /\ outcome.writes # NoWrites
    BY <1>2, WritesOne DEF DeletePolicy, Outcome
  <2> HIDE DEF outcome
  <2>3. Kept(ix, mis, n, id, outcome)
    BY <2>1, <2>2 DEF Kept
  <2> QED BY <2>3 DEF outcome
<1> QED BY <1>1, <1>2

\* The number an update takes is never that of a version there is: it is not refused for
\* a conflict after it has counted.
LEMMA UpdateOutcome ==
  ASSUME NEW ix, NEW mis, NEW n \in Nat, IndexGood(ix, mis, n),
         NEW id \in Seq(Piece) \ {<<>>}, NEW content \in Content,
         UpdatePolicy(ix, id, content).writes # NoWrites => n < MaxChanges
  PROVE  /\ Kept(ix, mis, n, id, UpdatePolicy(ix, id, content))
         /\ UpdatePolicy(ix, id, content).code = "OK" /\ Len(id) > 1 => IsNumeral(id[2])
<1> DEFINE got     == GetPolicy(ix, id)
           policy  == ix[<<id[1]>>]
           outcome == UpdatePolicy(ix, id, content)
           same    == Outcome("OK", got.read, Write(id, policy, NoWrites))
           counter == PolicyCounterId(id)
           next    == NextNumber(ix, id)
           version == NextVersion(ix, id)
           put     == [policy EXCEPT !.current = next]
           count   == Counter(next)
           writes  == Write(id, put, Write(counter, count, Write(version, VersionDoc, NoWrites)))
           partial == Write(id, put, Write(counter, count, NoWrites))
<1>1. /\ got.writes = NoWrites
      /\ got.code \in {"OK", "InvalidArgument", "NotFound", "Internal"}
      /\ got.code = "OK" => (Len(id) # 1 => Len(id) = 2 /\ IsNumeral(id[2]))
  BY GetReads
<1>2. outcome = CASE got.code # "OK" -> got
                  [] got.code = "OK" /\ policy.deleted -> Refusal("FailedPrecondition")
                  [] got.code = "OK" /\ ~policy.deleted /\ content = "unset" ->
                       Refusal("panic")
                  [] got.code = "OK" /\ ~policy.deleted /\ content = "invalid" ->
                       Refusal("InvalidArgument")
                  [] got.code = "OK" /\ ~policy.deleted /\ content = "same" -> same
                  [] OTHER ->
                       IF version \in DOMAIN ix THEN Outcome("Internal", <<>>, partial)
                       ELSE Outcome("OK", version, writes)
  BY DEF UpdatePolicy, NextNumber, NextVersion
<1>3. same.code = "OK" /\ same.writes = Write(id, policy, NoWrites)
  BY DEF Outcome
<1>4. Outcome("OK", version, writes).code = "OK" /\ Outcome("OK", version, writes).writes = writes
  BY DEF Outcome
<1>5. Outcome("Internal", <<>>, partial).writes = partial
  BY DEF Outcome
<1>6. Over(writes, ix) = WithVersion(ix, id)
  BY DEF WithVersion, Three
<1>7. writes # NoWrites /\ partial # NoWrites /\ Write(id, policy, NoWrites) # NoWrites
  BY WritesOne
<1>8. Len(id) \in Nat
  OBVIOUS
<1> HIDE DEF got, policy, same, counter, next, version, put, count, writes, partial
<1>9. CASE got.code # "OK"
  <2>1. outcome = got
    BY <1>2, <1>9
  <2> HIDE DEF outcome
  <2>2. Kept(ix, mis, n, id, outcome)
    BY <1>1, <1>9, <2>1 DEF Kept
  <2> QED BY <1>9, <2>1, <2>2 DEF outcome
<1>10. CASE got.code = "OK" /\ (policy.deleted \/ content \in {"unset", "invalid"})
  <2>1. \E code \in {"InvalidArgument", "FailedPrecondition", "panic"} : outcome = Refusal(code)
    BY <1>2, <1>10
  <2> HIDE DEF outcome
  <2>2. outcome.code \in {"InvalidArgument", "FailedPrecondition", "panic"}
        /\ outcome.writes = NoWrites
    BY <2>1 DEF Refusal, Outcome
  <2>3. Kept(ix, mis, n, id, outcome)
    BY <2>2 DEF Kept
  <2> QED BY <2>2, <2>3 DEF outcome
<1>11. CASE got.code = "OK" /\ ~policy.deleted /\ content = "same"
  <2>1. outcome = same
    BY <1>2, <1>11
  <2>2. IndexGood(Over(Write(id, policy, NoWrites), ix), mis \cup Dotted(id), n + 1)
    BY <1>11, SameKeeps DEF got, policy
  <2> HIDE DEF outcome
  <2>3. Kept(ix, mis, n, id, outcome)
    BY <1>3, <1>7, <2>1, <2>2 DEF Kept
  <2> QED BY <1>1, <1>8, <1>11, <2>3 DEF outcome
<1>12. CASE got.code = "OK" /\ ~policy.deleted /\ content = "valid"
  <2>1. outcome = IF version \in DOMAIN ix THEN Outcome("Internal", <<>>, partial)
                  ELSE Outcome("OK", version, writes)
    BY <1>2, <1>12
  <2>2. outcome.writes # NoWrites
    BY <1>4, <1>5, <1>7, <2>1
  <2>3. n < MaxChanges
    BY <2>2
  <2>4. version \notin DOMAIN ix /\ IndexGood(WithVersion(ix, id), mis \cup Dotted(id), n + 1)
    BY <1>12, <2>3, NewVersionKeeps DEF got, version
  <2> HIDE DEF outcome
  <2>5. Kept(ix, mis, n, id, outcome)
    BY <1>4, <1>6, <2>1, <2>2, <2>4 DEF Kept
  <2> QED BY <1>1, <1>8, <1>12, <2>5 DEF outcome
<1> QED BY <1>9, <1>10, <1>11, <1>12 DEF Content

\* ListPolicies fails only over a document that a call has made a policy.
LEMMA ListOutcome ==
  ASSUME NEW ix, NEW mis, NEW n, IndexGood(ix, mis, n)
  PROVE  /\ ListPolicies(ix).writes = NoWrites
         /\ ListPolicies(ix).code \in {"OK", "Internal"}
         /\ mis = {} => ListPolicies(ix).code = "OK"
<1> DEFINE hits  == {id \in DOMAIN ix : ix[id].kind = "policy" /\ ~ix[id].deleted}
           found == \A id \in hits : Append(id, Numeral(ix[id].current, TRUE)) \in DOMAIN ix
<1>1. ListPolicies(ix) = Refusal(IF found THEN "OK" ELSE "Internal")
  BY DEF ListPolicies
<1>2. mis = {} => found
  <2> SUFFICES ASSUME mis = {}, NEW id \in hits
               PROVE  Append(id, Numeral(ix[id].current, TRUE)) \in DOMAIN ix
    OBVIOUS
  <2>1. id \in DOMAIN ix /\ KindOf(id) = "policy"
    BY DEF IndexGood, KindsGood
  <2>2. id \in Seq(Piece) /\ (Len(id) > 1 \/ id = PolicyId) /\ PolicyId \in DOMAIN ix
    BY <2>1 DEF IndexGood, IdsShaped
  <2>3. id = PolicyId
    BY <2>1, <2>2, Kinds
  <2>4. PolicyVersionId(Word("p"), ix[PolicyId].current) \in DOMAIN ix
    BY <2>2 DEF IndexGood, CurrentExists
  <2>5. Append(PolicyId, Numeral(ix[PolicyId].current, TRUE))
          = PolicyVersionId(Word("p"), ix[PolicyId].current)
    BY AppendOne DEF PolicyId, PolicyVersionId
  <2> QED BY <2>3, <2>4, <2>5, Zenon
<1> HIDE DEF found
<1> QED BY <1>1, <1>2 DEF Refusal, Outcome

\* What a handler of policies answers and leaves, whichever it is.
PolicyHandled(outcome) ==
  LET mis == misused \cup Misuse(outcome.code)
      n   == IF outcome.writes = NoWrites THEN changes ELSE changes + 1
  IN /\ outcome.code \in {"OK", "InvalidArgument", "NotFound", "FailedPrecondition",
                          "Internal", "panic"}
     /\ outcome.code # "OK" => outcome.writes = NoWrites
     /\ IndexGood(Over(outcome.writes, index), mis, n)
     /\ message.method \in {"GetPolicy", "ListPolicies"} => outcome.writes = NoWrites
     /\ message.method = "ListPolicies" /\ outcome.code # "OK" => misused # {}

\* The index is a function.
LEMMA IndexIsFunction == ASSUME IndexInv PROVE IsFcn(index)
  BY DEF IndexInv, IndexGood, DocsTyped, IsFcn

\* The id of a message, by its method.
LEMMA MessageIds ==
  ASSUME CallInv, stage = "handle"
  PROVE  /\ message.method \in Method
         /\ message.method \in IdMethods => message.id \in Seq(Piece) \ {<<>>}
         /\ message.method \notin IdMethods => message.id = <<>>
         /\ message.id \in Ids \cup {<<>>} /\ message.source = NoSource
<1>1. PICK method \in Method, id \in Ids \cup {<<>>} :
        message = Message(method, id) /\ ((id = <<>>) = (method \notin IdMethods))
  BY DEF CallInv, WellFormed
<1>2. message.method = method /\ message.id = id /\ message.source = NoSource
  BY <1>1 DEF Message, NoMessage
<1>3. id = <<>> \/ id \in Seq(Piece) \ {<<>>}
  BY IdPieces
<1> QED BY <1>1, <1>2, <1>3

\* A call that wrote nothing, or wrote what keeps the index in order.
LEMMA KeptHandled ==
  ASSUME IndexInv, NEW id, NEW outcome, Kept(index, misused, changes, id, outcome),
         outcome.writes # NoWrites => changes < MaxChanges,
         outcome.code # "OK" => Misuse(outcome.code) = {},
         outcome.code = "OK" => Misuse(outcome.code) = Dotted(id),
         message.method \notin {"GetPolicy", "ListPolicies"}
  PROVE  PolicyHandled(outcome)
<1>1. CASE outcome.code # "OK"
  <2>1. outcome.writes = NoWrites /\ Misuse(outcome.code) = {}
        /\ outcome.code \in {"InvalidArgument", "NotFound", "FailedPrecondition", "Internal",
                             "panic"}
    BY <1>1 DEF Kept
  <2>2. Over(outcome.writes, index) = index
    BY <2>1, IndexIsFunction, NothingWritten
  <2> QED BY <1>1, <2>1, <2>2 DEF PolicyHandled, IndexInv
<1>2. CASE outcome.code = "OK"
  <2>1. outcome.writes # NoWrites
        /\ IndexGood(Over(outcome.writes, index), misused \cup Dotted(id), changes + 1)
    BY <1>2 DEF Kept
  <2> QED BY <1>2, <2>1 DEF PolicyHandled
<1> QED BY <1>1, <1>2

\* Each handler of policies keeps the index in order.
LEMMA PolicyOutcomes ==
  ASSUME CallInv, IndexInv, stage = "handle", message.method \in PolicyMethods,
         message.method = "CreatePolicy" => PolicyId \notin DOMAIN index,
         NEW content \in Contents,
         PolicyOutcome(content).writes # NoWrites => changes < MaxChanges
  PROVE  PolicyHandled(PolicyOutcome(content))
<1> DEFINE outcome == PolicyOutcome(content)
<1>1. changes \in Nat /\ IndexGood(index, misused, changes)
  BY ChangesAssumption DEF IndexInv
<1>2. Misuse("OK") =
        IF message.method \in {"UpdatePolicy", "DeletePolicy"} /\ Len(message.id) > 1
           /\ (message.method = "UpdatePolicy" => IsNumeral(message.id[2]))
        THEN {message.id} ELSE {}
  BY DEF Misuse
<1>3. \A code : code # "OK" => Misuse(code) = {}
  BY DEF Misuse
<1>4. CASE message.method = "CreatePolicy"
  <2>1. outcome = CreatePolicy(index, PolicyId, content)
    BY <1>4 DEF PolicyOutcome
  <2>2. Kept(index, misused, changes, PolicyId, outcome)
    BY <1>1, <1>4, <2>1, CreateOutcome
  <2>3. Misuse("OK") = Dotted(PolicyId)
    BY <1>2, <1>4, PolicyIdShape DEF Dotted
  <2> HIDE DEF outcome
  <2>4. outcome.code = "OK" => Misuse(outcome.code) = Dotted(PolicyId)
    BY <2>3
  <2>5. PolicyHandled(outcome)
    BY <1>3, <1>4, <2>2, <2>4, KeptHandled DEF outcome
  <2> QED BY <2>5 DEF outcome
<1>5. CASE message.method = "UpdatePolicy"
  <2>1. outcome = UpdatePolicy(index, message.id, content)
    BY <1>5 DEF PolicyOutcome
  <2>2. message.id \in Seq(Piece) \ {<<>>} /\ content \in Content
    BY <1>5, MessageIds DEF IdMethods, Contents
  <2>3. Kept(index, misused, changes, message.id, outcome)
        /\ (outcome.code = "OK" /\ Len(message.id) > 1 => IsNumeral(message.id[2]))
    BY <1>1, <2>1, <2>2, UpdateOutcome
  <2>4. outcome.code = "OK" => Misuse(outcome.code) = Dotted(message.id)
    BY <1>2, <1>5, <2>3 DEF Dotted
  <2> HIDE DEF outcome
  <2>5. PolicyHandled(outcome)
    BY <1>3, <1>5, <2>3, <2>4, KeptHandled DEF outcome
  <2> QED BY <2>5 DEF outcome
<1>6. CASE message.method = "DeletePolicy"
  <2>1. outcome = DeletePolicy(index, message.id)
    BY <1>6 DEF PolicyOutcome
  <2>2. Kept(index, misused, changes, message.id, outcome)
    BY <1>1, <2>1, DeleteOutcome
  <2>3. outcome.code = "OK" => Misuse(outcome.code) = Dotted(message.id)
    BY <1>2, <1>6 DEF Dotted
  <2> HIDE DEF outcome
  <2>4. PolicyHandled(outcome)
    BY <1>3, <1>6, <2>2, <2>3, KeptHandled DEF outcome
  <2> QED BY <2>4 DEF outcome
<1>7. CASE message.method \in {"GetPolicy", "ListPolicies"}
  <2>1. /\ outcome.writes = NoWrites
        /\ outcome.code \in {"OK", "InvalidArgument", "NotFound", "Internal"}
        /\ message.method = "ListPolicies" /\ misused = {} => outcome.code = "OK"
    <3>1. CASE message.method = "GetPolicy"
      <4>1. outcome = GetPolicy(index, message.id) /\ message.id \in Seq(Piece) \ {<<>>}
        BY <3>1, MessageIds DEF PolicyOutcome, IdMethods
      <4> HIDE DEF outcome
      <4> QED BY <1>1, <3>1, <4>1, GetReads
    <3>2. CASE message.method = "ListPolicies"
      <4>1. outcome = ListPolicies(index)
        BY <3>2 DEF PolicyOutcome
      <4> HIDE DEF outcome
      <4> QED BY <1>1, <3>2, <4>1, ListOutcome
    <3> QED BY <1>7, <3>1, <3>2
  <2> HIDE DEF outcome
  <2>2. Misuse(outcome.code) = {}
    BY <1>2, <1>3, <1>7
  <2>3. Over(outcome.writes, index) = index
    BY <2>1, IndexIsFunction, NothingWritten
  <2>4. PolicyHandled(outcome)
    BY <1>1, <1>7, <2>1, <2>2, <2>3 DEF PolicyHandled
  <2> QED BY <2>4 DEF outcome
<1> QED BY <1>4, <1>5, <1>6, <1>7 DEF PolicyMethods, IdMethods

\* What a step of a handler of policies does, whatever the content.
LEMMA HandlePolicyStep ==
  ASSUME CallInv, IndexInv, HandlePolicy
  PROVE  /\ IndexInv' /\ stage = "handle" /\ stage' = "answered"
         /\ message' = message /\ roles' = roles
         /\ answer'.code # "OK" => index' = index
         /\ answer'.code # "PermissionDenied" /\ answer'.missing = {}
         /\ message.method \in {"GetPolicy", "ListPolicies"} => index' = index
         /\ message.method = "ListPolicies" /\ answer'.code # "OK" => misused # {}
         /\ message.method = "GetPolicy" =>
              \/ answer'.code # "OK"
              \/ answer'.code = GetPolicy(index, message.id).code
                 /\ answer'.read = GetPolicy(index, message.id).read
<1>1. PICK content \in Contents : HandlePolicy!(content)
  BY DEF HandlePolicy
<1> DEFINE outcome == PolicyOutcome(content)
           mis     == misused \cup Misuse(outcome.code)
           n       == IF outcome.writes = NoWrites THEN changes ELSE changes + 1
<1>2. /\ stage = "handle" /\ message.method \in PolicyMethods
      /\ message.method = "CreatePolicy" => PolicyId \notin DOMAIN index
      /\ outcome.writes # NoWrites => changes < MaxChanges
      /\ IF outcome.code = "panic" THEN Panics
         ELSE /\ stage' = "answered"
              /\ answer' = [NoAnswer EXCEPT !.code = outcome.code, !.read = outcome.read]
      /\ index' = Over(outcome.writes, index)
      /\ misused' = mis /\ changes' = n
      /\ UNCHANGED <<message, context>>
  BY <1>1
<1>3. PolicyHandled(outcome)
  BY <1>2, PolicyOutcomes
<1>4. message.method = "GetPolicy" => outcome = GetPolicy(index, message.id)
  BY DEF PolicyOutcome
<1> HIDE DEF outcome
<1>5. /\ outcome.code \in {"OK", "InvalidArgument", "NotFound", "FailedPrecondition",
                           "Internal", "panic"}
      /\ outcome.code # "OK" => outcome.writes = NoWrites
      /\ IndexGood(Over(outcome.writes, index), mis, n)
      /\ message.method \in {"GetPolicy", "ListPolicies"} => outcome.writes = NoWrites
      /\ message.method = "ListPolicies" /\ outcome.code # "OK" => misused # {}
  BY <1>3 DEF PolicyHandled
<1>6. /\ stage' = "answered" /\ answer'.missing = {}
      /\ \/ answer'.code = outcome.code /\ answer'.read = outcome.read
         \/ outcome.code = "panic" /\ answer'.code = "Internal"
  <2>1. CASE outcome.code = "panic"
    <3>1. Answered("Internal")
      BY <1>2, <2>1, PanicsAreBehind
    <3> QED BY <2>1, <3>1 DEF Answered, NoAnswer
  <2>2. CASE outcome.code # "panic"
    BY <1>2, <2>2 DEF NoAnswer
  <2> QED BY <2>1, <2>2
<1>7. changes' \in 0..MaxChanges
  <2>1. changes \in 0..MaxChanges /\ MaxChanges \in Nat
    BY ChangesAssumption DEF IndexInv
  <2>2. CASE outcome.writes = NoWrites
    BY <1>2, <2>1, <2>2
  <2>3. CASE outcome.writes # NoWrites
    BY <1>2, <2>1, <2>3
  <2> QED BY <2>2, <2>3
<1>8. IndexInv'
  <2>1. IndexGood(index', misused', changes')
    BY <1>2, <1>5, Zenon
  <2> QED BY <1>7, <2>1 DEF IndexInv, IndexGood, DocsTyped, IdsShaped, CurrentExists,
             Counted, KindsGood
<1>9. outcome.writes = NoWrites => index' = index
  BY <1>2, IndexIsFunction, NothingWritten
<1> HIDE DEF mis, n
<1> QED BY <1>2, <1>4, <1>5, <1>6, <1>8, <1>9 DEF context

\* No step but that of a handler of policies touches the index.
LEMMA IndexStep == CallInv /\ IndexInv /\ [Next]_vars => IndexInv'
<1> SUFFICES ASSUME CallInv, IndexInv, [Next]_vars PROVE IndexInv'
  OBVIOUS
<1>1. CASE HandlePolicy
  BY <1>1, HandlePolicyStep
<1>2. CASE UNCHANGED documents
  BY <1>2 DEF documents, IndexInv, IndexGood, DocsTyped, IdsShaped, CurrentExists,
     Counted, KindsGood
<1> QED BY <1>1, <1>2 DEF Next, Boot, Restart, Receive, ReceiveHttp, Forward, NoRoute,
           PassRecovery, AuthenticateCall, AuthorizeCall, HandleValidate, HandleOther,
           Finish, vars

\* The index is in order throughout.
LEMMA IndexInvariant == Spec => [](CallInv /\ IndexInv)
<1>1. Init => CallInv /\ IndexInv
  BY CallInit, IndexInit
<1>2. CallInv /\ IndexInv /\ [Next]_vars => (CallInv /\ IndexInv)'
  BY CallStep, IndexStep
<1> QED BY <1>1, <1>2, PTL DEF Spec

\* Every document is of the kind its id says, but for those a DeletePolicy named or an
\* UpdatePolicy named by a number.
THEOREM KindsAreKept == Spec => []KindsKept
<1>1. IndexInv => KindsKept
  BY DEF IndexInv, IndexGood, KindsGood, KindsKept
<1> QED BY <1>1, IndexInvariant, PTL

\* The handlers check before they write, and an update never takes the number of a version
\* that is there: a call that is not answered OK has changed nothing.
THEOREM RefusalsChangeNothing == Spec => RefusedChangesNothing
<1> DEFINE Unchanged == stage = "handle" /\ stage' = "answered" /\ answer'.code # "OK"
                          => index' = index
<1>1. CallInv /\ IndexInv /\ [Next]_vars => [Unchanged]_vars
  <2> SUFFICES ASSUME CallInv, IndexInv, [Next]_vars PROVE Unchanged \/ UNCHANGED vars
    OBVIOUS
  <2>1. CASE HandlePolicy
    BY <2>1, HandlePolicyStep
  <2>2. CASE UNCHANGED documents
    BY <2>2 DEF documents
  <2> QED BY <2>1, <2>2 DEF Next, Boot, Restart, Receive, ReceiveHttp, Forward, NoRoute,
             PassRecovery, AuthenticateCall, AuthorizeCall, HandleValidate, HandleOther,
             Finish
<1> QED BY <1>1, IndexInvariant, PTL DEF Spec, RefusedChangesNothing

\* The listing of policies is answered as long as no call has made another document a
\* policy: the pointer of the policy names a version.
THEOREM ListingsAreAnswered == Spec => ListingsAnswered
<1> DEFINE Good == stage = "handle" /\ message.method = "ListPolicies" /\ stage' = "answered"
                     /\ answer'.code # "OK" => misused # {}
<1>1. CallInv /\ IndexInv /\ [Next]_vars => [Good]_vars
  <2> SUFFICES ASSUME CallInv, IndexInv, [Next]_vars, stage = "handle",
                      message.method = "ListPolicies", stage' = "answered",
                      answer'.code # "OK"
               PROVE  misused # {} \/ UNCHANGED vars
    OBVIOUS
  <2>1. CASE HandlePolicy
    BY <2>1, HandlePolicyStep
  <2>2. CASE UNCHANGED vars
    BY <2>2
  <2>3. ~HandleOther /\ ~HandleValidate
    BY DEF HandleOther, HandleValidate, PolicyMethods
  <2> QED BY <2>1, <2>2, <2>3 DEF Next, Boot, Restart, Receive, ReceiveHttp, Forward,
             NoRoute, PassRecovery, AuthenticateCall, AuthorizeCall, Finish
<1> QED BY <1>1, IndexInvariant, PTL DEF Spec, ListingsAnswered

----------------------------------------------------------------------------
(***************************************************************************)
(* The tables of the permissions.                                          *)
(***************************************************************************)

HasGetRoute(method) == \E route \in Routes : route.verb = "GET" /\ route.method = method

\* A route under GET is one of those of its service.
LEMMA GetRoute ==
  ASSUME NEW path, NEW method, Route("GET", path, "", method) \in Routes
  PROVE  HasGetRoute(method)
<1>1. /\ Route("GET", path, "", method).verb = "GET"
      /\ Route("GET", path, "", method).method = method
  BY DEF Route
<1> QED BY <1>1, Zenon DEF HasGetRoute

\* The methods whose permission the anonymous role has are served under GET.
LEMMA ReadsUnderGet ==
  /\ HasGetRoute("ListResources")
  /\ HasGetRoute("ListResourceVersions")
  /\ HasGetRoute("ListVersionedResourceOccurrences")
  /\ HasGetRoute("ListOccurrences")
  /\ HasGetRoute("GetPolicy")
  /\ HasGetRoute("ListPolicies")
  /\ HasGetRoute("ListPolicyVersions")
  /\ HasGetRoute("ListPolicyGroups")
  /\ HasGetRoute("GetPolicyGroup")
  /\ HasGetRoute("GetPolicyAssignment")
  /\ HasGetRoute("ListPolicyAssignments")
  /\ HasGetRoute("GetResourceEvaluation")
  /\ HasGetRoute("ListResourceEvaluations")
<1>1. /\ HasGetRoute("ListResources")
      /\ HasGetRoute("ListResourceVersions")
      /\ HasGetRoute("ListVersionedResourceOccurrences")
      /\ HasGetRoute("ListOccurrences")
  <2>1. Route("GET", <<Segment("resources")>>, "", "ListResources") \in Routes
    BY Zenon DEF Routes, OccurrenceRoutes
  <2>2. Route("GET", <<Segment("resource-versions")>>, "", "ListResourceVersions") \in Routes
    BY Zenon DEF Routes, OccurrenceRoutes
  <2>3. Route("GET", <<Segment("versioned-resource-occurrences")>>,
              "", "ListVersionedResourceOccurrences") \in Routes
    BY Zenon DEF Routes, OccurrenceRoutes
  <2>4. Route("GET", <<Segment("occurrences")>>, "", "ListOccurrences") \in Routes
    BY Zenon DEF Routes, OccurrenceRoutes
  <2> QED BY <2>1, <2>2, <2>3, <2>4, GetRoute
<1>2. /\ HasGetRoute("GetPolicy")
      /\ HasGetRoute("ListPolicies")
      /\ HasGetRoute("ListPolicyVersions")
  <2>1. Route("GET", <<Segment("policies"), Field>>, "", "GetPolicy") \in Routes
    BY Zenon DEF Routes, PolicyRoutes
  <2>2. Route("GET", <<Segment("policies")>>, "", "ListPolicies") \in Routes
    BY Zenon DEF Routes, PolicyRoutes
  <2>3. Route("GET", <<Segment("policies"), Field, Segment("versions")>>,
              "", "ListPolicyVersions") \in Routes
    BY Zenon DEF Routes, PolicyRoutes
  <2> QED BY <2>1, <2>2, <2>3, GetRoute
<1>3. /\ HasGetRoute("ListPolicyGroups")
      /\ HasGetRoute("GetPolicyGroup")
  <2>1. Route("GET", <<Segment("policy-groups")>>, "", "ListPolicyGroups") \in Routes
    BY Zenon DEF Routes, PolicyGroupRoutes
  <2>2. Route("GET", <<Segment("policy-groups"), Field>>, "", "GetPolicyGroup") \in Routes
    BY Zenon DEF Routes, PolicyGroupRoutes
  <2> QED BY <2>1, <2>2, GetRoute
<1>4. /\ HasGetRoute("GetPolicyAssignment")
      /\ HasGetRoute("ListPolicyAssignments")
  <2>1. Route("GET", <<Segment("policies"), Field, Segment("assignments"), Field>>,
              "", "GetPolicyAssignment") \in Routes
    BY Zenon DEF Routes, AssignmentRoutes
  <2>2. Route("GET", <<Segment("policies"), Field, Segment("assignments")>>,
              "", "ListPolicyAssignments") \in Routes
    BY Zenon DEF Routes, AssignmentRoutes
  <2> QED BY <2>1, <2>2, GetRoute
<1>5. /\ HasGetRoute("GetResourceEvaluation")
      /\ HasGetRoute("ListResourceEvaluations")
  <2>1. Route("GET", <<Segment("resource-evaluations"), Field>>,
              "", "GetResourceEvaluation") \in Routes
    BY Zenon DEF Routes, EvaluationRoutes
  <2>2. Route("GET", <<Segment("resource-evaluations")>>,
              "", "ListResourceEvaluations") \in Routes
    BY Zenon DEF Routes, EvaluationRoutes
  <2> QED BY <2>1, <2>2, GetRoute
<1> QED BY <1>1, <1>2, <1>3, <1>4, <1>5

\* No method asks more than an administrator has, and none of those that are not served
\* under GET asks for something that everybody has.
LEMMA Permissions ==
  \A method \in RodeMethod :
    /\ MethodPermission[method] \in AdministratorRole
    /\ MethodPermission[method] \in AnonymousRole => HasGetRoute(method)
<1>1. /\ MethodPermission["BatchCreateOccurrences"] = "occurrence.write"
      /\ MethodPermission["EvaluatePolicy"] = "policy.evaluate"
      /\ MethodPermission["ListResources"] = "resource.read"
      /\ MethodPermission["ListResourceVersions"] = "resource.read"
      /\ MethodPermission["ListVersionedResourceOccurrences"] = "occurrence.read"
      /\ MethodPermission["ListOccurrences"] = "occurrence.read"
      /\ MethodPermission["UpdateOccurrence"] = "occurrence.write"
      /\ MethodPermission["CreatePolicy"] = "policy.write"
      /\ MethodPermission["GetPolicy"] = "policy.read"
      /\ MethodPermission["DeletePolicy"] = "policy.delete"
      /\ MethodPermission["ListPolicies"] = "policy.read"
      /\ MethodPermission["ListPolicyVersions"] = "policy.read"
      /\ MethodPermission["ValidatePolicy"] = "policy.validate"
      /\ MethodPermission["UpdatePolicy"] = "policy.write"
      /\ MethodPermission["RegisterCollector"] = "collector.register"
      /\ MethodPermission["CreateNote"] = "note.write"
      /\ MethodPermission["CreatePolicyGroup"] = "policyGroup.write"
      /\ MethodPermission["ListPolicyGroups"] = "policyGroup.read"
      /\ MethodPermission["GetPolicyGroup"] = "policyGroup.read"
      /\ MethodPermission["UpdatePolicyGroup"] = "policyGroup.write"
      /\ MethodPermission["DeletePolicyGroup"] = "policyGroup.delete"
      /\ MethodPermission["CreatePolicyAssignment"] = "policyAssignment.write"
      /\ MethodPermission["GetPolicyAssignment"] = "policyAssignment.read"
      /\ MethodPermission["UpdatePolicyAssignment"] = "policyAssignment.write"
      /\ MethodPermission["DeletePolicyAssignment"] = "policyAssignment.delete"
      /\ MethodPermission["ListPolicyAssignments"] = "policyAssignment.read"
      /\ MethodPermission["EvaluateResource"] = "resource.evaluate"
      /\ MethodPermission["GetResourceEvaluation"] = "resource.read"
      /\ MethodPermission["ListResourceEvaluations"] = "resource.read"
  BY DEF MethodPermission
<1>2. {"collector.register", "note.write", "occurrence.read", "occurrence.write",
       "policy.delete", "policy.evaluate", "policy.read", "policy.validate",
       "policy.write", "policyAssignment.delete", "policyAssignment.read",
       "policyAssignment.write", "policyGroup.delete", "policyGroup.read",
       "policyGroup.write", "resource.evaluate", "resource.read"}
        \subseteq AdministratorRole
  BY DEF AdministratorRole, PolicyAdministratorRole, AnonymousRole
<1>3. {"collector.register", "note.write", "occurrence.write", "policy.delete",
       "policy.evaluate", "policy.validate", "policy.write", "policyAssignment.delete",
       "policyAssignment.write", "policyGroup.delete", "policyGroup.write",
       "resource.evaluate"} \cap AnonymousRole = {}
  BY DEF AnonymousRole
<1>4. ASSUME NEW method \in RodeMethod PROVE MethodPermission[method] \in AdministratorRole
  BY <1>1, <1>2, MethodNames
<1>5. ASSUME NEW method \in RodeMethod, MethodPermission[method] \in AnonymousRole
      PROVE  HasGetRoute(method)
  BY <1>1, <1>3, <1>5, MethodNames, ReadsUnderGet
<1> QED BY <1>4, <1>5

\* The methods that write policies ask for permissions nobody has who is anonymous.
LEMMA WritePermissions ==
  /\ {"CreatePolicy", "UpdatePolicy", "DeletePolicy"} \subseteq RodeMethod
  /\ \A method \in {"CreatePolicy", "UpdatePolicy", "DeletePolicy"} :
       MethodPermission[method] \in {"policy.write", "policy.delete"}
  /\ RolePermissions["Anonymous"] = AnonymousRole
  /\ {"policy.write", "policy.delete"} \cap AnonymousRole = {}
<1>1. {"CreatePolicy", "UpdatePolicy", "DeletePolicy"} \subseteq RodeMethod
  BY MethodNames
<1>2. /\ MethodPermission["CreatePolicy"] = "policy.write"
      /\ MethodPermission["UpdatePolicy"] = "policy.write"
      /\ MethodPermission["DeletePolicy"] = "policy.delete"
  BY DEF MethodPermission
<1>3. RolePermissions["Anonymous"] = AnonymousRole
  BY DEF RolePermissions
<1>4. {"policy.write", "policy.delete"} \cap AnonymousRole = {}
  BY DEF AnonymousRole
<1> QED BY <1>1, <1>2, <1>3, <1>4

\* Who passes Authorize has the permission of the method.
LEMMA Permitted ==
  ASSUME NEW rs, NEW method \in RodeMethod, NEW c, c.enabled
  PROVE  Authorize(c, rs, method) <=>
           \E r \in rs : MethodPermission[method] \in RolePermissions[r]
<1>1. method \in DOMAIN LoadServicePermissions
      /\ LoadServicePermissions[method] = {MethodPermission[method]}
  BY DEF LoadServicePermissions
<1> QED BY <1>1 DEF Authorize

\* main.go, auth.go, authz.go: where the flags asked for authentication, nobody changes a
\* policy who was not verified and has no role with a permission to write or delete them.
THEOREM OnlyVerifiedCallersDoWrite == Spec => OnlyVerifiedCallersWrite
<1> DEFINE Allowed ==
      secured /\ index' # index =>
        /\ verified
        /\ \E r \in roles : {"policy.write", "policy.delete"} \cap RolePermissions[r] # {}
<1>1. CallInv /\ IndexInv /\ [Next]_vars => [Allowed]_vars
  <2> SUFFICES ASSUME CallInv, IndexInv, [Next]_vars, secured, index' # index
               PROVE  /\ verified
                      /\ \E r \in roles :
                           {"policy.write", "policy.delete"} \cap RolePermissions[r] # {}
    OBVIOUS
  <2>1. HandlePolicy
    BY DEF Next, Boot, Restart, Receive, ReceiveHttp, Forward, NoRoute, PassRecovery,
       AuthenticateCall, AuthorizeCall, HandleValidate, HandleOther, Finish, documents, vars
  <2>2. stage = "handle" /\ message.method \notin {"GetPolicy", "ListPolicies"}
    BY <2>1, HandlePolicyStep
  <2>3. message.method \in {"CreatePolicy", "UpdatePolicy", "DeletePolicy"}
    BY <2>1, <2>2 DEF HandlePolicy, PolicyMethods, IdMethods
  <2>4. /\ config.enabled /\ Authorize(config, roles, message.method)
        /\ ~verified => roles = {"Anonymous"}
    BY <2>2 DEF CallInv
  <2>5. PICK r \in roles : MethodPermission[message.method] \in RolePermissions[r]
    BY <2>3, <2>4, Permitted, WritePermissions
  <2>6. {"policy.write", "policy.delete"} \cap RolePermissions[r] # {}
    BY <2>3, <2>5, WritePermissions
  <2>7. r # "Anonymous"
    BY <2>6, WritePermissions
  <2> QED BY <2>4, <2>5, <2>6, <2>7
<1> QED BY <1>1, IndexInvariant, PTL DEF Spec, OnlyVerifiedCallersWrite

----------------------------------------------------------------------------
(***************************************************************************)
(* The validation of sources.                                              *)
(***************************************************************************)

\* The smallest of a set of naturals.
LEMMA SmallestOf ==
  ASSUME NEW S, S \subseteq Nat, NEW e \in S
  PROVE  \E x \in S : \A y \in S : ~(y < x)
<1>1. PICK x \in S : \A y \in S : ~(<<y, x>> \in OpToRel(<, Nat))
  <2> HIDE DEF OpToRel
  <2> QED BY WFMin, NatLessThanWellFounded, ZenonT(30)
<1> QED BY <1>1, Zenon DEF OpToRel

\* Induction over the naturals, for a set in place of a predicate.
LEMMA SetInduction ==
  ASSUME NEW S, 0 \in S, \A n \in Nat : n \in S => n + 1 \in S
  PROVE  Nat \subseteq S
<1> SUFFICES ASSUME NEW e \in Nat \ S PROVE FALSE
  OBVIOUS
<1>1. Nat \ S \subseteq Nat
  OBVIOUS
<1>2. PICK x \in Nat \ S : \A y \in Nat \ S : ~(y < x)
  BY <1>1, SmallestOf, Zenon
<1>3. x - 1 \in Nat /\ x - 1 < x
  OBVIOUS
<1>4. x - 1 \in S
  BY <1>2, <1>3
<1>5. (x - 1) + 1 \in S
  BY <1>3, <1>4
<1> QED BY <1>5

\* A rule violations that the loop does not break at.
ReturnsResult(rule) == rule.key = "result" /\ ResultTermsInBody(rule.body)

\* validateRodeRequirementsForPolicy: the loop comes past a rule exactly if the violations
\* up to it are well formed.
LEMMA LoopPasses ==
  ASSUME NEW rules, Len(rules) \in Nat
  PROVE  \A n \in 0..Len(rules) :
           Passed(rules)[n] =
             \A m \in 1..n : m \in Violations(rules) => ReturnsResult(rules[m])
<1> DEFINE N == Len(rules)
           passed == Passed(rules)
           fine(n) == n \in Violations(rules) => ReturnsResult(rules[n])
           upTo(n) == \A m \in 1..n : fine(m)
           past == [n \in 0..N |-> upTo(n)]
           S == {n \in Nat : n \in 0..N => passed[n] = upTo(n)}
<1>1. upTo(0) /\ \A n \in Nat : upTo(n + 1) = (upTo(n) /\ fine(n + 1))
  <2> HIDE DEF fine
  <2>1. upTo(0)
    OBVIOUS
  <2>2. ASSUME NEW n \in Nat PROVE upTo(n + 1) = (upTo(n) /\ fine(n + 1))
    <3>1. 1..(n + 1) = 1..n \cup {n + 1}
      OBVIOUS
    <3> QED BY <3>1
  <2> QED BY <2>1, <2>2
<1>2. passed = CHOOSE f : f = [n \in 0..N |-> IF n = 0 THEN TRUE ELSE f[n - 1] /\ fine(n)]
  BY DEF Passed, ReturnsResult
<1> HIDE DEF fine, upTo, passed
<1>3. past = [n \in 0..N |-> IF n = 0 THEN TRUE ELSE past[n - 1] /\ fine(n)]
  <2>1. ASSUME NEW n \in 0..N
        PROVE  past[n] = IF n = 0 THEN TRUE ELSE past[n - 1] /\ fine(n)
    <3>1. CASE n = 0
      BY <1>1, <3>1
    <3>2. CASE n # 0
      <4>1. n - 1 \in Nat /\ n - 1 \in 0..N /\ (n - 1) + 1 = n
        BY <3>2
      <4>2. past[n - 1] = upTo(n - 1) /\ past[n] = upTo(n)
        BY <4>1
      <4>3. upTo((n - 1) + 1) = (upTo(n - 1) /\ fine((n - 1) + 1))
        BY <1>1, <4>1
      <4> QED BY <3>2, <4>1, <4>2, <4>3
    <3> QED BY <3>1, <3>2
  <2> QED BY <2>1
<1>4. passed = [n \in 0..N |-> IF n = 0 THEN TRUE ELSE passed[n - 1] /\ fine(n)]
  <2> HIDE DEF past
  <2> QED BY <1>2, <1>3, Zenon
<1>5. 0 \in S
  <2>1. 0 \in 0..N => passed[0] = TRUE
    BY <1>4
  <2> QED BY <1>1, <2>1
<1>6. ASSUME NEW n \in Nat, n \in S PROVE n + 1 \in S
  <2> SUFFICES ASSUME n + 1 \in 0..N PROVE passed[n + 1] = upTo(n + 1)
    OBVIOUS
  <2>1. n \in 0..N /\ (n + 1) - 1 = n /\ n + 1 # 0
    OBVIOUS
  <2>2. passed[n] = upTo(n)
    BY <1>6, <2>1
  <2>3. passed[n + 1] = (passed[n] /\ fine(n + 1))
    BY <1>4, <2>1
  <2>4. upTo(n + 1) = (upTo(n) /\ fine(n + 1))
    BY <1>1
  <2> QED BY <2>2, <2>3, <2>4
<1>7. Nat \subseteq S
  <2> HIDE DEF S
  <2> QED BY <1>5, <1>6, SetInduction
<1>8. ASSUME NEW n \in 0..N PROVE passed[n] = upTo(n)
  BY <1>7
<1> QED BY <1>8 DEF passed, upTo, fine

\* The last of the violations.
LEMMA LastOf ==
  ASSUME NEW N \in Nat, NEW S, S \subseteq 1..N, S # {}
  PROVE  \E last \in S : \A i \in S : i <= last
<1> DEFINE T == {n \in Nat : \E i \in S : i = N - n}
<1>1. PICK i \in S : TRUE
  OBVIOUS
<1>2. i \in 1..N /\ N - i \in Nat /\ i = N - (N - i)
  OBVIOUS
<1>3. T \subseteq Nat /\ N - i \in T
  BY <1>2
<1>4. PICK x \in T : \A y \in T : ~(y < x)
  <2> HIDE DEF T
  <2> QED BY <1>3, SmallestOf
<1>5. N - x \in S /\ x \in Nat
  OBVIOUS
<1>6. ASSUME NEW j \in S PROVE j <= N - x
  <2>1. j \in 1..N /\ N - j \in Nat /\ j = N - (N - j)
    OBVIOUS
  <2>2. N - j \in T
    BY <2>1
  <2>3. ~(N - j < x)
    BY <1>4, <2>2
  <2> QED BY <1>5, <2>1, <2>3
<1> QED BY <1>5, <1>6

\* validateRodeRequirementsForPolicy: the flag is set exactly if there are violations and
\* all are well formed.
LEMMA FlagExact ==
  ASSUME NEW rules, Len(rules) \in Nat, DOMAIN rules = 1..Len(rules)
  PROVE  ReturnFieldsExist(rules) <=>
           /\ Violations(rules) # {}
           /\ \A m \in Violations(rules) : ReturnsResult(rules[m])
<1> DEFINE V == Violations(rules)
           N == Len(rules)
<1>1. V \subseteq 1..N
  BY DEF Violations
<1>2. ReturnFieldsExist(rules) <=>
        \E last \in V : (\A i \in V : i <= last) /\ Passed(rules)[last]
  BY DEF ReturnFieldsExist
<1>3. ASSUME NEW last \in V, \A i \in V : i <= last
      PROVE  Passed(rules)[last] <=> \A m \in V : ReturnsResult(rules[m])
  <2>1. last \in 0..N
    BY <1>1
  <2>2. Passed(rules)[last] = \A m \in 1..last : m \in V => ReturnsResult(rules[m])
    BY <2>1, LoopPasses
  <2>3. \A m \in V : m \in 1..last
    BY <1>1, <1>3
  <2> HIDE DEF V
  <2> QED BY <2>2, <2>3
<1> HIDE DEF V
<1>4. V # {} => \E last \in V : \A i \in V : i <= last
  BY <1>1, LastOf
<1>5. ASSUME ReturnFieldsExist(rules) PROVE V # {} /\ \A m \in V : ReturnsResult(rules[m])
  BY <1>2, <1>3, <1>5
<1>6. ASSUME V # {}, \A m \in V : ReturnsResult(rules[m]) PROVE ReturnFieldsExist(rules)
  BY <1>2, <1>3, <1>4, <1>6
<1> QED BY <1>5, <1>6 DEF V

\* validateResultTermsInBody, of expressions of two terms.
AssignsResult(e) ==
  e.operator \in {"assign", "eq"} /\ e.terms[1] = Variable("result") /\ e.terms[2].kind = "object"

\* Every expression that makes a result has the four fields.
LEMMA BodyExact ==
  ASSUME NEW body, \A i \in DOMAIN body : DOMAIN body[i].terms = {1, 2}
  PROVE  ResultTermsInBody(body) <=>
           \A i \in DOMAIN body :
             AssignsResult(body[i]) => Fields \subseteq body[i].terms[2].keys
<1>1. ASSUME NEW e
      PROVE  ~ResultObject(e, 1) /\ (ResultObject(e, 2) <=> AssignsResult(e))
  <2>1. ~(1 > 1) /\ 2 > 1 /\ 2 - 1 = 1
    OBVIOUS
  <2> QED BY <2>1 DEF ResultObject, AssignsResult
<1> HIDE DEF ResultObject, AssignsResult, Fields
<1>2. ASSUME NEW i \in DOMAIN body
      PROVE  (\A t \in DOMAIN body[i].terms :
                ResultObject(body[i], t) => Fields \subseteq body[i].terms[t].keys)
             <=> (AssignsResult(body[i]) => Fields \subseteq body[i].terms[2].keys)
  <2>1. \A t \in DOMAIN body[i].terms : t = 1 \/ t = 2
    OBVIOUS
  <2>2. 2 \in DOMAIN body[i].terms
    OBVIOUS
  <2>3. ~ResultObject(body[i], 1) /\ (ResultObject(body[i], 2) <=> AssignsResult(body[i]))
    BY <1>1
  <2> QED BY <2>1, <2>2, <2>3, Zenon
<1> QED BY <1>2 DEF ResultTermsInBody

\* The errors of a compilation are all in the list of the answer.
LEMMA ErrorsListed ==
  ASSUME NEW errors, IsSequence(errors)
  PROVE  {errors[i] : i \in DOMAIN errors}
           \subseteq {ErrorsList(errors)[i] : i \in DOMAIN ErrorsList(errors)}
<1> DEFINE N == Len(errors)
           blank == [i \in DOMAIN errors |-> ""]
           E == {errors[i] : i \in DOMAIN errors} \cup {""}
<1>1. errors \in Seq(E) /\ N \in Nat /\ DOMAIN errors = 1..N
  <2> DEFINE F == {errors[i] : i \in DOMAIN errors}
  <2>1. errors \in Seq(F)
    BY DEF IsSequence
  <2>2. F \subseteq E
    OBVIOUS
  <2> HIDE DEF E, F
  <2> QED BY <2>1, <2>2
<1>2. blank \in Seq(E) /\ Len(blank) = N
  <2>1. blank \in [1..N -> E]
    BY <1>1
  <2> HIDE DEF blank, E
  <2>2. blank \in Seq(E) /\ DOMAIN blank = 1..N
    BY <1>1, <2>1
  <2> QED BY <1>1, <2>2
<1> HIDE DEF blank, E
<1>3. ASSUME NEW i \in 1..N
      PROVE  N + i \in DOMAIN (blank \o errors) /\ (blank \o errors)[N + i] = errors[i]
  BY <1>1, <1>2
<1>4. ErrorsList(errors) = blank \o errors
  BY DEF ErrorsList, blank
<1> QED BY <1>1, <1>3, <1>4

\* What ValidationExact says of a verdict.
RulesOf(source) == {source.rules[i] : i \in DOMAIN source.rules}
Acceptable(source) ==
  /\ source.text = "parsable" /\ source.errors = <<>>
  /\ {"pass", "violations"} \subseteq {r.name : r \in RulesOf(source)}
  /\ \A r \in RulesOf(source) : r.name = "violations" =>
       /\ r.key = "result"
       /\ \A i \in DOMAIN r.body :
            AssignsResult(r.body[i]) => Fields \subseteq r.body[i].terms[2].keys
Exact(source, verdict) ==
  /\ (verdict.code = "OK") = Acceptable(source)
  /\ source.text = "parsable" =>
       {source.errors[i] : i \in DOMAIN source.errors}
         \subseteq {verdict.errors[i] : i \in DOMAIN verdict.errors}

\* ValidationExact, with the verdict taken out of it.
LEMMA ExactIs ==
  ValidationExact <=>
    (stage = "answered" /\ message.method = "ValidatePolicy" /\ message.source # NoSource =>
       Exact(message.source, answer))
  BY Zenon DEF ValidationExact, Exact, Acceptable, RulesOf, AssignsResult

\* ValidatePolicy: the rules a source needs, and no others, are found to be missing.
LEMMA RulesExact ==
  ASSUME NEW source \in Sources
  PROVE  RodeErrors(source.rules) = {} <=>
           /\ {"pass", "violations"} \subseteq {r.name : r \in RulesOf(source)}
           /\ \A r \in RulesOf(source) : r.name = "violations" =>
                /\ r.key = "result"
                /\ \A i \in DOMAIN r.body :
                     AssignsResult(r.body[i]) => Fields \subseteq r.body[i].terms[2].keys
<1> DEFINE rules == source.rules
           V == Violations(rules)
<1>1. Len(rules) \in Nat /\ DOMAIN rules = 1..Len(rules)
  <2> DEFINE S == {rules[i] : i \in DOMAIN rules}
  <2>1. rules \in Seq(S)
    BY SourcesAssumption DEF IsSequence
  <2> HIDE DEF S
  <2> QED BY <2>1
<1>2. ASSUME NEW i \in DOMAIN rules
      PROVE  ReturnsResult(rules[i]) <=>
               /\ rules[i].key = "result"
               /\ \A j \in DOMAIN rules[i].body :
                    AssignsResult(rules[i].body[j]) =>
                      Fields \subseteq rules[i].body[j].terms[2].keys
  <2>1. \A j \in DOMAIN rules[i].body : DOMAIN rules[i].body[j].terms = {1, 2}
    BY SourcesAssumption
  <2> QED BY <2>1, BodyExact DEF ReturnsResult
<1>3. RodeErrors(rules) = {} <=>
        /\ ~(\A i \in DOMAIN rules : rules[i].name # "pass")
        /\ V # {}
        /\ ReturnFieldsExist(rules)
  <2> DEFINE P == \A i \in DOMAIN rules : rules[i].name # "pass"
             R == ReturnFieldsExist(rules)
             Of(e) == CASE e = "no pass" -> P [] e = "no violations" -> V = {}
                        [] e = "no result" -> ~R
  <2>1. RodeErrors(rules) = {e \in {"no pass", "no violations", "no result"} : Of(e)}
    BY DEF RodeErrors
  <2>2. /\ Of("no pass") <=> P
        /\ Of("no violations") <=> V = {}
        /\ Of("no result") <=> ~R
    <3> HIDE DEF P, V, R
    <3> QED OBVIOUS
  <2> HIDE DEF Of, P, V, R
  <2>3. RodeErrors(rules) = {} <=>
          ~Of("no pass") /\ ~Of("no violations") /\ ~Of("no result")
    BY <2>1
  <2>4. RodeErrors(rules) = {} <=> ~P /\ V # {} /\ R
    BY <2>2, <2>3
  <2> QED BY <2>4 DEF P, V, R
<1>4. ReturnFieldsExist(rules) <=> V # {} /\ \A m \in V : ReturnsResult(rules[m])
  BY <1>1, FlagExact
<1>5. V = {i \in DOMAIN rules : rules[i].name = "violations"}
  BY DEF Violations
<1>6. {"pass", "violations"} \subseteq {r.name : r \in RulesOf(source)} <=>
        ~(\A i \in DOMAIN rules : rules[i].name # "pass") /\ V # {}
  BY <1>5 DEF RulesOf
<1>7. (\A m \in V : ReturnsResult(rules[m])) <=>
        \A r \in RulesOf(source) : r.name = "violations" =>
          /\ r.key = "result"
          /\ \A i \in DOMAIN r.body :
               AssignsResult(r.body[i]) => Fields \subseteq r.body[i].terms[2].keys
  <2> DEFINE Good(r) == /\ r.key = "result"
                        /\ \A i \in DOMAIN r.body :
                             AssignsResult(r.body[i]) => Fields \subseteq r.body[i].terms[2].keys
  <2>1. \A i \in DOMAIN rules : ReturnsResult(rules[i]) <=> Good(rules[i])
    BY <1>2
  <2> HIDE DEF Good
  <2>2. (\A m \in V : ReturnsResult(rules[m])) <=>
          \A r \in RulesOf(source) : r.name = "violations" => Good(r)
    BY <1>5, <2>1 DEF RulesOf
  <2> QED BY <2>2 DEF Good
<1> QED BY <1>3, <1>4, <1>6, <1>7

\* ValidatePolicy: the verdict on every source is exact.
LEMMA VerdictExact ==
  ASSUME NEW source \in Sources
  PROVE  Exact(source, Validate(source))
<1> DEFINE verdict == Validate(source)
<1>1. source.text \in {"empty", "unparsable", "parsable"} /\ IsSequence(source.errors)
  BY SourcesAssumption
<1>2. CASE source.text # "parsable"
  <2>1. verdict.code = "InvalidArgument"
    BY <1>1, <1>2 DEF Validate
  <2> QED BY <1>2, <2>1 DEF Exact, Acceptable
<1>3. CASE source.text = "parsable" /\ source.errors # <<>>
  <2>1. verdict.code = "InvalidArgument" /\ verdict.errors = ErrorsList(source.errors)
    BY <1>3 DEF Validate
  <2>2. {source.errors[i] : i \in DOMAIN source.errors}
          \subseteq {ErrorsList(source.errors)[i] : i \in DOMAIN ErrorsList(source.errors)}
    BY <1>1, ErrorsListed
  <2> HIDE DEF verdict
  <2>3. Exact(source, verdict)
    BY <1>3, <2>1, <2>2 DEF Exact, Acceptable
  <2> QED BY <2>3 DEF verdict
<1>4. CASE source.text = "parsable" /\ source.errors = <<>>
  <2>1. verdict.code = IF RodeErrors(source.rules) = {} THEN "OK" ELSE "InvalidArgument"
    BY <1>4 DEF Validate
  <2>2. (verdict.code = "OK") <=> RodeErrors(source.rules) = {}
    BY <2>1
  <2>3. (verdict.code = "OK") = Acceptable(source)
    BY <1>4, <2>2, RulesExact DEF Acceptable
  <2>4. {source.errors[i] : i \in DOMAIN source.errors} = {}
    BY <1>4
  <2> HIDE DEF verdict
  <2>5. Exact(source, verdict)
    BY <2>3, <2>4 DEF Exact
  <2> QED BY <2>5 DEF verdict
<1> QED BY <1>2, <1>3, <1>4

----------------------------------------------------------------------------
(***************************************************************************)
(* The answers.                                                            *)
(***************************************************************************)

\* What is known of the message all along, and of an answer until it is sent.
MessageTyped ==
  /\ message.method \in Method \cup {"none"}
  /\ message.id \in Ids \cup {<<>>}
  /\ message.source \in Sources \cup {NoSource}

AnswerInv ==
  /\ MessageTyped
  /\ answer.missing \subseteq {"no pass", "no violations", "no result"}
  /\ stage = "answered" /\ answer.code = "PermissionDenied" => "Administrator" \notin roles
  /\ ReadsTheVersionNamed
  /\ ValidationExact

\* Before anything is answered.
LEMMA AnswerInit == Init => AnswerInv
<1>1. NoMessage.method = "none" /\ NoMessage.id = <<>> /\ NoMessage.source = NoSource
  BY DEF NoMessage
<1>2. Init => ReadsTheVersionNamed /\ ValidationExact
  BY ExactIs DEF Init, ReadsTheVersionNamed
<1> QED BY <1>1, <1>2 DEF Init, AnswerInv, MessageTyped, NoAnswer

\* authz.go: nobody is refused who is an administrator.
LEMMA AdministratorsPass ==
  ASSUME CallInv, stage = "authorize", ~Authorize(config, roles, message.method)
  PROVE  "Administrator" \notin roles
<1>1. config.enabled /\ message.method \in RodeMethod
  BY DEF Authorize, LoadServicePermissions, CallInv, Config
<1>2. RolePermissions["Administrator"] = AdministratorRole
  BY DEF RolePermissions
<1> QED BY <1>1, <1>2, Permissions, Permitted

\* A Get of a policy reads the version it names.
LEMMA ReadsNamed ==
  ASSUME IndexInv, NEW id \in Seq(Piece) \ {<<>>}, NEW read,
         GetPolicy(index, id).code = "OK", GetPolicy(index, id).read = read
  PROVE  CASE Len(id) = 1 -> read = PolicyVersionId(id[1], index[id].current)
           [] Len(id) = 2 /\ id[2].number \in Version ->
                read = PolicyVersionId(id[1], id[2].number)
           [] OTHER -> read \in DOMAIN index
<1> DEFINE got == GetPolicy(index, id)
<1>1. IndexGood(index, misused, changes)
  BY DEF IndexInv
<1>2. /\ got.read \in DOMAIN index
      /\ Len(id) = 1 => got.read = PolicyVersionId(id[1], index[id].current)
      /\ Len(id) = 2 /\ id[2].number \in Version =>
           got.read = PolicyVersionId(id[1], id[2].number)
  BY <1>1, GetReads
<1>3. \A n \in Nat : ~(n = 1 /\ n = 2)
  OBVIOUS
<1>4. Len(id) \in Nat
  OBVIOUS
<1> HIDE DEF got
<1>5. got.read = read
  BY DEF got
<1> QED BY <1>2, <1>3, <1>4, <1>5, Zenon

\* ValidatePolicy names only requirements there are, and is OK or an invalid argument.
LEMMA VerdictTyped ==
  ASSUME NEW source
  PROVE  /\ Validate(source).missing \subseteq {"no pass", "no violations", "no result"}
         /\ Validate(source).code \in {"OK", "InvalidArgument"}
<1>1. RodeErrors(source.rules) \subseteq {"no pass", "no violations", "no result"}
  BY Zenon DEF RodeErrors
<1> QED BY <1>1 DEF Validate

\* A step answers as it should, or leaves the answer and what it speaks of.
LEMMA AnswerStep == CallInv /\ IndexInv /\ AnswerInv /\ [Next]_vars => AnswerInv'
<1> SUFFICES ASSUME CallInv, IndexInv, AnswerInv, [Next]_vars PROVE AnswerInv'
  OBVIOUS
<1> USE DEF AnswerInv
<1> HIDE DEF Method
<1>1. ValidationExact' <=>
         (stage' = "answered" /\ message'.method = "ValidatePolicy"
            /\ message'.source # NoSource => Exact(message'.source, answer'))
  BY Zenon DEF ValidationExact, Exact, Acceptable, RulesOf, AssignsResult
<1>2. ASSUME stage \in {"recovery", "authenticate", "authorize", "handle", "gateway"}
      PROVE  message.source = NoSource
  <2>1. NoMessage.source = NoSource /\ \A method, id : Message(method, id).source = NoSource
    BY DEF Message, NoMessage
  <2>2. message = NoMessage \/ \E method \in Method, id \in Ids \cup {<<>>} :
          message = Message(method, id)
    BY <1>2 DEF CallInv, WellFormed
  <2> QED BY <2>1, <2>2, Zenon
<1>3. CASE stage' # "answered" /\ MessageTyped' /\ answer' \in {answer, NoAnswer}
  <2>1. NoAnswer.missing = {}
    BY DEF NoAnswer
  <2>2. answer'.missing \subseteq {"no pass", "no violations", "no result"}
    BY <1>3, <2>1
  <2>3. ReadsTheVersionNamed'
    BY <1>3 DEF ReadsTheVersionNamed
  <2>4. ValidationExact'
    BY <1>3, <1>1
  <2> QED BY <1>3, <2>2, <2>3, <2>4
<1>4. CASE stage' = "answered" /\ UNCHANGED message /\ answer'.missing = {}
           /\ answer'.code \notin {"OK", "PermissionDenied"} /\ message.source = NoSource
  <2>1. ReadsTheVersionNamed' /\ MessageTyped'
    BY <1>4 DEF ReadsTheVersionNamed, MessageTyped
  <2>2. ValidationExact'
    BY <1>4, <1>1
  <2> QED BY <1>4, <2>1, <2>2
<1>5. CASE Boot \/ Restart \/ PassRecovery \/ ReceiveHttp
  <2>1. stage' # "answered" /\ UNCHANGED <<message, answer>>
    BY <1>5, ChainOrder DEF Boot, Restart, PassRecovery, ReceiveHttp
  <2> QED BY <1>3, <2>1 DEF MessageTyped
<1>6. CASE Receive \/ Forward
  <2>1. stage' = "recovery" /\ UNCHANGED answer
    BY <1>6, ChainOrder DEF Receive, Forward
  <2>2. CallInv'
    BY CallStep
  <2>3. MessageTyped'
    <3>1. PICK method \in Method, id \in Ids \cup {<<>>} : message' = Message(method, id)
      BY <2>1, <2>2 DEF CallInv, WellFormed
    <3> QED BY <3>1 DEF Message, NoMessage, MessageTyped
  <2> QED BY <1>3, <2>1, <2>3
<1>7. CASE NoRoute
  BY <1>4, <1>7, <1>2 DEF NoRoute, Answered, NoAnswer
<1>8. CASE AuthenticateCall
  <2>1. PICK header \in Header(Claims) : AuthenticateCall!(header)
    BY <1>8 DEF AuthenticateCall
  <2> DEFINE outcome == Authenticate(config, header)
  <2>2. outcome.code \in {"OK", "Unauthenticated", "panic"}
    BY AuthenticateGivesRoles DEF CallInv
  <2> HIDE DEF outcome
  <2>3. stage = "authenticate" /\ UNCHANGED message /\ message.source = NoSource
    BY <1>2, <2>1
  <2>4. CASE outcome.code = "OK"
    <3>1. stage' = "authorize" /\ UNCHANGED answer
      BY <2>1, <2>4, ChainOrder DEF outcome
    <3> QED BY <1>3, <2>3, <3>1 DEF MessageTyped
  <2>5. CASE outcome.code = "Unauthenticated"
    <3>1. Answered("Unauthenticated")
      BY <2>1, <2>5 DEF outcome
    <3> QED BY <1>4, <2>3, <3>1 DEF Answered, NoAnswer
  <2>6. CASE outcome.code = "panic"
    <3>1. Panics
      BY <2>1, <2>6 DEF outcome
    <3>2. Answered("Internal")
      BY <2>3, <3>1, PanicsAreBehind
    <3> QED BY <1>4, <2>3, <3>2 DEF Answered, NoAnswer
  <2> QED BY <2>2, <2>4, <2>5, <2>6
<1>9. CASE AuthorizeCall
  <2>1. CASE Authorize(config, roles, message.method)
    BY <1>3, <1>9, <2>1, ChainOrder DEF AuthorizeCall, MessageTyped
  <2>2. CASE ~Authorize(config, roles, message.method)
    <3>1. "Administrator" \notin roles
      BY <1>9, <2>2, AdministratorsPass DEF AuthorizeCall
    <3>2. /\ answer'.code = "PermissionDenied" /\ answer'.missing = {}
          /\ UNCHANGED <<message, roles>> /\ message.source = NoSource
      BY <1>9, <1>2, <2>2 DEF AuthorizeCall, Answered, NoAnswer, context
    <3>3. ValidationExact'
      BY <1>1, <3>2
    <3> QED BY <3>1, <3>2, <3>3 DEF ReadsTheVersionNamed, MessageTyped
  <2> QED BY <2>1, <2>2
<1>10. CASE HandlePolicy
  <2>1. /\ stage = "handle" /\ stage' = "answered" /\ UNCHANGED <<message, roles>>
        /\ answer'.code # "PermissionDenied" /\ answer'.missing = {}
        /\ message.method = "GetPolicy" => index' = index
        /\ message.method = "GetPolicy" =>
             \/ answer'.code # "OK"
             \/ answer'.code = GetPolicy(index, message.id).code
                /\ answer'.read = GetPolicy(index, message.id).read
    BY <1>10, HandlePolicyStep
  <2>2. ReadsTheVersionNamed'
    <3> SUFFICES ASSUME message.method = "GetPolicy", answer'.code = "OK"
                 PROVE  ReadsTheVersionNamed'
      BY <2>1 DEF ReadsTheVersionNamed
    <3>1. GetPolicy(index, message.id).code = "OK"
          /\ GetPolicy(index, message.id).read = answer'.read
      BY <2>1
    <3>2. message.id \in Seq(Piece) \ {<<>>}
      BY <2>1, MessageIds DEF IdMethods
    <3>3. index' = index /\ message' = message
      BY <2>1
    <3> QED BY <3>1, <3>2, <3>3, ReadsNamed DEF ReadsTheVersionNamed
  <2>3. ValidationExact'
    <3>1. message' = message /\ message.source = NoSource
      BY <1>2, <2>1
    <3> QED BY <1>1, <3>1
  <2> QED BY <2>1, <2>2, <2>3 DEF MessageTyped
<1>11. CASE HandleValidate
  <2>1. PICK source \in Sources : HandleValidate!(source)
    BY <1>11 DEF HandleValidate
  <2>2. /\ answer'.missing = Validate(source).missing /\ answer'.code = Validate(source).code
        /\ message.method = "ValidatePolicy" /\ stage = "handle"
        /\ message' = [message EXCEPT !.source = source]
    BY <2>1
  <2>3. message'.method = message.method /\ message'.id = message.id
        /\ message'.source = source
    <3>1. PICK method \in Method, id \in Ids \cup {<<>>} : message = Message(method, id)
      BY <2>2 DEF CallInv, WellFormed
    <3> QED BY <2>2, <3>1 DEF Message, NoMessage
  <2>4. ValidationExact'
    <3>1. Exact(source, Validate(source))
      BY VerdictExact
    <3>2. /\ answer'.code = Validate(source).code
          /\ answer'.errors = Validate(source).errors
      BY <2>1
    <3>3. Exact(source, answer')
      BY <3>1, <3>2 DEF Exact
    <3> QED BY <1>1, <2>3, <3>3
  <2> QED BY <2>2, <2>3, <2>4, VerdictTyped DEF ReadsTheVersionNamed, MessageTyped
<1>12. CASE HandleOther
  <2>1. /\ UNCHANGED message /\ answer'.missing = {} /\ answer'.code = "OK"
        /\ message.method # "GetPolicy" /\ message.source = NoSource
    BY <1>12, <1>2 DEF HandleOther, Answered, NoAnswer, PolicyMethods, IdMethods
  <2>2. ValidationExact'
    BY <1>1, <2>1
  <2> QED BY <2>1, <2>2 DEF ReadsTheVersionNamed, MessageTyped
<1>13. CASE Finish
  <2>1. stage' # "answered" /\ answer' = NoAnswer /\ message' = NoMessage
    BY <1>13 DEF Finish
  <2> QED BY <1>3, <2>1 DEF MessageTyped, NoMessage
<1>14. CASE UNCHANGED vars
  <2>1. UNCHANGED <<stage, message, answer, index, roles>>
    BY <1>14 DEF vars, context, documents
  <2>2. ValidationExact'
    BY <1>1, <2>1, ExactIs
  <2> QED BY <2>1, <2>2 DEF ReadsTheVersionNamed, MessageTyped
<1> QED BY <1>5, <1>6, <1>7, <1>8, <1>9, <1>10, <1>11, <1>12, <1>13, <1>14 DEF Next

\* What is known of answers holds throughout.
LEMMA AnswerInvariant == Spec => [](CallInv /\ IndexInv /\ AnswerInv)
<1>1. Init => CallInv /\ IndexInv /\ AnswerInv
  BY CallInit, IndexInit, AnswerInit
<1>2. CallInv /\ IndexInv /\ AnswerInv /\ [Next]_vars => (CallInv /\ IndexInv /\ AnswerInv)'
  BY CallStep, IndexStep, AnswerStep
<1> QED BY <1>1, <1>2, PTL DEF Spec

\* Every variable has its type.
THEOREM TypeCorrect == Spec => []TypeOK
<1>1. CallInv /\ IndexInv /\ AnswerInv => TypeOK
  <2> SUFFICES ASSUME CallInv, IndexInv, AnswerInv PROVE TypeOK
    OBVIOUS
  <2>1. ASSUME NEW id \in DOMAIN index
        PROVE  /\ index[id].kind \in {"policy", "version", "counter"}
               /\ index[id].current \in 0..(2 ^ Width - 1)
    BY DEF IndexInv, IndexGood, DocsTyped, DocType
  <2>2. misused \subseteq DOMAIN index /\ changes \in 0..MaxChanges
    BY DEF IndexInv, IndexGood, KindsGood
  <2>3. http \in HttpRequests \cup {NoRequest}
    BY DEF CallInv
  <2> QED BY <2>1, <2>2, <2>3 DEF TypeOK, CallInv, AnswerInv, MessageTyped
<1> QED BY <1>1, AnswerInvariant, PTL

\* The three tables agree: who is anonymous reaches, besides the health check, only what is
\* served under GET, and an administrator is refused nothing.
THEOREM TheRolesMatchTheMethods == Spec => []RolesMatchMethods
<1>1. CallInv /\ AnswerInv => RolesMatchMethods
  <2> SUFFICES ASSUME CallInv, AnswerInv PROVE RolesMatchMethods
    OBVIOUS
  <2>1. ASSUME stage = "handle", secured, ~verified \/ roles = {"Anonymous"},
               message.method # "Check"
        PROVE  HasGetRoute(message.method)
    <3>1. roles = {"Anonymous"} /\ config.enabled /\ Authorize(config, roles, message.method)
      BY <2>1 DEF CallInv
    <3>2. message.method \in RodeMethod
      BY <2>1, MessageIds DEF Method
    <3>3. MethodPermission[message.method] \in AnonymousRole
      BY <3>1, <3>2, Permitted, WritePermissions
    <3> QED BY <3>2, <3>3, Permissions
  <2> QED BY <2>1 DEF RolesMatchMethods, HasGetRoute, AnswerInv
<1> QED BY <1>1, AnswerInvariant, PTL

\* A Get of "policy.n" reads version n if there can be one, and a Get of the policy the
\* version that is current.
THEOREM ReadsWhatIsNamed == Spec => []ReadsTheVersionNamed
<1>1. AnswerInv => ReadsTheVersionNamed
  BY DEF AnswerInv
<1> QED BY <1>1, AnswerInvariant, PTL

\* A source is accepted exactly if it compiles and has the rules it needs, each violations
\* with the fields it needs, and the answer to one that does not compile lists every error.
THEOREM ValidationIsExact == Spec => []ValidationExact
<1>1. AnswerInv => ValidationExact
  BY DEF AnswerInv
<1> QED BY <1>1, AnswerInvariant, PTL
=============================================================================
