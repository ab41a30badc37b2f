----------------------------- MODULE RequestPath -----------------------------
(***************************************************************************)
(* The way of one call through a server: its flags, the gateway if it came *)
(* over HTTP, the chain of interceptors (main.go), and the handler.  Calls *)
(* come one after another, and the server may be started again with other  *)
(* flags over the same index.                                              *)
(*                                                                         *)
(* The handlers that take a policy id and those that take a Rego source    *)
(* are those of PolicyIds and PolicyValidation; of the others only that    *)
(* they were reached is kept.  The header of a call passes the gateway as  *)
(* it is and nobody looks at it before the interceptor, where it is chosen.*)
(***************************************************************************)
EXTENDS Auth, Gateway, PolicyValidation

CONSTANTS
  Claims,       \* what a roles claim can hold
  Ids,          \* the policy ids of calls
  Sources,      \* the Rego sources of calls
  HttpRequests, \* the requests to the gateway
  MaxChanges    \* how many calls may change the index

\* A version is numbered here without the conversion to uint32: the changes end before
\* it would matter.
ASSUME ChangesAssumption == MaxChanges \in 0..(2 ^ Width - 1)

VARIABLES
  config,     \* what Build made of the flags
  secured,    \* did the flags ask for authentication?
  stage,      \* where the call is
  http,       \* the request to the gateway
  message,    \* the message of the call: its method, and the id or content it is about
  verified,   \* was the caller verified?
  roles,      \* the roles of the context
  answer,     \* the code, what was read, and the verdict on a source
  index,      \* the documents of the policies index
  misused,    \* ids of documents that calls wrote as policies by asking for them
  changes     \* how many calls have changed the index

server == <<config, secured>>
documents == <<index, misused, changes>>
context == <<verified, roles>>
vars == <<server, stage, http, message, context, answer, documents>>

\* The one policy there is, once it has been created.
PolicyId == <<Word("p")>>

IdMethods == {"GetPolicy", "UpdatePolicy", "DeletePolicy"}

IsSequence(s) == s \in Seq({s[i] : i \in DOMAIN s})

\* No id of a call is empty, and the ids in the paths of requests are among those of calls.
ASSUME IdsAssumption ==
  /\ \A id \in Ids : id # <<>> /\ IsSequence(id)
  /\ \A request \in HttpRequests : \A route \in Routes :
       Matches(route, request) /\ route.method \in IdMethods => MessageId(route, request) \in Ids

\* A source has a text, errors and rules; the expressions of their bodies have two terms.
ASSUME SourcesAssumption == \A source \in Sources :
  /\ source.text \in {"empty", "unparsable", "parsable"}
  /\ IsSequence(source.errors) /\ IsSequence(source.rules)
  /\ \A rule \in {source.rules[i] : i \in DOMAIN source.rules} :
       \A i \in DOMAIN rule.body : DOMAIN rule.body[i].terms = {1, 2}

PolicyMethods == IdMethods \cup {"CreatePolicy", "ListPolicies"}

NoSource == [text |-> "empty", errors |-> <<>>, rules |-> <<>>]
NoMessage == [method |-> "none", id |-> <<>>, source |-> NoSource]
NoRequest == [verb |-> "none", path |-> <<>>, suffix |-> "", bodyId |-> <<>>]
NoAnswer == [code |-> "none", read |-> <<>>, errors |-> <<>>, missing |-> {}]
NoConfig == [basic |-> FALSE, oidc |-> FALSE, enabled |-> FALSE]

Message(method, id) == [NoMessage EXCEPT !.method = method, !.id = id]

Init ==
  /\ config = NoConfig
  /\ secured = FALSE
  /\ stage = "boot"
  /\ http = NoRequest
  /\ message = NoMessage
  /\ verified = FALSE
  /\ roles = {}
  /\ answer = NoAnswer
  /\ index = NoWrites
  /\ misused = {}
  /\ changes = 0

----------------------------------------------------------------------------
\* Starting, and starting again.  With flags that are not accepted main ends.

Boot == \E f \in Flags :
  /\ stage = "boot" /\ Accepted(f)
  /\ stage' = "idle"
  /\ config' = Build(f)
  /\ secured' = Secured(f)
  /\ UNCHANGED <<http, message, context, answer, documents>>

Restart ==
  /\ stage = "idle"
  /\ stage' = "boot"
  /\ config' = NoConfig
  /\ secured' = FALSE
  /\ UNCHANGED <<http, message, context, answer, documents>>

----------------------------------------------------------------------------
\* The chain of unary interceptors, and what is after each.

\* Mutant: the recovery is the last of the chain.
RecoveryLast == <<"authenticate", "authorize", "recovery">>

Interceptors == <<"recovery", "authenticate", "authorize">>

\* The position of a stage; the handler is behind the chain.
Position(s) ==
  IF s = "handle" THEN 4 ELSE CHOOSE i \in DOMAIN Interceptors : Interceptors[i] = s

After(s) ==
  IF Position(s) = Len(Interceptors) THEN "handle" ELSE Interceptors[Position(s) + 1]

Answered(code) ==
  /\ stage' = "answered"
  /\ answer' = [NoAnswer EXCEPT !.code = code]

\* The recovery answers for what panics behind it; other panics end the process.
Panics ==
  IF Position("recovery") < Position(stage) THEN Answered("Internal")
  ELSE stage' = "crashed" /\ UNCHANGED answer

----------------------------------------------------------------------------
\* A call comes.

Receive ==
  /\ stage = "idle"
  /\ stage' = Interceptors[1]
  /\ \E method \in Method, id \in Ids \cup {<<>>} :
       /\ (id = <<>>) = (method \notin IdMethods)
       /\ message' = Message(method, id)
  /\ UNCHANGED <<server, http, context, answer, documents>>

ReceiveHttp ==
  /\ stage = "idle"
  /\ stage' = "gateway"
  /\ http' \in HttpRequests
  /\ UNCHANGED <<server, message, context, answer, documents>>

\* The gateway makes the message and the gRPC call.
Forward == \E route \in Routes :
  /\ stage = "gateway" /\ Matches(route, http)
  /\ stage' = Interceptors[1]
  /\ message' = Message(route.method,
                        IF route.method \in IdMethods THEN MessageId(route, http) ELSE <<>>)
  /\ http' = NoRequest
  /\ UNCHANGED <<server, context, answer, documents>>

NoRoute ==
  /\ stage = "gateway" /\ Methods(http) = {}
  /\ Answered("NotFound")
  /\ http' = NoRequest
  /\ UNCHANGED <<server, message, context, documents>>

PassRecovery ==
  /\ stage = "recovery"
  /\ stage' = After("recovery")
  /\ UNCHANGED <<server, http, message, context, answer, documents>>

AuthenticateCall == \E header \in Header(Claims) :
  LET outcome == Authenticate(config, header) IN
  /\ stage = "authenticate"
  /\ verified' = Verified(config, header)
  /\ roles' = outcome.roles
  /\ CASE outcome.code = "OK"    -> stage' = After("authenticate") /\ UNCHANGED answer
       [] outcome.code = "panic" -> Panics
       [] OTHER                  -> Answered(outcome.code)
  /\ UNCHANGED <<server, http, message, documents>>

AuthorizeCall ==
  /\ stage = "authorize"
  /\ IF Authorize(config, roles, message.method)
     THEN stage' = After("authorize") /\ UNCHANGED answer
     ELSE Answered("PermissionDenied")
  /\ UNCHANGED <<server, http, message, context, documents>>

----------------------------------------------------------------------------
\* The handlers.

\* What a call with the id of its message, and a content, answers and writes.
PolicyOutcome(content) ==
  CASE message.method = "CreatePolicy" -> CreatePolicy(index, PolicyId, content)
    [] message.method = "GetPolicy"    -> GetPolicy(index, message.id)
    [] message.method = "UpdatePolicy" -> UpdatePolicy(index, message.id, content)
    [] message.method = "DeletePolicy" -> DeletePolicy(index, message.id)
    [] message.method = "ListPolicies" -> ListPolicies(index)

Contents ==
  CASE message.method = "CreatePolicy" -> Content \ {"same"}
    [] message.method = "UpdatePolicy" -> Content
    [] OTHER                           -> {"unset"}

\* Asking to delete any document but a policy, or to update a version, is a misuse of
\* the id: the document is written as a policy.
Misuse(code) ==
  IF /\ code = "OK" /\ Len(message.id) > 1
     /\ message.method = "UpdatePolicy" => IsNumeral(message.id[2])
     /\ message.method \in {"UpdatePolicy", "DeletePolicy"}
  THEN {message.id} ELSE {}

HandlePolicy == \E content \in Contents :
  LET outcome == PolicyOutcome(content) IN
  /\ stage = "handle" /\ message.method \in PolicyMethods
  /\ message.method = "CreatePolicy" => PolicyId \notin DOMAIN index
  /\ outcome.writes # NoWrites => changes < MaxChanges
  /\ IF outcome.code = "panic" THEN Panics
     ELSE /\ stage' = "answered"
          /\ answer' = [NoAnswer EXCEPT !.code = outcome.code, !.read = outcome.read]
  /\ index' = Over(outcome.writes, index)
  /\ misused' = misused \cup Misuse(outcome.code)
  /\ changes' = IF outcome.writes = NoWrites THEN changes ELSE changes + 1
  /\ UNCHANGED <<server, http, message, context>>

HandleValidate == \E source \in Sources :
  LET verdict == Validate(source) IN
  /\ stage = "handle" /\ message.method = "ValidatePolicy"
  /\ message' = [message EXCEPT !.source = source]
  /\ stage' = "answered"
  /\ answer' = [code |-> verdict.code, read |-> <<>>,
                errors |-> verdict.errors, missing |-> verdict.missing]
  /\ UNCHANGED <<server, http, context, documents>>

\* Another handler, or one more CreatePolicy, which is about another policy.
HandleOther ==
  /\ stage = "handle"
  /\ \/ message.method \notin PolicyMethods \cup {"ValidatePolicy"}
     \/ (message.method = "CreatePolicy" /\ PolicyId \in DOMAIN index)
  /\ Answered("OK")
  /\ UNCHANGED <<server, http, message, context, documents>>

\* The answer reaches the client.  What is beyond the bound on changes is not answered.
Finish ==
  /\ stage = "answered" \/ (stage = "handle" /\ changes = MaxChanges)
  /\ stage' = "idle"
  /\ message' = NoMessage
  /\ verified' = FALSE
  /\ roles' = {}
  /\ answer' = NoAnswer
  /\ UNCHANGED <<server, http, documents>>

Next ==
  \/ Boot \/ Restart
  \/ Receive \/ ReceiveHttp \/ Forward \/ NoRoute
  \/ PassRecovery \/ AuthenticateCall \/ AuthorizeCall
  \/ HandlePolicy \/ HandleValidate \/ HandleOther
  \/ Finish

Spec == Init /\ [][Next]_vars

----------------------------------------------------------------------------
(***************************************************************************)
(* Properties.                                                             *)
(***************************************************************************)

\* Every variable has its type.
TypeOK ==
  /\ config \in Config
  /\ {secured, verified} \subseteq BOOLEAN
  /\ stage \in {"boot", "idle", "gateway", "recovery", "authenticate", "authorize",
                "handle", "answered", "crashed"}
  /\ http \in HttpRequests \cup {NoRequest}
  /\ message.method \in Method \cup {"none"}
  /\ message.id \in Ids \cup {<<>>}
  /\ message.source \in Sources \cup {NoSource}
  /\ roles \subseteq Role
  /\ answer.missing \subseteq {"no pass", "no violations", "no result"}
  /\ \A id \in DOMAIN index :
       /\ index[id].kind \in {"policy", "version", "counter"}
       /\ index[id].current \in 0..(2 ^ Width - 1)
  /\ misused \subseteq DOMAIN index
  /\ changes \in 0..MaxChanges

\* Where the flags asked for authentication, whichever of them, nobody changes a policy
\* who was not verified and has no role with a permission to write or delete policies,
\* over gRPC or HTTP.
OnlyVerifiedCallersWrite ==
  [][secured /\ index' # index =>
       /\ verified
       /\ \E r \in roles : {"policy.write", "policy.delete"} \cap RolePermissions[r] # {}]_vars

\* A caller who was not verified, or has none of the roles there are, reaches no handler
\* but the health check and those of the methods that HTTP serves under GET, and no
\* method asks more than an administrator has: the permissions of the methods, those of
\* the roles and the verbs are three tables.
RolesMatchMethods ==
  /\ stage = "handle" /\ secured /\ (~verified \/ roles = {"Anonymous"}) =>
       \/ message.method = "Check"
       \/ \E route \in Routes : route.verb = "GET" /\ route.method = message.method
  /\ stage = "answered" /\ answer.code = "PermissionDenied" => "Administrator" \notin roles

\* Whatever panics, in the handler or in the interceptors, the server goes on.
PanicsAnswered == stage # "crashed"

\* The path of a request over HTTP decides what it is about, whatever its body says: it
\* is never one for two methods, of which the gateway would take the one that was
\* registered last, and the policy is the one in the path.
PathDecides ==
  [][stage = "gateway" =>
       /\ Cardinality(Methods(http)) <= 1
       /\ message'.id # <<>> => message'.id = http.path[2]]_vars

\* A call that is not answered OK has changed nothing (when Elasticsearch does not fail):
\* the checks come before the writes, and no version number that an update takes is
\* that of a document, whatever ids the calls before it had.
RefusedChangesNothing ==
  [][stage = "handle" /\ stage' = "answered" /\ answer'.code # "OK" => index' = index]_vars

\* A Get of "policy.n" reads version n if there can be one, and a Get of the policy the
\* version that is current.
ReadsTheVersionNamed ==
  stage = "answered" /\ message.method = "GetPolicy" /\ answer.code = "OK" =>
    CASE Len(message.id) = 1 ->
           answer.read = PolicyVersionId(message.id[1], index[message.id].current)
      [] Len(message.id) = 2 /\ message.id[2].number \in Version ->
           answer.read = PolicyVersionId(message.id[1], message.id[2].number)
      [] OTHER -> answer.read \in DOMAIN index

\* The kind of document an id is for.
KindOf(id) ==
  CASE Len(id) = 1                       -> "policy"
    [] id[Len(id)] = Word("counter")     -> "counter"
    [] OTHER                             -> "version"

\* Every document is of the kind its id says, but for those a DeletePolicy named or an
\* UpdatePolicy named by a number: no other id makes a call write over a counter or a
\* version, or leaves a document nothing else would read.
KindsKept == \A id \in DOMAIN index \ misused : index[id].kind = KindOf(id)

\* The listing of policies is answered: the pointer of every policy it finds, joined to
\* its id, names a version.  Only a write that named another document as a policy can
\* make it fail, and then for everyone.
ListingsAnswered ==
  [][stage = "handle" /\ message.method = "ListPolicies" /\ stage' = "answered"
     /\ answer'.code # "OK" => misused # {}]_vars

\* A source is accepted exactly if it compiles, has a rule pass and a rule violations,
\* and every rule violations has the key result, to which no body assigns an object
\* without all four fields.  The answer to one that does not compile lists every error
\* (after as many empty ones).
ValidationExact ==
  stage = "answered" /\ message.method = "ValidatePolicy" /\ message.source # NoSource =>
    LET source == message.source
        rules  == {source.rules[i] : i \in DOMAIN source.rules}
    IN /\ (answer.code = "OK") =
            /\ source.text = "parsable" /\ source.errors = <<>>
            /\ {"pass", "violations"} \subseteq {r.name : r \in rules}
            /\ \A r \in rules : r.name = "violations" =>
                 /\ r.key = "result"
                 /\ \A i \in DOMAIN r.body :
                      LET e == r.body[i] IN
                      /\ e.operator \in {"assign", "eq"}
                      /\ e.terms[1] = Variable("result")
                      /\ e.terms[2].kind = "object"
                      => Fields \subseteq e.terms[2].keys
       /\ source.text = "parsable" =>
            {source.errors[i] : i \in DOMAIN source.errors}
              \subseteq {answer.errors[i] : i \in DOMAIN answer.errors}
=============================================================================
