-------------------------------- MODULE Auth --------------------------------
(***************************************************************************)
(* Who may call what: the flags a server is started with                   *)
(* (config/config.go), the interceptor that finds out who calls            *)
(* (auth/auth.go), the one that decides whether the method is open to them *)
(* (auth/authz.go), and the two tables it uses: the permissions of the     *)
(* roles (auth/role_registry.go) and those a method needs                  *)
(* (proto/v1alpha1/rode.proto).  The prefix "rode." of a permission is     *)
(* left out.                                                               *)
(*                                                                         *)
(* What a credential is made of is abstracted to how it is checked: does   *)
(* it have the scheme, does it hold, and which entries has the roles claim.*)
(***************************************************************************)
EXTENDS Naturals, FiniteSets

----------------------------------------------------------------------------
\* Flags.

\* An issuer whose discovery document cannot be had stops the start.
Flags ==
  [basicUser : BOOLEAN, basicPassword : BOOLEAN,
   issuer : {"unset", "reachable", "unreachable"}, audience : BOOLEAN,
   elasticUser : BOOLEAN, elasticPassword : BOOLEAN,
   refresh : {"true", "false", "wait_for", "invalid"}]

Config == [basic : BOOLEAN, oidc : BOOLEAN, enabled : BOOLEAN]

\* Mutant: a half of the pair of basic auth is accepted.
AcceptsHalfPairs(f) ==
  /\ f.refresh # "invalid"
  /\ f.elasticUser = f.elasticPassword
  /\ f.issuer # "unreachable"
  /\ f.audience => f.issuer # "unset"

\* Does Build return a configuration?
Accepted(f) ==
  /\ f.refresh # "invalid"
  /\ f.basicUser = f.basicPassword
  /\ f.elasticUser = f.elasticPassword
  /\ f.issuer # "unreachable"
  /\ f.audience => f.issuer # "unset"

Build(f) ==
  LET basic == f.basicUser /\ f.basicPassword
      oidc  == f.issuer # "unset"
  IN [basic |-> basic, oidc |-> oidc, enabled |-> basic \/ oidc]

\* The operator wanted callers to be authenticated.
Secured(f) ==
  f.basicUser \/ f.basicPassword \/ f.issuer # "unset" \/ f.audience

----------------------------------------------------------------------------
\* Tables.

AnonymousRole ==
  {"evaluationResult.read", "occurrence.read", "policyAssignment.read",
   "policyGroup.read", "policy.read", "resource.read"}

PolicyAdministratorRole ==
  AnonymousRole \cup
  {"policyAssignment.delete", "policyAssignment.write", "policy.delete",
   "policy.evaluate", "policyGroup.delete", "policyGroup.write", "policy.validate",
   "policy.write", "resource.evaluate"}

AdministratorRole ==
  PolicyAdministratorRole \cup {"collector.register", "note.write", "occurrence.write"}

\* NewRoleRegistry
RolePermissions ==
  [Anonymous            |-> AnonymousRole,
   Enforcer             |-> {"evaluationResult.read", "policyGroup.read", "policy.read",
                             "resource.evaluate", "resource.read"},
   Collector            |-> {"collector.register", "note.write", "occurrence.read",
                             "occurrence.write"},
   ApplicationDeveloper |-> {"occurrence.read", "policyAssignment.read",
                             "policy.evaluate", "policyGroup.read", "policy.read",
                             "policy.validate", "resource.read"},
   PolicyDeveloper      |-> AnonymousRole \cup {"policy.evaluate", "policy.validate",
                                                "policy.write", "resource.evaluate"},
   PolicyAdministrator  |-> PolicyAdministratorRole,
   Administrator        |-> AdministratorRole]

Role == DOMAIN RolePermissions

\* The permission each method of the service names, one each.
MethodPermission ==
  [BatchCreateOccurrences          |-> "occurrence.write",
   EvaluatePolicy                  |-> "policy.evaluate",
   ListResources                   |-> "resource.read",
   ListResourceVersions            |-> "resource.read",
   ListVersionedResourceOccurrences |-> "occurrence.read",
   ListOccurrences                 |-> "occurrence.read",
   UpdateOccurrence                |-> "occurrence.write",
   CreatePolicy                    |-> "policy.write",
   GetPolicy                       |-> "policy.read",
   DeletePolicy                    |-> "policy.delete",
   ListPolicies                    |-> "policy.read",
   ListPolicyVersions              |-> "policy.read",
   ValidatePolicy                  |-> "policy.validate",
   UpdatePolicy                    |-> "policy.write",
   RegisterCollector               |-> "collector.register",
   CreateNote                      |-> "note.write",
   CreatePolicyGroup               |-> "policyGroup.write",
   ListPolicyGroups                |-> "policyGroup.read",
   GetPolicyGroup                  |-> "policyGroup.read",
   UpdatePolicyGroup               |-> "policyGroup.write",
   DeletePolicyGroup               |-> "policyGroup.delete",
   CreatePolicyAssignment          |-> "policyAssignment.write",
   GetPolicyAssignment             |-> "policyAssignment.read",
   UpdatePolicyAssignment          |-> "policyAssignment.write",
   DeletePolicyAssignment          |-> "policyAssignment.delete",
   ListPolicyAssignments           |-> "policyAssignment.read",
   EvaluateResource                |-> "resource.evaluate",
   GetResourceEvaluation           |-> "resource.read",
   ListResourceEvaluations         |-> "resource.read"]

RodeMethod == DOMAIN MethodPermission

\* The health check is served too, and names no permission.
Method == RodeMethod \cup {"Check"}

\* LoadServicePermissions: only what has an annotation gets an entry.
LoadServicePermissions ==
  [m \in RodeMethod |-> {MethodPermission[m]}]

----------------------------------------------------------------------------
\* Credentials.

\* The claim is missing or no list.  Its entries are roles, "unknown" for a name the
\* registry does not have, and "notString" for what is no string.
NoClaim == {"noClaim"}

\* holds: the user and password are those of the server; the token passes the verifier.
\* claims are the contents a roles claim can have.
Header(claims) ==
  [scheme : {"none", "other"}, holds : {FALSE}, claim : {NoClaim}]
  \cup [scheme : {"basic"}, holds : BOOLEAN, claim : {NoClaim}]
  \cup [scheme : {"bearer"}, holds : {FALSE}, claim : {NoClaim}]
  \cup [scheme : {"bearer"}, holds : {TRUE}, claim : claims \cup {NoClaim}]

Verified(config, header) ==
  IF config.basic THEN header.scheme = "basic" /\ header.holds
  ELSE config.oidc /\ header.scheme = "bearer" /\ header.holds

\* The outcome of Authenticate: an error, or the roles of the context.
Refused(code) == [code |-> code, roles |-> {}]
Authenticated(roles) == [code |-> "OK", roles |-> roles]

Basic(header) ==
  IF header.scheme = "basic" /\ header.holds THEN Authenticated({"Administrator"})
  ELSE Refused("Unauthenticated")

\* Mutant: names the registry does not have are kept.
KeepsUnknown(header) ==
  IF header.scheme # "bearer" \/ ~header.holds \/ header.claim = NoClaim
  THEN Refused("Unauthenticated")
  ELSE IF "notString" \in header.claim THEN Refused("panic")
  ELSE Authenticated(IF header.claim = {} THEN {"Anonymous"} ELSE header.claim)

\* Unknown names are dropped; an entry that is no string is a panic; who is left with
\* no role is anonymous.
Oidc(header) ==
  IF header.scheme # "bearer" \/ ~header.holds \/ header.claim = NoClaim
  THEN Refused("Unauthenticated")
  ELSE IF "notString" \in header.claim THEN Refused("panic")
  ELSE Authenticated(IF header.claim \cap Role = {} THEN {"Anonymous"}
                     ELSE header.claim \cap Role)

\* With basic auth configured OIDC is not tried.  With neither a header is ignored, and
\* the context has no roles.
Authenticate(config, header) ==
  IF header.scheme = "none" THEN Authenticated({"Anonymous"})
  ELSE IF config.basic THEN Basic(header)
  ELSE IF config.oidc THEN Oidc(header)
  ELSE Authenticated({})

\* Mutant: one permission of the roles is enough, whatever the method needs.
AnyPermission(config, roles, method) ==
  config.enabled /\ method \in DOMAIN LoadServicePermissions => roles # {}

\* The caller has every permission the method names, or it names none.
Authorize(config, roles, method) ==
  config.enabled /\ method \in DOMAIN LoadServicePermissions =>
    LoadServicePermissions[method] \subseteq UNION {RolePermissions[r] : r \in roles}
=============================================================================
