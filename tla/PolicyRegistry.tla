--------------------------- MODULE PolicyRegistry ---------------------------
(***************************************************************************)
(* What the policy RPCs promise a client that shares a policy with nobody: *)
(* each RPC happens at once or not at all.  A policy is a name, a pointer  *)
(* to one of its versions, and a deleted flag that is set for good;        *)
(* versions are numbered upwards, never reused and never rewritten.        *)
(*                                                                         *)
(* The promises are those of the comments in                               *)
(* proto/v1alpha1/rode_policy.proto and of test/v1alpha1/policies_test.go. *)
(***************************************************************************)
EXTENDS Naturals

CONSTANTS Policy, Name, Rego, ValidRego, Missing, MaxVersion

VARIABLES
  policies,  \* policies[p]: name, current version and deleted flag, or Missing
  versions   \* versions[p][v]: the content of version v, or Missing

vars == <<policies, versions>>

Version == 1..MaxVersion

Init ==
  /\ policies = [p \in Policy |-> Missing]
  /\ versions = [p \in Policy |-> [v \in Version |-> Missing]]

Create(p) == \E name \in Name, rego \in ValidRego, deleted \in BOOLEAN :
  /\ policies[p] = Missing
  /\ policies' = [policies EXCEPT ![p] =
                    [name |-> name, currentVersion |-> 1, deleted |-> deleted]]
  /\ versions' = [versions EXCEPT ![p][1] = rego]

Live(p) == policies[p] # Missing /\ ~policies[p].deleted

Rename(p) == \E name \in Name :
  /\ Live(p)
  /\ policies' = [policies EXCEPT ![p].name = name]
  /\ UNCHANGED versions

\* Numbers may be skipped, never used again.
Revise(p) == \E name \in Name, rego \in ValidRego, v \in Version :
  /\ Live(p)
  /\ \A used \in Version : versions[p][used] # Missing => used < v
  /\ rego # versions[p][policies[p].currentVersion]
  /\ policies' = [policies EXCEPT ![p].name = name, ![p].currentVersion = v]
  /\ versions' = [versions EXCEPT ![p][v] = rego]

Delete(p) ==
  /\ policies[p] # Missing
  /\ policies' = [policies EXCEPT ![p].deleted = TRUE]
  /\ UNCHANGED versions

Next == \E p \in Policy : Create(p) \/ Rename(p) \/ Revise(p) \/ Delete(p)

Spec == Init /\ [][Next]_vars
=============================================================================
