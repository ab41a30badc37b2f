---------------------------- MODULE MCEvaluation ----------------------------
(* Small instances of Evaluation for TLC. *)
EXTENDS Evaluation, TLC

CONSTANTS good, bad, other, package1, package2

\* One source in a package of its own, and two in another.
MCRego == {good, bad, other}
MCPackageOf == (good :> package1) @@ (bad :> package2) @@ (other :> package2)

\* Every version of a policy declares the package of the policy.
MCOnePackage == [rego \in MCRego |-> package1]

Symmetry == Permutations(Handler) \cup Permutations(Policy)
=============================================================================
