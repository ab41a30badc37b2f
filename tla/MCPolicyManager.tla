-------------------------- MODULE MCPolicyManager --------------------------
(* Small instances of PolicyManager for TLC. *)
EXTENDS PolicyManager, TLC

CONSTANTS r1, r2, empty

\* Two contents that compile, and the empty one, which does not.
MCRego == {r1, r2, empty}
MCValidRego == {r1, r2}

PlainIds == {0}
VersionedIds == {0, 1}

\* Handlers, policies and names are only ever compared.
Symmetry == Permutations(Handler) \cup Permutations(Policy) \cup Permutations(Name)
=============================================================================
