-------------------------- MODULE MCPolicyListing --------------------------
(* Small instances of PolicyListing for TLC. *)
EXTENDS PolicyListing, TLC

CONSTANTS r1, r2, empty

\* Two contents that compile, and the empty one, which does not.
MCRego == {r1, r2, empty}
MCValidRego == {r1, r2}

PlainIds == {0}

\* Policies, names and valid contents are only ever compared.
Symmetry == Permutations(Handler) \cup Permutations(Policy) \cup Permutations(Name) \cup Permutations(MCValidRego)
=============================================================================
