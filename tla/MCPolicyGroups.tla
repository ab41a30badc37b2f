--------------------------- MODULE MCPolicyGroups ---------------------------
(* Small instances of PolicyGroups for TLC. *)
EXTENDS PolicyGroups, TLC

CONSTANTS dev, BadName

\* One name the pattern accepts, one it refuses.
MCGroup == {dev, BadName}
MCValidName == {dev}

Symmetry == Permutations(Handler) \cup Permutations(Description)
=============================================================================
