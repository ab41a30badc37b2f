------------------------ MODULE MCPolicyAssignments ------------------------
(* Small instances of PolicyAssignments for TLC. *)
EXTENDS PolicyAssignments, TLC

\* Handlers and policies are only ever compared.
Symmetry == Permutations(Handler) \cup Permutations(Policy)

=============================================================================
