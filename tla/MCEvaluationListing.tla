------------------------ MODULE MCEvaluationListing ------------------------
(* A small instance of EvaluationListing for TLC. *)
EXTENDS MCEvaluation, EvaluationListing
=============================================================================
