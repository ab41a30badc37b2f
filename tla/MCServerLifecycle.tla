------------------------- MODULE MCServerLifecycle -------------------------
(* Two replicas that start at once, one call over gRPC and one over HTTP. *)
EXTENDS ServerLifecycle
=============================================================================
