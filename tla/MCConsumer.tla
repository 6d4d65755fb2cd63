----------------------------- MODULE MCConsumer -----------------------------
(* Two workers; messages by HTTP and by gRPC, an unreadable one among them, *)
(* and a gRPC request without a pipeline.  Liveness is checked too, so the   *)
(* symmetry of the workers is not used.                                     *)
EXTENDS Consumer

CONSTANTS w1, w2
=============================================================================
