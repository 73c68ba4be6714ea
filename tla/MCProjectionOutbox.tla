------------------------- MODULE MCProjectionOutbox -------------------------
(* The loops of the outbox worker are interchangeable. *)
EXTENDS ProjectionOutbox, TLC

WorkerSymmetry == Permutations(Workers)
=============================================================================
