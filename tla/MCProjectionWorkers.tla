------------------------ MODULE MCProjectionWorkers ------------------------
(* Instances of ProjectionWorkers for TLC. *)
EXTENDS ProjectionWorkers, TLC

CONSTANTS w1, w2, vector, fts

OneProjection == <<vector>>
TwoProjections == <<fts, vector>>

(* Every worker can project everything. *)
FullAdapters == [w \in Workers |-> ProjectionSet]

(* No worker has an adapter for full-text search. *)
VectorOnly == [w \in Workers |-> {vector}]

WorkerSymmetry == Permutations(Workers)
=============================================================================
