----------------------------- MODULE MCTruthV2 -----------------------------
(* Instances of TruthV2 for TLC. *)
EXTENDS TruthV2, TLC

CONSTANTS vector

OneProjection == <<vector>>

WriterSymmetry == Permutations(Writers)
=============================================================================
