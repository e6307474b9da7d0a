------------------------- MODULE MCMemoryLifecycle -------------------------
(* Instances of MemoryLifecycle for TLC. *)
EXTENDS MemoryLifecycle, TLC

CONSTANTS v1, v2x, noise, secret

(* v1 and v2x are two versions of one temporal fact. *)
VersionKeys == [t \in Texts |-> IF t \in {v1, v2x} THEN v1 ELSE NoKey]

CallSymmetry == Permutations(Calls)
=============================================================================
