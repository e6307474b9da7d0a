---------------------------- MODULE MCMemoryStore ----------------------------
(* Instances of MemoryStore for TLC: which calls each process makes. *)
EXTENDS MemoryStore, TLC

CONSTANTS p1, p2

(* Two writers of the default backend that always supply text and vector. *)
ConcurrentWrites == [p \in Procs |-> {"store", "update", "delete", "bulkDelete"}]

(* Two writers with every write of the store, metadata rewrites included. *)
AllWrites == [p \in Procs |-> {"store", "update", "metadata", "delete", "supersede"}]

(* One process that makes every kind of call, one after the other. *)
EveryCall == [p \in Procs |-> OpKinds]

(* A writer whose failed or interrupted writes meet a metadata-only update. *)
MetadataWrites == [p \in Procs |-> {"store", "update", "metadata"}]

(* An operator's repair beside a writer. *)
RepairBesideWriter ==
    [p \in Procs |-> IF p = p1 THEN {"rebuild"} ELSE {"store", "update"}]

TextSymmetry == Permutations(Texts)
=============================================================================
