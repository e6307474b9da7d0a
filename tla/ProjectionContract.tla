-------------------------- MODULE ProjectionContract --------------------------
(***************************************************************************)
(* What the projection workers promise, without workers, claims, leases,   *)
(* fences, reads or faults: the mutations of a place (an item and one of   *)
(* its projections) reach it one at a time and in order, a mutation is     *)
(* finished once the place shows what truth holds or a newer one of the    *)
(* place is queued, and what is finished is never projected again.         *)
(*                                                                         *)
(* The outbox is the one of src/src/v2/storage/sqlite-truth-v2.ts, whose   *)
(* rows the workers of src/src/v2/workers/projection-worker.ts process.    *)
(***************************************************************************)
EXTENDS Naturals, Sequences

CONSTANT Targets      \* the places mutations are projected to

VARIABLES
    queue,        \* mutations in order: the place each is for, and is it finished
    wanted,       \* the revision truth has for each place, 0 when it is to show none
    projected     \* the mutation last projected to each place, and what it shows since

contractVars == <<queue, wanted, projected>>

ContractInit ==
    /\ queue = <<>>
    /\ wanted = [a \in Targets |-> 0]
    /\ projected = [a \in Targets |-> [row |-> 0, rev |-> 0]]

(* A transaction of truth appends mutations and touches none there is; a   *)
(* place whose revision changes gets one.                                  *)
Enqueue ==
    /\ Len(queue') > Len(queue)
    /\ SubSeq(queue', 1, Len(queue)) = queue
    /\ queue' \in Seq([place : Targets, finished : BOOLEAN])
    /\ \A k \in (Len(queue) + 1)..Len(queue') : ~queue'[k].finished
    /\ wanted' \in [Targets -> Nat]
    /\ \A a \in Targets : wanted'[a] # wanted[a] =>
          \E k \in (Len(queue) + 1)..Len(queue') : queue'[k].place = a
    /\ UNCHANGED projected

(* The oldest unfinished mutation of its place. *)
Due(k) ==
    /\ ~queue[k].finished
    /\ \A j \in 1..(k - 1) : queue[j].place = queue[k].place => queue[j].finished

Superseded(k) == \E j \in (k + 1)..Len(queue) : queue[j].place = queue[k].place

(* A mutation that is superseded may be projected all the same, with what  *)
(* truth held a moment ago.                                                *)
ProjectDue(k) ==
    LET a == queue[k].place IN
    /\ Due(k)
    /\ projected'[a].rev \in Nat
    /\ projected'[a].rev = wanted[a] \/ Superseded(k)
    /\ projected' = [projected EXCEPT ![a] = [row |-> k, rev |-> projected'[a].rev]]
    /\ UNCHANGED <<queue, wanted>>

Finish(k) ==
    /\ Due(k)
    /\ projected[queue[k].place].rev = wanted[queue[k].place] \/ Superseded(k)
    /\ queue' = [queue EXCEPT ![k].finished = TRUE]
    /\ UNCHANGED <<wanted, projected>>

ContractNext == Enqueue \/ \E k \in DOMAIN queue : ProjectDue(k) \/ Finish(k)

ContractSpec == ContractInit /\ [][ContractNext]_contractVars

-----------------------------------------------------------------------------
ContractTypeOK ==
    /\ queue \in Seq([place : Targets, finished : BOOLEAN])
    /\ wanted \in [Targets -> Nat]
    /\ projected \in [Targets -> [row : Nat, rev : Nat]]

(* A mutation is finished after every older one of its place. *)
InOrder ==
    \A j, k \in DOMAIN queue :
        j < k /\ queue[j].place = queue[k].place /\ queue[k].finished => queue[j].finished

(* When every mutation of a place is finished it shows what truth wants       *)
(* there, which is what a receipt of projection-convergence.ts takes a        *)
(* mutation's processed rows for.                                             *)
Settled ==
    \A a \in Targets :
        (\A k \in DOMAIN queue : queue[k].place = a => queue[k].finished) =>
            projected[a].rev = wanted[a]
=============================================================================
