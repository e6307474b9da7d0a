----------------------- MODULE ProjectionContract_proofs -----------------------
(* What follows from the promise of the projection workers, for any number of *)
(* places, mutations and revisions.                                           *)
EXTENDS ProjectionContract, TLAPS

Mutation == [place : Targets, finished : BOOLEAN]

(* The inductive invariant: order is what makes the last mutation decide. *)
ContractInv == ContractTypeOK /\ InOrder /\ Settled

LEMMA ContractInvInit == ContractInit => ContractInv
BY DEF ContractInit, ContractInv, ContractTypeOK, InOrder, Settled

LEMMA EnqueueInv ==
  ASSUME ContractInv, Enqueue
  PROVE  ContractInv'
<1>1. queue \in Seq(Mutation) /\ queue' \in Seq(Mutation) /\ UNCHANGED projected
  BY DEF ContractInv, ContractTypeOK, Enqueue, Mutation
<1>2. /\ Len(queue) \in Nat /\ Len(queue') \in Nat /\ Len(queue) < Len(queue')
      /\ DOMAIN queue = 1..Len(queue) /\ DOMAIN queue' = 1..Len(queue')
  BY <1>1 DEF Enqueue
<1>3. \A k \in 1..Len(queue) : queue'[k] = queue[k]
  BY <1>1, <1>2 DEF Enqueue
<1>4. \A k \in DOMAIN queue' : queue'[k].finished => k \in DOMAIN queue
  BY <1>2 DEF Enqueue
<1>5. ContractTypeOK'
  BY <1>1 DEF ContractInv, ContractTypeOK, Enqueue, Mutation
<1>6. InOrder'
  BY <1>2, <1>3, <1>4 DEF ContractInv, InOrder
<1>7. Settled'
  <2> SUFFICES ASSUME NEW a \in Targets,
                      \A k \in DOMAIN queue' : queue'[k].place = a => queue'[k].finished
               PROVE  projected'[a].rev = wanted'[a]
    BY DEF Settled
  <2>1. wanted'[a] = wanted[a]
    <3> SUFFICES ASSUME wanted'[a] # wanted[a] PROVE FALSE
      OBVIOUS
    <3>1. PICK k \in (Len(queue) + 1)..Len(queue') : queue'[k].place = a
      BY DEF Enqueue
    <3>2. ~queue'[k].finished
      BY DEF Enqueue
    <3> QED
      BY <3>1, <3>2, <1>2
  <2>2. \A k \in DOMAIN queue : queue[k].place = a => queue[k].finished
    BY <1>2, <1>3
  <2> QED
    BY <2>1, <2>2, <1>1 DEF ContractInv, Settled
<1> QED
  BY <1>5, <1>6, <1>7 DEF ContractInv

LEMMA ProjectDueInv ==
  ASSUME ContractInv, NEW k \in DOMAIN queue, ProjectDue(k)
  PROVE  ContractInv'
<1> DEFINE a == queue[k].place
<1>1. queue \in Seq(Mutation) /\ projected \in [Targets -> [row : Nat, rev : Nat]]
  BY DEF ContractInv, ContractTypeOK, Mutation
<1>2. queue[k] \in Mutation /\ k \in Nat
  BY <1>1
<1>3. a \in Targets /\ ~queue[k].finished
  BY <1>2 DEF ProjectDue, Due, Mutation
<1>4. /\ projected' = [projected EXCEPT ![a] = [row |-> k, rev |-> projected'[a].rev]]
      /\ projected'[a].rev \in Nat /\ UNCHANGED <<queue, wanted>>
  BY DEF ProjectDue
<1> DEFINE r == projected'[a].rev
<1>5. projected' \in [Targets -> [row : Nat, rev : Nat]]
  <2>1. r \in Nat /\ projected' = [projected EXCEPT ![a] = [row |-> k, rev |-> r]]
    BY <1>4
  <2> HIDE DEF r
  <2> QED
    BY <2>1, <1>1, <1>2
<1>6. \A b \in Targets : b # a => projected'[b] = projected[b]
  BY <1>1, <1>4
<1>7. ContractTypeOK' /\ InOrder'
  BY <1>4, <1>5 DEF ContractInv, ContractTypeOK, InOrder
<1>8. Settled'
  BY <1>3, <1>4, <1>6 DEF ContractInv, Settled
<1> QED
  BY <1>7, <1>8 DEF ContractInv

LEMMA FinishInv ==
  ASSUME ContractInv, NEW k \in DOMAIN queue, Finish(k)
  PROVE  ContractInv'
<1> DEFINE a == queue[k].place
<1>1. queue \in Seq(Mutation) /\ UNCHANGED <<wanted, projected>> /\ Due(k)
  BY DEF ContractInv, ContractTypeOK, Finish, Mutation
<1>2. /\ queue' = [queue EXCEPT ![k].finished = TRUE]
      /\ Len(queue) \in Nat /\ DOMAIN queue = 1..Len(queue) /\ DOMAIN queue' = DOMAIN queue
  BY <1>1 DEF Finish
<1> DEFINE done == [queue[k] EXCEPT !.finished = TRUE]
<1>a. queue[k] \in Mutation
  BY <1>1
<1>b. done \in Mutation /\ done.place = queue[k].place /\ done.finished
  BY <1>a DEF Mutation
<1>c. queue' = [queue EXCEPT ![k] = done]
  BY <1>2
<1>d. \A j \in DOMAIN queue : queue'[j] = IF j = k THEN done ELSE queue[j]
  BY <1>c, <1>1, <1>2
<1>3. \A j \in DOMAIN queue :
         /\ queue[j] \in Mutation
         /\ queue'[j].place = queue[j].place
         /\ j = k => queue'[j].finished
         /\ j # k => queue'[j].finished = queue[j].finished
  <2> HIDE DEF done
  <2> QED
    BY <1>1, <1>b, <1>d
<1>4. ContractTypeOK'
  <2>1. queue' \in Seq(Mutation)
    <3> HIDE DEF done
    <3> QED
      BY <1>1, <1>b, <1>c
  <2> QED
    BY <2>1, <1>1 DEF ContractInv, ContractTypeOK, Mutation
<1>5. InOrder'
  <2> SUFFICES ASSUME NEW j \in DOMAIN queue, NEW l \in DOMAIN queue, j < l,
                      queue[j].place = queue[l].place, queue'[l].finished
               PROVE  queue'[j].finished
    BY <1>2, <1>3 DEF InOrder
  <2>1. CASE l = k
    BY <2>1, <1>1, <1>2, <1>3 DEF Due
  <2>2. CASE l # k
    BY <2>2, <1>3 DEF ContractInv, InOrder
  <2> QED
    BY <2>1, <2>2
<1>6. Settled'
  <2> SUFFICES ASSUME NEW b \in Targets,
                      \A j \in DOMAIN queue : queue[j].place = b => queue'[j].finished
               PROVE  projected[b].rev = wanted[b]
    BY <1>1, <1>2, <1>3 DEF Settled
  <2>1. CASE b # a
    BY <2>1, <1>3 DEF ContractInv, Settled
  <2>2. CASE b = a
    <3>1. ~Superseded(k)
      <4> SUFFICES ASSUME NEW j \in (k + 1)..Len(queue), queue[j].place = queue[k].place
                   PROVE  FALSE
        BY DEF Superseded
      <4>1. j \in DOMAIN queue /\ k < j /\ j # k
        BY <1>2
      <4>2. queue[j].finished
        BY <4>1, <2>2, <1>3
      <4>3. queue[k].finished
        BY <4>1, <4>2 DEF ContractInv, InOrder
      <4> QED
        BY <4>3, <1>1 DEF Due
    <3> QED
      BY <3>1, <2>2 DEF Finish
  <2> QED
    BY <2>1, <2>2
<1> QED
  BY <1>4, <1>5, <1>6 DEF ContractInv

(* Whatever truth does in between, when every mutation of a place is finished *)
(* the place shows what truth wants there (the promise behind the processed   *)
(* rows of projection-worker.ts and the receipts of projection-convergence.ts). *)
THEOREM ContractSettles == ContractSpec => []Settled
<1>1. ContractInv /\ [ContractNext]_contractVars => ContractInv'
  <2> SUFFICES ASSUME ContractInv, [ContractNext]_contractVars PROVE ContractInv'
    OBVIOUS
  <2>1. CASE UNCHANGED contractVars
    BY <2>1 DEF contractVars, ContractInv, ContractTypeOK, InOrder, Settled
  <2>2. CASE Enqueue
    BY <2>2, EnqueueInv
  <2>3. ASSUME NEW k \in DOMAIN queue, ProjectDue(k) \/ Finish(k) PROVE ContractInv'
    BY <2>3, ProjectDueInv, FinishInv
  <2> QED
    BY <2>1, <2>2, <2>3 DEF ContractNext
<1>2. ContractInv => Settled
  BY DEF ContractInv
<1> QED
  BY <1>1, <1>2, ContractInvInit, PTL DEF ContractSpec
=============================================================================
