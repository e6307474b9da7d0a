----------------------- MODULE ProjectionWorkers_proofs -----------------------
(***************************************************************************)
(* The projection workers, for any number of items, projections, workers,  *)
(* mutations and faults.  Rows are processed in order whatever happens;    *)
(* and as long as no process is suspended until its fence goes stale, what *)
(* is processed is projected, and the workers implement                    *)
(* ProjectionContract.                                                     *)
(***************************************************************************)
EXTENDS ProjectionWorkers, TruthV2_proofs, WellFoundedInduction

-----------------------------------------------------------------------------
(* Numbers *)

LEMMA MinIsIn ==
  ASSUME NEW S, S \subseteq Nat, S # {}
  PROVE  Min(S) \in S
<1>1. PICK x \in S : \A y \in S : ~(<<y, x>> \in OpToRel(<, Nat))
  BY WFMin, NatLessThanWellFounded
<1>2. \A y \in S : x <= y
  <2> SUFFICES ASSUME NEW y \in S, y < x PROVE FALSE
    OBVIOUS
  <2>1. <<y, x>> \in Nat \X Nat
    OBVIOUS
  <2>2. <<y, x>> \in OpToRel(<, Nat)
    BY <2>1 DEF OpToRel
  <2> QED  BY <1>1, <2>2
<1> QED  BY <1>2 DEF Min

LEMMA ProductGrows ==
  ASSUME NEW a \in Nat, NEW b \in Nat, NEW c \in Nat, a <= b
  PROVE  a * c <= b * c /\ (a + 1) * c = a * c + c /\ a * c \in Nat
OBVIOUS

-----------------------------------------------------------------------------
(* What a step of truth does to the outbox *)

(* Every mutation of i queues a row for each of its projections behind the     *)
(* rows there are, of which those of i may lose their revision.                *)
Queues(i, op) ==
    LET n == Len(outbox) IN
    /\ commits < MaxCommits /\ commits' = commits + 1
    /\ Len(outbox') = n + Len(Projections)
    /\ \A k \in 1..n :
          /\ outbox'[k].item = outbox[k].item /\ outbox'[k].proj = outbox[k].proj
          /\ outbox'[k].op = outbox[k].op /\ outbox'[k].done = outbox[k].done
          /\ outbox[k].item # i => outbox'[k] = outbox[k]
    /\ \A k \in (n + 1)..(n + Len(Projections)) :
          /\ outbox'[k].item = i /\ outbox'[k].proj = Projections[k - n]
          /\ outbox'[k].op = op /\ ~outbox'[k].done
    /\ \A j \in Items : j # i => item'[j] = item[j]
    /\ op \in {"upsert", "delete", "purge"}
    /\ op = "upsert" /\ item'[i].life = "archived" => i \notin known

LEMMA Appended ==
  \A s, t \in Seq(Row) :
     /\ Len(s) \in Nat /\ Len(t) \in Nat /\ Len(s \o t) = Len(s) + Len(t)
     /\ \A k \in 1..Len(s) : (s \o t)[k] = s[k]
     /\ \A k \in (Len(s) + 1)..(Len(s) + Len(t)) : (s \o t)[k] = t[k - Len(s)]
BY Concatenation

LEMMA ReviseQueues ==
  ASSUME TruthTypeOK, NEW i \in Items, NEW rec \in Record, NEW op \in {"upsert", "delete"},
         Revise(i, rec, op), op = "upsert" /\ rec.life = "archived" => i \notin known
  PROVE  Queues(i, op)
<1> DEFINE q == Queued(i, op, rec.rev)
<1>1. outbox \in Seq(Row) /\ q \in Seq(Row) /\ Len(q) = Len(Projections)
  BY QueuedFact DEF TruthTypeOK, Record
<1>2. \A k \in 1..Len(Projections) : /\ q[k].item = i /\ q[k].proj = Projections[k]
                                     /\ q[k].op = op /\ q[k].done = FALSE
  BY ProjectionsFact DEF Queued
<1>3. outbox' = outbox \o q /\ item' = [item EXCEPT ![i] = rec]
      /\ commits < MaxCommits /\ commits' = commits + 1
  BY DEF Revise
<1> HIDE DEF q
<1>4. /\ Len(outbox') = Len(outbox) + Len(Projections) /\ Len(outbox) \in Nat
      /\ \A k \in 1..Len(outbox) : outbox'[k] = outbox[k]
      /\ \A k \in (Len(outbox) + 1)..(Len(outbox) + Len(Projections)) :
            outbox'[k] = q[k - Len(outbox)]
  BY ZenonT(60), <1>1, <1>3, Appended
<1>5. \A k \in (Len(outbox) + 1)..(Len(outbox) + Len(Projections)) :
         k - Len(outbox) \in 1..Len(Projections)
  BY <1>4, ProjectionsFact
<1>6. item'[i] = rec /\ \A j \in Items : j # i => item'[j] = item[j]
  BY <1>3 DEF TruthTypeOK
<1> QED  BY <1>2, <1>3, <1>4, <1>5, <1>6 DEF Queues

LEMMA PurgeQueues ==
  ASSUME TruthTypeOK, NEW u \in Writers, Purge(u)
  PROVE  Queues(reading[u].item, "purge")
<1> DEFINE i == reading[u].item
           d == Detached(i)
           q == Queued(i, "purge", 0)
<1>1. i \in Items /\ outbox \in Seq(Row)
  BY DEF TruthTypeOK, Read
<1>2. q \in Seq(Row) /\ Len(q) = Len(Projections)
  BY <1>1, QueuedFact
<1>3. \A k \in 1..Len(Projections) : /\ q[k].item = i /\ q[k].proj = Projections[k]
                                     /\ q[k].op = "purge" /\ q[k].done = FALSE
  BY ProjectionsFact DEF Queued
<1>4. /\ d \in Seq(Row) /\ Len(d) = Len(outbox)
      /\ \A k \in 1..Len(outbox) : /\ d[k].item = outbox[k].item /\ d[k].proj = outbox[k].proj
                                   /\ d[k].op = outbox[k].op
                                   /\ outbox[k].item # i => d[k] = outbox[k]
  BY <1>1, DetachedFact
<1>5. \A k \in 1..Len(outbox) : d[k].done = outbox[k].done
  <2>1. DOMAIN outbox = 1..Len(outbox) /\ \A k \in 1..Len(outbox) : outbox[k] \in Row
    BY <1>1
  <2> QED  BY <2>1 DEF Detached, Row
<1>6. outbox' = d \o q /\ item' = [item EXCEPT ![i] = Absent]
      /\ commits < MaxCommits /\ commits' = commits + 1
  BY DEF Purge
<1> HIDE DEF q, d
<1>7. /\ Len(outbox') = Len(outbox) + Len(Projections) /\ Len(outbox) \in Nat
      /\ \A k \in 1..Len(outbox) : outbox'[k] = d[k]
      /\ \A k \in (Len(outbox) + 1)..(Len(outbox) + Len(Projections)) :
            outbox'[k] = q[k - Len(outbox)]
  BY <1>1, <1>2, <1>4, <1>6, Appended
<1>8. \A k \in (Len(outbox) + 1)..(Len(outbox) + Len(Projections)) :
         k - Len(outbox) \in 1..Len(Projections)
  BY <1>7, ProjectionsFact
<1>9. \A j \in Items : j # i => item'[j] = item[j]
  BY <1>6 DEF TruthTypeOK
<1> HIDE DEF i
<1>10. Queues(i, "purge")
  BY <1>3, <1>4, <1>5, <1>6, <1>7, <1>8, <1>9 DEF Queues
<1> QED  BY <1>10 DEF i

LEMMA TruthStep ==
  ASSUME TruthInv, TruthNext
  PROVE  \/ UNCHANGED <<item, outbox, commits, known>>
         \/ \E i \in Items, op \in {"upsert", "delete", "purge"} : Queues(i, op)
<1>1. PICK u \in Writers : Mutate(u)
  BY DEF TruthNext
<1> DEFINE d == reading[u]
<1>2. TruthTypeOK /\ d \in Read /\ commits \in Nat
  BY TruthAssumption DEF TruthInv, TruthTypeOK
<1>3. d.item \in Items /\ d.rec \in Record /\ NextNo(u) \in Nat
  BY <1>2 DEF Read, NextNo, Record
<1>4. CASE Remember(u)
  <2>1. PICK i \in Items \ known, life \in {"live", "archived"} :
           Revise(i, [rev |-> commits + 1, no |-> 1, life |-> life], "upsert")
    BY <1>4 DEF Remember
  <2>2. [rev |-> commits + 1, no |-> 1, life |-> life] \in Record
    BY <1>2 DEF Record
  <2>3. Queues(i, "upsert")
    BY <1>2, <2>1, <2>2, ReviseQueues
  <2> QED  BY <2>3
<1>5. CASE Correct(u)
  <2>1. /\ Revise(d.item, [rev |-> commits + 1, no |-> NextNo(u), life |-> d.rec.life], "upsert")
        /\ d.op = "correct"
    BY <1>5 DEF Correct
  <2>2. d.rec.life = "live"
    BY <2>1 DEF TruthInv, ReadsAreSound, ReadIsSound
  <2>3. [rev |-> commits + 1, no |-> NextNo(u), life |-> d.rec.life] \in Record
    BY <1>2, <1>3, <2>2 DEF Record
  <2>4. Queues(d.item, "upsert")
    BY <1>2, <1>3, <2>1, <2>2, <2>3, ReviseQueues
  <2> QED  BY <1>3, <2>4
<1>6. CASE Archive(u)
  <2>1. Revise(d.item, [rev |-> commits + 1, no |-> NextNo(u), life |-> "archived"], "delete")
    BY <1>6 DEF Archive
  <2>2. [rev |-> commits + 1, no |-> NextNo(u), life |-> "archived"] \in Record
    BY <1>2, <1>3 DEF Record
  <2>3. Queues(d.item, "delete")
    BY <1>2, <1>3, <2>1, <2>2, ReviseQueues
  <2> QED  BY <1>3, <2>3
<1>7. CASE Purge(u)
  BY <1>2, <1>3, <1>7, PurgeQueues
<1>8. CASE ReadItem(u) \/ GiveUp(u)
  BY <1>8 DEF ReadItem, GiveUp
<1> QED  BY <1>1, <1>4, <1>5, <1>6, <1>7, <1>8 DEF Mutate

-----------------------------------------------------------------------------
(* Claims, whoever is suspended *)

Olders(k) == \A j \in 1..(k - 1) : Place(outbox[j]) = Place(outbox[k]) => outbox[j].done
Newer(k) == \E j \in DOMAIN outbox : j > k /\ Place(outbox[j]) = Place(outbox[k])

(* A worker works on the oldest row of its place, which it has read; truth may *)
(* have detached the row since, and has then queued a newer one.               *)
ClaimIsOldest(w) ==
    LET k == claim[w] IN
    /\ k \in DOMAIN outbox
    /\ copy[w].item = outbox[k].item /\ copy[w].proj = outbox[k].proj /\ copy[w].op = outbox[k].op
    /\ copy[w].rev = outbox[k].rev \/ Newer(k)
    /\ Olders(k)

ClaimInv ==
    /\ TypeOK
    /\ TruthInv
    /\ Len(outbox) = commits * Len(Projections)
    /\ \A w \in Workers : pc[w] # "idle" => ClaimIsOldest(w)
    /\ OldestFirst

(* The rows stay where they are, and those processed stay processed. *)
Keeps ==
    /\ Len(outbox) \in Nat /\ Len(outbox') \in Nat /\ Len(outbox) <= Len(outbox')
    /\ DOMAIN outbox = 1..Len(outbox) /\ DOMAIN outbox' = 1..Len(outbox')
    /\ \A k \in 1..Len(outbox) :
          /\ outbox'[k].item = outbox[k].item /\ outbox'[k].proj = outbox[k].proj
          /\ outbox'[k].op = outbox[k].op
          /\ outbox[k].done => outbox'[k].done
          /\ outbox'[k].rev = outbox[k].rev \/ Newer(k)'

LEMMA KeepsOrder ==
  ASSUME Keeps, NEW k \in DOMAIN outbox
  PROVE  /\ Olders(k) => Olders(k)'
         /\ Newer(k) => Newer(k)'
         /\ k \in DOMAIN outbox'
         /\ Place(outbox'[k]) = Place(outbox[k])
BY DEF Keeps, Olders, Newer, Place

LEMMA KeepsClaim ==
  ASSUME Keeps, NEW w \in Workers, ClaimIsOldest(w), claim'[w] = claim[w], copy'[w] = copy[w]
  PROVE  ClaimIsOldest(w)'
<1> DEFINE k == claim[w]
<1>1. k \in DOMAIN outbox /\ k \in DOMAIN outbox'
  BY KeepsOrder DEF ClaimIsOldest
<1>2. Olders(k)'
  BY <1>1, KeepsOrder DEF ClaimIsOldest
<1>3. copy[w].rev = outbox'[k].rev \/ Newer(k)'
  BY <1>1, KeepsOrder DEF ClaimIsOldest, Keeps
<1>4. /\ copy[w].item = outbox'[k].item /\ copy[w].proj = outbox'[k].proj
      /\ copy[w].op = outbox'[k].op
  BY <1>1 DEF ClaimIsOldest, Keeps
<1> QED  BY <1>1, <1>2, <1>3, <1>4 DEF ClaimIsOldest

LEMMA RowsFact ==
  ASSUME ClaimInv
  PROVE  /\ outbox \in Seq(Row) /\ Len(outbox) \in Nat /\ DOMAIN outbox = 1..Len(outbox)
         /\ \A k \in DOMAIN outbox : outbox[k] \in Row /\ Place(outbox[k]) \in Places
         /\ MaxRows \in Nat /\ Len(outbox) <= MaxRows /\ DOMAIN outbox \subseteq 1..MaxRows
<1>1. outbox \in Seq(Row) /\ commits \in Nat /\ commits <= MaxCommits
  BY TruthAssumption DEF ClaimInv, TypeOK, TruthTypeOK
<1>2. /\ MaxRows \in Nat /\ Len(outbox) <= MaxRows
  BY <1>1, ProductGrows, ProjectionsFact, TruthAssumption DEF ClaimInv, MaxRows
<1>3. Len(outbox) \in Nat /\ DOMAIN outbox = 1..Len(outbox)
      /\ \A k \in 1..Len(outbox) : outbox[k] \in Row
  BY <1>1
<1>4. \A row \in Row : Place(row) \in Places
  BY DEF Row, Places, Place
<1> QED  BY <1>1, <1>2, <1>3, <1>4

LEMMA ClaimInvInit == Init => ClaimInv
<1> SUFFICES ASSUME Init PROVE ClaimInv
  OBVIOUS
<1>1. TruthInv
  BY TruthInvInit DEF Init
<1>2. MaxRows \in Nat
  BY ProductGrows, ProjectionsFact, TruthAssumption DEF MaxRows
<1>4. TypeOK
  <2>1. Absent \in Record
    BY DEF Absent, Record
  <2> QED
    BY <1>1, <1>2, <2>1, WorkerAssumption DEF TypeOK, Init, TruthInv, States, InFence
<1> QED
  BY <1>1, <1>4, ProjectionsFact DEF Init, TruthInit, ClaimInv, OldestFirst

LEMMA SameTruth ==
  ASSUME TruthInv, UNCHANGED truthVars
  PROVE  TruthInv' /\ TruthTypeOK'
BY TruthInvStep DEF TruthInv

LEMMA SameOutboxKeeps ==
  ASSUME ClaimInv, UNCHANGED outbox
  PROVE  Keeps
BY RowsFact DEF Keeps

LEMMA QueuesKeeps ==
  ASSUME ClaimInv, TruthTypeOK', NEW i \in Items, NEW op, Queues(i, op)
  PROVE  /\ Keeps
         /\ \A k \in DOMAIN outbox : outbox[k].item = i => Newer(k)'
         /\ \A k \in DOMAIN outbox' : outbox'[k].done => k \in DOMAIN outbox /\ outbox[k].done
<1> DEFINE n == Len(outbox)
           m == Len(Projections)
<1>1. /\ n \in Nat /\ m \in Nat /\ DOMAIN outbox = 1..n /\ \A k \in 1..n : outbox[k] \in Row
  BY RowsFact, ProjectionsFact
<1>2. outbox' \in Seq(Row) /\ Len(outbox') = n + m /\ DOMAIN outbox' = 1..(n + m)
  BY DEF TruthTypeOK, Queues
<1>3. \A k \in 1..n : outbox[k].item = i => Newer(k)'
  <2> SUFFICES ASSUME NEW k \in 1..n, outbox[k].item = i PROVE Newer(k)'
    OBVIOUS
  <2>1. PICK p \in 1..m : Projections[p] = outbox[k].proj
    BY <1>1, ProjectionsFact DEF Row
  <2>2. n + p \in (n + 1)..(n + m) /\ (n + p) - n = p /\ n + p \in 1..(n + m) /\ n + p > k
        /\ k \in 1..(n + m)
    BY <1>1
  <2>3. outbox'[n + p].item = i /\ outbox'[n + p].proj = Projections[p]
    BY <2>2 DEF Queues
  <2>4. outbox'[k].item = i /\ outbox'[k].proj = outbox[k].proj
    BY DEF Queues
  <2> QED  BY <1>2, <2>1, <2>2, <2>3, <2>4 DEF Newer, Place
<1>4. Keeps
  <2>1. \A k \in 1..n : outbox'[k].rev = outbox[k].rev \/ Newer(k)'
    BY <1>3 DEF Queues
  <2>2. \A k \in 1..n : /\ outbox'[k].item = outbox[k].item /\ outbox'[k].proj = outbox[k].proj
                        /\ outbox'[k].op = outbox[k].op
                        /\ outbox[k].done => outbox'[k].done
    BY DEF Queues
  <2> QED  BY <1>1, <1>2, <2>1, <2>2 DEF Keeps
<1>5. ASSUME NEW k \in 1..(n + m), outbox'[k].done
      PROVE  k \in 1..n /\ outbox[k].done
  <2>1. k \notin (n + 1)..(n + m)
    BY <1>5 DEF Queues
  <2>2. k \in 1..n
    BY <1>1, <2>1
  <2> QED  BY <1>5, <2>2 DEF Queues
<1> QED  BY <1>1, <1>2, <1>3, <1>4, <1>5

(* Steps that leave truth alone, and let nobody begin with a row. *)
LEMMA Carry ==
  ASSUME ClaimInv, TypeOK', UNCHANGED truthVars,
         \A w \in Workers : pc'[w] # "idle" =>
            pc[w] # "idle" /\ claim'[w] = claim[w] /\ copy'[w] = copy[w]
  PROVE  ClaimInv'
<1>1. Keeps
  BY SameOutboxKeeps DEF truthVars
<1>2. \A w \in Workers : pc'[w] # "idle" => ClaimIsOldest(w)'
  BY <1>1, KeepsClaim DEF ClaimInv
<1>3. OldestFirst'
  BY DEF ClaimInv, OldestFirst, truthVars
<1> QED  BY <1>2, <1>3, SameTruth DEF ClaimInv, truthVars

LEMMA WriteInv ==
  ASSUME ClaimInv, Write
  PROVE  ClaimInv' /\ Keeps
<1>1. TruthInv'
  BY TruthInvStep DEF ClaimInv, Write
<1>2. UNCHANGED <<owner, fence, shown, pc, claim, copy, memory, lost, failed, attempted, faults>>
  BY DEF Write, workerVars
<1>3. TypeOK'
  BY <1>1, <1>2 DEF ClaimInv, TypeOK, TruthInv
<1>4. CASE UNCHANGED <<item, outbox, commits, known>>
  <2>1. Keeps
    BY <1>4, SameOutboxKeeps
  <2>2. \A w \in Workers : pc'[w] # "idle" => ClaimIsOldest(w)'
    BY <1>2, <2>1, KeepsClaim DEF ClaimInv
  <2> QED  BY <1>1, <1>3, <1>4, <2>1, <2>2 DEF ClaimInv, OldestFirst
<1>5. ASSUME NEW i \in Items, NEW op \in {"upsert", "delete", "purge"}, Queues(i, op)
      PROVE  ClaimInv' /\ Keeps
  <2>1. /\ Keeps
        /\ \A k \in DOMAIN outbox' : outbox'[k].done => k \in DOMAIN outbox /\ outbox[k].done
    BY <1>1, <1>5, QueuesKeeps DEF TruthInv
  <2>2. \A w \in Workers : pc'[w] # "idle" => ClaimIsOldest(w)'
    BY <1>2, <2>1, KeepsClaim DEF ClaimInv
  <2>3. OldestFirst'
    BY <2>1 DEF ClaimInv, OldestFirst, Keeps, Place
  <2>4. Len(outbox') = commits' * Len(Projections)
    <3>1. commits \in Nat /\ Len(Projections) \in Nat
      BY ProjectionsFact, TruthAssumption DEF ClaimInv, TypeOK, TruthTypeOK
    <3>2. (commits + 1) * Len(Projections) = commits * Len(Projections) + Len(Projections)
      BY <3>1
    <3> QED  BY <1>5, <3>2 DEF Queues, ClaimInv
  <2> QED  BY <1>1, <1>3, <2>1, <2>2, <2>3, <2>4 DEF ClaimInv
<1> QED  BY <1>4, <1>5, TruthStep DEF ClaimInv, Write

LEMMA ClaimNextInv ==
  ASSUME ClaimInv, NEW w \in Workers, ClaimNext(w)
  PROVE  ClaimInv'
<1> DEFINE k == Min(Claimable(w))
<1>1. k \in Claimable(w)
  <2>1. Claimable(w) \subseteq Nat
    BY RowsFact DEF Claimable
  <2> QED  BY <2>1, MinIsIn DEF ClaimNext
<1>2. /\ owner' = [owner EXCEPT ![k] = w] /\ claim' = [claim EXCEPT ![w] = k]
      /\ copy' = [copy EXCEPT ![w] = outbox[k]]
      /\ attempted' = [attempted EXCEPT ![w] = @ \cup {k}]
      /\ pc' = [pc EXCEPT ![w] = IF outbox[k].proj \in Adapters[w] THEN "fencing" ELSE "failing"]
      /\ UNCHANGED <<truthVars, fence, shown, memory, lost, failed, faults>>
  BY DEF ClaimNext
<1> HIDE DEF k
<1>3. k \in DOMAIN outbox /\ k \in 1..MaxRows /\ k \in 0..MaxRows /\ outbox[k] \in Row
  BY <1>1, RowsFact DEF Claimable
<1>4. TypeOK'
  BY <1>2, <1>3, SameTruth DEF ClaimInv, TypeOK, States
<1>5. Keeps
  BY <1>2, SameOutboxKeeps DEF truthVars
<1>6. ClaimIsOldest(w)'
  <2>1. claim'[w] = k /\ copy'[w] = outbox[k] /\ UNCHANGED outbox
    BY <1>2 DEF ClaimInv, TypeOK, truthVars
  <2> QED  BY <1>1, <1>3, <2>1 DEF ClaimIsOldest, Olders, Claimable
<1>7. \A v \in Workers : pc'[v] # "idle" => ClaimIsOldest(v)'
  <2> SUFFICES ASSUME NEW v \in Workers \ {w}, pc'[v] # "idle" PROVE ClaimIsOldest(v)'
    BY <1>6
  <2>1. claim'[v] = claim[v] /\ copy'[v] = copy[v] /\ pc'[v] = pc[v]
    BY <1>2 DEF ClaimInv, TypeOK
  <2> QED  BY <1>5, <2>1, KeepsClaim DEF ClaimInv
<1> QED  BY <1>2, <1>4, <1>7, SameTruth DEF ClaimInv, OldestFirst, truthVars

(* The row of a worker is marked: what truth says of rows does not look at it. *)
Marks(k) ==
    /\ outbox' = [outbox EXCEPT ![k].done = TRUE]
    /\ UNCHANGED <<item, revisions, known, commits, reading>>

LEMMA MarksFact ==
  ASSUME ClaimInv, NEW k \in DOMAIN outbox, Marks(k)
  PROVE  /\ Keeps /\ TruthInv' /\ Len(outbox') = Len(outbox)
         /\ outbox'[k].done
         /\ \A j \in DOMAIN outbox : j # k => outbox'[j] = outbox[j]
<1>1. /\ outbox \in Seq(Row) /\ Len(outbox) \in Nat /\ DOMAIN outbox = 1..Len(outbox)
      /\ \A j \in DOMAIN outbox : outbox[j] \in Row
  BY RowsFact
<1> DEFINE row == [outbox[k] EXCEPT !.done = TRUE]
<1>2. /\ row \in Row /\ row.item = outbox[k].item /\ row.proj = outbox[k].proj
      /\ row.op = outbox[k].op /\ row.rev = outbox[k].rev /\ row.done
  BY <1>1 DEF Row
<1>3. outbox' = [outbox EXCEPT ![k] = row]
  BY DEF Marks
<1> HIDE DEF row
<1>4. /\ outbox' \in Seq(Row) /\ Len(outbox') = Len(outbox) /\ DOMAIN outbox' = DOMAIN outbox
      /\ outbox'[k] = row /\ \A j \in DOMAIN outbox : j # k => outbox'[j] = outbox[j]
  BY <1>1, <1>2, <1>3
<1>5. \A j \in DOMAIN outbox : /\ outbox'[j].item = outbox[j].item /\ outbox'[j].proj = outbox[j].proj
                               /\ outbox'[j].op = outbox[j].op /\ outbox'[j].rev = outbox[j].rev
                               /\ outbox[j].done => outbox'[j].done
  BY <1>2, <1>4
<1>6. Keeps
  BY <1>1, <1>4, <1>5 DEF Keeps
<1>7. TruthInv'
  <2>1. TruthTypeOK'
    BY <1>4 DEF Marks, ClaimInv, TruthInv, TruthTypeOK
  <2>2. KnownIsComplete' /\ RevisionsAreCommits' /\ PurgeLeavesNothing' /\ HistoryIsLine'
    BY <1>4, <1>5 DEF Marks, ClaimInv, TruthInv, KnownIsComplete, RevisionsAreCommits,
       PurgeLeavesNothing, HistoryIsLine, Present
  <2>3. ReadsAreSound'
    BY DEF Marks, ClaimInv, TruthInv, ReadsAreSound, ReadIsSound, Present
  <2>4. LastRowIsTruth'
    <3> SUFFICES ASSUME NEW i \in known', NEW q \in ProjectionSet
                 PROVE  \E h \in DOMAIN outbox' :
                           /\ outbox'[h].item = i /\ outbox'[h].proj = q
                           /\ \A j \in DOMAIN outbox' :
                                 outbox'[j].item = i /\ outbox'[j].proj = q => j <= h
                           /\ Announces(outbox'[h], item'[i])
      BY DEF LastRowIsTruth, Announces
    <3>1. i \in known /\ item' = item
      BY DEF Marks
    <3>2. PICK h \in DOMAIN outbox :
             /\ outbox[h].item = i /\ outbox[h].proj = q
             /\ \A j \in DOMAIN outbox : outbox[j].item = i /\ outbox[j].proj = q => j <= h
             /\ Announces(outbox[h], item[i])
      BY <3>1 DEF ClaimInv, TruthInv, LastRowIsTruth
    <3>3. Announces(outbox'[h], item'[i])
      BY <1>5, <3>1, <3>2 DEF Announces
    <3> QED  BY <1>4, <1>5, <3>2, <3>3
  <2> QED  BY <2>1, <2>2, <2>3, <2>4 DEF TruthInv
<1> QED  BY <1>2, <1>4, <1>6, <1>7

LEMMA MarkInv ==
  ASSUME ClaimInv, NEW w \in Workers, Mark(w)
  PROVE  ClaimInv'
<1> DEFINE k == claim[w]
<1>1. pc[w] = "marking" /\ ClaimIsOldest(w) /\ k \in DOMAIN outbox /\ k \in 1..MaxRows
  BY RowsFact DEF Mark, ClaimInv, ClaimIsOldest
<1>2. /\ pc' = [pc EXCEPT ![w] = "releasing"]
      /\ UNCHANGED <<item, revisions, known, commits, reading, fence, shown, claim, copy, memory,
                     failed, attempted, faults>>
  BY DEF Mark
<1>3. \A v \in Workers : pc'[v] # "idle" => pc[v] # "idle" /\ claim'[v] = claim[v] /\ copy'[v] = copy[v]
  BY <1>1, <1>2 DEF ClaimInv, TypeOK
<1>4. CASE UNCHANGED <<outbox, owner>> /\ lost' = [lost EXCEPT ![w] = TRUE]
  <2>1. UNCHANGED truthVars
    BY <1>2, <1>4 DEF truthVars
  <2>2. TypeOK'
    BY <1>2, <1>4, <2>1, SameTruth DEF ClaimInv, TypeOK, States, InFence
  <2> QED  BY <1>3, <2>1, <2>2, Carry
<1>5. CASE Marks(k) /\ owner' = [owner EXCEPT ![k] = Nobody] /\ UNCHANGED lost
  <2>1. /\ Keeps /\ TruthInv' /\ Len(outbox') = Len(outbox)
        /\ outbox'[k].done /\ \A j \in DOMAIN outbox : j # k => outbox'[j] = outbox[j]
    BY <1>1, <1>5, MarksFact
  <2>2. TypeOK'
    BY <1>1, <1>2, <1>5, <2>1 DEF ClaimInv, TypeOK, TruthInv, States, InFence
  <2>3. \A v \in Workers : pc'[v] # "idle" => ClaimIsOldest(v)'
    BY <1>3, <2>1, KeepsClaim DEF ClaimInv
  <2>4. OldestFirst'
    <3> SUFFICES ASSUME NEW h \in DOMAIN outbox', outbox'[h].done, NEW j \in 1..(h - 1),
                        Place(outbox'[j]) = Place(outbox'[h])
                 PROVE  outbox'[j].done
      BY DEF OldestFirst
    <3>1. h \in DOMAIN outbox /\ j \in DOMAIN outbox /\ j \in 1..(h - 1)
      BY <2>1 DEF Keeps
    <3>2. Place(outbox[j]) = Place(outbox[h])
      BY <2>1, <3>1, KeepsOrder
    <3>3. outbox[j].done
      BY <1>1, <2>1, <3>1, <3>2 DEF ClaimIsOldest, Olders, ClaimInv, OldestFirst
    <3> QED  BY <2>1, <3>1, <3>3 DEF Keeps
  <2> QED  BY <1>2, <2>1, <2>2, <2>3, <2>4 DEF ClaimInv
<1> QED  BY <1>2, <1>4, <1>5 DEF Mark, Marks

(* The steps of a worker that leave the outbox alone. *)
LEMMA AppliedType ==
  ASSUME ClaimInv, NEW w \in Workers, pc[w] # "idle"
  PROVE  /\ Place(copy[w]) \in Places /\ Place(copy[w]) = Place(outbox[claim[w]])
         /\ Applied(w) \in [Places -> [row : 0..MaxRows, rev : Nat]]
<1>1. /\ ClaimIsOldest(w) /\ claim[w] \in DOMAIN outbox
      /\ Place(copy[w]) = Place(outbox[claim[w]])
  BY DEF ClaimInv, ClaimIsOldest, Place
<1>2. Place(copy[w]) \in Places /\ claim[w] \in 0..MaxRows /\ memory[w].rev \in Nat
  BY <1>1, RowsFact DEF ClaimInv, TypeOK, Record
<1> DEFINE r == [row |-> claim[w], rev |-> IF copy[w].op = "upsert" THEN memory[w].rev ELSE 0]
<1>3. r \in [row : 0..MaxRows, rev : Nat] /\ Applied(w) = [shown EXCEPT ![Place(copy[w])] = r]
  BY <1>2 DEF Applied
<1> HIDE DEF r
<1> QED  BY <1>1, <1>2, <1>3 DEF ClaimInv, TypeOK

LEMMA ForgetType ==
  ASSUME TypeOK, NEW w \in Workers, Forget(w)
  PROVE  /\ claim' \in [Workers -> 0..MaxRows] /\ copy' \in [Workers -> Row \cup {AnyRow}]
         /\ memory' \in [Workers -> Record] /\ lost' \in [Workers -> BOOLEAN]
         /\ failed' \in [Workers -> BOOLEAN]
         /\ \A v \in Workers : v # w => claim'[v] = claim[v] /\ copy'[v] = copy[v]
<1>1. 0 \in 0..MaxRows /\ Absent \in Record
  BY ProductGrows, ProjectionsFact, TruthAssumption DEF MaxRows, Absent, Record
<1> QED  BY <1>1 DEF TypeOK, Forget

LEMMA FaultType ==
  ASSUME TypeOK, Fault
  PROVE  faults' \in 0..MaxFaults
BY WorkerAssumption DEF TypeOK, Fault

LEMMA StepInv ==
  ASSUME ClaimInv, NEW w \in Workers,
         \/ EndRun(w) \/ TakeFence(w) \/ CheckClaim(w) \/ ReadTruth(w) \/ Apply(w)
         \/ NoticeLoss(w) \/ RenewFails(w) \/ FenceTimeout(w) \/ ApplyFails(w) \/ FenceGoesStale(w)
  PROVE  ClaimInv'
<1>1. UNCHANGED <<truthVars, owner, claim, copy>>
  BY DEF EndRun, TakeFence, CheckClaim, ReadTruth, Apply, NoticeLoss, RenewFails, FenceTimeout,
     ApplyFails, FenceGoesStale, workerVars
<1>2. TypeOK /\ TruthTypeOK'
  BY <1>1, SameTruth DEF ClaimInv
<1>3. \A v \in Workers : pc'[v] # "idle" => pc[v] # "idle"
  BY <1>2 DEF TypeOK, EndRun, TakeFence, CheckClaim, ReadTruth, Apply, NoticeLoss, RenewFails,
     FenceTimeout, ApplyFails, FenceGoesStale, workerVars
<1>4. CASE EndRun(w)
  BY <1>1, <1>2, <1>3, <1>4, Carry DEF EndRun, TypeOK
<1>5. CASE TakeFence(w)
  BY <1>1, <1>2, <1>3, <1>5, Carry DEF TakeFence, TypeOK, States, InFence
<1>6. CASE CheckClaim(w)
  BY <1>1, <1>2, <1>3, <1>6, Carry DEF CheckClaim, TypeOK, States, InFence, Owns
<1>7. CASE ReadTruth(w)
  <2>1. item[copy[w].item] \in Record
    <3>1. claim[w] \in DOMAIN outbox /\ copy[w].item = outbox[claim[w]].item
      BY <1>7 DEF ReadTruth, ClaimInv, ClaimIsOldest
    <3> QED  BY <1>2, <3>1, RowsFact DEF TypeOK, TruthTypeOK, Row
  <2> QED  BY <1>1, <1>2, <1>3, <1>7, <2>1, Carry DEF ReadTruth, TypeOK, States, InFence
<1>8. CASE Apply(w)
  <2>1. shown' \in [Places -> [row : 0..MaxRows, rev : Nat]]
    BY <1>8, AppliedType DEF Apply
  <2> QED  BY <1>1, <1>2, <1>3, <1>8, <2>1, Carry DEF Apply, TypeOK, States, InFence
<1>9. CASE NoticeLoss(w)
  BY <1>1, <1>2, <1>3, <1>9, Carry DEF NoticeLoss, TypeOK
<1>10. CASE RenewFails(w)
  BY <1>1, <1>2, <1>3, <1>10, FaultType, Carry DEF RenewFails, TypeOK
<1>11. CASE FenceTimeout(w)
  BY <1>1, <1>2, <1>3, <1>11, FaultType, Carry DEF FenceTimeout, TypeOK, States
<1>12. CASE ApplyFails(w)
  <2>1. shown' \in [Places -> [row : 0..MaxRows, rev : Nat]]
    <3>1. shown' \in {shown, Applied(w)} /\ pc[w] # "idle"
      BY <1>12 DEF ApplyFails
    <3>2. Applied(w) \in [Places -> [row : 0..MaxRows, rev : Nat]]
      BY <3>1, AppliedType
    <3>3. shown \in [Places -> [row : 0..MaxRows, rev : Nat]]
      BY <1>2 DEF TypeOK
    <3> QED  BY <3>1, <3>2, <3>3
  <2> QED
    BY <1>1, <1>2, <1>3, <1>12, <2>1, FaultType, Carry DEF ApplyFails, TypeOK, States, InFence
<1>13. CASE FenceGoesStale(w)
  BY <1>1, <1>2, <1>3, <1>13, FaultType, Carry DEF FenceGoesStale, TypeOK, Unfenced, workerVars
<1> QED
  BY <1>4, <1>5, <1>6, <1>7, <1>8, <1>9, <1>10, <1>11, <1>12, <1>13

(* The steps after which a worker may have forgotten its row. *)
LEMMA ForgetInv ==
  ASSUME ClaimInv, NEW w \in Workers, Release(w) \/ RecordFailure(w) \/ Crash(w)
  PROVE  ClaimInv'
<1>1. UNCHANGED <<truthVars, shown>> /\ TypeOK /\ TruthTypeOK'
  BY SameTruth DEF ClaimInv, Release, RecordFailure, Crash
<1>2. CASE Release(w) /\ failed[w]
  BY <1>1, <1>2, Carry DEF Release, TypeOK, Unfenced, States
<1>3. CASE Release(w) /\ ~failed[w]
  <2>1. Forget(w)
    BY <1>3 DEF Release
  <2> QED  BY <1>1, <1>3, <2>1, ForgetType, Carry DEF Release, TypeOK, Unfenced, States
<1>4. CASE RecordFailure(w)
  <2>1. Forget(w)
    BY <1>4 DEF RecordFailure
  <2> QED  BY <1>1, <1>4, <2>1, ForgetType, Carry DEF RecordFailure, TypeOK, States
<1>5. CASE Crash(w)
  <2>1. Forget(w)
    BY <1>5 DEF Crash
  <2> QED  BY <1>1, <1>5, <2>1, ForgetType, FaultType, Carry DEF Crash, TypeOK, Unfenced, States
<1> QED  BY <1>2, <1>3, <1>4, <1>5

LEMMA ExpireInv ==
  ASSUME ClaimInv, NEW k \in 1..MaxRows, ExpireAbandoned(k) \/ ExpireInUse(k)
  PROVE  ClaimInv'
<1>1. UNCHANGED <<truthVars, fence, shown, workerVars>> /\ TypeOK /\ TruthTypeOK'
  BY SameTruth DEF ClaimInv, ExpireAbandoned, ExpireInUse
<1>2. TypeOK'
  BY <1>1, FaultType DEF TypeOK, ExpireAbandoned, ExpireInUse, workerVars
<1> QED  BY <1>1, <1>2, Carry DEF workerVars

LEMMA ClaimInvStep == ClaimInv /\ [Next]_vars => ClaimInv'
<1> SUFFICES ASSUME ClaimInv, [Next]_vars PROVE ClaimInv'
  OBVIOUS
<1>1. CASE Write
  BY <1>1, WriteInv
<1>2. ASSUME NEW w \in Workers, Work(w) PROVE ClaimInv'
  BY <1>2, ClaimNextInv, MarkInv, StepInv, ForgetInv DEF Work
<1>3. CASE Expire
  BY <1>3, ExpireInv DEF Expire
<1>4. CASE Mishap
  BY <1>4, StepInv, ForgetInv, ExpireInv DEF Mishap
<1>5. CASE UNCHANGED vars
  <2>1. TypeOK'
    BY <1>5, SameTruth DEF ClaimInv, TypeOK, vars, workerVars
  <2> QED  BY <1>5, <2>1, Carry DEF vars, workerVars
<1> QED  BY <1>1, <1>2, <1>3, <1>4, <1>5 DEF Next

LEMMA ClaimInvCorrect == Spec => []ClaimInv
BY ClaimInvInit, ClaimInvStep, PTL DEF Spec

(* The workers, their claims and their fences stay well-formed beside any      *)
(* number of writers of truth.                                                 *)
THEOREM WorkersTypeCorrect == Spec => []TypeOK
BY ClaimInvCorrect, PTL DEF ClaimInv

(* Rows of one item and projection are processed oldest first, whatever        *)
(* expires, fails, dies or is suspended.                                       *)
THEOREM RowsGoInOrder == Spec => []OldestFirst
BY ClaimInvCorrect, PTL DEF ClaimInv

-----------------------------------------------------------------------------
(* Under the fence, when no process is suspended *)

Result(w) == IF copy[w].op = "upsert" THEN memory[w].rev ELSE 0

(* Who is under the fence holds it; so the row it works on is not processed    *)
(* behind its back, and what it has applied, or is about to apply, is what      *)
(* truth holds unless truth has queued a newer row of the place.                *)
WorkerIsSafe(w) ==
    /\ pc[w] \in InFence => fence[Place(copy[w])] = w
    /\ pc[w] \in {"reading", "applying", "marking"} => ~outbox[claim[w]].done
    /\ pc[w] = "applying" => Newer(claim[w]) \/ Result(w) = Truth(copy[w].item)
    /\ pc[w] = "marking" => Newer(claim[w]) \/ shown[Place(copy[w])].rev = Truth(copy[w].item)

(* A place shows a row of its own, all older ones of which are processed.      *)
ShownIsARow ==
    \A a \in Places :
        IF shown[a].row = 0 THEN shown[a].rev = 0
        ELSE /\ shown[a].row \in DOMAIN outbox
             /\ Place(outbox[shown[a].row]) = a
             /\ Olders(shown[a].row)

(* An archived item whose last row is an upsert was remembered as archived:    *)
(* it has one row for each projection, and was never shown.                    *)
BornArchived ==
    \A a \in Places, k \in DOMAIN outbox :
        /\ item[a[1]].life = "archived"
        /\ Place(outbox[k]) = a /\ ~Newer(k) /\ outbox[k].op = "upsert"
        => /\ \A j \in DOMAIN outbox : Place(outbox[j]) = a => j = k
           /\ shown[a].rev = 0

FenceInv ==
    /\ ClaimInv
    /\ \A w \in Workers : WorkerIsSafe(w)
    /\ ShownIsARow
    /\ BornArchived
    /\ ProcessedIsProjected

LEMMA PlacesFact ==
  /\ \A a \in Places : a[1] \in Items /\ a[2] \in ProjectionSet /\ a = <<a[1], a[2]>>
  /\ \A row : Place(row)[1] = row.item /\ Place(row)[2] = row.proj
BY DEF Places, Place

LEMMA FenceInvInit == Init => FenceInv
<1> SUFFICES ASSUME Init PROVE FenceInv
  OBVIOUS
<1>1. outbox = <<>> /\ DOMAIN outbox = {}
  BY DEF Init, TruthInit
<1>2. \A w \in Workers : WorkerIsSafe(w)
  BY DEF Init, WorkerIsSafe, InFence
<1>3. ShownIsARow /\ BornArchived
  BY <1>1 DEF Init, ShownIsARow, BornArchived
<1>4. ProcessedIsProjected
  BY PlacesFact DEF Init, TruthInit, ProcessedIsProjected, Truth, Absent
<1> QED  BY <1>2, <1>3, <1>4, ClaimInvInit DEF FenceInv

(* Steps that leave truth and the projections alone. *)
LEMMA Quiet ==
  ASSUME FenceInv, ClaimInv', UNCHANGED <<truthVars, shown>>, \A w \in Workers : WorkerIsSafe(w)'
  PROVE  FenceInv'
BY DEF FenceInv, truthVars, ShownIsARow, Olders, BornArchived, Newer, ProcessedIsProjected, Rows, Truth

LEMMA SafeStays ==
  ASSUME FenceInv, UNCHANGED <<truthVars, shown>>, NEW w \in Workers,
         pc'[w] = pc[w], claim'[w] = claim[w], copy'[w] = copy[w], memory'[w] = memory[w],
         pc[w] \in InFence => fence'[Place(copy[w])] = w
  PROVE  WorkerIsSafe(w)'
BY DEF FenceInv, truthVars, WorkerIsSafe, Newer, Truth, Result

(* A worker that neither reads, applies nor marks needs only its fence. *)
LEMMA SafeOutside ==
  ASSUME NEW w \in Workers, pc'[w] \notin {"reading", "applying", "marking"},
         pc'[w] \in InFence => fence'[Place(copy'[w])] = w
  PROVE  WorkerIsSafe(w)'
BY DEF WorkerIsSafe

(* The steps of w that others do not feel. *)
LEMMA OwnStep ==
  ASSUME FenceInv, ClaimInv', UNCHANGED <<truthVars, shown>>, NEW w \in Workers,
         \A v \in Workers \ {w} : /\ pc'[v] = pc[v] /\ claim'[v] = claim[v] /\ copy'[v] = copy[v]
                                  /\ memory'[v] = memory[v],
         \A a \in Places : fence[a] \notin {w, Nobody} => fence'[a] = fence[a],
         WorkerIsSafe(w)'
  PROVE  FenceInv'
<1>1. ASSUME NEW v \in Workers \ {w} PROVE WorkerIsSafe(v)'
  <2>1. pc[v] \in InFence => Place(copy[v]) \in Places /\ fence[Place(copy[v])] = v
    BY AppliedType DEF FenceInv, WorkerIsSafe, InFence
  <2>2. v \notin {w, Nobody}
    BY WorkerAssumption
  <2> QED  BY <2>1, <2>2, SafeStays
<1> QED  BY <1>1, Quiet

LEMMA UnfencedFact ==
  ASSUME ClaimInv, NEW w \in Workers, fence' = Unfenced(w)
  PROVE  \A a \in Places : fence[a] \notin {w, Nobody} => fence'[a] = fence[a]
BY DEF Unfenced

(* What a worker reads under the fence decides rightly. *)
LEMMA ReadTruthSafe ==
  ASSUME FenceInv, NEW w \in Workers, ReadTruth(w)
  PROVE  WorkerIsSafe(w)'
<1> DEFINE k == claim[w]
           rec == item[copy[w].item]
<1>1. pc[w] = "reading" /\ ClaimInv /\ ClaimIsOldest(w) /\ WorkerIsSafe(w)
  BY DEF ReadTruth, FenceInv, ClaimInv
<1>2. /\ k \in DOMAIN outbox /\ outbox[k] \in Row /\ copy[w].item = outbox[k].item
      /\ copy[w].proj = outbox[k].proj /\ copy[w].op = outbox[k].op
      /\ Place(copy[w]) \in Places
  BY <1>1, RowsFact, AppliedType DEF ClaimIsOldest
<1>3. copy[w].item \in Items /\ rec \in Record /\ copy[w].op \in {"upsert", "delete", "purge"}
  BY <1>1, <1>2 DEF Row, ClaimInv, TypeOK, TruthTypeOK
<1>4. /\ UNCHANGED <<item, outbox, shown, fence, claim, copy>> /\ memory'[w] = rec
      /\ pc'[w] = IF IsCurrent(copy[w], rec) THEN "applying" ELSE "marking"
  BY <1>1 DEF ReadTruth, truthVars, ClaimInv, TypeOK
<1>5. fence[Place(copy[w])] = w /\ ~outbox[k].done
  BY <1>1 DEF WorkerIsSafe, InFence
<1>6. IsCurrent(copy[w], rec) => Result(w)' = Truth(copy[w].item)'
  BY <1>3, <1>4 DEF IsCurrent, Result, Truth, Record
<1>7. ASSUME ~IsCurrent(copy[w], rec), ~Newer(k)
      PROVE  shown[Place(copy[w])].rev = Truth(copy[w].item)
  <2>1. PICK h \in DOMAIN outbox :
           /\ outbox[h].item = copy[w].item /\ outbox[h].proj = copy[w].proj
           /\ \A j \in DOMAIN outbox :
                 outbox[j].item = copy[w].item /\ outbox[j].proj = copy[w].proj => j <= h
           /\ Announces(outbox[h], rec)
    <3>1. copy[w].item \in known
      BY <1>1, <1>2 DEF ClaimInv, TruthInv, KnownIsComplete
    <3>2. copy[w].proj \in ProjectionSet
      BY <1>2 DEF Row
    <3> QED  BY <1>1, <3>1, <3>2 DEF ClaimInv, TruthInv, LastRowIsTruth
  <2>2. h = k
    <3>1. h >= k /\ h \in Nat /\ k \in Nat
      BY <1>1, <1>2, <2>1, RowsFact
    <3>2. ~(h > k)
      BY <1>2, <1>7, <2>1 DEF Newer, Place
    <3> QED  BY <3>1, <3>2
  <2>3. copy[w].rev = outbox[k].rev
    BY <1>1, <1>7 DEF ClaimIsOldest
  <2>4. rec.life = "archived" /\ outbox[k].op = "upsert"
    BY <1>2, <1>3, <1>7, <2>1, <2>2, <2>3 DEF Announces, IsCurrent, Record
  <2>5. shown[Place(copy[w])].rev = 0
    <3>1. Place(outbox[k]) = Place(copy[w]) /\ Place(copy[w])[1] = copy[w].item
      BY <1>2 DEF Place
    <3> QED  BY <1>2, <1>7, <2>4, <3>1 DEF FenceInv, BornArchived
  <2> QED  BY <2>4, <2>5 DEF Truth
<1>8. Newer(k)' = Newer(k) /\ Truth(copy[w].item)' = Truth(copy[w].item)
  BY <1>4 DEF Newer, Truth
<1> QED  BY <1>4, <1>5, <1>6, <1>7, <1>8 DEF WorkerIsSafe

LEMMA QuietInv ==
  ASSUME FenceInv, ClaimInv', ~Suspends, NEW w \in Workers,
         \/ ClaimNext(w) \/ EndRun(w) \/ TakeFence(w) \/ CheckClaim(w) \/ ReadTruth(w)
         \/ Release(w) \/ RecordFailure(w) \/ NoticeLoss(w) \/ RenewFails(w) \/ FenceTimeout(w)
         \/ Crash(w) \/ FenceGoesStale(w)
  PROVE  FenceInv'
<1> USE DEF ClaimInv, TypeOK
<1>1. TypeOK /\ ClaimInv /\ WorkerIsSafe(w)
  BY DEF FenceInv
<1>2. CASE ClaimNext(w)
  <2>1. pc'[w] \in {"fencing", "failing"}
    BY <1>1, <1>2 DEF ClaimNext
  <2>2. WorkerIsSafe(w)'
    BY <2>1, SafeOutside DEF InFence
  <2> QED  BY <1>1, <1>2, <2>2, OwnStep DEF ClaimNext
<1>3. CASE EndRun(w)
  <2>1. WorkerIsSafe(w)'
    BY <1>1, <1>3, SafeStays DEF EndRun, WorkerIsSafe
  <2> QED  BY <1>1, <1>3, <2>1, OwnStep DEF EndRun
<1>4. CASE TakeFence(w)
  <2>1. Place(copy[w]) \in Places
    BY <1>1, <1>4, AppliedType DEF TakeFence
  <2>2. pc'[w] = "fenced" /\ fence'[Place(copy'[w])] = w
    BY <1>1, <1>4, <2>1 DEF TakeFence
  <2>3. WorkerIsSafe(w)'
    BY <2>2, SafeOutside
  <2> QED  BY <1>1, <1>4, <2>1, <2>3, OwnStep DEF TakeFence
<1>5. CASE CheckClaim(w)
  <2>1. fence'[Place(copy'[w])] = w /\ UNCHANGED <<outbox, claim>>
    BY <1>1, <1>5 DEF CheckClaim, WorkerIsSafe, InFence, truthVars
  <2>2. pc'[w] = "reading" => ~outbox[claim[w]].done
    BY <1>1, <1>5 DEF CheckClaim, Owns
  <2>3. pc'[w] \in {"reading", "releasing"}
    BY <1>1, <1>5 DEF CheckClaim
  <2>4. WorkerIsSafe(w)'
    BY <2>1, <2>2, <2>3 DEF WorkerIsSafe
  <2> QED  BY <1>1, <1>5, <2>4, OwnStep DEF CheckClaim
<1>6. CASE ReadTruth(w)
  BY <1>1, <1>6, ReadTruthSafe, OwnStep DEF ReadTruth
<1>7. CASE Release(w)
  <2>1. pc'[w] \in {"failing", "idle"} /\ fence' = Unfenced(w) /\ UNCHANGED <<truthVars, shown>>
    BY <1>1, <1>7 DEF Release
  <2>2. WorkerIsSafe(w)'
    BY <2>1, SafeOutside DEF InFence
  <2> QED  BY <1>1, <1>7, <2>1, <2>2, UnfencedFact, OwnStep DEF Release, Forget
<1>8. CASE RecordFailure(w)
  <2>1. pc'[w] = "idle"
    BY <1>1, <1>8 DEF RecordFailure
  <2>2. WorkerIsSafe(w)'
    BY <2>1, SafeOutside DEF InFence
  <2> QED  BY <1>1, <1>8, <2>2, OwnStep DEF RecordFailure, Forget
<1>9. CASE NoticeLoss(w)
  <2>1. WorkerIsSafe(w)'
    BY <1>1, <1>9, SafeStays DEF NoticeLoss, WorkerIsSafe
  <2> QED  BY <1>1, <1>9, <2>1, OwnStep DEF NoticeLoss
<1>10. CASE RenewFails(w)
  <2>1. WorkerIsSafe(w)'
    BY <1>1, <1>10, SafeStays DEF RenewFails, WorkerIsSafe
  <2> QED  BY <1>1, <1>10, <2>1, OwnStep DEF RenewFails
<1>11. CASE FenceTimeout(w)
  <2>1. pc'[w] = "failing"
    BY <1>1, <1>11 DEF FenceTimeout
  <2>2. WorkerIsSafe(w)'
    BY <2>1, SafeOutside DEF InFence
  <2> QED  BY <1>1, <1>11, <2>2, OwnStep DEF FenceTimeout
<1>12. CASE Crash(w)
  <2>1. pc'[w] = "idle" /\ fence' = Unfenced(w) /\ UNCHANGED <<truthVars, shown>>
    BY <1>1, <1>12 DEF Crash
  <2>2. WorkerIsSafe(w)'
    BY <2>1, SafeOutside DEF InFence
  <2> QED  BY <1>1, <1>12, <2>1, <2>2, UnfencedFact, OwnStep DEF Crash, Forget
<1>13. CASE FenceGoesStale(w)
  BY <1>13 DEF FenceGoesStale
<1> QED
  BY <1>2, <1>3, <1>4, <1>5, <1>6, <1>7, <1>8, <1>9, <1>10, <1>11, <1>12, <1>13

(* The place of a row that is applied or marked, and what holds there. *)
LEMMA UnderFence ==
  ASSUME FenceInv, NEW w \in Workers, pc[w] \in {"applying", "marking"}
  PROVE  LET k == claim[w]  a == Place(copy[w]) IN
         /\ k \in DOMAIN outbox /\ k \in Nat /\ k # 0 /\ a \in Places /\ Place(outbox[k]) = a
         /\ a[1] = copy[w].item
         /\ ~outbox[k].done /\ Olders(k) /\ fence[a] = w
         /\ \A v \in Workers \ {w} : pc[v] \in InFence => Place(copy[v]) # a
         /\ shown[a].row <= k
<1> DEFINE k == claim[w]
           a == Place(copy[w])
<1>1. ClaimIsOldest(w) /\ WorkerIsSafe(w) /\ ClaimInv
  BY DEF FenceInv, ClaimInv
<1>2. k \in DOMAIN outbox /\ a \in Places /\ Place(outbox[k]) = a /\ Olders(k)
  BY <1>1, AppliedType DEF ClaimIsOldest
<1>3. ~outbox[k].done /\ fence[a] = w
  BY <1>1 DEF WorkerIsSafe, InFence
<1>4. \A v \in Workers \ {w} : pc[v] \in InFence => Place(copy[v]) # a
  BY <1>3 DEF FenceInv, WorkerIsSafe
<1>5. shown[a].row <= k
  <2> DEFINE r == shown[a].row
  <2>1. r \in Nat /\ k \in Nat /\ k # 0
    BY <1>1, <1>2, RowsFact DEF ClaimInv, TypeOK
  <2>2. CASE r > k
    <3>1. Place(outbox[r]) = a /\ Olders(r) /\ k \in 1..(r - 1)
      BY <1>2, <2>1, <2>2 DEF FenceInv, ShownIsARow
    <3> QED  BY <1>2, <1>3, <3>1 DEF Olders
  <2> QED  BY <2>1, <2>2
<1>6. k \in Nat /\ k # 0 /\ a[1] = copy[w].item
  BY <1>1, <1>2, RowsFact DEF Place
<1> QED  BY <1>2, <1>3, <1>4, <1>5, <1>6

(* An adapter call that takes effect. *)
LEMMA ApplyInv ==
  ASSUME FenceInv, ClaimInv', NEW w \in Workers, pc[w] = "applying", shown' = Applied(w),
         pc' \in {[pc EXCEPT ![w] = "marking"], [pc EXCEPT ![w] = "releasing"]},
         UNCHANGED <<truthVars, owner, fence, claim, copy, memory>>
  PROVE  FenceInv'
<1> DEFINE k == claim[w]
           a == Place(copy[w])
<1>1. /\ k \in DOMAIN outbox /\ k \in Nat /\ k # 0 /\ a \in Places /\ Place(outbox[k]) = a
      /\ a[1] = copy[w].item /\ ~outbox[k].done /\ Olders(k) /\ fence[a] = w
      /\ \A v \in Workers \ {w} : pc[v] \in InFence => Place(copy[v]) # a
  BY UnderFence
<1>2. /\ shown'[a] = [row |-> k, rev |-> Result(w)]
      /\ \A b \in Places : b # a => shown'[b] = shown[b]
  BY <1>1 DEF Applied, Result, FenceInv, ClaimInv, TypeOK
<1>3. Newer(k) \/ Result(w) = Truth(a[1])
  BY <1>1 DEF FenceInv, WorkerIsSafe
<1>4. UNCHANGED <<item, outbox, fence, claim, copy, memory>>
  BY DEF truthVars
<1>5. pc'[w] \in {"marking", "releasing"} /\ \A v \in Workers : v # w => pc'[v] = pc[v]
  BY DEF FenceInv, ClaimInv, TypeOK
<1>6. WorkerIsSafe(w)'
  <2>1. Newer(k)' \/ shown'[a].rev = Truth(copy[w].item)'
    BY <1>1, <1>2, <1>3, <1>4 DEF Newer, Truth
  <2> QED  BY <1>1, <1>4, <1>5, <2>1 DEF WorkerIsSafe
<1>7. ASSUME NEW v \in Workers \ {w} PROVE WorkerIsSafe(v)'
  <2>1. pc[v] = "marking" => Place(copy[v]) # a /\ Place(copy[v]) \in Places
    BY <1>1, AppliedType DEF InFence, FenceInv
  <2> QED  BY <1>2, <1>4, <1>5, <2>1 DEF FenceInv, WorkerIsSafe, Newer, Truth, Result
<1>8. ShownIsARow'
  BY <1>1, <1>2, <1>4 DEF FenceInv, ShownIsARow, Olders
<1>9. BornArchived'
  <2> SUFFICES ASSUME NEW b \in Places, NEW h \in DOMAIN outbox, item[b[1]].life = "archived",
                      Place(outbox[h]) = b, ~Newer(h), outbox[h].op = "upsert"
               PROVE  /\ \A j \in DOMAIN outbox : Place(outbox[j]) = b => j = h
                      /\ shown'[b].rev = 0
    BY <1>4 DEF BornArchived, Newer
  <2>1. (\A j \in DOMAIN outbox : Place(outbox[j]) = b => j = h) /\ shown[b].rev = 0
    BY DEF FenceInv, BornArchived
  <2>2. CASE b = a
    <3>1. h = k
      BY <1>1, <2>1, <2>2
    <3> QED  BY <1>2, <1>3, <2>1, <2>2, <3>1 DEF Truth
  <2>3. CASE b # a
    BY <1>2, <2>1, <2>3
  <2> QED  BY <2>2, <2>3
<1>10. ProcessedIsProjected'
  <2> SUFFICES ASSUME NEW b \in Places, \A j \in Rows(b) : outbox[j].done
               PROVE  shown'[b].rev = Truth(b[1])
    BY <1>4 DEF ProcessedIsProjected, Rows, Truth
  <2>1. b # a
    BY <1>1 DEF Rows
  <2> QED  BY <1>2, <2>1 DEF FenceInv, ProcessedIsProjected
<1> QED  BY <1>6, <1>7, <1>8, <1>9, <1>10 DEF FenceInv

LEMMA MarkFence ==
  ASSUME FenceInv, ClaimInv', NEW w \in Workers, Mark(w)
  PROVE  FenceInv'
<1> DEFINE k == claim[w]
           a == Place(copy[w])
<1>1. /\ k \in DOMAIN outbox /\ k \in Nat /\ k # 0 /\ a \in Places /\ Place(outbox[k]) = a
      /\ a[1] = copy[w].item /\ ~outbox[k].done /\ Olders(k) /\ fence[a] = w
      /\ \A v \in Workers \ {w} : pc[v] \in InFence => Place(copy[v]) # a
  BY UnderFence DEF Mark
<1>2. /\ pc[w] = "marking" /\ pc'[w] = "releasing" /\ \A v \in Workers : v # w => pc'[v] = pc[v]
      /\ UNCHANGED <<item, revisions, known, commits, reading, fence, shown, claim, copy, memory>>
  BY DEF Mark, FenceInv, ClaimInv, TypeOK
<1>3. WorkerIsSafe(w)'
  BY <1>1, <1>2 DEF WorkerIsSafe
<1>4. CASE UNCHANGED outbox
  <2>1. UNCHANGED <<truthVars, shown>>
    BY <1>2, <1>4 DEF truthVars
  <2> QED  BY <1>2, <1>3, <2>1, OwnStep
<1>5. CASE Marks(k)
  <2>1. /\ Keeps /\ outbox'[k].done /\ Len(outbox') = Len(outbox)
        /\ \A j \in DOMAIN outbox : j # k => outbox'[j] = outbox[j]
    BY <1>1, <1>5, MarksFact DEF FenceInv
  <2>2. /\ DOMAIN outbox' = DOMAIN outbox
        /\ \A j \in DOMAIN outbox : /\ Place(outbox'[j]) = Place(outbox[j])
                                    /\ outbox'[j].op = outbox[j].op
                                    /\ Newer(j)' <=> Newer(j)
    BY <2>1 DEF Keeps, Place, Newer
  <2>3. ASSUME NEW v \in Workers \ {w} PROVE WorkerIsSafe(v)'
    <3>1. pc[v] \in {"reading", "applying", "marking"} =>
             /\ Place(copy[v]) # a /\ claim[v] \in DOMAIN outbox
             /\ Place(outbox[claim[v]]) = Place(copy[v])
      BY <1>1, AppliedType DEF InFence, FenceInv, ClaimInv, ClaimIsOldest
    <3>2. pc[v] \in {"reading", "applying", "marking"} => claim[v] # k
      BY <1>1, <3>1
    <3> QED
      BY <1>2, <2>1, <2>2, <3>1, <3>2 DEF FenceInv, WorkerIsSafe, Truth, Result
  <2>4. ShownIsARow'
    <3> SUFFICES ASSUME NEW b \in Places, shown[b].row # 0
                 PROVE  /\ shown[b].row \in DOMAIN outbox'
                        /\ Place(outbox'[shown[b].row]) = b /\ Olders(shown[b].row)'
      BY <1>2 DEF FenceInv, ShownIsARow
    <3>1. shown[b].row \in DOMAIN outbox /\ Place(outbox[shown[b].row]) = b /\ Olders(shown[b].row)
      BY DEF FenceInv, ShownIsARow
    <3> QED  BY <1>2, <2>1, <2>2, <3>1, KeepsOrder
  <2>5. BornArchived'
    BY <1>2, <2>2 DEF FenceInv, BornArchived
  <2>6. ProcessedIsProjected'
    <3> SUFFICES ASSUME NEW b \in Places, \A j \in DOMAIN outbox : Place(outbox[j]) = b => outbox'[j].done
                 PROVE  shown[b].rev = Truth(b[1])
      BY <1>2, <2>2 DEF ProcessedIsProjected, Rows, Truth
    <3>1. CASE b = a
      <4>1. ~Newer(k)
        <5> SUFFICES ASSUME NEW j \in DOMAIN outbox, j > k, Place(outbox[j]) = a PROVE FALSE
          BY <1>1 DEF Newer
        <5>1. outbox[j].done
          BY <1>1, <2>1, <3>1
        <5>2. k \in 1..(j - 1)
          BY <1>1, RowsFact DEF FenceInv
        <5> QED  BY <1>1, <5>1, <5>2 DEF FenceInv, ClaimInv, OldestFirst
      <4> QED  BY <1>1, <1>2, <3>1, <4>1 DEF FenceInv, WorkerIsSafe
    <3>2. CASE b # a
      <4>1. \A j \in Rows(b) : outbox[j].done
        BY <1>1, <2>1, <3>2 DEF Rows
      <4> QED  BY <4>1 DEF FenceInv, ProcessedIsProjected
    <3> QED  BY <3>1, <3>2
  <2> QED  BY <1>3, <2>3, <2>4, <2>5, <2>6 DEF FenceInv
<1> QED  BY <1>4, <1>5 DEF Mark, Marks

LEMMA QueuesFence ==
  ASSUME FenceInv, ClaimInv', NEW i \in Items, NEW op \in {"upsert", "delete", "purge"}, Queues(i, op),
         UNCHANGED <<owner, fence, shown, pc, claim, copy, memory>>
  PROVE  FenceInv'
<1> DEFINE n == Len(outbox)
           m == Len(Projections)
<1>1. /\ Keeps
      /\ \A k \in DOMAIN outbox : outbox[k].item = i => Newer(k)'
      /\ \A k \in DOMAIN outbox' : outbox'[k].done => k \in DOMAIN outbox /\ outbox[k].done
  BY QueuesKeeps DEF FenceInv, ClaimInv, TypeOK
<1>2. /\ n \in Nat /\ m \in Nat /\ DOMAIN outbox = 1..n /\ DOMAIN outbox' = 1..(n + m)
      /\ \A k \in 1..n : outbox[k] \in Row
  BY <1>1, RowsFact, ProjectionsFact DEF Keeps, Queues, FenceInv
<1>3. \A k \in (n + 1)..(n + m) : /\ outbox'[k].item = i /\ outbox'[k].proj = Projections[k - n]
                                  /\ outbox'[k].op = op /\ ~outbox'[k].done
  BY DEF Queues
<1>4. \A k \in 1..(n + m) : k \in 1..n \/ k \in (n + 1)..(n + m)
  BY <1>2
<1>5. \A j \in Items : j # i => item'[j] = item[j] /\ Truth(j)' = Truth(j)
  BY DEF Queues, Truth
<1>6. ASSUME NEW w \in Workers PROVE WorkerIsSafe(w)'
  <2>1. CASE pc[w] \in {"reading", "applying", "marking"}
    <3> DEFINE k == claim[w]
    <3>1. /\ k \in DOMAIN outbox /\ copy[w].item = outbox[k].item /\ copy[w].item \in Items
      BY <1>2, <2>1 DEF FenceInv, ClaimInv, ClaimIsOldest, Row
    <3>2. ~outbox'[k].done
      BY <1>1, <2>1, <3>1, KeepsOrder DEF FenceInv, WorkerIsSafe
    <3>3. CASE copy[w].item = i
      <4>1. Newer(k)'
        BY <1>1, <3>1, <3>3
      <4> QED  BY <3>2, <4>1 DEF FenceInv, WorkerIsSafe
    <3>4. CASE copy[w].item # i
      <4>1. Truth(copy[w].item)' = Truth(copy[w].item) /\ (Newer(k) => Newer(k)')
        BY <1>1, <1>5, <3>1, <3>4, KeepsOrder
      <4> QED  BY <3>2, <4>1 DEF FenceInv, WorkerIsSafe, Result
    <3> QED  BY <3>3, <3>4
  <2>2. CASE pc[w] \notin {"reading", "applying", "marking"}
    BY <2>2 DEF FenceInv, WorkerIsSafe
  <2> QED  BY <2>1, <2>2
<1>7. ShownIsARow'
  <2> SUFFICES ASSUME NEW b \in Places, shown[b].row # 0
               PROVE  /\ shown[b].row \in DOMAIN outbox'
                      /\ Place(outbox'[shown[b].row]) = b /\ Olders(shown[b].row)'
    BY DEF FenceInv, ShownIsARow
  <2>1. shown[b].row \in DOMAIN outbox /\ Place(outbox[shown[b].row]) = b /\ Olders(shown[b].row)
    BY DEF FenceInv, ShownIsARow
  <2> QED  BY <1>1, <2>1, KeepsOrder
<1>8. BornArchived'
  <2> SUFFICES ASSUME NEW a \in Places, NEW k \in 1..(n + m), item'[a[1]].life = "archived",
                      Place(outbox'[k]) = a, ~Newer(k)', outbox'[k].op = "upsert"
               PROVE  /\ \A j \in 1..(n + m) : Place(outbox'[j]) = a => j = k
                      /\ shown[a].rev = 0
    BY <1>2 DEF BornArchived
  <2>1. a[1] = outbox'[k].item /\ a[2] = outbox'[k].proj /\ a[1] \in Items
    BY PlacesFact
  <2>2. CASE a[1] = i
    <3>1. k \in (n + 1)..(n + m)
      <4>1. CASE k \in 1..n
        <5>1. outbox[k].item = i
          BY <1>1, <2>1, <2>2, <4>1 DEF Keeps
        <5> QED  BY <1>1, <1>2, <4>1, <5>1
      <4> QED  BY <1>4, <4>1
    <3>2. i \notin known
      BY <1>3, <2>2, <3>1 DEF Queues
    <3>3. \A j \in 1..n : outbox[j].item # i /\ outbox'[j].item # i
      BY <1>1, <1>2, <3>2 DEF Keeps, FenceInv, ClaimInv, TruthInv, KnownIsComplete
    <3>4. ASSUME NEW j \in 1..(n + m), Place(outbox'[j]) = a PROVE j = k
      <4>1. j \in (n + 1)..(n + m) /\ outbox'[j].proj = a[2]
        BY <1>4, <2>2, <3>3, <3>4, PlacesFact
      <4>2. Projections[j - n] = Projections[k - n] /\ j - n \in 1..m /\ k - n \in 1..m
        BY <1>2, <1>3, <2>1, <3>1, <4>1
      <4>3. j - n = k - n
        BY <4>2, ProjectionsFact
      <4> QED  BY <1>2, <3>1, <4>1, <4>3
    <3>5. shown[a].rev = 0
      <4>1. \A j \in DOMAIN outbox : Place(outbox[j]) # a
        BY <1>2, <2>2, <3>3, PlacesFact
      <4> QED  BY <4>1 DEF FenceInv, ShownIsARow
    <3> QED  BY <3>4, <3>5
  <2>3. CASE a[1] # i
    <3>1. \A j \in 1..(n + m) : Place(outbox'[j]) = a => j \in 1..n /\ Place(outbox[j]) = a
      BY <1>1, <1>2, <1>3, <1>4, <2>3, PlacesFact, KeepsOrder
    <3>2. k \in 1..n /\ Place(outbox[k]) = a /\ outbox[k].op = "upsert" /\ ~Newer(k)
      BY <1>1, <1>2, <3>1, KeepsOrder DEF Keeps
    <3>3. item[a[1]].life = "archived"
      BY <1>5, <2>1, <2>3
    <3> QED  BY <1>2, <3>1, <3>2, <3>3 DEF FenceInv, BornArchived
  <2> QED  BY <2>2, <2>3
<1>9. ProcessedIsProjected'
  <2> SUFFICES ASSUME NEW a \in Places,
                      \A k \in 1..(n + m) : Place(outbox'[k]) = a => outbox'[k].done
               PROVE  shown[a].rev = Truth(a[1])'
    BY <1>2 DEF ProcessedIsProjected, Rows
  <2>1. a[1] # i
    <3> SUFFICES ASSUME a[1] = i PROVE FALSE
      OBVIOUS
    <3>1. PICK p \in 1..m : Projections[p] = a[2]
      BY PlacesFact, ProjectionsFact
    <3>2. n + p \in (n + 1)..(n + m) /\ n + p \in 1..(n + m) /\ (n + p) - n = p
      BY <1>2
    <3>3. outbox'[n + p].item = a[1] /\ outbox'[n + p].proj = a[2] /\ ~outbox'[n + p].done
      BY <1>3, <3>1, <3>2
    <3>4. Place(outbox'[n + p]) = a
      BY <3>3, PlacesFact DEF Place
    <3> QED  BY <3>2, <3>3, <3>4
  <2>2. \A k \in Rows(a) : outbox[k].done
    BY <1>1, <1>2, KeepsOrder DEF Rows
  <2> QED  BY <1>5, <2>1, <2>2, PlacesFact DEF FenceInv, ProcessedIsProjected
<1> QED  BY <1>6, <1>7, <1>8, <1>9 DEF FenceInv

LEMMA FenceInvStep == ~Suspends /\ FenceInv /\ [Next]_vars => FenceInv'
<1> SUFFICES ASSUME ~Suspends, FenceInv, [Next]_vars PROVE FenceInv'
  OBVIOUS
<1>1. ClaimInv'
  BY ClaimInvStep DEF FenceInv
<1>2. CASE Write
  <2>1. UNCHANGED <<owner, fence, shown, pc, claim, copy, memory>>
    BY <1>2 DEF Write, workerVars
  <2>2. CASE UNCHANGED <<item, outbox, commits, known>>
    BY <1>1, <2>1, <2>2 DEF FenceInv, WorkerIsSafe, ShownIsARow, Olders, BornArchived, Newer,
       ProcessedIsProjected, Rows, Truth, Result
  <2>3. ASSUME NEW i \in Items, NEW op \in {"upsert", "delete", "purge"}, Queues(i, op)
        PROVE  FenceInv'
    BY <1>1, <2>1, <2>3, QueuesFence
  <2> QED  BY <1>2, <2>2, <2>3, TruthStep DEF FenceInv, ClaimInv, Write
<1>3. ASSUME NEW w \in Workers, Apply(w) PROVE FenceInv'
  BY <1>1, <1>3, ApplyInv DEF Apply
<1>4. ASSUME NEW w \in Workers, ApplyFails(w) PROVE FenceInv'
  <2>1. CASE shown' = Applied(w)
    BY <1>1, <1>4, <2>1, ApplyInv DEF ApplyFails
  <2>2. CASE shown' = shown
    <3>1. pc'[w] = "releasing" /\ UNCHANGED <<truthVars, fence, claim, copy, memory>>
          /\ pc[w] = "applying" /\ \A v \in Workers : v # w => pc'[v] = pc[v]
      BY <1>4 DEF ApplyFails, FenceInv, ClaimInv, TypeOK
    <3>2. WorkerIsSafe(w)'
      BY <3>1, SafeOutside DEF FenceInv, WorkerIsSafe, InFence
    <3> QED  BY <1>1, <2>2, <3>1, <3>2, OwnStep
  <2> QED  BY <1>4, <2>1, <2>2 DEF ApplyFails
<1>5. ASSUME NEW w \in Workers, Mark(w) PROVE FenceInv'
  BY <1>1, <1>5, MarkFence
<1>6. ASSUME NEW k \in 1..MaxRows, ExpireAbandoned(k) \/ ExpireInUse(k) PROVE FenceInv'
  <2>1. UNCHANGED <<truthVars, fence, shown, workerVars>>
    BY <1>6 DEF ExpireAbandoned, ExpireInUse
  <2>2. \A w \in Workers : WorkerIsSafe(w)'
    BY <2>1, SafeStays DEF workerVars, FenceInv, WorkerIsSafe
  <2> QED  BY <1>1, <2>1, <2>2, Quiet
<1>7. CASE UNCHANGED vars
  <2>1. \A w \in Workers : WorkerIsSafe(w)'
    BY <1>7, SafeStays DEF vars, workerVars, FenceInv, WorkerIsSafe
  <2> QED  BY <1>1, <1>7, <2>1, Quiet DEF vars
<1>8. ASSUME NEW w \in Workers, Work(w) PROVE FenceInv'
  BY <1>1, <1>3, <1>5, <1>8, QuietInv DEF Work
<1>9. CASE Mishap
  BY <1>1, <1>4, <1>6, <1>9, QuietInv DEF Mishap
<1> QED  BY <1>2, <1>6, <1>7, <1>8, <1>9 DEF Next, Expire

LEMMA FenceInvCorrect == ~Suspends /\ Spec => []FenceInv
<1>1. SUFFICES ASSUME ~Suspends PROVE Spec => []FenceInv
  OBVIOUS
<1>2. FenceInv /\ [Next]_vars => FenceInv'
  BY <1>1, FenceInvStep
<1> QED  BY <1>2, FenceInvInit, PTL DEF Spec

(* As long as no process is suspended until its fence goes stale, a place all  *)
(* of whose rows are processed shows what truth holds.                         *)
THEOREM ProcessedMeansProjected == ~Suspends /\ Spec => []ProcessedIsProjected
<1>1. FenceInv => ProcessedIsProjected
  BY DEF FenceInv
<1> QED  BY <1>1, FenceInvCorrect, PTL

(* Whose step an adapter call can be.                                          *)
LEMMA ShownStep ==
  ASSUME [Next]_vars, shown' # shown
  PROVE  \E w \in Workers : /\ pc[w] = "applying" /\ shown' = Applied(w)
                            /\ UNCHANGED <<item, outbox>>
BY DEF Next, vars, Write, Work, Expire, Mishap, ClaimNext, EndRun, TakeFence, CheckClaim, ReadTruth,
   Apply, Mark, Release, RecordFailure, NoticeLoss, RenewFails, FenceTimeout, ApplyFails, Crash,
   FenceGoesStale, ExpireAbandoned, ExpireInUse, truthVars

(* As long as no process is suspended until its fence goes stale, no late      *)
(* adapter call crosses a newer mutation of the place.                         *)
THEOREM NothingGoesBack == ~Suspends /\ Spec => NeverOlder
<1>1. SUFFICES ASSUME ~Suspends PROVE Spec => NeverOlder
  OBVIOUS
<1>2. FenceInv /\ [Next]_vars => [\A a \in Places : shown'[a].row >= shown[a].row]_vars
  <2> SUFFICES ASSUME FenceInv, [Next]_vars, NEW a \in Places PROVE shown'[a].row >= shown[a].row
    OBVIOUS
  <2>1. shown[a].row \in Nat /\ shown \in [Places -> [row : 0..MaxRows, rev : Nat]]
    BY RowsFact DEF FenceInv, ClaimInv, TypeOK
  <2>2. CASE shown' = shown
    BY <2>1, <2>2
  <2>3. CASE shown' # shown
    <3>1. PICK w \in Workers : pc[w] = "applying" /\ shown' = Applied(w)
      BY <2>3, ShownStep
    <3>2. claim[w] \in Nat /\ Place(copy[w]) \in Places /\ shown[Place(copy[w])].row <= claim[w]
      BY <3>1, UnderFence
    <3>3. shown'[a].row \in {shown[a].row, claim[w]}
          /\ (a # Place(copy[w]) => shown'[a].row = shown[a].row)
      BY <2>1, <3>1, <3>2 DEF Applied
    <3> QED  BY <2>1, <3>2, <3>3
  <2> QED  BY <2>2, <2>3
<1> QED  BY <1>1, <1>2, FenceInvCorrect, PTL DEF Spec, NeverOlder

(* As long as no process is suspended until its fence goes stale, no adapter   *)
(* is called for a row that another worker has already processed.              *)
THEOREM NothingTwice == ~Suspends /\ Spec => NeverAppliedAgain
<1>1. SUFFICES ASSUME ~Suspends PROVE Spec => NeverAppliedAgain
  OBVIOUS
<1>2. FenceInv /\ [Next]_vars =>
         [\A w \in Workers : Apply(w) \/ ApplyFails(w) => ~outbox[claim[w]].done]_vars
  BY DEF FenceInv, WorkerIsSafe, Apply, ApplyFails
<1> QED  BY <1>1, <1>2, FenceInvCorrect, PTL DEF Spec, NeverAppliedAgain

-----------------------------------------------------------------------------
(* The workers implement the contract *)

(* What the contract's variables stand for. *)
QueueBar == [k \in DOMAIN outbox |-> [place |-> Place(outbox[k]), finished |-> outbox[k].done]]
WantedBar == [a \in Places |-> Truth(a[1])]
Mutation == [place : Places, finished : BOOLEAN]

LEMMA SequenceFact ==
  ASSUME NEW S, NEW n \in Nat, NEW f, f = [k \in 1..n |-> f[k]], \A k \in 1..n : f[k] \in S
  PROVE  f \in Seq(S) /\ Len(f) = n
OBVIOUS

LEMMA PrefixFact ==
  ASSUME NEW S, NEW f \in Seq(S), NEW g \in Seq(S), Len(f) <= Len(g),
         \A k \in 1..Len(f) : g[k] = f[k]
  PROVE  SubSeq(g, 1, Len(f)) = f
OBVIOUS

BarOK ==
    /\ QueueBar \in Seq(Mutation) /\ Len(QueueBar) = Len(outbox)
    /\ DOMAIN QueueBar = DOMAIN outbox
    /\ \A k \in DOMAIN outbox : /\ QueueBar[k].place = Place(outbox[k])
                                /\ QueueBar[k].finished = outbox[k].done
    /\ WantedBar \in [Places -> Nat]
    /\ \A a \in Places : WantedBar[a] = Truth(a[1])

LEMMA BarFact == ClaimInv => BarOK
<1> SUFFICES ASSUME ClaimInv PROVE BarOK
  OBVIOUS
<1>1. /\ Len(outbox) \in Nat /\ DOMAIN outbox = 1..Len(outbox)
      /\ \A k \in 1..Len(outbox) : outbox[k].done \in BOOLEAN /\ Place(outbox[k]) \in Places
  BY RowsFact DEF Row
<1>2. /\ QueueBar = [k \in 1..Len(outbox) |-> QueueBar[k]]
      /\ \A k \in 1..Len(outbox) : QueueBar[k] \in Mutation
  BY <1>1 DEF QueueBar, Mutation
<1>3. QueueBar \in Seq(Mutation) /\ Len(QueueBar) = Len(outbox)
  BY <1>1, <1>2, SequenceFact
<1>4. \A i \in Items : Truth(i) \in Nat
  BY DEF ClaimInv, TypeOK, TruthTypeOK, Record, Truth
<1> QED  BY <1>1, <1>3, <1>4, PlacesFact DEF QueueBar, WantedBar, BarOK

LEMMA BarFactNext == ClaimInv' => BarOK'
BY BarFact, PTL

LEMMA EnqueueStep ==
  ASSUME ClaimInv, ClaimInv', NEW i \in Items, NEW op \in {"upsert", "delete", "purge"},
         Queues(i, op), UNCHANGED shown, Len(Projections) # 0
  PROVE  Contract!Enqueue
<1> DEFINE n == Len(outbox)
           m == Len(Projections)
<1>1. /\ n \in Nat /\ m \in Nat /\ m # 0 /\ Len(outbox') = n + m
      /\ DOMAIN outbox = 1..n /\ DOMAIN outbox' = 1..(n + m)
  BY RowsFact, ProjectionsFact DEF Queues, ClaimInv, TypeOK, TruthTypeOK
<1>2. \A k \in 1..n : Place(outbox'[k]) = Place(outbox[k]) /\ outbox'[k].done = outbox[k].done
  BY DEF Queues, Place
<1>3. /\ QueueBar \in Seq(Mutation) /\ Len(QueueBar) = n
      /\ QueueBar' \in Seq(Mutation) /\ Len(QueueBar') = n + m
      /\ \A k \in 1..(n + m) : /\ QueueBar'[k].place = Place(outbox'[k])
                               /\ QueueBar'[k].finished = outbox'[k].done
      /\ WantedBar' \in [Places -> Nat]
      /\ \A a \in Places : WantedBar[a] = Truth(a[1]) /\ WantedBar'[a] = Truth(a[1])'
  <2>1. /\ QueueBar' \in Seq(Mutation) /\ Len(QueueBar') = Len(outbox')
        /\ \A k \in DOMAIN outbox' : /\ QueueBar'[k].place = Place(outbox'[k])
                                     /\ QueueBar'[k].finished = outbox'[k].done
        /\ WantedBar' \in [Places -> Nat]
        /\ \A a \in Places : WantedBar'[a] = Truth(a[1])'
    BY BarFactNext DEF BarOK
  <2>2. /\ QueueBar \in Seq(Mutation) /\ Len(QueueBar) = Len(outbox)
        /\ \A a \in Places : WantedBar[a] = Truth(a[1])
    BY BarFact DEF BarOK
  <2> QED  BY <1>1, <2>1, <2>2
<1>4. \A k \in 1..n : QueueBar'[k] = QueueBar[k]
  BY <1>1, <1>2 DEF QueueBar
<1>5. SubSeq(QueueBar', 1, Len(QueueBar)) = QueueBar
  BY <1>1, <1>3, <1>4, PrefixFact
<1>6. \A k \in (n + 1)..(n + m) : k \in 1..(n + m) /\ ~outbox'[k].done
                                  /\ outbox'[k].item = i /\ outbox'[k].proj = Projections[k - n]
  BY <1>1 DEF Queues
<1>7. ASSUME NEW a \in Places, WantedBar'[a] # WantedBar[a]
      PROVE  \E k \in (n + 1)..(n + m) : QueueBar'[k].place = a
  <2>1. a[1] = i
    <3>1. \A j \in Items : j # i => item'[j] = item[j]
      BY DEF Queues
    <3>2. Truth(a[1])' # Truth(a[1]) /\ a[1] \in Items
      BY <1>3, <1>7, PlacesFact
    <3> QED  BY <3>1, <3>2 DEF Truth
  <2>2. PICK p \in 1..m : Projections[p] = a[2]
    BY PlacesFact, ProjectionsFact
  <2>3. n + p \in (n + 1)..(n + m) /\ (n + p) - n = p
    BY <1>1
  <2>4. Place(outbox'[n + p]) = a
    BY <1>6, <2>1, <2>2, <2>3, PlacesFact DEF Place
  <2> QED  BY <1>3, <1>6, <2>3, <2>4
<1>8. /\ Len(QueueBar') > Len(QueueBar)
      /\ \A k \in (Len(QueueBar) + 1)..Len(QueueBar') : ~QueueBar'[k].finished
  BY <1>1, <1>3, <1>6
<1>9. \A a \in Places : WantedBar'[a] # WantedBar[a] =>
         \E k \in (Len(QueueBar) + 1)..Len(QueueBar') : QueueBar'[k].place = a
  BY <1>3, <1>7
<1> QED
  BY <1>3, <1>5, <1>8, <1>9 DEF Contract!Enqueue, QueueBar, WantedBar, Mutation

LEMMA DueFact ==
  ASSUME ClaimInv, NEW k \in DOMAIN outbox, ~outbox[k].done, Olders(k)
  PROVE  Contract!Due(k) /\ (Newer(k) => Contract!Superseded(k))
<1>1. /\ QueueBar[k].finished = FALSE
      /\ \A j \in 1..(k - 1) : QueueBar[j].place = QueueBar[k].place => QueueBar[j].finished
  <2>1. k \in Nat /\ \A j \in 1..(k - 1) : j \in DOMAIN outbox
    BY RowsFact
  <2> QED  BY <2>1, BarFact DEF BarOK, Olders
<1>2. Newer(k) => \E j \in (k + 1)..Len(QueueBar) : QueueBar[j].place = QueueBar[k].place
  <2> SUFFICES ASSUME NEW j \in DOMAIN outbox, j > k, Place(outbox[j]) = Place(outbox[k])
               PROVE  \E h \in (k + 1)..Len(QueueBar) : QueueBar[h].place = QueueBar[k].place
    BY DEF Newer
  <2>1. j \in (k + 1)..Len(QueueBar)
    BY BarFact, RowsFact DEF BarOK
  <2> QED  BY <2>1, BarFact, RowsFact DEF BarOK
<1> QED  BY <1>1, <1>2 DEF Contract!Due, Contract!Superseded, QueueBar


LEMMA WriteContract ==
  ASSUME ClaimInv, ClaimInv', Write
  PROVE  Contract!Enqueue \/ UNCHANGED Contract!contractVars
<1>1. UNCHANGED shown
  BY DEF Write
<1>2. CASE UNCHANGED <<item, outbox, commits, known>>
  BY <1>1, <1>2 DEF Contract!contractVars, Truth
<1>3. ASSUME NEW i \in Items, NEW op \in {"upsert", "delete", "purge"}, Queues(i, op)
      PROVE  Contract!Enqueue \/ UNCHANGED Contract!contractVars
  <2>1. CASE Len(Projections) # 0
    BY <1>1, <1>3, <2>1, EnqueueStep
  <2>2. CASE Len(Projections) = 0
    <3>1. Places = {}
      BY <2>2, PlacesFact, ProjectionsFact
    <3>2. DOMAIN outbox = {} /\ DOMAIN outbox' = {}
      BY <2>2, <1>3, <3>1, RowsFact, ProjectionsFact DEF Queues, ClaimInv, TypeOK, TruthTypeOK
    <3> QED  BY <1>1, <3>1, <3>2 DEF Contract!contractVars
  <2> QED  BY <2>1, <2>2
<1> QED  BY <1>2, <1>3, TruthStep DEF ClaimInv, Write

LEMMA ApplyContract ==
  ASSUME FenceInv, NEW w \in Workers, pc[w] = "applying", shown' = Applied(w),
         UNCHANGED <<item, outbox>>
  PROVE  \E k \in DOMAIN QueueBar : Contract!ProjectDue(k)
<1> DEFINE k == claim[w]
           a == Place(copy[w])
<1>1. /\ ClaimInv /\ k \in DOMAIN outbox /\ a \in Places /\ Place(outbox[k]) = a
      /\ a[1] = copy[w].item /\ ~outbox[k].done /\ Olders(k)
  BY UnderFence DEF FenceInv
<1>2. k \in DOMAIN QueueBar /\ QueueBar[k].place = a /\ WantedBar[a] = Truth(a[1])
  BY <1>1, BarFact DEF BarOK
<1>3. Contract!Due(k) /\ (Newer(k) => Contract!Superseded(k))
  BY <1>1, DueFact
<1>4. /\ shown' = [shown EXCEPT ![a] = [row |-> k, rev |-> Result(w)]]
      /\ shown'[a].rev = Result(w)
  BY <1>1 DEF Applied, Result, ClaimInv, TypeOK
<1>5. Newer(k) \/ Result(w) = Truth(a[1])
  BY <1>1 DEF FenceInv, WorkerIsSafe
<1>6. Result(w) \in Nat
  BY <1>1 DEF Result, ClaimInv, TypeOK, Record
<1>7. UNCHANGED <<QueueBar, WantedBar>>
  BY DEF QueueBar, WantedBar, Truth
<1>8. Contract!ProjectDue(k)
  BY <1>2, <1>3, <1>4, <1>5, <1>6, <1>7 DEF Contract!ProjectDue, QueueBar, WantedBar
<1> QED  BY <1>2, <1>8

LEMMA MarkContract ==
  ASSUME FenceInv, NEW w \in Workers, Mark(w)
  PROVE  (\E k \in DOMAIN QueueBar : Contract!Finish(k)) \/ UNCHANGED Contract!contractVars
<1> DEFINE k == claim[w]
           a == Place(copy[w])
<1>1. /\ ClaimInv /\ k \in DOMAIN outbox /\ a \in Places /\ Place(outbox[k]) = a
      /\ a[1] = copy[w].item /\ ~outbox[k].done /\ Olders(k) /\ pc[w] = "marking"
  BY UnderFence DEF FenceInv, Mark
<1>2. UNCHANGED <<item, shown>>
  BY DEF Mark
<1>3. CASE outbox' = outbox
  BY <1>2, <1>3 DEF Contract!contractVars, Truth
<1>4. CASE outbox' = [outbox EXCEPT ![k].done = TRUE]
  <2>1. k \in DOMAIN QueueBar /\ QueueBar[k].place = a /\ WantedBar[a] = Truth(a[1])
    BY <1>1, BarFact DEF BarOK
  <2>2. Contract!Due(k) /\ (Newer(k) => Contract!Superseded(k))
    BY <1>1, DueFact
  <2>3. Newer(k) \/ shown[a].rev = Truth(a[1])
    BY <1>1 DEF FenceInv, WorkerIsSafe
  <2>4. QueueBar' = [QueueBar EXCEPT ![k].finished = TRUE]
    <3>1. Marks(k)
      BY <1>4 DEF Mark, Marks
    <3>2. /\ DOMAIN outbox' = DOMAIN outbox /\ outbox'[k].done = TRUE
          /\ \A j \in DOMAIN outbox : /\ Place(outbox'[j]) = Place(outbox[j])
                                      /\ j # k => outbox'[j] = outbox[j]
      <4>1. /\ Keeps /\ Len(outbox') = Len(outbox) /\ outbox'[k].done
            /\ \A j \in DOMAIN outbox : j # k => outbox'[j] = outbox[j]
        BY <1>1, <3>1, MarksFact
      <4>2. outbox'[k].done = TRUE
        BY <1>1, <1>4, RowsFact DEF Row
      <4> QED  BY <4>1, <4>2 DEF Keeps, Place
    <3> QED  BY <1>1, <3>2 DEF QueueBar
  <2>5. UNCHANGED WantedBar
    BY <1>2 DEF WantedBar, Truth
  <2>6. Contract!Finish(k)
    <3>1. shown[QueueBar[k].place].rev = WantedBar[QueueBar[k].place] \/ Contract!Superseded(k)
      BY <2>1, <2>2, <2>3
    <3> QED
      BY <1>2, <2>2, <2>4, <2>5, <3>1, Zenon DEF Contract!Finish, QueueBar, WantedBar
  <2>7. \E h \in DOMAIN QueueBar : Contract!Finish(h)
    <3>1. k \in DOMAIN QueueBar
      BY <2>1
    <3> HIDE DEF k, a
    <3> QED  BY <2>6, <3>1 DEF Contract!Finish
  <2> QED  BY <2>7
<1> QED  BY <1>3, <1>4 DEF Mark

(* Whose step a change of the outbox, of truth or of a projection can be. *)
LEMMA ContractStep ==
  ASSUME [Next]_vars, ~UNCHANGED <<item, outbox, shown>>
  PROVE  \/ Write
         \/ \E w \in Workers : \/ Mark(w)
                              \/ /\ pc[w] = "applying" /\ shown' = Applied(w)
                                 /\ UNCHANGED <<item, outbox>>
BY DEF Next, vars, Work, Expire, Mishap, ClaimNext, EndRun, TakeFence, CheckClaim, ReadTruth,
   Apply, Release, RecordFailure, NoticeLoss, RenewFails, FenceTimeout, ApplyFails, Crash,
   FenceGoesStale, ExpireAbandoned, ExpireInUse, truthVars

LEMMA ImplementsStep ==
  ~Suspends /\ FenceInv /\ [Next]_vars => [Contract!ContractNext]_(Contract!contractVars)
<1> SUFFICES ASSUME ~Suspends, FenceInv, [Next]_vars
             PROVE  Contract!ContractNext \/ UNCHANGED Contract!contractVars
  OBVIOUS
<1>1. ClaimInv /\ ClaimInv'
  BY ClaimInvStep DEF FenceInv
<1>2. CASE UNCHANGED <<item, outbox, shown>>
  BY <1>2 DEF Contract!contractVars, Truth
<1>3. CASE Write
  BY <1>1, <1>3, WriteContract DEF Contract!ContractNext
<1>4. ASSUME NEW w \in Workers, Mark(w)
      PROVE  Contract!ContractNext \/ UNCHANGED Contract!contractVars
  BY <1>4, MarkContract DEF Contract!ContractNext, QueueBar
<1>5. ASSUME NEW w \in Workers, pc[w] = "applying", shown' = Applied(w), UNCHANGED <<item, outbox>>
      PROVE  Contract!ContractNext
  BY <1>5, ApplyContract DEF Contract!ContractNext, QueueBar
<1> QED  BY <1>2, <1>3, <1>4, <1>5, ContractStep

LEMMA ImplementsInit == Init => Contract!ContractInit
<1> SUFFICES ASSUME Init PROVE Contract!ContractInit
  OBVIOUS
<1>1. outbox = <<>> /\ DOMAIN outbox = {}
  BY DEF Init, TruthInit
<1>2. \A a \in Places : Truth(a[1]) = 0
  BY PlacesFact DEF Init, TruthInit, Truth, Absent
<1> QED  BY <1>1, <1>2 DEF Init, Contract!ContractInit

(* As long as no process is suspended until its fence goes stale, the workers  *)
(* with their claims, leases, fences, retries and crashes do what               *)
(* ProjectionContract promises, and no more.                                    *)
THEOREM WorkersImplementContract == ~Suspends /\ Spec => ImplementsContract
<1>1. SUFFICES ASSUME ~Suspends PROVE Spec => ImplementsContract
  OBVIOUS
<1>2. FenceInv /\ [Next]_vars => [Contract!ContractNext]_(Contract!contractVars)
  BY <1>1, ImplementsStep
<1> QED
  BY <1>1, <1>2, ImplementsInit, FenceInvCorrect, PTL
  DEF Spec, ImplementsContract, Contract!ContractSpec

===============================================================================
