-------------------------- MODULE ProjectionWorkers --------------------------
(***************************************************************************)
(* The workers that carry Truth V2 to its projections                      *)
(* (src/src/v2/workers/projection-worker.ts, the claims of                 *)
(* src/src/v2/storage/sqlite-truth-v2.ts and the apply fence of            *)
(* src/src/v2/storage/projection-apply-fence.ts), beside the writers of    *)
(* TruthV2.                                                                *)
(*                                                                         *)
(* A worker claims the oldest pending outbox row under a lease, takes the  *)
(* fence of the item and projection, checks that the claim is still its    *)
(* own, reads truth, applies, marks the row and gives the fence back; truth *)
(* moves between any two of these steps, leases run out, adapters fail and *)
(* workers die.                                                            *)
(***************************************************************************)
EXTENDS TruthV2, FiniteSetsExt

CONSTANTS
    Workers,    \* runs of a worker in progress at the same time
    Nobody,     \* no worker
    Adapters,   \* Adapters[w]: the projections worker w has an adapter for
    RunLimit,   \* rows a run attempts at most
    MaxFaults,  \* bound: faults in a behaviour
    Suspends    \* TRUE: a process may be suspended until its fence goes stale

MaxRows == MaxCommits * Len(Projections)
Places == Items \X ProjectionSet

ASSUME WorkerAssumption ==
    /\ Nobody \notin Workers
    /\ Adapters \in [Workers -> SUBSET ProjectionSet]
    /\ RunLimit \in Nat \ {0}
    /\ MaxFaults \in Nat
    /\ Suspends \in BOOLEAN

VARIABLES
    owner,      \* projection_outbox_claims: whose unexpired claim a row carries
    fence,      \* holder of the lock file of an item and projection
    shown,      \* the projections: the last apply that took effect
    pc,         \* where each worker stands
    claim,      \* the rowid of the row it works on
    copy,       \* that row as it was read when it was claimed
    memory,     \* the item as it was read under the fence
    lost,       \* leaseLost
    failed,     \* the row is to be recorded as failed
    attempted,  \* rows this run has claimed
    faults      \* faults so far

workerVars == <<pc, claim, copy, memory, lost, failed, attempted>>
vars == <<truthVars, owner, fence, shown, workerVars, faults>>

-----------------------------------------------------------------------------
InFence == {"fenced", "reading", "applying", "marking", "releasing"}
States == {"idle", "fencing", "failing"} \cup InFence

AnyRow == [item |-> AnyItem, proj |-> Projections[1], op |-> "upsert", rev |-> 0, done |-> FALSE]
Place(row) == <<row.item, row.proj>>

TypeOK ==
    /\ TruthTypeOK
    /\ owner \in [1..MaxRows -> Workers \cup {Nobody}]
    /\ fence \in [Places -> Workers \cup {Nobody}]
    /\ shown \in [Places -> [row : 0..MaxRows, rev : Nat]]
    /\ pc \in [Workers -> States]
    /\ claim \in [Workers -> 0..MaxRows]
    /\ copy \in [Workers -> Row \cup {AnyRow}]
    /\ memory \in [Workers -> Record]
    /\ lost \in [Workers -> BOOLEAN]
    /\ failed \in [Workers -> BOOLEAN]
    /\ attempted \in [Workers -> SUBSET (1..MaxRows)]
    /\ faults \in 0..MaxFaults

Init ==
    /\ TruthInit
    /\ owner = [k \in 1..MaxRows |-> Nobody]
    /\ fence = [a \in Places |-> Nobody]
    /\ shown = [a \in Places |-> [row |-> 0, rev |-> 0]]
    /\ pc = [w \in Workers |-> "idle"]
    /\ claim = [w \in Workers |-> 0]
    /\ copy = [w \in Workers |-> AnyRow]
    /\ memory = [w \in Workers |-> Absent]
    /\ lost = [w \in Workers |-> FALSE]
    /\ failed = [w \in Workers |-> FALSE]
    /\ attempted = [w \in Workers |-> {}]
    /\ faults = 0

-----------------------------------------------------------------------------
(* Claims *)

(* Mutant: any pending row may be claimed, whatever is pending before it. *)
Claimable_anyorder(w) ==
    {k \in DOMAIN outbox : ~outbox[k].done /\ owner[k] = Nobody /\ k \notin attempted[w]}

(* Mutant: a row that failed may be claimed again in the same run. *)
Claimable_again(w) ==
    {k \in DOMAIN outbox :
        /\ ~outbox[k].done
        /\ owner[k] = Nobody
        /\ \A j \in 1..(k - 1) : Place(outbox[j]) = Place(outbox[k]) => outbox[j].done}

(* The oldest pending row of its item and projection, unclaimed, and not yet *)
(* attempted by this run.                                                    *)
Claimable(w) ==
    {k \in DOMAIN outbox :
        /\ ~outbox[k].done
        /\ owner[k] = Nobody
        /\ k \notin attempted[w]
        /\ \A j \in 1..(k - 1) : Place(outbox[j]) = Place(outbox[k]) => outbox[j].done}

Owns(w) == owner[claim[w]] = w /\ ~outbox[claim[w]].done

ClaimNext(w) ==
    /\ pc[w] = "idle"
    /\ Cardinality(attempted[w]) < RunLimit
    /\ Claimable(w) # {}
    /\ LET k == Min(Claimable(w)) IN
          /\ owner' = [owner EXCEPT ![k] = w]
          /\ claim' = [claim EXCEPT ![w] = k]
          /\ copy' = [copy EXCEPT ![w] = outbox[k]]
          /\ attempted' = [attempted EXCEPT ![w] = @ \cup {k}]
          /\ pc' = [pc EXCEPT ![w] = IF outbox[k].proj \in Adapters[w] THEN "fencing" ELSE "failing"]
    /\ UNCHANGED <<truthVars, fence, shown, memory, lost, failed, faults>>

(* No row is left for this run, or it has reached its limit. *)
EndRun(w) ==
    /\ pc[w] = "idle"
    /\ attempted[w] # {}
    /\ Claimable(w) = {} \/ Cardinality(attempted[w]) >= RunLimit
    /\ attempted' = [attempted EXCEPT ![w] = {}]
    /\ UNCHANGED <<truthVars, owner, fence, shown, pc, claim, copy, memory, lost, failed, faults>>

-----------------------------------------------------------------------------
(* Under the fence *)

(* Mutant: the fence does not keep anyone out. *)
TakeFence_mutant(w) ==
    /\ pc[w] = "fencing"
    /\ fence' = [fence EXCEPT ![Place(copy[w])] = w]
    /\ pc' = [pc EXCEPT ![w] = "fenced"]
    /\ UNCHANGED <<truthVars, owner, shown, claim, copy, memory, lost, failed, attempted, faults>>

TakeFence(w) ==
    /\ pc[w] = "fencing"
    /\ fence[Place(copy[w])] = Nobody
    /\ fence' = [fence EXCEPT ![Place(copy[w])] = w]
    /\ pc' = [pc EXCEPT ![w] = "fenced"]
    /\ UNCHANGED <<truthVars, owner, shown, claim, copy, memory, lost, failed, attempted, faults>>

(* Mutant: a waiter does not look at its claim again. *)
CheckClaim_mutant(w) ==
    /\ pc[w] = "fenced"
    /\ pc' = [pc EXCEPT ![w] = "reading"]
    /\ UNCHANGED <<truthVars, owner, fence, shown, claim, copy, memory, lost, failed, attempted,
                   faults>>

(* A waiter whose claim was taken over gives up before it touches anything. *)
CheckClaim(w) ==
    /\ pc[w] = "fenced"
    /\ LET mine == ~lost[w] /\ Owns(w) IN
          /\ lost' = [lost EXCEPT ![w] = ~mine]
          /\ pc' = [pc EXCEPT ![w] = IF mine THEN "reading" ELSE "releasing"]
    /\ UNCHANGED <<truthVars, owner, fence, shown, claim, copy, memory, failed, attempted, faults>>

(* Mutant: an obsolete row is applied like any other. *)
IsCurrent_mutant(row, rec) == TRUE

(* isCurrentProjectionMutation *)
IsCurrent(row, rec) ==
    CASE row.op = "purge"  -> rec.life = "absent"
      [] row.op = "delete" -> rec.life = "archived" /\ rec.rev = row.rev
      [] row.op = "upsert" -> rec.life = "live" /\ rec.rev = row.rev

(* An obsolete row is marked without being applied. *)
ReadTruth(w) ==
    /\ pc[w] = "reading"
    /\ LET rec == item[copy[w].item] IN
          /\ memory' = [memory EXCEPT ![w] = rec]
          /\ pc' = [pc EXCEPT ![w] = IF IsCurrent(copy[w], rec) THEN "applying" ELSE "marking"]
    /\ UNCHANGED <<truthVars, owner, fence, shown, claim, copy, lost, failed, attempted, faults>>

(* What an adapter makes of a row: the memory it was handed, or its removal. *)
Applied(w) ==
    [shown EXCEPT ![Place(copy[w])] =
        [row |-> claim[w], rev |-> IF copy[w].op = "upsert" THEN memory[w].rev ELSE 0]]

Apply(w) ==
    /\ pc[w] = "applying"
    /\ shown' = Applied(w)
    /\ pc' = [pc EXCEPT ![w] = "marking"]
    /\ UNCHANGED <<truthVars, owner, fence, claim, copy, memory, lost, failed, attempted, faults>>

Mark(w) ==
    /\ pc[w] = "marking"
    /\ IF ~lost[w] /\ Owns(w)
       THEN /\ outbox' = [outbox EXCEPT ![claim[w]].done = TRUE]
            /\ owner' = [owner EXCEPT ![claim[w]] = Nobody]
            /\ UNCHANGED lost
       ELSE /\ lost' = [lost EXCEPT ![w] = TRUE]
            /\ UNCHANGED <<outbox, owner>>
    /\ pc' = [pc EXCEPT ![w] = "releasing"]
    /\ UNCHANGED <<item, revisions, known, commits, reading, fence, shown, claim, copy, memory,
                   failed, attempted, faults>>

(* w forgets the row it worked on. *)
Forget(w) ==
    /\ claim' = [claim EXCEPT ![w] = 0]
    /\ copy' = [copy EXCEPT ![w] = AnyRow]
    /\ memory' = [memory EXCEPT ![w] = Absent]
    /\ lost' = [lost EXCEPT ![w] = FALSE]
    /\ failed' = [failed EXCEPT ![w] = FALSE]

Unfenced(w) == [a \in Places |-> IF fence[a] = w THEN Nobody ELSE fence[a]]

(* Mutant: the fence is only released when nothing failed. *)
Release_mutant(w) ==
    /\ pc[w] = "releasing"
    /\ fence' = IF failed[w] THEN fence ELSE Unfenced(w)
    /\ IF failed[w]
       THEN /\ pc' = [pc EXCEPT ![w] = "failing"]
            /\ UNCHANGED <<claim, copy, memory, lost, failed>>
       ELSE /\ pc' = [pc EXCEPT ![w] = "idle"]
            /\ Forget(w)
    /\ UNCHANGED <<truthVars, owner, shown, attempted, faults>>

(* The fence is released before a failure is recorded. *)
Release(w) ==
    /\ pc[w] = "releasing"
    /\ fence' = Unfenced(w)
    /\ IF failed[w]
       THEN /\ pc' = [pc EXCEPT ![w] = "failing"]
            /\ UNCHANGED <<claim, copy, memory, lost, failed>>
       ELSE /\ pc' = [pc EXCEPT ![w] = "idle"]
            /\ Forget(w)
    /\ UNCHANGED <<truthVars, owner, shown, attempted, faults>>

(* recordOutboxFailure: the claim is dropped and the row is due again. *)
RecordFailure(w) ==
    /\ pc[w] = "failing"
    /\ owner' = IF ~lost[w] /\ Owns(w) THEN [owner EXCEPT ![claim[w]] = Nobody] ELSE owner
    /\ pc' = [pc EXCEPT ![w] = "idle"]
    /\ Forget(w)
    /\ UNCHANGED <<truthVars, fence, shown, attempted, faults>>

-----------------------------------------------------------------------------
(* Time and faults *)

(* The renewal timer finds that the claim is no longer the worker's. *)
NoticeLoss(w) ==
    /\ pc[w] \notin {"idle", "failing"}
    /\ ~lost[w] /\ ~Owns(w)
    /\ lost' = [lost EXCEPT ![w] = TRUE]
    /\ UNCHANGED <<truthVars, owner, fence, shown, pc, claim, copy, memory, failed, attempted, faults>>

InUse(k) == \E w \in Workers : claim[w] = k /\ owner[k] = w

(* The lease of a row nobody works on any more runs out. *)
ExpireAbandoned(k) ==
    /\ owner[k] # Nobody
    /\ ~InUse(k)
    /\ owner' = [owner EXCEPT ![k] = Nobody]
    /\ UNCHANGED <<truthVars, fence, shown, workerVars, faults>>

Fault == faults < MaxFaults /\ faults' = faults + 1

(* The lease of a row in work runs out: no renewal came through in time. *)
ExpireInUse(k) ==
    /\ Fault
    /\ owner[k] # Nobody
    /\ InUse(k)
    /\ owner' = [owner EXCEPT ![k] = Nobody]
    /\ UNCHANGED <<truthVars, fence, shown, workerVars>>

(* The renewal throws: the worker takes its lease for lost though it stands. *)
RenewFails(w) ==
    /\ Fault
    /\ pc[w] \notin {"idle", "failing"}
    /\ ~lost[w]
    /\ lost' = [lost EXCEPT ![w] = TRUE]
    /\ UNCHANGED <<truthVars, owner, fence, shown, pc, claim, copy, memory, failed, attempted>>

(* The fence retries run out: someone holds this lock file, of the same place *)
(* or of one whose hash shares the stripe.                                    *)
FenceTimeout(w) ==
    /\ Fault
    /\ pc[w] = "fencing"
    /\ \E a \in Places : fence[a] \notin {w, Nobody}
    /\ failed' = [failed EXCEPT ![w] = TRUE]
    /\ pc' = [pc EXCEPT ![w] = "failing"]
    /\ UNCHANGED <<truthVars, owner, fence, shown, claim, copy, memory, lost, attempted>>

(* The adapter throws, before or after its effect. *)
ApplyFails(w) ==
    /\ Fault
    /\ pc[w] = "applying"
    /\ shown' \in {shown, Applied(w)}
    /\ failed' = [failed EXCEPT ![w] = TRUE]
    /\ pc' = [pc EXCEPT ![w] = "releasing"]
    /\ UNCHANGED <<truthVars, owner, fence, claim, copy, memory, lost, attempted>>

(* The process dies: its lock file goes stale, its claims run out. *)
Crash(w) ==
    /\ Fault
    /\ pc[w] # "idle"
    /\ fence' = Unfenced(w)
    /\ pc' = [pc EXCEPT ![w] = "idle"]
    /\ attempted' = [attempted EXCEPT ![w] = {}]
    /\ Forget(w)
    /\ UNCHANGED <<truthVars, owner, shown>>

(* A suspended process does not refresh its lock file; another takes it. *)
FenceGoesStale(w) ==
    /\ Suspends
    /\ Fault
    /\ pc[w] \in InFence
    /\ fence[Place(copy[w])] = w
    /\ fence' = Unfenced(w)
    /\ UNCHANGED <<truthVars, owner, shown, workerVars>>

-----------------------------------------------------------------------------
Write == TruthNext /\ UNCHANGED <<owner, fence, shown, workerVars, faults>>

Work(w) ==
    \/ ClaimNext(w) \/ EndRun(w)
    \/ TakeFence(w) \/ CheckClaim(w) \/ ReadTruth(w) \/ Apply(w) \/ Mark(w) \/ Release(w)
    \/ RecordFailure(w)

Mishap ==
    \/ \E w \in Workers : \/ NoticeLoss(w) \/ RenewFails(w) \/ FenceTimeout(w)
                          \/ ApplyFails(w) \/ Crash(w) \/ FenceGoesStale(w)
    \/ \E k \in 1..MaxRows : ExpireInUse(k)

Expire == \E k \in 1..MaxRows : ExpireAbandoned(k)

Next == Write \/ (\E w \in Workers : Work(w)) \/ Expire \/ Mishap

Spec == Init /\ [][Next]_vars

(* A host that keeps calling run, and a clock that moves. *)
FairSpec ==
    /\ Spec
    /\ \A w \in Workers : WF_vars(Work(w))
    /\ \A k \in 1..MaxRows : WF_vars(ExpireAbandoned(k))

-----------------------------------------------------------------------------
(* Properties *)

Rows(a) == {k \in DOMAIN outbox : Place(outbox[k]) = a}
Truth(i) == IF item[i].life = "live" THEN item[i].rev ELSE 0

(* Processed means projected: when every row of an item and projection is    *)
(* processed, the projection shows what truth holds, the skipped rows, the   *)
(* takeovers and the repeated applies notwithstanding.                       *)
ProcessedIsProjected ==
    \A a \in Places : (\A k \in Rows(a) : outbox[k].done) => shown[a].rev = Truth(a[1])

(* A late adapter call never crosses a newer mutation: what a projection     *)
(* shows only ever gives way to a row as new or newer (the comment at        *)
(* projection-apply-fence.ts:18).                                            *)
NeverOlder == [][\A a \in Places : shown'[a].row >= shown[a].row]_vars

(* A waiter whose claim was taken over never applies the row again after the  *)
(* worker that took it over (projection-worker.ts:87): no adapter is called   *)
(* for a row that is processed already.                                       *)
NeverAppliedAgain ==
    [][\A w \in Workers : Apply(w) \/ ApplyFails(w) => ~outbox[claim[w]].done]_vars

(* A row is processed only after every older row of its item and projection, *)
(* suspended processes and lost fences included.                              *)
OldestFirst ==
    \A k \in DOMAIN outbox : outbox[k].done =>
        \A j \in 1..(k - 1) : Place(outbox[j]) = Place(outbox[k]) => outbox[j].done

(* The projections that every worker has an adapter for. *)
Covered == {q \in ProjectionSet : \A w \in Workers : q \in Adapters[w]}

(* Every row of a covered projection is processed in the end, though the rows *)
(* of another fail for ever and are due again at once, as long as a run       *)
(* attempts more rows than there are failing items (projection-worker.ts:55). *)
Drained ==
    \A k \in 1..MaxRows :
        (k <= Len(outbox) /\ outbox[k].proj \in Covered) ~> (k <= Len(outbox) /\ outbox[k].done)

(* A run ends, though rows fail and are due again at once. *)
RunEnds == \A w \in Workers : []<>(pc[w] = "idle" /\ attempted[w] = {})

(* The workers with their claims, leases, fences, retries and crashes keep    *)
(* the promise of ProjectionContract as long as no process is suspended until *)
(* its fence goes stale (projection-worker.ts:74-110 under the fence of       *)
(* projection-apply-fence.ts).                                                *)
Contract == INSTANCE ProjectionContract WITH
    Targets <- Places,
    queue <- [k \in DOMAIN outbox |-> [place |-> Place(outbox[k]), finished |-> outbox[k].done]],
    wanted <- [a \in Places |-> Truth(a[1])],
    projected <- shown

ImplementsContract == Contract!ContractSpec
=============================================================================
