--------------------------- MODULE LiveMaintenance ---------------------------
(***************************************************************************)
(* The operator's maintenance lanes over the live database                 *)
(* (src/v2/operator): a plan binds rows by digest, an encrypted snapshot   *)
(* is taken, and the execution checks both, writes in one transaction that *)
(* checks again, and issues a receipt after reading the database once      *)
(* more.  The gateway keeps running: it stores, edits, deletes and mirrors *)
(* V1 rows between any two of these steps, and another lane's operator may *)
(* apply its own plan.  Three lanes stand for all of them: "archive"       *)
(* (governance, duplicate, unsafe-trace and companion archives), "rewrite" *)
(* (durable and unsafe-trace rewrites) and "append" (V1 rows V2 has no     *)
(* copy of).  Each repeats only some of its checks at each step.           *)
(***************************************************************************)
EXTENDS Naturals, FiniteSets

CONSTANTS
    Items,        \* rows, there already or stored while the lanes run
    Operators,    \* one plan and its execution each
    MaxVersion    \* bound: versions 1..MaxVersion of a V1 row

ASSUME MaintenanceAssumption ==
    MaxVersion \in Nat \ {0} /\ IsFiniteSet(Items)

VARIABLES
    truth1,    \* memory_truth: 0 before a row is stored, its version, Gone
    items2,    \* memory_items: the current revision of each V2 row
    lane,      \* each operator's plan, snapshot and progress
    rollouts   \* clawlore_rollouts_v2: operators whose transaction committed

maintVars == <<truth1, items2, lane, rollouts>>

Gone == MaxVersion + 1         \* a V1 row that was deleted
Rewritten == MaxVersion + 2    \* the text a rewrite plan proposes
Versions == 0..Gone
Present(v) == v \in 1..MaxVersion
Lives == {"candidate", "active", "archived"}
NoRow2 == [life |-> "none", text |-> 0, rev |-> 0]
Row2 == [life : Lives \cup {"none"}, text : 0..Rewritten, rev : Nat]
NoSource == [v1Rows |-> 0, lives |-> [l \in Lives |-> 0]]
NotRead == [source |-> NoSource, items |-> <<>>]
Unplanned == [pc |-> "idle", kind |-> "archive", rows |-> <<>>,
              plan |-> [source |-> NoSource, truth |-> <<>>],
              snapshot |-> <<>>, before |-> NotRead, copy |-> <<>>]

(* What is known of some of the rows. *)
Partial(S) == UNION {[T -> S] : T \in SUBSET Items}
Source == [v1Rows : Nat, lives : [Lives -> Nat]]

(* rows: the bound revisions; plan: the counts it is bound to, and for the *)
(* append lane the digest of V1; before: the counts and the digests of V2  *)
(* its execution takes; copy: V1 rows as the execution read them.          *)
Lane == [pc : {"idle", "planned", "ready", "checked", "read", "open", "committed", "receipt"},
         kind : {"archive", "rewrite", "append"},
         rows : Partial(Row2), plan : [source : Source, truth : Partial(Versions)],
         snapshot : Partial(Versions),
         before : [source : Source, items : Partial(Row2)], copy : Partial(Versions)]

MaintenanceTypeOK ==
    /\ truth1 \in [Items -> Versions]
    /\ items2 \in [Items -> Row2]
    /\ lane \in [Operators -> Lane]
    /\ rollouts \subseteq Operators

Targets(o) == DOMAIN lane[o].rows
Written(o) == DOMAIN lane[o].copy
Goto(o, pc) == lane' = [lane EXCEPT ![o].pc = pc]

(* The execution ends: its memory is gone, and of what it has read the     *)
(* model keeps what went into its rows.                                    *)
End(o, pc) ==
    lane' = [lane EXCEPT ![o].pc = pc, ![o].before = NotRead,
                         ![o].copy = IF o \in rollouts THEN @ ELSE <<>>]

(* memoryTruth.logicalDigest: the rows there are and their text. *)
SameV1(t, u) == \A i \in Items : t[i] = u[i] \/ ~(Present(t[i]) \/ Present(u[i]))

Uncopied == {i \in Items : Present(truth1[i]) /\ items2[i] = NoRow2}

(* Every V2 row in one of these lives still has the V1 row it came from.   *)
HaveV1(lives) == \A i \in Items : items2[i].life \in lives => Present(truth1[i])

(* companionDispositionSourceStateV1: the counts a plan is bound to. *)
SourceState ==
    [v1Rows |-> Cardinality({i \in Items : Present(truth1[i])}),
     lives |-> [l \in Lives |-> Cardinality({i \in Items : items2[i].life = l})]]

(* expectedAfter: n rows more in one life and fewer in another. *)
Moved(source, n, from, to) ==
    [source EXCEPT !.lives = [l \in Lives |-> @[l] + (IF l = to THEN n ELSE 0) - (IF l = from THEN n ELSE 0)]]

---------------------------------------------------------------------------
(* The gateway. *)

StoreV1(i) ==
    /\ truth1[i] = 0
    /\ truth1' = [truth1 EXCEPT ![i] = 1]
    /\ UNCHANGED <<items2, lane, rollouts>>

EditV1(i) ==
    /\ truth1[i] \in 1..MaxVersion - 1
    /\ truth1' = [truth1 EXCEPT ![i] = @ + 1]
    /\ UNCHANGED <<items2, lane, rollouts>>

DeleteV1(i) ==
    /\ Present(truth1[i])
    /\ truth1' = [truth1 EXCEPT ![i] = Gone]
    /\ UNCHANGED <<items2, lane, rollouts>>

(* mirrorRuntimeV1WriteToV2, late in a memory_store: it writes what was    *)
(* stored, whatever V1 holds by now; a row that is there already is a      *)
(* conflict and stays.                                                     *)
MirrorV1(i) ==
    /\ truth1[i] # 0 /\ items2[i] = NoRow2
    /\ items2' = [items2 EXCEPT ![i] = [life |-> "active", text |-> 1, rev |-> 1]]
    /\ UNCHANGED <<truth1, lane, rollouts>>

---------------------------------------------------------------------------
(* Planning: read-only, one connection. *)

PlanLane(o) ==
    /\ lane[o].pc = "idle"
    /\ \E T \in (SUBSET Items) \ {{}}, kind \in {"archive", "rewrite", "append"} :
          /\ kind = "append" => T = Uncopied /\ HaveV1(Lives)
          /\ kind # "append" => HaveV1({"candidate"}) /\ \A i \in T : items2[i].life = "candidate"
          /\ lane' = [lane EXCEPT ![o] =
                [Unplanned EXCEPT !.pc = "planned", !.kind = kind,
                                  !.rows = [i \in T |-> items2[i]],
                                  !.plan = [source |-> SourceState,
                                            truth |-> IF kind = "append" THEN truth1 ELSE <<>>]]]
    /\ UNCHANGED <<truth1, items2, rollouts>>

(* The accepted plan waits for its encrypted snapshot of V1. *)
SnapshotV1(o) ==
    /\ lane[o].pc = "planned"
    /\ lane' = [lane EXCEPT ![o].pc = "ready", ![o].snapshot = truth1]
    /\ UNCHANGED <<truth1, items2, rollouts>>

---------------------------------------------------------------------------
(* Execution. *)

(* createLiveV1AppendDeltaPlanV1 once more, and assertCurrentPlanMatch: the *)
(* same V1 rows and counts, and the same rows to copy.                      *)
PlanIsCurrent(o) ==
    /\ SameV1(truth1, lane[o].plan.truth)
    /\ SourceState = lane[o].plan.source
    /\ Uncopied = Targets(o) /\ HaveV1(Lives)

(* legacyBefore: V1 still is what the snapshot holds.  The append lane has *)
(* planned again just before, and will not again.  Only the governance     *)
(* archive looks for a rollout of its own first; the others find their     *)
(* targets changed in CheckPlan.                                           *)
CheckSnapshot(o) ==
    /\ lane[o].pc = "ready"
    /\ lane[o].kind = "archive" => o \notin rollouts
    /\ lane[o].kind = "append" => PlanIsCurrent(o)
    /\ SameV1(truth1, lane[o].snapshot)
    /\ Goto(o, "checked")
    /\ UNCHANGED <<truth1, items2, rollouts>>

(* buildLegacyMigrationBatchV2: the append lane reads all of V1 again, on a *)
(* connection of its own.                                                   *)
ReadLegacy(o) ==
    /\ lane[o].pc = "checked" /\ lane[o].kind = "append"
    /\ lane' = [lane EXCEPT ![o].pc = "read",
                            ![o].copy = [i \in {j \in Items : Present(truth1[j])} |-> truth1[i]]]
    /\ UNCHANGED <<truth1, items2, rollouts>>

(* assertLiveRowMatches over candidateRows, which joins memory_truth. *)
BoundRowsMatch(o) ==
    \A i \in Targets(o) : items2[i] = lane[o].rows[i] /\ Present(truth1[i])

(* The connection is open: the counts and the bound rows are as planned,   *)
(* and the digests of everything that is there are taken.                  *)
CheckPlan(o) ==
    /\ lane[o].pc = "checked" /\ lane[o].kind # "append"
    /\ SourceState = lane[o].plan.source
    /\ HaveV1({"candidate"}) /\ BoundRowsMatch(o)
    /\ lane' = [lane EXCEPT ![o].pc = "open", ![o].copy = [i \in Targets(o) |-> truth1[i]],
                            ![o].before = [source |-> SourceState, items |-> items2]]
    /\ UNCHANGED <<truth1, items2, rollouts>>

(* The append lane keeps what V2 has no row for, and compares only how many *)
(* those are.                                                               *)
Delta(o) == {i \in Written(o) : items2[i] = NoRow2}

CheckDelta(o) ==
    /\ lane[o].pc = "read"
    /\ Cardinality(Delta(o)) = Cardinality(Targets(o))
    /\ lane' = [lane EXCEPT ![o].pc = "open", ![o].copy = [i \in Delta(o) |-> lane[o].copy[i]],
                            ![o].before = [source |-> SourceState, items |-> items2]]
    /\ UNCHANGED <<truth1, items2, rollouts>>

(* Mutant: only the counts are compared. *)
SameCounts(o) == SourceState = lane[o].before.source

(* What the transaction finds before COMMIT.  Of the V1 rows the append    *)
(* lane only asks that they are still there, a rewrite that their number   *)
(* is the same, and an archive that those of its targets did not change.   *)
BoundaryHolds(o) ==
    /\ o \notin rollouts /\ items2 = lane[o].before.items
    /\ lane[o].kind = "append" => \A i \in Written(o) : Present(truth1[i])
    /\ lane[o].kind # "append" => SameCounts(o) /\ BoundRowsMatch(o)
    /\ lane[o].kind = "archive" => \A i \in Targets(o) : truth1[i] = lane[o].copy[i]

(* The row the lane writes over, or beside, what it found. *)
NewRow2(o, i) ==
    CASE lane[o].kind = "archive" -> [lane[o].rows[i] EXCEPT !.life = "archived", !.rev = @ + 1]
      [] lane[o].kind = "rewrite" -> [lane[o].rows[i] EXCEPT !.text = Rewritten, !.rev = @ + 1]
      [] lane[o].kind = "append"  -> [life |-> "candidate", text |-> lane[o].copy[i], rev |-> 1]

(* BEGIN IMMEDIATE ... COMMIT, or ROLLBACK and an error. *)
Apply(o) ==
    /\ lane[o].pc = "open"
    /\ IF BoundaryHolds(o)
       THEN /\ items2' = [i \in Items |-> IF i \in Written(o) THEN NewRow2(o, i) ELSE items2[i]]
            /\ rollouts' = rollouts \cup {o}
            /\ Goto(o, "committed")
       ELSE UNCHANGED <<items2, rollouts>> /\ End(o, "ready")
    /\ UNCHANGED truth1

(* Mutant: V1 is not compared once more. *)
V1DidMove(o) == TRUE

(* legacyAfter: the receipt is issued only if V1 did not move. *)
V1DidNotMove(o) == SameV1(truth1, lane[o].snapshot)

(* V2 read once more: the counts, and for the append lane also the rows    *)
(* that were there before.                                                 *)
V2IsAsExpected(o) ==
    LET before == lane[o].before.items
        n == Cardinality(Written(o)) IN
    /\ lane[o].kind = "append" =>
          /\ \A i \in Items : before[i] # NoRow2 => items2[i] = before[i]
          /\ Cardinality({i \in Items : items2[i] # NoRow2}) = n + Cardinality({i \in Items : before[i] # NoRow2})
    /\ lane[o].kind = "rewrite" => SameCounts(o)
    /\ lane[o].kind = "archive" => SourceState = Moved(lane[o].before.source, n, "candidate", "archived")

Receipt(o) ==
    /\ lane[o].pc = "committed"
    /\ End(o, IF V1DidNotMove(o) /\ V2IsAsExpected(o) THEN "receipt" ELSE "ready")
    /\ UNCHANGED <<truth1, items2, rollouts>>

(* The governance archive replays by rollout id: the transaction is done,  *)
(* the counts are those it left and its targets are found archived, and    *)
(* the receipt is issued now.                                              *)
ReplayReceipt(o) ==
    /\ lane[o].pc = "ready" /\ o \in rollouts /\ lane[o].kind = "archive"
    /\ SameV1(truth1, lane[o].snapshot)
    /\ SourceState = Moved(lane[o].plan.source, Cardinality(Targets(o)), "candidate", "archived")
    /\ \A i \in Targets(o) : items2[i] = NewRow2(o, i)
    /\ End(o, "receipt")
    /\ UNCHANGED <<truth1, items2, rollouts>>

(* The operator's process dies, or one of its other checks refuses; plan   *)
(* and snapshot are files, and the command can be given again.             *)
OperatorCrash(o) ==
    /\ lane[o].pc \in {"checked", "read", "open", "committed"}
    /\ End(o, "ready")
    /\ UNCHANGED <<truth1, items2, rollouts>>

---------------------------------------------------------------------------
MaintenanceInit ==
    /\ truth1 \in [Items -> {0, 1}]
    /\ \E mirrored \in SUBSET {i \in Items : truth1[i] = 1} :
          items2 = [i \in Items |-> IF i \in mirrored
                      THEN [life |-> "candidate", text |-> 1, rev |-> 1] ELSE NoRow2]
    /\ lane = [o \in Operators |-> Unplanned] /\ rollouts = {}

MaintenanceNext ==
    \/ \E i \in Items : StoreV1(i)
    \/ \E i \in Items : EditV1(i)
    \/ \E i \in Items : DeleteV1(i)
    \/ \E i \in Items : MirrorV1(i)
    \/ \E o \in Operators : PlanLane(o)
    \/ \E o \in Operators : SnapshotV1(o)
    \/ \E o \in Operators : CheckSnapshot(o)
    \/ \E o \in Operators : ReadLegacy(o)
    \/ \E o \in Operators : CheckPlan(o)
    \/ \E o \in Operators : CheckDelta(o)
    \/ \E o \in Operators : Apply(o)
    \/ \E o \in Operators : Receipt(o)
    \/ \E o \in Operators : ReplayReceipt(o)
    \/ \E o \in Operators : OperatorCrash(o)

MaintenanceSpec == MaintenanceInit /\ [][MaintenanceNext]_maintVars

---------------------------------------------------------------------------
(* What the rows a lane commits have to do with the review of its plan.    *)
(* An archive or a rewrite changes no row outside the plan, and each of    *)
(* the plan from exactly the revision that was reviewed: not from one that *)
(* another lane or the gateway wrote since, even when every count is what  *)
(* it was.  The append lane adds as many rows as were planned, all still   *)
(* in V1 and none over a row V2 has; that they are the planned rows, with  *)
(* their reviewed text, holds as long as V1 still is what the snapshot     *)
(* holds.  Once V1 has moved they can be others: equal counts are all that *)
(* live-v1-append-delta-apply.ts:298-302 compares after the snapshot.      *)
IsBoundToReview(o) ==
    /\ \A i \in Items : items2'[i] # items2[i] => i \in Written(o)
    /\ lane[o].kind # "append" =>
          /\ Written(o) = Targets(o)
          /\ \A i \in Targets(o) : items2[i] = lane[o].rows[i]
    /\ lane[o].kind = "append" =>
          /\ Cardinality(Written(o)) = Cardinality(Targets(o))
          /\ \A i \in Written(o) : items2[i] = NoRow2 /\ Present(truth1[i])
          /\ SameV1(truth1, lane[o].snapshot) =>
                /\ Written(o) = Targets(o)
                /\ \A i \in Targets(o) : items2'[i].text = lane[o].snapshot[i]

CommitIsBoundToReview ==
    [][\A o \in Operators : rollouts' = rollouts \cup {o} /\ o \notin rollouts => IsBoundToReview(o)]_maintVars

(* A receipt is true: what the lane wrote was written of the V1 rows the   *)
(* receipt's snapshot holds, although they were compared and read by three *)
(* connections while the gateway wrote.  The one exception is a row the    *)
(* plan has not got that was stored after the snapshot was compared and is *)
(* deleted again by the time of the receipt: V1 looks as if it never was.  *)
ReceiptIsTrue ==
    \A o \in Operators : lane[o].pc = "receipt" =>
        /\ o \in rollouts
        /\ \A i \in Written(o) :
              IF i \in Targets(o) THEN lane[o].copy[i] = lane[o].snapshot[i]
              ELSE lane[o].kind = "append" /\ lane[o].snapshot[i] = 0 /\ truth1[i] = Gone

===============================================================================
