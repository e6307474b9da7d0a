---------------------------- MODULE PrincipalScope ----------------------------
(***************************************************************************)
(* Moving the rows of one private session to their principal's scope       *)
(* (live-principal-scope-apply.ts, live-principal-scope-vector-finalize.ts)*)
(* SQL truth, the V2 copy and a repair debt per moved row change in one    *)
(* transaction; the vectors follow later, one await at a time, and the     *)
(* migration is complete when the debts are gone.  The gateway deletes,    *)
(* patches and repairs the same rows meanwhile.                            *)
(***************************************************************************)
EXTENDS Naturals

CONSTANTS
    Rows,     \* rows of the session
    NoRow     \* the finalizer is between two rows

ASSUME ScopeAssumption == NoRow \notin Rows

VARIABLES
    scope1,      \* memory_truth: scope of each row, "gone" when deleted
    owner2,      \* memory_items and memory_acl: has the principal been assigned
    vscope,      \* vector companion: scope of each row, "gone" when it has none
    debt,        \* vector_companion_repair_outbox: operation of each row's debt
    moved,       \* clawlore_principal_scope_migrations: "none", pending, "complete"
    review,      \* the plan: the rows it moves, {} before there is one
    finalizer    \* where the finalizer is, in which row, and the rows it has
                 \* still to verify

scopeVars == <<scope1, owner2, vscope, debt, moved, review, finalizer>>

Stopped == [pc |-> "stopped", row |-> NoRow, left |-> {}]

ScopeTypeOK ==
    /\ scope1 \in [Rows -> {"source", "target", "gone"}]
    /\ owner2 \subseteq Rows
    /\ vscope \in [Rows -> {"source", "target", "gone"}]
    /\ debt \in [Rows -> {"none", "assignment", "other"}]
    /\ moved \in {"none", "pending", "complete"}
    /\ review \subseteq Rows
    /\ finalizer \in [pc : {"stopped", "next", "vector", "move", "confirm"},
                      row : Rows \cup {NoRow}, left : SUBSET Rows]

---------------------------------------------------------------------------
(* Any write to a row takes it away from the state a plan was made of.     *)
VoidPlan == review' = IF moved = "none" THEN {} ELSE review

(* The gateway.  A write commits truth first; the vector write may fail    *)
(* and leave the row without a vector, or with the one it had, and a debt  *)
(* that overwrites the operation of the one there was.                     *)
PatchRow(i) ==
    /\ scope1[i] # "gone"
    /\ \/ vscope' = [vscope EXCEPT ![i] = scope1[i]] /\ debt' = [debt EXCEPT ![i] = "none"]
       \/ /\ vscope' \in {vscope, [vscope EXCEPT ![i] = "gone"]}
          /\ debt' = [debt EXCEPT ![i] = "other"]
    /\ VoidPlan
    /\ UNCHANGED <<scope1, owner2, moved, finalizer>>

DeleteRow(i) ==
    /\ scope1[i] # "gone"
    /\ scope1' = [scope1 EXCEPT ![i] = "gone"]
    /\ \/ vscope' = [vscope EXCEPT ![i] = "gone"] /\ debt' = [debt EXCEPT ![i] = "none"]
       \/ vscope' = vscope /\ debt' = [debt EXCEPT ![i] = "other"]
    /\ VoidPlan
    /\ UNCHANGED <<owner2, moved, finalizer>>

RepairRow(i) ==
    /\ debt[i] # "none"
    /\ vscope' = [vscope EXCEPT ![i] = scope1[i]]
    /\ debt' = [debt EXCEPT ![i] = "none"]
    /\ UNCHANGED <<scope1, owner2, moved, review, finalizer>>

---------------------------------------------------------------------------
PlanMove ==
    /\ moved = "none"
    /\ review' = {i \in Rows : scope1[i] = "source"} /\ review' # {}
    /\ UNCHANGED <<scope1, owner2, vscope, debt, moved, finalizer>>

(* executeLivePrincipalScopeApplyV1: the eligible rows are classified      *)
(* again under BEGIN IMMEDIATE and must be the plan's; one transaction.  A *)
(* replay finds the migration's row and changes nothing.                   *)
ApplyMove ==
    /\ moved = "none" /\ review # {}
    /\ review = {i \in Rows : scope1[i] = "source"}
    /\ scope1' = [i \in Rows |-> IF i \in review THEN "target" ELSE scope1[i]]
    /\ owner2' = owner2 \cup review
    /\ debt' = [i \in Rows |-> IF i \in review THEN "assignment" ELSE debt[i]]
    /\ moved' = "pending"
    /\ UNCHANGED <<vscope, review, finalizer>>

(* finalizeLivePrincipalScopeVectorsV1, run from the start each time.      *)
StartFinalize ==
    /\ moved # "none" /\ finalizer = Stopped
    /\ finalizer' = [pc |-> "next", row |-> NoRow, left |-> review]
    /\ UNCHANGED <<scope1, owner2, vscope, debt, moved, review>>

(* One row, an await at a time; a step that does not find what it expects  *)
(* throws and ends the run.  First truth, which must be in the target      *)
(* scope.                                                                  *)
Proceed(ok, next) == finalizer' = IF ok THEN next ELSE Stopped

ReadTruth(i) ==
    /\ finalizer.pc = "next" /\ i \in finalizer.left
    /\ Proceed(scope1[i] = "target", [finalizer EXCEPT !.pc = "vector", !.row = i])
    /\ UNCHANGED <<scope1, owner2, vscope, debt, moved, review>>

(* Then the vector entry: in the target scope, or still in the source and  *)
(* under the assignment's own debt.                                        *)
ReadVector(i) ==
    /\ finalizer.pc = "vector" /\ i = finalizer.row
    /\ \/ /\ vscope[i] = "target"
          /\ Proceed(TRUE, [finalizer EXCEPT !.pc = "confirm"])
       \/ /\ vscope[i] # "target"
          /\ Proceed(vscope[i] = "source" /\ debt[i] = "assignment", [finalizer EXCEPT !.pc = "move"])
    /\ UNCHANGED <<scope1, owner2, vscope, debt, moved, review>>

(* updateScope, under the memory store's write lock: a vector that moved   *)
(* or went since is an error.                                              *)
MoveVector(i) ==
    /\ finalizer.pc = "move" /\ i = finalizer.row
    /\ vscope' = IF vscope[i] = "source" THEN [vscope EXCEPT ![i] = "target"] ELSE vscope
    /\ Proceed(vscope[i] = "source", [finalizer EXCEPT !.pc = "confirm"])
    /\ UNCHANGED <<scope1, owner2, debt, moved, review>>

ConfirmVector(i) ==
    /\ finalizer.pc = "confirm" /\ i = finalizer.row
    /\ Proceed(vscope[i] = "target",
               [finalizer EXCEPT !.pc = "next", !.row = NoRow, !.left = @ \ {i}])
    /\ UNCHANGED <<scope1, owner2, vscope, debt, moved, review>>

(* Mutant: debts of other writes do not count. *)
IgnoresOtherDebt == TRUE

(* The last transaction deletes the assignment's debts, and commits only   *)
(* if no other debt of these rows remains.                                 *)
NoOtherDebt == \A i \in review : debt[i] # "other"

CompleteMove ==
    /\ finalizer.pc = "next" /\ finalizer.left = {}
    /\ IF NoOtherDebt
       THEN /\ moved' = "complete"
            /\ debt' = [i \in Rows |-> IF debt[i] = "assignment" THEN "none" ELSE debt[i]]
       ELSE UNCHANGED <<moved, debt>>
    /\ finalizer' = Stopped
    /\ UNCHANGED <<scope1, owner2, vscope, review>>

FinalizerKilled ==
    /\ finalizer # Stopped
    /\ finalizer' = Stopped
    /\ UNCHANGED <<scope1, owner2, vscope, debt, moved, review>>

ScopeInit ==
    /\ scope1 = [i \in Rows |-> "source"] /\ owner2 = {}
    /\ vscope = [i \in Rows |-> "source"] /\ debt = [i \in Rows |-> "none"]
    /\ moved = "none" /\ review = {} /\ finalizer = Stopped

ScopeNext ==
    \/ \E i \in Rows : PatchRow(i) \/ DeleteRow(i) \/ RepairRow(i)
    \/ PlanMove \/ ApplyMove
    \/ StartFinalize \/ CompleteMove \/ FinalizerKilled
    \/ \E i \in Rows : ReadTruth(i) \/ ReadVector(i) \/ MoveVector(i) \/ ConfirmVector(i)

ScopeSpec == ScopeInit /\ [][ScopeNext]_scopeVars

---------------------------------------------------------------------------
(* The step that completes the migration finds every row that still exists *)
(* with its vector in the target scope: also a row the gateway patched,    *)
(* deleted or repaired after the finalizer had verified it.                *)
CompleteMeansConverged ==
    [][moved = "pending" /\ moved' = "complete" =>
          \A i \in review : vscope[i] = scope1[i] /\ (scope1[i] = "target" => i \in owner2)]_scopeVars

===============================================================================
