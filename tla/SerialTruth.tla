----------------------------- MODULE SerialTruth -----------------------------
(***************************************************************************)
(* What the mutations of Truth V2 (src/src/v2/storage/sqlite-truth-v2.ts)  *)
(* promise their callers: each acts on the item as it is, as if the read   *)
(* and the write were one step.  A mutation puts one new revision behind   *)
(* the newest, and none is rewritten, skipped or reordered; an archived    *)
(* item takes no correction, a purged one nothing at all.                  *)
(***************************************************************************)
EXTENDS Naturals, Sequences

CONSTANTS
    Items,        \* item ids
    Revisions     \* revision ids

VARIABLES
    status,       \* where each item is in its life
    line          \* the revisions of each item, the oldest first

serialVars == <<status, line>>

SerialInit ==
    /\ status = [i \in Items |-> "unused"]
    /\ line = [i \in Items |-> <<>>]

(* A revision id names one revision of one item. *)
Fresh(r) == \A i \in Items : \A n \in DOMAIN line[i] : line[i][n] # r

(* Item i becomes s, in a new revision behind the newest. *)
Advance(i, s) ==
    \E r \in Revisions :
        /\ Fresh(r)
        /\ line' = [line EXCEPT ![i] = Append(@, r)]
        /\ status' = [status EXCEPT ![i] = s]

Create(i) == status[i] = "unused" /\ (Advance(i, "live") \/ Advance(i, "archived"))
Amend(i) == status[i] = "live" /\ Advance(i, "live")
Retire(i) == status[i] \in {"live", "archived"} /\ Advance(i, "archived")

(* Also when somebody else has purged the item first. *)
Erase(i) ==
    /\ status[i] # "unused"
    /\ status' = [status EXCEPT ![i] = "purged"]
    /\ line' = [line EXCEPT ![i] = <<>>]

SerialNext == \E i \in Items : Create(i) \/ Amend(i) \/ Retire(i) \/ Erase(i)

SerialSpec == SerialInit /\ [][SerialNext]_serialVars
=============================================================================
