---------------------------- MODULE DerivedIndex ----------------------------
(***************************************************************************)
(* What the memory store (src/src/store.ts) promises of the vectors it     *)
(* derives from SQL truth: a change of truth is owed to the index from the *)
(* same step on, only the index of an id that is owed is touched, only     *)
(* what truth holds is put there, and the debt is settled once the two     *)
(* agree.                                                                  *)
(***************************************************************************)
EXTENDS Naturals

CONSTANTS
    Ids,      \* memory ids
    Values,   \* what truth can hold of an id
    None      \* it holds nothing

VARIABLES
    source,   \* what truth holds of each id
    index,    \* the values that are indexed under each id
    owed      \* the ids whose index is still to be made good

indexVars == <<source, index, owed>>

IndexInit ==
    /\ source = [i \in Ids |-> None]
    /\ index = [i \in Ids |-> {}]
    /\ owed = {}

Held(i) == IF source[i] = None THEN {} ELSE {source[i]}

(* Truth changes, and is owed to the index at once. *)
Change ==
    \E S \in SUBSET Ids :
        /\ source' \in [Ids -> Values \cup {None}]
        /\ \A i \in Ids \ S : source'[i] = source[i]
        /\ owed' = owed \cup S
        /\ UNCHANGED index

(* What is indexed of an id that is owed is dropped, replaced by what truth *)
(* holds, or joined by it.                                                  *)
Touch(i) ==
    /\ index' \in {[index EXCEPT ![i] = rows] : rows \in {{}, Held(i), index[i] \cup Held(i)}}
    /\ UNCHANGED <<source, owed>>

Settle(i) ==
    /\ index[i] = Held(i)
    /\ owed' = owed \ {i}
    /\ UNCHANGED <<source, index>>

IndexNext == Change \/ \E i \in owed : Touch(i) \/ Settle(i)

IndexSpec == IndexInit /\ [][IndexNext]_indexVars
=============================================================================
