------------------------------- MODULE TruthV2 -------------------------------
(***************************************************************************)
(* Truth V2 (src/src/v2/storage/sqlite-truth-v2.ts): memory items, their   *)
(* revisions, and the projection outbox that every mutation appends to in  *)
(* the same SQL transaction.                                               *)
(*                                                                         *)
(* A mutation of an existing item reads it first and opens its transaction *)
(* afterwards; BEGIN IMMEDIATE may wait for another process in between, so *)
(* what it writes is computed from a read that can be stale.  Only the     *)
(* constraints of the schema stand between a stale read and the tables.    *)
(*                                                                         *)
(* Data is abstract: a revision id is a number, a content is the revision  *)
(* that carries it, and of the lifecycles only archived is told apart.     *)
(***************************************************************************)
EXTENDS Naturals, Sequences, FiniteSets

CONSTANTS
    Items,        \* item ids
    Projections,  \* the sequence of projections a mutation queues work for
    Writers,      \* processes that mutate truth
    MaxCommits    \* bound: mutations committed in a behaviour

ASSUME TruthAssumption ==
    /\ Items # {}
    /\ MaxCommits \in Nat
    /\ Projections \in Seq({Projections[k] : k \in DOMAIN Projections})
    /\ \A j, k \in DOMAIN Projections : Projections[j] = Projections[k] => j = k

VARIABLES
    item,       \* memory_items: the current row of an item, or Absent
    revisions,  \* memory_revisions of an item
    known,      \* memory_item_identities: ids that were ever used
    outbox,     \* projection_outbox in rowid order
    commits,    \* mutations committed so far; the next revision id
    reading     \* what each writer read before its transaction, or NoRead

truthVars == <<item, revisions, known, outbox, commits, reading>>

-----------------------------------------------------------------------------
Absent == [rev |-> 0, no |-> 0, life |-> "absent"]
Present(i) == item[i].life # "absent"

Record == [rev : Nat, no : Nat, life : {"absent", "live", "archived"}]
Revision == [rev : Nat, no : Nat]
ProjectionSet == {Projections[k] : k \in DOMAIN Projections}
Row == [item : Items, proj : ProjectionSet, op : {"upsert", "delete", "purge"},
        rev : Nat, done : BOOLEAN]

Mutations == {"correct", "archive", "purge"}
Read == [op : Mutations \cup {"none"}, item : Items, rec : Record]
AnyItem == CHOOSE i \in Items : TRUE
NoRead == [op |-> "none", item |-> AnyItem, rec |-> Absent]

TruthTypeOK ==
    /\ item \in [Items -> Record]
    /\ revisions \in [Items -> SUBSET Revision]
    /\ known \subseteq Items
    /\ outbox \in Seq(Row)
    /\ commits \in 0..MaxCommits
    /\ reading \in [Writers -> Read]

TruthInit ==
    /\ item = [i \in Items |-> Absent]
    /\ revisions = [i \in Items |-> {}]
    /\ known = {}
    /\ outbox = <<>>
    /\ commits = 0
    /\ reading = [u \in Writers |-> NoRead]

-----------------------------------------------------------------------------
(* insertOutbox: one row per projection, in order. *)
Queued(i, op, rev) ==
    [k \in DOMAIN Projections |->
        [item |-> i, proj |-> Projections[k], op |-> op, rev |-> rev, done |-> FALSE]]

(* ON DELETE SET NULL: queued rows lose a revision that is purged. *)
Detached(i) ==
    [k \in DOMAIN outbox |->
        IF outbox[k].item = i THEN [outbox[k] EXCEPT !.rev = 0] ELSE outbox[k]]

(* A new current revision of i, with the outbox rows that announce it. *)
Revise(i, rec, op) ==
    /\ commits < MaxCommits
    /\ commits' = commits + 1
    /\ item' = [item EXCEPT ![i] = rec]
    /\ revisions' = [revisions EXCEPT ![i] = @ \cup {[rev |-> rec.rev, no |-> rec.no]}]
    /\ outbox' = outbox \o Queued(i, op, rec.rev)

(* Mutant: the id of a purged item is used again. *)
Remember_mutant(u) ==
    /\ reading[u] = NoRead
    /\ \E i \in Items, life \in {"live", "archived"} :
          /\ ~Present(i)
          /\ Revise(i, [rev |-> commits + 1, no |-> 1, life |-> life], "upsert")
          /\ known' = known \cup {i}
    /\ UNCHANGED reading

(* remember: callers leave the id to the store, or write a new database. *)
Remember(u) ==
    /\ reading[u] = NoRead
    /\ \E i \in Items \ known, life \in {"live", "archived"} :
          /\ Revise(i, [rev |-> commits + 1, no |-> 1, life |-> life], "upsert")
          /\ known' = known \cup {i}
    /\ UNCHANGED reading

(* correct and forget read the item; correct refuses an archived one. *)
ReadItem(u) ==
    /\ reading[u] = NoRead
    /\ \E i \in Items, op \in Mutations :
          /\ Present(i)
          /\ op = "correct" => item[i].life = "live"
          /\ reading' = [reading EXCEPT ![u] = [op |-> op, item |-> i, rec |-> item[i]]]
    /\ UNCHANGED <<item, revisions, known, outbox, commits>>

NextNo(u) == reading[u].rec.no + 1

(* Mutant: revision numbers are not unique. *)
Taken_mutant(u) == FALSE

(* UNIQUE(item_id, revision_no): someone else has written that revision. *)
Taken(u) == \E r \in revisions[reading[u].item] : r.no = NextNo(u)

(* Mutant: the constraint on revision numbers does not stop a correction. *)
Correct_mutant(u) ==
    LET d == reading[u] IN
    /\ d.op = "correct"
    /\ \E r \in revisions[d.item] : r.rev = d.rec.rev
    /\ Revise(d.item, [rev |-> commits + 1, no |-> NextNo(u), life |-> d.rec.life], "upsert")
    /\ reading' = [reading EXCEPT ![u] = NoRead]
    /\ UNCHANGED known

(* The relation to the superseded revision has a foreign key. *)
Correct(u) ==
    LET d == reading[u] IN
    /\ d.op = "correct"
    /\ ~Taken(u)
    /\ \E r \in revisions[d.item] : r.rev = d.rec.rev
    /\ Revise(d.item, [rev |-> commits + 1, no |-> NextNo(u), life |-> d.rec.life], "upsert")
    /\ reading' = [reading EXCEPT ![u] = NoRead]
    /\ UNCHANGED known

(* Mutant: foreign keys are not enforced, and the update meets no row. *)
Archive_unchecked(u) ==
    LET d == reading[u]
        rec == [rev |-> commits + 1, no |-> NextNo(u), life |-> "archived"]
    IN
    /\ d.op = "archive"
    /\ ~Taken(u)
    /\ commits < MaxCommits
    /\ commits' = commits + 1
    /\ item' = IF Present(d.item) THEN [item EXCEPT ![d.item] = rec] ELSE item
    /\ revisions' = [revisions EXCEPT ![d.item] = @ \cup {[rev |-> rec.rev, no |-> rec.no]}]
    /\ outbox' = outbox \o Queued(d.item, "delete", rec.rev)
    /\ reading' = [reading EXCEPT ![u] = NoRead]
    /\ UNCHANGED known

(* Mutant: the rows of an archive name the revision it replaces. *)
Archive_previous(u) ==
    LET d == reading[u]
        rec == [rev |-> commits + 1, no |-> NextNo(u), life |-> "archived"]
    IN
    /\ d.op = "archive"
    /\ ~Taken(u)
    /\ Present(d.item)
    /\ commits < MaxCommits
    /\ commits' = commits + 1
    /\ item' = [item EXCEPT ![d.item] = rec]
    /\ revisions' = [revisions EXCEPT ![d.item] = @ \cup {[rev |-> rec.rev, no |-> rec.no]}]
    /\ outbox' = outbox \o Queued(d.item, "delete", d.rec.rev)
    /\ reading' = [reading EXCEPT ![u] = NoRead]
    /\ UNCHANGED known

(* Mutant: the rows of an archive carry the name of the action. *)
Archive_action(u) ==
    LET d == reading[u] IN
    /\ d.op = "archive"
    /\ ~Taken(u)
    /\ Present(d.item)
    /\ Revise(d.item, [rev |-> commits + 1, no |-> NextNo(u), life |-> "archived"], "archive")
    /\ reading' = [reading EXCEPT ![u] = NoRead]
    /\ UNCHANGED known

(* forget without hardDelete: the revision needs its item when it commits. *)
Archive(u) ==
    LET d == reading[u] IN
    /\ d.op = "archive"
    /\ ~Taken(u)
    /\ Present(d.item)
    /\ Revise(d.item, [rev |-> commits + 1, no |-> NextNo(u), life |-> "archived"], "delete")
    /\ reading' = [reading EXCEPT ![u] = NoRead]
    /\ UNCHANGED known

(* forget with hardDelete: whatever is there by now goes. *)
Purge(u) ==
    LET i == reading[u].item IN
    /\ reading[u].op = "purge"
    /\ commits < MaxCommits
    /\ commits' = commits + 1
    /\ item' = [item EXCEPT ![i] = Absent]
    /\ revisions' = [revisions EXCEPT ![i] = {}]
    /\ outbox' = Detached(i) \o Queued(i, "purge", 0)
    /\ reading' = [reading EXCEPT ![u] = NoRead]
    /\ UNCHANGED known

(* The transaction rolls back: a constraint fails, the database stays busy, *)
(* or the process dies.                                                     *)
GiveUp(u) ==
    /\ reading[u] # NoRead
    /\ reading' = [reading EXCEPT ![u] = NoRead]
    /\ UNCHANGED <<item, revisions, known, outbox, commits>>

Mutate(u) ==
    \/ Remember(u) \/ ReadItem(u) \/ GiveUp(u)
    \/ Correct(u) \/ Archive(u) \/ Purge(u)

TruthNext == \E u \in Writers : Mutate(u)

TruthSpec == TruthInit /\ [][TruthNext]_truthVars

-----------------------------------------------------------------------------
(* Properties *)

(* A purge leaves nothing behind: no revision outlives its item, whatever a   *)
(* writer that had read the item before the purge still commits (forget,      *)
(* sqlite-truth-v2.ts:324-330, against a correct or an archive under way).    *)
PurgeLeavesNothing == \A i \in Items : ~Present(i) => revisions[i] = {}

(* The revisions of an item are one unbroken line that ends in its current    *)
(* row: no two writers have put different revisions on the same one.          *)
HistoryIsLine ==
    \A i \in Items : Present(i) =>
        /\ [rev |-> item[i].rev, no |-> item[i].no] \in revisions[i]
        /\ \A n \in 1..item[i].no : \E r \in revisions[i] : r.no = n
        /\ \A r \in revisions[i] : r.no \in 1..item[i].no
        /\ \A r, s \in revisions[i] : r.rev <= s.rev <=> r.no <= s.no

(* The row that announces what truth says of i: rec is what it holds. *)
Announces(row, rec) ==
    CASE rec.life = "absent"   -> row.op = "purge"
      [] rec.life = "archived" -> row.op \in {"upsert", "delete"} /\ row.rev = rec.rev
      [] rec.life = "live"     -> row.op = "upsert" /\ row.rev = rec.rev

(* The outbox has the last word: for every item and projection the newest     *)
(* row announces the state truth is in, however the mutations interleave, so  *)
(* a projection that follows the rows in order ends where truth is.           *)
LastRowIsTruth ==
    \A i \in known, q \in ProjectionSet :
        \E k \in DOMAIN outbox :
            /\ outbox[k].item = i /\ outbox[k].proj = q
            /\ \A j \in DOMAIN outbox : outbox[j].item = i /\ outbox[j].proj = q => j <= k
            /\ Announces(outbox[k], item[i])

(* A correction that read the item before it was archived cannot bring it     *)
(* back: an archived item stays archived until it is purged (correct rejects  *)
(* archived items; the hardening plan, clawlore-v1-production-hardening-      *)
(* plan.md:22, wants an explicit restore instead).                            *)
ArchivedStaysArchived ==
    [][\A i \in Items : item[i].life = "archived" => item'[i].life \in {"archived", "absent"}]_truthVars

-----------------------------------------------------------------------------
(* The inductive invariant behind these properties *)

(* Items are present only under ids that were used, and rows are of such ids. *)
KnownIsComplete ==
    /\ \A i \in Items : Present(i) => i \in known
    /\ \A k \in DOMAIN outbox : outbox[k].item \in known

(* A revision id is the commit that wrote it. *)
RevisionsAreCommits == \A i \in Items : \A r \in revisions[i] : r.rev <= commits

(* What a writer has read, possibly long ago: a row of a used id, live when it *)
(* is about to be corrected, and, while the item is there, a revision of it;   *)
(* the current row, when it is still the newest.                               *)
ReadIsSound(u) ==
    LET d == reading[u] IN
    /\ d.rec.life # "absent"
    /\ d.op = "correct" => d.rec.life = "live"
    /\ d.item \in known
    /\ Present(d.item) =>
          /\ [rev |-> d.rec.rev, no |-> d.rec.no] \in revisions[d.item]
          /\ d.rec.no = item[d.item].no => d.rec = item[d.item]

ReadsAreSound == \A u \in Writers : reading[u].op # "none" => ReadIsSound(u)

(* The inductive invariant: the schema keeps every stale read harmless         *)
(* (sqlite-truth-v2.ts, whose mutations read before their transaction).        *)
TruthInv ==
    /\ TruthTypeOK
    /\ KnownIsComplete
    /\ RevisionsAreCommits
    /\ ReadsAreSound
    /\ PurgeLeavesNothing
    /\ HistoryIsLine
    /\ LastRowIsTruth

-----------------------------------------------------------------------------
(* What the tables tell of an item: its revisions in the order of their        *)
(* numbers, and where in its life it is.                                       *)
InOrder(revs) ==
    [n \in {r.no : r \in revs} |-> (CHOOSE r \in revs : r.no = n).rev]

StatusOf(i) ==
    IF Present(i) THEN item[i].life ELSE IF i \in known THEN "purged" ELSE "unused"

StatusBar == [i \in Items |-> StatusOf(i)]
LineBar == [i \in Items |-> InOrder(revisions[i])]

Serial == INSTANCE SerialTruth WITH
    Revisions <- 1..MaxCommits, status <- StatusBar, line <- LineBar

(* Reads before BEGIN IMMEDIATE, constraints and rollbacks come to this: every *)
(* mutation acts on the newest revision, as if nobody else were writing        *)
(* (correct and forget of sqlite-truth-v2.ts between any two transactions).    *)
ImplementsSerial == Serial!SerialSpec
=============================================================================
