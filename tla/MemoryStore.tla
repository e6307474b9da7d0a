----------------------------- MODULE MemoryStore -----------------------------
(***************************************************************************)
(* The V1 memory store: SQL truth, the vector companion derived from it    *)
(* and the durable repair debt that links the two (src/src/store.ts,       *)
(* src/src/sql-truth-store.ts and src/src/sqlite-vector-store.ts).         *)
(*                                                                         *)
(* A process runs one asynchronous call at a time.  A call takes the       *)
(* cross-process write lock, commits truth together with a debt row in one *)
(* SQL transaction, and only then touches the companion, one awaited call  *)
(* at a time; every companion call can fail and the process can die        *)
(* between any two steps.                                                  *)
(*                                                                         *)
(* Data is abstract: a truth row is the text it holds, a companion row is  *)
(* the text its embedding was computed from.                               *)
(***************************************************************************)
EXTENDS Naturals, FiniteSets

CONSTANTS
    Procs,    \* flows of control: the processes that open the same dbPath
    Ids,      \* memory ids
    Texts,    \* memory texts; an embedding stands for the text it embeds
    NoText,   \* no row: what a read of an absent id returns
    NoProc,   \* the free lock
    Appends,  \* TRUE: LanceDB, whose add appends; FALSE: sqlite-bruteforce, an upsert
    Ops       \* Ops[p]: the kinds of call process p makes

OpKinds == {"store", "import", "update", "metadata", "delete", "bulkDelete",
            "supersede", "rebuild", "fullRebuild"}

ASSUME StoreAssumption ==
    /\ Ids # {}
    /\ NoText \notin Texts
    /\ NoProc \notin Procs
    /\ Appends \in BOOLEAN
    /\ Ops \in [Procs -> SUBSET OpKinds]

VARIABLES
    truth,      \* memory_truth: id -> text, or NoText
    debt,       \* vector_companion_repair_outbox: id -> action, or "none"
    companion,  \* vector rows of an id, as the set of texts they embed
    used,       \* ids some call has generated or imported
    lock,       \* holder of .memory-write.lock
    pc,         \* where each process stands in its call
    job,        \* the arguments and local variables of that call
    todo,       \* companion work left to the call, see Task
    cur,        \* the piece of companion work in progress
    clean,      \* no companion error so far in the call
    snap        \* what a rebuild read before it took the lock

vars == <<truth, debt, companion, used, lock, pc, job, todo, cur, clean, snap>>

-----------------------------------------------------------------------------
(* Types *)

OptText == Texts \cup {NoText}
DebtKinds == {"none", "upsert", "delete"}

(* One piece of companion work: addVectorCompanion, deleteVectorCompanionById, *)
(* replaceVectorCompanion or a bare markVectorCompanionNeedsRepair.            *)
Task == [kind : {"add", "delete", "replace", "mark"}, id : Ids, vec : OptText]

Job == [op : OpKinds, id : Ids, text : OptText, vec : OptText, new : Ids]

Snapshot == [truth : [Ids -> OptText], listed : SUBSET Ids, debt : [Ids -> DebtKinds]]

Locals == {"idle", "listing", "listed", "waiting"}
Holding == {"locked", "resolved", "syncing", "deleting", "adding", "reconciling", "clearing"}

TypeOK ==
    /\ truth \in [Ids -> OptText]
    /\ debt \in [Ids -> DebtKinds]
    /\ companion \in [Ids -> SUBSET OptText]
    /\ used \in SUBSET Ids
    /\ lock \in Procs \cup {NoProc}
    /\ pc \in [Procs -> Locals \cup Holding]
    /\ job \in [Procs -> Job]
    /\ todo \in [Procs -> SUBSET Task]
    /\ cur \in [Procs -> Task]
    /\ clean \in [Procs -> BOOLEAN]
    /\ snap \in [Procs -> Snapshot]

Present == {i \in Ids : truth[i] # NoText}
Listed == {i \in Ids : companion[i] # {}}

(* Idle values: what a process remembers between calls is nothing. *)
AnyId == CHOOSE i \in Ids : TRUE
NoJob == [op |-> "store", id |-> AnyId, text |-> NoText, vec |-> NoText, new |-> AnyId]
NoTask == [kind |-> "mark", id |-> AnyId, vec |-> NoText]
NoSnap == [truth |-> [i \in Ids |-> NoText], listed |-> {}, debt |-> [i \in Ids |-> "none"]]

Init ==
    /\ truth = [i \in Ids |-> NoText]
    /\ debt = [i \in Ids |-> "none"]
    /\ companion = [i \in Ids |-> {}]
    /\ used = {}
    /\ lock = NoProc
    /\ pc = [p \in Procs |-> "idle"]
    /\ job = [p \in Procs |-> NoJob]
    /\ todo = [p \in Procs |-> {}]
    /\ cur = [p \in Procs |-> NoTask]
    /\ clean = [p \in Procs |-> TRUE]
    /\ snap = [p \in Procs |-> NoSnap]

-----------------------------------------------------------------------------
(* Before the lock *)

durable == <<truth, debt, companion>>

(* The call p makes, with what it reads before it waits for the lock. *)
Submit(p, j) ==
    /\ pc[p] = "idle"
    /\ j.op \in Ops[p]
    /\ job' = [job EXCEPT ![p] = j]
    /\ pc' = [pc EXCEPT ![p] = "waiting"]
    /\ UNCHANGED <<durable, lock, todo, cur, clean, snap>>

(* store: a fresh random id; its text and vector come from the caller. *)
CallStore(p) ==
    \E i \in Ids \ used, t \in Texts :
        /\ Submit(p, [NoJob EXCEPT !.op = "store", !.id = i, !.text = t, !.vec = t])
        /\ used' = used \cup {i}

(* importEntry, whose callers skip an id that hasId reports. *)
CallImport(p) ==
    \E i \in Ids \ Present, t \in Texts :
        /\ Submit(p, [NoJob EXCEPT !.op = "import", !.id = i, !.text = t, !.vec = t])
        /\ used' = used \cup {i}

(* update with a new text and its vector, and update of the metadata alone. *)
CallUpdate(p) ==
    \E i \in used, t \in Texts :
        /\ Submit(p, [NoJob EXCEPT !.op = "update", !.id = i, !.text = t, !.vec = t])
        /\ UNCHANGED used

CallMetadata(p) ==
    \E i \in used :
        /\ Submit(p, [NoJob EXCEPT !.op = "metadata", !.id = i])
        /\ UNCHANGED used

(* delete resolves the id before the lock and returns false when it is absent. *)
CallDelete(p) ==
    \E i \in Present :
        /\ Submit(p, [NoJob EXCEPT !.op = "delete", !.id = i])
        /\ UNCHANGED used

CallBulkDelete(p) ==
    /\ Submit(p, [NoJob EXCEPT !.op = "bulkDelete"])
    /\ UNCHANGED used

CallSupersede(p) ==
    \E i \in used, n \in Ids \ used, t \in Texts :
        /\ Submit(p, [NoJob EXCEPT !.op = "supersede", !.id = i, !.text = t, !.new = n])
        /\ used' = used \cup {n}

(* rebuildVectorCompanion reads truth, then awaits the vector ids, then reads *)
(* the debt, all of it before it asks for the lock.                           *)
CallRebuild(p) ==
    /\ pc[p] = "idle"
    /\ \E op \in Ops[p] \cap {"rebuild", "fullRebuild"} :
          job' = [job EXCEPT ![p] = [NoJob EXCEPT !.op = op]]
    /\ snap' = [snap EXCEPT ![p].truth = truth]
    /\ pc' = [pc EXCEPT ![p] = "listing"]
    /\ UNCHANGED <<durable, used, lock, todo, cur, clean>>

ListVectorIds(p) ==
    /\ pc[p] = "listing"
    /\ snap' = [snap EXCEPT ![p].listed = Listed]
    /\ pc' = [pc EXCEPT ![p] = "listed"]
    /\ UNCHANGED <<durable, used, lock, job, todo, cur, clean>>

ReadRepairDebt(p) ==
    /\ pc[p] = "listed"
    /\ snap' = [snap EXCEPT ![p].debt = debt]
    /\ pc' = [pc EXCEPT ![p] = "waiting"]
    /\ UNCHANGED <<durable, used, lock, job, todo, cur, clean>>

-----------------------------------------------------------------------------
(* The lock, and the end of a call *)

AcquireLock(p) ==
    /\ pc[p] = "waiting"
    /\ lock = NoProc
    /\ lock' = p
    /\ pc' = [pc EXCEPT ![p] = "locked"]
    /\ UNCHANGED <<durable, used, job, todo, cur, clean, snap>>

(* p forgets its call; the lock is free again if p held it. *)
End(p) ==
    /\ pc' = [pc EXCEPT ![p] = "idle"]
    /\ lock' = IF lock = p THEN NoProc ELSE lock
    /\ job' = [job EXCEPT ![p] = NoJob]
    /\ todo' = [todo EXCEPT ![p] = {}]
    /\ cur' = [cur EXCEPT ![p] = NoTask]
    /\ clean' = [clean EXCEPT ![p] = TRUE]
    /\ snap' = [snap EXCEPT ![p] = NoSnap]
    /\ UNCHANGED used

(* The lock retries run out while another process holds it. *)
LockTimeout(p) ==
    /\ pc[p] = "waiting"
    /\ lock # NoProc
    /\ End(p)
    /\ UNCHANGED durable

(* A call throws or returns early before its transaction commits: the row is *)
(* not there, a compare-and-set or an abstracted check fails, SQLite rolls   *)
(* the transaction back.                                                     *)
Refuse(p) ==
    /\ pc[p] \in {"locked", "resolved"}
    /\ End(p)
    /\ UNCHANGED durable

(* The process dies; its lock goes stale and another process may take it. *)
Crash(p) ==
    /\ pc[p] # "idle"
    /\ End(p)
    /\ UNCHANGED durable

-----------------------------------------------------------------------------
(* The SQL transaction of each call: truth and repair intent together *)

(* Mutant: the truth row is committed without its repair intent. *)
Commit_mutant(p, newTruth, intents, work) ==
    /\ truth' = newTruth
    /\ todo' = [todo EXCEPT ![p] = work]
    /\ pc' = [pc EXCEPT ![p] = "syncing"]
    /\ UNCHANGED <<debt, companion, used, lock, job, cur, clean, snap>>

Commit(p, newTruth, intents, work) ==
    /\ truth' = newTruth
    /\ debt' = [i \in Ids |-> IF i \in DOMAIN intents THEN intents[i] ELSE debt[i]]
    /\ todo' = [todo EXCEPT ![p] = work]
    /\ pc' = [pc EXCEPT ![p] = "syncing"]
    /\ UNCHANGED <<companion, used, lock, job, cur, clean, snap>>

(* store and importEntry *)
CommitInsert(p) ==
    LET j == job[p] IN
    /\ pc[p] = "locked"
    /\ j.op \in {"store", "import"}
    /\ Commit(p, [truth EXCEPT ![j.id] = j.text],
              [i \in {j.id} |-> "upsert"],
              {[kind |-> "add", id |-> j.id, vec |-> j.vec]})

CommitDelete(p) ==
    LET j == job[p] IN
    /\ pc[p] = "locked"
    /\ j.op = "delete"
    /\ Commit(p, [truth EXCEPT ![j.id] = NoText],
              [i \in {j.id} |-> "delete"],
              {[kind |-> "delete", id |-> j.id, vec |-> NoText]})

(* Mutant: an action the repair outbox does not know. *)
CommitBulkDelete_mutant(p) ==
    /\ pc[p] = "locked"
    /\ job[p].op = "bulkDelete"
    /\ \E S \in SUBSET Present :
          Commit(p, [i \in Ids |-> IF i \in S THEN NoText ELSE truth[i]],
                 [i \in S |-> "bulkDelete"],
                 {[kind |-> "delete", id |-> i, vec |-> NoText] : i \in S})

CommitBulkDelete(p) ==
    /\ pc[p] = "locked"
    /\ job[p].op = "bulkDelete"
    /\ \E S \in SUBSET Present :
          Commit(p, [i \in Ids |-> IF i \in S THEN NoText ELSE truth[i]],
                 [i \in S |-> "delete"],
                 {[kind |-> "delete", id |-> i, vec |-> NoText] : i \in S})

(* Mutant: the row resolved before the lock is trusted under it. *)
ResolveRow_mutant(p) ==
    LET j == job[p] IN
    /\ pc[p] = "locked"
    /\ j.op \in {"update", "metadata", "supersede"}
    /\ \E v \in companion[j.id] \cup {NoText} :
          job' = CASE j.op = "update" -> job
                   [] j.op = "metadata" -> [job EXCEPT ![p].text = truth[j.id], ![p].vec = v]
                   [] j.op = "supersede" -> [job EXCEPT ![p].vec = v]
    /\ pc' = [pc EXCEPT ![p] = "resolved"]
    /\ UNCHANGED <<durable, used, lock, todo, cur, clean, snap>>

(* update and supersede resolve the row under the lock, and await the        *)
(* companion for its current vector: whichever row the query meets first, or *)
(* none when there is none or the query fails.                               *)
ResolveRow(p) ==
    LET j == job[p] IN
    /\ pc[p] = "locked"
    /\ j.op \in {"update", "metadata", "supersede"}
    /\ truth[j.id] # NoText
    /\ \/ /\ j.op = "update"
          /\ job' = job
       \/ /\ j.op = "metadata"
          /\ \E v \in companion[j.id] \cup {NoText} :
                job' = [job EXCEPT ![p].text = truth[j.id], ![p].vec = v]
       \/ /\ j.op = "supersede"
          /\ \E v \in companion[j.id] \cup {NoText} :
                job' = [job EXCEPT ![p].vec = v]
    /\ pc' = [pc EXCEPT ![p] = "resolved"]
    /\ UNCHANGED <<durable, used, lock, todo, cur, clean, snap>>

(* Without a vector to write there is nothing to replace: the debt is marked. *)
Rewrite(i, v) ==
    [kind |-> IF v = NoText THEN "mark" ELSE "replace", id |-> i, vec |-> v]

CommitUpdate(p) ==
    LET j == job[p] IN
    /\ pc[p] = "resolved"
    /\ j.op \in {"update", "metadata"}
    /\ Commit(p, [truth EXCEPT ![j.id] = j.text],
              [i \in {j.id} |-> "upsert"],
              {Rewrite(j.id, j.vec)})

(* Mutant: the new row commits without a repair intent of its own. *)
CommitSupersede_mutant(p) ==
    LET j == job[p] IN
    /\ pc[p] = "resolved"
    /\ j.op = "supersede"
    /\ truth[j.id] # NoText
    /\ Commit(p, [truth EXCEPT ![j.new] = j.text],
              [i \in {j.id} |-> "upsert"],
              {Rewrite(j.id, j.vec), [kind |-> "add", id |-> j.new, vec |-> j.text]})

(* supersedeAtomically: the predecessor keeps its text (its metadata is      *)
(* invalidated) and must still be there; the revision gets a row of its own. *)
CommitSupersede(p) ==
    LET j == job[p] IN
    /\ pc[p] = "resolved"
    /\ j.op = "supersede"
    /\ truth[j.id] # NoText
    /\ Commit(p, [truth EXCEPT ![j.new] = j.text],
              [i \in {j.id, j.new} |-> "upsert"],
              {Rewrite(j.id, j.vec), [kind |-> "add", id |-> j.new, vec |-> j.text]})

(* rebuildVectorCompanion: the work is computed from what was read before    *)
(* the lock; a row whose embedding fails is skipped and spoils the result.   *)
BeginRebuild(p) ==
    LET s == snap[p]
        missing == {i \in Ids : s.truth[i] # NoText}
        due == IF job[p].op = "fullRebuild" THEN missing
               ELSE {i \in missing : i \notin s.listed \/ s.debt[i] = "upsert"}
        stale == (s.listed \ missing) \cup {i \in Ids : s.debt[i] = "delete"}
    IN
    /\ pc[p] = "locked"
    /\ job[p].op \in {"rebuild", "fullRebuild"}
    /\ \E embedded \in SUBSET due :
          /\ todo' = [todo EXCEPT ![p] =
                {[kind |-> "delete", id |-> i, vec |-> NoText] : i \in stale}
                \cup {[kind |-> "replace", id |-> i, vec |-> s.truth[i]] : i \in embedded}]
          /\ clean' = [clean EXCEPT ![p] = (embedded = due)]
    /\ pc' = [pc EXCEPT ![p] = "syncing"]
    /\ UNCHANGED <<durable, used, lock, job, cur, snap>>

-----------------------------------------------------------------------------
(* The companion work: one awaited call, one durable write, at a time *)

Rank(t) == CASE t.kind = "delete" -> 1
             [] t.kind \in {"replace", "mark"} -> 2
             [] t.kind = "add" -> 3

StartTask(p) ==
    /\ pc[p] = "syncing"
    /\ \E t \in todo[p] :
          /\ \A u \in todo[p] : Rank(t) <= Rank(u)
          /\ todo' = [todo EXCEPT ![p] = @ \ {t}]
          /\ cur' = [cur EXCEPT ![p] = t]
          /\ pc' = [pc EXCEPT ![p] = CASE t.kind = "add" -> "adding"
                                       [] t.kind = "mark" -> "reconciling"
                                       [] OTHER -> "deleting"]
    /\ UNCHANGED <<durable, used, lock, job, clean, snap>>

(* markVectorCompanionNeedsRepair: its own write may fail, and is swallowed. *)
MarkDebt(i, action) ==
    debt' \in {debt, [debt EXCEPT ![i] = action]}

DeleteVector(p) ==
    LET t == cur[p] IN
    /\ pc[p] = "deleting"
    /\ companion' = [companion EXCEPT ![t.id] = {}]
    /\ pc' = [pc EXCEPT ![p] = IF t.kind = "replace" THEN "adding" ELSE "clearing"]
    /\ UNCHANGED <<truth, debt, used, lock, job, todo, cur, clean, snap>>

(* Mutant: an add after a failed delete clears the debt all the same. *)
DeleteVectorFails_mutant(p) ==
    LET t == cur[p] IN
    /\ pc[p] = "deleting"
    /\ MarkDebt(t.id, "delete")
    /\ clean' = [clean EXCEPT ![p] = FALSE]
    /\ pc' = [pc EXCEPT ![p] = IF t.kind = "replace" THEN "adding" ELSE "syncing"]
    /\ UNCHANGED <<truth, companion, used, lock, job, todo, cur, snap>>

(* The delete fails: a replace still adds, but then marks the debt instead of *)
(* clearing it.                                                               *)
DeleteVectorFails(p) ==
    LET t == cur[p] IN
    /\ pc[p] = "deleting"
    /\ MarkDebt(t.id, "delete")
    /\ clean' = [clean EXCEPT ![p] = FALSE]
    /\ pc' = [pc EXCEPT ![p] = IF t.kind = "replace" THEN "adding" ELSE "syncing"]
    /\ UNCHANGED <<truth, companion, used, lock, job, todo, snap>>
    /\ cur' = [cur EXCEPT ![p].kind = IF @ = "replace" THEN "mark" ELSE @]

AddVector(p) ==
    LET t == cur[p] IN
    /\ pc[p] = "adding"
    /\ companion' = [companion EXCEPT ![t.id] = IF Appends THEN @ \cup {t.vec} ELSE {t.vec}]
    /\ pc' = [pc EXCEPT ![p] = IF t.kind = "mark" THEN "reconciling" ELSE "clearing"]
    /\ UNCHANGED <<truth, debt, used, lock, job, todo, cur, clean, snap>>

(* Mutant: a failed add is not counted as an error. *)
AddVectorFails_mutant(p) ==
    LET t == cur[p] IN
    /\ pc[p] = "adding"
    /\ MarkDebt(t.id, "upsert")
    /\ pc' = [pc EXCEPT ![p] = "syncing"]
    /\ UNCHANGED <<truth, companion, used, lock, job, todo, cur, clean, snap>>

AddVectorFails(p) ==
    LET t == cur[p] IN
    /\ pc[p] = "adding"
    /\ MarkDebt(t.id, "upsert")
    /\ clean' = [clean EXCEPT ![p] = FALSE]
    /\ pc' = [pc EXCEPT ![p] = "syncing"]
    /\ UNCHANGED <<truth, companion, used, lock, job, todo, cur, snap>>

(* No vector to write, or an add after a failed delete: the debt is marked. *)
Reconcile(p) ==
    /\ pc[p] = "reconciling"
    /\ MarkDebt(cur[p].id, "upsert")
    /\ pc' = [pc EXCEPT ![p] = "syncing"]
    /\ UNCHANGED <<truth, companion, used, lock, job, todo, cur, clean, snap>>

(* clearVectorCompanionRepair: its own write may fail, and is swallowed. *)
ClearDebt(p) ==
    /\ pc[p] = "clearing"
    /\ MarkDebt(cur[p].id, "none")
    /\ pc' = [pc EXCEPT ![p] = "syncing"]
    /\ UNCHANGED <<truth, companion, used, lock, job, todo, cur, clean, snap>>

Return(p) ==
    /\ pc[p] = "syncing" /\ todo[p] = {}
    /\ End(p)
    /\ UNCHANGED durable

-----------------------------------------------------------------------------
Call(p) ==
    \/ CallStore(p) \/ CallImport(p) \/ CallUpdate(p) \/ CallMetadata(p)
    \/ CallDelete(p) \/ CallBulkDelete(p) \/ CallSupersede(p)
    \/ CallRebuild(p) \/ ListVectorIds(p) \/ ReadRepairDebt(p)

Transaction(p) ==
    \/ CommitInsert(p) \/ CommitDelete(p) \/ CommitBulkDelete(p)
    \/ ResolveRow(p) \/ CommitUpdate(p) \/ CommitSupersede(p)
    \/ BeginRebuild(p)

Sync(p) ==
    \/ StartTask(p)
    \/ DeleteVector(p) \/ DeleteVectorFails(p)
    \/ AddVector(p) \/ AddVectorFails(p)
    \/ Reconcile(p) \/ ClearDebt(p)

Exit(p) ==
    \/ LockTimeout(p) \/ Refuse(p) \/ Crash(p) \/ Return(p)

Next == \E p \in Procs : Call(p) \/ AcquireLock(p) \/ Transaction(p) \/ Sync(p) \/ Exit(p)

Spec == Init /\ [][Next]_vars

-----------------------------------------------------------------------------
(* Properties *)

(* The companion holds for this id exactly what SQL truth would embed. *)
InSync(i) == companion[i] = IF truth[i] = NoText THEN {} ELSE {truth[i]}

(* The debt is the memory of every unfinished companion write: whenever the  *)
(* vector rows of an id differ from SQL truth, in the middle of a call, after *)
(* a failed companion call, after a crash at any point, a debt row says so    *)
(* (store.ts writes the intent in the truth transaction and clears it last).  *)
DriftIsIndebted == \A i \in Ids : debt[i] = "none" => InSync(i)

(* Whatever the mix of writes, metadata rewrites and supersedes included, a  *)
(* memory without a debt row has vector rows exactly when it has a truth row. *)
PresenceIsIndebted ==
    \A i \in Ids : debt[i] = "none" => (truth[i] = NoText <=> companion[i] = {})

(* A row that no debt accounts for and that the doctor's comparison of ids   *)
(* cannot see either: the id is on both sides but the vector is of another   *)
(* text.  Recall then ranks the memory by what it no longer says.            *)
NoSilentDrift ==
    \A i \in Ids :
        debt[i] = "none" /\ truth[i] # NoText /\ companion[i] # {} => InSync(i)

(* A deleted memory does not come back: no call that was already under way   *)
(* when the row was deleted writes it again; only an import creates an id     *)
(* a second time.                                                             *)
DeletedStaysDeleted ==
    [][\A i \in used :
          truth[i] = NoText /\ truth'[i] # NoText =>
             \E p \in Procs : /\ job[p].id = i \/ job[p].new = i
                              /\ job[p].op \in {"store", "import", "supersede"}
                              /\ pc[p] \in {"locked", "resolved"}
                              /\ job[p].op = "supersede" => job[p].new = i]_vars

(* A full repair that reports no error has repaired: when it returns, the    *)
(* vector rows are those of SQL truth for every id and no stale row is left.  *)
CleanFullRepair ==
    [][\A p \in Procs :
          Return(p) /\ job[p].op = "fullRebuild" /\ clean[p] => \A i \in Ids : InSync(i)]_vars

-----------------------------------------------------------------------------
(* The inductive invariant behind DriftIsIndebted, for the writes that bring  *)
(* their own embedding.                                                       *)

WritesOnly ==
    \A p \in Procs :
        Ops[p] \subseteq {"store", "update", "delete", "bulkDelete"}
                         \cup (IF Appends THEN {} ELSE {"import"})

BeforeCommit(p) == pc[p] \in {"waiting", "locked", "resolved"}
WithTask(p) == pc[p] \in {"deleting", "adding", "reconciling", "clearing"}

(* The lock is held by the one process that is past its wait for it. *)
LockIsHeld == \A p \in Procs : pc[p] \in Holding <=> lock = p

(* An id no call has ever named has left no trace. *)
UnusedIsBlank ==
    \A i \in Ids \ used : truth[i] = NoText /\ companion[i] = {} /\ debt[i] = "none"

(* The arguments of a call that has not committed yet; no repair runs. *)
ArgumentsAreSound(p) ==
    /\ job[p].op \in Ops[p]
    /\ job[p].op # "bulkDelete" => job[p].id \in used
    /\ job[p].op \in {"store", "import", "update"} =>
          job[p].text \in Texts /\ job[p].vec = job[p].text
    /\ pc[p] = "resolved" => job[p].op = "update" /\ truth[job[p].id] # NoText

JobIsSound ==
    \A p \in Procs : /\ pc[p] \notin {"listing", "listed"}
                     /\ BeforeCommit(p) => ArgumentsAreSound(p)

(* The id of a store that has not committed is blank and nobody else's. *)
FreshIsBlank ==
    \A p \in Procs : BeforeCommit(p) /\ job[p].op = "store" /\ Appends =>
        /\ truth[job[p].id] = NoText
        /\ companion[job[p].id] = {}
        /\ debt[job[p].id] = "none"
        /\ \A q \in Procs \ {p} :
              BeforeCommit(q) /\ job[q].op \in {"store", "delete"} => job[q].id # job[p].id

(* Companion work still to be done: its id is in debt, and what it will write *)
(* is what truth holds.                                                       *)
TaskIsSound(t) ==
    /\ debt[t.id] # "none"
    /\ t.id \in used
    /\ t.kind = "add" => t.vec = truth[t.id] /\ t.vec \in Texts
                         /\ (Appends => companion[t.id] = {})
    /\ t.kind = "replace" => t.vec = truth[t.id] /\ t.vec \in Texts
    /\ t.kind = "delete" => truth[t.id] = NoText

WorkIsSound ==
    \A p \in Procs : pc[p] = "syncing" \/ WithTask(p) =>
        /\ \A t \in todo[p] : TaskIsSound(t)
        /\ \A t, u \in todo[p] : t.id = u.id => t = u

(* The piece of work in progress. *)
TaskInHandIsSound(p) ==
    /\ debt[cur[p].id] # "none"
    /\ cur[p].id \in used
    /\ \A t \in todo[p] : t.id # cur[p].id
    /\ pc[p] = "deleting" =>
          /\ cur[p].kind \in {"delete", "replace"}
          /\ cur[p].kind = "delete" => truth[cur[p].id] = NoText
    /\ pc[p] \in {"deleting", "adding"} /\ cur[p].kind # "delete" =>
          cur[p].vec = truth[cur[p].id] /\ cur[p].vec \in Texts
    /\ pc[p] = "adding" =>
          /\ cur[p].kind # "delete"
          /\ Appends /\ cur[p].kind # "mark" => companion[cur[p].id] = {}
    /\ pc[p] = "clearing" => InSync(cur[p].id)

CurrentIsSound == \A p \in Procs : WithTask(p) => TaskInHandIsSound(p)

Inv ==
    /\ TypeOK
    /\ LockIsHeld
    /\ UnusedIsBlank
    /\ JobIsSound
    /\ FreshIsBlank
    /\ WorkIsSound
    /\ CurrentIsSound
    /\ DriftIsIndebted

-----------------------------------------------------------------------------
(* What the debt is for *)

(* The ids with a row in the repair outbox. *)
InDebt == {i \in Ids : debt[i] # "none"}

Index == INSTANCE DerivedIndex WITH
    Values <- Texts, None <- NoText, source <- truth, index <- companion, owed <- InDebt

(* Calls, locks, tasks, failures and crashes come to this: truth and debt move *)
(* together, the companion of an id is touched only while its debt row stands, *)
(* only with what truth holds at that moment, and the row goes once the two    *)
(* agree (store.ts between a commit and the companion work that follows it).   *)
ImplementsIndex == Index!IndexSpec
=============================================================================
