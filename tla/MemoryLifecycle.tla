--------------------------- MODULE MemoryLifecycle ---------------------------
(***************************************************************************)
(* The life of a V1 memory row above the store: the agent tools and the    *)
(* extractor's merge handlers, which read a row, wait, and write the whole *)
(* row back (memory-*-tools.ts, smart-extractor.ts, llm-memory-merge.ts,   *)
(* conflict-governance.ts), and the operator jobs, which rewrite the same  *)
(* table in SQL transactions of their own that do not take the store's     *)
(* write lock (forgetting.ts, governance-cleanup.ts,                       *)
(* candidate-promotion.ts).                                                *)
(*                                                                         *)
(* Calls run concurrently in the gateway, one await at a time; an operator *)
(* job runs in a process of its own, so what it reads before BEGIN         *)
(* IMMEDIATE may have changed inside it.  What MemoryStore shows of one    *)
(* store call (debt, companion errors) is not repeated: a store call is    *)
(* its lock, its read and its commit.                                      *)
(***************************************************************************)
EXTENDS Naturals, FiniteSets

CONSTANTS
    N,          \* ids are 1..N in the order of their timestamps
    Legacy,     \* the first ids, under which an earlier version may have left rows
    Texts,      \* what a row can say
    KeyOf,      \* the fact_key a temporal text derives, NoKey for the others
    Noise,      \* texts governance cleanup classifies as template noise
    Secret,     \* texts the safety policies refuse
    Calls,      \* the calls the gateway makes, each of them once
    Kinds,      \* the kinds of call they make
    Jobs,       \* the kinds of job the operator runs
    Batches,    \* cleanup batch ids, each used once (randomUUID)
    NoText, NoKey, NoBatch, NoCall

ASSUME LifecycleAssumption ==
    /\ N \in Nat \ {0} /\ Legacy \in 0..N
    /\ KeyOf \in [Texts -> Texts \cup {NoKey}] /\ NoKey \notin Texts
    /\ Noise \subseteq Texts /\ Secret \subseteq Texts
    /\ NoText \notin Texts /\ NoBatch \notin Batches /\ NoCall \notin Calls

VARIABLES
    rows,     \* memory_truth: text and lifecycle metadata of every id
    vecs,     \* ids with a row in the vector companion
    v2,       \* ids mirrored into V2 truth
    next,     \* the next id a store generates
    lock,     \* holder of the store's write lock
    call,     \* local state of each gateway call
    job,      \* local state of the operator's job
    audit,    \* governance_audit_events: rows a cleanup batch replaced
    purged,   \* history: ids a hard delete removed
    orphans,  \* history: rows a failed or killed memory_store left unmirrored
    bypassed  \* history: an operator job committed while the lock was held

lifeVars == <<rows, vecs, v2, next, lock, call, job, audit, purged, orphans, bypassed>>

Ids == 1..N
States == {"absent", "candidate", "live", "archived"}

(* cur: neither invalidated_at nor superseded_by is set. *)
Row == [st : States, cur : BOOLEAN, text : Texts \cup {NoText},
        key : Texts \cup {NoKey}, tag : Batches \cup {NoBatch}]
Absent == [st |-> "absent", cur |-> TRUE, text |-> NoText, key |-> NoKey, tag |-> NoBatch]
NewRow(t) == [st |-> "live", cur |-> TRUE, text |-> t, key |-> KeyOf[t], tag |-> NoBatch]

Present == {i \in Ids : rows[i].st # "absent"}
Active == {i \in Ids : rows[i].st \in {"candidate", "live"}}

Idle == [kind |-> "none", pc |-> "idle", id |-> 1, seen |-> Absent, md |-> Absent,
         say |-> NoText, todo |-> {}, bad |-> FALSE]
Done == [Idle EXCEPT !.pc = "done"]
NoJob == [kind |-> "none", ids |-> {}, seen |-> [i \in Ids |-> Absent], batch |-> NoBatch]

Call == [kind : Kinds \cup {"none"},
         pc : {"idle", "done", "ready", "held", "storing", "stored", "undoing", "planned", "vectors"},
         id : Ids, seen : Row, md : Row, say : Texts \cup {NoText}, todo : SUBSET Ids, bad : BOOLEAN]
JobOf(kinds, batches) ==
    [kind : kinds, ids : SUBSET Ids, seen : [Ids -> Row], batch : batches]
Job == JobOf({"none", "forget", "promote"}, {NoBatch}) \cup JobOf({"cleanup", "rollback"}, Batches)

LifecycleTypeOK ==
    /\ rows \in [Ids -> Row]
    /\ vecs \subseteq Ids /\ v2 \subseteq Ids /\ purged \subseteq Ids /\ orphans \subseteq Ids
    /\ next \in 1..N + 1
    /\ lock \in Calls \cup {NoCall}
    /\ call \in [Calls -> Call]
    /\ \A c \in Calls : (call[c].pc = "held") <=> (lock = c)
    /\ job \in Job
    /\ audit \in [Batches -> [Ids -> Row]]
    /\ bypassed \in BOOLEAN

(* Mutant: archived rows do not count. *)
ClashOfActive(r) ==
    \E i, j \in Ids : /\ i # j /\ r[i].key # NoKey /\ r[i].key = r[j].key
                      /\ {r[i].st, r[j].st} \subseteq {"candidate", "live"}
                      /\ r[i].cur /\ r[j].cur

(* The triggers of memory_truth: two current rows of a scope with one fact_key. *)
Clash(r) ==
    \E i, j \in Ids : /\ i # j /\ r[i].key # NoKey /\ r[i].key = r[j].key
                      /\ r[i].st # "absent" /\ r[j].st # "absent"
                      /\ r[i].cur /\ r[j].cur

(* Rows an earlier version may have left: candidates, secrets, noise, versions *)
(* that were superseded since.                                                 *)
LegacyRows == {r \in Row : /\ r.st # "absent" /\ r.text \in Texts
                           /\ r.key = KeyOf[r.text] /\ r.tag = NoBatch}

LifecycleInit ==
    /\ \E old \in [1..Legacy -> LegacyRows \cup {Absent}] :
          rows = [i \in Ids |-> IF i <= Legacy THEN old[i] ELSE Absent]
    /\ ~Clash(rows)
    /\ vecs = Present
    /\ next = Legacy + 1
    /\ v2 = {} /\ purged = {} /\ orphans = {}
    /\ lock = NoCall
    /\ call = [c \in Calls |-> Idle]
    /\ job = NoJob
    /\ audit = [b \in Batches |-> [i \in Ids |-> Absent]]
    /\ bypassed = FALSE

-----------------------------------------------------------------------------
(* Gateway calls: what a call reads before the store's lock *)

Local(c, l) ==
    /\ call' = [call EXCEPT ![c] = l]
    /\ UNCHANGED <<rows, vecs, v2, next, lock, job, audit, purged, orphans, bypassed>>

(* A read-modify-write of row i: what it writes is computed from this read. *)
Start(c, k, i, md, say) ==
    /\ call[c].pc = "idle" /\ k \in Kinds /\ i \in Present
    /\ Local(c, [Idle EXCEPT !.kind = k, !.pc = "ready", !.id = i,
                             !.seen = rows[i], !.md = md, !.say = say])

MemoryArchive(c, i) == Start(c, "archive", i, [rows[i] EXCEPT !.st = "archived"], NoText)
MemoryPromote(c, i) == Start(c, "promote", i, [rows[i] EXCEPT !.st = "live"], NoText)

(* memory_update: a new text for a temporal fact supersedes it. *)
MemoryUpdate(c, i, t) ==
    t \notin Secret /\ Start(c, IF rows[i].key = NoKey THEN "edit" ELSE "revise", i, rows[i], t)

(* These write the row back whole.  A row without a fact key keeps having     *)
(* none here; the code may derive one from its text (deriveFactKey).          *)
HandleSupport(c, i) == Start(c, "support", i, rows[i], NoText)
HandleContradict(c, i, t) == t \notin Secret /\ Start(c, "contradict", i, rows[i], t)

(* The provider is shown the row and rewrites it; unsafe rows never leave.    *)
(* The counters of support the handler then updates by a compare-and-set of   *)
(* its own are no part of a row here.                                         *)
HandleMerge(c, i, t) ==
    rows[i].text \notin Secret /\ t \notin Secret /\ Start(c, "merge", i, rows[i], t)

MemoryForget(c, i) == Start(c, "delete", i, rows[i], NoText)

(* The new version is stored first, then the copy of the old one invalidated. *)
HandleSupersede(c, i, t) ==
    /\ call[c].pc = "idle" /\ "supersede" \in Kinds /\ i \in Present /\ t \notin Secret
    /\ Local(c, [Idle EXCEPT !.kind = "supersede", !.pc = "storing", !.id = i, !.say = t,
                             !.seen = rows[i], !.md = [rows[i] EXCEPT !.cur = FALSE]])

(* memory_store: the duplicate check fails open, so it never blocks a store. *)
StoreMemory(c, t) ==
    /\ call[c].pc = "idle" /\ "store" \in Kinds /\ t \notin Secret
    /\ Local(c, [Idle EXCEPT !.kind = "store", !.pc = "storing", !.say = t])

(* memory_compact keeps the newest of the duplicates it lists. *)
MemoryCompact(c) ==
    LET drop == {i \in Active : \E j \in Active : j > i /\ rows[j].text = rows[i].text} IN
    /\ call[c].pc = "idle" /\ "compact" \in Kinds /\ drop # {}
    /\ Local(c, [Idle EXCEPT !.kind = "compact", !.pc = "planned", !.todo = drop])

CompactNext(c, i) ==
    LET rest == call[c].todo \ {i} IN
    /\ call[c].pc = "planned" /\ i \in call[c].todo
    /\ Local(c, IF i \in Present
                THEN [call[c] EXCEPT !.pc = "ready", !.id = i, !.todo = rest,
                                     !.seen = rows[i],
                                     !.md = [rows[i] EXCEPT !.st = "archived"]]
                ELSE IF rest = {} THEN Done ELSE [call[c] EXCEPT !.todo = rest])

-----------------------------------------------------------------------------
(* Gateway calls: the store calls they make *)

(* Mutant: two calls are inside the lock. *)
LockShared == TRUE

(* The cross-process write lock and, inside it, the queue of updates. *)
LockFree == lock = NoCall

(* Where a call goes once its update has returned. *)
After(l) ==
    CASE l.kind = "compact" /\ l.todo # {} -> [l EXCEPT !.pc = "planned"]
      [] l.kind = "contradict" -> [l EXCEPT !.pc = "storing"]
      [] OTHER -> Done

(* A merge whose source is gone or unsafe is stored as a new row, and so is  *)
(* one whose source has changed twice; after the first change it starts over. *)
MergeAgain(l) ==
    IF l.id \notin Present \/ l.bad \/ rows[l.id].text \in Secret
    THEN [l EXCEPT !.pc = "storing"]
    ELSE [l EXCEPT !.bad = TRUE, !.seen = rows[l.id], !.md = rows[l.id]]

(* Mutant: update ignores the expected snapshot. *)
ConflictIgnored(l) == FALSE

(* The expected snapshot of an update; only merges pass one. *)
Conflict(l) == l.kind = "merge" /\ rows[l.id] # l.seen

(* Mutant: the row is not looked up under the lock. *)
FoundAlways(l) == TRUE

Found(l) == l.id \in Present

(* update and supersede resolve the row under the lock, then await the       *)
(* companion.  An edit keeps the metadata it resolved, the others bring the  *)
(* copy they made; edits and merges bring a text, the others keep the one    *)
(* resolved.                                                                 *)
UpdateResolve(c) ==
    LET l == call[c]
        md == CASE l.kind = "edit" -> [rows[l.id] EXCEPT !.text = l.say]
                [] l.kind = "merge" -> [l.md EXCEPT !.text = l.say]
                [] l.kind = "revise" -> [rows[l.id] EXCEPT !.cur = FALSE]
                [] OTHER -> [l.md EXCEPT !.text = rows[l.id].text]
    IN
    /\ l.pc = "ready" /\ l.kind # "delete" /\ LockFree
    /\ CASE Found(l) /\ ~Conflict(l) ->
               /\ lock' = c
               /\ call' = [call EXCEPT ![c] = [l EXCEPT !.pc = "held", !.md = md]]
               /\ bypassed' = FALSE
               /\ UNCHANGED <<rows, vecs, v2, next, job, audit, purged, orphans>>
         [] OTHER -> Local(c, IF l.kind = "merge" THEN MergeAgain(l) ELSE After(l))

(* Mutant: rows are written without the safety check. *)
RefusedNever(t) == FALSE

(* The write policy of the store. *)
Refused(t) == t \in Secret

(* One SQL transaction that makes the table r, or aborts and throws. *)
Write(c, r, ids, done) ==
    IF Clash(r)
    THEN /\ call' = [call EXCEPT ![c] = Done]
         /\ UNCHANGED <<rows, vecs>>
    ELSE /\ rows' = r
         /\ vecs' = vecs \cup ids
         /\ call' = [call EXCEPT ![c] = done]

(* The upsert writes the whole row, whatever has become of it meanwhile. *)
UpdateCommit(c) ==
    LET l == call[c] IN
    /\ l.pc = "held" /\ l.kind # "revise"
    /\ lock' = NoCall
    /\ IF Refused(l.md.text)
       THEN /\ call' = [call EXCEPT ![c] = Done]
            /\ UNCHANGED <<rows, vecs>>
       ELSE Write(c, [rows EXCEPT ![l.id] = l.md], {l.id}, After(l))
    /\ UNCHANGED <<v2, next, job, audit, purged, orphans, bypassed>>

(* store.supersede: both versions in one transaction, which wants the old one *)
(* still there and the new one to be the only current row of its fact.       *)
SupersedeCommit(c) ==
    LET l == call[c]
        new == [NewRow(l.say) EXCEPT !.key = l.md.key]
        safe == l.id \in Present /\ ~Refused(l.md.text)
    IN
    /\ l.pc = "held" /\ l.kind = "revise" /\ next <= N
    /\ lock' = NoCall
    /\ Write(c, IF safe THEN [rows EXCEPT ![l.id] = l.md, ![next] = new] ELSE rows,
             IF safe THEN {l.id, next} ELSE {}, Done)
    /\ next' = next + 1
    /\ UNCHANGED <<v2, job, audit, purged, orphans, bypassed>>

(* delete: resolved before the lock, removed by id under it; the V2 copy stays. *)
DeleteCommit(c) ==
    LET l == call[c] IN
    /\ l.pc = "ready" /\ l.kind = "delete" /\ LockFree
    /\ rows' = [rows EXCEPT ![l.id] = Absent]
    /\ vecs' = vecs \ {l.id}
    /\ call' = [call EXCEPT ![c] = Done]
    /\ UNCHANGED <<v2, next, lock, job, audit, purged, orphans, bypassed>>

(* The row a store call inserts.  A contradicting row carries no fact_key; a *)
(* superseding one carries that of the row it is about to invalidate.        *)
Stored(l) ==
    CASE l.kind = "supersede" -> [NewRow(l.say) EXCEPT !.key = l.md.key]
      [] l.kind = "contradict" -> [NewRow(l.say) EXCEPT !.key = NoKey]
      [] OTHER -> NewRow(l.say)

(* store: a fresh id; a call of memory_store goes on to the mirror, a         *)
(* superseding call to the update of the old version.                         *)
StoreCommit(c) ==
    LET l == call[c] IN
    /\ l.pc = "storing" /\ LockFree /\ next <= N
    /\ Write(c, [rows EXCEPT ![next] = Stored(l)], {next},
             CASE l.kind = "store" -> [l EXCEPT !.pc = "stored", !.id = next]
               [] l.kind = "supersede" -> [l EXCEPT !.pc = "ready"]
               [] OTHER -> Done)
    /\ next' = next + 1
    /\ UNCHANGED <<v2, lock, job, audit, purged, orphans, bypassed>>

(* Mutant: a failed mirror is reported without the compensating delete. *)
MirrorUncompensated(c) ==
    LET l == call[c] IN
    /\ l.pc = "stored"
    /\ \/ v2' = v2 \cup {l.id}
       \/ UNCHANGED v2
    /\ call' = [call EXCEPT ![c] = Done]
    /\ UNCHANGED <<rows, vecs, next, lock, job, audit, purged, orphans, bypassed>>

(* The mirror is one V2 transaction; when it fails the V1 row is deleted. *)
Mirror(c) ==
    LET l == call[c] IN
    /\ l.pc = "stored"
    /\ \/ /\ v2' = v2 \cup {l.id}
          /\ call' = [call EXCEPT ![c] = Done]
       \/ /\ call' = [call EXCEPT ![c] = [l EXCEPT !.pc = "undoing"]]
          /\ UNCHANGED v2
    /\ UNCHANGED <<rows, vecs, next, lock, job, audit, purged, orphans, bypassed>>

(* The compensating delete; it can fail, and the row is then left unmirrored. *)
Compensate(c) ==
    LET l == call[c] IN
    /\ l.pc = "undoing" /\ LockFree
    /\ call' = [call EXCEPT ![c] = Done]
    /\ \/ /\ rows' = [rows EXCEPT ![l.id] = Absent]
          /\ vecs' = vecs \ {l.id}
          /\ UNCHANGED orphans
       \/ /\ orphans' = orphans \cup {l.id}
          /\ UNCHANGED <<rows, vecs>>
    /\ UNCHANGED <<v2, next, lock, job, audit, purged, bypassed>>

(* The gateway dies: its calls, its lock and nothing else are gone. *)
GatewayCrash ==
    /\ \E c \in Calls : call[c].pc \notin {"idle", "done"}
    /\ call' = [c \in Calls |-> IF call[c].pc = "idle" THEN Idle ELSE Done]
    /\ lock' = NoCall
    /\ orphans' = orphans \cup {call[c].id : c \in {d \in Calls : call[d].pc \in {"stored", "undoing"}}}
    /\ UNCHANGED <<rows, vecs, v2, next, job, audit, purged, bypassed>>

-----------------------------------------------------------------------------
(* Forgetting *)

(* Duplicates have the same fact_key or, without one, the same text. *)
DupKey(r) == IF r.key # NoKey THEN <<"fact", r.key>> ELSE <<"text", r.text>>

(* Unarchived secrets are to be deleted. *)
HardCandidates == {i \in Active : rows[i].text \in Secret}

(* Mutant: every row of a duplicate group is a candidate. *)
SoftCandidatesAll ==
    {i \in Active : \E j \in Active : j # i /\ DupKey(rows[j]) = DupKey(rows[i])}

(* Of unarchived duplicates the oldest is kept.  The other reasons to archive *)
(* a row softly (very short text, scratch, text not to be captured) are left  *)
(* out.                                                                       *)
SoftCandidates == {i \in Active : \E j \in Active : j < i /\ DupKey(rows[j]) = DupKey(rows[i])}

(* The transaction of runForgetting: archive what is still active, as          *)
(* superseded by the row that is kept, then delete.                            *)
Forgotten(soft, hard) ==
    [i \in Ids |-> IF i \in hard THEN Absent
                   ELSE IF i \in soft \cap Active
                        THEN [rows[i] EXCEPT !.st = "archived", !.cur = FALSE]
                        ELSE rows[i]]

(* What any transaction outside the lock does to the locked call's premise. *)
Bypass == bypassed' = (bypassed \/ lock # NoCall)

RunForgetting(c, soft, hard) ==
    /\ rows' = Forgotten(soft, hard)
    /\ purged' = purged \cup hard
    /\ call' = [call EXCEPT ![c] = Done]
    /\ Bypass
    /\ UNCHANGED <<vecs, v2, next, lock, job, audit, orphans>>

(* scope_recall_forgetting_run: the preflight lists the secrets ... *)
ForgetPreflight(c) ==
    /\ call[c].pc = "idle" /\ "forget" \in Kinds
    /\ IF HardCandidates = {} THEN SoftCandidates # {} /\ RunForgetting(c, SoftCandidates, {})
       ELSE Local(c, [Idle EXCEPT !.kind = "forget", !.pc = "vectors", !.todo = HardCandidates])

(* ... deletes their vectors one awaited call at a time ... *)
ForgetVector(c, i) ==
    LET l == [call[c] EXCEPT !.todo = @ \ {i}] IN
    /\ call[c].pc = "vectors" /\ i \in call[c].todo /\ LockFree
    /\ \/ /\ vecs' = vecs \ {i}
          /\ call' = [call EXCEPT ![c] = l]
       \/ /\ call' = [call EXCEPT ![c] = [l EXCEPT !.bad = TRUE]]
          /\ UNCHANGED vecs
    /\ UNCHANGED <<rows, v2, next, lock, job, audit, purged, orphans, bypassed>>

(* ... and recomputes the report; without every vector gone nothing is deleted. *)
ForgetFinish(c) ==
    /\ call[c].pc = "vectors" /\ call[c].todo = {}
    /\ RunForgetting(c, SoftCandidates, IF call[c].bad THEN {} ELSE HardCandidates)

-----------------------------------------------------------------------------
(* Operator jobs: read, then BEGIN IMMEDIATE *)

JobLocals == <<vecs, v2, next, lock, call, orphans>>

Read(k, ids, b) ==
    /\ job = NoJob /\ k \in Jobs
    /\ job' = [kind |-> k, ids |-> ids, seen |-> rows, batch |-> b]
    /\ UNCHANGED <<rows, audit, purged, bypassed, JobLocals>>

Commit(k, r) ==
    /\ job.kind = k
    /\ job' = NoJob
    /\ rows' = IF Clash(r) THEN rows ELSE r
    /\ Bypass
    /\ UNCHANGED JobLocals

(* The report of a soft forgetting run (the CLI passes no vector callback). *)
ForgetRead == SoftCandidates # {} /\ Read("forget", SoftCandidates, NoBatch)
ForgetApply == Commit("forget", Forgotten(job.ids, {})) /\ UNCHANGED <<audit, purged>>

(* applyCleanup: each candidate is read again inside the transaction, and the *)
(* row it replaces is what the audit event records.                           *)
CleanupRead ==
    \E b \in Batches :
        /\ audit[b] = [i \in Ids |-> Absent]
        /\ \E i \in Active : rows[i].text \in Noise
        /\ Read("cleanup", {i \in Active : rows[i].text \in Noise}, b)

CleanupApply ==
    LET hit == job.ids \cap Active IN
    /\ Commit("cleanup", [i \in Ids |-> IF i \in hit
                              THEN [rows[i] EXCEPT !.st = "archived", !.tag = job.batch]
                              ELSE rows[i]])
    /\ audit' = [audit EXCEPT ![job.batch] = [i \in Ids |-> IF i \in hit THEN rows[i] ELSE Absent]]
    /\ UNCHANGED purged

RollbackRead == \E b \in Batches : audit[b] # [i \in Ids |-> Absent] /\ Read("rollback", {}, b)

Restorable(b) == {i \in Present : audit[b][i] # Absent /\ rows[i].tag = b}

(* rollbackCleanupBatch: rows that still carry the batch get the metadata of *)
(* the audit event back; the text is not touched.                            *)
RollbackApply ==
    LET b == job.batch IN
    /\ Commit("rollback",
              [i \in Ids |-> IF i \in Restorable(b)
                             THEN [audit[b][i] EXCEPT !.text = rows[i].text]
                             ELSE rows[i]])
    /\ UNCHANGED <<audit, purged>>

(* promoteMemoryCandidates writes metadata computed from the first read, to *)
(* rows that are still candidates.  Secrets stay, noise is archived.        *)
Promoted(r) == [r EXCEPT !.st = IF r.text \in Noise THEN "archived" ELSE "live"]

PromoteRead ==
    LET cand == {i \in Ids : rows[i].st = "candidate" /\ rows[i].text \notin Secret} IN
    cand # {} /\ Read("promote", cand, NoBatch)

(* Mutant: the UPDATE matches the id alone. *)
StillPresent(i) == rows[i].st # "absent"

StillCandidate(i) == rows[i].st = "candidate"

PromoteApply ==
    /\ Commit("promote",
              [i \in Ids |-> IF i \in job.ids /\ StillCandidate(i)
                             THEN [Promoted(job.seen[i]) EXCEPT !.text = rows[i].text]
                             ELSE rows[i]])
    /\ UNCHANGED <<audit, purged>>

-----------------------------------------------------------------------------
GatewayNext(c) ==
    \/ MemoryCompact(c) \/ UpdateResolve(c) \/ UpdateCommit(c) \/ SupersedeCommit(c)
    \/ DeleteCommit(c)
    \/ StoreCommit(c) \/ Mirror(c) \/ Compensate(c) \/ ForgetPreflight(c) \/ ForgetFinish(c)
    \/ \E i \in Ids : \/ MemoryArchive(c, i) \/ MemoryPromote(c, i) \/ MemoryForget(c, i)
                      \/ HandleSupport(c, i)
                      \/ CompactNext(c, i) \/ ForgetVector(c, i)
    \/ \E t \in Texts : StoreMemory(c, t)
    \/ \E i \in Ids, t \in Texts : \/ MemoryUpdate(c, i, t) \/ HandleMerge(c, i, t)
                                   \/ HandleContradict(c, i, t) \/ HandleSupersede(c, i, t)

JobRead == ForgetRead \/ CleanupRead \/ RollbackRead \/ PromoteRead
JobApply == ForgetApply \/ CleanupApply \/ RollbackApply \/ PromoteApply

LifecycleNext ==
    \/ \E c \in Calls : GatewayNext(c)
    \/ GatewayCrash
    \/ JobRead
    \/ JobApply

LifecycleSpec == LifecycleInit /\ [][LifecycleNext]_lifeVars

-----------------------------------------------------------------------------
(* Properties *)

(* At most one version of a fact is current in a scope, whichever of the      *)
(* tools, the extractor, a promotion from a stale read or the rollback of an  *)
(* older cleanup wrote last (the triggers of sql-truth-store.ts).             *)
OneCurrentFact ==
    \A i, j \in Present : rows[i].cur /\ rows[j].cur /\ rows[i].key # NoKey =>
        (rows[i].key = rows[j].key => i = j)

(* An archived row becomes live again only by memory_promote, by the rollback *)
(* of the batch that archived it, or by a write that began before it was      *)
(* archived or between whose read and write an operator job committed; no     *)
(* promotion, forgetting or cleanup job revives it.                           *)
RevivedOnPurpose ==
    [][\A i \in Ids : rows[i].st = "archived" /\ rows'[i].st \in {"candidate", "live"} =>
          \/ job.kind = "rollback" /\ job' = NoJob /\ rows[i].tag = job.batch
          \/ \E c \in Calls : /\ call[c].pc = "held" /\ call[c].id = i
                              /\ call[c].kind = "promote" \/ call[c].seen.st # "archived"
                                 \/ bypassed]_lifeVars

(* A provider's merge replaces the revision the provider was shown, however   *)
(* many writers ran during its request, unless an operator job committed      *)
(* outside the lock between the comparison and the write.                     *)
MergeReplacesWhatItRead ==
    [][\A c \in Calls : lock = c /\ call[c].kind = "merge" /\ rows' # rows /\ lock' = NoCall
          => bypassed \/ rows[call[c].id] = call[c].seen]_lifeVars

(* The text of a hard-deleted secret never comes back, not even by a write    *)
(* that held a copy of its row (assertMemoryEntrySafeForPersistence).         *)
SecretForgotten == \A i \in purged : rows[i].text \notin Secret

(* A deleted id stays deleted: an update that read it before the delete finds *)
(* it gone, unless a purge outside the lock ran after it was resolved.        *)
DeletedStaysGone ==
    [][\A i \in Ids : i < next /\ rows[i] = Absent /\ rows'[i] # Absent => bypassed]_lifeVars

(* Archiving duplicates in the gateway leaves one copy of every duplicated    *)
(* safe text unarchived, although the report is older than the run's vector   *)
(* deletions.  It says nothing of rows archived for another reason.           *)
ForgetKeepsACopy ==
    [][\A i \in Active :
          rows[i].text \notin Secret /\ rows'[i].st = "archived" /\ ~rows'[i].cur
          /\ job' = job /\ lock' = lock
          => \E j \in Active : DupKey(rows[j]) = DupKey(rows[i]) /\ rows'[j].st = rows[j].st]_lifeVars

(* memory_store ends with the row in V1 and V2 or in neither, except when the *)
(* compensating delete failed or the gateway died in between.                 *)
MirroredOrUndone ==
    [][\A c \in Calls : call[c].pc \in {"stored", "undoing"} /\ call'[c].pc = "done" =>
          LET i == call[c].id IN i \in v2' \/ rows'[i] = Absent \/ i \in orphans']_lifeVars

(* Forgetting never leaves a fact without a version that recall returns       *)
(* (forgetting.ts archives "duplicate-memory" rows in favour of the oldest).  *)
Recallable(r) == r.st \in {"candidate", "live"} /\ r.cur

FactKept ==
    [][\A i \in Ids : Recallable(rows[i]) /\ rows'[i].st = "archived" /\ ~rows'[i].cur =>
          \E j \in Ids : Recallable(rows'[j]) /\ DupKey(rows'[j]) = DupKey(rows[i])]_lifeVars
=============================================================================
