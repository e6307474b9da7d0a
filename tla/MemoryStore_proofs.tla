-------------------------- MODULE MemoryStore_proofs --------------------------
(***************************************************************************)
(* What holds of MemoryStore whatever the calls: its types, that the       *)
(* deleted stay deleted, and that a full repair does what it has read.     *)
(***************************************************************************)
EXTENDS MemoryStore, TLAPS

(* The idle values have the types of what they stand for. *)
LEMMA Idle ==
    /\ AnyId \in Ids
    /\ NoJob \in Job
    /\ NoTask \in Task
    /\ NoSnap \in Snapshot
<1>1. AnyId \in Ids
  BY StoreAssumption DEF AnyId
<1> QED
  BY <1>1 DEF NoJob, NoTask, NoSnap, Job, Task, Snapshot, OpKinds, OptText, DebtKinds

(* The initial state is well typed. *)
LEMMA TypeInit == Init => TypeOK
  BY Idle, StoreAssumption DEF Init, TypeOK, OptText, DebtKinds, Locals

(* A call that is submitted with well-typed arguments leaves the types alone. *)
LEMMA SubmitType ==
  ASSUME TypeOK, NEW p \in Procs, NEW j \in Job, Submit(p, j), used' \in SUBSET Ids
  PROVE  TypeOK'
  BY DEF TypeOK, Submit, durable, Locals

(* So does the end of a call, whatever ends it. *)
LEMMA EndType ==
  ASSUME TypeOK, NEW p \in Procs, End(p), UNCHANGED durable
  PROVE  TypeOK'
<1>1. lock' \in Procs \cup {NoProc}
  BY DEF TypeOK, End
<1>2. pc' \in [Procs -> Locals \cup Holding]
  BY DEF TypeOK, End, Locals
<1>3. job' \in [Procs -> Job] /\ cur' \in [Procs -> Task] /\ snap' \in [Procs -> Snapshot]
  BY Idle DEF TypeOK, End
<1>4. todo' \in [Procs -> SUBSET Task] /\ clean' \in [Procs -> BOOLEAN]
  BY DEF TypeOK, End
<1> QED
  BY <1>1, <1>2, <1>3, <1>4 DEF TypeOK, End, durable

(* And a transaction, if its new rows, intents and companion work are typed. *)
LEMMA CommitType ==
  ASSUME TypeOK, NEW p \in Procs, NEW newTruth \in [Ids -> OptText],
         NEW intents, \A i \in DOMAIN intents : intents[i] \in DebtKinds,
         NEW work \in SUBSET Task, Commit(p, newTruth, intents, work)
  PROVE  TypeOK'
  BY DEF TypeOK, Commit, Holding

(* Each action preserves the types. *)
LEMMA TypeStep ==
  ASSUME TypeOK, [Next]_vars
  PROVE  TypeOK'
<1>1. ASSUME NEW p \in Procs, Call(p) PROVE TypeOK'
  <2> USE Idle, <1>1 DEF TypeOK, Job, OpKinds, OptText
  <2>1. CASE CallStore(p)
    <3>1. PICK i \in Ids \ used, t \in Texts :
            /\ Submit(p, [NoJob EXCEPT !.op = "store", !.id = i, !.text = t, !.vec = t])
            /\ used' = used \cup {i}
      BY <2>1 DEF CallStore
    <3>2. [NoJob EXCEPT !.op = "store", !.id = i, !.text = t, !.vec = t] \in Job
      OBVIOUS
    <3> QED  BY <3>1, <3>2, SubmitType
  <2>2. CASE CallImport(p)
    <3>1. PICK i \in Ids \ Present, t \in Texts :
            /\ Submit(p, [NoJob EXCEPT !.op = "import", !.id = i, !.text = t, !.vec = t])
            /\ used' = used \cup {i}
      BY <2>2 DEF CallImport
    <3>2. [NoJob EXCEPT !.op = "import", !.id = i, !.text = t, !.vec = t] \in Job
      OBVIOUS
    <3> QED  BY <3>1, <3>2, SubmitType
  <2>3. CASE CallUpdate(p)
    <3>1. PICK i \in used, t \in Texts :
            /\ Submit(p, [NoJob EXCEPT !.op = "update", !.id = i, !.text = t, !.vec = t])
            /\ UNCHANGED used
      BY <2>3 DEF CallUpdate
    <3>2. [NoJob EXCEPT !.op = "update", !.id = i, !.text = t, !.vec = t] \in Job
      OBVIOUS
    <3> QED  BY <3>1, <3>2, SubmitType
  <2>4. CASE CallMetadata(p)
    <3>1. PICK i \in used :
            /\ Submit(p, [NoJob EXCEPT !.op = "metadata", !.id = i])
            /\ UNCHANGED used
      BY <2>4 DEF CallMetadata
    <3>2. [NoJob EXCEPT !.op = "metadata", !.id = i] \in Job
      OBVIOUS
    <3> QED  BY <3>1, <3>2, SubmitType
  <2>5. CASE CallDelete(p)
    <3>1. PICK i \in Present :
            /\ Submit(p, [NoJob EXCEPT !.op = "delete", !.id = i])
            /\ UNCHANGED used
      BY <2>5 DEF CallDelete
    <3>2. [NoJob EXCEPT !.op = "delete", !.id = i] \in Job
      BY DEF Present
    <3> QED  BY <3>1, <3>2, SubmitType
  <2>6. CASE CallBulkDelete(p)
    <3>1. [NoJob EXCEPT !.op = "bulkDelete"] \in Job
      OBVIOUS
    <3> QED  BY <2>6, <3>1, SubmitType DEF CallBulkDelete
  <2>7. CASE CallSupersede(p)
    <3>1. PICK i \in used, n \in Ids \ used, t \in Texts :
            /\ Submit(p, [NoJob EXCEPT !.op = "supersede", !.id = i, !.text = t, !.new = n])
            /\ used' = used \cup {n}
      BY <2>7 DEF CallSupersede
    <3>2. [NoJob EXCEPT !.op = "supersede", !.id = i, !.text = t, !.new = n] \in Job
      OBVIOUS
    <3> QED  BY <3>1, <3>2, SubmitType
  <2>8. CASE CallRebuild(p)
    <3>1. PICK op \in Ops[p] \cap {"rebuild", "fullRebuild"} :
            job' = [job EXCEPT ![p] = [NoJob EXCEPT !.op = op]]
      BY <2>8 DEF CallRebuild
    <3>2. [NoJob EXCEPT !.op = op] \in Job
      OBVIOUS
    <3>3. job' \in [Procs -> Job]
      BY <3>1, <3>2
    <3>4. snap' \in [Procs -> Snapshot]
      BY ZenonT(60), <2>8 DEF CallRebuild, Snapshot
    <3> QED  BY <2>8, <3>3, <3>4 DEF CallRebuild, durable, Locals
  <2>9. CASE ListVectorIds(p)
    BY <2>9 DEF ListVectorIds, Listed, Snapshot, durable, Locals
  <2>10. CASE ReadRepairDebt(p)
    BY <2>10 DEF ReadRepairDebt, Snapshot, durable, Locals
  <2> QED
    BY <2>1, <2>2, <2>3, <2>4, <2>5, <2>6, <2>7, <2>8, <2>9, <2>10 DEF Call
<1>2. ASSUME NEW p \in Procs, AcquireLock(p) PROVE TypeOK'
  BY <1>2 DEF TypeOK, AcquireLock, Holding, durable
<1>3. ASSUME NEW p \in Procs, Transaction(p) PROVE TypeOK'
  <2> USE <1>3 DEF TypeOK, Job, Task, DebtKinds, OptText
  <2> DEFINE j == job[p]
  <2>0. j \in Job
    OBVIOUS
  <2>1. CASE CommitInsert(p)
    <3>1. Commit(p, [truth EXCEPT ![j.id] = j.text], [i \in {j.id} |-> "upsert"],
                 {[kind |-> "add", id |-> j.id, vec |-> j.vec]})
      BY <2>1 DEF CommitInsert
    <3>2. {[kind |-> "add", id |-> j.id, vec |-> j.vec]} \in SUBSET Task
      BY <2>0
    <3>3. [truth EXCEPT ![j.id] = j.text] \in [Ids -> OptText]
      BY <2>0
    <3>4. \A n \in DOMAIN [i \in {j.id} |-> "upsert"] : [i \in {j.id} |-> "upsert"][n] \in DebtKinds
      OBVIOUS
    <3> HIDE DEF j, TypeOK, DebtKinds, Task
    <3> QED  BY <3>1, <3>2, <3>3, <3>4, CommitType
  <2>2. CASE CommitDelete(p)
    <3>1. Commit(p, [truth EXCEPT ![j.id] = NoText], [i \in {j.id} |-> "delete"],
                 {[kind |-> "delete", id |-> j.id, vec |-> NoText]})
      BY <2>2 DEF CommitDelete
    <3>2. {[kind |-> "delete", id |-> j.id, vec |-> NoText]} \in SUBSET Task
      BY <2>0
    <3>3. [truth EXCEPT ![j.id] = NoText] \in [Ids -> OptText]
      BY <2>0
    <3>4. \A n \in DOMAIN [i \in {j.id} |-> "delete"] : [i \in {j.id} |-> "delete"][n] \in DebtKinds
      OBVIOUS
    <3> HIDE DEF j, TypeOK, DebtKinds, Task
    <3> QED  BY <3>1, <3>2, <3>3, <3>4, CommitType
  <2>3. CASE CommitBulkDelete(p)
    <3>1. PICK S \in SUBSET Present :
            Commit(p, [i \in Ids |-> IF i \in S THEN NoText ELSE truth[i]],
                   [i \in S |-> "delete"],
                   {[kind |-> "delete", id |-> i, vec |-> NoText] : i \in S})
      BY <2>3 DEF CommitBulkDelete
    <3>2. {[kind |-> "delete", id |-> i, vec |-> NoText] : i \in S} \subseteq Task
      BY DEF Present
    <3>3. [i \in Ids |-> IF i \in S THEN NoText ELSE truth[i]] \in [Ids -> OptText]
      OBVIOUS
    <3> QED  BY <3>1, <3>2, <3>3, CommitType
  <2>4. CASE ResolveRow(p)
    <3>1. \A v \in companion[j.id] \cup {NoText} : v \in OptText
      BY <2>0
    <3>2. truth[j.id] \in OptText
      BY <2>0
    <3>3. CASE job' = job
      BY <2>4, <3>3 DEF ResolveRow, Holding, durable
    <3>4. ASSUME NEW v \in OptText, job' = [job EXCEPT ![p].text = truth[j.id], ![p].vec = v]
          PROVE  job' \in [Procs -> Job]
      BY <3>2, <3>4, <2>0
    <3>5. ASSUME NEW v \in OptText, job' = [job EXCEPT ![p].vec = v]
          PROVE  job' \in [Procs -> Job]
      BY <3>5, <2>0
    <3>6. job' \in [Procs -> Job]
      BY <2>4, <3>1, <3>3, <3>4, <3>5 DEF ResolveRow
    <3> QED  BY <2>4, <3>6 DEF ResolveRow, Holding, durable
  <2>5. CASE CommitUpdate(p)
    <3>1. Commit(p, [truth EXCEPT ![j.id] = j.text], [i \in {j.id} |-> "upsert"],
                 {Rewrite(j.id, j.vec)})
      BY <2>5 DEF CommitUpdate
    <3>2. {Rewrite(j.id, j.vec)} \in SUBSET Task
      BY <2>0 DEF Rewrite
    <3>3. [truth EXCEPT ![j.id] = j.text] \in [Ids -> OptText]
      BY <2>0
    <3>4. \A n \in DOMAIN [i \in {j.id} |-> "upsert"] : [i \in {j.id} |-> "upsert"][n] \in DebtKinds
      OBVIOUS
    <3> HIDE DEF j, TypeOK, DebtKinds, Task
    <3> QED  BY <3>1, <3>2, <3>3, <3>4, CommitType
  <2>6. CASE CommitSupersede(p)
    <3> DEFINE work == {Rewrite(j.id, j.vec), [kind |-> "add", id |-> j.new, vec |-> j.text]}
    <3>1. Commit(p, [truth EXCEPT ![j.new] = j.text], [i \in {j.id, j.new} |-> "upsert"], work)
      BY <2>6 DEF CommitSupersede
    <3>2. work \in SUBSET Task
      BY <2>0 DEF Rewrite
    <3>3. [truth EXCEPT ![j.new] = j.text] \in [Ids -> OptText]
      BY <2>0
    <3>4. \A n \in DOMAIN [i \in {j.id, j.new} |-> "upsert"] :
            [i \in {j.id, j.new} |-> "upsert"][n] \in DebtKinds
      OBVIOUS
    <3> HIDE DEF j, work, TypeOK, DebtKinds, Task
    <3> QED  BY <3>1, <3>2, <3>3, <3>4, CommitType
  <2>7. CASE BeginRebuild(p)
    <3> DEFINE s == snap[p]
               missing == {i \in Ids : s.truth[i] # NoText}
               stale == (s.listed \ missing) \cup {i \in Ids : s.debt[i] = "delete"}
               deletes == {[kind |-> "delete", id |-> i, vec |-> NoText] : i \in stale}
               replaces(e) == {[kind |-> "replace", id |-> i, vec |-> s.truth[i]] : i \in e}
    <3>1. PICK e \in SUBSET missing :
            /\ todo' = [todo EXCEPT ![p] = deletes \cup replaces(e)]
            /\ clean' \in [Procs -> BOOLEAN]
      BY <2>7 DEF BeginRebuild
    <3>2. s \in Snapshot
      OBVIOUS
    <3>3. deletes \subseteq Task
      BY <3>2 DEF Snapshot
    <3>4. replaces(e) \subseteq Task
      BY <3>2 DEF Snapshot
    <3>5. todo' \in [Procs -> SUBSET Task]
      BY <3>1, <3>3, <3>4
    <3> QED  BY <2>7, <3>1, <3>5 DEF BeginRebuild, Holding, durable
  <2> QED
    BY <2>1, <2>2, <2>3, <2>4, <2>5, <2>6, <2>7 DEF Transaction
<1>4. ASSUME NEW p \in Procs, Sync(p) PROVE TypeOK'
  <2> USE <1>4 DEF TypeOK, Holding, MarkDebt, DebtKinds, Task, durable
  <2>1. CASE StartTask(p)         BY <2>1 DEF StartTask
  <2>2. CASE DeleteVector(p)      BY <2>2 DEF DeleteVector
  <2>3. CASE DeleteVectorFails(p) BY SMTT(30), <2>3 DEF DeleteVectorFails
  <2>4. CASE AddVector(p)         BY <2>4 DEF AddVector
  <2>5. CASE AddVectorFails(p)    BY <2>5 DEF AddVectorFails
  <2>6. CASE Reconcile(p)         BY <2>6 DEF Reconcile
  <2>7. CASE ClearDebt(p)         BY <2>7 DEF ClearDebt
  <2> QED
    BY <2>1, <2>2, <2>3, <2>4, <2>5, <2>6, <2>7 DEF Sync
<1>5. ASSUME NEW p \in Procs, Exit(p) PROVE TypeOK'
  BY <1>5, EndType DEF Exit, LockTimeout, Refuse, Crash, Return
<1>6. CASE UNCHANGED vars
  BY <1>6 DEF TypeOK, vars
<1> QED
  BY <1>1, <1>2, <1>3, <1>4, <1>5, <1>6 DEF Next

(* Whatever the calls, failures and crashes, every variable keeps its type:  *)
(* in particular the lock names at most one process and a debt is one of the *)
(* two actions of the repair outbox or none.                                 *)
THEOREM TypeCorrect == Spec => []TypeOK
  BY TypeInit, TypeStep, PTL DEF Spec

(***************************************************************************)
(* Whose step it is                                                        *)
(***************************************************************************)

(* A step of one process. *)
Step(p) == Call(p) \/ AcquireLock(p) \/ Transaction(p) \/ Sync(p) \/ Exit(p)

(* A process changes its own local variables and no other's. *)
LEMMA Frame ==
  ASSUME TypeOK, NEW p \in Procs, Step(p), NEW q \in Procs, q # p
  PROVE  /\ pc'[q] = pc[q] /\ job'[q] = job[q] /\ todo'[q] = todo[q]
         /\ cur'[q] = cur[q] /\ clean'[q] = clean[q] /\ snap'[q] = snap[q]
<1> USE DEF TypeOK
<1>1. CASE Call(p)
  BY <1>1 DEF Call, CallStore, CallImport, CallUpdate, CallMetadata, CallDelete, CallBulkDelete,
              CallSupersede, CallRebuild, ListVectorIds, ReadRepairDebt, Submit
<1>2. CASE AcquireLock(p)
  BY <1>2 DEF AcquireLock
<1>3. CASE Transaction(p)
  <2>1. CASE ResolveRow(p)
    BY <2>1 DEF ResolveRow
  <2>2. CASE BeginRebuild(p)
    <3>1. /\ \E w : todo' = [todo EXCEPT ![p] = w]
          /\ \E b : clean' = [clean EXCEPT ![p] = b]
          /\ pc' = [pc EXCEPT ![p] = "syncing"]
          /\ UNCHANGED <<job, cur, snap>>
      BY <2>2 DEF BeginRebuild
    <3> QED  BY <3>1
  <2>3. CASE CommitInsert(p) \/ CommitDelete(p) \/ CommitBulkDelete(p) \/ CommitUpdate(p)
                \/ CommitSupersede(p)
    <3>1. /\ \E w : todo' = [todo EXCEPT ![p] = w]
          /\ pc' = [pc EXCEPT ![p] = "syncing"]
          /\ UNCHANGED <<job, cur, clean, snap>>
      BY <2>3 DEF CommitInsert, CommitDelete, CommitBulkDelete, CommitUpdate, CommitSupersede, Commit
    <3> QED  BY <3>1
  <2> QED  BY <1>3, <2>1, <2>2, <2>3 DEF Transaction
<1>4. CASE Sync(p)
  BY <1>4 DEF Sync, StartTask, DeleteVector, DeleteVectorFails, AddVector, AddVectorFails,
              Reconcile, ClearDebt
<1>5. CASE Exit(p)
  BY <1>5 DEF Exit, LockTimeout, Refuse, Crash, Return, End
<1> QED
  BY <1>1, <1>2, <1>3, <1>4, <1>5 DEF Step

(* Where the step of p leaves p with the lock. *)
LEMMA LockMoves ==
  ASSUME TypeOK, NEW p \in Procs, Step(p)
  PROVE  \/ pc[p] \notin Holding /\ pc'[p] \notin Holding /\ (lock' = lock \/ lock = p)
         \/ pc[p] \notin Holding /\ pc'[p] \in Holding /\ lock = NoProc /\ lock' = p
         \/ pc[p] \in Holding /\ pc'[p] \in Holding /\ lock' = lock
         \/ pc[p] \in Holding /\ pc'[p] \notin Holding /\ lock' = IF lock = p THEN NoProc ELSE lock
<1> USE DEF TypeOK, Holding
<1>1. CASE Call(p)
  BY <1>1 DEF Call, CallStore, CallImport, CallUpdate, CallMetadata, CallDelete, CallBulkDelete,
              CallSupersede, CallRebuild, ListVectorIds, ReadRepairDebt, Submit
<1>2. CASE AcquireLock(p)
  BY <1>2 DEF AcquireLock
<1>3. CASE Transaction(p)
  BY <1>3 DEF Transaction, ResolveRow, BeginRebuild, CommitInsert, CommitDelete, CommitBulkDelete,
              CommitUpdate, CommitSupersede, Commit
<1>4. CASE Sync(p)
  BY <1>4 DEF Sync, StartTask, DeleteVector, DeleteVectorFails, AddVector, AddVectorFails,
              Reconcile, ClearDebt
<1>5. CASE Exit(p)
  BY <1>5 DEF Exit, LockTimeout, Refuse, Crash, Return, End
<1> QED
  BY <1>1, <1>2, <1>3, <1>4, <1>5 DEF Step

(* The lock is held by the one process that is past its wait for it. *)
LEMMA LockStep ==
  ASSUME TypeOK, LockIsHeld, [Next]_vars
  PROVE  LockIsHeld'
<1>1. ASSUME NEW p \in Procs, Step(p) PROVE LockIsHeld'
  <2> SUFFICES ASSUME NEW q \in Procs PROVE pc'[q] \in Holding <=> lock' = q
    BY DEF LockIsHeld
  <2>1. CASE q = p
    BY <1>1, <2>1, LockMoves, StoreAssumption DEF LockIsHeld
  <2>2. CASE q # p
    BY <1>1, <2>2, LockMoves, Frame, StoreAssumption DEF LockIsHeld
  <2> QED  BY <2>1, <2>2
<1>2. CASE UNCHANGED vars
  BY <1>2 DEF vars, LockIsHeld
<1> QED
  BY <1>1, <1>2 DEF Next, Step

(* Two processes do not hold the lock at once. *)
LEMMA OneHolder ==
  ASSUME LockIsHeld, NEW p \in Procs, NEW q \in Procs, pc[p] \in Holding, pc[q] \in Holding
  PROVE  p = q
  BY DEF LockIsHeld

(* Truth changes in the transaction of the lock holder alone. *)
LEMMA TruthMoves ==
  ASSUME NEW p \in Procs, Step(p), truth' # truth
  PROVE  CommitInsert(p) \/ CommitDelete(p) \/ CommitBulkDelete(p) \/ CommitUpdate(p) \/ CommitSupersede(p)
<1>1. ~Call(p)
  BY DEF Call, CallStore, CallImport, CallUpdate, CallMetadata, CallDelete, CallBulkDelete,
         CallSupersede, CallRebuild, ListVectorIds, ReadRepairDebt, Submit, durable
<1>2. ~AcquireLock(p) /\ ~ResolveRow(p) /\ ~BeginRebuild(p)
  BY DEF AcquireLock, ResolveRow, BeginRebuild, durable
<1>3. ~Sync(p)
  BY DEF Sync, StartTask, DeleteVector, DeleteVectorFails, AddVector, AddVectorFails,
         Reconcile, ClearDebt, durable
<1>4. ~Exit(p)
  BY DEF Exit, LockTimeout, Refuse, Crash, Return, durable
<1> QED
  BY <1>1, <1>2, <1>3, <1>4 DEF Step, Transaction

(* A process without the lock leaves truth, debt and companion alone. *)
LEMMA DurableMoves ==
  ASSUME NEW p \in Procs, Step(p), pc[p] \notin Holding
  PROVE  UNCHANGED durable
<1>1. CASE Call(p)
  BY <1>1 DEF Call, CallStore, CallImport, CallUpdate, CallMetadata, CallDelete, CallBulkDelete,
         CallSupersede, CallRebuild, ListVectorIds, ReadRepairDebt, Submit
<1>2. CASE AcquireLock(p)
  BY <1>2 DEF AcquireLock
<1>3. ~Transaction(p)
  BY DEF Transaction, ResolveRow, BeginRebuild, CommitInsert, CommitDelete, CommitBulkDelete,
         CommitUpdate, CommitSupersede, Holding
<1>4. ~Sync(p)
  BY DEF Sync, StartTask, DeleteVector, DeleteVectorFails, AddVector, AddVectorFails,
         Reconcile, ClearDebt, Holding
<1>5. CASE Exit(p)
  BY <1>5 DEF Exit, LockTimeout, Refuse, Crash, Return
<1> QED
  BY <1>1, <1>2, <1>3, <1>4, <1>5 DEF Step

(***************************************************************************)
(* Deleted rows                                                            *)
(***************************************************************************)

(* A row that a call resolved under the lock is still there. *)
ResolvedIsThere ==
    \A p \in Procs : pc[p] = "resolved" =>
        /\ job[p].op \in {"update", "metadata", "supersede"}
        /\ truth[job[p].id] # NoText

(* Such a row stays until its holder commits: only the holder changes truth. *)
LEMMA ResolvedStep ==
  ASSUME TypeOK, LockIsHeld, ResolvedIsThere, [Next]_vars
  PROVE  ResolvedIsThere'
<1>1. ASSUME NEW p \in Procs, Step(p) PROVE ResolvedIsThere'
  <2> SUFFICES ASSUME NEW q \in Procs, pc'[q] = "resolved"
               PROVE  /\ job'[q].op \in {"update", "metadata", "supersede"}
                      /\ truth'[job'[q].id] # NoText
    BY DEF ResolvedIsThere
  <2>1. CASE q = p
    <3>1. ResolveRow(p)
      <4> USE <2>1 DEF TypeOK
      <4>1. ~Call(p) /\ ~AcquireLock(p)
        BY DEF Call, CallStore, CallImport, CallUpdate, CallMetadata, CallDelete, CallBulkDelete,
               CallSupersede, CallRebuild, ListVectorIds, ReadRepairDebt, Submit, AcquireLock
      <4>2. ~Sync(p)
        BY DEF Sync, StartTask, DeleteVector, DeleteVectorFails, AddVector, AddVectorFails,
               Reconcile, ClearDebt
      <4>3. ~Exit(p)
        BY DEF Exit, LockTimeout, Refuse, Crash, Return, End
      <4>4. Transaction(p) => ResolveRow(p)
        BY DEF Transaction, BeginRebuild, CommitInsert, CommitDelete, CommitBulkDelete,
               CommitUpdate, CommitSupersede, Commit
      <4> QED  BY <1>1, <4>1, <4>2, <4>3, <4>4 DEF Step
    <3>2. job'[p].op = job[p].op /\ job'[p].id = job[p].id
      BY <3>1 DEF ResolveRow, TypeOK, Job
    <3> QED  BY <2>1, <3>1, <3>2 DEF ResolveRow, durable
  <2>2. CASE q # p
    <3>1. pc[q] = "resolved" /\ job'[q] = job[q]
      BY <1>1, <2>2, Frame
    <3>2. pc[p] \notin Holding
      BY <2>2, <3>1, OneHolder DEF Holding
    <3>3. truth' = truth
      BY <1>1, <3>2, TruthMoves DEF CommitInsert, CommitDelete, CommitBulkDelete, CommitUpdate,
                                    CommitSupersede, Holding
    <3> QED  BY <3>1, <3>3 DEF ResolvedIsThere
  <2> QED  BY <2>1, <2>2
<1>2. CASE UNCHANGED vars
  BY <1>2 DEF vars, ResolvedIsThere
<1> QED
  BY <1>1, <1>2 DEF Next, Step

(* No write brings back a row that another call deleted meanwhile: an update *)
(* or a metadata rewrite commits only over the row it resolved under the     *)
(* lock, and the predecessor of a supersede is still there.                  *)
LEMMA DeletedStep ==
  ASSUME TypeOK, ResolvedIsThere, NEW p \in Procs, Step(p),
         NEW i \in used, truth[i] = NoText, truth'[i] # NoText
  PROVE  /\ job[p].id = i \/ job[p].new = i
         /\ job[p].op \in {"store", "import", "supersede"}
         /\ pc[p] \in {"locked", "resolved"}
         /\ job[p].op = "supersede" => job[p].new = i
<1> DEFINE j == job[p]
<1>1. i \in Ids /\ truth \in [Ids -> OptText] /\ j \in Job
  BY DEF TypeOK
<1>2. CASE CommitInsert(p)
  <2>1. truth' = [truth EXCEPT ![j.id] = j.text] /\ pc[p] = "locked" /\ j.op \in {"store", "import"}
    BY <1>2 DEF CommitInsert, Commit
  <2> QED  BY <1>1, <2>1
<1>3. CASE CommitDelete(p) \/ CommitBulkDelete(p)
  <2>1. \/ truth' = [truth EXCEPT ![j.id] = NoText]
        \/ \E S \in SUBSET Present : truth' = [k \in Ids |-> IF k \in S THEN NoText ELSE truth[k]]
    BY <1>3 DEF CommitDelete, CommitBulkDelete, Commit
  <2> QED  BY <1>1, <2>1
<1>4. CASE CommitUpdate(p)
  <2>1. truth' = [truth EXCEPT ![j.id] = j.text] /\ pc[p] = "resolved"
    BY <1>4 DEF CommitUpdate, Commit
  <2>2. truth[j.id] # NoText
    BY <2>1 DEF ResolvedIsThere
  <2> QED  BY <1>1, <2>1, <2>2
<1>5. CASE CommitSupersede(p)
  <2>1. truth' = [truth EXCEPT ![j.new] = j.text] /\ pc[p] = "resolved" /\ j.op = "supersede"
    BY <1>5 DEF CommitSupersede, Commit
  <2> QED  BY <1>1, <2>1
<1> QED
  BY <1>2, <1>3, <1>4, <1>5, TruthMoves

(* Whatever the calls, failures and crashes, a call that read a row before   *)
(* it was deleted does not write it again: updates, metadata rewrites and    *)
(* supersedes resolve the row under the lock (store.ts:1273, 1448) and nobody  *)
(* else deletes it before they commit.                                       *)
THEOREM DeletedIsFinal == Spec => DeletedStaysDeleted
<1> DEFINE I == TypeOK /\ LockIsHeld /\ ResolvedIsThere
           A == \A i \in used :
                   truth[i] = NoText /\ truth'[i] # NoText =>
                      \E p \in Procs : /\ job[p].id = i \/ job[p].new = i
                                       /\ job[p].op \in {"store", "import", "supersede"}
                                       /\ pc[p] \in {"locked", "resolved"}
                                       /\ job[p].op = "supersede" => job[p].new = i
<1>1. Init => I
  BY TypeInit, StoreAssumption DEF Init, LockIsHeld, ResolvedIsThere, Holding
<1>2. I /\ [Next]_vars => I'
  BY TypeStep, LockStep, ResolvedStep
<1>3. I /\ [Next]_vars => [A]_vars
  <2> SUFFICES ASSUME I, Next PROVE A
    OBVIOUS
  <2>1. PICK p \in Procs : Step(p)
    BY DEF Next, Step
  <2> QED  BY <2>1, DeletedStep
<1> HIDE DEF I, A
<1>4. Spec => [][A]_vars
  BY <1>1, <1>2, <1>3, PTL DEF Spec
<1> QED
  BY <1>4 DEF A, DeletedStaysDeleted

(***************************************************************************)
(* Full repairs                                                            *)
(***************************************************************************)

(* What a full repair wants of the companion, from what it read of truth. *)
Target(p, i) == IF snap[p].truth[i] = NoText THEN {} ELSE {snap[p].truth[i]}

(* The ids a repair has work for: those truth had, and those the companion or *)
(* the debt named beyond them.                                                *)
Stale(p) == {i \in Ids : snap[p].truth[i] = NoText
                         /\ (i \in snap[p].listed \/ snap[p].debt[i] = "delete")}

(* A full repair at its companion work, without an error so far. *)
Repairing(p) == /\ pc[p] = "syncing" \/ WithTask(p)
                /\ job[p].op = "fullRebuild"
                /\ clean[p]

(* The task in hand, and those still queued. *)
InHand(p, k, i) == WithTask(p) /\ cur[p].kind = k /\ cur[p].id = i

Queued(p, k, i) == \E t \in todo[p] : t.kind = k /\ t.id = i

(* Deletes come first, so a row that was replaced is not deleted any more. *)
RowIsRepaired(p, i) ==
    \/ Queued(p, "replace", i) \/ InHand(p, "replace", i)
    \/ /\ companion[i] = Target(p, i)
       /\ ~Queued(p, "delete", i) /\ ~InHand(p, "delete", i)

StaleIsRemoved(p, i) ==
    Queued(p, "delete", i) \/ InHand(p, "delete", i) \/ companion[i] = {}

(* A repair has no other tasks than these. *)
RepairTask(p, t) ==
    /\ t.kind \in {"delete", "replace"}
    /\ t.kind = "replace" => t.vec = snap[p].truth[t.id] /\ t.vec # NoText

(* The piece of work in hand: no delete is left when the replaces begin. *)
HandRepairs(p) ==
    /\ RepairTask(p, cur[p])
    /\ pc[p] # "reconciling"
    /\ cur[p].kind = "replace" => \A t \in todo[p] : t.kind # "delete"
    /\ pc[p] = "adding" => cur[p].kind = "replace" /\ companion[cur[p].id] = {}
    /\ pc[p] = "clearing" =>
          companion[cur[p].id] = IF cur[p].kind = "delete" THEN {} ELSE {cur[p].vec}

(* Every row truth had is repaired or still to be replaced, every stale one *)
(* removed or still to be deleted.                                          *)
RepairIsSound(p) ==
    /\ \A t \in todo[p] : RepairTask(p, t)
    /\ \A i \in Ids : snap[p].truth[i] # NoText => RowIsRepaired(p, i)
    /\ \A i \in Stale(p) : StaleIsRemoved(p, i)
    /\ WithTask(p) => HandRepairs(p)

RepairInv == \A p \in Procs : Repairing(p) => RepairIsSound(p)

(* Whoever else writes: a full repair that reports no error has made the      *)
(* companion what it read of truth, but for the ids of vector rows that were  *)
(* neither listed nor in debt when it read.                                   *)
RepairDoesWhatItRead ==
    [][\A p \in Procs :
          Return(p) /\ job[p].op = "fullRebuild" /\ clean[p] =>
             \A i \in Ids : \/ companion[i] = Target(p, i)
                            \/ /\ snap[p].truth[i] = NoText
                               /\ i \notin snap[p].listed
                               /\ snap[p].debt[i] # "delete"]_vars

(* Nobody runs beside the repair. *)
OneProcess == \A p, q \in Procs : p = q

(* With nobody beside it, a repair has read what is there. *)
ReadIsCurrent(p) ==
    /\ pc[p] \in {"listing", "listed"} => snap[p].truth = truth
    /\ pc[p] = "listed" => snap[p].listed = Listed
    /\ pc[p] \in {"waiting", "locked"} /\ job[p].op = "fullRebuild" =>
          snap[p].truth = truth /\ snap[p].listed = Listed
    /\ Repairing(p) =>
          /\ snap[p].truth = truth
          /\ \A i \in Ids : truth[i] = NoText /\ i \notin snap[p].listed => companion[i] = {}

(* Each piece of a repair's companion work keeps its claims. *)
LEMMA RepairSync ==
  ASSUME TypeOK, NEW p \in Procs, Repairing(p) => RepairIsSound(p), Sync(p), Repairing(p)'
  PROVE  Repairing(p) /\ RepairIsSound(p)'
<1> DEFINE t == cur[p]
<1>1. /\ t \in Task /\ t.id \in Ids /\ todo[p] \subseteq Task /\ snap[p] \in Snapshot
      /\ job'[p] = job[p] /\ snap'[p] = snap[p]
  BY DEF TypeOK, Task, Sync, StartTask, DeleteVector, DeleteVectorFails, AddVector, AddVectorFails,
         Reconcile, ClearDebt
<1>2. Repairing(p)
  <2>1. pc[p] = "syncing" \/ WithTask(p)
    BY DEF Sync, StartTask, DeleteVector, DeleteVectorFails, AddVector, AddVectorFails,
           Reconcile, ClearDebt, WithTask
  <2>2. clean'[p] => clean[p]
    BY DEF TypeOK, Sync, StartTask, DeleteVector, DeleteVectorFails, AddVector, AddVectorFails,
           Reconcile, ClearDebt
  <2> QED  BY <1>1, <2>1, <2>2 DEF Repairing
<1>3. RepairIsSound(p)
  BY <1>2
<1>a. /\ \A u \in todo[p] : RepairTask(p, u)
      /\ \A i \in Ids : snap[p].truth[i] # NoText => RowIsRepaired(p, i)
      /\ \A i \in Stale(p) : StaleIsRemoved(p, i)
      /\ WithTask(p) => HandRepairs(p)
  BY <1>3 DEF RepairIsSound
<1>b. ASSUME todo'[p] \subseteq todo[p],
             \A i \in Ids : snap[p].truth[i] # NoText => RowIsRepaired(p, i)',
             \A i \in Stale(p) : StaleIsRemoved(p, i)',
             WithTask(p)' => HandRepairs(p)'
      PROVE  RepairIsSound(p)'
  <2>1. \A u \in todo'[p] : RepairTask(p, u)'
    BY <1>1, <1>a, <1>b DEF RepairTask
  <2>2. Stale(p)' = Stale(p)
    BY <1>1 DEF Stale
  <2> QED  BY <1>1, <1>b, <2>1, <2>2 DEF RepairIsSound
<1>4. CASE StartTask(p)
  <2>1. PICK s \in todo[p] :
          /\ \A u \in todo[p] : Rank(s) <= Rank(u)
          /\ todo' = [todo EXCEPT ![p] = @ \ {s}]
          /\ cur' = [cur EXCEPT ![p] = s]
          /\ pc' = [pc EXCEPT ![p] = CASE s.kind = "add" -> "adding"
                                       [] s.kind = "mark" -> "reconciling"
                                       [] OTHER -> "deleting"]
    BY <1>4 DEF StartTask
  <2>2. RepairTask(p, s) /\ RepairTask(p, s)'
    BY <1>1, <1>a DEF RepairTask
  <2>3. /\ todo'[p] = todo[p] \ {s} /\ cur'[p] = s /\ pc[p] = "syncing" /\ pc'[p] = "deleting"
        /\ companion' = companion
    BY <1>1, <1>4, <2>1, <2>2 DEF TypeOK, StartTask, durable, RepairTask
  <2>4. WithTask(p)' /\ ~WithTask(p)
    BY <2>3 DEF WithTask
  <2>5. s.kind = "replace" => \A u \in todo[p] : u.kind # "delete"
    BY <2>1 DEF Rank
  <2>6. HandRepairs(p)'
    BY <1>1, <2>2, <2>3, <2>5 DEF HandRepairs, RepairTask
  <2>7. \A k \in {"delete", "replace"}, i \in Ids : Queued(p, k, i) => Queued(p, k, i)' \/ InHand(p, k, i)'
    BY <2>3, <2>4 DEF Queued, InHand
  <2>8. ASSUME NEW i \in Ids, snap[p].truth[i] # NoText PROVE RowIsRepaired(p, i)'
    <3>1. CASE Queued(p, "replace", i)
      BY <2>7, <3>1 DEF RowIsRepaired
    <3>2. CASE companion[i] = Target(p, i) /\ ~Queued(p, "delete", i)
      <4>1. ~Queued(p, "delete", i)' /\ ~InHand(p, "delete", i)'
        BY <2>3, <3>2 DEF Queued, InHand
      <4> QED  BY <1>1, <2>3, <3>2, <4>1 DEF RowIsRepaired, Target
    <3> QED  BY <1>a, <2>4, <2>8, <3>1, <3>2 DEF RowIsRepaired, InHand
  <2>9. ASSUME NEW i \in Stale(p) PROVE StaleIsRemoved(p, i)'
    BY <1>a, <2>3, <2>4, <2>7, <2>9 DEF StaleIsRemoved, InHand, Stale
  <2> QED  BY <1>2, <1>b, <2>3, <2>6, <2>8, <2>9
<1> HIDE DEF t
<1>c. ASSUME WithTask(p), WithTask(p)', UNCHANGED <<todo, cur>>,
             \A i \in Ids \ {t.id} : companion'[i] = companion[i],
             pc[p] # "clearing" \/ companion' = companion,
             t.kind = "delete" /\ ~Queued(p, "replace", t.id) => companion'[t.id] = {},
             HandRepairs(p)'
      PROVE  RepairIsSound(p)'
  <2>1. \A k \in {"delete", "replace"}, i \in Ids :
          (Queued(p, k, i)' <=> Queued(p, k, i)) /\ (InHand(p, k, i)' <=> InHand(p, k, i))
    BY <1>c DEF Queued, InHand
  <2>2. t.kind \in {"delete", "replace"}
    BY <1>a, <1>c DEF HandRepairs, RepairTask, t
  <2>3. ASSUME NEW i \in Ids, snap[p].truth[i] # NoText PROVE RowIsRepaired(p, i)'
    <3>1. CASE i = t.id
      BY <1>a, <1>c, <2>1, <2>2, <2>3, <3>1 DEF RowIsRepaired, InHand, t
    <3>2. CASE i # t.id
      BY <1>1, <1>a, <1>c, <2>1, <2>3, <3>2 DEF RowIsRepaired, Target
    <3> QED  BY <3>1, <3>2
  <2>4. ASSUME NEW i \in Stale(p) PROVE StaleIsRemoved(p, i)'
    <3>1. CASE i = t.id /\ t.kind = "delete"
      BY <1>c, <3>1 DEF StaleIsRemoved, InHand, t
    <3>2. CASE i = t.id /\ t.kind = "replace"
      BY <1>a, <1>c, <3>2 DEF HandRepairs, RepairTask, Stale, t
    <3>3. CASE i # t.id
      BY <1>a, <1>c, <2>1, <2>4, <3>3 DEF StaleIsRemoved, Stale
    <3> QED  BY <2>2, <3>1, <3>2, <3>3
  <2> QED  BY <1>b, <1>c, <2>3, <2>4
<1>5. CASE DeleteVector(p)
  <2>1. /\ WithTask(p) /\ pc[p] = "deleting" /\ todo' = todo /\ cur' = cur
        /\ companion'[t.id] = {} /\ \A i \in Ids \ {t.id} : companion'[i] = companion[i]
        /\ pc'[p] = IF t.kind = "replace" THEN "adding" ELSE "clearing"
    BY <1>1, <1>5 DEF DeleteVector, WithTask, TypeOK, t
  <2>2. WithTask(p)'
    BY <2>1 DEF WithTask
  <2>3. HandRepairs(p)'
    BY <1>1, <1>a, <2>1 DEF HandRepairs, RepairTask, t
  <2> QED  BY <1>2, <1>c, <2>1, <2>2, <2>3
<1>6. CASE AddVector(p)
  <2>1. /\ WithTask(p) /\ pc[p] = "adding" /\ todo' = todo /\ cur' = cur
        /\ companion'[t.id] = (IF Appends THEN companion[t.id] \cup {t.vec} ELSE {t.vec})
        /\ \A i \in Ids \ {t.id} : companion'[i] = companion[i]
        /\ pc'[p] = IF t.kind = "mark" THEN "reconciling" ELSE "clearing"
    BY <1>1, <1>6 DEF AddVector, WithTask, TypeOK, t
  <2>2. WithTask(p)' /\ companion'[t.id] = {t.vec} /\ t.kind = "replace" /\ pc'[p] = "clearing"
    BY <1>a, <2>1 DEF WithTask, HandRepairs, t
  <2>3. HandRepairs(p)'
    BY <1>1, <1>a, <2>1, <2>2 DEF HandRepairs, RepairTask, t
  <2> QED  BY <1>2, <1>c, <2>1, <2>2, <2>3
<1>7. CASE ClearDebt(p)
  <2>1. /\ WithTask(p) /\ pc[p] = "clearing" /\ pc'[p] = "syncing"
        /\ UNCHANGED <<companion, todo, cur>>
    BY <1>1, <1>7 DEF ClearDebt, WithTask, TypeOK
  <2>2. ~WithTask(p)'
    BY <2>1 DEF WithTask
  <2>3. t.kind = "replace" => companion[t.id] = Target(p, t.id) /\ ~Queued(p, "delete", t.id)
    BY <1>1, <1>a, <2>1 DEF HandRepairs, RepairTask, Target, Queued, t
  <2>4. t.kind = "delete" => companion[t.id] = {}
    BY <1>a, <2>1 DEF HandRepairs, t
  <2>5. \A k \in {"delete", "replace"}, i \in Ids : (Queued(p, k, i)' <=> Queued(p, k, i)) /\ ~InHand(p, k, i)'
    BY <2>1, <2>2 DEF Queued, InHand
  <2>6. ASSUME NEW i \in Ids, snap[p].truth[i] # NoText PROVE RowIsRepaired(p, i)'
    <3>1. CASE Queued(p, "replace", i)
      BY <2>5, <3>1 DEF RowIsRepaired
    <3>2. CASE companion[i] = Target(p, i) /\ ~Queued(p, "delete", i)
      BY <1>1, <2>1, <2>5, <3>2 DEF RowIsRepaired, Target
    <3> QED  BY <1>a, <2>3, <2>6, <3>1, <3>2 DEF RowIsRepaired, InHand, t
  <2>7. ASSUME NEW i \in Stale(p) PROVE StaleIsRemoved(p, i)'
    BY <1>a, <2>1, <2>4, <2>5, <2>7 DEF StaleIsRemoved, InHand, Stale, t
  <2> QED  BY <1>2, <1>b, <2>1, <2>2, <2>6, <2>7
<1>8. ~DeleteVectorFails(p) /\ ~AddVectorFails(p) /\ ~Reconcile(p)
  <2>1. clean'[p] /\ pc[p] # "reconciling"
    BY <1>a DEF Repairing, WithTask, HandRepairs
  <2> QED  BY <2>1 DEF DeleteVectorFails, AddVectorFails, Reconcile, TypeOK
<1> QED
  BY <1>2, <1>4, <1>5, <1>6, <1>7, <1>8 DEF Sync

(* A repair begins with a task for everything it wants to change. *)
LEMMA RepairBegins ==
  ASSUME TypeOK, NEW p \in Procs, BeginRebuild(p), Repairing(p)'
  PROVE  RepairIsSound(p)'
<1> DEFINE s == snap[p]
           missing == {i \in Ids : s.truth[i] # NoText}
           stale == (s.listed \ missing) \cup {i \in Ids : s.debt[i] = "delete"}
           deletes == {[kind |-> "delete", id |-> i, vec |-> NoText] : i \in stale}
           replaces(e) == {[kind |-> "replace", id |-> i, vec |-> s.truth[i]] : i \in e}
<1>1. /\ pc'[p] = "syncing" /\ companion' = companion /\ job' = job /\ snap' = snap
      /\ job[p].op = "fullRebuild" /\ s \in Snapshot
  BY DEF BeginRebuild, TypeOK, Repairing, durable
<1>2. PICK e \in SUBSET missing : /\ todo' = [todo EXCEPT ![p] = deletes \cup replaces(e)]
                                  /\ clean' = [clean EXCEPT ![p] = (e = missing)]
  BY <1>1 DEF BeginRebuild
<1>3. todo'[p] = deletes \cup replaces(missing)
  BY <1>2 DEF TypeOK, Repairing
<1>4. ~WithTask(p)' /\ stale \subseteq Ids
  BY <1>1 DEF WithTask, Snapshot
<1>5. \A i \in missing : Queued(p, "replace", i)'
  <2> SUFFICES ASSUME NEW i \in missing PROVE \E t \in todo'[p] : t.kind = "replace" /\ t.id = i
    BY DEF Queued
  <2>1. [kind |-> "replace", id |-> i, vec |-> s.truth[i]] \in replaces(missing)
    OBVIOUS
  <2> QED  BY <1>3, <2>1
<1>6. \A i \in stale : Queued(p, "delete", i)'
  <2> SUFFICES ASSUME NEW i \in stale PROVE \E t \in todo'[p] : t.kind = "delete" /\ t.id = i
    BY DEF Queued
  <2>1. [kind |-> "delete", id |-> i, vec |-> NoText] \in deletes
    OBVIOUS
  <2> QED  BY <1>3, <2>1
<1>7. \A t \in todo'[p] : RepairTask(p, t)'
  BY <1>1, <1>3 DEF RepairTask
<1>8. Stale(p)' \subseteq stale
  BY <1>1 DEF Stale
<1> HIDE DEF stale, deletes, replaces
<1>9. \A i \in Ids : snap'[p].truth[i] # NoText => RowIsRepaired(p, i)'
  BY <1>1, <1>5 DEF RowIsRepaired
<1>10. \A i \in Stale(p)' : StaleIsRemoved(p, i)'
  BY <1>6, <1>8 DEF StaleIsRemoved
<1> QED
  BY <1>1, <1>4, <1>7, <1>9, <1>10 DEF RepairIsSound

(* Only these two kinds of step lead into a repair's companion work. *)
LEMMA RepairEntry ==
  ASSUME TypeOK, NEW p \in Procs, Step(p), Repairing(p)'
  PROVE  BeginRebuild(p) \/ Sync(p)
<1>1. pc'[p] \in {"syncing", "deleting", "adding", "reconciling", "clearing"} /\ job'[p].op = "fullRebuild"
  BY DEF Repairing, WithTask
<1>2. ~Call(p) /\ ~AcquireLock(p) /\ ~ResolveRow(p)
  BY <1>1 DEF TypeOK, Call, CallStore, CallImport, CallUpdate, CallMetadata, CallDelete, CallBulkDelete,
         CallSupersede, CallRebuild, ListVectorIds, ReadRepairDebt, Submit, AcquireLock, ResolveRow
<1>3. ~Exit(p)
  BY <1>1 DEF TypeOK, Exit, LockTimeout, Refuse, Crash, Return, End
<1>4. ~(CommitInsert(p) \/ CommitDelete(p) \/ CommitBulkDelete(p))
  BY <1>1 DEF CommitInsert, CommitDelete, CommitBulkDelete, Commit
<1>5. ~(CommitUpdate(p) \/ CommitSupersede(p))
  BY <1>1 DEF CommitUpdate, CommitSupersede, Commit
<1> QED
  BY <1>2, <1>3, <1>4, <1>5 DEF Step, Transaction

(* What others do meanwhile leaves them too: they do not hold the lock. *)
LEMMA RepairStep ==
  ASSUME TypeOK, LockIsHeld, RepairInv, [Next]_vars
  PROVE  RepairInv'
<1>1. ASSUME NEW p \in Procs, Step(p) PROVE RepairInv'
  <2> SUFFICES ASSUME NEW q \in Procs, Repairing(q)' PROVE RepairIsSound(q)'
    BY DEF RepairInv
  <2>1. CASE q = p
    BY <1>1, <2>1, RepairEntry, RepairBegins, RepairSync DEF RepairInv
  <2>2. CASE q # p
    <3>1. /\ pc'[q] = pc[q] /\ job'[q] = job[q] /\ todo'[q] = todo[q] /\ cur'[q] = cur[q]
          /\ clean'[q] = clean[q] /\ snap'[q] = snap[q]
      BY <1>1, <2>2, Frame
    <3>2. Repairing(q) /\ pc[q] \in Holding
      BY <3>1 DEF Repairing, WithTask, Holding
    <3>3. companion' = companion
      BY <1>1, <2>2, <3>2, OneHolder, DurableMoves DEF durable
    <3>4. RepairIsSound(q)
      BY <3>2 DEF RepairInv
    <3> QED
      BY <3>1, <3>3, <3>4 DEF RepairIsSound, RepairTask, HandRepairs, RowIsRepaired, StaleIsRemoved,
                              Queued, InHand, Target, Stale, WithTask
  <2> QED  BY <2>1, <2>2
<1>2. CASE UNCHANGED vars
  BY SMTT(30), <1>2 DEF vars, RepairInv, Repairing, RepairIsSound, RepairTask, HandRepairs, RowIsRepaired,
              StaleIsRemoved, Queued, InHand, Target, Stale, WithTask
<1> QED
  BY <1>1, <1>2 DEF Next, Step

(* What a clean full repair leaves when nothing is left to do. *)
LEMMA RepairEnds ==
  ASSUME RepairInv, NEW p \in Procs, Return(p), job[p].op = "fullRebuild", clean[p], NEW i \in Ids
  PROVE  \/ companion[i] = Target(p, i)
         \/ /\ snap[p].truth[i] = NoText
            /\ i \notin snap[p].listed
            /\ snap[p].debt[i] # "delete"
<1>1. pc[p] = "syncing" /\ todo[p] = {}
  BY DEF Return
<1>2. RepairIsSound(p) /\ ~WithTask(p)
  BY <1>1 DEF RepairInv, Repairing, WithTask
<1> QED
  BY <1>1, <1>2 DEF RepairIsSound, RowIsRepaired, StaleIsRemoved, Queued, InHand, Target, Stale

(* Any number of processes may write and crash meanwhile: the tasks of a     *)
(* repair, deletes before replaces, leave the companion as the reads before  *)
(* the lock asked (store.ts:1747-1848).  What those reads miss is finding 2. *)
THEOREM RepairsDoWhatTheyRead == Spec => RepairDoesWhatItRead
<1> DEFINE I == TypeOK /\ LockIsHeld /\ RepairInv
           A == \A p \in Procs :
                   Return(p) /\ job[p].op = "fullRebuild" /\ clean[p] =>
                      \A i \in Ids : \/ companion[i] = Target(p, i)
                                     \/ /\ snap[p].truth[i] = NoText
                                        /\ i \notin snap[p].listed
                                        /\ snap[p].debt[i] # "delete"
<1>1. Init => I
  BY TypeInit, StoreAssumption DEF Init, LockIsHeld, RepairInv, Repairing, WithTask, Holding
<1>2. I /\ [Next]_vars => I'
  BY TypeStep, LockStep, RepairStep
<1>3. I => A
  BY RepairEnds
<1> HIDE DEF I, A
<1>4. Spec => [][A]_vars
  BY <1>1, <1>2, <1>3, PTL DEF Spec
<1> QED
  BY <1>4 DEF A, RepairDoesWhatItRead

(* With one process, what a repair read stays true until it returns. *)
LEMMA CurrentStep ==
  ASSUME OneProcess, TypeOK, RepairInv, \A p \in Procs : ReadIsCurrent(p), [Next]_vars
  PROVE  (\A p \in Procs : ReadIsCurrent(p))'
<1>1. ASSUME NEW p \in Procs, Step(p), ReadIsCurrent(p)' PROVE (\A q \in Procs : ReadIsCurrent(q))'
  BY <1>1 DEF OneProcess
<1> USE DEF ReadIsCurrent
<1>2. ASSUME NEW p \in Procs, Step(p), Repairing(p)' PROVE ReadIsCurrent(p)'
  <2>1. pc'[p] \notin {"listing", "listed", "waiting", "locked"}
    BY <1>2 DEF Repairing, WithTask
  <2>2. CASE BeginRebuild(p)
    <3>1. /\ pc[p] = "locked" /\ job[p].op = "fullRebuild"
          /\ UNCHANGED <<truth, companion, snap>>
      BY <1>2, <2>2 DEF BeginRebuild, Repairing, durable
    <3> QED  BY <2>1, <3>1 DEF Listed
  <2>3. CASE Sync(p)
    <3>1. Repairing(p) /\ RepairIsSound(p)
      BY <1>2, <2>3, RepairSync DEF RepairInv
    <3>2. /\ UNCHANGED <<truth, snap>>
          /\ \/ companion' = companion
             \/ companion' = [companion EXCEPT ![cur[p].id] = {}]
             \/ /\ pc[p] = "adding"
                /\ \E v : companion' = [companion EXCEPT ![cur[p].id] = v]
      BY <2>3 DEF Sync, StartTask, DeleteVector, DeleteVectorFails, AddVector, AddVectorFails,
                  Reconcile, ClearDebt, durable
    <3>3. pc[p] = "adding" => truth[cur[p].id] # NoText
      BY <3>1 DEF RepairIsSound, RepairTask, HandRepairs, ReadIsCurrent, WithTask
    <3>4. \A i \in Ids : truth[i] = NoText /\ i \notin snap[p].listed => companion'[i] = {}
      BY <3>1, <3>2, <3>3 DEF TypeOK
    <3> QED  BY <2>1, <3>1, <3>2, <3>4
  <2> QED  BY <1>2, <2>2, <2>3, RepairEntry
<1>3. ASSUME NEW p \in Procs, Step(p), ~Repairing(p)' PROVE ReadIsCurrent(p)'
  <2>1. CASE Call(p)
    <3>1. UNCHANGED durable /\ pc'[p] \in {"listing", "listed", "waiting"}
      BY <2>1 DEF TypeOK, Call, CallStore, CallImport, CallUpdate, CallMetadata, CallDelete,
         CallBulkDelete, CallSupersede, CallRebuild, ListVectorIds, ReadRepairDebt, Submit
    <3>2. CASE CallRebuild(p)
      BY <1>3, <3>2 DEF CallRebuild, TypeOK, durable, Snapshot
    <3>3. CASE ListVectorIds(p)
      BY <1>3, <3>3 DEF ListVectorIds, TypeOK, durable, Snapshot, Listed
    <3>4. CASE ReadRepairDebt(p)
      BY <1>3, <3>4 DEF ReadRepairDebt, TypeOK, durable, Snapshot, Listed
    <3>5. CASE ~(CallRebuild(p) \/ ListVectorIds(p) \/ ReadRepairDebt(p))
      <4>1. \E j : pc' = [pc EXCEPT ![p] = "waiting"] /\ job' = [job EXCEPT ![p] = j]
                   /\ j.op # "fullRebuild"
        <5>1. ASSUME NEW j, Submit(p, j), j.op # "fullRebuild"
              PROVE  \E k : pc' = [pc EXCEPT ![p] = "waiting"] /\ job' = [job EXCEPT ![p] = k]
                            /\ k.op # "fullRebuild"
          BY <5>1 DEF Submit
        <5>2. CASE CallStore(p)
          <6>1. PICK i, t : Submit(p, [NoJob EXCEPT !.op = "store", !.id = i, !.text = t, !.vec = t])
            BY <5>2 DEF CallStore
          <6> QED  BY <5>1, <6>1 DEF NoJob
        <5>3. CASE CallImport(p)
          <6>1. PICK i, t : Submit(p, [NoJob EXCEPT !.op = "import", !.id = i, !.text = t, !.vec = t])
            BY <5>3 DEF CallImport
          <6> QED  BY <5>1, <6>1 DEF NoJob
        <5>4. CASE CallUpdate(p)
          <6>1. PICK i, t : Submit(p, [NoJob EXCEPT !.op = "update", !.id = i, !.text = t, !.vec = t])
            BY <5>4 DEF CallUpdate
          <6> QED  BY <5>1, <6>1 DEF NoJob
        <5>5. CASE CallSupersede(p)
          <6>1. PICK i, n, t : Submit(p, [NoJob EXCEPT !.op = "supersede", !.id = i, !.text = t, !.new = n])
            BY <5>5 DEF CallSupersede
          <6> QED  BY <5>1, <6>1 DEF NoJob
        <5>6. CASE CallMetadata(p) \/ CallDelete(p) \/ CallBulkDelete(p)
          BY <5>1, <5>6 DEF CallMetadata, CallDelete, CallBulkDelete, NoJob
        <5> QED  BY <2>1, <3>5, <5>2, <5>3, <5>4, <5>5, <5>6 DEF Call
      <4>2. pc'[p] = "waiting" /\ job'[p].op # "fullRebuild"
        BY <4>1 DEF TypeOK
      <4> QED  BY <1>3, <4>2
    <3> QED  BY <3>2, <3>3, <3>4, <3>5
  <2>2. CASE AcquireLock(p)
    BY <1>3, <2>2 DEF AcquireLock, TypeOK, durable, Listed
  <2>3. CASE Transaction(p) \/ Sync(p)
    <3>1. pc'[p] \notin {"listing", "listed", "waiting", "locked"}
      BY <2>3 DEF TypeOK, Transaction, CommitInsert, CommitDelete, CommitBulkDelete, ResolveRow,
         CommitUpdate, CommitSupersede, BeginRebuild, Commit, Sync, StartTask, DeleteVector,
         DeleteVectorFails, AddVector, AddVectorFails, Reconcile, ClearDebt
    <3> QED  BY <1>3, <3>1
  <2>4. CASE Exit(p)
    <3>1. pc'[p] = "idle"
      BY <2>4 DEF TypeOK, Exit, LockTimeout, Refuse, Crash, Return, End
    <3> QED  BY <1>3, <3>1
  <2> QED  BY <1>3, <2>1, <2>2, <2>3, <2>4 DEF Step
<1>4. CASE UNCHANGED vars
  BY <1>4 DEF vars, Repairing, WithTask, Listed
<1> QED
  BY <1>1, <1>2, <1>3, <1>4 DEF Next, Step

(* In the only process of its store, a full repair that reports no error has *)
(* repaired, from whatever failures and crashes left behind and on either     *)
(* backend.  Beside another process this fails (finding 2).                   *)
THEOREM FullRepairsRepair == ASSUME OneProcess PROVE Spec => CleanFullRepair
<1> DEFINE I == TypeOK /\ LockIsHeld /\ RepairInv /\ \A p \in Procs : ReadIsCurrent(p)
           A == \A p \in Procs :
                   Return(p) /\ job[p].op = "fullRebuild" /\ clean[p] => \A i \in Ids : InSync(i)
<1>1. Init => I
  BY TypeInit, StoreAssumption DEF Init, LockIsHeld, RepairInv, ReadIsCurrent, Repairing, WithTask, Holding
<1>2. I /\ [Next]_vars => I'
  BY TypeStep, LockStep, RepairStep, CurrentStep
<1>3. I => A
  <2> SUFFICES ASSUME I, NEW p \in Procs, Return(p), job[p].op = "fullRebuild", clean[p],
                      NEW i \in Ids
               PROVE  InSync(i)
    OBVIOUS
  <2>1. \/ companion[i] = Target(p, i)
        \/ snap[p].truth[i] = NoText /\ i \notin snap[p].listed
    BY RepairEnds
  <2>2. Repairing(p)
    BY DEF Return, Repairing
  <2> QED  BY <2>1, <2>2 DEF ReadIsCurrent, Target, InSync
<1> HIDE DEF I, A
<1>4. Spec => [][A]_vars
  BY <1>1, <1>2, <1>3, PTL DEF Spec
<1> QED
  BY <1>4 DEF A, CleanFullRepair
=============================================================================
