------------------------ MODULE MemoryStoreDebt_proofs ------------------------
(***************************************************************************)
(* Vector drift is always covered by durable debt: the proof that Inv is   *)
(* inductive when every writer brings its own embedding (WritesOnly), for  *)
(* any number of processes, ids and texts, that the store then implements  *)
(* DerivedIndex, and that presence is covered when writers may copy        *)
(* vectors (NoRepairs).  Only the lock's holder touches the durable state, *)
(* so each lemma is about one step of one process and what it leaves of    *)
(* the others' claims.                                                     *)
(***************************************************************************)
EXTENDS MemoryStore_proofs

(* Nothing is owed, nothing is stored, nobody is in a call. *)
LEMMA InvInit == Init => Inv
<1> SUFFICES ASSUME Init PROVE Inv
  OBVIOUS
<1>1. TypeOK
  BY TypeInit
<1>2. LockIsHeld
  BY StoreAssumption DEF Init, LockIsHeld, Holding
<1>3. UnusedIsBlank /\ DriftIsIndebted
  BY DEF Init, UnusedIsBlank, DriftIsIndebted, InSync
<1>4. JobIsSound /\ FreshIsBlank /\ WorkIsSound /\ CurrentIsSound
  BY DEF Init, JobIsSound, FreshIsBlank, WorkIsSound, CurrentIsSound, BeforeCommit, WithTask
<1> QED
  BY <1>1, <1>2, <1>3, <1>4 DEF Inv

(* While p holds the lock every other process is idle or waits. *)
LEMMA Outsiders ==
  ASSUME Inv, NEW p \in Procs, pc[p] \in Holding, NEW q \in Procs, q # p
  PROVE  /\ pc[q] \notin Holding
         /\ lock = p
         /\ pc[q] # "syncing" /\ ~WithTask(q)
         /\ BeforeCommit(q) => pc[q] = "waiting"
  BY DEF Inv, LockIsHeld, Holding, WithTask, BeforeCommit

(* A call that is submitted with sound arguments: the id is one the store    *)
(* has used, a new id is blank and nobody else's, and a delete aims at none  *)
(* of the new ids.                                                           *)
LEMMA SubmitInv ==
  ASSUME Inv, NEW p \in Procs, NEW j \in Job, Submit(p, j),
         used \subseteq used', used' \subseteq Ids,
         j.op \in Ops[p],
         j.op # "bulkDelete" => j.id \in used',
         j.op \in {"store", "import", "update"} => j.text \in Texts /\ j.vec = j.text,
         j.op = "store" /\ Appends =>
            /\ truth[j.id] = NoText /\ companion[j.id] = {} /\ debt[j.id] = "none"
            /\ \A q \in Procs : BeforeCommit(q) /\ job[q].op \in {"store", "delete"} =>
                  job[q].id # j.id,
         j.op = "delete" => truth[j.id] # NoText
  PROVE  Inv'
<1> USE DEF Submit, durable
<1>1. TypeOK /\ TypeOK'
  BY SubmitType DEF Inv
<1> job' = [job EXCEPT ![p] = j] /\ pc' = [pc EXCEPT ![p] = "waiting"]
  OBVIOUS
<1>2. LockIsHeld'
  BY <1>1 DEF Inv, LockIsHeld, TypeOK, Holding
<1>3. UnusedIsBlank' /\ DriftIsIndebted'
  BY DEF Inv, UnusedIsBlank, DriftIsIndebted, InSync
<1>4. JobIsSound'
  <2> SUFFICES ASSUME NEW q \in Procs
               PROVE  /\ pc'[q] \notin {"listing", "listed"}
                      /\ BeforeCommit(q)' => ArgumentsAreSound(q)'
    BY DEF JobIsSound
  <2>1. CASE q = p
    BY <1>1, <2>1 DEF TypeOK, ArgumentsAreSound
  <2>2. CASE q # p
    BY <1>1, <2>2 DEF TypeOK, Inv, JobIsSound, ArgumentsAreSound, BeforeCommit
  <2> QED  BY <2>1, <2>2
<1>5. FreshIsBlank'
  <2> SUFFICES ASSUME NEW q \in Procs, BeforeCommit(q)', job'[q].op = "store", Appends
               PROVE  /\ truth[job'[q].id] = NoText
                      /\ companion[job'[q].id] = {}
                      /\ debt[job'[q].id] = "none"
                      /\ \A r \in Procs \ {q} :
                            BeforeCommit(r)' /\ job'[r].op \in {"store", "delete"} =>
                               job'[r].id # job'[q].id
    BY DEF FreshIsBlank
  <2>1. CASE q = p
    BY <1>1, <2>1 DEF TypeOK, BeforeCommit
  <2>2. CASE q # p
    <3>1. /\ BeforeCommit(q) /\ job[q].op = "store" /\ job'[q] = job[q]
          /\ truth[job[q].id] = NoText
          /\ companion[job[q].id] = {}
          /\ debt[job[q].id] = "none"
          /\ \A r \in Procs \ {q} :
                BeforeCommit(r) /\ job[r].op \in {"store", "delete"} => job[r].id # job[q].id
      BY <1>1, <2>2 DEF TypeOK, BeforeCommit, Inv, FreshIsBlank
    <3>2. j.op \in {"store", "delete"} => j.id # job[q].id
      BY <3>1
    <3> QED
      BY <1>1, <3>1, <3>2 DEF TypeOK, BeforeCommit
  <2> QED  BY <2>1, <2>2
<1>6. WorkIsSound'
  BY <1>1 DEF Inv, WorkIsSound, TaskIsSound, WithTask, TypeOK
<1>7. CurrentIsSound'
  <2> SUFFICES ASSUME NEW q \in Procs, WithTask(q)' PROVE TaskInHandIsSound(q)'
    BY DEF CurrentIsSound
  <2>1. q # p /\ pc'[q] = pc[q]
    BY <1>1 DEF TypeOK, WithTask
  <2>2. TaskInHandIsSound(q)
    BY <2>1 DEF Inv, CurrentIsSound, WithTask
  <2> QED  BY <2>1, <2>2 DEF TaskInHandIsSound, InSync
<1> QED
  BY <1>1, <1>2, <1>3, <1>4, <1>5, <1>6, <1>7 DEF Inv

(* The end of a call gives the lock back and nothing else. *)
LEMMA EndInv ==
  ASSUME Inv, NEW p \in Procs, End(p), UNCHANGED durable
  PROVE  Inv'
<1> USE DEF durable
<1>1. TypeOK /\ TypeOK'
  BY EndType DEF Inv
<1> /\ job' = [job EXCEPT ![p] = NoJob] /\ pc' = [pc EXCEPT ![p] = "idle"]
    /\ lock' = (IF lock = p THEN NoProc ELSE lock)
    /\ todo' = [todo EXCEPT ![p] = {}] /\ cur' = [cur EXCEPT ![p] = NoTask]
    /\ UNCHANGED <<used, truth, debt, companion>>
  BY DEF End
<1>2. LockIsHeld'
  BY <1>1, StoreAssumption DEF Inv, LockIsHeld, TypeOK, Holding
<1>3. UnusedIsBlank' /\ DriftIsIndebted'
  BY DEF Inv, UnusedIsBlank, DriftIsIndebted, InSync
<1>4. \A q \in Procs : q # p => /\ pc'[q] = pc[q] /\ job'[q] = job[q]
                                /\ todo'[q] = todo[q] /\ cur'[q] = cur[q]
  BY <1>1 DEF TypeOK
<1>5. pc'[p] = "idle"
  BY <1>1 DEF TypeOK
<1>6. JobIsSound'
  BY <1>4, <1>5 DEF Inv, JobIsSound, ArgumentsAreSound, BeforeCommit
<1>7. FreshIsBlank'
  <2>1. \A q \in Procs : BeforeCommit(q)' => BeforeCommit(q) /\ job'[q] = job[q]
    BY <1>4, <1>5 DEF BeforeCommit
  <2> QED  BY <2>1 DEF Inv, FreshIsBlank
<1>8. WorkIsSound'
  <2> SUFFICES ASSUME NEW q \in Procs, pc'[q] = "syncing" \/ WithTask(q)'
               PROVE  /\ \A t \in todo'[q] : TaskIsSound(t)'
                      /\ \A t, u \in todo'[q] : t.id = u.id => t = u
    BY DEF WorkIsSound
  <2>1. q # p /\ pc'[q] = pc[q] /\ todo'[q] = todo[q]
    BY <1>4, <1>5 DEF WithTask
  <2> QED  BY <2>1 DEF Inv, WorkIsSound, TaskIsSound, WithTask
<1>9. CurrentIsSound'
  <2> SUFFICES ASSUME NEW q \in Procs, WithTask(q)' PROVE TaskInHandIsSound(q)'
    BY DEF CurrentIsSound
  <2>1. q # p /\ pc'[q] = pc[q] /\ todo'[q] = todo[q] /\ cur'[q] = cur[q]
    BY <1>4, <1>5 DEF WithTask
  <2>2. TaskInHandIsSound(q)
    BY <2>1 DEF Inv, CurrentIsSound, WithTask
  <2> QED  BY <2>1, <2>2 DEF TaskInHandIsSound, InSync
<1> QED
  BY <1>1, <1>2, <1>3, <1>6, <1>7, <1>8, <1>9 DEF Inv

(* A transaction of the lock holder: every row it writes is put in debt, and *)
(* the companion work it leaves is about those rows and their new text.      *)
LEMMA CommitInv ==
  ASSUME Inv, NEW p \in Procs, pc[p] \in {"locked", "resolved"},
         NEW newTruth \in [Ids -> OptText],
         NEW intents, DOMAIN intents \subseteq used,
         \A i \in DOMAIN intents : intents[i] \in {"upsert", "delete"},
         \A i \in Ids \ DOMAIN intents : newTruth[i] = truth[i],
         NEW work \in SUBSET Task,
         \A t \in work :
            /\ t.id \in DOMAIN intents
            /\ t.kind \in {"add", "replace"} => t.vec = newTruth[t.id] /\ t.vec \in Texts
            /\ t.kind = "add" /\ Appends => companion[t.id] = {}
            /\ t.kind = "delete" => newTruth[t.id] = NoText,
         \A t, u \in work : t.id = u.id => t = u,
         \A q \in Procs \ {p} : pc[q] = "waiting" /\ job[q].op = "store" /\ Appends =>
            job[q].id \notin DOMAIN intents,
         Commit(p, newTruth, intents, work)
  PROVE  Inv'
<1>1. TypeOK /\ TypeOK'
  BY CommitType DEF Inv, DebtKinds
<1> /\ truth' = newTruth
    /\ debt' = [i \in Ids |-> IF i \in DOMAIN intents THEN intents[i] ELSE debt[i]]
    /\ todo' = [todo EXCEPT ![p] = work] /\ pc' = [pc EXCEPT ![p] = "syncing"]
    /\ UNCHANGED <<companion, used, lock, job, cur, clean, snap>>
  BY DEF Commit
<1>2. pc[p] \in Holding
  BY DEF Holding
<1>3. LockIsHeld'
  BY <1>1, <1>2 DEF Inv, LockIsHeld, TypeOK, Holding
<1>4. UnusedIsBlank'
  BY <1>1 DEF Inv, UnusedIsBlank, TypeOK
<1>5. DriftIsIndebted'
  BY <1>1 DEF Inv, DriftIsIndebted, InSync, TypeOK
<1>6. \A q \in Procs \ {p} : pc'[q] = pc[q] /\ todo'[q] = todo[q]
  BY <1>1 DEF TypeOK
<1>7. pc'[p] = "syncing" /\ todo'[p] = work
  BY <1>1 DEF TypeOK
<1>8. JobIsSound'
  BY <1>2, <1>6, <1>7, Outsiders DEF Inv, JobIsSound, ArgumentsAreSound, BeforeCommit, WithTask
<1>9. FreshIsBlank'
  <2> SUFFICES ASSUME NEW q \in Procs, BeforeCommit(q)', job[q].op = "store", Appends
               PROVE  /\ truth'[job[q].id] = NoText
                      /\ companion[job[q].id] = {}
                      /\ debt'[job[q].id] = "none"
                      /\ \A r \in Procs \ {q} :
                            BeforeCommit(r)' /\ job[r].op \in {"store", "delete"} =>
                               job[r].id # job[q].id
    BY DEF FreshIsBlank
  <2>1. q # p /\ BeforeCommit(q) /\ pc[q] = "waiting"
    BY <1>2, <1>6, <1>7, Outsiders DEF BeforeCommit
  <2>2. job[q].id \in Ids /\ job[q].id \notin DOMAIN intents
    BY <1>1, <2>1 DEF TypeOK, Job
  <2>3. \A r \in Procs : BeforeCommit(r)' => BeforeCommit(r)
    BY <1>6, <1>7 DEF BeforeCommit
  <2> QED  BY <2>1, <2>2, <2>3 DEF Inv, FreshIsBlank
<1>10. WorkIsSound'
  <2> SUFFICES ASSUME NEW q \in Procs, pc'[q] = "syncing" \/ WithTask(q)'
               PROVE  /\ \A t \in todo'[q] : TaskIsSound(t)'
                      /\ \A t, u \in todo'[q] : t.id = u.id => t = u
    BY DEF WorkIsSound
  <2>1. q = p
    BY <1>2, <1>6, Outsiders DEF WithTask
  <2>2. \A t \in work : t.id \in Ids /\ debt'[t.id] # "none"
    BY DEF Task
  <2> QED  BY <1>7, <2>1, <2>2 DEF TaskIsSound
<1>11. CurrentIsSound'
  <2>1. \A q \in Procs : ~WithTask(q)'
    BY <1>2, <1>6, <1>7, Outsiders DEF WithTask
  <2> QED  BY <2>1 DEF CurrentIsSound
<1> QED
  BY <1>1, <1>3, <1>4, <1>5, <1>8, <1>9, <1>10, <1>11 DEF Inv

(* A step of p that leaves work to do and stands at x, and touches, of the   *)
(* companion and the debt, the rows of c alone.                              *)
WorkStep(p, x, work, c) ==
    /\ pc' = [pc EXCEPT ![p] = x]
    /\ todo' = [todo EXCEPT ![p] = work]
    /\ UNCHANGED <<truth, used, lock, job>>
    /\ \A i \in Ids \ {c} : debt'[i] = debt[i] /\ companion'[i] = companion[i]
    /\ \A u \in work : u.id = c => debt'[c] # "none" /\ companion'[c] = companion[c]
    /\ debt'[c] = "none" => companion'[c] = IF truth[c] = NoText THEN {} ELSE {truth[c]}

(* A step of the companion work: it touches the rows of one id c that is in  *)
(* debt, and the debt is only lifted when those rows agree with truth.       *)
LEMMA SyncInv ==
  ASSUME Inv, TypeOK', NEW p \in Procs, pc[p] = "syncing" \/ WithTask(p),
         NEW x \in {"syncing", "deleting", "adding", "reconciling", "clearing"},
         NEW work, work \subseteq todo[p], NEW c \in used, debt[c] # "none",
         WorkStep(p, x, work, c),
         CurrentIsSound'
  PROVE  Inv'
<1> USE DEF WorkStep
<1>1. TypeOK
  BY DEF Inv
<1>2. pc[p] \in Holding
  BY DEF Holding, WithTask
<1>3. \A q \in Procs \ {p} : pc'[q] = pc[q]
  BY <1>1 DEF TypeOK
<1>4. pc'[p] = x /\ todo'[p] = work
  BY <1>1 DEF TypeOK
<1>5. LockIsHeld'
  BY <1>2, <1>3, <1>4 DEF Inv, LockIsHeld, Holding
<1>6. UnusedIsBlank'
  BY <1>1 DEF Inv, UnusedIsBlank, TypeOK
<1>7. DriftIsIndebted'
  BY DEF Inv, DriftIsIndebted, InSync
<1>8. \A q \in Procs : BeforeCommit(q)' => BeforeCommit(q) /\ pc'[q] = pc[q]
  BY <1>3, <1>4 DEF BeforeCommit
<1>9. JobIsSound'
  BY <1>3, <1>4, <1>8 DEF Inv, JobIsSound, ArgumentsAreSound
<1>10. FreshIsBlank'
  <2> SUFFICES ASSUME NEW q \in Procs, BeforeCommit(q)', job[q].op = "store", Appends
               PROVE  /\ truth[job[q].id] = NoText
                      /\ companion'[job[q].id] = {}
                      /\ debt'[job[q].id] = "none"
                      /\ \A r \in Procs \ {q} :
                            BeforeCommit(r)' /\ job[r].op \in {"store", "delete"} =>
                               job[r].id # job[q].id
    BY DEF FreshIsBlank
  <2>1. /\ truth[job[q].id] = NoText /\ companion[job[q].id] = {} /\ debt[job[q].id] = "none"
        /\ \A r \in Procs \ {q} :
              BeforeCommit(r) /\ job[r].op \in {"store", "delete"} => job[r].id # job[q].id
    BY <1>8 DEF Inv, FreshIsBlank
  <2>2. job[q].id \in Ids \ {c}
    BY <1>1, <2>1 DEF TypeOK, Job
  <2> QED  BY <1>8, <2>1, <2>2
<1>11. WorkIsSound'
  <2> SUFFICES ASSUME NEW q \in Procs, pc'[q] = "syncing" \/ WithTask(q)'
               PROVE  /\ \A t \in todo'[q] : TaskIsSound(t)'
                      /\ \A t, u \in todo'[q] : t.id = u.id => t = u
    BY DEF WorkIsSound
  <2>1. q = p
    BY <1>2, <1>3, Outsiders DEF WithTask
  <2>2. ASSUME NEW t \in work
        PROVE  TaskIsSound(t) /\ debt'[t.id] # "none" /\ companion'[t.id] = companion[t.id]
    <3>1. TaskIsSound(t) /\ t.id \in Ids
      BY <1>1 DEF Inv, WorkIsSound, TypeOK, Task
    <3> QED  BY <3>1 DEF TaskIsSound
  <2>3. \A t, u \in work : t.id = u.id => t = u
    BY DEF Inv, WorkIsSound
  <2> QED  BY <1>4, <2>1, <2>2, <2>3 DEF TaskIsSound
<1> QED
  BY <1>5, <1>6, <1>7, <1>9, <1>10, <1>11 DEF Inv

(* The calls of WritesOnly writers satisfy SubmitInv. *)
LEMMA CallInv ==
  ASSUME WritesOnly, Inv, NEW p \in Procs, Call(p)
  PROVE  Inv'
<1>1. TypeOK
  BY DEF Inv
<1> USE Idle, <1>1 DEF TypeOK, Job, OpKinds, OptText
<1>2. CASE CallStore(p)
  <2>1. PICK i \in Ids \ used, t \in Texts :
          /\ Submit(p, [NoJob EXCEPT !.op = "store", !.id = i, !.text = t, !.vec = t])
          /\ used' = used \cup {i}
    BY <1>2 DEF CallStore
  <2> DEFINE j == [NoJob EXCEPT !.op = "store", !.id = i, !.text = t, !.vec = t]
  <2>2. j \in Job /\ j.op = "store" /\ j.id = i /\ j.text = t /\ j.vec = t
    BY DEF NoJob
  <2>3. truth[i] = NoText /\ companion[i] = {} /\ debt[i] = "none"
    BY DEF Inv, UnusedIsBlank
  <2>4. \A q \in Procs : BeforeCommit(q) /\ job[q].op \in {"store", "delete"} => job[q].id # i
    BY DEF Inv, JobIsSound, ArgumentsAreSound
  <2>5. j.op \in Ops[p] /\ used' \subseteq Ids
    BY <2>1, <2>2 DEF Submit
  <2>9. Submit(p, j)
    BY <2>1
  <2> HIDE DEF j, TypeOK, Job, OpKinds, OptText
  <2> QED  BY <2>1, <2>2, <2>3, <2>4, <2>5, <2>9, SubmitInv
<1>3. CASE CallImport(p)
  <2>1. PICK i \in Ids \ Present, t \in Texts :
          /\ Submit(p, [NoJob EXCEPT !.op = "import", !.id = i, !.text = t, !.vec = t])
          /\ used' = used \cup {i}
    BY <1>3 DEF CallImport
  <2> DEFINE j == [NoJob EXCEPT !.op = "import", !.id = i, !.text = t, !.vec = t]
  <2>2. j \in Job /\ j.op = "import" /\ j.id = i /\ j.text = t /\ j.vec = t
    BY DEF NoJob
  <2>3. j.op \in Ops[p] /\ used' \subseteq Ids
    BY <2>1, <2>2 DEF Submit
  <2>9. Submit(p, j)
    BY <2>1
  <2> HIDE DEF j, TypeOK, Job, OpKinds, OptText
  <2> QED  BY <2>1, <2>2, <2>3, <2>9, SubmitInv
<1>4. CASE CallUpdate(p)
  <2>1. PICK i \in used, t \in Texts :
          /\ Submit(p, [NoJob EXCEPT !.op = "update", !.id = i, !.text = t, !.vec = t])
          /\ UNCHANGED used
    BY <1>4 DEF CallUpdate
  <2> DEFINE j == [NoJob EXCEPT !.op = "update", !.id = i, !.text = t, !.vec = t]
  <2>2. j \in Job /\ j.op = "update" /\ j.id = i /\ j.text = t /\ j.vec = t
    BY DEF NoJob
  <2>3. j.op \in Ops[p] /\ used' \subseteq Ids
    BY <2>1, <2>2 DEF Submit
  <2>9. Submit(p, j)
    BY <2>1
  <2> HIDE DEF j, TypeOK, Job, OpKinds, OptText
  <2> QED  BY <2>1, <2>2, <2>3, <2>9, SubmitInv
<1>5. CASE CallDelete(p)
  <2>1. PICK i \in Present :
          /\ Submit(p, [NoJob EXCEPT !.op = "delete", !.id = i])
          /\ UNCHANGED used
    BY <1>5 DEF CallDelete
  <2> DEFINE j == [NoJob EXCEPT !.op = "delete", !.id = i]
  <2>2. j \in Job /\ j.op = "delete" /\ j.id = i
    BY DEF NoJob, Present
  <2>3. truth[i] # NoText /\ i \in used
    BY DEF Present, Inv, UnusedIsBlank
  <2>4. j.op \in Ops[p] /\ used' \subseteq Ids
    BY <2>1, <2>2 DEF Submit
  <2>9. Submit(p, j)
    BY <2>1
  <2> HIDE DEF j, TypeOK, Job, OpKinds, OptText
  <2> QED  BY <2>1, <2>2, <2>3, <2>4, <2>9, SubmitInv
<1>6. CASE CallBulkDelete(p)
  <2> DEFINE j == [NoJob EXCEPT !.op = "bulkDelete"]
  <2>1. j \in Job /\ j.op = "bulkDelete"
    BY DEF NoJob
  <2>2. Submit(p, j) /\ UNCHANGED used
    BY <1>6 DEF CallBulkDelete
  <2>3. j.op \in Ops[p] /\ used' \subseteq Ids
    BY <2>1, <2>2 DEF Submit
  <2> HIDE DEF j, TypeOK, Job, OpKinds, OptText
  <2> QED  BY <2>1, <2>2, <2>3, SubmitInv
<1>7. ~(CallMetadata(p) \/ CallSupersede(p) \/ CallRebuild(p))
  <2>1. Ops[p] \cap {"metadata", "supersede", "rebuild", "fullRebuild"} = {}
    BY DEF WritesOnly
  <2>2. ~CallMetadata(p)
    <3> SUFFICES ASSUME NEW i \in used, Submit(p, [NoJob EXCEPT !.op = "metadata", !.id = i])
                 PROVE  FALSE
      BY DEF CallMetadata
    <3> QED  BY <2>1 DEF Submit, NoJob
  <2>3. ~CallSupersede(p)
    <3> SUFFICES ASSUME NEW i \in used, NEW n \in Ids \ used, NEW t \in Texts,
                        Submit(p, [NoJob EXCEPT !.op = "supersede", !.id = i, !.text = t, !.new = n])
                 PROVE  FALSE
      BY DEF CallSupersede
    <3> QED  BY <2>1 DEF Submit, NoJob
  <2> QED  BY <2>1, <2>2, <2>3 DEF CallRebuild
<1>8. ~(ListVectorIds(p) \/ ReadRepairDebt(p))
  BY DEF Inv, JobIsSound, ListVectorIds, ReadRepairDebt
<1> QED
  BY <1>2, <1>3, <1>4, <1>5, <1>6, <1>7, <1>8 DEF Call

(* The transactions of WritesOnly writers satisfy CommitInv; resolving a row *)
(* only moves the lock holder on.                                            *)
LEMMA TransactionInv ==
  ASSUME WritesOnly, Inv, NEW p \in Procs, Transaction(p)
  PROVE  Inv'
<1> DEFINE j == job[p]
<1>1. TypeOK /\ j \in Job
  BY DEF Inv, TypeOK
<1>2. pc[p] \in {"locked", "resolved"}
  BY DEF Transaction, CommitInsert, CommitDelete, CommitBulkDelete, ResolveRow, CommitUpdate,
         CommitSupersede, BeginRebuild
<1>3. ArgumentsAreSound(p) /\ BeforeCommit(p) /\ pc[p] \in Holding
  BY <1>2 DEF Inv, JobIsSound, BeforeCommit, Holding
<1>4. /\ j.op \in {"store", "import", "update", "delete", "bulkDelete"}
      /\ Appends => j.op # "import"
  BY <1>3 DEF ArgumentsAreSound, WritesOnly
<1>5. CASE CommitInsert(p)
  <2> DEFINE work == {[kind |-> "add", id |-> j.id, vec |-> j.vec]}
             intents == [i \in {j.id} |-> "upsert"]
             newTruth == [truth EXCEPT ![j.id] = j.text]
  <2>1. Commit(p, newTruth, intents, work) /\ j.op \in {"store", "import"}
    BY <1>5 DEF CommitInsert
  <2>2. j.id \in used /\ j.id \in Ids /\ j.text \in Texts /\ j.vec = j.text
    BY <1>1, <1>3, <2>1 DEF ArgumentsAreSound, Job
  <2>3. newTruth \in [Ids -> OptText] /\ \A i \in Ids \ DOMAIN intents : newTruth[i] = truth[i]
    BY <1>1, <2>2 DEF TypeOK, OptText
  <2>4. work \in SUBSET Task
    BY <2>2 DEF Task, OptText
  <2>5. Appends => companion[j.id] = {}
    BY <1>3, <1>4, <2>1 DEF Inv, FreshIsBlank
  <2>6. newTruth[j.id] = j.vec
    BY <1>1, <2>2 DEF TypeOK
  <2>7. \A t \in work : /\ t.id \in DOMAIN intents
                        /\ t.kind \in {"add", "replace"} => t.vec = newTruth[t.id] /\ t.vec \in Texts
                        /\ t.kind = "add" /\ Appends => companion[t.id] = {}
                        /\ t.kind = "delete" => newTruth[t.id] = NoText
    BY <2>2, <2>5, <2>6
  <2>8. \A q \in Procs \ {p} : pc[q] = "waiting" /\ job[q].op = "store" /\ Appends =>
            job[q].id \notin DOMAIN intents
    BY <1>3, <1>4, <2>1 DEF Inv, FreshIsBlank, BeforeCommit
  <2>9. /\ DOMAIN intents \subseteq used
        /\ \A i \in DOMAIN intents : intents[i] \in {"upsert", "delete"}
        /\ \A t, u \in work : t.id = u.id => t = u
    BY <2>2
  <2> HIDE DEF j, work, intents, newTruth
  <2> QED  BY <1>2, <2>1, <2>3, <2>4, <2>7, <2>8, <2>9, CommitInv
<1>6. CASE CommitDelete(p)
  <2> DEFINE work == {[kind |-> "delete", id |-> j.id, vec |-> NoText]}
             intents == [i \in {j.id} |-> "delete"]
             newTruth == [truth EXCEPT ![j.id] = NoText]
  <2>1. Commit(p, newTruth, intents, work) /\ j.op = "delete"
    BY <1>6 DEF CommitDelete
  <2>2. j.id \in used /\ j.id \in Ids
    BY <1>1, <1>3, <2>1 DEF ArgumentsAreSound, Job
  <2>3. newTruth \in [Ids -> OptText] /\ \A i \in Ids \ DOMAIN intents : newTruth[i] = truth[i]
    BY <1>1, <2>2 DEF TypeOK, OptText
  <2>4. work \in SUBSET Task
    BY <2>2 DEF Task, OptText
  <2>5. newTruth[j.id] = NoText
    BY <1>1, <2>2 DEF TypeOK
  <2>6. \A t \in work : /\ t.id \in DOMAIN intents
                        /\ t.kind \in {"add", "replace"} => t.vec = newTruth[t.id] /\ t.vec \in Texts
                        /\ t.kind = "add" /\ Appends => companion[t.id] = {}
                        /\ t.kind = "delete" => newTruth[t.id] = NoText
    BY <2>5
  <2>7. \A q \in Procs \ {p} : pc[q] = "waiting" /\ job[q].op = "store" /\ Appends =>
            job[q].id \notin DOMAIN intents
    BY <1>3, <2>1 DEF Inv, FreshIsBlank, BeforeCommit
  <2>8. /\ DOMAIN intents \subseteq used
        /\ \A i \in DOMAIN intents : intents[i] \in {"upsert", "delete"}
        /\ \A t, u \in work : t.id = u.id => t = u
    BY <2>2
  <2> HIDE DEF j, work, intents, newTruth
  <2> QED  BY <1>2, <2>1, <2>3, <2>4, <2>6, <2>7, <2>8, CommitInv
<1>7. CASE CommitBulkDelete(p)
  <2>1. PICK S \in SUBSET Present :
          Commit(p, [i \in Ids |-> IF i \in S THEN NoText ELSE truth[i]], [i \in S |-> "delete"],
                 {[kind |-> "delete", id |-> i, vec |-> NoText] : i \in S})
    BY <1>7 DEF CommitBulkDelete
  <2> DEFINE work == {[kind |-> "delete", id |-> i, vec |-> NoText] : i \in S}
             intents == [i \in S |-> "delete"]
             newTruth == [i \in Ids |-> IF i \in S THEN NoText ELSE truth[i]]
  <2>2. Commit(p, newTruth, intents, work)
    BY <2>1
  <2>3. \A i \in S : i \in Ids /\ i \in used /\ truth[i] # NoText
    BY DEF Present, Inv, UnusedIsBlank
  <2>4. newTruth \in [Ids -> OptText] /\ \A i \in Ids \ DOMAIN intents : newTruth[i] = truth[i]
    BY <1>1 DEF TypeOK, OptText
  <2>5. work \in SUBSET Task
    BY <2>3 DEF Task, OptText
  <2>6. \A t \in work : /\ t.id \in DOMAIN intents
                        /\ t.kind \in {"add", "replace"} => t.vec = newTruth[t.id] /\ t.vec \in Texts
                        /\ t.kind = "add" /\ Appends => companion[t.id] = {}
                        /\ t.kind = "delete" => newTruth[t.id] = NoText
    BY <2>3
  <2>7. \A q \in Procs \ {p} : pc[q] = "waiting" /\ job[q].op = "store" /\ Appends =>
            job[q].id \notin DOMAIN intents
    BY <2>3 DEF Inv, FreshIsBlank, BeforeCommit
  <2>8. /\ DOMAIN intents \subseteq used
        /\ \A i \in DOMAIN intents : intents[i] \in {"upsert", "delete"}
        /\ \A t, u \in work : t.id = u.id => t = u
    BY <2>3
  <2> HIDE DEF work, intents, newTruth
  <2> QED  BY <1>2, <2>2, <2>4, <2>5, <2>6, <2>7, <2>8, CommitInv
<1>8. CASE ResolveRow(p)
  <2>1. /\ pc' = [pc EXCEPT ![p] = "resolved"] /\ truth[j.id] # NoText /\ j.op = "update"
        /\ UNCHANGED <<truth, debt, companion, used, lock, job, todo, cur, clean, snap>>
    BY <1>4, <1>8 DEF ResolveRow, durable
  <2>2. TypeOK'
    BY <1>1, <2>1 DEF TypeOK, Holding
  <2>3. /\ pc'[p] = "resolved" /\ \A q \in Procs \ {p} : pc'[q] = pc[q]
        /\ \A q \in Procs : BeforeCommit(q)' => BeforeCommit(q)
    BY <1>1, <1>3, <2>1 DEF TypeOK, BeforeCommit
  <2>4. LockIsHeld'
    BY <1>3, <2>1, <2>3 DEF Inv, LockIsHeld, Holding
  <2>5. JobIsSound'
    <3> SUFFICES ASSUME NEW q \in Procs
                 PROVE  /\ pc'[q] \notin {"listing", "listed"}
                        /\ BeforeCommit(q)' => ArgumentsAreSound(q)'
      BY DEF JobIsSound
    <3>1. CASE q = p
      BY <1>3, <2>1, <2>3, <3>1 DEF ArgumentsAreSound
    <3>2. CASE q # p
      BY <2>1, <2>3, <3>2 DEF Inv, JobIsSound, ArgumentsAreSound
    <3> QED  BY <3>1, <3>2
  <2>6. FreshIsBlank'
    BY <2>1, <2>3 DEF Inv, FreshIsBlank
  <2>7. \A q \in Procs : pc'[q] # "syncing" /\ ~WithTask(q)'
    BY <1>3, <2>3, Outsiders DEF WithTask
  <2>8. WorkIsSound' /\ CurrentIsSound'
    BY <2>7 DEF WorkIsSound, CurrentIsSound
  <2>9. UnusedIsBlank' /\ DriftIsIndebted'
    BY <2>1 DEF Inv, UnusedIsBlank, DriftIsIndebted, InSync
  <2> QED  BY <2>2, <2>4, <2>5, <2>6, <2>8, <2>9 DEF Inv
<1>9. CASE CommitUpdate(p)
  <2> DEFINE work == {[kind |-> "replace", id |-> j.id, vec |-> j.vec]}
             intents == [i \in {j.id} |-> "upsert"]
             newTruth == [truth EXCEPT ![j.id] = j.text]
  <2>1. j.op = "update" /\ truth[j.id] # NoText /\ j.id \in used
    BY <1>3, <1>9 DEF CommitUpdate, ArgumentsAreSound
  <2>2. j.id \in Ids /\ j.text \in Texts /\ j.vec = j.text
    BY <1>1, <1>3, <2>1 DEF ArgumentsAreSound, Job
  <2>3. Commit(p, newTruth, intents, work)
    BY <1>9, <2>2, StoreAssumption DEF CommitUpdate, Rewrite
  <2>4. newTruth \in [Ids -> OptText] /\ \A i \in Ids \ DOMAIN intents : newTruth[i] = truth[i]
    BY <1>1, <2>2 DEF TypeOK, OptText
  <2>5. work \in SUBSET Task
    BY <2>2 DEF Task, OptText
  <2>6. newTruth[j.id] = j.vec
    BY <1>1, <2>2 DEF TypeOK
  <2>7. \A t \in work : /\ t.id \in DOMAIN intents
                        /\ t.kind \in {"add", "replace"} => t.vec = newTruth[t.id] /\ t.vec \in Texts
                        /\ t.kind = "add" /\ Appends => companion[t.id] = {}
                        /\ t.kind = "delete" => newTruth[t.id] = NoText
    BY <2>2, <2>6
  <2>8. \A q \in Procs \ {p} : pc[q] = "waiting" /\ job[q].op = "store" /\ Appends =>
            job[q].id \notin DOMAIN intents
    BY <2>1 DEF Inv, FreshIsBlank, BeforeCommit
  <2>9. /\ DOMAIN intents \subseteq used
        /\ \A i \in DOMAIN intents : intents[i] \in {"upsert", "delete"}
        /\ \A t, u \in work : t.id = u.id => t = u
    BY <2>1
  <2> HIDE DEF j, work, intents, newTruth
  <2> QED  BY <1>2, <2>3, <2>4, <2>5, <2>7, <2>8, <2>9, CommitInv
<1>10. ~(CommitSupersede(p) \/ BeginRebuild(p))
  BY <1>4 DEF CommitSupersede, BeginRebuild
<1> QED
  BY <1>5, <1>6, <1>7, <1>8, <1>9, <1>10 DEF Transaction

(* A step of the companion work satisfies SyncInv: the debt of the id in     *)
(* hand is only lifted once its delete or add has gone through.              *)
LEMMA CompanionInv ==
  ASSUME Inv, TypeOK', NEW p \in Procs, Sync(p)
  PROVE  Inv'
<1> DEFINE t == cur[p]
<1>1. TypeOK /\ t \in Task /\ todo[p] \subseteq Task
  BY DEF Inv, TypeOK
<1>2. todo = [todo EXCEPT ![p] = todo[p]]
  BY <1>1 DEF TypeOK
<1>a. pc[p] \in Holding /\ \A q \in Procs \ {p} : pc[q] \notin Holding
  <2>1. pc[p] \in Holding
    BY DEF Sync, StartTask, DeleteVector, DeleteVectorFails, AddVector, AddVectorFails,
           Reconcile, ClearDebt, Holding
  <2> QED  BY <2>1, Outsiders
<1>b. ASSUME NEW x, pc' = [pc EXCEPT ![p] = x], x = "syncing" \/ TaskInHandIsSound(p)'
      PROVE  CurrentIsSound'
  <2>1. pc'[p] = x /\ \A q \in Procs \ {p} : ~WithTask(q)'
    BY <1>1, <1>a, <1>b DEF TypeOK, WithTask, Holding
  <2>2. CASE x = "syncing"
    BY <2>1, <2>2 DEF CurrentIsSound, WithTask
  <2>3. CASE TaskInHandIsSound(p)'
    BY <2>1, <2>3 DEF CurrentIsSound
  <2> QED  BY <1>b, <2>2, <2>3
<1>3. CASE StartTask(p)
  <2>1. PICK s \in todo[p] :
          /\ todo' = [todo EXCEPT ![p] = @ \ {s}]
          /\ cur' = [cur EXCEPT ![p] = s]
          /\ pc' = [pc EXCEPT ![p] = CASE s.kind = "add" -> "adding"
                                       [] s.kind = "mark" -> "reconciling"
                                       [] OTHER -> "deleting"]
    BY <1>3 DEF StartTask
  <2> DEFINE x == CASE s.kind = "add" -> "adding"
                    [] s.kind = "mark" -> "reconciling"
                    [] OTHER -> "deleting"
             work == todo[p] \ {s}
  <2>2. pc[p] = "syncing" /\ UNCHANGED <<truth, debt, companion, used, lock, job, clean, snap>>
    BY <1>3 DEF StartTask, durable
  <2>3. s \in Task /\ TaskIsSound(s) /\ s.id \in used /\ debt[s.id] # "none"
    BY <1>1, <2>2 DEF Inv, WorkIsSound, TaskIsSound
  <2>4. \A u \in work : u.id # s.id
    BY <2>2 DEF Inv, WorkIsSound
  <2>5. /\ x \in {"syncing", "deleting", "adding", "reconciling", "clearing"}
        /\ x = "adding" => s.kind = "add"
        /\ x = "deleting" => s.kind \in {"delete", "replace"}
        /\ x # "clearing"
    BY <2>3 DEF Task
  <2>6. pc'[p] = x /\ todo'[p] = work /\ cur'[p] = s
    BY <1>1, <2>1 DEF TypeOK
  <2>7. TaskInHandIsSound(p)'
    BY <2>2, <2>3, <2>4, <2>5, <2>6 DEF TaskInHandIsSound, TaskIsSound
  <2>8. pc' = [pc EXCEPT ![p] = x] /\ todo' = [todo EXCEPT ![p] = work]
    BY <2>1
  <2>9. work \subseteq todo[p]
    OBVIOUS
  <2>10. CurrentIsSound'
    BY <1>b, <2>7, <2>8
  <2>11. WorkStep(p, x, work, s.id)
    BY <2>2, <2>3, <2>4, <2>8 DEF WorkStep
  <2> HIDE DEF x, work, t
  <2> QED  BY <2>2, <2>3, <2>5, <2>9, <2>10, <2>11, SyncInv
<1> PICK c \in Ids : c = t.id
  BY <1>1 DEF Task
<1>4. ASSUME WithTask(p)
      PROVE  /\ TaskInHandIsSound(p) /\ c \in used /\ debt[c] # "none"
             /\ \A u \in todo[p] : u.id # c
  BY <1>4 DEF Inv, CurrentIsSound, TaskInHandIsSound
<1>5. CASE DeleteVector(p)
  <2> DEFINE x == IF t.kind = "replace" THEN "adding" ELSE "clearing"
  <2>1. /\ pc[p] = "deleting" /\ WithTask(p)
        /\ companion' = [companion EXCEPT ![c] = {}] /\ pc' = [pc EXCEPT ![p] = x]
        /\ UNCHANGED <<truth, debt, used, lock, job, todo, cur, clean, snap>>
    BY <1>5 DEF DeleteVector, WithTask
  <2>2. /\ pc'[p] = x
        /\ companion'[c] = {} /\ \A i \in Ids \ {c} : companion'[i] = companion[i]
    BY <1>1, <1>4, <2>1 DEF TypeOK
  <2>3. TaskInHandIsSound(p)'
    BY <1>4, <2>1, <2>2 DEF TaskInHandIsSound, InSync
  <2>4. x \in {"syncing", "deleting", "adding", "reconciling", "clearing"}
    OBVIOUS
  <2>5. CurrentIsSound'
    BY <1>b, <2>1, <2>3
  <2>6. WorkStep(p, x, todo[p], c)
    BY <1>2, <1>4, <2>1, <2>2 DEF WorkStep
  <2> HIDE DEF x, t
  <2> QED  BY <1>4, <2>1, <2>4, <2>5, <2>6, SyncInv
<1>6. CASE DeleteVectorFails(p)
  <2> DEFINE x == IF t.kind = "replace" THEN "adding" ELSE "syncing"
  <2>1. /\ pc[p] = "deleting" /\ WithTask(p) /\ pc' = [pc EXCEPT ![p] = x]
        /\ debt' \in {debt, [debt EXCEPT ![c] = "delete"]}
        /\ cur' = [cur EXCEPT ![p].kind = IF @ = "replace" THEN "mark" ELSE @]
        /\ UNCHANGED <<truth, companion, used, lock, job, todo, snap>>
    BY <1>6 DEF DeleteVectorFails, WithTask, MarkDebt
  <2>2. /\ pc'[p] = x
        /\ debt'[c] # "none" /\ \A i \in Ids \ {c} : debt'[i] = debt[i]
    BY <1>1, <1>4, <2>1 DEF TypeOK
  <2>3. /\ cur'[p].id = c /\ cur'[p].vec = t.vec
        /\ t.kind = "replace" => cur'[p].kind = "mark"
    BY <1>1, <2>1 DEF TypeOK, Task
  <2>4. x # "syncing" => TaskInHandIsSound(p)'
    BY <1>4, <2>1, <2>2, <2>3 DEF TaskInHandIsSound
  <2>5. x \in {"syncing", "deleting", "adding", "reconciling", "clearing"}
    OBVIOUS
  <2>6. CurrentIsSound'
    BY <1>b, <2>1, <2>4
  <2>7. WorkStep(p, x, todo[p], c)
    BY <1>2, <1>4, <2>1, <2>2 DEF WorkStep
  <2> HIDE DEF x, t
  <2> QED  BY <1>4, <2>1, <2>5, <2>6, <2>7, SyncInv
<1>7. CASE AddVector(p)
  <2> DEFINE x == IF t.kind = "mark" THEN "reconciling" ELSE "clearing"
  <2>1. /\ pc[p] = "adding" /\ WithTask(p) /\ pc' = [pc EXCEPT ![p] = x]
        /\ companion' = [companion EXCEPT ![c] = IF Appends THEN @ \cup {t.vec} ELSE {t.vec}]
        /\ UNCHANGED <<truth, debt, used, lock, job, todo, cur, clean, snap>>
    BY <1>7 DEF AddVector, WithTask
  <2>2. /\ pc'[p] = x
        /\ companion'[c] = (IF Appends THEN companion[c] \cup {t.vec} ELSE {t.vec})
        /\ \A i \in Ids \ {c} : companion'[i] = companion[i]
    BY <1>1, <1>4, <2>1 DEF TypeOK
  <2>3. t.vec = truth[c] /\ truth[c] # NoText /\ (Appends /\ t.kind # "mark" => companion[c] = {})
    BY <1>4, <2>1, StoreAssumption DEF TaskInHandIsSound
  <2>4. x = "clearing" => companion'[c] = IF truth[c] = NoText THEN {} ELSE {truth[c]}
    BY <2>1, <2>2, <2>3 DEF InSync
  <2>5. TaskInHandIsSound(p)'
    BY <1>4, <2>1, <2>2, <2>4 DEF TaskInHandIsSound, InSync
  <2>6. x \in {"syncing", "deleting", "adding", "reconciling", "clearing"}
    OBVIOUS
  <2>7. CurrentIsSound'
    BY <1>b, <2>1, <2>5
  <2>8. WorkStep(p, x, todo[p], c)
    BY <1>2, <1>4, <2>1, <2>2 DEF WorkStep
  <2> HIDE DEF x, t
  <2> QED  BY <1>4, <2>1, <2>6, <2>7, <2>8, SyncInv
<1>8. ASSUME WithTask(p), pc' = [pc EXCEPT ![p] = "syncing"],
             \E a \in {"upsert", "none"} : /\ debt' \in {debt, [debt EXCEPT ![c] = a]}
                                           /\ a = "none" => InSync(c),
             UNCHANGED <<truth, companion, used, lock, job, todo>>
      PROVE  Inv'
  <2>0. debt \in [Ids -> DebtKinds]
    BY <1>1 DEF TypeOK
  <2>1. PICK a \in {"upsert", "none"} : /\ debt' \in {debt, [debt EXCEPT ![c] = a]}
                                        /\ a = "none" => InSync(c)
    BY <1>8
  <2>2. /\ \A i \in Ids \ {c} : debt'[i] = debt[i]
        /\ debt'[c] = debt[c] \/ debt'[c] = a
    <3>1. CASE debt' = debt
      BY <3>1
    <3>2. CASE debt' = [debt EXCEPT ![c] = a]
      BY <2>0, <3>2
    <3> QED  BY <2>1, <3>1, <3>2
  <2>3. debt'[c] = "none" => companion'[c] = IF truth[c] = NoText THEN {} ELSE {truth[c]}
    <3>1. debt'[c] = "none" => a = "none"
      BY <1>4, <1>8, <2>2
    <3>2. companion'[c] = companion[c]
      BY <1>8
    <3> QED  BY <2>1, <3>1, <3>2 DEF InSync
  <2>4. CurrentIsSound'
    BY <1>b, <1>8
  <2>5. WorkStep(p, "syncing", todo[p], c)
    BY <1>2, <1>4, <1>8, <2>2, <2>3 DEF WorkStep
  <2> HIDE DEF t
  <2> QED  BY <1>4, <1>8, <2>4, <2>5, SyncInv
<1>9. CASE AddVectorFails(p)
  BY <1>8, <1>9 DEF AddVectorFails, WithTask, MarkDebt
<1>10. CASE Reconcile(p)
  BY <1>8, <1>10 DEF Reconcile, WithTask, MarkDebt
<1>11. CASE ClearDebt(p)
  <2>1. WithTask(p) /\ pc[p] = "clearing"
    BY <1>11 DEF ClearDebt, WithTask
  <2>2. InSync(c)
    BY <1>4, <2>1 DEF TaskInHandIsSound
  <2> QED  BY <1>8, <1>11, <2>1, <2>2 DEF ClearDebt, MarkDebt
<1> QED
  BY <1>3, <1>5, <1>6, <1>7, <1>9, <1>10, <1>11 DEF Sync

(* Taking the free lock. *)
LEMMA AcquireInv ==
  ASSUME Inv, TypeOK', NEW p \in Procs, AcquireLock(p)
  PROVE  Inv'
<1>1. /\ pc[p] = "waiting" /\ lock = NoProc /\ lock' = p /\ pc' = [pc EXCEPT ![p] = "locked"]
      /\ UNCHANGED <<truth, debt, companion, used, job, todo, cur, clean, snap>>
  BY DEF AcquireLock, durable
<1>2. pc'[p] = "locked" /\ \A q \in Procs \ {p} : pc'[q] = pc[q]
  BY <1>1 DEF Inv, TypeOK
<1>3. \A q \in Procs : pc[q] \notin Holding
  BY <1>1, StoreAssumption DEF Inv, LockIsHeld
<1>4. LockIsHeld'
  BY <1>1, <1>2, <1>3 DEF LockIsHeld, Holding
<1>5. \A q \in Procs : BeforeCommit(q)' => BeforeCommit(q) /\ (q # p => pc'[q] = pc[q])
  BY <1>1, <1>2 DEF BeforeCommit
<1>6. JobIsSound'
  BY <1>1, <1>2, <1>5 DEF Inv, JobIsSound, ArgumentsAreSound
<1>7. FreshIsBlank'
  BY <1>1, <1>5 DEF Inv, FreshIsBlank
<1>8. \A q \in Procs : pc'[q] # "syncing" /\ ~WithTask(q)'
  BY <1>2, <1>3 DEF WithTask, Holding
<1>9. WorkIsSound' /\ CurrentIsSound'
  BY <1>8 DEF WorkIsSound, CurrentIsSound
<1>10. UnusedIsBlank' /\ DriftIsIndebted'
  BY <1>1 DEF Inv, UnusedIsBlank, DriftIsIndebted, InSync
<1> QED
  BY <1>4, <1>6, <1>7, <1>9, <1>10 DEF Inv

(* Every step preserves Inv. *)
LEMMA InvStep ==
  ASSUME WritesOnly, Inv, [Next]_vars
  PROVE  Inv'
<1>1. TypeOK'
  BY TypeStep DEF Inv
<1>2. ASSUME NEW p \in Procs, Call(p) PROVE Inv'
  BY <1>2, CallInv
<1>3. ASSUME NEW p \in Procs, AcquireLock(p) PROVE Inv'
  BY <1>1, <1>3, AcquireInv
<1>4. ASSUME NEW p \in Procs, Transaction(p) PROVE Inv'
  BY <1>4, TransactionInv
<1>5. ASSUME NEW p \in Procs, Sync(p) PROVE Inv'
  BY <1>1, <1>5, CompanionInv
<1>6. ASSUME NEW p \in Procs, Exit(p) PROVE Inv'
  BY <1>6, EndInv DEF Exit, LockTimeout, Refuse, Crash, Return
<1>7. CASE UNCHANGED vars
  <2> USE <1>7 DEF vars, Inv
  <2>1. LockIsHeld' /\ UnusedIsBlank' /\ DriftIsIndebted'
    BY DEF LockIsHeld, UnusedIsBlank, DriftIsIndebted, InSync
  <2>2. JobIsSound' /\ FreshIsBlank'
    BY DEF JobIsSound, ArgumentsAreSound, FreshIsBlank, BeforeCommit
  <2>3. WorkIsSound'
    BY DEF WorkIsSound, TaskIsSound, WithTask
  <2>4. CurrentIsSound'
    <3> SUFFICES ASSUME NEW p \in Procs, WithTask(p)' PROVE TaskInHandIsSound(p)'
      BY DEF CurrentIsSound
    <3>1. TaskInHandIsSound(p)
      BY DEF CurrentIsSound, WithTask
    <3> QED  BY <3>1 DEF TaskInHandIsSound, InSync
  <2> QED  BY <1>1, <2>1, <2>2, <2>3, <2>4
<1> QED
  BY <1>2, <1>3, <1>4, <1>5, <1>6, <1>7 DEF Next

(* The inductive invariant holds of every instance of WritesOnly writers.    *)
THEOREM InvCorrect == ASSUME WritesOnly PROVE Spec => []Inv
<1>1. Init => Inv
  BY InvInit
<1>2. Inv /\ [Next]_vars => Inv'
  BY InvStep
<1> QED
  BY <1>1, <1>2, PTL DEF Spec

(* Whatever companion call fails, whatever debt write is lost and wherever a  *)
(* process dies, a memory whose vector rows differ from SQL truth has a debt  *)
(* row: store, update, delete and bulkDelete on either backend, and import on *)
(* the one whose add is an upsert (store.ts:438-496).                         *)
THEOREM DriftCovered == ASSUME WritesOnly PROVE Spec => []DriftIsIndebted
<1>1. Inv => DriftIsIndebted
  BY DEF Inv
<1> QED
  BY InvCorrect, <1>1, PTL

(***************************************************************************)
(* The companion as a derived index                                        *)
(***************************************************************************)

(* A commit changes truth and owes it to the companion. *)
LEMMA CommitChanges ==
  ASSUME NEW p \in Procs, NEW newTruth \in [Ids -> OptText],
         NEW intents, DOMAIN intents \subseteq Ids,
         \A i \in DOMAIN intents : intents[i] \in {"upsert", "delete"},
         \A i \in Ids \ DOMAIN intents : newTruth[i] = truth[i],
         NEW work, Commit(p, newTruth, intents, work)
  PROVE  Index!Change
<1>1. /\ truth' = newTruth /\ companion' = companion
      /\ debt' = [i \in Ids |-> IF i \in DOMAIN intents THEN intents[i] ELSE debt[i]]
  BY DEF Commit
<1>2. InDebt' = InDebt \cup DOMAIN intents
  BY <1>1 DEF InDebt
<1> QED  BY <1>1, <1>2 DEF Index!Change, OptText

(* So does every transaction of a writer that brings its own embedding. *)
LEMMA TransactionChanges ==
  ASSUME WritesOnly, Inv, NEW p \in Procs, Transaction(p)
  PROVE  Index!Change \/ UNCHANGED Index!indexVars
<1> DEFINE j == job[p]
<1>1. TypeOK /\ j \in Job /\ j.id \in Ids /\ truth \in [Ids -> OptText]
  BY DEF Inv, TypeOK, Job
<1>2. pc[p] \in {"locked", "resolved"}
  BY DEF Transaction, CommitInsert, CommitDelete, CommitBulkDelete, ResolveRow, CommitUpdate,
         CommitSupersede, BeginRebuild
<1>3. j.op \in {"store", "import", "update", "delete", "bulkDelete"}
  BY <1>2 DEF Inv, JobIsSound, ArgumentsAreSound, BeforeCommit, WritesOnly
<1>4. CASE CommitInsert(p)
  <2>1. j.text \in Texts
    BY <1>4 DEF CommitInsert, Inv, JobIsSound, ArgumentsAreSound, BeforeCommit
  <2>2. PICK newTruth : newTruth = [truth EXCEPT ![j.id] = j.text]
    OBVIOUS
  <2>3. PICK intents : intents = [i \in {j.id} |-> "upsert"]
    OBVIOUS
  <2>4. newTruth \in [Ids -> OptText] /\ \A i \in Ids \ {j.id} : newTruth[i] = truth[i]
    BY <1>1, <2>1, <2>2 DEF OptText
  <2>5. Commit(p, newTruth, intents, {[kind |-> "add", id |-> j.id, vec |-> j.vec]})
    BY <1>4, <2>2, <2>3 DEF CommitInsert
  <2> QED  BY <1>1, <2>3, <2>4, <2>5, CommitChanges
<1>5. CASE CommitDelete(p)
  <2>2. PICK newTruth : newTruth = [truth EXCEPT ![j.id] = NoText]
    OBVIOUS
  <2>3. PICK intents : intents = [i \in {j.id} |-> "delete"]
    OBVIOUS
  <2>4. newTruth \in [Ids -> OptText] /\ \A i \in Ids \ {j.id} : newTruth[i] = truth[i]
    BY <1>1, <2>2 DEF OptText
  <2>5. Commit(p, newTruth, intents, {[kind |-> "delete", id |-> j.id, vec |-> NoText]})
    BY <1>5, <2>2, <2>3 DEF CommitDelete
  <2> QED  BY <1>1, <2>3, <2>4, <2>5, CommitChanges
<1>6. CASE CommitBulkDelete(p)
  <2>1. PICK S \in SUBSET Present :
           Commit(p, [i \in Ids |-> IF i \in S THEN NoText ELSE truth[i]], [i \in S |-> "delete"],
                  {[kind |-> "delete", id |-> i, vec |-> NoText] : i \in S})
    BY <1>6 DEF CommitBulkDelete
  <2>2. PICK newTruth : newTruth = [i \in Ids |-> IF i \in S THEN NoText ELSE truth[i]]
    OBVIOUS
  <2>3. PICK intents : intents = [i \in S |-> "delete"]
    OBVIOUS
  <2>4. newTruth \in [Ids -> OptText] /\ \A i \in Ids \ S : newTruth[i] = truth[i]
    BY <1>1, <2>2 DEF OptText
  <2>5. S \subseteq Ids
    BY DEF Present
  <2> QED  BY <2>1, <2>2, <2>3, <2>4, <2>5, CommitChanges
<1>7. CASE ResolveRow(p)
  BY <1>7 DEF ResolveRow, durable, Index!indexVars, InDebt
<1>8. CASE CommitUpdate(p)
  <2>1. j.text \in Texts
    BY <1>3, <1>8 DEF CommitUpdate, Inv, JobIsSound, ArgumentsAreSound, BeforeCommit
  <2>2. PICK newTruth : newTruth = [truth EXCEPT ![j.id] = j.text]
    OBVIOUS
  <2>3. PICK intents : intents = [i \in {j.id} |-> "upsert"]
    OBVIOUS
  <2>4. newTruth \in [Ids -> OptText] /\ \A i \in Ids \ {j.id} : newTruth[i] = truth[i]
    BY <1>1, <2>1, <2>2 DEF OptText
  <2>5. Commit(p, newTruth, intents, {Rewrite(j.id, j.vec)})
    BY <1>8, <2>2, <2>3 DEF CommitUpdate
  <2> QED  BY <1>1, <2>3, <2>4, <2>5, CommitChanges
<1>9. ~(CommitSupersede(p) \/ BeginRebuild(p))
  BY <1>3 DEF CommitSupersede, BeginRebuild
<1> QED
  BY <1>4, <1>5, <1>6, <1>7, <1>8, <1>9 DEF Transaction

(* Companion work touches an id that is owed, or settles it. *)
LEMMA SyncTouches ==
  ASSUME Inv, NEW p \in Procs, Sync(p)
  PROVE  (\E i \in InDebt : Index!Touch(i) \/ Index!Settle(i)) \/ UNCHANGED Index!indexVars
<1> PICK c : c = cur[p].id
  OBVIOUS
<1>1. /\ c \in Ids /\ companion \in [Ids -> SUBSET OptText] /\ debt \in [Ids -> DebtKinds]
  BY DEF Inv, TypeOK, Task
<1>2. ASSUME WithTask(p) PROVE TaskInHandIsSound(p) /\ c \in InDebt
  BY <1>1, <1>2 DEF Inv, CurrentIsSound, TaskInHandIsSound, InDebt
<1>3. CASE StartTask(p)
  BY <1>3 DEF StartTask, durable, Index!indexVars, InDebt
<1>4. CASE DeleteVector(p)
  <2>1. c \in InDebt
    BY <1>2, <1>4 DEF DeleteVector, WithTask
  <2>2. companion' = [companion EXCEPT ![c] = {}] /\ UNCHANGED <<truth, InDebt>>
    BY <1>4 DEF DeleteVector, InDebt
  <2> QED  BY <2>1, <2>2 DEF Index!Touch
<1>5. CASE AddVector(p)
  <2>1. c \in InDebt /\ cur[p].vec = truth[c] /\ truth[c] # NoText
    BY <1>2, <1>5, StoreAssumption DEF AddVector, WithTask, TaskInHandIsSound
  <2>2. Index!Held(c) = {truth[c]}
    BY <2>1 DEF Index!Held
  <2>3. /\ companion' = [companion EXCEPT ![c] = IF Appends THEN @ \cup {truth[c]} ELSE {truth[c]}]
        /\ UNCHANGED <<truth, InDebt>>
    BY <1>5, <2>1 DEF AddVector, InDebt
  <2>4. \E rows \in {Index!Held(c), companion[c] \cup Index!Held(c)} :
           companion' = [companion EXCEPT ![c] = rows]
    <3>1. CASE Appends
      BY <2>2, <2>3, <3>1
    <3>2. CASE ~Appends
      BY <2>2, <2>3, <3>2
    <3> QED  BY <3>1, <3>2
  <2>5. Index!Touch(c)
    BY <2>3, <2>4 DEF Index!Touch
  <2> QED  BY <2>1, <2>5
<1>6. ASSUME WithTask(p), NEW a \in DebtKinds \ {"none"}, MarkDebt(c, a),
             UNCHANGED <<truth, companion>>
      PROVE  UNCHANGED Index!indexVars
  <2>1. debt[c] # "none"
    BY <1>2, <1>6 DEF InDebt
  <2>2. InDebt' = InDebt
    BY <1>1, <1>6, <2>1 DEF MarkDebt, InDebt
  <2> QED  BY <1>6, <2>2 DEF Index!indexVars
<1>7. CASE DeleteVectorFails(p)
  BY <1>6, <1>7 DEF DeleteVectorFails, WithTask, DebtKinds
<1>8. CASE AddVectorFails(p)
  BY <1>6, <1>8 DEF AddVectorFails, WithTask, DebtKinds
<1>9. CASE Reconcile(p)
  BY <1>6, <1>9 DEF Reconcile, WithTask, DebtKinds
<1>10. CASE ClearDebt(p)
  <2>1. c \in InDebt /\ InSync(c)
    BY <1>2, <1>10 DEF ClearDebt, WithTask, TaskInHandIsSound
  <2>2. companion[c] = Index!Held(c)
    BY <2>1 DEF InSync, Index!Held
  <2>3. UNCHANGED <<truth, companion>> /\ debt' \in {debt, [debt EXCEPT ![c] = "none"]}
    BY <1>10 DEF ClearDebt, MarkDebt
  <2>4. InDebt' = InDebt \/ InDebt' = InDebt \ {c}
    <3>1. CASE debt' = debt
      BY <3>1 DEF InDebt
    <3>2. CASE debt' = [debt EXCEPT ![c] = "none"]
      BY <1>1, <3>2 DEF InDebt
    <3> QED  BY <2>3, <3>1, <3>2
  <2> QED  BY <2>1, <2>2, <2>3, <2>4 DEF Index!Settle, Index!indexVars
<1> QED
  BY <1>3, <1>4, <1>5, <1>7, <1>8, <1>9, <1>10 DEF Sync

(* Every step changes truth with its debt, touches what is owed, settles it, *)
(* or leaves all three alone.                                                *)
LEMMA IndexStep ==
  ASSUME WritesOnly, Inv, [Next]_vars
  PROVE  [Index!IndexNext]_(Index!indexVars)
<1>1. ASSUME NEW p \in Procs, Call(p) \/ AcquireLock(p) \/ Exit(p)
      PROVE  UNCHANGED Index!indexVars
  <2>1. UNCHANGED durable
    BY <1>1 DEF Call, CallStore, CallImport, CallUpdate, CallMetadata, CallDelete, CallBulkDelete,
                CallSupersede, CallRebuild, ListVectorIds, ReadRepairDebt, Submit, AcquireLock,
                Exit, LockTimeout, Refuse, Crash, Return
  <2> QED  BY <2>1 DEF durable, Index!indexVars, InDebt
<1>2. ASSUME NEW p \in Procs, Transaction(p)
      PROVE  Index!Change \/ UNCHANGED Index!indexVars
  BY <1>2, TransactionChanges
<1>3. ASSUME NEW p \in Procs, Sync(p)
      PROVE  (\E i \in InDebt : Index!Touch(i) \/ Index!Settle(i)) \/ UNCHANGED Index!indexVars
  BY <1>3, SyncTouches
<1>4. CASE UNCHANGED vars
  BY <1>4 DEF vars, Index!indexVars, InDebt
<1> QED
  BY <1>1, <1>2, <1>3, <1>4 DEF Next, Index!IndexNext

LEMMA IndexStart == Init => Index!IndexInit
  BY DEF Init, Index!IndexInit, InDebt

(* Under the same premise as DriftCovered the store, with its lock, its tasks, *)
(* failures and crashes, is a derived index with its debt written ahead: the   *)
(* companion of an id is touched only while its debt stands, and only with     *)
(* what truth holds (store.ts:438-496).                                        *)
THEOREM StoreImplementsIndex == ASSUME WritesOnly PROVE Spec => ImplementsIndex
<1>1. Inv /\ [Next]_vars => [Index!IndexNext]_(Index!indexVars)
  BY IndexStep
<1> QED
  BY <1>1, IndexStart, InvCorrect, PTL
  DEF Spec, ImplementsIndex, Index!IndexSpec

(***************************************************************************)
(* Presence, whatever the writes but repairs                               *)
(***************************************************************************)

(* No process repairs. *)
NoRepairs == \A p \in Procs : Ops[p] \cap {"rebuild", "fullRebuild"} = {}

(* A vector is there exactly when the row is. *)
PresenceAgrees(i) == truth[i] = NoText <=> companion[i] = {}

(* Work of kind k on an id in debt deletes vectors exactly when truth has no *)
(* row of that id.                                                           *)
Owed(k, i) == debt[i] # "none" /\ (k = "delete" <=> truth[i] = NoText)

(* A call that has not committed: what it will write is a text, never an     *)
(* absence, and a supersede has two ids.                                     *)
WritesATextOrDeletes(p) ==
    /\ job[p].op \in Ops[p]
    /\ job[p].op \in {"store", "import", "update", "supersede"} => job[p].text # NoText
    /\ job[p].op = "supersede" => job[p].id # job[p].new
    /\ pc[p] = "resolved" => job[p].text # NoText

(* The companion work still to be done, and the piece in hand. *)
WorkIsOwed(p) ==
    /\ \A t \in todo[p] : Owed(t.kind, t.id)
    /\ \A t, u \in todo[p] : t.id = u.id => t = u

HandIsOwed(p) ==
    /\ Owed(cur[p].kind, cur[p].id)
    /\ \A t \in todo[p] : t.id # cur[p].id
    /\ pc[p] = "deleting" => cur[p].kind \in {"delete", "replace"}
    /\ pc[p] = "adding" => cur[p].kind # "delete"
    /\ pc[p] = "clearing" => PresenceAgrees(cur[p].id)

(* What a process knows, wherever it is in its call. *)
PresenceIsSound(p) ==
    /\ pc[p] \notin {"listing", "listed"}
    /\ BeforeCommit(p) => WritesATextOrDeletes(p)
    /\ pc[p] = "syncing" \/ WithTask(p) => WorkIsOwed(p)
    /\ WithTask(p) => HandIsOwed(p)

PresenceInv ==
    /\ TypeOK
    /\ LockIsHeld
    /\ ResolvedIsThere
    /\ \A p \in Procs : PresenceIsSound(p)
    /\ PresenceIsIndebted

(* At first nothing is stored and nobody is in a call. *)
LEMMA PresenceInit == Init => PresenceInv
<1> SUFFICES ASSUME Init PROVE PresenceInv
  OBVIOUS
<1>1. TypeOK
  BY TypeInit
<1>2. LockIsHeld /\ ResolvedIsThere
  BY StoreAssumption DEF Init, LockIsHeld, ResolvedIsThere, Holding
<1>3. \A p \in Procs : PresenceIsSound(p)
  BY DEF Init, PresenceIsSound, BeforeCommit, WithTask
<1>4. PresenceIsIndebted
  BY DEF Init, PresenceIsIndebted
<1> QED
  BY <1>1, <1>2, <1>3, <1>4 DEF PresenceInv

(* What a step of p leaves of the others' claims: all of them. *)
LEMMA PresenceOfOthers ==
  ASSUME PresenceInv, NEW p \in Procs, Step(p), NEW q \in Procs, q # p
  PROVE  PresenceIsSound(q)'
<1>1. /\ pc'[q] = pc[q] /\ job'[q] = job[q] /\ todo'[q] = todo[q] /\ cur'[q] = cur[q]
      /\ PresenceIsSound(q)
  BY Frame DEF PresenceInv
<1>2. CASE pc[q] \in Holding
  <2>1. UNCHANGED durable
    BY <1>2, OneHolder, DurableMoves DEF PresenceInv
  <2> QED
    BY <1>1, <2>1 DEF PresenceIsSound, BeforeCommit, WithTask, WritesATextOrDeletes, WorkIsOwed,
                      HandIsOwed, Owed, PresenceAgrees, durable
<1>3. CASE pc[q] \notin Holding
  BY <1>1, <1>3 DEF PresenceIsSound, BeforeCommit, WithTask, Holding, WritesATextOrDeletes
<1> QED  BY <1>2, <1>3

(* The submission of a call. *)
LEMMA PresenceSubmit ==
  ASSUME PresenceInv, NEW p \in Procs, NEW j \in Job, Submit(p, j),
         j.op \in {"store", "import", "update", "supersede"} => j.text # NoText,
         j.op = "supersede" => j.id # j.new
  PROVE  PresenceIsSound(p)' /\ UNCHANGED durable
<1>1. j.op \in Ops[p] /\ pc'[p] = "waiting" /\ job'[p] = j /\ UNCHANGED durable
  BY DEF Submit, PresenceInv, TypeOK
<1> QED
  BY <1>1 DEF PresenceIsSound, BeforeCommit, WithTask, WritesATextOrDeletes

(* Each call that is not a repair submits such arguments. *)
LEMMA PresenceCall ==
  ASSUME NoRepairs, PresenceInv, NEW p \in Procs, Call(p)
  PROVE  PresenceIsSound(p)' /\ UNCHANGED durable
<1>1. TypeOK
  BY DEF PresenceInv
<1> USE Idle, <1>1, StoreAssumption DEF TypeOK, Job, OpKinds, OptText
<1>2. CASE CallStore(p)
  <2>1. PICK i \in Ids \ used, t \in Texts :
          Submit(p, [NoJob EXCEPT !.op = "store", !.id = i, !.text = t, !.vec = t])
    BY <1>2 DEF CallStore
  <2>2. /\ [NoJob EXCEPT !.op = "store", !.id = i, !.text = t, !.vec = t] \in Job
        /\ [NoJob EXCEPT !.op = "store", !.id = i, !.text = t, !.vec = t].op = "store"
        /\ [NoJob EXCEPT !.op = "store", !.id = i, !.text = t, !.vec = t].text = t
    BY DEF NoJob
  <2> QED  BY <2>1, <2>2, PresenceSubmit
<1>3. CASE CallImport(p)
  <2>1. PICK i \in Ids, t \in Texts :
          Submit(p, [NoJob EXCEPT !.op = "import", !.id = i, !.text = t, !.vec = t])
    BY <1>3 DEF CallImport
  <2>2. /\ [NoJob EXCEPT !.op = "import", !.id = i, !.text = t, !.vec = t] \in Job
        /\ [NoJob EXCEPT !.op = "import", !.id = i, !.text = t, !.vec = t].op = "import"
        /\ [NoJob EXCEPT !.op = "import", !.id = i, !.text = t, !.vec = t].text = t
    BY DEF NoJob
  <2> QED  BY <2>1, <2>2, PresenceSubmit
<1>4. CASE CallUpdate(p)
  <2>1. PICK i \in used, t \in Texts :
          Submit(p, [NoJob EXCEPT !.op = "update", !.id = i, !.text = t, !.vec = t])
    BY <1>4 DEF CallUpdate
  <2>2. /\ [NoJob EXCEPT !.op = "update", !.id = i, !.text = t, !.vec = t] \in Job
        /\ [NoJob EXCEPT !.op = "update", !.id = i, !.text = t, !.vec = t].op = "update"
        /\ [NoJob EXCEPT !.op = "update", !.id = i, !.text = t, !.vec = t].text = t
    BY DEF NoJob
  <2> QED  BY <2>1, <2>2, PresenceSubmit
<1>5. CASE CallMetadata(p)
  <2>1. PICK i \in used : Submit(p, [NoJob EXCEPT !.op = "metadata", !.id = i])
    BY <1>5 DEF CallMetadata
  <2>2. /\ [NoJob EXCEPT !.op = "metadata", !.id = i] \in Job
        /\ [NoJob EXCEPT !.op = "metadata", !.id = i].op = "metadata"
    BY DEF NoJob
  <2> QED  BY <2>1, <2>2, PresenceSubmit
<1>6. CASE CallDelete(p)
  <2>1. PICK i \in Ids : Submit(p, [NoJob EXCEPT !.op = "delete", !.id = i])
    BY <1>6 DEF CallDelete, Present
  <2>2. /\ [NoJob EXCEPT !.op = "delete", !.id = i] \in Job
        /\ [NoJob EXCEPT !.op = "delete", !.id = i].op = "delete"
    BY DEF NoJob
  <2> QED  BY <2>1, <2>2, PresenceSubmit
<1>7. CASE CallBulkDelete(p)
  <2>1. /\ [NoJob EXCEPT !.op = "bulkDelete"] \in Job
        /\ [NoJob EXCEPT !.op = "bulkDelete"].op = "bulkDelete"
    BY DEF NoJob
  <2> QED  BY <1>7, <2>1, PresenceSubmit DEF CallBulkDelete
<1>8. CASE CallSupersede(p)
  <2>1. PICK i \in used, n \in Ids \ used, t \in Texts :
          Submit(p, [NoJob EXCEPT !.op = "supersede", !.id = i, !.text = t, !.new = n])
    BY <1>8 DEF CallSupersede
  <2> DEFINE j == [NoJob EXCEPT !.op = "supersede", !.id = i, !.text = t, !.new = n]
  <2>2. j \in Job /\ j.op = "supersede" /\ j.text = t /\ j.id = i /\ j.new = n
    BY DEF NoJob
  <2>3. Submit(p, j)
    BY <2>1
  <2> HIDE DEF j
  <2> QED  BY <2>1, <2>2, <2>3, PresenceSubmit
<1>9. ~(CallRebuild(p) \/ ListVectorIds(p) \/ ReadRepairDebt(p))
  BY DEF CallRebuild, ListVectorIds, ReadRepairDebt, NoRepairs, PresenceInv, PresenceIsSound
<1> QED
  BY <1>2, <1>3, <1>4, <1>5, <1>6, <1>7, <1>8, <1>9 DEF Call

(* A transaction that puts in debt every row it writes and leaves, for each  *)
(* of them at most one, the work that truth now asks for.                    *)
LEMMA PresenceCommit ==
  ASSUME PresenceInv, NEW p \in Procs, NEW newTruth \in [Ids -> OptText],
         NEW intents, DOMAIN intents \subseteq Ids,
         \A i \in DOMAIN intents : intents[i] # "none",
         \A i \in Ids \ DOMAIN intents : newTruth[i] = truth[i],
         NEW work \in SUBSET Task,
         \A t \in work : t.id \in DOMAIN intents /\ (t.kind = "delete" <=> newTruth[t.id] = NoText),
         \A t, u \in work : t.id = u.id => t = u,
         Commit(p, newTruth, intents, work)
  PROVE  PresenceIsSound(p)' /\ PresenceIsIndebted'
<1>1. /\ truth' = newTruth /\ companion' = companion
      /\ debt' = [i \in Ids |-> IF i \in DOMAIN intents THEN intents[i] ELSE debt[i]]
      /\ pc'[p] = "syncing" /\ todo'[p] = work
  BY DEF Commit, PresenceInv, TypeOK
<1>2. PresenceIsIndebted'
  BY <1>1 DEF PresenceInv, PresenceIsIndebted
<1>3. \A t \in work : t.id \in Ids /\ debt'[t.id] # "none"
  BY <1>1
<1>4. WorkIsOwed(p)'
  BY <1>1, <1>3 DEF WorkIsOwed, Owed
<1> QED
  BY <1>1, <1>2, <1>4 DEF PresenceIsSound, BeforeCommit, WithTask

(* Each transaction is such a commit, but for the resolution of a row. *)
LEMMA PresenceTransaction ==
  ASSUME NoRepairs, PresenceInv, NEW p \in Procs, Transaction(p)
  PROVE  PresenceIsSound(p)' /\ PresenceIsIndebted'
<1> DEFINE j == job[p]
<1>1. /\ TypeOK /\ j \in Job /\ truth \in [Ids -> OptText]
      /\ j.id \in Ids /\ j.new \in Ids /\ j.text \in OptText /\ j.vec \in OptText
  BY DEF PresenceInv, TypeOK, Job
<1>2. BeforeCommit(p) => WritesATextOrDeletes(p)
  BY DEF PresenceInv, PresenceIsSound
<1> HIDE DEF j
<1>3. CASE CommitInsert(p)
  <2> DEFINE new == [truth EXCEPT ![j.id] = j.text]
             work == {[kind |-> "add", id |-> j.id, vec |-> j.vec]}
             intents == [i \in {j.id} |-> "upsert"]
  <2>1. Commit(p, new, intents, work) /\ j.text # NoText
    BY <1>2, <1>3 DEF CommitInsert, BeforeCommit, WritesATextOrDeletes, j
  <2>2. /\ new \in [Ids -> OptText] /\ new[j.id] = j.text
        /\ \A i \in Ids \ {j.id} : new[i] = truth[i]
    BY <1>1
  <2>3. work \in SUBSET Task
    BY <1>1 DEF Task
  <2>4. DOMAIN intents = {j.id} /\ intents[j.id] = "upsert"
    OBVIOUS
  <2>5. \A t \in work : t.id \in DOMAIN intents /\ (t.kind = "delete" <=> new[t.id] = NoText)
    BY <2>1, <2>2
  <2>6. \A t, u \in work : t.id = u.id => t = u
    OBVIOUS
  <2> HIDE DEF new, work, intents
  <2> QED  BY <1>1, <2>1, <2>2, <2>3, <2>4, <2>5, <2>6, PresenceCommit
<1>4. CASE CommitDelete(p)
  <2> DEFINE new == [truth EXCEPT ![j.id] = NoText]
             work == {[kind |-> "delete", id |-> j.id, vec |-> NoText]}
             intents == [i \in {j.id} |-> "delete"]
  <2>1. Commit(p, new, intents, work)
    BY <1>4 DEF CommitDelete, j
  <2>2. /\ new \in [Ids -> OptText] /\ new[j.id] = NoText
        /\ \A i \in Ids \ {j.id} : new[i] = truth[i]
    BY <1>1 DEF OptText
  <2>3. work \in SUBSET Task
    BY <1>1 DEF Task, OptText
  <2>4. DOMAIN intents = {j.id} /\ intents[j.id] = "delete"
    OBVIOUS
  <2>5. \A t \in work : t.id \in DOMAIN intents /\ (t.kind = "delete" <=> new[t.id] = NoText)
    BY <2>2
  <2>6. \A t, u \in work : t.id = u.id => t = u
    OBVIOUS
  <2> HIDE DEF new, work, intents
  <2> QED  BY <1>1, <2>1, <2>2, <2>3, <2>4, <2>5, <2>6, PresenceCommit
<1>5. CASE CommitBulkDelete(p)
  <2>1. PICK S \in SUBSET Present :
          Commit(p, [i \in Ids |-> IF i \in S THEN NoText ELSE truth[i]],
                 [i \in S |-> "delete"],
                 {[kind |-> "delete", id |-> i, vec |-> NoText] : i \in S})
    BY <1>5 DEF CommitBulkDelete
  <2> DEFINE new == [i \in Ids |-> IF i \in S THEN NoText ELSE truth[i]]
             work == {[kind |-> "delete", id |-> i, vec |-> NoText] : i \in S}
             intents == [i \in S |-> "delete"]
  <2>2. S \subseteq Ids
    BY DEF Present
  <2>3. /\ new \in [Ids -> OptText] /\ \A i \in S : new[i] = NoText
        /\ \A i \in Ids \ S : new[i] = truth[i]
    BY <1>1, <2>2 DEF OptText
  <2>4. work \in SUBSET Task
    BY <2>2 DEF Task, OptText
  <2>5. DOMAIN intents = S /\ \A i \in S : intents[i] = "delete"
    OBVIOUS
  <2>6. \A t \in work : t.id \in DOMAIN intents /\ (t.kind = "delete" <=> new[t.id] = NoText)
    BY <2>3
  <2>7. \A t, u \in work : t.id = u.id => t = u
    OBVIOUS
  <2>8. Commit(p, new, intents, work)
    BY <2>1
  <2> HIDE DEF new, work, intents
  <2> QED  BY <2>2, <2>3, <2>4, <2>5, <2>6, <2>7, <2>8, PresenceCommit
<1>6. CASE ResolveRow(p)
  <2>1. /\ pc[p] = "locked" /\ truth[j.id] # NoText
        /\ j.op \in {"update", "metadata", "supersede"}
        /\ UNCHANGED <<truth, debt, companion, todo, cur>>
    BY <1>6 DEF ResolveRow, durable, j
  <2>2. pc'[p] = "resolved"
    BY <1>1, <1>6 DEF ResolveRow, TypeOK
  <2>3. /\ job'[p].op = j.op /\ job'[p].id = j.id /\ job'[p].new = j.new
        /\ job'[p].text = IF j.op = "metadata" THEN truth[j.id] ELSE j.text
    BY <1>1, <1>6, <2>1 DEF ResolveRow, TypeOK, Job, j
  <2>4. WritesATextOrDeletes(p)'
    BY <1>2, <2>1, <2>2, <2>3 DEF WritesATextOrDeletes, BeforeCommit, j
  <2> QED
    BY <2>1, <2>2, <2>4 DEF PresenceIsSound, WithTask, PresenceInv, PresenceIsIndebted
<1>7. CASE CommitUpdate(p)
  <2> DEFINE new == [truth EXCEPT ![j.id] = j.text]
             work == {Rewrite(j.id, j.vec)}
             intents == [i \in {j.id} |-> "upsert"]
  <2>1. Commit(p, new, intents, work) /\ j.text # NoText
    BY <1>2, <1>7 DEF CommitUpdate, BeforeCommit, WritesATextOrDeletes, j
  <2>2. /\ new \in [Ids -> OptText] /\ new[j.id] = j.text
        /\ \A i \in Ids \ {j.id} : new[i] = truth[i]
    BY <1>1
  <2>3. work \in SUBSET Task
    BY <1>1 DEF Task, Rewrite
  <2>4. DOMAIN intents = {j.id} /\ intents[j.id] = "upsert"
    OBVIOUS
  <2>5. \A t \in work : t.id \in DOMAIN intents /\ (t.kind = "delete" <=> new[t.id] = NoText)
    BY <2>1, <2>2 DEF Rewrite
  <2>6. \A t, u \in work : t.id = u.id => t = u
    OBVIOUS
  <2> HIDE DEF new, work, intents
  <2> QED  BY <1>1, <2>1, <2>2, <2>3, <2>4, <2>5, <2>6, PresenceCommit
<1>8. CASE CommitSupersede(p)
  <2> DEFINE new == [truth EXCEPT ![j.new] = j.text]
             work == {Rewrite(j.id, j.vec), [kind |-> "add", id |-> j.new, vec |-> j.text]}
             intents == [i \in {j.id, j.new} |-> "upsert"]
  <2>1. /\ Commit(p, new, intents, work) /\ j.text # NoText
        /\ truth[j.id] # NoText /\ j.id # j.new
    BY <1>2, <1>8 DEF CommitSupersede, BeforeCommit, WritesATextOrDeletes, j
  <2>2. /\ new \in [Ids -> OptText] /\ new[j.new] = j.text /\ new[j.id] = truth[j.id]
        /\ \A i \in Ids \ {j.id, j.new} : new[i] = truth[i]
    BY <1>1, <2>1
  <2>3. work \in SUBSET Task
    BY <1>1 DEF Task, Rewrite
  <2>4. DOMAIN intents = {j.id, j.new} /\ \A i \in {j.id, j.new} : intents[i] = "upsert"
    OBVIOUS
  <2>5. \A t \in work : t.id \in DOMAIN intents /\ (t.kind = "delete" <=> new[t.id] = NoText)
    BY <2>1, <2>2 DEF Rewrite
  <2>6. \A t, u \in work : t.id = u.id => t = u
    BY <2>1 DEF Rewrite
  <2> HIDE DEF new, work, intents
  <2> QED  BY <1>1, <2>1, <2>2, <2>3, <2>4, <2>5, <2>6, PresenceCommit
<1>9. ~BeginRebuild(p)
  BY <1>2 DEF BeginRebuild, BeforeCommit, WritesATextOrDeletes, NoRepairs
<1> QED
  BY <1>3, <1>4, <1>5, <1>6, <1>7, <1>8, <1>9 DEF Transaction

(* Each piece of companion work clears a debt only when presence agrees. *)
LEMMA PresenceSync ==
  ASSUME PresenceInv, NEW p \in Procs, Sync(p)
  PROVE  PresenceIsSound(p)' /\ PresenceIsIndebted'
<1> DEFINE t == cur[p]
<1>1. TypeOK /\ t \in Task /\ t.id \in Ids /\ todo[p] \subseteq Task
  BY DEF PresenceInv, TypeOK, Task
<1>2. /\ pc[p] = "syncing" \/ WithTask(p)
      /\ WorkIsOwed(p) /\ (WithTask(p) => HandIsOwed(p)) /\ PresenceIsIndebted
  <2>1. pc[p] = "syncing" \/ WithTask(p)
    BY DEF Sync, StartTask, DeleteVector, DeleteVectorFails, AddVector, AddVectorFails,
           Reconcile, ClearDebt, WithTask
  <2> QED  BY <2>1 DEF PresenceInv, PresenceIsSound
<1>3. CASE StartTask(p)
  <2>1. PICK s \in todo[p] :
          /\ todo' = [todo EXCEPT ![p] = @ \ {s}]
          /\ cur' = [cur EXCEPT ![p] = s]
          /\ pc' = [pc EXCEPT ![p] = CASE s.kind = "add" -> "adding"
                                       [] s.kind = "mark" -> "reconciling"
                                       [] OTHER -> "deleting"]
    BY <1>3 DEF StartTask
  <2>2. /\ todo'[p] = todo[p] \ {s} /\ cur'[p] = s
        /\ UNCHANGED <<truth, debt, companion>>
    BY <1>1, <1>3, <2>1 DEF TypeOK, StartTask, durable
  <2>3. /\ pc'[p] \in {"adding", "reconciling", "deleting"}
        /\ pc'[p] = "adding" => s.kind = "add"
        /\ pc'[p] = "deleting" => s.kind \in {"delete", "replace"}
    BY <1>1, <2>1 DEF TypeOK, Task
  <2>4. WorkIsOwed(p)' /\ HandIsOwed(p)'
    BY <1>2, <2>2, <2>3 DEF WorkIsOwed, HandIsOwed, Owed
  <2> QED
    BY <1>2, <2>2, <2>3, <2>4 DEF PresenceIsSound, BeforeCommit, PresenceIsIndebted
<1> HIDE DEF t
<1>4. ASSUME WithTask(p), UNCHANGED <<truth, todo>>,
             \A i \in Ids \ {t.id} : debt'[i] = debt[i] /\ companion'[i] = companion[i],
             debt'[t.id] = "none" => (truth'[t.id] = NoText <=> companion'[t.id] = {}),
             pc'[p] \in {"syncing", "deleting", "adding", "reconciling", "clearing"},
             pc'[p] # "syncing" => HandIsOwed(p)'
      PROVE  PresenceIsSound(p)' /\ PresenceIsIndebted'
  <2>1. \A u \in todo[p] : u.id \in Ids \ {t.id}
    BY <1>1, <1>2, <1>4 DEF HandIsOwed, Task, t
  <2>2. WorkIsOwed(p)'
    BY <1>2, <1>4, <2>1 DEF WorkIsOwed, Owed
  <2>3. PresenceIsIndebted'
    <3> SUFFICES ASSUME NEW i \in Ids, debt'[i] = "none"
                 PROVE  truth'[i] = NoText <=> companion'[i] = {}
      BY DEF PresenceIsIndebted
    <3>1. CASE i = t.id
      BY <1>4, <3>1
    <3>2. CASE i # t.id
      BY <1>2, <1>4, <3>2 DEF PresenceIsIndebted
    <3> QED  BY <3>1, <3>2
  <2> QED
    BY <1>4, <2>2, <2>3 DEF PresenceIsSound, BeforeCommit, WithTask
<1>5. CASE DeleteVector(p)
  <2>1. /\ WithTask(p) /\ pc[p] = "deleting"
        /\ UNCHANGED <<truth, debt, todo, cur>>
        /\ companion'[t.id] = {} /\ \A i \in Ids \ {t.id} : companion'[i] = companion[i]
        /\ pc'[p] = IF t.kind = "replace" THEN "adding" ELSE "clearing"
    BY <1>1, <1>5 DEF DeleteVector, WithTask, TypeOK, t
  <2>2. HandIsOwed(p)'
    BY <1>2, <2>1 DEF HandIsOwed, Owed, PresenceAgrees, t
  <2> QED  BY <1>2, <1>4, <2>1, <2>2 DEF HandIsOwed, Owed, t
<1>6. CASE DeleteVectorFails(p)
  <2>1. /\ WithTask(p) /\ pc[p] = "deleting"
        /\ UNCHANGED <<truth, companion, todo>>
        /\ debt' = debt \/ debt' = [debt EXCEPT ![t.id] = "delete"]
        /\ pc'[p] = IF t.kind = "replace" THEN "adding" ELSE "syncing"
        /\ cur'[p].id = t.id /\ cur'[p].kind = IF t.kind = "replace" THEN "mark" ELSE t.kind
    BY <1>1, <1>6 DEF DeleteVectorFails, MarkDebt, WithTask, TypeOK, Task, t
  <2>2. debt'[t.id] # "none" /\ \A i \in Ids \ {t.id} : debt'[i] = debt[i]
    BY <1>1, <1>2, <2>1 DEF HandIsOwed, Owed, TypeOK, t
  <2>3. pc'[p] # "syncing" => HandIsOwed(p)'
    BY <1>2, <2>1, <2>2 DEF HandIsOwed, Owed, t
  <2> QED  BY <1>4, <2>1, <2>2, <2>3
<1>7. CASE AddVector(p)
  <2>1. /\ WithTask(p) /\ pc[p] = "adding"
        /\ UNCHANGED <<truth, debt, todo, cur>>
        /\ companion'[t.id] # {} /\ \A i \in Ids \ {t.id} : companion'[i] = companion[i]
        /\ pc'[p] = IF t.kind = "mark" THEN "reconciling" ELSE "clearing"
    BY <1>1, <1>7 DEF AddVector, WithTask, TypeOK, t
  <2>2. HandIsOwed(p)'
    BY <1>2, <2>1 DEF HandIsOwed, Owed, PresenceAgrees, t
  <2> QED  BY <1>2, <1>4, <2>1, <2>2 DEF HandIsOwed, Owed, t
<1>8. CASE AddVectorFails(p) \/ Reconcile(p)
  <2>1. /\ WithTask(p) /\ pc'[p] = "syncing"
        /\ UNCHANGED <<truth, companion, todo>>
        /\ debt' = debt \/ debt' = [debt EXCEPT ![t.id] = "upsert"]
    BY <1>1, <1>8 DEF AddVectorFails, Reconcile, MarkDebt, WithTask, TypeOK, t
  <2>2. debt'[t.id] # "none" /\ \A i \in Ids \ {t.id} : debt'[i] = debt[i]
    BY <1>1, <1>2, <2>1 DEF HandIsOwed, Owed, TypeOK, t
  <2> QED  BY <1>4, <2>1, <2>2
<1>9. CASE ClearDebt(p)
  <2>1. /\ WithTask(p) /\ pc[p] = "clearing" /\ pc'[p] = "syncing"
        /\ UNCHANGED <<truth, companion, todo>>
        /\ debt' = debt \/ debt' = [debt EXCEPT ![t.id] = "none"]
    BY <1>1, <1>9 DEF ClearDebt, MarkDebt, WithTask, TypeOK, t
  <2>2. \A i \in Ids \ {t.id} : debt'[i] = debt[i]
    BY <1>1, <2>1 DEF TypeOK
  <2>3. PresenceAgrees(t.id)
    BY <1>2, <2>1 DEF HandIsOwed, t
  <2> QED  BY <1>4, <2>1, <2>2, <2>3 DEF PresenceAgrees
<1> QED
  BY <1>3, <1>5, <1>6, <1>7, <1>8, <1>9 DEF Sync

(* The invariant is inductive. *)
LEMMA PresenceStep ==
  ASSUME NoRepairs, PresenceInv, [Next]_vars
  PROVE  PresenceInv'
<1>1. TypeOK' /\ LockIsHeld' /\ ResolvedIsThere'
  BY TypeStep, LockStep, ResolvedStep DEF PresenceInv
<1>2. ASSUME NEW p \in Procs, Step(p), PresenceIsSound(p)', PresenceIsIndebted'
      PROVE  PresenceInv'
  BY <1>1, <1>2, PresenceOfOthers DEF PresenceInv
<1>3. ASSUME UNCHANGED durable PROVE PresenceIsIndebted'
  BY <1>3 DEF PresenceInv, PresenceIsIndebted, durable
<1>4. ASSUME NEW p \in Procs, Call(p) PROVE PresenceInv'
  BY <1>2, <1>3, <1>4, PresenceCall DEF Step
<1>5. ASSUME NEW p \in Procs, AcquireLock(p) PROVE PresenceInv'
  <2>1. pc[p] = "waiting" /\ pc'[p] = "locked" /\ job' = job /\ UNCHANGED durable
    BY <1>5 DEF AcquireLock, PresenceInv, TypeOK
  <2>2. PresenceIsSound(p)'
    BY <2>1 DEF PresenceInv, PresenceIsSound, BeforeCommit, WithTask, WritesATextOrDeletes
  <2> QED  BY <1>2, <1>3, <1>5, <2>1, <2>2 DEF Step
<1>6. ASSUME NEW p \in Procs, Transaction(p) PROVE PresenceInv'
  BY <1>2, <1>6, PresenceTransaction DEF Step
<1>7. ASSUME NEW p \in Procs, Sync(p) PROVE PresenceInv'
  BY <1>2, <1>7, PresenceSync DEF Step
<1>8. ASSUME NEW p \in Procs, Exit(p) PROVE PresenceInv'
  <2>1. pc'[p] = "idle" /\ UNCHANGED durable
    BY <1>8 DEF Exit, LockTimeout, Refuse, Crash, Return, End, PresenceInv, TypeOK
  <2>2. PresenceIsSound(p)'
    BY <2>1 DEF PresenceIsSound, BeforeCommit, WithTask
  <2> QED  BY <1>2, <1>3, <1>8, <2>1, <2>2 DEF Step
<1>9. CASE UNCHANGED vars
  <2>1. PresenceIsIndebted'
    BY <1>3, <1>9 DEF vars, durable
  <2>2. \A p \in Procs : PresenceIsSound(p)'
    BY <1>9 DEF vars, PresenceInv, PresenceIsSound, BeforeCommit, WithTask, WritesATextOrDeletes,
                WorkIsOwed, HandIsOwed, Owed, PresenceAgrees
  <2> QED  BY <1>1, <2>1, <2>2 DEF PresenceInv
<1> QED
  BY <1>4, <1>5, <1>6, <1>7, <1>8, <1>9 DEF Next

(* Every write but the repairs, with or without its own vector, on either    *)
(* backend, through any failure of the companion, lost debt write and crash: *)
(* a memory without a debt row is found by its vector exactly when SQL truth *)
(* has it (store.ts:438-496, 1279, 1450).                                    *)
THEOREM PresenceCovered == ASSUME NoRepairs PROVE Spec => []PresenceIsIndebted
<1>1. Init => PresenceInv
  BY PresenceInit
<1>2. PresenceInv /\ [Next]_vars => PresenceInv'
  BY PresenceStep
<1>3. PresenceInv => PresenceIsIndebted
  BY DEF PresenceInv
<1> QED
  BY <1>1, <1>2, <1>3, PTL DEF Spec
=============================================================================
