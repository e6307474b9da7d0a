------------------------ MODULE MemoryLifecycle_proofs ------------------------
(* What the life of a memory row keeps, for any number of rows, texts, calls   *)
(* and operator jobs, and any order of their steps.                            *)
EXTENDS MemoryLifecycle, TLAPS, WellFoundedInduction

(* No call carries a secret to write (memory-entry-write-policy.ts), and what  *)
(* it stores as a row of its own is a text.                                    *)
SafeSay(l) ==
    /\ l.say \notin Secret
    /\ l.kind \in {"store", "merge"} => l.say \in Texts
    /\ l.pc = "storing" => l.kind \in {"store", "merge", "contradict", "supersede"}

SayIsSafe == \A c \in Calls : SafeSay(call[c])

(* The row of a call inside the lock is still the one it resolved, unless an   *)
(* operator job has committed since.                                           *)
HeldIsFresh ==
    \A c \in Calls : call[c].pc = "held" /\ ~bypassed =>
        /\ rows[call[c].id].st # "absent"
        /\ call[c].kind = "merge" => rows[call[c].id] = call[c].seen

LifecycleInv ==
    /\ LifecycleTypeOK
    /\ ~Clash(rows)
    /\ SayIsSafe
    /\ SecretForgotten
    /\ HeldIsFresh

-----------------------------------------------------------------------------
LEMMA RowFact ==
  /\ Absent \in Row /\ Absent.text = NoText /\ Absent.st = "absent" /\ Absent.key = NoKey
  /\ NoText \notin Secret /\ NoCall \notin Calls
  /\ \A t \in Texts : NewRow(t) \in Row /\ NewRow(t).text = t
BY LifecycleAssumption DEF Row, Absent, NewRow, States

LEMMA IdsFact == 1 \in Ids /\ Ids \subseteq Nat
BY LifecycleAssumption DEF Ids

LEMMA IdleFact ==
  /\ Idle \in Call /\ Done \in Call
  /\ Idle.say = NoText /\ Done.say = NoText /\ SafeSay(Idle) /\ SafeSay(Done) /\ Idle.pc = "idle" /\ Done.pc = "done"
BY RowFact, IdsFact DEF Idle, Done, Call, SafeSay

LEMMA LifecycleInvInit == LifecycleInit => LifecycleInv
<1> SUFFICES ASSUME LifecycleInit PROVE LifecycleInv
  OBVIOUS
<1>1. PICK old \in [1..Legacy -> LegacyRows \cup {Absent}] :
         rows = [i \in Ids |-> IF i <= Legacy THEN old[i] ELSE Absent]
  BY DEF LifecycleInit
<1>2. LegacyRows \subseteq Row
  BY DEF LegacyRows
<1>3. NoJob \in Job
  BY RowFact DEF NoJob, Job, JobOf
<1>4. LifecycleTypeOK
  <2>1. rows \in [Ids -> Row] /\ vecs \subseteq Ids
    <3>1. \A i \in Ids : i <= Legacy => i \in 1..Legacy
      BY LifecycleAssumption DEF Ids
    <3> QED  BY <1>1, <1>2, <3>1, RowFact DEF LifecycleInit, Present
  <2>2. next \in 1..N + 1
    BY LifecycleAssumption DEF LifecycleInit
  <2>3. call \in [Calls -> Call] /\ \A c \in Calls : call[c].pc # "held" /\ lock # c
    BY RowFact, IdleFact DEF LifecycleInit
  <2>4. audit \in [Batches -> [Ids -> Row]]
    BY RowFact DEF LifecycleInit
  <2> QED  BY <1>3, <2>1, <2>2, <2>3, <2>4 DEF LifecycleInit, LifecycleTypeOK
<1>5. ~Clash(rows)
  BY DEF LifecycleInit
<1> QED
  BY <1>4, <1>5, RowFact, IdleFact DEF LifecycleInit, LifecycleInv, SayIsSafe, SecretForgotten, HeldIsFresh

-----------------------------------------------------------------------------
(* Steps that only change what a call carries *)

LEMMA LocalInv ==
  ASSUME LifecycleInv, NEW c \in Calls, NEW l \in Call, Local(c, l),
         SafeSay(l), l.pc # "held", call[c].pc # "held"
  PROVE  LifecycleInv'
<1>1. call' = [call EXCEPT ![c] = l] /\ UNCHANGED <<rows, vecs, v2, next, lock, job, audit, purged, orphans, bypassed>>
  BY DEF Local
<1>2. call'[c] = l /\ \A d \in Calls \ {c} : call'[d] = call[d]
  BY <1>1 DEF LifecycleInv, LifecycleTypeOK
<1>3. LifecycleTypeOK'
  BY <1>1, <1>2 DEF LifecycleInv, LifecycleTypeOK
<1> QED
  BY <1>1, <1>2, <1>3 DEF LifecycleInv, SayIsSafe, SecretForgotten, HeldIsFresh, Clash

(* A write under the lock, or one that needs none while nobody holds it.       *)
LEMMA FreeWriteInv ==
  ASSUME LifecycleInv, NEW c \in Calls, NEW l \in Call,
         call' = [call EXCEPT ![c] = l], SafeSay(l), l.pc # "held",
         lock = NoCall \/ call[c].pc = "held", lock' = NoCall,
         rows' \in [Ids -> Row], ~Clash(rows'),
         \A i \in purged : rows'[i].text \notin Secret,
         vecs' \subseteq Ids, v2' \subseteq Ids, orphans' \subseteq Ids, next' \in 1..N + 1,
         UNCHANGED <<job, audit, purged, bypassed>>
  PROVE  LifecycleInv'
<1>1. call'[c] = l /\ \A d \in Calls \ {c} : call'[d] = call[d]
  BY DEF LifecycleInv, LifecycleTypeOK
<1>2. \A d \in Calls : call'[d].pc # "held"
  BY <1>1, RowFact DEF LifecycleInv, LifecycleTypeOK
<1>3. LifecycleTypeOK'
  BY <1>1, <1>2, RowFact DEF LifecycleInv, LifecycleTypeOK
<1> QED
  BY <1>1, <1>2, <1>3 DEF LifecycleInv, SayIsSafe, SecretForgotten, HeldIsFresh

LEMMA ReadFact ==
  ASSUME LifecycleInv, NEW c \in Calls
  PROVE  /\ call[c] \in Call /\ SafeSay(call[c]) /\ call[c].say \notin Secret /\ call[c].say \in Texts \cup {NoText}
         /\ call[c].id \in Ids /\ call[c].todo \subseteq Ids
         /\ call[c].md \in Row /\ call[c].seen \in Row /\ rows[call[c].id] \in Row
BY DEF LifecycleInv, LifecycleTypeOK, SayIsSafe, SafeSay, Call

LEMMA StartInv ==
  ASSUME LifecycleInv, NEW c \in Calls, NEW k, NEW i \in Ids, NEW md \in Row,
         NEW say \in Texts \cup {NoText}, say \notin Secret,
         k # "store", k = "merge" => say \in Texts, Start(c, k, i, md, say)
  PROVE  LifecycleInv'
<1> DEFINE l == [Idle EXCEPT !.kind = k, !.pc = "ready", !.id = i,
                             !.seen = rows[i], !.md = md, !.say = say]
<1>1. rows[i] \in Row /\ k \in Kinds /\ call[c].pc = "idle" /\ Local(c, l)
  BY DEF LifecycleInv, LifecycleTypeOK, Start
<1>2. l \in Call /\ SafeSay(l) /\ l.pc = "ready"
  BY <1>1 DEF Idle, Call, SafeSay
<1> HIDE DEF l
<1> QED  BY <1>1, <1>2, LocalInv

(* The tools and handlers that read a row before the lock.                     *)
LEMMA CopiesInv ==
  ASSUME LifecycleInv, NEW c \in Calls, NEW i \in Ids,
         MemoryArchive(c, i) \/ MemoryPromote(c, i) \/ MemoryForget(c, i) \/ HandleSupport(c, i)
  PROVE  LifecycleInv'
<1>1. /\ rows[i] \in Row
      /\ [rows[i] EXCEPT !.st = "archived"] \in Row /\ [rows[i] EXCEPT !.st = "live"] \in Row
  BY DEF LifecycleInv, LifecycleTypeOK, Row, States
<1>2. CASE MemoryArchive(c, i)
  BY <1>1, <1>2, RowFact, StartInv DEF MemoryArchive
<1>3. CASE MemoryPromote(c, i)
  BY <1>1, <1>3, RowFact, StartInv DEF MemoryPromote
<1>4. CASE MemoryForget(c, i)
  BY <1>1, <1>4, RowFact, StartInv DEF MemoryForget
<1>5. CASE HandleSupport(c, i)
  BY <1>1, <1>5, RowFact, StartInv DEF HandleSupport
<1> QED  BY <1>2, <1>3, <1>4, <1>5

LEMMA RewritesInv ==
  ASSUME LifecycleInv, NEW c \in Calls, NEW i \in Ids, NEW t \in Texts,
         MemoryUpdate(c, i, t) \/ HandleMerge(c, i, t) \/ HandleContradict(c, i, t)
  PROVE  LifecycleInv'
<1>1. rows[i] \in Row
  BY DEF LifecycleInv, LifecycleTypeOK
<1>2. CASE MemoryUpdate(c, i, t)
  BY <1>1, <1>2, StartInv DEF MemoryUpdate
<1>3. CASE HandleMerge(c, i, t)
  BY <1>1, <1>3, StartInv DEF HandleMerge
<1>4. CASE HandleContradict(c, i, t)
  BY <1>1, <1>4, StartInv DEF HandleContradict
<1> QED  BY <1>2, <1>3, <1>4

LEMMA HandleSupersedeInv ==
  ASSUME LifecycleInv, NEW c \in Calls, NEW i \in Ids, NEW t \in Texts, HandleSupersede(c, i, t)
  PROVE  LifecycleInv'
<1> DEFINE md == [rows[i] EXCEPT !.cur = FALSE]
           l == [Idle EXCEPT !.kind = "supersede", !.pc = "storing", !.id = i, !.say = t,
                    !.seen = rows[i], !.md = md]
<1>1. md \in Row /\ rows[i] \in Row /\ "supersede" \in Kinds /\ call[c].pc = "idle" /\ t \notin Secret /\ Local(c, l)
  BY DEF LifecycleInv, LifecycleTypeOK, Row, HandleSupersede
<1> HIDE DEF md
<1>2. l \in Call /\ SafeSay(l) /\ l.pc = "storing"
  BY <1>1, IdleFact DEF Call, SafeSay
<1> HIDE DEF l
<1> QED  BY <1>1, <1>2, LocalInv

LEMMA StoreMemoryInv ==
  ASSUME LifecycleInv, NEW c \in Calls, NEW t \in Texts, StoreMemory(c, t)
  PROVE  LifecycleInv'
<1> DEFINE l == [Idle EXCEPT !.kind = "store", !.pc = "storing", !.say = t]
<1>1. "store" \in Kinds /\ call[c].pc = "idle" /\ t \notin Secret /\ Local(c, l)
  BY DEF StoreMemory
<1>2. l \in Call /\ SafeSay(l) /\ l.pc = "storing"
  BY <1>1, IdleFact DEF Call, SafeSay
<1> HIDE DEF l
<1> QED  BY <1>1, <1>2, LocalInv

LEMMA CompactInv ==
  ASSUME LifecycleInv, NEW c \in Calls, MemoryCompact(c)
  PROVE  LifecycleInv'
<1> DEFINE drop == {i \in Active : \E j \in Active : j > i /\ rows[j].text = rows[i].text}
           l == [Idle EXCEPT !.kind = "compact", !.pc = "planned", !.todo = drop]
<1>1. "compact" \in Kinds /\ call[c].pc = "idle" /\ drop \subseteq Ids /\ Local(c, l)
  BY DEF MemoryCompact, Active
<1> HIDE DEF drop
<1>2. l \in Call /\ SafeSay(l) /\ l.pc = "planned"
  BY <1>1, IdleFact, RowFact DEF Call, SafeSay
<1> HIDE DEF l
<1> QED  BY <1>1, <1>2, RowFact, LocalInv

LEMMA CompactNextInv ==
  ASSUME LifecycleInv, NEW c \in Calls, NEW i \in Ids, CompactNext(c, i)
  PROVE  LifecycleInv'
<1> DEFINE rest == call[c].todo \ {i}
           md == [rows[i] EXCEPT !.st = "archived"]
<1>1. call[c].pc = "planned" /\ call[c] \in Call /\ SafeSay(call[c]) /\ rest \subseteq Ids
  BY ReadFact DEF CompactNext
<1>2. md \in Row /\ rows[i] \in Row
  BY DEF LifecycleInv, LifecycleTypeOK, Row, States
<1>3. CASE i \in Present
  <2> DEFINE l == [call[c] EXCEPT !.pc = "ready", !.id = i, !.todo = rest, !.seen = rows[i], !.md = md]
  <2>1. Local(c, l)
    BY <1>3 DEF CompactNext
  <2> HIDE DEF rest, md
  <2>2. l \in Call /\ SafeSay(l) /\ l.pc = "ready"
    BY <1>1, <1>2 DEF Call, SafeSay
  <2> HIDE DEF l
  <2> QED  BY <1>1, <2>1, <2>2, LocalInv
<1>4. CASE i \notin Present /\ rest = {}
  BY <1>1, <1>4, IdleFact, RowFact, LocalInv DEF CompactNext
<1>5. CASE i \notin Present /\ rest # {}
  <2> DEFINE l == [call[c] EXCEPT !.todo = rest]
  <2>1. Local(c, l)
    BY <1>5 DEF CompactNext
  <2> HIDE DEF rest
  <2>2. l \in Call /\ SafeSay(l) /\ l.pc = "planned"
    BY <1>1 DEF Call, SafeSay
  <2> HIDE DEF l
  <2> QED  BY <1>1, <2>1, <2>2, LocalInv
<1> QED  BY <1>3, <1>4, <1>5

-----------------------------------------------------------------------------
(* The store calls *)

LEMMA AfterFact ==
  ASSUME LifecycleInv, NEW c \in Calls
  PROVE  /\ After(call[c]) \in Call /\ SafeSay(After(call[c]))
         /\ After(call[c]).pc # "held"
<1> DEFINE l == call[c]
<1>1. l \in Call /\ SafeSay(l)
  BY ReadFact
<1>2. /\ [l EXCEPT !.pc = "planned"] \in Call /\ [l EXCEPT !.pc = "storing"] \in Call
      /\ SafeSay([l EXCEPT !.pc = "planned"]) /\ (l.kind = "contradict" => SafeSay([l EXCEPT !.pc = "storing"]))
      /\ [l EXCEPT !.pc = "planned"].pc = "planned" /\ [l EXCEPT !.pc = "storing"].pc = "storing"
  BY <1>1 DEF Call, SafeSay
<1>3. \/ After(l) = [l EXCEPT !.pc = "planned"]
      \/ After(l) = [l EXCEPT !.pc = "storing"] /\ l.kind = "contradict"
      \/ After(l) = Done
  BY DEF After
<1> QED  BY <1>1, <1>2, <1>3, IdleFact, RowFact

LEMMA MergeAgainFact ==
  ASSUME LifecycleInv, NEW c \in Calls, call[c].pc = "ready", call[c].kind = "merge"
  PROVE  /\ MergeAgain(call[c]) \in Call /\ SafeSay(MergeAgain(call[c]))
         /\ MergeAgain(call[c]).pc # "held"
<1> DEFINE l == call[c]
           stored == [l EXCEPT !.pc = "storing"]
           again == [l EXCEPT !.bad = TRUE, !.seen = rows[l.id], !.md = rows[l.id]]
<1>1. l \in Call /\ SafeSay(l) /\ rows[l.id] \in Row
  BY ReadFact
<1>2. stored \in Call /\ SafeSay(stored) /\ stored.pc = "storing"
  BY <1>1 DEF Call, SafeSay
<1>3. again \in Call /\ SafeSay(again) /\ again.pc = "ready"
  BY <1>1 DEF Call, SafeSay
<1>4. MergeAgain(l) = stored \/ MergeAgain(l) = again
  BY DEF MergeAgain
<1> QED  BY <1>1, <1>2, <1>3, <1>4

LEMMA UpdateResolveInv ==
  ASSUME LifecycleInv, NEW c \in Calls, UpdateResolve(c)
  PROVE  LifecycleInv'
<1> DEFINE l == call[c]
           row == rows[l.id]
           md == CASE l.kind = "edit" -> [row EXCEPT !.text = l.say]
                   [] l.kind = "merge" -> [l.md EXCEPT !.text = l.say]
                   [] l.kind = "revise" -> [row EXCEPT !.cur = FALSE]
                   [] OTHER -> [l.md EXCEPT !.text = row.text]
           held == [l EXCEPT !.pc = "held", !.md = md]
<1>1. /\ l \in Call /\ SafeSay(l) /\ l.say \in Texts \cup {NoText} /\ l.id \in Ids
      /\ l.md \in Row /\ row \in Row /\ l.pc = "ready" /\ lock = NoCall
  BY ReadFact DEF UpdateResolve, LockFree
<1>2. CASE Found(l) /\ ~Conflict(l)
  <2>1. /\ lock' = c /\ call' = [call EXCEPT ![c] = held] /\ bypassed' = FALSE
        /\ UNCHANGED <<rows, vecs, v2, next, job, audit, purged, orphans>>
    BY <1>2 DEF UpdateResolve
  <2>2. md \in Row
    <3>1. /\ [row EXCEPT !.text = l.say] \in Row /\ [l.md EXCEPT !.text = l.say] \in Row
          /\ [row EXCEPT !.cur = FALSE] \in Row /\ [l.md EXCEPT !.text = row.text] \in Row
      BY <1>1 DEF Row
    <3> QED  BY <3>1
  <2> HIDE DEF md
  <2>3. /\ held \in Call /\ held.pc = "held" /\ SafeSay(held)
        /\ held.id = l.id /\ held.kind = l.kind /\ held.seen = l.seen
    BY <1>1, <2>2 DEF Call, SafeSay
  <2> HIDE DEF held
  <2>4. call'[c] = held /\ \A d \in Calls \ {c} : call'[d] = call[d] /\ call[d].pc # "held" /\ d # c
    BY <1>1, <2>1, RowFact DEF LifecycleInv, LifecycleTypeOK
  <2>5. LifecycleTypeOK'
    BY <2>1, <2>3, <2>4 DEF LifecycleInv, LifecycleTypeOK
  <2>6. rows[l.id].st # "absent" /\ (l.kind = "merge" => rows[l.id] = l.seen)
    BY <1>2 DEF Found, Conflict, Present
  <2> QED
    BY <1>1, <2>1, <2>3, <2>4, <2>5, <2>6 DEF LifecycleInv, SayIsSafe, SecretForgotten, HeldIsFresh, Clash
<1>3. CASE ~(Found(l) /\ ~Conflict(l))
  <2>1. Local(c, IF l.kind = "merge" THEN MergeAgain(l) ELSE After(l))
    BY <1>3 DEF UpdateResolve
  <2>2. l.pc # "held"
    BY <1>1
  <2>3. CASE l.kind = "merge"
    BY <1>1, <2>1, <2>2, <2>3, MergeAgainFact, LocalInv
  <2>4. CASE l.kind # "merge"
    BY <2>1, <2>2, <2>4, AfterFact, LocalInv
  <2> QED  BY <2>3, <2>4
<1> QED  BY <1>2, <1>3

(* The transaction of a write: the table it makes, or the one there was.       *)
LEMMA WriteInv ==
  ASSUME LifecycleInv, NEW c \in Calls, NEW r \in [Ids -> Row], NEW ids \in SUBSET Ids,
         NEW l \in Call, SafeSay(l), l.pc # "held",
         \A i \in purged : r[i].text \notin Secret,
         Write(c, r, ids, l), lock = NoCall \/ call[c].pc = "held", lock' = NoCall,
         next' \in 1..N + 1, UNCHANGED <<v2, job, audit, purged, orphans, bypassed>>
  PROVE  LifecycleInv'
<1>1. vecs \subseteq Ids /\ v2 \subseteq Ids /\ orphans \subseteq Ids /\ rows \in [Ids -> Row] /\ ~Clash(rows)
  BY DEF LifecycleInv, LifecycleTypeOK
<1>2. \A i \in purged : rows[i].text \notin Secret
  BY DEF LifecycleInv, SecretForgotten
<1>3. CASE Clash(r)
  <2>1. call' = [call EXCEPT ![c] = Done] /\ UNCHANGED <<rows, vecs>>
    BY <1>3 DEF Write
  <2>2. rows' \in [Ids -> Row] /\ ~Clash(rows') /\ \A i \in purged : rows'[i].text \notin Secret
    BY <1>1, <1>2, <2>1
  <2> QED  BY <1>1, <2>1, <2>2, IdleFact, RowFact, FreeWriteInv
<1>4. CASE ~Clash(r)
  <2>1. call' = [call EXCEPT ![c] = l] /\ rows' = r /\ vecs' = vecs \cup ids
    BY <1>4 DEF Write
  <2>2. rows' \in [Ids -> Row] /\ ~Clash(rows') /\ \A i \in purged : rows'[i].text \notin Secret
    BY <1>4, <2>1
  <2> QED  BY <1>1, <2>1, <2>2, FreeWriteInv
<1> QED  BY <1>3, <1>4

LEMMA UpdateCommitInv ==
  ASSUME LifecycleInv, NEW c \in Calls, UpdateCommit(c)
  PROVE  LifecycleInv'
<1> DEFINE l == call[c]
           r == [rows EXCEPT ![l.id] = l.md]
<1>1. l.id \in Ids /\ l.md \in Row /\ l.pc = "held" /\ lock' = NoCall /\ next' \in 1..N + 1
  BY ReadFact DEF UpdateCommit, LifecycleInv, LifecycleTypeOK
<1>2. UNCHANGED <<v2, next, job, audit, purged, orphans, bypassed>>
  BY DEF UpdateCommit
<1>3. CASE Refused(l.md.text)
  <2>1. call' = [call EXCEPT ![c] = Done] /\ UNCHANGED <<rows, vecs>>
    BY <1>3 DEF UpdateCommit
  <2> QED
    BY <1>1, <1>2, <2>1, IdleFact, RowFact, FreeWriteInv DEF LifecycleInv, LifecycleTypeOK, SecretForgotten
<1>4. CASE ~Refused(l.md.text)
  <2>1. Write(c, r, {l.id}, After(l))
    BY <1>4 DEF UpdateCommit
  <2>2. r \in [Ids -> Row] /\ \A i \in purged : r[i].text \notin Secret
    BY <1>1, <1>4 DEF Refused, LifecycleInv, LifecycleTypeOK, SecretForgotten
  <2> HIDE DEF r
  <2> QED  BY <1>1, <1>2, <2>1, <2>2, AfterFact, WriteInv
<1> QED  BY <1>3, <1>4

LEMMA SupersedeCommitInv ==
  ASSUME LifecycleInv, NEW c \in Calls, SupersedeCommit(c)
  PROVE  LifecycleInv'
<1> DEFINE l == call[c]
           new == [NewRow(l.say) EXCEPT !.key = l.md.key]
           safe == l.id \in Present /\ ~Refused(l.md.text)
           r == IF safe THEN [rows EXCEPT ![l.id] = l.md, ![next] = new] ELSE rows
           ids == IF safe THEN {l.id, next} ELSE {}
<1>1. /\ l.id \in Ids /\ l.md \in Row /\ l.say \notin Secret /\ l.say \in Texts \cup {NoText}
      /\ l.pc = "held" /\ lock' = NoCall /\ Write(c, r, ids, Done)
      /\ UNCHANGED <<v2, job, audit, purged, orphans, bypassed>>
  BY ReadFact DEF SupersedeCommit
<1>2. next \in Ids /\ next' \in 1..N + 1
  BY LifecycleAssumption DEF LifecycleInv, LifecycleTypeOK, SupersedeCommit, Ids
<1>3. new \in Row /\ new.text = l.say
  BY <1>1 DEF NewRow, Row, States
<1>4. r \in [Ids -> Row] /\ ids \in SUBSET Ids
  BY <1>1, <1>2, <1>3 DEF LifecycleInv, LifecycleTypeOK
<1>5. \A i \in purged : r[i].text \notin Secret
  BY <1>1, <1>2, <1>3 DEF Refused, LifecycleInv, LifecycleTypeOK, SecretForgotten
<1> HIDE DEF r, ids
<1> QED  BY <1>1, <1>2, <1>4, <1>5, IdleFact, WriteInv

LEMMA StoreCommitInv ==
  ASSUME LifecycleInv, NEW c \in Calls, StoreCommit(c)
  PROVE  LifecycleInv'
<1> DEFINE l == call[c]
           r == [rows EXCEPT ![next] = Stored(l)]
           done == CASE l.kind = "store" -> [l EXCEPT !.pc = "stored", !.id = next]
                     [] l.kind = "supersede" -> [l EXCEPT !.pc = "ready"]
                     [] OTHER -> Done
<1>1. /\ l \in Call /\ l.md \in Row /\ SafeSay(l) /\ l.say \in Texts \cup {NoText} /\ l.say \notin Secret
      /\ l.pc = "storing" /\ lock = NoCall /\ lock' = NoCall
      /\ UNCHANGED <<v2, job, audit, purged, orphans, bypassed>>
  BY ReadFact DEF StoreCommit, LockFree
<1>2. next \in Ids /\ next' \in 1..N + 1
  BY LifecycleAssumption DEF LifecycleInv, LifecycleTypeOK, StoreCommit, Ids
<1>3. Write(c, r, {next}, done)
  BY DEF StoreCommit
<1>4. done \in Call /\ SafeSay(done) /\ done.pc # "held"
  <2> DEFINE stored == [l EXCEPT !.pc = "stored", !.id = next]
             ready == [l EXCEPT !.pc = "ready"]
  <2>1. /\ stored \in Call /\ SafeSay(stored) /\ stored.pc = "stored"
        /\ ready \in Call /\ SafeSay(ready) /\ ready.pc = "ready"
    BY <1>1, <1>2 DEF Call, SafeSay
  <2>2. done \in {stored, ready, Done}
    OBVIOUS
  <2> QED  BY <2>1, <2>2, IdleFact
<1>5. Stored(l) \in Row /\ Stored(l).text = l.say
  <2>1. CASE l.kind = "supersede"
    BY <1>1, <2>1 DEF Stored, NewRow, Row, States
  <2>2. CASE l.kind = "contradict"
    BY <1>1, <2>2 DEF Stored, NewRow, Row, States
  <2>3. CASE l.kind \notin {"supersede", "contradict"}
    <3>1. l.say \in Texts /\ Stored(l) = NewRow(l.say)
      BY <1>1, <2>3 DEF SafeSay, Stored
    <3> QED  BY <3>1, RowFact
  <2> QED  BY <2>1, <2>2, <2>3
<1>6. r \in [Ids -> Row] /\ \A i \in purged : r[i].text \notin Secret
  BY <1>1, <1>2, <1>5 DEF LifecycleInv, LifecycleTypeOK, SecretForgotten
<1> HIDE DEF r, done
<1> QED  BY <1>1, <1>2, <1>3, <1>4, <1>6, WriteInv

-----------------------------------------------------------------------------
(* Deletions *)

(* Row r says what q says of the same fact and is not current unless q is.     *)
Keeps(q, r) ==
    /\ r.text = q.text /\ r.key = q.key
    /\ r.cur => q.cur
    /\ (r.st = "absent") <=> (q.st = "absent")

LEMMA RemovedFact ==
  ASSUME LifecycleInv, NEW H \in SUBSET Ids, NEW r \in [Ids -> Row],
         \A i \in Ids \ H : Keeps(rows[i], r[i]),
         \A i \in H : r[i] = Absent
  PROVE  ~Clash(r) /\ \A i \in purged : r[i].text \notin Secret
<1>1. ~Clash(rows) /\ \A i \in purged : rows[i].text \notin Secret /\ i \in Ids
  BY DEF LifecycleInv, LifecycleTypeOK, SecretForgotten
<1>2. ~Clash(r)
  BY <1>1, RowFact DEF Clash, Keeps
<1>3. \A i \in purged : r[i].text \notin Secret
  BY <1>1, RowFact DEF Keeps
<1> QED  BY <1>2, <1>3

LEMMA DeleteCommitInv ==
  ASSUME LifecycleInv, NEW c \in Calls, DeleteCommit(c)
  PROVE  LifecycleInv'
<1> DEFINE i == call[c].id
           r == [rows EXCEPT ![i] = Absent]
<1>1. /\ i \in Ids /\ lock = NoCall /\ lock' = NoCall /\ rows' = r /\ vecs' = vecs \ {i}
      /\ call' = [call EXCEPT ![c] = Done]
      /\ UNCHANGED <<v2, next, lock, job, audit, purged, orphans, bypassed>>
  BY ReadFact DEF DeleteCommit, LockFree
<1>2. r \in [Ids -> Row] /\ r[i] = Absent /\ \A j \in Ids \ {i} : r[j] = rows[j]
  BY <1>1, RowFact DEF LifecycleInv, LifecycleTypeOK
<1> HIDE DEF r
<1>3. ~Clash(r) /\ \A j \in purged : r[j].text \notin Secret
  <2> HIDE DEF i
  <2>1. {i} \in SUBSET Ids /\ \A j \in {i} : r[j] = Absent
    BY <1>1, <1>2
  <2>2. \A j \in Ids \ {i} : Keeps(rows[j], r[j])
    BY <1>2 DEF Keeps
  <2> QED  BY <1>2, <2>1, <2>2, RemovedFact
<1>4. vecs' \subseteq Ids /\ v2' \subseteq Ids /\ orphans' \subseteq Ids /\ next' \in 1..N + 1
  BY <1>1 DEF LifecycleInv, LifecycleTypeOK
<1> QED  BY <1>1, <1>2, <1>3, <1>4, IdleFact, FreeWriteInv

LEMMA MirrorInv ==
  ASSUME LifecycleInv, NEW c \in Calls, Mirror(c)
  PROVE  LifecycleInv'
<1> DEFINE undoing == [call[c] EXCEPT !.pc = "undoing"]
<1>1. /\ call[c] \in Call /\ SafeSay(call[c]) /\ call[c].pc = "stored" /\ call[c].id \in Ids
      /\ UNCHANGED <<rows, vecs, next, lock, job, audit, purged, orphans, bypassed>>
  BY ReadFact DEF Mirror
<1>2. undoing \in Call /\ SafeSay(undoing) /\ undoing.pc = "undoing"
  BY <1>1 DEF Call, SafeSay
<1>3. PICK l \in {Done, undoing} : call' = [call EXCEPT ![c] = l] /\ v2' \subseteq Ids
  BY <1>1 DEF Mirror, LifecycleInv, LifecycleTypeOK
<1>4. l \in Call /\ SafeSay(l) /\ l.pc # "held"
  BY <1>2, IdleFact
<1>5. call'[c] = l /\ \A d \in Calls \ {c} : call'[d] = call[d]
  BY <1>3 DEF LifecycleInv, LifecycleTypeOK
<1>6. LifecycleTypeOK'
  BY <1>1, <1>3, <1>4, <1>5 DEF LifecycleInv, LifecycleTypeOK
<1> QED
  BY <1>1, <1>4, <1>5, <1>6 DEF LifecycleInv, SayIsSafe, SecretForgotten, HeldIsFresh, Clash

LEMMA CompensateInv ==
  ASSUME LifecycleInv, NEW c \in Calls, Compensate(c)
  PROVE  LifecycleInv'
<1> DEFINE i == call[c].id
           r == [rows EXCEPT ![i] = Absent]
<1>1. /\ i \in Ids /\ lock = NoCall /\ lock' = NoCall /\ call' = [call EXCEPT ![c] = Done]
      /\ UNCHANGED <<v2, next, lock, job, audit, purged, bypassed>>
  BY ReadFact DEF Compensate, LockFree
<1>2. /\ rows \in [Ids -> Row] /\ ~Clash(rows) /\ \A j \in purged : rows[j].text \notin Secret
      /\ vecs \subseteq Ids /\ v2' \subseteq Ids /\ orphans \subseteq Ids /\ next' \in 1..N + 1
  BY <1>1 DEF LifecycleInv, LifecycleTypeOK, SecretForgotten
<1>3. r \in [Ids -> Row] /\ r[i] = Absent /\ \A j \in Ids \ {i} : r[j] = rows[j]
  BY <1>1, <1>2, RowFact
<1> HIDE DEF r
<1>4. ~Clash(r) /\ \A j \in purged : r[j].text \notin Secret
  <2> HIDE DEF i
  <2>1. {i} \in SUBSET Ids /\ \A j \in {i} : r[j] = Absent
    BY <1>1, <1>3
  <2>2. \A j \in Ids \ {i} : Keeps(rows[j], r[j])
    BY <1>3 DEF Keeps
  <2> QED  BY <1>3, <2>1, <2>2, RemovedFact
<1>5. CASE rows' = r /\ vecs' = vecs \ {i} /\ UNCHANGED orphans
  BY <1>1, <1>2, <1>3, <1>4, <1>5, IdleFact, FreeWriteInv
<1>6. CASE orphans' = orphans \cup {i} /\ UNCHANGED <<rows, vecs>>
  BY <1>1, <1>2, <1>6, IdleFact, FreeWriteInv
<1> QED  BY <1>5, <1>6 DEF Compensate, r

LEMMA GatewayCrashInv ==
  ASSUME LifecycleInv, GatewayCrash
  PROVE  LifecycleInv'
<1>1. /\ lock' = NoCall /\ call' = [c \in Calls |-> IF call[c].pc = "idle" THEN Idle ELSE Done]
      /\ UNCHANGED <<rows, vecs, v2, next, job, audit, purged, bypassed>>
  BY DEF GatewayCrash
<1>2. \A c \in Calls : call'[c] \in Call /\ SafeSay(call'[c]) /\ call'[c].pc # "held" /\ lock' # c
  BY <1>1, IdleFact, RowFact
<1>3. orphans' \subseteq Ids
  BY ReadFact DEF GatewayCrash, LifecycleInv, LifecycleTypeOK
<1>4. LifecycleTypeOK'
  BY <1>1, <1>2, <1>3, IdleFact DEF LifecycleInv, LifecycleTypeOK
<1> QED
  BY <1>1, <1>2, <1>4 DEF LifecycleInv, SayIsSafe, SecretForgotten, HeldIsFresh, Clash

-----------------------------------------------------------------------------
(* Forgetting *)

LEMMA ForgottenFact ==
  ASSUME LifecycleInv, NEW soft, NEW hard \in SUBSET Ids
  PROVE  /\ Forgotten(soft, hard) \in [Ids -> Row] /\ ~Clash(Forgotten(soft, hard))
         /\ \A i \in purged \cup hard : Forgotten(soft, hard)[i].text \notin Secret
<1> DEFINE r == Forgotten(soft, hard)
           past(i) == [rows[i] EXCEPT !.st = "archived", !.cur = FALSE]
<1>1. rows \in [Ids -> Row] /\ purged \subseteq Ids
  BY DEF LifecycleInv, LifecycleTypeOK
<1>2. \A i \in Ids : /\ past(i) \in Row /\ past(i).text = rows[i].text /\ past(i).key = rows[i].key
                     /\ ~past(i).cur /\ past(i).st = "archived"
  BY <1>1 DEF Row, States
<1>3. \A i \in hard : r[i] = Absent
  BY DEF Forgotten
<1>4. \A i \in Ids \ hard : r[i] = rows[i] \/ (r[i] = past(i) /\ rows[i].st # "absent")
  BY DEF Forgotten, Active
<1>5. r \in [Ids -> Row]
  <2>1. \A i \in Ids : r[i] \in Row
    <3> HIDE DEF r, past
    <3> QED  BY <1>1, <1>2, <1>3, <1>4, RowFact
  <2>2. r = [i \in Ids |-> r[i]]
    BY DEF Forgotten
  <2> HIDE DEF r
  <2> QED  BY <2>1, <2>2
<1> HIDE DEF r, past
<1>6. \A i \in Ids \ hard : Keeps(rows[i], r[i])
  BY <1>2, <1>4 DEF Keeps
<1>7. ~Clash(r) /\ \A i \in purged : r[i].text \notin Secret
  BY <1>3, <1>5, <1>6, RemovedFact
<1> QED  BY <1>3, <1>5, <1>7, RowFact DEF r

(* A transaction that does not take the lock voids what a held call knows.     *)
LEMMA BypassInv ==
  ASSUME LifecycleInv, Bypass, LifecycleTypeOK', SayIsSafe', ~Clash(rows)', SecretForgotten',
         UNCHANGED lock
  PROVE  LifecycleInv'
<1>1. \A c \in Calls : call'[c].pc = "held" => bypassed'
  BY RowFact DEF Bypass, LifecycleTypeOK
<1> QED  BY <1>1 DEF LifecycleInv, HeldIsFresh

LEMMA RunForgettingInv ==
  ASSUME LifecycleInv, NEW c \in Calls, NEW soft, NEW hard \in SUBSET Ids,
         call[c].pc # "held", RunForgetting(c, soft, hard)
  PROVE  LifecycleInv'
<1>1. /\ rows' = Forgotten(soft, hard) /\ purged' = purged \cup hard
      /\ call' = [call EXCEPT ![c] = Done] /\ Bypass
      /\ UNCHANGED <<vecs, v2, next, lock, job, audit, orphans>>
  BY DEF RunForgetting
<1>2. call'[c] = Done /\ \A d \in Calls \ {c} : call'[d] = call[d]
  BY <1>1 DEF LifecycleInv, LifecycleTypeOK
<1>3. bypassed' \in BOOLEAN
  BY <1>1 DEF Bypass, LifecycleInv, LifecycleTypeOK
<1>4. rows' \in [Ids -> Row] /\ ~Clash(rows') /\ \A i \in purged' : rows'[i].text \notin Secret
  BY <1>1, ForgottenFact
<1>5. LifecycleTypeOK'
  BY <1>1, <1>2, <1>3, <1>4, IdleFact DEF LifecycleInv, LifecycleTypeOK
<1>6. SayIsSafe' /\ SecretForgotten' /\ ~Clash(rows)'
  BY <1>2, <1>4, IdleFact DEF LifecycleInv, SayIsSafe, SecretForgotten, Clash
<1> QED  BY <1>1, <1>5, <1>6, BypassInv

LEMMA HardFact == HardCandidates \in SUBSET Ids
BY DEF HardCandidates, Active

LEMMA ForgetPreflightInv ==
  ASSUME LifecycleInv, NEW c \in Calls, ForgetPreflight(c)
  PROVE  LifecycleInv'
<1>1. call[c].pc = "idle" /\ "forget" \in Kinds
  BY DEF ForgetPreflight
<1>2. CASE HardCandidates = {}
  BY <1>1, <1>2, RunForgettingInv DEF ForgetPreflight
<1>3. CASE HardCandidates # {}
  <2> DEFINE l == [Idle EXCEPT !.kind = "forget", !.pc = "vectors", !.todo = HardCandidates]
  <2>1. Local(c, l)
    BY <1>3 DEF ForgetPreflight
  <2>2. l \in Call /\ SafeSay(l) /\ l.pc = "vectors"
    BY <1>1, IdleFact, RowFact, HardFact DEF Call, SafeSay
  <2> HIDE DEF l
  <2> QED  BY <1>1, <2>1, <2>2, LocalInv
<1> QED  BY <1>2, <1>3

LEMMA ForgetVectorInv ==
  ASSUME LifecycleInv, NEW c \in Calls, NEW i \in Ids, ForgetVector(c, i)
  PROVE  LifecycleInv'
<1> DEFINE l == [call[c] EXCEPT !.todo = call[c].todo \ {i}]
           bad == [l EXCEPT !.bad = TRUE]
<1>1. /\ call[c] \in Call /\ SafeSay(call[c]) /\ call[c].pc = "vectors" /\ lock = NoCall
      /\ UNCHANGED <<rows, v2, next, lock, job, audit, purged, orphans, bypassed>>
  BY ReadFact DEF ForgetVector, LockFree
<1>2. l \in Call /\ SafeSay(l) /\ l.pc = "vectors"
  BY <1>1 DEF Call, SafeSay
<1>3. bad \in Call /\ SafeSay(bad) /\ bad.pc = "vectors"
  <2> HIDE DEF l
  <2> QED  BY <1>2 DEF Call, SafeSay
<1>4. PICK m \in {l, bad} : call' = [call EXCEPT ![c] = m] /\ vecs' \subseteq Ids
  BY DEF ForgetVector, LifecycleInv, LifecycleTypeOK
<1> HIDE DEF l, bad
<1>5. /\ rows' \in [Ids -> Row] /\ ~Clash(rows') /\ \A j \in purged : rows'[j].text \notin Secret
      /\ v2' \subseteq Ids /\ orphans' \subseteq Ids /\ next' \in 1..N + 1
  BY <1>1 DEF LifecycleInv, LifecycleTypeOK, SecretForgotten
<1> QED  BY <1>1, <1>2, <1>3, <1>4, <1>5, FreeWriteInv

LEMMA ForgetFinishInv ==
  ASSUME LifecycleInv, NEW c \in Calls, ForgetFinish(c)
  PROVE  LifecycleInv'
<1>1. call[c].pc = "vectors"
  BY DEF ForgetFinish
<1>2. PICK hard \in {{}, HardCandidates} : RunForgetting(c, SoftCandidates, hard)
  BY DEF ForgetFinish
<1> QED  BY <1>1, <1>2, HardFact, RunForgettingInv

-----------------------------------------------------------------------------
(* Operator jobs *)

LEMMA ReadInv ==
  ASSUME LifecycleInv, NEW k, NEW ids \in SUBSET Ids, NEW b,
         \/ k \in {"forget", "promote"} /\ b = NoBatch
         \/ k \in {"cleanup", "rollback"} /\ b \in Batches,
         Read(k, ids, b)
  PROVE  LifecycleInv'
<1>1. [kind |-> k, ids |-> ids, seen |-> rows, batch |-> b] \in Job
  BY DEF Job, JobOf, LifecycleInv, LifecycleTypeOK
<1>2. LifecycleTypeOK'
  BY <1>1 DEF Read, JobLocals, LifecycleInv, LifecycleTypeOK
<1> QED
  BY <1>2 DEF Read, JobLocals, LifecycleInv, SayIsSafe, SecretForgotten, HeldIsFresh, Clash

LEMMA JobReadInv ==
  ASSUME LifecycleInv, JobRead
  PROVE  LifecycleInv'
<1>1. CASE ForgetRead
  <2>1. SoftCandidates \in SUBSET Ids
    BY DEF SoftCandidates, Active
  <2> QED  BY <1>1, <2>1, ReadInv DEF ForgetRead
<1>2. CASE CleanupRead
  <2>1. {i \in Active : rows[i].text \in Noise} \in SUBSET Ids
    BY DEF Active
  <2> QED  BY <1>2, <2>1, ReadInv DEF CleanupRead
<1>3. CASE RollbackRead
  BY <1>3, ReadInv DEF RollbackRead
<1>4. CASE PromoteRead
  <2> DEFINE cand == {i \in Ids : rows[i].st = "candidate" /\ rows[i].text \notin Secret}
  <2>1. cand \in SUBSET Ids /\ Read("promote", cand, NoBatch)
    BY <1>4 DEF PromoteRead
  <2> HIDE DEF cand
  <2> QED  BY <2>1, ReadInv
<1> QED  BY <1>1, <1>2, <1>3, <1>4 DEF JobRead

(* A job writes a table whose rows say what they said or nothing; the triggers *)
(* of memory_truth decide whether it stands.                                   *)
LEMMA CommitInv ==
  ASSUME LifecycleInv, NEW k, NEW r \in [Ids -> Row], Commit(k, r),
         \A i \in Ids : r[i].text \in {rows[i].text, NoText},
         audit' \in [Batches -> [Ids -> Row]], UNCHANGED purged
  PROVE  LifecycleInv'
<1>1. /\ rows' = (IF Clash(r) THEN rows ELSE r) /\ job' = NoJob /\ Bypass
      /\ UNCHANGED <<vecs, v2, next, lock, call, orphans>>
  BY DEF Commit, JobLocals
<1>2. NoJob \in Job
  BY RowFact DEF NoJob, Job, JobOf
<1>3. rows' \in [Ids -> Row] /\ ~Clash(rows') /\ \A i \in purged : rows'[i].text \notin Secret
  BY <1>1, RowFact DEF LifecycleInv, LifecycleTypeOK, SecretForgotten
<1>4. bypassed' \in BOOLEAN
  BY <1>1 DEF Bypass, LifecycleInv, LifecycleTypeOK
<1>5. LifecycleTypeOK'
  BY <1>1, <1>2, <1>3, <1>4 DEF LifecycleInv, LifecycleTypeOK
<1>6. SayIsSafe' /\ SecretForgotten' /\ ~Clash(rows)'
  BY <1>1, <1>3 DEF LifecycleInv, SayIsSafe, SecretForgotten, Clash
<1> QED  BY <1>1, <1>5, <1>6, BypassInv

LEMMA JobFact ==
  ASSUME LifecycleInv
  PROVE  /\ job.ids \subseteq Ids /\ job.seen \in [Ids -> Row] /\ job.batch \in Batches \cup {NoBatch}
         /\ job.kind \in {"cleanup", "rollback"} => job.batch \in Batches
         /\ rows \in [Ids -> Row] /\ audit \in [Batches -> [Ids -> Row]]
BY DEF LifecycleInv, LifecycleTypeOK, Job, JobOf

LEMMA ForgetApplyInv ==
  ASSUME LifecycleInv, ForgetApply
  PROVE  LifecycleInv'
<1>1. Forgotten(job.ids, {}) \in [Ids -> Row]
  BY ForgottenFact
<1>2. \A i \in Ids : Forgotten(job.ids, {})[i].text = rows[i].text
  BY JobFact DEF Forgotten, Row
<1>3. Commit("forget", Forgotten(job.ids, {})) /\ UNCHANGED <<audit, purged>>
  BY DEF ForgetApply
<1> QED  BY <1>1, <1>2, <1>3, JobFact, CommitInv

LEMMA CleanupApplyInv ==
  ASSUME LifecycleInv, CleanupApply
  PROVE  LifecycleInv'
<1> DEFINE b == job.batch
           hit == job.ids \cap Active
           past(i) == [rows[i] EXCEPT !.st = "archived", !.tag = b]
           r == [i \in Ids |-> IF i \in hit THEN past(i) ELSE rows[i]]
           old == [i \in Ids |-> IF i \in hit THEN rows[i] ELSE Absent]
<1>1. Commit("cleanup", r) /\ audit' = [audit EXCEPT ![b] = old] /\ UNCHANGED purged
  BY DEF CleanupApply
<1>2. b \in Batches
  BY <1>1, JobFact DEF Commit
<1> HIDE DEF b, hit
<1>3. \A i \in Ids : past(i) \in Row /\ past(i).text = rows[i].text
  <2>1. "archived" \in States
    BY DEF States
  <2>2. \A i \in Ids : rows[i] \in Row
    BY JobFact
  <2> QED  BY <1>2, <2>1, <2>2 DEF Row
<1> HIDE DEF past
<1>4. r \in [Ids -> Row] /\ old \in [Ids -> Row] /\ \A i \in Ids : r[i].text = rows[i].text
  BY <1>3, JobFact, RowFact
<1> HIDE DEF r, old
<1>5. audit' \in [Batches -> [Ids -> Row]]
  BY <1>1, <1>4, JobFact
<1> QED  BY <1>1, <1>4, <1>5, CommitInv

LEMMA RollbackApplyInv ==
  ASSUME LifecycleInv, RollbackApply
  PROVE  LifecycleInv'
<1> DEFINE b == job.batch
           back(i) == [audit[b][i] EXCEPT !.text = rows[i].text]
           r == [i \in Ids |-> IF i \in Restorable(b) THEN back(i) ELSE rows[i]]
<1>1. Commit("rollback", r) /\ UNCHANGED <<audit, purged>>
  BY DEF RollbackApply
<1>2. b \in Batches
  BY <1>1, JobFact DEF Commit
<1> HIDE DEF b
<1>3. \A i \in Ids : audit[b][i] \in Row
  BY <1>2, JobFact
<1>4. \A i \in Ids : back(i) \in Row /\ back(i).text = rows[i].text
  BY <1>3, JobFact DEF Row
<1> HIDE DEF back
<1>5. r \in [Ids -> Row] /\ \A i \in Ids : r[i].text = rows[i].text
  BY <1>4, JobFact
<1> HIDE DEF r
<1> QED  BY <1>1, <1>5, JobFact, CommitInv

LEMMA PromoteApplyInv ==
  ASSUME LifecycleInv, PromoteApply
  PROVE  LifecycleInv'
<1> DEFINE new(i) == [Promoted(job.seen[i]) EXCEPT !.text = rows[i].text]
           r == [i \in Ids |-> IF i \in job.ids /\ StillCandidate(i) THEN new(i) ELSE rows[i]]
<1>1. Commit("promote", r) /\ UNCHANGED <<audit, purged>>
  BY DEF PromoteApply
<1>2. \A i \in Ids : Promoted(job.seen[i]) \in Row
  <2> SUFFICES ASSUME NEW i \in Ids PROVE Promoted(job.seen[i]) \in Row
    OBVIOUS
  <2>1. PICK s \in States : Promoted(job.seen[i]) = [job.seen[i] EXCEPT !.st = s]
    BY DEF Promoted, States
  <2>2. job.seen[i] \in Row
    BY JobFact
  <2> QED  BY <2>1, <2>2 DEF Row
<1>3. \A i \in Ids : new(i) \in Row /\ new(i).text = rows[i].text
  BY <1>2, JobFact DEF Row
<1> HIDE DEF new
<1>4. r \in [Ids -> Row] /\ \A i \in Ids : r[i].text = rows[i].text
  BY <1>3, JobFact
<1> HIDE DEF r
<1> QED  BY <1>1, <1>4, JobFact, CommitInv

-----------------------------------------------------------------------------
LEMMA GatewayNextInv ==
  ASSUME LifecycleInv, NEW c \in Calls, GatewayNext(c)
  PROVE  LifecycleInv'
<1>1. CASE \/ MemoryCompact(c) \/ UpdateResolve(c) \/ UpdateCommit(c) \/ SupersedeCommit(c)
           \/ DeleteCommit(c) \/ StoreCommit(c) \/ Mirror(c) \/ Compensate(c)
           \/ ForgetPreflight(c) \/ ForgetFinish(c)
  BY <1>1, CompactInv, UpdateResolveInv, UpdateCommitInv, SupersedeCommitInv, DeleteCommitInv,
     StoreCommitInv, MirrorInv, CompensateInv, ForgetPreflightInv, ForgetFinishInv
<1>2. ASSUME NEW i \in Ids,
             \/ MemoryArchive(c, i) \/ MemoryPromote(c, i) \/ MemoryForget(c, i) \/ HandleSupport(c, i)
      PROVE  LifecycleInv'
  BY <1>2, CopiesInv
<1>3. ASSUME NEW i \in Ids, CompactNext(c, i) \/ ForgetVector(c, i) PROVE LifecycleInv'
  BY <1>3, CompactNextInv, ForgetVectorInv
<1>4. ASSUME NEW t \in Texts, StoreMemory(c, t) PROVE LifecycleInv'
  BY <1>4, StoreMemoryInv
<1>5. ASSUME NEW i \in Ids, NEW t \in Texts,
             \/ MemoryUpdate(c, i, t) \/ HandleMerge(c, i, t) \/ HandleContradict(c, i, t)
      PROVE  LifecycleInv'
  BY <1>5, RewritesInv
<1>6. ASSUME NEW i \in Ids, NEW t \in Texts, HandleSupersede(c, i, t) PROVE LifecycleInv'
  BY <1>6, HandleSupersedeInv
<1> QED  BY <1>1, <1>2, <1>3, <1>4, <1>5, <1>6 DEF GatewayNext

LEMMA LifecycleInvStep == LifecycleInv /\ [LifecycleNext]_lifeVars => LifecycleInv'
<1> SUFFICES ASSUME LifecycleInv, [LifecycleNext]_lifeVars PROVE LifecycleInv'
  OBVIOUS
<1>1. CASE JobApply
  BY <1>1, ForgetApplyInv, CleanupApplyInv, RollbackApplyInv, PromoteApplyInv DEF JobApply
<1>2. CASE UNCHANGED lifeVars
  BY <1>2 DEF lifeVars, LifecycleInv, LifecycleTypeOK, SayIsSafe, SecretForgotten, HeldIsFresh, Clash
<1> QED
  BY <1>1, <1>2, GatewayNextInv, GatewayCrashInv, JobReadInv DEF LifecycleNext

(* The lock has one holder, who is inside it, and every row, copy and audit    *)
(* event is well-formed, for any number of calls (memory-write-lock.ts).       *)
THEOREM LifecycleTypeCorrect == LifecycleSpec => []LifecycleTypeOK
<1>1. LifecycleInv => LifecycleTypeOK
  BY DEF LifecycleInv
<1> QED  BY <1>1, LifecycleInvInit, LifecycleInvStep, PTL DEF LifecycleSpec

(* At most one version of a fact is current, whichever of the tools, handlers  *)
(* and operator jobs wrote last, for any number of rows and calls (the         *)
(* triggers of sql-truth-store.ts under every writer).                         *)
THEOREM OneFactIsCurrent == LifecycleSpec => []OneCurrentFact
<1>1. LifecycleInv => OneCurrentFact
  BY DEF LifecycleInv, Clash, OneCurrentFact, Present
<1> QED  BY <1>1, LifecycleInvInit, LifecycleInvStep, PTL DEF LifecycleSpec

(* A hard-deleted secret never comes back, not from the copy a call holds, a   *)
(* job's earlier read or the audit event of an older cleanup                   *)
(* (forgetting.ts, memory-entry-write-policy.ts).                              *)
THEOREM SecretsStayForgotten == LifecycleSpec => []SecretForgotten
<1>1. LifecycleInv => SecretForgotten
  BY DEF LifecycleInv
<1> QED  BY <1>1, LifecycleInvInit, LifecycleInvStep, PTL DEF LifecycleSpec

(* A provider's merge replaces the revision the provider was shown, unless an  *)
(* operator job committed outside the lock (llm-memory-merge.ts).              *)
THEOREM MergesReplaceWhatTheyRead == LifecycleSpec => MergeReplacesWhatItRead
<1>1. LifecycleInv /\ [LifecycleNext]_lifeVars =>
        [\A c \in Calls : lock = c /\ call[c].kind = "merge" /\ rows' # rows /\ lock' = NoCall
           => bypassed \/ rows[call[c].id] = call[c].seen]_lifeVars
  BY DEF LifecycleInv, LifecycleTypeOK, HeldIsFresh
<1> QED
  BY <1>1, LifecycleInvInit, LifecycleInvStep, PTL DEF LifecycleSpec, MergeReplacesWhatItRead

(* Whose step a change of the table can be.                                    *)
Writes(c) ==
    \/ UpdateCommit(c) \/ SupersedeCommit(c) \/ StoreCommit(c) \/ DeleteCommit(c) \/ Compensate(c)

(* Who else rewrites the table: jobs and forgetting.                           *)
LEMMA RowsMove ==
  ASSUME [LifecycleNext]_lifeVars
  PROVE  \/ UNCHANGED <<rows, next>>
         \/ JobApply
         \/ \E c \in Calls : Writes(c)
         \/ \E c \in Calls, hard \in {{}, HardCandidates} : RunForgetting(c, SoftCandidates, hard)
<1>1. ASSUME NEW c \in Calls, ForgetPreflight(c) \/ ForgetFinish(c)
      PROVE  \/ UNCHANGED <<rows, next>>
             \/ \E hard \in {{}, HardCandidates} : RunForgetting(c, SoftCandidates, hard)
  BY <1>1 DEF ForgetPreflight, ForgetFinish, Local
<1>2. CASE GatewayCrash \/ JobRead \/ UNCHANGED lifeVars
  BY <1>2 DEF GatewayCrash, JobRead, ForgetRead, CleanupRead, RollbackRead, PromoteRead, Read,
     JobLocals, lifeVars
<1>3. ASSUME NEW c \in Calls, GatewayNext(c), ~Writes(c), ~ForgetPreflight(c), ~ForgetFinish(c)
      PROVE  UNCHANGED <<rows, next>>
  <2>1. ASSUME NEW k, NEW j, NEW md, NEW say, Start(c, k, j, md, say) PROVE UNCHANGED <<rows, next>>
    BY <2>1 DEF Start, Local
  <2>2. CASE MemoryCompact(c) \/ UpdateResolve(c) \/ Mirror(c)
    BY <2>2 DEF MemoryCompact, UpdateResolve, Mirror, Local
  <2>3. ASSUME NEW j \in Ids, CompactNext(c, j) \/ ForgetVector(c, j) PROVE UNCHANGED <<rows, next>>
    BY <2>3 DEF CompactNext, ForgetVector, Local
  <2>4. ASSUME NEW j \in Ids,
               MemoryArchive(c, j) \/ MemoryPromote(c, j) \/ MemoryForget(c, j) \/ HandleSupport(c, j)
        PROVE  UNCHANGED <<rows, next>>
    BY <2>1, <2>4 DEF MemoryArchive, MemoryPromote, MemoryForget, HandleSupport
  <2>5. ASSUME NEW j \in Ids, NEW t \in Texts,
               MemoryUpdate(c, j, t) \/ HandleMerge(c, j, t) \/ HandleContradict(c, j, t)
        PROVE  UNCHANGED <<rows, next>>
    BY <2>1, <2>5 DEF MemoryUpdate, HandleMerge, HandleContradict
  <2>6. ASSUME NEW j \in Ids, NEW t \in Texts, HandleSupersede(c, j, t) PROVE UNCHANGED <<rows, next>>
    BY <2>6 DEF HandleSupersede, Local
  <2>7. ASSUME NEW t \in Texts, StoreMemory(c, t) PROVE UNCHANGED <<rows, next>>
    BY <2>7 DEF StoreMemory, Local
  <2> QED  BY <1>3, <2>2, <2>3, <2>4, <2>5, <2>6, <2>7 DEF GatewayNext, Writes
<1> QED  BY <1>1, <1>2, <1>3 DEF LifecycleNext

LEMMA GoneStep ==
  ASSUME LifecycleInv, [LifecycleNext]_lifeVars, ~bypassed, NEW i \in Ids, i < next, rows[i] = Absent
  PROVE  rows'[i] = Absent
<1>1. /\ rows \in [Ids -> Row] /\ i \notin Present /\ i \notin Active /\ rows[i].st = "absent"
      /\ next \in Nat /\ i \in Nat
  BY RowFact, IdsFact, LifecycleAssumption DEF LifecycleInv, LifecycleTypeOK, Present, Active
<1>2. CASE UNCHANGED rows
  BY <1>2
<1>3. ASSUME NEW c \in Calls, UpdateCommit(c) PROVE rows'[i] = Absent
  <2>1. call[c].pc = "held" /\ rows[call[c].id].st # "absent"
    BY <1>3 DEF UpdateCommit, LifecycleInv, HeldIsFresh
  <2>2. call[c].id # i
    BY <1>1, <2>1
  <2> QED  BY <1>1, <1>3, <2>2 DEF UpdateCommit, Write
<1>4. ASSUME NEW c \in Calls, SupersedeCommit(c) PROVE rows'[i] = Absent
  BY <1>1, <1>4 DEF SupersedeCommit, Write
<1>5. ASSUME NEW c \in Calls, StoreCommit(c) PROVE rows'[i] = Absent
  BY <1>1, <1>5 DEF StoreCommit, Write
<1>6. ASSUME NEW c \in Calls, DeleteCommit(c) \/ Compensate(c) PROVE rows'[i] = Absent
  BY <1>1, <1>6 DEF DeleteCommit, Compensate
<1>7. \A soft, hard : Forgotten(soft, hard)[i] = Absent
  BY <1>1 DEF Forgotten
<1>8. ASSUME NEW c \in Calls, NEW soft, NEW hard, RunForgetting(c, soft, hard) PROVE rows'[i] = Absent
  BY <1>7, <1>8 DEF RunForgetting
<1>9. CASE JobApply
  <2>1. CASE ForgetApply
    BY <1>7, <2>1 DEF ForgetApply, Commit
  <2>2. CASE CleanupApply
    BY <1>1, <2>2 DEF CleanupApply, Commit
  <2>3. CASE RollbackApply
    BY <1>1, <2>3 DEF RollbackApply, Commit, Restorable
  <2>4. CASE PromoteApply
    BY <1>1, <2>4 DEF PromoteApply, Commit, StillCandidate
  <2> QED  BY <1>9, <2>1, <2>2, <2>3, <2>4 DEF JobApply
<1> QED
  BY <1>2, <1>3, <1>4, <1>5, <1>6, <1>8, <1>9, RowsMove DEF Writes

(* A deleted id stays deleted under any interleaving of updates, merges,       *)
(* mirrors, jobs and crashes, unless a job purged the row of a held call       *)
(* (the lookup under the lock in store.ts).                                    *)
THEOREM DeletedIsGone == LifecycleSpec => DeletedStaysGone
<1>1. LifecycleInv /\ [LifecycleNext]_lifeVars =>
        [\A i \in Ids : i < next /\ rows[i] = Absent /\ rows'[i] # Absent => bypassed]_lifeVars
  BY GoneStep
<1> QED
  BY <1>1, LifecycleInvInit, LifecycleInvStep, PTL DEF LifecycleSpec, DeletedStaysGone

LEMMA CallFrame ==
  ASSUME NEW d \in Calls, GatewayNext(d)
  PROVE  \E l : call' = [call EXCEPT ![d] = l]
<1>1. ASSUME NEW l, Local(d, l) PROVE \E m : call' = [call EXCEPT ![d] = m]
  BY <1>1 DEF Local
<1>2. ASSUME NEW k, NEW j, NEW md, NEW say, Start(d, k, j, md, say)
      PROVE  \E m : call' = [call EXCEPT ![d] = m]
  BY <1>2 DEF Start, Local
<1>3. CASE \/ UpdateCommit(d) \/ SupersedeCommit(d) \/ DeleteCommit(d) \/ StoreCommit(d)
           \/ Mirror(d) \/ Compensate(d) \/ ForgetFinish(d)
  BY <1>3 DEF UpdateCommit, SupersedeCommit, DeleteCommit, StoreCommit, Mirror, Compensate,
     ForgetFinish, RunForgetting, Write
<1>4. CASE MemoryCompact(d) \/ ForgetPreflight(d)
  BY <1>4 DEF MemoryCompact, ForgetPreflight, RunForgetting, Local
<1>5. CASE UpdateResolve(d)
  BY <1>5 DEF UpdateResolve, Local
<1>6. ASSUME NEW i \in Ids,
             \/ MemoryArchive(d, i) \/ MemoryPromote(d, i) \/ MemoryForget(d, i) \/ HandleSupport(d, i)
             \/ CompactNext(d, i) \/ ForgetVector(d, i)
      PROVE  \E m : call' = [call EXCEPT ![d] = m]
  BY <1>1, <1>2, <1>6
     DEF MemoryArchive, MemoryPromote, MemoryForget, HandleSupport, CompactNext, ForgetVector
<1>7. ASSUME NEW i \in Ids, NEW t \in Texts,
             \/ MemoryUpdate(d, i, t) \/ HandleMerge(d, i, t) \/ HandleContradict(d, i, t)
             \/ HandleSupersede(d, i, t)
      PROVE  \E m : call' = [call EXCEPT ![d] = m]
  BY <1>1, <1>2, <1>7 DEF MemoryUpdate, HandleMerge, HandleContradict, HandleSupersede
<1>8. ASSUME NEW t \in Texts, StoreMemory(d, t) PROVE \E m : call' = [call EXCEPT ![d] = m]
  BY <1>1, <1>8 DEF StoreMemory
<1> QED  BY <1>3, <1>4, <1>5, <1>6, <1>7, <1>8 DEF GatewayNext

LEMMA MirrorStep ==
  ASSUME LifecycleInv, [LifecycleNext]_lifeVars, NEW c \in Calls,
         call[c].pc \in {"stored", "undoing"}, call'[c].pc = "done"
  PROVE  call[c].id \in v2' \/ rows'[call[c].id] = Absent \/ call[c].id \in orphans'
<1>1. /\ call \in [Calls -> Call] /\ call[c].id \in Ids /\ rows \in [Ids -> Row]
      /\ [call[c] EXCEPT !.pc = "undoing"].pc = "undoing"
  BY ReadFact DEF LifecycleInv, LifecycleTypeOK, Call
<1>2. call'[c] # call[c]
  OBVIOUS
<1>3. CASE GatewayCrash
  BY <1>1, <1>3 DEF GatewayCrash
<1>4. CASE JobRead \/ JobApply \/ UNCHANGED lifeVars
  BY <1>2, <1>4 DEF JobRead, JobApply, ForgetRead, CleanupRead, RollbackRead, PromoteRead, ForgetApply,
     CleanupApply, RollbackApply, PromoteApply, Read, Commit, JobLocals, lifeVars
<1>5. ASSUME NEW d \in Calls, GatewayNext(d) PROVE d = c
  BY <1>1, <1>2, <1>5, CallFrame
<1>6. CASE GatewayNext(c)
  <2>1. CASE Mirror(c)
    BY <1>1, <2>1 DEF Mirror
  <2>2. CASE Compensate(c)
    BY <1>1, <2>2 DEF Compensate
  <2>3. Mirror(c) \/ Compensate(c)
    BY <1>6 DEF GatewayNext, MemoryCompact, UpdateResolve, UpdateCommit, SupersedeCommit, DeleteCommit,
       StoreCommit, ForgetPreflight, ForgetFinish, Start, MemoryArchive, MemoryPromote, MemoryForget,
       HandleSupport, CompactNext, ForgetVector, StoreMemory, MemoryUpdate, HandleMerge,
       HandleContradict, HandleSupersede
  <2> QED  BY <2>1, <2>2, <2>3
<1> QED  BY <1>3, <1>4, <1>5, <1>6 DEF LifecycleNext

(* memory_store ends with its row in V1 and V2 or in neither, whatever runs    *)
(* beside it, but for a compensating delete that failed or a gateway that died *)
(* in between (memory-write-tools.ts).                                         *)
THEOREM StoresAreMirrored == LifecycleSpec => MirroredOrUndone
<1>1. LifecycleInv /\ [LifecycleNext]_lifeVars =>
        [\A c \in Calls : call[c].pc \in {"stored", "undoing"} /\ call'[c].pc = "done" =>
           LET i == call[c].id IN i \in v2' \/ rows'[i] = Absent \/ i \in orphans']_lifeVars
  BY MirrorStep
<1> QED
  BY <1>1, LifecycleInvInit, LifecycleInvStep, PTL DEF LifecycleSpec, MirroredOrUndone

-----------------------------------------------------------------------------
(* What is archived *)

Reads == {"merge", "support", "contradict", "supersede"}
Working(l) == l.pc \in {"ready", "held"} \/ (l.pc = "storing" /\ l.kind = "supersede")

(* What a call will write has the status of the row it read, is archived, or,  *)
(* for those that keep what they resolve, has the status the row still has.    *)
Fits(l, n, r, b) ==
    /\ Working(l) => /\ l.kind \in Reads \cup {"archive", "compact", "promote", "edit", "revise", "delete"}
                     /\ l.id < n
                     /\ l.kind \in Reads => l.md.st = l.seen.st
                     /\ l.kind \in {"archive", "compact"} => l.md.st = "archived"
    /\ l.pc = "held" /\ l.kind \in {"edit", "revise"} /\ ~b => l.md.st = r[l.id].st
    /\ l.pc = "held" => l.kind # "delete"
    /\ l.pc = "planned" => l.kind = "compact"

FitsNow(l) == Fits(l, next, rows, bypassed)
FitsNext(l) == Fits(l, next', rows', bypassed')

UnusedAreAbsent == \A i \in Ids : i >= next => rows[i] = Absent

RevivalInv ==
    /\ UnusedAreAbsent
    /\ \A c \in Calls : FitsNow(call[c])

LEMMA RevivalInvInit == LifecycleInit => RevivalInv
<1> SUFFICES ASSUME LifecycleInit PROVE RevivalInv
  OBVIOUS
<1>1. \A i \in Ids : i \in Nat
  BY IdsFact
<1>2. UnusedAreAbsent
  BY <1>1, LifecycleAssumption DEF LifecycleInit, UnusedAreAbsent
<1> QED  BY <1>2, IdleFact DEF LifecycleInit, RevivalInv, FitsNow, Fits, Working

LEMMA PresentFact ==
  ASSUME LifecycleInv, RevivalInv, NEW i \in Present
  PROVE  i \in Ids /\ i < next
BY RowFact, IdsFact DEF LifecycleInv, LifecycleTypeOK, RevivalInv, UnusedAreAbsent, Present

(* Transactions outside the lock: what they leave absent and archived.         *)
Leaves ==
    \A i \in Ids :
        /\ rows[i] = Absent => rows'[i] = Absent
        /\ rows[i].st = "archived" /\ rows'[i].st \in {"candidate", "live"} =>
              job.kind = "rollback" /\ job' = NoJob /\ rows[i].tag = job.batch

LEMMA ForgottenLeaves ==
  ASSUME LifecycleInv, NEW soft, NEW hard, rows' = Forgotten(soft, hard) \/ rows' = rows
  PROVE  Leaves
BY RowFact DEF LifecycleInv, LifecycleTypeOK, Forgotten, Active, Leaves

LEMMA JobLeaves ==
  ASSUME LifecycleInv, JobApply
  PROVE  Leaves
<1>1. rows \in [Ids -> Row] /\ Absent.st = "absent"
  BY RowFact DEF LifecycleInv, LifecycleTypeOK
<1>2. CASE ForgetApply
  BY <1>2, ForgottenLeaves DEF ForgetApply, Commit
<1>3. CASE CleanupApply
  BY <1>1, <1>3 DEF CleanupApply, Commit, Leaves, Active
<1>4. CASE RollbackApply
  BY <1>1, <1>4 DEF RollbackApply, Commit, Restorable, Present, Leaves
<1>5. CASE PromoteApply
  BY <1>1, <1>5 DEF PromoteApply, Commit, StillCandidate, Leaves
<1> QED  BY <1>2, <1>3, <1>4, <1>5 DEF JobApply

LEMMA TableStep ==
  ASSUME LifecycleInv, [LifecycleNext]_lifeVars
  PROVE  \/ UNCHANGED <<rows, next>>
         \/ Leaves /\ next' = next
         \/ \E c \in Calls : Writes(c)
<1>1. CASE JobApply
  <2>1. next' = next
    BY <1>1 DEF JobApply, ForgetApply, CleanupApply, RollbackApply, PromoteApply, Commit, JobLocals
  <2> QED  BY <1>1, <2>1, JobLeaves
<1>2. ASSUME NEW c \in Calls, NEW soft, NEW hard, RunForgetting(c, soft, hard)
      PROVE  Leaves /\ next' = next
  BY <1>2, ForgottenLeaves DEF RunForgetting
<1> QED  BY <1>1, <1>2, RowsMove

LEMMA UnusedStep ==
  ASSUME LifecycleInv, RevivalInv, [LifecycleNext]_lifeVars
  PROVE  UnusedAreAbsent' /\ next' \in Nat /\ next \in Nat /\ next <= next'
<1>1. /\ next \in Nat /\ rows \in [Ids -> Row] /\ \A i \in Ids : i \in Nat
      /\ \A i \in Ids : i >= next => rows[i] = Absent
  BY IdsFact, LifecycleAssumption DEF LifecycleInv, LifecycleTypeOK, RevivalInv, UnusedAreAbsent
<1>2. CASE UNCHANGED <<rows, next>>
  BY <1>1, <1>2 DEF UnusedAreAbsent
<1>3. CASE Leaves /\ next' = next
  BY <1>1, <1>3 DEF Leaves, UnusedAreAbsent
<1>4. ASSUME NEW c \in Calls, Writes(c)
      PROVE  UnusedAreAbsent' /\ next' \in Nat /\ next <= next'
  <2> DEFINE l == call[c]
  <2>1. l.pc \in {"held", "ready"} => l.id < next
    BY <1>4 DEF RevivalInv, FitsNow, Fits, Working
  <2>2. l.id \in Ids /\ l.id \in Nat
    BY <1>1, <1>4, ReadFact
  <2>3. CASE UpdateCommit(c)
    <3>1. next' = next /\ (rows' = rows \/ rows' = [rows EXCEPT ![l.id] = l.md]) /\ l.id < next
      BY <2>1, <2>3 DEF UpdateCommit, Write
    <3> QED  BY <1>1, <2>2, <3>1 DEF UnusedAreAbsent
  <2>4. CASE SupersedeCommit(c)
    <3>1. /\ next' = next + 1 /\ l.id < next
          /\ rows' = rows \/ \E r : rows' = [rows EXCEPT ![l.id] = l.md, ![next] = r]
      BY <2>1, <2>4 DEF SupersedeCommit, Write
    <3> QED  BY <1>1, <2>2, <3>1 DEF UnusedAreAbsent
  <2>5. CASE StoreCommit(c)
    <3>1. next' = next + 1 /\ (rows' = rows \/ rows' = [rows EXCEPT ![next] = Stored(l)])
      BY <2>5 DEF StoreCommit, Write
    <3> QED  BY <1>1, <3>1 DEF UnusedAreAbsent
  <2>6. CASE DeleteCommit(c) \/ Compensate(c)
    <3>1. next' = next /\ (rows' = rows \/ rows' = [rows EXCEPT ![l.id] = Absent])
      BY <2>6 DEF DeleteCommit, Compensate
    <3> QED  BY <1>1, <2>2, <3>1 DEF UnusedAreAbsent
  <2> QED  BY <1>4, <2>3, <2>4, <2>5, <2>6 DEF Writes
<1> QED  BY <1>1, <1>2, <1>3, <1>4, TableStep

(* What a call carries after a step of its own.                                *)
LEMMA QuietCopy ==
  ASSUME NEW l, ~Working(l), l.pc # "planned", l.pc # "held"
  PROVE  FitsNext(l)
BY DEF FitsNow, FitsNext, Fits, Working

LEMMA ReadyCopy ==
  ASSUME LifecycleInv, RevivalInv, [LifecycleNext]_lifeVars, NEW l, l.pc = "ready", l.id \in Ids,
         l.id < next,
         l.kind \in Reads \cup {"archive", "compact", "promote", "edit", "revise", "delete"},
         l.kind \in Reads => l.md.st = l.seen.st,
         l.kind \in {"archive", "compact"} => l.md.st = "archived"
  PROVE  FitsNext(l)
<1>1. next \in Nat /\ next' \in Nat /\ next <= next' /\ l.id \in Nat
  BY UnusedStep, IdsFact
<1>2. l.id < next'
  BY <1>1
<1> QED  BY <1>2 DEF FitsNext, Fits, Working

LEMMA StartCopy ==
  ASSUME LifecycleInv, RevivalInv, [LifecycleNext]_lifeVars, NEW c \in Calls,
         NEW k \in Reads \cup {"archive", "promote", "edit", "revise", "delete"}, NEW i \in Ids,
         NEW md \in Row, NEW say, Start(c, k, i, md, say),
         k \in Reads => md.st = rows[i].st, k = "archive" => md.st = "archived"
  PROVE  FitsNext(call'[c])
<1> DEFINE l == [Idle EXCEPT !.kind = k, !.pc = "ready", !.id = i,
                             !.seen = rows[i], !.md = md, !.say = say]
<1>1. call'[c] = l /\ i < next
  BY PresentFact DEF Start, Local, LifecycleInv, LifecycleTypeOK
<1>2. l.kind = k /\ l.pc = "ready" /\ l.id = i /\ l.seen = rows[i] /\ l.md = md
  BY DEF Idle
<1> HIDE DEF l
<1>3. FitsNext(l)
  BY <1>1, <1>2, ReadyCopy DEF Reads
<1> QED  BY <1>1, <1>3

LEMMA DoneCopy == FitsNext(Done) /\ FitsNext(Idle)
<1>1. Done.pc = "done" /\ Idle.pc = "idle"
  BY IdleFact
<1> QED  BY <1>1, QuietCopy DEF Working

LEMMA AfterCopy ==
  ASSUME LifecycleInv, NEW c \in Calls, call[c].kind # "supersede" \/ call[c].pc # "storing",
         NEW l, l = After(call[c])
  PROVE  FitsNext(l)
<1> DEFINE m == call[c]
           planned == [m EXCEPT !.pc = "planned"]
           storing == [m EXCEPT !.pc = "storing"]
<1>1. m \in Call
  BY ReadFact
<1>2. /\ planned.pc = "planned" /\ planned.kind = m.kind
      /\ storing.pc = "storing" /\ storing.kind = m.kind
  BY <1>1 DEF Call
<1>3. \/ l = planned /\ m.kind = "compact"
      \/ l = storing /\ m.kind = "contradict"
      \/ l = Done
  BY DEF After
<1> HIDE DEF planned, storing
<1> QED  BY <1>2, <1>3, DoneCopy DEF FitsNow, FitsNext, Fits, Working

LEMMA ResolveCopy ==
  ASSUME LifecycleInv, RevivalInv, [LifecycleNext]_lifeVars, NEW c \in Calls, UpdateResolve(c)
  PROVE  FitsNext(call'[c])
<1> DEFINE l == call[c]
           row == rows[l.id]
           md == CASE l.kind = "edit" -> [row EXCEPT !.text = l.say]
                   [] l.kind = "merge" -> [l.md EXCEPT !.text = l.say]
                   [] l.kind = "revise" -> [row EXCEPT !.cur = FALSE]
                   [] OTHER -> [l.md EXCEPT !.text = row.text]
           held == [l EXCEPT !.pc = "held", !.md = md]
<1>1. /\ l \in Call /\ l.id \in Ids /\ l.md \in Row /\ row \in Row /\ l.pc = "ready"
      /\ l.kind # "delete" /\ call \in [Calls -> Call] /\ FitsNow(l)
  BY ReadFact DEF UpdateResolve, LifecycleInv, LifecycleTypeOK, RevivalInv
<1>2. /\ l.kind \in Reads \cup {"archive", "compact", "promote", "edit", "revise", "delete"}
      /\ l.id < next /\ (l.kind \in Reads => l.md.st = l.seen.st)
      /\ l.kind \in {"archive", "compact"} => l.md.st = "archived"
  BY <1>1 DEF FitsNow, Fits, Working
<1>3. CASE Found(l) /\ ~Conflict(l)
  <2>1. call' = [call EXCEPT ![c] = held] /\ UNCHANGED <<rows, next>>
    BY <1>3 DEF UpdateResolve
  <2>2. md.st = IF l.kind \in {"edit", "revise"} THEN row.st ELSE l.md.st
    <3>1. /\ [row EXCEPT !.text = l.say].st = row.st /\ [l.md EXCEPT !.text = l.say].st = l.md.st
          /\ [row EXCEPT !.cur = FALSE].st = row.st /\ [l.md EXCEPT !.text = row.text].st = l.md.st
      BY <1>1 DEF Row
    <3> QED  BY <3>1
  <2> HIDE DEF md
  <2>3. /\ held.pc = "held" /\ held.kind = l.kind /\ held.id = l.id /\ held.seen = l.seen
        /\ held.md = md
    BY <1>1 DEF Call
  <2>4. call'[c] = held
    BY <1>1, <2>1
  <2> HIDE DEF held
  <2>5. FitsNext(held)
    BY <1>1, <1>2, <2>1, <2>2, <2>3 DEF FitsNext, Fits, Working, Reads
  <2> QED  BY <2>4, <2>5
<1>4. CASE ~(Found(l) /\ ~Conflict(l))
  <2>1. call'[c] = IF l.kind = "merge" THEN MergeAgain(l) ELSE After(l)
    BY <1>1, <1>4 DEF UpdateResolve, Local
  <2>2. CASE l.kind # "merge"
    <3>1. FitsNext(call'[c])
      BY <1>1, <2>1, <2>2, AfterCopy
    <3> QED  BY <3>1
  <2>3. CASE l.kind = "merge"
    <3> DEFINE storing == [l EXCEPT !.pc = "storing"]
               again == [l EXCEPT !.bad = TRUE, !.seen = row, !.md = row]
    <3>1. /\ storing.pc = "storing" /\ storing.kind = "merge"
          /\ again.pc = "ready" /\ again.kind = "merge" /\ again.id = l.id
          /\ again.seen = row /\ again.md = row
      BY <1>1, <2>3 DEF Call
    <3>2. call'[c] = storing \/ call'[c] = again
      BY <2>1, <2>3 DEF MergeAgain
    <3> HIDE DEF storing, again
    <3>3. FitsNext(storing)
      BY <3>1, QuietCopy DEF Working
    <3>4. FitsNext(again)
      BY <1>1, <1>2, <3>1, ReadyCopy DEF Reads
    <3> QED  BY <3>2, <3>3, <3>4
  <2> QED  BY <2>2, <2>3
<1> QED  BY <1>3, <1>4

LEMMA OwnCopy ==
  ASSUME LifecycleInv, RevivalInv, [LifecycleNext]_lifeVars, NEW c \in Calls, GatewayNext(c)
  PROVE  FitsNext(call'[c])
<1>1. /\ call \in [Calls -> Call] /\ call[c] \in Call /\ FitsNow(call[c]) /\ rows \in [Ids -> Row]
      /\ next \in Nat /\ next' \in Nat /\ next <= next' /\ call[c].id \in Nat
  BY ReadFact, UnusedStep, IdsFact DEF LifecycleInv, LifecycleTypeOK, RevivalInv
<1>2. CASE SupersedeCommit(c) \/ DeleteCommit(c)
  BY <1>1, <1>2, DoneCopy DEF SupersedeCommit, DeleteCommit, Write
<1>3. CASE UpdateCommit(c)
  <2>1. call[c].pc # "storing" /\ (call'[c] = Done \/ call'[c] = After(call[c]))
    BY <1>1, <1>3 DEF UpdateCommit, Write
  <2> QED  BY <2>1, DoneCopy, AfterCopy
<1>4. CASE StoreCommit(c)
  <2> DEFINE l == call[c]
             stored == [l EXCEPT !.pc = "stored", !.id = next]
             ready == [l EXCEPT !.pc = "ready"]
  <2>1. l.pc = "storing"
        /\ (call'[c] = Done \/ call'[c] = stored \/ (call'[c] = ready /\ l.kind = "supersede"))
    BY <1>1, <1>4 DEF StoreCommit, Write
  <2>2. /\ stored.pc = "stored" /\ ready.pc = "ready" /\ ready.kind = l.kind /\ ready.id = l.id
        /\ ready.md = l.md /\ ready.seen = l.seen
    BY <1>1 DEF Call
  <2>3. l.kind = "supersede" => l.id < next /\ l.md.st = l.seen.st /\ l.id \in Ids
    BY <1>1, <2>1, ReadFact DEF FitsNow, Fits, Working, Reads
  <2> HIDE DEF stored, ready
  <2>4. FitsNext(stored)
    BY <2>2, QuietCopy DEF Working
  <2>5. l.kind = "supersede" => FitsNext(ready)
    BY <2>2, <2>3, ReadyCopy DEF Reads
  <2> QED  BY <2>1, <2>4, <2>5, DoneCopy
<1>5. CASE Mirror(c) \/ Compensate(c) \/ ForgetFinish(c)
  <2> DEFINE undoing == [call[c] EXCEPT !.pc = "undoing"]
  <2>1. undoing.pc = "undoing" /\ (call'[c] = Done \/ call'[c] = undoing)
    BY <1>1, <1>5 DEF Call, Mirror, Compensate, ForgetFinish, RunForgetting
  <2> HIDE DEF undoing
  <2> QED  BY <2>1, DoneCopy, QuietCopy DEF Working
<1>6. CASE ForgetPreflight(c)
  <2> DEFINE l == [Idle EXCEPT !.kind = "forget", !.pc = "vectors", !.todo = HardCandidates]
  <2>1. l.pc = "vectors" /\ (call'[c] = Done \/ call'[c] = l)
    BY <1>1, <1>6 DEF Idle, ForgetPreflight, RunForgetting, Local
  <2> HIDE DEF l
  <2> QED  BY <2>1, DoneCopy, QuietCopy DEF Working
<1>7. CASE UpdateResolve(c)
  BY <1>7, ResolveCopy
<1>8. CASE MemoryCompact(c)
  <2>1. call'[c].pc = "planned" /\ call'[c].kind = "compact"
    BY <1>1, <1>8 DEF MemoryCompact, Local, Idle
  <2> QED  BY <2>1 DEF FitsNext, Fits, Working
<1>9. ASSUME NEW i \in Ids, CompactNext(c, i) PROVE FitsNext(call'[c])
  <2> DEFINE l == call[c]
             rest == l.todo \ {i}
             md == [rows[i] EXCEPT !.st = "archived"]
             ready == [l EXCEPT !.pc = "ready", !.id = i, !.todo = rest, !.seen = rows[i], !.md = md]
             skipped == [l EXCEPT !.todo = rest]
  <2>1. l.pc = "planned" /\ l.kind = "compact"
    BY <1>1, <1>9 DEF CompactNext, FitsNow, Fits
  <2>2. \/ i \in Present /\ call'[c] = ready
        \/ call'[c] = Done
        \/ call'[c] = skipped
    BY <1>1, <1>9 DEF CompactNext, Local
  <2>3. md.st = "archived"
    BY <1>1 DEF Row
  <2> HIDE DEF md
  <2>4. /\ ready.pc = "ready" /\ ready.kind = "compact" /\ ready.id = i /\ ready.md = md
        /\ skipped.pc = "planned" /\ skipped.kind = "compact"
    BY <1>1, <2>1 DEF Call
  <2> HIDE DEF ready, skipped
  <2>5. i \in Present => FitsNext(ready)
    BY <2>3, <2>4, PresentFact, ReadyCopy DEF Reads
  <2>6. FitsNext(skipped)
    BY <2>4 DEF FitsNext, Fits, Working
  <2> QED  BY <2>2, <2>5, <2>6, DoneCopy
<1>10. ASSUME NEW i \in Ids, ForgetVector(c, i) PROVE FitsNext(call'[c])
  <2> DEFINE l == [call[c] EXCEPT !.todo = @ \ {i}]
             failed == [l EXCEPT !.bad = TRUE]
  <2>1. call[c].pc = "vectors" /\ (call'[c] = l \/ call'[c] = failed)
    BY <1>1, <1>10 DEF ForgetVector
  <2>2. l.pc = "vectors" /\ failed.pc = "vectors"
    BY <1>1, <2>1 DEF Call
  <2> HIDE DEF l, failed
  <2>3. call'[c].pc = "vectors"
    BY <2>1, <2>2
  <2> QED  BY <2>3, QuietCopy DEF Working
<1>11. ASSUME NEW i \in Ids,
              MemoryArchive(c, i) \/ MemoryPromote(c, i) \/ MemoryForget(c, i) \/ HandleSupport(c, i)
       PROVE  FitsNext(call'[c])
  <2>1. /\ rows[i] \in Row /\ [rows[i] EXCEPT !.st = "archived"] \in Row
        /\ [rows[i] EXCEPT !.st = "archived"].st = "archived"
        /\ [rows[i] EXCEPT !.st = "live"] \in Row
    BY <1>1 DEF Row, States
  <2>2. CASE MemoryArchive(c, i)
    BY <2>1, <2>2, StartCopy DEF MemoryArchive, Reads
  <2>3. CASE MemoryPromote(c, i)
    BY <2>1, <2>3, StartCopy DEF MemoryPromote, Reads
  <2>4. CASE MemoryForget(c, i)
    BY <2>1, <2>4, StartCopy DEF MemoryForget, Reads
  <2>5. CASE HandleSupport(c, i)
    BY <2>1, <2>5, StartCopy DEF HandleSupport, Reads
  <2> QED  BY <1>11, <2>2, <2>3, <2>4, <2>5
<1>12. ASSUME NEW i \in Ids, NEW t \in Texts,
              MemoryUpdate(c, i, t) \/ HandleMerge(c, i, t) \/ HandleContradict(c, i, t)
       PROVE  FitsNext(call'[c])
  <2>1. rows[i] \in Row
    BY <1>1
  <2>2. CASE MemoryUpdate(c, i, t)
    BY <2>1, <2>2, StartCopy DEF MemoryUpdate, Reads
  <2>3. CASE HandleMerge(c, i, t)
    BY <2>1, <2>3, StartCopy DEF HandleMerge, Reads
  <2>4. CASE HandleContradict(c, i, t)
    BY <2>1, <2>4, StartCopy DEF HandleContradict, Reads
  <2> QED  BY <1>12, <2>2, <2>3, <2>4
<1>13. ASSUME NEW i \in Ids, NEW t \in Texts, HandleSupersede(c, i, t) PROVE FitsNext(call'[c])
  <2> DEFINE md == [rows[i] EXCEPT !.cur = FALSE]
             l == [Idle EXCEPT !.kind = "supersede", !.pc = "storing", !.id = i, !.say = t,
                               !.seen = rows[i], !.md = md]
  <2>1. call'[c] = l /\ i \in Present /\ UNCHANGED next
    BY <1>1, <1>13 DEF HandleSupersede, Local
  <2>2. md.st = rows[i].st
    BY <1>1 DEF Row
  <2> HIDE DEF md
  <2>3. /\ l.pc = "storing" /\ l.kind = "supersede" /\ l.id = i /\ l.seen = rows[i] /\ l.md = md
    BY DEF Idle
  <2> HIDE DEF l
  <2>4. i < next'
    BY <2>1, PresentFact
  <2> QED  BY <2>1, <2>2, <2>3, <2>4 DEF FitsNext, Fits, Working, Reads
<1>14. ASSUME NEW t \in Texts, StoreMemory(c, t) PROVE FitsNext(call'[c])
  <2>1. call'[c].pc = "storing" /\ call'[c].kind = "store"
    BY <1>1, <1>14 DEF StoreMemory, Local, Idle
  <2> QED  BY <2>1 DEF FitsNext, Fits, Working
<1> QED
  BY <1>2, <1>3, <1>4, <1>5, <1>6, <1>7, <1>8, <1>9, <1>10, <1>11, <1>12, <1>13, <1>14 DEF GatewayNext

(* While a call is inside the lock, only what goes round it changes the table. *)
LEMMA HeldFrame ==
  ASSUME LifecycleInv, [LifecycleNext]_lifeVars, NEW c \in Calls, lock = c, lock' = c
  PROVE  UNCHANGED <<rows, bypassed>> \/ bypassed'
<1>1. /\ c # NoCall /\ call[c].pc = "held"
      /\ \A d \in Calls : call[d].pc = "held" => d = c
  BY RowFact DEF LifecycleInv, LifecycleTypeOK
<1>2. CASE GatewayCrash \/ JobRead \/ UNCHANGED lifeVars
  BY <1>1, <1>2 DEF GatewayCrash, JobRead, ForgetRead, CleanupRead, RollbackRead, PromoteRead, Read,
     JobLocals, lifeVars
<1>3. CASE JobApply
  BY <1>1, <1>3 DEF JobApply, ForgetApply, CleanupApply, RollbackApply, PromoteApply, Commit, Bypass
<1>4. ASSUME NEW d \in Calls, GatewayNext(d) PROVE UNCHANGED <<rows, bypassed>> \/ bypassed'
  <2>1. CASE UpdateCommit(d) \/ SupersedeCommit(d) \/ StoreCommit(d) \/ DeleteCommit(d) \/ Compensate(d)
    BY <1>1, <2>1 DEF UpdateCommit, SupersedeCommit, StoreCommit, DeleteCommit, Compensate, LockFree
  <2>2. CASE ForgetPreflight(d) \/ ForgetFinish(d)
    BY <1>1, <2>2 DEF ForgetPreflight, ForgetFinish, RunForgetting, Bypass, Local
  <2>3. CASE MemoryCompact(d) \/ UpdateResolve(d) \/ Mirror(d)
    BY <1>1, <2>3 DEF MemoryCompact, UpdateResolve, LockFree, Mirror, Local
  <2>4. ASSUME NEW k, NEW j, NEW md, NEW say, Start(d, k, j, md, say) PROVE UNCHANGED <<rows, bypassed>>
    BY <2>4 DEF Start, Local
  <2>5. ASSUME NEW j \in Ids, CompactNext(d, j) \/ ForgetVector(d, j) PROVE UNCHANGED <<rows, bypassed>>
    BY <2>5 DEF CompactNext, ForgetVector, Local
  <2>6. ASSUME NEW j \in Ids,
               MemoryArchive(d, j) \/ MemoryPromote(d, j) \/ MemoryForget(d, j) \/ HandleSupport(d, j)
        PROVE  UNCHANGED <<rows, bypassed>>
    BY <2>4, <2>6 DEF MemoryArchive, MemoryPromote, MemoryForget, HandleSupport
  <2>7. ASSUME NEW j \in Ids, NEW t \in Texts,
               MemoryUpdate(d, j, t) \/ HandleMerge(d, j, t) \/ HandleContradict(d, j, t)
        PROVE  UNCHANGED <<rows, bypassed>>
    BY <2>4, <2>7 DEF MemoryUpdate, HandleMerge, HandleContradict
  <2>8. ASSUME NEW j \in Ids, NEW t \in Texts, HandleSupersede(d, j, t)
        PROVE  UNCHANGED <<rows, bypassed>>
    BY <2>8 DEF HandleSupersede, Local
  <2>9. ASSUME NEW t \in Texts, StoreMemory(d, t) PROVE UNCHANGED <<rows, bypassed>>
    BY <2>9 DEF StoreMemory, Local
  <2> QED  BY <1>4, <2>1, <2>2, <2>3, <2>5, <2>6, <2>7, <2>8, <2>9 DEF GatewayNext
<1> QED  BY <1>2, <1>3, <1>4 DEF LifecycleNext

LEMMA RevivalInvStep ==
  ASSUME LifecycleInv, LifecycleInv', RevivalInv, [LifecycleNext]_lifeVars
  PROVE  RevivalInv'
<1>1. /\ UnusedAreAbsent' /\ next \in Nat /\ next' \in Nat /\ next <= next'
      /\ call \in [Calls -> Call] /\ bypassed' \in BOOLEAN
  BY UnusedStep DEF LifecycleInv, LifecycleTypeOK
<1>2. ASSUME NEW c \in Calls, call'[c] = call[c] PROVE FitsNext(call'[c])
  <2> DEFINE l == call[c]
  <2>1. FitsNow(l) /\ l.id \in Nat
    BY ReadFact, IdsFact DEF RevivalInv
  <2>2. l.pc = "held" => lock = c /\ lock' = c
    BY <1>2 DEF LifecycleInv, LifecycleTypeOK
  <2>3. l.pc = "held" => UNCHANGED <<rows, bypassed>> \/ bypassed'
    BY <2>2, HeldFrame
  <2> QED  BY <1>1, <1>2, <2>1, <2>3 DEF FitsNow, FitsNext, Fits, Working
<1>3. ASSUME NEW c \in Calls PROVE FitsNext(call'[c])
  <2>1. CASE GatewayNext(c)
    BY <2>1, OwnCopy
  <2>2. ASSUME NEW d \in Calls \ {c}, GatewayNext(d) PROVE call'[c] = call[c]
    BY <1>1, <2>2, CallFrame
  <2>3. CASE GatewayCrash
    <3>1. call'[c] = Idle \/ call'[c] = Done
      BY <2>3 DEF GatewayCrash
    <3> QED  BY <3>1, DoneCopy
  <2>4. CASE JobRead \/ JobApply \/ UNCHANGED lifeVars
    <3>1. call' = call
      BY <2>4 DEF JobRead, JobApply, ForgetRead, CleanupRead, RollbackRead, PromoteRead, ForgetApply,
         CleanupApply, RollbackApply, PromoteApply, Read, Commit, JobLocals, lifeVars
    <3> QED  BY <1>2, <3>1
  <2> QED  BY <1>2, <2>1, <2>2, <2>3, <2>4 DEF LifecycleNext
<1> QED  BY <1>1, <1>3 DEF RevivalInv, FitsNow, FitsNext

LEMMA RevivedStep ==
  ASSUME LifecycleInv, RevivalInv, [LifecycleNext]_lifeVars, NEW i \in Ids,
         rows[i].st = "archived", rows'[i].st \in {"candidate", "live"}
  PROVE  \/ job.kind = "rollback" /\ job' = NoJob /\ rows[i].tag = job.batch
         \/ \E c \in Calls : /\ call[c].pc = "held" /\ call[c].id = i
                             /\ call[c].kind = "promote" \/ call[c].seen.st # "archived"
                                \/ bypassed
<1>1. /\ rows \in [Ids -> Row] /\ next \in Nat /\ i \in Nat /\ i # next /\ Absent.st = "absent"
      /\ bypassed \in BOOLEAN
  BY RowFact, IdsFact, LifecycleAssumption
     DEF LifecycleInv, LifecycleTypeOK, RevivalInv, UnusedAreAbsent
<1>2. CASE UNCHANGED <<rows, next>>
  BY <1>2
<1>3. CASE Leaves
  BY <1>3 DEF Leaves
<1>4. ASSUME NEW c \in Calls, UpdateCommit(c) \/ SupersedeCommit(c)
      PROVE  /\ call[c].pc = "held" /\ call[c].id = i
             /\ call[c].kind = "promote" \/ call[c].seen.st # "archived" \/ bypassed
  <2> DEFINE l == call[c]
  <2>1. l.pc = "held" /\ l.id = i /\ rows'[i] = l.md
    BY <1>1, <1>4 DEF UpdateCommit, SupersedeCommit, Write
  <2>2. FitsNow(l)
    BY <1>4 DEF RevivalInv
  <2>3. /\ l.kind \in Reads \cup {"archive", "compact", "promote", "edit", "revise", "delete"}
        /\ l.kind \in Reads => l.md.st = l.seen.st
        /\ l.kind \in {"archive", "compact"} => l.md.st = "archived"
        /\ l.kind \in {"edit", "revise"} /\ ~bypassed => l.md.st = rows[i].st
    BY <2>1, <2>2 DEF FitsNow, Fits, Working
  <2>4. l.kind # "delete"
    BY <2>1, <2>2 DEF FitsNow, Fits
  <2> QED  BY <1>1, <2>1, <2>3, <2>4 DEF Reads
<1>5. ASSUME NEW c \in Calls, StoreCommit(c) \/ DeleteCommit(c) \/ Compensate(c) PROVE FALSE
  BY <1>1, <1>5 DEF StoreCommit, DeleteCommit, Compensate, Write
<1> QED  BY <1>2, <1>3, <1>4, <1>5, TableStep DEF Writes

(* An archived row becomes live again only on purpose: by memory_promote, by   *)
(* the rollback of the batch that archived it, or by a write that read it      *)
(* before it was archived or beside which an operator job committed            *)
(* (candidate-promotion.ts, governance-cleanup.ts, memory-maintenance-tools.ts). *)
THEOREM ArchivedIsRevivedOnPurpose == LifecycleSpec => RevivedOnPurpose
<1>1. LifecycleInv /\ RevivalInv /\ [LifecycleNext]_lifeVars =>
        [\A i \in Ids : rows[i].st = "archived" /\ rows'[i].st \in {"candidate", "live"} =>
          \/ job.kind = "rollback" /\ job' = NoJob /\ rows[i].tag = job.batch
          \/ \E c \in Calls : /\ call[c].pc = "held" /\ call[c].id = i
                              /\ call[c].kind = "promote" \/ call[c].seen.st # "archived"
                                 \/ bypassed]_lifeVars
  BY RevivedStep
<1>2. LifecycleInv /\ RevivalInv /\ [LifecycleNext]_lifeVars => LifecycleInv' /\ RevivalInv'
  BY LifecycleInvStep, RevivalInvStep
<1> QED
  BY <1>1, <1>2, LifecycleInvInit, RevivalInvInit, PTL DEF LifecycleSpec, RevivedOnPurpose

-----------------------------------------------------------------------------
(* What forgetting keeps *)

(* No secret was stored as a version of a temporal fact. *)
SecretsHaveNoKey == \A t \in Secret : KeyOf[t] = NoKey

(* So no secret row carries a fact_key, nor does an older copy of its metadata *)
(* that a rollback or a promotion could give back to it.                       *)
KeylessSecrets ==
    \A i \in Ids : rows[i].text \in Secret =>
        /\ rows[i].key = NoKey
        /\ job.seen[i].key = NoKey
        /\ \A b \in Batches : audit[b][i].key = NoKey

LEMMA KeylessInit == ASSUME SecretsHaveNoKey, LifecycleInit PROVE KeylessSecrets
<1>1. PICK old \in [1..Legacy -> LegacyRows \cup {Absent}] :
         rows = [i \in Ids |-> IF i <= Legacy THEN old[i] ELSE Absent]
  BY DEF LifecycleInit
<1>2. \A i \in Ids : i <= Legacy => i \in 1..Legacy
  BY LifecycleAssumption DEF Ids
<1>3. \A r \in LegacyRows : r.text \in Secret => r.key = NoKey
  BY DEF LegacyRows, SecretsHaveNoKey
<1>4. \A i \in Ids : rows[i].text \in Secret => rows[i].key = NoKey
  BY <1>1, <1>2, <1>3, RowFact
<1>5. \A i \in Ids : job.seen[i].key = NoKey /\ \A b \in Batches : audit[b][i].key = NoKey
  BY RowFact DEF LifecycleInit, NoJob
<1> QED  BY <1>4, <1>5 DEF KeylessSecrets

(* The copies of a row are made of the row. *)
LEMMA CopiesStep ==
  ASSUME LifecycleInv, [LifecycleNext]_lifeVars, NEW i \in Ids
  PROVE  /\ job'.seen[i] \in {job.seen[i], rows[i], Absent}
         /\ \A b \in Batches : audit'[b][i] \in {audit[b][i], rows[i], Absent}
<1>1. CASE UNCHANGED <<job, audit>>
  BY <1>1
<1>2. ASSUME NEW k, NEW ids, NEW b, Read(k, ids, b)
      PROVE  job'.seen[i] = rows[i] /\ audit' = audit
  BY <1>2 DEF Read
<1>3. CASE JobRead
  BY <1>2, <1>3 DEF JobRead, ForgetRead, CleanupRead, RollbackRead, PromoteRead
<1>4. ASSUME NEW k, NEW r, Commit(k, r) PROVE job'.seen[i] = Absent
  BY <1>4 DEF Commit, NoJob
<1>5. CASE ForgetApply \/ RollbackApply \/ PromoteApply
  BY <1>4, <1>5 DEF ForgetApply, RollbackApply, PromoteApply
<1>6. CASE CleanupApply
  <2> DEFINE old == [j \in Ids |-> IF j \in job.ids \cap Active THEN rows[j] ELSE Absent]
  <2>1. audit' = [audit EXCEPT ![job.batch] = old] /\ job'.seen[i] = Absent
    BY <1>4, <1>6 DEF CleanupApply
  <2>2. old[i] \in {rows[i], Absent}
    OBVIOUS
  <2> HIDE DEF old
  <2> QED  BY <2>1, <2>2, JobFact
<1>7. ASSUME NEW c \in Calls, GatewayNext(c) PROVE UNCHANGED <<job, audit>>
  BY <1>7 DEF GatewayNext, MemoryCompact, UpdateResolve, UpdateCommit, SupersedeCommit, DeleteCommit,
     StoreCommit, Mirror, Compensate, ForgetPreflight, ForgetFinish, RunForgetting, Local, Start,
     MemoryArchive, MemoryPromote, MemoryForget, HandleSupport, CompactNext, ForgetVector, StoreMemory,
     MemoryUpdate, HandleMerge, HandleContradict, HandleSupersede
<1>8. CASE GatewayCrash \/ UNCHANGED lifeVars
  BY <1>1, <1>8 DEF GatewayCrash, lifeVars
<1> QED  BY <1>1, <1>3, <1>5, <1>6, <1>7, <1>8 DEF LifecycleNext, JobApply

(* A row that says a secret said it before, and its key is its own or that of *)
(* a copy.                                                                    *)
LEMMA SecretRowStep ==
  ASSUME LifecycleInv, [LifecycleNext]_lifeVars, NEW i \in Ids, rows'[i].text \in Secret
  PROVE  /\ rows[i].text \in Secret
         /\ \/ rows'[i].key \in {rows[i].key, job.seen[i].key}
            \/ \E b \in Batches : rows'[i].key = audit[b][i].key
<1> USE JobFact
<1>1. /\ NoText \notin Secret /\ Absent.text = NoText
      /\ \A j \in Ids : rows[j] \in Row /\ job.seen[j] \in Row /\ \A b \in Batches : audit[b][j] \in Row
  BY RowFact
<1>2. CASE UNCHANGED rows
  BY <1>2
<1>3. ASSUME NEW c \in Calls, Writes(c) PROVE rows'[i] = rows[i]
  <2> DEFINE l == call[c]
  <2>1. l.say \notin Secret /\ Stored(l).text = l.say
    BY <1>3, ReadFact DEF Stored, NewRow
  <2>2. CASE UpdateCommit(c)
    <3>1. rows' = rows \/ (rows' = [rows EXCEPT ![l.id] = l.md] /\ l.md.text \notin Secret)
      BY <2>2 DEF UpdateCommit, Write, Refused
    <3> QED  BY <3>1
  <2>3. CASE SupersedeCommit(c)
    <3> DEFINE new == [NewRow(l.say) EXCEPT !.key = l.md.key]
    <3>1. new.text = l.say
      BY DEF NewRow
    <3>2. \/ rows' = rows
          \/ rows' = [rows EXCEPT ![l.id] = l.md, ![next] = new] /\ l.md.text \notin Secret
      BY <2>3 DEF SupersedeCommit, Write, Refused
    <3> HIDE DEF new
    <3> QED  BY <2>1, <3>1, <3>2
  <2>4. CASE StoreCommit(c)
    <3>1. rows' = rows \/ rows' = [rows EXCEPT ![next] = Stored(l)]
      BY <2>4 DEF StoreCommit, Write
    <3> QED  BY <2>1, <3>1
  <2>5. CASE DeleteCommit(c) \/ Compensate(c)
    <3>1. rows' = rows \/ rows' = [rows EXCEPT ![l.id] = Absent]
      BY <2>5 DEF DeleteCommit, Compensate
    <3> QED  BY <1>1, <3>1
  <2> QED  BY <1>3, <2>2, <2>3, <2>4, <2>5 DEF Writes
<1>4. ASSUME NEW soft, NEW hard, rows' = Forgotten(soft, hard) \/ rows' = rows
      PROVE  rows[i].text \in Secret /\ rows'[i].key = rows[i].key
  <2>1. rows'[i] = Absent \/ rows'[i] = [rows[i] EXCEPT !.st = "archived", !.cur = FALSE] \/ rows'[i] = rows[i]
    BY <1>4 DEF Forgotten
  <2> QED  BY <1>1, <2>1 DEF Row
<1>5. CASE ForgetApply
  BY <1>4, <1>5 DEF ForgetApply, Commit
<1>6. CASE CleanupApply
  <2>1. rows'[i] = [rows[i] EXCEPT !.st = "archived", !.tag = job.batch] \/ rows'[i] = rows[i]
    BY <1>6 DEF CleanupApply, Commit
  <2> QED  BY <1>1, <2>1 DEF Row
<1>7. CASE RollbackApply
  <2>1. job.batch \in Batches
    BY <1>7 DEF RollbackApply, Commit
  <2>2. rows'[i] = [audit[job.batch][i] EXCEPT !.text = rows[i].text] \/ rows'[i] = rows[i]
    BY <1>7 DEF RollbackApply, Commit
  <2> QED  BY <1>1, <2>1, <2>2 DEF Row
<1>8. CASE PromoteApply
  <2>1. rows'[i] = [Promoted(job.seen[i]) EXCEPT !.text = rows[i].text] \/ rows'[i] = rows[i]
    BY <1>8 DEF PromoteApply, Commit
  <2> QED  BY <1>1, <2>1 DEF Row, Promoted
<1> QED
  BY <1>2, <1>3, <1>4, <1>5, <1>6, <1>7, <1>8, RowsMove DEF JobApply, RunForgetting

LEMMA KeylessStep ==
  ASSUME LifecycleInv, KeylessSecrets, [LifecycleNext]_lifeVars
  PROVE  KeylessSecrets'
<1> SUFFICES ASSUME NEW i \in Ids, rows'[i].text \in Secret
             PROVE  /\ rows'[i].key = NoKey
                    /\ job'.seen[i].key = NoKey
                    /\ \A b \in Batches : audit'[b][i].key = NoKey
  BY DEF KeylessSecrets
<1> QED  BY SecretRowStep, CopiesStep, RowFact DEF KeylessSecrets

(* Of a set of ids one is the oldest. *)
LEMMA OldestOf ==
  ASSUME NEW S \in SUBSET Ids, S # {}
  PROVE  \E m \in S : \A j \in S : ~(j < m)
<1> DEFINE R == {ij \in Nat \X Nat : ij[1] < ij[2]}
<1>1. R = OpToRel(<, Nat)
  BY DEF OpToRel
<1>2. S \subseteq Nat /\ IsWellFoundedOn(R, Nat)
  BY <1>1, NatLessThanWellFounded, IdsFact
<1>3. \E m \in S : \A j \in S : ~(<<j, m>> \in R)
  BY <1>2, WFMin
<1> QED  BY <1>2, <1>3

(* The oldest of the unarchived rows of a fact or text is no duplicate: the    *)
(* transaction leaves it as it is unless it is a secret to delete.             *)
LEMMA ForgettingKeeps ==
  ASSUME LifecycleInv, NEW hard \in {{}, HardCandidates},
         rows' = Forgotten(SoftCandidates, hard), NEW i \in Active
  PROVE  \E j \in Active : /\ DupKey(rows[j]) = DupKey(rows[i])
                           /\ rows'[j] = rows[j] \/ j \in HardCandidates
<1> DEFINE G == {j \in Active : DupKey(rows[j]) = DupKey(rows[i])}
<1>1. G \in SUBSET Ids /\ i \in G
  BY DEF Active
<1>2. PICK m \in G : \A j \in G : ~(j < m)
  BY <1>1, OldestOf
<1>3. m \notin SoftCandidates
  BY <1>2 DEF SoftCandidates
<1> QED  BY <1>1, <1>2, <1>3 DEF Forgotten

(* A secret without a key is a duplicate of no safe text. *)
LEMMA SecretIsNoDuplicate ==
  ASSUME KeylessSecrets, NEW j \in Ids, NEW i \in Ids,
         rows[j].text \in Secret, rows[i].text \notin Secret
  PROVE  DupKey(rows[j]) # DupKey(rows[i])
BY DEF KeylessSecrets, DupKey

LEMMA ForgetStep ==
  ASSUME LifecycleInv, KeylessSecrets, [LifecycleNext]_lifeVars,
         NEW i \in Active, rows[i].text \notin Secret, rows'[i].st = "archived",
         job' = job, lock' = lock
  PROVE  \E j \in Active : DupKey(rows[j]) = DupKey(rows[i]) /\ rows'[j].st = rows[j].st
<1>1. /\ i \in Ids /\ rows[i].st # "archived" /\ rows'[i] # rows[i] /\ rows'[i] # Absent
      /\ rows \in [Ids -> Row]
  BY JobFact, RowFact DEF Active
<1>2. ~JobApply
  <2>1. \A k, r : Commit(k, r) => k = "none"
    BY DEF Commit, NoJob
  <2> QED  BY <2>1 DEF JobApply, ForgetApply, CleanupApply, RollbackApply, PromoteApply
<1>3. ASSUME NEW c \in Calls PROVE ~Writes(c)
  <2>1. ~UpdateCommit(c) /\ ~SupersedeCommit(c)
    BY <1>3, RowFact DEF UpdateCommit, SupersedeCommit, LifecycleInv, LifecycleTypeOK
  <2>2. ~StoreCommit(c)
    <3>1. Stored(call[c]).st = "live"
      BY DEF Stored, NewRow
    <3>2. StoreCommit(c) => rows' = rows \/ rows' = [rows EXCEPT ![next] = Stored(call[c])]
      BY DEF StoreCommit, Write
    <3> QED  BY <1>1, <3>1, <3>2
  <2>3. ~DeleteCommit(c) /\ ~Compensate(c)
    BY <1>1 DEF DeleteCommit, Compensate
  <2> QED  BY <2>1, <2>2, <2>3 DEF Writes
<1>4. PICK hard \in {{}, HardCandidates} : rows' = Forgotten(SoftCandidates, hard)
  BY <1>1, <1>2, <1>3, RowsMove DEF RunForgetting
<1>5. PICK j \in Active : /\ DupKey(rows[j]) = DupKey(rows[i])
                          /\ rows'[j] = rows[j] \/ j \in HardCandidates
  BY <1>4, ForgettingKeeps
<1>6. j \notin HardCandidates
  BY <1>1, <1>5, SecretIsNoDuplicate DEF HardCandidates, Active
<1> QED  BY <1>5, <1>6

(* After the gateway archives duplicates, of the copies of a safe text or      *)
(* the versions of a fact one is left that was not archived, although the      *)
(* report is older than the vector deletions (forgetting.ts:94-103, 191-205).  *)
(* The premise is needed: a secret that is the oldest version of a fact is     *)
(* deleted, and the newer version archived as its duplicate.                   *)
THEOREM ForgettingKeepsACopy == ASSUME SecretsHaveNoKey PROVE LifecycleSpec => ForgetKeepsACopy
<1> DEFINE I == LifecycleInv /\ KeylessSecrets
           A == \A i \in Active :
                   rows[i].text \notin Secret /\ rows'[i].st = "archived" /\ ~rows'[i].cur
                   /\ job' = job /\ lock' = lock
                   => \E j \in Active : DupKey(rows[j]) = DupKey(rows[i]) /\ rows'[j].st = rows[j].st
<1>1. LifecycleInit => I
  BY LifecycleInvInit, KeylessInit
<1>2. I /\ [LifecycleNext]_lifeVars => I'
  BY LifecycleInvStep, KeylessStep
<1>3. I /\ [LifecycleNext]_lifeVars => [A]_lifeVars
  BY ForgetStep
<1> HIDE DEF I, A
<1>4. LifecycleSpec => [][A]_lifeVars
  BY <1>1, <1>2, <1>3, PTL DEF LifecycleSpec
<1> QED
  BY <1>4 DEF A, ForgetKeepsACopy
=============================================================================
