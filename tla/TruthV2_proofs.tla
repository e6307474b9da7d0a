---------------------------- MODULE TruthV2_proofs ----------------------------
(***************************************************************************)
(* Truth V2 keeps its promises however stale the reads of its writers are: *)
(* TruthInv is inductive, for any items, projections, writers and number   *)
(* of commits, the properties of TruthV2 follow, and so does that it       *)
(* implements SerialTruth.                                                 *)
(***************************************************************************)
EXTENDS TruthV2, TLAPS

-----------------------------------------------------------------------------
(* The outbox as a sequence *)

(* Concatenation keeps the first rows and moves the others behind them. *)
LEMMA Concatenation ==
  ASSUME NEW S, NEW s \in Seq(S), NEW t \in Seq(S)
  PROVE  /\ s \o t \in Seq(S)
         /\ Len(s \o t) = Len(s) + Len(t)
         /\ DOMAIN s = 1..Len(s) /\ DOMAIN (s \o t) = 1..(Len(s) + Len(t))
         /\ Len(s) \in Nat /\ Len(t) \in Nat
         /\ \A k \in 1..Len(s) : (s \o t)[k] = s[k]
         /\ \A k \in 1..Len(t) : (s \o t)[Len(s) + k] = t[k]
         /\ \A k \in (Len(s) + 1)..(Len(s) + Len(t)) : (s \o t)[k] = t[k - Len(s)]
  OBVIOUS

(* The projections are a sequence without repetitions. *)
LEMMA ProjectionsFact ==
  /\ Len(Projections) \in Nat
  /\ DOMAIN Projections = 1..Len(Projections)
  /\ \A k \in 1..Len(Projections) : Projections[k] \in ProjectionSet
  /\ \A q \in ProjectionSet : \E k \in 1..Len(Projections) : Projections[k] = q
  /\ \A j, k \in 1..Len(Projections) : Projections[j] = Projections[k] => j = k
  BY TruthAssumption DEF ProjectionSet

(* A mutation queues one row per projection. *)
LEMMA QueuedFact ==
  ASSUME NEW i \in Items, NEW op \in {"upsert", "delete", "purge"}, NEW rev \in Nat
  PROVE  /\ Queued(i, op, rev) \in Seq(Row)
         /\ Len(Queued(i, op, rev)) = Len(Projections)
         /\ \A k \in 1..Len(Projections) :
               /\ Queued(i, op, rev)[k].item = i
               /\ Queued(i, op, rev)[k].proj = Projections[k]
               /\ Queued(i, op, rev)[k].op = op
               /\ Queued(i, op, rev)[k].rev = rev
  BY ProjectionsFact DEF Queued, Row

(* A purge leaves the queued rows in place. *)
LEMMA DetachedFact ==
  ASSUME NEW i \in Items, outbox \in Seq(Row)
  PROVE  /\ Detached(i) \in Seq(Row)
         /\ Len(Detached(i)) = Len(outbox)
         /\ \A k \in 1..Len(outbox) :
               /\ Detached(i)[k].item = outbox[k].item
               /\ Detached(i)[k].proj = outbox[k].proj
               /\ Detached(i)[k].op = outbox[k].op
               /\ outbox[k].item # i => Detached(i)[k] = outbox[k]
<1>1. Len(outbox) \in Nat /\ DOMAIN outbox = 1..Len(outbox)
      /\ \A k \in 1..Len(outbox) : outbox[k] \in Row
  OBVIOUS
<1>2. \A k \in 1..Len(outbox) : Detached(i)[k] \in Row
  BY <1>1 DEF Detached, Row
<1>3. Detached(i) = [k \in 1..Len(outbox) |-> Detached(i)[k]]
  BY <1>1 DEF Detached
<1>4. Detached(i) \in Seq(Row) /\ Len(Detached(i)) = Len(outbox)
  BY <1>1, <1>2, <1>3
<1>5. \A k \in 1..Len(outbox) :
         /\ Detached(i)[k].item = outbox[k].item
         /\ Detached(i)[k].proj = outbox[k].proj
         /\ Detached(i)[k].op = outbox[k].op
         /\ outbox[k].item # i => Detached(i)[k] = outbox[k]
  BY <1>1 DEF Detached, Row
<1> QED  BY <1>4, <1>5

-----------------------------------------------------------------------------
(* Initially nothing is stored, announced or read. *)
LEMMA TruthInvInit == TruthInit => TruthInv
<1> SUFFICES ASSUME TruthInit PROVE TruthInv
  OBVIOUS
<1>1. AnyItem \in Items
  BY TruthAssumption DEF AnyItem
<1>2. TruthTypeOK
  BY <1>1, TruthAssumption DEF TruthInit, TruthTypeOK, Record, Absent, NoRead, Read, Mutations
<1>3. KnownIsComplete /\ RevisionsAreCommits /\ ReadsAreSound
  BY DEF TruthInit, KnownIsComplete, RevisionsAreCommits, ReadsAreSound, NoRead, Present, Absent
<1>4. PurgeLeavesNothing /\ HistoryIsLine /\ LastRowIsTruth
  BY DEF TruthInit, PurgeLeavesNothing, HistoryIsLine, LastRowIsTruth, Present, Absent
<1> QED  BY <1>2, <1>3, <1>4 DEF TruthInv

(* Whoever still finds the next revision number free has read the newest row. *)
LEMMA ReadIsNewest ==
  ASSUME TruthInv, NEW u \in Writers, reading[u].op # "none",
         Present(reading[u].item), ~Taken(u)
  PROVE  reading[u].rec = item[reading[u].item]
<1> DEFINE d == reading[u]
<1>1. d \in Read /\ d.item \in Items /\ d.rec \in Record /\ item[d.item] \in Record
  BY DEF TruthInv, TruthTypeOK, Read
<1>2. d.rec.no \in Nat /\ item[d.item].no \in Nat
  BY <1>1 DEF Record
<1>3. ReadIsSound(u)
  BY DEF TruthInv, ReadsAreSound
<1>4. d.rec.no \in 1..item[d.item].no
  BY <1>1, <1>3 DEF TruthInv, HistoryIsLine, ReadIsSound
<1>5. ~(d.rec.no + 1 \in 1..item[d.item].no)
  BY <1>1 DEF TruthInv, HistoryIsLine, Taken, NextNo
<1>6. d.rec.no = item[d.item].no
  BY <1>2, <1>4, <1>5
<1> QED  BY <1>3, <1>6 DEF ReadIsSound

(* What a writer may write: the successor of the current row, or the first    *)
(* revision of an id that was never used, announced by the row's operation.   *)
Successor(i, rec, op) ==
    /\ rec.life # "absent"
    /\ rec.rev = commits + 1
    /\ \/ Present(i) /\ rec.no = item[i].no + 1
       \/ i \notin known /\ rec.no = 1
    /\ op \in {"upsert", "delete"}
    /\ op = "delete" => rec.life = "archived"

(* Others keep what they have read, or forget it. *)
KeepReading == \A v \in Writers : reading'[v].op # "none" => reading'[v] = reading[v]

-----------------------------------------------------------------------------
(* A new revision keeps types. *)
LEMMA ReviseType ==
  ASSUME TruthInv, NEW i \in Items, NEW rec \in Record, NEW op,
         Revise(i, rec, op), Successor(i, rec, op),
         known' = known \cup {i}, reading' \in [Writers -> Read]
  PROVE  TruthTypeOK'
<1>1. TruthTypeOK
  BY DEF TruthInv
<1>2. item' \in [Items -> Record]
  BY <1>1 DEF TruthTypeOK, Revise
<1>3. [rev |-> rec.rev, no |-> rec.no] \in Revision
  BY DEF Record, Revision
<1>4. revisions' \in [Items -> SUBSET Revision]
  BY <1>1, <1>3 DEF TruthTypeOK, Revise
<1>5. commits' \in 0..MaxCommits
  BY <1>1, TruthAssumption DEF TruthTypeOK, Revise
<1>6. outbox' \in Seq(Row)
  <2>1. Queued(i, op, rec.rev) \in Seq(Row)
    BY QueuedFact DEF Successor, Record
  <2> QED  BY <1>1, <2>1, Concatenation DEF TruthTypeOK, Revise
<1> QED  BY <1>1, <1>2, <1>4, <1>5, <1>6 DEF TruthTypeOK

(* What a new revision makes of the outbox. *)
LEMMA ReviseOutbox ==
  ASSUME TruthInv, NEW i \in Items, NEW rec \in Record, NEW op,
         Revise(i, rec, op), Successor(i, rec, op)
  PROVE  /\ Len(outbox) \in Nat /\ Len(Projections) \in Nat
         /\ DOMAIN outbox = 1..Len(outbox)
         /\ DOMAIN outbox' = 1..(Len(outbox) + Len(Projections))
         /\ \A k \in 1..Len(outbox) : outbox'[k] = outbox[k]
         /\ \A k \in 1..Len(Projections) :
               /\ outbox'[Len(outbox) + k].item = i
               /\ outbox'[Len(outbox) + k].proj = Projections[k]
               /\ outbox'[Len(outbox) + k].op = op
               /\ outbox'[Len(outbox) + k].rev = rec.rev
<1> DEFINE new == Queued(i, op, rec.rev)
<1>1. outbox \in Seq(Row) /\ outbox' = outbox \o new
  BY DEF TruthInv, TruthTypeOK, Revise
<1>2. /\ new \in Seq(Row)
      /\ Len(new) = Len(Projections)
      /\ \A k \in 1..Len(Projections) :
            new[k].item = i /\ new[k].proj = Projections[k] /\ new[k].op = op
            /\ new[k].rev = rec.rev
  BY QueuedFact DEF Successor, Record
<1> HIDE DEF new
<1>3. /\ Len(outbox) \in Nat /\ Len(new) \in Nat
      /\ DOMAIN outbox = 1..Len(outbox)
      /\ DOMAIN (outbox \o new) = 1..(Len(outbox) + Len(new))
      /\ \A k \in 1..Len(outbox) : (outbox \o new)[k] = outbox[k]
      /\ \A k \in 1..Len(new) : (outbox \o new)[Len(outbox) + k] = new[k]
  <2>1. outbox \in Seq(Row) /\ new \in Seq(Row)
    BY <1>1, <1>2
  <2>2. \A s, t \in Seq(Row) :
           /\ Len(s) \in Nat /\ Len(t) \in Nat
           /\ DOMAIN s = 1..Len(s)
           /\ DOMAIN (s \o t) = 1..(Len(s) + Len(t))
           /\ \A k \in 1..Len(s) : (s \o t)[k] = s[k]
           /\ \A k \in 1..Len(t) : (s \o t)[Len(s) + k] = t[k]
    BY Concatenation
  <2> QED  BY <2>1, <2>2
<1> QED  BY <1>1, <1>2, <1>3

(* A new revision continues the line of its item. *)
LEMMA ReviseLine ==
  ASSUME TruthInv, NEW i \in Items, NEW rec \in Record, NEW op,
         Revise(i, rec, op), Successor(i, rec, op)
  PROVE  RevisionsAreCommits' /\ PurgeLeavesNothing' /\ HistoryIsLine'
<1> DEFINE new == [rev |-> rec.rev, no |-> rec.no]
<1>1. /\ item \in [Items -> Record] /\ revisions \in [Items -> SUBSET Revision]
      /\ commits \in Nat
  BY DEF TruthInv, TruthTypeOK
<1>2. /\ item' = [item EXCEPT ![i] = rec]
      /\ revisions' = [revisions EXCEPT ![i] = @ \cup {new}]
      /\ commits' = commits + 1
  BY DEF Revise
<1>3. new.rev = commits + 1 /\ new.no = rec.no /\ rec.no \in Nat /\ rec.life # "absent"
  BY DEF Successor, Record
<1>4. \A j \in Items : \A r \in revisions[j] : r.rev \in Nat /\ r.no \in Nat /\ r.rev <= commits
  BY <1>1 DEF TruthInv, RevisionsAreCommits, Revision
<1>5. ~Present(i) => revisions[i] = {}
  BY DEF TruthInv, PurgeLeavesNothing
<1>6. Present(i) => rec.no = item[i].no + 1
  BY DEF Successor, TruthInv, KnownIsComplete
<1>7. ~Present(i) => rec.no = 1
  BY DEF Successor
<1>8. RevisionsAreCommits'
  BY <1>1, <1>2, <1>3, <1>4 DEF RevisionsAreCommits
<1>9. PurgeLeavesNothing'
  BY <1>1, <1>2, <1>3 DEF TruthInv, PurgeLeavesNothing, Present
<1>10. HistoryIsLine'
  <2> SUFFICES ASSUME NEW j \in Items, Present(j)'
               PROVE  /\ [rev |-> item'[j].rev, no |-> item'[j].no] \in revisions'[j]
                      /\ \A n \in 1..item'[j].no : \E r \in revisions'[j] : r.no = n
                      /\ \A r \in revisions'[j] : r.no \in 1..item'[j].no
                      /\ \A r, s \in revisions'[j] : r.rev <= s.rev <=> r.no <= s.no
    BY DEF HistoryIsLine
  <2>1. CASE j # i
    <3>1. item'[j] = item[j] /\ revisions'[j] = revisions[j] /\ Present(j)
      BY <1>1, <1>2, <2>1 DEF Present
    <3> QED  BY <3>1 DEF TruthInv, HistoryIsLine
  <2>2. CASE j = i
    <3>1. item'[i] = rec /\ revisions'[i] = revisions[i] \cup {new}
      BY <1>1, <1>2
    <3>2. /\ \A r \in revisions[i] : r.no \in 1..(rec.no - 1)
          /\ \A n \in 1..(rec.no - 1) : \E r \in revisions[i] : r.no = n
      <4>1. CASE Present(i)
        <5>1. /\ \A r \in revisions[i] : r.no \in 1..item[i].no
              /\ \A n \in 1..item[i].no : \E r \in revisions[i] : r.no = n
          BY <4>1 DEF TruthInv, HistoryIsLine
        <5>2. item[i].no = rec.no - 1
          BY <1>1, <1>6, <4>1 DEF Record
        <5> QED  BY <5>1, <5>2
      <4>2. CASE ~Present(i)
        BY <1>5, <1>7, <4>2
      <4> QED  BY <4>1, <4>2
    <3>4. \A r, s \in revisions[i] : r.rev <= s.rev <=> r.no <= s.no
      BY <1>5 DEF TruthInv, HistoryIsLine
    <3>5. rec.no >= 1
      BY <1>1, <1>3, <1>6, <1>7 DEF Record
    <3>6. \A n \in 1..rec.no : \E r \in revisions'[i] : r.no = n
      <4> SUFFICES ASSUME NEW n \in 1..rec.no PROVE \E r \in revisions'[i] : r.no = n
        OBVIOUS
      <4>1. CASE n = rec.no
        <5> new \in revisions'[i] /\ new.no = n
          BY <1>3, <3>1, <4>1
        <5> HIDE DEF new
        <5> QED  OBVIOUS
      <4>2. CASE n # rec.no
        BY <1>3, <3>1, <3>2, <4>2
      <4> QED  BY <4>1, <4>2
    <3>7. \A r \in revisions'[i] : r.no \in 1..rec.no
      BY <1>3, <3>1, <3>2, <3>5
    <3>8. \A r, s \in revisions'[i] : r.rev <= s.rev <=> r.no <= s.no
      <4>1. /\ commits \in Nat /\ rec.no \in Nat
            /\ new.rev = commits + 1 /\ new.no = rec.no
        BY <1>1, <1>3
      <4>2. \A r \in revisions[i] :
               /\ r.rev \in Nat /\ r.no \in Nat
               /\ r.rev <= commits /\ r.no <= rec.no - 1
        BY <1>4, <3>2, <4>1
      <4> HIDE DEF new
      <4> SUFFICES ASSUME NEW r \in revisions'[i], NEW s \in revisions'[i]
                   PROVE  r.rev <= s.rev <=> r.no <= s.no
        OBVIOUS
      <4>3. CASE r \in revisions[i] /\ s \in revisions[i]
        BY <3>4, <4>3
      <4>4. CASE r = new /\ s = new
        BY <4>1, <4>4
      <4>5. CASE r = new /\ s \in revisions[i]
        BY <4>1, <4>2, <4>5
      <4>6. CASE r \in revisions[i] /\ s = new
        BY <4>1, <4>2, <4>6
      <4> QED  BY <3>1, <4>3, <4>4, <4>5, <4>6
    <3> QED  BY <2>2, <3>1, <3>6, <3>7, <3>8
  <2> QED  BY <2>1, <2>2
<1> QED  BY <1>8, <1>9, <1>10

(* The new rows are the last of their item, and announce it. *)
LEMMA ReviseLast ==
  ASSUME TruthInv, NEW i \in Items, NEW rec \in Record, NEW op,
         Revise(i, rec, op), Successor(i, rec, op), known' = known \cup {i}
  PROVE  LastRowIsTruth' /\ KnownIsComplete'
<1>1. item \in [Items -> Record] /\ item' = [item EXCEPT ![i] = rec]
  BY DEF TruthInv, TruthTypeOK, Revise
<1>2. /\ Len(outbox) \in Nat /\ Len(Projections) \in Nat
      /\ DOMAIN outbox = 1..Len(outbox)
      /\ DOMAIN outbox' = 1..(Len(outbox) + Len(Projections))
      /\ \A k \in 1..Len(outbox) : outbox'[k] = outbox[k]
      /\ \A k \in 1..Len(Projections) :
            /\ outbox'[Len(outbox) + k].item = i
            /\ outbox'[Len(outbox) + k].proj = Projections[k]
            /\ outbox'[Len(outbox) + k].op = op
            /\ outbox'[Len(outbox) + k].rev = rec.rev
  BY ReviseOutbox
<1>3. \A k \in (Len(outbox) + 1)..(Len(outbox) + Len(Projections)) :
         /\ k - Len(outbox) \in 1..Len(Projections)
         /\ k = Len(outbox) + (k - Len(outbox))
  BY <1>2
<1>4. \A k \in DOMAIN outbox' :
         \/ k \in 1..Len(outbox)
         \/ k \in (Len(outbox) + 1)..(Len(outbox) + Len(Projections))
  BY <1>2
<1>5. KnownIsComplete'
  <2>1. \A j \in Items : Present(j)' => j \in known'
    BY <1>1 DEF TruthInv, KnownIsComplete, Present
  <2>2. \A k \in DOMAIN outbox' : outbox'[k].item \in known'
    <3> SUFFICES ASSUME NEW k \in DOMAIN outbox' PROVE outbox'[k].item \in known'
      OBVIOUS
    <3>1. CASE k \in 1..Len(outbox)
      BY <1>2, <3>1 DEF TruthInv, KnownIsComplete
    <3>2. CASE k \in (Len(outbox) + 1)..(Len(outbox) + Len(Projections))
      <4>1. outbox'[Len(outbox) + (k - Len(outbox))].item = i
        BY <1>2, <1>3, <3>2
      <4>2. k = Len(outbox) + (k - Len(outbox))
        BY <1>3, <3>2
      <4> QED  BY <4>1, <4>2
    <3> QED  BY <1>4, <3>1, <3>2
  <2> QED  BY <2>1, <2>2 DEF KnownIsComplete
<1>6. LastRowIsTruth'
  <2> SUFFICES ASSUME NEW j \in known', NEW q \in ProjectionSet
               PROVE  \E k \in DOMAIN outbox' :
                         /\ outbox'[k].item = j /\ outbox'[k].proj = q
                         /\ \A n \in DOMAIN outbox' :
                               outbox'[n].item = j /\ outbox'[n].proj = q => n <= k
                         /\ Announces(outbox'[k], item'[j])
    BY DEF LastRowIsTruth, Announces
  <2>1. CASE j = i
    <3>1. PICK n \in 1..Len(Projections) : Projections[n] = q
      BY ProjectionsFact
    <3>2. Len(outbox) + n \in DOMAIN outbox'
      BY <1>2
    <3>3. outbox'[Len(outbox) + n].item = j /\ outbox'[Len(outbox) + n].proj = q
      BY <1>2, <2>1, <3>1
    <3>4. \A k \in DOMAIN outbox' : outbox'[k].proj = q => k <= Len(outbox) + n
      <4> SUFFICES ASSUME NEW k \in DOMAIN outbox', outbox'[k].proj = q
                   PROVE  k <= Len(outbox) + n
        OBVIOUS
      <4>1. CASE k \in 1..Len(outbox)
        BY <1>2, <4>1
      <4>2. CASE k \in (Len(outbox) + 1)..(Len(outbox) + Len(Projections))
        <5>1. k - Len(outbox) \in 1..Len(Projections) /\ Projections[k - Len(outbox)] = q
          BY <1>2, <1>3, <4>2
        <5>2. k - Len(outbox) = n
          BY <3>1, <5>1, ProjectionsFact
        <5> QED  BY <1>2, <4>2, <5>2
      <4> QED  BY <1>4, <4>1, <4>2
    <3>5. Announces(outbox'[Len(outbox) + n], item'[j])
      BY <1>1, <1>2, <2>1, TruthAssumption DEF Announces, Successor, Record, TruthInv, TruthTypeOK
    <3> QED  BY <3>2, <3>3, <3>4, <3>5
  <2>2. CASE j # i
    <3>1. j \in known /\ item'[j] = item[j]
      BY <1>1, <2>2 DEF TruthInv, TruthTypeOK
    <3>2. PICK k \in DOMAIN outbox :
             /\ outbox[k].item = j /\ outbox[k].proj = q
             /\ \A n \in DOMAIN outbox : outbox[n].item = j /\ outbox[n].proj = q => n <= k
             /\ Announces(outbox[k], item[j])
      BY <3>1 DEF TruthInv, LastRowIsTruth
    <3>3. k \in DOMAIN outbox' /\ outbox'[k] = outbox[k]
      BY <1>2
    <3>4. \A n \in DOMAIN outbox' : outbox'[n].item = j => n \in DOMAIN outbox /\ outbox'[n] = outbox[n]
      BY ZenonT(60), <1>2, <1>3, <1>4, <2>2
    <3> QED  BY <3>1, <3>2, <3>3, <3>4
  <2> QED  BY <2>1, <2>2
<1> QED  BY <1>5, <1>6

(* What others have read before stays sound: it is of a used id, and no       *)
(* longer the newest row.                                                      *)
LEMMA ReviseReads ==
  ASSUME TruthInv, NEW i \in Items, NEW rec \in Record, NEW op,
         Revise(i, rec, op), Successor(i, rec, op), known' = known \cup {i}, KeepReading
  PROVE  ReadsAreSound'
<1> SUFFICES ASSUME NEW v \in Writers, reading'[v].op # "none"
             PROVE  ReadIsSound(v)'
  BY DEF ReadsAreSound
<1> PICK d : d = reading[v]
  OBVIOUS
<1>1. reading'[v] = d /\ d.op # "none" /\ ReadIsSound(v)
  BY DEF KeepReading, TruthInv, ReadsAreSound
<1>2. /\ d \in Read /\ d.item \in Items /\ d.rec \in Record
      /\ item \in [Items -> Record] /\ revisions \in [Items -> SUBSET Revision]
      /\ item' = [item EXCEPT ![i] = rec]
      /\ revisions' = [revisions EXCEPT ![i] = @ \cup {[rev |-> rec.rev, no |-> rec.no]}]
  BY DEF TruthInv, TruthTypeOK, Read, Revise
<1>3. /\ d.rec.life # "absent"
      /\ d.op = "correct" => d.rec.life = "live"
      /\ d.item \in known
      /\ Present(d.item) =>
            /\ [rev |-> d.rec.rev, no |-> d.rec.no] \in revisions[d.item]
            /\ d.rec.no = item[d.item].no => d.rec = item[d.item]
  BY <1>1 DEF ReadIsSound
<1>4. Present(d.item)' =>
         /\ [rev |-> d.rec.rev, no |-> d.rec.no] \in revisions'[d.item]
         /\ d.rec.no = item'[d.item].no => d.rec = item'[d.item]
  <2>1. CASE d.item # i
    <3>1. item'[d.item] = item[d.item] /\ revisions'[d.item] = revisions[d.item]
      BY <1>2, <2>1
    <3>2. Present(d.item)' => Present(d.item)
      BY <3>1 DEF Present
    <3> QED  BY <1>3, <3>1, <3>2
  <2>2. CASE d.item = i
    <3>1. Present(i) /\ rec.no = item[i].no + 1
      BY <1>3, <2>2 DEF Successor
    <3>2. [rev |-> d.rec.rev, no |-> d.rec.no] \in revisions[i]
      BY <1>3, <2>2, <3>1
    <3>3. d.rec.no \in 1..item[i].no
      BY <3>1, <3>2 DEF TruthInv, HistoryIsLine
    <3>4. d.rec.no # rec.no
      BY <1>2, <3>1, <3>3 DEF Record
    <3>5. item'[i] = rec /\ revisions[i] \subseteq revisions'[i]
      BY <1>2
    <3> QED  BY <2>2, <3>2, <3>4, <3>5
  <2> QED  BY <2>1, <2>2
<1>5. d.item \in known'
  BY <1>3
<1> QED  BY <1>1, <1>3, <1>4, <1>5 DEF ReadIsSound

(* A new revision preserves the invariant. *)
LEMMA ReviseInv ==
  ASSUME TruthInv, NEW i \in Items, NEW rec \in Record, NEW op,
         Revise(i, rec, op), Successor(i, rec, op), known' = known \cup {i},
         reading' \in [Writers -> Read], KeepReading
  PROVE  TruthInv'
  BY ReviseType, ReviseLine, ReviseLast, ReviseReads DEF TruthInv

-----------------------------------------------------------------------------
(* One lemma per action that is not a plain revision, then one step for all. *)

(* Forgetting what was read. *)
LEMMA Unread ==
  ASSUME TruthInv, NEW u \in Writers, reading' = [reading EXCEPT ![u] = NoRead]
  PROVE  reading' \in [Writers -> Read] /\ KeepReading
<1>1. AnyItem \in Items
  BY TruthAssumption DEF AnyItem
<1>2. NoRead \in Read /\ NoRead.op = "none"
  BY <1>1 DEF NoRead, Read, Absent, Record
<1>3. reading \in [Writers -> Read]
  BY DEF TruthInv, TruthTypeOK
<1> QED  BY <1>2, <1>3 DEF KeepReading

(* Tables that stay as they are keep what was read sound. *)
LEMMA SameTables ==
  ASSUME TruthInv, reading' \in [Writers -> Read],
         UNCHANGED <<item, revisions, known, outbox, commits>>,
         \A v \in Writers : reading'[v].op # "none" =>
            \/ reading'[v] = reading[v]
            \/ /\ reading'[v].item \in Items
               /\ Present(reading'[v].item)
               /\ reading'[v].rec = item[reading'[v].item]
               /\ reading'[v].op = "correct" => reading'[v].rec.life = "live"
  PROVE  TruthInv'
<1>1. TruthTypeOK'
  BY DEF TruthInv, TruthTypeOK
<1>2. KnownIsComplete' /\ RevisionsAreCommits' /\ PurgeLeavesNothing' /\ HistoryIsLine'
  BY DEF TruthInv, KnownIsComplete, RevisionsAreCommits, PurgeLeavesNothing, HistoryIsLine, Present
<1>3. LastRowIsTruth'
  <2> SUFFICES ASSUME NEW j \in known', NEW q \in ProjectionSet
               PROVE  \E k \in DOMAIN outbox' :
                         /\ outbox'[k].item = j /\ outbox'[k].proj = q
                         /\ \A n \in DOMAIN outbox' :
                               outbox'[n].item = j /\ outbox'[n].proj = q => n <= k
                         /\ Announces(outbox'[k], item'[j])
    BY DEF LastRowIsTruth, Announces
  <2> QED  BY DEF TruthInv, LastRowIsTruth
<1>4. ReadsAreSound'
  <2> SUFFICES ASSUME NEW v \in Writers, reading'[v].op # "none"
               PROVE  ReadIsSound(v)'
    BY DEF ReadsAreSound
  <2>1. CASE reading'[v] = reading[v]
    BY <2>1 DEF TruthInv, ReadsAreSound, ReadIsSound, Present
  <2>2. CASE reading'[v] # reading[v]
    <3> PICK d : d = reading'[v]
      OBVIOUS
    <3>1. /\ d.item \in Items /\ Present(d.item) /\ d.rec = item[d.item]
          /\ d.op = "correct" => d.rec.life = "live"
      BY <2>2
    <3>2. d.rec.life # "absent" /\ d.item \in known
      BY <3>1 DEF Present, TruthInv, KnownIsComplete
    <3>3. [rev |-> d.rec.rev, no |-> d.rec.no] \in revisions[d.item]
      BY <3>1 DEF TruthInv, HistoryIsLine
    <3> QED  BY <3>1, <3>2, <3>3 DEF ReadIsSound, Present
  <2> QED  BY <2>1, <2>2
<1> QED  BY <1>1, <1>2, <1>3, <1>4 DEF TruthInv

(* The first revision of an item. *)
LEMMA RememberInv ==
  ASSUME TruthInv, NEW u \in Writers, Remember(u)
  PROVE  TruthInv'
<1> PICK i \in Items \ known, life \in {"live", "archived"} :
       /\ Revise(i, [rev |-> commits + 1, no |-> 1, life |-> life], "upsert")
       /\ known' = known \cup {i}
  BY DEF Remember
<1>1. commits \in Nat
  BY DEF TruthInv, TruthTypeOK
<1> PICK rec : rec = [rev |-> commits + 1, no |-> 1, life |-> life]
  OBVIOUS
<1>2. rec \in Record /\ Revise(i, rec, "upsert") /\ Successor(i, rec, "upsert")
  BY <1>1 DEF Record, Successor
<1>3. reading' \in [Writers -> Read] /\ KeepReading
  BY DEF Remember, TruthInv, TruthTypeOK, KeepReading
<1> QED  BY <1>2, <1>3, ReviseInv

(* A revision that follows what was read follows the current row. *)
LEMMA FollowInv ==
  ASSUME TruthInv, NEW u \in Writers, reading[u].op # "none",
         Present(reading[u].item), ~Taken(u),
         NEW life \in {"live", "archived"}, NEW op \in {"upsert", "delete"},
         op = "delete" => life = "archived",
         Revise(reading[u].item, [rev |-> commits + 1, no |-> NextNo(u), life |-> life], op),
         reading' = [reading EXCEPT ![u] = NoRead], UNCHANGED known
  PROVE  TruthInv'
<1> PICK i : i = reading[u].item
  OBVIOUS
<1> PICK rec : rec = [rev |-> commits + 1, no |-> NextNo(u), life |-> life]
  OBVIOUS
<1>1. /\ i \in Items /\ commits \in Nat /\ item[i] \in Record
  BY DEF TruthInv, TruthTypeOK, Read
<1>2. NextNo(u) = item[i].no + 1
  BY ReadIsNewest DEF NextNo
<1>3. rec \in Record /\ Successor(i, rec, op)
  BY <1>1, <1>2 DEF Record, Successor
<1>4. known' = known \cup {i}
  BY <1>1 DEF TruthInv, KnownIsComplete
<1>5. reading' \in [Writers -> Read] /\ KeepReading
  BY Unread
<1>6. Revise(i, rec, op)
  OBVIOUS
<1> QED  BY <1>1, <1>3, <1>4, <1>5, <1>6, ReviseInv

(* A correction follows a live row. *)
LEMMA CorrectFollows ==
  ASSUME TruthInv, NEW u \in Writers, Correct(u)
  PROVE  /\ Present(reading[u].item)
         /\ reading[u].rec = item[reading[u].item]
         /\ reading[u].rec.life = "live"
<1>1. reading[u].item \in Items
  BY DEF TruthInv, TruthTypeOK, Read
<1>2. Present(reading[u].item)
  BY <1>1 DEF Correct, TruthInv, PurgeLeavesNothing
<1>3. reading[u].op # "none" /\ reading[u].rec.life = "live"
  BY DEF Correct, TruthInv, ReadsAreSound, ReadIsSound
<1> QED  BY <1>2, <1>3, ReadIsNewest DEF Correct

LEMMA CorrectInv ==
  ASSUME TruthInv, NEW u \in Writers, Correct(u)
  PROVE  TruthInv'
<1>1. Present(reading[u].item) /\ reading[u].rec.life = "live"
  BY CorrectFollows
<1>2. Revise(reading[u].item, [rev |-> commits + 1, no |-> NextNo(u), life |-> "live"], "upsert")
  BY <1>1 DEF Correct
<1>3. /\ reading[u].op # "none" /\ ~Taken(u)
      /\ reading' = [reading EXCEPT ![u] = NoRead] /\ UNCHANGED known
  BY DEF Correct
<1> QED  BY <1>1, <1>2, <1>3, FollowInv

LEMMA ArchiveInv ==
  ASSUME TruthInv, NEW u \in Writers, Archive(u)
  PROVE  TruthInv'
<1>1. Revise(reading[u].item, [rev |-> commits + 1, no |-> NextNo(u), life |-> "archived"],
             "delete")
  BY DEF Archive
<1>2. /\ Present(reading[u].item) /\ reading[u].op # "none" /\ ~Taken(u)
      /\ reading' = [reading EXCEPT ![u] = NoRead] /\ UNCHANGED known
  BY DEF Archive
<1> QED  BY <1>1, <1>2, FollowInv

(* A purge takes the item and its history away and says so last. *)
LEMMA PurgeInv ==
  ASSUME TruthInv, NEW u \in Writers, Purge(u)
  PROVE  TruthInv'
<1> PICK i : i = reading[u].item
  OBVIOUS
<1> DEFINE old == Detached(i)
           new == Queued(i, "purge", 0)
<1>1. /\ item \in [Items -> Record] /\ revisions \in [Items -> SUBSET Revision]
      /\ outbox \in Seq(Row) /\ commits \in Nat /\ i \in Items
  BY DEF TruthInv, TruthTypeOK, Read
<1>2. /\ item' = [item EXCEPT ![i] = Absent] /\ revisions' = [revisions EXCEPT ![i] = {}]
      /\ outbox' = old \o new /\ commits' = commits + 1 /\ commits < MaxCommits
      /\ UNCHANGED known
  BY DEF Purge
<1>3. reading' \in [Writers -> Read] /\ KeepReading
  BY Unread DEF Purge
<1>4. i \in known
  BY DEF Purge, TruthInv, ReadsAreSound, ReadIsSound
<1>5. /\ old \in Seq(Row) /\ Len(old) = Len(outbox)
      /\ \A k \in 1..Len(outbox) :
            /\ old[k].item = outbox[k].item /\ old[k].proj = outbox[k].proj
            /\ outbox[k].item # i => old[k] = outbox[k]
  BY <1>1, DetachedFact
<1>6. /\ new \in Seq(Row) /\ Len(new) = Len(Projections)
      /\ \A k \in 1..Len(Projections) :
            new[k].item = i /\ new[k].proj = Projections[k] /\ new[k].op = "purge"
  BY <1>1, QueuedFact
<1> HIDE DEF old, new
<1>7. /\ Len(outbox) \in Nat /\ Len(Projections) \in Nat /\ DOMAIN outbox = 1..Len(outbox)
      /\ outbox' \in Seq(Row)
      /\ DOMAIN outbox' = 1..(Len(outbox) + Len(Projections))
      /\ \A k \in 1..Len(outbox) : outbox'[k] = old[k]
      /\ \A k \in 1..Len(Projections) : outbox'[Len(outbox) + k] = new[k]
  <2>1. \A s, t \in Seq(Row) :
           /\ s \o t \in Seq(Row)
           /\ Len(s) \in Nat /\ Len(t) \in Nat
           /\ DOMAIN s = 1..Len(s)
           /\ DOMAIN (s \o t) = 1..(Len(s) + Len(t))
           /\ \A k \in 1..Len(s) : (s \o t)[k] = s[k]
           /\ \A k \in 1..Len(t) : (s \o t)[Len(s) + k] = t[k]
    BY Concatenation
  <2>2. old \in Seq(Row) /\ new \in Seq(Row)
    BY <1>5, <1>6
  <2>3. /\ old \o new \in Seq(Row)
        /\ Len(old) \in Nat /\ Len(new) \in Nat
        /\ DOMAIN (old \o new) = 1..(Len(old) + Len(new))
        /\ \A k \in 1..Len(old) : (old \o new)[k] = old[k]
        /\ \A k \in 1..Len(new) : (old \o new)[Len(old) + k] = new[k]
    BY <2>1, <2>2
  <2>4. DOMAIN outbox = 1..Len(outbox)
    BY <1>1
  <2>5. Len(old) = Len(outbox) /\ Len(new) = Len(Projections) /\ outbox' = old \o new
    BY <1>2, <1>5, <1>6
  <2> QED  BY <2>3, <2>4, <2>5
<1>8. \A k \in (Len(outbox) + 1)..(Len(outbox) + Len(Projections)) :
         /\ k - Len(outbox) \in 1..Len(Projections)
         /\ k = Len(outbox) + (k - Len(outbox))
  BY <1>7
<1>9. \A k \in DOMAIN outbox' :
         \/ k \in 1..Len(outbox)
         \/ k \in (Len(outbox) + 1)..(Len(outbox) + Len(Projections))
  BY <1>7
<1>10. \A k \in DOMAIN outbox' :
          k \in (Len(outbox) + 1)..(Len(outbox) + Len(Projections)) =>
             /\ outbox'[k].item = i
             /\ outbox'[k].proj = Projections[k - Len(outbox)]
  <2> SUFFICES ASSUME NEW k \in (Len(outbox) + 1)..(Len(outbox) + Len(Projections))
               PROVE  /\ outbox'[k].item = i
                      /\ outbox'[k].proj = Projections[k - Len(outbox)]
    OBVIOUS
  <2>1. outbox'[Len(outbox) + (k - Len(outbox))] = new[k - Len(outbox)]
    BY <1>7, <1>8
  <2>2. outbox'[k] = new[k - Len(outbox)]
    BY <1>8, <2>1
  <2> QED  BY <1>6, <1>8, <2>2
<1>11. TruthTypeOK'
  <2>1. item' \in [Items -> Record]
    BY <1>1, <1>2 DEF Record, Absent
  <2>2. revisions' \in [Items -> SUBSET Revision]
    BY <1>1, <1>2
  <2>3. commits' \in 0..MaxCommits
    BY <1>1, <1>2, TruthAssumption
  <2>4. known' \subseteq Items
    BY <1>2 DEF TruthInv, TruthTypeOK
  <2> QED  BY <1>3, <1>7, <2>1, <2>2, <2>3, <2>4 DEF TruthTypeOK
<1>12. KnownIsComplete'
  <2>1. \A j \in Items : Present(j)' => j \in known'
    BY <1>1, <1>2, <1>4 DEF TruthInv, KnownIsComplete, Present
  <2>2. \A k \in DOMAIN outbox' : outbox'[k].item \in known'
    <3> SUFFICES ASSUME NEW k \in DOMAIN outbox' PROVE outbox'[k].item \in known'
      OBVIOUS
    <3>1. CASE k \in 1..Len(outbox)
      BY <1>2, <1>5, <1>7, <3>1 DEF TruthInv, KnownIsComplete
    <3>2. CASE k \in (Len(outbox) + 1)..(Len(outbox) + Len(Projections))
      BY <1>2, <1>4, <1>10, <3>2
    <3> QED  BY <1>9, <3>1, <3>2
  <2> QED  BY <2>1, <2>2 DEF KnownIsComplete
<1>13. RevisionsAreCommits'
  BY <1>1, <1>2 DEF TruthInv, RevisionsAreCommits, Revision
<1>14. PurgeLeavesNothing' /\ HistoryIsLine'
  <2> SUFFICES ASSUME NEW j \in Items
               PROVE  /\ ~Present(j)' => revisions'[j] = {}
                      /\ Present(j)' =>
                           /\ [rev |-> item'[j].rev, no |-> item'[j].no] \in revisions'[j]
                           /\ \A n \in 1..item'[j].no : \E r \in revisions'[j] : r.no = n
                           /\ \A r \in revisions'[j] : r.no \in 1..item'[j].no
                           /\ \A r, s \in revisions'[j] : r.rev <= s.rev <=> r.no <= s.no
    BY DEF PurgeLeavesNothing, HistoryIsLine
  <2>1. CASE j = i
    BY <1>1, <1>2, <2>1 DEF Present, Absent
  <2>2. CASE j # i
    <3>1. item'[j] = item[j] /\ revisions'[j] = revisions[j]
      BY <1>1, <1>2, <2>2
    <3>2. Present(j)' <=> Present(j)
      BY <3>1 DEF Present
    <3>3. /\ ~Present(j) => revisions[j] = {}
          /\ Present(j) =>
               /\ [rev |-> item[j].rev, no |-> item[j].no] \in revisions[j]
               /\ \A n \in 1..item[j].no : \E r \in revisions[j] : r.no = n
               /\ \A r \in revisions[j] : r.no \in 1..item[j].no
               /\ \A r, s \in revisions[j] : r.rev <= s.rev <=> r.no <= s.no
      BY DEF TruthInv, PurgeLeavesNothing, HistoryIsLine
    <3> QED  BY <3>1, <3>2, <3>3
  <2> QED  BY <2>1, <2>2
<1>15. LastRowIsTruth'
  <2> SUFFICES ASSUME NEW j \in known', NEW q \in ProjectionSet
               PROVE  \E k \in DOMAIN outbox' :
                         /\ outbox'[k].item = j /\ outbox'[k].proj = q
                         /\ \A n \in DOMAIN outbox' :
                               outbox'[n].item = j /\ outbox'[n].proj = q => n <= k
                         /\ Announces(outbox'[k], item'[j])
    BY DEF LastRowIsTruth, Announces
  <2>1. CASE j = i
    <3>1. PICK n \in 1..Len(Projections) : Projections[n] = q
      BY ProjectionsFact
    <3>2. Len(outbox) + n \in DOMAIN outbox'
      BY <1>7
    <3>3. outbox'[Len(outbox) + n] = new[n]
      BY <1>7
    <3>4. \A k \in DOMAIN outbox' : outbox'[k].proj = q => k <= Len(outbox) + n
      <4> SUFFICES ASSUME NEW k \in DOMAIN outbox', outbox'[k].proj = q
                   PROVE  k <= Len(outbox) + n
        OBVIOUS
      <4>1. CASE k \in 1..Len(outbox)
        BY <1>7, <4>1
      <4>2. CASE k \in (Len(outbox) + 1)..(Len(outbox) + Len(Projections))
        <5>1. k - Len(outbox) \in 1..Len(Projections) /\ Projections[k - Len(outbox)] = q
          BY <1>8, <1>10, <4>2
        <5>2. k - Len(outbox) = n
          BY <3>1, <5>1, ProjectionsFact
        <5> QED  BY <1>7, <4>2, <5>2
      <4> QED  BY <1>9, <4>1, <4>2
    <3>5. item'[j] = Absent
      BY <1>1, <1>2, <2>1
    <3>6. Announces(new[n], item'[j])
      BY <1>6, <3>5 DEF Announces, Absent
    <3> QED  BY <1>6, <2>1, <3>1, <3>2, <3>3, <3>4, <3>6
  <2>2. CASE j # i
    <3>1. j \in known /\ j \in Items /\ item'[j] = item[j]
      BY <1>1, <1>2, <2>2 DEF TruthInv, TruthTypeOK
    <3>2. PICK k \in DOMAIN outbox :
             /\ outbox[k].item = j /\ outbox[k].proj = q
             /\ \A n \in DOMAIN outbox : outbox[n].item = j /\ outbox[n].proj = q => n <= k
             /\ Announces(outbox[k], item[j])
      BY <3>1 DEF TruthInv, LastRowIsTruth
    <3>3. k \in DOMAIN outbox' /\ outbox'[k] = outbox[k]
      BY <1>5, <1>7, <2>2, <3>2
    <3>4. \A n \in DOMAIN outbox' : outbox'[n].item = j =>
             n \in DOMAIN outbox /\ outbox[n].item = j /\ outbox'[n] = outbox[n]
      BY <1>5, <1>7, <1>9, <1>10, <2>2
    <3> QED  BY <3>1, <3>2, <3>3, <3>4
  <2> QED  BY <2>1, <2>2
<1>16. ReadsAreSound'
  <2> SUFFICES ASSUME NEW v \in Writers, reading'[v].op # "none"
               PROVE  ReadIsSound(v)'
    BY DEF ReadsAreSound
  <2> PICK d : d = reading[v]
    OBVIOUS
  <2>1. reading'[v] = d /\ d.op # "none" /\ ReadIsSound(v) /\ d.item \in Items
    BY <1>3 DEF KeepReading, TruthInv, TruthTypeOK, ReadsAreSound, Read
  <2>2. /\ d.rec.life # "absent"
        /\ d.op = "correct" => d.rec.life = "live"
        /\ d.item \in known
        /\ Present(d.item) =>
              /\ [rev |-> d.rec.rev, no |-> d.rec.no] \in revisions[d.item]
              /\ d.rec.no = item[d.item].no => d.rec = item[d.item]
    BY <2>1 DEF ReadIsSound
  <2>3. CASE d.item = i
    <3>1. ~Present(d.item)'
      BY <1>1, <1>2, <2>3 DEF Present, Absent
    <3> QED  BY <1>2, <2>1, <2>2, <3>1 DEF ReadIsSound
  <2>4. CASE d.item # i
    <3>1. item'[d.item] = item[d.item] /\ revisions'[d.item] = revisions[d.item]
      BY <1>1, <1>2, <2>1, <2>4
    <3>2. Present(d.item)' => Present(d.item)
      BY <3>1 DEF Present
    <3> QED  BY <1>2, <2>1, <2>2, <3>1, <3>2 DEF ReadIsSound
  <2> QED  BY <2>3, <2>4
<1> QED  BY <1>11, <1>12, <1>13, <1>14, <1>15, <1>16 DEF TruthInv

(* Every step preserves the invariant. *)
LEMMA TruthInvStep == TruthInv /\ [TruthNext]_truthVars => TruthInv'
<1> SUFFICES ASSUME TruthInv, [TruthNext]_truthVars PROVE TruthInv'
  OBVIOUS
<1>1. ASSUME NEW u \in Writers, Mutate(u) PROVE TruthInv'
  <2>1. CASE Remember(u)
    BY <2>1, RememberInv
  <2>2. CASE ReadItem(u)
    <3> PICK i \in Items, op \in Mutations :
           /\ Present(i)
           /\ op = "correct" => item[i].life = "live"
           /\ reading' = [reading EXCEPT ![u] = [op |-> op, item |-> i, rec |-> item[i]]]
      BY <2>2 DEF ReadItem
    <3> PICK d : d = [op |-> op, item |-> i, rec |-> item[i]]
      OBVIOUS
    <3>1. reading \in [Writers -> Read] /\ item[i] \in Record
      BY DEF TruthInv, TruthTypeOK
    <3>2. d \in Read /\ reading' = [reading EXCEPT ![u] = d]
      BY <3>1 DEF Read
    <3>3. reading' \in [Writers -> Read]
      BY <3>1, <3>2
    <3>4. \A v \in Writers : reading'[v] = d \/ reading'[v] = reading[v]
      BY <3>1, <3>2
    <3> QED  BY <2>2, <3>3, <3>4, SameTables DEF ReadItem
  <2>3. CASE GiveUp(u)
    <3>1. reading' = [reading EXCEPT ![u] = NoRead]
          /\ UNCHANGED <<item, revisions, known, outbox, commits>>
      BY <2>3 DEF GiveUp
    <3>2. reading' \in [Writers -> Read] /\ KeepReading
      BY <3>1, Unread
    <3> QED  BY <3>1, <3>2, SameTables DEF KeepReading
  <2>4. CASE Correct(u)
    BY <2>4, CorrectInv
  <2>5. CASE Archive(u)
    BY <2>5, ArchiveInv
  <2>6. CASE Purge(u)
    BY <2>6, PurgeInv
  <2> QED  BY <1>1, <2>1, <2>2, <2>3, <2>4, <2>5, <2>6 DEF Mutate
<1>2. CASE UNCHANGED truthVars
  <2>1. UNCHANGED <<item, revisions, known, outbox, commits>> /\ reading' = reading
    BY <1>2 DEF truthVars
  <2>2. reading' \in [Writers -> Read]
    BY <2>1 DEF TruthInv, TruthTypeOK
  <2> QED  BY <2>1, <2>2, SameTables
<1> QED  BY <1>1, <1>2 DEF TruthNext

(* Truth V2 keeps its inductive invariant: whatever was read before a         *)
(* transaction, the schema keeps its commit in line (sqlite-truth-v2.ts).     *)
THEOREM TruthInvCorrect == TruthSpec => []TruthInv
<1>1. TruthInit => TruthInv
  BY TruthInvInit
<1>2. TruthInv /\ [TruthNext]_truthVars => TruthInv'
  BY TruthInvStep
<1> QED  BY <1>1, <1>2, PTL DEF TruthSpec

(* What a writer holds is of an item and a revision of the right kind, however *)
(* much was committed since it was read.                                       *)
THEOREM TruthTypeCorrect == TruthSpec => []TruthTypeOK
<1>1. TruthInv => TruthTypeOK
  BY DEF TruthInv
<1> QED  BY <1>1, TruthInvCorrect, PTL

(* A purge leaves no revision behind, and none is written after it by a        *)
(* correction that read the item before (the transactions of sqlite-truth-v2). *)
THEOREM PurgesAreComplete == TruthSpec => []PurgeLeavesNothing
<1>1. TruthInv => PurgeLeavesNothing
  BY DEF TruthInv
<1> QED  BY <1>1, TruthInvCorrect, PTL

(* Revisions outlive no item, and a history is one unbroken line that ends in *)
(* the current row, for any number of writers, items and commits.             *)
THEOREM HistoriesCorrect == TruthSpec => [](PurgeLeavesNothing /\ HistoryIsLine)
<1>1. TruthInv => PurgeLeavesNothing /\ HistoryIsLine
  BY DEF TruthInv
<1> QED  BY <1>1, TruthInvCorrect, PTL

(* The outbox has the last word on every item and projection, for any list of *)
(* projections (insertOutbox in the transaction of every mutation).           *)
THEOREM OutboxCorrect == TruthSpec => []LastRowIsTruth
<1>1. TruthInv => LastRowIsTruth
  BY DEF TruthInv
<1> QED  BY <1>1, TruthInvCorrect, PTL

(* Only a live row is corrected, so an archived item stays archived.          *)
LEMMA ArchivedStep ==
  TruthInv /\ [TruthNext]_truthVars =>
     [\A i \in Items : item[i].life = "archived" =>
         item'[i].life \in {"archived", "absent"}]_truthVars
<1> SUFFICES ASSUME TruthInv, [TruthNext]_truthVars,
                    NEW i \in Items, item[i].life = "archived"
             PROVE  item'[i].life \in {"archived", "absent"} \/ UNCHANGED truthVars
  OBVIOUS
<1>1. item \in [Items -> Record]
  BY DEF TruthInv, TruthTypeOK
<1>2. ASSUME NEW u \in Writers, Mutate(u) PROVE item'[i].life \in {"archived", "absent"}
  <2>1. CASE Remember(u)
    <3> PICK j \in Items \ known, life \in {"live", "archived"} :
           Revise(j, [rev |-> commits + 1, no |-> 1, life |-> life], "upsert")
      BY <2>1 DEF Remember
    <3>1. j # i
      BY DEF TruthInv, KnownIsComplete, Present
    <3> QED  BY <1>1, <3>1 DEF Revise
  <2>2. CASE ReadItem(u) \/ GiveUp(u)
    BY <2>2 DEF ReadItem, GiveUp
  <2>3. CASE Correct(u)
    <3>1. reading[u].item # i
      BY <2>3, CorrectFollows
    <3> QED  BY <1>1, <2>3, <3>1 DEF Correct, Revise
  <2>4. CASE Archive(u)
    BY <1>1, <2>4 DEF Archive, Revise
  <2>5. CASE Purge(u)
    BY <1>1, <2>5 DEF Purge, Absent
  <2> QED  BY <1>2, <2>1, <2>2, <2>3, <2>4, <2>5 DEF Mutate
<1> QED  BY <1>2 DEF TruthNext

(* An archived item stays archived until it is purged, whatever correction    *)
(* was under way when it was archived.                                        *)
THEOREM ArchivesAreFinal == TruthSpec => ArchivedStaysArchived
<1>1. TruthInv /\ [TruthNext]_truthVars =>
         [\A i \in Items : item[i].life = "archived" =>
             item'[i].life \in {"archived", "absent"}]_truthVars
  BY ArchivedStep
<1> QED  BY <1>1, TruthInvCorrect, PTL DEF TruthSpec, ArchivedStaysArchived

-----------------------------------------------------------------------------
(* The mutations one at a time *)

(* In a line a number names one revision. *)
LEMMA TheRevision ==
  ASSUME NEW revs \in SUBSET Revision,
         \A r, s \in revs : r.rev <= s.rev <=> r.no <= s.no,
         NEW r \in revs
  PROVE  (CHOOSE s \in revs : s.no = r.no) = r
<1> PICK s : s = CHOOSE t \in revs : t.no = r.no
  OBVIOUS
<1>1. s \in revs /\ s.no = r.no
  OBVIOUS
<1>2. r \in Revision /\ s \in Revision
  BY <1>1
<1>3. s.rev <= r.rev /\ r.rev <= s.rev
  BY <1>1, <1>2 DEF Revision
<1>4. s.rev = r.rev
  BY <1>2, <1>3 DEF Revision
<1> QED  BY <1>1, <1>2, <1>4 DEF Revision

(* A revision with the next number goes behind the others. *)
LEMMA InOrderAppend ==
  ASSUME NEW revs \in SUBSET Revision, NEW new \in Revision, NEW N \in Nat, new.no = N + 1,
         {r.no : r \in revs} = 1..N,
         \A r, s \in revs \cup {new} : r.rev <= s.rev <=> r.no <= s.no
  PROVE  InOrder(revs \cup {new}) = Append(InOrder(revs), new.rev)
<1> DEFINE all == revs \cup {new}
<1>1. all \in SUBSET Revision /\ (\A r, s \in all : r.rev <= s.rev <=> r.no <= s.no)
      /\ revs \subseteq all /\ new \in all
  OBVIOUS
<1>2. {r.no : r \in all} = 1..(N + 1)
  OBVIOUS
<1> HIDE DEF all
<1>3. \A r \in all : InOrder(all)[r.no] = r.rev
  BY <1>1, TheRevision DEF InOrder
<1>4. \A r \in revs : InOrder(revs)[r.no] = r.rev
  BY <1>1, TheRevision DEF InOrder
<1>5. \A n \in 1..N : \E r \in revs : r.no = n
  OBVIOUS
<1>6. \A n \in 1..N : InOrder(revs)[n] = InOrder(all)[n] /\ InOrder(revs)[n] \in Nat
  BY <1>1, <1>3, <1>4, <1>5 DEF Revision
<1>7. InOrder(revs) = [n \in 1..N |-> InOrder(revs)[n]]
  BY DEF InOrder
<1>8. InOrder(revs) \in Seq(Nat) /\ Len(InOrder(revs)) = N
  BY <1>6, <1>7
<1>9. InOrder(all) = [n \in 1..(N + 1) |-> InOrder(all)[n]]
  BY <1>2 DEF InOrder
<1>10. InOrder(all)[N + 1] = new.rev
  BY <1>1, <1>3
<1>11. Append(InOrder(revs), new.rev) =
          [n \in 1..(N + 1) |-> IF n = N + 1 THEN new.rev ELSE InOrder(revs)[n]]
  BY <1>8 DEF Revision
<1>12. \A n \in 1..(N + 1) :
          InOrder(all)[n] = IF n = N + 1 THEN new.rev ELSE InOrder(revs)[n]
  BY <1>6, <1>10
<1> QED  BY <1>9, <1>11, <1>12 DEF all

(* The numbers of an item's revisions are those up to its current one. *)
LEMMA Numbers ==
  ASSUME TruthInv, NEW i \in Items
  PROVE  /\ ~Present(i) => {r.no : r \in revisions[i]} = {}
         /\ Present(i) => {r.no : r \in revisions[i]} = 1..item[i].no
<1>1. ~Present(i) => {r.no : r \in revisions[i]} = {}
  BY DEF TruthInv, PurgeLeavesNothing
<1>2. ASSUME Present(i) PROVE {r.no : r \in revisions[i]} = 1..item[i].no
  <2>1. /\ \A n \in 1..item[i].no : \E r \in revisions[i] : r.no = n
        /\ \A r \in revisions[i] : r.no \in 1..item[i].no
    BY <1>2 DEF TruthInv, HistoryIsLine
  <2> QED  BY <2>1
<1> QED  BY <1>1, <1>2

(* The next commit is no revision yet. *)
LEMMA CommitIsFresh == TruthInv => Serial!Fresh(commits + 1)
<1> SUFFICES ASSUME TruthInv, NEW i \in Items, NEW n \in DOMAIN LineBar[i]
             PROVE  LineBar[i][n] # commits + 1
  BY DEF Serial!Fresh
<1>1. commits \in Nat /\ revisions[i] \in SUBSET Revision
  BY DEF TruthInv, TruthTypeOK
<1>2. PICK r \in revisions[i] : r.no = n
  BY DEF LineBar, InOrder
<1>3. \A r1, s1 \in revisions[i] : r1.rev <= s1.rev <=> r1.no <= s1.no
  BY <1>2 DEF TruthInv, HistoryIsLine, PurgeLeavesNothing
<1>4. LineBar[i][n] = r.rev
  BY <1>1, <1>2, <1>3, TheRevision DEF LineBar, InOrder
<1>5. r.rev <= commits /\ r.rev \in Nat
  BY <1>1, <1>2 DEF TruthInv, RevisionsAreCommits, Revision
<1> QED  BY <1>1, <1>4, <1>5

(* A new revision advances its item. *)
LEMMA ReviseAdvances ==
  ASSUME TruthInv, TruthInv', NEW i \in Items, NEW rec \in Record, NEW op,
         Revise(i, rec, op), Successor(i, rec, op), known' = known \cup {i}
  PROVE  Serial!Advance(i, rec.life)
<1> PICK new : new = [rev |-> rec.rev, no |-> rec.no]
  OBVIOUS
<1>1. /\ item \in [Items -> Record] /\ revisions \in [Items -> SUBSET Revision]
      /\ commits \in Nat /\ commits < MaxCommits /\ MaxCommits \in Nat
      /\ new \in Revision /\ new.rev = commits + 1 /\ new.no = rec.no
  BY TruthAssumption DEF TruthInv, TruthTypeOK, Revise, Successor, Record, Revision
<1>2. /\ item' = [item EXCEPT ![i] = rec]
      /\ revisions' = [revisions EXCEPT ![i] = @ \cup {new}]
  BY DEF Revise
<1>3. StatusBar' = [StatusBar EXCEPT ![i] = rec.life]
  <2>1. \A j \in Items : j # i => StatusOf(j)' = StatusOf(j)
    BY <1>1, <1>2 DEF StatusOf, Present
  <2>2. StatusOf(i)' = rec.life
    BY <1>1, <1>2 DEF StatusOf, Present, Successor
  <2> QED  BY <2>1, <2>2 DEF StatusBar
<1>4. InOrder(revisions[i] \cup {new}) = Append(InOrder(revisions[i]), new.rev)
  <2> PICK N : N = rec.no - 1
    OBVIOUS
  <2>1. N \in Nat /\ new.no = N + 1 /\ {r.no : r \in revisions[i]} = 1..N
    <3>1. CASE Present(i)
      <4>1. item[i].no \in Nat /\ rec.no = item[i].no + 1
        BY <1>1, <3>1 DEF Record, Successor, TruthInv, KnownIsComplete
      <4>2. {r.no : r \in revisions[i]} = 1..item[i].no
        BY <3>1, Numbers
      <4> QED  BY <1>1, <4>1, <4>2
    <3>2. CASE ~Present(i)
      <4>1. rec.no = 1 /\ {r.no : r \in revisions[i]} = {}
        BY <3>2, Numbers DEF Successor
      <4> QED  BY <1>1, <4>1
    <3> QED  BY <3>1, <3>2
  <2>2. revisions'[i] = revisions[i] \cup {new} /\ Present(i)'
    BY <1>1, <1>2 DEF Present, Successor
  <2>3. \A r, s \in revisions[i] \cup {new} : r.rev <= s.rev <=> r.no <= s.no
    BY <2>2 DEF TruthInv, HistoryIsLine
  <2>4. revisions[i] \in SUBSET Revision
    BY <1>1
  <2> QED  BY <1>1, <2>1, <2>3, <2>4, InOrderAppend
<1>5. LineBar' = [LineBar EXCEPT ![i] = Append(@, commits + 1)]
  <2>1. \A j \in Items : j # i => InOrder(revisions'[j]) = InOrder(revisions[j])
    BY <1>1, <1>2
  <2>2. InOrder(revisions'[i]) = Append(InOrder(revisions[i]), commits + 1)
    BY <1>1, <1>2, <1>4
  <2> QED  BY <2>1, <2>2 DEF LineBar
<1>6. commits + 1 \in 1..MaxCommits
  BY <1>1
<1> QED  BY <1>3, <1>5, <1>6, CommitIsFresh DEF Serial!Advance

(* Reads and rollbacks are seen by nobody. *)
LEMMA SameTablesSerial ==
  ASSUME UNCHANGED <<item, revisions, known>>
  PROVE  UNCHANGED Serial!serialVars
BY DEF Serial!serialVars, StatusBar, StatusOf, Present, LineBar

(* A revision behind the current row. *)
LEMMA FollowAdvances ==
  ASSUME TruthInv, TruthInv', NEW u \in Writers, reading[u].op # "none",
         Present(reading[u].item), ~Taken(u),
         NEW life \in {"live", "archived"}, NEW op \in {"upsert", "delete"},
         op = "delete" => life = "archived",
         Revise(reading[u].item, [rev |-> commits + 1, no |-> NextNo(u), life |-> life], op),
         UNCHANGED known
  PROVE  /\ reading[u].item \in Items
         /\ StatusBar[reading[u].item] = item[reading[u].item].life
         /\ StatusBar[reading[u].item] \in {"live", "archived"}
         /\ Serial!Advance(reading[u].item, life)
<1> PICK i : i = reading[u].item
  OBVIOUS
<1> PICK rec : rec = [rev |-> commits + 1, no |-> NextNo(u), life |-> life]
  OBVIOUS
<1>1. /\ i \in Items /\ commits \in Nat /\ item[i] \in Record
  BY DEF TruthInv, TruthTypeOK, Read
<1>2. NextNo(u) = item[i].no + 1
  BY ReadIsNewest DEF NextNo
<1>3. rec \in Record /\ rec.life = life /\ Successor(i, rec, op)
  BY <1>1, <1>2 DEF Record, Successor
<1>4. known' = known \cup {i}
  BY <1>1 DEF TruthInv, KnownIsComplete
<1>5. Serial!Advance(i, rec.life)
  BY <1>1, <1>3, <1>4, ReviseAdvances
<1>6. StatusBar[i] = item[i].life /\ item[i].life \in {"live", "archived"}
  BY <1>1 DEF StatusBar, StatusOf, Present, Record
<1> QED  BY <1>1, <1>3, <1>5, <1>6

(* A purge erases an item, or what an earlier purge has left of it. *)
LEMMA PurgeErases ==
  ASSUME TruthInv, NEW u \in Writers, Purge(u)
  PROVE  reading[u].item \in Items /\ Serial!Erase(reading[u].item)
<1> PICK i : i = reading[u].item
  OBVIOUS
<1>1. /\ item \in [Items -> Record] /\ revisions \in [Items -> SUBSET Revision] /\ i \in Items
  BY DEF TruthInv, TruthTypeOK, Read
<1>2. /\ item' = [item EXCEPT ![i] = Absent] /\ revisions' = [revisions EXCEPT ![i] = {}]
      /\ known' = known /\ reading[u].op # "none"
  BY DEF Purge
<1>3. i \in known
  BY <1>2 DEF TruthInv, ReadsAreSound, ReadIsSound
<1>4. StatusBar[i] # "unused"
  BY <1>1, <1>3 DEF StatusBar, StatusOf, Present, Record
<1>5. StatusBar' = [StatusBar EXCEPT ![i] = "purged"]
  BY <1>1, <1>2, <1>3 DEF StatusBar, StatusOf, Present, Absent
<1>6. InOrder({}) = <<>>
  BY DEF InOrder
<1>7. LineBar' = [LineBar EXCEPT ![i] = <<>>]
  BY <1>1, <1>2, <1>6 DEF LineBar
<1> QED  BY <1>1, <1>4, <1>5, <1>7 DEF Serial!Erase

(* Every step is a mutation, or nothing that a caller can see. *)
LEMMA SerialStep ==
  TruthInv /\ [TruthNext]_truthVars => [Serial!SerialNext]_(Serial!serialVars)
<1> SUFFICES ASSUME TruthInv, [TruthNext]_truthVars
             PROVE  Serial!SerialNext \/ UNCHANGED Serial!serialVars
  OBVIOUS
<1>1. TruthInv'
  BY TruthInvStep
<1>2. ASSUME NEW u \in Writers, Mutate(u)
      PROVE  Serial!SerialNext \/ UNCHANGED Serial!serialVars
  <2>1. CASE Remember(u)
    <3> PICK i \in Items \ known, life \in {"live", "archived"} :
           /\ Revise(i, [rev |-> commits + 1, no |-> 1, life |-> life], "upsert")
           /\ known' = known \cup {i}
      BY <2>1 DEF Remember
    <3>1. commits \in Nat
      BY DEF TruthInv, TruthTypeOK
    <3> PICK rec : rec = [rev |-> commits + 1, no |-> 1, life |-> life]
      OBVIOUS
    <3>2. rec \in Record /\ rec.life = life /\ Successor(i, rec, "upsert")
      BY <3>1 DEF Record, Successor
    <3>3. Serial!Advance(i, life)
      BY <1>1, <3>2, ReviseAdvances
    <3>4. StatusBar[i] = "unused"
      BY DEF StatusBar, StatusOf, TruthInv, KnownIsComplete
    <3>5. Serial!Create(i)
      BY <3>3, <3>4 DEF Serial!Create
    <3> QED  BY <3>5 DEF Serial!SerialNext
  <2>2. CASE ReadItem(u) \/ GiveUp(u)
    BY <2>2, SameTablesSerial DEF ReadItem, GiveUp
  <2>3. CASE Correct(u)
    <3> PICK i : i = reading[u].item
      OBVIOUS
    <3>1. Present(i) /\ reading[u].rec = item[i] /\ item[i].life = "live"
      BY <2>3, CorrectFollows
    <3>2. /\ reading[u].op # "none" /\ ~Taken(u) /\ UNCHANGED known
          /\ Revise(i, [rev |-> commits + 1, no |-> NextNo(u), life |-> "live"], "upsert")
      BY <2>3, <3>1 DEF Correct
    <3>3. i \in Items /\ StatusBar[i] = "live" /\ Serial!Advance(i, "live")
      BY <1>1, <3>1, <3>2, FollowAdvances
    <3> QED  BY <3>3 DEF Serial!Amend, Serial!SerialNext
  <2>4. CASE Archive(u)
    <3> PICK i : i = reading[u].item
      OBVIOUS
    <3>1. /\ Present(i) /\ reading[u].op # "none" /\ ~Taken(u) /\ UNCHANGED known
          /\ Revise(i, [rev |-> commits + 1, no |-> NextNo(u), life |-> "archived"], "delete")
      BY <2>4 DEF Archive
    <3>2. i \in Items /\ StatusBar[i] \in {"live", "archived"} /\ Serial!Advance(i, "archived")
      BY <1>1, <3>1, FollowAdvances
    <3> QED  BY <3>2 DEF Serial!Retire, Serial!SerialNext
  <2>5. CASE Purge(u)
    BY <2>5, PurgeErases DEF Serial!SerialNext
  <2> QED  BY <1>2, <2>1, <2>2, <2>3, <2>4, <2>5 DEF Mutate
<1>3. CASE UNCHANGED truthVars
  BY <1>3, SameTablesSerial DEF truthVars
<1> QED  BY <1>2, <1>3 DEF TruthNext

LEMMA SerialStart == TruthInit => Serial!SerialInit
<1> SUFFICES ASSUME TruthInit PROVE Serial!SerialInit
  OBVIOUS
<1>1. InOrder({}) = <<>>
  BY DEF InOrder
<1>2. StatusBar = [i \in Items |-> "unused"]
  BY DEF TruthInit, StatusBar, StatusOf, Present, Absent
<1>3. LineBar = [i \in Items |-> <<>>]
  BY <1>1 DEF TruthInit, LineBar
<1> QED  BY <1>2, <1>3 DEF Serial!SerialInit

(* However stale the reads of its writers are, Truth V2 does what SerialTruth   *)
(* promises: corrections and archives continue the newest revision, archived   *)
(* items are not corrected, purged ones stay purged (correct and forget of      *)
(* sqlite-truth-v2.ts read before BEGIN IMMEDIATE).                             *)
THEOREM TruthIsSerial == TruthSpec => ImplementsSerial
<1>1. TruthInv /\ [TruthNext]_truthVars => [Serial!SerialNext]_(Serial!serialVars)
  BY SerialStep
<1> QED
  BY <1>1, SerialStart, TruthInvCorrect, PTL
  DEF TruthSpec, ImplementsSerial, Serial!SerialSpec
=============================================================================
