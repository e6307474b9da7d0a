---------------------------- MODULE Operator_proofs ----------------------------
(* The operator's commands: what the migration to SQL authority, the           *)
(* maintenance lanes, the move to principal scopes and the OAuth login         *)
(* guarantee, for any number of outputs, writes, rows, operators and tries.    *)
EXTENDS AuthorityMigration, LiveMaintenance, PrincipalScope, OAuthConfig,
        FiniteSetTheorems, TLAPS

-----------------------------------------------------------------------------
(* AuthorityMigration *)

(* What the running command knows of its outputs. *)
OutputsAreSound ==
    LET o == migration.out IN
    /\ migration.pc # "none" => o \in Outputs
    /\ migration.pc \in {"ready", "vacuumed"} => receipts[o] = "none"
    /\ migration.pc = "vacuumed" => backups[o] \in Contents
    /\ migration.pc = "prepared" => receipts[o] = "prepared" /\ backups[o] = migration.digest
    /\ migration.pc = "committed" => receipts[o] = "prepared" /\ backups[o] = db.from

(* The command and the database agree on whether the upgrade has happened. *)
StatusIsSound ==
    /\ migration.pc \in {"ready", "vacuumed", "prepared"} => db.status = "legacy"
    /\ migration.pc \in {"committed", "recovering"} => db.status = "valid"
    /\ db.status = "valid" => db.digest = db.from

MigrationInv ==
    /\ MigrationTypeOK
    /\ OutputsAreSound
    /\ StatusIsSound
    /\ UpgradeCanBeUndone
    /\ CompletedReceiptIsTrue

LEMMA ContentsFact == NoBackupFile \notin Contents /\ 0 \in Contents
BY MigrationAssumption DEF Contents, NoBackupFile

LEMMA MigrationInvInit == MigrationInit => MigrationInv
BY ContentsFact DEF MigrationInit, MigrationInv, MigrationTypeOK, OutputsAreSound, StatusIsSound,
   UpgradeCanBeUndone, CompletedReceiptIsTrue, NotRunning

LEMMA MigrationInvStep == MigrationInv /\ [MigrationNext]_migrationVars => MigrationInv'
<1> SUFFICES ASSUME MigrationInv, [MigrationNext]_migrationVars PROVE MigrationInv'
  OBVIOUS
<1> USE ContentsFact DEF MigrationInv, MigrationTypeOK, OutputsAreSound, StatusIsSound,
        UpgradeCanBeUndone, CompletedReceiptIsTrue, NotRunning
<1>1. CASE WriteDatabase
  <2>1. db'.content \in Contents
    BY <1>1, MigrationAssumption DEF WriteDatabase, Contents
  <2> QED  BY <1>1, <2>1 DEF WriteDatabase
<1>2. ASSUME NEW o \in Outputs, StartMigration(o) PROVE MigrationInv'
  BY <1>2 DEF StartMigration
<1>3. CASE VacuumInto
  BY <1>3 DEF VacuumInto
<1>4. CASE WritePreparedReceipt
  BY <1>4 DEF WritePreparedReceipt
<1>5. CASE UpgradeCommit
  BY ZenonT(60), <1>5 DEF UpgradeCommit, LockedSnapshot
<1>6. CASE WriteCompletedReceipt
  BY <1>6 DEF WriteCompletedReceipt
<1>7. CASE MigrationThrows
  BY <1>7 DEF MigrationThrows
<1>8. CASE MigrationKilled
  BY <1>8 DEF MigrationKilled
<1>9. ASSUME NEW o \in Outputs, StartRecovery(o) PROVE MigrationInv'
  BY <1>9 DEF StartRecovery
<1>10. CASE RecoverReceipt
  BY <1>10 DEF RecoverReceipt, BackupMatches
<1>11. CASE UNCHANGED migrationVars
  BY <1>11 DEF migrationVars
<1> QED
  BY <1>1, <1>2, <1>3, <1>4, <1>5, <1>6, <1>7, <1>8, <1>9, <1>10, <1>11 DEF MigrationNext

(* Whatever is written, thrown, killed or tried again, an upgraded database    *)
(* has a backup of what it was (upgradeLegacyAuthority).                       *)
THEOREM UpgradesCanBeUndone == MigrationSpec => []UpgradeCanBeUndone
<1>1. MigrationInv => UpgradeCanBeUndone
  BY DEF MigrationInv
<1> QED  BY <1>1, MigrationInvInit, MigrationInvStep, PTL DEF MigrationSpec

(* Every completed receipt names a backup of the upgraded content, also one    *)
(* recovered later (recoverLegacySqlAuthorityReceipt).                         *)
THEOREM ReceiptsAreTrue == MigrationSpec => []CompletedReceiptIsTrue
<1>1. MigrationInv => CompletedReceiptIsTrue
  BY DEF MigrationInv
<1> QED  BY <1>1, MigrationInvInit, MigrationInvStep, PTL DEF MigrationSpec

-----------------------------------------------------------------------------
(* LiveMaintenance *)

(* What the execution read of V1 follows the snapshot and precedes V1 as it is. *)
CopyIsBetween(o) ==
    /\ Written(o) \subseteq Items
    /\ lane[o].copy \in [Written(o) -> 1..MaxVersion]
    /\ \A i \in Written(o) : lane[o].snapshot[i] <= lane[o].copy[i] /\ lane[o].copy[i] <= truth1[i]

(* What goes, or went, into a lane's rows.  The append lane may write a row    *)
(* that is none of its targets, but none that the snapshot has.                *)
WrittenIsSound(o) ==
    /\ CopyIsBetween(o)
    /\ lane[o].kind # "append" => Written(o) = Targets(o)
    /\ lane[o].kind = "append" => \A i \in Written(o) : Present(lane[o].snapshot[i]) => i \in Targets(o)

LaneIsSound(o) ==
    LET l == lane[o] IN
    /\ l.pc = "planned" => \A i \in Targets(o) : truth1[i] >= 1
    /\ l.pc \notin {"idle", "planned"} =>
          /\ l.snapshot \in [Items -> Versions]
          /\ \A i \in Items : l.snapshot[i] <= truth1[i]
          /\ \A i \in Targets(o) : l.snapshot[i] >= 1
    /\ l.pc \in {"checked", "read"} /\ l.kind = "append" =>
          \A i \in Items : Present(l.snapshot[i]) /\ items2[i] = NoRow2 => i \in Targets(o)
    /\ l.pc = "read" => l.kind = "append" /\ CopyIsBetween(o)
    /\ l.pc = "open" =>
          /\ Cardinality(Written(o)) = Cardinality(Targets(o))
          /\ l.kind = "append" => \A i \in Written(o) : l.before.items[i] = NoRow2
    /\ (l.pc \in {"open", "committed"} \/ (o \in rollouts /\ l.kind = "archive")) => WrittenIsSound(o)
    /\ o \in rollouts => l.pc \notin {"idle", "planned"}
    /\ o \in rollouts /\ l.kind = "archive" => l.pc \in {"committed", "ready", "receipt"}
    /\ l.pc = "committed" => o \in rollouts

MaintenanceInv ==
    /\ MaintenanceTypeOK
    /\ \A o \in Operators : LaneIsSound(o)
    /\ ReceiptIsTrue

LEMMA VersionsFact ==
  /\ Versions \subseteq Nat /\ Versions \subseteq 0..Rewritten /\ 1..MaxVersion \subseteq Versions
  /\ 0 \in Versions /\ 1 \in Versions /\ Gone \in Versions /\ Rewritten \in 0..Rewritten
BY MaintenanceAssumption DEF Versions, Rewritten, Gone

LEMMA VersionFact ==
  ASSUME NEW t \in [Items -> Versions], NEW i \in Items
  PROVE  t[i] \in Versions /\ t[i] \in Nat /\ t[i] <= t[i]
<1>1. t[i] \in Versions
  OBVIOUS
<1>2. \A v \in Versions : v \in Nat /\ v <= v
  BY MaintenanceAssumption DEF Versions, Gone
<1> QED  BY <1>1, <1>2

LEMMA PartialFact ==
  ASSUME NEW S, NEW T \in SUBSET Items, NEW f \in [T -> S]
  PROVE  f \in Partial(S)
BY DEF Partial

LEMMA EmptyFact == ASSUME NEW S PROVE <<>> \in Partial(S)
<1>1. <<>> = [i \in {} |-> 0]
  BY SMT
<1>2. <<>> \in [{} -> S]
  BY <1>1
<1> QED  BY <1>2, PartialFact

LEMMA Row2Fact ==
  ASSUME NEW r \in Row2, NEW n \in Nat
  PROVE  /\ [r EXCEPT !.life = "archived", !.rev = n] \in Row2
         /\ [r EXCEPT !.text = Rewritten, !.rev = n] \in Row2
         /\ [r EXCEPT !.life = "archived", !.rev = n].rev = n
         /\ [r EXCEPT !.text = Rewritten, !.rev = n].rev = n
<1> DEFINE lives == Lives \cup {"none"}
           S == 0..Rewritten
<1>1. r \in [life : lives, text : S, rev : Nat] /\ Rewritten \in S /\ "archived" \in lives
  BY VersionsFact DEF Row2, Lives
<1> HIDE DEF S, lives
<1>2. /\ [r EXCEPT !.life = "archived", !.rev = n] \in [life : lives, text : S, rev : Nat]
      /\ [r EXCEPT !.text = Rewritten, !.rev = n] \in [life : lives, text : S, rev : Nat]
      /\ [r EXCEPT !.life = "archived", !.rev = n].rev = n
      /\ [r EXCEPT !.text = Rewritten, !.rev = n].rev = n
  BY <1>1
<1> QED  BY <1>2 DEF Row2, S, lives

LEMMA NextRevFact == ASSUME NEW r \in Row2 PROVE r.rev + 1 \in Nat \ {0}
BY DEF Row2

LEMMA CountFact == ASSUME NEW S \in SUBSET Items PROVE IsFiniteSet(S) /\ Cardinality(S) \in Nat
BY MaintenanceAssumption, FS_Subset, FS_CardinalityType

LEMMA SourceFact == SourceState \in Source /\ NoSource \in Source
<1>1. Cardinality({i \in Items : Present(truth1[i])}) \in Nat
  BY CountFact
<1>2. \A l \in Lives : Cardinality({i \in Items : items2[i].life = l}) \in Nat
  BY CountFact
<1> QED  BY <1>1, <1>2 DEF SourceState, NoSource, Source

LEMMA UnplannedFact == Unplanned \in Lane /\ NotRead \in [source : Source, items : Partial(Row2)]
<1>1. <<>> \in Partial(Row2) /\ <<>> \in Partial(Versions)
  BY EmptyFact
<1> QED  BY <1>1, SourceFact DEF Unplanned, NotRead, Lane

LEMMA TargetsFact ==
  ASSUME MaintenanceTypeOK, NEW o \in Operators
  PROVE  Targets(o) \subseteq Items /\ lane[o].rows \in [Targets(o) -> Row2]
<1>1. lane[o].rows \in Partial(Row2)
  BY DEF MaintenanceTypeOK, Lane
<1>2. PICK T \in SUBSET Items : lane[o].rows \in [T -> Row2]
  BY <1>1 DEF Partial
<1> QED  BY <1>2 DEF Targets

LEMMA MaintenanceInvInit == MaintenanceInit => MaintenanceInv
<1> SUFFICES ASSUME MaintenanceInit PROVE MaintenanceInv
  OBVIOUS
<1>1. [life |-> "candidate", text |-> 1, rev |-> 1] \in Row2 /\ NoRow2 \in Row2
  BY VersionsFact DEF Row2, NoRow2, Lives
<1>2. items2 \in [Items -> Row2] /\ truth1 \in [Items -> Versions]
  BY <1>1, VersionsFact DEF MaintenanceInit
<1>3. MaintenanceTypeOK
  BY <1>2, UnplannedFact DEF MaintenanceInit, MaintenanceTypeOK
<1> QED
  BY <1>3 DEF MaintenanceInit, MaintenanceInv, LaneIsSound, ReceiptIsTrue, Unplanned

(* The gateway moves V1 rows forward, takes no V2 row away, and leaves the     *)
(* lanes alone.                                                                *)
LEMMA GatewayInv ==
  ASSUME MaintenanceInv,
         UNCHANGED <<lane, rollouts>>,
         truth1' \in [Items -> Versions], items2' \in [Items -> Row2],
         \A i \in Items : truth1[i] <= truth1'[i],
         \A i \in Items : items2'[i] = NoRow2 => items2[i] = NoRow2
  PROVE  MaintenanceInv'
<1>1. MaintenanceTypeOK /\ MaintenanceTypeOK'
  BY DEF MaintenanceInv, MaintenanceTypeOK
<1>2. /\ \A i \in Items : truth1[i] \in Nat /\ truth1'[i] \in Nat
      /\ \A i \in Items : \A a \in Nat : a <= truth1[i] => a <= truth1'[i]
  <2>1. \A i \in Items : truth1[i] \in Nat
    BY <1>1, VersionFact DEF MaintenanceTypeOK
  <2>2. \A i \in Items : truth1'[i] \in Nat
    BY VersionFact
  <2> QED  BY <2>1, <2>2
<1>3. ASSUME NEW o \in Operators PROVE LaneIsSound(o)'
  <2>1. /\ Targets(o)' = Targets(o) /\ Targets(o) \subseteq Items
        /\ Written(o)' = Written(o) /\ lane'[o] = lane[o] /\ rollouts' = rollouts
    BY <1>1, TargetsFact DEF Targets, Written
  <2>2. LaneIsSound(o)
    BY DEF MaintenanceInv
  <2>3. CopyIsBetween(o) => CopyIsBetween(o)'
    <3> SUFFICES ASSUME CopyIsBetween(o), NEW i \in Written(o) PROVE lane[o].copy[i] <= truth1'[i]
      BY <2>1 DEF CopyIsBetween
    <3>1. i \in Items /\ lane[o].copy[i] \in Nat /\ lane[o].copy[i] <= truth1[i]
      BY DEF CopyIsBetween
    <3> QED  BY <1>2, <3>1
  <2>4. WrittenIsSound(o) => WrittenIsSound(o)'
    BY <2>1, <2>3 DEF WrittenIsSound
  <2>5. lane[o].snapshot \in [Items -> Versions] /\ (\A i \in Items : lane[o].snapshot[i] <= truth1[i])
        => \A i \in Items : lane[o].snapshot[i] <= truth1'[i]
    BY <1>2, VersionsFact
  <2>6. (\A i \in Targets(o) : truth1[i] >= 1) => \A i \in Targets(o) : truth1'[i] >= 1
    BY <1>2, <2>1
  <2> QED  BY <2>1, <2>2, <2>3, <2>4, <2>5, <2>6 DEF LaneIsSound
<1>4. ReceiptIsTrue'
  <2>1. ASSUME NEW i \in Items, truth1[i] = Gone PROVE truth1'[i] = Gone
    <3>1. truth1'[i] \in Versions /\ Gone <= truth1'[i]
      BY <2>1
    <3> QED  BY <3>1, MaintenanceAssumption DEF Versions, Gone
  <2>2. ASSUME NEW o \in Operators, NEW i \in Written(o) PROVE i \in Items
    <3>1. lane[o].copy \in Partial(Versions)
      BY <1>1 DEF MaintenanceTypeOK, Lane
    <3> QED  BY <3>1 DEF Partial, Written
  <2> QED  BY <2>1, <2>2 DEF MaintenanceInv, ReceiptIsTrue, Targets, Written
<1> QED  BY <1>1, <1>3, <1>4 DEF MaintenanceInv

(* A step of one lane leaves the others as they are.                           *)
LEMMA LaneInv ==
  ASSUME MaintenanceInv, NEW o \in Operators, NEW l \in Lane,
         lane' = [lane EXCEPT ![o] = l],
         UNCHANGED truth1, items2' \in [Items -> Row2],
         \A i \in Items : items2'[i] = NoRow2 => items2[i] = NoRow2,
         rollouts' = rollouts \/ rollouts' = rollouts \cup {o},
         LaneIsSound(o)',
         l.pc = "receipt" =>
            /\ o \in rollouts'
            /\ \A i \in DOMAIN l.copy :
                  IF i \in DOMAIN l.rows THEN l.copy[i] = l.snapshot[i]
                  ELSE l.kind = "append" /\ l.snapshot[i] = 0 /\ truth1[i] = Gone
  PROVE  MaintenanceInv'
<1>1. MaintenanceTypeOK /\ MaintenanceTypeOK'
  BY DEF MaintenanceInv, MaintenanceTypeOK
<1>2. /\ lane'[o] = l
      /\ \A q \in Operators \ {o} : /\ lane'[q] = lane[q] /\ Targets(q)' = Targets(q)
                                    /\ Written(q)' = Written(q)
  BY <1>1 DEF MaintenanceTypeOK, Targets, Written
<1>3. ASSUME NEW q \in Operators \ {o} PROVE LaneIsSound(q)'
  <2>1. LaneIsSound(q) /\ (q \in rollouts' <=> q \in rollouts) /\ truth1' = truth1
    BY DEF MaintenanceInv
  <2>2. lane'[q] = lane[q] /\ Targets(q)' = Targets(q) /\ Written(q)' = Written(q)
    BY <1>2
  <2>3. CopyIsBetween(q) => CopyIsBetween(q)'
    BY <2>1, <2>2 DEF CopyIsBetween
  <2>4. WrittenIsSound(q) => WrittenIsSound(q)'
    BY <2>2, <2>3 DEF WrittenIsSound
  <2> QED  BY <2>1, <2>2, <2>3, <2>4 DEF LaneIsSound
<1>4. ReceiptIsTrue'
  BY <1>2 DEF MaintenanceInv, ReceiptIsTrue, Targets, Written
<1> QED  BY <1>1, <1>3, <1>4 DEF MaintenanceInv

LEMMA GotoFact ==
  ASSUME MaintenanceTypeOK, NEW o \in Operators,
         NEW pc \in {"ready", "checked", "committed", "receipt"}, Goto(o, pc)
  PROVE  /\ [lane[o] EXCEPT !.pc = pc] \in Lane
         /\ lane' = [lane EXCEPT ![o] = [lane[o] EXCEPT !.pc = pc]]
         /\ lane'[o] = [lane[o] EXCEPT !.pc = pc]
         /\ Targets(o)' = Targets(o) /\ Written(o)' = Written(o)
BY DEF MaintenanceTypeOK, Goto, Lane, Targets, Written

LEMMA EndFact ==
  ASSUME MaintenanceTypeOK, NEW o \in Operators, NEW pc \in {"ready", "receipt"}, End(o, pc)
  PROVE  \E l \in Lane :
            /\ lane' = [lane EXCEPT ![o] = l] /\ lane'[o] = l /\ l.pc = pc
            /\ l.snapshot = lane[o].snapshot /\ l.rows = lane[o].rows /\ l.kind = lane[o].kind
            /\ o \in rollouts => l.copy = lane[o].copy
            /\ Targets(o)' = Targets(o) /\ (o \in rollouts => Written(o)' = Written(o))
<1> DEFINE copy == IF o \in rollouts THEN lane[o].copy ELSE <<>>
           l == [lane[o] EXCEPT !.pc = pc, !.before = NotRead, !.copy = copy]
<1>1. lane[o] \in Lane
  BY DEF MaintenanceTypeOK
<1>2. lane[o].copy \in Partial(Versions)
  BY <1>1 DEF Lane
<1>3. copy \in Partial(Versions) /\ NotRead \in [source : Source, items : Partial(Row2)]
  BY <1>2, EmptyFact, UnplannedFact
<1>4. o \in rollouts => copy = lane[o].copy
  OBVIOUS
<1>5. lane' = [lane EXCEPT ![o] = l]
  BY DEF End, MaintenanceTypeOK
<1> HIDE DEF copy
<1>6. /\ l \in Lane /\ l.pc = pc /\ l.copy = copy
      /\ l.snapshot = lane[o].snapshot /\ l.rows = lane[o].rows /\ l.kind = lane[o].kind
  BY <1>1, <1>3 DEF Lane
<1> HIDE DEF l
<1>7. lane'[o] = l
  BY <1>5 DEF MaintenanceTypeOK
<1> QED  BY <1>4, <1>5, <1>6, <1>7 DEF Targets, Written

LEMMA PlanLaneInv ==
  ASSUME MaintenanceInv, NEW o \in Operators, PlanLane(o)
  PROVE  MaintenanceInv'
<1>1. MaintenanceTypeOK /\ LaneIsSound(o)
  BY DEF MaintenanceInv
<1>2. PICK T \in (SUBSET Items) \ {{}}, kind \in {"archive", "rewrite", "append"} :
         /\ kind = "append" => T = Uncopied /\ HaveV1(Lives)
         /\ kind # "append" => HaveV1({"candidate"}) /\ \A i \in T : items2[i].life = "candidate"
         /\ lane' = [lane EXCEPT ![o] =
               [Unplanned EXCEPT !.pc = "planned", !.kind = kind,
                                 !.rows = [i \in T |-> items2[i]],
                                 !.plan = [source |-> SourceState,
                                           truth |-> IF kind = "append" THEN truth1 ELSE <<>>]]]
  BY DEF PlanLane
<1> DEFINE rows == [i \in T |-> items2[i]]
           truth == IF kind = "append" THEN truth1 ELSE <<>>
           plan == [source |-> SourceState, truth |-> truth]
           l == [Unplanned EXCEPT !.pc = "planned", !.kind = kind, !.rows = rows, !.plan = plan]
<1>3. lane' = [lane EXCEPT ![o] = l]
  BY <1>2
<1>4. rows \in Partial(Row2) /\ DOMAIN rows = T
  BY <1>1, PartialFact DEF MaintenanceTypeOK
<1>5. truth \in Partial(Versions)
  BY <1>1, PartialFact, EmptyFact DEF MaintenanceTypeOK
<1> HIDE DEF rows, truth
<1>6. plan \in [source : Source, truth : Partial(Versions)]
  BY <1>5, SourceFact
<1> HIDE DEF plan
<1>7. l \in Lane /\ l.pc = "planned" /\ l.kind = kind /\ l.rows = rows
  BY <1>4, <1>6, UnplannedFact DEF Lane
<1> HIDE DEF l
<1>8. o \notin rollouts /\ rollouts' = rollouts /\ UNCHANGED <<truth1, items2>>
  BY <1>1 DEF LaneIsSound, PlanLane
<1>9. lane'[o] = l /\ Targets(o)' = T
  BY <1>1, <1>3, <1>4, <1>7 DEF MaintenanceTypeOK, Targets
<1>10. \A i \in T : truth1[i] >= 1
  <2>1. \A i \in T : Present(truth1[i])
    BY <1>2 DEF Uncopied, HaveV1
  <2> QED  BY <2>1, MaintenanceAssumption DEF Present
<1>11. LaneIsSound(o)'
  BY <1>7, <1>8, <1>9, <1>10 DEF LaneIsSound
<1> QED  BY <1>1, <1>3, <1>7, <1>8, <1>11, LaneInv DEF MaintenanceTypeOK

LEMMA SnapshotInv ==
  ASSUME MaintenanceInv, NEW o \in Operators, SnapshotV1(o)
  PROVE  MaintenanceInv'
<1>1. MaintenanceTypeOK /\ LaneIsSound(o) /\ Targets(o) \subseteq Items
  BY TargetsFact DEF MaintenanceInv
<1> DEFINE l == [lane[o] EXCEPT !.pc = "ready", !.snapshot = truth1]
<1>2. truth1 \in Partial(Versions)
  BY <1>1, PartialFact DEF MaintenanceTypeOK
<1>3. l \in Lane /\ lane' = [lane EXCEPT ![o] = l] /\ lane'[o] = l /\ Targets(o)' = Targets(o)
  BY <1>1, <1>2 DEF MaintenanceTypeOK, Lane, SnapshotV1, Targets
<1>4. l.pc = "ready" /\ l.snapshot = truth1 /\ l.rows = lane[o].rows /\ l.kind = lane[o].kind
  BY <1>1 DEF MaintenanceTypeOK, Lane
<1>5. o \notin rollouts /\ UNCHANGED <<truth1, items2, rollouts>> /\ lane[o].pc = "planned"
  BY <1>1 DEF LaneIsSound, SnapshotV1
<1> HIDE DEF l
<1>6. \A i \in Items : truth1[i] \in Nat /\ truth1[i] <= truth1[i]
  BY <1>1, VersionFact DEF MaintenanceTypeOK
<1>7. LaneIsSound(o)'
  BY <1>1, <1>3, <1>4, <1>5, <1>6 DEF LaneIsSound, MaintenanceTypeOK
<1> QED  BY <1>1, <1>3, <1>4, <1>5, <1>7, LaneInv DEF MaintenanceTypeOK

(* Planned again on the V1 of the snapshot, the append lane's targets are all  *)
(* that V2 has no row for.                                                     *)
LEMMA CheckSnapshotInv ==
  ASSUME MaintenanceInv, NEW o \in Operators, CheckSnapshot(o)
  PROVE  MaintenanceInv'
<1>1. MaintenanceTypeOK /\ LaneIsSound(o) /\ lane[o] \in Lane /\ UNCHANGED <<truth1, items2, rollouts>>
  BY DEF MaintenanceInv, MaintenanceTypeOK, CheckSnapshot
<1> DEFINE l == [lane[o] EXCEPT !.pc = "checked"]
<1>2. l \in Lane /\ lane' = [lane EXCEPT ![o] = l] /\ lane'[o] = l /\ Targets(o)' = Targets(o)
  BY <1>1, GotoFact DEF CheckSnapshot
<1>3. /\ l.pc = "checked" /\ l.copy = lane[o].copy
      /\ l.snapshot = lane[o].snapshot /\ l.rows = lane[o].rows /\ l.kind = lane[o].kind
  BY <1>1 DEF Lane
<1> HIDE DEF l
<1>4. ASSUME lane[o].kind = "append", NEW i \in Items, Present(lane[o].snapshot[i]), items2[i] = NoRow2
      PROVE  i \in Targets(o)
  <2>1. Uncopied = Targets(o) /\ Present(truth1[i])
    BY <1>4 DEF CheckSnapshot, PlanIsCurrent, SameV1
  <2> QED  BY <1>4, <2>1 DEF Uncopied
<1>5. lane[o].pc = "ready" /\ (lane[o].kind = "archive" => o \notin rollouts)
  BY DEF CheckSnapshot
<1>6. LaneIsSound(o)'
  BY <1>1, <1>2, <1>3, <1>4, <1>5 DEF LaneIsSound
<1> QED  BY <1>1, <1>2, <1>3, <1>6, LaneInv DEF MaintenanceTypeOK

LEMMA ReadLegacyInv ==
  ASSUME MaintenanceInv, NEW o \in Operators, ReadLegacy(o)
  PROVE  MaintenanceInv'
<1>1. MaintenanceTypeOK /\ LaneIsSound(o)
  BY DEF MaintenanceInv
<1> DEFINE S == {j \in Items : Present(truth1[j])}
           copy == [i \in S |-> truth1[i]]
           l == [lane[o] EXCEPT !.pc = "read", !.copy = copy]
<1>2. copy \in [S -> 1..MaxVersion] /\ DOMAIN copy = S /\ \A i \in S : copy[i] = truth1[i]
  BY DEF Present
<1>3. copy \in Partial(Versions)
  BY <1>2, PartialFact, VersionsFact
<1>4. \A i \in S : i \in Items /\ truth1[i] \in Nat
  BY <1>1, VersionsFact DEF MaintenanceTypeOK
<1> HIDE DEF S
<1>5. lane' = [lane EXCEPT ![o] = l] /\ lane[o].pc = "checked" /\ lane[o].kind = "append"
      /\ UNCHANGED <<truth1, items2, rollouts>>
  BY <1>1 DEF ReadLegacy, MaintenanceTypeOK, S
<1> HIDE DEF copy
<1>6. /\ l \in Lane /\ l.pc = "read" /\ l.copy = copy
      /\ l.snapshot = lane[o].snapshot /\ l.rows = lane[o].rows /\ l.kind = lane[o].kind
  BY <1>1, <1>3 DEF MaintenanceTypeOK, Lane
<1> HIDE DEF l
<1>7. lane'[o] = l /\ Targets(o)' = Targets(o) /\ Written(o)' = S
  BY <1>1, <1>2, <1>5, <1>6 DEF MaintenanceTypeOK, Targets, Written
<1>8. CopyIsBetween(o)'
  BY <1>1, <1>2, <1>4, <1>5, <1>6, <1>7 DEF CopyIsBetween, LaneIsSound
<1>9. LaneIsSound(o)'
  BY <1>1, <1>5, <1>6, <1>7, <1>8 DEF LaneIsSound
<1> QED  BY <1>1, <1>5, <1>6, <1>9, LaneInv DEF MaintenanceTypeOK

LEMMA CheckPlanInv ==
  ASSUME MaintenanceInv, NEW o \in Operators, CheckPlan(o)
  PROVE  MaintenanceInv'
<1>1. MaintenanceTypeOK /\ LaneIsSound(o) /\ Targets(o) \subseteq Items
  BY TargetsFact DEF MaintenanceInv
<1> DEFINE copy == [i \in Targets(o) |-> truth1[i]]
           before == [source |-> SourceState, items |-> items2]
           l == [lane[o] EXCEPT !.pc = "open", !.copy = copy, !.before = before]
<1>2. /\ copy \in [Targets(o) -> 1..MaxVersion] /\ DOMAIN copy = Targets(o)
      /\ \A i \in Targets(o) : copy[i] = truth1[i] /\ truth1[i] \in Nat
  BY <1>1, VersionsFact DEF CheckPlan, BoundRowsMatch, Present, MaintenanceTypeOK
<1>3. copy \in Partial(Versions)
  BY <1>1, <1>2, PartialFact, VersionsFact
<1>4. before \in [source : Source, items : Partial(Row2)]
  BY <1>1, SourceFact, PartialFact DEF MaintenanceTypeOK
<1>5. /\ lane' = [lane EXCEPT ![o] = l] /\ lane[o].pc = "checked" /\ lane[o].kind # "append"
      /\ UNCHANGED <<truth1, items2, rollouts>>
  BY <1>1 DEF CheckPlan, MaintenanceTypeOK
<1> HIDE DEF copy, before
<1>6. /\ l \in Lane /\ l.pc = "open" /\ l.copy = copy
      /\ l.snapshot = lane[o].snapshot /\ l.rows = lane[o].rows /\ l.kind = lane[o].kind
  BY <1>1, <1>3, <1>4 DEF MaintenanceTypeOK, Lane
<1> HIDE DEF l
<1>7. lane'[o] = l /\ Targets(o)' = Targets(o) /\ Written(o)' = Targets(o)
  BY <1>1, <1>2, <1>5, <1>6 DEF MaintenanceTypeOK, Targets, Written
<1>8. WrittenIsSound(o)'
  BY <1>1, <1>2, <1>5, <1>6, <1>7 DEF WrittenIsSound, CopyIsBetween, LaneIsSound
<1>9. LaneIsSound(o)'
  BY <1>1, <1>5, <1>6, <1>7, <1>8 DEF LaneIsSound
<1> QED  BY <1>1, <1>5, <1>6, <1>9, LaneInv DEF MaintenanceTypeOK

LEMMA CheckDeltaInv ==
  ASSUME MaintenanceInv, NEW o \in Operators, CheckDelta(o)
  PROVE  MaintenanceInv'
<1>1. MaintenanceTypeOK /\ LaneIsSound(o)
  BY DEF MaintenanceInv
<1>2. lane[o].pc = "read" /\ lane[o].kind = "append" /\ CopyIsBetween(o)
  BY <1>1 DEF CheckDelta, LaneIsSound
<1> DEFINE D == Delta(o)
           copy == [i \in D |-> lane[o].copy[i]]
           before == [source |-> SourceState, items |-> items2]
           l == [lane[o] EXCEPT !.pc = "open", !.copy = copy, !.before = before]
<1>3. D \subseteq Written(o) /\ D \subseteq Items /\ \A i \in D : items2[i] = NoRow2
  BY <1>2 DEF Delta, CopyIsBetween
<1>4. /\ copy \in [D -> 1..MaxVersion] /\ DOMAIN copy = D
      /\ \A i \in D : copy[i] = lane[o].copy[i]
  BY <1>2, <1>3 DEF CopyIsBetween
<1>5. copy \in Partial(Versions)
  BY <1>3, <1>4, PartialFact, VersionsFact
<1>6. before \in [source : Source, items : Partial(Row2)] /\ before.items = items2
  BY <1>1, SourceFact, PartialFact DEF MaintenanceTypeOK
<1>7. /\ lane' = [lane EXCEPT ![o] = l] /\ Cardinality(D) = Cardinality(Targets(o))
      /\ UNCHANGED <<truth1, items2, rollouts>>
  BY <1>1 DEF CheckDelta, MaintenanceTypeOK
<1> HIDE DEF D, copy, before
<1>8. /\ l \in Lane /\ l.pc = "open" /\ l.copy = copy /\ l.before = before
      /\ l.snapshot = lane[o].snapshot /\ l.rows = lane[o].rows /\ l.kind = lane[o].kind
  BY <1>1, <1>5, <1>6 DEF MaintenanceTypeOK, Lane
<1> HIDE DEF l
<1>9. lane'[o] = l /\ Targets(o)' = Targets(o) /\ Written(o)' = D
  BY <1>1, <1>4, <1>7, <1>8 DEF MaintenanceTypeOK, Targets, Written
<1>10. CopyIsBetween(o)'
  BY <1>2, <1>3, <1>4, <1>7, <1>8, <1>9 DEF CopyIsBetween
<1>11. \A i \in D : Present(lane[o].snapshot[i]) => i \in Targets(o)
  BY <1>1, <1>2, <1>3 DEF LaneIsSound
<1>12. WrittenIsSound(o)'
  BY <1>2, <1>8, <1>9, <1>10, <1>11 DEF WrittenIsSound
<1>13. LaneIsSound(o)'
  BY <1>1, <1>2, <1>3, <1>6, <1>7, <1>8, <1>9, <1>12 DEF LaneIsSound
<1> QED  BY <1>1, <1>7, <1>8, <1>13, LaneInv DEF MaintenanceTypeOK

LEMMA NewRow2Type ==
  ASSUME MaintenanceTypeOK, NEW o \in Operators, WrittenIsSound(o), NEW i \in Written(o)
  PROVE  NewRow2(o, i) \in Row2 /\ NewRow2(o, i) # NoRow2
<1>1. lane[o].kind \in {"archive", "rewrite", "append"}
  BY DEF MaintenanceTypeOK, Lane
<1>2. lane[o].kind # "append" => lane[o].rows[i] \in Row2
  BY TargetsFact DEF WrittenIsSound
<1>3. NoRow2.rev = 0
  BY DEF NoRow2
<1>4. CASE lane[o].kind = "archive"
  <2> DEFINE r == lane[o].rows[i]
             n == r.rev + 1
  <2>1. NewRow2(o, i) = [r EXCEPT !.life = "archived", !.rev = n]
    BY <1>4 DEF NewRow2
  <2>2. r \in Row2 /\ n \in Nat \ {0}
    BY <1>2, <1>4, NextRevFact
  <2> HIDE DEF r, n
  <2>3. NewRow2(o, i) \in Row2 /\ NewRow2(o, i).rev = n
    BY <2>1, <2>2, Row2Fact
  <2> QED  BY <1>3, <2>2, <2>3
<1>5. CASE lane[o].kind = "rewrite"
  <2> DEFINE r == lane[o].rows[i]
             n == r.rev + 1
  <2>1. NewRow2(o, i) = [r EXCEPT !.text = Rewritten, !.rev = n]
    BY <1>5 DEF NewRow2
  <2>2. r \in Row2 /\ n \in Nat \ {0}
    BY <1>2, <1>5, NextRevFact
  <2> HIDE DEF r, n
  <2>3. NewRow2(o, i) \in Row2 /\ NewRow2(o, i).rev = n
    BY <2>1, <2>2, Row2Fact
  <2> QED  BY <1>3, <2>2, <2>3
<1>6. CASE lane[o].kind = "append"
  <2>1. lane[o].copy[i] \in 0..Rewritten
    BY VersionsFact DEF WrittenIsSound, CopyIsBetween
  <2>2. NewRow2(o, i) = [life |-> "candidate", text |-> lane[o].copy[i], rev |-> 1]
    BY <1>6 DEF NewRow2
  <2> QED  BY <1>3, <2>1, <2>2 DEF Row2, Lives
<1> QED  BY <1>1, <1>4, <1>5, <1>6

LEMMA ApplyInv ==
  ASSUME MaintenanceInv, NEW o \in Operators, Apply(o)
  PROVE  MaintenanceInv'
<1>1. MaintenanceTypeOK /\ LaneIsSound(o) /\ lane[o] \in Lane /\ UNCHANGED truth1 /\ lane[o].pc = "open"
  BY DEF MaintenanceInv, MaintenanceTypeOK, Apply
<1>2. WrittenIsSound(o)
  BY <1>1 DEF LaneIsSound
<1>3. CASE BoundaryHolds(o)
  <2>1. /\ items2' = [i \in Items |-> IF i \in Written(o) THEN NewRow2(o, i) ELSE items2[i]]
        /\ rollouts' = rollouts \cup {o} /\ Goto(o, "committed")
    BY <1>3 DEF Apply
  <2>2. items2' \in [Items -> Row2] /\ \A i \in Items : items2'[i] = NoRow2 => items2[i] = NoRow2
    BY <1>1, <1>2, <2>1, NewRow2Type DEF MaintenanceTypeOK
  <2> DEFINE l == [lane[o] EXCEPT !.pc = "committed"]
  <2>3. /\ l \in Lane /\ lane' = [lane EXCEPT ![o] = l] /\ lane'[o] = l
        /\ Targets(o)' = Targets(o) /\ Written(o)' = Written(o)
    BY <1>1, <2>1, GotoFact
  <2>4. /\ l.pc = "committed" /\ l.copy = lane[o].copy
        /\ l.snapshot = lane[o].snapshot /\ l.rows = lane[o].rows /\ l.kind = lane[o].kind
    BY <1>1 DEF Lane
  <2> HIDE DEF l
  <2>5. WrittenIsSound(o)'
    BY <1>1, <1>2, <2>3, <2>4 DEF WrittenIsSound, CopyIsBetween
  <2>6. LaneIsSound(o)'
    BY <1>1, <2>1, <2>3, <2>4, <2>5 DEF LaneIsSound
  <2> QED  BY <1>1, <2>1, <2>2, <2>3, <2>4, <2>6, LaneInv
<1>4. CASE ~BoundaryHolds(o)
  <2>1. UNCHANGED <<items2, rollouts>> /\ End(o, "ready")
    BY <1>4 DEF Apply
  <2>2. PICK l \in Lane :
            /\ lane' = [lane EXCEPT ![o] = l] /\ lane'[o] = l /\ l.pc = "ready"
            /\ l.snapshot = lane[o].snapshot /\ l.rows = lane[o].rows /\ l.kind = lane[o].kind
            /\ Targets(o)' = Targets(o)
    BY <1>1, <2>1, EndFact
  <2>3. LaneIsSound(o)'
    BY <1>1, <2>1, <2>2 DEF LaneIsSound
  <2> QED  BY <1>1, <2>1, <2>2, <2>3, LaneInv DEF MaintenanceTypeOK
<1> QED  BY <1>3, <1>4

(* What a lane wrote when V1 is found to be the snapshot's after the commit.   *)
LEMMA ReceiptFact ==
  ASSUME MaintenanceTypeOK, NEW o \in Operators, LaneIsSound(o), WrittenIsSound(o),
         lane[o].pc \notin {"idle", "planned"}, SameV1(truth1, lane[o].snapshot), NEW i \in Written(o)
  PROVE  IF i \in Targets(o) THEN lane[o].copy[i] = lane[o].snapshot[i]
         ELSE lane[o].kind = "append" /\ lane[o].snapshot[i] = 0 /\ truth1[i] = Gone
<1> DEFINE s == lane[o].snapshot[i]
           c == lane[o].copy[i]
           t == truth1[i]
<1>1. i \in Items /\ c \in 1..MaxVersion /\ s <= c /\ c <= t
  BY DEF WrittenIsSound, CopyIsBetween
<1>2. s \in 0..(MaxVersion + 1) /\ t \in 0..(MaxVersion + 1)
  BY <1>1 DEF LaneIsSound, MaintenanceTypeOK, Versions, Gone
<1>3. t = s \/ ~(t \in 1..MaxVersion \/ s \in 1..MaxVersion)
  BY <1>1 DEF SameV1, Present
<1>4. i \in Targets(o) => s >= 1
  BY DEF LaneIsSound
<1>5. i \notin Targets(o) => lane[o].kind = "append" /\ ~(s \in 1..MaxVersion)
  BY DEF WrittenIsSound, Present
<1> HIDE DEF s, c, t
<1>6. MaxVersion \in Nat
  BY MaintenanceAssumption
<1>7. CASE i \in Targets(o)
  <2>1. c = s
    BY <1>1, <1>2, <1>3, <1>4, <1>6, <1>7
  <2> QED  BY <1>7, <2>1 DEF c, s
<1>8. CASE i \notin Targets(o)
  <2>1. s = 0 /\ t = MaxVersion + 1
    BY <1>1, <1>2, <1>3, <1>5, <1>6, <1>8
  <2> QED  BY <1>5, <1>8, <2>1 DEF s, t, Gone
<1> QED  BY <1>7, <1>8

(* The steps that end an execution: a receipt, or none, or a crash.            *)
LEMMA EndInv ==
  ASSUME MaintenanceInv, NEW o \in Operators,
         Receipt(o) \/ ReplayReceipt(o) \/ OperatorCrash(o)
  PROVE  MaintenanceInv'
<1>1. MaintenanceTypeOK /\ LaneIsSound(o) /\ lane[o] \in Lane /\ UNCHANGED <<truth1, items2, rollouts>>
  BY DEF MaintenanceInv, MaintenanceTypeOK, Receipt, ReplayReceipt, OperatorCrash
<1>2. PICK pc \in {"ready", "receipt"} :
         /\ End(o, pc)
         /\ pc = "receipt" => o \in rollouts /\ WrittenIsSound(o) /\ SameV1(truth1, lane[o].snapshot)
  <2>1. CASE Receipt(o)
    BY <1>1, <2>1 DEF Receipt, V1DidNotMove, LaneIsSound
  <2>2. CASE ReplayReceipt(o)
    BY <1>1, <2>2 DEF ReplayReceipt, LaneIsSound
  <2>3. CASE OperatorCrash(o)
    BY <2>3 DEF OperatorCrash
  <2> QED  BY <2>1, <2>2, <2>3
<1>3. PICK l \in Lane :
         /\ lane' = [lane EXCEPT ![o] = l] /\ lane'[o] = l /\ l.pc = pc
         /\ l.snapshot = lane[o].snapshot /\ l.rows = lane[o].rows /\ l.kind = lane[o].kind
         /\ o \in rollouts => l.copy = lane[o].copy
         /\ Targets(o)' = Targets(o) /\ (o \in rollouts => Written(o)' = Written(o))
  BY <1>1, <1>2, EndFact
<1>4. lane[o].pc \notin {"idle", "planned"}
  BY DEF Receipt, ReplayReceipt, OperatorCrash
<1>5. o \in rollouts /\ WrittenIsSound(o) => WrittenIsSound(o)'
  BY <1>1, <1>3 DEF WrittenIsSound, CopyIsBetween
<1>6. LaneIsSound(o)'
  BY <1>1, <1>3, <1>4, <1>5 DEF LaneIsSound
<1>7. pc = "receipt" => \A i \in Written(o) :
         IF i \in Targets(o) THEN lane[o].copy[i] = lane[o].snapshot[i]
         ELSE lane[o].kind = "append" /\ lane[o].snapshot[i] = 0 /\ truth1[i] = Gone
  BY <1>1, <1>2, <1>4, ReceiptFact
<1>8. l.pc = "receipt" =>
         /\ o \in rollouts'
         /\ \A i \in DOMAIN l.copy :
               IF i \in DOMAIN l.rows THEN l.copy[i] = l.snapshot[i]
               ELSE l.kind = "append" /\ l.snapshot[i] = 0 /\ truth1[i] = Gone
  BY <1>1, <1>2, <1>3, <1>7 DEF Written, Targets
<1> QED  BY <1>1, <1>3, <1>6, <1>8, LaneInv DEF MaintenanceTypeOK

LEMMA MaintenanceInvStep == MaintenanceInv /\ [MaintenanceNext]_maintVars => MaintenanceInv'
<1> SUFFICES ASSUME MaintenanceInv, [MaintenanceNext]_maintVars PROVE MaintenanceInv'
  OBVIOUS
<1>0. /\ truth1 \in [Items -> Versions] /\ items2 \in [Items -> Row2]
      /\ \A i \in Items : truth1[i] \in 0..(MaxVersion + 1) /\ truth1[i] <= truth1[i]
      /\ MaxVersion \in Nat
  BY MaintenanceAssumption DEF MaintenanceInv, MaintenanceTypeOK, Versions, Gone
<1>1. ASSUME NEW i \in Items, NEW v \in Versions, truth1[i] <= v,
             truth1' = [truth1 EXCEPT ![i] = v], UNCHANGED <<items2, lane, rollouts>>
      PROVE  MaintenanceInv'
  BY <1>0, <1>1, GatewayInv
<1>2. ASSUME NEW i \in Items, StoreV1(i) \/ EditV1(i) \/ DeleteV1(i) PROVE MaintenanceInv'
  <2>1. CASE StoreV1(i)
    <3>1. 1 \in Versions /\ truth1[i] <= 1
      BY <1>0, <2>1, VersionsFact DEF StoreV1
    <3> QED  BY <1>1, <2>1, <3>1 DEF StoreV1
  <2>2. CASE EditV1(i)
    <3>1. truth1[i] + 1 \in Versions /\ truth1[i] <= truth1[i] + 1
      BY <1>0, <2>2, MaintenanceAssumption DEF EditV1, Versions, Gone
    <3> QED  BY <1>1, <2>2, <3>1 DEF EditV1
  <2>3. CASE DeleteV1(i)
    <3>1. Gone \in Versions /\ truth1[i] <= Gone
      BY <1>0, VersionsFact DEF Gone
    <3> QED  BY <1>1, <2>3, <3>1 DEF DeleteV1
  <2> QED  BY <1>2, <2>1, <2>2, <2>3
<1>3. ASSUME NEW i \in Items, MirrorV1(i) PROVE MaintenanceInv'
  <2> DEFINE r == [life |-> "active", text |-> 1, rev |-> 1]
  <2>1. r \in Row2 /\ r # NoRow2
    BY VersionsFact DEF Row2, Lives, NoRow2
  <2>2. items2' = [items2 EXCEPT ![i] = r] /\ UNCHANGED <<truth1, lane, rollouts>>
    BY <1>3 DEF MirrorV1
  <2> HIDE DEF r
  <2>3. items2' \in [Items -> Row2] /\ \A j \in Items : items2'[j] = NoRow2 => items2[j] = NoRow2
    BY <1>0, <2>1, <2>2
  <2> QED  BY <1>0, <2>2, <2>3, GatewayInv
<1>4. ASSUME NEW o \in Operators,
             PlanLane(o) \/ SnapshotV1(o) \/ CheckSnapshot(o) \/ ReadLegacy(o) \/ CheckPlan(o)
                \/ CheckDelta(o) \/ Apply(o)
      PROVE  MaintenanceInv'
  BY <1>4, PlanLaneInv, SnapshotInv, CheckSnapshotInv, ReadLegacyInv, CheckPlanInv, CheckDeltaInv, ApplyInv
<1>5. ASSUME NEW o \in Operators, Receipt(o) \/ ReplayReceipt(o) \/ OperatorCrash(o)
      PROVE  MaintenanceInv'
  BY <1>5, EndInv
<1>6. CASE UNCHANGED maintVars
  BY <1>0, <1>6, GatewayInv DEF maintVars
<1> QED
  BY <1>2, <1>3, <1>4, <1>5, <1>6 DEF MaintenanceNext

(* A receipt is of the very rows its snapshot holds, though they were compared *)
(* and copied by three different reads while the gateway wrote; but for a row  *)
(* the append lane wrote of a memory that was stored and deleted meanwhile.    *)
THEOREM LaneReceiptsAreTrue == MaintenanceSpec => []ReceiptIsTrue
<1>1. MaintenanceInv => ReceiptIsTrue
  BY DEF MaintenanceInv
<1> QED  BY <1>1, MaintenanceInvInit, MaintenanceInvStep, PTL DEF MaintenanceSpec

(* As many rows as were planned, none of them over a V2 row, and with V1 as it *)
(* was at the snapshot the very rows of the plan.                              *)
LEMMA AppendIsBound ==
  ASSUME MaintenanceInv, NEW o \in Operators, Apply(o), BoundaryHolds(o), lane[o].kind = "append"
  PROVE  IsBoundToReview(o)
<1>1. MaintenanceTypeOK /\ LaneIsSound(o) /\ lane[o].pc = "open"
  BY DEF MaintenanceInv, Apply
<1>2. /\ WrittenIsSound(o) /\ Cardinality(Written(o)) = Cardinality(Targets(o))
      /\ \A i \in Written(o) : items2[i] = NoRow2 /\ Present(truth1[i])
  BY <1>1 DEF LaneIsSound, BoundaryHolds
<1>3. Written(o) \subseteq Items /\ Targets(o) \subseteq Items
  BY <1>1, <1>2, TargetsFact DEF WrittenIsSound, CopyIsBetween
<1>4. \A i \in Items : items2'[i] = IF i \in Written(o) THEN NewRow2(o, i) ELSE items2[i]
  BY DEF Apply
<1>5. ASSUME SameV1(truth1, lane[o].snapshot)
      PROVE  Written(o) = Targets(o) /\ \A i \in Targets(o) : items2'[i].text = lane[o].snapshot[i]
  <2>1. ASSUME NEW i \in Written(o) PROVE i \in Targets(o) /\ lane[o].copy[i] = lane[o].snapshot[i]
    <3>1. i \in Items /\ lane[o].snapshot[i] = truth1[i] /\ Present(lane[o].snapshot[i])
      BY <1>2, <1>3, <1>5 DEF SameV1
    <3>2. /\ lane[o].copy[i] \in Nat /\ lane[o].snapshot[i] \in Nat
          /\ lane[o].snapshot[i] <= lane[o].copy[i] /\ lane[o].copy[i] <= truth1[i]
      BY <1>2, <3>1 DEF WrittenIsSound, CopyIsBetween, Present
    <3> QED  BY <1>2, <3>1, <3>2 DEF WrittenIsSound
  <2>2. Written(o) = Targets(o)
    <3>1. IsFiniteSet(Targets(o)) /\ Written(o) \in SUBSET Targets(o)
      BY <1>3, <2>1, CountFact
    <3> QED  BY <1>2, <3>1, FS_Subset
  <2>3. ASSUME NEW i \in Targets(o) PROVE items2'[i].text = lane[o].snapshot[i]
    <3>1. items2'[i] = [life |-> "candidate", text |-> lane[o].copy[i], rev |-> 1]
      BY <1>3, <1>4, <2>2 DEF NewRow2
    <3> QED  BY <2>1, <2>2, <3>1
  <2> QED  BY <2>2, <2>3
<1> QED  BY <1>2, <1>4, <1>5 DEF IsBoundToReview

LEMMA ReviewedStep ==
  ASSUME MaintenanceInv, MaintenanceNext, NEW o \in Operators,
         rollouts' = rollouts \cup {o}, o \notin rollouts
  PROVE  IsBoundToReview(o)
<1>1. LaneIsSound(o) /\ rollouts' # rollouts
  BY DEF MaintenanceInv
<1>2. PICK q \in Operators : Apply(q)
  BY <1>1 DEF MaintenanceNext, StoreV1, EditV1, DeleteV1, MirrorV1, PlanLane, SnapshotV1, CheckSnapshot,
     ReadLegacy, CheckPlan, CheckDelta, Receipt, ReplayReceipt, OperatorCrash
<1>3. BoundaryHolds(q) /\ rollouts' = rollouts \cup {q}
  BY <1>1, <1>2 DEF Apply
<1>4. q = o
  BY <1>3
<1>5. CASE lane[o].kind = "append"
  BY <1>2, <1>3, <1>4, <1>5, AppendIsBound
<1>6. CASE lane[o].kind # "append"
  <2>1. Written(o) = Targets(o)
    BY <1>1, <1>2, <1>4, <1>6 DEF Apply, LaneIsSound, WrittenIsSound
  <2>2. \A i \in Targets(o) : items2[i] = lane[o].rows[i]
    BY <1>3, <1>4, <1>6 DEF BoundaryHolds, BoundRowsMatch
  <2>3. \A i \in Items : items2'[i] = IF i \in Written(o) THEN NewRow2(o, i) ELSE items2[i]
    BY <1>2, <1>3, <1>4 DEF Apply
  <2> QED  BY <1>6, <2>1, <2>2, <2>3 DEF IsBoundToReview
<1> QED  BY <1>5, <1>6

(* An archive or a rewrite changes only rows of its plan, from the revision    *)
(* that was reviewed; the append lane adds as many rows as were reviewed, and  *)
(* those very rows unless V1 has moved since its snapshot                      *)
(* (live-v1-append-delta-apply.ts, live-candidate-duplicate-archive.ts).       *)
THEOREM ReviewedOnly == MaintenanceSpec => CommitIsBoundToReview
<1>1. MaintenanceInv /\ [MaintenanceNext]_maintVars =>
        [\A o \in Operators : rollouts' = rollouts \cup {o} /\ o \notin rollouts => IsBoundToReview(o)]_maintVars
  BY ReviewedStep
<1> QED  BY <1>1, MaintenanceInvInit, MaintenanceInvStep, PTL DEF MaintenanceSpec, CommitIsBoundToReview

-----------------------------------------------------------------------------
(* PrincipalScope *)

(* What has been verified since the finalizer started has stayed where truth   *)
(* is, or a debt that the assignment does not own says otherwise.              *)
VerifiedIsSound ==
    finalizer.pc # "stopped" =>
        /\ moved # "none"
        /\ \A i \in review \ finalizer.left : vscope[i] = scope1[i] \/ debt[i] = "other"

(* The row in progress was found in the target scope; when a delete took truth *)
(* away since, the vector went with it or has such a debt.                     *)
RowIsSound ==
    finalizer.pc \in {"vector", "move", "confirm"} =>
        /\ finalizer.row \in finalizer.left \cap Rows /\ scope1[finalizer.row] # "source"
        /\ \/ scope1[finalizer.row] = "target" \/ vscope[finalizer.row] = "gone"
           \/ debt[finalizer.row] = "other"

MovedIsOwned == moved # "none" => review \subseteq owner2

ScopeInv == ScopeTypeOK /\ VerifiedIsSound /\ RowIsSound /\ MovedIsOwned

LEMMA ScopeInvInit == ScopeInit => ScopeInv
BY DEF ScopeInit, ScopeInv, ScopeTypeOK, VerifiedIsSound, RowIsSound, MovedIsOwned, Stopped

LEMMA ScopeInvStep == ScopeInv /\ [ScopeNext]_scopeVars => ScopeInv'
<1> SUFFICES ASSUME ScopeInv, [ScopeNext]_scopeVars PROVE ScopeInv'
  OBVIOUS
<1> USE ScopeAssumption DEF ScopeInv, ScopeTypeOK, VerifiedIsSound, RowIsSound, MovedIsOwned, Stopped
<1>1. ASSUME NEW i \in Rows, PatchRow(i) PROVE ScopeInv'
  BY <1>1 DEF PatchRow, VoidPlan
<1>2. ASSUME NEW i \in Rows, DeleteRow(i) PROVE ScopeInv'
  BY <1>2 DEF DeleteRow, VoidPlan
<1>3. ASSUME NEW i \in Rows, RepairRow(i) PROVE ScopeInv'
  BY <1>3 DEF RepairRow
<1>4. CASE PlanMove
  BY <1>4 DEF PlanMove
<1>5. CASE ApplyMove
  BY <1>5 DEF ApplyMove
<1>6. CASE StartFinalize
  BY <1>6 DEF StartFinalize
<1>7. ASSUME NEW i \in Rows, ReadTruth(i) PROVE ScopeInv'
  BY <1>7 DEF ReadTruth, Proceed
<1>8. ASSUME NEW i \in Rows, ReadVector(i) PROVE ScopeInv'
  BY <1>8 DEF ReadVector, Proceed
<1>9. ASSUME NEW i \in Rows, MoveVector(i) PROVE ScopeInv'
  BY <1>9 DEF MoveVector, Proceed
<1>10. ASSUME NEW i \in Rows, ConfirmVector(i) PROVE ScopeInv'
  BY <1>10 DEF ConfirmVector, Proceed
<1>11. CASE CompleteMove
  BY <1>11 DEF CompleteMove
<1>12. CASE FinalizerKilled
  BY <1>12 DEF FinalizerKilled
<1>13. CASE UNCHANGED scopeVars
  BY <1>13 DEF scopeVars
<1> QED
  BY <1>1, <1>2, <1>3, <1>4, <1>5, <1>6, <1>7, <1>8, <1>9, <1>10, <1>11, <1>12, <1>13 DEF ScopeNext

LEMMA CompleteStep ==
  ASSUME ScopeInv, ScopeNext, moved = "pending", moved' = "complete", NEW i \in review
  PROVE  vscope[i] = scope1[i] /\ (scope1[i] = "target" => i \in owner2)
<1>1. CompleteMove /\ NoOtherDebt
  BY DEF ScopeNext, PatchRow, DeleteRow, RepairRow, PlanMove, ApplyMove, StartFinalize, ReadTruth,
     ReadVector, MoveVector, ConfirmVector, CompleteMove, FinalizerKilled
<1> QED  BY <1>1 DEF CompleteMove, NoOtherDebt, ScopeInv, VerifiedIsSound, MovedIsOwned

(* When the migration is closed every row it moved has its vector where truth  *)
(* has the row, whatever the gateway did while the vectors were verified.      *)
THEOREM CompleteConverged == ScopeSpec => CompleteMeansConverged
<1>1. ScopeInv /\ [ScopeNext]_scopeVars =>
        [moved = "pending" /\ moved' = "complete" =>
          \A i \in review : vscope[i] = scope1[i] /\ (scope1[i] = "target" => i \in owner2)]_scopeVars
  BY CompleteStep
<1> QED  BY <1>1, ScopeInvInit, ScopeInvStep, PTL DEF ScopeSpec, CompleteMeansConverged

-----------------------------------------------------------------------------
(* OAuthConfig *)

(* What a command has read and written so far.  A login that set out from an   *)
(* API-key configuration carries that one; any other carries what the first    *)
(* login replaced, which stays next to the path it came from until its end.    *)
CommandInv ==
    /\ command.pc \in {"browser", "session", "backup"} =>
          /\ command.to \in Paths
          /\ IsOAuth => command.from = config.path
          /\ command.from # NoPath => command.llm = replaced /\ backup[command.from] = replaced
          /\ command.from = NoPath => command.write /\ ~IsOAuth
          /\ ~command.write => command.from = command.to
    /\ command.pc \in {"session", "backup"} => command.to \in session
    /\ command.pc = "backup" => backup[command.to] = IF command.from = NoPath THEN command.llm ELSE replaced
    /\ command.pc \in {"restored", "removed"} => ~IsOAuth

OAuthInv == OAuthTypeOK /\ CommandInv /\ LogoutIsPossible

LEMMA OAuthInvInit == OAuthInit => OAuthInv
BY OAuthAssumption DEF OAuthInit, OAuthInv, OAuthTypeOK, CommandInv, LogoutIsPossible, IsOAuth, Resting, Llms

LEMMA OAuthInvStep == OAuthInv /\ [OAuthNext]_oauthVars => OAuthInv'
<1> SUFFICES ASSUME OAuthInv, [OAuthNext]_oauthVars PROVE OAuthInv'
  OBVIOUS
<1> USE OAuthAssumption
<1>1. ASSUME NEW k \in Keys \cup {NoLlm}, EditConfig(k) PROVE OAuthInv'
  BY <1>1 DEF EditConfig, OAuthInv, OAuthTypeOK, CommandInv, LogoutIsPossible, IsOAuth, Llms
<1>2. ASSUME NEW p \in Paths, LoginPlan(p) PROVE OAuthInv'
  BY <1>2 DEF LoginPlan, WritesBackup, OAuthInv, OAuthTypeOK, CommandInv, LogoutIsPossible, IsOAuth, Llms
<1>3. CASE LoginSession
  BY <1>3 DEF LoginSession, OAuthInv, OAuthTypeOK, CommandInv, LogoutIsPossible, IsOAuth
<1>4. CASE LoginBackup
  BY <1>4 DEF LoginBackup, OAuthInv, OAuthTypeOK, CommandInv, LogoutIsPossible, IsOAuth, Llms
<1>5. CASE LoginConfig
  BY <1>5 DEF LoginConfig, OAuthInv, OAuthTypeOK, CommandInv, LogoutIsPossible, IsOAuth, Resting, Llms
<1>6. ASSUME NEW p \in Paths, LogoutConfig(p) PROVE OAuthInv'
  BY <1>6 DEF LogoutConfig, OAuthInv, OAuthTypeOK, CommandInv, LogoutIsPossible, IsOAuth, Resting, Llms
<1>7. CASE LogoutSession
  BY <1>7 DEF LogoutSession, OAuthInv, OAuthTypeOK, CommandInv, LogoutIsPossible, IsOAuth
<1>8. CASE LogoutBackup
  BY <1>8 DEF LogoutBackup, OAuthInv, OAuthTypeOK, CommandInv, LogoutIsPossible, IsOAuth, Resting, Llms
<1>9. CASE CommandKilled
  BY <1>9 DEF CommandKilled, OAuthInv, OAuthTypeOK, CommandInv, LogoutIsPossible, IsOAuth, Resting, Llms
<1>10. CASE UNCHANGED oauthVars
  BY <1>10 DEF oauthVars, OAuthInv, OAuthTypeOK, CommandInv, LogoutIsPossible, IsOAuth
<1> QED
  BY <1>1, <1>2, <1>3, <1>4, <1>5, <1>6, <1>7, <1>8, <1>9, <1>10 DEF OAuthNext

(* An OAuth configuration can be logged out of whatever command was killed     *)
(* half-way: its session is there, and next to it what the first login         *)
(* replaced (auth-commands.ts, auth-config-transaction.ts).                    *)
THEOREM LogoutStaysPossible == OAuthSpec => []LogoutIsPossible
<1>1. OAuthInv => LogoutIsPossible
  BY DEF OAuthInv
<1> QED  BY <1>1, OAuthInvInit, OAuthInvStep, PTL DEF OAuthSpec
=============================================================================
