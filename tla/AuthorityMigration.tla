-------------------------- MODULE AuthorityMigration --------------------------
(***************************************************************************)
(* The upgrade of a legacy database to SQL truth authority                 *)
(* (sql-authority-migration.ts, SqlTruthStore.upgradeLegacyAuthority): a   *)
(* backup by VACUUM INTO, a prepared receipt, the upgrade in a transaction *)
(* that first compares the database with the backup's digest, and a        *)
(* completed receipt.  Other programs write the database meanwhile; the    *)
(* command may throw, which runs its cleanup, or be killed, which does     *)
(* not; the operator then runs it again, with the same output paths or     *)
(* with new ones.                                                          *)
(***************************************************************************)
EXTENDS Naturals

CONSTANTS
    Outputs,       \* pairs of backup and receipt paths
    MaxContent,    \* contents of the database are 0..MaxContent
    NoOutput

ASSUME MigrationAssumption == MaxContent \in Nat /\ NoOutput \notin Outputs

VARIABLES
    db,          \* status, content, and the internal migration evidence
    backups,     \* content of each backup file
    receipts,    \* status of each external receipt
    migration    \* the running command

migrationVars == <<db, backups, receipts, migration>>

NoBackupFile == MaxContent + 1
Contents == 0..MaxContent
NotRunning == [pc |-> "none", out |-> NoOutput, digest |-> 0]

MigrationTypeOK ==
    /\ db \in [status : {"legacy", "valid"}, content : Contents, from : Contents, digest : Contents]
    /\ backups \in [Outputs -> Contents \cup {NoBackupFile}]
    /\ receipts \in [Outputs -> {"none", "prepared", "failed", "completed"}]
    /\ migration \in [pc : {"none", "ready", "vacuumed", "prepared", "committed", "recovering"},
                      out : Outputs \cup {NoOutput}, digest : Contents]

(* A gateway or another tool writes the database. *)
WriteDatabase ==
    /\ db.content < MaxContent
    /\ db' = [db EXCEPT !.content = @ + 1]
    /\ UNCHANGED <<backups, receipts, migration>>

(* inspectLegacyAuthorityMigration: neither output may exist. *)
StartMigration(o) ==
    /\ migration = NotRunning /\ db.status = "legacy"
    /\ backups[o] = NoBackupFile /\ receipts[o] = "none"
    /\ migration' = [NotRunning EXCEPT !.pc = "ready", !.out = o]
    /\ UNCHANGED <<db, backups, receipts>>

VacuumInto ==
    /\ migration.pc = "ready"
    /\ backups' = [backups EXCEPT ![migration.out] = db.content]
    /\ migration' = [migration EXCEPT !.pc = "vacuumed"]
    /\ UNCHANGED <<db, receipts>>

(* The digest is the backup's, taken after it was flushed. *)
WritePreparedReceipt ==
    /\ migration.pc = "vacuumed"
    /\ receipts' = [receipts EXCEPT ![migration.out] = "prepared"]
    /\ migration' = [migration EXCEPT !.pc = "prepared", !.digest = backups[migration.out]]
    /\ UNCHANGED <<db, backups>>

(* Mutant: the database is not compared under its lock. *)
LockedSnapshotAny == TRUE

(* upgradeLegacyAuthority: BEGIN IMMEDIATE, and the locked database must   *)
(* have the digest of the backup.                                          *)
LockedSnapshot == db.content = migration.digest

UpgradeCommit ==
    /\ migration.pc = "prepared" /\ LockedSnapshot
    /\ db' = [db EXCEPT !.status = "valid", !.from = db.content, !.digest = migration.digest]
    /\ migration' = [migration EXCEPT !.pc = "committed"]
    /\ UNCHANGED <<backups, receipts>>

WriteCompletedReceipt ==
    /\ migration.pc = "committed"
    /\ receipts' = [receipts EXCEPT ![migration.out] = "completed"]
    /\ migration' = NotRunning
    /\ UNCHANGED <<db, backups>>

(* A step throws.  Before the prepared receipt the cleanup removes the     *)
(* backup; after it the receipt says failed, unless the transaction had    *)
(* committed: then the receipt is recovered.                               *)
MigrationThrows ==
    /\ migration.pc \in {"ready", "vacuumed", "prepared", "committed"}
    /\ migration' = IF migration.pc = "committed"
                    THEN [migration EXCEPT !.pc = "recovering"] ELSE NotRunning
    /\ receipts' = IF migration.pc = "prepared"
                   THEN [receipts EXCEPT ![migration.out] = "failed"] ELSE receipts
    /\ backups' = IF receipts[migration.out] = "none"
                  THEN [backups EXCEPT ![migration.out] = NoBackupFile] ELSE backups
    /\ UNCHANGED db

MigrationKilled ==
    /\ migration # NotRunning
    /\ migration' = NotRunning
    /\ UNCHANGED <<db, backups, receipts>>

(* The command is run again after the commit, with outputs of which the    *)
(* backup exists and the receipt does not say completed.                   *)
StartRecovery(o) ==
    /\ migration = NotRunning /\ db.status = "valid"
    /\ backups[o] # NoBackupFile /\ receipts[o] # "completed"
    /\ migration' = [NotRunning EXCEPT !.pc = "recovering", !.out = o]
    /\ UNCHANGED <<db, backups, receipts>>

(* Mutant: any backup will do. *)
BackupExists == backups[migration.out] # NoBackupFile

(* recoverLegacySqlAuthorityReceipt: the backup must be the one the        *)
(* database's own evidence names, by digest.                               *)
BackupMatches == backups[migration.out] = db.digest

RecoverReceipt ==
    /\ migration.pc = "recovering"
    /\ receipts' = IF BackupMatches THEN [receipts EXCEPT ![migration.out] = "completed"]
                   ELSE receipts
    /\ migration' = NotRunning
    /\ UNCHANGED <<db, backups>>

---------------------------------------------------------------------------
MigrationInit ==
    /\ db = [status |-> "legacy", content |-> 0, from |-> 0, digest |-> 0]
    /\ backups = [o \in Outputs |-> NoBackupFile]
    /\ receipts = [o \in Outputs |-> "none"]
    /\ migration = NotRunning

MigrationNext ==
    \/ WriteDatabase
    \/ \E o \in Outputs : StartMigration(o)
    \/ VacuumInto \/ WritePreparedReceipt \/ UpgradeCommit \/ WriteCompletedReceipt
    \/ MigrationThrows \/ MigrationKilled
    \/ \E o \in Outputs : StartRecovery(o)
    \/ RecoverReceipt

MigrationSpec == MigrationInit /\ [][MigrationNext]_migrationVars

---------------------------------------------------------------------------
(* Once the database is upgraded, a backup of exactly what it was before   *)
(* exists, whatever was written between the backup and the transaction and *)
(* whatever was killed, cleaned up or tried again.                         *)
UpgradeCanBeUndone ==
    db.status = "valid" => \E o \in Outputs : receipts[o] # "none" /\ backups[o] = db.from

(* A completed receipt never names a backup that is not of the upgraded    *)
(* content, also when it was recovered with the outputs of another try.    *)
CompletedReceiptIsTrue ==
    \A o \in Outputs : receipts[o] = "completed" => db.status = "valid" /\ backups[o] = db.from

===============================================================================
