-------------------------- MODULE ProgramMigration --------------------------
(***************************************************************************)
(* LegacyWorkspaceMigrator (platform/persistence/migrations.py) at work on *)
(* the documents of ProgramDocuments: execute backs the legacy JSON files  *)
(* up and adopts those without a row as version 1, rollback deletes the    *)
(* rows it adopted.  A migration is named by the hash of the files.  The   *)
(* import of workflow objects in the same transaction is left out.         *)
(***************************************************************************)
EXTENDS ProgramDocuments

VARIABLES
    stage,       \* per migrator: where its execute is
    plan,        \* per migrator: the files its migration_id is the hash of
    copy,        \* per migrator: the files in its backup, as verified
    backups,     \* migration ids whose backup directory exists
    migrations,  \* rows of legacy_migrations with their file ledger
    imported,    \* rows of legacy_migration_program_documents
    trouble      \* the last error the migrator raised by itself

migration == <<stage, plan, copy, backups, migrations, imported, trouble>>
systemVars == <<vars, migration>>

Files == [Doc -> Payload \cup {None}]
NoFiles == [d \in Doc |-> None]

MigrationTypeOK ==
    /\ stage \in [Migrator -> {"idle", "planned", "backup"}]
    /\ plan \in [Migrator -> Files] /\ copy \in [Migrator -> Files]
    /\ backups \subseteq Files
    /\ migrations \subseteq [id : Files, source : Files, status : {"applied", "rolled_back"}]
    /\ imported \subseteq [id : Files, doc : Doc]
    /\ trouble \in {"none", "backup exists", "document changed"}

MigrationInit ==
    /\ stage = [m \in Migrator |-> "idle"]
    /\ plan = [m \in Migrator |-> NoFiles] /\ copy = [m \in Migrator |-> NoFiles]
    /\ backups = {} /\ migrations = {} /\ imported = {}
    /\ trouble = "none"

Applied(id) == \E r \in migrations : r.id = id /\ r.status = "applied"

SetStage(m, s) == stage' = [stage EXCEPT ![m] = s]

-----------------------------------------------------------------------------
(* execute                                                                  *)

\* dry_run before the lock gives the migration its id; with no files, or with
\* a migration applied under that id, execute returns at once.
PlanMigration(m) ==
    /\ stage[m] = "idle"
    /\ file # NoFiles
    /\ ~Applied(file)
    /\ plan' = [plan EXCEPT ![m] = file]
    /\ SetStage(m, "planned")
    /\ UNCHANGED <<vars, copy, backups, migrations, imported, trouble>>

\* dry_run again, under the lock: the status is new, the id is still the old one.
AlreadyApplied(m) ==
    /\ stage[m] = "planned" /\ holder = None
    /\ Applied(file)
    /\ SetStage(m, "idle")
    /\ UNCHANGED <<vars, plan, copy, backups, migrations, imported, trouble>>

RefuseBackup(m) ==
    /\ stage[m] = "planned" /\ holder = None
    /\ ~Applied(file)
    /\ plan[m] \in backups
    /\ trouble' = "backup exists"
    /\ SetStage(m, "idle")
    /\ UNCHANGED <<vars, plan, copy, backups, migrations, imported>>

\* The files are copied to the backup directory and compared with the plan.
BackUp(m) ==
    /\ stage[m] = "planned" /\ holder = None
    /\ ~Applied(file)
    /\ plan[m] \notin backups
    /\ holder' = m
    /\ backups' = backups \cup {plan[m]}
    /\ copy' = [copy EXCEPT ![m] = file]
    /\ SetStage(m, "backup")
    /\ UNCHANGED <<objects, database, file, todo, pc, calls, refusal, plan, migrations, imported, trouble>>

\* Mutant of Adopted: an existing row is overwritten.
AdoptedAll(m) == {d \in Doc : copy[m][d] # None}

\* The documents that adopt_legacy_document inserts: those without a row.
Adopted(m) == {d \in Doc : copy[m][d] # None /\ document[d] = None}

\* One database transaction, then the report; execute returns.
Import(m) ==
    /\ stage[m] = "backup"
    /\ LET first == [d \in Doc |-> [version |-> 1, payload |-> copy[m][d]]]
           new == Adopted(m)
       IN  /\ objects' = objects \cup {copy[m][d] : d \in new}
           /\ document' = [d \in Doc |-> IF d \in new THEN first[d] ELSE document[d]]
           /\ index' = [d \in Doc |-> IF d \in new THEN first[d] ELSE index[d]]
           /\ events' = [d \in Doc |-> IF d \in new THEN Append(events[d], first[d]) ELSE events[d]]
           /\ imported' = imported \cup {[id |-> plan[m], doc |-> d] : d \in new}
    /\ migrations' = migrations \cup {[id |-> plan[m], source |-> copy[m], status |-> "applied"]}
    /\ SetStage(m, "idle")
    /\ holder' = IF holder = m THEN None ELSE holder
    /\ UNCHANGED <<pending, file, todo, pc, calls, refusal, plan, copy, backups, trouble>>

\* execute raises or dies; what it has copied stays.
FailMigration(m) ==
    /\ stage[m] # "idle"
    /\ SetStage(m, "idle")
    /\ holder' = IF holder = m THEN None ELSE holder
    /\ UNCHANGED <<objects, database, file, todo, pc, calls, refusal,
                   plan, copy, backups, migrations, imported, trouble>>

-----------------------------------------------------------------------------
(* rollback                                                                 *)

ImportedBy(r) == {d \in Doc : [id |-> r.id, doc |-> d] \in imported}

\* Mutant of Untouched: the version of the document is not looked at.
UntouchedPayload(r, d) ==
    document[d] # None /\ document[d].payload = r.source[d]

\* The document is still the version 1 that migration r imported.
Untouched(r, d) == document[d] = [version |-> 1, payload |-> r.source[d]]

\* What the cascade leaves of the pending rows.
Remaining(gone) ==
    IF \A i \in DOMAIN pending : pending[i].doc \notin gone
    THEN pending
    ELSE SelectSeq(pending, LAMBDA t : t.doc \notin gone)

\* Mutant of RollBack: the documents of the file ledger are deleted, not those
\* of the import ledger.
RollBackSources(m, r) ==
    /\ stage[m] = "idle" /\ holder = None
    /\ r.status = "applied"
    /\ LET gone == {d \in Doc : Untouched(r, d)} IN
         /\ document' = [d \in Doc |-> IF d \in gone THEN None ELSE document[d]]
         /\ index' = [d \in Doc |-> IF d \in gone THEN None ELSE index[d]]
         /\ events' = [d \in Doc |-> IF d \in gone THEN << >> ELSE events[d]]
         /\ pending' = Remaining(gone)
    /\ migrations' = (migrations \ {r}) \cup {[r EXCEPT !.status = "rolled_back"]}
    /\ UNCHANGED <<objects, file, holder, todo, pc, calls, refusal,
                   stage, plan, copy, backups, imported, trouble>>

\* One database transaction under the lock; the deletes cascade from the rows.
RollBack(m, r) ==
    /\ stage[m] = "idle" /\ holder = None
    /\ r.status = "applied"
    /\ LET gone == ImportedBy(r) IN
         /\ \A d \in gone : Untouched(r, d)
         /\ document' = [d \in Doc |-> IF d \in gone THEN None ELSE document[d]]
         /\ index' = [d \in Doc |-> IF d \in gone THEN None ELSE index[d]]
         /\ events' = [d \in Doc |-> IF d \in gone THEN << >> ELSE events[d]]
         /\ pending' = Remaining(gone)
    /\ migrations' = (migrations \ {r}) \cup {[r EXCEPT !.status = "rolled_back"]}
    /\ UNCHANGED <<objects, file, holder, todo, pc, calls, refusal,
                   stage, plan, copy, backups, imported, trouble>>

RefuseRollBack(m, r) ==
    /\ stage[m] = "idle" /\ holder = None
    /\ r.status = "applied"
    /\ \E d \in ImportedBy(r) : ~Untouched(r, d)
    /\ trouble' = "document changed"
    /\ UNCHANGED <<vars, stage, plan, copy, backups, migrations, imported>>

-----------------------------------------------------------------------------
MigratorNext(m) ==
    \/ PlanMigration(m) \/ AlreadyApplied(m) \/ RefuseBackup(m)
    \/ BackUp(m) \/ Import(m) \/ FailMigration(m)
    \/ \E r \in migrations : RollBack(m, r) \/ RefuseRollBack(m, r)

SystemNext ==
    \/ Next /\ UNCHANGED migration
    \/ \E m \in Migrator : MigratorNext(m)

SystemInit == Init /\ MigrationInit

SystemSpec == SystemInit /\ [][SystemNext]_systemVars

-----------------------------------------------------------------------------
(* Properties                                                               *)

\* What the repository promises without migrations holds with them: no import
\* or rollback, cut short or not, puts it in a state it later refuses.
RepositoryIsSound ==
    /\ MigrationTypeOK
    /\ PendingIsLatest /\ ProjectionFollows /\ NeverRefuses
    /\ HistoriesStand

\* Every row of the repository comes from a write or from a migration that is
\* still applied: a rollback leaves nothing of its import behind.
Wrote(w, d) == version[w] > 0 /\ request[w].doc = d

RowsHaveOrigin ==
    \A d \in Doc : document[d] # None =>
        \/ \E w \in Writer : Wrote(w, d)
        \/ \E r \in migrations : r.status = "applied" /\ d \in ImportedBy(r)

\* As long as a migration is applied, the versions it imported are the roots of
\* their histories, whatever else is written, imported or rolled back.
ImportsAreKept ==
    \A r \in migrations : r.status = "applied" =>
        \A d \in ImportedBy(r) :
            events[d] # << >> /\ events[d][1] = [version |-> 1, payload |-> r.source[d]]

\* What is there was written, or imported by a migration that stands, and what
\* such a migration imported is there.
ImportsAreSound == RowsHaveOrigin /\ ImportsAreKept

\* "Migrations are ... restartable": execute can be run again after it stopped.
Restartable == trouble # "backup exists"
=============================================================================
