------------------------------- MODULE Stack -------------------------------
(***************************************************************************)
(* The compose stack on the VPS: the migration of alembic/, the order in   *)
(* which the playbook and the deploy workflow run it and start the API,    *)
(* the nightly backup and the restore of deploy/README.md.                 *)
(* The two launchers are not excluded from each other, for instance when   *)
(* the first deploy meets the play on a fresh host.  Nobody deploys while  *)
(* a restore is under way, and the first lines of a restore, up to the     *)
(* empty database, are one step.                                           *)
(* Definitions named Operation_What are faulty variants of Operation: each *)
(* shows that a property below would notice the fault.                     *)
(***************************************************************************)
EXTENDS Naturals, Sequences, FiniteSets

CONSTANTS
  Rows,         \* the events that may come to be stored
  KeepDaily,    \* backup_retention_daily
  MaxBackups,   \* bound: runs of the backup script
  MaxDays       \* bound: days

ASSUME RetentionAssumption == KeepDaily \in Nat \ {0}
ASSUME BoundsAssumption == MaxBackups \in Nat /\ MaxDays \in Nat

Launchers == {"play", "workflow", "restore"}

(* What upgrade() creates, in this order: the version table, the enums and *)
(* the table of events, its indexes; last comes the row with the revision. *)
Ddl == <<"alembic_version", "events", "indexes", "revision">>
Objects == {Ddl[i] : i \in 1..4}

(* The order of an archive: tables, their rows by name of the table, then  *)
(* the indexes.                                                            *)
Archive == <<"alembic_version", "events", "revision", "rows", "indexes">>
Beginning(n) == {Archive[i] : i \in 1..n}

VARIABLES
  db,         \* committed objects of the database
  rows,       \* committed rows of events
  tx,         \* what the open transaction of each migration has created
  mig,        \* migration: "off", "reading" the heads, "ddl", "ok", "failed"
  phase,      \* where the launcher is
  apiUp,      \* the API container runs
  day,
  snaps,      \* snapshots of the restic repository
  backup,     \* the script: "off", or "forget" once the pipe has succeeded
  nights,     \* runs of the script so far
  promised,   \* newest snapshot whose dump was whole; ghost
  picked,     \* SNAPSHOT_ID of a restore that is under way
  intact,     \* pg_restore got a whole archive and restored all of it
  cut         \* some restore did not; ghost

dataVars    == <<db, rows>>
migVars     == <<tx, mig>>
backupVars  == <<day, snaps, backup, nights, promised>>
restoreVars == <<picked, intact, cut>>
vars == <<dataVars, migVars, phase, apiUp, backupVars, restoreVars>>

None == [no |-> 0, day |-> 0, parts |-> {}, rows |-> {}, whole |-> FALSE]

Init ==
  /\ db \in {{}, Objects}
  /\ rows = {}
  /\ tx = [l \in Launchers |-> {}]
  /\ mig = [l \in Launchers |-> "off"]
  /\ phase = [l \in Launchers |-> "off"]
  /\ apiUp = FALSE
  /\ day = 1 /\ snaps = {} /\ backup = "off" /\ nights = 0
  /\ promised = None
  /\ picked = None
  /\ intact = TRUE /\ cut = FALSE
-----------------------------------------------------------------------------
(* alembic upgrade head, in one transaction.                               *)

BeginMigration(l) ==
  /\ mig' = [mig EXCEPT ![l] = "reading"]
  /\ tx' = [tx EXCEPT ![l] = {}]

ReadHeads(l) ==
  /\ mig[l] = "reading"
  /\ mig' = [mig EXCEPT ![l] = IF "revision" \in db THEN "ok" ELSE "ddl"]
  /\ UNCHANGED <<dataVars, tx, phase, apiUp, backupVars, restoreVars>>

(* The version table, and only that, is left alone when it is there.       *)
Missing(l) ==
  {i \in 1..4 : Ddl[i] \notin tx[l] /\ ~(Ddl[i] = "alembic_version" /\ Ddl[i] \in db)}

NextObject(l) == Ddl[CHOOSE i \in Missing(l) : \A j \in Missing(l) : i <= j]

Create_IfNotExists(l) ==
  /\ mig[l] = "ddl" /\ Missing(l) # {}
  /\ tx' = [tx EXCEPT ![l] = @ \cup {NextObject(l)}]
  /\ UNCHANGED <<dataVars, mig, phase, apiUp, backupVars, restoreVars>>

(* PostgreSQL lets a CREATE wait while another transaction has the name,   *)
(* and refuses it when that one has committed.                             *)
Create(l) ==
  /\ mig[l] = "ddl" /\ Missing(l) # {}
  /\ LET o == NextObject(l)
     IN /\ \A other \in Launchers \ {l} : o \notin tx[other]
        /\ IF o \in db
           THEN tx' = [tx EXCEPT ![l] = {}] /\ mig' = [mig EXCEPT ![l] = "failed"]
           ELSE tx' = [tx EXCEPT ![l] = @ \cup {o}] /\ UNCHANGED mig
  /\ UNCHANGED <<dataVars, phase, apiUp, backupVars, restoreVars>>

(* The COMMIT; alembic may lose the connection before it hears of it.      *)
CommitMigration(l) ==
  /\ mig[l] = "ddl" /\ Missing(l) = {}
  /\ db' = db \cup tx[l]
  /\ tx' = [tx EXCEPT ![l] = {}]
  /\ \E result \in {"ok", "failed"} : mig' = [mig EXCEPT ![l] = result]
  /\ UNCHANGED <<rows, phase, apiUp, backupVars, restoreVars>>

(* The container or its connection goes away; PostgreSQL rolls back.       *)
MigrationBreaks(l) ==
  /\ mig[l] \in {"reading", "ddl"}
  /\ mig' = [mig EXCEPT ![l] = "failed"]
  /\ tx' = [tx EXCEPT ![l] = {}]
  /\ UNCHANGED <<dataVars, phase, apiUp, backupVars, restoreVars>>

Migrate(l) == ReadHeads(l) \/ Create(l) \/ CommitMigration(l) \/ MigrationBreaks(l)
-----------------------------------------------------------------------------
(* compose up of the playbook, run --rm migrate of the workflow.           *)
Launch(l) ==
  /\ l # "restore"
  /\ phase[l] = "off" /\ phase["restore"] = "off"
  /\ phase' = [phase EXCEPT ![l] = "migrating"]
  /\ BeginMigration(l)
  /\ UNCHANGED <<dataVars, apiUp, backupVars, restoreVars>>

StartApi_Regardless(l) ==
  /\ phase[l] = "migrating" /\ mig[l] \in {"ok", "failed"}
  /\ apiUp' = TRUE
  /\ phase' = [phase EXCEPT ![l] = "off"]
  /\ mig' = [mig EXCEPT ![l] = "off"] /\ UNCHANGED tx
  /\ UNCHANGED <<dataVars, backupVars, restoreVars>>

(* service_completed_successfully, and set -e in the workflow, whose up    *)
(* has --no-deps.  The play then recreates the migrate container.          *)
StartApi(l) ==
  /\ phase[l] = "migrating" /\ mig[l] = "ok"
  /\ apiUp' = TRUE
  /\ IF l = "play"
     THEN phase' = [phase EXCEPT ![l] = "again"] /\ BeginMigration(l)
     ELSE /\ phase' = [phase EXCEPT ![l] = "off"]
          /\ mig' = [mig EXCEPT ![l] = "off"] /\ UNCHANGED tx
  /\ UNCHANGED <<dataVars, backupVars, restoreVars>>

(* A failed migration ends the launcher; an API that runs goes on running. *)
EndLauncher(l) ==
  /\ \/ phase[l] = "migrating" /\ mig[l] = "failed"
     \/ phase[l] = "again" /\ mig[l] \in {"ok", "failed"}
  /\ phase' = [phase EXCEPT ![l] = "off"]
  /\ mig' = [mig EXCEPT ![l] = "off"]
  /\ UNCHANGED <<dataVars, tx, apiUp, backupVars, restoreVars>>

Ingest(r) ==
  /\ apiUp /\ "events" \in db /\ r \notin rows
  /\ rows' = rows \cup {r}
  /\ UNCHANGED <<db, migVars, phase, apiUp, backupVars, restoreVars>>
-----------------------------------------------------------------------------
(* The backup script, by cron or by hand.                                  *)

Snapshot(n) ==
  [no |-> nights + 1, day |-> day, parts |-> db \cap Beginning(n),
   rows |-> IF "rows" \in Beginning(n) THEN rows ELSE {}, whole |-> n = Len(Archive)]

Save(snapshot) ==
  /\ backup = "off" /\ nights < MaxBackups
  /\ nights' = nights + 1
  /\ snaps' = snaps \cup {snapshot}
  /\ UNCHANGED <<dataVars, migVars, phase, apiUp, day, restoreVars>>

BackUp ==
  LET snapshot == Snapshot(Len(Archive))
  IN Save(snapshot) /\ promised' = snapshot /\ backup' = "forget"

BackUpFails_NoPipefail(n) ==
  Save(Snapshot(n)) /\ backup' = "forget" /\ UNCHANGED promised

(* pg_dump breaks off, perhaps at once; restic saves what came through the *)
(* pipe, and pipefail ends the script.                                     *)
BackUpFails(n) ==
  Save(Snapshot(n)) /\ UNCHANGED <<backup, promised>>

Forgotten(s) ==
  \/ \E t \in snaps : t.day = s.day /\ t.no > s.no
  \/ Cardinality({t.day : t \in {u \in snaps : u.day > s.day}}) >= KeepDaily

(* The last snapshot of each of the last KeepDaily days that have one      *)
(* stays; --keep-weekly and --keep-monthly only keep more.                 *)
Forget ==
  /\ backup = "forget"
  /\ snaps' = {s \in snaps : ~Forgotten(s)}
  /\ backup' = "off"
  /\ UNCHANGED <<dataVars, migVars, phase, apiUp, day, nights, promised, restoreVars>>

NextDay ==
  /\ day < MaxDays /\ day' = day + 1
  /\ UNCHANGED <<dataVars, migVars, phase, apiUp, snaps, backup, nights, promised, restoreVars>>
-----------------------------------------------------------------------------
(* The restore of deploy/README.md, a script without set -e.               *)

Latest == IF snaps = {} THEN None ELSE CHOOSE s \in snaps : \A t \in snaps : t.no <= s.no

(* It takes the latest snapshot, stops the stack, removes the volume and   *)
(* starts an empty database.                                               *)
Wipe ==
  /\ \A l \in Launchers : phase[l] = "off"
  /\ picked' = Latest
  /\ phase' = [phase EXCEPT !["restore"] = "wiped"]
  /\ apiUp' = FALSE
  /\ db' = {} /\ rows' = {}
  /\ UNCHANGED <<migVars, backupVars, intact, cut>>

(* pg_restore brings back what it gets, also when the archive breaks off,  *)
(* the repository is away, the snapshot is forgotten meanwhile or the      *)
(* database is not ready after the five seconds (n = 0).                   *)
PgRestore(n) ==
  /\ phase["restore"] = "wiped"
  /\ picked \notin snaps => n = 0
  /\ db' = picked.parts \cap Beginning(n)
  /\ rows' = IF "rows" \in Beginning(n) THEN picked.rows ELSE {}
  /\ intact' = (picked.whole /\ n = Len(Archive))
  /\ cut' = (cut \/ ~intact')
  /\ phase' = [phase EXCEPT !["restore"] = "migrating"]
  /\ BeginMigration("restore")
  /\ picked' = None
  /\ UNCHANGED <<apiUp, backupVars>>

Next ==
  \/ \E l \in Launchers : Migrate(l) \/ Launch(l) \/ StartApi(l) \/ EndLauncher(l)
  \/ \E r \in Rows : Ingest(r)
  \/ BackUp \/ (\E n \in 0..(Len(Archive) - 1) : BackUpFails(n)) \/ Forget \/ NextDay
  \/ Wipe \/ \E n \in 0..Len(Archive) : PgRestore(n)

Spec == Init /\ [][Next]_vars
-----------------------------------------------------------------------------
(* Beside the types: what one transaction has created no other has, and    *)
(* the database does not have it yet.                                      *)
TypeOK ==
  /\ db \subseteq Objects /\ rows \subseteq Rows
  /\ tx \in [Launchers -> SUBSET Objects]
  /\ mig \in [Launchers -> {"off", "reading", "ddl", "ok", "failed"}]
  /\ phase \in [Launchers -> {"off", "migrating", "again", "wiped"}]
  /\ apiUp \in BOOLEAN
  /\ snaps \subseteq
       [no : 1..nights, day : 1..day, parts : SUBSET Objects, rows : SUBSET Rows, whole : BOOLEAN]
  /\ backup \in {"off", "forget"}
  /\ intact \in BOOLEAN /\ cut \in BOOLEAN
  /\ \A l \in Launchers : tx[l] \cap db = {} /\ \A m \in Launchers \ {l} : tx[l] \cap tx[m] = {}

(* The API never serves a database without the table and its revision,     *)
(* however launchers overlap, whatever migration breaks and even after a   *)
(* restore that was cut short (docker-compose.yml:6-7, its template:54-58, *)
(* deploy.yml:110-111).  Unless there was one the schema is there as a     *)
(* whole or not at all (env.py:45-50).                                     *)
NeverServesUnmigrated ==
  /\ apiUp => {"events", "revision"} \subseteq db
  /\ cut \/ db \in {{}, Objects}

(* The newest backup that did not fail is kept whatever failed dumps come  *)
(* after it, and the database has all rows of it, also after a restore,    *)
(* unless pg_restore reported an error (backup.sh.j2:13, 30-41,            *)
(* deploy/README.md:359-367).                                              *)
LastBackupHolds ==
  promised # None =>
    /\ promised \in snaps
    /\ intact /\ phase["restore"] # "wiped" => promised.rows \subseteq rows
=============================================================================
