---------------------------- MODULE StackProofs ----------------------------
(***************************************************************************)
(* Proofs about Stack, for any number of rows, backups and days and any    *)
(* retention.                                                              *)
(***************************************************************************)
EXTENDS Stack, FiniteSetTheorems, TLAPS

-----------------------------------------------------------------------------
(* The inductive invariant, in parts.                                      *)

Snapshots == [no : Nat, day : Nat, parts : SUBSET Objects, rows : SUBSET Rows, whole : BOOLEAN]

Types ==
  /\ db \subseteq Objects /\ rows \subseteq Rows
  /\ tx \in [Launchers -> SUBSET Objects]
  /\ mig \in [Launchers -> {"off", "reading", "ddl", "ok", "failed"}]
  /\ phase \in [Launchers -> {"off", "migrating", "again", "wiped"}]
  /\ apiUp \in BOOLEAN
  /\ day \in Nat /\ day >= 1
  /\ snaps \subseteq Snapshots
  /\ backup \in {"off", "forget"}
  /\ nights \in Nat
  /\ promised \in Snapshots /\ picked \in Snapshots
  /\ intact \in BOOLEAN /\ cut \in BOOLEAN

(* Only a migration in its DDL has a transaction, no two of them have      *)
(* created the same object, and none an object that is there.              *)
Transactions ==
  /\ \A l \in Launchers : mig[l] # "ddl" => tx[l] = {}
  /\ \A l \in Launchers : tx[l] \cap db = {}
  /\ \A l, m \in Launchers : l # m => tx[l] \cap tx[m] = {}

(* A restore has the stack for itself, and between the removal of the      *)
(* volume and pg_restore nothing fills the database.                       *)
Phases ==
  /\ \A l \in Launchers : mig[l] = "off" <=> phase[l] \in {"off", "wiped"}
  /\ \A l \in Launchers : phase[l] = "wiped" => l = "restore"
  /\ phase["restore"] # "off" => \A l \in Launchers \ {"restore"} : phase[l] = "off"
  /\ phase["restore"] = "wiped" => ~apiUp /\ db = {} /\ rows = {}

(* What a database or an archive may have.                                 *)
Sound(parts) == "revision" \in parts => "events" \in parts

Schema ==
  /\ Sound(db)
  /\ \A l \in Launchers : mig[l] = "ok" => "revision" \in db
  /\ apiUp => "revision" \in db
  /\ cut \/ db \in {{}, Objects}
  /\ \A s \in snaps \cup {picked} :
       Sound(s.parts) /\ (cut \/ ~s.whole \/ s.parts \in {{}, Objects})

(* Snapshots are numbered in the order of their days, and promised is the  *)
(* newest that is whole.                                                   *)
Repository ==
  /\ \A s \in snaps : s.no \in 1..nights /\ s.day \in 1..day
  /\ \A s, t \in snaps : s.no = t.no => s = t
  /\ \A s, t \in snaps : s.no < t.no => s.day <= t.day
  /\ snaps # {} => \E s \in snaps : \A t \in snaps : t.no <= s.no
  /\ promised = None \/ (promised \in snaps /\ promised.whole)
  /\ \A s \in snaps : s.whole => promised # None /\ s.no <= promised.no
  /\ backup = "forget" => promised \in snaps /\ promised.no = nights

(* The rows of promised are in the database, or in what a restore is about *)
(* to bring back.                                                          *)
Kept ==
  IF phase["restore"] = "wiped"
  THEN picked.whole => promised.rows \subseteq picked.rows
  ELSE intact => promised.rows \subseteq rows

Parts == Types /\ Transactions /\ Phases /\ Schema /\ Repository /\ Kept
-----------------------------------------------------------------------------
(* Facts about the constant orders.                                        *)

LEMMA ObjectsAre == Objects = {"alembic_version", "events", "indexes", "revision"}
  BY DEF Objects, Ddl

LEMMA WholeArchive ==
  /\ Len(Archive) = 5
  /\ Objects \cup {"rows"} = Beginning(5)
  BY DEF Archive, Beginning, Objects, Ddl

(* An archive has the table of events before the row with the revision.    *)
LEMMA BeginningIsSound ==
  ASSUME NEW n \in 0..Len(Archive)
  PROVE  Sound(Beginning(n))
<1>1. n \in 0..5
  BY WholeArchive
<1>2. CASE n <= 2
  BY <1>1, <1>2 DEF Sound, Beginning, Archive
<1>3. CASE n >= 3
  BY <1>1, <1>3 DEF Sound, Beginning, Archive
<1>4. QED
  BY <1>1, <1>2, <1>3

LEMMA NoneIsASnapshot == None \in Snapshots /\ None.rows = {} /\ None.parts = {} /\ None.whole = FALSE
  BY DEF None, Snapshots

(* What a migration creates next is an object it has not created.          *)
LEMMA NextIsMissing ==
  ASSUME NEW l \in Launchers, Missing(l) # {}
  PROVE  NextObject(l) \in Objects /\ NextObject(l) \notin tx[l]
<1>1. \E i \in Missing(l) : \A j \in Missing(l) : i <= j
  <2>1. Missing(l) \subseteq {1, 2, 3, 4}
    BY DEF Missing
  <2>2. QED
    BY <2>1
<1>2. PICK i \in Missing(l) : NextObject(l) = Ddl[i]
  BY <1>1 DEF NextObject
<1>3. QED
  BY <1>2 DEF Missing, Objects

(* With nothing missing, the COMMIT leaves the whole schema.               *)
LEMMA NothingMissing ==
  ASSUME NEW l \in Launchers, Missing(l) = {}
  PROVE  Objects \subseteq db \cup tx[l]
  BY DEF Missing, Objects
-----------------------------------------------------------------------------
LEMMA InitHolds ==
  ASSUME Init
  PROVE  Parts
<1>1. Types
  <2>1. db \subseteq Objects /\ rows \subseteq Rows /\ snaps \subseteq Snapshots
    BY DEF Init
  <2>2. tx \in [Launchers -> SUBSET Objects] /\ day >= 1
    BY DEF Init
  <2>3. QED
    BY <2>1, <2>2, NoneIsASnapshot DEF Init, Types
<1>2. Transactions /\ Phases /\ Kept
  BY NoneIsASnapshot DEF Init, Transactions, Phases, Kept, Launchers
<1>3. Schema
  BY NoneIsASnapshot, ObjectsAre DEF Init, Schema, Sound
<1>4. Repository
  BY NoneIsASnapshot DEF Init, Repository
<1>5. QED
  BY <1>1, <1>2, <1>3, <1>4 DEF Parts

LEMMA StutterKeeps ==
  ASSUME Parts, UNCHANGED vars
  PROVE  Parts'
<1> USE DEF vars, dataVars, migVars, backupVars, restoreVars, Parts
<1>1. Types' /\ Transactions'
  BY DEF Types, Transactions
<1>2. Phases' /\ Kept'
  BY DEF Phases, Kept
<1>3. Schema'
  BY DEF Schema, Sound
<1>4. Repository'
  BY DEF Repository
<1>5. QED
  BY <1>1, <1>2, <1>3, <1>4
-----------------------------------------------------------------------------
(* Migrations and launchers leave the repository alone.                    *)

LEMMA BackupsUntouched ==
  ASSUME Repository, UNCHANGED backupVars
  PROVE  Repository'
  BY DEF Repository, backupVars

LEMMA MigrateKeeps ==
  ASSUME Parts, NEW l \in Launchers, Migrate(l)
  PROVE  Parts'
<1> USE DEF dataVars, restoreVars
<1>0. Types /\ Transactions /\ Phases /\ Schema /\ Repository /\ Kept
  BY DEF Parts
<1>a. Repository'
  BY <1>0, BackupsUntouched DEF Migrate, ReadHeads, Create, CommitMigration, MigrationBreaks
<1>1. CASE ReadHeads(l)
  <2>1. Types' /\ Transactions'
    BY <1>0, <1>1 DEF ReadHeads, Types, Transactions, backupVars
  <2>2. Phases' /\ Kept'
    BY <1>0, <1>1 DEF ReadHeads, Types, Phases, Kept, backupVars
  <2>3. Schema'
    BY <1>0, <1>1 DEF ReadHeads, Types, Schema, Sound, backupVars
  <2>4. QED
    BY <1>a, <2>1, <2>2, <2>3 DEF Parts
<1>2. CASE Create(l)
  <2>0. NextObject(l) \in Objects /\ mig[l] = "ddl"
    BY <1>2, NextIsMissing DEF Create
  <2>1. Types'
    BY <1>0, <1>2, <2>0 DEF Create, Types, backupVars
  <2>2. Transactions'
    BY <1>0, <1>2, <2>0 DEF Create, Types, Transactions
  <2>3. Phases' /\ Kept'
    BY <1>0, <1>2, <2>0 DEF Create, Types, Phases, Kept, backupVars
  <2>4. Schema'
    BY <1>0, <1>2, <2>0 DEF Create, Types, Schema, Sound, backupVars
  <2>5. QED
    BY <1>a, <2>1, <2>2, <2>3, <2>4 DEF Parts
<1>3. CASE CommitMigration(l)
  <2>0. db' = Objects /\ mig[l] = "ddl"
    BY <1>0, <1>3, NothingMissing DEF CommitMigration, Types
  <2>1. Types'
    BY <1>0, <1>3, <2>0 DEF CommitMigration, Types, backupVars
  <2>2. Transactions'
    BY <1>0, <1>3 DEF CommitMigration, Types, Transactions
  <2>3. Phases' /\ Kept'
    BY <1>0, <1>3 DEF CommitMigration, Types, Phases, Kept, backupVars
  <2>4. Schema'
    BY <1>0, <1>3, <2>0, ObjectsAre DEF CommitMigration, Types, Schema, Sound, backupVars
  <2>5. QED
    BY <1>a, <2>1, <2>2, <2>3, <2>4 DEF Parts
<1>4. CASE MigrationBreaks(l)
  <2>1. Types' /\ Transactions'
    BY <1>0, <1>4 DEF MigrationBreaks, Types, Transactions, backupVars
  <2>2. Phases' /\ Kept'
    BY <1>0, <1>4 DEF MigrationBreaks, Types, Phases, Kept, backupVars
  <2>3. Schema'
    BY <1>0, <1>4 DEF MigrationBreaks, Types, Schema, Sound, backupVars
  <2>4. QED
    BY <1>a, <2>1, <2>2, <2>3 DEF Parts
<1>5. QED
  BY <1>1, <1>2, <1>3, <1>4 DEF Migrate

LEMMA LauncherKeeps ==
  ASSUME Parts, NEW l \in Launchers, Launch(l) \/ StartApi(l) \/ EndLauncher(l)
  PROVE  Parts'
<1> USE DEF dataVars, restoreVars
<1>0. Types /\ Transactions /\ Phases /\ Schema /\ Repository /\ Kept
  BY DEF Parts
<1>r. "restore" \in Launchers /\ "play" # "restore"
  BY DEF Launchers
<1>a. Repository'
  BY <1>0, BackupsUntouched DEF Launch, StartApi, EndLauncher
<1>1. CASE Launch(l)
  <2>1. Types' /\ Transactions'
    BY <1>0, <1>1 DEF Launch, BeginMigration, Types, Transactions, backupVars
  <2>2. Phases' /\ Kept'
    BY <1>0, <1>1, <1>r DEF Launch, BeginMigration, Types, Phases, Kept, backupVars
  <2>3. Schema'
    BY <1>0, <1>1 DEF Launch, BeginMigration, Types, Schema, Sound, backupVars
  <2>4. QED
    BY <1>a, <2>1, <2>2, <2>3 DEF Parts
<1>2. CASE StartApi(l)
  <2>1. Types' /\ Transactions'
    BY <1>0, <1>2 DEF StartApi, BeginMigration, Types, Transactions, backupVars
  <2>2. Phases'
    BY <1>0, <1>2, <1>r DEF StartApi, BeginMigration, Types, Phases
  <2>3. Kept'
    BY <1>0, <1>2, <1>r DEF StartApi, BeginMigration, Types, Phases, Kept, backupVars
  <2>4. Schema'
    BY <1>0, <1>2 DEF StartApi, BeginMigration, Types, Schema, Sound, backupVars
  <2>5. QED
    BY <1>a, <2>1, <2>2, <2>3, <2>4 DEF Parts
<1>3. CASE EndLauncher(l)
  <2>1. Types' /\ Transactions'
    BY <1>0, <1>3 DEF EndLauncher, Types, Transactions, backupVars
  <2>2. Phases' /\ Kept'
    BY <1>0, <1>3, <1>r DEF EndLauncher, Types, Phases, Kept, backupVars
  <2>3. Schema'
    BY <1>0, <1>3 DEF EndLauncher, Types, Schema, Sound, backupVars
  <2>4. QED
    BY <1>a, <2>1, <2>2, <2>3 DEF Parts
<1>4. QED
  BY <1>1, <1>2, <1>3

LEMMA IngestKeeps ==
  ASSUME Parts, NEW r \in Rows, Ingest(r)
  PROVE  Parts'
<1> USE DEF migVars, restoreVars
<1>0. Types /\ Transactions /\ Phases /\ Schema /\ Repository /\ Kept
  BY DEF Parts
<1>1. Types' /\ Transactions'
  BY <1>0 DEF Ingest, Types, Transactions, backupVars
<1>2. Phases' /\ Kept'
  BY <1>0 DEF Ingest, Phases, Kept, backupVars
<1>3. Schema'
  BY <1>0 DEF Ingest, Schema, Sound, backupVars
<1>4. Repository'
  BY <1>0, BackupsUntouched DEF Ingest
<1>5. QED
  BY <1>1, <1>2, <1>3, <1>4 DEF Parts
-----------------------------------------------------------------------------
(* A backup and what it adds to the repository.                            *)

LEMMA SnapshotHasType ==
  ASSUME Types, NEW n \in 0..Len(Archive)
  PROVE  /\ Snapshot(n) \in Snapshots
         /\ Snapshot(n).no = nights + 1 /\ Snapshot(n).day = day
         /\ Snapshot(n).parts = db \cap Beginning(n)
         /\ Snapshot(n).rows \subseteq rows
         /\ Snapshot(n).whole = (n = Len(Archive))
  BY DEF Types, Snapshot, Snapshots

(* A whole archive has the database as it is, a part of it is as sound.    *)
LEMMA SnapshotIsSound ==
  ASSUME Types, Schema, NEW n \in 0..Len(Archive)
  PROVE  /\ Sound(Snapshot(n).parts)
         /\ cut \/ ~Snapshot(n).whole \/ Snapshot(n).parts \in {{}, Objects}
<1>1. Sound(Snapshot(n).parts)
  BY SnapshotHasType, BeginningIsSound DEF Schema, Sound
<1>2. ASSUME Snapshot(n).whole PROVE Snapshot(n).parts = db
  <2>1. n = 5 /\ Snapshot(n).parts = db \cap Beginning(n)
    BY <1>2, SnapshotHasType, WholeArchive
  <2>2. db \subseteq Beginning(5)
    BY WholeArchive DEF Types
  <2>3. QED
    BY <2>1, <2>2
<1>3. QED
  BY <1>1, <1>2 DEF Schema

(* What every run of the script has in common.                             *)
LEMMA SaveKeeps ==
  ASSUME Parts, NEW n \in 0..Len(Archive), Save(Snapshot(n)),
         backup' \in {"off", "forget"}, promised' \in Snapshots
  PROVE  /\ Types' /\ Transactions' /\ Phases' /\ Schema'
         /\ \A s \in snaps' : s.no \in 1..nights' /\ s.day \in 1..day'
         /\ \A s, t \in snaps' : s.no = t.no => s = t
         /\ \A s, t \in snaps' : s.no < t.no => s.day <= t.day
         /\ \E s \in snaps' : \A t \in snaps' : t.no <= s.no
<1> USE DEF dataVars, migVars, restoreVars
<1>0. Types /\ Transactions /\ Phases /\ Schema /\ Repository
  BY DEF Parts
<1>1. Types'
  BY <1>0, SnapshotHasType DEF Save, Types
<1>2. Transactions' /\ Phases'
  BY <1>0 DEF Save, Transactions, Phases
<1>3. Schema'
  BY <1>0, SnapshotIsSound DEF Save, Schema, Sound
<1> DEFINE new == Snapshot(n)
<1>4. /\ new.no = nights + 1 /\ new.day = day /\ nights \in Nat /\ day \in Nat /\ day >= 1
      /\ snaps' = snaps \cup {new} /\ nights' = nights + 1 /\ day' = day
      /\ \A s \in snaps : s.no \in Nat /\ s.day \in Nat /\ s.no <= nights /\ s.day <= day
                          /\ s.no >= 1 /\ s.day >= 1
  BY <1>0, SnapshotHasType DEF Save, Types, Repository, Snapshots
<1> HIDE DEF new
<1>5. \A s \in snaps' : s.no \in 1..nights' /\ s.day \in 1..day'
  BY <1>4
<1>6. \A s, t \in snaps' : s.no = t.no => s = t
  BY <1>0, <1>4 DEF Repository
<1>7. \A s, t \in snaps' : s.no < t.no => s.day <= t.day
  BY <1>0, <1>4 DEF Repository
<1>8. \E s \in snaps' : \A t \in snaps' : t.no <= s.no
  <2>1. new \in snaps' /\ \A t \in snaps' : t.no <= new.no
    BY <1>4
  <2>2. QED
    BY <2>1
<1>9. QED
  BY <1>1, <1>2, <1>3, <1>5, <1>6, <1>7, <1>8

LEMMA BackUpKeeps ==
  ASSUME Parts, BackUp
  PROVE  Parts'
<1> DEFINE new == Snapshot(Len(Archive))
<1>0. Types /\ Repository /\ Kept /\ Phases
  BY DEF Parts
<1>1. Len(Archive) \in 0..Len(Archive)
  BY WholeArchive
<1>2. /\ new \in Snapshots /\ new.whole = TRUE /\ new.no = nights + 1
      /\ new.rows \subseteq rows
  BY <1>0, <1>1, SnapshotHasType
<1>3. /\ Save(new) /\ promised' = new /\ backup' = "forget"
      /\ snaps' = snaps \cup {new} /\ nights' = nights + 1
      /\ rows' = rows /\ phase' = phase /\ intact' = intact /\ picked' = picked
  BY DEF BackUp, Save, dataVars, restoreVars
<1>4. /\ Types' /\ Transactions' /\ Phases' /\ Schema'
      /\ \A s \in snaps' : s.no \in 1..nights' /\ s.day \in 1..day'
      /\ \A s, t \in snaps' : s.no = t.no => s = t
      /\ \A s, t \in snaps' : s.no < t.no => s.day <= t.day
      /\ \E s \in snaps' : \A t \in snaps' : t.no <= s.no
  BY <1>1, <1>2, <1>3, SaveKeeps
<1>5. promised' # None
  BY <1>2, <1>3, NoneIsASnapshot
<1>6. Repository'
  BY <1>0, <1>2, <1>3, <1>4, <1>5 DEF Repository, Types
<1>7. Kept'
  BY <1>0, <1>2, <1>3 DEF Kept, Phases
<1>8. QED
  BY <1>4, <1>6, <1>7 DEF Parts

LEMMA BackUpFailsKeeps ==
  ASSUME Parts, NEW n \in 0..(Len(Archive) - 1), BackUpFails(n)
  PROVE  Parts'
<1> DEFINE new == Snapshot(n)
<1>0. Types /\ Repository /\ Kept
  BY DEF Parts
<1>1. n \in 0..Len(Archive) /\ n # Len(Archive)
  BY WholeArchive
<1>2. new.whole = FALSE
  BY <1>0, <1>1, SnapshotHasType
<1>3. /\ Save(new) /\ promised' = promised /\ backup' = backup /\ backup = "off"
      /\ snaps' = snaps \cup {new} /\ nights' = nights + 1
      /\ rows' = rows /\ phase' = phase /\ intact' = intact /\ picked' = picked
  BY DEF BackUpFails, Save, dataVars, restoreVars
<1>4. /\ Types' /\ Transactions' /\ Phases' /\ Schema'
      /\ \A s \in snaps' : s.no \in 1..nights' /\ s.day \in 1..day'
      /\ \A s, t \in snaps' : s.no = t.no => s = t
      /\ \A s, t \in snaps' : s.no < t.no => s.day <= t.day
      /\ \E s \in snaps' : \A t \in snaps' : t.no <= s.no
  BY <1>0, <1>1, <1>3, SaveKeeps DEF Types
<1>5. Repository'
  BY <1>0, <1>2, <1>3, <1>4 DEF Repository
<1>6. Kept'
  BY <1>0, <1>3 DEF Kept
<1>7. QED
  BY <1>4, <1>5, <1>6 DEF Parts

(* The newest whole snapshot is the last of its day, and no later day has  *)
(* one when forget runs.                                                   *)
LEMMA PromisedIsNotForgotten ==
  ASSUME Types, Repository, backup = "forget"
  PROVE  promised \in snaps /\ ~Forgotten(promised)
<1>1. /\ promised \in snaps
      /\ \A t \in snaps : t.no \in Nat /\ t.day \in Nat /\ t.no <= promised.no
                          /\ t.day <= promised.day
  BY DEF Types, Repository, Snapshots
<1>2. ~\E t \in snaps : t.day = promised.day /\ t.no > promised.no
  BY <1>1
<1>3. {t.day : t \in {u \in snaps : u.day > promised.day}} = {}
  BY <1>1
<1>4. Cardinality({t.day : t \in {u \in snaps : u.day > promised.day}}) = 0
  BY <1>3, FS_EmptySet
<1>5. ~(Cardinality({t.day : t \in {u \in snaps : u.day > promised.day}}) >= KeepDaily)
  BY <1>4, RetentionAssumption
<1>6. QED
  BY <1>1, <1>2, <1>5 DEF Forgotten

LEMMA ForgetKeeps ==
  ASSUME Parts, Forget
  PROVE  Parts'
<1> USE DEF dataVars, migVars, restoreVars
<1>0. Types /\ Transactions /\ Phases /\ Schema /\ Repository /\ Kept
  BY DEF Parts
<1>1. promised \in snaps' /\ snaps' \subseteq snaps
  BY <1>0, PromisedIsNotForgotten DEF Forget
<1>2. Types' /\ Transactions' /\ Phases' /\ Kept'
  BY <1>0, <1>1 DEF Forget, Types, Transactions, Phases, Kept
<1>3. Schema'
  BY <1>0, <1>1 DEF Forget, Schema, Sound
<1>4. Repository'
  <2>1. \A t \in snaps' : t.no <= promised.no
    BY <1>0, <1>1 DEF Forget, Repository, Types, Snapshots
  <2>2. QED
    BY <1>0, <1>1, <2>1 DEF Forget, Repository
<1>5. QED
  BY <1>2, <1>3, <1>4 DEF Parts

LEMMA NextDayKeeps ==
  ASSUME Parts, NextDay
  PROVE  Parts'
<1> USE DEF dataVars, migVars, restoreVars, Parts
<1>1. Types' /\ Transactions' /\ Phases' /\ Kept'
  BY DEF NextDay, Types, Transactions, Phases, Kept
<1>2. Schema'
  BY DEF NextDay, Schema, Sound
<1>3. Repository'
  BY DEF NextDay, Repository, Types
<1>4. QED
  BY <1>1, <1>2, <1>3
-----------------------------------------------------------------------------
(* The restore.                                                            *)

(* When the latest snapshot is whole it is the newest whole one.           *)
LEMMA LatestIsPromised ==
  ASSUME Types, Repository
  PROVE  /\ Latest \in snaps \cup {None}
         /\ Latest.whole => promised = Latest
         /\ snaps = {} => promised = None
<1>1. CASE snaps = {}
  BY <1>1, NoneIsASnapshot DEF Latest, Repository
<1>2. CASE snaps # {}
  <2>1. \E s \in snaps : \A t \in snaps : t.no <= s.no
    BY <1>2 DEF Repository
  <2>2. Latest \in snaps /\ \A t \in snaps : t.no <= Latest.no
    BY <1>2, <2>1 DEF Latest
  <2>3. ASSUME Latest.whole PROVE promised = Latest
    BY <2>2, <2>3 DEF Types, Repository, Snapshots
  <2>4. QED
    BY <1>2, <2>2, <2>3
<1>3. QED
  BY <1>1, <1>2

LEMMA WipeKeeps ==
  ASSUME Parts, Wipe
  PROVE  Parts'
<1> USE DEF migVars
<1>0. Types /\ Transactions /\ Phases /\ Schema /\ Repository
  BY DEF Parts
<1>r. "restore" \in Launchers
  BY DEF Launchers
<1>a. \A l \in Launchers : phase[l] = "off" /\ mig[l] = "off" /\ tx[l] = {}
  BY <1>0 DEF Wipe, Phases, Transactions
<1>b. Latest \in Snapshots /\ Latest \in snaps \cup {None}
  BY <1>0, LatestIsPromised, NoneIsASnapshot DEF Types
<1>1. Types'
  BY <1>0, <1>b DEF Wipe, Types, backupVars
<1>2. Transactions'
  BY <1>a DEF Wipe, Transactions
<1>3. Phases'
  BY <1>0, <1>r, <1>a DEF Wipe, Phases, Types
<1>4. Schema'
  <2>1. Sound(None.parts) /\ ~None.whole
    BY NoneIsASnapshot DEF Sound
  <2>2. QED
    BY <1>0, <1>a, <1>b, <2>1 DEF Wipe, Schema, Sound, backupVars
<1>5. Repository'
  BY <1>0, BackupsUntouched DEF Wipe
<1>6. Kept'
  BY <1>0, <1>r, LatestIsPromised DEF Wipe, Kept, Types, backupVars
<1>7. QED
  BY <1>1, <1>2, <1>3, <1>4, <1>5, <1>6 DEF Parts

LEMMA PgRestoreKeeps ==
  ASSUME Parts, NEW n \in 0..Len(Archive), PgRestore(n)
  PROVE  Parts'
<1>0. Types /\ Transactions /\ Phases /\ Schema /\ Repository /\ Kept
  BY DEF Parts
<1>r. "restore" \in Launchers /\ \A l \in Launchers : l # "restore" => phase[l] = "off"
  BY <1>0 DEF Launchers, PgRestore, Phases
<1>a. \A l \in Launchers : mig[l] = "off" /\ tx[l] = {}
  BY <1>0, <1>r DEF PgRestore, Phases, Transactions
<1>b. /\ mig' = [mig EXCEPT !["restore"] = "reading"]
      /\ tx' = [tx EXCEPT !["restore"] = {}]
      /\ phase' = [phase EXCEPT !["restore"] = "migrating"]
      /\ apiUp' = apiUp /\ apiUp = FALSE
  BY <1>0 DEF PgRestore, BeginMigration, Phases, Types
<1>c. /\ db' = picked.parts \cap Beginning(n)
      /\ rows' \subseteq picked.rows
      /\ intact' => picked.whole /\ n = 5 /\ rows' = picked.rows
      /\ intact' \in BOOLEAN /\ cut' \in BOOLEAN
      /\ ~cut' => ~cut /\ intact'
      /\ picked' = None /\ snaps' = snaps /\ promised' = promised
      /\ backup' = backup /\ day' = day /\ nights' = nights
  BY <1>0, WholeArchive DEF PgRestore, backupVars, Types
<1>d. picked.parts \subseteq Objects /\ picked.rows \subseteq Rows
  BY <1>0 DEF Types, Snapshots
<1>1. Types'
  BY <1>0, <1>b, <1>c, <1>d, NoneIsASnapshot DEF Types
<1>2. Transactions'
  BY <1>0, <1>a, <1>b DEF Transactions, Types
<1>3. Phases'
  BY <1>0, <1>r, <1>a, <1>b DEF Phases, Types
<1>4. Schema'
  <2>1. Sound(db')
    BY <1>0, <1>c, BeginningIsSound DEF Schema, Sound
  <2>2. cut' \/ db' \in {{}, Objects}
    <3>1. ASSUME ~cut' PROVE db' = picked.parts /\ picked.whole /\ ~cut
      BY <1>c, <1>d, <3>1, WholeArchive
    <3>2. QED
      BY <1>0, <3>1 DEF Schema
  <2>3. \A l \in Launchers : mig'[l] # "ok"
    BY <1>0, <1>a, <1>b DEF Types
  <2>4. Sound(None.parts) /\ ~None.whole
    BY NoneIsASnapshot DEF Sound
  <2>5. QED
    BY <1>0, <1>b, <1>c, <2>1, <2>2, <2>3, <2>4 DEF Schema, Sound
<1>5. Repository'
  BY <1>0, BackupsUntouched DEF PgRestore
<1>6. Kept'
  BY <1>0, <1>r, <1>b, <1>c DEF Kept, Types, PgRestore
<1>7. QED
  BY <1>1, <1>2, <1>3, <1>4, <1>5, <1>6 DEF Parts
-----------------------------------------------------------------------------
LEMMA StepKeeps ==
  ASSUME Parts, [Next]_vars
  PROVE  Parts'
<1>1. CASE UNCHANGED vars
  BY <1>1, StutterKeeps
<1>2. ASSUME NEW l \in Launchers, Migrate(l) \/ Launch(l) \/ StartApi(l) \/ EndLauncher(l)
      PROVE  Parts'
  BY <1>2, MigrateKeeps, LauncherKeeps
<1>3. CASE \E r \in Rows : Ingest(r)
  BY <1>3, IngestKeeps
<1>4. CASE BackUp \/ (\E n \in 0..(Len(Archive) - 1) : BackUpFails(n)) \/ Forget \/ NextDay
  BY <1>4, BackUpKeeps, BackUpFailsKeeps, ForgetKeeps, NextDayKeeps
<1>5. CASE Wipe \/ \E n \in 0..Len(Archive) : PgRestore(n)
  BY <1>5, WipeKeeps, PgRestoreKeeps
<1>6. QED
  BY <1>1, <1>2, <1>3, <1>4, <1>5 DEF Next

(* Launchers, migrations, backups and restores agree in every reachable    *)
(* state.                                                                  *)
THEOREM StackInvariance == Spec => []Parts
<1>1. Init => Parts
  BY InitHolds
<1>2. Parts /\ [Next]_vars => Parts'
  BY StepKeeps
<1>3. QED
  BY <1>1, <1>2, PTL DEF Spec

(* Every variable keeps its type, and no two migrations create the same    *)
(* object.                                                                 *)
THEOREM StackTypeCorrect == Spec => []TypeOK
<1>1. Parts => TypeOK
  BY DEF Parts, Types, Transactions, Repository, Snapshots, TypeOK
<1>2. QED
  BY <1>1, StackInvariance, PTL

(* The API never serves a database without its table and revision, and the *)
(* schema is there as a whole or not at all unless a restore was cut short. *)
THEOREM NeverEverServesUnmigrated == Spec => []NeverServesUnmigrated
<1>1. Parts => NeverServesUnmigrated
  BY DEF Parts, Schema, Sound, NeverServesUnmigrated
<1>2. QED
  BY <1>1, StackInvariance, PTL

(* The newest backup that did not fail is never forgotten, and an intact   *)
(* restore brings back what it has, for any retention of a day or more.    *)
THEOREM LastBackupAlwaysHolds == Spec => []LastBackupHolds
<1>1. Parts => LastBackupHolds
  BY DEF Parts, Repository, Kept, LastBackupHolds
<1>2. QED
  BY <1>1, StackInvariance, PTL
=============================================================================
