--------------------------- MODULE SnapshotRestore ---------------------------
(***************************************************************************)
(* The two database files as operators see them: the pipeline writes them, *)
(* SystemBackupManager copies them into an archive, SnapshotRestorer sets  *)
(* them aside as .restore_bak, installs those of an archive and rolls back *)
(* when that fails.  The three share pipeline.lock (timeout 0), except     *)
(* that the pipeline opens DuckDB before it asks for the lock.             *)
(*                                                                         *)
(* The content of a store is the number of the last run committed to it, 0 *)
(* when it was created empty.  A sidecar holds what was committed and not  *)
(* yet folded into its file.  Any process may die between two steps, and   *)
(* any file operation may fail.                                            *)
(***************************************************************************)
EXTENDS Naturals, Sequences, SequencesExt

CONSTANTS
    None,     \* no such file
    Partial,  \* what a failed copy leaves
    MaxRuns   \* bound on the runs of the pipeline

ASSUME SnapshotAssumption ==
    /\ MaxRuns \in Nat
    /\ None # Partial /\ None \notin Nat /\ Partial \notin Nat

VARIABLES
    file,      \* the active files
    bak,       \* the same with .restore_bak
    archives,  \* published snapshots
    lock,      \* holder of pipeline.lock
    runs,      \* the number of the last run
    ppc,       \* the pipeline process
    handle,    \* where the DuckDB file the pipeline has open is now
    spc, staged,                        \* the snapshot process, its copies
    rpc, source, next, \* the restore process
    moved,     \* the list the current loop builds or has yet to walk
    backed, installed, \* backed_up_files and installed_paths of the caller
    outcome,
    before,    \* observation only: the active files when the restore began
    pairs,     \* observation only: every pair of stores a pipeline had open
    raced,     \* observation only: a pipeline had DuckDB open during a restore
    asideFailed \* observation only: this restore failed to set a file aside

restorer == <<rpc, source, next, moved, backed, installed, outcome, before,
              asideFailed>>
pipeline == <<ppc, handle, runs>>
snapshot == <<spc, staged, archives>>
vars == <<file, bak, lock, pipeline, snapshot, restorer, pairs, raced>>

-----------------------------------------------------------------------------
(* Files. *)

\* Faulty: the databases without their sidecars.
ActiveDatabases == <<"sqlite", "duckdb">>

\* active_paths of _install_restored_databases, without the -shm index: it
\* is rebuilt from the -wal, with which it comes and goes.
ActivePaths == <<"sqlite", "sqlite-wal", "duckdb", "duckdb.wal">>

Files == {"sqlite", "sqlite-wal", "duckdb", "duckdb.wal"}

\* restore_names.  An archive may carry a DuckDB sidecar; none does, for it
\* is written after a CHECKPOINT, and the validation folds it in.
RestoreNames == <<"sqlite", "duckdb">>

Content == 0..MaxRuns
State   == Content \cup {None, Partial}
Archive == [sqlite : Content, duckdb : Content]

Usable(f) == f \notin {None, Partial}

\* What a database says: its file with its sidecar.
Logical(main, sidecar) == IF sidecar = None THEN main ELSE sidecar
SQLite(fs) == Logical(fs["sqlite"], fs["sqlite-wal"])
DuckDB(fs) == Logical(fs["duckdb"], fs["duckdb.wal"])

\* The last connection folds the sidecars in and deletes them.
SQLiteFolded(fs) == [fs EXCEPT !["sqlite"] = SQLite(fs), !["sqlite-wal"] = None]
DuckDBFolded(fs) == [fs EXCEPT !["duckdb"] = DuckDB(fs), !["duckdb.wal"] = None]

\* Both stores are there and readable.
Complete == Usable(file["sqlite"]) /\ Usable(file["duckdb"])
Pair == <<SQLite(file), DuckDB(file)>>

FileTypes     == file \in [Files -> State] /\ bak \in [Files -> State]
PipelineTypes == /\ runs \in 0..MaxRuns
                 /\ ppc \in {"off", "opened", "running", "half", "committed"}
                 /\ handle \in {"none", "active", "bak", "lost"}
SnapshotTypes == /\ archives \subseteq Archive
                 /\ spc \in {"off", "locked", "checkpointed", "copied",
                             "archived"}
                 /\ staged \in [sqlite : Content \cup {None},
                                duckdb : Content \cup {None}]
RestoreTypes  == /\ rpc \in {"off", "aside", "install", "remove", "putback",
                             "cleanup", "returning"}
                 /\ source \in Archive \cup {None}
                 /\ next \in 0..Len(ActivePaths) + 1
                 /\ outcome \in {"NONE", "VALIDATION_FAILED", "SUCCEEDED",
                                 "ROLLED_BACK", "UNCERTAIN"}
                 /\ before \in [Files -> State]
ListTypes     == /\ moved \in Seq(Files) /\ backed \in Seq(Files)
                 /\ installed \in Seq(Files)

TypeOK ==
    /\ FileTypes /\ PipelineTypes /\ SnapshotTypes /\ RestoreTypes /\ ListTypes
    /\ lock \in {"free", "pipeline", "snapshot", "restore"}
    /\ pairs \subseteq State \X State
    /\ raced \in BOOLEAN /\ asideFailed \in BOOLEAN

Absent   == [f \in Files |-> None]
Unstaged == [sqlite |-> None, duckdb |-> None]

Init ==
    /\ file = Absent /\ bak = Absent
    /\ archives = {}
    /\ lock = "free"
    /\ runs = 0
    /\ ppc = "off" /\ handle = "none"
    /\ spc = "off" /\ staged = Unstaged
    /\ rpc = "off" /\ source = None /\ next = 0
    /\ moved = <<>> /\ backed = <<>> /\ installed = <<>>
    /\ outcome = "NONE"
    /\ before = Absent
    /\ pairs = {}
    /\ raced = FALSE /\ asideFailed = FALSE

-----------------------------------------------------------------------------
(* The pipeline: RunLifecycleCoordinator, reduced to what it does to files. *)

\* The DuckDB content the pipeline works on.
Held == CASE handle = "active" -> DuckDB(file)
          [] handle = "bak"    -> DuckDB(bak)
          [] OTHER             -> None

\* db_manager.open: an existing sidecar is replayed; beside a file that is
\* created it is deleted.
OpenDuckDB ==
    /\ ppc = "off"
    /\ runs < MaxRuns
    /\ file["duckdb"] # Partial
    /\ file' = IF file["duckdb"] = None
               THEN [file EXCEPT !["duckdb"] = 0, !["duckdb.wal"] = None]
               ELSE DuckDBFolded(file)
    /\ ppc' = "opened" /\ handle' = "active"
    /\ pairs' = pairs \cup {<<SQLite(file'), DuckDB(file')>>}
    /\ raced' = (raced \/ rpc # "off")
    /\ UNCHANGED <<bak, lock, runs, snapshot, restorer>>

\* ControlPlane.open and start_run.  A sidecar beside a file that is created
\* is discarded.
TakeLock ==
    /\ ppc = "opened"
    /\ lock = "free"
    /\ file["sqlite"] # Partial
    /\ lock' = "pipeline"
    /\ runs' = runs + 1
    /\ file' = IF file["sqlite"] = None
               THEN [file EXCEPT !["sqlite"] = 0, !["sqlite-wal"] = None]
               ELSE file
    /\ ppc' = "running"
    /\ pairs' = pairs \cup {<<SQLite(file'), Held>>}
    /\ UNCHANGED <<bak, handle, snapshot, restorer, raced>>

\* Both commits go to a sidecar first.
CommitDuckDB ==
    /\ ppc = "running"
    /\ file' = IF handle = "active" THEN [file EXCEPT !["duckdb.wal"] = runs]
               ELSE file
    /\ bak'  = IF handle = "bak" THEN [bak EXCEPT !["duckdb"] = runs,
                                                  !["duckdb.wal"] = None]
               ELSE bak
    /\ ppc' = "half"
    /\ pairs' = pairs \cup {<<SQLite(file), runs>>}
    /\ UNCHANGED <<lock, handle, runs, snapshot, restorer, raced>>

CommitSQLite ==
    /\ ppc = "half"
    /\ file' = [file EXCEPT !["sqlite-wal"] = runs]
    /\ ppc' = "committed"
    /\ pairs' = pairs \cup {<<runs, Held>>}
    /\ UNCHANGED <<bak, lock, handle, runs, snapshot, restorer, raced>>

Unlock(holder) == lock' = IF lock = holder THEN "free" ELSE lock

\* teardown, also of a pipeline that was refused the lock.
ClosePipeline ==
    /\ ppc # "off"
    /\ LET closed == IF ppc = "opened" THEN file ELSE SQLiteFolded(file) IN
       file' = IF handle = "active" THEN DuckDBFolded(closed) ELSE closed
    /\ ppc' = "off" /\ handle' = "none"
    /\ Unlock("pipeline")
    /\ UNCHANGED <<bak, runs, snapshot, restorer, pairs, raced>>

PipelineDies ==
    /\ ppc # "off"
    /\ ppc' = "off" /\ handle' = "none"
    /\ Unlock("pipeline")
    /\ UNCHANGED <<file, bak, runs, snapshot, restorer, pairs, raced>>

-----------------------------------------------------------------------------
(* SystemBackupManager.create_snapshot. *)

StartSnapshot ==
    /\ spc = "off"
    /\ lock = "free"
    /\ file["sqlite"] # None /\ file["duckdb"] # None
    /\ lock' = "snapshot"
    /\ spc' = "locked"
    /\ UNCHANGED <<file, bak, pipeline, staged, archives, restorer, pairs,
                   raced>>

\* _checkpoint_duckdb.  DuckDB refuses a file that another process has open.
CheckpointDuckDB ==
    /\ spc = "locked"
    /\ handle # "active"
    /\ Usable(file["duckdb"])
    /\ file' = DuckDBFolded(file)
    /\ spc' = "checkpointed"
    /\ UNCHANGED <<bak, lock, pipeline, staged, archives, restorer, pairs,
                   raced>>

\* The backup API reads through the sidecar.
SQLiteCopy == SQLite(file)

CopySQLite ==
    /\ spc = "checkpointed"
    /\ Usable(file["sqlite"])
    /\ staged' = [staged EXCEPT !.sqlite = SQLiteCopy]
    /\ file' = SQLiteFolded(file)
    /\ spc' = "copied"
    /\ UNCHANGED <<bak, lock, pipeline, archives, restorer, pairs, raced>>

WriteArchive ==
    /\ spc = "copied"
    /\ Usable(file["duckdb"])
    /\ staged' = [staged EXCEPT !.duckdb = file["duckdb"]]
    /\ spc' = "archived"
    /\ UNCHANGED <<file, bak, lock, pipeline, archives, restorer, pairs, raced>>

\* An exception or a death: nothing was published.
SnapshotFails ==
    /\ spc # "off"
    /\ spc' = "off" /\ staged' = Unstaged
    /\ lock' = "free"
    /\ UNCHANGED <<file, bak, pipeline, archives, restorer, pairs, raced>>

Publish ==
    /\ spc = "archived"
    /\ archives' = archives \cup {staged}
    /\ spc' = "off" /\ staged' = Unstaged
    /\ lock' = "free"
    /\ UNCHANGED <<file, bak, pipeline, restorer, pairs, raced>>

-----------------------------------------------------------------------------
(* SnapshotRestorer.restore_snapshot. *)

\* The archive is extracted and validated before anything is touched.
StartRestore ==
    /\ rpc = "off"
    /\ lock = "free"
    /\ lock' = "restore"
    /\ before' = file
    /\ moved' = <<>> /\ backed' = <<>> /\ installed' = <<>>
    /\ asideFailed' = FALSE
    /\ \/ \E a \in archives :
            /\ source' = a
            /\ rpc' = "aside" /\ next' = 1
            /\ outcome' = "NONE"
       \/ /\ source' = None
          /\ rpc' = "returning" /\ next' = 0
          /\ outcome' = "VALIDATION_FAILED"
    /\ raced' = (raced \/ ppc # "off")
    /\ UNCHANGED <<file, bak, pipeline, snapshot, pairs>>

\* One file of _backup_active_files: a backup left by an earlier restore goes
\* first.
RemoveOldBackup(f) ==
    /\ file[f] # None /\ bak[f] # None
    /\ bak' = [bak EXCEPT ![f] = None]
    /\ handle' = IF f = "duckdb" /\ handle = "bak" THEN "lost" ELSE handle
    /\ UNCHANGED <<file, next, moved>>

\* Faulty: the list records where the file went, not where it was.
SetAsideRecordingBackup(f) ==
    /\ file[f] # None /\ bak[f] = None
    /\ bak'  = [bak EXCEPT ![f] = file[f]]
    /\ file' = [file EXCEPT ![f] = None]
    /\ handle' = IF f = "duckdb" /\ handle = "active" THEN "bak" ELSE handle
    /\ next' = next + 1
    /\ moved' = Append(moved, f \o ".restore_bak")

SetAside(f) ==
    /\ file[f] # None /\ bak[f] = None
    /\ bak'  = [bak EXCEPT ![f] = file[f]]
    /\ file' = [file EXCEPT ![f] = None]
    /\ handle' = IF f = "duckdb" /\ handle = "active" THEN "bak" ELSE handle
    /\ next' = next + 1
    /\ moved' = Append(moved, f)

NotThere(f) ==
    /\ file[f] = None
    /\ next' = next + 1
    /\ UNCHANGED <<file, bak, handle, moved>>

Aside ==
    /\ rpc = "aside"
    /\ next <= Len(ActivePaths)
    /\ LET f == ActivePaths[next] IN
       RemoveOldBackup(f) \/ SetAside(f) \/ NotThere(f)
    /\ UNCHANGED <<lock, ppc, runs, snapshot, rpc, source, backed, installed,
                   outcome, before, asideFailed, pairs, raced>>

\* The list reaches the caller when the loop has ended.
AsideReturns ==
    /\ rpc = "aside"
    /\ next > Len(ActivePaths)
    /\ backed' = moved
    /\ rpc' = "install" /\ next' = 1
    /\ UNCHANGED <<file, bak, lock, pipeline, snapshot, source, moved,
                   installed, outcome, before, asideFailed, pairs, raced>>

\* The loop raises: the list is lost with its frame.
AsideRaises ==
    /\ rpc = "aside"
    /\ next <= Len(ActivePaths)
    /\ file[ActivePaths[next]] # None
    /\ rpc' = "remove"
    /\ asideFailed' = TRUE
    /\ UNCHANGED <<file, bak, lock, pipeline, snapshot, source, next, moved,
                   backed, installed, outcome, before, pairs, raced>>

\* A file that is open stays readable for its holder when another takes its
\* place.
Displaced(f) == handle' = IF f = "duckdb" /\ handle = "active" THEN "lost"
                          ELSE handle

\* shutil.move of one extracted database.
Install ==
    /\ rpc = "install"
    /\ next <= Len(RestoreNames)
    /\ LET f == RestoreNames[next] IN
       /\ file' = [file EXCEPT ![f] = source[f]]
       /\ Displaced(f)
       /\ installed' = Append(installed, f)
    /\ next' = next + 1
    /\ UNCHANGED <<bak, lock, ppc, runs, snapshot, rpc, source, moved, backed,
                   outcome, before, asideFailed, pairs, raced>>

\* It raises, and between file systems it may have copied a part.
InstallRaises ==
    /\ rpc = "install"
    /\ next <= Len(RestoreNames)
    /\ LET f == RestoreNames[next] IN
       \/ file' = [file EXCEPT ![f] = Partial] /\ Displaced(f)
       \/ UNCHANGED <<file, handle>>
    /\ rpc' = "remove"
    /\ UNCHANGED <<bak, lock, ppc, runs, snapshot, source, next, moved, backed,
                   installed, outcome, before, asideFailed, pairs, raced>>

Installed ==
    /\ rpc = "install"
    /\ next > Len(RestoreNames)
    /\ rpc' = "cleanup"
    /\ UNCHANGED <<file, bak, lock, pipeline, snapshot, source, next, moved,
                   backed, installed, outcome, before, asideFailed, pairs,
                   raced>>

\* _rollback_active_files: what was installed is removed, last first.
RemoveInstalled ==
    /\ rpc = "remove"
    /\ installed # <<>>
    /\ file' = [file EXCEPT ![Last(installed)] = None]
    /\ Displaced(Last(installed))
    /\ installed' = Front(installed)
    /\ UNCHANGED <<bak, lock, ppc, runs, snapshot, rpc, source, next, moved,
                   backed, outcome, before, asideFailed, pairs, raced>>

\* Faulty: in the order in which they were set aside.
ToPutBackForward == backed

\* Faulty: the databases only.
ToPutBackDatabases ==
    Reverse(SelectSeq(backed, LAMBDA f : f \in ToSet(RestoreNames)))

ToPutBack == Reverse(backed)

RemovedAll ==
    /\ rpc = "remove"
    /\ installed = <<>>
    /\ rpc' = "putback"
    /\ moved' = ToPutBack
    /\ UNCHANGED <<file, bak, lock, pipeline, snapshot, source, next, backed,
                   installed, outcome, before, asideFailed, pairs, raced>>

\* Faulty: the backup goes when something is in its place.
PutBackUnlessThere(f) ==
    /\ bak' = [bak EXCEPT ![f] = None]
    /\ file' = IF file[f] = None THEN [file EXCEPT ![f] = bak[f]] ELSE file

\* What is in the place of the backup is removed, then the backup is moved.
PutBackFile(f) ==
    \/ /\ file[f] # None
       /\ file' = [file EXCEPT ![f] = None]
       /\ UNCHANGED bak
    \/ /\ file[f] = None
       /\ file' = [file EXCEPT ![f] = bak[f]]
       /\ bak'  = [bak EXCEPT ![f] = None]

PutBack ==
    /\ rpc = "putback"
    /\ moved # <<>>
    /\ LET f == Head(moved) IN
       \/ /\ bak[f] # None
          /\ PutBackFile(f)
          /\ handle' = CASE f = "duckdb" /\ handle = "active" -> "lost"
                         [] f = "duckdb" /\ handle = "bak" /\ bak'[f] = None
                              -> "active"
                         [] OTHER -> handle
          /\ UNCHANGED moved
       \/ /\ bak[f] = None
          /\ moved' = Tail(moved)
          /\ UNCHANGED <<file, bak, handle>>
    /\ UNCHANGED <<lock, ppc, runs, snapshot, rpc, source, next, backed,
                   installed, outcome, before, asideFailed, pairs, raced>>

\* Any operation of the rollback raises.
RollbackRaises ==
    /\ rpc \in {"remove", "putback"}
    /\ rpc' = "returning"
    /\ outcome' = "UNCERTAIN"
    /\ UNCHANGED <<file, bak, lock, pipeline, snapshot, source, next, moved,
                   backed, installed, before, asideFailed, pairs, raced>>

RolledBack ==
    /\ rpc = "putback"
    /\ moved = <<>>
    /\ rpc' = "returning"
    /\ outcome' = "ROLLED_BACK"
    /\ UNCHANGED <<file, bak, lock, pipeline, snapshot, source, next, moved,
                   backed, installed, before, asideFailed, pairs, raced>>

\* _cleanup_restore_backups: a backup that cannot be removed stays.
Cleanup ==
    /\ rpc = "cleanup"
    /\ moved # <<>>
    /\ LET f == Head(moved) IN
       \/ /\ bak' = [bak EXCEPT ![f] = None]
          /\ handle' = IF f = "duckdb" /\ handle = "bak" THEN "lost" ELSE handle
       \/ UNCHANGED <<bak, handle>>
    /\ moved' = Tail(moved)
    /\ UNCHANGED <<file, lock, ppc, runs, snapshot, rpc, source, next, backed,
                   installed, outcome, before, asideFailed, pairs, raced>>

Succeeded ==
    /\ rpc = "cleanup"
    /\ moved = <<>>
    /\ rpc' = "returning"
    /\ outcome' = "SUCCEEDED"
    /\ UNCHANGED <<file, bak, lock, pipeline, snapshot, source, next, moved,
                   backed, installed, before, asideFailed, pairs, raced>>

\* The result is returned, or the process dies at any step.
RestoreEnds ==
    /\ rpc # "off"
    /\ rpc' = "off" /\ next' = 0 /\ source' = None
    /\ moved' = <<>> /\ backed' = <<>> /\ installed' = <<>>
    /\ outcome' = "NONE" /\ before' = Absent /\ asideFailed' = FALSE
    /\ lock' = "free"
    /\ UNCHANGED <<file, bak, pipeline, snapshot, pairs, raced>>

Pipeline == \/ OpenDuckDB \/ TakeLock \/ CommitDuckDB \/ CommitSQLite
            \/ ClosePipeline \/ PipelineDies
Snapshot == \/ StartSnapshot \/ CheckpointDuckDB \/ CopySQLite \/ WriteArchive
            \/ SnapshotFails \/ Publish
Restore  == \/ StartRestore \/ Aside \/ AsideReturns \/ AsideRaises
            \/ Install \/ InstallRaises \/ Installed
            \/ RemoveInstalled \/ RemovedAll \/ PutBack \/ RollbackRaises
            \/ RolledBack \/ Cleanup \/ Succeeded \/ RestoreEnds

Next == Pipeline \/ Snapshot \/ Restore

Spec == Init /\ [][Next]_vars

-----------------------------------------------------------------------------
(* Properties. *)

ReportsIntact ==
    rpc = "returning" /\ outcome \in {"ROLLED_BACK", "VALIDATION_FAILED"}

\* docs/architecture/backup-and-restore.md, failure matrix: "install fails,
\* rollback succeeds ... previous pair intact".  A restore that reports
\* PREVIOUS_PAIR_INTACT, with no pipeline in between, leaves the active files
\* as it found them, unless a file could not even be set aside: the list of
\* those that were is lost then.
RolledBackIsIntact ==
    ReportsIntact /\ ~raced /\ ~asideFailed
        => \A f \in Files : before[f] # None => file[f] = before[f]

\* NEW_PAIR_INSTALLED: both databases read as they were in the archive, with
\* no sidecar of the previous ones beside them.
NewPairInstalled ==
    rpc = "returning" /\ outcome = "SUCCEEDED"
        => Pair = <<source.sqlite, source.duckdb>>

\* While a restore has not succeeded every file it found is still there, in
\* place or as its backup, whatever fails: "without deleting the previous
\* pair first".
PreviousPairSurvives ==
    rpc \in {"aside", "install", "remove", "putback", "returning"}
    /\ outcome # "SUCCEEDED" /\ ~raced
        => \A f \in Files :
             before[f] # None => before[f] \in {file[f], bak[f]}

\* Whenever both active databases are there they are a pair that a pipeline
\* had, and so are those of every published archive: no death, failure or
\* rollback puts stores of two histories together.
NeverMixed ==
    ~raced => /\ Complete => Pair \in pairs
              /\ \A a \in archives : <<a.sqlite, a.duckdb>> \in pairs

=============================================================================
