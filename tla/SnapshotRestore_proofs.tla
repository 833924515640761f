------------------------ MODULE SnapshotRestore_proofs ------------------------
(***************************************************************************)
(* The lock excludes, a restore that does not succeed keeps every file it  *)
(* found, one that rolls back puts them where they were, one that succeeds *)
(* leaves the archived pair, and no pipeline, archive or restore ever puts *)
(* a database beside the log of another history.  For any number of runs.  *)
(***************************************************************************)
EXTENDS SnapshotRestore, TLAPS

-----------------------------------------------------------------------------
(* Types. *)

\* A sidecar is never partial: only databases are copied.
NoPartialSidecar(fs) == fs["sqlite-wal"] # Partial /\ fs["duckdb.wal"] # Partial

FileInv    == FileTypes /\ NoPartialSidecar(file) /\ NoPartialSidecar(bak)
RunInv     == PipelineTypes /\ (ppc = "opened" => runs < MaxRuns)
StagedInv  == /\ SnapshotTypes
              /\ spc \in {"copied", "archived"} => staged.sqlite \in Content
              /\ spc = "archived" => staged.duckdb \in Content
RestorerInv == /\ RestoreTypes
               /\ rpc \in {"aside", "install"} => source \in Archive /\ next >= 1
LockTypes  == lock \in {"free", "pipeline", "snapshot", "restore"}
GhostTypes == pairs \subseteq State \X State
FlagTypes  == raced \in BOOLEAN /\ asideFailed \in BOOLEAN

TypeInv == /\ FileInv /\ RunInv /\ StagedInv /\ RestorerInv /\ ListTypes
           /\ LockTypes /\ GhostTypes /\ FlagTypes

LEMMA Constants == /\ None # Partial /\ None \notin Content /\ Partial \notin Content
                   /\ None \in State /\ Partial \in State /\ 0 \in Content
                   /\ Content \subseteq State
                   /\ Len(ActivePaths) = 4 /\ Len(RestoreNames) = 2
                   /\ \A i \in 1..4 : ActivePaths[i] \in Files
                   /\ \A i \in 1..2 : RestoreNames[i] \in {"sqlite", "duckdb"}
  BY SnapshotAssumption DEF Content, State, ActivePaths, RestoreNames, Files

\* What folding and reading give, of a set of files without partial sidecars.
LEMMA LogicalType ==
    ASSUME NEW fs \in [Files -> State], NoPartialSidecar(fs)
    PROVE  /\ SQLite(fs) \in State /\ DuckDB(fs) \in State
           /\ Usable(fs["sqlite"]) => SQLite(fs) \in Content
           /\ SQLiteFolded(fs) \in [Files -> State]
           /\ DuckDBFolded(fs) \in [Files -> State]
           /\ NoPartialSidecar(SQLiteFolded(fs))
           /\ NoPartialSidecar(DuckDBFolded(fs))
  BY Constants DEF SQLite, DuckDB, Logical, SQLiteFolded, DuckDBFolded, Files,
                   State, Usable, NoPartialSidecar

LEMMA TypeInit == Init => TypeInv
<1> SUFFICES ASSUME Init PROVE TypeInv
  OBVIOUS
<1>0. Absent \in [Files -> State] /\ NoPartialSidecar(Absent)
  BY Constants DEF Absent, NoPartialSidecar, Files
<1>1. FileInv /\ RestorerInv
  BY <1>0, Constants
  DEF Init, FileInv, FileTypes, RestorerInv, RestoreTypes
<1>2. RunInv /\ StagedInv
  BY SnapshotAssumption
  DEF Init, RunInv, PipelineTypes, StagedInv, SnapshotTypes, Unstaged
<1>3. ListTypes /\ LockTypes /\ GhostTypes
  BY DEF Init, ListTypes, LockTypes, GhostTypes
<1>4. FlagTypes
  BY DEF Init, FlagTypes
<1>5. QED
  BY <1>1, <1>2, <1>3, <1>4 DEF TypeInv

\* The files after a step of the pipeline or of a snapshot.
LEMMA FileStep == TypeInv /\ (Pipeline \/ Snapshot) => FileInv'
<1> SUFFICES ASSUME TypeInv, Pipeline \/ Snapshot PROVE FileInv'
  OBVIOUS
<1> USE DEF TypeInv, FileInv, FileTypes
<1>0. /\ DuckDBFolded(file) \in [Files -> State]
      /\ NoPartialSidecar(DuckDBFolded(file))
      /\ SQLiteFolded(file) \in [Files -> State]
      /\ NoPartialSidecar(SQLiteFolded(file))
      /\ DuckDBFolded(SQLiteFolded(file)) \in [Files -> State]
      /\ NoPartialSidecar(DuckDBFolded(SQLiteFolded(file)))
  BY LogicalType
<1>1. runs \in Content
  BY DEF RunInv, PipelineTypes, Content
<1>2. CASE OpenDuckDB
  BY <1>0, <1>2, Constants DEF OpenDuckDB, Files, NoPartialSidecar
<1>3. CASE TakeLock
  BY <1>3, Constants DEF TakeLock, Files, NoPartialSidecar
<1>4. CASE CommitDuckDB
  BY <1>1, <1>4, Constants DEF CommitDuckDB, Files, NoPartialSidecar
<1>5. CASE CommitSQLite
  BY <1>1, <1>5, Constants DEF CommitSQLite, Files, NoPartialSidecar
<1>6. CASE ClosePipeline
  BY <1>0, <1>6 DEF ClosePipeline
<1>7. CASE CheckpointDuckDB \/ CopySQLite
  BY <1>0, <1>7 DEF CheckpointDuckDB, CopySQLite
<1>8. CASE UNCHANGED <<file, bak>>
  BY <1>8 DEF NoPartialSidecar
<1>9. QED
  BY <1>2, <1>3, <1>4, <1>5, <1>6, <1>7, <1>8
  DEF Pipeline, Snapshot, PipelineDies, StartSnapshot, WriteArchive,
      SnapshotFails, Publish

\* Its other variables.
LEMMA TypePipeline == TypeInv /\ Pipeline => TypeInv'
<1> SUFFICES ASSUME TypeInv, Pipeline PROVE TypeInv'
  OBVIOUS
<1>1. FileInv'
  BY FileStep
<1>2. RunInv' /\ LockTypes'
  BY SnapshotAssumption
  DEF TypeInv, RunInv, PipelineTypes, LockTypes, Pipeline, OpenDuckDB,
      TakeLock, CommitDuckDB, CommitSQLite, ClosePipeline, PipelineDies, Unlock
<1>3. StagedInv' /\ RestorerInv' /\ ListTypes'
  <2>1. UNCHANGED <<snapshot, restorer>>
    BY DEF Pipeline, OpenDuckDB, TakeLock, CommitDuckDB, CommitSQLite,
           ClosePipeline, PipelineDies
  <2>2. QED
    BY <2>1 DEF TypeInv, StagedInv, SnapshotTypes, RestorerInv, RestoreTypes,
                ListTypes, snapshot, restorer
<1>4. GhostTypes'
  <2>1. /\ Held \in State /\ SQLite(file) \in State
        /\ SQLite(file)' \in State /\ DuckDB(file)' \in State
        /\ runs \in State
    BY <1>1, LogicalType, Constants
    DEF TypeInv, FileInv, FileTypes, Held, RunInv, PipelineTypes, Content
  <2>2. QED
    BY <2>1 DEF TypeInv, GhostTypes, Pipeline, OpenDuckDB, TakeLock,
                CommitDuckDB, CommitSQLite, ClosePipeline, PipelineDies
<1>5. FlagTypes'
  BY Zenon DEF TypeInv, FlagTypes, Pipeline, OpenDuckDB, TakeLock, CommitDuckDB,
         CommitSQLite, ClosePipeline, PipelineDies, restorer
<1>6. QED
  BY <1>1, <1>2, <1>3, <1>4, <1>5 DEF TypeInv

\* The steps of a snapshot.
LEMMA TypeSnapshot == TypeInv /\ Snapshot => TypeInv'
<1> SUFFICES ASSUME TypeInv, Snapshot PROVE TypeInv'
  OBVIOUS
<1>1. FileInv'
  BY FileStep
<1>2. StagedInv'
  <2> USE DEF TypeInv, StagedInv, SnapshotTypes
  <2>1. CASE StartSnapshot
    BY <2>1 DEF StartSnapshot
  <2>2. CASE CheckpointDuckDB
    BY <2>2 DEF CheckpointDuckDB
  <2>3. CASE CopySQLite
    BY <2>3, LogicalType DEF CopySQLite, SQLiteCopy, FileInv, FileTypes
  <2>4. CASE WriteArchive
    <3>1. file["duckdb"] \in Content
      BY <2>4 DEF WriteArchive, Usable, State, Files, FileInv, FileTypes
    <3>2. QED
      BY <2>4, <3>1 DEF WriteArchive
  <2>5. CASE SnapshotFails
    BY <2>5 DEF SnapshotFails, Unstaged
  <2>6. CASE Publish
    <3>1. staged \in Archive
      BY <2>6 DEF Publish, Archive
    <3>2. QED
      BY <2>6, <3>1 DEF Publish, Unstaged
  <2>7. QED
    BY <2>1, <2>2, <2>3, <2>4, <2>5, <2>6 DEF Snapshot
<1>3. RunInv' /\ RestorerInv' /\ ListTypes' /\ GhostTypes' /\ FlagTypes'
  <2>1. UNCHANGED <<pipeline, restorer, pairs, raced>>
    BY DEF Snapshot, StartSnapshot, CheckpointDuckDB, CopySQLite, WriteArchive,
           SnapshotFails, Publish
  <2>2. QED
    BY <2>1 DEF TypeInv, RunInv, PipelineTypes, RestorerInv, RestoreTypes,
                ListTypes, GhostTypes, FlagTypes, pipeline, restorer
<1>4. LockTypes'
  BY DEF TypeInv, LockTypes, Snapshot, StartSnapshot, CheckpointDuckDB,
         CopySQLite, WriteArchive, SnapshotFails, Publish
<1>5. QED
  BY <1>1, <1>2, <1>3, <1>4 DEF TypeInv

\* The files after a step of a restore.
LEMMA RestoreFileStep == TypeInv /\ Restore => FileInv'
<1> SUFFICES ASSUME TypeInv, Restore PROVE FileInv'
  OBVIOUS
<1> USE DEF TypeInv, FileInv, FileTypes
<1>1. CASE Aside
  <2>1. PICK f \in Files : RemoveOldBackup(f) \/ SetAside(f) \/ NotThere(f)
    BY <1>1, Constants DEF Aside, RestorerInv, RestoreTypes
  <2>2. QED
    BY <2>1, Constants
    DEF RemoveOldBackup, SetAside, NotThere, NoPartialSidecar, Files
<1>2. CASE Install
  <2>0. RestoreNames[next] \in {"sqlite", "duckdb"}
    BY <1>2, Constants DEF Install, RestorerInv, RestoreTypes
  <2>1. PICK f \in {"sqlite", "duckdb"} : file' = [file EXCEPT ![f] = source[f]]
    BY <1>2, <2>0 DEF Install
  <2>2. source[f] \in State
    BY <1>2, <2>1, Constants DEF Install, RestorerInv, Archive
  <2>3. bak' = bak
    BY <1>2 DEF Install
  <2>4. QED
    BY <2>1, <2>2, <2>3 DEF NoPartialSidecar, Files
<1>3. CASE InstallRaises
  <2>1. PICK f \in {"sqlite", "duckdb"} :
          file' = [file EXCEPT ![f] = Partial] \/ file' = file
    BY <1>3, Constants DEF InstallRaises, RestorerInv, RestoreTypes
  <2>2. bak' = bak
    BY <1>3 DEF InstallRaises
  <2>3. QED
    BY <2>1, <2>2, Constants DEF NoPartialSidecar, Files
<1>4. CASE RemoveInstalled
  <2>1. Last(installed) \in Files
    BY <1>4 DEF RemoveInstalled, ListTypes, Last
  <2>2. file' = [file EXCEPT ![Last(installed)] = None] /\ bak' = bak
    BY <1>4 DEF RemoveInstalled
  <2>3. QED
    BY <2>1, <2>2, Constants DEF NoPartialSidecar, Files
<1>5. CASE PutBack
  <2>1. Head(moved) \in Files
    BY <1>5 DEF PutBack, ListTypes
  <2>2. PutBackFile(Head(moved)) \/ UNCHANGED <<file, bak>>
    BY <1>5 DEF PutBack
  <2>3. QED
    BY <2>1, <2>2, Constants DEF PutBackFile, NoPartialSidecar, Files
<1>6. CASE Cleanup
  <2>1. Head(moved) \in Files
    BY <1>6 DEF Cleanup, ListTypes
  <2>2. /\ file' = file
        /\ bak' = [bak EXCEPT ![Head(moved)] = None] \/ bak' = bak
    BY <1>6 DEF Cleanup
  <2>3. QED
    BY <2>1, <2>2, Constants DEF NoPartialSidecar, Files
<1>7. CASE UNCHANGED <<file, bak>>
  BY <1>7 DEF NoPartialSidecar
<1>8. QED
  BY <1>1, <1>2, <1>3, <1>4, <1>5, <1>6, <1>7
  DEF Restore, StartRestore, AsideReturns, AsideRaises, Installed, RemovedAll,
      RollbackRaises, RolledBack, Succeeded, RestoreEnds

LEMMA TypeRestore == TypeInv /\ Restore => TypeInv'
<1> SUFFICES ASSUME TypeInv, Restore PROVE TypeInv'
  OBVIOUS
<1>1. FileInv'
  BY RestoreFileStep
<1>2. RestorerInv'
  <2> USE DEF TypeInv, RestorerInv, RestoreTypes
  <2>1. CASE StartRestore
    BY <2>1, Constants DEF StartRestore, FileInv, FileTypes, StagedInv, SnapshotTypes
  <2>2. CASE Aside
    BY <2>2, Constants DEF Aside, RemoveOldBackup, SetAside, NotThere
  <2>3. CASE Install
    BY <2>3, Constants DEF Install
  <2>4. CASE AsideReturns \/ AsideRaises \/ InstallRaises \/ Installed
    BY <2>4, Constants DEF AsideReturns, AsideRaises, InstallRaises, Installed
  <2>5. CASE RemoveInstalled \/ RemovedAll \/ PutBack \/ RollbackRaises
    BY <2>5, Constants DEF RemoveInstalled, RemovedAll, PutBack, RollbackRaises
  <2>6. CASE RolledBack \/ Cleanup \/ Succeeded
    BY <2>6, Constants DEF RolledBack, Cleanup, Succeeded
  <2>7. CASE RestoreEnds
    BY <2>7, Constants DEF RestoreEnds, Absent
  <2>8. QED
    BY <2>1, <2>2, <2>3, <2>4, <2>5, <2>6, <2>7 DEF Restore
<1>3. ListTypes'
  <2> USE DEF TypeInv, ListTypes
  <2>1. CASE Aside
    <3>1. PICK f \in Files : RemoveOldBackup(f) \/ SetAside(f) \/ NotThere(f)
      BY <2>1, Constants DEF Aside, RestorerInv, RestoreTypes
    <3>2. moved' = moved \/ moved' = Append(moved, f)
      BY <3>1 DEF RemoveOldBackup, SetAside, NotThere
    <3>3. UNCHANGED <<backed, installed>>
      BY <2>1 DEF Aside
    <3>4. QED
      BY <3>2, <3>3
  <2>2. CASE Install
    <3>1. PICK f \in Files : installed' = Append(installed, f)
      BY <2>2, Constants DEF Install, RestorerInv, RestoreTypes, Files
    <3>2. QED
      BY <2>2, <3>1 DEF Install
  <2>3. CASE RemoveInstalled
    <3>1. Front(installed) \in Seq(Files)
      BY <2>3 DEF RemoveInstalled, Front
    <3>2. QED
      BY <2>3, <3>1 DEF RemoveInstalled
  <2>4. CASE RemovedAll
    <3>1. Reverse(backed) \in Seq(Files)
      BY DEF Reverse
    <3>2. QED
      BY <2>4, <3>1 DEF RemovedAll, ToPutBack
  <2>5. CASE PutBack \/ Cleanup
    <3>1. moved # <<>> /\ (moved' = moved \/ moved' = Tail(moved))
      BY <2>5 DEF PutBack, Cleanup
    <3>2. UNCHANGED <<backed, installed>>
      BY <2>5 DEF PutBack, Cleanup
    <3>3. moved # <<>> => Tail(moved) \in Seq(Files)
      OBVIOUS
    <3>4. QED
      BY <3>1, <3>2, <3>3
  <2>6. CASE StartRestore \/ RestoreEnds
    <3>1. \/ UNCHANGED <<moved, backed, installed>>
          \/ moved' = <<>> /\ backed' = <<>> /\ installed' = <<>>
      BY <2>6 DEF StartRestore, RestoreEnds
    <3>2. <<>> \in Seq(Files)
      OBVIOUS
    <3>3. QED
      BY <3>1, <3>2
  <2>7. CASE \/ AsideReturns \/ AsideRaises \/ InstallRaises \/ Installed
             \/ RollbackRaises \/ RolledBack \/ Succeeded
    BY <2>7 DEF AsideReturns, AsideRaises, InstallRaises, Installed,
                RollbackRaises, RolledBack, Succeeded
  <2>8. QED
    BY <2>1, <2>2, <2>3, <2>4, <2>5, <2>6, <2>7 DEF Restore
<1>4. RunInv'
  <2>1. UNCHANGED <<ppc, runs>> /\ handle' \in {"none", "active", "bak", "lost"}
    BY DEF TypeInv, RunInv, PipelineTypes, pipeline, Restore, StartRestore,
           Aside, RemoveOldBackup, SetAside, NotThere, AsideReturns,
           AsideRaises, Install, Displaced, InstallRaises, Installed,
           RemoveInstalled, RemovedAll, PutBack, RollbackRaises, RolledBack,
           Cleanup, Succeeded, RestoreEnds
  <2>2. QED
    BY <2>1 DEF TypeInv, RunInv, PipelineTypes
<1>5. StagedInv' /\ GhostTypes' /\ LockTypes'
  <2>1. UNCHANGED <<snapshot, pairs>> /\ lock' \in {lock, "restore", "free"}
    BY DEF Restore, StartRestore, Aside, AsideReturns, AsideRaises, Install,
           InstallRaises, Installed, RemoveInstalled, RemovedAll, PutBack,
           RollbackRaises, RolledBack, Cleanup, Succeeded, RestoreEnds
  <2>2. QED
    BY <2>1 DEF TypeInv, StagedInv, SnapshotTypes, snapshot, GhostTypes,
                LockTypes
<1>6. FlagTypes'
  BY Zenon DEF TypeInv, FlagTypes, Restore, StartRestore, Aside, AsideReturns,
         AsideRaises, Install, InstallRaises, Installed, RemoveInstalled,
         RemovedAll, PutBack, RollbackRaises, RolledBack, Cleanup, Succeeded,
         RestoreEnds
<1>7. QED
  BY <1>1, <1>2, <1>3, <1>4, <1>5, <1>6 DEF TypeInv

\* The type invariant is inductive.
LEMMA TypeStep == TypeInv /\ [Next]_vars => TypeInv'
<1>1. TypeInv /\ UNCHANGED vars => TypeInv'
  BY DEF vars, pipeline, snapshot, restorer, TypeInv, FileInv, FileTypes,
         NoPartialSidecar, RunInv, PipelineTypes, StagedInv, SnapshotTypes,
         RestorerInv, RestoreTypes, ListTypes, LockTypes, GhostTypes,
         FlagTypes
<1>2. QED
  BY <1>1, TypePipeline, TypeSnapshot, TypeRestore DEF Next

\* The variables keep their types.
THEOREM TypeCorrect == Spec => []TypeOK
<1>1. TypeInv => TypeOK
  BY DEF TypeInv, TypeOK, FileInv, RunInv, StagedInv, RestorerInv, LockTypes,
         GhostTypes, FlagTypes
<1>2. QED
  BY <1>1, TypeInit, TypeStep, PTL DEF Spec

-----------------------------------------------------------------------------
(* The lock. *)

\* Whoever is at work holds pipeline.lock; a pipeline that has only opened
\* DuckDB does not.
LockInv ==
    /\ lock = "pipeline" <=> ppc \in {"running", "half", "committed"}
    /\ lock = "snapshot" <=> spc # "off"
    /\ lock = "restore" <=> rpc # "off"

LEMMA LockStep == TypeInv /\ LockInv /\ [Next]_vars => LockInv'
<1> SUFFICES ASSUME TypeInv, LockInv, [Next]_vars PROVE LockInv'
  OBVIOUS
<1> USE DEF LockInv, TypeInv, LockTypes, RunInv, PipelineTypes, StagedInv,
            SnapshotTypes, RestorerInv, RestoreTypes
<1>1. CASE Pipeline
  BY <1>1 DEF Pipeline, OpenDuckDB, TakeLock, CommitDuckDB, CommitSQLite,
              ClosePipeline, PipelineDies, Unlock, snapshot, restorer
<1>2. CASE Snapshot
  BY <1>2 DEF Snapshot, StartSnapshot, CheckpointDuckDB, CopySQLite,
              WriteArchive, SnapshotFails, Publish, pipeline, restorer
<1>3. CASE Restore
  <2>1. UNCHANGED <<ppc, spc>>
    BY <1>3 DEF Restore, StartRestore, Aside, AsideReturns, AsideRaises,
           Install, InstallRaises, Installed, RemoveInstalled, RemovedAll,
           PutBack, RollbackRaises, RolledBack, Cleanup, Succeeded,
           RestoreEnds, pipeline, snapshot
  <2>2. \/ rpc # "off" /\ rpc' # "off" /\ lock' = lock
        \/ lock = "free" /\ lock' = "restore" /\ rpc' # "off"
        \/ rpc # "off" /\ rpc' = "off" /\ lock' = "free"
    BY <1>3 DEF Restore, StartRestore, Aside, AsideReturns, AsideRaises,
           Install, InstallRaises, Installed, RemoveInstalled, RemovedAll,
           PutBack, RollbackRaises, RolledBack, Cleanup, Succeeded, RestoreEnds
  <2>3. QED
    BY <2>1, <2>2
<1>4. CASE UNCHANGED vars
  BY <1>4 DEF vars, pipeline, snapshot, restorer
<1>5. QED
  BY <1>1, <1>2, <1>3, <1>4 DEF Next

-----------------------------------------------------------------------------
(* A restore that succeeds. *)

\* The sidecars are gone before a database is installed, and what is
\* installed stays, whatever a pipeline does that has only opened DuckDB.
ArchiveInv ==
    /\ rpc = "aside" => /\ next > 2 => file["sqlite-wal"] = None
                        /\ next > 4 => file["duckdb.wal"] = None
    /\ rpc \in {"install", "cleanup"} \/ (rpc = "returning" /\ outcome = "SUCCEEDED")
         => /\ file["sqlite-wal"] = None /\ file["duckdb.wal"] = None
            /\ source \in Archive
            /\ rpc # "install" \/ next > 1 => file["sqlite"] = source.sqlite
            /\ rpc # "install" \/ next > 2 => file["duckdb"] = source.duckdb

LEMMA ArchiveStep == TypeInv /\ LockInv /\ ArchiveInv /\ [Next]_vars => ArchiveInv'
<1> SUFFICES ASSUME TypeInv, LockInv, ArchiveInv, [Next]_vars PROVE ArchiveInv'
  OBVIOUS
<1> USE DEF ArchiveInv
<1>1. CASE Pipeline
  <2>1. CASE lock = "restore"
    <3>1. UNCHANGED restorer
      BY <1>1 DEF Pipeline, OpenDuckDB, TakeLock, CommitDuckDB, CommitSQLite,
                  ClosePipeline, PipelineDies
    <3>2. \/ file' = file
          \/ file' = DuckDBFolded(file)
          \/ /\ file["duckdb"] = None
             /\ file' = [file EXCEPT !["duckdb"] = 0, !["duckdb.wal"] = None]
      BY <1>1, <2>1
      DEF TypeInv, RunInv, PipelineTypes, LockInv, Pipeline, OpenDuckDB,
          TakeLock, CommitDuckDB, CommitSQLite, ClosePipeline, PipelineDies
    <3>3. file \in [Files -> State] /\ None \notin Content
      BY Constants DEF TypeInv, FileInv, FileTypes
    <3>4. QED
      BY <3>1, <3>2, <3>3 DEF restorer, DuckDBFolded, DuckDB, Logical, Files,
                              Archive
  <2>2. CASE lock # "restore"
    <3>1. UNCHANGED restorer /\ rpc = "off"
      BY <1>1, <2>2 DEF LockInv, Pipeline, OpenDuckDB, TakeLock, CommitDuckDB,
                  CommitSQLite, ClosePipeline, PipelineDies
    <3>2. QED
      BY <3>1 DEF restorer
  <2>3. QED
    BY <2>1, <2>2
<1>2. CASE Snapshot
  <2>1. UNCHANGED restorer /\ rpc = "off"
    BY <1>2 DEF LockInv, TypeInv, LockTypes, Snapshot, StartSnapshot,
           CheckpointDuckDB, CopySQLite, WriteArchive, SnapshotFails, Publish
  <2>2. QED
    BY <2>1 DEF restorer
<1>3. CASE StartRestore
  BY <1>3 DEF StartRestore
<1>4. CASE Aside
  <2>1. PICK f \in Files : /\ f = ActivePaths[next]
                           /\ RemoveOldBackup(f) \/ SetAside(f) \/ NotThere(f)
    BY <1>4, Constants DEF Aside, TypeInv, RestorerInv, RestoreTypes
  <2>2. /\ next = 2 => f = "sqlite-wal"
        /\ next = 4 => f = "duckdb.wal"
    BY <2>1 DEF ActivePaths
  <2>3. \/ next' = next /\ file' = file
        \/ next' = next + 1 /\ file' = file /\ file[f] = None
        \/ next' = next + 1 /\ file' = [file EXCEPT ![f] = None]
    BY <2>1 DEF RemoveOldBackup, SetAside, NotThere
  <2>4. next \in Nat /\ file \in [Files -> State] /\ rpc = "aside" /\ rpc' = "aside"
    BY <1>4 DEF Aside, TypeInv, RestorerInv, RestoreTypes, FileInv, FileTypes
  <2>5. QED
    BY <2>2, <2>3, <2>4 DEF Files
<1>5. CASE AsideReturns
  BY <1>5, Constants DEF AsideReturns, TypeInv, RestorerInv, RestoreTypes
<1>6. CASE Install
  <2>1. next \in {1, 2} /\ next' = next + 1 /\ source \in Archive
        /\ rpc = "install" /\ rpc' = "install" /\ source' = source
    BY <1>6, Constants DEF Install, TypeInv, RestorerInv, RestoreTypes
  <2>2. RestoreNames[1] = "sqlite" /\ RestoreNames[2] = "duckdb"
    BY DEF RestoreNames
  <2>3. file' = [file EXCEPT ![RestoreNames[next]] = source[RestoreNames[next]]]
    BY <1>6 DEF Install
  <2>4. /\ next = 1 => file' = [file EXCEPT !["sqlite"] = source["sqlite"]]
        /\ next = 2 => file' = [file EXCEPT !["duckdb"] = source["duckdb"]]
    BY <2>1, <2>2, <2>3
  <2>5. file \in [Files -> State]
    BY DEF TypeInv, FileInv, FileTypes
  <2>6. QED
    BY <2>1, <2>4, <2>5 DEF Files
<1>7. CASE Installed
  BY <1>7, Constants DEF Installed, TypeInv, RestorerInv, RestoreTypes
<1>8. CASE Cleanup \/ Succeeded
  BY <1>8 DEF Cleanup, Succeeded
<1>9. CASE \/ AsideRaises \/ InstallRaises \/ RemoveInstalled \/ RemovedAll
           \/ PutBack \/ RollbackRaises \/ RolledBack \/ RestoreEnds
  BY <1>9 DEF AsideRaises, InstallRaises, RemoveInstalled, RemovedAll, PutBack,
              RollbackRaises, RolledBack, RestoreEnds
<1>10. CASE UNCHANGED vars
  BY <1>10 DEF vars, restorer
<1>11. QED
  BY <1>1, <1>2, <1>3, <1>4, <1>5, <1>6, <1>7, <1>8, <1>9, <1>10
  DEF Next, Restore

\* A restore that reports NEW_PAIR_INSTALLED has installed both databases of
\* the archive, and no sidecar of the previous ones is left to be replayed.
THEOREM SuccessInstallsArchive == Spec => []NewPairInstalled
<1>1. Init => LockInv /\ ArchiveInv
  BY DEF Init, LockInv, ArchiveInv
<1>2. TypeInv /\ LockInv /\ ArchiveInv /\ [Next]_vars => (LockInv /\ ArchiveInv)'
  BY LockStep, ArchiveStep
<1>3. ArchiveInv => NewPairInstalled
  BY DEF ArchiveInv, NewPairInstalled, Pair, SQLite, DuckDB, Logical
<1>4. QED
  BY <1>1, <1>2, <1>3, TypeInit, TypeStep, PTL DEF Spec
-----------------------------------------------------------------------------
(* A restore that does not. *)

Present(f)  == before[f] # None
BackedUp(f) == bak[f] = before[f]
InPlace(f)  == file[f] = before[f]

Survives == \A f \in Files : Present(f) => InPlace(f) \/ BackedUp(f)
Intact   == \A f \in Files : Present(f) => InPlace(f)

\* While files are set aside: the list is what is gone from its place.
AsideInv ==
    /\ ~asideFailed /\ backed = <<>> /\ installed = <<>>
    /\ \A i \in 1..4 : i < next => file[ActivePaths[i]] = None
    /\ \A f \in Files : IF f \in ToSet(moved)
                        THEN Present(f) /\ BackedUp(f) /\ file[f] = None
                        ELSE InPlace(f)

\* Everything there was has a backup, and the list knows it.
BackupInv ==
    \A f \in Files : /\ Present(f) => BackedUp(f)
                     /\ Present(f) <=> f \in ToSet(backed)

\* Each file is still on the list, or in place.
PutBackInv ==
    \A f \in Files :
        /\ Present(f) => InPlace(f) \/ (BackedUp(f) /\ f \in ToSet(moved))
        /\ bak[f] # None /\ f \in ToSet(moved) => BackedUp(f)

RestoreInv ==
    rpc # "off" /\ ~raced =>
        /\ ppc = "off"
        /\ rpc = "aside" => AsideInv
        /\ rpc = "install" => ~asideFailed /\ BackupInv
        /\ rpc = "remove" =>
             \/ ~asideFailed /\ BackupInv
             \/ asideFailed /\ backed = <<>> /\ installed = <<>> /\ Survives
        /\ rpc = "putback" =>
             \/ ~asideFailed /\ PutBackInv
             \/ asideFailed /\ moved = <<>> /\ Survives
        /\ rpc = "returning" /\ outcome # "SUCCEEDED" =>
             /\ Survives
             /\ outcome = "VALIDATION_FAILED" => Intact
             /\ outcome = "ROLLED_BACK" /\ ~asideFailed => Intact

\* The elements of the lists.
LEMMA ListElements ==
    ASSUME NEW s \in Seq(Files)
    PROVE  /\ \A e \in Files : ToSet(Append(s, e)) = ToSet(s) \cup {e}
           /\ s # <<>> => /\ Head(s) \in Files
                          /\ ToSet(s) = ToSet(Tail(s)) \cup {Head(s)}
           /\ ToSet(Reverse(s)) = ToSet(s)
           /\ ToSet(s) \subseteq Files
           /\ s = <<>> <=> ToSet(s) = {}
<1>1. \A e \in Files : ToSet(Append(s, e)) = ToSet(s) \cup {e}
  <2> SUFFICES ASSUME NEW e \in Files
               PROVE  ToSet(Append(s, e)) = ToSet(s) \cup {e}
    OBVIOUS
  <2>1. /\ DOMAIN s = 1..Len(s) /\ DOMAIN Append(s, e) = 1..(Len(s) + 1)
        /\ Append(s, e)[Len(s) + 1] = e
        /\ \A i \in 1..Len(s) : Append(s, e)[i] = s[i]
    OBVIOUS
  <2>2. Len(s) \in Nat
    OBVIOUS
  <2>3. QED
    BY <2>1, <2>2 DEF ToSet
<1>2. ASSUME s # <<>>
      PROVE  /\ Head(s) \in Files
             /\ ToSet(s) = ToSet(Tail(s)) \cup {Head(s)}
  <2>1. /\ Len(s) \in Nat \ {0} /\ DOMAIN s = 1..Len(s)
        /\ Head(s) = s[1] /\ DOMAIN Tail(s) = 1..(Len(s) - 1)
        /\ \A i \in 1..(Len(s) - 1) : Tail(s)[i] = s[i + 1]
    BY <1>2
  <2>2. \A i \in 2..Len(s) : s[i] = Tail(s)[i - 1] /\ i - 1 \in 1..(Len(s) - 1)
    BY <2>1
  <2>3. Head(s) \in Files /\ Head(s) \in ToSet(s)
    BY <1>2, <2>1 DEF ToSet
  <2>4. ToSet(Tail(s)) \subseteq ToSet(s)
    <3>1. \A i \in 1..(Len(s) - 1) : i + 1 \in 1..Len(s)
      BY <2>1
    <3>2. QED
      BY <2>1, <3>1 DEF ToSet
  <2>5. ASSUME NEW x \in ToSet(s), x # Head(s)
        PROVE  x \in ToSet(Tail(s))
    <3>1. PICK i \in 1..Len(s) : x = s[i]
      BY <2>1, <2>5 DEF ToSet
    <3>2. i \in 2..Len(s)
      BY <2>1, <2>5, <3>1
    <3>3. QED
      BY <2>1, <2>2, <3>1, <3>2 DEF ToSet
  <2>6. QED
    BY <2>3, <2>4, <2>5
<1>3. ToSet(Reverse(s)) = ToSet(s)
  <2>1. /\ Len(s) \in Nat /\ DOMAIN s = 1..Len(s) /\ DOMAIN Reverse(s) = 1..Len(s)
        /\ \A i \in 1..Len(s) : /\ Reverse(s)[i] = s[Len(s) - i + 1]
                                /\ Len(s) - i + 1 \in 1..Len(s)
                                /\ Len(s) - (Len(s) - i + 1) + 1 = i
    BY DEF Reverse
  <2>2. \A i \in 1..Len(s) : s[i] = Reverse(s)[Len(s) - i + 1]
    BY <2>1
  <2>3. QED
    BY <2>1, <2>2 DEF ToSet
<1>4. ToSet(s) \subseteq Files /\ (s = <<>> <=> ToSet(s) = {})
  BY DEF ToSet
<1>5. QED
  BY <1>1, <1>2, <1>3, <1>4

LEMMA RestoreStep ==
    TypeInv /\ LockInv /\ RestoreInv /\ [Next]_vars => RestoreInv'
<1> SUFFICES ASSUME TypeInv, LockInv, RestoreInv, [Next]_vars,
                    rpc' # "off", ~raced'
             PROVE  RestoreInv'
  BY DEF RestoreInv
<1> USE DEF RestoreInv
<1>t. /\ file \in [Files -> State] /\ bak \in [Files -> State]
      /\ next \in Nat
      /\ moved \in Seq(Files) /\ backed \in Seq(Files) /\ installed \in Seq(Files)
  BY Constants DEF TypeInv, FileInv, FileTypes, ListTypes, RestorerInv, RestoreTypes
<1>1. CASE Pipeline
  <2>1. UNCHANGED restorer
    BY <1>1 DEF Pipeline, OpenDuckDB, TakeLock, CommitDuckDB, CommitSQLite,
                ClosePipeline, PipelineDies
  <2>2. rpc # "off"
    BY <2>1 DEF restorer
  <2>3. CASE OpenDuckDB
    BY <2>2, <2>3 DEF OpenDuckDB
  <2>4. CASE \/ TakeLock \/ CommitDuckDB \/ CommitSQLite \/ ClosePipeline
             \/ PipelineDies
    <3>1. ppc # "off" /\ raced' = raced
      BY <2>4 DEF TakeLock, CommitDuckDB, CommitSQLite, ClosePipeline,
                  PipelineDies
    <3>2. QED
      BY <2>2, <3>1
  <2>5. QED
    BY <1>1, <2>3, <2>4 DEF Pipeline
<1>2. CASE Snapshot
  BY <1>2 DEF LockInv, TypeInv, LockTypes, restorer, Snapshot, StartSnapshot,
         CheckpointDuckDB, CopySQLite, WriteArchive, SnapshotFails, Publish
<1>3. CASE StartRestore
  <2>1. /\ ppc' = "off" /\ before' = file /\ UNCHANGED <<file, bak>>
        /\ moved' = <<>> /\ backed' = <<>> /\ installed' = <<>>
        /\ ~asideFailed'
        /\ \/ rpc' = "aside" /\ next' = 1
           \/ rpc' = "returning" /\ outcome' = "VALIDATION_FAILED"
    BY <1>3 DEF StartRestore, pipeline
  <2>2. ToSet(<<>>) = {}
    BY DEF ToSet
  <2>3. QED
    BY <2>1, <2>2 DEF AsideInv, Present, BackedUp, InPlace, Survives, Intact
<1>4. ASSUME rpc # "off", ~raced, ppc' = ppc, Restore, ~StartRestore
      PROVE  RestoreInv'
  <2> USE <1>4
  <2>1. CASE Aside
    <3>1. PICK f \in Files : /\ f = ActivePaths[next]
                             /\ RemoveOldBackup(f) \/ SetAside(f) \/ NotThere(f)
      BY <2>1, Constants DEF Aside, TypeInv, RestorerInv, RestoreTypes
    <3>2. /\ rpc = "aside" /\ rpc' = "aside" /\ AsideInv
          /\ UNCHANGED <<before, asideFailed, backed, installed>>
      BY <2>1 DEF Aside
    <3>3. CASE RemoveOldBackup(f)
      <4>1. f \notin ToSet(moved)
        BY <3>2, <3>3 DEF RemoveOldBackup, AsideInv
      <4>2. bak' = [bak EXCEPT ![f] = None] /\ UNCHANGED <<file, next, moved>>
        BY <3>3 DEF RemoveOldBackup
      <4>3. QED
        BY <1>t, <3>2, <4>1, <4>2 DEF AsideInv, Present, BackedUp, InPlace
    <3>4. CASE SetAside(f)
      <4>1. f \notin ToSet(moved) /\ file[f] # None
        BY <3>2, <3>4 DEF SetAside, AsideInv
      <4>2. /\ bak' = [bak EXCEPT ![f] = file[f]]
            /\ file' = [file EXCEPT ![f] = None]
            /\ next' = next + 1
            /\ ToSet(moved') = ToSet(moved) \cup {f}
        BY <1>t, <3>4, ListElements DEF SetAside
      <4>3. \A i \in 1..4 : i < next' => file'[ActivePaths[i]] = None
        <5>1. ASSUME NEW i \in 1..4, i < next + 1
              PROVE  file'[ActivePaths[i]] = None
          <6>1. ActivePaths[i] \in Files /\ (i < next \/ i = next)
            BY <1>t, <5>1, Constants
          <6>2. QED
            BY <1>t, <3>1, <3>2, <4>2, <5>1, <6>1 DEF AsideInv
        <5>2. QED
          BY <4>2, <5>1
      <4>4. \A g \in Files : IF g \in ToSet(moved')
                             THEN /\ before'[g] # None /\ bak'[g] = before'[g]
                                  /\ file'[g] = None
                             ELSE file'[g] = before'[g]
        BY <1>t, <3>2, <4>1, <4>2 DEF AsideInv, Present, BackedUp, InPlace
      <4>5. QED
        BY <3>2, <4>3, <4>4 DEF AsideInv, Present, BackedUp, InPlace
    <3>5. CASE NotThere(f)
      <4>1. /\ file[f] = None /\ next' = next + 1
            /\ UNCHANGED <<file, bak, moved>>
        BY <3>5 DEF NotThere
      <4>2. \A i \in 1..4 : i < next' => file'[ActivePaths[i]] = None
        <5>1. \A i \in 1..4 : i < next + 1 => i < next \/ i = next
          BY <1>t
        <5>2. QED
          BY <3>1, <3>2, <4>1, <5>1 DEF AsideInv
      <4>3. QED
        BY <3>2, <4>1, <4>2 DEF AsideInv, Present, BackedUp, InPlace
    <3>6. QED
      BY <3>1, <3>3, <3>4, <3>5
  <2>2. CASE AsideReturns
    <3>1. /\ rpc = "aside" /\ rpc' = "install" /\ next > 4 /\ backed' = moved
          /\ UNCHANGED <<file, bak, before, asideFailed>> /\ AsideInv
      BY <2>2, Constants DEF AsideReturns
    <3>2. \A f \in Files : \E i \in 1..4 : ActivePaths[i] = f
      <4>1. /\ ActivePaths[1] = "sqlite" /\ ActivePaths[2] = "sqlite-wal"
            /\ ActivePaths[3] = "duckdb" /\ ActivePaths[4] = "duckdb.wal"
        BY DEF ActivePaths
      <4>2. QED
        BY <4>1 DEF Files
    <3>3. \A f \in Files : file[f] = None
      BY <1>t, <3>1, <3>2 DEF AsideInv
    <3>4. QED
      BY <3>1, <3>3 DEF AsideInv, BackupInv, Present, BackedUp, InPlace
  <2>3. CASE AsideRaises
    <3>1. /\ rpc = "aside" /\ rpc' = "remove" /\ asideFailed' = TRUE /\ AsideInv
          /\ UNCHANGED <<file, bak, before, backed, installed>>
      BY <2>3 DEF AsideRaises
    <3>2. QED
      BY <3>1 DEF AsideInv, Survives, Present, BackedUp, InPlace
  <2>4. CASE Install \/ InstallRaises \/ Installed
    <3>1. /\ rpc = "install" /\ rpc' \in {"install", "remove", "cleanup"}
          /\ UNCHANGED <<bak, before, backed, asideFailed>>
      BY <2>4 DEF Install, InstallRaises, Installed
    <3>2. QED
      BY <3>1 DEF BackupInv, Present, BackedUp
  <2>5. CASE RemoveInstalled
    <3>1. /\ rpc = "remove" /\ rpc' = "remove" /\ installed # <<>>
          /\ UNCHANGED <<bak, before, backed, asideFailed>>
      BY <2>5 DEF RemoveInstalled
    <3>2. QED
      BY <3>1 DEF BackupInv, Present, BackedUp
  <2>6. CASE RemovedAll
    <3>1. /\ rpc = "remove" /\ rpc' = "putback" /\ moved' = Reverse(backed)
          /\ UNCHANGED <<file, bak, before, asideFailed>>
      BY <2>6 DEF RemovedAll, ToPutBack
    <3>2. ToSet(moved') = ToSet(backed)
      BY <1>t, <3>1, ListElements
    <3>3. CASE ~asideFailed
      <4>1. BackupInv
        BY <3>1, <3>3
      <4>2. QED
        BY <3>1, <3>2, <3>3, <4>1 DEF BackupInv, PutBackInv, Present, BackedUp, InPlace
    <3>4. CASE asideFailed
      <4>1. backed = <<>> /\ Survives
        BY <3>1, <3>4
      <4>2. moved' = <<>>
        BY <3>1, <4>1 DEF Reverse
      <4>3. QED
        BY <3>1, <3>4, <4>1, <4>2 DEF Survives, Present, BackedUp, InPlace
    <3>5. QED
      BY <3>3, <3>4
  <2>7. CASE PutBack
    <3>1. PICK f \in Files : f = Head(moved)
      BY <1>t, <2>7, ListElements DEF PutBack
    <3>2. /\ rpc = "putback" /\ rpc' = "putback" /\ moved # <<>>
          /\ UNCHANGED <<before, asideFailed>>
      BY <2>7 DEF PutBack
    <3>3. ToSet(moved) = ToSet(Tail(moved)) \cup {f}
      BY <1>t, <3>1, <3>2, ListElements
    <3>4. ~asideFailed /\ PutBackInv
      BY <3>2
    <3>5. CASE bak[f] # None /\ PutBackFile(f) /\ UNCHANGED moved
      <4>1. BackedUp(f)
        BY <3>3, <3>4, <3>5 DEF PutBackInv
      <4>2. \/ file' = [file EXCEPT ![f] = None] /\ bak' = bak
            \/ /\ file' = [file EXCEPT ![f] = bak[f]]
               /\ bak' = [bak EXCEPT ![f] = None]
        BY <3>5 DEF PutBackFile
      <4>3. PutBackInv'
        BY <1>t, <3>2, <3>3, <3>4, <3>5, <4>1, <4>2
        DEF PutBackInv, Present, BackedUp, InPlace
      <4>4. QED
        BY <3>2, <3>4, <4>3
    <3>6. CASE bak[f] = None /\ moved' = Tail(moved) /\ UNCHANGED <<file, bak>>
      <4>1. PutBackInv'
        BY <3>2, <3>3, <3>4, <3>6 DEF PutBackInv, Present, BackedUp, InPlace
      <4>2. QED
        BY <3>2, <3>4, <4>1
    <3>7. QED
      BY <2>7, <3>1, <3>5, <3>6 DEF PutBack
  <2>8. CASE RollbackRaises
    <3>1. /\ rpc \in {"remove", "putback"} /\ rpc' = "returning"
          /\ outcome' = "UNCERTAIN"
          /\ UNCHANGED <<file, bak, before, asideFailed>>
      BY <2>8 DEF RollbackRaises
    <3>2. Survives
      BY <3>1 DEF BackupInv, PutBackInv, Survives
    <3>3. QED
      BY <3>1, <3>2 DEF Survives, Present, BackedUp, InPlace
  <2>9. CASE RolledBack
    <3>1. /\ rpc = "putback" /\ rpc' = "returning" /\ moved = <<>>
          /\ outcome' = "ROLLED_BACK"
          /\ UNCHANGED <<file, bak, before, asideFailed>>
      BY <2>9 DEF RolledBack
    <3>2. ToSet(moved) = {}
      BY <1>t, <3>1, ListElements
    <3>3. Survives /\ (~asideFailed => Intact)
      BY <3>1, <3>2 DEF PutBackInv, Survives, Intact
    <3>4. QED
      BY <3>1, <3>3 DEF Survives, Intact, Present, BackedUp, InPlace
  <2>10. CASE Cleanup \/ Succeeded
    <3>1. rpc' = "cleanup" \/ (rpc' = "returning" /\ outcome' = "SUCCEEDED")
      BY <2>10 DEF Cleanup, Succeeded
    <3>2. QED
      BY <3>1
  <2>11. CASE RestoreEnds
    BY <2>11 DEF RestoreEnds
  <2>12. QED
    BY <2>1, <2>2, <2>3, <2>4, <2>5, <2>6, <2>7, <2>8, <2>9, <2>10, <2>11
    DEF Restore
<1>5. CASE Restore /\ ~StartRestore
  <2>1. rpc # "off" /\ raced' = raced /\ ppc' = ppc
    BY <1>5 DEF Restore, Aside, AsideReturns, AsideRaises, Install, InstallRaises,
           Installed, RemoveInstalled, RemovedAll, PutBack, RollbackRaises,
           RolledBack, Cleanup, Succeeded, RestoreEnds, pipeline
  <2>2. QED
    BY <1>4, <1>5, <2>1
<1>6. CASE UNCHANGED vars
  BY <1>6 DEF vars, pipeline, restorer, AsideInv, BackupInv, PutBackInv,
              Survives, Intact, Present, BackedUp, InPlace
<1>7. QED
  BY <1>1, <1>2, <1>3, <1>5, <1>6 DEF Next

\* Until a restore has succeeded every file it found is in its place or has a
\* backup of that content beside it, whichever step failed.
THEOREM PreviousPairIsKept == Spec => []PreviousPairSurvives
<1>1. Init => LockInv /\ RestoreInv
  BY DEF Init, LockInv, RestoreInv
<1>2. TypeInv /\ LockInv /\ RestoreInv /\ [Next]_vars => (LockInv /\ RestoreInv)'
  BY LockStep, RestoreStep
<1>3. RestoreInv => PreviousPairSurvives
  <2> SUFFICES ASSUME RestoreInv, ~raced, outcome # "SUCCEEDED",
                      rpc \in {"aside", "install", "remove", "putback",
                               "returning"}
               PROVE  Survives
    BY DEF PreviousPairSurvives, Survives, Present, BackedUp, InPlace
  <2>1. QED
    BY DEF RestoreInv, AsideInv, BackupInv, PutBackInv, Survives
<1>4. QED
  BY <1>1, <1>2, <1>3, TypeInit, TypeStep, PTL DEF Spec

\* A restore that reports PREVIOUS_PAIR_INTACT after it had set every file
\* aside has put every one of them back.
THEOREM RollbackRestores == Spec => []RolledBackIsIntact
<1>1. Init => LockInv /\ RestoreInv
  BY DEF Init, LockInv, RestoreInv
<1>2. TypeInv /\ LockInv /\ RestoreInv /\ [Next]_vars => (LockInv /\ RestoreInv)'
  BY LockStep, RestoreStep
<1>3. RestoreInv => RolledBackIsIntact
  BY DEF RestoreInv, RolledBackIsIntact, ReportsIntact, Intact, Present, InPlace
<1>4. QED
  BY <1>1, <1>2, <1>3, TypeInit, TypeStep, PTL DEF Spec

-----------------------------------------------------------------------------
(* What lies in the active files belongs together. *)

CompleteIn(fs) == Usable(fs["sqlite"]) /\ Usable(fs["duckdb"])
PairIn(fs)     == <<SQLite(fs), DuckDB(fs)>>

\* The SQLite file is the first to be set aside and the last to be put back:
\* while anything else is out of its place there is no complete pair.
SqliteFirst(s) == \A i \in 1..Len(s) : s[i] = "sqlite" => i = 1
SqliteLast(s)  == \A i \in 1..Len(s) : s[i] = "sqlite" => i = Len(s)

\* A pipeline works on the active files, and not during a restore.
OpenInv ==
    ppc # "off" =>
        /\ handle = "active" /\ rpc = "off"
        /\ Usable(file["duckdb"])
        /\ ppc # "opened" => Usable(file["sqlite"])

\* What the snapshot has copied is still what the active files say.
CopyInv ==
    /\ spc \in {"checkpointed", "copied", "archived"} =>
          Usable(file["duckdb"]) /\ file["duckdb.wal"] = None
    /\ spc \in {"copied", "archived"} =>
          Usable(file["sqlite"]) /\ staged.sqlite = SQLite(file)
    /\ spc = "archived" => staged.duckdb = DuckDB(file)

\* What an installation that fails leaves: no sidecar, no DuckDB file, and a
\* SQLite file only as long as the list knows it.
HalfInstalled ==
    /\ file["sqlite-wal"] = None /\ file["duckdb.wal"] = None
    /\ ~Usable(file["duckdb"])
    /\ \/ installed = <<>> /\ ~Usable(file["sqlite"])
       \/ installed = <<"sqlite">>

\* What is put back comes from one pair, and completes it only with its last
\* file.
PutBackInOrder ==
    /\ SqliteLast(moved)
    /\ \A f \in Files : ~Present(f) => ~Usable(file[f]) /\ f \notin ToSet(moved)
    /\ Usable(file["sqlite"]) => ToSet(moved) \subseteq {"sqlite"}

OrderInv ==
    /\ rpc # "off" /\ CompleteIn(before) => PairIn(before) \in pairs
    /\ rpc = "aside" => /\ source \in archives /\ SqliteFirst(moved)
                        /\ next = 1 => moved = <<>>
    /\ rpc = "install" =>
          /\ source \in archives /\ SqliteFirst(backed)
          /\ next = 1 => installed = <<>> /\ file["sqlite"] = None /\ file["duckdb"] = None
          /\ next = 2 => installed = <<"sqlite">> /\ file["duckdb"] = None
    /\ rpc = "remove" /\ ~asideFailed => SqliteFirst(backed) /\ HalfInstalled
    /\ rpc = "putback" /\ ~asideFailed => PutBackInOrder

MixInv == NeverMixed /\ (~raced => OpenInv /\ CopyInv /\ OrderInv)

\* Folding changes the files and not what they say.
LEMMA FoldingKeeps ==
    ASSUME NEW fs \in [Files -> State], NoPartialSidecar(fs)
    PROVE  /\ PairIn(DuckDBFolded(fs)) = PairIn(fs) /\ PairIn(SQLiteFolded(fs)) = PairIn(fs)
           /\ DuckDBFolded(fs)["sqlite"] = fs["sqlite"]
           /\ SQLiteFolded(fs)["duckdb"] = fs["duckdb"]
           /\ Usable(fs["duckdb"]) => Usable(DuckDBFolded(fs)["duckdb"])
           /\ Usable(fs["sqlite"]) => Usable(SQLiteFolded(fs)["sqlite"])
           /\ DuckDBFolded(fs)["duckdb.wal"] = None
           /\ SQLiteFolded(fs)["duckdb.wal"] = fs["duckdb.wal"]
  BY Constants DEF PairIn, SQLite, DuckDB, Logical, SQLiteFolded, DuckDBFolded, Files,
                   NoPartialSidecar, Usable

\* Each step of a pipeline records the pair it has open.
LEMMA PipelineKeepsPairs ==
    ASSUME TypeInv, LockInv, MixInv, Pipeline, ~raced'
    PROVE  MixInv'
<1> USE DEF MixInv
<1>t. /\ file \in [Files -> State] /\ NoPartialSidecar(file) /\ runs \in Content
      /\ None \notin Content /\ Partial \notin Content /\ 0 \in Content
      /\ raced \in BOOLEAN
  BY Constants DEF TypeInv, FileInv, FileTypes, RunInv, PipelineTypes, Content, FlagTypes
<1>u. UNCHANGED <<spc, staged, archives, rpc, moved, source, next, backed, installed,
                  before, asideFailed>> /\ pairs \subseteq pairs'
  BY DEF Pipeline, OpenDuckDB, TakeLock, CommitDuckDB, CommitSQLite, ClosePipeline,
         PipelineDies, snapshot, restorer
<1>0. ~raced /\ rpc = "off"
  <2>1. CASE OpenDuckDB
    BY <1>t, <2>1 DEF OpenDuckDB
  <2>2. CASE ~OpenDuckDB
    <3>1. raced' = raced /\ (ppc # "off" \/ lock = "free")
      BY <2>2 DEF Pipeline, TakeLock, CommitDuckDB, CommitSQLite, ClosePipeline, PipelineDies
    <3>2. ppc # "off" \/ rpc = "off"
      BY <3>1 DEF LockInv
    <3>3. QED
      BY <3>1, <3>2 DEF OpenInv
  <2>3. QED
    BY <2>1, <2>2
<1>1. OrderInv'
  BY <1>0, <1>u DEF OrderInv
<1>2. \A a \in archives' : <<a.sqlite, a.duckdb>> \in pairs'
  BY <1>0, <1>u DEF NeverMixed
<1>c. CompleteIn(file) => PairIn(file) \in pairs
  BY <1>0 DEF NeverMixed, Complete, Pair, CompleteIn, PairIn
<1>3. (CompleteIn(file') => PairIn(file') \in pairs') /\ OpenInv' /\ CopyInv'
  <2>1. CASE OpenDuckDB
    <3>1. /\ ppc' = "opened" /\ handle' = "active" /\ rpc' = "off"
          /\ pairs' = pairs \cup {PairIn(file')}
      BY <1>0, <1>u, <2>1 DEF OpenDuckDB, PairIn
    <3>2. CASE file["duckdb"] = None
      <4>1. file' = [file EXCEPT !["duckdb"] = 0, !["duckdb.wal"] = None]
        BY <2>1, <3>2 DEF OpenDuckDB
      <4>2. file'["duckdb"] = 0
        BY <1>t, <4>1 DEF Files
      <4>3. Usable(file'["duckdb"]) /\ ~Usable(file["duckdb"])
        BY <1>t, <3>2, <4>2 DEF Usable
      <4>4. OpenInv' /\ CopyInv'
        BY <1>0, <1>u, <3>1, <4>3 DEF OpenInv, CopyInv
      <4>5. QED
        BY <3>1, <4>4
    <3>3. CASE file["duckdb"] # None
      <4>1. file' = DuckDBFolded(file) /\ Usable(file["duckdb"])
        BY <2>1, <3>3 DEF OpenDuckDB, Usable
      <4>2. /\ PairIn(file') = PairIn(file) /\ file'["sqlite"] = file["sqlite"]
            /\ Usable(file'["duckdb"]) /\ file'["duckdb.wal"] = None
        BY <1>t, <4>1, FoldingKeeps
      <4>3. SQLite(file') = SQLite(file) /\ DuckDB(file') = DuckDB(file)
        BY <4>2 DEF PairIn
      <4>4. OpenInv' /\ CopyInv'
        BY <1>0, <1>u, <3>1, <4>2, <4>3 DEF OpenInv, CopyInv, SQLite, DuckDB
      <4>5. QED
        BY <3>1, <4>4
    <3>4. QED
      BY <3>2, <3>3
  <2>2. CASE TakeLock
    <3>1. /\ ppc = "opened" /\ ppc' = "running" /\ handle' = handle
          /\ pairs' = pairs \cup {<<SQLite(file'), Held>>}
          /\ file["sqlite"] # Partial /\ spc = "off"
          /\ file' = IF file["sqlite"] = None
                     THEN [file EXCEPT !["sqlite"] = 0, !["sqlite-wal"] = None]
                     ELSE file
      BY <2>2 DEF TakeLock, LockInv
    <3>2. handle = "active" /\ Usable(file["duckdb"])
      BY <1>0, <3>1 DEF OpenInv
    <3>3. /\ file'["duckdb"] = file["duckdb"] /\ file'["duckdb.wal"] = file["duckdb.wal"]
          /\ Usable(file'["sqlite"])
      BY <1>t, <3>1 DEF Files, Usable
    <3>4. Held = DuckDB(file')
      BY <3>2, <3>3 DEF Held, DuckDB
    <3>5. OpenInv' /\ CopyInv'
      BY <1>0, <1>u, <3>1, <3>2, <3>3 DEF OpenInv, CopyInv
    <3>6. QED
      BY <3>1, <3>4, <3>5 DEF PairIn
  <2>3. CASE CommitDuckDB
    <3>1. /\ ppc = "running" /\ ppc' = "half" /\ handle' = handle /\ spc = "off"
          /\ pairs' = pairs \cup {<<SQLite(file), runs>>}
      BY <2>3 DEF CommitDuckDB, LockInv, TypeInv, LockTypes
    <3>2. handle = "active" /\ Usable(file["duckdb"]) /\ Usable(file["sqlite"])
      BY <1>0, <3>1 DEF OpenInv
    <3>3. file' = [file EXCEPT !["duckdb.wal"] = runs]
      BY <2>3, <3>2 DEF CommitDuckDB
    <3>4. /\ file'["duckdb"] = file["duckdb"] /\ file'["duckdb.wal"] = runs
          /\ file'["sqlite"] = file["sqlite"] /\ file'["sqlite-wal"] = file["sqlite-wal"]
      BY <1>t, <3>3 DEF Files
    <3>5. PairIn(file') = <<SQLite(file), runs>>
      BY <1>t, <3>4 DEF PairIn, SQLite, DuckDB, Logical
    <3>6. OpenInv' /\ CopyInv'
      BY <1>0, <1>u, <3>1, <3>2, <3>4 DEF OpenInv, CopyInv
    <3>7. QED
      BY <3>1, <3>5, <3>6
  <2>4. CASE CommitSQLite
    <3>1. /\ ppc = "half" /\ ppc' = "committed" /\ handle' = handle /\ spc = "off"
          /\ pairs' = pairs \cup {<<runs, Held>>}
          /\ file' = [file EXCEPT !["sqlite-wal"] = runs]
      BY <2>4 DEF CommitSQLite, LockInv, TypeInv, LockTypes
    <3>2. handle = "active" /\ Usable(file["duckdb"]) /\ Usable(file["sqlite"])
      BY <1>0, <3>1 DEF OpenInv
    <3>4. /\ file'["duckdb"] = file["duckdb"] /\ file'["duckdb.wal"] = file["duckdb.wal"]
          /\ file'["sqlite"] = file["sqlite"] /\ file'["sqlite-wal"] = runs
      BY <1>t, <3>1 DEF Files
    <3>5. PairIn(file') = <<runs, Held>>
      BY <1>t, <3>2, <3>4 DEF PairIn, SQLite, DuckDB, Logical, Held
    <3>6. OpenInv' /\ CopyInv'
      BY <1>0, <1>u, <3>1, <3>2, <3>4 DEF OpenInv, CopyInv
    <3>7. QED
      BY <3>1, <3>5, <3>6
  <2>5. CASE ClosePipeline
    <3>1. ppc # "off" /\ ppc' = "off" /\ pairs' = pairs /\ handle = "active"
      BY <1>0, <2>5 DEF ClosePipeline, OpenInv
    <3>2. OpenInv'
      BY <3>1 DEF OpenInv
    <3>3. CASE ppc = "opened"
      <4>1. file' = DuckDBFolded(file) /\ Usable(file["duckdb"])
        BY <1>0, <2>5, <3>1, <3>3 DEF ClosePipeline, OpenInv
      <4>2. /\ PairIn(file') = PairIn(file) /\ file'["sqlite"] = file["sqlite"]
            /\ Usable(file'["duckdb"]) /\ file'["duckdb.wal"] = None
        BY <1>t, <4>1, FoldingKeeps
      <4>3. SQLite(file') = SQLite(file) /\ DuckDB(file') = DuckDB(file)
        BY <4>2 DEF PairIn
      <4>4. CopyInv'
        BY <1>0, <1>u, <4>2, <4>3 DEF CopyInv, SQLite, DuckDB
      <4>5. QED
        BY <1>c, <3>1, <3>2, <4>1, <4>2, <4>4 DEF CompleteIn
    <3>4. CASE ppc # "opened"
      <4>1. file' = DuckDBFolded(SQLiteFolded(file)) /\ spc = "off"
        BY <2>5, <3>1, <3>4 DEF ClosePipeline, LockInv, TypeInv, RunInv, PipelineTypes
      <4>2. CompleteIn(file)
        BY <1>0, <3>1, <3>4 DEF OpenInv, CompleteIn
      <4>3. SQLiteFolded(file) \in [Files -> State] /\ NoPartialSidecar(SQLiteFolded(file))
        BY <1>t, LogicalType
      <4>4. PairIn(file') = PairIn(file)
        BY <1>t, <4>1, <4>3, FoldingKeeps
      <4>5. CopyInv'
        BY <1>u, <4>1 DEF CopyInv
      <4>6. QED
        BY <1>c, <3>1, <3>2, <4>2, <4>4, <4>5
    <3>5. QED
      BY <3>3, <3>4
  <2>6. CASE PipelineDies
    <3>1. ppc' = "off" /\ file' = file
      BY <2>6 DEF PipelineDies
    <3>2. QED
      BY <1>0, <1>c, <1>u, <2>6, <3>1 DEF CompleteIn, PairIn, OpenInv, CopyInv, SQLite, DuckDB
  <2>7. QED
    BY <2>1, <2>2, <2>3, <2>4, <2>5, <2>6 DEF Pipeline
<1>4. NeverMixed'
  BY <1>2, <1>3 DEF NeverMixed, Complete, Pair, CompleteIn, PairIn
<1>5. QED
  BY <1>1, <1>3, <1>4

\* What a snapshot publishes is the pair it found.
LEMMA SnapshotKeepsPairs ==
    ASSUME TypeInv, LockInv, MixInv, Snapshot, ~raced'
    PROVE  MixInv'
<1> USE DEF MixInv
<1>t. /\ file \in [Files -> State] /\ NoPartialSidecar(file)
      /\ None \notin Content /\ Partial \notin Content
      /\ spc \in {"copied", "archived"} => staged.sqlite \in Content
      /\ staged = [sqlite |-> staged.sqlite, duckdb |-> staged.duckdb]
  BY Constants DEF TypeInv, FileInv, FileTypes, StagedInv, SnapshotTypes
<1>u. UNCHANGED <<ppc, handle, runs, restorer, pairs, raced>> /\ ~raced
  BY DEF Snapshot, StartSnapshot, CheckpointDuckDB, CopySQLite, WriteArchive,
         SnapshotFails, Publish, pipeline
<1>0. rpc = "off" /\ rpc' = "off" /\ ppc \in {"off", "opened"}
  <2>1. lock = "free" \/ lock = "snapshot"
    BY DEF LockInv, Snapshot, StartSnapshot, CheckpointDuckDB, CopySQLite, WriteArchive,
           SnapshotFails, Publish
  <2>2. QED
    BY <1>u, <2>1 DEF restorer, LockInv, TypeInv, RunInv, PipelineTypes
<1>1. OrderInv'
  BY <1>0 DEF OrderInv
<1>c. /\ CompleteIn(file) => PairIn(file) \in pairs
      /\ \A a \in archives : <<a.sqlite, a.duckdb>> \in pairs
  BY <1>u DEF NeverMixed, Complete, Pair, CompleteIn, PairIn
<1>2. /\ CompleteIn(file') => PairIn(file') \in pairs
      /\ \A a \in archives' : <<a.sqlite, a.duckdb>> \in pairs
      /\ OpenInv' /\ CopyInv'
  <2>1. CASE StartSnapshot \/ SnapshotFails
    <3>1. UNCHANGED <<file, archives>> /\ spc' \in {"locked", "off"}
      BY <2>1 DEF StartSnapshot, SnapshotFails
    <3>2. QED
      BY <1>0, <1>c, <1>u, <3>1 DEF OpenInv, CopyInv
  <2>2. CASE CheckpointDuckDB
    <3>1. /\ file' = DuckDBFolded(file) /\ Usable(file["duckdb"]) /\ archives' = archives
          /\ spc' = "checkpointed" /\ handle # "active"
      BY <2>2 DEF CheckpointDuckDB
    <3>2. /\ PairIn(file') = PairIn(file) /\ file'["sqlite"] = file["sqlite"]
          /\ Usable(file'["duckdb"]) /\ file'["duckdb.wal"] = None
      BY <1>t, <3>1, FoldingKeeps
    <3>3. ppc = "off"
      BY <1>u, <3>1 DEF OpenInv
    <3>4. OpenInv' /\ CopyInv'
      BY <1>u, <3>1, <3>2, <3>3 DEF OpenInv, CopyInv
    <3>5. QED
      BY <1>c, <3>1, <3>2, <3>4 DEF CompleteIn
  <2>3. CASE CopySQLite
    <3>1. /\ file' = SQLiteFolded(file) /\ Usable(file["sqlite"]) /\ archives' = archives
          /\ spc = "checkpointed" /\ spc' = "copied"
          /\ staged' = [staged EXCEPT !.sqlite = SQLite(file)]
      BY <2>3 DEF CopySQLite, SQLiteCopy
    <3>2. /\ PairIn(file') = PairIn(file) /\ file'["duckdb"] = file["duckdb"]
          /\ Usable(file'["sqlite"]) /\ file'["duckdb.wal"] = file["duckdb.wal"]
      BY <1>t, <3>1, FoldingKeeps
    <3>3. SQLite(file') = SQLite(file)
      BY <3>2 DEF PairIn
    <3>4. OpenInv'
      BY <1>0, <1>u, <3>2 DEF OpenInv
    <3>5. CopyInv'
      <4>1. staged'.sqlite = SQLite(file')
        BY <1>t, <3>1, <3>3
      <4>2. QED
        BY <1>u, <3>1, <3>2, <4>1 DEF CopyInv, SQLite
    <3>6. QED
      BY <1>c, <3>1, <3>2, <3>4, <3>5 DEF CompleteIn
  <2>4. CASE WriteArchive
    <3>1. /\ UNCHANGED <<file, archives>> /\ spc = "copied" /\ spc' = "archived"
          /\ staged' = [staged EXCEPT !.duckdb = file["duckdb"]]
      BY <2>4 DEF WriteArchive
    <3>2. /\ file["duckdb.wal"] = None /\ staged.sqlite = SQLite(file)
          /\ Usable(file["sqlite"]) /\ Usable(file["duckdb"])
      BY <1>u, <3>1 DEF CopyInv
    <3>3. staged'.duckdb = file["duckdb"] /\ staged'.sqlite = staged.sqlite
      BY <1>t, <3>1
    <3>4. CopyInv'
      BY <3>1, <3>2, <3>3 DEF CopyInv, DuckDB, SQLite, Logical
    <3>5. OpenInv'
      BY <1>0, <1>u, <3>1 DEF OpenInv
    <3>6. QED
      BY <1>c, <3>1, <3>4, <3>5
  <2>5. CASE Publish
    <3>1. /\ file' = file /\ spc = "archived" /\ spc' = "off"
          /\ archives' = archives \cup {staged}
      BY <2>5 DEF Publish
    <3>2. /\ staged.sqlite = SQLite(file) /\ staged.duckdb = DuckDB(file)
          /\ CompleteIn(file)
      BY <1>u, <3>1 DEF CopyInv, CompleteIn
    <3>3. <<staged.sqlite, staged.duckdb>> \in pairs
      BY <1>c, <3>2 DEF PairIn
    <3>4. OpenInv' /\ CopyInv'
      BY <1>0, <1>u, <3>1 DEF OpenInv, CopyInv
    <3>5. QED
      BY <1>c, <3>1, <3>3, <3>4
  <2>6. QED
    BY <2>1, <2>2, <2>3, <2>4, <2>5 DEF Snapshot
<1>3. NeverMixed'
  BY <1>2, <1>u DEF NeverMixed, Complete, Pair, CompleteIn, PairIn
<1>4. QED
  BY <1>1, <1>2, <1>3

\* The order of a list, as it grows, is turned round and is walked.
LEMMA SqliteOrder ==
    ASSUME NEW s \in Seq(Files)
    PROVE  /\ SqliteFirst(<<>>) /\ SqliteLast(<<>>)
           /\ \A f \in Files : SqliteFirst(s) /\ (f = "sqlite" => s = <<>>)
                                 => SqliteFirst(Append(s, f))
           /\ SqliteFirst(s) => SqliteLast(Reverse(s))
           /\ SqliteLast(s) /\ s # <<>> =>
                /\ SqliteLast(Tail(s))
                /\ Head(s) = "sqlite" => ToSet(s) \subseteq {"sqlite"}
<1>1. SqliteFirst(<<>>) /\ SqliteLast(<<>>)
  BY DEF SqliteFirst, SqliteLast
<1>2. ASSUME NEW f \in Files, SqliteFirst(s), f = "sqlite" => s = <<>>
      PROVE  SqliteFirst(Append(s, f))
  <2>1. /\ Len(s) \in Nat /\ Len(Append(s, f)) = Len(s) + 1
        /\ Append(s, f)[Len(s) + 1] = f
        /\ \A i \in 1..Len(s) : Append(s, f)[i] = s[i]
    OBVIOUS
  <2>2. ASSUME NEW i \in 1..Len(s) + 1, Append(s, f)[i] = "sqlite"
        PROVE  i = 1
    <3>1. CASE i = Len(s) + 1
      <4>1. s = <<>>
        BY <1>2, <2>1, <2>2, <3>1
      <4>2. QED
        BY <3>1, <4>1
    <3>2. CASE i # Len(s) + 1
      <4>1. i \in 1..Len(s)
        BY <2>1, <3>2
      <4>2. QED
        BY <1>2, <2>1, <2>2, <4>1 DEF SqliteFirst
    <3>3. QED
      BY <3>1, <3>2
  <2>3. QED
    BY <2>1, <2>2 DEF SqliteFirst
<1>3. ASSUME SqliteFirst(s)
      PROVE  SqliteLast(Reverse(s))
  <2>1. /\ Len(s) \in Nat /\ Len(Reverse(s)) = Len(s)
        /\ \A i \in 1..Len(s) : /\ Reverse(s)[i] = s[Len(s) - i + 1]
                                /\ Len(s) - i + 1 \in 1..Len(s)
    BY DEF Reverse
  <2>2. ASSUME NEW i \in 1..Len(s), Reverse(s)[i] = "sqlite"
        PROVE  i = Len(s)
    <3>1. Len(s) - i + 1 = 1
      BY <1>3, <2>1, <2>2 DEF SqliteFirst
    <3>2. QED
      BY <2>1, <3>1
  <2>3. QED
    BY <2>1, <2>2 DEF SqliteLast
<1>4. ASSUME SqliteLast(s), s # <<>>
      PROVE  /\ SqliteLast(Tail(s))
             /\ Head(s) = "sqlite" => ToSet(s) \subseteq {"sqlite"}
  <2>1. /\ Len(s) \in Nat \ {0} /\ Head(s) = s[1] /\ Len(Tail(s)) = Len(s) - 1
        /\ \A i \in 1..(Len(s) - 1) : Tail(s)[i] = s[i + 1] /\ i + 1 \in 1..Len(s)
        /\ DOMAIN s = 1..Len(s)
    BY <1>4
  <2>2. ASSUME NEW i \in 1..(Len(s) - 1), Tail(s)[i] = "sqlite"
        PROVE  i = Len(s) - 1
    <3>1. i \in Nat /\ Len(s) \in Nat
      BY <2>1
    <3>2. s[i + 1] = "sqlite" /\ i + 1 \in 1..Len(s)
      BY <2>1, <2>2
    <3>3. i + 1 = Len(s)
      BY <1>4, <3>2 DEF SqliteLast
    <3>4. QED
      BY <3>1, <3>3
  <2>3. SqliteLast(Tail(s))
    BY <2>1, <2>2 DEF SqliteLast
  <2>4. ASSUME Head(s) = "sqlite"
        PROVE  ToSet(s) \subseteq {"sqlite"}
    <3>1. 1 \in 1..Len(s) /\ s[1] = "sqlite"
      BY <2>1, <2>4
    <3>2. 1 = Len(s)
      BY <1>4, <3>1 DEF SqliteLast
    <3>3. \A i \in DOMAIN s : i = 1
      <4> DEFINE n == Len(s)
      <4>1. DOMAIN s = 1..n /\ n = 1
        BY <2>1, <3>2
      <4> HIDE DEF n
      <4>2. QED
        BY <4>1
    <3>4. QED
      BY <3>1, <3>3 DEF ToSet
  <2>5. QED
    BY <2>3, <2>4
<1>5. QED
  BY <1>1, <1>2, <1>3, <1>4

\* Putting a file back completes a pair only if that is the pair the restore
\* found.
LEMMA PutBackKeepsPairs ==
    ASSUME TypeInv, MixInv, RestoreInv, PutBack, ~raced, rpc # "off"
    PROVE  /\ CompleteIn(file') => PairIn(file') \in pairs
           /\ ~asideFailed => PutBackInOrder'
<1>t. /\ file \in [Files -> State] /\ NoPartialSidecar(file) /\ bak \in [Files -> State]
      /\ moved \in Seq(Files)
  BY DEF TypeInv, FileInv, FileTypes, ListTypes
<1>1. /\ rpc = "putback" /\ moved # <<>> /\ before' = before
  BY DEF PutBack
<1>2. /\ ~asideFailed /\ PutBackInv /\ PutBackInOrder
      /\ CompleteIn(before) => PairIn(before) \in pairs
      /\ CompleteIn(file) => PairIn(file) \in pairs
  BY <1>1 DEF RestoreInv, MixInv, OrderInv, NeverMixed, Complete, Pair, CompleteIn, PairIn
<1>3. PICK f \in Files : f = Head(moved)
  BY <1>t, <1>1, ListElements
<1>4. /\ ToSet(moved) = ToSet(Tail(moved)) \cup {f}
      /\ f = "sqlite" => ToSet(moved) \subseteq {"sqlite"}
      /\ SqliteLast(Tail(moved))
  BY <1>t, <1>1, <1>2, <1>3, ListElements, SqliteOrder DEF PutBackInOrder
<1>5. CASE bak[f] = None /\ moved' = Tail(moved) /\ UNCHANGED <<file, bak>>
  BY <1>1, <1>2, <1>4, <1>5 DEF PutBackInOrder, Present
<1>6. CASE bak[f] # None /\ PutBackFile(f) /\ UNCHANGED moved
  <2>1. Present(f) /\ BackedUp(f)
    BY <1>2, <1>4, <1>6 DEF PutBackInv, PutBackInOrder
  <2>2. \/ file' = [file EXCEPT ![f] = None]
        \/ file' = [file EXCEPT ![f] = before[f]]
    BY <1>6, <2>1 DEF PutBackFile, BackedUp
  <2>3. \A g \in Files : g # f => file'[g] = file[g]
    BY <1>t, <2>2
  <2>4. CASE f # "sqlite"
    <3>1. ~Usable(file["sqlite"]) /\ file'["sqlite"] = file["sqlite"]
      BY <1>2, <1>4, <2>3, <2>4 DEF PutBackInOrder, Files
    <3>2. ~CompleteIn(file')
      BY <3>1 DEF CompleteIn
    <3>3. PutBackInOrder'
      BY <1>1, <1>2, <1>6, <2>1, <2>3, <3>1 DEF PutBackInOrder, Present
    <3>4. QED
      BY <3>2, <3>3
  <2>5. CASE f = "sqlite"
    <3>1. PutBackInOrder'
      BY <1>1, <1>2, <1>4, <1>6, <2>1, <2>3, <2>5 DEF PutBackInOrder, Present
    <3>2. ASSUME CompleteIn(file')
          PROVE  PairIn(file') \in pairs
      <4>1. file'["sqlite"] # None
        BY <3>2 DEF CompleteIn, Usable
      <4>2. file'["sqlite"] = before["sqlite"]
        BY <1>t, <2>2, <2>5, <4>1
      <4>3. ASSUME NEW g \in Files, g # "sqlite"
            PROVE  \/ file'[g] = before[g]
                   \/ before[g] = None /\ ~Usable(file'[g])
        <5>1. g \notin ToSet(moved) /\ file'[g] = file[g]
          BY <1>4, <2>3, <2>5, <4>3
        <5>2. QED
          BY <1>2, <5>1 DEF PutBackInv, PutBackInOrder, Present, InPlace
      <4>4. file'["duckdb"] = before["duckdb"]
        BY <3>2, <4>3 DEF CompleteIn, Files
      <4>5. ASSUME NEW g \in {"sqlite-wal", "duckdb.wal"}
            PROVE  file'[g] = before[g]
        <5>1. file'[g] # Partial /\ g \in Files /\ g # "sqlite"
          BY <1>t, <2>3, <2>5, <4>5 DEF NoPartialSidecar, Files
        <5>2. QED
          BY <4>3, <5>1 DEF Usable
      <4>6. PairIn(file') = PairIn(before) /\ CompleteIn(before)
        BY <3>2, <4>2, <4>4, <4>5 DEF PairIn, SQLite, DuckDB, CompleteIn
      <4>7. QED
        BY <1>2, <4>6
    <3>3. QED
      BY <3>1, <3>2
  <2>6. QED
    BY <2>4, <2>5
<1>7. QED
  BY <1>3, <1>5, <1>6 DEF PutBack

\* Each step of a restore leaves an incomplete pair, the one it found, or that of
\* an archive.
LEMMA RestoreKeepsPairs ==
    ASSUME TypeInv, LockInv, ArchiveInv, RestoreInv, MixInv, Restore, ~raced'
    PROVE  MixInv'
<1> USE DEF MixInv
<1>t. /\ file \in [Files -> State] /\ next \in Nat
      /\ moved \in Seq(Files) /\ backed \in Seq(Files) /\ installed \in Seq(Files)
      /\ raced \in BOOLEAN /\ asideFailed \in BOOLEAN
      /\ None \notin Content /\ Partial \notin Content /\ None # Partial
  BY Constants DEF TypeInv, FileInv, FileTypes, ListTypes, RestorerInv, RestoreTypes,
                   FlagTypes
<1>u. UNCHANGED <<ppc, spc, staged, archives, pairs>>
  BY DEF Restore, StartRestore, Aside, AsideReturns, AsideRaises, Install, InstallRaises,
         Installed, RemoveInstalled, RemovedAll, PutBack, RollbackRaises, RolledBack,
         Cleanup, Succeeded, RestoreEnds, pipeline, snapshot
<1>r. ~raced /\ (StartRestore \/ (rpc # "off" /\ ~StartRestore))
  <2>1. CASE StartRestore
    <3>1. raced' = (raced \/ ppc # "off")
      BY <2>1 DEF StartRestore
    <3>2. ~raced
      BY <3>1, Zenon
    <3>3. QED
      BY <2>1, <3>2
  <2>2. CASE ~StartRestore
    BY <2>2 DEF Restore, Aside, AsideReturns, AsideRaises, Install, InstallRaises,
           Installed, RemoveInstalled, RemovedAll, PutBack, RollbackRaises, RolledBack,
           Cleanup, Succeeded, RestoreEnds
  <2>3. QED
    BY <2>1, <2>2
<1>0. ppc = "off" /\ spc = "off"
  <2>1. CASE StartRestore
    BY <1>t, <2>1 DEF StartRestore, LockInv
  <2>2. CASE rpc # "off"
    BY <1>r, <2>2 DEF RestoreInv, LockInv
  <2>3. QED
    BY <1>r, <2>1, <2>2
<1>o. OpenInv' /\ CopyInv'
  BY <1>0, <1>u DEF OpenInv, CopyInv
<1>c. /\ CompleteIn(file) => PairIn(file) \in pairs
      /\ \A a \in archives : <<a.sqlite, a.duckdb>> \in pairs
      /\ OrderInv
  BY <1>r DEF NeverMixed, Complete, Pair, CompleteIn, PairIn
<1>1. (CompleteIn(file') => PairIn(file') \in pairs) /\ OrderInv'
  <2>1. CASE StartRestore
    <3>1. /\ file' = file /\ before' = file /\ moved' = <<>> /\ rpc' \in {"aside", "returning"}
          /\ rpc' = "aside" => source' \in archives
      BY <2>1 DEF StartRestore
    <3>2. QED
      BY <1>c, <1>t, <1>u, <3>1, SqliteOrder DEF OrderInv
  <2>2. CASE Aside
    <3>1. PICK f \in Files : /\ f = ActivePaths[next] /\ next \in 1..4
                             /\ RemoveOldBackup(f) \/ SetAside(f) \/ NotThere(f)
      BY <2>2, Constants DEF Aside, TypeInv, RestorerInv, RestoreTypes
    <3>2. /\ rpc = "aside" /\ rpc' = "aside" /\ AsideInv
          /\ UNCHANGED <<before, asideFailed, backed, installed, source>>
      BY <1>r, <2>2 DEF Aside, RestoreInv
    <3>3. CASE RemoveOldBackup(f) \/ NotThere(f)
      <4>1. UNCHANGED <<file, moved>> /\ (next' = 1 => next = 1)
        BY <1>t, <3>1, <3>3 DEF RemoveOldBackup, NotThere
      <4>2. QED
        BY <1>c, <1>u, <3>2, <4>1 DEF OrderInv
    <3>4. CASE SetAside(f)
      <4>1. /\ file' = [file EXCEPT ![f] = None] /\ next' = next + 1
            /\ moved' = Append(moved, f)
        BY <3>4 DEF SetAside
      <4>2. next # 1 => f # "sqlite" /\ file["sqlite"] = None
        <5>1. /\ ActivePaths[1] = "sqlite" /\ ActivePaths[2] = "sqlite-wal"
              /\ ActivePaths[3] = "duckdb" /\ ActivePaths[4] = "duckdb.wal"
          BY DEF ActivePaths
        <5>2. next # 1 => 1 < next /\ next \in {2, 3, 4}
          BY <3>1
        <5>3. QED
          BY <3>1, <3>2, <5>1, <5>2 DEF AsideInv
      <4>3. next = 1 => f = "sqlite"
        BY <3>1 DEF ActivePaths
      <4>4. file'["sqlite"] = None
        BY <1>t, <4>1, <4>2, <4>3 DEF Files
      <4>5. SqliteFirst(moved')
        BY <1>c, <1>t, <3>2, <4>1, <4>2, SqliteOrder DEF OrderInv
      <4>6. next' # 1
        BY <3>1, <4>1
      <4>7. QED
        BY <1>c, <1>u, <3>2, <4>4, <4>5, <4>6 DEF OrderInv, CompleteIn, Usable
    <3>5. QED
      BY <3>1, <3>3, <3>4
  <2>3. CASE AsideReturns
    <3>1. /\ rpc = "aside" /\ rpc' = "install" /\ next > 4 /\ backed' = moved /\ next' = 1
          /\ UNCHANGED <<file, before, source, installed, asideFailed>> /\ AsideInv
      BY <1>r, <2>3, Constants DEF AsideReturns, RestoreInv
    <3>2. file["sqlite"] = None /\ file["duckdb"] = None
      <4>1. ActivePaths[1] = "sqlite" /\ ActivePaths[3] = "duckdb"
        BY DEF ActivePaths
      <4>2. 1 < next /\ 3 < next
        BY <1>t, <3>1
      <4>3. QED
        BY <3>1, <4>1, <4>2 DEF AsideInv
    <3>3. QED
      BY <1>c, <1>u, <3>1, <3>2 DEF OrderInv, AsideInv
  <2>4. CASE Install
    <3>1. /\ next \in {1, 2} /\ next' = next + 1 /\ rpc = "install" /\ rpc' = "install"
          /\ UNCHANGED <<before, source, backed, asideFailed>>
          /\ file' = [file EXCEPT ![RestoreNames[next]] = source[RestoreNames[next]]]
          /\ installed' = Append(installed, RestoreNames[next])
      BY <1>t, <2>4, Constants DEF Install, TypeInv, RestorerInv, RestoreTypes
    <3>2. CASE next = 1
      <4>1. /\ file' = [file EXCEPT !["sqlite"] = source.sqlite]
            /\ installed' = Append(<<>>, "sqlite") /\ file["duckdb"] = None
        BY <1>c, <3>1, <3>2 DEF OrderInv, RestoreNames
      <4>2. file'["duckdb"] = None /\ installed' = <<"sqlite">>
        BY <1>t, <4>1 DEF Files
      <4>3. QED
        BY <1>c, <1>u, <3>1, <3>2, <4>2 DEF OrderInv, CompleteIn, Usable
    <3>3. CASE next = 2
      <4>1. file' = [file EXCEPT !["duckdb"] = source.duckdb]
        BY <3>1, <3>3 DEF RestoreNames
      <4>2. /\ file["sqlite"] = source.sqlite
            /\ file["sqlite-wal"] = None /\ file["duckdb.wal"] = None
        BY <3>1, <3>3 DEF ArchiveInv
      <4>3. PairIn(file') = <<source.sqlite, source.duckdb>>
        BY <1>t, <4>1, <4>2 DEF PairIn, SQLite, DuckDB, Logical, Files
      <4>4. QED
        BY <1>c, <1>u, <3>1, <3>3, <4>3 DEF OrderInv
    <3>4. QED
      BY <3>1, <3>2, <3>3
  <2>5. CASE InstallRaises
    <3>1. /\ next \in {1, 2} /\ rpc = "install" /\ rpc' = "remove"
          /\ UNCHANGED <<before, backed, installed, asideFailed>>
          /\ \/ file' = [file EXCEPT ![RestoreNames[next]] = Partial]
             \/ file' = file
      BY <1>t, <2>5, Constants DEF InstallRaises, TypeInv, RestorerInv, RestoreTypes
    <3>2. RestoreNames[1] = "sqlite" /\ RestoreNames[2] = "duckdb"
      BY DEF RestoreNames
    <3>3. /\ file["sqlite-wal"] = None /\ file["duckdb.wal"] = None /\ file["duckdb"] = None
          /\ \/ next = 1 /\ installed = <<>> /\ file["sqlite"] = None
             \/ next = 2 /\ installed = <<"sqlite">>
      BY <1>c, <3>1 DEF ArchiveInv, OrderInv
    <3>4. HalfInstalled'
      BY <1>t, <3>1, <3>2, <3>3 DEF HalfInstalled, Usable, Files
    <3>5. QED
      BY <1>c, <1>u, <3>1, <3>4 DEF OrderInv, HalfInstalled, CompleteIn
  <2>6. CASE RemoveInstalled
    <3>1. /\ rpc = "remove" /\ rpc' = "remove" /\ installed # <<>>
          /\ UNCHANGED <<before, backed, asideFailed>>
          /\ file' = [file EXCEPT ![Last(installed)] = None]
          /\ installed' = Front(installed)
      BY <2>6 DEF RemoveInstalled
    <3>2. ~asideFailed
      BY <1>r, <3>1 DEF RestoreInv
    <3>3. HalfInstalled /\ installed = <<"sqlite">>
      BY <1>c, <3>1, <3>2 DEF OrderInv, HalfInstalled
    <3>4. Last(installed) = "sqlite" /\ Front(installed) = <<>>
      BY <3>3 DEF Last, Front
    <3>5. HalfInstalled'
      BY <1>t, <3>1, <3>3, <3>4 DEF HalfInstalled, Usable, Files
    <3>6. QED
      BY <1>c, <1>u, <3>1, <3>5 DEF OrderInv, HalfInstalled, CompleteIn
  <2>7. CASE RemovedAll
    <3>1. /\ rpc = "remove" /\ rpc' = "putback" /\ moved' = Reverse(backed)
          /\ UNCHANGED <<file, before, asideFailed>> /\ installed = <<>>
      BY <2>7 DEF RemovedAll, ToPutBack
    <3>2. ASSUME ~asideFailed
          PROVE  PutBackInOrder'
      <4>1. BackupInv /\ SqliteFirst(backed) /\ HalfInstalled
        BY <1>c, <1>r, <3>1, <3>2 DEF RestoreInv, OrderInv
      <4>2. ToSet(moved') = ToSet(backed) /\ SqliteLast(moved')
        BY <1>t, <3>1, <4>1, ListElements, SqliteOrder
      <4>3. \A f \in Files : ~Usable(file[f])
        BY <3>1, <4>1 DEF HalfInstalled, Usable, Files
      <4>4. QED
        BY <3>1, <4>1, <4>2, <4>3 DEF PutBackInOrder, BackupInv, Present, Files
    <3>3. QED
      BY <1>c, <1>u, <3>1, <3>2 DEF OrderInv
  <2>8. CASE PutBack
    <3>1. rpc = "putback" /\ rpc' = "putback" /\ UNCHANGED <<before, asideFailed>>
      BY <2>8 DEF PutBack
    <3>2. QED
      BY <1>c, <1>r, <1>u, <2>8, <3>1, PutBackKeepsPairs DEF OrderInv
  <2>9. CASE AsideRaises
    <3>1. rpc # "off" /\ rpc' = "remove" /\ asideFailed' /\ UNCHANGED <<file, before>>
      BY <2>9 DEF AsideRaises
    <3>2. QED
      BY <1>c, <1>u, <3>1 DEF OrderInv
  <2>10. CASE Installed \/ RollbackRaises \/ RolledBack \/ Cleanup \/ Succeeded
    <3>1. rpc # "off" /\ rpc' \in {"cleanup", "returning"} /\ UNCHANGED <<file, before>>
      BY <2>10 DEF Installed, RollbackRaises, RolledBack, Cleanup, Succeeded
    <3>2. QED
      BY <1>c, <1>u, <3>1 DEF OrderInv
  <2>11. CASE RestoreEnds
    BY <1>c, <2>11 DEF RestoreEnds, OrderInv
  <2>12. QED
    BY <2>1, <2>2, <2>3, <2>4, <2>5, <2>6, <2>7, <2>8, <2>9, <2>10, <2>11 DEF Restore
<1>2. NeverMixed'
  BY <1>1, <1>c, <1>u DEF NeverMixed, Complete, Pair, CompleteIn, PairIn
<1>3. QED
  BY <1>1, <1>2, <1>o

LEMMA MixStep ==
    TypeInv /\ LockInv /\ ArchiveInv /\ RestoreInv /\ MixInv /\ [Next]_vars => MixInv'
<1> SUFFICES ASSUME TypeInv, LockInv, ArchiveInv, RestoreInv, MixInv, [Next]_vars
             PROVE  MixInv'
  OBVIOUS
<1>1. CASE raced'
  BY <1>1 DEF MixInv, NeverMixed
<1>2. CASE ~raced' /\ Next
  BY <1>2, PipelineKeepsPairs, SnapshotKeepsPairs, RestoreKeepsPairs DEF Next
<1>3. CASE UNCHANGED vars
  <2>1. UNCHANGED <<file, handle, ppc, runs, spc, staged, archives, rpc, source, next,
                    moved, backed, installed, before, asideFailed, pairs, raced>>
    BY <1>3 DEF vars, pipeline, snapshot, restorer
  <2>2. OpenInv' <=> OpenInv
    BY <2>1 DEF OpenInv
  <2>3. CopyInv' <=> CopyInv
    BY <2>1 DEF CopyInv, SQLite, DuckDB
  <2>4. OrderInv' <=> OrderInv
    BY <2>1 DEF OrderInv, CompleteIn, PairIn, SQLite, DuckDB, SqliteFirst, SqliteLast,
                HalfInstalled, PutBackInOrder, Present
  <2>5. NeverMixed' <=> NeverMixed
    BY <2>1 DEF NeverMixed, Complete, Pair, SQLite, DuckDB
  <2>6. QED
    BY <2>1, <2>2, <2>3, <2>4, <2>5 DEF MixInv
<1>4. QED
  BY <1>1, <1>2, <1>3

\* Whenever both active databases are there they are a pair that a pipeline had
\* open, and so is what every published archive holds: no death, failure, restore
\* or rollback brings stores of two histories together.
THEOREM PairsAreNeverMixed == Spec => []NeverMixed
<1>1. Init => LockInv /\ ArchiveInv /\ RestoreInv /\ MixInv
  <2> SUFFICES ASSUME Init PROVE LockInv /\ ArchiveInv /\ RestoreInv /\ MixInv
    OBVIOUS
  <2>1. LockInv /\ ArchiveInv /\ RestoreInv
    BY DEF Init, LockInv, ArchiveInv, RestoreInv
  <2>2. ~Complete /\ archives = {}
    BY DEF Init, Complete, Usable, Absent, Files
  <2>3. QED
    BY <2>1, <2>2 DEF Init, MixInv, NeverMixed, OpenInv, CopyInv, OrderInv
<1>2. TypeInv /\ LockInv /\ ArchiveInv /\ RestoreInv /\ MixInv /\ [Next]_vars
        => (LockInv /\ ArchiveInv /\ RestoreInv /\ MixInv)'
  BY LockStep, ArchiveStep, RestoreStep, MixStep
<1>3. MixInv => NeverMixed
  BY DEF MixInv
<1>4. QED
  BY <1>1, <1>2, <1>3, TypeInit, TypeStep, PTL DEF Spec

=============================================================================
