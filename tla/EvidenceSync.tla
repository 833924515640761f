----------------------------- MODULE EvidenceSync -----------------------------
(***************************************************************************)
(* How a source file becomes evidence.  The control plane (SQLite) keeps a *)
(* registry row and the captured bytes of every file; the warehouse        *)
(* (DuckDB) keeps the Bronze rows extracted from those bytes and a         *)
(* registry of its own, m_File_Registry.  Each run heals the two against   *)
(* each other in autocommit mode, then discovers, compares, captures and   *)
(* loads inside the two transactions of RunCommit, which may roll back,    *)
(* commit, or commit in the warehouse only.  The user edits the folder at  *)
(* any moment, also during a run.                                          *)
(*                                                                         *)
(* A path belongs to a category by its folder; Bronze knows a file by its  *)
(* base name.  Content stands for the bytes and for their SHA-256 digest.  *)
(*                                                                         *)
(* A category fills one Bronze table, but the ledger fills five: one load  *)
(* writes them all, while renames and the healer go through a dictionary   *)
(* from category to table, which keeps only the last contract of each.     *)
(***************************************************************************)
EXTENDS Naturals

CONSTANTS
    Paths, Cats, Names, Contents,
    None,          \* no file, no bytes, no entry
    Cat,           \* the category of a path
    Name,          \* os.path.basename of a path
    Tables,        \* the Bronze tables, one per contract
    TableCat,      \* the sync_category of a table
    LastTable,     \* cat_to_table: the table of the last contract of a category
    FullReplace,   \* categories replaced as a whole, one file at a time
    ContentDrift,  \* categories whose FILE_HASH_POLICY compares digests
    Optional,      \* categories that may be without a file
    Blank,         \* contents from which no row is extracted
    MaxRuns,       \* bound on the runs started
    MaxEdits       \* bound on the edits of the folder and warehouse losses

ASSUME EvidenceAssumption ==
    /\ Cat \in [Paths -> Cats]
    /\ Name \in [Paths -> Names]
    /\ TableCat \in [Tables -> Cats] /\ LastTable \in [Cats -> Tables]
    /\ \A c \in Cats : TableCat[LastTable[c]] = c
    /\ FullReplace \subseteq Cats
    /\ \A t \in Tables :
         TableCat[t] \notin FullReplace => LastTable[TableCat[t]] = t
    /\ None \notin Contents /\ None \notin Nat
    /\ \A h \in Contents, b \in BOOLEAN : None # [hash |-> h, filled |-> b]
    /\ MaxRuns \in Nat /\ MaxEdits \in Nat

VARIABLES
    disk,      \* the source folder
    cp,        \* durable registry rows with their payloads
    wh,        \* durable Bronze rows and m_File_Registry
    cpView,    \* the same as the running pipeline sees them
    whView,
    pc,
    scanned,   \* when this run listed the folder, counted in edits; None with
               \* DISABLE_FILE_DISCOVERER
    found,     \* discovered_files
    renames,   \* rename tuples not yet applied to the warehouse
    todo,      \* NEW and CHANGED paths not yet captured
    inspected, \* <<table, base name>> pairs the healer saw in Bronze
    runs, edits,
    split      \* observation only: categories in which a run that ended
               \* split had changed the registry

durable  == <<cp, wh>>
views    == <<cpView, whView>>
memory   == <<scanned, found, renames, todo, inspected>>
vars     == <<disk, durable, views, pc, memory, runs, edits, split>>

-----------------------------------------------------------------------------
(* Types. *)

Bytes  == Contents \cup {None}

Entry  == [status : {"ABSENT", "PENDING", "SYNCED", "REMOVED"},
           hash : Bytes, payload : Bytes]

\* `from` is the path whose payload the row was extracted from
\* (__folder_path__); a rename rewrites only __file_name__.
BronzeRow == [table : Tables, name : Names, from : Paths, content : Contents]

Meta == [hash : Bytes, filled : BOOLEAN]

Warehouse == [bronze : SUBSET BronzeRow, meta : [Paths -> Meta \cup {None}]]

PC == {"idle", "pruning", "requeueing", "begun", "discovered", "capturing",
       "migrating", "loaded", "half", "done"}

TypeOK ==
    /\ disk \in [Paths -> Bytes]
    /\ cp \in [Paths -> Entry]
    /\ cpView \in [Paths -> Entry]
    /\ wh \in Warehouse
    /\ whView \in Warehouse
    /\ pc \in PC
    /\ scanned \in 0..MaxEdits \cup {None}
    /\ found \subseteq Paths
    /\ renames \subseteq Paths \X Paths
    /\ todo \subseteq Paths
    /\ inspected \subseteq Tables \X Names
    /\ runs \in 0..MaxRuns
    /\ edits \in 0..MaxEdits
    /\ split \subseteq Cats

Unregistered == [status |-> "ABSENT", hash |-> None, payload |-> None]
EmptyWarehouse == [bronze |-> {}, meta |-> [p \in Paths |-> None]]

Init ==
    /\ disk \in [Paths -> Bytes]
    /\ cp = [p \in Paths |-> Unregistered]
    /\ wh = EmptyWarehouse
    /\ cpView = cp /\ whView = wh
    /\ pc = "idle"
    /\ scanned = None
    /\ found = {} /\ renames = {} /\ todo = {} /\ inspected = {}
    /\ runs = 0 /\ edits = 0
    /\ split = {}

Goto(label) == pc' = label

-----------------------------------------------------------------------------
(* The user. *)

Edited(d) ==
    /\ edits < MaxEdits
    /\ edits' = edits + 1
    /\ disk' = d
    /\ UNCHANGED <<durable, views, pc, memory, runs, split>>

\* A file is written, overwritten or deleted.
EditFile ==
    \E p \in Paths, c \in Bytes :
        /\ disk[p] # c
        /\ Edited([disk EXCEPT ![p] = c])

\* A file is renamed, or moved to another folder.
MoveFile ==
    \E p, q \in Paths :
        /\ p # q
        /\ disk[p] # None /\ disk[q] = None
        /\ Edited([disk EXCEPT ![p] = None, ![q] = disk[p]])

\* The warehouse file is deleted: the next run creates an empty one.
LoseWarehouse ==
    /\ pc = "idle"
    /\ wh # EmptyWarehouse
    /\ edits < MaxEdits
    /\ edits' = edits + 1
    /\ wh' = EmptyWarehouse
    /\ whView' = EmptyWarehouse
    /\ UNCHANGED <<disk, cp, cpView, pc, memory, runs, split>>

-----------------------------------------------------------------------------
(* heal_duckdb_registry: autocommit in both stores, before the run begins. *)

Registered(r, p) == r[p].status # "ABSENT"

\* The rows that a rename or the healer finds for a file: those under its base
\* name in the last table of its category.
IsRowOf(b, p) == b.table = LastTable[Cat[p]] /\ b.name = Name[p]

\* One dangling entry.  The other tables of a ledger keep their rows.
Pruned(w, p) ==
    [bronze |-> {b \in w.bronze : ~IsRowOf(b, p)},
     meta   |-> [w.meta EXCEPT ![p] = None]]

\* Faulty: a missing entry is not noticed.
SyncRecordMissingByRows(p) ==
    /\ cp[p].status = "SYNCED"
    /\ wh.meta[p] # None
    /\ wh.meta[p].filled
    /\ Cat[p] \notin FullReplace
    /\ <<LastTable[Cat[p]], Name[p]>> \notin inspected

\* _is_sync_record_missing.  A missing Bronze table is a special case of the
\* missing entry: the transaction that creates a table also adds its entries.
SyncRecordMissing(p) ==
    /\ cp[p].status = "SYNCED"
    /\ \/ wh.meta[p] = None
       \/ /\ wh.meta[p] # None
          /\ wh.meta[p].filled
          /\ Cat[p] \notin FullReplace
          /\ <<LastTable[Cat[p]], Name[p]>> \notin inspected

\* The Bronze tables are inspected before anything is pruned.
StartHealing ==
    /\ pc = "idle"
    /\ runs < MaxRuns
    /\ runs' = runs + 1
    /\ inspected' = {<<b.table, b.name>> : b \in wh.bronze}
    /\ Goto("pruning")
    /\ UNCHANGED <<disk, durable, views, scanned, found, renames, todo, edits,
                   split>>

Dangling(p) == wh.meta[p] # None /\ ~Registered(cp, p)

PruneDangling ==
    /\ pc = "pruning"
    /\ \E p \in Paths :
        /\ Dangling(p)
        /\ wh' = Pruned(wh, p)
        /\ whView' = wh'
    /\ UNCHANGED <<disk, cp, cpView, pc, memory, runs, edits, split>>

PruningDone ==
    /\ pc = "pruning"
    /\ \A p \in Paths : ~Dangling(p)
    /\ Goto("requeueing")
    /\ UNCHANGED <<disk, durable, views, memory, runs, edits, split>>

\* _heal_missing_sync_records writes the status past the registry's own
\* operations.
Requeued(e) == [e EXCEPT !.status = "PENDING"]

Requeue ==
    /\ pc = "requeueing"
    /\ \E p \in Paths :
        /\ SyncRecordMissing(p)
        /\ cp' = [cp EXCEPT ![p] = Requeued(cp[p])]
        /\ cpView' = cp'
    /\ UNCHANGED <<disk, wh, whView, pc, memory, runs, edits, split>>

\* Nothing is left to heal: BEGIN in both stores.
BeginRun ==
    /\ pc = "requeueing"
    /\ \A p \in Paths : ~SyncRecordMissing(p)
    /\ inspected' = {}
    /\ Goto("begun")
    /\ UNCHANGED <<disk, durable, views, scanned, found, renames, todo, runs,
                   edits, split>>

-----------------------------------------------------------------------------
(* Phase 1: discovery, comparison with the registry, capture. *)

OnDisk(c) == {p \in Paths : Cat[p] = c /\ disk[p] # None}

\* Every file of a statement folder; a required folder must not be empty.
StatementFiles(c, f) ==
    /\ f \cap {p \in Paths : Cat[p] = c} = OnDisk(c)
    /\ OnDisk(c) # {} \/ c \in Optional

\* One file of a category that is replaced: the latest backup of the ledger,
\* the configured path of an asset.
ConfigurationAsset(c, f) ==
    \E p \in OnDisk(c) : f \cap {q \in Paths : Cat[q] = c} = {p}

Discover ==
    /\ pc = "begun"
    /\ \E f \in SUBSET {p \in Paths : disk[p] # None} :
        /\ \A c \in Cats \ FullReplace : StatementFiles(c, f)
        /\ \A c \in FullReplace : ConfigurationAsset(c, f)
        /\ found' = f
    /\ scanned' = edits
    /\ Goto("discovered")
    /\ UNCHANGED <<disk, durable, views, renames, todo, inspected, runs,
                   edits, split>>

\* DISABLE_FILE_DISCOVERER: straight to what is pending.
SkipDiscovery ==
    /\ pc = "begun"
    /\ Goto("migrating")
    /\ UNCHANGED <<disk, durable, views, memory, runs, edits, split>>

Live(p) == cpView[p].status \in {"PENDING", "SYNCED"}

\* Registered files with the same bytes that are no longer where they were.
RenameCandidates(p) ==
    {q \in Paths \ found : /\ Cat[q] = Cat[p]
                           /\ Live(q)
                           /\ cpView[q].hash = disk[p]}

\* Paths that would take over the identity of q; the first in the order of
\* the directory listing does.  With two candidates no path takes either.
Takers(q) ==
    {p \in found : ~Registered(cpView, p) /\ RenameCandidates(p) = {q}}

Renamable == {q \in Paths \ found : /\ cpView[q].payload # None
                                    /\ Takers(q) # {}}

\* migrate_identity leaves a tombstone where the file was.
Tombstone(e) == [e EXCEPT !.status = "REMOVED", !.payload = None]

HasPayload(p) == cpView[p].payload # None

\* REMOVED before, never seen, or registered without its payload.
IsNew(p) == ~Live(p) \/ ~HasPayload(p)

\* Faulty: a file still waiting for Bronze is not compared again.
IsChangedSinceSynced(p) ==
    /\ cpView[p].status = "SYNCED"
    /\ cpView[p].payload # None
    /\ Cat[p] \in ContentDrift
    /\ disk[p] # cpView[p].hash

IsChanged(p) ==
    /\ ~IsNew(p)
    /\ Cat[p] \in ContentDrift
    /\ disk[p] # cpView[p].hash

\* Is the file read while it is compared?  It must still be there.
Compared(p) ==
    \/ ~Registered(cpView, p)
    \/ ~IsNew(p) /\ Cat[p] \in ContentDrift

\* Faulty: the identity moves and the bytes stay behind.
MovedRowOnly(old) == [old EXCEPT !.payload = None]

\* _execute_identity_swap: the row is copied with its status, the payload
\* moves.
Moved(old) == old

MarkRemoved(e) ==
    IF e.status \in {"PENDING", "SYNCED"} THEN [e EXCEPT !.status = "REMOVED"]
    ELSE e

\* The file appeared again after it had been marked as removed.
MarkHealed(e) ==
    IF e.status = "REMOVED" THEN [e EXCEPT !.status = "PENDING"] ELSE e

\* prune_category: the bytes go, the row stays.
PrunePayload(e) == [e EXCEPT !.payload = None]

\* Faulty: incremental categories lose their payloads as well.
AfterRemovalEvicted(p) == PrunePayload(MarkRemoved(cpView[p]))

\* Faulty: removed files keep their status.
AfterRemovalIgnored(p) == cpView[p]

\* A path that was not found.
AfterRemoval(p) ==
    LET e == MarkRemoved(cpView[p]) IN
    IF Cat[p] \in FullReplace THEN PrunePayload(e) ELSE e

\* sync_with_disk up to the capture, one savepoint.
SyncWithDisk ==
    /\ pc = "discovered"
    /\ \A p \in found : Compared(p) => disk[p] # None
    /\ \E taker \in [Renamable -> found] :
        /\ \A q \in Renamable : taker[q] \in Takers(q)
        /\ LET taken == {taker[q] : q \in Renamable} IN
           /\ renames' = {<<q, taker[q]>> : q \in Renamable}
           /\ todo' = {p \in found \ taken : IsNew(p) \/ IsChanged(p)}
           /\ cpView' = [p \in Paths |->
                CASE p \in taken ->
                        Moved(cpView[CHOOSE q \in Renamable : taker[q] = p])
                  [] p \in Renamable -> Tombstone(cpView[p])
                  [] p \notin found \cup Renamable -> AfterRemoval(p)
                  [] OTHER -> MarkHealed(cpView[p])]
    /\ Goto("capturing")
    /\ UNCHANGED <<disk, durable, whView, scanned, found, inspected, runs,
                   edits, split>>

\* _upsert_registry and the payload beside it.
Captured(bytes) == [status |-> "PENDING", hash |-> bytes, payload |-> bytes]

\* _ingest_single_binary reads the file again: row and payload get the bytes
\* that are there now.
Ingest ==
    /\ pc = "capturing"
    /\ \E p \in todo :
        /\ disk[p] # None
        /\ cpView' = [cpView EXCEPT ![p] = Captured(disk[p])]
        /\ todo' = todo \ {p}
    /\ UNCHANGED <<disk, durable, whView, pc, scanned, found, renames,
                   inspected, runs, edits, split>>

AllCaptured ==
    /\ pc = "capturing"
    /\ todo = {}
    /\ Goto("migrating")
    /\ UNCHANGED <<disk, durable, views, memory, runs, edits, split>>

-----------------------------------------------------------------------------
(* Phase 2: Bronze. *)

\* UPDATE on the last table of the category: in the other tables of a ledger
\* the rows keep the name they have.
MigratedRows(old, new) ==
    {IF IsRowOf(b, old) THEN [b EXCEPT !.name = Name[new]] ELSE b
        : b \in whView.bronze}

MigratedMeta(old, new) ==
    IF whView.meta[old] = None THEN whView.meta
    ELSE [whView.meta EXCEPT ![new] = whView.meta[old], ![old] = None]

\* migrate_identity in Bronze and in m_File_Registry, one tuple at a time.
MigrateIdentity ==
    /\ pc = "migrating"
    /\ \E old, new \in Paths :
        /\ <<old, new>> \in renames
        /\ whView' = [bronze |-> MigratedRows(old, new),
                      meta |-> MigratedMeta(old, new)]
        /\ renames' = renames \ {<<old, new>>}
    /\ UNCHANGED <<disk, durable, cpView, pc, scanned, found, todo, inspected,
                   runs, edits, split>>

\* Faulty: the rows of an earlier load of the file stay.
ReplacedFullOnly(b, act) ==
    \E p \in act : Cat[p] = TableCat[b.table] /\ Cat[p] \in FullReplace

\* The tables of a full-replace category are dropped; of an incremental one the
\* rows with the base names of the actionable files are deleted.
Replaced(b, act) ==
    \E p \in act :
        /\ Cat[p] = TableCat[b.table]
        /\ Cat[p] \in FullReplace \/ Name[p] = b.name

\* get_pending_files: what waits for Bronze, of this run or of an earlier one.
Pending == {p \in Paths : cpView[p].status = "PENDING"}

\* _get_bytes refuses a file without its payload.
PayloadsAtHand(act) == \A p \in act : cpView[p].payload # None

TablesOf(c) == {t \in Tables : TableCat[t] = c}

\* The rows of one file, in every table of its category.
Extracted(p) ==
    IF cpView[p].payload \in Blank THEN {}
    ELSE {[table |-> t, name |-> Name[p], from |-> p,
           content |-> cpView[p].payload] : t \in TablesOf(Cat[p])}

ExtractedAll(act) == UNION {Extracted(p) : p \in act}

\* Rows are counted by base name; of a ledger's tables the last count stays.
Counted(p, act) ==
    \E q \in act : Cat[q] = Cat[p] /\ Name[q] = Name[p] /\ Extracted(q) # {}

RegisteredFile(p, act) == [hash |-> cpView[p].hash, filled |-> Counted(p, act)]

LoadedRows(act) ==
    {b \in whView.bronze : ~Replaced(b, act)} \cup ExtractedAll(act)

\* register_file for each file; a replaced table drops its other entries.
LoadedMeta(act) ==
    [p \in Paths |->
        CASE p \in act -> RegisteredFile(p, act)
          [] /\ p \notin act
             /\ Cat[p] \in FullReplace
             /\ \E q \in act : Cat[q] = Cat[p] -> None
          [] OTHER -> whView.meta[p]]

MarkSynced(e) == [e EXCEPT !.status = "SYNCED"]

\* Everything pending is extracted from its payload and loaded.
LoadBronze ==
    /\ pc = "migrating"
    /\ renames = {}
    /\ PayloadsAtHand(Pending)
    /\ whView' = [bronze |-> LoadedRows(Pending), meta |-> LoadedMeta(Pending)]
    /\ cpView' = [p \in Paths |->
         IF p \in Pending THEN MarkSynced(cpView[p]) ELSE cpView[p]]
    /\ Goto("loaded")
    /\ UNCHANGED <<disk, durable, memory, runs, edits, split>>

-----------------------------------------------------------------------------
(* The end of the run; see RunCommit for its steps. *)

CommitDuckDB ==
    /\ pc = "loaded"
    /\ wh' = whView
    /\ Goto("half")
    /\ UNCHANGED <<disk, cp, views, memory, runs, edits, split>>

CommitSQLite ==
    /\ pc = "half"
    /\ cp' = cpView
    /\ Goto("done")
    /\ UNCHANGED <<disk, wh, views, memory, runs, edits, split>>

\* The end of the process.  Before "done" it is an exception in any step or
\* phase, or a crash: what was not committed is gone, and a run that ends at
\* "half" is split.
EndRun ==
    /\ pc # "idle"
    /\ cpView' = cp /\ whView' = wh
    /\ scanned' = None
    /\ found' = {} /\ renames' = {} /\ todo' = {} /\ inspected' = {}
    /\ split' = IF pc = "half"
                THEN split \cup {Cat[p] : p \in {q \in Paths : cpView[q] # cp[q]}}
                ELSE split
    /\ Goto("idle")
    /\ UNCHANGED <<disk, durable, runs, edits>>

User == EditFile \/ MoveFile \/ LoseWarehouse
Heal == StartHealing \/ PruneDangling \/ PruningDone \/ Requeue
Run  == \/ BeginRun \/ Discover \/ SkipDiscovery \/ SyncWithDisk \/ Ingest
        \/ AllCaptured \/ MigrateIdentity \/ LoadBronze
        \/ CommitDuckDB \/ CommitSQLite \/ EndRun

Next == User \/ Heal \/ Run

Spec == Init /\ [][Next]_vars

-----------------------------------------------------------------------------
(* Properties. *)

\* Captured bytes belong to the identity they are filed under: a durable row
\* that is PENDING or SYNCED has its payload, with the digest of the row,
\* whatever was renamed, edited during the run or rolled back.
EvidenceVaulted ==
    \A p \in Paths :
        cp[p].status \in {"PENDING", "SYNCED"}
            => cp[p].payload # None /\ cp[p].payload = cp[p].hash

\* An entry with the digest of the row, and Bronze rows of that content in every
\* table of the category.  Under the base name of the file they are only where
\* a rename reaches: the other tables of a ledger hold the same backup under the
\* name it was extracted under.
LoadedFor(p) ==
    /\ wh.meta[p] # None
    /\ wh.meta[p].hash = cp[p].hash
    /\ cp[p].hash \in Blank
         \/ \A t \in TablesOf(Cat[p]) :
              \E b \in wh.bronze :
                  /\ b.table = t
                  /\ b.content = cp[p].hash
                  /\ b.name = IF t = LastTable[Cat[p]] THEN Name[p]
                              ELSE Name[b.from]

\* What the control plane calls SYNCED is in the warehouse after every success,
\* a ledger in all its tables (_heal_missing_sync_records, mark_synced, load),
\* except where digests are compared and a split run had changed something: the
\* stale rows may since have followed a rename, or the file may have its old
\* content back.
SyncedIsLoadedUnlessSplit ==
    pc = "done" =>
        \A p \in Paths :
            /\ cp[p].status = "SYNCED"
            /\ Cat[p] \in ContentDrift => Cat[p] \notin split
            => LoadedFor(p)

\* When a run has succeeded and nobody touched the folder since the listing,
\* the registry holds the bytes that lie in the folder, for every file whose
\* digest is compared (_evaluate_file_status, _ingest_single_binary).
DriftCaught ==
    pc = "done" /\ scanned = edits =>
        \A p \in found : Cat[p] \in ContentDrift => cp[p].hash = disk[p]

\* A run that succeeds leaves no work behind: nothing is PENDING, and after a
\* look at the folder exactly the files it found are SYNCED.
SuccessSyncs ==
    pc = "done" =>
        \A p \in Paths :
            /\ cp[p].status # "PENDING"
            /\ scanned # None => (cp[p].status = "SYNCED" <=> p \in found)

\* Bronze never holds two versions of one file, and the tables of a replaced
\* category never mix the contents of two, whatever sequence of loads, renames and heals
\* led there (_prepare_bronze_table).
OneVersionPerFile ==
    \A a, b \in wh.bronze :
        /\ TableCat[a.table] = TableCat[b.table]
        /\ a.name = b.name \/ TableCat[a.table] \in FullReplace
        => a.content = b.content

\* When a run has succeeded, every Bronze row belongs to a file the control
\* plane knows: what a lost run left in the warehouse has been pruned, or
\* replaced.  The tables of a ledger that the healer does not reach are
\* replaced only by a run that looks at the folder.
NoOrphanRows ==
    pc = "done" =>
        \A b \in wh.bronze :
            scanned # None \/ b.table = LastTable[TableCat[b.table]]
                => \E p \in Paths : /\ Registered(cp, p)
                                    /\ Cat[p] = TableCat[b.table]
                                    /\ Name[p] = b.name

\* Both, in a state of its type: Bronze holds each file once and nothing else.
BronzeIsExact == TypeOK /\ OneVersionPerFile /\ NoOrphanRows

\* Bytes of a statement that were ever committed stay in the vault, here or
\* under the new name, until the same path is captured with other bytes:
\* removal, renaming and reappearance erase nothing.
VaultKeepsEvidence ==
    [][\A p \in Paths :
        /\ Cat[p] \notin FullReplace
        /\ cp[p].payload # None
        => \/ \E q \in Paths : cp'[q].payload = cp[p].payload
           \/ cp'[p].payload # None]_vars

=============================================================================
