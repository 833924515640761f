# Formal model of personal-finance-etl

TLA+ modules, TLC configurations and TLAPS proofs kept beside the code in
`src/src/personal_finance_etl/` (paths below are relative to it).

The program turns a folder of bank, broker and market exports into a DuckDB
warehouse (pre-Bronze, Bronze, Silver, Gold).  A second store, the SQLite
*control plane*, keeps what must survive a rebuild of the warehouse: the run
history, the registry of source files and their captured bytes.  What can go
wrong silently lies between the two stores, between the processes and threads
of a run, and in the long chain of tables that must agree with each other.

## 1. Inventory

| component | state | operations | hard behaviour | what makes it correct |
|---|---|---|---|---|
| **Run lifecycle** `application/pipeline/{lifecycle,orchestrator}.py`, `control_plane/run_repository.py` | `cp_runs` rows, coordinator flags, one DuckDB and one SQLite transaction | initialize, execute, commit, handle_failure, teardown, stale-run recovery, convergence | two commits without a common transaction; death or exception at every step; the row describing a commit sits inside it | a row never claims more than the stores hold; splits are marked and converged; every process ends |
| **Evidence registry and Bronze** `control_plane/{file_sync,artifact_repository}.py`, `warehouse/bronze.py`, `warehouse/meta/` | registry rows and payloads (SQLite), Bronze rows and `m_File_Registry` (DuckDB) | discovery, sync, rename, removal, ingest, load, heal | runs that fail or split between the stores; renames; files sharing a base name; healing in autocommit | a SYNCED row has its payload and its Bronze rows; removed evidence stays; nothing is counted twice |
| **Snapshot and restore** `infrastructure/recovery/` | the active files, staged files, backups, archive, `pipeline.lock` | create_snapshot, restore_snapshot, rollback | file moves that fail halfway, death between two moves, a pipeline starting meanwhile | the active pair is the old or the new one, never a mixture, and never lost |
| **Observability** `infrastructure/observability/` | queue, listener thread, sinks, buffered trace file, archived traces | emit, listen, stop, archive, prune | emitters against stop(), a join() that gives up, a crash before the flush | the archived trace is whole and in order, errors are on disk, a stop ends |
| **Worker and presentation** `application/pipeline/worker.py`, `presentation/` | child process, pipe queue, terminal event | start, monitor, cancel | worker dies with events still in the pipe | exactly one terminal event |
| **Market data** `application/ingestion/market_sync.py`, `infrastructure/providers/market/`, `domain/market/` | cached Bronze days, vaulted chunks, provider requests | window, download, vault, load, publish, heal | partial provider failure, closures, late closes, a split commit | all or nothing per run; no hole in the cache; the newest known close is published |
| **Source planning and phases** `application/pipeline/{planner,source_planner,execution}.py`, `contracts/capabilities.py` | frames of a run, committed tables | closure and order of capabilities, plan, phases, completeness, load | builders that take a missing frame for an empty one; plans that shrink from run to run | plans are least and ordered, no mart precedes its inputs, the warehouse is one run's |
| **Per-instrument analytics** `application/investments/isin_service/` | futures, worker processes, spilled files, accumulator | submit, replay, collect, aggregate | results in any order, a worker that dies, an early failure | value is whole or nothing is published; the pool ends |
| **Lots and reconciliation** `domain/investments/{lots,reconciliation}/` | open lots of an instrument | buy, sell (FIFO), reconcile quantity and basis | tolerances, oversell, statement order, blank cells | units and cost are conserved; the book is the broker's |
| **Investment facts** `domain/investments/transforms/`, `application/ingestion/asset_strategies.py` | none across a run | purchases, sales, holdings, master | renamed funds, orders of several files, holdings before a master | every order is counted once, or the load refuses |
| **Household and wealth** `domain/household/`, `domain/wealth/` | none across a run | facts, calendar, unified ledger, net worth, cash flow, budget | one-legged transfers, deleted accounts, opening balances in the future | the tables agree with the journal and with each other |
| **Tax** `domain/tax/` | none across a run | rules, events, reconciliation, year summary | four filters written apart | every income row is taxed, exempt or excluded once |
| **Silver, Gold, schemas** `warehouse/` | tables replaced as a whole | load | keys the load refuses; the enclosing transaction | decided by plan and lifecycle |
| **Source definitions, settings, rules files** `config/`, `bootstrap/` | none across a run | read, validate | formats | outside the models, see section 5 |
| **FIRE, performance figures** `domain/fire/`, `domain/investments/performance/` | none across a run | numerical models | floating point | outside the models, see section 5 |

How they interact: the orchestrator opens DuckDB, then `ControlPlane.open`
takes `pipeline.lock` and SQLite; stale runs are reclassified, the run row is
inserted, the registry is healed (autocommit), and then BEGIN in DuckDB and
BEGIN IMMEDIATE in SQLite enclose all five phases: discovery and capture of
evidence, Bronze, transformation and market sync, analytics, Silver/Gold
publication.  DuckDB commits first.  Snapshot and restore are other processes
that share `pipeline.lock` and the files.  Events go through one queue to a
listener thread of the process at work; the desktop and the command line run the
pipeline in a child process, whose own queue a monitor thread reads.

`PROJECT.json` lists the components file by file, the hazards of this code line
by line, the source lines every definition stands for, and the disagreements
between code and documents that the models show.

How a module reads: constants and their assumption, variables in groups, the
type invariant, `Init`, one action per step in the order of the code, `Next`,
`Spec`, then the properties with a comment each.  Variables marked *observation
only* are written by the model and read by properties alone.  An operator with a
name that continues that of another (`FeedAhead` beside `Feed`), marked *Faulty*,
is a plausible mistake in that code; nothing uses it but the check that every
property is able to fail (`"mutants"` in `PROJECT.json`).

## 2. Modules

| module | what it is |
|---|---|
| `OrderedCommit` | abstract: a set of runs is committed to two stores in a fixed order, and each run has a verdict |
| `RunCommit` | the run lifecycle over DuckDB and SQLite; implements `OrderedCommit` |
| `EvidenceSync`, `EvidenceSync_proofs` | what happens to the files inside those runs |
| `MarketSync`, `MarketSync_proofs` | what happens to the market histories inside those runs |
| `DatasetCatalog`, `ExecutionPlan` | what a run builds and publishes, from the request to the tables |
| `HouseholdLedger`, `InvestmentFacts` (extends it), `HouseholdMarts` (extends it), `TaxBooks` (extends that), `FinanceBooks` (extends both) | the analytical half of a run: what the tables contain |
| `IsinPool` | the engine of the instruments: pool, collector, publication |
| `Orchestrator_proofs` | proofs about `RunCommit` and `ExecutionPlan` |
| `Analytics_proofs` | proofs about `IsinPool` and `FinanceBooks` |
| `LotAccounting`, `LotAccounting_proofs` | the replay of one instrument |
| `EventQueue`, `EventQueue_proofs` | the trace of a run: emitter, queue, listener, archive |
| `SnapshotRestore`, `SnapshotRestore_proofs` | the database files among pipeline, snapshot and restore |
| `WorkerMonitor`, `WorkerMonitor_proofs` | the child process of a run, its event queue, its monitor and its front end |
| `MC*.tla`, `MC*.cfg` | instances for TLC |

The components share the commit: `RunCommit` has every step of it, and the others
have its possible outcomes (`CommitDuckDB`, `CommitSQLite`, an end before, between
or after them; in `ExecutionPlan` and `FinanceBooks` a run that publishes or not).
They hand over to each other: `EvidenceSync` ends with Bronze, `ExecutionPlan` says
which frames are built from it in which order, `FinanceBooks` what is in the
frames of household, tax and wealth, `IsinPool` and `LotAccounting` what is in those
of the instruments; the last two and `MarketSync` reach `FinanceBooks` as given
values, and a phase is one step of `RunCommit`.

Two proof modules extend two models each: `Orchestrator_proofs` those of one run, and
`Analytics_proofs` those that need facts about finite sets and sums, which the library has
not.  The models share no state; definitions carry a prefix where names would meet
(`PlanSpec`, `BooksSpec`; plain `Spec` is that of `RunCommit` and `IsinPool`).

### RunCommit

*State.*  `ledger` is what is durable of `cp_runs`; `view` is what the open SQLite
connection reads back; `txn` tells whether the transaction of the run is open, in
which case a row update reaches `view` only (`Write`).  `duckRuns` and `sqlRuns`
are the runs durable in each store.  `run`, `duckStarted`, `sqlStarted`,
`duckCommitted`, `sqlCommitted`, `commitState` and `pending` are the attributes of
`RunLifecycleCoordinator` and die with the process (`Forget`).

*Actions.*  `OpenStores`, `RecoverStaleRuns`, `StartRun`, `BeginDuckDB` and
`BeginSQLite` are the steps of `initialize()`; `EnterCommit` to `FinishRun` those of
`commit()`, one store operation or row update each, with `DuckDBCommitRaises` and
`SQLiteCommitRaises` for a commit that raises; `MarkRecoveryConverged` is one turn of
the convergence loop; `ResolveAndRollBack`, `MarkRecoveryRequired`,
`RecordFailedState`, `RecordFailedRun` and `TelemetryNotWritten` are
`handle_failure()`; `Teardown` and `TeardownOnSuccess` are `teardown()`.  `Raise` is
an exception at any step of the work, `Crash` the death of the process anywhere.

*Refinement.*  `History` instantiates `OrderedCommit` with `first <- duckRuns`,
`second <- sqlRuns`, `lost <- lostMarker` and the claim of each durable row.
`RunHistoryTruthful` says that every step of the lifecycle is one of its steps, or
none of them: a store is committed once and in order, a verdict fits what the
stores hold, and the only verdict ever revised is the recovery marker.

### EvidenceSync

*State.*  `disk` is the source folder.  `cp` and `wh` are the durable registry with
its payloads (SQLite) and the durable Bronze rows with `m_File_Registry` (DuckDB);
`cpView` and `whView` are what the running pipeline sees of them.  `found`,
`renames`, `todo` and `inspected` are the local results that one phase hands to the
next: the discovered files, the rename tuples, the actionable files not captured
yet, the tables and names the healer saw in Bronze.  Content stands for bytes and
digest alike.  A category fills one Bronze table, the ledger five (`TableCat`,
`TablesOf`); a row has its table, the base name it is filed under and the path it was
extracted from.  `LastTable` is `cat_to_table`: a dictionary built from the contracts
keeps the last one of each category, and `MigratedRows` and `Pruned` reach the rows
of that table only, while `LoadedRows` replaces and fills all of them.

*Actions.*  `StartHealing`, `PruneDangling`, `PruningDone` and `Requeue` are the
healer, in autocommit: what they do is durable at once, whatever becomes of the run.
`BeginRun` opens both transactions.  `Discover` lists the folder (`StatementFiles`,
`ConfigurationAsset`; `SkipDiscovery`: the escape setting), `SyncWithDisk` is the
comparison with the registry, built from its operations (`Moved` and `Tombstone` of a
rename, `MarkHealed`, `MarkRemoved`, `PrunePayload`), `Ingest` captures one file *as
it is on disk at that moment*, `MigrateIdentity` applies a rename to the warehouse,
`LoadBronze` extracts what is `Pending`, deletes, inserts, registers and marks.
`CommitDuckDB`, `CommitSQLite` and `EndRun` are the outcomes.  The user edits, moves
and deletes files at any step, and may lose the warehouse between runs.

### MarketSync

*State.*  `market`, `bad` and `late` are the world: the days each ticker has a close
for, those that are no positive number, and how many appeared after they were
first asked for.  `warehouse` and `control` are committed, `whT` and `cpT` are seen
inside the transactions; a row belongs to the chunk that brought it.  `answer`,
`fetched` and `range` are locals of the run, `series` is what it publishes.

*Actions.*  `Begin` heals as `MetaHealingMixin` does (`Pruned`, `Requeued`) and sets
the range.  `Answered` and `Failed` are one request each, in any order: the `Window`
starts behind the newest cached day and reaches `Buffer` days back for the first
fetch, days without a close are recorded as gaps (`Recorded`, `Spine`).
`PublishRates`, `PublishPrices` and `PublishBenchmarks` end a batch: it must be
complete, its chunk is vaulted, loaded and registered, the three validations refuse
bad or missing closes, and the series is filled forward up to `MaxAge` days.
`Incomplete` refuses a batch.  `Commit`, `CommitSplit`, `Rollback` and
`LoseWarehouse` are the ends of a run, `PublishLate` a close that appears later.

### DatasetCatalog and ExecutionPlan

*State.*  `job` is the request with its plan and the books it finds, `dfs` the keys
of the executor's frames, `work` and `store` the tables inside and outside the
transaction, each holding the number of the run that filled it.  The catalogue is the real
one: 7 capabilities, every Silver and Gold contract, every table of the DDL.

*Actions.*  `Start` closes and orders the request (`Closure`; `Order` is Kahn's
algorithm, whose queue is sorted by name, `FirstByName`), makes the plan and checks the
configured sources against it (`Compiles`).  `Transform`,
`ProcessCurrency`, `ProcessUSMarket`, `ProcessBenchmark`, `RunQuantEngine`,
`RunTaxEngine` and `RunPresentationEngine` are the phases in the code's order with
their early returns and errors; `CheckCompleteness` compares the frames with the
plan; `LoadSilver`, `LoadGold` and `LoadMeta` replace the layers.  `Fails` is an
exception anywhere.

### HouseholdLedger, InvestmentFacts, HouseholdMarts, TaxBooks, FinanceBooks

*State.*  `journal`, `openings`, `dropped`, `rules` and `position` are what the
household entered, with at most `MaxEntries` changes; `silver`, `tax`, `books` and
`presented` are the tables of the run, `published` what the last load left.  A date is
its month; an amount is an integer.  Each table is a definition named after its
transform: `IncomeFacts`, `TransferFacts`, `CalendarSpine`, `UnifiedLedger`,
`Balance`, `NetWorthSummary`, `CashflowStatement`, `Budget`, `PurchaseRef`,
`SaleRef`, `InvestmentMaster`, `TaxMapOf`, `TaxEvents`, `TaxReconciliation` and so on.

*Actions.*  `Enter`, `EnterOpening`, `Delete`, `Invest` and `WriteRules` change the
inputs.  `ReadRules` validates the rules; `BuildFacts` refuses what the validators
refuse (`InputsValid`) and makes the facts (`SilverTables`); `RunTax`, `BuildWealth`
(`WealthTables`) and `Present` (`PresentationTables`) make the other tables; and
`LoadTables` publishes them if every foreign and primary key holds (`Loadable`).

*Properties.*  `BooksBalance` is a conjunction of named parts, each over a published
month: `NetWorthExplained`, `CashExplained`, `CategoriesAddUp`, `BudgetAgrees`,
`InvestmentsAgree`; and `CalendarCovers`, before the load.  A transfer moves nothing out of
the household when both its legs were entered: a movement (month, amount, from, to) is
paired when as many legs were entered out of the one account as into the other, and the
legs of the other movements (`LooseLegs`) are the only ones that change net worth.

### IsinPool and LotAccounting

`IsinPool`: `task` and `result` are the futures, `spilled` the snapshot files of the
workers, `acc` the accumulator per dimension.  `Submit` fills the pool, `StartTask`,
`EndTask` and `WorkerDies` are the workers, `Collect` is one turn of `as_completed`,
`LeavePool` the end of the `with` block, `Process` the marts made of both.

`LotAccounting`: `lots` is the queue, `acquired`, `gone` and `costTrail` sum up the
published events.  `MarketRow` to `ReconcileBasis` are the loop of
`IsinProcessor.process`, `LastRow` the trades behind the last row.  One grain is the
tolerance of 1e-8, so a comparison with it is exact.

### EventQueue

*State.*  The emitter's `sequence` and, per thread, the event between counter and
queue (`putting`); the `queue`; where each consumer is in a dispatch (`at`, `held`,
`lock`), the file object's `buffer` and the `disk`; `traces` and `archive`.

*Actions.*  `Emit` and `Put` are the two halves of an emission, which other threads
may separate.  `Take`, `StartWrite`, `FinishWrite` and `FlushAfterError` are a
dispatch, of the listener or of the caller that drains.  `Unregister`,
`RequestStop`, `Joined` or `JoinTimesOut`, `Drained`, `CloseSink`, `Archive` and
`Prune` are the teardown; `Kill` ends the process anywhere.

### SnapshotRestore

*State.*  `file` and `bak` hold the active files and their `.restore_bak`; a content
is the number of the last run committed to it.  `archives`, `staged`, `source`,
`moved`, `backed`, `installed` are the locals of the two operations; `lock` is
`pipeline.lock`; `handle` is the file the pipeline has open, which moves with it.

*Actions.*  The pipeline: `OpenDuckDB`, then `TakeLock`, the two commits, `Unlock`,
`ClosePipeline`.  The snapshot: lock, checkpoint, `CopySQLite` through the backup
API, `WriteArchive`, `Publish`.  The restore: `SetAside` per file, `Install` per
file, and on an exception `RemoveInstalled` and `PutBackFile` per file, `Cleanup` on
success.  Every file operation may fail (`AsideRaises`, `InstallRaises`,
`RollbackRaises`, `SnapshotFails`) and every process may die between two of them
(`PipelineDies`, `RestoreEnds`).

### WorkerMonitor

*State.*  Per run: `pc` and `exit` of the child; `emitted`, the events it has put on
its queue, of which the feeder thread has written `piped` to the pipe and the
parent has read `read`; `mpc` and `seen` of the monitor thread.  The front end is
`mode` (command line with and without `--cron`, desktop) and `screen`.

*Actions.*  `Configure` to `Complete` are the child up to its commits, `HandleFailure`,
`BeginTeardown`, `Close` and `EndProcess` its end, where the interpreter joins the
feeder and flushes the buffer; `Kill` ends it anywhere.  `Feed` moves one event to
the pipe.  `CheckAlive`, `CheckEmpty`, `TimeOut`, `Receive`, `OnStatusRaises` and
`EmitExitStatus` are the monitor, a step for each of its observations, because
the child runs on between them.  `Launch` and `Leave` are the user: leaving the
parent terminates its daemonic children.

## 3. What TLC checks

| run | instance and bounds | distinct states | shows |
|---|---|---|---|
| `run_commit` | 3 runs | 7,285 | no row claims more than the stores hold (`ClaimsBacked`), a split is marked (`SplitIsMarked`) and converged by the next success (`SuccessLeavesNoSplit`), verdicts stand (`HistoryKept`), the lifecycle implements `OrderedCommit`, every process ends |
| `guarantee_five` | 2 runs | | **violation** `NeverFalselyRolledBack` |
| `evidence_sync` | 2 statements whose digests are compared, 2 ledger backups that fill two tables, 2 contents, 3 runs, 2 edits | 1,095,118 | registry, vault and Bronze agree after a success (`SuccessSyncs`, `BronzeIsExact`), a synced row is vaulted and loaded, a ledger in all its tables, changed content is noticed (`DriftCaught`), captured statements are kept |
| `market_sync` | a ticker per provider, 4 days, 5 calendars of closures, 2 runs, 1 late close | 879,518 | no hole and no double row in the cache (`CacheIsSeamless`), no part of a broken batch and the same evidence in both stores (`VaultMatchesCache`), what is published is the newest close that could be known (`PublishedIsNewest`) |
| `execution_plan` | all 128 requests, complete and incomplete sources, 2 runs | 46,893 | plans are least and ordered, no mart precedes its inputs, the warehouse is one run's and its metadata says so |
| `finance_books` | 11 batches of rows, 5 opening balances, 4 deletions, 3 rule sets, 5 positions, at most 4 changes, 4 months | 101,776 | the tables explain net worth, cash and investments from the rows (`BooksBalance`), income is in the tax tables once (`IncomeTaxedOnce`) |
| `isin_pool` | up to 3 instruments, 2 workers, 2 dates | 8,497 | published value is whole (`ValueIsWhole`), a failure is total (`FailureIsTotal`), the engine ends (`PoolEnds`) |
| `lot_accounting` | 2 market days and the time after, 2 purchases, 2 sales, 1 cost adjustment, 5 reported quantities, 3 bases | 271,336 | FIFO, no unit or cost appears or vanishes, the book is the broker's |
| `lot_absent` | the same | | **violation** `AbsentBasisIsNoEvidence` |
| `event_queue` | main, one pool thread and the listener, 2 runs, 3 events | 581,518 | the trace is whole and in order (`TraceIsFaithful`), errors are on disk (`FailuresReachDisk`), teardown ends (`TeardownEnds`) |
| `snapshot_restore` | 2 pipeline runs, snapshots and restores without bound | 2,748,825 | a pair is never mixed and archives are pairs (`NeverMixed`), a success installs the archive, a failure leaves every file in place or backed up |
| `worker_monitor` | 1 run, 3 front ends, 2 entity failures, pipe of 2 | 91,763 | one terminal report per run (`OneTerminalReport`), completion is durable (`CompletedIsDurable`), no event is lost (`NothingLost`), every run is reported |

**Why the bounds are enough.**
*Three runs* let one end split, the next fail while it tries to converge the first,
and the third converge both; for evidence, one run ends split, a second repeats or
fails, and a third succeeds on top.
*Two contents* tell old from new, and returning to the old from staying.  *Two names
per category* are what a rename needs.  The contents are interchangeable (`SYMMETRY
Interchangeable`; no liveness is checked there).
*Four days* of market give a first fetch with its reach-back, a closure, a window of a
later run that starts behind the newest row, and a close that is too old (`MaxAge`
is 1).  *Two runs* suffice there: what a split leaves is healed by the next one, and
two committed runs differ from one in the cache they find.
*Two runs* of plans: every narrower plan follows every wider one.
*Two tables* of a ledger tell the one that renames and the healer reach from those they
do not; the other three of the five are treated as the first.
*Four entries* of a household: a fact, its counterpart or opening, a deletion and an
investment meet in one run; months 2 to 5 have a month of analysis before the first
fact, a financial-year boundary (month 4, which is also today) and a month in the
future.  The calendar and the balances start anew in every run, so one run is enough.
*Three instruments on two workers*: one is queued while one runs and one has ended;
two share a class, one has no sector.
*Lots*: two purchases and two sales around two market rows and after them; the
quantities differ from each other by less than, exactly and more than one grain.
*Two traces*: the archive and the pruning of a later run meet the earlier one's.
*Two pipeline runs* give an archive that differs from the active pair and from the
empty one; snapshots and restores need no bound, for their contents do not grow.
`Unraced` is a state constraint of `snapshot_restore`: what follows after a restore
has overlapped the opening of DuckDB is described below, and the invariants are
claimed for the rest.
*A pipe of two* lets the feeder block; two entity failures let an event which frees
the front end precede the terminal one.  Two runs of one front end share the
stores and the screen only; overlapping they have more than ten million states,
so the run has one, and the theorems are about any number.

**Fairness.**  `RunCommit` assumes `WF_vars(ProcessStep)`: a process that is able to
take its next step does.  No fairness is on `Raise` or `Crash`; an operation
that hangs is not modelled.  `WorkerMonitor` assumes weak fairness of each
child, feeder and monitor: processes and threads of the operating system run on by
themselves; killing, launching and leaving are nobody's duty.  The monitor's
poll has a timeout of its own, so a step of it is always possible.  `EventQueue`
assumes it of the main thread, of a pool thread between counter and queue, and of
one write of the listener that has begun; of nothing else the listener does,
because `join(timeout=5.0)` is there so that the teardown does not depend on it.
`IsinPool` assumes it of the engine's own steps, of starting a queued task and of
ending each running one: a replay loops over finite lists, and the standard
library's pool replaces or reports a worker.  The other modules state safety only.

**Deadlock** is checked in `RunCommit`, `SnapshotRestore` and `IsinPool`.  It is not
where a model stops when its bound is used up (`EvidenceSync`, `MarketSync`,
`ExecutionPlan`, `FinanceBooks`, `EventQueue`), where a replay ends
(`LotAccounting`), and where the program ends (`WorkerMonitor`).

**What the violations show.**  Each states what a document of the repository says,
and TLC finds the code doing otherwise; `"findings"` quotes both sides.
- `guarantee_five`: `COMMITTING` is written into the SQLite transaction that a
  death between the commits loses, so the next process calls the run rolled back
  although its warehouse half is durable.
- `lot_absent`: the holdings of one date are summed before they are reconciled, and a
  sum over blank cost cells is 0; every open lot loses its price, where the document
  says an absent basis is no evidence.

**Other behaviour of the code met while modelling.**  Each is in the models as the
code has it; the properties are stated so that they hold with it.

*Between the stores and the processes.*
- A statement renamed and renamed back is loaded twice: its old row is healed as new
  while its rows sit in Bronze under the other name (`file_sync.py:314`;
  `warehouse-architecture.md:169`).
- Bronze knows a statement by its base name: two of one name in different folders
  replace each other and both stay synced (`bronze.py:131`).
- A run that changed a file ends split and the file is changed back: Bronze keeps the
  other content, for healing compares names and no digests (`meta/healing.py:119`).
  This is the exception in `SyncedIsLoadedUnlessSplit`.
- A renamed ledger backup is renamed in the last of its five tables,
  `r_SQLite_InOutcome`: the dictionary from category to table has one place for the
  five (`bronze.py:305`, whose docstring at `:295` says "in all Bronze tables").  The
  other four keep the old base name, and the registry calls the new file synced;
  `LoadedFor` asks for its content in every table, under its own name only in the last.
- A dangling ledger is pruned from the same one table (`meta/healing.py:279`).  The rows
  a split run left in the other four stay until the next ledger replaces them; a run
  with discovery switched off may succeed before that (`NoOrphanRows` names the case).
- Setting the second file of a pair aside fails: the first is already moved, the
  rollback knows nothing of it, and the result says the pair is intact
  (`restore.py:302`).  The bytes are still in the backup (`PreviousPairSurvives`).
- DuckDB is opened before `pipeline.lock` is asked for, so a restore may move the file
  of a pipeline that then goes to work (`lifecycle.py:177`).
- The market synchronisation reports full progress in phase 3; a `--cron` command line
  takes it for the end, exits and terminates the run (`cli/app.py:234`).
- A market chunk that the healer re-queues stays pending: no later run loads it, the
  window asks the provider again (`bronze.py:239`).
- A rate is never carried into a currency's range from before its first day
  (`fx.py:204`); `PublishedIsNewest` names the case.

*In plans and phases.*
- Of the 128 requests only those that leave no analytical frame outside the plan get
  past completeness: the presentation engine builds all of its frames, and one the
  plan does not own is "unexpected" (`execution.py:798`).
- A book without instruments makes the quant engine return nothing
  (`quant_service.py:147`), and the tax engine that follows looks up its results
  (`execution.py:453`).

*In the analytical tables.*
- Deleting an account or category that an active row still names, or an opening
  balance without a date, makes every later load fail, after all marts were computed.
- A run without a dated fact has a calendar of one blank day, whose key the load
  refuses.  Rows before the first opening balance or after today are in no month; an
  account whose latest opening is in the future loses its earlier one.
- A tax credit claimed under a non-taxable sub-head is in the reconciliation twice, as
  a credit and as non-taxable income (`reconciler.py:117-127`).
- Investment gains are excluded under "Investment STCG" and "Investment LTCG"
  (`income_dimensions.py:128-135`) and the engine's events are filed under sub-heads
  such as "Equity_Listed_STCG", so the difference of the two is never filled.
- Foreign exposure adds up all closing dates of a month (`market_valuation.py:83-94`);
  portfolio totals are those of the last closing date over all instruments, the value
  of an account those of its own last date.
- The stock master comes from statements of holdings only (`indian_equity.py:227`): a
  stock bought and sold between two of them makes every load fail, as does a fund
  without a mapping or a tax type (`silver.py:86-120`).  One order in two files has
  one purchase id twice, and the primary key refuses it.  Orders of other types than
  PURCHASE/REDEEM and BUY/SELL are dropped; an order's status is not looked at.
- A fund's cost is units times NAV, whatever the amount says; the average cost of a
  sale counts all purchases ever made.
- `.unique()` is applied after the instrument name is dropped; that two equal orders
  of one file have been summed before keeps both in the cost.  Two names of one ISIN
  in one file would still merge; that is not among the inputs.
- The worker tags a blank dimension "None", the mart labels it "Unknown"
  (`processor.py:305-315`, `service.py:153-157`), so its rows have holdings and no
  returns; `MartsAgree` names the case.  The aggregation drops the columns of the
  LTCG exemption and the execution residual (`processor.py:177-178`).
- A sale beyond the holdings loses its remainder while its cash counts; trades of one
  date are replayed purchases first.  Overlapping statements of one date are summed.

## 4. What is proved

The theorems hold for every value of the constants: any set of runs, files,
contents and names, any number of edits, events, tickers, days, lots and instruments,
any request, any journal and any statements.  Every safety property that a run of
section 3 checks and finds true is proved.

| theorem | states |
|---|---|
| `Orchestrator_proofs!TypeCorrect` | `Spec => []TypeOK` |
| `Orchestrator_proofs!ClaimsAreBacked` | `Spec => []ClaimsBacked` |
| `Orchestrator_proofs!SplitsAreMarked` | `Spec => []SplitIsMarked` |
| `Orchestrator_proofs!SuccessConverges` | `Spec => []SuccessLeavesNoSplit` |
| `Orchestrator_proofs!HistoryIsKept` | `Spec => HistoryKept` |
| `Orchestrator_proofs!RunCommitImplementsHistory` | `Spec => RunHistoryTruthful`, the refinement |
| `Orchestrator_proofs!PlanIsRight` | `PlanSpec => []PlanIsLeastAndOrdered` |
| `Orchestrator_proofs!OneRunPublished` | `PlanSpec => []StoreIsOneRun` |
| `Orchestrator_proofs!GoldFromFinished` | `PlanSpec => []BuiltFromFinishedInputs` |
| `EvidenceSync_proofs!EvidenceIsVaulted` | `Spec => []EvidenceVaulted` |
| `EvidenceSync_proofs!EvidenceIsKept` | `Spec => VaultKeepsEvidence` |
| `EvidenceSync_proofs!SuccessIsInSync` | `Spec => []SuccessSyncs` |
| `EvidenceSync_proofs!TypeCorrect` | `Spec => []TypeOK` |
| `EvidenceSync_proofs!StoreInvariant` | `UniqueNames` implies `Spec => []StoreInv`, the rows within reach of the healer stay exact |
| `EvidenceSync_proofs!SyncedIsLoaded` | `UniqueNames` implies `Spec => []SyncedIsLoadedUnlessSplit`, for any number of tables of a ledger |
| `EvidenceSync_proofs!BronzeExact` | `UniqueNames` implies `Spec => []BronzeIsExact` |
| `EvidenceSync_proofs!DriftIsCaught` | `Spec => []DriftCaught` |
| `SnapshotRestore_proofs!TypeCorrect` | `Spec => []TypeOK` |
| `SnapshotRestore_proofs!SuccessInstallsArchive` | `Spec => []NewPairInstalled` |
| `SnapshotRestore_proofs!PreviousPairIsKept` | `Spec => []PreviousPairSurvives` |
| `SnapshotRestore_proofs!RollbackRestores` | `Spec => []RolledBackIsIntact` |
| `SnapshotRestore_proofs!PairsAreNeverMixed` | `Spec => []NeverMixed` |
| `WorkerMonitor_proofs!TypeCorrect` | `Spec => []TypeOK` |
| `WorkerMonitor_proofs!ReportedOnce` | `Spec => []OneTerminalReport` |
| `WorkerMonitor_proofs!CompletionIsTrue` | `Spec => []CompletedIsDurable` |
| `WorkerMonitor_proofs!EverythingDelivered` | `Spec => []NothingLost` |
| `EventQueue_proofs!TypeCorrect` | `Spec => []TypeOK` |
| `EventQueue_proofs!ErrorsAreOnDisk` | `Spec => []FailuresReachDisk` |
| `EventQueue_proofs!TraceReconstructsRun` | `Spec => []TraceIsFaithful` |
| `MarketSync_proofs!StoresAgree` | `Spec => []VaultMatchesCache` |
| `MarketSync_proofs!CacheSeamless` | `Spec => []CacheIsSeamless` |
| `MarketSync_proofs!SeriesNewest` | `Spec => []PublishedIsNewest` |
| `LotAccounting_proofs!QueueIsFirstInFirstOut` | `Spec => []FirstInFirstOut` |
| `LotAccounting_proofs!ReconciledWithBroker` | `Spec => []BrokerAgrees` |
| `LotAccounting_proofs!NothingEverVanishes` | `Spec => []NothingVanishes` |
| `Analytics_proofs!OneFailureFailsAll` | `Spec => []FailureIsTotal` |
| `Analytics_proofs!SlicesAlwaysAddUp` | `Spec => [](TypeOK /\ SlicesAddUp)` |
| `Analytics_proofs!NothingLostBetweenWorkers` | `SectorsAreNamed` implies `Spec => []ValueIsWhole` |
| `Analytics_proofs!PublishedBooksBalance` | `BooksSpec => []BooksBalance` |
| `Analytics_proofs!EveryIncomeTaxedOnce` | `BooksSpec => []IncomeTaxedOnce` |

*Assumptions.*  `RunsAssumption`: runs are natural numbers, in the order in which
they start.  `EvidenceAssumption`: every path has a category and a base name, every
table a category and every category a last table of its own; a category with more tables
than one is replaced as a whole, as the ledger's contracts say; the absent content and
the absent registry entry are no contents and no entries.
`SnapshotAssumption`, `WorkerAssumption`, `EventAssumption` and `MarketAssumption`:
bounds are natural numbers, the model values are distinct, a buffer holds something.
`LotConstants` and `PoolConstants`: quantities, prices and values are whole and
positive, instruments are numbered and finitely many.  TLC evaluates each.
`BoundAssumption`, `RequestsAssumption` and `ConfigsAssumption`: runs are counted, requests
are sets of capabilities, what is enabled is bound.  `OtherTablesAssumption`: what is found
beside the tables of the DDL is in one of the persisted schemas and, in Silver and Gold, no
table of a contract.  The registry is the code's own, and no assumption: that it is
closed and without cycles is proved (`GraphIsClosed`, `GraphIsAcyclic`).

The books have the longest list, because their properties are about data.  `FactConstants`:
investment accounts are accounts, an ISIN is that of one fund, and a null is no number.
`BooksData` says which data the theorems speak of.  The batches are finite, and a row has
an amount or one that fails to parse (`Bad`), a month, and an account there is.  A leg has
an id of its own, its primary key in Money Manager.  An account has one opening balance of a
date: of two the code keeps whichever its sort puts last.  Of each broker's statements
(`PositionKept`), a file is of one broker and an order has a place of its own in its file,
both of which the extraction provides; an ISIN has one name and one currency in one file; and
the value of an order is a multiple of its units, which only says that a price per unit
is a number (the code divides decimals).  Names and currencies matter because the code
drops them and applies `.unique()`: where an ISIN has two, rows may merge, and
`InvestmentsAgree` may fail with them (section 3).  The code enforces neither that nor the
single opening balance; the instances satisfy both.

Three theorems of files and one of instruments have a hypothesis of their own, about
what users name; the code does not enforce it, the instances satisfy it, and where it
fails the property may fail with it.  `UniqueNames`: no two files of a category share
a base name.  The locator lists the folder with its subfolders (`locator.py:97`), but
Bronze knows a statement by its base name, so two of one name replace each other
(`bronze.py:131`, section 3); identity, capture and drift do not need it.
`SectorsAreNamed`: no sector is called "None" or "Unknown", the words the worker and
the mart write for a blank one; what is named so would be taken for the blank sector.
`SlicesAlwaysAddUp` and `OneFailureFailsAll` do without.

*Induction and sums.*  The library's induction theorems take an operator, which the
provers cannot instantiate.  `EveryNumber` and `SubsetInduct` are induction over a
*set* of numbers or of subsets instead, proved from `WFMin` and from cardinality.
With them recursive functions and sums are within reach: `PrefixesExist`,
`TakesExist` and `SumsStep` show that the function a `CHOOSE` of its equation
speaks of exists, the lemmas after them what it computes.  For that `LotAccounting` has
recursive functions (`Units`, `Reach`) where a fold would do, and `IsinPool` adds up by
`SumFunctionOnSet`.

*RunCommit.*  None of the properties is inductive: a durable row is right only
because of where the process is, and because no other run is in flight.  `IInv`
adds that the view is the durable ledger outside a transaction and differs from
it in the row of the run alone inside one (`ViewInv`), that the coordinator's flags
agree with the stores (`FlagInv`), what the place of the process says of both
(`PhaseInv`), what each status needs of the stores (`RowInv`), that runs start one at
a time and the stale ones are reclassified before the next (`OrderInv`), and that
the list of splits to converge is complete (`PendingInv`).  One lemma per conjunct,
one step per action.  `RefinementStep` maps every step to `OrderedCommit` under `IInv`.

*EvidenceSync.*  `VaultInv` says that every durable live row has its payload with its
digest, and so has every row the run sees except those in `todo`, which
`sync_with_disk` has marked and not yet captured; the view equals the durable
registry outside the run.  `KeepInv` adds that the payload of a statement is in the
view, at its path or where a rename has moved it.  `SyncInv` accounts for the
files: what was found is live or still to be captured, then synced.

Bronze needs more.  `StoreInv` describes the warehouse while a run works on it:
each registered file has its rows under its digest, and in the tables the healer reaches
no other rows are there (`Exact`), the healer has pruned what the control plane does not know
(`EntriesKnown`), a rename in progress goes to a name Bronze does not know (`Moves`), and
of a replaced category one file is live (`OneOfEach`).  `SyncedInv` adds where a SYNCED
row has its entry, under its name or under the one a rename has yet to move, and that
digests agree unless a run is halfway through its commits (`Agreed`); files whose digest
is never compared keep theirs through any split (`Steady`).

The other tables of a ledger (`Far`) need an argument of their own, for nothing keeps
their names in step with the registry.  `LedgerInv` says that the tables of a replaced
category hold one content and that an entry has its rows in all of them, under the
name they were extracted under (`Whole`), and that this name is one the registry knows
wherever it knows an entry of the category (`Known`): a rename leaves a tombstone
there.  It is claimed against the durable registry and the one in view, because a
split commits the rows and not the registry.  `Asked`, that a run which looked at the
folder found a ledger, then makes the last step to `BronzeIsExact`.

`DriftInv` says, as long as
the folder is as it was listed, which bytes are registered or still to be captured.

*SnapshotRestore.*  `LockInv` is mutual exclusion: who is at work holds the lock.
`ArchiveInv` carries the archive through validation and installation.  `RestoreInv`
follows the files of a restore: while they are set aside the list is exactly what
has left its place (`AsideInv`); during installation everything there was has a
backup (`BackupInv`); while they are put back each is on the list or in its place
(`PutBackInv`).  It is claimed of restores no pipeline has raced.  `MixInv` says why no
order of moves, copies and failures puts two histories side by side: the SQLite file
is the first to be moved aside and the last to come back, so that whenever both
databases are in their places all the files of the pair are (`OrderInv`); a pipeline
has the active files open (`OpenInv`), and what a snapshot has copied is what they
still say (`CopyInv`).

*WorkerMonitor.*  `EmittedInv`: one terminal event per child, and one of completion
only after both commits.  `EndInv`: a monitor that ends undisturbed has found
its child dead and *then* the pipe empty, and a child that ends by itself has
flushed its buffer, so nothing can follow.  `ReadInv`: `terminal_seen` is what was
read, and a monitor that saw none has reported none until its last step, which is
why the outcome made from the exit code is never a second one.

*EventQueue.*  `Flushing`: an error that leaves its dispatch has been followed by a
flush, and only `Prune` shortens a file, of a run that is over.  The trace needs the
way of every event: it is in one place, between counter and queue, in the queue, in a
consumer's hands, buffered or on disk (`OnePlace`), and nowhere twice
(`NoneTwice`); along that way the events of one thread are in its order (`InOrder`), and
the stages of the teardown say what may still be under way (`Teardown`, `Archived`).  An
emitter is in the main thread or in a pool that is joined before the sentinel is
put, which is why nothing follows it.

*MarketSync.*  `StoresInv`: what a split leaves makes the two stores differ by whole
chunks only (`Healable`), so one healing makes them agree, and a chunk of a run that
failed is in no transaction that can commit (`Doomed`).  `CacheInv`: the rows of a
ticker are seamless in what is committed, in what a healing would leave of it and in
the transaction, and each reaches the start of the range, so the window after the
newest day continues it (`Downloads`).  `SeriesInv` follows one close from the
provider through the answer (`Asked`) and the loaded batch to the series.

*LotAccounting.*  `LotInv`: the queue is the tail of all lots ever opened, dated in
order, and none is dated after the next trade to be read (`Queue`, `Dated`); acquired
less gone is what is open, up to one grain per sale (`Lost`); the cost trail explains
the open cost (`Explained`).  One lemma says what `Consume` does to any queue
(`ConsumeReached`, `Consumed`), for sales and for removals.

*IsinPool.*  `FlowInv` ties the stage of the engine to its futures.  `LedgerInv` gives
the accumulator in closed form: it is a function of the *set* of instruments counted
(`Ledger`), so the order in which they came cannot matter; `LedgerGains` is the step.
`FilesInv` says that the files of a finished worker are those of the dates it
reports.  At publication both describe the same book, and `MartsInv` gives the rows.

*ExecutionPlan.*  The closure is reached because a set that still grows has gained a
capability in every turn, and there are finitely many (`ClosureGrows`); it is the
least since each turn adds only what a closed set has (`ClosureIsLeast`).  The sort
keeps a prefix in order (`SortedMore`), always finds a capability that is ready, because
a relation without cycles has a minimal element in what is left (`OneIsReady`), and so
orders everything (`OrderIsComplete`).  None of this is about the seven capabilities;
the registry enters by `GraphIsClosed` and `GraphIsAcyclic` alone.  The invariant of a run
is `RunIInv`: the plan is the one of the job (`PlanOfTheJob`), each stage finds the frames
of the stages before it (`FramesByStage`), the transaction has replaced the
layers up to that stage (`WorkByStage`), and what is committed is what `good` left
(`CommittedStore`).  That the order of the engines covers every declared input is then a
comparison of the stages with the catalogue (`SlicesRead`, `MartsRead`).

*FinanceBooks.*  A run reads its inputs once and the household is asleep meanwhile, so
`BooksIInv` is short: the tables of each stage are those of the inputs, and inputs
that got so far were valid.  What is long is what the tables amount to.
- *Net worth.*  Every entry of the unified ledger stands for one fact, with its sign
  (`LedgerEntries`, `EntriesOfKind`); a balance is the latest opening and the net entries
  since, added up by month (`BalanceIs`, by induction over months) and by account
  (`NetByAccount`); and over all accounts the legs of paired movements cancel
  (`PairCancels`, `LegsCancel`), which leaves `LooseLegs`.
- *Cash.*  The activities by which the statement sorts the counterparties of a cash leg
  are a partition (`LegsByActivity`), so the statement explains the movement of the balances
  but for the one it calls unclassified (`StatementExplains`, `CashGoesOn`).
- *Categories* partition the facts of a month (`CategorySum`), in spending, income and tax.
- *Investments.*  An order becomes trades, trades of one key are added up to a reference
  (`TradesOfOrders`, `KindWorth`), references become facts.  On the way rows are made
  unique and could merge; that they keep their worth follows from the place an order has
  in its file and from the primary keys that the load demands (`LoadableFacts`,
  `DirectionAgrees`, `FlowAgrees`).
- *The calendar* spans every date of the facts, whatever they are (`SpineCovers`).
- *Tax.*  `ShownOnce` follows one income row through the four filters: to the event, the
  exempt rows and the excluded ones.  `YearAmount`, `BreakdownAddsUp` and
  `ReconciliationAddsUp` give the three tables the same sum over the events of a year
  and source; completeness is a sum of ones (`CompleteIsReady`).

*Only model-checked.*  Liveness (`ProcessEnds`, `EveryRunIsReported`, `TeardownEnds`,
`PoolEnds`) is out of the prover's reach, and so is what depends on it.  Of the safety
properties none is left to TLC alone.

## 5. What is not modelled

- *Loss of power.*  SQLite runs with `synchronous=NORMAL`; what a store has committed
  survives in the models.
- *Inside RunCommit:* the tables written beside `cp_runs` (failures, capability
  plan, sync summary), which share its transaction.
- *Inside EvidenceSync:* artifact events, pre-Bronze extraction, the content of rows,
  two spellings of one path; a ledger of which some tables are empty and others not
  (a content is blank in all tables of its category or in none).  Virtual files are `MarketSync`'s.
- *Inside MarketSync:* the cut of a chunk by year, a range per provider, the attempts
  of one request.
- *Inside ExecutionPlan:* the order of publication within a layer, the plan's report.
- *Inside the analytical modules:* days within a month, currencies other than through
  a given rate, decimals and rounding, names and texts, derived ratios;
  an opening balance without an amount, which the code counts as 0.
- *Inside IsinPool and LotAccounting:* performance and risk figures, six of the eight
  dimensions, benchmark shadows, local prices and tax rates of a lot.
- *Inside EventQueue:* rendering, the memory sink, forwarding of standard logging; a
  sink that raises, whose event the listener drops (`queue.py:173-176`).
- *Inside SnapshotRestore:* the archive format, temporary files, a raw copy torn by
  a concurrent writer, the `-shm` index, which is rebuilt from the `-wal`.
- *Inside WorkerMonitor:* `run_pipeline_sync`, redirected standard output, a message
  torn in the pipe by a kill.
- *Components:* the YAML source definitions (`config/sources/`) are parsed and
  validated without state; XIRR, attribution, risk figures and the FIRE simulation are
  floating-point arithmetic over series; the canonical field catalogue, the semantic
  inventory, schemas and column lists are declarations; settings, bootstrap, the
  documentation viewer and the desktop's widgets have no behaviour over time beyond
  what `WorkerMonitor` has of them.

## 6. Plan

Done: the modules of section 2, the runs of section 3 and the theorems of section 4, which
state every safety property of every run.

Next, in this order:

1. An abstract history of evidence, which `EvidenceSync` implements as `RunCommit` does
   `OrderedCommit`, from `StoreInv` and `SyncedInv`.
2. Action properties from the invariants there are: what a healing may take from
   either store, what a restore may do to a file that has no backup.
3. Orders that merge: statements outside `BooksData`, to say which rows the facts
   lose and by how much the investments then differ.
