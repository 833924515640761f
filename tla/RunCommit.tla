------------------------------ MODULE RunCommit ------------------------------
(***************************************************************************)
(* The lifecycle of a pipeline run over the two stores it writes: the      *)
(* DuckDB warehouse and the SQLite control plane.  There is no distributed *)
(* transaction: lifecycle.py commits DuckDB first and SQLite second, and   *)
(* keeps one row per run in cp_runs saying how far the run got.  The       *)
(* process may die between any two steps, every store operation may raise, *)
(* and the next process starts by re-reading the rows.                     *)
(*                                                                         *)
(* A row of cp_runs lives in SQLite, and most updates of it happen inside  *)
(* the very transaction whose outcome it describes: `ledger` is what is    *)
(* durable, `view` is what the run's own connection reads back.            *)
(*                                                                         *)
(* One process at a time: DuckDB opens its file exclusively and the        *)
(* control plane holds pipeline.lock.  Loss of power (synchronous=NORMAL)  *)
(* is not modelled: what a store has committed survives a crash.           *)
(***************************************************************************)
EXTENDS Naturals

CONSTANTS
    Runs,   \* run identifiers, numbered in the order in which runs start
    NoRun   \* the run_id of a coordinator before start_run

ASSUME RunsAssumption == Runs \subseteq Nat /\ NoRun \notin Runs

VARIABLES
    (* the two stores *)
    ledger,         \* durable cp_runs rows
    view,           \* cp_runs as the open connection sees it
    txn,            \* is the run's SQLite transaction open?
    duckRuns,       \* runs whose DuckDB transaction is durable
    sqlRuns,        \* runs whose SQLite transaction is durable
    (* the RunLifecycleCoordinator of the running process *)
    pc,             \* where the process is
    run,            \* run_id
    duckStarted, sqlStarted, duckCommitted, sqlCommitted,
    commitState,
    pending,        \* pending_recovery_runs not yet marked
    (* observation only *)
    lostMarker      \* runs that ended split without a durable marker

stores == <<ledger, view, txn, duckRuns, sqlRuns>>
flags  == <<duckStarted, sqlStarted, duckCommitted, sqlCommitted>>
memory == <<run, flags, commitState, pending>>
vars   == <<stores, pc, memory, lostMarker>>

-----------------------------------------------------------------------------
(* Types. *)

InFlight == {"STARTED", "RUNNING", "COMMITTING"}

Status == InFlight \cup
          {"ABSENT", "SUCCESS", "FAILED", "RECOVERY_REQUIRED", "CONVERGED"}

CommitState == {"NOT_STARTED", "STARTED", "ROLLED_BACK", "DUCKDB_COMMITTED",
                "FULLY_COMMITTED", "RECOVERY_REQUIRED", "CONVERGED",
                "COMMIT_STATE_UNKNOWN"}

Row == [status : Status, commit : CommitState]

\* Steps of initialize, of execute_phases and commit, of the convergence
\* loop, of handle_failure, and of teardown.
Initializing == {"opened", "schema_ready", "run_started", "duckdb_begun"}
Committing   == {"committing", "duckdb_durable", "duckdb_recorded",
                 "sqlite_durable", "fully_recorded"}
Working      == Initializing \cup {"executing", "converging"} \cup Committing
Failing      == {"failing", "resolved", "state_recorded"}
PC           == {"down", "succeeded", "closing"} \cup Working \cup Failing

TypeOK ==
    /\ ledger \in [Runs -> Row]
    /\ view \in [Runs -> Row]
    /\ txn \in BOOLEAN
    /\ duckRuns \subseteq Runs
    /\ sqlRuns \subseteq Runs
    /\ pc \in PC
    /\ run \in Runs \cup {NoRun}
    /\ duckStarted \in BOOLEAN
    /\ sqlStarted \in BOOLEAN
    /\ duckCommitted \in BOOLEAN
    /\ sqlCommitted \in BOOLEAN
    /\ commitState \in CommitState
    /\ pending \subseteq Runs
    /\ lostMarker \subseteq Runs

NoRow == [status |-> "ABSENT", commit |-> "NOT_STARTED"]

\* A new coordinator: nothing begun, nothing known.
FreshMemory ==
    /\ run = NoRun
    /\ duckStarted = FALSE /\ sqlStarted = FALSE
    /\ duckCommitted = FALSE /\ sqlCommitted = FALSE
    /\ commitState = "NOT_STARTED"
    /\ pending = {}

Init ==
    /\ ledger = [r \in Runs |-> NoRow]
    /\ view = ledger
    /\ txn = FALSE
    /\ duckRuns = {} /\ sqlRuns = {}
    /\ pc = "down"
    /\ FreshMemory
    /\ lostMarker = {}

-----------------------------------------------------------------------------
(* SQLite.  atomic() is a savepoint: inside BEGIN IMMEDIATE it changes only *)
(* what the connection sees, outside it is durable when it is released.    *)

Write(rows) ==
    /\ view' = rows
    /\ ledger' = IF txn THEN ledger ELSE rows

SetStatus(s) == [view EXCEPT ![run].status = s]
SetCommit(c) == [view EXCEPT ![run].commit = c]
\* Faulty: the two columns of the row swapped.
FinishSwapped(s, c) == [view EXCEPT ![run] = [status |-> c, commit |-> s]]

Finish(s, c) == [view EXCEPT ![run] = [status |-> s, commit |-> c]]

\* Faulty: no distinction between the runs that died in flight.
ReclassifiedAlike(row) ==
    IF row.status \notin InFlight THEN row
    ELSE [status |-> "FAILED", commit |-> "ROLLED_BACK"]

\* Faulty: a marker left by an earlier run is taken for a stale run.
ReclassifiedMarkersToo(row) ==
    IF row.status \in InFlight \cup {"RECOVERY_REQUIRED"}
    THEN [status |-> "FAILED", commit |-> "ROLLED_BACK"] ELSE row

\* recover_stale_runs: one savepoint reclassifies every row left in flight.
Reclassified(row) ==
    IF row.status \notin InFlight THEN row
    ELSE IF row.status = "COMMITTING"
         THEN [status |-> "RECOVERY_REQUIRED", commit |-> "RECOVERY_REQUIRED"]
         ELSE [status |-> "FAILED", commit |-> "ROLLED_BACK"]

\* Faulty: only the oldest of the runs that need recovery (LIMIT 1).
OldestRecoveryRequired ==
    {r \in Runs : /\ view[r].status = "RECOVERY_REQUIRED"
                  /\ \A s \in Runs : view[s].status = "RECOVERY_REQUIRED" => r <= s}

\* get_recovery_required_runs
RecoveryRequired == {r \in Runs : view[r].status = "RECOVERY_REQUIRED"}

Goto(label) == pc' = label

-----------------------------------------------------------------------------
(* initialize *)

\* db_manager.open and ensure_schemas, then pipeline.lock and SQLite.
OpenStores ==
    /\ pc = "down"
    /\ Goto("opened")
    /\ UNCHANGED <<stores, memory, lostMarker>>

\* cp.ensure_schema: autocommit, so the verdicts are durable at once.
RecoverStaleRuns ==
    /\ pc = "opened"
    /\ Write([r \in Runs |-> Reclassified(view[r])])
    /\ Goto("schema_ready")
    /\ UNCHANGED <<txn, duckRuns, sqlRuns, memory, lostMarker>>

StartRun ==
    /\ pc = "schema_ready"
    /\ \E r \in Runs :
        /\ view[r].status = "ABSENT"
        /\ \A s \in Runs : view[s].status = "ABSENT" => r <= s
        /\ Write([view EXCEPT ![r] =
                     [status |-> "STARTED", commit |-> "STARTED"]])
        /\ run' = r
    /\ Goto("run_started")
    /\ UNCHANGED <<txn, duckRuns, sqlRuns, flags, commitState, pending,
                   lostMarker>>

\* Reads the runs that still need convergence (the registry is healed here
\* too, in autocommit mode; see EvidenceSync), then BEGIN in DuckDB.
BeginDuckDB ==
    /\ pc = "run_started"
    /\ pending' = RecoveryRequired
    /\ duckStarted' = TRUE
    /\ Goto("duckdb_begun")
    /\ UNCHANGED <<stores, run, sqlStarted, duckCommitted, sqlCommitted,
                   commitState, lostMarker>>

\* BEGIN IMMEDIATE; the status RUNNING is already inside the transaction.
BeginSQLite ==
    /\ pc = "duckdb_begun"
    /\ txn' = TRUE
    /\ sqlStarted' = TRUE
    /\ commitState' = "STARTED"
    /\ view' = SetStatus("RUNNING")
    /\ Goto("executing")
    /\ UNCHANGED <<ledger, duckRuns, sqlRuns, run, duckStarted, duckCommitted,
                   sqlCommitted, pending, lostMarker>>

-----------------------------------------------------------------------------
(* commit *)

\* execute_phases has returned; the status COMMITTING goes into the open
\* transaction as well.
EnterCommit ==
    /\ pc = "executing"
    /\ Write(SetStatus("COMMITTING"))
    /\ Goto("committing")
    /\ UNCHANGED <<txn, duckRuns, sqlRuns, memory, lostMarker>>

CommitDuckDB ==
    /\ pc = "committing"
    /\ duckRuns' = duckRuns \cup {run}
    /\ duckCommitted' = TRUE
    /\ commitState' = "DUCKDB_COMMITTED"
    /\ Goto("duckdb_durable")
    /\ UNCHANGED <<ledger, view, txn, sqlRuns, run, duckStarted, sqlStarted,
                   sqlCommitted, pending, lostMarker>>

RecordDuckDBCommit ==
    /\ pc = "duckdb_durable"
    /\ Write(SetCommit("DUCKDB_COMMITTED"))
    /\ Goto("duckdb_recorded")
    /\ UNCHANGED <<txn, duckRuns, sqlRuns, memory, lostMarker>>

\* The except clause of the DuckDB commit catches a failed COMMIT and also a
\* failed update after a COMMIT that did succeed.
DuckDBCommitRaises ==
    /\ pc \in {"committing", "duckdb_durable"}
    /\ commitState' = "ROLLED_BACK"
    /\ Write(SetCommit("ROLLED_BACK"))
    /\ Goto("failing")
    /\ UNCHANGED <<txn, duckRuns, sqlRuns, run, flags, pending, lostMarker>>

CommitSQLite ==
    /\ pc = "duckdb_recorded"
    /\ ledger' = view
    /\ txn' = FALSE
    /\ sqlRuns' = sqlRuns \cup {run}
    /\ sqlCommitted' = TRUE
    /\ commitState' = "FULLY_COMMITTED"
    /\ Goto("sqlite_durable")
    /\ UNCHANGED <<view, duckRuns, run, duckStarted, sqlStarted,
                   duckCommitted, pending, lostMarker>>

RecordFullCommit ==
    /\ pc = "sqlite_durable"
    /\ Write(SetCommit("FULLY_COMMITTED"))
    /\ Goto("fully_recorded")
    /\ UNCHANGED <<txn, duckRuns, sqlRuns, memory, lostMarker>>

\* The except clause of the SQLite commit: a failed COMMIT may leave the
\* transaction open or may have rolled it back, and a failed update after a
\* successful COMMIT is caught here too.
SQLiteCommitRaises ==
    /\ commitState' = "RECOVERY_REQUIRED"
    /\ \/ /\ pc \in {"duckdb_recorded", "sqlite_durable"}
          /\ Write(SetCommit("RECOVERY_REQUIRED"))
          /\ UNCHANGED txn
       \/ /\ pc = "duckdb_recorded"
          /\ txn' = FALSE
          /\ ledger' = [ledger EXCEPT ![run].commit = "RECOVERY_REQUIRED"]
          /\ view' = ledger'
    /\ Goto("failing")
    /\ UNCHANGED <<duckRuns, sqlRuns, run, flags, pending, lostMarker>>

FinishRun ==
    /\ pc = "fully_recorded"
    /\ Write(Finish("SUCCESS", "FULLY_COMMITTED"))
    /\ Goto("converging")
    /\ UNCHANGED <<txn, duckRuns, sqlRuns, memory, lostMarker>>

\* mark_recovery_converged, one run of the list at a time.
MarkRecoveryConverged ==
    /\ pc = "converging"
    /\ \E r \in pending :
        /\ Write(IF view[r].status = "RECOVERY_REQUIRED"
                 THEN [view EXCEPT ![r] = [status |-> "CONVERGED",
                                           commit |-> "CONVERGED"]]
                 ELSE view)
        /\ pending' = pending \ {r}
    /\ UNCHANGED <<txn, duckRuns, sqlRuns, pc, run, flags, commitState,
                   lostMarker>>

CommitReturns ==
    /\ pc = "converging"
    /\ pending = {}
    /\ Goto("succeeded")
    /\ UNCHANGED <<stores, memory, lostMarker>>

-----------------------------------------------------------------------------
(* handle_failure *)

\* An exception with no handler of its own: in initialize, in a phase, in
\* the update to COMMITTING, in finish_run or in the convergence loop, and
\* in the updates the two except clauses above make.
Raise ==
    /\ pc \in Working
    /\ Goto("failing")
    /\ UNCHANGED <<stores, memory, lostMarker>>

\* Faulty: anything short of both commits counts as rolled back.
ResolvedAllOrNothing ==
    IF duckCommitted /\ sqlCommitted THEN "FULLY_COMMITTED" ELSE "ROLLED_BACK"

\* Faulty: the SQLite commit is taken for granted.
ResolvedByDuckDB == IF duckCommitted THEN "FULLY_COMMITTED" ELSE "ROLLED_BACK"

\* _resolve_commit_state
ResolvedState ==
    IF duckCommitted
    THEN IF sqlCommitted THEN "FULLY_COMMITTED" ELSE "RECOVERY_REQUIRED"
    ELSE IF sqlCommitted THEN "COMMIT_STATE_UNKNOWN" ELSE "ROLLED_BACK"

\* _rollback_open_transactions: an error of the rollback is swallowed and
\* the transaction then stays open.
ResolveAndRollBack ==
    /\ pc = "failing"
    /\ commitState' = ResolvedState
    /\ \/ /\ sqlStarted /\ ~sqlCommitted
          /\ txn' = FALSE
          /\ view' = ledger
       \/ UNCHANGED <<txn, view>>
    /\ Goto("resolved")
    /\ UNCHANGED <<ledger, duckRuns, sqlRuns, run, flags, pending, lostMarker>>

\* mark_recovery_required.  Written through a second connection when the
\* first one fails; inside a transaction that could not be rolled back it
\* goes the way of that transaction.
MarkRecoveryRequired ==
    /\ pc = "resolved"
    /\ run # NoRun
    /\ commitState = "RECOVERY_REQUIRED"
    /\ Write(Finish("RECOVERY_REQUIRED", "RECOVERY_REQUIRED"))
    /\ lostMarker' = IF txn THEN lostMarker \cup {run} ELSE lostMarker
    /\ Goto("closing")
    /\ UNCHANGED <<txn, duckRuns, sqlRuns, memory>>

RecordFailedState ==
    /\ pc = "resolved"
    /\ run # NoRun
    /\ commitState # "RECOVERY_REQUIRED"
    /\ Write(SetCommit(commitState))
    /\ Goto("state_recorded")
    /\ UNCHANGED <<txn, duckRuns, sqlRuns, memory, lostMarker>>

RecordFailedRun ==
    /\ pc = "state_recorded"
    /\ Write(Finish("FAILED", commitState))
    /\ Goto("closing")
    /\ UNCHANGED <<txn, duckRuns, sqlRuns, memory, lostMarker>>

\* There is no row to write, or writing it raised: handle_failure logs the
\* second error and goes on.
TelemetryNotWritten ==
    /\ pc \in {"resolved", "state_recorded"}
    /\ lostMarker' = IF run # NoRun /\ commitState = "RECOVERY_REQUIRED"
                     THEN lostMarker \cup {run} ELSE lostMarker
    /\ Goto("closing")
    /\ UNCHANGED <<stores, memory>>

-----------------------------------------------------------------------------
(* teardown and the death of the process *)

\* Closing a connection rolls back what it had not committed.
Forget ==
    /\ view' = ledger
    /\ txn' = FALSE
    /\ pc' = "down"
    /\ run' = NoRun
    /\ duckStarted' = FALSE /\ sqlStarted' = FALSE
    /\ duckCommitted' = FALSE /\ sqlCommitted' = FALSE
    /\ commitState' = "NOT_STARTED"
    /\ pending' = {}
    /\ UNCHANGED <<ledger, duckRuns, sqlRuns>>

\* Faulty: teardown outside the finally block.
TeardownOnSuccess ==
    /\ pc = "succeeded"
    /\ Forget
    /\ UNCHANGED lostMarker

Teardown ==
    /\ pc \in {"succeeded", "closing"}
    /\ Forget
    /\ UNCHANGED lostMarker

\* The process is killed.  It loses the marker when it dies with only the
\* DuckDB half committed, before handle_failure has written anything.
Crash ==
    /\ pc # "down"
    /\ Forget
    /\ lostMarker' = IF duckCommitted /\ ~sqlCommitted /\ pc # "closing"
                     THEN lostMarker \cup {run} ELSE lostMarker

-----------------------------------------------------------------------------

HandleFailure ==
    \/ ResolveAndRollBack \/ MarkRecoveryRequired \/ RecordFailedState
    \/ RecordFailedRun \/ TelemetryNotWritten

\* What the process does by itself once it has been started.
ProcessStep ==
    \/ RecoverStaleRuns \/ StartRun \/ BeginDuckDB \/ BeginSQLite
    \/ EnterCommit \/ CommitDuckDB \/ RecordDuckDBCommit \/ DuckDBCommitRaises
    \/ CommitSQLite \/ RecordFullCommit \/ SQLiteCommitRaises \/ FinishRun
    \/ MarkRecoveryConverged \/ CommitReturns \/ Raise
    \/ HandleFailure \/ Teardown

Next == OpenStores \/ ProcessStep \/ Crash

\* A started process keeps running until it ends or is killed; nobody has to
\* start one.
Spec == Init /\ [][Next]_vars /\ WF_vars(ProcessStep)

-----------------------------------------------------------------------------
(* Properties. *)

\* What a row says of its run is true of the stores: FULLY_COMMITTED and
\* SUCCESS (commit, finish_run) of both, RECOVERY_REQUIRED of the warehouse,
\* CONVERGED (mark_recovery_converged) of a later run in both, and a FAILED
\* run that claims ROLLED_BACK has left nothing in the control plane.
ClaimsBacked ==
    \A r \in Runs :
        LET row == ledger[r] IN
        /\ row.commit = "FULLY_COMMITTED" \/ row.status = "SUCCESS"
              => r \in duckRuns \cap sqlRuns
        /\ row.status = "RECOVERY_REQUIRED" => r \in duckRuns
        /\ row.status = "CONVERGED"
              => \E s \in duckRuns \cap sqlRuns : s > r
        /\ row.status = "FAILED" /\ row.commit = "ROLLED_BACK"
              => r \notin sqlRuns

\* A run that is durable in the warehouse only is marked RECOVERY_REQUIRED
\* (or already converged) once its process is gone, unless the process died
\* between the two commits or could not write the marker.
SplitIsMarked ==
    \A r \in duckRuns \ sqlRuns :
        \/ r = run
        \/ r \in lostMarker
        \/ ledger[r].status \in {"RECOVERY_REQUIRED", "CONVERGED"}

\* A run whose commit() returns has converged every earlier split: the list
\* read by initialize() misses none that recover_stale_runs produced.
SuccessLeavesNoSplit ==
    pc = "succeeded" =>
        \A r \in Runs : ledger[r].status # "RECOVERY_REQUIRED"

\* History is not rewritten: a marker is only ever resolved to CONVERGED, a
\* verdict stays, and SUCCESS can turn into FAILED (a failure after the
\* commits) only with the row still saying FULLY_COMMITTED.
HistoryKept ==
    [][\A r \in Runs :
        LET old == ledger[r]
            new == ledger'[r] IN
        /\ old.status = "RECOVERY_REQUIRED"
              => new = old \/ new.status = "CONVERGED"
        /\ old.status \in {"CONVERGED", "FAILED"} => new = old
        /\ old.status = "SUCCESS"
              => /\ new.status \in {"SUCCESS", "FAILED"}
                 /\ new.commit = "FULLY_COMMITTED"]_vars

\* Every started process ends: the convergence loop, the failure handler and
\* the teardown cannot keep it (run(): try, except, finally).
ProcessEnds == pc # "down" ~> pc = "down"

\* Guarantee 5 of docs/architecture/reliability-and-recovery.md: "an already
\* committed DuckDB transaction is never falsely described as rolled back".
NeverFalselyRolledBack ==
    \A r \in duckRuns : ledger[r].commit # "ROLLED_BACK"

\* The durable history as OrderedCommit sees it.
Claim(row) ==
    CASE row.status = "ABSENT" -> "none"
      [] row.status \in InFlight -> "open"
      [] row.status = "RECOVERY_REQUIRED" -> "split"
      [] row.status = "CONVERGED" -> "resolved"
      [] row.status = "SUCCESS" -> "done"
      [] OTHER -> IF row.commit = "ROLLED_BACK" THEN "undone" ELSE "done"

History == INSTANCE OrderedCommit
    WITH first <- duckRuns, second <- sqlRuns, lost <- lostMarker,
         claim <- [r \in Runs |-> Claim(ledger[r])]

\* The run lifecycle implements the ordered commit: what cp_runs tells a
\* reader about any run, at any moment, is backed by the two stores.
RunHistoryTruthful == History!Spec

-----------------------------------------------------------------------------
(* The inductive invariant behind ClaimsBacked, SplitIsMarked and          *)
(* SuccessLeavesNoSplit, in parts.                                          *)

\* What the connection sees differs from what is durable only inside a
\* transaction, and there only in the run's own row.
ViewInv ==
    /\ ~txn => view = ledger
    /\ txn => /\ run # NoRun
              /\ ~sqlCommitted
              /\ \A r \in Runs \ {run} : view[r] = ledger[r]

\* The coordinator's flags agree with the stores.
FlagInv ==
    /\ duckCommitted <=> run \in duckRuns
    /\ sqlCommitted <=> run \in sqlRuns
    /\ sqlCommitted => duckCommitted
    /\ sqlCommitted => sqlStarted

\* Where the process is tells which half is committed and what its own row
\* says.
PhaseInv ==
    /\ pc \in {"down", "opened", "schema_ready"} => run = NoRun
    /\ pc \in (Working \cup {"succeeded", "state_recorded"})
                 \ {"opened", "schema_ready"} => run # NoRun
    /\ pc \in {"run_started", "duckdb_begun"} => ~txn /\ ~duckCommitted
    /\ pc \in {"executing", "committing", "duckdb_durable",
               "duckdb_recorded"} => txn /\ sqlStarted
    /\ pc \in {"executing", "committing"} => ~duckCommitted
    /\ pc \in {"duckdb_durable", "duckdb_recorded"}
          => duckCommitted /\ view[run].status = "COMMITTING"
    /\ pc = "committing" => view[run].status = "COMMITTING"
    /\ pc \in {"sqlite_durable", "fully_recorded", "converging", "succeeded"}
          => sqlCommitted
    /\ pc \in {"resolved", "state_recorded"} => commitState = ResolvedState
    /\ pc = "state_recorded" => commitState # "RECOVERY_REQUIRED"
    /\ pc \in Working \cup Failing /\ run # NoRun
          => IF sqlCommitted THEN ledger[run].status \in {"COMMITTING", "SUCCESS"}
                             ELSE ledger[run].status = "STARTED"
    /\ pc \in {"sqlite_durable", "fully_recorded"}
          => ledger[run].status = "COMMITTING"
    /\ pc \in {"converging", "succeeded"} => ledger[run].status = "SUCCESS"
    /\ pc = "closing" /\ run \in duckRuns \ sqlRuns
          => run \in lostMarker \/ ledger[run].status = "RECOVERY_REQUIRED"

\* What the durable row of a run says is backed by the stores.
RowBacked(r) ==
    LET row == ledger[r] IN
    /\ row.status = "ABSENT" => r \notin duckRuns \cup sqlRuns /\ r # run
    /\ row.status # "RUNNING"
    /\ row.status = "STARTED"
          => /\ r \notin sqlRuns
             /\ r \in duckRuns => r = run \/ r \in lostMarker
    /\ row.status = "COMMITTING" => r \in duckRuns \cap sqlRuns
    /\ row.status = "SUCCESS" => row.commit = "FULLY_COMMITTED"
    /\ row.commit = "FULLY_COMMITTED" => r \in duckRuns \cap sqlRuns
    /\ row.status = "FAILED"
          => \/ row.commit = "FULLY_COMMITTED"
             \/ /\ row.commit = "ROLLED_BACK"
                /\ r \notin sqlRuns
                /\ r \in duckRuns => r \in lostMarker
    /\ row.status = "RECOVERY_REQUIRED" => r \in duckRuns
    /\ row.status = "CONVERGED"
          => \E s \in duckRuns \cap sqlRuns : s > r

RowInv == \A r \in Runs : RowBacked(r)

\* Runs start in order, one at a time: a running process has the youngest
\* run, and no other run is in flight once the stale ones are reclassified.
OrderInv ==
    /\ \A r, s \in Runs :
          ledger[r].status # "ABSENT" /\ ledger[s].status = "ABSENT" => r < s
    /\ run # NoRun => \A r \in Runs : ledger[r].status # "ABSENT" => r <= run
    /\ run # NoRun \/ pc = "schema_ready"
          => \A r \in Runs \ {run} : ledger[r].status \notin InFlight
    /\ \A r, s \in Runs : ledger[r].status \in InFlight
                          /\ ledger[s].status \in InFlight => r = s

\* The list of splits to converge is complete from the moment it is read.
PendingInv ==
    /\ \A r \in pending : run # NoRun /\ r < run
    /\ pc \in (Committing \cup {"duckdb_begun", "executing", "converging"})
          => \A r \in Runs : ledger[r].status = "RECOVERY_REQUIRED" => r \in pending
    /\ pc = "succeeded"
          => \A r \in Runs : ledger[r].status # "RECOVERY_REQUIRED"

IInv ==
    /\ TypeOK
    /\ ViewInv
    /\ FlagInv
    /\ PhaseInv
    /\ RowInv
    /\ OrderInv
    /\ PendingInv

=============================================================================
