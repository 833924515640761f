-------------------------- MODULE Orchestrator_proofs --------------------------
(***************************************************************************)
(* Proofs about a run as the orchestrator sees it: RunCommit, how far its  *)
(* two transactions got, and ExecutionPlan, what it plans and replaces.    *)
(*                                                                         *)
(* The commits, for any set of run identifiers: the inductive invariant    *)
(* IInv, one lemma for each of its parts, and what follows; then that the  *)
(* lifecycle implements OrderedCommit.                                     *)
(*                                                                         *)
(* The plan.  The closure of a request is the least one and Kahn's         *)
(* algorithm orders all of it, for any registry without cycles; the        *)
(* registry there is has none.  Then the run, stage by stage: which frames *)
(* a stage finds and what its transaction has written (RunIInv).           *)
(* Induction is over sets (EveryNumber): the hypothesis is a set of        *)
(* numbers, which the provers can instantiate.                             *)
(***************************************************************************)
EXTENDS RunCommit, ExecutionPlan, FiniteSetTheorems, WellFoundedInduction, TLAPS

-----------------------------------------------------------------------------
(* RunCommit.                                                               *)

\* Types are preserved (the phase says that there is a run to write about).
LEMMA TypeOKStep == IInv /\ [Next]_vars => TypeOK'
<1> SUFFICES ASSUME IInv, [Next]_vars PROVE TypeOK'
  OBVIOUS
<1> USE RunsAssumption DEF IInv, TypeOK, stores, flags, memory, Goto, Write, SetStatus,
           SetCommit, Finish, Row, ViewInv, PhaseInv, FlagInv, PC, Status, InFlight,
           CommitState,
           Working, Committing, Initializing, Failing
<1>1. CASE OpenStores \/ BeginDuckDB \/ CommitReturns \/ Raise
  BY <1>1 DEF OpenStores, BeginDuckDB, RecoveryRequired, CommitReturns, Raise
<1>2. CASE RecoverStaleRuns
  BY <1>2 DEF RecoverStaleRuns, Reclassified
<1>3. CASE StartRun
  BY <1>3 DEF StartRun
<1>4. CASE BeginSQLite
  BY <1>4 DEF BeginSQLite
<1>5. CASE EnterCommit \/ RecordDuckDBCommit \/ DuckDBCommitRaises
  BY <1>5 DEF EnterCommit, RecordDuckDBCommit, DuckDBCommitRaises
<1>6. CASE CommitDuckDB \/ CommitSQLite
  BY <1>6 DEF CommitDuckDB, CommitSQLite
<1>7. CASE RecordFullCommit \/ FinishRun
  BY <1>7 DEF RecordFullCommit, FinishRun
<1>8. CASE SQLiteCommitRaises
  <2>1. run \in Runs
    BY <1>8 DEF SQLiteCommitRaises
  <2>2. /\ view' \in [Runs -> Row]
        /\ ledger' \in [Runs -> Row]
    <3>1. [view EXCEPT ![run].commit = "RECOVERY_REQUIRED"] \in [Runs -> Row]
      OBVIOUS
    <3>2. [ledger EXCEPT ![run].commit = "RECOVERY_REQUIRED"] \in [Runs -> Row]
      OBVIOUS
    <3>3. QED
      BY <1>8, <3>1, <3>2 DEF SQLiteCommitRaises
  <2>3. QED
    BY <1>8, <2>1, <2>2 DEF SQLiteCommitRaises
<1>9. CASE MarkRecoveryConverged
  BY <1>9 DEF MarkRecoveryConverged
<1>10. CASE HandleFailure
  <2>1. CASE ResolveAndRollBack
    BY <2>1 DEF ResolveAndRollBack, ResolvedState
  <2>2. CASE MarkRecoveryRequired
    BY <2>2 DEF MarkRecoveryRequired
  <2>3. CASE RecordFailedState
    BY <2>3 DEF RecordFailedState
  <2>4. CASE RecordFailedRun
    BY <2>4 DEF RecordFailedRun
  <2>5. CASE TelemetryNotWritten
    BY <2>5 DEF TelemetryNotWritten
  <2>6. QED
    BY <1>10, <2>1, <2>2, <2>3, <2>4, <2>5 DEF HandleFailure
<1>11. CASE Teardown \/ Crash
  BY <1>11 DEF Teardown, Crash, Forget
<1>12. CASE UNCHANGED vars
  BY <1>12 DEF vars, ResolvedState
<1>13. QED
  BY <1>1, <1>2, <1>3, <1>4, <1>5, <1>6, <1>7, <1>8, <1>9, <1>10, <1>11, <1>12
     DEF Next, ProcessStep

\* Only the run's own row differs, and only inside its transaction.
LEMMA ViewInvStep == IInv /\ [Next]_vars => ViewInv'
<1> SUFFICES ASSUME IInv, [Next]_vars PROVE ViewInv'
  OBVIOUS
<1> USE RunsAssumption DEF IInv, TypeOK, stores, flags, memory, Goto, Write, SetStatus,
           SetCommit, Finish, Row, ViewInv, PhaseInv, FlagInv,
           Working, Committing, Initializing, Failing
<1>1. CASE OpenStores \/ BeginDuckDB \/ CommitReturns \/ Raise
  BY <1>1 DEF OpenStores, BeginDuckDB, RecoveryRequired, CommitReturns, Raise
<1>2. CASE RecoverStaleRuns
  BY <1>2 DEF RecoverStaleRuns, Reclassified
<1>3. CASE StartRun
  BY <1>3 DEF StartRun
<1>4. CASE BeginSQLite
  BY <1>4 DEF BeginSQLite
<1>5. CASE EnterCommit \/ RecordDuckDBCommit \/ DuckDBCommitRaises
  BY <1>5 DEF EnterCommit, RecordDuckDBCommit, DuckDBCommitRaises
<1>6. CASE CommitDuckDB \/ CommitSQLite
  BY <1>6 DEF CommitDuckDB, CommitSQLite
<1>7. CASE RecordFullCommit \/ FinishRun
  BY <1>7 DEF RecordFullCommit, FinishRun
<1>8. CASE SQLiteCommitRaises
  BY <1>8 DEF SQLiteCommitRaises
<1>9. CASE MarkRecoveryConverged
  BY <1>9 DEF MarkRecoveryConverged
<1>10. CASE HandleFailure
  BY <1>10 DEF HandleFailure, ResolveAndRollBack, ResolvedState,
             MarkRecoveryRequired, RecordFailedState, RecordFailedRun,
             TelemetryNotWritten
<1>11. CASE Teardown \/ Crash
  BY <1>11 DEF Teardown, Crash, Forget
<1>12. CASE UNCHANGED vars
  BY <1>12 DEF vars, ResolvedState
<1>13. QED
  BY <1>1, <1>2, <1>3, <1>4, <1>5, <1>6, <1>7, <1>8, <1>9, <1>10, <1>11, <1>12
     DEF Next, ProcessStep

\* The coordinator's flags follow the stores.
LEMMA FlagInvStep == IInv /\ [Next]_vars => FlagInv'
<1> SUFFICES ASSUME IInv, [Next]_vars PROVE FlagInv'
  OBVIOUS
<1> USE RunsAssumption DEF IInv, TypeOK, stores, flags, memory, Goto, Write, SetStatus,
           SetCommit, Finish, Row, ViewInv, PhaseInv, FlagInv, RowInv, RowBacked,
           Working, Committing, Initializing, Failing
<1>1. CASE OpenStores \/ BeginDuckDB \/ CommitReturns \/ Raise
  BY <1>1 DEF OpenStores, BeginDuckDB, RecoveryRequired, CommitReturns, Raise
<1>2. CASE RecoverStaleRuns
  BY <1>2 DEF RecoverStaleRuns, Reclassified
<1>3. CASE StartRun
  BY <1>3 DEF StartRun
<1>4. CASE BeginSQLite
  BY <1>4 DEF BeginSQLite
<1>5. CASE EnterCommit \/ RecordDuckDBCommit \/ DuckDBCommitRaises
  BY <1>5 DEF EnterCommit, RecordDuckDBCommit, DuckDBCommitRaises
<1>6. CASE CommitDuckDB \/ CommitSQLite
  BY <1>6 DEF CommitDuckDB, CommitSQLite
<1>7. CASE RecordFullCommit \/ FinishRun
  BY <1>7 DEF RecordFullCommit, FinishRun
<1>8. CASE SQLiteCommitRaises
  BY <1>8 DEF SQLiteCommitRaises
<1>9. CASE MarkRecoveryConverged
  BY <1>9 DEF MarkRecoveryConverged
<1>10. CASE HandleFailure
  BY <1>10 DEF HandleFailure, ResolveAndRollBack, ResolvedState,
             MarkRecoveryRequired, RecordFailedState, RecordFailedRun,
             TelemetryNotWritten
<1>11. CASE Teardown \/ Crash
  <2>1. CASE Teardown
    BY <2>1 DEF Teardown, Forget
  <2>2. CASE Crash
    BY <2>2 DEF Crash, Forget
  <2>3. QED
    BY <1>11, <2>1, <2>2
<1>12. CASE UNCHANGED vars
  BY <1>12 DEF vars, ResolvedState
<1>13. QED
  BY <1>1, <1>2, <1>3, <1>4, <1>5, <1>6, <1>7, <1>8, <1>9, <1>10, <1>11, <1>12
     DEF Next, ProcessStep

\* The control points keep what they say of flags, transaction and own row.
LEMMA PhaseInvStep == IInv /\ [Next]_vars => PhaseInv'
<1> SUFFICES ASSUME IInv, [Next]_vars PROVE PhaseInv'
  OBVIOUS
<1> USE RunsAssumption DEF IInv, TypeOK, stores, flags, memory, Goto, Write, SetStatus,
           SetCommit, Finish, Row, ViewInv, PhaseInv, FlagInv, RowInv, RowBacked, ResolvedState,
           Working, Committing, Initializing, Failing
<1>1. CASE OpenStores \/ BeginDuckDB \/ CommitReturns \/ Raise
  BY <1>1 DEF OpenStores, BeginDuckDB, RecoveryRequired, CommitReturns, Raise
<1>2. CASE RecoverStaleRuns
  BY <1>2 DEF RecoverStaleRuns, Reclassified
<1>3. CASE StartRun
  BY <1>3 DEF StartRun
<1>4. CASE BeginSQLite
  BY <1>4 DEF BeginSQLite
<1>5. CASE EnterCommit \/ RecordDuckDBCommit \/ DuckDBCommitRaises
  BY <1>5 DEF EnterCommit, RecordDuckDBCommit, DuckDBCommitRaises
<1>6. CASE CommitDuckDB \/ CommitSQLite
  BY <1>6 DEF CommitDuckDB, CommitSQLite
<1>7. CASE RecordFullCommit \/ FinishRun
  BY <1>7 DEF RecordFullCommit, FinishRun
<1>8. CASE SQLiteCommitRaises
  BY <1>8 DEF SQLiteCommitRaises
<1>9. CASE MarkRecoveryConverged
  BY <1>9 DEF MarkRecoveryConverged
<1>10. CASE HandleFailure
  BY <1>10 DEF HandleFailure, ResolveAndRollBack, ResolvedState,
             MarkRecoveryRequired, RecordFailedState, RecordFailedRun,
             TelemetryNotWritten
<1>11. CASE Teardown \/ Crash
  BY <1>11 DEF Teardown, Crash, Forget
<1>12. CASE UNCHANGED vars
  BY <1>12 DEF vars, ResolvedState
<1>13. QED
  BY <1>1, <1>2, <1>3, <1>4, <1>5, <1>6, <1>7, <1>8, <1>9, <1>10, <1>11, <1>12
     DEF Next, ProcessStep

\* Every durable row stays backed by the stores.
LEMMA RowInvStep == IInv /\ [Next]_vars => RowInv'
<1> SUFFICES ASSUME IInv, [Next]_vars PROVE RowInv'
  OBVIOUS
<1> USE RunsAssumption DEF IInv, TypeOK, stores, flags, memory, Goto, Write, SetStatus,
           SetCommit, Finish, Row, ViewInv, PhaseInv, FlagInv, RowInv, RowBacked, OrderInv,
           PendingInv, InFlight, ResolvedState,
           Working, Committing, Initializing, Failing
<1>1. CASE OpenStores \/ BeginDuckDB \/ CommitReturns \/ Raise
  BY <1>1 DEF OpenStores, BeginDuckDB, RecoveryRequired, CommitReturns, Raise
<1>2. CASE RecoverStaleRuns
  BY <1>2 DEF RecoverStaleRuns, Reclassified
<1>3. CASE StartRun
  <2>1. PICK q \in Runs : /\ view[q].status = "ABSENT"
                          /\ Write([view EXCEPT ![q] =
                                       [status |-> "STARTED", commit |-> "STARTED"]])
                          /\ run' = q
    BY <1>3 DEF StartRun
  <2>2. ~txn /\ view = ledger /\ run = NoRun
    BY <1>3 DEF StartRun
  <2>3. ledger'[q] = [status |-> "STARTED", commit |-> "STARTED"]
    BY <2>1, <2>2
  <2>4. \A r \in Runs \ {q} : ledger'[r] = ledger[r]
    BY <2>1, <2>2
  <2>5. q \notin duckRuns \cup sqlRuns
    BY <2>1, <2>2
  <2>6. UNCHANGED <<duckRuns, sqlRuns, lostMarker>>
    BY <1>3 DEF StartRun
  <2>7. QED
    BY <2>1, <2>2, <2>3, <2>4, <2>5, <2>6
<1>4. CASE BeginSQLite
  BY <1>4 DEF BeginSQLite
<1>5. CASE EnterCommit \/ RecordDuckDBCommit \/ DuckDBCommitRaises
  BY <1>5 DEF EnterCommit, RecordDuckDBCommit, DuckDBCommitRaises
<1>6. CASE CommitDuckDB \/ CommitSQLite
  BY <1>6 DEF CommitDuckDB, CommitSQLite
<1>7. CASE RecordFullCommit \/ FinishRun
  BY <1>7 DEF RecordFullCommit, FinishRun
<1>8. CASE SQLiteCommitRaises
  <2>1. run \in Runs /\ UNCHANGED <<duckRuns, sqlRuns, run, lostMarker>>
    BY <1>8 DEF SQLiteCommitRaises
  <2>2. \/ ledger' = ledger
        \/ ledger' = [ledger EXCEPT ![run].commit = "RECOVERY_REQUIRED"]
    BY <1>8 DEF SQLiteCommitRaises
  <2>3. ledger[run].status \in {"STARTED", "COMMITTING"}
    <3>1. pc \in {"duckdb_recorded", "sqlite_durable"} /\ run # NoRun
      BY <1>8 DEF SQLiteCommitRaises
    <3>2. pc = "duckdb_recorded" => ~sqlCommitted
      OBVIOUS
    <3>3. QED
      BY <3>1, <3>2
  <2>4. CASE ledger' = ledger
    BY <2>1, <2>4
  <2>5. CASE ledger' = [ledger EXCEPT ![run].commit = "RECOVERY_REQUIRED"]
    <3>1. /\ ledger'[run].status = ledger[run].status
          /\ ledger'[run].commit = "RECOVERY_REQUIRED"
      BY <2>1, <2>5
    <3>2. \A r \in Runs \ {run} : ledger'[r] = ledger[r]
      BY <2>1, <2>5
    <3>3. ASSUME NEW r \in Runs PROVE RowBacked(r)'
      <4>1. CASE r = run
        BY <2>1, <2>3, <3>1, <4>1 DEF RowBacked
      <4>2. CASE r # run
        BY <2>1, <3>2, <4>2 DEF RowBacked
      <4>3. QED
        BY <4>1, <4>2
    <3>4. QED
      BY <3>3
  <2>6. QED
    BY <2>2, <2>4, <2>5
<1>9. CASE MarkRecoveryConverged
  <2>1. PICK q \in pending :
           Write(IF view[q].status = "RECOVERY_REQUIRED"
                 THEN [view EXCEPT ![q] = [status |-> "CONVERGED",
                                           commit |-> "CONVERGED"]]
                 ELSE view)
    BY <1>9 DEF MarkRecoveryConverged
  <2>2. /\ UNCHANGED <<duckRuns, sqlRuns, run, lostMarker>>
        /\ ~txn /\ view = ledger
    BY <1>9 DEF MarkRecoveryConverged
  <2>3. run \in duckRuns \cap sqlRuns /\ run > q /\ q \in Runs
    BY <1>9 DEF MarkRecoveryConverged, PendingInv
  <2>4. CASE ledger' = ledger
    BY <2>2, <2>4
  <2>5. CASE ledger' = [ledger EXCEPT ![q] = [status |-> "CONVERGED",
                                              commit |-> "CONVERGED"]]
    <3>1. ledger'[q] = [status |-> "CONVERGED", commit |-> "CONVERGED"]
      BY <2>3, <2>5
    <3>2. \A r \in Runs \ {q} : ledger'[r] = ledger[r]
      BY <2>3, <2>5
    <3>3. QED
      BY <2>2, <2>3, <3>1, <3>2
  <2>6. QED
    BY <2>1, <2>2, <2>4, <2>5
<1>10. CASE HandleFailure
  BY <1>10 DEF HandleFailure, ResolveAndRollBack, ResolvedState,
             MarkRecoveryRequired, RecordFailedState, RecordFailedRun,
             TelemetryNotWritten
<1>11. CASE Teardown \/ Crash
  BY <1>11 DEF Teardown, Crash, Forget
<1>12. CASE UNCHANGED vars
  BY <1>12 DEF vars, ResolvedState
<1>13. QED
  BY <1>1, <1>2, <1>3, <1>4, <1>5, <1>6, <1>7, <1>8, <1>9, <1>10, <1>11, <1>12
     DEF Next, ProcessStep

\* Runs start in order and one at a time.
LEMMA OrderInvStep == IInv /\ [Next]_vars => OrderInv'
<1> SUFFICES ASSUME IInv, [Next]_vars PROVE OrderInv'
  OBVIOUS
<1> USE RunsAssumption DEF IInv, TypeOK, stores, flags, memory, Goto, Write, SetStatus,
           SetCommit, Finish, Row, ViewInv, PhaseInv, FlagInv, RowInv, RowBacked, OrderInv,
           InFlight,
           Working, Committing, Initializing, Failing
<1>1. CASE OpenStores \/ BeginDuckDB \/ CommitReturns \/ Raise
  BY <1>1 DEF OpenStores, BeginDuckDB, RecoveryRequired, CommitReturns, Raise
<1>2. CASE RecoverStaleRuns
  BY <1>2 DEF RecoverStaleRuns, Reclassified
<1>3. CASE StartRun
  BY <1>3 DEF StartRun
<1>4. CASE BeginSQLite
  BY <1>4 DEF BeginSQLite
<1>5. CASE EnterCommit \/ RecordDuckDBCommit \/ DuckDBCommitRaises
  BY <1>5 DEF EnterCommit, RecordDuckDBCommit, DuckDBCommitRaises
<1>6. CASE CommitDuckDB \/ CommitSQLite
  BY <1>6 DEF CommitDuckDB, CommitSQLite
<1>7. CASE RecordFullCommit \/ FinishRun
  BY <1>7 DEF RecordFullCommit, FinishRun
<1>8. CASE SQLiteCommitRaises
  BY <1>8 DEF SQLiteCommitRaises
<1>9. CASE MarkRecoveryConverged
  BY <1>9 DEF MarkRecoveryConverged
<1>10. CASE HandleFailure
  BY <1>10 DEF HandleFailure, ResolveAndRollBack, ResolvedState,
             MarkRecoveryRequired, RecordFailedState, RecordFailedRun,
             TelemetryNotWritten
<1>11. CASE Teardown \/ Crash
  BY <1>11 DEF Teardown, Crash, Forget
<1>12. CASE UNCHANGED vars
  BY <1>12 DEF vars, ResolvedState
<1>13. QED
  BY <1>1, <1>2, <1>3, <1>4, <1>5, <1>6, <1>7, <1>8, <1>9, <1>10, <1>11, <1>12
     DEF Next, ProcessStep

\* No split escapes the list that the run converges.
LEMMA PendingInvStep == IInv /\ [Next]_vars => PendingInv'
<1> SUFFICES ASSUME IInv, [Next]_vars PROVE PendingInv'
  OBVIOUS
<1> USE RunsAssumption DEF IInv, TypeOK, stores, flags, memory, Goto, Write, SetStatus,
           SetCommit, Finish, Row, ViewInv, PhaseInv, FlagInv, RowInv, RowBacked, OrderInv,
           PendingInv, InFlight,
           Working, Committing, Initializing, Failing
<1>1. CASE OpenStores \/ BeginDuckDB \/ CommitReturns \/ Raise
  <2>1. CASE OpenStores
    BY <2>1 DEF OpenStores
  <2>2. CASE BeginDuckDB
    BY <2>2 DEF BeginDuckDB, RecoveryRequired
  <2>3. CASE CommitReturns
    BY <2>3 DEF CommitReturns
  <2>4. CASE Raise
    BY <2>4 DEF Raise
  <2>5. QED
    BY <1>1, <2>1, <2>2, <2>3, <2>4
<1>2. CASE RecoverStaleRuns
  BY <1>2 DEF RecoverStaleRuns, Reclassified
<1>3. CASE StartRun
  BY <1>3 DEF StartRun
<1>4. CASE BeginSQLite
  BY <1>4 DEF BeginSQLite
<1>5. CASE EnterCommit \/ RecordDuckDBCommit \/ DuckDBCommitRaises
  BY <1>5 DEF EnterCommit, RecordDuckDBCommit, DuckDBCommitRaises
<1>6. CASE CommitDuckDB \/ CommitSQLite
  <2>1. CASE CommitDuckDB
    BY <2>1 DEF CommitDuckDB
  <2>2. CASE CommitSQLite
    BY <2>2 DEF CommitSQLite
  <2>3. QED
    BY <1>6, <2>1, <2>2
<1>7. CASE RecordFullCommit \/ FinishRun
  BY <1>7 DEF RecordFullCommit, FinishRun
<1>8. CASE SQLiteCommitRaises
  BY <1>8 DEF SQLiteCommitRaises
<1>9. CASE MarkRecoveryConverged
  BY <1>9 DEF MarkRecoveryConverged
<1>10. CASE HandleFailure
  BY <1>10 DEF HandleFailure, ResolveAndRollBack, ResolvedState,
             MarkRecoveryRequired, RecordFailedState, RecordFailedRun,
             TelemetryNotWritten
<1>11. CASE Teardown \/ Crash
  BY <1>11 DEF Teardown, Crash, Forget
<1>12. CASE UNCHANGED vars
  BY <1>12 DEF vars, ResolvedState
<1>13. QED
  BY <1>1, <1>2, <1>3, <1>4, <1>5, <1>6, <1>7, <1>8, <1>9, <1>10, <1>11, <1>12
     DEF Next, ProcessStep

\* IInv holds of every reachable state.
THEOREM Invariance == Spec => []IInv
<1>1. Init => IInv
  <2> SUFFICES ASSUME Init PROVE IInv
    OBVIOUS
  <2> USE RunsAssumption DEF Init, FreshMemory, NoRow
  <2>1. TypeOK
    BY DEF TypeOK, Row, Status, CommitState, PC
  <2>2. ViewInv /\ FlagInv
    BY DEF ViewInv, FlagInv
  <2>3. PhaseInv
    BY DEF PhaseInv, Working, Committing, Initializing, Failing
  <2>4. RowInv
    BY DEF RowInv, RowBacked
  <2>5. OrderInv /\ PendingInv
    BY DEF OrderInv, PendingInv, InFlight, Committing
  <2>6. QED
    BY <2>1, <2>2, <2>3, <2>4, <2>5 DEF IInv
<1>2. IInv /\ [Next]_vars => IInv'
  BY TypeOKStep, ViewInvStep, FlagInvStep, PhaseInvStep, RowInvStep,
     OrderInvStep, PendingInvStep DEF IInv
<1>3. QED
  BY <1>1, <1>2, PTL DEF Spec

\* Every variable of the lifecycle and of the two stores keeps its type.
THEOREM TypeCorrect == Spec => []TypeOK
BY Invariance, PTL DEF IInv

\* A row never claims more of its run than the two stores hold
\* (commit, finish_run, mark_recovery_required, mark_recovery_converged).
THEOREM ClaimsAreBacked == Spec => []ClaimsBacked
<1>1. IInv => ClaimsBacked
  BY DEF IInv, RowInv, RowBacked, ClaimsBacked
<1>2. QED
  BY <1>1, Invariance, PTL

\* A run durable in DuckDB only is marked, unless its process died between
\* the commits or could not write the marker (handle_failure).
THEOREM SplitsAreMarked == Spec => []SplitIsMarked
<1>1. IInv => SplitIsMarked
  <2> SUFFICES ASSUME IInv, NEW r \in duckRuns \ sqlRuns
               PROVE  \/ r = run
                      \/ r \in lostMarker
                      \/ ledger[r].status \in {"RECOVERY_REQUIRED", "CONVERGED"}
    BY DEF SplitIsMarked
  <2>1. r \in Runs /\ ledger[r].status \in Status
    BY DEF IInv, TypeOK, Row
  <2>2. RowBacked(r)
    BY <2>1 DEF IInv, RowInv
  <2>3. QED
    BY <2>1, <2>2 DEF RowBacked, Status, InFlight
<1>2. QED
  BY <1>1, Invariance, PTL

\* A run that returns from commit() has converged every earlier split.
THEOREM SuccessConverges == Spec => []SuccessLeavesNoSplit
<1>1. IInv => SuccessLeavesNoSplit
  BY DEF IInv, PendingInv, SuccessLeavesNoSplit
<1>2. QED
  BY <1>1, Invariance, PTL

-----------------------------------------------------------------------------
(* Action properties and refinement. *)

\* What HistoryKept asks of one row.
Kept(old, new) ==
    /\ old.status = "RECOVERY_REQUIRED" => new = old \/ new.status = "CONVERGED"
    /\ old.status \in {"CONVERGED", "FAILED"} => new = old
    /\ old.status = "SUCCESS"
          => /\ new.status \in {"SUCCESS", "FAILED"}
             /\ new.commit = "FULLY_COMMITTED"

\* The run that is being worked on has no verdict yet, apart from SUCCESS.
LEMMA OwnRowIsOpen ==
    ASSUME IInv, run # NoRun, pc \in Working \cup Failing
    PROVE  /\ run \in Runs
           /\ ledger[run].status \in {"STARTED", "COMMITTING", "SUCCESS"}
           /\ sqlCommitted \/ ledger[run].status = "STARTED"
           /\ sqlCommitted => ledger[run].status # "STARTED"
BY DEF IInv, TypeOK, PhaseInv

\* No step rewrites a verdict.
LEMMA HistoryStep ==
    ASSUME IInv, Next, NEW r \in Runs
    PROVE  Kept(ledger[r], ledger'[r])
<1> USE DEF Kept, TypeOK, Row
<1>1. TypeOK /\ ViewInv /\ FlagInv /\ PhaseInv /\ RowBacked(r)
  BY DEF IInv, RowInv
<1>2. CASE UNCHANGED ledger
  BY <1>1, <1>2 DEF RowBacked
<1>3. CASE RecoverStaleRuns
  BY <1>1, <1>3 DEF RecoverStaleRuns, Write, ViewInv, Reclassified, InFlight, RowBacked
<1>4. CASE StartRun
  BY <1>1, <1>4 DEF StartRun, Write, ViewInv, RowBacked
<1>5. CASE EnterCommit \/ RecordDuckDBCommit \/ DuckDBCommitRaises
  BY <1>1, <1>2, <1>5 DEF EnterCommit, RecordDuckDBCommit, DuckDBCommitRaises,
     Write, PhaseInv, ViewInv
<1>6. CASE CommitSQLite
  BY <1>1, <1>6, OwnRowIsOpen DEF CommitSQLite, ViewInv, PhaseInv, RowBacked,
     Working, Committing
<1>7. CASE RecordFullCommit \/ FinishRun
  BY <1>1, <1>7 DEF RecordFullCommit, FinishRun, Write, SetCommit, Finish,
     ViewInv, PhaseInv, RowBacked
<1>8. CASE SQLiteCommitRaises
  BY <1>1, <1>8, OwnRowIsOpen DEF SQLiteCommitRaises, Write, SetCommit,
     ViewInv, PhaseInv, RowBacked, Working, Committing
<1>9. CASE MarkRecoveryConverged
  BY <1>1, <1>9 DEF MarkRecoveryConverged, Write, ViewInv, RowBacked
<1>10. CASE MarkRecoveryRequired
  BY <1>1, <1>10, OwnRowIsOpen DEF MarkRecoveryRequired, Write, Finish,
     ViewInv, PhaseInv, ResolvedState, RowBacked, Failing
<1>11. CASE RecordFailedState \/ RecordFailedRun
  <2>1. run # NoRun /\ pc \in Failing /\ commitState = ResolvedState
    BY <1>1, <1>11 DEF RecordFailedState, RecordFailedRun, PhaseInv, Failing
  <2>2. /\ run \in Runs
        /\ ledger[run].status \in {"STARTED", "COMMITTING", "SUCCESS"}
        /\ sqlCommitted \/ ledger[run].status = "STARTED"
    BY <2>1, OwnRowIsOpen
  <2>3. \/ UNCHANGED ledger
        \/ ledger' = [view EXCEPT ![run].commit = commitState] /\ view = ledger
        \/ /\ ledger' = [view EXCEPT ![run] = [status |-> "FAILED",
                                               commit |-> commitState]]
           /\ view = ledger
    BY <1>1, <1>11 DEF RecordFailedState, RecordFailedRun, Write, SetCommit,
       Finish, ViewInv
  <2>4. ledger[run].status = "SUCCESS" => commitState = "FULLY_COMMITTED"
    BY <1>1, <2>1, <2>2 DEF ResolvedState, FlagInv
  <2>5. r # run => ledger'[r] = ledger[r]
    BY <1>1, <2>3
  <2>6. CASE r = run
    BY <1>1, <2>2, <2>3, <2>4, <2>6 DEF RowBacked
  <2>7. QED
    BY <1>1, <2>5, <2>6 DEF RowBacked
<1>12. CASE \/ OpenStores \/ BeginDuckDB \/ BeginSQLite \/ CommitDuckDB
            \/ CommitReturns \/ Raise \/ ResolveAndRollBack
            \/ TelemetryNotWritten \/ Teardown \/ Crash
  BY <1>2, <1>12 DEF OpenStores, BeginDuckDB, BeginSQLite, CommitDuckDB,
     CommitReturns, Raise, ResolveAndRollBack, TelemetryNotWritten, Teardown,
     Crash, Forget, stores
<1>13. QED
  BY <1>3, <1>4, <1>5, <1>6, <1>7, <1>8, <1>9, <1>10, <1>11, <1>12
     DEF Next, ProcessStep, HandleFailure

\* The rows of cp_runs are never rewritten once they carry a verdict
\* (recover_stale_runs, mark_recovery_converged and handle_failure included).
THEOREM HistoryIsKept == Spec => HistoryKept
<1>1. IInv /\ [Next]_vars =>
        [\A r \in Runs :
            LET old == ledger[r]
                new == ledger'[r] IN
            /\ old.status = "RECOVERY_REQUIRED"
                  => new = old \/ new.status = "CONVERGED"
            /\ old.status \in {"CONVERGED", "FAILED"} => new = old
            /\ old.status = "SUCCESS"
                  => /\ new.status \in {"SUCCESS", "FAILED"}
                     /\ new.commit = "FULLY_COMMITTED"]_vars
  BY HistoryStep DEF Kept
<1>2. QED
  BY <1>1, Invariance, PTL DEF Spec, HistoryKept

\* A step that changes no claim and neither store is none of the history.
LEMMA HistoryStutters ==
    ASSUME UNCHANGED <<duckRuns, sqlRuns, lostMarker>>,
           \A r \in Runs : Claim(ledger'[r]) = Claim(ledger[r])
    PROVE  UNCHANGED History!vars
BY DEF History!vars

\* A write to one row changes the claim about that run only.
LEMMA OneClaim ==
    ASSUME NEW r \in Runs, NEW row, ledger \in [Runs -> Row],
           ledger' = [ledger EXCEPT ![r] = row]
    PROVE  [q \in Runs |-> Claim(ledger'[q])]
              = [[q \in Runs |-> Claim(ledger[q])] EXCEPT ![r] = Claim(row)]
OBVIOUS

\* A verdict written about an open run is a Verdict of the history.
LEMMA VerdictStep ==
    ASSUME NEW r \in Runs, NEW row, TypeOK,
           UNCHANGED <<duckRuns, sqlRuns, lostMarker>>,
           ledger' = [ledger EXCEPT ![r] = row],
           Claim(ledger[r]) = "open",
           \/ Claim(row) = "undone" /\ History!Undone(r)
           \/ Claim(row) = "done" /\ r \in duckRuns \cap sqlRuns
           \/ Claim(row) = "split" /\ r \in duckRuns
    PROVE  History!Next
<1>1. History!Verdict(r, Claim(row))
  BY OneClaim DEF History!Verdict, TypeOK
<1>2. Claim(row) \in History!Claims
  BY DEF History!Claims
<1>3. QED
  BY <1>1, <1>2 DEF History!Next

\* The loss of the marker of the current run is a Lose of the history.
LEMMA LoseStep ==
    ASSUME IInv, run # NoRun, pc \in Working \cup Failing,
           UNCHANGED <<ledger, duckRuns, sqlRuns>>,
           lostMarker' = lostMarker \cup {run},
           duckCommitted, ~sqlCommitted
    PROVE  History!Next
<1>1. run \in Runs /\ ledger[run].status = "STARTED"
  BY OwnRowIsOpen
<1>2. run \in duckRuns \ sqlRuns
  BY DEF IInv, FlagInv
<1>3. History!Lose(run)
  BY <1>1, <1>2 DEF History!Lose, Claim, InFlight
<1>4. QED
  BY <1>1, <1>3 DEF History!Next

\* Every step of the lifecycle is a step of the history, or none.
LEMMA RefinementStep ==
    ASSUME IInv, Next
    PROVE  [History!Next]_(History!vars)
<1>1. TypeOK /\ ViewInv /\ FlagInv /\ PhaseInv /\ RowInv /\ OrderInv /\ PendingInv
  BY DEF IInv
<1>2. CASE UNCHANGED <<ledger, duckRuns, sqlRuns, lostMarker>>
  BY <1>2, HistoryStutters
<1>3. CASE RecoverStaleRuns
  <2>1. /\ ledger' = [r \in Runs |-> Reclassified(ledger[r])]
        /\ run = NoRun
        /\ UNCHANGED <<duckRuns, sqlRuns, lostMarker>>
    BY <1>1, <1>3 DEF RecoverStaleRuns, Write, ViewInv, PhaseInv
  <2>2. CASE \A r \in Runs : ledger[r].status \notin InFlight
    BY <2>1, <2>2, HistoryStutters DEF Reclassified
  <2>3. ASSUME NEW r \in Runs, ledger[r].status \in InFlight
        PROVE  History!Next
    <3>1. \A q \in Runs \ {r} : ledger[q].status \notin InFlight
      BY <1>1, <2>3 DEF OrderInv
    <3>2. ledger' = [ledger EXCEPT ![r] = Reclassified(ledger[r])]
      BY <1>1, <2>1, <3>1 DEF TypeOK, Reclassified
    <3>3. Claim(ledger[r]) = "open"
      BY <2>3 DEF Claim, InFlight
    <3>4. RowBacked(r)
      BY <1>1 DEF RowInv
    <3>5. r # run
      BY <2>1, RunsAssumption
    <3>6. CASE ledger[r].status = "COMMITTING"
      <4>1. Claim(Reclassified(ledger[r])) = "split" /\ r \in duckRuns
        BY <3>4, <3>6 DEF Reclassified, Claim, InFlight, RowBacked
      <4>2. QED
        BY <1>1, <2>1, <3>2, <3>3, <4>1, VerdictStep
    <3>7. CASE ledger[r].status = "STARTED"
      <4>1. Claim(Reclassified(ledger[r])) = "undone"
        BY <3>7 DEF Reclassified, Claim, InFlight
      <4>2. History!Undone(r)
        BY <3>4, <3>5, <3>7 DEF RowBacked, History!Undone
      <4>3. QED
        BY <1>1, <2>1, <3>2, <3>3, <4>1, <4>2, VerdictStep
    <3>8. QED
      BY <2>3, <3>4, <3>6, <3>7 DEF RowBacked, InFlight
  <2>4. QED
    BY <2>2, <2>3
<1>4. CASE StartRun
  <2>1. PICK r \in Runs :
          /\ view[r].status = "ABSENT"
          /\ Write([view EXCEPT ![r] =
                       [status |-> "STARTED", commit |-> "STARTED"]])
    BY <1>4 DEF StartRun
  <2>2. /\ ledger[r].status = "ABSENT"
        /\ ledger' = [ledger EXCEPT ![r] =
                         [status |-> "STARTED", commit |-> "STARTED"]]
        /\ UNCHANGED <<duckRuns, sqlRuns, lostMarker>>
    BY <1>1, <1>4, <2>1 DEF StartRun, Write, ViewInv, PhaseInv
  <2>3. Claim([status |-> "STARTED", commit |-> "STARTED"]) = "open"
    BY DEF Claim, InFlight
  <2>4. History!Open(r)
    BY <1>1, <2>2, <2>3, OneClaim DEF History!Open, TypeOK, Claim, InFlight
  <2>5. QED
    BY <2>4 DEF History!Next
<1>5. CASE CommitDuckDB
  <2>1. run \in Runs /\ ledger[run].status \in {"STARTED", "COMMITTING"}
    BY <1>1, <1>5, OwnRowIsOpen
       DEF CommitDuckDB, PhaseInv, ViewInv, Working, Committing
  <2>2. History!CommitFirst(run)
    BY <1>5, <2>1 DEF CommitDuckDB, History!CommitFirst, Claim, InFlight
  <2>3. QED
    BY <2>1, <2>2 DEF History!Next
<1>6. CASE CommitSQLite
  <2>1. /\ run \in Runs /\ run \in duckRuns
        /\ ledger[run].status = "STARTED"
        /\ view[run].status = "COMMITTING"
        /\ \A r \in Runs \ {run} : view[r] = ledger[r]
    BY <1>1, <1>6, OwnRowIsOpen
       DEF CommitSQLite, PhaseInv, FlagInv, ViewInv, Working, Committing
  <2>2. \A r \in Runs : Claim(ledger'[r]) = Claim(ledger[r])
    BY <1>6, <2>1 DEF CommitSQLite, Claim, InFlight
  <2>3. Claim(ledger[run]) = "open"
    BY <2>1 DEF Claim, InFlight
  <2>4. History!CommitSecond(run)
    BY <1>6, <2>1, <2>2, <2>3 DEF CommitSQLite, History!CommitSecond
  <2>5. QED
    BY <2>1, <2>4 DEF History!Next
<1>7. CASE RecordFullCommit \/ SQLiteCommitRaises
  <2>1. run \in Runs /\ ledger[run].status \in {"STARTED", "COMMITTING"}
    BY <1>1, <1>7, OwnRowIsOpen DEF RecordFullCommit, SQLiteCommitRaises,
       PhaseInv, ViewInv, Working, Committing
  <2>2. \/ UNCHANGED ledger
        \/ \E c \in CommitState : ledger' = [ledger EXCEPT ![run].commit = c]
    BY <1>1, <1>7 DEF RecordFullCommit, SQLiteCommitRaises, Write, SetCommit,
       ViewInv, CommitState
  <2>3. \A r \in Runs : Claim(ledger'[r]) = Claim(ledger[r])
    BY <1>1, <2>1, <2>2 DEF TypeOK, Row, Claim, InFlight
  <2>4. QED
    BY <1>7, <2>3, HistoryStutters DEF RecordFullCommit, SQLiteCommitRaises
<1>8. CASE FinishRun
  <2>1. /\ run \in Runs /\ run \in duckRuns \cap sqlRuns
        /\ ledger[run].status = "COMMITTING" /\ view = ledger /\ ~txn
    BY <1>1, <1>8 DEF FinishRun, TypeOK, PhaseInv, FlagInv, ViewInv, Working,
       Committing
  <2>2. ledger' = [ledger EXCEPT ![run] =
                      [status |-> "SUCCESS", commit |-> "FULLY_COMMITTED"]]
    BY <1>8, <2>1 DEF FinishRun, Write, Finish
  <2>3. /\ Claim(ledger[run]) = "open"
        /\ Claim([status |-> "SUCCESS", commit |-> "FULLY_COMMITTED"]) = "done"
    BY <2>1 DEF Claim, InFlight
  <2>4. UNCHANGED <<duckRuns, sqlRuns, lostMarker>>
    BY <1>8 DEF FinishRun
  <2>5. QED
    BY <1>1, <2>1, <2>2, <2>3, <2>4, VerdictStep
<1>9. CASE MarkRecoveryConverged
  <2>1. PICK r \in pending :
          Write(IF view[r].status = "RECOVERY_REQUIRED"
                THEN [view EXCEPT ![r] = [status |-> "CONVERGED",
                                          commit |-> "CONVERGED"]]
                ELSE view)
    BY <1>9 DEF MarkRecoveryConverged
  <2>2. /\ UNCHANGED <<duckRuns, sqlRuns, lostMarker>>
        /\ view = ledger /\ r \in Runs
        /\ run \in duckRuns \cap sqlRuns /\ run > r
    BY <1>1, <1>9 DEF MarkRecoveryConverged, TypeOK, PhaseInv, FlagInv,
       ViewInv, PendingInv
  <2>3. CASE ledger[r].status # "RECOVERY_REQUIRED"
    BY <1>2, <1>9, <2>1, <2>2, <2>3 DEF MarkRecoveryConverged, Write
  <2>4. CASE ledger[r].status = "RECOVERY_REQUIRED"
    <3>1. ledger' = [ledger EXCEPT ![r] = [status |-> "CONVERGED",
                                           commit |-> "CONVERGED"]]
      BY <1>1, <1>9, <2>1, <2>2, <2>4
         DEF MarkRecoveryConverged, Write, ViewInv, PhaseInv
    <3>2. /\ Claim(ledger[r]) = "split"
          /\ Claim([status |-> "CONVERGED", commit |-> "CONVERGED"]) = "resolved"
      BY <2>4 DEF Claim, InFlight
    <3>3. History!Resolve(r)
      BY <1>1, <2>2, <3>1, <3>2, OneClaim DEF TypeOK, History!Resolve
    <3>4. QED
      BY <2>2, <3>3 DEF History!Next
  <2>5. QED
    BY <2>3, <2>4
<1>10. CASE MarkRecoveryRequired
  <2>1. /\ run \in Runs /\ ledger[run].status = "STARTED"
        /\ duckCommitted /\ ~sqlCommitted /\ run \in duckRuns
        /\ pc \in Failing /\ run # NoRun
    BY <1>1, <1>10, OwnRowIsOpen
       DEF MarkRecoveryRequired, PhaseInv, FlagInv, ResolvedState, Failing
  <2>2. CASE txn
    BY <1>10, <2>1, <2>2, LoseStep DEF MarkRecoveryRequired, Write
  <2>3. CASE ~txn
    <3>1. ledger' = [ledger EXCEPT ![run] = [status |-> "RECOVERY_REQUIRED",
                                             commit |-> "RECOVERY_REQUIRED"]]
      BY <1>1, <1>10, <2>3 DEF MarkRecoveryRequired, Write, Finish, ViewInv
    <3>2. /\ Claim(ledger[run]) = "open"
          /\ Claim([status |-> "RECOVERY_REQUIRED",
                    commit |-> "RECOVERY_REQUIRED"]) = "split"
      BY <2>1 DEF Claim, InFlight
    <3>3. UNCHANGED <<duckRuns, sqlRuns, lostMarker>>
      BY <1>10, <2>3 DEF MarkRecoveryRequired
    <3>4. QED
      BY <1>1, <2>1, <3>1, <3>2, <3>3, VerdictStep
  <2>4. QED
    BY <2>2, <2>3
<1>11. CASE RecordFailedState
  <2>1. /\ run \in Runs
        /\ ledger[run].status \in {"STARTED", "COMMITTING", "SUCCESS"}
    BY <1>1, <1>11, OwnRowIsOpen DEF RecordFailedState, Failing
  <2>2. \/ UNCHANGED ledger
        \/ ledger' = [ledger EXCEPT ![run].commit = commitState]
    BY <1>1, <1>11 DEF RecordFailedState, Write, SetCommit, ViewInv
  <2>3. \A r \in Runs : Claim(ledger'[r]) = Claim(ledger[r])
    BY <1>1, <2>1, <2>2 DEF TypeOK, Row, Claim, InFlight
  <2>4. QED
    BY <1>11, <2>3, HistoryStutters DEF RecordFailedState
<1>12. CASE RecordFailedRun
  <2>1. /\ run \in Runs /\ pc \in Failing /\ run # NoRun
        /\ ledger[run].status \in {"STARTED", "COMMITTING", "SUCCESS"}
        /\ sqlCommitted \/ ledger[run].status = "STARTED"
        /\ UNCHANGED <<duckRuns, sqlRuns, lostMarker>>
    BY <1>1, <1>12, OwnRowIsOpen DEF RecordFailedRun, PhaseInv, Failing
  <2>2. \/ UNCHANGED ledger
        \/ ledger' = [ledger EXCEPT ![run] = [status |-> "FAILED",
                                              commit |-> commitState]]
    BY <1>1, <1>12 DEF RecordFailedRun, Write, Finish, ViewInv
  <2>3. \/ /\ commitState = "ROLLED_BACK"
           /\ run \notin duckRuns \cup sqlRuns
        \/ /\ commitState = "FULLY_COMMITTED"
           /\ run \in duckRuns \cap sqlRuns
    BY <1>1, <1>12 DEF RecordFailedRun, PhaseInv, FlagInv, ResolvedState, TypeOK
  <2>4. /\ Claim([status |-> "FAILED", commit |-> "ROLLED_BACK"]) = "undone"
        /\ Claim([status |-> "FAILED", commit |-> "FULLY_COMMITTED"]) = "done"
        /\ Claim(ledger[run]) =
              IF ledger[run].status = "SUCCESS" THEN "done" ELSE "open"
    BY <2>1 DEF Claim, InFlight
  <2>5. CASE UNCHANGED ledger
    BY <1>2, <2>1, <2>5
  <2>6. CASE /\ ledger' = [ledger EXCEPT ![run] = [status |-> "FAILED",
                                                   commit |-> commitState]]
             /\ ledger[run].status = "SUCCESS"
    <3>1. commitState = "FULLY_COMMITTED"
      BY <1>1, <2>1, <2>3, <2>6 DEF FlagInv, TypeOK
    <3>2. \A r \in Runs : Claim(ledger'[r]) = Claim(ledger[r])
      BY <1>1, <2>1, <2>4, <2>6, <3>1 DEF TypeOK
    <3>3. QED
      BY <2>1, <3>2, HistoryStutters
  <2>7. CASE /\ ledger' = [ledger EXCEPT ![run] = [status |-> "FAILED",
                                                   commit |-> commitState]]
             /\ ledger[run].status # "SUCCESS"
    <3>1. CASE commitState = "ROLLED_BACK"
      BY <1>1, <2>1, <2>3, <2>4, <2>7, <3>1, VerdictStep DEF History!Undone
    <3>2. CASE commitState = "FULLY_COMMITTED"
      BY <1>1, <2>1, <2>3, <2>4, <2>7, <3>2, VerdictStep
    <3>3. QED
      BY <2>3, <3>1, <3>2
  <2>8. QED
    BY <2>2, <2>5, <2>6, <2>7
<1>13. CASE TelemetryNotWritten
  <2>1. CASE run # NoRun /\ commitState = "RECOVERY_REQUIRED"
    <3>1. duckCommitted /\ ~sqlCommitted /\ pc \in Failing
      BY <1>1, <1>13, <2>1
         DEF TelemetryNotWritten, PhaseInv, ResolvedState, Failing
    <3>2. QED
      BY <1>13, <2>1, <3>1, LoseStep DEF TelemetryNotWritten, stores
  <2>2. CASE ~(run # NoRun /\ commitState = "RECOVERY_REQUIRED")
    BY <1>2, <1>13, <2>2 DEF TelemetryNotWritten, stores
  <2>3. QED
    BY <2>1, <2>2
<1>14. CASE Crash
  <2>1. CASE duckCommitted /\ ~sqlCommitted /\ pc # "closing"
    <3>1. run # NoRun /\ pc \in Working \cup Failing
      BY <1>1, <1>14, <2>1, RunsAssumption
         DEF Crash, TypeOK, FlagInv, PhaseInv, PC
    <3>2. QED
      BY <1>14, <2>1, <3>1, LoseStep DEF Crash, Forget
  <2>2. CASE ~(duckCommitted /\ ~sqlCommitted /\ pc # "closing")
    BY <1>2, <1>14, <2>2 DEF Crash, Forget
  <2>3. QED
    BY <2>1, <2>2
<1>15. CASE EnterCommit \/ RecordDuckDBCommit \/ DuckDBCommitRaises
  BY <1>1, <1>2, <1>15 DEF EnterCommit, RecordDuckDBCommit, DuckDBCommitRaises,
     Write, PhaseInv
<1>16. CASE \/ OpenStores \/ BeginDuckDB \/ BeginSQLite \/ CommitReturns
            \/ Raise \/ ResolveAndRollBack \/ Teardown
  BY <1>2, <1>16 DEF OpenStores, BeginDuckDB, BeginSQLite, CommitReturns,
     Raise, ResolveAndRollBack, Teardown, Forget, stores
<1>17. QED
  BY <1>3, <1>4, <1>5, <1>6, <1>7, <1>8, <1>9, <1>10, <1>11, <1>12, <1>13,
     <1>14, <1>15, <1>16 DEF Next, ProcessStep, HandleFailure

\* The run lifecycle implements OrderedCommit: every step the coordinator
\* takes on cp_runs is one the ordered commit of two stores allows.
THEOREM RunCommitImplementsHistory == Spec => RunHistoryTruthful
<1>1. Init => History!Init
  BY DEF Init, History!Init, NoRow, Claim, InFlight
<1>2. IInv /\ [Next]_vars => [History!Next]_(History!vars)
  <2>1. IInv /\ UNCHANGED vars => UNCHANGED History!vars
    BY HistoryStutters DEF vars, stores
  <2>2. QED
    BY <2>1, RefinementStep
<1>3. QED
  BY <1>1, <1>2, Invariance, PTL DEF Spec, RunHistoryTruthful, History!Spec

-----------------------------------------------------------------------------
(* ExecutionPlan: induction over numbers.                                   *)

LEMMA EveryNumber ==
  ASSUME NEW S, 0 \in S, \A n \in Nat : n \in S => n + 1 \in S
  PROVE  Nat \subseteq S
<1> SUFFICES ASSUME Nat \ S # {} PROVE FALSE  OBVIOUS
<1> DEFINE Missing == Nat \ S
<1>1. PICK m \in Missing : \A n \in Missing : ~ (<<n, m>> \in OpToRel(<, Nat))
  <2>1. Missing \subseteq Nat /\ Missing # {}  OBVIOUS
  <2> HIDE DEF Missing
  <2> QED  BY <2>1, NatLessThanWellFounded, WFMin, Zenon
<1>2. m \in Nat /\ m # 0  BY <1>1
<1>3. m - 1 \in Nat /\ m - 1 < m  BY <1>2
<1>4. m - 1 \in S
  <2>1. m - 1 \notin Missing  BY <1>1, <1>3, <1>2 DEF OpToRel
  <2> QED  BY <2>1, <1>3
<1>5. (m - 1) + 1 = m  BY <1>2
<1>6. m \in S  BY <1>3, <1>4, <1>5
<1> QED  BY <1>1, <1>6

-----------------------------------------------------------------------------
(* The plan: the closure of a request.                                      *)

GraphClosed == \A c \in Capabilities : Registry[c].requires \subseteq Capabilities

Closed(S) == Requires(S) \subseteq S

\* More capabilities require more.
LEMMA RequiresIn ==
  ASSUME NEW S, NEW T, S \subseteq T PROVE Requires(S) \subseteq Requires(T)
  BY DEF Requires

\* What capabilities require are capabilities.
LEMMA RequiresCapabilities ==
  ASSUME GraphClosed, NEW S \in SUBSET Capabilities PROVE Requires(S) \in SUBSET Capabilities
  BY DEF Requires, GraphClosed

Iterated(g, f, a, D, N) ==
  g \in [0..N -> D] /\ g[0] = a /\ \A n \in 1..N : g[n] = f[g[n - 1]]

\* A function applied again and again: the values exist.
LEMMA Iterates ==
  ASSUME NEW D, NEW f \in [D -> D], NEW a \in D, NEW N \in Nat
  PROVE  \E g : Iterated(g, f, a, D, N)
<1> DEFINE P == {m \in Nat : \E g \in [0..m -> D] : g[0] = a /\ \A n \in 1..m : g[n] = f[g[n - 1]]}
<1>1. 0 \in P
  <2> DEFINE g == [n \in 0..0 |-> a]
  <2>1. g \in [0..0 -> D] /\ g[0] = a /\ \A n \in 1..0 : g[n] = f[g[n - 1]]  OBVIOUS
  <2> HIDE DEF g
  <2> QED  BY <2>1
<1>2. ASSUME NEW m \in Nat, m \in P PROVE m + 1 \in P
  <2>1. PICK g \in [0..m -> D] : g[0] = a /\ \A n \in 1..m : g[n] = f[g[n - 1]]  BY <1>2
  <2> DEFINE h == [n \in 0..(m + 1) |-> IF n \in 0..m THEN g[n] ELSE f[g[m]]]
  <2>2. h \in [0..(m + 1) -> D]  BY <2>1
  <2>3. h[0] = a  BY <2>1
  <2>4. ASSUME NEW n \in 1..(m + 1) PROVE h[n] = f[h[n - 1]]
    <3>1. n - 1 \in 0..m /\ h[n - 1] = g[n - 1]  OBVIOUS
    <3>2. CASE n \in 1..m  BY <3>1, <3>2, <2>1
    <3>3. CASE n = m + 1  BY <3>1, <3>3
    <3> QED  BY <3>2, <3>3
  <2> HIDE DEF h
  <2> QED  BY <2>2, <2>3, <2>4
<1>3. Nat \subseteq P
  <2> HIDE DEF P
  <2> QED  BY <1>1, <1>2, EveryNumber
<1>4. \E g \in [0..N -> D] : g[0] = a /\ \A n \in 1..N : g[n] = f[g[n - 1]]
  BY <1>3
<1> QED  BY <1>4 DEF Iterated

GrowthOf(set, N) ==
  CHOOSE grow : grow = [n \in 0..N |->
    IF n = 0 THEN set ELSE LET found == grow[n - 1] IN found \cup Requires(found)]

\* The closure is the last turn of a growth.
LEMMA ClosureGrows ==
  ASSUME NEW set
  PROVE  Closure(set) = GrowthOf(set, Cardinality(Capabilities))[Cardinality(Capabilities)]
  BY DEF Closure, GrowthOf

\* The growth satisfies its equation.
LEMMA GrowthIs ==
  ASSUME GraphClosed, NEW set \in SUBSET Capabilities, NEW N \in Nat
  PROVE  /\ GrowthOf(set, N) \in [0..N -> SUBSET Capabilities]
         /\ GrowthOf(set, N)[0] = set
         /\ \A n \in 1..N : GrowthOf(set, N)[n]
               = GrowthOf(set, N)[n - 1] \cup Requires(GrowthOf(set, N)[n - 1])
<1> DEFINE D == SUBSET Capabilities
           f == [S \in D |-> S \cup Requires(S)]
<1>1. f \in [D -> D]
  <2>1. \A S \in D : S \cup Requires(S) \in D  BY RequiresCapabilities
  <2> QED  BY <2>1
<1>2. PICK g \in [0..N -> D] : g[0] = set /\ \A n \in 1..N : g[n] = f[g[n - 1]]
  <2> HIDE DEF D, f
  <2>1. set \in D  BY DEF D
  <2>2. \E g : Iterated(g, f, set, D, N)  BY <1>1, <2>1, Iterates
  <2> QED  BY <2>2 DEF Iterated
<1>3. \A n \in 1..N : g[n] = g[n - 1] \cup Requires(g[n - 1])
  <2> TAKE n \in 1..N
  <2>1. n - 1 \in 0..N /\ g[n - 1] \in D  BY <1>2
  <2> QED  BY <1>2, <2>1
<1> DEFINE body(h) == [n \in 0..N |->
              IF n = 0 THEN set ELSE LET found == h[n - 1] IN found \cup Requires(found)]
<1>4. g = body(g)
  <2>1. \A n \in 0..N : g[n] = IF n = 0 THEN set ELSE g[n - 1] \cup Requires(g[n - 1])
    BY <1>2, <1>3
  <2>2. g = [n \in 0..N |-> g[n]]  BY <1>2
  <2> QED  BY <2>1, <2>2
<1>5. GrowthOf(set, N) = body(GrowthOf(set, N))
  <2>1. \E h : h = body(h)  BY <1>4
  <2> QED  BY <2>1 DEF GrowthOf
<1> DEFINE G == GrowthOf(set, N)
<1>6. G = [n \in 0..N |-> G[n]] /\ G[0] = set /\ \A n \in 1..N : G[n] = G[n - 1] \cup Requires(G[n - 1])
  <2> HIDE DEF G
  <2>1. G = body(G)  BY <1>5 DEF G
  <2>2. \A n \in 0..N : G[n] = IF n = 0 THEN set ELSE G[n - 1] \cup Requires(G[n - 1])
    BY <2>1
  <2>3. G = [n \in 0..N |-> G[n]]  BY <2>1
  <2>4. 0 \in 0..N /\ 1..N \subseteq 0..N /\ 0 \notin 1..N  OBVIOUS
  <2>5. G[0] = set  BY <2>2, <2>4
  <2>6. \A n \in 1..N : G[n] = G[n - 1] \cup Requires(G[n - 1])
    <3> TAKE n \in 1..N
    <3>1. n \in 0..N /\ n # 0  BY <2>4
    <3> QED  BY <2>2, <3>1
  <2> QED  BY <2>3, <2>5, <2>6
<1>7. \A n \in 0..N : G[n] \in D
  <2> DEFINE P == {n \in Nat : n \in 0..N => G[n] \in D}
  <2>1. 0 \in P  BY <1>6
  <2>2. ASSUME NEW n \in Nat, n \in P PROVE n + 1 \in P
    <3> SUFFICES ASSUME n + 1 \in 0..N PROVE G[n + 1] \in D  OBVIOUS
    <3> HIDE DEF G
    <3>1. n \in 0..N /\ n + 1 \in 1..N /\ (n + 1) - 1 = n  OBVIOUS
    <3>2. G[n] \in D  BY <2>2, <3>1
    <3>3. G[n + 1] = G[n] \cup Requires(G[n])  BY <1>6, <3>1
    <3> QED  BY <3>2, <3>3, RequiresCapabilities
  <2>3. Nat \subseteq P
    <3> HIDE DEF P
    <3> QED  BY <2>1, <2>2, EveryNumber
  <2> QED  BY <2>3
<1> QED
  <2> HIDE DEF G, D
  <2> SUFFICES G \in [0..N -> D]  BY <1>6 DEF G, D
  <2> QED  BY <1>6, <1>7

\* collect_deps reaches a fixpoint: each round adds a capability or is the last.
LEMMA ClosureIsLeast ==
  ASSUME GraphClosed, IsFiniteSet(Capabilities), NEW set \in SUBSET Capabilities
  PROVE  /\ Closure(set) \in SUBSET Capabilities /\ set \subseteq Closure(set)
         /\ Closed(Closure(set))
         /\ \A S : set \subseteq S /\ Closed(S) => Closure(set) \subseteq S
<1> DEFINE N == Cardinality(Capabilities)
           G == GrowthOf(set, N)
<1>1. N \in Nat  BY FS_CardinalityType
<1>2. /\ G \in [0..N -> SUBSET Capabilities] /\ G[0] = set
      /\ \A n \in 1..N : G[n] = G[n - 1] \cup Requires(G[n - 1])
  BY <1>1, GrowthIs
<1>3. Closure(set) = G[N]  BY ClosureGrows
<1> HIDE DEF G
<1>4. ASSUME NEW n \in Nat, n + 1 \in 0..N
      PROVE  n \in 0..N /\ G[n + 1] = G[n] \cup Requires(G[n]) /\ G[n] \in SUBSET Capabilities
  <2>1. n \in 0..N /\ n + 1 \in 1..N /\ (n + 1) - 1 = n  BY <1>1, <1>4
  <2> QED  BY <1>2, <2>1
<1>5. set \subseteq G[N]
  <2> DEFINE P == {n \in Nat : n \in 0..N => set \subseteq G[n]}
  <2>1. 0 \in P  BY <1>2
  <2>2. \A n \in Nat : n \in P => n + 1 \in P  BY <1>4
  <2>3. Nat \subseteq P
    <3> HIDE DEF P
    <3> QED  BY <2>1, <2>2, EveryNumber
  <2> QED  BY <1>1, <2>3
<1>6. ASSUME NEW S, set \subseteq S, Closed(S) PROVE G[N] \subseteq S
  <2> DEFINE P == {n \in Nat : n \in 0..N => G[n] \subseteq S}
  <2>1. 0 \in P  BY <1>2, <1>6
  <2>2. ASSUME NEW n \in Nat, n \in P PROVE n + 1 \in P
    <3> SUFFICES ASSUME n + 1 \in 0..N PROVE G[n + 1] \subseteq S  OBVIOUS
    <3>1. G[n] \subseteq S /\ G[n + 1] = G[n] \cup Requires(G[n])  BY <2>2, <1>4
    <3>2. Requires(G[n]) \subseteq Requires(S)  BY <3>1, RequiresIn
    <3> QED  BY <3>1, <3>2, <1>6 DEF Closed
  <2>3. Nat \subseteq P
    <3> HIDE DEF P
    <3> QED  BY <2>1, <2>2, EveryNumber
  <2> QED  BY <1>1, <2>3
<1>7. \A S \in SUBSET Capabilities : IsFiniteSet(S) /\ Cardinality(S) \in Nat
  BY FS_Subset, FS_CardinalityType
<1>8. Closed(G[N])
  <2> DEFINE P == {n \in Nat : n \in 0..N => Closed(G[n]) \/ Cardinality(G[n]) >= n}
  <2>1. 0 \in P
    <3>1. Cardinality(G[0]) \in Nat  BY <1>1, <1>2, <1>7
    <3> QED  BY <3>1
  <2>2. ASSUME NEW n \in Nat, n \in P PROVE n + 1 \in P
    <3> SUFFICES ASSUME n + 1 \in 0..N
                 PROVE  Closed(G[n + 1]) \/ Cardinality(G[n + 1]) >= n + 1
      OBVIOUS
    <3>1. n \in 0..N /\ G[n + 1] = G[n] \cup Requires(G[n]) /\ G[n] \in SUBSET Capabilities
      BY <1>4
    <3>2. CASE Closed(G[n])
      <4>1. G[n + 1] = G[n]  BY <3>1, <3>2 DEF Closed
      <4> QED  BY <3>2, <4>1
    <3>3. CASE ~ Closed(G[n])
      <4>1. G[n] \subseteq G[n + 1] /\ G[n] # G[n + 1]  BY <3>1, <3>3 DEF Closed
      <4>2. G[n + 1] \in SUBSET Capabilities  BY <1>2
      <4>3. IsFiniteSet(G[n + 1]) /\ Cardinality(G[n + 1]) \in Nat /\ Cardinality(G[n]) \in Nat
        BY <1>7, <3>1, <4>2
      <4>4. Cardinality(G[n]) <= Cardinality(G[n + 1]) /\ Cardinality(G[n]) # Cardinality(G[n + 1])
        BY <4>1, <4>3, FS_Subset
      <4>5. Cardinality(G[n]) >= n  BY <2>2, <3>1, <3>3
      <4> QED  BY <4>3, <4>4, <4>5
    <3> QED  BY <3>2, <3>3
  <2>3. Nat \subseteq P
    <3> HIDE DEF P
    <3> QED  BY <2>1, <2>2, EveryNumber
  <2>4. Closed(G[N]) \/ Cardinality(G[N]) >= N  BY <1>1, <2>3
  <2>5. CASE Cardinality(G[N]) >= N
    <3>1. G[N] \in SUBSET Capabilities  BY <1>1, <1>2
    <3>2. Cardinality(G[N]) <= N /\ Cardinality(G[N]) \in Nat  BY <3>1, <1>7, FS_Subset
    <3>3. Cardinality(G[N]) = N  BY <1>1, <3>2, <2>5
    <3>4. G[N] = Capabilities  BY <3>1, <3>3, FS_Subset
    <3> QED  BY <3>4, RequiresCapabilities DEF Closed
  <2> QED  BY <2>4, <2>5
<1>9. G[N] \in SUBSET Capabilities  BY <1>1, <1>2
<1> QED  BY <1>3, <1>5, <1>6, <1>8, <1>9

-----------------------------------------------------------------------------
(* The order of the capabilities.                                           *)

Acyclic == \A c \in Capabilities : c \notin Closure(Registry[c].requires)

LeastOf(S) == CHOOSE m \in S : \A n \in S : m <= n

\* The least of a set of numbers is one of them.
LEMMA LeastOfAll ==
  ASSUME NEW S \in SUBSET Nat, S # {}
  PROVE  LeastOf(S) \in S /\ \A n \in S : LeastOf(S) <= n
<1>1. PICK m \in S : \A n \in S : ~ (<<n, m>> \in OpToRel(<, Nat))
  BY NatLessThanWellFounded, WFMin, Zenon
<1>2. \A n \in S : m <= n
  <2> TAKE n \in S
  <2>1. m \in Nat /\ n \in Nat  OBVIOUS
  <2>2. ~ (n < m)  BY <1>1, <2>1 DEF OpToRel
  <2> QED  BY <2>1, <2>2
<1>3. \E x \in S : \A y \in S : x <= y  BY <1>2
<1> QED  BY <1>3 DEF LeastOf

\* Of the capabilities that are left one needs none of the others: the one
\* with the smallest closure.
LEMMA OneIsReady ==
  ASSUME GraphClosed, IsFiniteSet(Capabilities), Acyclic,
         NEW R \in SUBSET Capabilities, R # {}
  PROVE  \E c \in R : Registry[c].requires \cap R = {}
<1> DEFINE K(c) == Closure(Registry[c].requires)
           Sizes == {Cardinality(K(c)) : c \in R}
<1>1. \A c \in Capabilities : /\ Registry[c].requires \in SUBSET Capabilities
                              /\ K(c) \in SUBSET Capabilities
                              /\ Registry[c].requires \subseteq K(c) /\ Closed(K(c))
  <2> TAKE c \in Capabilities
  <2>1. Registry[c].requires \in SUBSET Capabilities  BY DEF GraphClosed
  <2> QED  BY <2>1, ClosureIsLeast
<1>2. \A S \in SUBSET Capabilities : IsFiniteSet(S) /\ Cardinality(S) \in Nat
  BY FS_Subset, FS_CardinalityType
<1> HIDE DEF K
<1>3. Sizes \in SUBSET Nat /\ Sizes # {}  BY <1>1, <1>2
<1>4. PICK c \in R : \A d \in R : Cardinality(K(c)) <= Cardinality(K(d))
  <2>1. LeastOf(Sizes) \in Sizes /\ \A n \in Sizes : LeastOf(Sizes) <= n  BY <1>3, LeastOfAll
  <2> QED  BY <2>1
<1>5. ASSUME NEW d \in R, d \in Registry[c].requires PROVE FALSE
  <2>1. d \in K(c)  BY <1>1, <1>5
  <2>2. Registry[d].requires \subseteq K(c)
    <3>1. Registry[d].requires \subseteq Requires(K(c))  BY <2>1 DEF Requires
    <3> QED  BY <3>1, <1>1 DEF Closed
  <2>3. K(d) \subseteq K(c)
    <3>1. Registry[d].requires \in SUBSET Capabilities /\ Closed(K(c))  BY <1>1
    <3> QED  BY <3>1, <2>2, ClosureIsLeast DEF K
  <2>4. d \notin K(d)  BY DEF Acyclic, K
  <2>5. K(d) # K(c)  BY <2>1, <2>4
  <2>6. /\ K(c) \in SUBSET Capabilities /\ K(d) \in SUBSET Capabilities
        /\ IsFiniteSet(K(c)) /\ Cardinality(K(c)) \in Nat /\ Cardinality(K(d)) \in Nat
    BY <1>1, <1>2
  <2>7. Cardinality(K(d)) <= Cardinality(K(c)) /\ Cardinality(K(d)) # Cardinality(K(c))
    BY <2>3, <2>5, <2>6, FS_Subset
  <2> QED  BY <1>4, <2>6, <2>7
<1> QED  BY <1>5

Named == \A c \in Capabilities : \E i \in DOMAIN ByName : ByName[i] = c

\* The first by name is one of them.
LEMMA FirstIsOneOfThem ==
  ASSUME Named, NEW set \in SUBSET Capabilities, set # {} PROVE FirstByName(set) \in set
<1> DEFINE I == {i \in DOMAIN ByName : ByName[i] \in set}
<1>1. DOMAIN ByName = 1..7  BY DEF ByName
<1>2. I \in SUBSET Nat /\ I # {}  BY <1>1 DEF Named
<1>3. LeastOf(I) \in I /\ \A n \in I : LeastOf(I) <= n  BY <1>2, LeastOfAll
<1>4. \E i \in DOMAIN ByName : ByName[i] \in set /\ \A j \in 1..(i - 1) : ByName[j] \notin set
  <2> DEFINE m == LeastOf(I)
  <2>1. m \in 1..7 /\ ByName[m] \in set  BY <1>1, <1>3
  <2>2. ASSUME NEW j \in 1..(m - 1), ByName[j] \in set PROVE FALSE
    <3>1. j \in 1..7  BY <2>1
    <3>2. j \in I  BY <3>1, <1>1, <2>2
    <3>3. m <= j  BY <3>2, <1>3
    <3> QED  BY <3>1, <3>3, <2>1, <2>2
  <2> HIDE DEF m
  <2> QED  BY <1>1, <2>1, <2>2
<1> QED  BY <1>4 DEF FirstByName

Sorted(order, active) ==
  /\ order \in Seq(active)
  /\ IsInjective(order)
  /\ \A j \in DOMAIN order : \A c \in Registry[order[j]].requires \cap active :
        \E i \in 1..(j - 1) : order[i] = c

\* A capability that is ready may be appended.
LEMMA SortedMore ==
  ASSUME NEW active, NEW order, Sorted(order, active), NEW c \in Ready(active, ToSet(order))
  PROVE  Sorted(Append(order, c), active) /\ ToSet(Append(order, c)) = ToSet(order) \cup {c}
<1> DEFINE more == Append(order, c)
           n == Len(order)
<1>1. order \in Seq(active) /\ n \in Nat /\ DOMAIN order = 1..n  BY DEF Sorted
<1>2. c \in active /\ c \notin ToSet(order) /\ Registry[c].requires \cap active \subseteq ToSet(order)
  BY DEF Ready
<1>3. /\ more \in Seq(active) /\ DOMAIN more = 1..(n + 1) /\ more[n + 1] = c
      /\ \A i \in 1..n : more[i] = order[i]
  BY <1>1, <1>2
<1> HIDE DEF more, n
<1>4. \A i \in 1..n : order[i] \in ToSet(order)  BY <1>1 DEF ToSet
<1>5. IsInjective(more)
  <2> SUFFICES ASSUME NEW a \in 1..(n + 1), NEW b \in 1..(n + 1), more[a] = more[b] PROVE a = b
    BY <1>3 DEF IsInjective
  <2>1. CASE a \in 1..n /\ b \in 1..n  BY <1>1, <1>3, <2>1 DEF Sorted, IsInjective
  <2>2. CASE a = n + 1 /\ b \in 1..n  BY <1>2, <1>3, <1>4, <2>2
  <2>3. CASE b = n + 1 /\ a \in 1..n  BY <1>2, <1>3, <1>4, <2>3
  <2> QED  BY <1>1, <2>1, <2>2, <2>3
<1>6. ASSUME NEW j \in 1..(n + 1), NEW d \in Registry[more[j]].requires \cap active
      PROVE  \E i \in 1..(j - 1) : more[i] = d
  <2>1. CASE j \in 1..n
    <3>1. d \in Registry[order[j]].requires \cap active  BY <1>3, <1>6, <2>1
    <3>2. PICK i \in 1..(j - 1) : order[i] = d  BY <1>1, <2>1, <3>1 DEF Sorted
    <3>3. i \in 1..n  BY <1>1, <2>1
    <3> QED  BY <1>3, <3>2, <3>3
  <2>2. CASE j = n + 1
    <3>1. d \in ToSet(order)  BY <1>2, <1>3, <1>6, <2>2
    <3>2. PICK i \in 1..n : order[i] = d  BY <1>1, <3>1 DEF ToSet
    <3>3. i \in 1..(j - 1)  BY <1>1, <2>2
    <3> QED  BY <1>3, <3>2, <3>3
  <2> QED  BY <1>1, <2>1, <2>2
<1>7. ToSet(more) = ToSet(order) \cup {c}
  <2>1. ToSet(more) = {more[i] : i \in 1..(n + 1)}  BY <1>3 DEF ToSet
  <2>2. ToSet(order) = {order[i] : i \in 1..n}  BY <1>1 DEF ToSet
  <2>3. \A x : x \in ToSet(more) => x \in ToSet(order) \cup {c}  BY <1>1, <1>3, <2>1, <2>2
  <2>4. \A x : x \in ToSet(order) => x \in ToSet(more)
    <3> TAKE x
    <3> SUFFICES ASSUME x \in ToSet(order) PROVE x \in ToSet(more)  OBVIOUS
    <3>1. PICK i \in 1..n : order[i] = x  BY <2>2
    <3>2. i \in 1..(n + 1) /\ more[i] = x  BY <1>1, <1>3, <3>1
    <3> QED  BY <2>1, <3>2
  <2>5. n + 1 \in 1..(n + 1)  BY <1>1
  <2>6. c \in ToSet(more)  BY <1>3, <2>1, <2>5
  <2> QED  BY <2>3, <2>4, <2>6
<1> QED  BY <1>3, <1>5, <1>6, <1>7 DEF Sorted, more

NextSorted(active, order) ==
  LET ready == Ready(active, ToSet(order))
  IN IF ready = {} THEN order ELSE Append(order, FirstByName(ready))

SortingOf(active, N) ==
  CHOOSE sorted : sorted = [n \in 0..N |->
    IF n = 0 THEN <<>> ELSE NextSorted(active, sorted[n - 1])]

\* The order is the last turn of a sorting.
LEMMA OrderSorts ==
  ASSUME NEW active
  PROVE  Order(active) = SortingOf(active, Cardinality(active))[Cardinality(active)]
  BY DEF Order, SortingOf, NextSorted

\* A turn of the sorting keeps it sorted, and gains one unless none is ready.
LEMMA NextIsSorted ==
  ASSUME Named, NEW active \in SUBSET Capabilities, NEW order, Sorted(order, active)
  PROVE  /\ Sorted(NextSorted(active, order), active)
         /\ IF Ready(active, ToSet(order)) = {} THEN NextSorted(active, order) = order
            ELSE \E c \in active \ ToSet(order) :
                    ToSet(NextSorted(active, order)) = ToSet(order) \cup {c}
<1> DEFINE ready == Ready(active, ToSet(order))
           c == FirstByName(ready)
<1>1. CASE ready = {}
  <2>1. NextSorted(active, order) = order  BY <1>1 DEF NextSorted
  <2> QED  BY <1>1, <2>1
<1>2. CASE ready # {}
  <2>1. ready \in SUBSET Capabilities /\ ready \subseteq active \ ToSet(order)  BY DEF Ready
  <2>2. c \in ready
    <3> HIDE DEF ready
    <3> QED  BY <1>2, <2>1, FirstIsOneOfThem
  <2>3. NextSorted(active, order) = Append(order, c)  BY <1>2 DEF NextSorted
  <2> HIDE DEF c
  <2>4. Sorted(Append(order, c), active) /\ ToSet(Append(order, c)) = ToSet(order) \cup {c}
    BY <2>2, SortedMore
  <2> QED  BY <1>2, <2>1, <2>2, <2>3, <2>4
<1> QED  BY <1>1, <1>2

\* The sorting satisfies its equation and is sorted throughout.
LEMMA SortingIs ==
  ASSUME Named, NEW active \in SUBSET Capabilities, NEW N \in Nat
  PROVE  /\ SortingOf(active, N)[0] = <<>>
         /\ \A n \in 0..N : Sorted(SortingOf(active, N)[n], active)
         /\ \A n \in 1..N : SortingOf(active, N)[n] = NextSorted(active, SortingOf(active, N)[n - 1])
<1> DEFINE D == {order \in Seq(active) : Sorted(order, active)}
           f == [order \in D |-> NextSorted(active, order)]
<1>1. \A order : order \in D <=> Sorted(order, active)  BY DEF Sorted
<1>2. f \in [D -> D]
  <2>1. \A order \in D : NextSorted(active, order) \in D
    <3> HIDE DEF D
    <3> QED  BY <1>1, NextIsSorted
  <2> QED  BY <2>1
<1>3. <<>> \in D
  <2>1. Sorted(<<>>, active)  BY DEF Sorted, IsInjective
  <2> QED  BY <1>1, <2>1
<1> HIDE DEF D
<1>4. PICK g : Iterated(g, f, <<>>, D, N)
  <2> HIDE DEF f
  <2> QED  BY <1>2, <1>3, Iterates
<1>5. g \in [0..N -> D] /\ g[0] = <<>> /\ \A n \in 1..N : g[n] = NextSorted(active, g[n - 1])
  <2>1. g \in [0..N -> D] /\ g[0] = <<>> /\ \A n \in 1..N : g[n] = f[g[n - 1]]
    BY <1>4 DEF Iterated
  <2>2. \A n \in 1..N : n - 1 \in 0..N  OBVIOUS
  <2>3. \A order \in D : f[order] = NextSorted(active, order)  OBVIOUS
  <2> HIDE DEF f
  <2> QED  BY <2>1, <2>2, <2>3
<1> DEFINE body(h) == [n \in 0..N |-> IF n = 0 THEN <<>> ELSE NextSorted(active, h[n - 1])]
<1>6. g = body(g)
  <2>1. \A n \in 0..N : g[n] = IF n = 0 THEN <<>> ELSE NextSorted(active, g[n - 1])  BY <1>5
  <2>2. g = [n \in 0..N |-> g[n]]  BY <1>5
  <2> QED  BY <2>1, <2>2
<1> DEFINE G == SortingOf(active, N)
<1>7. G = body(G)
  <2>1. \E h : h = body(h)  BY <1>6
  <2> QED  BY <2>1 DEF SortingOf
<1>8. G[0] = <<>> /\ \A n \in 1..N : G[n] = NextSorted(active, G[n - 1])
  <2> HIDE DEF G
  <2>1. \A n \in 0..N : G[n] = IF n = 0 THEN <<>> ELSE NextSorted(active, G[n - 1])  BY <1>7
  <2>2. 0 \in 0..N /\ 1..N \subseteq 0..N /\ 0 \notin 1..N  OBVIOUS
  <2>3. G[0] = <<>>  BY <2>1, <2>2
  <2>4. \A n \in 1..N : G[n] = NextSorted(active, G[n - 1])
    <3> TAKE n \in 1..N
    <3>1. n \in 0..N /\ n # 0  BY <2>2
    <3> QED  BY <2>1, <3>1
  <2> QED  BY <2>3, <2>4
<1>9. \A n \in 0..N : Sorted(G[n], active)
  <2> DEFINE P == {n \in Nat : n \in 0..N => Sorted(G[n], active)}
  <2>1. 0 \in P  BY <1>1, <1>3, <1>8
  <2>2. ASSUME NEW n \in Nat, n \in P PROVE n + 1 \in P
    <3> SUFFICES ASSUME n + 1 \in 0..N PROVE Sorted(G[n + 1], active)  OBVIOUS
    <3> HIDE DEF G
    <3>1. n \in 0..N /\ n + 1 \in 1..N /\ (n + 1) - 1 = n  OBVIOUS
    <3>2. G[n + 1] = NextSorted(active, G[n])  BY <1>8, <3>1
    <3> QED  BY <2>2, <3>1, <3>2, NextIsSorted
  <2>3. Nat \subseteq P
    <3> HIDE DEF P
    <3> QED  BY <2>1, <2>2, EveryNumber
  <2> QED  BY <2>3
<1> QED  BY <1>8, <1>9

\* Kahn's algorithm orders all of a closed set: as long as one is left, one is ready.
LEMMA OrderIsComplete ==
  ASSUME GraphClosed, IsFiniteSet(Capabilities), Acyclic, Named,
         NEW active \in SUBSET Capabilities
  PROVE  Sorted(Order(active), active) /\ ToSet(Order(active)) = active
<1> DEFINE N == Cardinality(active)
           G == SortingOf(active, N)
<1>1. N \in Nat /\ IsFiniteSet(active)  BY FS_Subset, FS_CardinalityType
<1>2. /\ G[0] = <<>> /\ \A n \in 0..N : Sorted(G[n], active)
      /\ \A n \in 1..N : G[n] = NextSorted(active, G[n - 1])
  BY <1>1, SortingIs
<1>3. Order(active) = G[N]  BY OrderSorts
<1> HIDE DEF G
<1>4. \A n \in 0..N : ToSet(G[n]) \in SUBSET active
  BY <1>2 DEF Sorted, ToSet
<1>5. \A S \in SUBSET active : IsFiniteSet(S) /\ Cardinality(S) \in Nat /\ Cardinality(S) <= N
  BY <1>1, FS_Subset, FS_CardinalityType
<1> DEFINE P == {n \in Nat : n \in 0..N => ToSet(G[n]) = active \/ Cardinality(ToSet(G[n])) >= n}
<1>6. 0 \in P
  <2>1. 0 \in 0..N  BY <1>1
  <2>2. Cardinality(ToSet(G[0])) \in Nat  BY <2>1, <1>4, <1>5
  <2> QED  BY <2>2
<1>7. ASSUME NEW n \in Nat, n \in P PROVE n + 1 \in P
  <2> SUFFICES ASSUME n + 1 \in 0..N
               PROVE  ToSet(G[n + 1]) = active \/ Cardinality(ToSet(G[n + 1])) >= n + 1
    OBVIOUS
  <2>1. n \in 0..N /\ n + 1 \in 1..N /\ (n + 1) - 1 = n  BY <1>1
  <2>2. Sorted(G[n], active) /\ G[n + 1] = NextSorted(active, G[n])  BY <1>2, <2>1
  <2>3. ToSet(G[n]) \in SUBSET active  BY <1>4, <2>1
  <2>4. CASE ToSet(G[n]) = active
    <3>1. Ready(active, ToSet(G[n])) = {}  BY <2>4 DEF Ready
    <3>2. G[n + 1] = G[n]  BY <2>2, <3>1, NextIsSorted
    <3> QED  BY <2>4, <3>2
  <2>5. CASE ToSet(G[n]) # active
    <3> DEFINE R == active \ ToSet(G[n])
    <3>1. R \in SUBSET Capabilities /\ R # {}  BY <2>3, <2>5
    <3>2. PICK d \in R : Registry[d].requires \cap R = {}
      <4> HIDE DEF R
      <4> QED  BY <3>1, OneIsReady
    <3>3. d \in Ready(active, ToSet(G[n]))  BY <3>2 DEF Ready
    <3>4. PICK c \in active \ ToSet(G[n]) : ToSet(G[n + 1]) = ToSet(G[n]) \cup {c}
      BY <2>2, <3>3, NextIsSorted
    <3>5. Cardinality(ToSet(G[n + 1])) = Cardinality(ToSet(G[n])) + 1
      <4>1. IsFiniteSet(ToSet(G[n]))  BY <1>5, <2>3
      <4> QED  BY <3>4, <4>1, FS_AddElement
    <3>6. Cardinality(ToSet(G[n])) >= n  BY <1>7, <2>1, <2>5
    <3>7. Cardinality(ToSet(G[n])) \in Nat  BY <1>5, <2>3
    <3> QED  BY <3>5, <3>6, <3>7
  <2> QED  BY <2>4, <2>5
<1>8. Nat \subseteq P
  <2> HIDE DEF P
  <2> QED  BY <1>6, <1>7, EveryNumber
<1>9. ToSet(G[N]) = active
  <2>1. ToSet(G[N]) = active \/ Cardinality(ToSet(G[N])) >= N  BY <1>1, <1>8
  <2>2. N \in 0..N  BY <1>1
  <2>3. ToSet(G[N]) \in SUBSET active  BY <1>4, <2>2
  <2>4. CASE Cardinality(ToSet(G[N])) >= N
    <3>1. Cardinality(ToSet(G[N])) = N  BY <1>1, <1>5, <2>3, <2>4
    <3> QED  BY <3>1, <1>1, <2>3, FS_Subset
  <2> QED  BY <2>1, <2>4
<1>10. Sorted(G[N], active)  BY <1>1, <1>2
<1> QED  BY <1>3, <1>9, <1>10

-----------------------------------------------------------------------------
(* The capabilities there are.                                              *)

LEMMA CapabilitiesAre ==
  Capabilities = {"household_core", "investment_accounting", "benchmark_enrichment",
                  "foreign_asset_enrichment", "tax", "wealth", "fire"}
  BY DEF Capabilities, Registry

\* The requirements of the registry.
LEMMA RequirementsAre ==
  /\ Registry["household_core"].requires = {}
  /\ Registry["investment_accounting"].requires = {}
  /\ Registry["benchmark_enrichment"].requires = {"investment_accounting"}
  /\ Registry["foreign_asset_enrichment"].requires = {"investment_accounting"}
  /\ Registry["tax"].requires = {"household_core", "investment_accounting"}
  /\ Registry["wealth"].requires = {"household_core"}
  /\ Registry["fire"].requires = {"household_core", "wealth"}
  BY DEF Registry, HouseholdCore, InvestmentAccounting, BenchmarkEnrichment,
         ForeignAssetEnrichment, TaxCapability, WealthCapability, FireCapability

\* There are finitely many capabilities.
LEMMA CapabilitiesFinite == IsFiniteSet(Capabilities)
<1> DEFINE A == {"household_core", "investment_accounting"}
           B == A \cup {"benchmark_enrichment"}
           C == B \cup {"foreign_asset_enrichment"}
           D == C \cup {"tax"}
           E == D \cup {"wealth"}
<1>1. IsFiniteSet({"household_core"})  BY FS_Singleton
<1>2. IsFiniteSet({"household_core"} \cup {"investment_accounting"})  BY <1>1, FS_AddElement
<1>3. A = {"household_core"} \cup {"investment_accounting"}  OBVIOUS
<1>4. IsFiniteSet(A)  BY <1>2, <1>3
<1> HIDE DEF A
<1>5. IsFiniteSet(B)  BY <1>4, FS_AddElement
<1> HIDE DEF B
<1>6. IsFiniteSet(C)  BY <1>5, FS_AddElement
<1> HIDE DEF C
<1>7. IsFiniteSet(D)  BY <1>6, FS_AddElement
<1> HIDE DEF D
<1>8. IsFiniteSet(E)  BY <1>7, FS_AddElement
<1> HIDE DEF E
<1>9. IsFiniteSet(E \cup {"fire"})  BY <1>8, FS_AddElement
<1>10. Capabilities = E \cup {"fire"}  BY CapabilitiesAre DEF A, B, C, D, E
<1> QED  BY <1>9, <1>10

\* Every capability is in the list of names.
LEMMA CapabilitiesNamed == Named
<1>1. /\ DOMAIN ByName = 1..7 /\ ByName[1] = "benchmark_enrichment" /\ ByName[2] = "fire"
      /\ ByName[3] = "foreign_asset_enrichment" /\ ByName[4] = "household_core"
      /\ ByName[5] = "investment_accounting" /\ ByName[6] = "tax" /\ ByName[7] = "wealth"
  BY DEF ByName
<1>2. /\ 1 \in 1..7 /\ 2 \in 1..7 /\ 3 \in 1..7 /\ 4 \in 1..7 /\ 5 \in 1..7
      /\ 6 \in 1..7 /\ 7 \in 1..7
  OBVIOUS
<1> HIDE DEF ByName
<1> QED  BY <1>1, <1>2, CapabilitiesAre DEF Named

\* The registry requires nothing that it has not.
LEMMA GraphIsClosed == GraphClosed
  BY CapabilitiesAre, RequirementsAre DEF GraphClosed

\* CapabilityGraph.validate passes its check for cycles.
LEMMA GraphIsAcyclic == Acyclic
<1> SUFFICES ASSUME NEW c \in Capabilities PROVE c \notin Closure(Registry[c].requires)
  BY DEF Acyclic
<1> DEFINE R == Registry[c].requires
<1>1. R \in SUBSET Capabilities  BY GraphIsClosed DEF GraphClosed
<1>2. Closed(R)
  <2> SUFFICES ASSUME NEW d \in R PROVE Registry[d].requires \subseteq R
    BY DEF Closed, Requires
  <2> QED  BY CapabilitiesAre, RequirementsAre
<1>3. c \notin R  BY CapabilitiesAre, RequirementsAre
<1> HIDE DEF R
<1>4. Closure(R) \subseteq R
  BY <1>1, <1>2, ClosureIsLeast, GraphIsClosed, CapabilitiesFinite
<1> QED  BY <1>3, <1>4 DEF R

-----------------------------------------------------------------------------
(* The plan of a request.                                                   *)

\* What the plan of a request is, without the order.
LEMMA PlanOf ==
  ASSUME NEW request \in SUBSET Capabilities
  PROVE  LET active == Closure(request) IN
         /\ active \in SUBSET Capabilities
         /\ request \subseteq active /\ Requires(active) \subseteq active
         /\ \A S : request \subseteq S /\ Requires(S) \subseteq S => active \subseteq S
         /\ Plan(request).capabilities = Order(active)
         /\ Sorted(Order(active), active) /\ ToSet(Order(active)) = active
         /\ Plan(request).silver = CommonSilver \cup UNION {Registry[c].silver : c \in active}
         /\ Plan(request).gold = UNION {Registry[c].gold : c \in active}
<1> DEFINE active == Closure(request)
<1>1. /\ active \in SUBSET Capabilities /\ request \subseteq active /\ Closed(active)
      /\ \A S : request \subseteq S /\ Closed(S) => active \subseteq S
  BY ClosureIsLeast, GraphIsClosed, CapabilitiesFinite
<1>2. Plan(request).capabilities = Order(active)  BY DEF Plan
<1>3. Plan(request).silver = CommonSilver \cup UNION {Registry[c].silver : c \in active}
  BY DEF Plan, Gather
<1>4. Plan(request).gold = UNION {Registry[c].gold : c \in active}
  BY DEF Plan, Gather
<1> HIDE DEF active
<1>5. Sorted(Order(active), active) /\ ToSet(Order(active)) = active
  BY <1>1, OrderIsComplete, GraphIsClosed, CapabilitiesFinite, GraphIsAcyclic, CapabilitiesNamed
<1>6. /\ Requires(active) \subseteq active
      /\ \A S : request \subseteq S /\ Requires(S) \subseteq S => active \subseteq S
  BY <1>1 DEF Closed
<1> QED  BY <1>1, <1>2, <1>3, <1>4, <1>5, <1>6 DEF active

PlanOfTheJob == job.requested \in SUBSET Capabilities /\ job.plan = Plan(job.requested)

\* The fields of a job.
LEMMA JobIs ==
  ASSUME NEW request, NEW volume, NEW rowless, NEW badMaster
  PROVE  LET j == Job(request, volume, rowless, badMaster) IN
         /\ j.requested = request /\ j.plan = Plan(request) /\ j.book = volume
         /\ j.rowless = rowless /\ j.badMaster = badMaster
  BY DEF Job

\* The fields of no job.
LEMMA NoJobIs ==
  /\ NoJob.requested = {} /\ NoJob.plan = Plan({}) /\ NoJob.book = "book"
  /\ NoJob.rowless = {} /\ NoJob.badMaster = FALSE
  BY DEF NoJob, Job

\* The plan stays the one of the job.
LEMMA JobStep == PlanOfTheJob /\ [PlanNext]_planVars => PlanOfTheJob'
<1> SUFFICES ASSUME PlanOfTheJob, [PlanNext]_planVars PROVE PlanOfTheJob'  OBVIOUS
<1>1. CASE job' = job  BY <1>1 DEF PlanOfTheJob
<1>2. CASE job' = NoJob  BY <1>2, NoJobIs DEF PlanOfTheJob
<1>3. CASE \E request \in Requests, config \in Configs, volume \in Books,
             rowless \in Rowless, badMaster \in BOOLEAN :
             Start(request, config, volume, rowless, badMaster)
  <2>1. PICK request \in Requests, config \in Configs, volume \in Books,
             rowless \in Rowless, badMaster \in BOOLEAN :
             Start(request, config, volume, rowless, badMaster)
    BY <1>3
  <2>2. job' = job \/ job' = Job(request, volume, rowless, badMaster)  BY <2>1 DEF Start
  <2>3. CASE job' = Job(request, volume, rowless, badMaster)
    <3>1. job'.requested = request /\ job'.plan = Plan(request)  BY <2>3, JobIs
    <3>2. request \in SUBSET Capabilities  BY RequestsAssumption
    <3> QED  BY <3>1, <3>2 DEF PlanOfTheJob
  <2> QED  BY <2>2, <2>3, <1>1
<1> QED  BY <1>1, <1>2, <1>3 DEF PlanNext, planVars, Transform, ProcessCurrency,
           ProcessUSMarket, ProcessBenchmark, RunQuantEngine, RunTaxEngine,
           RunPresentationEngine, CheckCompleteness, LoadSilver, LoadGold, LoadMeta,
           Fails, Stage, Leaves, Abort, Load

\* The plan is the one of the job.
LEMMA JobsPlan == PlanSpec => []PlanOfTheJob
<1>1. PlanInit => PlanOfTheJob
  <2> SUFFICES ASSUME PlanInit PROVE PlanOfTheJob  OBVIOUS
  <2>1. job = NoJob  BY DEF PlanInit
  <2> QED  BY <2>1, NoJobIs DEF PlanOfTheJob
<1> QED  BY <1>1, JobStep, PTL DEF PlanSpec

\* PlanIsLeastAndOrdered: the plan a run follows activates the least set of
\* capabilities that contains the request and all that its members require, each
\* once and after its prerequisites, whatever was requested and whenever: both
\* collect_deps and the topological sort end with nothing left over.
THEOREM PlanIsRight == PlanSpec => []PlanIsLeastAndOrdered
<1>1. PlanOfTheJob => PlanIsLeastAndOrdered
  <2> SUFFICES ASSUME PlanOfTheJob PROVE PlanIsLeastAndOrdered  OBVIOUS
  <2> DEFINE request == job.requested
             active == Closure(request)
             order == plan.capabilities
  <2>1. request \in SUBSET Capabilities /\ plan = Plan(request)  BY DEF PlanOfTheJob, plan
  <2>2. /\ active \in SUBSET Capabilities
        /\ request \subseteq active /\ Requires(active) \subseteq active
        /\ \A S : request \subseteq S /\ Requires(S) \subseteq S => active \subseteq S
        /\ order = Order(active)
        /\ Sorted(Order(active), active) /\ ToSet(Order(active)) = active
        /\ plan.silver = CommonSilver \cup UNION {Registry[c].silver : c \in active}
        /\ plan.gold = UNION {Registry[c].gold : c \in active}
    <3> HIDE DEF request
    <3> QED  BY <2>1, PlanOf, Zenon
  <2>3. \A i, j \in DOMAIN order : order[i] \in Registry[order[j]].requires => i < j
    <3>1. /\ order \in Seq(active) /\ IsInjective(order)
          /\ \A j \in DOMAIN order : \A c \in Registry[order[j]].requires \cap active :
                \E i \in 1..(j - 1) : order[i] = c
      BY <2>2 DEF Sorted
    <3> HIDE DEF order, active
    <3>2. DOMAIN order = 1..Len(order) /\ Len(order) \in Nat  BY <3>1
    <3> SUFFICES ASSUME NEW i \in DOMAIN order, NEW j \in DOMAIN order,
                        order[i] \in Registry[order[j]].requires
                 PROVE  i < j
      OBVIOUS
    <3>3. order[i] \in active  BY <3>1, <3>2
    <3>4. PICK k \in 1..(j - 1) : order[k] = order[i]  BY <3>1, <3>3
    <3>5. j \in 1..Len(order)  BY <3>2
    <3>6. k \in DOMAIN order  BY <3>2, <3>4, <3>5
    <3>7. k = i  BY <3>1, <3>4, <3>6 DEF IsInjective
    <3> QED  BY <3>4, <3>5, <3>7
  <2>4. IsInjective(order)  BY <2>2 DEF Sorted, IsInjective
  <2>5. \A d \in Analytical \ CommonSilver :
           d \in Expected(plan) <=> \E c \in active : d \in Registry[c].silver \cup Registry[c].gold
    BY <2>2 DEF Expected
  <2> HIDE DEF active, order, request
  <2>6. ToSet(order) = active  BY <2>2
  <2> QED  BY <2>2, <2>3, <2>4, <2>5, <2>6 DEF PlanIsLeastAndOrdered, order, request
<1> QED  BY <1>1, JobsPlan, PTL

\* Two registries read as one.
LEMMA JoinedIs ==
  ASSUME NEW f, NEW g
  PROVE  /\ DOMAIN Joined(f, g) = DOMAIN f \cup DOMAIN g
         /\ \A x \in DOMAIN f : Joined(f, g)[x] = f[x]
         /\ \A x \in DOMAIN g : x \notin DOMAIN f => Joined(f, g)[x] = g[x]
  BY DEF Joined

DimensionSets ==
  {"common_calendar", "wealth_income_category", "wealth_income_subcategory",
   "wealth_expense_category", "wealth_expense_subcategory",
   "wealth_asset_category", "wealth_asset_subcategory", "common_currency",
   "investment_benchmark_master_dim", "investment_master",
   "investment_macro_parameters_dim"}
FactSets ==
  {"common_currency_fx_rates", "wealth_income_transactions",
   "wealth_expense_transactions", "wealth_transfer_transactions",
   "wealth_opening_balances", "investment_market_data",
   "investment_purchase_data", "investment_sale_data",
   "investment_benchmark_data", "investment_lot_analytics",
   "investment_realized_events", "investment_reconciliation_events",
   "tax_events"}
MartSets ==
  {"tax_year_summary", "tax_income_breakdown", "tax_reconciliation",
   "wealth_core_monthly", "wealth_asset_breakdown",
   "wealth_cashflow_expense_breakdown", "wealth_cashflow_income_breakdown",
   "fire_analytics", "wealth_budget_variance", "investment_portfolio_summary",
   "wealth_cashflow_efficiency", "wealth_cashflow_activity_summary"}
SliceSets ==
  {"investment_by_isin", "investment_by_subtype", "investment_by_class",
   "investment_by_instrument_type", "investment_by_sector",
   "investment_by_industry", "investment_by_portfolio", "investment_by_geo",
   "investment_by_country", "investment_by_currency"}

\* The datasets each part of the registry names.
LEMMA DomainsAre ==
  /\ DOMAIN SilverDimensions = DimensionSets /\ DOMAIN SilverFacts = FactSets
  /\ DOMAIN GoldMarts = MartSets /\ DOMAIN GoldPortfolioSlices = SliceSets
<1>1. DOMAIN SilverDimensions = DimensionSets  BY DEF SilverDimensions, DimensionSets
<1>2. DOMAIN SilverFacts = FactSets  BY DEF SilverFacts, FactSets
<1>3. DOMAIN GoldMarts = MartSets  BY DEF GoldMarts, MartSets
<1>4. DOMAIN GoldPortfolioSlices = SliceSets  BY DEF GoldPortfolioSlices, SliceSets
<1> QED  BY <1>1, <1>2, <1>3, <1>4

\* No dataset is in two parts.
LEMMA PartsAreDisjoint ==
  /\ DimensionSets \cap FactSets = {} /\ MartSets \cap SliceSets = {}
  /\ (DimensionSets \cup FactSets) \cap (MartSets \cup SliceSets) = {}
<1>1. DimensionSets \cap FactSets = {}  BY DEF DimensionSets, FactSets
<1>2. MartSets \cap SliceSets = {}  BY DEF MartSets, SliceSets
<1>3. (DimensionSets \cup FactSets) \cap MartSets = {}
  BY DEF DimensionSets, FactSets, MartSets
<1>4. (DimensionSets \cup FactSets) \cap SliceSets = {}
  BY DEF DimensionSets, FactSets, SliceSets
<1> QED  BY <1>1, <1>2, <1>3, <1>4

\* The layers.
LEMMA LayersAre ==
  /\ SilverSets = DimensionSets \cup FactSets /\ GoldSets = MartSets \cup SliceSets
  /\ Analytical = SilverSets \cup GoldSets /\ SilverSets \cap GoldSets = {}
<1>1. SilverSets = DimensionSets \cup FactSets
  BY JoinedIs, DomainsAre, Zenon DEF SilverSets, SilverContracts
<1>2. GoldSets = MartSets \cup SliceSets
  BY JoinedIs, DomainsAre, Zenon DEF GoldSets, GoldContracts
<1>3. Analytical = SilverSets \cup GoldSets
  BY JoinedIs, Zenon DEF Analytical, Contracts, SilverSets, GoldSets
<1> QED  BY <1>1, <1>2, <1>3, PartsAreDisjoint

\* The contract of each dataset is that of its part.
LEMMA ContractsAre ==
  /\ \A d \in DimensionSets : d \in Analytical /\ Contracts[d] = SilverDimensions[d]
  /\ \A d \in FactSets : d \in Analytical /\ Contracts[d] = SilverFacts[d]
  /\ \A d \in MartSets : d \in Analytical /\ Contracts[d] = GoldMarts[d]
  /\ \A d \in SliceSets : d \in Analytical /\ Contracts[d] = GoldPortfolioSlices[d]
<1>1. /\ \A d \in SilverSets : Contracts[d] = SilverContracts[d]
      /\ \A d \in GoldSets : Contracts[d] = GoldContracts[d]
  <2>1. \A d \in SilverSets : Contracts[d] = SilverContracts[d]
    BY JoinedIs, Zenon DEF Contracts, SilverSets
  <2>2. \A d \in GoldSets : d \notin SilverSets => Contracts[d] = GoldContracts[d]
    BY JoinedIs, Zenon DEF Contracts, SilverSets, GoldSets
  <2> QED  BY <2>1, <2>2, LayersAre
<1>2. /\ \A d \in DimensionSets : SilverContracts[d] = SilverDimensions[d]
      /\ \A d \in FactSets : d \notin DimensionSets => SilverContracts[d] = SilverFacts[d]
  <2>1. \A d \in DimensionSets : SilverContracts[d] = SilverDimensions[d]
    BY JoinedIs, DomainsAre, Zenon DEF SilverContracts
  <2>2. \A d \in FactSets : d \notin DimensionSets => SilverContracts[d] = SilverFacts[d]
    <3>1. \A d \in DOMAIN SilverFacts : d \notin DOMAIN SilverDimensions => SilverContracts[d] = SilverFacts[d]
      BY JoinedIs, Zenon DEF SilverContracts
    <3> QED  BY <3>1, DomainsAre
  <2> QED  BY <2>1, <2>2
<1>3. /\ \A d \in MartSets : GoldContracts[d] = GoldMarts[d]
      /\ \A d \in SliceSets : d \notin MartSets => GoldContracts[d] = GoldPortfolioSlices[d]
  <2>1. \A d \in MartSets : GoldContracts[d] = GoldMarts[d]
    BY JoinedIs, DomainsAre, Zenon DEF GoldContracts
  <2>2. \A d \in SliceSets : d \notin MartSets => GoldContracts[d] = GoldPortfolioSlices[d]
    <3>1. \A d \in DOMAIN GoldPortfolioSlices : d \notin DOMAIN GoldMarts => GoldContracts[d] = GoldPortfolioSlices[d]
      BY JoinedIs, Zenon DEF GoldContracts
    <3> QED  BY <3>1, DomainsAre
  <2> QED  BY <2>1, <2>2
<1>4. \A d \in DimensionSets : d \in SilverSets /\ d \in Analytical  BY LayersAre
<1>5. \A d \in FactSets : d \in SilverSets /\ d \in Analytical /\ d \notin DimensionSets
  BY LayersAre, PartsAreDisjoint
<1>6. \A d \in MartSets : d \in GoldSets /\ d \in Analytical  BY LayersAre
<1>7. \A d \in SliceSets : d \in GoldSets /\ d \in Analytical /\ d \notin MartSets
  BY LayersAre, PartsAreDisjoint
<1> QED  BY <1>1, <1>2, <1>3, <1>4, <1>5, <1>6, <1>7

\* The frames of SilverDimensions.
LEMMA DimensionFramesAre ==
  /\ Frame("common_calendar") = "df_d_calendar"
  /\ Frame("wealth_income_category") = "df_d_income_category"
  /\ Frame("wealth_income_subcategory") = "df_d_income_subcategory"
  /\ Frame("wealth_expense_category") = "df_d_expense_category"
  /\ Frame("wealth_expense_subcategory") = "df_d_expense_subcategory"
  /\ Frame("wealth_asset_category") = "df_d_asset_category"
  /\ Frame("wealth_asset_subcategory") = "df_d_asset_subcategory"
  /\ Frame("common_currency") = "df_d_currency"
  /\ Frame("investment_benchmark_master_dim") = "df_d_benchmark_master"
  /\ Frame("investment_master") = "df_d_investment_master"
  /\ Frame("investment_macro_parameters_dim") = "df_d_macro_parameters"
<1>1. \A d \in DimensionSets : Frame(d) = SilverDimensions[d][1]  BY ContractsAre, Zenon DEF Frame
<1> QED  BY <1>1, SMTT(60) DEF DimensionSets, SilverDimensions

\* The frames of SilverFacts.
LEMMA FactFramesAre ==
  /\ Frame("common_currency_fx_rates") = "df_f_currency_fx_rates"
  /\ Frame("wealth_income_transactions") = "df_f_income_transactions"
  /\ Frame("wealth_expense_transactions") = "df_f_expense_transactions"
  /\ Frame("wealth_transfer_transactions") = "df_f_transfer_transactions"
  /\ Frame("wealth_opening_balances") = "df_f_opening_balances"
  /\ Frame("investment_market_data") = "df_f_investment_market_data"
  /\ Frame("investment_purchase_data") = "df_f_tf_inv_purchase"
  /\ Frame("investment_sale_data") = "df_f_tf_inv_sale"
  /\ Frame("investment_benchmark_data") = "df_f_investment_benchmark_data"
  /\ Frame("investment_lot_analytics") = "df_f_investment_analytics_lot"
  /\ Frame("investment_realized_events") = "df_f_investment_realized_events"
  /\ Frame("investment_reconciliation_events") = "df_f_investment_reconciliation_events"
  /\ Frame("tax_events") = "df_f_tax_events"
<1>1. \A d \in FactSets : Frame(d) = SilverFacts[d][1]  BY ContractsAre, Zenon DEF Frame
<1> QED  BY <1>1, SMTT(60) DEF FactSets, SilverFacts

\* The frames of GoldMarts.
LEMMA MartFramesAre ==
  /\ Frame("tax_year_summary") = "df_p_tax_year_summary"
  /\ Frame("tax_income_breakdown") = "df_p_tax_income_breakdown"
  /\ Frame("tax_reconciliation") = "df_p_tax_reconciliation"
  /\ Frame("wealth_core_monthly") = "df_p_tf_wealth_monthly_totals"
  /\ Frame("wealth_asset_breakdown") = "df_p_tf_net_worth_monthly_summary"
  /\ Frame("wealth_cashflow_expense_breakdown") = "df_p_tf_category_spend_analytics"
  /\ Frame("wealth_cashflow_income_breakdown") = "df_p_tf_income_streams_monthly"
  /\ Frame("fire_analytics") = "df_p_tf_wealth_risk_analytics"
  /\ Frame("wealth_budget_variance") = "df_p_tf_budget_forecast_monthly"
  /\ Frame("investment_portfolio_summary") = "df_p_tf_investment_analytics"
  /\ Frame("wealth_cashflow_efficiency") = "df_p_tf_monthly_cashflow_summary"
  /\ Frame("wealth_cashflow_activity_summary") = "df_p_tf_cashflow_activity_summary"
<1>1. \A d \in MartSets : Frame(d) = GoldMarts[d][1]  BY ContractsAre, Zenon DEF Frame
<1> QED  BY <1>1, SMTT(60) DEF MartSets, GoldMarts

\* The frames of GoldPortfolioSlices.
LEMMA SliceFramesAre ==
  /\ Frame("investment_by_isin") = "df_f_investment_analytics_isin"
  /\ Frame("investment_by_subtype") = "df_f_investment_analytics_subtype"
  /\ Frame("investment_by_class") = "df_f_investment_analytics_class"
  /\ Frame("investment_by_instrument_type") = "df_f_investment_analytics_instrument_type"
  /\ Frame("investment_by_sector") = "df_f_investment_analytics_sector"
  /\ Frame("investment_by_industry") = "df_f_investment_analytics_industry"
  /\ Frame("investment_by_portfolio") = "df_f_investment_analytics_portfolio"
  /\ Frame("investment_by_geo") = "df_f_investment_analytics_geo"
  /\ Frame("investment_by_country") = "df_f_investment_analytics_country"
  /\ Frame("investment_by_currency") = "df_f_investment_analytics_currency"
<1>1. \A d \in SliceSets : Frame(d) = GoldPortfolioSlices[d][1]  BY ContractsAre, Zenon DEF Frame
<1> QED  BY <1>1, SMTT(60) DEF SliceSets, GoldPortfolioSlices

\* The key of every dataset is a frame.
LEMMA FrameIsOne == \A d \in Analytical : Frame(d) \in Frames
  BY DEF Frames

\* A frame of Gold.
MartFrames ==
  {"df_p_tax_year_summary", "df_p_tax_income_breakdown",
   "df_p_tax_reconciliation", "df_p_tf_wealth_monthly_totals",
   "df_p_tf_net_worth_monthly_summary", "df_p_tf_category_spend_analytics",
   "df_p_tf_income_streams_monthly", "df_p_tf_wealth_risk_analytics",
   "df_p_tf_budget_forecast_monthly", "df_p_tf_investment_analytics",
   "df_p_tf_monthly_cashflow_summary", "df_p_tf_cashflow_activity_summary"}

SliceFrames == {Frame(d) : d \in SliceSets}

\* What the engines may leave before the portfolio is analysed.
EarlyFrames ==
  DimensionFrames \cup LedgerFrames \cup AssetFrames
  \cup {"df_d_calendar", "df_d_benchmark_master", "df_f_currency_fx_rates",
        "df_f_investment_benchmark_data"}

LotFrames ==
  {"df_f_investment_analytics_lot", "df_f_investment_realized_events",
   "df_f_investment_reconciliation_events"}

\* The frames of the marts.
LEMMA MartsFrames == \A d \in MartSets : Frame(d) \in MartFrames
  BY MartFramesAre DEF MartSets, MartFrames

\* The frames of the slices.
LEMMA SlicesFrames ==
  SliceFrames = {"df_f_investment_analytics_isin", "df_f_investment_analytics_subtype",
     "df_f_investment_analytics_class", "df_f_investment_analytics_instrument_type",
     "df_f_investment_analytics_sector", "df_f_investment_analytics_industry",
     "df_f_investment_analytics_portfolio", "df_f_investment_analytics_geo",
     "df_f_investment_analytics_country", "df_f_investment_analytics_currency"}
  BY SliceFramesAre DEF SliceSets, SliceFrames

\* No frame of a mart is built before the presentation, none of a slice before
\* the portfolio engine.
LEMMA EarlyIsSilver ==
  /\ EarlyFrames \cap MartFrames = {} /\ EarlyFrames \cap SliceFrames = {}
  /\ LotFrames \cap MartFrames = {} /\ LotFrames \cap SliceFrames = {}
  /\ SliceFrames \cap MartFrames = {}
<1>1. EarlyFrames \cap MartFrames = {}
  BY DEF EarlyFrames, MartFrames, DimensionFrames, LedgerFrames, AssetFrames
<1>2. EarlyFrames \cap SliceFrames = {}
  BY SlicesFrames DEF EarlyFrames, DimensionFrames, LedgerFrames, AssetFrames
<1>3. LotFrames \cap MartFrames = {}  BY DEF LotFrames, MartFrames
<1>4. LotFrames \cap SliceFrames = {}  BY SlicesFrames DEF LotFrames
<1>5. SliceFrames \cap MartFrames = {}  BY SlicesFrames DEF MartFrames
<1> QED  BY <1>1, <1>2, <1>3, <1>4, <1>5

\* Every key a stage adds is the frame of a contract.
LEMMA StagesAddFrames ==
  /\ EarlyFrames \subseteq Frames /\ LotFrames \subseteq Frames
  /\ SliceFrames \subseteq Frames /\ MartFrames \subseteq Frames
  /\ "df_f_tax_events" \in Frames
<1>1. /\ \A d \in DimensionSets : Frame(d) \in Frames
      /\ \A d \in FactSets : Frame(d) \in Frames
      /\ \A d \in MartSets : Frame(d) \in Frames
      /\ \A d \in SliceSets : Frame(d) \in Frames
  BY ContractsAre, FrameIsOne
<1>2. DimensionFrames \subseteq Frames /\ "df_d_calendar" \in Frames
      /\ "df_d_benchmark_master" \in Frames /\ "df_d_investment_master" \in Frames
  BY <1>1, DimensionFramesAre DEF DimensionFrames, DimensionSets
<1>3. LedgerFrames \subseteq Frames /\ LotFrames \subseteq Frames
      /\ "df_f_currency_fx_rates" \in Frames /\ "df_f_investment_benchmark_data" \in Frames
      /\ "df_f_tax_events" \in Frames
  BY <1>1, FactFramesAre DEF LedgerFrames, LotFrames, FactSets
<1>4. AssetFrames \subseteq Frames
  BY <1>1, <1>2, FactFramesAre DEF AssetFrames, FactSets
<1>5. MartFrames \subseteq Frames  BY <1>1, MartFramesAre DEF MartFrames, MartSets
<1>6. SliceFrames \subseteq Frames  BY <1>1 DEF SliceFrames
<1> QED  BY <1>2, <1>3, <1>4, <1>5, <1>6 DEF EarlyFrames

\* The parts of GoldInputs.
WealthSide == Joined(LedgerMartInputs, WealthMartInputs)
PortfolioSide == Joined(PortfolioMartInputs, SliceInputs)

TaxSets == {"tax_year_summary", "tax_income_breakdown", "tax_reconciliation"}
LedgerMartSets ==
  {"wealth_core_monthly", "wealth_asset_breakdown",
   "wealth_cashflow_expense_breakdown", "wealth_cashflow_income_breakdown"}
WealthMartSets ==
  {"fire_analytics", "wealth_budget_variance", "investment_portfolio_summary",
   "wealth_cashflow_efficiency", "wealth_cashflow_activity_summary"}
FirstSliceSets ==
  {"investment_by_isin", "investment_by_subtype", "investment_by_class"}
OtherSliceSets ==
  {"investment_by_instrument_type", "investment_by_sector",
   "investment_by_industry", "investment_by_portfolio", "investment_by_geo",
   "investment_by_country", "investment_by_currency"}

\* Which marts each part of the declared inputs is about.
LEMMA InputDomains ==
  /\ DOMAIN TaxMartInputs = TaxSets
  /\ DOMAIN LedgerMartInputs = LedgerMartSets /\ DOMAIN WealthMartInputs = WealthMartSets
  /\ DOMAIN PortfolioMartInputs = FirstSliceSets /\ DOMAIN SliceInputs = OtherSliceSets
<1>1. DOMAIN TaxMartInputs = TaxSets  BY DEF TaxMartInputs, TaxSets
<1>2. DOMAIN LedgerMartInputs = LedgerMartSets  BY DEF LedgerMartInputs, LedgerMartSets
<1>3. DOMAIN WealthMartInputs = WealthMartSets  BY DEF WealthMartInputs, WealthMartSets
<1>4. DOMAIN PortfolioMartInputs = FirstSliceSets  BY DEF PortfolioMartInputs, FirstSliceSets
<1>5. DOMAIN SliceInputs = OtherSliceSets  BY DEF SliceInputs, OtherSliceSets
<1> QED  BY <1>1, <1>2, <1>3, <1>4, <1>5

\* These parts cover the Gold layer and do not overlap.
LEMMA InputParts ==
  /\ MartSets = TaxSets \cup (LedgerMartSets \cup WealthMartSets)
  /\ SliceSets = FirstSliceSets \cup OtherSliceSets
  /\ LedgerMartSets \cap WealthMartSets = {} /\ FirstSliceSets \cap OtherSliceSets = {}
  /\ TaxSets \cap (LedgerMartSets \cup WealthMartSets) = {}
<1>1. MartSets = TaxSets \cup (LedgerMartSets \cup WealthMartSets)
  BY DEF MartSets, TaxSets, LedgerMartSets, WealthMartSets
<1>2. SliceSets = FirstSliceSets \cup OtherSliceSets
  BY DEF SliceSets, FirstSliceSets, OtherSliceSets
<1>3. LedgerMartSets \cap WealthMartSets = {}  BY DEF LedgerMartSets, WealthMartSets
<1>4. FirstSliceSets \cap OtherSliceSets = {}  BY DEF FirstSliceSets, OtherSliceSets
<1>5. TaxSets \cap (LedgerMartSets \cup WealthMartSets) = {}
  BY DEF TaxSets, LedgerMartSets, WealthMartSets
<1> QED  BY <1>1, <1>2, <1>3, <1>4, <1>5

\* The declared inputs of a mart are those of its part.
LEMMA InputsAre ==
  /\ \A g \in TaxSets : GoldInputs[g] = TaxMartInputs[g]
  /\ \A g \in LedgerMartSets : GoldInputs[g] = LedgerMartInputs[g]
  /\ \A g \in WealthMartSets : GoldInputs[g] = WealthMartInputs[g]
  /\ \A g \in FirstSliceSets : GoldInputs[g] = PortfolioMartInputs[g]
  /\ \A g \in OtherSliceSets : GoldInputs[g] = SliceInputs[g]
<1> DEFINE Most == Joined(WealthSide, PortfolioSide)
<1>1. /\ DOMAIN WealthSide = DOMAIN LedgerMartInputs \cup DOMAIN WealthMartInputs
      /\ \A g \in DOMAIN LedgerMartInputs : WealthSide[g] = LedgerMartInputs[g]
      /\ \A g \in DOMAIN WealthMartInputs :
            g \notin DOMAIN LedgerMartInputs => WealthSide[g] = WealthMartInputs[g]
  BY JoinedIs, Zenon DEF WealthSide
<1>2. /\ DOMAIN PortfolioSide = DOMAIN PortfolioMartInputs \cup DOMAIN SliceInputs
      /\ \A g \in DOMAIN PortfolioMartInputs : PortfolioSide[g] = PortfolioMartInputs[g]
      /\ \A g \in DOMAIN SliceInputs :
            g \notin DOMAIN PortfolioMartInputs => PortfolioSide[g] = SliceInputs[g]
  BY JoinedIs, Zenon DEF PortfolioSide
<1>3. /\ DOMAIN Most = DOMAIN WealthSide \cup DOMAIN PortfolioSide
      /\ \A g \in DOMAIN WealthSide : Most[g] = WealthSide[g]
      /\ \A g \in DOMAIN PortfolioSide : g \notin DOMAIN WealthSide => Most[g] = PortfolioSide[g]
  BY JoinedIs, Zenon
<1>4. GoldInputs = Joined(TaxMartInputs, Most)  BY DEF GoldInputs, WealthSide, PortfolioSide
<1> HIDE DEF Most
<1>5. /\ \A g \in DOMAIN TaxMartInputs : GoldInputs[g] = TaxMartInputs[g]
      /\ \A g \in DOMAIN Most : g \notin DOMAIN TaxMartInputs => GoldInputs[g] = Most[g]
  <2> DEFINE J == Joined(TaxMartInputs, Most)
  <2>1. /\ \A g \in DOMAIN TaxMartInputs : J[g] = TaxMartInputs[g]
        /\ \A g \in DOMAIN Most : g \notin DOMAIN TaxMartInputs => J[g] = Most[g]
    BY JoinedIs, Zenon
  <2>2. GoldInputs = J  BY <1>4
  <2> HIDE DEF J
  <2> QED  BY <2>1, <2>2
<1>6. \A g \in LedgerMartSets \cup WealthMartSets :
         g \in DOMAIN WealthSide /\ g \notin TaxSets /\ GoldInputs[g] = WealthSide[g]
  BY <1>1, <1>3, <1>5, InputDomains, InputParts
<1>7. \A g \in SliceSets : g \in DOMAIN PortfolioSide /\ g \notin MartSets
  BY <1>2, InputDomains, InputParts, PartsAreDisjoint
<1>8. \A g \in SliceSets : GoldInputs[g] = PortfolioSide[g]
  BY <1>1, <1>3, <1>5, <1>7, InputDomains, InputParts
<1>9. \A g \in TaxSets : GoldInputs[g] = TaxMartInputs[g]  BY <1>5, InputDomains
<1>10. /\ \A g \in LedgerMartSets : GoldInputs[g] = LedgerMartInputs[g]
       /\ \A g \in WealthMartSets : GoldInputs[g] = WealthMartInputs[g]
  BY <1>1, <1>6, InputDomains, InputParts
<1>11. /\ \A g \in FirstSliceSets : GoldInputs[g] = PortfolioMartInputs[g]
       /\ \A g \in OtherSliceSets : GoldInputs[g] = SliceInputs[g]
  BY <1>2, <1>8, InputDomains, InputParts
<1> QED  BY <1>9, <1>10, <1>11

\* What the marts read: the transformed ledgers and dimensions, the currency
\* rates, and what the portfolio and tax engines leave.
MartSources ==
  DimensionFrames \cup LedgerFrames
  \cup {"df_d_calendar", "df_d_investment_master", "df_f_currency_fx_rates",
        "df_f_investment_analytics_lot", "df_f_investment_realized_events",
        "df_f_tax_events"}
SliceSources ==
  {"df_d_currency", "df_d_investment_master", "df_f_currency_fx_rates",
   "df_f_investment_analytics_lot"}

\* The slices read what is there before the quant engine ends.
LEMMA SlicesRead ==
  \A g \in SliceSets : \A s \in GoldInputs[g] :
     s = "investment_benchmark_data" \/ Frame(s) \in SliceSources
<1>1. \A g \in FirstSliceSets : \A s \in GoldInputs[g] :
         s = "investment_benchmark_data" \/ Frame(s) \in SliceSources
  <2>1. \A g \in FirstSliceSets : \A s \in PortfolioMartInputs[g] :
           s \in {"investment_benchmark_data", "investment_lot_analytics",
                  "investment_master", "common_currency_fx_rates"}
    BY DEF FirstSliceSets, PortfolioMartInputs
  <2> QED  BY <2>1, InputsAre, DimensionFramesAre, FactFramesAre DEF SliceSources
<1>2. \A g \in OtherSliceSets : \A s \in GoldInputs[g] : Frame(s) \in SliceSources
  <2>1. \A g \in OtherSliceSets : \A s \in SliceInputs[g] :
           s \in {"investment_lot_analytics", "investment_master", "common_currency"}
    BY DEF OtherSliceSets, SliceInputs
  <2> QED  BY <2>1, InputsAre, DimensionFramesAre, FactFramesAre DEF SliceSources
<1> QED  BY <1>1, <1>2, InputParts

\* The other marts read what is there before the presentation ends.
LEMMA MartsRead ==
  \A g \in MartSets : \A s \in GoldInputs[g] : Frame(s) \in MartSources
<1> DEFINE Read == {"tax_events", "wealth_income_transactions", "investment_realized_events",
       "wealth_income_subcategory", "investment_macro_parameters_dim", "common_calendar",
       "wealth_expense_transactions", "wealth_transfer_transactions",
       "wealth_opening_balances", "wealth_asset_subcategory", "common_currency_fx_rates",
       "investment_lot_analytics", "wealth_asset_category", "wealth_expense_category",
       "wealth_expense_subcategory", "wealth_income_category", "investment_master"}
<1>1. \A g \in TaxSets : \A s \in TaxMartInputs[g] : s \in Read
  BY DEF TaxSets, TaxMartInputs
<1>2. \A g \in LedgerMartSets : \A s \in LedgerMartInputs[g] : s \in Read
  BY DEF LedgerMartSets, LedgerMartInputs
<1>3. \A g \in WealthMartSets : \A s \in WealthMartInputs[g] : s \in Read
  BY DEF WealthMartSets, WealthMartInputs
<1>4. \A s \in Read : Frame(s) \in MartSources
  BY DimensionFramesAre, FactFramesAre DEF MartSources, DimensionFrames, LedgerFrames
<1> HIDE DEF Read
<1>5. \A g \in MartSets : \A s \in GoldInputs[g] : s \in Read
  BY <1>1, <1>2, <1>3, InputsAre, InputParts
<1> QED  BY <1>4, <1>5

\* The benchmark data belong to the plan only with their capability.
LEMMA BenchmarkIsOwned ==
  \A c \in Capabilities : "investment_benchmark_data" \in Registry[c].silver \cup Registry[c].gold
     => c = "benchmark_enrichment"
<1> DEFINE b == "investment_benchmark_data"
<1>1. b \notin Registry["household_core"].silver \cup Registry["household_core"].gold
  BY DEF Registry, HouseholdCore
<1>2. b \notin Registry["investment_accounting"].silver \cup Registry["investment_accounting"].gold
  <2>1. b \notin SliceSets  BY DEF SliceSets
  <2>2. /\ Registry["investment_accounting"] = InvestmentAccounting
        /\ InvestmentAccounting.gold = DOMAIN GoldPortfolioSlices
    BY DEF Registry, InvestmentAccounting
  <2>3. b \notin Registry["investment_accounting"].silver
    BY DEF Registry, InvestmentAccounting
  <2> QED  BY <2>1, <2>2, <2>3, DomainsAre
<1>3. b \notin Registry["foreign_asset_enrichment"].silver \cup Registry["foreign_asset_enrichment"].gold
  BY DEF Registry, ForeignAssetEnrichment
<1>4. b \notin Registry["tax"].silver \cup Registry["tax"].gold
  BY DEF Registry, TaxCapability
<1>5. b \notin Registry["wealth"].silver \cup Registry["wealth"].gold
  BY DEF Registry, WealthCapability
<1>6. b \notin Registry["fire"].silver \cup Registry["fire"].gold
  BY DEF Registry, FireCapability
<1> HIDE DEF b
<1>7. ASSUME NEW c \in Capabilities, b \in Registry[c].silver \cup Registry[c].gold
      PROVE  c = "benchmark_enrichment"
  BY <1>1, <1>2, <1>3, <1>4, <1>5, <1>6, <1>7, CapabilitiesAre
<1> QED  BY <1>7 DEF b

\* A plan that expects benchmark data has benchmarks active.
LEMMA BenchmarkIsPlanned ==
  ASSUME PlanOfTheJob, "investment_benchmark_data" \in Expected(plan)
  PROVE  IsActive("benchmark_enrichment")
<1> DEFINE b == "investment_benchmark_data"
           request == job.requested
           active == Closure(request)
<1>1. request \in SUBSET Capabilities /\ plan = Plan(request)  BY DEF PlanOfTheJob, plan
<1>2. /\ active \in SUBSET Capabilities
      /\ Plan(request).capabilities = Order(active) /\ ToSet(Order(active)) = active
      /\ Plan(request).silver = CommonSilver \cup UNION {Registry[c].silver : c \in active}
      /\ Plan(request).gold = UNION {Registry[c].gold : c \in active}
  <2> HIDE DEF request
  <2> QED  BY <1>1, PlanOf, Zenon
<1>3. b \notin CommonSilver  BY DEF CommonSilver
<1> HIDE DEF active, request
<1>4. b \in UNION {Registry[c].silver : c \in active} \/ b \in UNION {Registry[c].gold : c \in active}
  BY <1>1, <1>2, <1>3 DEF Expected
<1> HIDE DEF b
<1>5. PICK c \in active : b \in Registry[c].silver \cup Registry[c].gold  BY <1>4
<1>6. c = "benchmark_enrichment"  BY <1>2, <1>5, BenchmarkIsOwned DEF b
<1>7. ToSet(plan.capabilities) = active  BY <1>1, <1>2
<1> QED  BY <1>5, <1>6, <1>7 DEF IsActive

\* The stages, each with those that follow it.
FromMeta == {"meta"}
FromGold == {"gold"} \cup FromMeta
FromPresentation == {"presentation", "check", "silver"} \cup FromGold
FromTax == {"tax"} \cup FromPresentation
FromQuant == {"quant"} \cup FromTax
FromMarket == {"us_market", "benchmark"} \cup FromQuant
FromCurrency == {"currency"} \cup FromMarket

\* Which frames a stage finds.
FramesByStage ==
  /\ dfs \subseteq Frames
  /\ at \in {"idle", "transform"} => dfs = {}
  /\ at \in FromCurrency => TransformFrames \subseteq dfs
  /\ at \in FromMarket => "df_f_currency_fx_rates" \in dfs
  /\ at \in FromQuant =>
        (IsActive("benchmark_enrichment") => "df_f_investment_benchmark_data" \in dfs)
  /\ at \in FromTax => "df_f_investment_analytics_lot" \in dfs
  /\ at \in FromPresentation =>
        "df_f_investment_realized_events" \in dfs /\ TaxFrames \subseteq dfs
  /\ at \in {"currency", "us_market", "benchmark", "quant"} => dfs \subseteq EarlyFrames
  /\ at = "tax" => dfs \subseteq EarlyFrames \cup LotFrames \cup SliceFrames

WarehouseFields == {"tables", "others", "counts"}

\* What the run's transaction has done so far.
WorkByStage ==
  /\ DOMAIN work = WarehouseFields
  /\ at \notin FromGold => work = store
  /\ at = "gold" =>
       /\ \A d \in SilverSets : work.tables[d] = IF Filled(d) THEN runNo ELSE 0
       /\ work.others = {t \in store.others : t[1] # "silver"}
  /\ at = "meta" =>
       /\ \A d \in Analytical : work.tables[d] = IF Filled(d) THEN runNo ELSE 0
       /\ work.others = {t \in store.others : t[1] # "silver" /\ t[1] # "gold"}

\* The committed warehouse.
CommittedStore ==
  /\ PublishedByOneRun /\ MetaDescribesStore
  /\ DOMAIN store = WarehouseFields
  /\ good = 0 => store.others = OtherTables
  /\ at # "idle" => runNo >= 1

\* The inductive invariant.
RunIInv == PlanOfTheJob /\ PlanTypeOK /\ FramesByStage /\ WorkByStage /\ CommittedStore

-----------------------------------------------------------------------------
(* The steps of a run.                                                      *)

\* A step that keeps the job keeps what is derived from it.
LEMMA SameJob ==
  ASSUME job' = job
  PROVE  /\ TransformFrames' = TransformFrames /\ QuantFrames' = QuantFrames
         /\ IsActive("benchmark_enrichment")' <=> IsActive("benchmark_enrichment")
<1>1. plan' = plan  BY DEF plan
<1>2. IsActive("benchmark_enrichment")' <=> IsActive("benchmark_enrichment")
  BY <1>1 DEF IsActive
<1>3. TransformFrames' = TransformFrames  BY <1>2 DEF TransformFrames
<1>4. QuantFrames' = QuantFrames  BY DEF QuantFrames
<1> QED  BY <1>2, <1>3, <1>4

\* The frames of the transformation.
LEMMA TransformsEarly ==
  /\ TransformFrames \subseteq EarlyFrames
  /\ DimensionFrames \cup LedgerFrames \cup AssetFrames \cup {"df_d_calendar"} \subseteq TransformFrames
  BY DEF TransformFrames, EarlyFrames

\* The frames of the quant engine.
LEMMA QuantAdds ==
  QuantFrames \subseteq LotFrames \cup SliceFrames /\ "df_f_investment_analytics_lot" \in QuantFrames
<1>1. {Frame(d) : d \in DOMAIN GoldPortfolioSlices} = SliceFrames  BY DomainsAre DEF SliceFrames
<1> QED  BY <1>1 DEF QuantFrames, LotFrames

\* The frames of the tax engine.
LEMMA TaxAdds == TaxFrames \subseteq Frames /\ "df_f_tax_events" \in TaxFrames
  BY StagesAddFrames DEF TaxFrames, MartFrames

\* The frames of the presentation engine.
LEMMA WealthAdds == WealthFrames \subseteq Frames
  BY StagesAddFrames DEF WealthFrames, WealthResults, MartFrames

\* No job is well typed.
LEMMA NoJobsType == NoJob.requested = {} /\ NoJob.book \in Books
  BY NoJobIs DEF Books

\* A run that raises leaves the committed warehouse, and nothing else.
LEMMA AbortKeeps ==
  ASSUME RunIInv, NEW why \in Outcomes, Abort(why)
  PROVE  (PlanTypeOK /\ FramesByStage /\ WorkByStage /\ CommittedStore)'
<1>1. /\ at' = "idle" /\ outcome' = why /\ work' = store /\ job' = NoJob /\ dfs' = {}
      /\ runNo' = runNo /\ store' = store /\ good' = good
  BY DEF Abort
<1>2. PlanTypeOK'
  BY <1>1, NoJobsType DEF RunIInv, PlanTypeOK, IsWarehouse
<1>3. FramesByStage'
  BY <1>1 DEF FramesByStage, FromCurrency, FromMarket, FromQuant, FromTax,
      FromPresentation, FromGold, FromMeta
<1>4. WorkByStage'
  BY <1>1 DEF RunIInv, CommittedStore, WorkByStage, FromGold, FromMeta
<1>5. CommittedStore'
  BY <1>1 DEF RunIInv, CommittedStore, PublishedByOneRun, MetaDescribesStore
<1> QED  BY <1>2, <1>3, <1>4, <1>5

\* A stage before the load leaves the warehouse as it was.
LEMMA LeavesKeeps ==
  ASSUME RunIInv, NEW frames \in SUBSET Frames, Leaves(frames),
         at \in {"transform", "currency", "us_market", "benchmark", "quant", "tax",
                 "presentation", "check"}
  PROVE  (PlanTypeOK /\ WorkByStage /\ CommittedStore)'
<1>1. /\ at' = After[at] /\ dfs' = frames /\ runNo' = runNo /\ job' = job /\ work' = work
      /\ store' = store /\ outcome' = outcome /\ good' = good
  BY DEF Leaves
<1>2. at' \in {"currency", "us_market", "benchmark", "quant", "tax", "presentation",
               "check", "silver"}
  BY <1>1 DEF After
<1>3. DOMAIN After = {"transform", "currency", "us_market", "benchmark", "quant", "tax",
                      "presentation", "check", "silver", "gold"}
  BY DEF After
<1>4. PlanTypeOK'
  BY <1>1, <1>2, <1>3 DEF RunIInv, PlanTypeOK, IsWarehouse
<1>5. WorkByStage'
  <2>1. at \notin FromGold /\ at' \notin FromGold /\ at' # "gold" /\ at' # "meta"
    BY <1>2 DEF FromGold, FromMeta
  <2> QED  BY <1>1, <2>1 DEF RunIInv, WorkByStage
<1>6. CommittedStore'
  BY <1>1, <1>2 DEF RunIInv, CommittedStore, PublishedByOneRun, MetaDescribesStore
<1> QED  BY <1>4, <1>5, <1>6

RunKept == PlanTypeOK /\ FramesByStage /\ WorkByStage /\ CommittedStore

\* The reasons to raise are outcomes.
LEMMA WhyIs ==
  /\ "no_column" \in Outcomes /\ "key_error" \in Outcomes /\ "incomplete" \in Outcomes
  /\ "catalog" \in Outcomes /\ "investment_master" \in Outcomes /\ "failed" \in Outcomes
  BY DEF Outcomes

\* A stage that indexes dfs either raises or leaves more frames.
LEMMA StageIs ==
  ASSUME NEW name, NEW reads, NEW adds, Stage(name, reads, adds)
  PROVE  at = name /\ (Abort("key_error") \/ (reads \subseteq dfs /\ Leaves(dfs \cup adds)))
  BY Zenon DEF Stage

\* The transformation keeps the invariant.
LEMMA TransformKeeps ==
  ASSUME RunIInv, Transform PROVE RunKept'
<1>1. CASE Abort("no_column")  BY <1>1, WhyIs, AbortKeeps DEF RunKept
<1>2. CASE Leaves(TransformFrames)
  <2>1. at = "transform"  BY DEF Transform
  <2>2. TransformFrames \subseteq Frames /\ TransformFrames \subseteq EarlyFrames
    BY TransformsEarly, StagesAddFrames
  <2>3. (PlanTypeOK /\ WorkByStage /\ CommittedStore)'  BY <1>2, <2>1, <2>2, LeavesKeeps
  <2>4. at' = "currency" /\ dfs' = TransformFrames /\ job' = job  BY <1>2, <2>1 DEF Leaves, After
  <2>5. TransformFrames' = TransformFrames  BY <2>4, SameJob
  <2>6. FramesByStage'
    BY <2>2, <2>4, <2>5 DEF FramesByStage, FromCurrency, FromMarket, FromQuant, FromTax,
       FromPresentation, FromGold, FromMeta
  <2> QED  BY <2>3, <2>6 DEF RunKept
<1> QED  BY <1>1, <1>2 DEF Transform

\* The currency stage keeps the invariant.
LEMMA CurrencyKeeps ==
  ASSUME RunIInv, ProcessCurrency PROVE RunKept'
<1>1. at = "currency" /\ (Abort("key_error") \/ Leaves(dfs \cup {"df_f_currency_fx_rates"}))
  BY StageIs DEF ProcessCurrency
<1>2. CASE Abort("key_error")  BY <1>2, WhyIs, AbortKeeps DEF RunKept
<1>3. CASE Leaves(dfs \cup {"df_f_currency_fx_rates"})
  <2>1. "df_f_currency_fx_rates" \in EarlyFrames /\ EarlyFrames \subseteq Frames
    BY StagesAddFrames DEF EarlyFrames
  <2>2. TransformFrames \subseteq dfs /\ dfs \subseteq EarlyFrames
    BY <1>1 DEF RunIInv, FramesByStage, FromCurrency
  <2> DEFINE more == dfs \cup {"df_f_currency_fx_rates"}
  <2>3. more \subseteq Frames  BY <2>1, <2>2
  <2>4. (PlanTypeOK /\ WorkByStage /\ CommittedStore)'  BY <1>1, <1>3, <2>3, LeavesKeeps
  <2>5. at' = "us_market" /\ dfs' = more /\ job' = job  BY <1>1, <1>3 DEF Leaves, After
  <2>6. TransformFrames' = TransformFrames  BY <2>5, SameJob
  <2>7. FramesByStage'
    BY <2>1, <2>2, <2>3, <2>5, <2>6 DEF FramesByStage, FromCurrency, FromMarket, FromQuant,
       FromTax, FromPresentation, FromGold, FromMeta
  <2> QED  BY <2>4, <2>7 DEF RunKept
<1> QED  BY <1>1, <1>2, <1>3

\* The US market stage keeps the invariant.
LEMMA USMarketKeeps ==
  ASSUME RunIInv, ProcessUSMarket PROVE RunKept'
<1>1. at = "us_market" /\ (Abort("key_error") \/ Leaves(dfs \cup {"df_f_investment_market_data"}))
  BY StageIs DEF ProcessUSMarket
<1>2. CASE Abort("key_error")  BY <1>2, WhyIs, AbortKeeps DEF RunKept
<1>3. CASE Leaves(dfs \cup {"df_f_investment_market_data"})
  <2>1. "df_f_investment_market_data" \in EarlyFrames /\ EarlyFrames \subseteq Frames
    BY StagesAddFrames DEF EarlyFrames, AssetFrames
  <2>2. /\ TransformFrames \subseteq dfs /\ dfs \subseteq EarlyFrames
        /\ "df_f_currency_fx_rates" \in dfs
    BY <1>1 DEF RunIInv, FramesByStage, FromCurrency, FromMarket
  <2> DEFINE more == dfs \cup {"df_f_investment_market_data"}
  <2>3. more \subseteq Frames  BY <2>1, <2>2
  <2>4. (PlanTypeOK /\ WorkByStage /\ CommittedStore)'  BY <1>1, <1>3, <2>3, LeavesKeeps
  <2>5. at' = "benchmark" /\ dfs' = more /\ job' = job  BY <1>1, <1>3 DEF Leaves, After
  <2>6. TransformFrames' = TransformFrames  BY <2>5, SameJob
  <2>7. FramesByStage'
    BY <2>1, <2>2, <2>3, <2>5, <2>6 DEF FramesByStage, FromCurrency, FromMarket, FromQuant,
       FromTax, FromPresentation, FromGold, FromMeta
  <2> QED  BY <2>4, <2>7 DEF RunKept
<1> QED  BY <1>1, <1>2, <1>3

\* The benchmark stage keeps the invariant.
LEMMA BenchmarkKeeps ==
  ASSUME RunIInv, ProcessBenchmark PROVE RunKept'
<1> DEFINE adds == IF IsActive("benchmark_enrichment")
                     THEN {"df_f_investment_benchmark_data"} ELSE {}
           more == dfs \cup adds
<1>1. at = "benchmark" /\ (Abort("key_error") \/ Leaves(more))
  <2>1. Stage("benchmark", {}, adds)  BY DEF ProcessBenchmark
  <2> HIDE DEF adds
  <2> QED  BY <2>1, StageIs
<1>2. CASE Abort("key_error")  BY <1>2, WhyIs, AbortKeeps DEF RunKept
<1>3. CASE Leaves(more)
  <2>1. "df_f_investment_benchmark_data" \in EarlyFrames /\ EarlyFrames \subseteq Frames
    BY StagesAddFrames DEF EarlyFrames
  <2>2. /\ TransformFrames \subseteq dfs /\ dfs \subseteq EarlyFrames
        /\ "df_f_currency_fx_rates" \in dfs
    BY <1>1 DEF RunIInv, FramesByStage, FromCurrency, FromMarket
  <2>3. /\ more \subseteq Frames /\ more \subseteq EarlyFrames /\ dfs \subseteq more
        /\ IsActive("benchmark_enrichment") => "df_f_investment_benchmark_data" \in more
    BY <2>1, <2>2
  <2> HIDE DEF more
  <2>4. (PlanTypeOK /\ WorkByStage /\ CommittedStore)'  BY <1>1, <1>3, <2>3, LeavesKeeps
  <2>5. at' = "quant" /\ dfs' = more /\ job' = job  BY <1>1, <1>3 DEF Leaves, After
  <2>6. /\ TransformFrames' = TransformFrames
        /\ IsActive("benchmark_enrichment")' <=> IsActive("benchmark_enrichment")
    BY <2>5, SameJob
  <2>7. FramesByStage'
    BY <2>2, <2>3, <2>5, <2>6 DEF FramesByStage, FromCurrency, FromMarket, FromQuant,
       FromTax, FromPresentation, FromGold, FromMeta
  <2> QED  BY <2>4, <2>7 DEF RunKept
<1> QED  BY <1>1, <1>2, <1>3

\* The quant engine keeps the invariant.
LEMMA QuantKeeps ==
  ASSUME RunIInv, RunQuantEngine PROVE RunKept'
<1>1. at = "quant" /\ (Abort("key_error") \/ Leaves(dfs \cup QuantFrames))
  BY StageIs DEF RunQuantEngine
<1>2. CASE Abort("key_error")  BY <1>2, WhyIs, AbortKeeps DEF RunKept
<1>3. CASE Leaves(dfs \cup QuantFrames)
  <2>1. QuantFrames \subseteq LotFrames \cup SliceFrames
        /\ "df_f_investment_analytics_lot" \in QuantFrames
    BY QuantAdds
  <2>2. /\ TransformFrames \subseteq dfs /\ dfs \subseteq EarlyFrames /\ dfs \subseteq Frames
        /\ "df_f_currency_fx_rates" \in dfs
        /\ IsActive("benchmark_enrichment") => "df_f_investment_benchmark_data" \in dfs
    BY <1>1 DEF RunIInv, FramesByStage, FromCurrency, FromMarket, FromQuant
  <2> DEFINE more == dfs \cup QuantFrames
  <2>3. more \subseteq Frames /\ more \subseteq EarlyFrames \cup LotFrames \cup SliceFrames
    BY <2>1, <2>2, StagesAddFrames
  <2>4. (PlanTypeOK /\ WorkByStage /\ CommittedStore)'  BY <1>1, <1>3, <2>3, LeavesKeeps
  <2>5. at' = "tax" /\ dfs' = more /\ job' = job  BY <1>1, <1>3 DEF Leaves, After
  <2>6. /\ TransformFrames' = TransformFrames
        /\ IsActive("benchmark_enrichment")' <=> IsActive("benchmark_enrichment")
    BY <2>5, SameJob
  <2>7. FramesByStage'
    BY <2>1, <2>2, <2>3, <2>5, <2>6 DEF FramesByStage, FromCurrency, FromMarket, FromQuant,
       FromTax, FromPresentation, FromGold, FromMeta
  <2> QED  BY <2>4, <2>7 DEF RunKept
<1> QED  BY <1>1, <1>2, <1>3

\* The tax engine keeps the invariant.
LEMMA TaxKeeps ==
  ASSUME RunIInv, RunTaxEngine PROVE RunKept'
<1> DEFINE reads == {"df_f_income_transactions", "df_f_investment_realized_events",
                     "df_d_income_subcategory"}
           more == dfs \cup TaxFrames
<1>1. at = "tax" /\ (Abort("key_error") \/ (reads \subseteq dfs /\ Leaves(more)))
  BY StageIs DEF RunTaxEngine
<1>2. CASE Abort("key_error")  BY <1>2, WhyIs, AbortKeeps DEF RunKept
<1>3. CASE reads \subseteq dfs /\ Leaves(more)
  <2>1. TaxFrames \subseteq Frames  BY TaxAdds
  <2>2. /\ TransformFrames \subseteq dfs /\ dfs \subseteq Frames
        /\ "df_f_currency_fx_rates" \in dfs
        /\ IsActive("benchmark_enrichment") => "df_f_investment_benchmark_data" \in dfs
        /\ "df_f_investment_analytics_lot" \in dfs
    BY <1>1 DEF RunIInv, FramesByStage, FromCurrency, FromMarket, FromQuant, FromTax
  <2>3. more \subseteq Frames /\ "df_f_investment_realized_events" \in more
    BY <1>3, <2>1, <2>2
  <2>4. (PlanTypeOK /\ WorkByStage /\ CommittedStore)'  BY <1>1, <1>3, <2>3, LeavesKeeps
  <2>5. at' = "presentation" /\ dfs' = more /\ job' = job  BY <1>1, <1>3 DEF Leaves, After
  <2>6. /\ TransformFrames' = TransformFrames
        /\ IsActive("benchmark_enrichment")' <=> IsActive("benchmark_enrichment")
    BY <2>5, SameJob
  <2>7. FramesByStage'
    BY <2>1, <2>2, <2>3, <2>5, <2>6 DEF FramesByStage, FromCurrency, FromMarket, FromQuant,
       FromTax, FromPresentation, FromGold, FromMeta
  <2> QED  BY <2>4, <2>7 DEF RunKept
<1> QED  BY <1>1, <1>2, <1>3

\* From the presentation on, frames are only added.
LEMMA LaterFrames ==
  ASSUME RunIInv, at \in FromPresentation, at' \in FromPresentation, job' = job,
         dfs \subseteq dfs', dfs' \subseteq Frames
  PROVE  FramesByStage'
<1>1. /\ TransformFrames \subseteq dfs /\ "df_f_currency_fx_rates" \in dfs
      /\ IsActive("benchmark_enrichment") => "df_f_investment_benchmark_data" \in dfs
      /\ "df_f_investment_analytics_lot" \in dfs
      /\ "df_f_investment_realized_events" \in dfs /\ TaxFrames \subseteq dfs
  BY DEF RunIInv, FramesByStage, FromCurrency, FromMarket, FromQuant, FromTax
<1>2. /\ TransformFrames' = TransformFrames
      /\ IsActive("benchmark_enrichment")' <=> IsActive("benchmark_enrichment")
  BY SameJob
<1>3. at' \notin {"idle", "transform", "currency", "us_market", "benchmark", "quant", "tax"}
  BY DEF FromPresentation, FromGold, FromMeta
<1> QED  BY <1>1, <1>2, <1>3 DEF FramesByStage

\* The presentation engine keeps the invariant.
LEMMA PresentationKeeps ==
  ASSUME RunIInv, RunPresentationEngine PROVE RunKept'
<1>1. at = "presentation" /\ (Abort("key_error") \/ Leaves(dfs \cup WealthFrames))
  BY StageIs DEF RunPresentationEngine
<1>2. CASE Abort("key_error")  BY <1>2, WhyIs, AbortKeeps DEF RunKept
<1>3. CASE Leaves(dfs \cup WealthFrames)
  <2>1. dfs \cup WealthFrames \subseteq Frames  BY WealthAdds DEF RunIInv, FramesByStage
  <2>2. (PlanTypeOK /\ WorkByStage /\ CommittedStore)'  BY <1>1, <1>3, <2>1, LeavesKeeps
  <2>3. at' = "check" /\ dfs' = dfs \cup WealthFrames /\ job' = job
    BY <1>1, <1>3 DEF Leaves, After
  <2>4. at \in FromPresentation /\ at' \in FromPresentation
    BY <1>1, <2>3 DEF FromPresentation
  <2>5. dfs \subseteq dfs' /\ dfs' \subseteq Frames  BY <2>1, <2>3
  <2>6. FramesByStage'  BY <2>3, <2>4, <2>5, LaterFrames
  <2> QED  BY <2>2, <2>6 DEF RunKept
<1> QED  BY <1>1, <1>2, <1>3

\* The completeness check keeps the invariant.
LEMMA CheckKeeps ==
  ASSUME RunIInv, CheckCompleteness PROVE RunKept'
<1>1. at = "check" /\ (Abort("incomplete") \/ Leaves(dfs))  BY Zenon DEF CheckCompleteness
<1>2. CASE Abort("incomplete")  BY <1>2, WhyIs, AbortKeeps DEF RunKept
<1>3. CASE Leaves(dfs)
  <2>1. dfs \subseteq Frames  BY DEF RunIInv, FramesByStage
  <2>2. (PlanTypeOK /\ WorkByStage /\ CommittedStore)'  BY <1>1, <1>3, <2>1, LeavesKeeps
  <2>3. at' = "silver" /\ dfs' = dfs /\ job' = job  BY <1>1, <1>3 DEF Leaves, After
  <2>4. at \in FromPresentation /\ at' \in FromPresentation
    BY <1>1, <2>3 DEF FromPresentation
  <2>5. FramesByStage'  BY <2>1, <2>3, <2>4, LaterFrames
  <2> QED  BY <2>2, <2>5 DEF RunKept
<1> QED  BY <1>1, <1>2, <1>3

\* The layer is replaced, as the transaction sees it.
Loads(layer, schema) ==
  /\ at' = After[at]
  /\ work' = [work EXCEPT !.tables = Replaced(layer),
                          !.others = {t \in @ : t[1] # schema}]
  /\ UNCHANGED <<runNo, job, dfs, store, outcome, good>>

\* A load raises or replaces its layer.
LEMMA LoadIs ==
  ASSUME NEW layer, NEW ddl, NEW schema, Load(layer, ddl, schema)
  PROVE  Abort("catalog") \/ Loads(layer, schema)
  BY Zenon DEF Load, Loads

\* What the transaction has after a load.
LEMMA ReplacedIs ==
  ASSUME RunIInv, NEW layer, NEW schema, Loads(layer, schema)
  PROVE  /\ DOMAIN work' = WarehouseFields /\ IsWarehouse(work')
         /\ work'.tables = Replaced(layer)
         /\ work'.others = {t \in work.others : t[1] # schema}
<1>1. /\ DOMAIN work = WarehouseFields /\ IsWarehouse(work) /\ runNo \in 0..MaxRuns
  BY DEF RunIInv, WorkByStage, PlanTypeOK
<1>2. /\ DOMAIN work' = WarehouseFields /\ work'.counts = work.counts
      /\ work'.tables = Replaced(layer)
      /\ work'.others = {t \in work.others : t[1] # schema}
  BY <1>1 DEF Loads, WarehouseFields
<1>3. MaxRuns \in Nat  BY BoundAssumption
<1>4. Replaced(layer) \in [Analytical -> 0..MaxRuns]
  <2> SUFFICES ASSUME NEW d \in Analytical
               PROVE  (IF d \in layer THEN (IF Filled(d) THEN runNo ELSE 0) ELSE work.tables[d])
                        \in 0..MaxRuns
    BY DEF Replaced
  <2>1. work.tables[d] \in 0..MaxRuns  BY <1>1 DEF IsWarehouse
  <2>2. runNo \in 0..MaxRuns /\ 0 \in 0..MaxRuns  BY <1>1, <1>3
  <2> QED  BY <2>1, <2>2
<1> QED  BY <1>1, <1>2, <1>4 DEF IsWarehouse

\* Filled is about the frames of the job.
LEMMA SameFilled ==
  ASSUME job' = job, dfs' = dfs PROVE \A d : Filled(d)' <=> Filled(d)
  BY DEF Filled, HasRows

\* The Silver load keeps the invariant.
LEMMA SilverKeeps ==
  ASSUME RunIInv, LoadSilver PROVE RunKept'
<1>1. at = "silver" /\ (Abort("investment_master") \/ Load(SilverSets, SilverDDL, "silver"))
  BY Zenon DEF LoadSilver
<1>2. CASE Abort("investment_master")  BY <1>2, WhyIs, AbortKeeps DEF RunKept
<1>3. CASE Abort("catalog")  BY <1>3, WhyIs, AbortKeeps DEF RunKept
<1>4. CASE Loads(SilverSets, "silver")
  <2>1. /\ at' = "gold" /\ runNo' = runNo /\ job' = job /\ dfs' = dfs /\ store' = store
        /\ outcome' = outcome /\ good' = good
    BY <1>1, <1>4 DEF Loads, After
  <2>2. at \in FromPresentation /\ at' \in FromPresentation
    BY <1>1, <2>1 DEF FromPresentation, FromGold
  <2>3. /\ DOMAIN work' = WarehouseFields /\ IsWarehouse(work')
        /\ work'.tables = Replaced(SilverSets)
        /\ work'.others = {t \in work.others : t[1] # "silver"}
    BY <1>4, ReplacedIs
  <2>4. dfs \subseteq Frames /\ work = store
    BY <1>1 DEF RunIInv, FramesByStage, WorkByStage, FromGold, FromMeta
  <2>5. FramesByStage'  BY <2>1, <2>2, <2>4, LaterFrames
  <2>6. PlanTypeOK'
    BY <2>1, <2>3 DEF RunIInv, PlanTypeOK, IsWarehouse, After
  <2>7. WorkByStage'
    <3>1. \A d \in SilverSets : work'.tables[d] = IF Filled(d)' THEN runNo' ELSE 0
      <4>1. \A d \in SilverSets : d \in Analytical  BY LayersAre
      <4> QED  BY <2>1, <2>3, <4>1, SameFilled DEF Replaced
    <3>2. work'.others = {t \in store'.others : t[1] # "silver"}  BY <2>1, <2>3, <2>4
    <3> QED  BY <2>1, <2>3, <3>1, <3>2 DEF WorkByStage, FromGold, FromMeta
  <2>8. CommittedStore'
    BY <1>1, <2>1 DEF RunIInv, CommittedStore, PublishedByOneRun, MetaDescribesStore
  <2> QED  BY <2>5, <2>6, <2>7, <2>8 DEF RunKept
<1> QED  BY <1>1, <1>2, <1>3, <1>4, LoadIs

\* The Gold load keeps the invariant.
LEMMA GoldKeeps ==
  ASSUME RunIInv, LoadGold PROVE RunKept'
<1>1. at = "gold" /\ Load(GoldSets, GoldDDL, "gold")  BY DEF LoadGold
<1>2. CASE Abort("catalog")  BY <1>2, WhyIs, AbortKeeps DEF RunKept
<1>3. CASE Loads(GoldSets, "gold")
  <2>1. /\ at' = "meta" /\ runNo' = runNo /\ job' = job /\ dfs' = dfs /\ store' = store
        /\ outcome' = outcome /\ good' = good
    BY <1>1, <1>3 DEF Loads, After
  <2>2. at \in FromPresentation /\ at' \in FromPresentation
    BY <1>1, <2>1 DEF FromPresentation, FromGold, FromMeta
  <2>3. /\ DOMAIN work' = WarehouseFields /\ IsWarehouse(work')
        /\ work'.tables = Replaced(GoldSets)
        /\ work'.others = {t \in work.others : t[1] # "gold"}
    BY <1>3, ReplacedIs
  <2>4. /\ dfs \subseteq Frames
        /\ \A d \in SilverSets : work.tables[d] = IF Filled(d) THEN runNo ELSE 0
        /\ work.others = {t \in store.others : t[1] # "silver"}
    BY <1>1 DEF RunIInv, FramesByStage, WorkByStage
  <2>5. FramesByStage'  BY <2>1, <2>2, <2>4, LaterFrames
  <2>6. PlanTypeOK'
    BY <2>1, <2>3 DEF RunIInv, PlanTypeOK, IsWarehouse, After
  <2>7. WorkByStage'
    <3>1. \A d \in Analytical : work'.tables[d] = IF Filled(d)' THEN runNo' ELSE 0
      <4> SUFFICES ASSUME NEW d \in Analytical
                   PROVE  Replaced(GoldSets)[d] = IF Filled(d) THEN runNo ELSE 0
        BY <2>1, <2>3, SameFilled
      <4>1. d \in SilverSets \/ d \in GoldSets  BY LayersAre
      <4>2. Replaced(GoldSets)[d]
              = IF d \in GoldSets THEN (IF Filled(d) THEN runNo ELSE 0) ELSE work.tables[d]
        BY DEF Replaced
      <4> QED  BY <2>4, <4>1, <4>2
    <3>2. work'.others = {t \in store'.others : t[1] # "silver" /\ t[1] # "gold"}
      BY <2>1, <2>3, <2>4
    <3> QED  BY <2>1, <2>3, <3>1, <3>2 DEF WorkByStage, FromGold, FromMeta
  <2>8. CommittedStore'
    BY <1>1, <2>1 DEF RunIInv, CommittedStore, PublishedByOneRun, MetaDescribesStore
  <2> QED  BY <2>5, <2>6, <2>7, <2>8 DEF RunKept
<1> QED  BY <1>1, <1>2, <1>3, LoadIs

\* The commit.
LEMMA MetaKeeps ==
  ASSUME RunIInv, LoadMeta PROVE RunKept'
<1> DEFINE kept == {t \in work.others : t[1] \in PersistedSchemas => t \in ContractTables}
           rows == [f \in dfs |-> HasRows(f)]
<1>1. /\ at = "meta" /\ at' = "idle" /\ outcome' = "success" /\ good' = runNo /\ job' = NoJob
      /\ dfs' = {} /\ runNo' = runNo /\ store' = work'
      /\ work' = [work EXCEPT !.others = kept, !.counts = rows]
  BY DEF LoadMeta
<1>2. /\ DOMAIN work = WarehouseFields /\ IsWarehouse(work)
      /\ \A d \in Analytical : work.tables[d] = IF Filled(d) THEN runNo ELSE 0
      /\ work.others = {t \in store.others : t[1] # "silver" /\ t[1] # "gold"}
  BY <1>1 DEF RunIInv, PlanTypeOK, WorkByStage
<1>3. /\ DOMAIN work' = WarehouseFields /\ work'.tables = work.tables
      /\ work'.others = kept /\ work'.counts = rows
  <2> HIDE DEF kept, rows
  <2> QED  BY <1>1, <1>2 DEF WarehouseFields
<1>4. /\ runNo \in 0..MaxRuns /\ runNo >= 1 /\ MaxRuns \in Nat /\ dfs \subseteq Frames
      /\ store.others \subseteq OtherTables
      /\ good = 0 => store.others = OtherTables
      /\ good # 0 => store.others = OtherTables \cap ContractTables
  BY <1>1, BoundAssumption DEF RunIInv, PlanTypeOK, FramesByStage, CommittedStore,
     MetaDescribesStore, IsWarehouse
<1>5. kept = OtherTables \cap ContractTables
  <2>1. kept \subseteq OtherTables \cap ContractTables
    <3> SUFFICES ASSUME NEW t \in kept PROVE t \in OtherTables /\ t \in ContractTables
      OBVIOUS
    <3>1. t \in OtherTables  BY <1>2, <1>4
    <3>2. t[1] \in PersistedSchemas  BY <3>1, OtherTablesAssumption
    <3> QED  BY <3>1, <3>2
  <2>2. ASSUME NEW t \in OtherTables, t \in ContractTables PROVE t \in kept
    <3>1. t[1] # "silver" /\ t[1] # "gold"  BY <2>2, OtherTablesAssumption
    <3>2. t \in store.others  BY <1>4, <2>2
    <3> QED  BY <1>2, <2>2, <3>1, <3>2
  <2> HIDE DEF kept
  <2> QED  BY <2>1, <2>2
<1>6. DOMAIN rows = dfs /\ \A f \in dfs : rows[f] = HasRows(f)  OBVIOUS
<1> HIDE DEF kept, rows
<1>7. IsWarehouse(work')  BY <1>2, <1>3, <1>4, <1>5, <1>6 DEF IsWarehouse
<1>8. PlanTypeOK'
  BY <1>1, <1>4, <1>7, NoJobsType DEF RunIInv, PlanTypeOK, IsWarehouse, Outcomes
<1>9. FramesByStage'
  BY <1>1 DEF FramesByStage, FromCurrency, FromMarket, FromQuant, FromTax,
      FromPresentation, FromGold, FromMeta
<1>10. WorkByStage'
  BY <1>1, <1>3 DEF WorkByStage, FromGold, FromMeta
<1>11. \A d \in Analytical : store'.tables[d] = IF Filled(d) THEN runNo ELSE 0
  BY <1>1, <1>2, <1>3
<1>12. PublishedByOneRun'  BY <1>1, <1>11 DEF PublishedByOneRun
<1>13. MetaDescribesStore'
  <2> SUFFICES ASSUME NEW d \in Analytical
               PROVE  store'.tables[d] # 0 <=>
                        Frame(d) \in DOMAIN store'.counts /\ store'.counts[Frame(d)]
    BY <1>1, <1>3, <1>5 DEF MetaDescribesStore
  <2>1. store'.tables[d] # 0 <=> Filled(d)  BY <1>4, <1>11
  <2>2. store'.counts = rows  BY <1>1, <1>3
  <2>3. Filled(d) <=> Frame(d) \in DOMAIN rows /\ rows[Frame(d)]
    <3>1. Filled(d) <=> Frame(d) \in dfs /\ HasRows(Frame(d))  BY DEF Filled
    <3>2. Frame(d) \in dfs => rows[Frame(d)] = HasRows(Frame(d))  BY <1>6
    <3>3. DOMAIN rows = dfs  BY <1>6
    <3> QED  BY <3>1, <3>2, <3>3, Zenon
  <2> QED  BY <2>1, <2>2, <2>3
<1>14. CommittedStore'
  BY <1>1, <1>3, <1>4, <1>12, <1>13 DEF CommittedStore
<1> QED  BY <1>8, <1>9, <1>10, <1>14 DEF RunKept

\* A run begins, or its sources do not compile.
LEMMA StartKeeps ==
  ASSUME RunIInv, NEW request \in Requests, NEW config \in Configs, NEW volume \in Books,
         NEW rowless \in Rowless, NEW badMaster \in BOOLEAN,
         Start(request, config, volume, rowless, badMaster)
  PROVE  RunKept'
<1>1. /\ at = "idle" /\ runNo < MaxRuns /\ runNo' = runNo + 1
      /\ dfs' = dfs /\ work' = work /\ store' = store /\ good' = good
  BY DEF Start
<1>2. /\ runNo \in 0..MaxRuns /\ MaxRuns \in Nat /\ good \in 0..runNo /\ dfs = {} /\ work = store
  BY <1>1, BoundAssumption
     DEF RunIInv, PlanTypeOK, FramesByStage, WorkByStage, FromGold, FromMeta
<1>3. runNo' \in 0..MaxRuns /\ good' \in 0..runNo' /\ runNo' >= 1  BY <1>1, <1>2
<1>4. /\ at' \in {"idle", "transform"} /\ outcome' \in {"running", "source_error"}
      /\ job' = job \/ job' = Job(request, volume, rowless, badMaster)
  BY <1>1, Zenon DEF Start
<1>5. job'.requested \in Requests \cup {{}} /\ job'.book \in Books
  BY <1>4, JobIs DEF RunIInv, PlanTypeOK
<1>6. PlanTypeOK'
  BY <1>1, <1>3, <1>4, <1>5 DEF RunIInv, PlanTypeOK, IsWarehouse, Outcomes, After
<1>7. FramesByStage'
  BY <1>1, <1>2, <1>4 DEF FramesByStage, FromCurrency, FromMarket, FromQuant, FromTax,
      FromPresentation, FromGold, FromMeta
<1>8. WorkByStage'
  BY <1>1, <1>2, <1>4 DEF RunIInv, CommittedStore, WorkByStage, FromGold, FromMeta
<1>9. CommittedStore'
  BY <1>1, <1>3 DEF RunIInv, CommittedStore, PublishedByOneRun, MetaDescribesStore
<1> QED  BY <1>6, <1>7, <1>8, <1>9 DEF RunKept

\* The invariant, initially.
LEMMA RunInit == PlanInit => RunIInv
<1> SUFFICES ASSUME PlanInit PROVE RunIInv  OBVIOUS
<1>1. /\ at = "idle" /\ runNo = 0 /\ job = NoJob /\ dfs = {} /\ work = store
      /\ outcome = "none" /\ good = 0
      /\ store = [ tables |-> [d \in Analytical |-> 0], others |-> OtherTables,
                   counts |-> <<>> ]
  BY DEF PlanInit
<1>2. MaxRuns \in Nat  BY BoundAssumption
<1>3. /\ DOMAIN store = WarehouseFields /\ store.tables = [d \in Analytical |-> 0]
      /\ store.others = OtherTables /\ store.counts = <<>>
  BY <1>1 DEF WarehouseFields
<1>4. IsWarehouse(store)
  <2>1. [d \in Analytical |-> 0] \in [Analytical -> 0..MaxRuns]  BY <1>2
  <2>2. DOMAIN (<<>>) = {}  OBVIOUS
  <2> QED  BY <1>3, <2>1, <2>2 DEF IsWarehouse
<1>5. PlanOfTheJob  BY <1>1, NoJobIs DEF PlanOfTheJob
<1>6. PlanTypeOK  BY <1>1, <1>2, <1>4, NoJobsType DEF PlanTypeOK, Outcomes
<1>7. FramesByStage
  BY <1>1 DEF FramesByStage, FromCurrency, FromMarket, FromQuant, FromTax,
      FromPresentation, FromGold, FromMeta
<1>8. WorkByStage  BY <1>1, <1>3 DEF WorkByStage, FromGold, FromMeta
<1>9. CommittedStore
  BY <1>1, <1>3 DEF CommittedStore, PublishedByOneRun, MetaDescribesStore
<1> QED  BY <1>5, <1>6, <1>7, <1>8, <1>9 DEF RunIInv

\* The invariant is kept.
LEMMA RunStep == RunIInv /\ [PlanNext]_planVars => RunIInv'
<1> SUFFICES ASSUME RunIInv, [PlanNext]_planVars PROVE RunIInv'  OBVIOUS
<1>1. PlanOfTheJob'  BY JobStep DEF RunIInv
<1>2. RunKept'
  <2>1. ASSUME NEW request \in Requests, NEW config \in Configs, NEW volume \in Books,
               NEW rowless \in Rowless, NEW badMaster \in BOOLEAN,
               Start(request, config, volume, rowless, badMaster)
        PROVE  RunKept'
    BY <2>1, StartKeeps
  <2>2. CASE Transform  BY <2>2, TransformKeeps
  <2>3. CASE ProcessCurrency  BY <2>3, CurrencyKeeps
  <2>4. CASE ProcessUSMarket  BY <2>4, USMarketKeeps
  <2>5. CASE ProcessBenchmark  BY <2>5, BenchmarkKeeps
  <2>6. CASE RunQuantEngine  BY <2>6, QuantKeeps
  <2>7. CASE RunTaxEngine  BY <2>7, TaxKeeps
  <2>8. CASE RunPresentationEngine  BY <2>8, PresentationKeeps
  <2>9. CASE CheckCompleteness  BY <2>9, CheckKeeps
  <2>10. CASE LoadSilver  BY <2>10, SilverKeeps
  <2>11. CASE LoadGold  BY <2>11, GoldKeeps
  <2>12. CASE LoadMeta  BY <2>12, MetaKeeps
  <2>13. CASE Fails  BY <2>13, WhyIs, AbortKeeps DEF Fails, RunKept
  <2>14. CASE UNCHANGED planVars
    BY <2>14 DEF planVars, RunIInv, RunKept, PlanTypeOK, IsWarehouse, FramesByStage, WorkByStage,
       CommittedStore, PublishedByOneRun, MetaDescribesStore, TransformFrames, IsActive, plan,
       Filled, HasRows
  <2> QED  BY <2>1, <2>2, <2>3, <2>4, <2>5, <2>6, <2>7, <2>8, <2>9, <2>10, <2>11, <2>12,
              <2>13, <2>14 DEF PlanNext
<1> QED  BY <1>1, <1>2 DEF RunIInv, RunKept

\* The invariant holds throughout.
LEMMA RunInvariant == PlanSpec => []RunIInv
  BY RunInit, RunStep, PTL DEF PlanSpec

\* StoreIsOneRun: whichever stages fail, and however many runs there were, the
\* Silver and Gold tables of the warehouse are those of the last run that
\* committed, and its metadata counts them: a run writes inside one transaction.
THEOREM OneRunPublished == PlanSpec => []StoreIsOneRun
<1>1. RunIInv => StoreIsOneRun  BY DEF RunIInv, CommittedStore, StoreIsOneRun
<1> QED  BY <1>1, RunInvariant, PTL

\* Gold from Silver.
LEMMA FinishedFirst == RunIInv => BuiltFromFinishedInputs
<1> SUFFICES ASSUME RunIInv, NEW g \in GoldSets, Frame(g) \in dfs,
                    NEW s \in GoldInputs[g], s \in Expected(plan)
             PROVE  Frame(s) \in dfs
  BY DEF BuiltFromFinishedInputs
<1>1. \/ g \in MartSets /\ Frame(g) \in MartFrames
      \/ g \in SliceSets /\ Frame(g) \in SliceFrames
  <2>1. g \in MartSets \/ g \in SliceSets  BY LayersAre
  <2>2. g \in MartSets => Frame(g) \in MartFrames  BY MartsFrames
  <2>3. g \in SliceSets => Frame(g) \in SliceFrames  BY DEF SliceFrames
  <2> QED  BY <2>1, <2>2, <2>3
<1>2. s = "investment_benchmark_data" => IsActive("benchmark_enrichment")
  BY BenchmarkIsPlanned DEF RunIInv
<1>3. Frame("investment_benchmark_data") = "df_f_investment_benchmark_data"
  BY FactFramesAre
<1>4. at \notin {"idle", "transform", "currency", "us_market", "benchmark", "quant"}
  <2>1. at \in {"idle", "transform", "currency", "us_market", "benchmark", "quant"}
           => dfs \subseteq EarlyFrames
    BY DEF RunIInv, FramesByStage
  <2> QED  BY <1>1, <2>1, EarlyIsSilver
<1>5. at \in FromTax
  <2>1. at \in DOMAIN After \cup {"meta", "idle"}  BY DEF RunIInv, PlanTypeOK
  <2>2. DOMAIN After = {"transform", "currency", "us_market", "benchmark", "quant", "tax",
                        "presentation", "check", "silver", "gold"}
    BY DEF After
  <2> QED  BY <1>4, <2>1, <2>2 DEF FromTax, FromPresentation, FromGold, FromMeta
<1>6. /\ TransformFrames \subseteq dfs /\ "df_f_currency_fx_rates" \in dfs
      /\ IsActive("benchmark_enrichment") => "df_f_investment_benchmark_data" \in dfs
      /\ "df_f_investment_analytics_lot" \in dfs
  BY <1>5 DEF RunIInv, FramesByStage, FromCurrency, FromMarket, FromQuant
<1>7. SliceSources \subseteq dfs
  BY <1>6, TransformsEarly DEF SliceSources, DimensionFrames, AssetFrames
<1>8. CASE g \in SliceSets
  <2>1. s = "investment_benchmark_data" \/ Frame(s) \in SliceSources  BY <1>8, SlicesRead
  <2> QED  BY <1>2, <1>3, <1>6, <1>7, <2>1
<1>9. CASE g \in MartSets /\ Frame(g) \in MartFrames
  <2>1. at # "tax"
    <3>1. at = "tax" => dfs \subseteq EarlyFrames \cup LotFrames \cup SliceFrames
      BY DEF RunIInv, FramesByStage
    <3> QED  BY <1>9, <3>1, EarlyIsSilver
  <2>2. "df_f_investment_realized_events" \in dfs /\ TaxFrames \subseteq dfs
    BY <1>5, <2>1 DEF RunIInv, FramesByStage, FromTax
  <2>3. MartSources \subseteq dfs
    BY <1>6, <2>2, TransformsEarly, TaxAdds DEF MartSources, AssetFrames
  <2> QED  BY <1>9, <2>3, MartsRead
<1> QED  BY <1>1, <1>8, <1>9

\* BuiltFromFinishedInputs: the stages run in such an order that every Gold mart
\* of the plan finds the frames of all planned datasets it is declared to read,
\* although the builders would take a missing frame for an empty one.
THEOREM GoldFromFinished == PlanSpec => []BuiltFromFinishedInputs
  BY FinishedFirst, RunInvariant, PTL
=============================================================================
