---------------------------- MODULE WorkerMonitor ----------------------------
(***************************************************************************)
(* A pipeline run as the front ends see it.  Every run is a child process  *)
(* whose events go through a multiprocessing queue: a buffer in the child, *)
(* a feeder thread, a pipe.  In the parent a thread per run polls the      *)
(* queue, hands each event to on_status, and when the child has ended      *)
(* without a terminal event makes one from its exit code.  on_status frees *)
(* the front end: the CLI waits for a completion event, the desktop for    *)
(* its run button.  Leaving the parent terminates its daemonic children.   *)
(*                                                                         *)
(* An event is its code where code, kind, outcome and progress decide what *)
(* a reader does with it.  RunCommit models what the commits do in detail. *)
(***************************************************************************)
EXTENDS Naturals, Sequences

CONSTANTS
    Modes,             \* the front ends: "cron", "interactive", "desktop"
    MaxRuns,           \* bound on the runs one front end starts
    MaxEntityFailures, \* bound on the entity failures one run reports
    Capacity           \* of the pipe, in events

ASSUME WorkerAssumption ==
    /\ Modes \subseteq {"cron", "interactive", "desktop"}
    /\ MaxRuns \in Nat /\ MaxEntityFailures \in Nat /\ Capacity \in Nat

VARIABLES
    mode, screen, \* the front end: "ready" to start a run, "waiting", "closed"
    launched,     \* the number of runs started
    pc,           \* the child of each run
    exit,         \* how it ends, its exit code once it is dead
    holder,       \* the run that has DuckDB and pipeline.lock open, 0: none
    duck, sqlite, \* whether the run is durable in the two stores
    emitted,      \* the events the child has put on its queue
    piped, read,  \* how many the feeder has written, the parent has read
    mpc,          \* the monitor thread of each run
    seen,         \* its terminal_seen
    raised,       \* observation only: an on_status call of it raised
    reports       \* observation only: the terminal events on_status got

front == <<mode, screen, launched>>
child == <<pc, exit, holder, duck, sqlite, emitted>>
monitor == <<mpc, seen, raised, reports, read>>
vars == <<front, child, piped, monitor>>

Runs == 1..MaxRuns

-----------------------------------------------------------------------------
(* Events. *)

Terminal == {"runCompleted", "runFailed"}

\* progress = 1.0
FullProgress == {"marketSynced", "goldReplaced", "runCompleted"}

\* presentation_kind FAILURE
Failures == {"entityFailed", "runFailed"}

Events == {"runStart", "teardown"} \cup FullProgress \cup Failures

\* What sets the completion event of the CLI: a terminal code or the
\* teardown, else a success at full progress or a failed outcome.
CliCompletes(e) == e \in Terminal \cup {"teardown"} \cup FullProgress \cup Failures

\* What enables the run button: it ignores INTERNAL events (the teardown).
DesktopEnables(e) == e \in FullProgress \cup Failures

\* Each CLI iteration waits for its own run, the desktop has one button.
Frees(r, e) ==
    IF mode = "desktop" THEN DesktopEnables(e) ELSE r = launched /\ CliCompletes(e)

-----------------------------------------------------------------------------
(* The child: process_wrapper, ETLOrchestrator.run and the exit of the     *)
(* interpreter, which joins the feeder of the queue.                       *)

Working == {"phases", "publish", "duckdb", "sqlite", "finish"}

Living == {"configure", "initialize", "handling", "teardown", "close", "flush"}
              \cup Working

At(r, from, to) == pc[r] = from /\ pc' = [pc EXCEPT ![r] = to]

Emit(r, e) == emitted' = [emitted EXCEPT ![r] = Append(@, e)]

\* Ends that leave the buffer of the queue unwritten.
Cut == {"killed", "terminated"}

Ends(r, how) == exit' = [exit EXCEPT ![r] = how]

\* process_wrapper reads the settings before it has an orchestrator: an
\* error there is reported by nobody but the exit code.
Configure(r) ==
    /\ \/ At(r, "configure", "initialize") /\ UNCHANGED exit
       \/ At(r, "configure", "flush") /\ Ends(r, "error")
    /\ UNCHANGED <<holder, duck, sqlite, emitted>>

\* lifecycle.initialize: DuckDB and pipeline.lock admit one process.  An
\* exception may come before or after they are open.
Initialize(r) ==
    /\ \/ /\ At(r, "initialize", "phases")
          /\ holder = 0 /\ holder' = r
          /\ Emit(r, "runStart")
       \/ /\ At(r, "initialize", "handling")
          /\ holder' = holder \/ (holder = 0 /\ holder' = r)
          /\ UNCHANGED emitted
    /\ UNCHANGED <<exit, duck, sqlite>>

EntityFailures(r) ==
    Len(SelectSeq(emitted[r], LAMBDA e : e = "entityFailed"))

\* Phases 1 to 4.  A failing ticker, instrument or validation is reported at
\* once, the run fails later if at all.
ReportEntityFailure(r) ==
    /\ pc[r] = "phases"
    /\ EntityFailures(r) < MaxEntityFailures
    /\ Emit(r, "entityFailed")
    /\ UNCHANGED <<pc, exit, holder, duck, sqlite>>

\* A plan without market data skips the synchronization and its report.
SyncMarket(r) ==
    /\ At(r, "phases", "publish")
    /\ Emit(r, "marketSynced") \/ UNCHANGED emitted
    /\ UNCHANGED <<exit, holder, duck, sqlite>>

\* Phase 5: the success event precedes the metadata and both commits.
PublishGold(r) ==
    /\ At(r, "publish", "duckdb")
    /\ Emit(r, "goldReplaced")
    /\ UNCHANGED <<exit, holder, duck, sqlite>>

CommitDuckDB(r) ==
    /\ At(r, "duckdb", "sqlite")
    /\ duck' = [duck EXCEPT ![r] = TRUE]
    /\ UNCHANGED <<exit, holder, sqlite, emitted>>

CommitSQLite(r) ==
    /\ At(r, "sqlite", "finish")
    /\ sqlite' = [sqlite EXCEPT ![r] = TRUE]
    /\ UNCHANGED <<exit, holder, duck, emitted>>

Complete(r) ==
    /\ At(r, "finish", "teardown")
    /\ Emit(r, "runCompleted") /\ Ends(r, "clean")
    /\ UNCHANGED <<holder, duck, sqlite>>

\* An exception in a phase, in a commit or in what follows the commits.
Raise(r) ==
    /\ pc[r] \in Working
    /\ pc' = [pc EXCEPT ![r] = "handling"]
    /\ UNCHANGED <<exit, holder, duck, sqlite, emitted>>

\* Faulty: the orchestrator keeps the exception to itself.
HandleFailureQuietly(r) ==
    /\ At(r, "handling", "teardown")
    /\ Emit(r, "runFailed") \/ UNCHANGED emitted
    /\ Ends(r, "clean")
    /\ UNCHANGED <<holder, duck, sqlite>>

\* handle_failure, whose last act is the event: it may raise before that.
HandleFailure(r) ==
    /\ At(r, "handling", "teardown")
    /\ Emit(r, "runFailed") \/ UNCHANGED emitted
    /\ Ends(r, "error")
    /\ UNCHANGED <<holder, duck, sqlite>>

BeginTeardown(r) ==
    /\ At(r, "teardown", "close")
    /\ Emit(r, "teardown")
    /\ UNCHANGED <<exit, holder, duck, sqlite>>

Released(r) == IF holder = r THEN 0 ELSE holder

\* Stopping the listener, archiving the trace, closing the stores.  An
\* exception leaves the closing to the end of the process.
Close(r) ==
    /\ At(r, "close", "flush")
    /\ \/ holder' = Released(r) /\ UNCHANGED exit
       \/ UNCHANGED holder /\ Ends(r, "error")
    /\ UNCHANGED <<duck, sqlite, emitted>>

\* The interpreter joins the feeder before it ends.
EndProcess(r) ==
    /\ At(r, "flush", "dead")
    /\ piped[r] = Len(emitted[r])
    /\ holder' = Released(r)
    /\ UNCHANGED <<exit, duck, sqlite, emitted>>

\* From outside; what the feeder has not written is lost.
Kill(r) ==
    /\ pc[r] \in Living
    /\ pc' = [pc EXCEPT ![r] = "dead"]
    /\ Ends(r, "killed")
    /\ holder' = Released(r)
    /\ UNCHANGED <<duck, sqlite, emitted, piped, front, monitor>>

Worker(r) ==
    /\ \/ Configure(r) \/ Initialize(r) \/ ReportEntityFailure(r)
       \/ SyncMarket(r) \/ PublishGold(r) \/ CommitDuckDB(r)
       \/ CommitSQLite(r) \/ Complete(r) \/ Raise(r) \/ HandleFailure(r)
       \/ BeginTeardown(r) \/ Close(r) \/ EndProcess(r)
    /\ UNCHANGED <<piped, front, monitor>>

\* Faulty: the feeder takes the next event whether there is one or not.
FeedAhead(r) ==
    /\ pc[r] \in Living
    /\ piped[r] - read[r] < Capacity
    /\ piped' = [piped EXCEPT ![r] = @ + 1]
    /\ UNCHANGED <<front, child, monitor>>

\* The feeder thread of the queue, in the child.
Feed(r) ==
    /\ pc[r] \in Living
    /\ piped[r] < Len(emitted[r]) /\ piped[r] - read[r] < Capacity
    /\ piped' = [piped EXCEPT ![r] = @ + 1]
    /\ UNCHANGED <<front, child, monitor>>

-----------------------------------------------------------------------------
(* The monitor thread: while process.is_alive() or not queue.empty().      *)

MonitorAt(r, from, to) == mpc[r] = from /\ mpc' = [mpc EXCEPT ![r] = to]

\* Faulty: while process.is_alive(), whatever is still in the pipe.
CheckAliveOnly(r) ==
    /\ MonitorAt(r, "alive", IF pc[r] = "dead" THEN "exit" ELSE "get")
    /\ UNCHANGED <<seen, raised, reports, read, screen>>

CheckAlive(r) ==
    /\ MonitorAt(r, "alive", IF pc[r] = "dead" THEN "empty" ELSE "get")
    /\ UNCHANGED <<seen, raised, reports, read, screen>>

CheckEmpty(r) ==
    /\ MonitorAt(r, "empty", IF read[r] = piped[r] THEN "exit" ELSE "get")
    /\ UNCHANGED <<seen, raised, reports, read, screen>>

\* get(timeout=0.1) raises queue.Empty.
TimeOut(r) ==
    /\ read[r] = piped[r]
    /\ MonitorAt(r, "get", "alive")
    /\ UNCHANGED <<seen, raised, reports, read, screen>>

\* on_status: it frees the front end, or it raises before it could.
OnStatus(r, e) ==
    /\ raised' = raised
    /\ reports' = IF e \in Terminal
                  THEN [reports EXCEPT ![r] = Append(@, e)] ELSE reports
    /\ screen' = IF screen = "waiting" /\ Frees(r, e) THEN "ready" ELSE screen

OnStatusRaises(r) ==
    /\ raised' = [raised EXCEPT ![r] = TRUE]
    /\ UNCHANGED <<reports, screen>>

\* Any exception but queue.Empty ends the loop.
Receive(r) ==
    /\ read[r] < piped[r]
    /\ read' = [read EXCEPT ![r] = @ + 1]
    /\ LET e == emitted[r][read[r] + 1] IN
       /\ seen' = [seen EXCEPT ![r] = @ \/ e \in Terminal]
       /\ \/ MonitorAt(r, "get", "alive") /\ OnStatus(r, e)
          \/ MonitorAt(r, "get", "exit") /\ OnStatusRaises(r)

\* Faulty: terminal_seen is not consulted.
EmitExitStatusAgain(r) ==
    /\ MonitorAt(r, "exit", "done")
    /\ UNCHANGED <<seen, read>>
    /\ IF pc[r] # "dead"
       THEN UNCHANGED <<raised, reports, screen>>
       ELSE OnStatus(r, IF exit[r] = "clean" THEN "runCompleted" ELSE "runFailed")

\* Faulty: only positive exit codes are failures, a signal has a negative one.
EmitExitStatusPositive(r) ==
    /\ MonitorAt(r, "exit", "done")
    /\ UNCHANGED <<seen, read>>
    /\ IF seen[r] \/ pc[r] # "dead" \/ exit[r] = "killed"
       THEN UNCHANGED <<raised, reports, screen>>
       ELSE OnStatus(r, IF exit[r] = "clean" THEN "runCompleted" ELSE "runFailed")

\* _emit_exit_status: silent after a terminal event and while the exit code
\* is None.
EmitExitStatus(r) ==
    /\ MonitorAt(r, "exit", "done")
    /\ UNCHANGED <<seen, read>>
    /\ IF seen[r] \/ pc[r] # "dead"
       THEN UNCHANGED <<raised, reports, screen>>
       ELSE \/ OnStatus(r, IF exit[r] = "clean" THEN "runCompleted" ELSE "runFailed")
            \/ OnStatusRaises(r)

Monitor(r) ==
    /\ CheckAlive(r) \/ CheckEmpty(r) \/ TimeOut(r) \/ Receive(r)
          \/ EmitExitStatus(r)
    /\ UNCHANGED <<mode, launched, child, piped>>

-----------------------------------------------------------------------------
(* The front end. *)

\* run_pipeline_async: spawn the child, start its monitor.
Launch(r) ==
    /\ screen = "ready"
    /\ r = launched + 1
    /\ mode = "cron" => r = 1
    /\ screen' = "waiting" /\ launched' = r
    /\ pc' = [pc EXCEPT ![r] = "configure"]
    /\ mpc' = [mpc EXCEPT ![r] = "alive"]
    /\ UNCHANGED <<mode, exit, holder, duck, sqlite, emitted, piped, seen,
                   raised, reports, read>>

\* sys.exit: the daemon threads stop and the daemonic children are killed.
\* A cron run leaves once its wait is over, the user leaves at any time.
Leave ==
    /\ screen # "closed"
    /\ mode = "cron" => screen = "ready" /\ launched = 1
    /\ screen' = "closed"
    /\ pc' = [r \in Runs |-> IF pc[r] \in Living THEN "dead" ELSE pc[r]]
    /\ exit' = [r \in Runs |-> IF pc[r] \in Living THEN "terminated" ELSE exit[r]]
    /\ holder' = 0
    /\ mpc' = [r \in Runs |-> IF mpc[r] \in {"idle", "done"} THEN mpc[r] ELSE "stopped"]
    /\ UNCHANGED <<mode, launched, duck, sqlite, emitted, piped, seen, raised,
                   reports, read>>

-----------------------------------------------------------------------------

Init ==
    /\ mode \in Modes /\ screen = "ready" /\ launched = 0
    /\ pc = [r \in Runs |-> "idle"] /\ exit = [r \in Runs |-> "none"]
    /\ holder = 0
    /\ duck = [r \in Runs |-> FALSE] /\ sqlite = [r \in Runs |-> FALSE]
    /\ emitted = [r \in Runs |-> <<>>]
    /\ piped = [r \in Runs |-> 0] /\ read = [r \in Runs |-> 0]
    /\ mpc = [r \in Runs |-> "idle"]
    /\ seen = [r \in Runs |-> FALSE] /\ raised = [r \in Runs |-> FALSE]
    /\ reports = [r \in Runs |-> <<>>]

Next ==
    \/ \E r \in Runs : Worker(r) \/ Kill(r) \/ Feed(r) \/ Monitor(r) \/ Launch(r)
    \/ Leave

Spec == Init /\ [][Next]_vars

\* The child, its feeder and the monitor run on by themselves; nobody need
\* start a run, leave, or kill a child.
Fairness ==
    \A r \in Runs : WF_vars(Worker(r)) /\ WF_vars(Feed(r)) /\ WF_vars(Monitor(r))

FairSpec == Spec /\ Fairness
-----------------------------------------------------------------------------
(* What must hold. *)

FrontType ==
    /\ mode \in Modes
    /\ screen \in {"ready", "waiting", "closed"}
    /\ launched \in 0..MaxRuns

ChildType ==
    /\ pc \in [Runs -> {"idle", "dead"} \cup Living]
    /\ exit \in [Runs -> {"none", "clean", "error"} \cup Cut]
    /\ holder \in 0..MaxRuns
    /\ duck \in [Runs -> BOOLEAN]
    /\ sqlite \in [Runs -> BOOLEAN]

PipeType ==
    /\ emitted \in [Runs -> Seq(Events)]
    /\ piped \in [Runs -> Nat]
    /\ read \in [Runs -> Nat]
    /\ \A r \in Runs : read[r] <= piped[r] /\ piped[r] <= Len(emitted[r])

MonitorType ==
    /\ mpc \in [Runs -> {"idle", "alive", "empty", "get", "exit", "done", "stopped"}]
    /\ seen \in [Runs -> BOOLEAN]
    /\ raised \in [Runs -> BOOLEAN]
    /\ reports \in [Runs -> Seq(Terminal)]

\* The type invariant: nothing is read that was not written, nor written
\* that was not emitted.
TypeOK == FrontType /\ ChildType /\ PipeType /\ MonitorType

\* on_status hears of the end of a run once, from the child or from the exit
\* code, however the child ends and whatever is still in the pipe.
OneTerminalReport == \A r \in Runs : Len(reports[r]) <= 1

\* A run reported as completed is durable in both stores, also when the
\* report was made from the exit code.
CompletedIsDurable ==
    \A r \in Runs : \A i \in 1..Len(reports[r]) :
        reports[r][i] = "runCompleted" => duck[r] /\ sqlite[r]

\* A child that ends by itself has every event read before its monitor ends,
\* unless on_status raised: death is checked before emptiness, and the child
\* joins its feeder before it dies.
NothingLost ==
    \A r \in Runs :
        mpc[r] = "done" /\ ~raised[r] /\ exit[r] \notin Cut =>
            pc[r] = "dead" /\ read[r] = Len(emitted[r])

\* Every run started is reported, by an event or by its exit code, unless
\* on_status raised or the user left: the CLI waits without a timeout.
EveryRunIsReported ==
    \A r \in Runs :
        pc[r] # "idle" ~> reports[r] # <<>> \/ raised[r] \/ screen = "closed"

=============================================================================
