----------------------------- MODULE EventQueue -----------------------------
(***************************************************************************)
(* The forensic trace of a run: the emitter shared by the pipeline and the  *)
(* download threads, the queue between them and the listener thread, the    *)
(* buffered file the listener writes, and the teardown that stops the       *)
(* listener, archives the file in the control plane and prunes old traces.  *)
(***************************************************************************)
EXTENDS Naturals, FiniteSets, Sequences, SequencesExt

CONSTANTS Pool,        \* threads of the market downloads
          Main,        \* the thread of the pipeline
          Listener,    \* the listener thread
          None,        \* no event, no holder of the lock
          Sentinel,    \* the None that stop() puts behind the events
          BufferSize,  \* writes between two flushes of the file
          RunsKept,    \* RETAIN_LAST_N_RUNS
          MaxRuns, MaxEvents   \* bounds: processes, events emitted by each

ASSUME EventAssumption ==
  /\ BufferSize \in Nat \ {0} /\ RunsKept \in Nat \ {0}
  /\ MaxRuns \in Nat /\ MaxEvents \in Nat
  /\ Main \notin Pool /\ Listener \notin Pool /\ Main # Listener
  /\ None \notin Pool \cup {Main, Listener, Sentinel}

Threads == Pool \cup {Main}
Consumers == {Listener, Main}
Events == [by : Threads, n : 1 .. MaxEvents + 1, failed : BOOLEAN]

ASSUME ModelValuesAreNoEvents == {None, Sentinel} \cap Events = {}

VARIABLES
  run,        \* the process at work, or the last one
  mpc,        \* where its main thread is
  registered, \* the queue sink is among the emitter's sinks
  sequence,   \* the emitter's counter
  putting,    \* per thread, the event between the counter and the queue
  queue,      \* the queue
  stopping,   \* _stop_requested
  loop,       \* the listener thread: off, loop, drain, done
  at, held,   \* per consumer: its step in a dispatch, and the event it took
  lock,       \* who is in the sink, under its lock
  open,       \* the sink has its file open
  buffer,     \* lines written to the file object and not flushed
  pending,    \* _pending_writes
  disk,       \* the lines in the trace file of this run
  traces,     \* the runs whose trace file exists
  archive,    \* what the control plane has of it
  accepted,   \* observation only: the events this process has put
  done,       \* observation only: the events whose dispatch is complete
  timedOut    \* observation only: join() gave up

emitting == <<registered, sequence, putting>>
sink == <<lock, open, buffer, pending>>
files == <<disk, traces, archive>>
vars == <<run, mpc, emitting, queue, stopping, loop, at, held, sink, files,
          accepted, done, timedOut>>

TypeOK ==
  /\ run \in 0 .. MaxRuns
  /\ mpc \in {"off", "work", "pool", "teardown", "stop", "join", "drain",
              "close", "archive", "prune", "exit"}
  /\ registered \in BOOLEAN /\ stopping \in BOOLEAN /\ open \in BOOLEAN
  /\ sequence \in 0 .. MaxEvents + 1
  /\ putting \in [Threads -> Events \cup {None}]
  /\ queue \in Seq(Events \cup {Sentinel})
  /\ loop \in {"off", "loop", "drain", "done"}
  /\ at \in [Consumers -> {"take", "write", "writing", "flush"}]
  /\ held \in [Consumers -> Events \cup {None}]
  /\ lock \in Consumers \cup {None}
  /\ buffer \in Seq(Events)
  /\ pending \in 0 .. BufferSize - 1
  /\ disk \in Seq(Events) /\ traces \subseteq 1 .. MaxRuns
  /\ archive \in Seq(Events) \cup {None}
  /\ accepted \subseteq Events /\ done \subseteq Events
  /\ timedOut \in BOOLEAN

Init ==
  /\ run = 0 /\ mpc = "off"
  /\ registered = FALSE /\ sequence = 0 /\ putting = [t \in Threads |-> None]
  /\ queue = <<>> /\ stopping = FALSE /\ loop = "off"
  /\ at = [c \in Consumers |-> "take"] /\ held = [c \in Consumers |-> None]
  /\ lock = None /\ open = FALSE /\ buffer = <<>> /\ pending = 0
  /\ disk = <<>> /\ traces = {} /\ archive = None
  /\ accepted = {} /\ done = {} /\ timedOut = FALSE

----------------------------------------------------------------------------
\* The pipeline.

\* initialize(): the listener is started, the queue sink registered.
StartRun ==
  /\ mpc = "off" /\ run < MaxRuns
  /\ run' = run + 1 /\ mpc' = "work"
  /\ registered' = TRUE /\ loop' = "loop"
  /\ disk' = <<>> /\ archive' = None
  /\ accepted' = {} /\ done' = {} /\ timedOut' = FALSE
  /\ UNCHANGED <<sequence, putting, queue, stopping, at, held, sink, traces>>

\* The downloads of the third phase: the threads live inside a with block,
\* which is left only when each of them has ended.
StartPool ==
  /\ mpc = "work" /\ putting[Main] = None
  /\ mpc' = "pool"
  /\ UNCHANGED <<run, emitting, queue, stopping, loop, at, held, sink, files,
                 accepted, done, timedOut>>
JoinPool ==
  /\ mpc = "pool" /\ \A t \in Threads : putting[t] = None
  /\ mpc' = "work"
  /\ UNCHANGED <<run, emitting, queue, stopping, loop, at, held, sink, files,
                 accepted, done, timedOut>>

\* emit(), under the emitter's lock: the number is assigned and the sinks are
\* copied; an event emitted when the queue sink is not among them goes nowhere.
Number(t, failed) ==
  LET e == [by |-> t, n |-> sequence + 1, failed |-> failed] IN
  /\ putting[t] = None
  /\ sequence' = sequence + 1
  /\ putting' = [putting EXCEPT ![t] = IF registered THEN e ELSE None]
  /\ UNCHANGED <<run, registered, queue, stopping, loop, at, held, sink, files,
                 accepted, done, timedOut>>

Emit(t, failed) ==
  /\ IF t = Main THEN mpc \in {"work", "pool"} ELSE mpc = "pool"
  /\ sequence < MaxEvents
  /\ Number(t, failed)
  /\ UNCHANGED mpc

\* teardown() begins with an event of its own.
EmitTeardown ==
  /\ mpc = "work"
  /\ Number(Main, FALSE)
  /\ mpc' = "teardown"

\* Outside the lock the copied sinks are called: threads may overtake each other.
\* The queue is unbounded, so put() neither blocks nor drops.
Put(t) ==
  /\ putting[t] # None
  /\ queue' = Append(queue, putting[t])
  /\ accepted' = accepted \cup {putting[t]}
  /\ putting' = [putting EXCEPT ![t] = None]
  /\ UNCHANGED <<run, mpc, registered, sequence, stopping, loop, at, held, sink,
                 files, done, timedOut>>

----------------------------------------------------------------------------
\* Dispatch, by the listener thread and, in stop(), by the caller.

\* Get an item; the listener in its loop leaves it on the sentinel.
Take(c) ==
  /\ at[c] = "take" /\ queue # <<>>
  /\ IF c = Main THEN mpc = "drain" ELSE loop \in {"loop", "drain"}
  /\ queue' = Tail(queue)
  /\ IF Head(queue) = Sentinel
       THEN /\ loop' = IF c = Listener THEN "drain" ELSE loop
            /\ UNCHANGED <<at, held>>
       ELSE /\ held' = [held EXCEPT ![c] = Head(queue)]
            /\ at' = [at EXCEPT ![c] = "write"]
            /\ UNCHANGED loop
  /\ UNCHANGED <<run, mpc, emitting, stopping, sink, files, accepted, done, timedOut>>

\* The sink's lock is taken, and the file opened unless it is open: a write
\* after close() opens it again.
StartWrite(c) ==
  /\ at[c] = "write" /\ lock = None
  /\ lock' = c /\ open' = TRUE
  /\ traces' = traces \cup {run}
  /\ at' = [at EXCEPT ![c] = "writing"]
  /\ UNCHANGED <<run, mpc, emitting, queue, stopping, loop, held, buffer, pending,
                 disk, archive, accepted, done, timedOut>>

FlushesAtOnceNever(e) == FALSE

\* An error does not wait for the buffer to fill.
FlushesAtOnce(e) == e.failed

\* The count of writes since the last flush.
Pending(full) == IF full THEN 0 ELSE pending + 1

\* The file object may write out any part of what it holds when it overflows.
FinishWrite(c) ==
  LET lines == Append(buffer, held[c])
      full == pending + 1 >= BufferSize
      now == FlushesAtOnce(held[c]) IN
  /\ at[c] = "writing"
  /\ \E k \in 0 .. Len(lines) :
       /\ full => k = Len(lines)
       /\ disk' = disk \o SubSeq(lines, 1, k)
       /\ buffer' = SubSeq(lines, k + 1, Len(lines))
  /\ pending' = Pending(full)
  /\ lock' = None
  /\ at' = [at EXCEPT ![c] = IF now THEN "flush" ELSE "take"]
  /\ held' = [held EXCEPT ![c] = IF now THEN @ ELSE None]
  /\ done' = IF now THEN done ELSE done \cup {held[c]}
  /\ UNCHANGED <<run, mpc, emitting, queue, stopping, loop, open, traces, archive,
                 accepted, timedOut>>

\* flush() of the sink; nothing if the file has been closed meanwhile.
FlushSink ==
  /\ disk' = IF open THEN disk \o buffer ELSE disk
  /\ buffer' = <<>>
  /\ pending' = IF open THEN 0 ELSE pending

FlushAfterError(c) ==
  /\ at[c] = "flush" /\ lock = None
  /\ FlushSink
  /\ at' = [at EXCEPT ![c] = "take"]
  /\ held' = [held EXCEPT ![c] = None]
  /\ done' = done \cup {held[c]}
  /\ UNCHANGED <<run, mpc, emitting, queue, stopping, loop, lock, open, traces,
                 archive, accepted, timedOut>>

\* The flag ends the loop; the backlog is drained, the sinks are flushed.
LeaveLoop ==
  /\ loop = "loop" /\ stopping /\ at[Listener] = "take"
  /\ loop' = "drain"
  /\ UNCHANGED <<run, mpc, emitting, queue, stopping, at, held, sink, files,
                 accepted, done, timedOut>>
EndThread ==
  /\ loop = "drain" /\ at[Listener] = "take" /\ queue = <<>> /\ lock = None
  /\ FlushSink
  /\ loop' = "done"
  /\ UNCHANGED <<run, mpc, emitting, queue, stopping, at, held, lock, open, traces,
                 archive, accepted, done, timedOut>>

----------------------------------------------------------------------------
\* Teardown.

Unregister ==
  /\ mpc = "teardown" /\ putting[Main] = None
  /\ registered' = FALSE /\ mpc' = "stop"
  /\ UNCHANGED <<run, sequence, putting, queue, stopping, loop, at, held, sink,
                 files, accepted, done, timedOut>>

RequestStopUnjoined ==
  /\ mpc = "stop"
  /\ stopping' = TRUE /\ queue' = Append(queue, Sentinel)
  /\ mpc' = "drain"
  /\ UNCHANGED <<run, emitting, loop, at, held, sink, files, accepted, done, timedOut>>

RequestStop ==
  /\ mpc = "stop"
  /\ stopping' = TRUE /\ queue' = Append(queue, Sentinel)
  /\ mpc' = "join"
  /\ UNCHANGED <<run, emitting, loop, at, held, sink, files, accepted, done, timedOut>>

\* join(timeout=5.0): the thread has ended, or nobody waits for it any more.
Joined ==
  /\ mpc = "join" /\ loop = "done"
  /\ mpc' = "drain"
  /\ UNCHANGED <<run, emitting, queue, stopping, loop, at, held, sink, files,
                 accepted, done, timedOut>>
JoinTimesOutNever == Joined
JoinTimesOut ==
  /\ mpc = "join" /\ loop # "done"
  /\ mpc' = "drain" /\ timedOut' = TRUE
  /\ UNCHANGED <<run, emitting, queue, stopping, loop, at, held, sink, files,
                 accepted, done>>

\* The caller has drained what was left.
Drained ==
  /\ mpc = "drain" /\ at[Main] = "take" /\ queue = <<>>
  /\ mpc' = "close"
  /\ UNCHANGED <<run, emitting, queue, stopping, loop, at, held, sink, files,
                 accepted, done, timedOut>>

\* flush() and close() of the sink wait for its lock like any writer.
CloseSink ==
  /\ mpc = "close" /\ lock = None
  /\ FlushSink
  /\ open' = FALSE
  /\ mpc' = "archive"
  /\ UNCHANGED <<run, emitting, queue, stopping, loop, at, held, lock, traces,
                 archive, accepted, done, timedOut>>

\* archive_run_trace(): a failure is reported and changes nothing.
Archive ==
  /\ mpc = "archive"
  /\ \/ run \in traces /\ archive' = disk
     \/ UNCHANGED archive
  /\ mpc' = "prune"
  /\ UNCHANGED <<run, emitting, queue, stopping, loop, at, held, sink, disk, traces,
                 accepted, done, timedOut>>

\* Beyond the newest RunsKept traces, and those of them that are too old.  A run
\* takes less than the age limit.  The files of later runs are the newer ones.
Expired(oldest) ==
  {r \in traces : Cardinality({q \in traces : q > r}) >= RunsKept}
    \cup {r \in traces : r < oldest}

\* A file that cannot be removed is skipped.
Prune ==
  /\ mpc = "prune"
  /\ \E oldest \in 1 .. run : \E removed \in SUBSET Expired(oldest) :
       /\ traces' = traces \ removed
       /\ disk' = IF run \in removed THEN <<>> ELSE disk
  /\ mpc' = "exit"
  /\ UNCHANGED <<run, emitting, queue, stopping, loop, at, held, sink, archive,
                 accepted, done, timedOut>>

\* The process ends by itself, or is killed anywhere: threads, queue and file
\* object are gone.  What the file object still held may be written out or not.
EndProcess ==
  /\ mpc # "off"
  /\ mpc' = "off"
  /\ registered' = FALSE /\ sequence' = 0 /\ putting' = [t \in Threads |-> None]
  /\ queue' = <<>> /\ stopping' = FALSE /\ loop' = "off"
  /\ at' = [c \in Consumers |-> "take"] /\ held' = [c \in Consumers |-> None]
  /\ lock' = None /\ open' = FALSE /\ buffer' = <<>> /\ pending' = 0
  /\ UNCHANGED <<run, traces, archive, accepted, done, timedOut>>
Exit ==
  /\ mpc = "exit"
  /\ \/ UNCHANGED disk
     \/ disk' = disk \o buffer
  /\ EndProcess
Kill == EndProcess /\ UNCHANGED disk

----------------------------------------------------------------------------
MainStep ==
  \/ Put(Main) \/ JoinPool \/ EmitTeardown \/ Unregister \/ RequestStop \/ Joined
  \/ JoinTimesOut \/ Take(Main) \/ StartWrite(Main) \/ FinishWrite(Main)
  \/ FlushAfterError(Main) \/ Drained \/ CloseSink \/ Archive \/ Prune \/ Exit

Next ==
  \/ StartRun \/ StartPool \/ JoinPool \/ EmitTeardown
  \/ \E t \in Threads : Put(t) \/ \E failed \in BOOLEAN : Emit(t, failed)
  \/ \E c \in Consumers : Take(c) \/ StartWrite(c) \/ FinishWrite(c) \/ FlushAfterError(c)
  \/ LeaveLoop \/ EndThread \/ Unregister \/ RequestStop \/ Joined \/ JoinTimesOut
  \/ Drained \/ CloseSink \/ Archive \/ Prune \/ Exit \/ Kill

\* The threads that run Python code go on; a write to a file comes to an end.  No
\* fairness for the rest of the listener: teardown must not depend on it.
Fairness ==
  /\ WF_vars(MainStep)
  /\ WF_vars(FinishWrite(Listener))
  /\ \A t \in Pool : WF_vars(Put(t))

Spec == Init /\ [][Next]_vars /\ Fairness

----------------------------------------------------------------------------
\* The lines of the trace, those in the file object included.
Trace == disk \o buffer

\* "Debug traces reconstruct the run": unless join() gave up, the events of one
\* thread stand in the trace in the order in which it emitted them.
TraceInProgramOrder ==
  ~timedOut =>
    \A i, j \in DOMAIN Trace :
      i < j /\ Trace[i].by = Trace[j].by => Trace[i].n < Trace[j].n

\* What teardown archives holds each event put on the queue, once.  Only if
\* join() gave up may one be missing: the one the listener holds.
ArchiveIsWhole ==
  mpc \in {"prune", "exit"} /\ archive # None =>
    LET kept == archive IN
    /\ Cardinality(ToSet(kept)) = Len(kept)
    /\ Cardinality(accepted \ ToSet(kept)) <= IF timedOut THEN 1 ELSE 0

\* The trace says what was emitted, as it was emitted, and the state is of its
\* type.
TraceIsFaithful == TypeOK /\ TraceInProgramOrder /\ ArchiveIsWhole

\* An error that has been dispatched, and every line before it, is in the file:
\* it survives the death of the process and the pruning of old traces.
FailuresReachDisk ==
  \A e \in done : e.failed => e \in ToSet(disk)

\* A slow listener does not keep the process from ending.
TeardownEnds == mpc = "stop" ~> mpc = "off"

=============================================================================
