-------------------------- MODULE EventQueue_proofs --------------------------
(***************************************************************************)
(* Proofs about EventQueue, for any number of download threads, of runs and *)
(* of events, any buffer and any retention: types, the errors that are on   *)
(* disk once dispatched, the program order of the trace, and the archive    *)
(* that misses at most the event the listener holds.                       *)
(***************************************************************************)
EXTENDS EventQueue, TLAPS, FiniteSetTheorems

-----------------------------------------------------------------------------
(* Sequences. *)

\* The elements of a list, and of the lists made from it.
LEMMA Elements ==
    ASSUME NEW S, NEW s \in Seq(S)
    PROVE  /\ ToSet(s) \subseteq S
           /\ ToSet(s) = {s[i] : i \in 1..Len(s)}
           /\ \A e \in S : ToSet(Append(s, e)) = ToSet(s) \cup {e}
           /\ \A t \in Seq(S) : ToSet(s \o t) = ToSet(s) \cup ToSet(t)
           /\ s # <<>> => /\ Head(s) \in S /\ Tail(s) \in Seq(S)
                          /\ ToSet(s) = ToSet(Tail(s)) \cup {Head(s)}
<1>1. ToSet(s) = {s[i] : i \in 1..Len(s)}
  BY DEF ToSet
<1>2. ToSet(s) \subseteq S
  BY <1>1
<1>3. ASSUME NEW e \in S PROVE ToSet(Append(s, e)) = ToSet(s) \cup {e}
  <2>1. /\ Append(s, e) \in Seq(S) /\ Len(Append(s, e)) = Len(s) + 1
        /\ \A i \in 1..Len(s) : Append(s, e)[i] = s[i]
        /\ Append(s, e)[Len(s) + 1] = e
    OBVIOUS
  <2>2. ToSet(Append(s, e)) = {Append(s, e)[i] : i \in 1..Len(s) + 1}
    BY <2>1 DEF ToSet
  <2> QED
    BY <1>1, <2>1, <2>2
<1>4. ASSUME NEW t \in Seq(S) PROVE ToSet(s \o t) = ToSet(s) \cup ToSet(t)
  <2>0. ToSet(t) = {t[i] : i \in 1..Len(t)}
    BY DEF ToSet
  <2>1. /\ s \o t \in Seq(S) /\ Len(s \o t) = Len(s) + Len(t)
        /\ \A i \in 1..Len(s) : (s \o t)[i] = s[i]
        /\ \A i \in 1..Len(t) : (s \o t)[Len(s) + i] = t[i]
    OBVIOUS
  <2>2. ToSet(s \o t) = {(s \o t)[i] : i \in 1..Len(s) + Len(t)}
    BY <2>1 DEF ToSet
  <2>3. \A x \in ToSet(s \o t) : x \in ToSet(s) \cup ToSet(t)
    <3> SUFFICES ASSUME NEW i \in 1..Len(s) + Len(t)
                 PROVE  (s \o t)[i] \in ToSet(s) \cup ToSet(t)
      BY <2>2
    <3>1. CASE i \in 1..Len(s)
      BY <1>1, <2>1, <3>1
    <3>2. CASE i \notin 1..Len(s)
      <4>1. i - Len(s) \in 1..Len(t) /\ i = Len(s) + (i - Len(s))
        BY <3>2
      <4> QED
        BY <2>0, <2>1, <4>1
    <3> QED
      BY <3>1, <3>2
  <2>4. \A i \in 1..Len(s) : s[i] \in ToSet(s \o t)
    BY <2>1, <2>2
  <2>5. \A i \in 1..Len(t) : t[i] \in ToSet(s \o t)
    <3> TAKE i \in 1..Len(t)
    <3>1. Len(s) + i \in 1..Len(s) + Len(t)
      OBVIOUS
    <3> QED
      BY <2>1, <2>2, <3>1
  <2> QED
    BY <1>1, <2>0, <2>3, <2>4, <2>5
<1>5. ASSUME s # <<>>
      PROVE  /\ Head(s) \in S /\ Tail(s) \in Seq(S)
             /\ ToSet(s) = ToSet(Tail(s)) \cup {Head(s)}
  <2>1. /\ Head(s) \in S /\ Head(s) = s[1] /\ Tail(s) \in Seq(S)
        /\ Len(s) \in Nat \ {0} /\ Len(Tail(s)) = Len(s) - 1
        /\ \A i \in 1..Len(s) - 1 : Tail(s)[i] = s[i + 1]
        /\ DOMAIN Tail(s) = 1..Len(s) - 1
    BY <1>5
  <2>2. ToSet(Tail(s)) = {Tail(s)[i] : i \in 1..Len(s) - 1}
    BY <2>1, Zenon DEF ToSet
  <2>3. \A i \in 1..Len(s) : s[i] \in ToSet(Tail(s)) \cup {Head(s)}
    <3> TAKE i \in 1..Len(s)
    <3>1. CASE i = 1
      BY <2>1, <3>1
    <3>2. CASE i # 1
      <4>1. i - 1 \in 1..Len(s) - 1 /\ i = (i - 1) + 1
        BY <3>2, <2>1
      <4> QED
        BY <2>1, <2>2, <4>1
    <3> QED
      BY <3>1, <3>2
  <2>4. \A i \in 1..Len(s) - 1 : Tail(s)[i] \in ToSet(s)
    <3> TAKE i \in 1..Len(s) - 1
    <3>1. i + 1 \in 1..Len(s)
      BY <2>1
    <3> QED
      BY <1>1, <2>1, <3>1
  <2>5. Head(s) \in ToSet(s)
    BY <1>1, <2>1
  <2> QED
    BY <1>1, <2>1, <2>2, <2>3, <2>4, <2>5
<1> QED
  BY <1>1, <1>2, <1>3, <1>4, <1>5

\* Lists of one length with the same elements in the same places are equal.
LEMMA SameList ==
    ASSUME NEW S, NEW s \in Seq(S), NEW t \in Seq(S), Len(s) = Len(t),
           \A i \in 1..Len(t) : s[i] = t[i]
    PROVE  s = t
OBVIOUS

LEMMA EmptyBehind == ASSUME NEW S, NEW s \in Seq(S) PROVE s \o <<>> = s
<1>1. s \o <<>> \in Seq(S) /\ Len(s \o <<>>) = Len(s)
      /\ \A i \in 1..Len(s) : (s \o <<>>)[i] = s[i]
  OBVIOUS
<1> QED
  BY <1>1, SameList

\* What the file object holds is written in two parts, and nothing is lost.
LEMMA Parts ==
    ASSUME NEW S, NEW d \in Seq(S), NEW s \in Seq(S), NEW k \in 0..Len(s)
    PROVE  /\ SubSeq(s, 1, k) \in Seq(S) /\ d \o SubSeq(s, 1, k) \in Seq(S)
           /\ SubSeq(s, k + 1, Len(s)) \in Seq(S)
           /\ (d \o SubSeq(s, 1, k)) \o SubSeq(s, k + 1, Len(s)) = d \o s
<1> DEFINE p == SubSeq(s, 1, k)
           q == SubSeq(s, k + 1, Len(s))
<1>1. /\ p \in Seq(S) /\ Len(p) = k /\ \A i \in 1..k : p[i] = s[i]
      /\ q \in Seq(S) /\ Len(q) = Len(s) - k
      /\ \A i \in 1..Len(s) - k : q[i] = s[k + i]
  OBVIOUS
<1> HIDE DEF p, q
<1>2. d \o p \in Seq(S)
  BY <1>1
<1>3. (d \o p) \o q = d \o s
  <2>1. /\ Len((d \o p) \o q) = Len(d \o s)
        /\ (d \o p) \o q \in Seq(S) /\ d \o s \in Seq(S)
    BY <1>1
  <2>2. \A i \in 1..Len(d \o s) : ((d \o p) \o q)[i] = (d \o s)[i]
    <3> TAKE i \in 1..Len(d \o s)
    <3>1. CASE i <= Len(d)
      BY <1>1, <3>1
    <3>2. CASE i > Len(d) /\ i <= Len(d) + k
      BY <1>1, <3>2
    <3>3. CASE i > Len(d) + k
      <4>1. i - Len(d) - k \in 1..Len(s) - k
        BY <3>3, <1>1
      <4>2. q[i - Len(d) - k] = s[k + (i - Len(d) - k)]
        BY <1>1, <4>1
      <4>3. k + (i - Len(d) - k) = i - Len(d)
        BY <1>1
      <4>4. (d \o s)[i] = s[i - Len(d)]
        BY <3>3
      <4>5. ((d \o p) \o q)[i] = q[i - Len(d) - k]
        BY <3>3, <1>1
      <4> QED
        BY <4>2, <4>3, <4>4, <4>5
    <3> QED
      BY <3>1, <3>2, <3>3, <1>1
  <2> QED
    BY <2>1, <2>2, SameList
<1> QED
  BY <1>1, <1>2, <1>3 DEF p, q

LEMMA AppendBehind ==
    ASSUME NEW S, NEW d \in Seq(S), NEW s \in Seq(S), NEW e \in S
    PROVE  d \o Append(s, e) = Append(d \o s, e)
<1>1. /\ d \o Append(s, e) \in Seq(S) /\ Append(d \o s, e) \in Seq(S)
        /\ Len(d \o Append(s, e)) = Len(Append(d \o s, e))
  OBVIOUS
<1>2. \A i \in 1..Len(Append(d \o s, e)) :
           (d \o Append(s, e))[i] = Append(d \o s, e)[i]
  OBVIOUS
<1> QED
  BY <1>1, <1>2, SameList

-----------------------------------------------------------------------------
(* Types, the sink's lock and the phases of a process. *)

\* A consumer holds an event from Take to the end of its dispatch.
Handling == \A c \in Consumers : at[c] = "take" <=> held[c] = None

\* Only a writer is in the sink, and its file is open; a closed file has no line
\* left in its buffer.
Locking ==
    /\ \A c \in Consumers : lock = c <=> at[c] = "writing"
    /\ \A c \in Consumers : at[c] = "writing" => open
    /\ ~open => buffer = <<>>

\* No process: no event is under way.  The teardown's event is the only one
\* beyond the bound, and no trace is newer than the run.
Phases ==
    /\ mpc = "off" => loop = "off" /\ \A c \in Consumers : at[c] = "take"
    /\ mpc # "off" => run # 0
    /\ mpc \in {"off", "work", "pool"} => sequence <= MaxEvents
    /\ \A r \in traces : r <= run

TypeInv == TypeOK /\ Handling /\ Locking /\ Phases

LEMMA Actors == /\ Main \in Consumers /\ Listener \in Consumers /\ Main # Listener
                /\ Main \in Threads /\ None \notin Consumers /\ None \notin Events
                /\ Sentinel \notin Events /\ None # Sentinel
                /\ \A c \in Consumers : c \in {Main, Listener}
  BY EventAssumption, ModelValuesAreNoEvents DEF Consumers, Threads

LEMMA TypeInit == Init => TypeInv
<1> SUFFICES ASSUME Init PROVE TypeInv
  OBVIOUS
<1>1. /\ queue \in Seq(Events \cup {Sentinel}) /\ buffer \in Seq(Events)
      /\ disk \in Seq(Events)
  BY DEF Init
<1>2. putting \in [Threads -> Events \cup {None}] /\ held \in [Consumers -> Events \cup {None}]
  BY DEF Init
<1>3. /\ run \in 0 .. MaxRuns /\ sequence \in 0 .. MaxEvents + 1
      /\ pending \in 0 .. BufferSize - 1
  BY EventAssumption DEF Init
<1>4. at \in [Consumers -> {"take", "write", "writing", "flush"}]
  BY DEF Init
<1>5. TypeOK
  BY <1>1, <1>2, <1>3, <1>4 DEF Init, TypeOK
<1> QED
  BY <1>5, Actors, EventAssumption DEF Init, TypeInv, Handling, Locking, Phases

\* The steps of the pipeline's threads, but for dispatch.
LEMMA TypeThreads ==
    ASSUME TypeInv,
           \/ StartRun \/ StartPool \/ JoinPool \/ EmitTeardown
           \/ \E t \in Threads : Put(t) \/ \E failed \in BOOLEAN : Emit(t, failed)
    PROVE  TypeInv'
<1> USE DEF TypeInv, TypeOK, Handling, Locking, Phases, sink, files, emitting
<1>1. CASE StartRun
  <2>1. disk' \in Seq(Events)
    BY <1>1 DEF StartRun
  <2>2. run' \in 0 .. MaxRuns /\ run' # 0 /\ \A r \in traces : r <= run'
    BY <1>1, EventAssumption DEF StartRun
  <2> QED
    BY <1>1, <2>1, <2>2 DEF StartRun
<1>2. CASE StartPool
  BY <1>2 DEF StartPool
<1>3. CASE JoinPool
  BY <1>3 DEF JoinPool
<1>4. ASSUME NEW t \in Threads, NEW failed \in BOOLEAN, Number(t, failed),
             sequence <= MaxEvents
      PROVE  /\ putting' \in [Threads -> Events \cup {None}]
             /\ sequence' \in 0 .. MaxEvents + 1
             /\ sequence < MaxEvents => sequence' <= MaxEvents
  <2>1. [by |-> t, n |-> sequence + 1, failed |-> failed] \in Events
    BY <1>4, EventAssumption DEF Events
  <2> QED
    BY <2>1, <1>4, EventAssumption DEF Number
<1>5. CASE EmitTeardown
  <2>1. sequence <= MaxEvents
    BY <1>5 DEF EmitTeardown
  <2>2. /\ putting' \in [Threads -> Events \cup {None}]
        /\ sequence' \in 0 .. MaxEvents + 1
    BY <1>4, <1>5, <2>1, Actors DEF EmitTeardown
  <2> QED
    BY <1>5, <2>2 DEF EmitTeardown, Number
<1>6. ASSUME NEW t \in Threads, NEW failed \in BOOLEAN, Emit(t, failed)
      PROVE  TypeInv'
  <2>1. sequence < MaxEvents
    BY <1>6 DEF Emit
  <2>2. /\ putting' \in [Threads -> Events \cup {None}]
        /\ sequence' \in 0 .. MaxEvents + 1
        /\ sequence' <= MaxEvents
    BY <1>4, <1>6, <2>1, EventAssumption DEF Emit
  <2> QED
    BY <1>6, <2>2 DEF Emit, Number
<1>7. ASSUME NEW t \in Threads, Put(t)
      PROVE  TypeInv'
  <2>1. putting[t] \in Events
    BY <1>7 DEF Put
  <2>2. queue' \in Seq(Events \cup {Sentinel})
    BY <1>7, <2>1 DEF Put
  <2>3. putting' \in [Threads -> Events \cup {None}]
    BY <1>7 DEF Put
  <2> QED
    BY <1>7, <2>1, <2>2, <2>3 DEF Put
<1> QED
  BY <1>1, <1>2, <1>3, <1>5, <1>6, <1>7

\* The dispatch of one event, by either consumer.
LEMMA TypeDispatch ==
    ASSUME TypeInv, NEW c \in Consumers,
           Take(c) \/ StartWrite(c) \/ FinishWrite(c) \/ FlushAfterError(c)
    PROVE  TypeInv'
<1> USE Actors DEF TypeInv
<1>1. CASE Take(c)
  <2>1. Head(queue) \in Events \cup {Sentinel} /\ Tail(queue) \in Seq(Events \cup {Sentinel})
    BY <1>1 DEF Take, TypeOK
  <2>2. /\ held' \in [Consumers -> Events \cup {None}]
        /\ at' \in [Consumers -> {"take", "write", "writing", "flush"}]
        /\ loop' \in {"off", "loop", "drain", "done"}
    <3>1. CASE Head(queue) = Sentinel
      BY <1>1, <3>1 DEF Take, TypeOK
    <3>2. CASE Head(queue) # Sentinel
      <4>1. Head(queue) \in Events
        BY <2>1, <3>2
      <4>2. /\ held' = [held EXCEPT ![c] = Head(queue)]
            /\ at' = [at EXCEPT ![c] = "write"] /\ loop' = loop
        BY <1>1, <3>2 DEF Take
      <4> QED
        BY <4>1, <4>2 DEF TypeOK
    <3> QED
      BY <3>1, <3>2
  <2>3. TypeOK'
    BY <1>1, <2>1, <2>2 DEF Take, TypeOK, sink, files, emitting
  <2>4. Handling'
    BY <1>1, <2>1, <2>2 DEF Take, TypeOK, Handling
  <2>5. Locking'
    BY <1>1, <2>1, <2>2 DEF Take, TypeOK, Locking, sink
  <2>6. mpc # "off"
    BY <1>1 DEF Take, TypeOK, Phases
  <2> QED
    BY <1>1, <2>3, <2>4, <2>5, <2>6 DEF Take, Phases, files, emitting
<1>2. CASE StartWrite(c)
  <2>1. mpc # "off"
    BY <1>2 DEF StartWrite, Phases
  <2> QED
    BY <1>2, <2>1
       DEF StartWrite, TypeOK, Handling, Locking, Phases, emitting
<1>3. CASE FinishWrite(c)
  <2>1. held[c] \in Events /\ open /\ mpc # "off"
    BY <1>3 DEF FinishWrite, TypeOK, Handling, Locking, Phases
  <2>2. disk' \in Seq(Events) /\ buffer' \in Seq(Events)
    <3>1. Append(buffer, held[c]) \in Seq(Events)
      BY <2>1 DEF TypeOK
    <3>2. PICK k \in 0 .. Len(Append(buffer, held[c])) :
            /\ disk' = disk \o SubSeq(Append(buffer, held[c]), 1, k)
            /\ buffer' = SubSeq(Append(buffer, held[c]), k + 1, Len(Append(buffer, held[c])))
      BY <1>3 DEF FinishWrite
    <3> QED
      BY <3>1, <3>2, Parts DEF TypeOK
  <2>3. pending' \in 0 .. BufferSize - 1
    BY <1>3, EventAssumption DEF FinishWrite, Pending, TypeOK
  <2>4. /\ held' \in [Consumers -> Events \cup {None}]
        /\ at' \in [Consumers -> {"take", "write", "writing", "flush"}]
    BY <1>3 DEF FinishWrite, TypeOK
  <2>5. done' \subseteq Events
    BY <1>3, <2>1 DEF FinishWrite, TypeOK
  <2>6. TypeOK'
    BY <1>3, <2>2, <2>3, <2>4, <2>5 DEF FinishWrite, TypeOK, emitting
  <2>7. Handling'
    BY <1>3, <2>1 DEF FinishWrite, TypeOK, Handling
  <2>8. Locking'
    BY <1>3, <2>1 DEF FinishWrite, TypeOK, Locking
  <2> QED
    BY <1>3, <2>1, <2>6, <2>7, <2>8 DEF FinishWrite, Phases, emitting
<1>4. CASE FlushAfterError(c)
  <2>1. held[c] \in Events /\ mpc # "off"
    BY <1>4 DEF FlushAfterError, TypeOK, Handling, Phases
  <2>2. disk' \in Seq(Events) /\ buffer' \in Seq(Events) /\ buffer' = <<>>
    BY <1>4 DEF FlushAfterError, FlushSink, TypeOK
  <2>3. pending' \in 0 .. BufferSize - 1
    BY <1>4, EventAssumption DEF FlushAfterError, FlushSink, TypeOK
  <2>4. TypeOK'
    BY <1>4, <2>1, <2>2, <2>3 DEF FlushAfterError, TypeOK, emitting
  <2> QED
    BY <1>4, <2>1, <2>2, <2>4
       DEF FlushAfterError, TypeOK, Handling, Locking, Phases, emitting
<1> QED
  BY <1>1, <1>2, <1>3, <1>4

\* The end of the listener thread and the teardown.
LEMMA TypeTeardown ==
    ASSUME TypeInv,
           \/ LeaveLoop \/ EndThread \/ Unregister \/ RequestStop \/ Joined
           \/ JoinTimesOut \/ Drained \/ CloseSink \/ Archive \/ Prune
    PROVE  TypeInv'
<1> USE Actors DEF TypeInv
<1>0. FlushSink => /\ disk' \in Seq(Events) /\ buffer' \in Seq(Events)
                   /\ buffer' = <<>> /\ pending' \in 0 .. BufferSize - 1
  BY EventAssumption DEF FlushSink, TypeOK
<1>1. CASE LeaveLoop
  BY <1>1 DEF LeaveLoop, TypeOK, Handling, Locking, Phases, sink, files, emitting
<1>2. CASE EndThread
  <2>1. TypeOK'
    BY <1>2, <1>0 DEF EndThread, TypeOK, emitting
  <2> QED
    BY <1>2, <1>0, <2>1 DEF EndThread, Handling, Locking, Phases, emitting
<1>3. CASE Unregister
  BY <1>3 DEF Unregister, TypeOK, Handling, Locking, Phases, sink, files, emitting
<1>4. CASE RequestStop
  BY <1>4 DEF RequestStop, TypeOK, Handling, Locking, Phases, sink, files, emitting
<1>5. CASE Joined
  BY <1>5 DEF Joined, TypeOK, Handling, Locking, Phases, sink, files, emitting
<1>6. CASE JoinTimesOut
  BY <1>6 DEF JoinTimesOut, TypeOK, Handling, Locking, Phases, sink, files, emitting
<1>7. CASE Drained
  BY <1>7 DEF Drained, TypeOK, Handling, Locking, Phases, sink, files, emitting
<1>8. CASE CloseSink
  <2>1. TypeOK'
    BY <1>8, <1>0 DEF CloseSink, TypeOK, emitting
  <2> QED
    BY <1>8, <1>0, <2>1 DEF CloseSink, TypeOK, Handling, Locking, Phases, emitting
<1>9. CASE Archive
  BY <1>9 DEF Archive, TypeOK, Handling, Locking, Phases, sink, files, emitting
<1>10. CASE Prune
  <2>1. disk' \in Seq(Events) /\ traces' \subseteq traces
    BY <1>10 DEF Prune, TypeOK
  <2>2. TypeOK'
    BY <1>10, <2>1 DEF Prune, TypeOK, sink, emitting
  <2> QED
    BY <1>10, <2>1, <2>2 DEF Prune, Handling, Locking, Phases, sink, emitting
<1> QED
  BY <1>1, <1>2, <1>3, <1>4, <1>5, <1>6, <1>7, <1>8, <1>9, <1>10

\* The end of the process, at any step.
LEMMA TypeEnd == TypeInv /\ (Exit \/ Kill) => TypeInv'
<1> SUFFICES ASSUME TypeInv, Exit \/ Kill PROVE TypeInv'
  OBVIOUS
<1>1. EndProcess
  BY DEF Exit, Kill
<1>2. disk' \in Seq(Events)
  <2>1. disk \in Seq(Events) /\ disk \o buffer \in Seq(Events)
    BY DEF TypeInv, TypeOK
  <2> QED
    BY <2>1 DEF Exit, Kill
<1>3. buffer' = <<>> /\ queue' = <<>> /\ buffer' \in Seq(Events)
      /\ queue' \in Seq(Events \cup {Sentinel})
  BY <1>1 DEF EndProcess
<1>4. /\ putting' \in [Threads -> Events \cup {None}]
      /\ held' \in [Consumers -> Events \cup {None}]
      /\ at' \in [Consumers -> {"take", "write", "writing", "flush"}]
  BY <1>1 DEF EndProcess
<1>5. sequence' \in 0 .. MaxEvents + 1 /\ pending' \in 0 .. BufferSize - 1
  BY <1>1, EventAssumption DEF EndProcess
<1>6. TypeOK'
  BY <1>1, <1>2, <1>3, <1>4, <1>5 DEF EndProcess, TypeInv, TypeOK
<1> QED
  BY <1>1, <1>3, <1>6, Actors, EventAssumption
     DEF EndProcess, TypeInv, Handling, Locking, Phases

LEMMA TypeStep == TypeInv /\ [Next]_vars => TypeInv'
<1>1. TypeInv /\ UNCHANGED vars => TypeInv'
  BY DEF vars, emitting, sink, files, TypeInv, TypeOK, Handling, Locking, Phases
<1> QED
  BY <1>1, TypeThreads, TypeDispatch, TypeTeardown, TypeEnd DEF Next

\* The state is of its type: the buffer is flushed before it is full, only events
\* are written to the trace, and none of an earlier process.
THEOREM TypeCorrect == Spec => []TypeOK
<1>1. TypeInv => TypeOK
  BY DEF TypeInv
<1> QED
  BY <1>1, TypeInit, TypeStep, PTL DEF Spec

-----------------------------------------------------------------------------
(* What a step does to the trace. *)

Lists == buffer \in Seq(Events) /\ disk \in Seq(Events)

\* The trace consists of what is on disk and what is buffered.
LEMMA TraceElements ==
    Lists => Trace \in Seq(Events) /\ ToSet(Trace) = ToSet(disk) \cup ToSet(buffer)
  BY Elements DEF Lists, Trace

\* A write appends the event, whatever part of the buffer it moves to the file.
LEMMA WriteAppends ==
    ASSUME TypeInv, NEW c \in Consumers, FinishWrite(c)
    PROVE  /\ held[c] \in Events /\ held[c].failed \in BOOLEAN
           /\ Trace' = Append(Trace, held[c]) /\ Lists'
           /\ ToSet(disk) \subseteq ToSet(disk')
           /\ ToSet(Trace') = ToSet(Trace) \cup {held[c]}
<1>1. held[c] \in Events /\ disk \in Seq(Events) /\ buffer \in Seq(Events)
  BY DEF FinishWrite, TypeInv, TypeOK, Handling
<1> DEFINE lines == Append(buffer, held[c])
<1>2. lines \in Seq(Events)
  BY <1>1
<1>3. PICK k \in 0 .. Len(lines) : /\ disk' = disk \o SubSeq(lines, 1, k)
                                   /\ buffer' = SubSeq(lines, k + 1, Len(lines))
  BY DEF FinishWrite
<1> DEFINE part == SubSeq(lines, 1, k)
<1> DEFINE tail == SubSeq(lines, k + 1, Len(lines))
<1>4. /\ part \in Seq(Events) /\ disk' = disk \o part
      /\ disk' \in Seq(Events) /\ buffer' \in Seq(Events)
      /\ Trace' = disk \o lines
  <2> HIDE DEF lines
  <2>3. disk \in Seq(Events) /\ lines \in Seq(Events)
    BY <1>1, <1>2
  <2>4. k \in 0 .. Len(lines)
    BY <1>3
  <2>2. /\ part \in Seq(Events) /\ tail \in Seq(Events)
        /\ disk \o part \in Seq(Events) /\ (disk \o part) \o tail = disk \o lines
    <3>1. \A d, s \in Seq(Events) : \A i \in 0 .. Len(s) :
              /\ SubSeq(s, 1, i) \in Seq(Events) /\ d \o SubSeq(s, 1, i) \in Seq(Events)
              /\ SubSeq(s, i + 1, Len(s)) \in Seq(Events)
              /\ (d \o SubSeq(s, 1, i)) \o SubSeq(s, i + 1, Len(s)) = d \o s
      BY Parts
    <3>2. /\ SubSeq(lines, 1, k) \in Seq(Events) /\ disk \o SubSeq(lines, 1, k) \in Seq(Events)
          /\ SubSeq(lines, k + 1, Len(lines)) \in Seq(Events)
          /\ (disk \o SubSeq(lines, 1, k)) \o SubSeq(lines, k + 1, Len(lines)) = disk \o lines
      BY <2>3, <2>4, <3>1, Zenon
    <3> QED
      BY <3>2
  <2>1. part \in Seq(Events) /\ disk' = disk \o part /\ disk' \in Seq(Events)
        /\ buffer' \in Seq(Events) /\ disk' \o buffer' = disk \o lines
    BY <1>3, <2>2, Zenon
  <2> QED
    BY <2>1 DEF Trace
<1>5. disk \o lines = Append(Trace, held[c])
  BY <1>1, AppendBehind DEF Trace
<1>7. ToSet(disk) \subseteq ToSet(disk')
  <2> HIDE DEF part
  <2>2. ToSet(disk \o part) = ToSet(disk) \cup ToSet(part)
    BY <1>1, <1>4, Elements
  <2> QED
    BY <1>4, <2>2
<1>8. held[c].failed \in BOOLEAN
  BY <1>1 DEF Events
<1>9. ToSet(Trace') = ToSet(Trace) \cup {held[c]}
  BY <1>1, <1>4, <1>5, TraceElements, Elements DEF Lists
<1> QED
  BY <1>1, <1>4, <1>5, <1>7, <1>8, <1>9 DEF Lists

\* A flush moves the whole buffer; it has nothing to move when the file is closed.
LEMMA FlushMoves ==
    ASSUME TypeInv, FlushSink
    PROVE  /\ buffer' = <<>> /\ Trace' = Trace /\ disk' = Trace /\ Lists'
           /\ ToSet(disk) \subseteq ToSet(disk')
           /\ ToSet(disk') = ToSet(disk) \cup ToSet(buffer)
<1>1. disk \in Seq(Events) /\ buffer \in Seq(Events) /\ (~open => buffer = <<>>)
  BY DEF TypeInv, TypeOK, Locking
<1>2. disk \o <<>> = disk /\ disk \o buffer \in Seq(Events)
      /\ (disk \o buffer) \o <<>> = disk \o buffer
  <2>1. disk \o buffer \in Seq(Events)
    BY <1>1
  <2> QED
    BY <1>1, <2>1, EmptyBehind
<1>3. disk' = disk \o buffer /\ buffer' = <<>> /\ buffer' \in Seq(Events)
  <2>1. CASE open
    BY <2>1 DEF FlushSink
  <2>2. CASE ~open
    BY <1>1, <1>2, <2>2 DEF FlushSink
  <2> QED
    BY <2>1, <2>2
<1>4. disk' \in Seq(Events) /\ disk' \o buffer' = disk'
  BY <1>2, <1>3
<1> QED
  BY <1>1, <1>2, <1>3, <1>4, TraceElements DEF Lists, Trace

\* The trace of the run that ends is among those kept.
LEMMA PruneKeeps == TypeInv /\ Prune => UNCHANGED disk
<1> SUFFICES ASSUME TypeInv, Prune PROVE UNCHANGED disk
  OBVIOUS
<1>1. PICK oldest \in 1 .. run : \E removed \in SUBSET Expired(oldest) :
        disk' = IF run \in removed THEN <<>> ELSE disk
  BY DEF Prune
<1>2. \A q \in traces : ~(q > run)
  BY EventAssumption DEF TypeInv, TypeOK, Phases
<1>3. Cardinality({q \in traces : q > run}) = 0
  <2>1. {q \in traces : q > run} = {}
    BY <1>2, Zenon
  <2> QED
    BY <2>1, FS_EmptySet
<1>4. run \notin Expired(oldest)
  BY <1>3, EventAssumption DEF Expired, TypeInv, TypeOK
<1> QED
  BY <1>1, <1>4

\* The steps by what they do to the trace: they leave it alone, flush it, write a
\* line, or end or begin a process.
LEMMA StepsOfTheTrace ==
    ASSUME TypeInv, [Next]_vars
    PROVE  \/ UNCHANGED <<disk, buffer>>
           \/ FlushSink
           \/ \E c \in Consumers : FinishWrite(c)
           \/ StartRun \/ Exit \/ Kill
<1>1. Prune => UNCHANGED <<disk, buffer>>
  BY PruneKeeps DEF Prune, sink
<1> QED
  BY <1>1
     DEF Next, vars, sink, files, StartPool, JoinPool, EmitTeardown, Emit, Number,
         Put, Take, StartWrite, FlushAfterError, LeaveLoop, EndThread, Unregister,
         RequestStop, Joined, JoinTimesOut, Drained, CloseSink, Archive

-----------------------------------------------------------------------------
(* Errors on disk. *)

\* Between the write of an error and its flush the line is in the trace.
Flushing == \A c \in Consumers : at[c] = "flush" => held[c] \in ToSet(disk) \cup ToSet(buffer)

LEMMA FlushingStep ==
    TypeInv /\ Flushing /\ FailuresReachDisk /\ [Next]_vars
      => Flushing' /\ FailuresReachDisk'
<1> SUFFICES ASSUME TypeInv, Flushing, FailuresReachDisk, [Next]_vars
             PROVE  Flushing' /\ FailuresReachDisk'
  OBVIOUS
<1> USE Actors
<1>0. Lists
  BY DEF Lists, TypeInv, TypeOK
<1>1. CASE StartRun
  BY <1>1 DEF StartRun, sink, TypeInv, Phases, Flushing, FailuresReachDisk
<1>2. CASE Exit \/ Kill
  <2>1. ToSet(disk) \subseteq ToSet(disk')
    BY <1>0, <1>2, TraceElements DEF Exit, Kill, Trace
  <2> QED
    BY <1>2, <2>1 DEF Exit, Kill, EndProcess, Flushing, FailuresReachDisk
<1>3. ASSUME NEW c \in Consumers, FinishWrite(c)
      PROVE  Flushing' /\ FailuresReachDisk'
  <2>1. ToSet(disk) \subseteq ToSet(disk')
    BY <1>3, WriteAppends
  <2>2. held[c] \in ToSet(disk') \cup ToSet(buffer')
        /\ ToSet(disk) \cup ToSet(buffer) \subseteq ToSet(disk') \cup ToSet(buffer')
    <3>1. Lists' /\ ToSet(Trace') = ToSet(Trace) \cup {held[c]}
      BY <1>3, WriteAppends
    <3>2. ToSet(Trace) = ToSet(disk) \cup ToSet(buffer)
      BY <1>0, TraceElements
    <3>3. ToSet(Trace') = ToSet(disk') \cup ToSet(buffer')
      BY <3>1, Elements DEF Lists, Trace
    <3> QED
      BY <3>1, <3>2, <3>3
  <2>3. Flushing'
    BY <1>3, <2>2 DEF FinishWrite, TypeInv, TypeOK, Flushing
  <2>4. FailuresReachDisk'
    BY <1>3, <2>1 DEF FinishWrite, FlushesAtOnce, FailuresReachDisk
  <2> QED
    BY <2>3, <2>4
<1>4. ASSUME NEW c \in Consumers, FlushAfterError(c)
      PROVE  Flushing' /\ FailuresReachDisk'
  <2>1. FlushSink
    BY <1>4 DEF FlushAfterError
  <2>2. ToSet(disk') = ToSet(disk) \cup ToSet(buffer)
    BY <2>1, FlushMoves
  <2> QED
    BY <1>4, <2>2 DEF FlushAfterError, TypeInv, TypeOK, Flushing, FailuresReachDisk
<1>5. CASE EndThread \/ CloseSink
  <2>1. FlushSink
    BY <1>5 DEF EndThread, CloseSink
  <2>2. ToSet(disk') = ToSet(disk) \cup ToSet(buffer)
    BY <2>1, FlushMoves
  <2> QED
    BY <1>5, <2>2 DEF EndThread, CloseSink, Flushing, FailuresReachDisk
<1>6. ASSUME NEW c \in Consumers, Take(c) \/ StartWrite(c)
      PROVE  Flushing' /\ FailuresReachDisk'
  BY <1>6 DEF Take, StartWrite, sink, files, TypeInv, TypeOK, Flushing,
              FailuresReachDisk
<1>7. CASE Prune
  BY <1>7, PruneKeeps DEF Prune, sink, Flushing, FailuresReachDisk
<1>8. CASE \/ StartPool \/ JoinPool \/ EmitTeardown \/ LeaveLoop \/ Unregister
           \/ RequestStop \/ Joined \/ JoinTimesOut \/ Drained \/ Archive
           \/ \E t \in Threads : Put(t) \/ \E failed \in BOOLEAN : Emit(t, failed)
           \/ UNCHANGED vars
  BY <1>8
     DEF vars, sink, files, StartPool, JoinPool, EmitTeardown, Emit, Number, Put,
         LeaveLoop, Unregister, RequestStop, Joined, JoinTimesOut, Drained, Archive,
         Flushing, FailuresReachDisk
<1> QED
  BY <1>1, <1>2, <1>3, <1>4, <1>5, <1>6, <1>7, <1>8 DEF Next

\* An error whose dispatch is complete is in the file, whatever the buffer, the
\* other consumer, the teardown, the pruning or the end of the process does.
THEOREM ErrorsAreOnDisk == Spec => []FailuresReachDisk
<1>1. Init => Flushing /\ FailuresReachDisk
  BY DEF Init, Flushing, FailuresReachDisk
<1> QED
  BY <1>1, TypeInit, TypeStep, FlushingStep, PTL DEF Spec

-----------------------------------------------------------------------------
(* The way of an event from the queue to the archive. *)

\* The teardown: nobody puts any more when the listener is told to stop, the
\* queue is empty when the sink is closed, and only a join that gave up lets the
\* listener go on beside the caller.
Teardown ==
    /\ mpc \notin {"pool"} => \A t \in Pool : putting[t] = None
    /\ mpc \in {"off", "stop", "join", "drain", "close", "archive", "prune", "exit"} =>
         putting[Main] = None
    /\ mpc \in {"off", "close", "archive", "prune", "exit"} => queue = <<>>
    /\ mpc = "off" => buffer = <<>>
    /\ at[Main] # "take" => mpc = "drain"
    /\ loop = "done" => at[Listener] = "take"
    /\ mpc \in {"drain", "close", "archive", "prune", "exit"} =>
         timedOut \/ loop = "done"
    /\ timedOut => mpc \notin {"work", "pool", "teardown", "stop", "join"}

\* Of one thread, in the order of its events.
Precedes(x, y) == x.by = y.by => x.n < y.n

Sorted(s) ==
    \A i, j \in 1..Len(s) :
       i < j /\ s[i] # Sentinel /\ s[j] # Sentinel => Precedes(s[i], s[j])

\* No event twice.
Distinct(s) ==
    \A i, j \in 1..Len(s) : i < j /\ s[i] # Sentinel => s[i] # s[j]

Waiting == ToSet(queue) \ {Sentinel}
Written == ToSet(Trace)
InHand(c) == at[c] \in {"write", "writing"}

\* What a thread is about to put is newer than all it has put.
Numbering ==
    mpc # "off" =>
      /\ \A e \in accepted : e.n <= sequence
      /\ \A t \in Threads : putting[t] # None =>
           /\ putting[t].by = t /\ putting[t].n <= sequence
           /\ \A e \in accepted : Precedes(e, putting[t])

\* Each event put is in exactly one place.
OnePlace ==
    mpc # "off" =>
      /\ \A e \in accepted :
           e \in Written \/ e \in Waiting \/ \E c \in Consumers : InHand(c) /\ held[c] = e
      /\ Written \cup Waiting \subseteq accepted /\ Written \cap Waiting = {}
      /\ \A c \in Consumers : InHand(c) =>
           held[c] \in accepted /\ held[c] \notin Written \cup Waiting
      /\ InHand(Main) /\ InHand(Listener) => held[Main] # held[Listener]

NoneTwice == Distinct(Trace) /\ Distinct(queue)

\* Unless join() gave up, the events of a thread are in order on their way.
InOrder ==
    ~timedOut =>
      /\ Sorted(Trace)
      /\ mpc # "off" =>
           /\ Sorted(queue)
           /\ \A x \in Written, y \in Waiting : Precedes(x, y)
           /\ \A c \in Consumers : InHand(c) =>
                /\ \A x \in Written : Precedes(x, held[c])
                /\ \A y \in Waiting : Precedes(held[c], y)

\* At most one event is missing, and none unless join() gave up.
NearlyAll(kept) ==
    /\ \E x \in Events \cup {None} : accepted \ kept \subseteq {x}
    /\ ~timedOut => accepted \subseteq kept

Archived ==
    /\ mpc \notin {"off", "prune", "exit"} => archive = None
    /\ mpc \in {"archive", "prune", "exit"} => NearlyAll(ToSet(disk))
    /\ mpc \in {"prune", "exit"} /\ archive # None =>
         Distinct(archive) /\ NearlyAll(ToSet(archive))

-----------------------------------------------------------------------------
(* Lists in order. *)

LEMMA AppendKeeps ==
    ASSUME NEW S, NEW s \in Seq(S), NEW e \in S
    PROVE  /\ /\ Sorted(s)
              /\ e # Sentinel => \A x \in ToSet(s) \ {Sentinel} : Precedes(x, e)
              => Sorted(Append(s, e))
           /\ Distinct(s) /\ e \notin ToSet(s) \ {Sentinel} => Distinct(Append(s, e))
<1> DEFINE t == Append(s, e)
<1>1. /\ Len(t) = Len(s) + 1 /\ t[Len(s) + 1] = e
      /\ \A i \in 1..Len(s) : t[i] = s[i] /\ s[i] \in ToSet(s)
  BY Elements
<1> HIDE DEF t
<1>2. ASSUME Sorted(s), e # Sentinel => \A x \in ToSet(s) \ {Sentinel} : Precedes(x, e)
      PROVE  Sorted(t)
  <2> SUFFICES ASSUME NEW i \in 1..Len(t), NEW j \in 1..Len(t), i < j,
                      t[i] # Sentinel, t[j] # Sentinel
               PROVE  Precedes(t[i], t[j])
    BY DEF Sorted
  <2>1. i \in 1..Len(s)
    BY <1>1
  <2>2. CASE j = Len(s) + 1
    BY <1>1, <1>2, <2>1, <2>2
  <2>3. CASE j # Len(s) + 1
    <3>1. j \in 1..Len(s)
      BY <1>1, <2>3
    <3> QED
      BY <1>1, <1>2, <2>1, <3>1 DEF Sorted
  <2> QED
    BY <2>2, <2>3
<1>3. ASSUME Distinct(s), e \notin ToSet(s) \ {Sentinel}
      PROVE  Distinct(t)
  <2> SUFFICES ASSUME NEW i \in 1..Len(t), NEW j \in 1..Len(t), i < j, t[i] # Sentinel
               PROVE  t[i] # t[j]
    BY DEF Distinct
  <2>1. i \in 1..Len(s)
    BY <1>1
  <2>2. CASE j = Len(s) + 1
    BY <1>1, <1>3, <2>1, <2>2
  <2>3. CASE j # Len(s) + 1
    <3>1. j \in 1..Len(s)
      BY <1>1, <2>3
    <3> QED
      BY <1>1, <1>3, <2>1, <3>1 DEF Distinct
  <2> QED
    BY <2>2, <2>3
<1> QED
  BY <1>2, <1>3 DEF t

LEMMA TailKeeps ==
    ASSUME NEW S, NEW s \in Seq(S), s # <<>>
    PROVE  /\ Sorted(s) => Sorted(Tail(s))
           /\ Distinct(s) => Distinct(Tail(s))
           /\ Sorted(s) /\ Head(s) # Sentinel =>
                \A y \in ToSet(Tail(s)) \ {Sentinel} : Precedes(Head(s), y)
           /\ Distinct(s) /\ Head(s) # Sentinel => Head(s) \notin ToSet(Tail(s))
<1> DEFINE t == Tail(s)
<1>1. /\ Head(s) = s[1] /\ t \in Seq(S) /\ Len(s) \in Nat \ {0} /\ Len(t) = Len(s) - 1
      /\ \A i \in 1..Len(t) : t[i] = s[i + 1]
  OBVIOUS
<1> HIDE DEF t
<1>2. \A i \in 1..Len(t) : i + 1 \in 1..Len(s) /\ 1 < i + 1
  BY <1>1
<1>3. 1 \in 1..Len(s)
  BY <1>1
<1>4. ToSet(t) = {t[i] : i \in 1..Len(t)}
  BY <1>1, Elements
<1>5. Sorted(s) => Sorted(t)
  BY <1>1, <1>2 DEF Sorted
<1>6. Distinct(s) => Distinct(t)
  BY <1>1, <1>2 DEF Distinct
<1>7. ASSUME Sorted(s), Head(s) # Sentinel, NEW y \in ToSet(t) \ {Sentinel}
      PROVE  Precedes(Head(s), y)
  <2>1. PICK i \in 1..Len(t) : y = s[i + 1]
    BY <1>1, <1>4, <1>7
  <2> QED
    BY <1>1, <1>2, <1>3, <1>7, <2>1 DEF Sorted
<1>8. ASSUME Distinct(s), Head(s) # Sentinel PROVE Head(s) \notin ToSet(t)
  BY <1>1, <1>2, <1>3, <1>4, <1>8 DEF Distinct
<1> QED
  BY <1>5, <1>6, <1>7, <1>8 DEF t

LEMMA PrefixKeeps ==
    ASSUME NEW S, NEW d \in Seq(S), NEW s \in Seq(S)
    PROVE  /\ Sorted(d \o s) => Sorted(d)
           /\ Distinct(d \o s) => Distinct(d)
<1>1. /\ Len(d \o s) = Len(d) + Len(s) /\ Len(d) \in Nat /\ Len(s) \in Nat
      /\ \A i \in 1..Len(d) : (d \o s)[i] = d[i] /\ i \in 1..Len(d \o s)
  OBVIOUS
<1> QED
  BY <1>1 DEF Sorted, Distinct

LEMMA Nothing == ToSet(<<>>) = {} /\ Sorted(<<>>) /\ Distinct(<<>>)
  BY DEF ToSet, Sorted, Distinct

\* A list without repetition has as many elements as places.
LEMMA DistinctCount ==
    ASSUME NEW s \in Seq(Events), Distinct(s)
    PROVE  IsFiniteSet(ToSet(s)) /\ Cardinality(ToSet(s)) = Len(s)
<1>1. s \in [1..Len(s) -> ToSet(s)] /\ Len(s) \in Nat /\ DOMAIN s = 1..Len(s)
  BY Elements
<1>2. \A i, j \in 1..Len(s) : s[i] = s[j] => i = j
  <2> SUFFICES ASSUME NEW i \in 1..Len(s), NEW j \in 1..Len(s), s[i] = s[j], i # j
               PROVE  FALSE
    OBVIOUS
  <2>1. s[i] # Sentinel /\ s[j] # Sentinel
    BY Actors
  <2>2. i < j \/ j < i
    OBVIOUS
  <2> QED
    BY <2>1, <2>2 DEF Distinct
<1>3. \A e \in ToSet(s) : \E i \in 1..Len(s) : s[i] = e
  BY Elements
<1>4. s \in Bijection(1..Len(s), ToSet(s))
  BY <1>1, <1>2, <1>3 DEF Bijection, Injection, Surjection, IsInjective
<1>5. IsFiniteSet(1..Len(s)) /\ Cardinality(1..Len(s)) = Len(s)
  <2>1. 1 \in Int /\ Len(s) \in Int
    BY <1>1
  <2>2. /\ IsFiniteSet(1..Len(s))
        /\ Cardinality(1..Len(s)) = IF 1 > Len(s) THEN 0 ELSE Len(s) - 1 + 1
    BY <2>1, FS_Interval, Zenon
  <2> QED
    BY <1>1, <2>2
<1> QED
  BY <1>4, <1>5, FS_Bijection DEF ExistsBijection

-----------------------------------------------------------------------------
(* The steps by what they do to the events under way. *)

events == <<accepted, putting, sequence, queue, at, held>>

\* The steps that move no event.
Quiet ==
    /\ UNCHANGED events /\ Written' = Written /\ Trace' = Trace
    /\ mpc' # "off" => mpc # "off"
    /\ timedOut => timedOut'

LEMMA QuietSteps ==
    ASSUME TypeInv,
           \/ StartPool \/ JoinPool \/ LeaveLoop \/ EndThread \/ Unregister
           \/ Joined \/ JoinTimesOut \/ Drained \/ CloseSink \/ Archive \/ Prune
           \/ UNCHANGED vars
    PROVE  Quiet
<1> USE DEF Quiet, events, emitting, sink, files, Written, Trace
<1>1. CASE EndThread \/ CloseSink
  <2>1. FlushSink
    BY <1>1 DEF EndThread, CloseSink
  <2>2. Trace' = Trace
    BY <2>1, FlushMoves
  <2> QED
    BY <1>1, <2>2 DEF EndThread, CloseSink, TypeInv, TypeOK
<1>2. CASE Prune
  BY <1>2, PruneKeeps DEF Prune
<1>3. CASE \/ StartPool \/ JoinPool \/ LeaveLoop \/ Unregister
           \/ Joined \/ JoinTimesOut \/ Drained \/ Archive \/ UNCHANGED vars
  BY <1>3 DEF StartPool, JoinPool, LeaveLoop, Unregister, Joined, JoinTimesOut,
              Drained, Archive, vars
<1> QED
  BY <1>1, <1>2, <1>3

Ends == mpc' = "off" /\ (Exit \/ Kill)

LEMMA StepKinds ==
    ASSUME TypeInv, [Next]_vars
    PROVE  \/ StartRun \/ Ends \/ Quiet \/ RequestStop
           \/ \E t \in Threads, failed \in BOOLEAN : mpc # "off" /\ Number(t, failed)
           \/ \E t \in Threads : Put(t)
           \/ \E c \in Consumers : Take(c) \/ StartWrite(c) \/ FinishWrite(c)
                                   \/ FlushAfterError(c)
<1>1. CASE \/ StartPool \/ JoinPool \/ LeaveLoop \/ EndThread \/ Unregister
           \/ Joined \/ JoinTimesOut \/ Drained \/ CloseSink \/ Archive \/ Prune
           \/ UNCHANGED vars
  BY <1>1, QuietSteps
<1>2. CASE EmitTeardown \/ \E t \in Threads : \E failed \in BOOLEAN : Emit(t, failed)
  BY <1>2, Actors DEF EmitTeardown, Emit
<1>3. CASE Exit \/ Kill
  BY <1>3 DEF Exit, Kill, EndProcess, Ends
<1> QED
  BY <1>1, <1>2, <1>3 DEF Next

LEMMA TeardownStep == TypeInv /\ Teardown /\ [Next]_vars => Teardown'
<1> SUFFICES ASSUME TypeInv, Teardown, [Next]_vars PROVE Teardown'
  OBVIOUS
<1> USE Actors DEF Teardown, Threads
<1>1. CASE StartRun
  BY <1>1 DEF StartRun, sink
<1>2. CASE Exit \/ Kill
  BY <1>2 DEF Exit, Kill, EndProcess
<1>3. CASE StartPool \/ JoinPool \/ LeaveLoop \/ Unregister \/ Joined \/ JoinTimesOut
           \/ Drained \/ Archive
  BY <1>3 DEF StartPool, JoinPool, LeaveLoop, Unregister, Joined, JoinTimesOut,
              Drained, Archive, emitting, sink
<1>4. CASE EndThread \/ CloseSink \/ Prune \/ UNCHANGED vars
  BY <1>4 DEF EndThread, CloseSink, FlushSink, Prune, vars, emitting, sink
<1>5. CASE RequestStop
  BY <1>5 DEF RequestStop, emitting
<1>6. CASE EmitTeardown
  <2>1. /\ mpc = "work" /\ mpc' = "teardown"
        /\ UNCHANGED <<queue, loop, at, timedOut>>
    BY <1>6 DEF EmitTeardown, Number
  <2>2. \A t \in Pool : putting'[t] = putting[t]
    BY <1>6, EventAssumption DEF EmitTeardown, Number, TypeInv, TypeOK
  <2> QED
    BY <2>1, <2>2
<1>7. ASSUME NEW t \in Threads, NEW failed \in BOOLEAN, Emit(t, failed)
      PROVE  Teardown'
  <2>1. UNCHANGED <<mpc, queue, loop, at, timedOut>> /\ mpc \in {"work", "pool"}
    BY <1>7 DEF Emit, Number
  <2>2. \A u \in Threads : u # t => putting'[u] = putting[u]
    BY <1>7 DEF Emit, Number, TypeInv, TypeOK
  <2>3. mpc # "pool" => t = Main /\ \A u \in Pool : u # t
    BY <1>7, EventAssumption DEF Emit
  <2> QED
    BY <2>1, <2>2, <2>3
<1>8. ASSUME NEW t \in Threads, Put(t)
      PROVE  Teardown'
  <2>1. mpc \notin {"off", "stop", "join", "drain", "close", "archive", "prune", "exit"}
    BY <1>8 DEF Put, TypeInv, TypeOK
  <2> QED
    BY <1>8, <2>1 DEF Put, TypeInv, TypeOK
<1>9. ASSUME NEW c \in Consumers, Take(c)
      PROVE  Teardown'
  <2>1. mpc \notin {"off", "close", "archive", "prune", "exit"}
    BY <1>9 DEF Take
  <2> QED
    BY <1>9, <2>1 DEF Take, TypeInv, TypeOK, emitting
<1>10. ASSUME NEW c \in Consumers, StartWrite(c) \/ FinishWrite(c) \/ FlushAfterError(c)
       PROVE  Teardown'
  <2>1. mpc # "off"
    BY <1>10 DEF StartWrite, FinishWrite, FlushAfterError, TypeInv, Phases
  <2> QED
    BY <1>10, <2>1
       DEF StartWrite, FinishWrite, FlushAfterError, TypeInv, TypeOK, emitting
<1> QED
  BY <1>1, <1>2, <1>3, <1>4, <1>5, <1>6, <1>7, <1>8, <1>9, <1>10 DEF Next

\* The elements of the lists, step by step.
LEMMA WrittenBy ==
    TypeInv => /\ Written = ToSet(disk) \cup ToSet(buffer)
               /\ Trace \in Seq(Events) /\ Written \subseteq Events
               /\ queue \in Seq(Events \cup {Sentinel}) /\ Waiting \subseteq Events
<1> SUFFICES ASSUME TypeInv
             PROVE  /\ Written = ToSet(disk) \cup ToSet(buffer)
                    /\ Trace \in Seq(Events) /\ Written \subseteq Events
                    /\ queue \in Seq(Events \cup {Sentinel}) /\ Waiting \subseteq Events
  OBVIOUS
<1>1. Lists /\ queue \in Seq(Events \cup {Sentinel})
  BY DEF Lists, TypeInv, TypeOK
<1>2. Trace \in Seq(Events) /\ Written = ToSet(disk) \cup ToSet(buffer)
  BY <1>1, TraceElements DEF Written
<1>3. ToSet(queue) \subseteq Events \cup {Sentinel}
  BY <1>1, Elements
<1>4. Written \subseteq Events
  BY <1>2, Elements DEF Written
<1> QED
  BY <1>1, <1>2, <1>3, <1>4 DEF Waiting

LEMMA PutMoves ==
    ASSUME TypeInv, NEW t \in Threads, Put(t)
    PROVE  /\ putting[t] \in Events
           /\ queue' = Append(queue, putting[t])
           /\ Waiting' = Waiting \cup {putting[t]}
           /\ accepted' = accepted \cup {putting[t]}
           /\ putting'[t] = None /\ \A u \in Threads \ {t} : putting'[u] = putting[u]
           /\ UNCHANGED <<mpc, sequence, at, held, timedOut>>
           /\ Written' = Written /\ Trace' = Trace
<1>1. putting[t] \in Events /\ queue' = Append(queue, putting[t])
  BY DEF Put, TypeInv, TypeOK
<1>2. ToSet(queue') = ToSet(queue) \cup {putting[t]}
  BY <1>1, Elements DEF TypeInv, TypeOK
<1>3. Waiting' = Waiting \cup {putting[t]}
  BY <1>1, <1>2, Actors DEF Waiting
<1> QED
  BY <1>1, <1>3 DEF Put, TypeInv, TypeOK, files, sink, Written, Trace

LEMMA TakeMoves ==
    ASSUME TypeInv, NEW c \in Consumers, Take(c)
    PROVE  /\ queue # <<>> /\ queue' = Tail(queue)
           /\ UNCHANGED <<mpc, sequence, putting, accepted, timedOut>>
           /\ Written' = Written /\ Trace' = Trace
           /\ \A d \in Consumers \ {c} : at'[d] = at[d] /\ held'[d] = held[d]
           /\ Head(queue) = Sentinel =>
                Waiting' = Waiting /\ UNCHANGED <<at, held>>
           /\ Head(queue) # Sentinel =>
                /\ ~InHand(c) /\ InHand(c)' /\ held'[c] = Head(queue)
                /\ Head(queue) \in Events
                /\ Waiting = Waiting' \cup {Head(queue)}
<1>1. /\ queue # <<>> /\ queue' = Tail(queue) /\ queue \in Seq(Events \cup {Sentinel})
  BY DEF Take, TypeInv, TypeOK
<1>2. ToSet(queue) = ToSet(queue') \cup {Head(queue)}
      /\ Head(queue) \in Events \cup {Sentinel}
  BY <1>1, Elements
<1>3. /\ Head(queue) = Sentinel => Waiting' = Waiting
      /\ Head(queue) # Sentinel => Waiting = Waiting' \cup {Head(queue)}
  BY <1>2 DEF Waiting
<1>4. UNCHANGED <<mpc, sequence, putting, accepted, timedOut>> /\ Written' = Written
      /\ Trace' = Trace
  BY DEF Take, emitting, files, sink, Written, Trace
<1>5. Head(queue) # Sentinel =>
        ~InHand(c) /\ InHand(c)' /\ held'[c] = Head(queue)
  BY DEF Take, TypeInv, TypeOK, InHand
<1>6. \A d \in Consumers \ {c} : at'[d] = at[d] /\ held'[d] = held[d]
  BY DEF Take, TypeInv, TypeOK
<1>7. Head(queue) = Sentinel => UNCHANGED <<at, held>>
  BY DEF Take
<1> QED
  BY <1>1, <1>2, <1>3, <1>4, <1>5, <1>6, <1>7

LEMMA WriteMoves ==
    ASSUME TypeInv, NEW c \in Consumers, FinishWrite(c)
    PROVE  /\ UNCHANGED <<mpc, sequence, putting, queue, accepted, timedOut>>
           /\ InHand(c) /\ ~InHand(c)' /\ held[c] \in Events
           /\ Waiting' = Waiting
           /\ Trace' = Append(Trace, held[c]) /\ Written' = Written \cup {held[c]}
           /\ \A d \in Consumers \ {c} : at'[d] = at[d] /\ held'[d] = held[d]
<1>1. /\ held[c] \in Events /\ Trace' = Append(Trace, held[c])
      /\ Written' = Written \cup {held[c]}
  BY WriteAppends DEF Written
<1> QED
  BY <1>1 DEF FinishWrite, TypeInv, TypeOK, InHand, Waiting, emitting

\* The start of a write and the flush after an error move no event.
LEMMA WriterSteps ==
    ASSUME TypeInv, NEW c \in Consumers, StartWrite(c) \/ FlushAfterError(c)
    PROVE  /\ UNCHANGED <<mpc, sequence, putting, queue, accepted, timedOut>>
           /\ Written' = Written /\ Trace' = Trace /\ Waiting' = Waiting
           /\ \A d \in Consumers : /\ InHand(d)' <=> InHand(d)
                                   /\ InHand(d) => held'[d] = held[d]
<1>1. CASE StartWrite(c)
  BY <1>1 DEF StartWrite, TypeInv, TypeOK, InHand, Waiting, emitting, Written, Trace
<1>2. CASE FlushAfterError(c)
  <2>1. FlushSink
    BY <1>2 DEF FlushAfterError
  <2>2. Trace' = Trace
    BY <2>1, FlushMoves
  <2> QED
    BY <1>2, <2>2
       DEF FlushAfterError, TypeInv, TypeOK, InHand, Waiting, emitting, Written
<1> QED
  BY <1>1, <1>2

LEMMA StopMoves ==
    ASSUME TypeInv, RequestStop
    PROVE  /\ UNCHANGED <<sequence, putting, accepted, at, held, timedOut>>
           /\ mpc # "off" /\ Written' = Written /\ Trace' = Trace /\ Waiting' = Waiting
           /\ queue' = Append(queue, Sentinel)
<1>1. ToSet(queue') = ToSet(queue) \cup {Sentinel}
  <2>1. queue \in Seq(Events \cup {Sentinel}) /\ queue' = Append(queue, Sentinel)
    BY DEF RequestStop, TypeInv, TypeOK
  <2> QED
    BY <2>1, Elements
<1> QED
  BY <1>1 DEF RequestStop, emitting, sink, files, Waiting, Written, Trace

-----------------------------------------------------------------------------
(* Every event in one place. *)

LEMMA NumberingStep == TypeInv /\ Teardown /\ Numbering /\ [Next]_vars => Numbering'
<1> SUFFICES ASSUME TypeInv, Teardown, Numbering, [Next]_vars, mpc' # "off"
             PROVE  Numbering'
  BY DEF Numbering
<1>0. /\ accepted \subseteq Events /\ sequence \in Nat
      /\ putting \in [Threads -> Events \cup {None}]
      /\ \A e \in Events : e.n \in Nat /\ e.by \in Threads
  BY EventAssumption DEF TypeInv, TypeOK, Events
<1>1. CASE StartRun
  <2>1. accepted' = {} /\ putting' = putting /\ mpc = "off"
    BY <1>1 DEF StartRun
  <2>2. \A t \in Threads : putting[t] = None
    BY <2>1 DEF Teardown, Threads
  <2> QED
    BY <2>1, <2>2 DEF Numbering
<1>2. CASE Quiet
  BY <1>2 DEF Quiet, events, Numbering
<1>3. CASE RequestStop
  BY <1>3, StopMoves DEF Numbering
<1>4. ASSUME NEW t \in Threads, NEW failed \in BOOLEAN, mpc # "off", Number(t, failed)
      PROVE  Numbering'
  <2> DEFINE e == [by |-> t, n |-> sequence + 1, failed |-> failed]
  <2>1. /\ sequence' = sequence + 1 /\ accepted' = accepted
        /\ putting'[t] \in {e, None}
        /\ \A u \in Threads \ {t} : putting'[u] = putting[u]
        /\ e.by = t /\ e.n = sequence + 1
    BY <1>0, <1>4 DEF Number
  <2> HIDE DEF e
  <2>2. \A x \in accepted : x.n <= sequence /\ x.n \in Nat
    BY <1>0, <1>4 DEF Numbering
  <2>3. \A x \in accepted : x.n <= sequence'
    BY <1>0, <2>1, <2>2
  <2>4. ASSUME NEW u \in Threads, putting'[u] # None
        PROVE  /\ putting'[u].by = u /\ putting'[u].n <= sequence'
               /\ \A x \in accepted : Precedes(x, putting'[u])
    <3>1. CASE u = t
      BY <1>0, <2>1, <2>2, <2>4, <3>1 DEF Precedes
    <3>2. CASE u # t
      <4>1. putting'[u] = putting[u] /\ putting[u] \in Events
        BY <1>0, <2>1, <2>4, <3>2
      <4>2. /\ putting[u].by = u /\ putting[u].n <= sequence
            /\ \A x \in accepted : Precedes(x, putting[u])
        BY <1>4, <2>4, <4>1, Actors DEF Numbering
      <4> QED
        BY <1>0, <2>1, <4>1, <4>2
    <3> QED
      BY <3>1, <3>2
  <2> QED
    BY <2>1, <2>3, <2>4 DEF Numbering
<1>5. ASSUME NEW t \in Threads, Put(t)
      PROVE  Numbering'
  <2>1. /\ putting[t] \in Events
        /\ accepted' = accepted \cup {putting[t]}
        /\ putting'[t] = None /\ \A u \in Threads \ {t} : putting'[u] = putting[u]
        /\ UNCHANGED <<mpc, sequence>>
    BY <1>5, PutMoves
  <2>2. mpc # "off" /\ putting[t].by = t /\ putting[t].n <= sequence
    BY <2>1, Actors DEF Numbering
  <2>3. \A u \in Threads \ {t} : putting[u] # None =>
          putting[u].by = u /\ Precedes(putting[t], putting[u])
    BY <2>2, Actors DEF Numbering, Precedes
  <2> QED
    BY <2>1, <2>2, <2>3 DEF Numbering
<1>6. ASSUME NEW c \in Consumers,
             Take(c) \/ StartWrite(c) \/ FinishWrite(c) \/ FlushAfterError(c)
      PROVE  Numbering'
  <2>1. UNCHANGED <<mpc, sequence, putting, accepted>>
    BY <1>6, TakeMoves, WriteMoves, WriterSteps
  <2> QED
    BY <2>1 DEF Numbering
<1> QED
  BY <1>1, <1>2, <1>3, <1>4, <1>5, <1>6, StepKinds DEF Ends

LEMMA OnePlaceStep ==
    TypeInv /\ Teardown /\ Numbering /\ OnePlace /\ NoneTwice /\ [Next]_vars
      => OnePlace'
<1> SUFFICES ASSUME TypeInv, Teardown, Numbering, OnePlace, NoneTwice, [Next]_vars,
                    mpc' # "off"
             PROVE  OnePlace'
  BY DEF OnePlace
<1> USE Actors
<1>1. CASE StartRun
  <2>1. /\ disk' = <<>> /\ buffer' = <<>> /\ queue' = <<>> /\ accepted' = {}
        /\ \A c \in Consumers : at'[c] = "take"
    BY <1>1 DEF StartRun, Teardown, TypeInv, Phases, sink
  <2>2. Trace' = <<>>
    BY <2>1, EmptyBehind DEF Trace
  <2>3. Written' = {} /\ Waiting' = {}
    BY <2>1, <2>2, Nothing DEF Written, Waiting
  <2> QED
    BY <2>1, <2>3 DEF OnePlace, InHand
<1>2. CASE Quiet
  BY <1>2 DEF Quiet, events, OnePlace, InHand, Waiting
<1>3. CASE RequestStop
  BY <1>3, StopMoves DEF OnePlace, InHand
<1>4. ASSUME NEW t \in Threads, NEW failed \in BOOLEAN, mpc # "off", Number(t, failed)
      PROVE  OnePlace'
  BY <1>4 DEF Number, files, sink, OnePlace, InHand, Waiting, Written, Trace
<1>5. ASSUME NEW t \in Threads, Put(t)
      PROVE  OnePlace'
  <2>1. putting[t] \notin accepted /\ mpc # "off"
    <3>1. mpc # "off" /\ putting[t] # None
      BY <1>5, PutMoves
    <3>2. \A e \in accepted : Precedes(e, putting[t])
      BY <3>1 DEF Numbering
    <3>3. ~Precedes(putting[t], putting[t])
      BY <1>5, PutMoves DEF Precedes, Events
    <3> QED
      BY <3>1, <3>2, <3>3
  <2> QED
    BY <1>5, <2>1, PutMoves DEF OnePlace, InHand
<1>6. ASSUME NEW c \in Consumers, Take(c)
      PROVE  OnePlace'
  <2>1. CASE Head(queue) = Sentinel
    BY <1>6, <2>1, TakeMoves DEF OnePlace, InHand
  <2>2. CASE Head(queue) # Sentinel
    <3>1. Head(queue) \notin Waiting'
      <4>1. queue # <<>> /\ queue' = Tail(queue)
        BY <1>6, TakeMoves
      <4>2. Head(queue) \notin ToSet(Tail(queue))
        BY <2>2, <4>1, TailKeeps DEF NoneTwice, TypeInv, TypeOK
      <4> QED
        BY <4>1, <4>2 DEF Waiting
    <3> QED
      BY <1>6, <2>2, <3>1, TakeMoves DEF OnePlace, InHand
  <2> QED
    BY <2>1, <2>2
<1>7. ASSUME NEW c \in Consumers, FinishWrite(c)
      PROVE  OnePlace'
  <2>1. /\ mpc # "off" /\ mpc' = mpc /\ accepted' = accepted /\ Waiting' = Waiting
        /\ Written' = Written \cup {held[c]} /\ InHand(c) /\ ~InHand(c)'
        /\ held[c] \in accepted /\ held[c] \notin Written \cup Waiting
        /\ \A d \in Consumers \ {c} : /\ InHand(d)' <=> InHand(d)
                                      /\ held'[d] = held[d]
    BY <1>7, WriteMoves DEF OnePlace, InHand
  <2>2. \A d \in Consumers \ {c} : InHand(d) => held[d] # held[c]
    BY <2>1 DEF OnePlace
  <2>3. \A e \in accepted :
          e \in Written' \/ e \in Waiting' \/ \E d \in Consumers : InHand(d)' /\ held'[d] = e
    BY <2>1 DEF OnePlace
  <2>4. Written' \cup Waiting' \subseteq accepted' /\ Written' \cap Waiting' = {}
    BY <2>1 DEF OnePlace
  <2>5. \A d \in Consumers : InHand(d)' =>
          held'[d] \in accepted' /\ held'[d] \notin Written' \cup Waiting'
    BY <2>1, <2>2 DEF OnePlace
  <2>6. ~(InHand(Main)' /\ InHand(Listener)')
    BY <2>1
  <2> HIDE DEF InHand
  <2> QED
    BY <2>1, <2>3, <2>4, <2>5, <2>6 DEF OnePlace
<1>8. ASSUME NEW c \in Consumers, StartWrite(c) \/ FlushAfterError(c)
      PROVE  OnePlace'
  BY <1>8, WriterSteps DEF OnePlace
<1> QED
  BY <1>1, <1>2, <1>3, <1>4, <1>5, <1>6, <1>7, <1>8, StepKinds DEF Ends

LEMMA NoneTwiceStep ==
    TypeInv /\ Teardown /\ Numbering /\ OnePlace /\ NoneTwice /\ [Next]_vars
      => NoneTwice'
<1> SUFFICES ASSUME TypeInv, Teardown, Numbering, OnePlace, NoneTwice, [Next]_vars
             PROVE  NoneTwice'
  OBVIOUS
<1> USE Actors DEF NoneTwice
<1>0. Trace \in Seq(Events) /\ queue \in Seq(Events \cup {Sentinel})
  BY WrittenBy
<1>1. CASE StartRun
  <2>1. Trace' = <<>> /\ queue' = queue
    BY <1>1, EmptyBehind DEF StartRun, Teardown, Trace, sink
  <2> QED
    BY <2>1, Nothing
<1>2. CASE Ends
  <2>1. Distinct(disk)
    BY PrefixKeeps DEF Trace, TypeInv, TypeOK
  <2>2. queue' = <<>> /\ buffer' = <<>> /\ (disk' = disk \/ disk' = Trace)
        /\ disk' \in Seq(Events)
    BY <1>0, <1>2 DEF Ends, Exit, Kill, EndProcess, Trace, TypeInv, TypeOK
  <2>3. Trace' = disk'
    BY <2>2, EmptyBehind DEF Trace
  <2> QED
    BY <2>1, <2>2, <2>3, Nothing
<1>3. CASE Quiet
  BY <1>3 DEF Quiet, events
<1>4. CASE RequestStop
  <2>1. queue' = Append(queue, Sentinel) /\ Trace' = Trace
    BY <1>4, StopMoves
  <2> QED
    BY <1>0, <2>1, AppendKeeps
<1>5. ASSUME NEW t \in Threads, NEW failed \in BOOLEAN, Number(t, failed)
      PROVE  NoneTwice'
  BY <1>5 DEF Number, files, sink, Trace
<1>6. ASSUME NEW t \in Threads, Put(t)
      PROVE  NoneTwice'
  <2>1. /\ putting[t] \in Events /\ queue' = Append(queue, putting[t])
        /\ Trace' = Trace
    BY <1>6, PutMoves
  <2>2. mpc # "off"
    BY <1>6 DEF Put, Teardown, Threads
  <2>3. putting[t] \notin accepted
    BY <2>1, <2>2 DEF Numbering, Precedes, Events
  <2>4. putting[t] \notin ToSet(queue) \ {Sentinel}
    BY <2>2, <2>3 DEF OnePlace, Waiting
  <2> QED
    BY <1>0, <2>1, <2>4, AppendKeeps
<1>7. ASSUME NEW c \in Consumers, Take(c)
      PROVE  NoneTwice'
  <2>1. queue # <<>> /\ queue' = Tail(queue) /\ Trace' = Trace
    BY <1>7, TakeMoves
  <2> QED
    BY <1>0, <2>1, TailKeeps
<1>8. ASSUME NEW c \in Consumers, FinishWrite(c)
      PROVE  NoneTwice'
  <2>1. /\ held[c] \in Events /\ queue' = queue
        /\ Trace' = Append(Trace, held[c]) /\ InHand(c)
    BY <1>8, WriteMoves
  <2>2. mpc # "off"
    BY <1>8 DEF FinishWrite, TypeInv, Phases
  <2>3. held[c] \notin ToSet(Trace)
    BY <2>1, <2>2 DEF OnePlace, Written
  <2> QED
    BY <1>0, <2>1, <2>3, AppendKeeps
<1>9. ASSUME NEW c \in Consumers, StartWrite(c) \/ FlushAfterError(c)
      PROVE  NoneTwice'
  BY <1>9, WriterSteps
<1> QED
  BY <1>1, <1>2, <1>3, <1>4, <1>5, <1>6, <1>7, <1>8, <1>9, StepKinds

-----------------------------------------------------------------------------
(* The order. *)

\* What the listener holds when the caller drains is left from a join that gave up.
LEMMA OneConsumer ==
    TypeInv /\ Teardown /\ ~timedOut /\ InHand(Main) => at[Listener] = "take"
  BY DEF Teardown, InHand

LEMMA InOrderStep ==
    TypeInv /\ Teardown /\ Numbering /\ OnePlace /\ InOrder /\ [Next]_vars => InOrder'
<1> SUFFICES ASSUME TypeInv, Teardown, Numbering, OnePlace, InOrder, [Next]_vars,
                    ~timedOut'
             PROVE  InOrder'
  BY DEF InOrder
<1> USE Actors
<1>0. Trace \in Seq(Events) /\ queue \in Seq(Events \cup {Sentinel})
  BY WrittenBy
<1>1. CASE StartRun
  <2>1. /\ disk' = <<>> /\ buffer' = <<>> /\ queue' = <<>>
        /\ \A c \in Consumers : at'[c] = "take"
    BY <1>1 DEF StartRun, Teardown, TypeInv, Phases, sink
  <2>2. Trace' = <<>>
    BY <2>1, EmptyBehind DEF Trace
  <2>3. Written' = {} /\ Waiting' = {}
    BY <2>1, <2>2, Nothing DEF Written, Waiting
  <2> QED
    BY <2>1, <2>2, <2>3, Nothing DEF InOrder, InHand
<1>2. CASE Ends
  <2>1. ~timedOut
    BY <1>2 DEF Ends, Exit, Kill, EndProcess
  <2>2. Sorted(Trace) /\ Sorted(disk)
    BY <2>1, PrefixKeeps DEF InOrder, Trace, TypeInv, TypeOK
  <2>3. buffer' = <<>> /\ (disk' = disk \/ disk' = Trace) /\ disk' \in Seq(Events)
    BY <1>0, <1>2 DEF Ends, Exit, Kill, EndProcess, Trace, TypeInv, TypeOK
  <2>4. Trace' = disk'
    BY <2>3, EmptyBehind DEF Trace
  <2> QED
    BY <1>2, <2>2, <2>3, <2>4 DEF InOrder, Ends
<1>3. CASE Quiet
  BY <1>3 DEF Quiet, events, InOrder, InHand, Waiting
<1>4. CASE RequestStop
  <2>1. /\ queue' = Append(queue, Sentinel) /\ Trace' = Trace /\ Written' = Written
        /\ Waiting' = Waiting /\ mpc # "off" /\ UNCHANGED <<at, held, timedOut>>
    BY <1>4, StopMoves
  <2>2. Sorted(queue)
    BY <2>1 DEF InOrder
  <2>3. Sorted(queue')
    BY <1>0, <2>1, <2>2, AppendKeeps
  <2> QED
    BY <2>1, <2>3 DEF InOrder, InHand
<1>5. ASSUME NEW t \in Threads, NEW failed \in BOOLEAN, mpc # "off", Number(t, failed)
      PROVE  InOrder'
  BY <1>5 DEF Number, files, sink, InOrder, InHand, Waiting, Written, Trace
<1>6. ASSUME NEW t \in Threads, Put(t)
      PROVE  InOrder'
  <2>1. /\ putting[t] \in Events /\ queue' = Append(queue, putting[t])
        /\ Waiting' = Waiting \cup {putting[t]}
        /\ Trace' = Trace /\ Written' = Written /\ UNCHANGED <<mpc, at, held, timedOut>>
    BY <1>6, PutMoves
  <2>2. mpc # "off"
    BY <1>6 DEF Put, Teardown, Threads
  <2>3. \A e \in accepted : Precedes(e, putting[t])
    BY <2>1, <2>2 DEF Numbering
  <2>4. Sorted(queue')
    BY <1>0, <2>1, <2>2, <2>3, AppendKeeps DEF InOrder, OnePlace, Waiting
  <2>5. \A c \in Consumers : InHand(c) => held[c] \in accepted
    BY <2>2 DEF OnePlace
  <2>6. Written \subseteq accepted
    BY <2>2 DEF OnePlace
  <2> QED
    BY <2>1, <2>2, <2>3, <2>4, <2>5, <2>6 DEF InOrder, InHand
<1>7. ASSUME NEW c \in Consumers, Take(c)
      PROVE  InOrder'
  <2>1. /\ queue # <<>> /\ queue' = Tail(queue) /\ Trace' = Trace /\ Written' = Written
        /\ UNCHANGED <<mpc, timedOut>>
        /\ \A d \in Consumers \ {c} : at'[d] = at[d] /\ held'[d] = held[d]
    BY <1>7, TakeMoves
  <2>2. mpc # "off"
    BY <1>7 DEF Take, TypeInv, Phases
  <2>3. Sorted(queue')
    BY <1>0, <2>1, <2>2, TailKeeps DEF InOrder
  <2>4. CASE Head(queue) = Sentinel
    BY <1>7, <2>1, <2>2, <2>3, <2>4, TakeMoves DEF InOrder, InHand
  <2>5. CASE Head(queue) # Sentinel
    <3>1. /\ held'[c] = Head(queue) /\ Head(queue) \in Waiting
          /\ Waiting' \subseteq Waiting
      BY <1>7, <2>5, TakeMoves
    <3>2. \A y \in Waiting' : Precedes(Head(queue), y)
      BY <1>0, <2>1, <2>2, <2>5, TailKeeps DEF InOrder, Waiting
    <3>3. \A d \in Consumers \ {c} : ~InHand(d)
      BY <1>7, <2>1, OneConsumer DEF Take, InHand, Teardown
    <3> QED
      BY <2>1, <2>2, <2>3, <3>1, <3>2, <3>3 DEF InOrder, InHand
  <2> QED
    BY <2>4, <2>5
<1>8. ASSUME NEW c \in Consumers, FinishWrite(c)
      PROVE  InOrder'
  <2>1. /\ held[c] \in Events /\ UNCHANGED <<mpc, queue, timedOut>> /\ Waiting' = Waiting
        /\ Trace' = Append(Trace, held[c]) /\ Written' = Written \cup {held[c]}
        /\ InHand(c) /\ ~InHand(c)'
        /\ \A d \in Consumers \ {c} : at'[d] = at[d] /\ held'[d] = held[d]
    BY <1>8, WriteMoves
  <2>2. mpc # "off"
    BY <1>8 DEF FinishWrite, TypeInv, Phases
  <2>3. Sorted(Trace')
    BY <1>0, <2>1, <2>2, AppendKeeps DEF InOrder, Written
  <2>4. \A d \in Consumers \ {c} : ~InHand(d) /\ ~InHand(d)'
    BY <2>1, OneConsumer DEF InHand, Teardown
  <2>5. \A d \in Consumers : ~InHand(d)'
    BY <2>1, <2>4
  <2>6. \A x \in Written', y \in Waiting' : Precedes(x, y)
    BY <2>1, <2>2 DEF InOrder
  <2> HIDE DEF InHand
  <2> QED
    BY <2>1, <2>2, <2>3, <2>5, <2>6 DEF InOrder
<1>9. ASSUME NEW c \in Consumers, StartWrite(c) \/ FlushAfterError(c)
      PROVE  InOrder'
  BY <1>9, WriterSteps DEF InOrder
<1> QED
  BY <1>1, <1>2, <1>3, <1>4, <1>5, <1>6, <1>7, <1>8, <1>9, StepKinds

-----------------------------------------------------------------------------
(* The archive. *)

\* What is closed: the trace lacks at most what the listener still holds.
LEMMA CloseLeavesOne ==
    ASSUME TypeInv, Teardown, OnePlace, CloseSink
    PROVE  NearlyAll(ToSet(disk))'
<1>1. FlushSink /\ mpc = "close" /\ accepted' = accepted /\ timedOut' = timedOut
  BY DEF CloseSink
<1>2. ToSet(disk') = Written
  BY <1>1, FlushMoves DEF Written
<1>3. Waiting = {} /\ ~InHand(Main)
  BY <1>1, Nothing DEF Teardown, Waiting, InHand
<1>4. \A e \in accepted : e \in Written \/ (InHand(Listener) /\ held[Listener] = e)
  BY <1>1, <1>3, Actors DEF OnePlace
<1>5. held[Listener] \in Events \cup {None}
  BY Actors DEF TypeInv, TypeOK
<1>6. accepted \ Written \subseteq {held[Listener]}
  BY <1>4
<1>7. ~timedOut => ~InHand(Listener)
  BY <1>1 DEF Teardown, InHand
<1> QED
  BY <1>1, <1>2, <1>4, <1>5, <1>6, <1>7 DEF NearlyAll

LEMMA ArchivedStep ==
    TypeInv /\ Teardown /\ OnePlace /\ NoneTwice /\ Archived /\ [Next]_vars
      => Archived'
<1> SUFFICES ASSUME TypeInv, Teardown, OnePlace, NoneTwice, Archived, [Next]_vars
             PROVE  Archived'
  OBVIOUS
<1> USE Actors
<1> DEFINE Late == mpc \in {"archive", "prune", "exit"}
\* A step that leaves the archive alone may add to the file.
<1>1. ASSUME UNCHANGED <<mpc, archive, accepted, timedOut>>,
             Late => ToSet(disk) \subseteq ToSet(disk')
      PROVE  Archived'
  <2>1. Late => NearlyAll(ToSet(disk))'
    BY <1>1 DEF Archived, NearlyAll
  <2> QED
    BY <1>1, <2>1 DEF Archived, NearlyAll
<1>2. CASE StartRun
  BY <1>2 DEF StartRun, Archived
<1>3. CASE Exit \/ Kill
  BY <1>3 DEF Exit, Kill, EndProcess, Archived
<1>4. CASE CloseSink
  BY <1>4, CloseLeavesOne DEF CloseSink, Archived
<1>5. CASE Archive
  <2>1. mpc = "archive" /\ mpc' = "prune" /\ UNCHANGED <<disk, accepted, timedOut>>
        /\ (archive' = disk \/ archive' = archive)
    BY <1>5 DEF Archive
  <2>2. Distinct(disk)
    BY PrefixKeeps DEF NoneTwice, Trace, TypeInv, TypeOK
  <2> QED
    BY <2>1, <2>2 DEF Archived, NearlyAll
<1>6. CASE Prune
  <2>1. mpc = "prune" /\ mpc' = "exit" /\ UNCHANGED <<disk, archive, accepted, timedOut>>
    BY <1>6, PruneKeeps DEF Prune
  <2> QED
    BY <2>1 DEF Archived, NearlyAll
<1>7. ASSUME NEW c \in Consumers, FinishWrite(c)
      PROVE  Archived'
  BY <1>1, <1>7, WriteAppends DEF FinishWrite
<1>8. ASSUME NEW c \in Consumers, FlushAfterError(c)
      PROVE  Archived'
  <2>1. FlushSink
    BY <1>8 DEF FlushAfterError
  <2> QED
    BY <1>1, <1>8, <2>1, FlushMoves DEF FlushAfterError
<1>9. CASE EndThread
  <2>1. FlushSink
    BY <1>9 DEF EndThread
  <2> QED
    BY <1>1, <1>9, <2>1, FlushMoves DEF EndThread
<1>10. ASSUME NEW c \in Consumers, Take(c) \/ StartWrite(c)
       PROVE  Archived'
  BY <1>1, <1>10 DEF Take, StartWrite, files
<1>11. CASE LeaveLoop \/ UNCHANGED vars
  BY <1>1, <1>11 DEF LeaveLoop, vars, files
<1>12. ASSUME NEW t \in Threads, NEW failed \in BOOLEAN, Emit(t, failed)
       PROVE  Archived'
  BY <1>1, <1>12 DEF Emit, Number, files
<1>13. ASSUME NEW t \in Threads, Put(t)
       PROVE  Archived'
  <2>1. mpc \in {"work", "pool", "teardown"}
    BY <1>13 DEF Put, Threads, Teardown, TypeInv, TypeOK
  <2> QED
    BY <1>13, <2>1 DEF Put, files, Archived
<1>14. CASE \/ StartPool \/ JoinPool \/ EmitTeardown \/ Unregister \/ RequestStop
            \/ Joined \/ JoinTimesOut \/ Drained
  BY <1>14 DEF StartPool, JoinPool, EmitTeardown, Number, Unregister, RequestStop,
               Joined, JoinTimesOut, Drained, files, Archived
<1> QED
  BY <1>2, <1>3, <1>4, <1>5, <1>6, <1>7, <1>8, <1>9, <1>10, <1>11, <1>12, <1>13,
     <1>14 DEF Next

PathInv == Teardown /\ Numbering /\ OnePlace /\ NoneTwice /\ InOrder /\ Archived

LEMMA PathInit == Init => PathInv
<1> SUFFICES ASSUME Init PROVE PathInv
  OBVIOUS
<1>1. /\ mpc = "off" /\ queue = <<>> /\ buffer = <<>> /\ disk = <<>>
      /\ \A c \in Consumers : at[c] = "take"
      /\ \A t \in Threads : putting[t] = None
      /\ loop = "off" /\ timedOut = FALSE
  BY DEF Init
<1>2. Trace = <<>>
  BY <1>1, EmptyBehind DEF Trace
<1>3. Teardown
  BY <1>1, Actors DEF Teardown, Threads
<1>4. Numbering /\ OnePlace /\ Archived
  BY <1>1 DEF Numbering, OnePlace, Archived
<1>5. NoneTwice /\ InOrder
  BY <1>1, <1>2, Nothing DEF NoneTwice, InOrder
<1> QED
  BY <1>3, <1>4, <1>5 DEF PathInv

LEMMA PathStep == TypeInv /\ PathInv /\ [Next]_vars => PathInv'
  BY TeardownStep, NumberingStep, OnePlaceStep, NoneTwiceStep, InOrderStep,
     ArchivedStep DEF PathInv

\* The archived file holds each event once, and the counts of ArchiveIsWhole.
LEMMA WholeArchive == TypeInv /\ Archived => ArchiveIsWhole
<1> SUFFICES ASSUME TypeInv, Archived, mpc \in {"prune", "exit"}, archive # None
             PROVE  /\ Cardinality(ToSet(archive)) = Len(archive)
                    /\ Cardinality(accepted \ ToSet(archive)) <= IF timedOut THEN 1 ELSE 0
  BY DEF ArchiveIsWhole
<1>1. archive \in Seq(Events) /\ Distinct(archive) /\ NearlyAll(ToSet(archive))
  BY DEF Archived, TypeInv, TypeOK
<1>2. Cardinality(ToSet(archive)) = Len(archive)
  BY <1>1, DistinctCount
<1> DEFINE missing == accepted \ ToSet(archive)
<1>3. ~timedOut => missing = {}
  BY <1>1 DEF NearlyAll
<1>4. PICK x : missing \subseteq {x}
  BY <1>1 DEF NearlyAll
<1>5. IsFiniteSet({x}) /\ Cardinality({x}) = 1 /\ Cardinality({}) = 0
  BY FS_Singleton, FS_EmptySet
<1>6. missing = {} \/ missing = {x}
  BY <1>4
<1>7. Cardinality(missing) \in {0, 1} /\ (~timedOut => Cardinality(missing) = 0)
  BY <1>3, <1>5, <1>6
<1> QED
  BY <1>2, <1>7

LEMMA OrderedTrace == TypeInv /\ InOrder => TraceInProgramOrder
<1> SUFFICES ASSUME TypeInv, InOrder, ~timedOut,
                    NEW i \in DOMAIN Trace, NEW j \in DOMAIN Trace,
                    i < j, Trace[i].by = Trace[j].by
             PROVE  Trace[i].n < Trace[j].n
  BY DEF TraceInProgramOrder
<1>1. Trace \in Seq(Events)
  BY WrittenBy
<1>2. i \in 1..Len(Trace) /\ j \in 1..Len(Trace)
  BY <1>1
<1>3. Trace[i] # Sentinel /\ Trace[j] # Sentinel
  BY <1>1, <1>2, Actors
<1> QED
  BY <1>2, <1>3 DEF InOrder, Sorted, Precedes

\* Unless join() gives up, the trace keeps the order in which each thread emitted
\* its events, through the queue and the two consumers, and what is archived holds
\* every event put, once; if it gives up, all but the one the listener holds.
THEOREM TraceReconstructsRun == Spec => []TraceIsFaithful
<1>1. TypeInv /\ PathInv => TraceIsFaithful
  BY WholeArchive, OrderedTrace DEF TraceIsFaithful, PathInv, TypeInv
<1> QED
  BY <1>1, TypeInit, TypeStep, PathInit, PathStep, PTL DEF Spec

=============================================================================
