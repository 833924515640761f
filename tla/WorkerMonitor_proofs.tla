------------------------- MODULE WorkerMonitor_proofs -------------------------
(***************************************************************************)
(* Proofs about WorkerMonitor, for any number of runs, any capacity of the *)
(* pipe and any front end: types, the single terminal report, the truth of *)
(* a report of completion, and the delivery of every event of a child that *)
(* ends by itself.                                                         *)
(***************************************************************************)
EXTENDS WorkerMonitor, TLAPS

-----------------------------------------------------------------------------
(* Emission. *)

\* The literals of the actions are events, and reports are events.
LEMMA EventFacts ==
    /\ {"runStart", "teardown", "marketSynced", "goldReplaced", "runCompleted",
        "runFailed", "entityFailed"} \subseteq Events
    /\ Terminal = {"runCompleted", "runFailed"}
    /\ Terminal \subseteq Events
BY DEF Events, Terminal, FullProgress, Failures

\* An event goes behind those of its run and leaves every other run alone.
LEMMA EmitAppends ==
    ASSUME PipeType, NEW r \in Runs, NEW e \in Events, Emit(r, e)
    PROVE  /\ emitted' \in [Runs -> Seq(Events)]
           /\ \A q \in Runs : Len(emitted'[q]) >= Len(emitted[q])
           /\ \A q \in Runs \ {r} : emitted'[q] = emitted[q]
           /\ Len(emitted'[r]) = Len(emitted[r]) + 1
           /\ emitted'[r][Len(emitted[r]) + 1] = e
           /\ \A i \in 1..Len(emitted[r]) : emitted'[r][i] = emitted[r][i]
<1>1. emitted[r] \in Seq(Events)
  BY DEF PipeType
<1>2. /\ emitted' \in [Runs -> Seq(Events)]
      /\ emitted'[r] = Append(emitted[r], e)
      /\ \A q \in Runs \ {r} : emitted'[q] = emitted[q]
  BY <1>1 DEF PipeType, Emit
<1>3. /\ Len(Append(emitted[r], e)) = Len(emitted[r]) + 1
      /\ Append(emitted[r], e)[Len(emitted[r]) + 1] = e
      /\ \A i \in 1..Len(emitted[r]) : Append(emitted[r], e)[i] = emitted[r][i]
      /\ Len(emitted[r]) \in Nat
  BY <1>1
<1>4. \A q \in Runs : Len(emitted'[q]) >= Len(emitted[q])
  <2>1. \A q \in Runs : Len(emitted[q]) \in Nat
    BY DEF PipeType
  <2> QED
    BY <1>2, <1>3, <2>1
<1> QED
  BY <1>2, <1>3, <1>4

\* The pipe keeps its type whatever a step emits.
LEMMA PipeKept ==
    ASSUME PipeType, UNCHANGED <<piped, read>>,
           \/ UNCHANGED emitted
           \/ \E r \in Runs, e \in Events : Emit(r, e)
    PROVE  PipeType'
<1>1. CASE UNCHANGED emitted
  BY <1>1 DEF PipeType
<1>2. ASSUME NEW r \in Runs, NEW e \in Events, Emit(r, e) PROVE PipeType'
  <2>1. /\ emitted' \in [Runs -> Seq(Events)]
        /\ \A q \in Runs : Len(emitted'[q]) >= Len(emitted[q])
    BY <1>2, EmitAppends
  <2>2. \A q \in Runs : Len(emitted[q]) \in Nat /\ Len(emitted'[q]) \in Nat
    BY <2>1 DEF PipeType
  <2> QED
    BY <2>1, <2>2 DEF PipeType
<1> QED
  BY <1>1, <1>2

-----------------------------------------------------------------------------
(* Types. *)

\* Giving the stores back leaves a holder or none.
LEMMA ReleasedType ==
    ASSUME ChildType, NEW r \in Runs
    PROVE  Released(r) \in 0..MaxRuns
<1>1. MaxRuns \in Nat /\ holder \in 0..MaxRuns
  BY WorkerAssumption DEF ChildType
<1> QED
  BY <1>1 DEF Released

\* A step of the child keeps the types, one action at a time.
LEMMA WorkerTypes ==
    ASSUME TypeOK, NEW r \in Runs, Worker(r)
    PROVE  TypeOK'
<1>0. /\ FrontType /\ ChildType /\ PipeType /\ MonitorType
      /\ r \in 1..MaxRuns
      /\ UNCHANGED <<mode, screen, launched, piped, read, mpc, seen, raised, reports>>
  BY DEF TypeOK, Worker, front, monitor, Runs
<1>1. FrontType' /\ MonitorType'
  BY <1>0 DEF FrontType, MonitorType
<1>2. ChildType' /\ (UNCHANGED emitted \/ \E e \in Events : Emit(r, e))
  <2> USE <1>0, EventFacts, ReleasedType DEF ChildType, At, Ends, Living, Working, Cut
  <2>1. CASE Configure(r)
    BY <2>1 DEF Configure
  <2>2. CASE Initialize(r)
    BY <2>2 DEF Initialize
  <2>3. CASE ReportEntityFailure(r)
    BY <2>3 DEF ReportEntityFailure
  <2>4. CASE SyncMarket(r)
    BY <2>4 DEF SyncMarket
  <2>5. CASE PublishGold(r)
    BY <2>5 DEF PublishGold
  <2>6. CASE CommitDuckDB(r)
    BY <2>6 DEF CommitDuckDB
  <2>7. CASE CommitSQLite(r)
    BY <2>7 DEF CommitSQLite
  <2>8. CASE Complete(r)
    BY <2>8 DEF Complete
  <2>9. CASE Raise(r)
    BY <2>9 DEF Raise
  <2>10. CASE HandleFailure(r)
    BY <2>10 DEF HandleFailure
  <2>11. CASE BeginTeardown(r)
    BY <2>11 DEF BeginTeardown
  <2>12. CASE Close(r)
    BY <2>12 DEF Close
  <2>13. CASE EndProcess(r)
    BY <2>13 DEF EndProcess
  <2> QED
    BY <2>1, <2>2, <2>3, <2>4, <2>5, <2>6, <2>7, <2>8, <2>9, <2>10, <2>11,
       <2>12, <2>13 DEF Worker
<1>3. PipeType'
  BY <1>0, <1>2, PipeKept
<1> QED
  BY <1>1, <1>2, <1>3 DEF TypeOK

\* What on_status does to the front end and to the observed reports.
LEMMA StatusTypes ==
    ASSUME FrontType, MonitorType, NEW r \in Runs, NEW e \in Events,
           UNCHANGED <<mode, launched>>,
           OnStatus(r, e) \/ OnStatusRaises(r)
    PROVE  /\ FrontType'
           /\ raised' \in [Runs -> BOOLEAN]
           /\ reports' \in [Runs -> Seq(Terminal)]
<1>1. CASE OnStatus(r, e)
  <2>1. reports' \in [Runs -> Seq(Terminal)]
    BY <1>1 DEF OnStatus, MonitorType
  <2> QED
    BY <1>1, <2>1 DEF OnStatus, FrontType, MonitorType
<1>2. CASE OnStatusRaises(r)
  BY <1>2 DEF OnStatusRaises, FrontType, MonitorType
<1> QED
  BY <1>1, <1>2

\* A step of the monitor keeps the types, one action at a time.
LEMMA MonitorTypes ==
    ASSUME TypeOK, NEW r \in Runs, Monitor(r)
    PROVE  TypeOK'
<1>0. /\ FrontType /\ ChildType /\ PipeType /\ MonitorType
      /\ UNCHANGED <<mode, launched, pc, exit, holder, duck, sqlite, emitted, piped>>
  BY DEF TypeOK, Monitor, child
<1>1. ChildType'
  BY <1>0 DEF ChildType
<1>2. CASE CheckAlive(r) \/ CheckEmpty(r) \/ TimeOut(r)
  <2>1. FrontType' /\ PipeType'
    BY <1>0, <1>2 DEF CheckAlive, CheckEmpty, TimeOut, FrontType, PipeType
  <2>2. MonitorType'
    BY <1>0, <1>2 DEF CheckAlive, CheckEmpty, TimeOut, MonitorAt, MonitorType
  <2> QED
    BY <1>1, <2>1, <2>2 DEF TypeOK
<1>3. CASE Receive(r)
  <2> DEFINE e == emitted[r][read[r] + 1]
  <2>1. read[r] + 1 \in 1..Len(emitted[r])
    BY <1>0, <1>3 DEF Receive, PipeType
  <2>2. e \in Events
    BY <1>0, <2>1 DEF PipeType
  <2>3. OnStatus(r, e) \/ OnStatusRaises(r)
    BY <1>3 DEF Receive
  <2>4. /\ FrontType'
        /\ raised' \in [Runs -> BOOLEAN]
        /\ reports' \in [Runs -> Seq(Terminal)]
    BY <1>0, <2>2, <2>3, StatusTypes
  <2>5. MonitorType'
    BY <1>0, <1>3, <2>4 DEF Receive, MonitorAt, MonitorType
  <2>6. PipeType'
    BY <1>0, <1>3 DEF Receive, PipeType
  <2> QED
    BY <1>1, <2>4, <2>5, <2>6 DEF TypeOK
<1>4. CASE EmitExitStatus(r)
  <2>1. PipeType' /\ mpc' \in [Runs -> {"idle", "alive", "empty", "get", "exit", "done", "stopped"}]
    BY <1>0, <1>4 DEF EmitExitStatus, PipeType, MonitorType, MonitorAt
  <2>2. CASE UNCHANGED <<raised, reports, screen>>
    BY <1>0, <1>1, <1>4, <2>1, <2>2 DEF EmitExitStatus, FrontType, MonitorType, TypeOK
  <2>3. CASE \/ OnStatus(r, IF exit[r] = "clean" THEN "runCompleted" ELSE "runFailed")
             \/ OnStatusRaises(r)
    <3>1. (IF exit[r] = "clean" THEN "runCompleted" ELSE "runFailed") \in Events
      BY EventFacts
    <3>2. /\ FrontType'
          /\ raised' \in [Runs -> BOOLEAN]
          /\ reports' \in [Runs -> Seq(Terminal)]
      BY <1>0, <2>3, <3>1, StatusTypes
    <3> QED
      BY <1>0, <1>1, <1>4, <2>1, <3>2 DEF EmitExitStatus, MonitorType, TypeOK
  <2> QED
    BY <1>4, <2>2, <2>3 DEF EmitExitStatus
<1> QED
  BY <1>2, <1>3, <1>4 DEF Monitor

\* The type invariant is inductive.
LEMMA TypeStep == TypeOK /\ [Next]_vars => TypeOK'
<1> SUFFICES ASSUME TypeOK, [Next]_vars PROVE TypeOK'
  OBVIOUS
<1>0. FrontType /\ ChildType /\ PipeType /\ MonitorType
  BY DEF TypeOK
<1>1. ASSUME NEW r \in Runs, Worker(r) PROVE TypeOK'
  BY <1>1, WorkerTypes
<1>2. ASSUME NEW r \in Runs, Kill(r) PROVE TypeOK'
  <2>1. ChildType'
    BY <1>0, <1>2, ReleasedType DEF Kill, Ends, ChildType, Cut
  <2> QED
    BY <1>0, <1>2, <2>1 DEF Kill, TypeOK, FrontType, PipeType, MonitorType,
                            front, monitor
<1>3. ASSUME NEW r \in Runs, Feed(r) PROVE TypeOK'
  <2>1. PipeType'
    BY <1>0, <1>3 DEF Feed, PipeType, child, monitor
  <2> QED
    BY <1>0, <1>3, <2>1 DEF Feed, TypeOK, FrontType, ChildType, MonitorType,
                            front, child, monitor
<1>4. ASSUME NEW r \in Runs, Monitor(r) PROVE TypeOK'
  BY <1>4, MonitorTypes
<1>5. ASSUME NEW r \in Runs, Launch(r) PROVE TypeOK'
  <2>1. ChildType'
    BY <1>0, <1>5 DEF Launch, ChildType, Living
  <2>2. FrontType' /\ MonitorType'
    BY <1>0, <1>5 DEF Launch, FrontType, MonitorType, Runs
  <2> QED
    BY <1>0, <1>5, <2>1, <2>2 DEF Launch, TypeOK, PipeType
<1>6. CASE Leave
  <2>1. ChildType'
    <3>1. pc' \in [Runs -> {"idle", "dead"} \cup Living]
      BY <1>0, <1>6 DEF Leave, ChildType
    <3>2. exit' \in [Runs -> {"none", "clean", "error"} \cup Cut]
      BY <1>0, <1>6 DEF Leave, ChildType, Cut
    <3>3. 0 \in 0..MaxRuns
      BY WorkerAssumption
    <3> QED
      BY <1>0, <1>6, <3>1, <3>2, <3>3 DEF Leave, ChildType
  <2>2. FrontType' /\ MonitorType'
    BY <1>0, <1>6 DEF Leave, FrontType, MonitorType
  <2> QED
    BY <1>0, <1>6, <2>1, <2>2 DEF Leave, TypeOK, PipeType
<1>7. CASE UNCHANGED vars
  BY <1>0, <1>7 DEF vars, front, child, monitor, TypeOK, FrontType, ChildType,
                    PipeType, MonitorType
<1> QED
  BY <1>1, <1>2, <1>3, <1>4, <1>5, <1>6, <1>7 DEF Next

\* Types: the pipe never holds what was not emitted, and the parent reads
\* only what is in it.
THEOREM TypeCorrect == Spec => []TypeOK
<1>1. Init => TypeOK
  BY WorkerAssumption DEF Init, TypeOK, FrontType, ChildType, PipeType, MonitorType, Runs
<1> QED
  BY <1>1, TypeStep, PTL DEF Spec
-----------------------------------------------------------------------------
(* The inductive invariant behind the three safety properties. *)

\* The places of a child that has not emitted a terminal event.
Silent == {"idle", "configure", "initialize", "handling"} \cup Working

\* Run by run: a child emits one terminal event at most, and the one of
\* completion behind both commits.
EmittedInv ==
    \A r \in Runs :
        /\ pc[r] \in Silent =>
               \A i \in 1..Len(emitted[r]) : emitted[r][i] \notin Terminal
        /\ \A i, j \in 1..Len(emitted[r]) :
               emitted[r][i] \in Terminal /\ emitted[r][j] \in Terminal => i = j
        /\ \A i \in 1..Len(emitted[r]) :
               emitted[r][i] = "runCompleted" => duck[r] /\ sqlite[r]

\* A clean exit code stands for both commits.
DurableInv ==
    \A r \in Runs :
        /\ pc[r] = "sqlite" => duck[r]
        /\ pc[r] = "finish" => duck[r] /\ sqlite[r]
        /\ exit[r] = "clean" => duck[r] /\ sqlite[r]

\* A run not launched has neither child nor monitor.
LaunchInv ==
    \A r \in Runs : r > launched => pc[r] = "idle" /\ mpc[r] = "idle"

\* terminal_seen is what the monitor has read, and a monitor that saw no
\* terminal event has reported none until its last step.
ReadInv ==
    \A r \in Runs :
        /\ seen[r] <=> \E i \in 1..read[r] : emitted[r][i] \in Terminal
        /\ ~seen[r] /\ mpc[r] \notin {"done", "stopped"} => reports[r] = <<>>
        /\ Len(reports[r]) <= 1

\* A monitor that ends undisturbed found its child dead and then the pipe
\* empty; a child that ends by itself has emptied its buffer into the pipe.
EndInv ==
    \A r \in Runs :
        /\ pc[r] = "dead" /\ exit[r] \notin Cut => piped[r] = Len(emitted[r])
        /\ mpc[r] = "empty" => pc[r] = "dead"
        /\ mpc[r] \in {"exit", "done"} /\ ~raised[r] =>
               pc[r] = "dead" /\ read[r] = piped[r]

IInv ==
    /\ TypeOK /\ EmittedInv /\ DurableInv /\ LaunchInv /\ ReadInv /\ EndInv
    /\ CompletedIsDurable

-----------------------------------------------------------------------------
(* Steps of the child. *)

\* What any step of a child amounts to for the invariant.
LEMMA WorkerEffect ==
    ASSUME TypeOK, DurableInv, NEW r \in Runs, Worker(r)
    PROVE  /\ pc[r] \in Living
           /\ \A q \in Runs \ {r} : /\ pc'[q] = pc[q] /\ exit'[q] = exit[q]
                                    /\ duck'[q] = duck[q] /\ sqlite'[q] = sqlite[q]
           /\ (duck[r] => duck'[r]) /\ (sqlite[r] => sqlite'[r])
           /\ pc'[r] = "sqlite" => duck'[r]
           /\ pc'[r] = "finish" => duck'[r] /\ sqlite'[r]
           /\ exit'[r] = "clean" => duck'[r] /\ sqlite'[r]
           /\ pc'[r] # "idle"
           /\ pc'[r] \in Silent => pc[r] \in Silent
           /\ pc'[r] = "dead" => piped[r] = Len(emitted[r]) /\ UNCHANGED emitted
           /\ \/ UNCHANGED emitted
              \/ \E e \in Events :
                    /\ Emit(r, e)
                    /\ e \in Terminal => pc[r] \in Silent /\ pc'[r] \notin Silent
                    /\ e = "runCompleted" => duck'[r] /\ sqlite'[r]
<1> USE EventFacts DEF ChildType, DurableInv, At, Ends, Living, Working, Silent
<1>0. ChildType
  BY DEF TypeOK
<1>1. CASE Configure(r)
  BY <1>0, <1>1 DEF Configure
<1>2. CASE Initialize(r)
  BY <1>0, <1>2 DEF Initialize
<1>3. CASE ReportEntityFailure(r)
  BY <1>0, <1>3 DEF ReportEntityFailure
<1>4. CASE SyncMarket(r)
  BY <1>0, <1>4 DEF SyncMarket
<1>5. CASE PublishGold(r)
  BY <1>0, <1>5 DEF PublishGold
<1>6. CASE CommitDuckDB(r)
  BY <1>0, <1>6 DEF CommitDuckDB
<1>7. CASE CommitSQLite(r)
  BY <1>0, <1>7 DEF CommitSQLite
<1>8. CASE Complete(r)
  BY <1>0, <1>8 DEF Complete
<1>9. CASE Raise(r)
  BY <1>0, <1>9 DEF Raise
<1>10. CASE HandleFailure(r)
  BY <1>0, <1>10 DEF HandleFailure
<1>11. CASE BeginTeardown(r)
  BY <1>0, <1>11 DEF BeginTeardown
<1>12. CASE Close(r)
  BY <1>0, <1>12 DEF Close
<1>13. CASE EndProcess(r)
  BY <1>0, <1>13 DEF EndProcess
<1> QED
  BY <1>1, <1>2, <1>3, <1>4, <1>5, <1>6, <1>7, <1>8, <1>9, <1>10, <1>11,
     <1>12, <1>13 DEF Worker

\* A step of a child preserves every part of the invariant.
LEMMA WorkerStep ==
    ASSUME IInv, NEW r \in Runs, Worker(r)
    PROVE  IInv'
<1>0. /\ TypeOK /\ EmittedInv /\ DurableInv /\ LaunchInv /\ ReadInv /\ EndInv
      /\ CompletedIsDurable /\ PipeType /\ MonitorType
      /\ UNCHANGED <<mode, screen, launched, piped, read, mpc, seen, raised, reports>>
  BY DEF IInv, TypeOK, Worker, front, monitor
<1>1. TypeOK'
  BY <1>0, WorkerTypes
<1>2. DurableInv'
  BY <1>0, WorkerEffect DEF DurableInv
<1>3. LaunchInv'
  BY <1>0, WorkerEffect DEF LaunchInv, Living, Working
<1>4. CompletedIsDurable'
  BY <1>0, WorkerEffect DEF CompletedIsDurable
<1>5. EmittedInv' /\ ReadInv' /\ \A q \in Runs : q # r => emitted'[q] = emitted[q]
  <2>1. CASE UNCHANGED emitted
    <3>1. EmittedInv'
      BY <1>0, <2>1, WorkerEffect DEF EmittedInv
    <3> QED
      BY <1>0, <2>1, <3>1 DEF ReadInv
  <2>2. ASSUME NEW e \in Events, Emit(r, e),
               e \in Terminal => pc[r] \in Silent /\ pc'[r] \notin Silent,
               e = "runCompleted" => duck'[r] /\ sqlite'[r]
        PROVE  EmittedInv' /\ ReadInv' /\ \A q \in Runs : q # r => emitted'[q] = emitted[q]
    <3>1. /\ \A q \in Runs \ {r} : emitted'[q] = emitted[q]
          /\ Len(emitted'[r]) = Len(emitted[r]) + 1
          /\ emitted'[r][Len(emitted[r]) + 1] = e
          /\ \A i \in 1..Len(emitted[r]) : emitted'[r][i] = emitted[r][i]
      BY <1>0, <2>2, EmitAppends
    <3>2. \A q \in Runs : /\ Len(emitted[q]) \in Nat
                          /\ read[q] \in Nat /\ read[q] <= Len(emitted[q])
      BY <1>0 DEF PipeType
    <3>3. EmittedInv'
      <4> SUFFICES ASSUME NEW q \in Runs
                   PROVE  /\ pc'[q] \in Silent =>
                                \A i \in 1..Len(emitted'[q]) : emitted'[q][i] \notin Terminal
                          /\ \A i, j \in 1..Len(emitted'[q]) :
                                emitted'[q][i] \in Terminal /\ emitted'[q][j] \in Terminal => i = j
                          /\ \A i \in 1..Len(emitted'[q]) :
                                emitted'[q][i] = "runCompleted" => duck'[q] /\ sqlite'[q]
        BY DEF EmittedInv
      <4>1. CASE q # r
        BY <1>0, <3>1, <4>1, WorkerEffect DEF EmittedInv
      <4>2. CASE q = r
        <5>1. \A i \in 1..Len(emitted'[r]) :
                 i \in 1..Len(emitted[r]) \/ i = Len(emitted[r]) + 1
          BY <3>1, <3>2
        <5>2. pc'[r] \in Silent => pc[r] \in Silent /\ e \notin Terminal
          BY <1>0, <2>2, WorkerEffect
        <5>3. pc'[r] \in Silent =>
                 \A i \in 1..Len(emitted'[r]) : emitted'[r][i] \notin Terminal
          BY <1>0, <3>1, <5>1, <5>2 DEF EmittedInv
        <5>4. \A i, j \in 1..Len(emitted'[r]) :
                 emitted'[r][i] \in Terminal /\ emitted'[r][j] \in Terminal => i = j
          <6>1. \A i, j \in 1..Len(emitted[r]) :
                   emitted'[r][i] \in Terminal /\ emitted'[r][j] \in Terminal => i = j
            BY <1>0, <3>1 DEF EmittedInv
          <6>2. e \in Terminal =>
                   \A i \in 1..Len(emitted[r]) : emitted'[r][i] \notin Terminal
            BY <1>0, <2>2, <3>1 DEF EmittedInv
          <6> QED
            BY <3>1, <5>1, <6>1, <6>2
        <5>5. \A i \in 1..Len(emitted'[r]) :
                 emitted'[r][i] = "runCompleted" => duck'[r] /\ sqlite'[r]
          <6>1. duck[r] /\ sqlite[r] => duck'[r] /\ sqlite'[r]
            BY <1>0, WorkerEffect
          <6>2. \A i \in 1..Len(emitted[r]) :
                   emitted'[r][i] = "runCompleted" => duck'[r] /\ sqlite'[r]
            BY <1>0, <3>1, <6>1 DEF EmittedInv
          <6> QED
            BY <2>2, <3>1, <5>1, <6>2
        <5> QED
          BY <4>2, <5>3, <5>4, <5>5
      <4> QED
        BY <4>1, <4>2
    <3>4. \A q \in Runs : \A i \in 1..read[q] : emitted'[q][i] = emitted[q][i]
      BY <3>1, <3>2
    <3>5. ReadInv'
      BY <1>0, <3>4 DEF ReadInv
    <3> QED
      BY <3>1, <3>3, <3>5
  <2> QED
    BY <1>0, <2>1, <2>2, WorkerEffect
<1>6. EndInv'
  BY <1>0, <1>5, WorkerEffect DEF EndInv, Living, Working
<1> QED
  BY <1>1, <1>2, <1>3, <1>4, <1>5, <1>6 DEF IInv

-----------------------------------------------------------------------------
(* Steps of the monitor. *)

\* The steps that only move the monitor: it leaves "alive" for "empty" when
\* the child is dead, and "empty" for its end when the pipe is empty.
LEMMA PollStep ==
    ASSUME IInv, NEW r \in Runs, Monitor(r),
           CheckAlive(r) \/ CheckEmpty(r) \/ TimeOut(r)
    PROVE  IInv'
<1>0. /\ TypeOK /\ EmittedInv /\ DurableInv /\ LaunchInv /\ ReadInv /\ EndInv
      /\ CompletedIsDurable /\ MonitorType
      /\ UNCHANGED <<mode, launched, pc, exit, holder, duck, sqlite, emitted, piped>>
      /\ UNCHANGED <<seen, raised, reports, read, screen>>
  BY DEF IInv, TypeOK, Monitor, child, CheckAlive, CheckEmpty, TimeOut
<1>1. /\ mpc[r] \in {"alive", "empty", "get"}
      /\ \A q \in Runs \ {r} : mpc'[q] = mpc[q]
      /\ mpc'[r] \in {"alive", "empty", "get", "exit"}
      /\ mpc'[r] = "empty" => pc[r] = "dead"
      /\ mpc'[r] = "exit" => mpc[r] = "empty" /\ read[r] = piped[r]
  BY <1>0 DEF CheckAlive, CheckEmpty, TimeOut, MonitorAt, MonitorType
<1>2. TypeOK'
  BY <1>0, MonitorTypes
<1>3. EmittedInv' /\ DurableInv' /\ CompletedIsDurable'
  BY <1>0 DEF EmittedInv, DurableInv, CompletedIsDurable
<1>4. LaunchInv' /\ ReadInv'
  BY <1>0, <1>1 DEF LaunchInv, ReadInv
<1>5. EndInv'
  BY <1>0, <1>1 DEF EndInv
<1> QED
  BY <1>2, <1>3, <1>4, <1>5 DEF IInv

\* One on_status call reports at most its own event.
LEMMA StatusEffect ==
    ASSUME MonitorType, NEW r \in Runs, NEW e, OnStatus(r, e) \/ OnStatusRaises(r)
    PROVE  /\ \A q \in Runs \ {r} : reports'[q] = reports[q] /\ raised'[q] = raised[q]
           /\ raised[r] => raised'[r]
           /\ \/ reports'[r] = reports[r]
              \/ e \in Terminal /\ reports'[r] = Append(reports[r], e)
<1>1. CASE OnStatus(r, e)
  BY <1>1 DEF OnStatus, MonitorType
<1>2. CASE OnStatusRaises(r)
  BY <1>2 DEF OnStatusRaises, MonitorType
<1> QED
  BY <1>1, <1>2

\* A report added to none is the only one.
LEMMA FirstReport ==
    ASSUME NEW s, NEW e, s = <<>>
    PROVE  Len(Append(s, e)) = 1 /\ Append(s, e)[1] = e
OBVIOUS

\* A received terminal event is the first its run reports: an earlier one
\* would have been read, hence the same event.
LEMMA ReceiveStep ==
    ASSUME IInv, NEW r \in Runs, Monitor(r), Receive(r)
    PROVE  IInv'
<1> DEFINE e == emitted[r][read[r] + 1]
<1>0. /\ TypeOK /\ EmittedInv /\ DurableInv /\ LaunchInv /\ ReadInv /\ EndInv
      /\ CompletedIsDurable /\ PipeType /\ MonitorType
      /\ UNCHANGED <<mode, launched, pc, exit, holder, duck, sqlite, emitted, piped>>
  BY DEF IInv, TypeOK, Monitor, child
<1>1. /\ mpc[r] = "get" /\ mpc'[r] \in {"alive", "exit"}
      /\ read[r] < piped[r]
      /\ \A q \in Runs \ {r} : /\ mpc'[q] = mpc[q] /\ read'[q] = read[q]
                               /\ seen'[q] = seen[q]
      /\ read'[r] = read[r] + 1
      /\ seen'[r] <=> seen[r] \/ e \in Terminal
      /\ OnStatus(r, e) \/ OnStatusRaises(r)
      /\ mpc'[r] = "exit" => raised'[r]
  BY <1>0 DEF Receive, MonitorAt, MonitorType, PipeType, OnStatusRaises
<1>2. read[r] \in Nat /\ read[r] + 1 \in 1..Len(emitted[r])
  BY <1>0, <1>1 DEF PipeType
<1>3. /\ \A q \in Runs \ {r} : reports'[q] = reports[q] /\ raised'[q] = raised[q]
      /\ raised[r] => raised'[r]
      /\ \/ reports'[r] = reports[r]
         \/ e \in Terminal /\ reports'[r] = Append(reports[r], e)
  BY <1>0, <1>1, StatusEffect
<1>4. e \in Terminal => ~seen[r]
  <2>1. \A i \in 1..read[r] : i \in 1..Len(emitted[r]) /\ i # read[r] + 1
    BY <1>2
  <2> QED
    BY <1>0, <1>2, <2>1 DEF ReadInv, EmittedInv
<1>5. \/ reports'[r] = reports[r]
      \/ /\ e \in Terminal
         /\ Len(reports'[r]) = 1 /\ reports'[r][1] = e
  <2>1. e \in Terminal => reports[r] = <<>>
    BY <1>0, <1>1, <1>4 DEF ReadInv
  <2>2. reports[r] = <<>> =>
           Len(Append(reports[r], e)) = 1 /\ Append(reports[r], e)[1] = e
    BY FirstReport
  <2> QED
    BY <1>3, <2>1, <2>2
<1>6. TypeOK'
  BY <1>0, MonitorTypes
<1>7. EmittedInv' /\ DurableInv' /\ LaunchInv'
  <2>1. mpc'[r] # "idle" /\ ~(r > launched)
    BY <1>0, <1>1 DEF LaunchInv
  <2> QED
    BY <1>0, <1>1, <2>1 DEF EmittedInv, DurableInv, LaunchInv
<1>8. ReadInv'
  <2>1. \A i \in 1..read'[r] : i \in 1..read[r] \/ i = read[r] + 1
    BY <1>1, <1>2
  <2>2. 1..read[r] \subseteq 1..read'[r] /\ read[r] + 1 \in 1..read'[r]
    BY <1>1, <1>2
  <2>3. seen'[r] <=> \E i \in 1..read'[r] : emitted'[r][i] \in Terminal
    BY <1>0, <1>1, <2>1, <2>2 DEF ReadInv
  <2>4. ~seen'[r] /\ mpc'[r] \notin {"done", "stopped"} => reports'[r] = <<>>
    BY <1>0, <1>1, <1>5 DEF ReadInv
  <2>5. Len(reports'[r]) <= 1
    <3>1. Len(reports[r]) <= 1
      BY <1>0 DEF ReadInv
    <3>2. reports'[r] = reports[r] => Len(reports'[r]) = Len(reports[r])
      OBVIOUS
    <3>3. Len(reports'[r]) = 1 => Len(reports'[r]) <= 1
      OBVIOUS
    <3> QED
      BY <1>5, <3>1, <3>2, <3>3
  <2> QED
    BY <1>0, <1>1, <1>3, <2>3, <2>4, <2>5 DEF ReadInv
<1>9. CompletedIsDurable'
  <2>1. e = "runCompleted" => duck[r] /\ sqlite[r]
    BY <1>0, <1>2 DEF EmittedInv
  <2>2. \A i \in 1..Len(reports'[r]) :
           reports'[r][i] = "runCompleted" => duck'[r] /\ sqlite'[r]
    BY <1>0, <1>5, <2>1 DEF CompletedIsDurable
  <2> QED
    BY <1>0, <1>3, <2>2 DEF CompletedIsDurable
<1>10. EndInv'
  BY <1>0, <1>1, <1>3 DEF EndInv
<1> QED
  BY <1>6, <1>7, <1>8, <1>9, <1>10 DEF IInv

\* The exit status is reported only where no terminal event was seen, and a
\* clean exit code stands for both commits.
LEMMA ExitStatusStep ==
    ASSUME IInv, NEW r \in Runs, Monitor(r), EmitExitStatus(r)
    PROVE  IInv'
<1> DEFINE e == IF exit[r] = "clean" THEN "runCompleted" ELSE "runFailed"
<1>0. /\ TypeOK /\ EmittedInv /\ DurableInv /\ LaunchInv /\ ReadInv /\ EndInv
      /\ CompletedIsDurable /\ MonitorType
      /\ UNCHANGED <<mode, launched, pc, exit, holder, duck, sqlite, emitted, piped>>
      /\ UNCHANGED <<seen, read>>
  BY DEF IInv, TypeOK, Monitor, child, EmitExitStatus
<1>1. /\ mpc[r] = "exit" /\ mpc'[r] = "done"
      /\ \A q \in Runs \ {r} : mpc'[q] = mpc[q]
  BY <1>0 DEF EmitExitStatus, MonitorAt, MonitorType
<1>2. /\ \A q \in Runs \ {r} : reports'[q] = reports[q] /\ raised'[q] = raised[q]
      /\ raised[r] => raised'[r]
      /\ \/ reports'[r] = reports[r]
         \/ ~seen[r] /\ reports'[r] = Append(reports[r], e)
  <2>1. CASE UNCHANGED <<raised, reports, screen>>
    BY <2>1
  <2>2. CASE ~seen[r] /\ (OnStatus(r, e) \/ OnStatusRaises(r))
    BY <1>0, <2>2, StatusEffect
  <2> QED
    BY <2>1, <2>2 DEF EmitExitStatus
<1>3. \/ reports'[r] = reports[r]
      \/ Len(reports'[r]) = 1 /\ reports'[r][1] = e
  <2>1. ~seen[r] => reports[r] = <<>>
    BY <1>0, <1>1 DEF ReadInv
  <2>2. reports[r] = <<>> =>
           Len(Append(reports[r], e)) = 1 /\ Append(reports[r], e)[1] = e
    BY FirstReport
  <2> QED
    BY <1>2, <2>1, <2>2
<1>4. TypeOK'
  BY <1>0, MonitorTypes
<1>5. EmittedInv' /\ DurableInv' /\ LaunchInv'
  BY <1>0, <1>1 DEF EmittedInv, DurableInv, LaunchInv
<1>6. ReadInv'
  BY <1>0, <1>1, <1>2, <1>3 DEF ReadInv
<1>7. CompletedIsDurable'
  <2>1. e = "runCompleted" => duck[r] /\ sqlite[r]
    BY <1>0 DEF DurableInv
  <2>2. \A i \in 1..Len(reports'[r]) :
           reports'[r][i] = "runCompleted" => duck'[r] /\ sqlite'[r]
    BY <1>0, <1>3, <2>1 DEF CompletedIsDurable
  <2> QED
    BY <1>0, <1>2, <2>2 DEF CompletedIsDurable
<1>8. EndInv'
  BY <1>0, <1>1, <1>2 DEF EndInv
<1> QED
  BY <1>4, <1>5, <1>6, <1>7, <1>8 DEF IInv

-----------------------------------------------------------------------------
(* Every step, and the theorems. *)

\* The inductive invariant holds at the start and is preserved.
LEMMA InvStart == Init => IInv
<1> SUFFICES ASSUME Init PROVE IInv
  OBVIOUS
<1>1. TypeOK
  BY WorkerAssumption DEF Init, TypeOK, FrontType, ChildType, PipeType, MonitorType, Runs
<1>2. EmittedInv /\ DurableInv /\ LaunchInv /\ EndInv
  BY DEF Init, EmittedInv, DurableInv, LaunchInv, EndInv
<1>3. ReadInv /\ CompletedIsDurable
  BY DEF Init, ReadInv, CompletedIsDurable
<1> QED
  BY <1>1, <1>2, <1>3 DEF IInv

LEMMA InvStep == IInv /\ [Next]_vars => IInv'
<1> SUFFICES ASSUME IInv, [Next]_vars PROVE IInv'
  OBVIOUS
<1>0. /\ TypeOK /\ EmittedInv /\ DurableInv /\ LaunchInv /\ ReadInv /\ EndInv
      /\ CompletedIsDurable
      /\ FrontType /\ ChildType /\ PipeType /\ MonitorType
  BY DEF IInv, TypeOK
<1>1. TypeOK'
  BY <1>0, TypeStep
<1>2. ASSUME NEW r \in Runs, Worker(r) PROVE IInv'
  BY <1>2, WorkerStep
<1>3. ASSUME NEW r \in Runs, Kill(r) PROVE IInv'
  <2>0. /\ UNCHANGED <<duck, sqlite, emitted, piped, launched, mpc, seen, raised, reports, read>>
        /\ \A q \in Runs \ {r} : pc'[q] = pc[q] /\ exit'[q] = exit[q]
        /\ pc[r] # "idle" /\ pc[r] # "dead" /\ pc'[r] = "dead" /\ exit'[r] = "killed"
    BY <1>0, <1>3 DEF Kill, Ends, ChildType, front, monitor, Living, Working
  <2>1. EmittedInv' /\ DurableInv'
    BY <1>0, <2>0 DEF EmittedInv, DurableInv, Silent, Working
  <2>2. LaunchInv' /\ ReadInv' /\ CompletedIsDurable'
    BY <1>0, <2>0 DEF LaunchInv, ReadInv, CompletedIsDurable
  <2>3. EndInv'
    BY <1>0, <2>0 DEF EndInv, Cut
  <2> QED
    BY <1>1, <2>1, <2>2, <2>3 DEF IInv
<1>4. ASSUME NEW r \in Runs, Feed(r) PROVE IInv'
  <2>0. /\ UNCHANGED <<front, child, monitor>>
        /\ \A q \in Runs \ {r} : piped'[q] = piped[q]
        /\ pc[r] # "dead"
    BY <1>0, <1>4 DEF Feed, PipeType, Living, Working
  <2>1. EmittedInv' /\ DurableInv' /\ LaunchInv' /\ ReadInv' /\ CompletedIsDurable'
    BY <1>0, <2>0 DEF EmittedInv, DurableInv, LaunchInv, ReadInv,
                      CompletedIsDurable, front, child, monitor
  <2>2. EndInv'
    BY <1>0, <2>0 DEF EndInv, child, monitor
  <2> QED
    BY <1>1, <2>1, <2>2 DEF IInv
<1>5. ASSUME NEW r \in Runs, Monitor(r) PROVE IInv'
  BY <1>5, PollStep, ReceiveStep, ExitStatusStep DEF Monitor
<1>6. ASSUME NEW r \in Runs, Launch(r) PROVE IInv'
  <2>0. /\ UNCHANGED <<exit, duck, sqlite, emitted, piped, seen, raised, reports, read>>
        /\ \A q \in Runs \ {r} : pc'[q] = pc[q] /\ mpc'[q] = mpc[q]
        /\ pc[r] = "idle" /\ mpc[r] = "idle"
        /\ pc'[r] = "configure" /\ mpc'[r] = "alive"
        /\ r = launched + 1 /\ launched' = r
    <3>1. r > launched
      BY <1>0, <1>6 DEF Launch, FrontType, Runs
    <3> QED
      BY <1>0, <1>6, <3>1 DEF Launch, ChildType, MonitorType, LaunchInv
  <2>1. EmittedInv' /\ DurableInv' /\ CompletedIsDurable'
    BY <1>0, <2>0 DEF EmittedInv, DurableInv, CompletedIsDurable, Silent
  <2>2. LaunchInv'
    BY <1>0, <2>0 DEF LaunchInv, FrontType, Runs
  <2>3. ReadInv' /\ EndInv'
    BY <1>0, <2>0 DEF ReadInv, EndInv
  <2> QED
    BY <1>1, <2>1, <2>2, <2>3 DEF IInv
<1>7. CASE Leave
  <2>0. /\ UNCHANGED <<launched, duck, sqlite, emitted, piped, seen, raised, reports, read>>
        /\ \A q \in Runs :
              /\ pc'[q] = IF pc[q] \in Living THEN "dead" ELSE pc[q]
              /\ exit'[q] = IF pc[q] \in Living THEN "terminated" ELSE exit[q]
              /\ mpc'[q] = IF mpc[q] \in {"idle", "done"} THEN mpc[q] ELSE "stopped"
    BY <1>7 DEF Leave
  <2>1. EmittedInv' /\ DurableInv'
    BY <1>0, <2>0 DEF EmittedInv, DurableInv, Silent, Living, Working
  <2>2. LaunchInv' /\ ReadInv' /\ CompletedIsDurable'
    BY <1>0, <2>0 DEF LaunchInv, ReadInv, CompletedIsDurable, Living, Working
  <2>3. EndInv'
    BY <1>0, <2>0 DEF EndInv, Cut, Living, Working
  <2> QED
    BY <1>1, <2>1, <2>2, <2>3 DEF IInv
<1>8. CASE UNCHANGED vars
  BY <1>0, <1>1, <1>8 DEF vars, front, child, monitor, IInv, EmittedInv, DurableInv,
                          LaunchInv, ReadInv, EndInv, CompletedIsDurable
<1> QED
  BY <1>2, <1>3, <1>4, <1>5, <1>6, <1>7, <1>8 DEF Next

\* The end of a run reaches on_status once, from the child's own event or
\* from its exit code.
THEOREM ReportedOnce == Spec => []OneTerminalReport
<1>1. IInv => OneTerminalReport
  BY DEF IInv, ReadInv, OneTerminalReport
<1> QED
  BY <1>1, InvStart, InvStep, PTL DEF Spec

\* A run that on_status hears has completed is durable in DuckDB and SQLite.
THEOREM CompletionIsTrue == Spec => []CompletedIsDurable
<1>1. IInv => CompletedIsDurable
  BY DEF IInv
<1> QED
  BY <1>1, InvStart, InvStep, PTL DEF Spec

\* All that a child emits is read when it ends by itself and on_status does
\* not raise.
THEOREM EverythingDelivered == Spec => []NothingLost
<1>1. IInv => NothingLost
  BY DEF IInv, EndInv, NothingLost
<1> QED
  BY <1>1, InvStart, InvStep, PTL DEF Spec
=============================================================================
