-------------------------------- MODULE IsinPool --------------------------------
(* The investment engine of one run: IsinPipeline.process_all hands each        *)
(* instrument to a pool of processes, collects their results in any order, and  *)
(* PostProcessingPipeline joins what the workers left in a temporary directory  *)
(* with what the collector has added up.                                        *)
(*                                                                              *)
(* What one instrument's replay computes is LotAccounting's; here its result is *)
(* the dates it holds the instrument on, and Worth[i], its value and its cash,  *)
(* chosen so that different sets of instruments have different sums.  Of the    *)
(* eight dimensions one is always filled (class) and one may be blank (sector). *)
EXTENDS Integers, FiniteSets, FiniteSetsExt, Functions

CONSTANTS
    Isins,      \* a range 1..n: instruments are submitted in sorted order
    Dates,      \* the market dates
    Worth,      \* the value of each instrument
    Class,      \* the class of each instrument
    Sector,     \* its sector, or NoSector
    NoSector,
    MaxWorkers  \* min(4, cpu_count)

ASSUME PoolConstants ==
    /\ MaxWorkers \in Nat \ {0}
    /\ Isins \subseteq Nat \ {0} /\ IsFiniteSet(Isins)
    /\ Worth \in [Isins -> Nat \ {0}]

VARIABLES
    pc,         \* what process_all and the engine around it do
    book,       \* the instruments of the trades and of the market rows
    task,       \* the state of each future
    result,     \* what a finished worker returns
    spilled,    \* the snapshot files: instrument and dates
    broken,     \* the pool has lost a worker
    collected,  \* the futures as_completed has yielded
    acc,        \* _PipelineAccumulator: an entry per key of each dimension
    hasData,
    daemon,     \* the flag of this process, lowered so that it may have children
    marts       \* the published rows

vars == <<pc, book, task, result, spilled, broken, collected, acc, hasData,
          daemon, marts>>

Dims == {"portfolio", "class", "sector"}
Empty == [k \in {} |-> 0]
NoResult == [kind |-> "none", dates |-> {}]
Running == {i \in book : task[i] = "running"}
Queued == {i \in book : task[i] = "queued"}
Finished == {i \in book : task[i] = "done"}

\* ISINTags: str() of a blank attribute is a word of its own.
KeyOf(dim, i) ==
  CASE dim = "portfolio" -> "all"
    [] dim = "class"     -> Class[i]
    [] dim = "sector"    -> IF Sector[i] = NoSector THEN "None" ELSE Sector[i]

\* _build_master_metadata: the label of the same instrument in the marts.
LabelOf(dim, i) ==
  CASE dim = "portfolio" -> "all"
    [] dim = "class"     -> Class[i]
    [] dim = "sector"    -> IF Sector[i] = NoSector THEN "Unknown" ELSE Sector[i]

\* The results a worker may return: no market rows, cash flows only, holdings on
\* some dates, or an exception turned into error_info.
Results ==
  {[kind |-> k, dates |-> {}] : k \in {"none", "flat", "error"}}
  \cup {[kind |-> "held", dates |-> ds] : ds \in SUBSET Dates \ {{}}}
-----------------------------------------------------------------------------
Init ==
  /\ pc = "start" /\ book \in SUBSET Isins
  /\ task = [i \in Isins |-> "none"] /\ result = [i \in Isins |-> NoResult]
  /\ spilled = {} /\ broken = FALSE /\ collected = {}
  /\ acc = [dim \in Dims |-> Empty]
  /\ hasData = FALSE /\ daemon = TRUE /\ marts = {}

\* Every instrument is submitted; an empty book ends the engine at once.
Submit ==
  /\ pc = "start"
  /\ IF book = {} THEN /\ pc' = "empty"
                       /\ UNCHANGED <<task, daemon>>
     ELSE /\ pc' = "collect" /\ daemon' = FALSE
          /\ task' = [i \in Isins |-> IF i \in book THEN "queued" ELSE "none"]
  /\ UNCHANGED <<book, result, spilled, broken, collected, acc, hasData, marts>>

\* A free worker takes the first task of the queue.
StartTask ==
  /\ ~broken /\ Queued # {} /\ Cardinality(Running) < MaxWorkers
  /\ task' = [task EXCEPT ![Min(Queued)] = "running"]
  /\ UNCHANGED <<pc, book, result, spilled, broken, collected, acc, hasData,
                 daemon, marts>>

\* _process_isin_worker: the snapshots are written, then the result is returned.
EndTask(i, r) ==
  /\ ~broken /\ task[i] = "running"
  /\ task' = [task EXCEPT ![i] = "done"]
  /\ result' = [result EXCEPT ![i] = r]
  /\ spilled' = spilled \cup ({i} \X r.dates)
  /\ UNCHANGED <<pc, book, broken, collected, acc, hasData, daemon, marts>>

\* A worker dies, with or without its file: no unfinished future will have a
\* result, and the other workers are terminated.
WorkerDies(i) ==
  /\ ~broken /\ task[i] = "running"
  /\ broken' = TRUE
  /\ task' = [j \in Isins |->
                IF task[j] \in {"queued", "running"} THEN "lost" ELSE task[j]]
  /\ \E ds \in {{}, Dates} : spilled' = spilled \cup ({i} \X ds)
  /\ UNCHANGED <<pc, book, result, collected, acc, hasData, daemon, marts>>

AddedTo(entry, i, r) ==
  [cash |-> entry.cash + Worth[i],
   val  |-> [d \in Dates |-> entry.val[d] + IF d \in r.dates THEN Worth[i] ELSE 0]]

\* A dictionary once it has this entry.
With(dict, k, entry) == [l \in {k} \cup DOMAIN dict |-> IF l = k THEN entry ELSE dict[l]]

NewEntry == [cash |-> 0, val |-> [d \in Dates |-> 0]]

\* Faulty: the first instrument of a key opens its entry, the next replaces it.
AccumulateLast(a, i, r) ==
  [dim \in Dims |-> With(a[dim], KeyOf(dim, i), AddedTo(NewEntry, i, r))]

\* ingest_isin_result: the portfolio and each dimension gain the same amounts.
Accumulate(a, i, r) ==
  [dim \in Dims |->
     LET k == KeyOf(dim, i)
         entry == IF k \in DOMAIN a[dim] THEN a[dim][k] ELSE NewEntry
     IN With(a[dim], k, AddedTo(entry, i, r))]

\* Faulty: a future that the pool has given up is waited for.
CollectDone(i) ==
  /\ pc = "collect" /\ i \notin collected /\ task[i] = "done"
  /\ collected' = collected \cup {i}
  /\ pc' = IF result[i].kind = "error" THEN "raised" ELSE pc
  /\ acc' = IF result[i].kind \in {"none", "error"} THEN acc
            ELSE Accumulate(acc, i, result[i])
  /\ hasData' = (hasData \/ result[i].kind = "held")
  /\ UNCHANGED <<book, task, result, spilled, broken, daemon, marts>>

\* as_completed yields a finished future in any order.  The first one without a
\* result, or with error_info, raises out of the loop.
Collect(i) ==
  /\ pc = "collect" /\ i \notin collected /\ task[i] \in {"done", "lost"}
  /\ collected' = collected \cup {i}
  /\ IF task[i] = "lost" \/ result[i].kind = "error"
     THEN /\ pc' = "raised"
          /\ UNCHANGED <<acc, hasData>>
     ELSE /\ acc' = IF result[i].kind = "none" THEN acc
                    ELSE Accumulate(acc, i, result[i])
          /\ hasData' = (hasData \/ result[i].kind = "held")
          /\ UNCHANGED pc
  /\ UNCHANGED <<book, task, result, spilled, broken, daemon, marts>>

\* Faulty: the pool is left while tasks are running or queued.
LeavePoolAtOnce ==
  /\ pc = "raised" \/ (pc = "collect" /\ collected = book)
  /\ daemon' = TRUE
  /\ pc' = IF pc = "raised" THEN "failing" ELSE "process"
  /\ UNCHANGED <<book, task, result, spilled, broken, collected, acc, hasData,
                 marts>>

\* The end of the with block: every task is awaited, those of a failed engine
\* too, for none is cancelled; then the flag is raised again.
LeavePool ==
  /\ pc = "raised" \/ (pc = "collect" /\ collected = book)
  /\ Running = {} /\ Queued = {}
  /\ daemon' = TRUE
  /\ pc' = IF pc = "raised" THEN "failing" ELSE "process"
  /\ UNCHANGED <<book, task, result, spilled, broken, collected, acc, hasData,
                 marts>>

\* The exception leaves the temporary directory, which is removed.
Fail ==
  /\ pc = "failing" /\ pc' = "failed"
  /\ spilled' = {}
  /\ UNCHANGED <<book, task, result, broken, collected, acc, hasData, daemon,
                 marts>>

\* The instruments under a label of a dimension that have a file for a date.
Held(dim, l, d) == {i \in book : <<i, d>> \in spilled /\ LabelOf(dim, i) = l}

\* A row of a dimension: the sum over the files of a label, and the terminal
\* value of the accumulator entry whose key equals the label.
Row(dim, l, d) ==
  [dim |-> dim, label |-> l, date |-> d,
   current |-> SumFunctionOnSet(Worth, Held(dim, l, d)),
   terminal |-> IF l \in DOMAIN acc[dim] THEN acc[dim][l].val[d] ELSE NoSector]

Rows(dim) ==
  UNION {{Row(dim, l, d) : d \in {e \in Dates : Held(dim, l, e) # {}}} :
           l \in {LabelOf(dim, i) : i \in book}}

Process ==
  /\ pc = "process"
  /\ IF hasData THEN /\ pc' = "published"
                     /\ marts' = UNION {Rows(dim) : dim \in Dims}
     ELSE /\ pc' = "empty"
          /\ UNCHANGED marts
  /\ spilled' = {}
  /\ UNCHANGED <<book, task, result, broken, collected, acc, hasData, daemon>>

\* Reading the files or a calculation over them raises.
ProcessRaises ==
  /\ pc = "process" /\ pc' = "failing"
  /\ UNCHANGED <<book, task, result, spilled, broken, collected, acc, hasData,
                 daemon, marts>>

Ended == pc \in {"empty", "failed", "published"}

Done == Ended /\ UNCHANGED vars

Next ==
  \/ Submit \/ StartTask \/ LeavePool \/ Fail \/ Process \/ ProcessRaises
  \/ Done
  \/ \E i \in book : Collect(i) \/ WorkerDies(i) \/ \E r \in Results : EndTask(i, r)

\* The engine's own loop runs on, and a worker that is alive ends its task: the
\* replay of an instrument loops over finite lists.
Spec ==
  /\ Init /\ [][Next]_vars
  /\ WF_vars(Submit \/ LeavePool \/ Fail \/ Process \/ ProcessRaises)
  /\ WF_vars(\E i \in book : Collect(i))
  /\ WF_vars(StartTask)
  /\ \A i \in Isins : WF_vars(\E r \in Results : EndTask(i, r))
-----------------------------------------------------------------------------
TypeOK ==
  /\ book \subseteq Isins /\ collected \subseteq book
  /\ task \in [Isins -> {"none", "queued", "running", "done", "lost"}]
  /\ \A i \in Isins : result[i] \in Results
  /\ spilled \subseteq book \X Dates
  /\ DOMAIN acc = Dims

TotalWorth(S) == SumFunctionOnSet(Worth, S)

\* The slices of every dimension add up to the portfolio, date by date, and the
\* portfolio to the instruments collected so far, in whatever order they came.
SlicesAddUp ==
  LET counted == {i \in collected : task[i] = "done" /\ result[i].kind \in {"held", "flat"}}
  IN \A dim \in Dims :
       /\ SumFunction([k \in DOMAIN acc[dim] |-> acc[dim][k].cash]) = TotalWorth(counted)
       /\ \A d \in Dates :
            SumFunction([k \in DOMAIN acc[dim] |-> acc[dim][k].val[d]])
              = TotalWorth({i \in counted : d \in result[i].dates})

\* In every published row the value summed from the workers' files is the value
\* the collector added up for the same slice, so its returns belong to its
\* holdings.  The rows of a blank sector have no returns at all: the two name it
\* differently.
MartsAgree ==
  \A row \in marts :
    row.terminal = IF row.dim = "sector" /\ row.label = "Unknown" THEN NoSector
                   ELSE row.current

\* The published value is what the book is worth, in a state of its type.
ValueIsWhole ==
  /\ TypeOK /\ SlicesAddUp /\ MartsAgree
  /\ pc = "published" =>
       \A dim \in Dims, d \in Dates :
         SumFunction([row \in {r \in marts : r.dim = dim /\ r.date = d} |-> row.current])
           = TotalWorth({i \in book : d \in result[i].dates})

\* One instrument that fails, in its worker or with it, fails the engine, and
\* then nothing is published; and whatever the end, no worker is left at work when
\* the process may be ended with its parent again, and none writes into the
\* directory that is gone.
FailureIsTotal ==
  /\ pc \in {"process", "published"} =>
       \A i \in book : task[i] = "done" /\ result[i].kind # "error"
  /\ marts # {} => pc = "published"
  /\ daemon => Running = {} /\ Queued = {}
  /\ Ended => spilled = {}

\* The engine comes to an end, however its workers end.
PoolEnds == pc = "collect" ~> Ended
=============================================================================
