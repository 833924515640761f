--------------------------- MODULE MarketSync_proofs ---------------------------
(***************************************************************************)
(* Proofs about MarketSync, for any tickers, days, batches, runs, buffer   *)
(* and age: warehouse and control plane agree on the chunks outside a      *)
(* split, what is cached of an entity has no hole, and what a run          *)
(* publishes is the newest known close of every day of its range.          *)
(***************************************************************************)
EXTENDS MarketSync, FiniteSetTheorems, TLAPS

----------------------------------------------------------------------------
\* A set of days has a first and a last one.

LEMMA LeastNumber ==
  ASSUME NEW S, S \subseteq Nat, S # {}
  PROVE  \E x \in S : \A y \in S : x <= y
<1>1. PICK x \in S : \A y \in S : ~ (<<y, x>> \in OpToRel(<, Nat))
  BY NatLessThanWellFounded, WFMin, Zenon
<1>2. ASSUME NEW y \in S PROVE x <= y
  <2>1. ~ (y < x)  BY <1>1 DEF OpToRel
  <2> QED  BY <2>1
<1> QED  BY <1>2

LEMMA LastDayOf ==
  ASSUME NEW S, S \subseteq Days, S # {}
  PROVE  Max(S) \in S /\ \A x \in S : x <= Max(S)
<1>0. LastDay \in Nat  BY MarketAssumption
<1> DEFINE Back == {LastDay - x : x \in S}
<1>1. Back \subseteq Nat /\ Back # {}
  <2>1. \A x \in S : LastDay - x \in Nat  BY <1>0 DEF Days
  <2> QED  BY <2>1, Zenon
<1> HIDE DEF Back
<1>2. PICK m \in Back : \A y \in Back : m <= y  BY <1>1, LeastNumber
<1> USE DEF Back
<1>3. PICK s \in S : m = LastDay - s  BY <1>2
<1>4. \A x \in S : s >= x
  <2> TAKE x \in S
  <2>1. m <= LastDay - x  BY <1>2
  <2> QED  BY <2>1, <1>3, <1>0 DEF Days
<1>5. Max(S) \in S /\ \A x \in S : Max(S) >= x  BY <1>3, <1>4 DEF Max
<1> QED  BY <1>5, <1>0 DEF Days

LEMMA FirstDayOf ==
  ASSUME NEW S, S \subseteq Days, S # {}
  PROVE  Min(S) \in S /\ \A x \in S : Min(S) <= x
<1>0. LastDay \in Nat  BY MarketAssumption
<1>1. S \subseteq Nat  BY <1>0 DEF Days
<1>2. PICK m \in S : \A y \in S : m <= y  BY <1>1, LeastNumber
<1> QED  BY <1>2 DEF Min

----------------------------------------------------------------------------
\* The steps: the three publications are one, which passes or refuses the batch.

Follows == {<<"currency", "us_stock">>, <<"us_stock", "benchmark">>, <<"benchmark", "commit">>}

Passed(held) ==
  /\ Ingested /\ NoBadClose(Loaded)
  /\ <<pc, pc'>> \in Follows
  /\ series' = Continuous(Loaded, held) /\ UNCHANGED broken

Refused ==
  /\ Ingested /\ pc \in Providers
  /\ pc' = "refused" /\ broken' = broken \cup {run} /\ UNCHANGED series

LEMMA PublishSteps ==
  ASSUME PublishRates \/ PublishPrices \/ PublishBenchmarks
  PROVE  Refused \/ \E held \in Spanned \cup {range.to} : Passed(held)
<1>1. CASE PublishRates
  BY <1>1 DEF PublishRates, Published, Passed, Refused, Follows, RatesValid, Providers
<1>2. CASE PublishPrices
  <2>1. PICK held \in Spanned : /\ pc = "us_stock" /\ Ingested
                                /\ Published(PricesValid(Loaded, held), held, "benchmark")
    BY <1>2 DEF PublishPrices
  <2>2. Refused \/ Passed(held)
    BY <2>1 DEF Published, Passed, Refused, Follows, PricesValid, Providers
  <2> QED  BY <2>1, <2>2
<1>3. CASE PublishBenchmarks
  BY <1>3 DEF PublishBenchmarks, Published, Passed, Refused, Follows, BenchmarksValid, Providers
<1> QED  BY <1>1, <1>2, <1>3

\* What a step is, for the proofs that follow.
Steps ==
  \/ Begin \/ Refused \/ \E held \in Spanned \cup {range.to} : Passed(held)
  \/ \E e \in Entities : Answered(e) \/ Failed(e) \/ \E d \in Days : PublishLate(e, d)
  \/ Incomplete \/ Commit \/ CommitSplit \/ Rollback \/ LoseWarehouse

LEMMA StepsOfNext == Next => Steps
  BY PublishSteps, Zenon DEF Next, Steps

----------------------------------------------------------------------------
\* The types.  A range leaves room for the buffer, and a run at work has a number.

TypeInv ==
  /\ TypeOK
  /\ range.from >= Buffer
  /\ pc # "idle" => run >= 1
  /\ broken \subseteq 1 .. run

LEMMA WindowOfDays ==
  ASSUME TypeInv, NEW S, S \subseteq Days
  PROVE  Window(S) \subseteq Days
<1>1. range.from \in Int /\ range.to \in 0 .. LastDay /\ range.from >= Buffer /\ Buffer \in Nat
      /\ LastDay \in Nat
  BY MarketAssumption DEF TypeInv, TypeOK, Days
<1>2. CASE S # {} /\ Max(S) >= range.from - Buffer
  <2>1. Max(S) \in 0 .. LastDay  BY <1>2, LastDayOf DEF Days
  <2>2. Window(S) = Max(S) + 1 .. range.to  BY <1>2 DEF Window
  <2> QED  BY <2>1, <2>2, <1>1 DEF Days
<1>3. CASE ~ (S # {} /\ Max(S) >= range.from - Buffer)
  <2>1. Window(S) = range.from - Buffer .. range.to  BY <1>3 DEF Window
  <2> QED  BY <2>1, <1>1 DEF Days
<1> QED  BY <1>2, <1>3

LEMMA CachedAreDays ==
  ASSUME NEW wh \in Warehouse, NEW e \in Entities
  PROVE  CachedDays(wh, e) \subseteq Days
BY DEF Warehouse, CachedDays, RowsOf, Row

\* What a download leaves: nothing, or a row for each day of its window.
LEMMA DownloadedRows ==
  ASSUME TypeInv, NEW e \in Entities, pc = ProviderOf[e], NEW window \in SUBSET Days
  PROVE  /\ Downloaded(e, window) \subseteq Row
         /\ \A r \in Downloaded(e, window) :
              /\ r.entity = e /\ r.day \in window
              /\ r.chunk = [provider |-> pc, run |-> run]
              /\ r.kind = "quote" => r.day \in market[e]
         /\ Downloaded(e, window) # {} =>
              \A d \in window : \E r \in Downloaded(e, window) : r.day = d
         /\ \A r, s \in Downloaded(e, window) : r.day = s.day => r = s
<1> DEFINE chunk == [provider |-> pc, run |-> run]
           kind(d) == IF d \notin market[e] THEN "gap"
                      ELSE IF <<e, d>> \in bad THEN "bad" ELSE "quote"
           row(d) == [entity |-> e, day |-> d, chunk |-> chunk, kind |-> kind(d)]
<1>1. chunk \in Chunk
  <2>1. run \in 1 .. MaxRuns
    <3>1. run \in 0 .. MaxRuns /\ MaxRuns \in Nat  BY MarketAssumption DEF TypeInv, TypeOK
    <3>2. run >= 1  BY MarketAssumption DEF TypeInv, Providers
    <3> QED  BY <3>1, <3>2
  <2>2. pc \in Providers  BY MarketAssumption
  <2> QED  BY <2>1, <2>2 DEF Chunk
<1>2. \A d \in window : row(d) \in Row  BY <1>1 DEF Row
<1>3. Downloaded(e, window) = {} \/ Downloaded(e, window) = {row(d) : d \in window}
  BY Zenon DEF Downloaded, Spine
<1>4. \A d \in window : /\ row(d).entity = e /\ row(d).day = d /\ row(d).chunk = chunk
                        /\ row(d).kind = "quote" => d \in market[e]
  OBVIOUS
<1> HIDE DEF row, chunk
<1>5. CASE Downloaded(e, window) = {}  BY <1>5
<1>6. CASE Downloaded(e, window) = {row(d) : d \in window}
  <2>1. \A r \in Downloaded(e, window) : \E d \in window : r = row(d)  BY <1>6
  <2>2. \A d \in window : row(d) \in Downloaded(e, window)  BY <1>6
  <2>3. \A r, s \in Downloaded(e, window) : r.day = s.day => r = s  BY <2>1, <1>4
  <2>4. chunk = [provider |-> pc, run |-> run]  BY DEF chunk
  <2> QED  BY <2>1, <2>2, <2>3, <2>4, <1>2, <1>4
<1> QED  BY <1>3, <1>5, <1>6

LEMMA RangeTyped ==
  ASSUME TypeInv
  PROVE  /\ range.from \in Int /\ range.to \in Int /\ Buffer \in Nat /\ LastDay \in Nat
         /\ MaxRuns \in Nat /\ run \in Nat /\ MaxAge \in Nat
         /\ 0 <= Buffer /\ Buffer <= range.from /\ range.from <= range.to /\ range.to <= LastDay
         /\ Days = 0 .. LastDay /\ Spanned \subseteq Days /\ range.to \in Days
<1>1. range.from \in 0 .. LastDay /\ range.to \in 0 .. LastDay /\ range.from >= Buffer
      /\ range.from <= range.to /\ run \in 0 .. MaxRuns
  BY DEF TypeInv, TypeOK, Days
<1>2. LastDay \in Nat /\ Buffer \in 0 .. LastDay /\ MaxRuns \in Nat /\ MaxAge \in Nat
  BY MarketAssumption
<1> QED  BY <1>1, <1>2 DEF Days, Spanned

LEMMA ObservedTyped ==
  ASSUME TypeInv, NEW wh \in Warehouse, NEW e \in Entities, NEW d \in Days
  PROVE  Observed(wh, e, d) \in Days \cup {None}
<1> DEFINE S == {x \in Quotes(wh, e) : x <= d /\ (ProviderOf[e] = "currency" => x >= range.from)}
<1>1. S \subseteq Days  BY DEF Quotes, RowsOf, Warehouse, Row
<1>2. Observed(wh, e, d) = IF S = {} THEN None ELSE Max(S)  BY DEF Observed, NewestOf
<1> HIDE DEF S
<1> QED  BY <1>1, <1>2, LastDayOf

LEMMA LoadedTyped ==
  ASSUME TypeInv
  PROVE  Loaded \in Warehouse /\ Vaulted \in Control
<1>1. fetched \subseteq Row /\ whT \in Warehouse /\ cpT \in Control  BY DEF TypeInv, TypeOK
<1>2. {r.chunk : r \in fetched} \subseteq Chunk  BY <1>1 DEF Row
<1> QED  BY <1>1, <1>2 DEF Warehouse, Control, Loaded, Vaulted

LEMMA ContinuousTyped ==
  ASSUME TypeInv, NEW held \in Days
  PROVE  Continuous(Loaded, held) \in [Entities -> [Days -> Days \cup {None}]]
<1>1. Loaded \in Warehouse  BY LoadedTyped
<1>2. \A e \in Entities, d \in Days : Observed(Loaded, e, d) \in Days \cup {None}
  BY <1>1, ObservedTyped
<1>3. series \in [Entities -> [Days -> Days \cup {None}]]  BY DEF TypeInv, TypeOK
<1>4. \A e \in Entities :
        [d \in Days |-> IF d \in Wanted(e, held) /\ Fresh(d, Observed(Loaded, e, d))
                          THEN Observed(Loaded, e, d) ELSE None] \in [Days -> Days \cup {None}]
  BY <1>2
<1> QED  BY <1>3, <1>4 DEF Continuous

LEMMA HealedTyped ==
  ASSUME TypeInv
  PROVE  Pruned(warehouse, control) \in Warehouse /\ Requeued(warehouse, control) \in Control
<1>1. warehouse \in Warehouse /\ control \in Control  BY DEF TypeInv, TypeOK
<1> QED  BY <1>1 DEF Warehouse, Control, Pruned, Requeued

\* Every step keeps every variable of its type.
LEMMA TypeInductive == TypeInv /\ [Next]_vars => TypeInv'
<1> SUFFICES ASSUME TypeInv, [Next]_vars PROVE TypeInv'
  OBVIOUS
<1>a. Steps \/ UNCHANGED vars  BY StepsOfNext
<1> USE RangeTyped
<1>u. CASE UNCHANGED vars
  BY <1>u DEF TypeInv, TypeOK, vars, world, stores
<1>1. CASE Begin
  <2> USE DEF Begin
  <2>1. run' \in 0 .. MaxRuns /\ run' >= 1 /\ pc' \in Providers /\ broken' \subseteq 1 .. run'
    <3>1. run' = run + 1 /\ run < MaxRuns /\ pc' = "currency" /\ broken' = broken  BY <1>1
    <3>2. broken \subseteq 1 .. run  BY DEF TypeInv
    <3> QED  BY <3>1, <3>2 DEF Providers
  <2>2. range' \in [from : Days, to : Days] /\ range'.from <= range'.to /\ range'.from >= Buffer
    <3>1. range' \in [from : Buffer .. range.from, to : Days] /\ range'.from <= range'.to
      BY <1>1 DEF Ranges
    <3>2. Buffer .. range.from \subseteq Days  OBVIOUS
    <3>3. \A x \in Buffer .. range.from : x >= Buffer  OBVIOUS
    <3> QED  BY <3>1, <3>2, <3>3
  <2>3. warehouse' \in Warehouse /\ whT' \in Warehouse /\ control' \in Control /\ cpT' \in Control
    BY <1>1, HealedTyped
  <2>4. answer' \in [Entities -> {"open", "answered", "failed"}] /\ fetched' \subseteq Row
        /\ ok' \in BOOLEAN /\ empty' \in [Entities -> SUBSET Days]
        /\ series' \in [Entities -> [Days -> Days \cup {None}]]
    BY <1>1 DEF NoSeries
  <2>5. market' = market /\ bad' = bad /\ late' = late /\ broken' = broken
    BY <1>1 DEF world
  <2> QED  BY <2>1, <2>2, <2>3, <2>4, <2>5, Zenon DEF TypeInv, TypeOK
<1>2. CASE Refused \/ \E held \in Spanned \cup {range.to} : Passed(held)
  <2>1. Ingested  BY <1>2 DEF Refused, Passed
  <2>2. UNCHANGED <<world, run, range, answer, stores, ok, empty>>
        /\ whT' = Loaded /\ cpT' = Vaulted /\ fetched' = {}
    BY <2>1 DEF Ingested
  <2>3. pc' \in {"idle", "refused", "commit"} \cup Providers /\ (pc' # "idle" => run >= 1)
    <3>1. pc \in Providers  BY <1>2 DEF Refused, Passed, Follows, Providers
    <3>2. run >= 1  BY <3>1 DEF TypeInv, Providers
    <3> QED  BY <3>2, <1>2 DEF Refused, Passed, Follows, Providers
  <2>4. broken' \subseteq 1 .. MaxRuns /\ broken' \subseteq 1 .. run
    <3>1. broken' \subseteq broken \cup {run}  BY <1>2 DEF Refused, Passed
    <3>2. run \in 1 .. run /\ run \in 1 .. MaxRuns
      <4>1. pc # "idle"  BY <1>2 DEF Refused, Passed, Follows, Providers
      <4>2. run >= 1 /\ run \in 0 .. MaxRuns  BY <4>1 DEF TypeInv, TypeOK
      <4> QED  BY <4>2
    <3> QED  BY <3>1, <3>2 DEF TypeInv, TypeOK
  <2>5. series' \in [Entities -> [Days -> Days \cup {None}]]
    <3>1. \A held \in Spanned \cup {range.to} : held \in Days  OBVIOUS
    <3> QED  BY <1>2, <3>1, ContinuousTyped DEF Refused, Passed, TypeInv, TypeOK
  <2>6. whT' \in Warehouse /\ cpT' \in Control  BY <2>2, LoadedTyped
  <2> QED  BY <2>2, <2>3, <2>4, <2>5, <2>6 DEF TypeInv, TypeOK, world, stores
<1>3. ASSUME NEW e \in Entities, Answered(e) PROVE TypeInv'
  <2> DEFINE window == Window(CachedDays(whT, e))
  <2>1. window \in SUBSET Days
    <3>1. CachedDays(whT, e) \subseteq Days  BY CachedAreDays DEF TypeInv, TypeOK
    <3> QED  BY <3>1, WindowOfDays
  <2>2. fetched' = fetched \cup Downloaded(e, window) /\ pc = ProviderOf[e]
        /\ answer' = [answer EXCEPT ![e] = "answered"]
        /\ (empty' = [empty EXCEPT ![e] = window] \/ empty' = empty)
    BY <1>3 DEF Answered, Recorded
  <2> HIDE DEF window
  <2>3. Downloaded(e, window) \subseteq Row  BY <2>1, <2>2, DownloadedRows
  <2>4. fetched' \subseteq Row
    BY <2>2, <2>3 DEF TypeInv, TypeOK
  <2>6. empty' \in [Entities -> SUBSET Days]
    <3>1. empty \in [Entities -> SUBSET Days]  BY DEF TypeInv, TypeOK
    <3> QED  BY <2>1, <2>2, <3>1
  <2>5. answer' \in [Entities -> {"open", "answered", "failed"}]
    BY <2>2 DEF TypeInv, TypeOK
  <2>7. UNCHANGED <<market, bad, late, run, pc, range, warehouse, control, whT, cpT, series, ok, broken>>
    BY <1>3 DEF Answered, world, stores
  <2> QED  BY <2>4, <2>5, <2>6, <2>7, Zenon DEF TypeInv, TypeOK
<1>4. ASSUME NEW e \in Entities, Failed(e) PROVE TypeInv'
  <2>1. answer' \in [Entities -> {"open", "answered", "failed"}]
    BY <1>4 DEF Failed, Recorded, TypeInv, TypeOK
  <2>2. broken' \subseteq 1 .. MaxRuns /\ broken' \subseteq 1 .. run
    <3>1. broken' = broken \cup {run} /\ pc = ProviderOf[e]  BY <1>4 DEF Failed
    <3>2. run >= 1 /\ run \in 0 .. MaxRuns
      BY <3>1, MarketAssumption DEF TypeInv, TypeOK, Providers
    <3> QED  BY <3>1, <3>2 DEF TypeInv, TypeOK
  <2>3. UNCHANGED <<world, run, pc, range, fetched, stores, whT, cpT, series, ok, empty>>
    BY <1>4 DEF Failed
  <2> QED  BY <2>1, <2>2, <2>3 DEF TypeInv, TypeOK, world, stores
<1>5. ASSUME NEW e \in Entities, NEW d \in Days, PublishLate(e, d) PROVE TypeInv'
  <2>1. market' \in [Entities -> SUBSET Days] /\ bad' \subseteq Entities \X Days
    BY <1>5 DEF PublishLate, TypeInv, TypeOK
  <2>2. late' \in 0 .. MaxLate
    <3>1. late' = late + 1 /\ late < MaxLate /\ late \in 0 .. MaxLate /\ MaxLate \in Nat
      BY <1>5, MarketAssumption DEF PublishLate, TypeInv, TypeOK
    <3> QED  BY <3>1
  <2>3. UNCHANGED <<run, pc, range, answer, fetched, stores, whT, cpT, series, ok, empty, broken>>
    BY <1>5 DEF PublishLate
  <2> QED  BY <2>1, <2>2, <2>3 DEF TypeInv, TypeOK, stores
<1>6. CASE Incomplete
  BY <1>6 DEF Incomplete, TypeInv, TypeOK, world, stores, Providers
<1>7. CASE Commit \/ CommitSplit \/ Rollback \/ LoseWarehouse
  <2>1. Reset /\ warehouse' \in Warehouse /\ control' \in Control
    BY <1>7 DEF Commit, CommitSplit, Rollback, LoseWarehouse, stores, TypeInv, TypeOK, Warehouse
  <2>2. pc' = "idle" /\ answer' = [e \in Entities |-> "open"] /\ fetched' = {}
        /\ whT' \in Warehouse /\ cpT' \in Control /\ UNCHANGED <<world, run, range, broken>>
    BY <2>1 DEF Reset
  <2>3. ok' \in BOOLEAN /\ empty' \in [Entities -> SUBSET Days]
        /\ series' \in [Entities -> [Days -> Days \cup {None}]]
    <3>1. (ok' = TRUE /\ UNCHANGED <<series, empty>>) \/ Abandon
      BY <1>7 DEF Commit, CommitSplit, Rollback, LoseWarehouse
    <3>2. CASE Abandon  BY <3>2 DEF Abandon, NoSeries
    <3>3. CASE ok' = TRUE /\ UNCHANGED <<series, empty>>  BY <3>3 DEF TypeInv, TypeOK
    <3> QED  BY <3>1, <3>2, <3>3
  <2> QED  BY <2>1, <2>2, <2>3 DEF TypeInv, TypeOK, world
<1> QED  BY <1>a, <1>u, <1>1, <1>2, <1>3, <1>4, <1>5, <1>6, <1>7, Zenon DEF Steps

LEMMA TypeInit == Init => TypeInv
<1> SUFFICES ASSUME Init PROVE TypeInv
  OBVIOUS
<1>1. LastDay \in Nat /\ Buffer \in 0 .. LastDay /\ MaxRuns \in Nat /\ MaxLate \in Nat
      /\ Calendars \subseteq SUBSET Days
  BY MarketAssumption
<1>2. market \in [Entities -> SUBSET Days]  BY <1>1 DEF Init
<1>3. warehouse \in Warehouse /\ whT \in Warehouse /\ control \in Control /\ cpT \in Control
  BY DEF Init, Warehouse, Control
<1>4. range \in [from : Days, to : Days] /\ range.from <= range.to /\ range.from >= Buffer
  BY <1>1 DEF Init, Days
<1>5. series \in [Entities -> [Days -> Days \cup {None}]] /\ empty \in [Entities -> SUBSET Days]
  BY DEF Init, NoSeries
<1>6. bad \subseteq Entities \X Days /\ late \in 0 .. MaxLate /\ run \in 0 .. MaxRuns
      /\ pc \in {"idle", "refused", "commit"} \cup Providers /\ fetched \subseteq Row
      /\ ok \in BOOLEAN /\ broken \subseteq 1 .. MaxRuns /\ broken \subseteq 1 .. run
      /\ (pc # "idle" => run >= 1)
  <2>1. bad = {} /\ late = 0 /\ run = 0 /\ pc = "idle" /\ fetched = {} /\ ok = FALSE /\ broken = {}
    BY DEF Init
  <2>2. 0 \in 0 .. MaxLate /\ 0 \in 0 .. MaxRuns  BY <1>1
  <2> QED  BY <2>1, <2>2, Zenon
<1>7. answer \in [Entities -> {"open", "answered", "failed"}]  BY DEF Init
<1> QED  BY <1>2, <1>3, <1>4, <1>5, <1>6, <1>7, Zenon DEF TypeInv, TypeOK

----------------------------------------------------------------------------
\* The two stores.  Bronze and the registry hold the same chunks; a SYNCED chunk
\* has its payload in the vault; and what both registries know they hold alike.

Whole(wh) ==
  /\ \A r \in wh.rows : r.chunk \in wh.files
  /\ \A c \in wh.files : \E r \in wh.rows : r.chunk = c

Known(cp) == cp.synced \subseteq Registered(cp)

Agree(wh, cp) ==
  /\ wh.files = cp.synced
  /\ wh.rows = {r \in cp.vault : r.chunk \in cp.synced}

Healable(wh, cp) ==
  /\ wh.files \cap Registered(cp) \subseteq cp.synced
  /\ \A c \in wh.files \cap Registered(cp) :
       {r \in wh.rows : r.chunk = c} = {r \in cp.vault : r.chunk = c}

\* The rows this run has loaded.
Added == {r \in whT.rows : r.chunk.run = run}
ChunksOf(rows) == {r.chunk : r \in rows}

\* The open transactions are the committed stores and this run's rows.
Transactions ==
  /\ whT.rows = warehouse.rows \cup Added
  /\ whT.files = warehouse.files \cup ChunksOf(Added)
  /\ cpT.vault = control.vault \cup Added
  /\ cpT.synced = control.synced \cup ChunksOf(Added)

\* A run at work finds rows of earlier runs only.
Numbered ==
  \A r \in warehouse.rows \cup control.vault :
    r.chunk.run <= run /\ (pc # "idle" => r.chunk.run < run)

\* What is downloaded belongs to the provider and the run at work.
OwnRows ==
  \A r \in fetched : /\ r.chunk = [provider |-> pc, run |-> run]
                     /\ ProviderOf[r.entity] = pc /\ answer[r.entity] = "answered"

\* A broken run is refused, or will be.
Doomed ==
  /\ \A r \in warehouse.rows \cup control.vault : r.chunk.run \notin broken
  /\ pc # "idle" /\ run \in broken => pc = "refused" \/ ~Complete

StoresInv ==
  /\ Whole(warehouse) /\ Known(control) /\ Healable(warehouse, control)
  /\ pc # "idle" \/ ok => Agree(warehouse, control)
  /\ pc # "idle" => Transactions /\ ~ok
  /\ pc = "idle" => whT = warehouse /\ cpT = control
  /\ Numbered /\ OwnRows /\ Doomed

LEMMA AgreeHeals ==
  ASSUME NEW wh, NEW cp, Agree(wh, cp)
  PROVE  Healable(wh, cp)
BY DEF Agree, Healable

\* The healing at the start of a run makes the stores agree.
LEMMA Healing ==
  ASSUME NEW wh \in Warehouse, NEW cp \in Control,
         Whole(wh), Known(cp), Healable(wh, cp)
  PROVE  /\ Whole(Pruned(wh, cp)) /\ Known(Requeued(wh, cp))
         /\ Agree(Pruned(wh, cp), Requeued(wh, cp))
         /\ Pruned(wh, cp).rows \subseteq wh.rows /\ Requeued(wh, cp).vault = cp.vault
<1> DEFINE P == Pruned(wh, cp)
           Q == Requeued(wh, cp)
<1>1. P.files = wh.files \cap Registered(cp)
  BY DEF Pruned
<1>2. P.rows = {r \in wh.rows : r.chunk \in Registered(cp)}
  BY DEF Pruned, Whole
<1>3. Q.vault = cp.vault /\ Q.synced = cp.synced \cap wh.files
  BY DEF Requeued, Whole, Control
<1>4. Registered(Q) = Registered(cp)
  BY <1>3 DEF Registered
<1> HIDE DEF P, Q
<1>5. P.files = Q.synced
  BY <1>1, <1>3 DEF Healable, Known
<1>6. P.rows = {r \in Q.vault : r.chunk \in Q.synced}
  <2>1. ASSUME NEW r \in P.rows PROVE r \in Q.vault /\ r.chunk \in Q.synced
    <3>1. r \in wh.rows /\ r.chunk \in wh.files \cap Registered(cp)
      BY <1>2 DEF Whole
    <3> QED  BY <3>1, <1>1, <1>3, <1>5 DEF Healable
  <2>2. ASSUME NEW r \in Q.vault, r.chunk \in Q.synced PROVE r \in P.rows
    <3>1. r \in cp.vault /\ r.chunk \in wh.files \cap Registered(cp)
      BY <2>2, <1>1, <1>3, <1>5
    <3> QED  BY <3>1, <1>2 DEF Healable
  <2> QED  BY <2>1, <2>2
<1>7. Whole(P)  BY <1>1, <1>2 DEF Whole
<1>8. Known(Q)  BY <1>3, <1>4 DEF Known
<1> QED  BY <1>2, <1>3, <1>5, <1>6, <1>7, <1>8 DEF Agree, P, Q

\* The transactions of a run, were they committed together.
LEMMA Committed ==
  ASSUME TypeInv, StoresInv, pc # "idle"
  PROVE  /\ Whole(whT) /\ Known(cpT) /\ Agree(whT, cpT)
         /\ Healable(whT, control)
         /\ \A r \in whT.rows \cup cpT.vault : r.chunk.run <= run
<1> USE DEF StoresInv
<1>1. /\ whT.rows = warehouse.rows \cup Added
      /\ whT.files = warehouse.files \cup ChunksOf(Added)
      /\ cpT.vault = control.vault \cup Added
      /\ cpT.synced = control.synced \cup ChunksOf(Added)
  BY DEF Transactions
<1>2. /\ \A r \in warehouse.rows \cup control.vault : r.chunk.run # run /\ r.chunk.run <= run
      /\ \A r \in Added : r.chunk.run = run
  <2>1. \A r \in warehouse.rows \cup control.vault : r.chunk.run < run /\ r.chunk.run \in Int
    BY DEF Numbered, TypeInv, TypeOK, Warehouse, Control, Row, Chunk
  <2>2. run \in Int  BY RangeTyped
  <2> QED  BY <2>1, <2>2 DEF Added
<1> HIDE DEF Added
<1>3. Agree(warehouse, control) /\ Whole(warehouse) /\ Known(control)  OBVIOUS
<1>4. \A c \in ChunksOf(Added) : c.run = run /\ \E r \in Added : r.chunk = c
  BY <1>2 DEF ChunksOf
<1>5. \A r \in Added : r.chunk \in ChunksOf(Added)  BY DEF ChunksOf
<1>6. \A c \in warehouse.files \cup Registered(control) : c.run # run
  BY <1>2, <1>3 DEF Whole, Registered
<1>7. Whole(whT)  BY <1>1, <1>3, <1>4, <1>5 DEF Whole
<1>8. Known(cpT)
  <2>1. Registered(cpT) = Registered(control) \cup ChunksOf(Added)
    BY <1>1 DEF Registered, ChunksOf
  <2> QED  BY <2>1, <1>1, <1>3 DEF Known
<1>9. Agree(whT, cpT)
  <2>1. whT.files = cpT.synced  BY <1>1, <1>3 DEF Agree
  <2>2. ASSUME NEW r \in whT.rows PROVE r \in cpT.vault /\ r.chunk \in cpT.synced
    BY <1>1, <1>3, <1>5 DEF Agree
  <2>3. ASSUME NEW r \in cpT.vault, r.chunk \in cpT.synced PROVE r \in whT.rows
    <3>1. CASE r \in Added  BY <3>1, <1>1
    <3>2. CASE r \notin Added
      <4>1. r \in control.vault /\ r.chunk.run # run  BY <3>2, <1>1, <1>2
      <4>2. r.chunk \in control.synced  BY <4>1, <2>3, <1>1, <1>4
      <4> QED  BY <4>1, <4>2, <1>1, <1>3 DEF Agree
    <3> QED  BY <3>1, <3>2
  <2> QED  BY <2>1, <2>2, <2>3 DEF Agree
<1>10. Healable(whT, control)
  <2>1. ASSUME NEW c \in whT.files \cap Registered(control)
        PROVE  c \in warehouse.files /\ c \in control.synced /\ c.run # run
    BY <1>1, <1>3, <1>4, <1>6 DEF Agree
  <2>2. ASSUME NEW c \in whT.files \cap Registered(control)
        PROVE  {r \in whT.rows : r.chunk = c} = {r \in control.vault : r.chunk = c}
    <3>1. {r \in whT.rows : r.chunk = c} = {r \in warehouse.rows : r.chunk = c}
      BY <1>1, <1>2, <2>1
    <3> QED  BY <3>1, <1>3, <2>1 DEF Agree
  <2> QED  BY <2>1, <2>2 DEF Healable
<1>11. \A r \in whT.rows \cup cpT.vault : r.chunk.run <= run
  BY <1>1, <1>2, RangeTyped
<1> QED  BY <1>7, <1>8, <1>9, <1>10, <1>11

LEMMA StoresInit == Init => StoresInv
<1> SUFFICES ASSUME Init PROVE StoresInv
  OBVIOUS
<1>1. /\ warehouse.rows = {} /\ warehouse.files = {} /\ control.vault = {} /\ control.synced = {}
      /\ fetched = {} /\ pc = "idle" /\ ok = FALSE /\ whT = warehouse /\ cpT = control
  BY DEF Init
<1>2. Whole(warehouse) /\ Known(control) /\ Healable(warehouse, control)
  BY <1>1 DEF Whole, Known, Healable
<1>3. Numbered /\ OwnRows /\ Doomed  BY <1>1 DEF Numbered, OwnRows, Doomed
<1> QED  BY <1>1, <1>2, <1>3 DEF StoresInv

\* A batch ends with its rows in both transactions, or with the run refused.
LEMMA StoresKeptByIngestion ==
  ASSUME TypeInv, StoresInv, Refused \/ \E held \in Spanned \cup {range.to} : Passed(held)
  PROVE  StoresInv'
<1> USE DEF StoresInv
<1>1. Ingested /\ pc \in Providers /\ pc' # "idle"
  BY DEF Refused, Passed, Follows, Providers
<1>2. /\ UNCHANGED <<warehouse, control, run, ok, answer>>
      /\ whT'.rows = whT.rows \cup fetched /\ whT'.files = whT.files \cup ChunksOf(fetched)
      /\ cpT'.vault = cpT.vault \cup fetched /\ cpT'.synced = cpT.synced \cup ChunksOf(fetched)
      /\ fetched' = {} /\ Complete
  BY <1>1 DEF Ingested, Loaded, Vaulted, ChunksOf, stores
<1>3. pc # "idle"  BY <1>1 DEF Providers
<1>4. Transactions'
  <2>1. Added' = Added \cup fetched
    <3>1. \A r \in fetched : r.chunk.run = run  BY DEF OwnRows
    <3> QED  BY <3>1, <1>2 DEF Added
  <2>2. ChunksOf(Added \cup fetched) = ChunksOf(Added) \cup ChunksOf(fetched)  BY DEF ChunksOf
  <2>3. ChunksOf(Added') = ChunksOf(Added) \cup ChunksOf(fetched)  BY <2>1, <2>2
  <2>4. ChunksOf(Added)' = ChunksOf(Added')  BY DEF ChunksOf
  <2> HIDE DEF Added, ChunksOf
  <2>5. Transactions  BY <1>3
  <2> QED  BY <2>1, <2>3, <2>4, <2>5, <1>2 DEF Transactions
<1>5. Numbered'  BY <1>2, <1>3 DEF Numbered
<1>6. OwnRows'  BY <1>2 DEF OwnRows
<1>7. Doomed'
  <2>1. run \notin broken  BY <1>1, <1>2, <1>3 DEF Doomed, Providers
  <2>2. \A r \in warehouse.rows \cup control.vault : r.chunk.run # run
    <3>1. \A r \in warehouse.rows \cup control.vault : r.chunk.run < run /\ r.chunk.run \in Int
      BY <1>3 DEF Numbered, TypeInv, TypeOK, Warehouse, Control, Row, Chunk
    <3> QED  BY <3>1, RangeTyped
  <2>3. CASE Refused
    <3>1. pc' = "refused" /\ broken' = broken \cup {run}  BY <2>3 DEF Refused
    <3> QED  BY <3>1, <2>2, <1>2 DEF Doomed
  <2>4. CASE \E held \in Spanned \cup {range.to} : Passed(held)
    <3>1. broken' = broken  BY <2>4 DEF Passed
    <3> QED  BY <3>1, <2>1, <1>2 DEF Doomed
  <2> QED  BY <2>3, <2>4
<1>8. Whole(warehouse)' /\ Known(control)' /\ Healable(warehouse, control)'
      /\ Agree(warehouse, control)'
  BY <1>2, <1>3 DEF Whole, Known, Healable, Agree, Registered
<1> QED  BY <1>1, <1>2, <1>3, <1>4, <1>5, <1>6, <1>7, <1>8

\* The ends of a run and the loss of the warehouse leave stores that heal.
LEMMA StoresKeptByEnds ==
  ASSUME TypeInv, StoresInv, Commit \/ CommitSplit \/ Rollback \/ LoseWarehouse
  PROVE  StoresInv'
<1> USE DEF StoresInv
<1>1. Reset  BY DEF Commit, CommitSplit, Rollback, LoseWarehouse
<1>2. pc' = "idle" /\ fetched' = {} /\ whT' = warehouse' /\ cpT' = control'
      /\ UNCHANGED <<run, broken>>
  BY <1>1 DEF Reset
<1>3. OwnRows'  BY <1>2 DEF OwnRows
<1> DEFINE Kept ==
      /\ (Whole(warehouse) /\ Known(control) /\ Healable(warehouse, control))'
      /\ ok' => Agree(warehouse, control)'
      /\ \A r \in warehouse'.rows \cup control'.vault :
           r.chunk.run <= run /\ r.chunk.run \notin broken
<1>4. Kept
  <2>1. CASE Commit \/ CommitSplit
    <3>1. pc = "commit" /\ warehouse' = whT  BY <2>1 DEF Commit, CommitSplit
    <3>2. /\ Whole(whT) /\ Known(cpT) /\ Agree(whT, cpT) /\ Healable(whT, control)
          /\ \A r \in whT.rows \cup cpT.vault : r.chunk.run <= run
      BY <3>1, Committed
    <3>3. \A r \in whT.rows \cup cpT.vault \cup control.vault : r.chunk.run \notin broken
      <4>1. Batch = {}  BY <3>1, MarketAssumption DEF Batch, Providers
      <4>2. run \notin broken  BY <4>1, <3>1 DEF Doomed, Complete
      <4>3. \A r \in whT.rows \cup cpT.vault :
              r \in warehouse.rows \cup control.vault \/ r.chunk.run = run
        BY <3>1 DEF Transactions, Added
      <4> QED  BY <4>2, <4>3 DEF Doomed
    <3>4. CASE Commit
      <4>1. control' = cpT  BY <3>4 DEF Commit
      <4>2. Healable(whT, cpT)  BY <3>2, AgreeHeals
      <4>3. (Whole(warehouse) /\ Known(control) /\ Healable(warehouse, control)
             /\ Agree(warehouse, control))'
        BY <3>1, <4>1, <4>2, <3>2 DEF Whole, Known, Healable, Agree, Registered
      <4> QED  BY <3>1, <4>1, <4>3, <3>2, <3>3
    <3>5. CASE CommitSplit
      <4>1. control' = control /\ ok' = FALSE  BY <3>5 DEF CommitSplit, Abandon
      <4>2. (Whole(warehouse) /\ Known(control) /\ Healable(warehouse, control))'
        BY <3>1, <4>1, <3>2 DEF Whole, Known, Healable, Registered
      <4>3. \A r \in control.vault : r.chunk.run <= run  BY DEF Numbered
      <4> QED  BY <3>1, <4>1, <4>2, <4>3, <3>2, <3>3
    <3> QED  BY <2>1, <3>4, <3>5
  <2>2. CASE Rollback
    <3>1. warehouse' = warehouse /\ control' = control /\ ok' = FALSE
      BY <2>2 DEF Rollback, Abandon, stores
    <3>2. (Whole(warehouse) /\ Known(control) /\ Healable(warehouse, control))'
      BY <3>1 DEF Whole, Known, Healable, Registered
    <3> QED  BY <3>1, <3>2 DEF Numbered, Doomed
  <2>3. CASE LoseWarehouse
    <3>1. warehouse'.rows = {} /\ warehouse'.files = {} /\ control' = control /\ ok' = FALSE
      BY <2>3 DEF LoseWarehouse, Abandon
    <3>2. (Whole(warehouse) /\ Known(control) /\ Healable(warehouse, control))'
      BY <3>1 DEF Whole, Known, Healable, Registered
    <3> QED  BY <3>1, <3>2 DEF Numbered, Doomed
  <2> QED  BY <2>1, <2>2, <2>3
<1>5. Numbered' /\ Doomed'
  BY <1>2, <1>4 DEF Numbered, Doomed
<1> QED  BY <1>2, <1>3, <1>4, <1>5

\* The stores heal, and no part of a broken run reaches them.
LEMMA StoresInductive == TypeInv /\ StoresInv /\ [Next]_vars => StoresInv'
<1> SUFFICES ASSUME TypeInv, StoresInv, [Next]_vars PROVE StoresInv'
  OBVIOUS
<1>a. Steps \/ UNCHANGED vars  BY StepsOfNext
<1> USE DEF StoresInv
<1> DEFINE Still == UNCHANGED <<run, warehouse, control, whT, cpT, ok>>
<1>b. ASSUME Still
      PROVE  /\ (Whole(warehouse) /\ Known(control) /\ Healable(warehouse, control))'
             /\ Agree(warehouse, control) => Agree(warehouse, control)'
             /\ Transactions => Transactions'
  BY <1>b DEF Whole, Known, Healable, Agree, Registered, Transactions, Added, ChunksOf
<1>u. CASE UNCHANGED vars
  <2>1. Still /\ UNCHANGED <<pc, fetched, answer, broken>>  BY <1>u DEF vars, stores
  <2>2. Numbered' /\ OwnRows' /\ Doomed'
    BY <2>1 DEF Numbered, OwnRows, Doomed, Complete, Batch
  <2> QED  BY <2>1, <2>2, <1>b
<1>1. CASE Begin
  <2>1. /\ pc = "idle" /\ run' = run + 1 /\ pc' = "currency" /\ ok' = FALSE /\ fetched' = {}
        /\ warehouse' = Pruned(warehouse, control) /\ control' = Requeued(warehouse, control)
        /\ whT' = warehouse' /\ cpT' = control' /\ broken' = broken
    BY <1>1 DEF Begin
  <2>2. /\ Whole(Pruned(warehouse, control)) /\ Known(Requeued(warehouse, control))
        /\ Agree(Pruned(warehouse, control), Requeued(warehouse, control))
        /\ Pruned(warehouse, control).rows \subseteq warehouse.rows
        /\ Requeued(warehouse, control).vault = control.vault
    BY Healing DEF TypeInv, TypeOK
  <2>3. Whole(warehouse)' /\ Known(control)' /\ Agree(warehouse, control)'
    BY <2>1, <2>2 DEF Whole, Known, Agree, Registered
  <2>4. Healable(warehouse, control)'
    <3>1. Healable(Pruned(warehouse, control), Requeued(warehouse, control))
      BY <2>2, AgreeHeals
    <3> QED  BY <3>1, <2>1 DEF Healable, Registered
  <2>5. \A r \in warehouse'.rows \cup control'.vault :
           r.chunk.run <= run /\ r.chunk.run \in Int /\ r.chunk.run \notin broken
    <3>1. \A r \in warehouse.rows \cup control.vault : r.chunk.run \in Int
      BY DEF TypeInv, TypeOK, Warehouse, Control, Row, Chunk
    <3> QED  BY <3>1, <2>1, <2>2 DEF Numbered, Doomed
  <2>6. run \in Int /\ run' \notin broken
    <3>1. broken \subseteq 1 .. run /\ run \in Int  BY RangeTyped DEF TypeInv
    <3> QED  BY <3>1, <2>1
  <2>7. Numbered'  BY <2>1, <2>5, <2>6 DEF Numbered
  <2>8. Doomed' /\ OwnRows'  BY <2>1, <2>5, <2>6 DEF Doomed, OwnRows
  <2>9. Added' = {}  BY <2>1, <2>5, <2>6 DEF Added
  <2>10. Transactions'
    <3>1. ChunksOf(Added)' = {}  BY <2>9 DEF ChunksOf
    <3> QED  BY <2>1, <2>9, <3>1 DEF Transactions
  <2> QED  BY <2>1, <2>3, <2>4, <2>7, <2>8, <2>10
<1>2. CASE Refused \/ \E held \in Spanned \cup {range.to} : Passed(held)
  BY <1>2, StoresKeptByIngestion
<1>3. ASSUME NEW e \in Entities, Answered(e) PROVE StoresInv'
  <2> DEFINE window == Window(CachedDays(whT, e))
  <2>1. /\ Still /\ UNCHANGED <<pc, broken>> /\ pc = ProviderOf[e] /\ answer[e] = "open"
        /\ answer' = [answer EXCEPT ![e] = "answered"]
        /\ fetched' = fetched \cup Downloaded(e, window)
    BY <1>3 DEF Answered, Recorded, stores
  <2>2. window \in SUBSET Days
    <3>1. CachedDays(whT, e) \subseteq Days  BY CachedAreDays DEF TypeInv, TypeOK
    <3> QED  BY <3>1, WindowOfDays
  <2> HIDE DEF window
  <2>3. \A r \in Downloaded(e, window) :
          r.entity = e /\ r.chunk = [provider |-> pc, run |-> run]
    BY <2>1, <2>2, DownloadedRows
  <2>4. answer \in [Entities -> {"open", "answered", "failed"}] /\ fetched \subseteq Row
    BY DEF TypeInv, TypeOK
  <2>5. OwnRows'
    <3>1. \A r \in fetched : r.entity \in Entities  BY <2>4 DEF Row
    <3> QED  BY <2>1, <2>3, <2>4, <3>1 DEF OwnRows
  <2>6. Doomed'  BY <2>1, <2>4 DEF Doomed, Complete, Batch
  <2>7. Numbered'  BY <2>1 DEF Numbered
  <2> QED  BY <2>1, <2>5, <2>6, <2>7, <1>b
<1>4. ASSUME NEW e \in Entities, Failed(e) PROVE StoresInv'
  <2>1. /\ Still /\ UNCHANGED <<pc, fetched>> /\ pc = ProviderOf[e] /\ answer[e] = "open"
        /\ answer' = [answer EXCEPT ![e] = "failed"] /\ broken' = broken \cup {run}
    BY <1>4 DEF Failed, Recorded, stores
  <2>2. answer \in [Entities -> {"open", "answered", "failed"}] /\ fetched \subseteq Row
    BY DEF TypeInv, TypeOK
  <2>3. pc # "idle"  BY <2>1, MarketAssumption DEF Providers
  <2>4. \A r \in warehouse.rows \cup control.vault : r.chunk.run # run
    <3>1. \A r \in warehouse.rows \cup control.vault : r.chunk.run < run /\ r.chunk.run \in Int
      BY <2>3 DEF Numbered, TypeInv, TypeOK, Warehouse, Control, Row, Chunk
    <3> QED  BY <3>1, RangeTyped
  <2>5. ~Complete'  BY <2>1, <2>2 DEF Complete, Batch
  <2>6. Doomed'  BY <2>1, <2>4, <2>5 DEF Doomed
  <2>7. OwnRows'
    <3>1. \A r \in fetched : r.entity \in Entities  BY <2>2 DEF Row
    <3> QED  BY <2>1, <2>2, <3>1 DEF OwnRows
  <2>8. Numbered'  BY <2>1 DEF Numbered
  <2> QED  BY <2>1, <2>6, <2>7, <2>8, <1>b
<1>5. ASSUME NEW e \in Entities, NEW d \in Days, PublishLate(e, d) PROVE StoresInv'
  <2>1. Still /\ UNCHANGED <<pc, fetched, answer, broken>>  BY <1>5 DEF PublishLate, stores
  <2>2. Numbered' /\ OwnRows' /\ Doomed'
    BY <2>1 DEF Numbered, OwnRows, Doomed, Complete, Batch
  <2> QED  BY <2>1, <2>2, <1>b
<1>6. CASE Incomplete
  <2>1. Still /\ UNCHANGED broken /\ pc' = "refused" /\ fetched' = {} /\ pc # "idle"
    BY <1>6 DEF Incomplete, stores, Providers
  <2>2. Numbered' /\ OwnRows' /\ Doomed'  BY <2>1 DEF Numbered, OwnRows, Doomed
  <2> QED  BY <2>1, <2>2, <1>b
<1>7. CASE Commit \/ CommitSplit \/ Rollback \/ LoseWarehouse
  BY <1>7, StoresKeptByEnds
<1> QED  BY <1>a, <1>u, <1>1, <1>2, <1>3, <1>4, <1>5, <1>6, <1>7, Zenon DEF Steps

\* The two stores hold the same evidence, and no part of a broken batch.
THEOREM StoresAgree == Spec => []VaultMatchesCache
<1>1. Init => TypeInv /\ StoresInv
  BY TypeInit, StoresInit
<1>2. TypeInv /\ StoresInv /\ [Next]_vars => (TypeInv /\ StoresInv)'
  BY TypeInductive, StoresInductive
<1>3. StoresInv => VaultMatchesCache
  BY DEF StoresInv, VaultMatchesCache, Doomed, Agree
<1> QED  BY <1>1, <1>2, <1>3, PTL DEF Spec

----------------------------------------------------------------------------
\* The cache of an entity: no day missing between two cached ones, one row per
\* day, and its newest day at or past the first day of the range, so that the
\* days after it are all that is missing.

SameTicker(r, s) == r.entity = s.entity

Gapless(rows) ==
  \A r, s \in rows : SameTicker(r, s) =>
    \A d \in Days : r.day <= d /\ d <= s.day => \E q \in rows : SameTicker(q, r) /\ q.day = d

OnePerDay(rows) ==
  \A r, s \in rows : SameTicker(r, s) /\ r.day = s.day => r = s

Reaching(rows, first) ==
  \A r \in rows : \E s \in rows : SameTicker(s, r) /\ s.day >= first

Seamless(rows, first) == Gapless(rows) /\ OnePerDay(rows) /\ Reaching(rows, first)

\* What is downloaded for an entity is its window as it was when asked.
WindowOf(e) == Window(CachedDays(whT, e))

Downloads ==
  /\ \A r \in fetched :
       /\ r.day \in WindowOf(r.entity)
       /\ \A d \in WindowOf(r.entity) : \E s \in fetched : SameTicker(s, r) /\ s.day = d
  /\ OnePerDay(fetched)

\* The rows a healing leaves have no gap either: those of a split run go whole.
CacheInv ==
  /\ Seamless(warehouse.rows, range.from)
  /\ Seamless(Pruned(warehouse, control).rows, range.from)
  /\ pc # "idle" => Seamless(whT.rows, range.from)
  /\ Downloads

LEMMA SeamlessEarlier ==
  ASSUME NEW rows \in SUBSET Row, NEW first \in Int, NEW earlier \in Int,
         earlier <= first, Seamless(rows, first), LastDay \in Nat
  PROVE  Seamless(rows, earlier)
<1>1. \A s \in rows : s.day \in Int  BY DEF Row, Days
<1>2. Reaching(rows, earlier)
  <2> SUFFICES ASSUME NEW r \in rows
               PROVE  \E s \in rows : SameTicker(s, r) /\ s.day >= earlier
    BY DEF Reaching
  <2>1. PICK s \in rows : SameTicker(s, r) /\ s.day >= first  BY DEF Seamless, Reaching
  <2> QED  BY <2>1, <1>1
<1> QED  BY <1>2 DEF Seamless

\* The window of a seamless cache begins the day after its last, or, if there is
\* no cache, Buffer days ahead of the range.
LEMMA WindowAhead ==
  ASSUME TypeInv, Seamless(whT.rows, range.from), NEW e \in Entities
  PROVE  /\ WindowOf(e) \subseteq Days
         /\ CachedDays(whT, e) = {} => WindowOf(e) = range.from - Buffer .. range.to
         /\ \A r \in whT.rows : r.entity = e =>
              /\ Max(CachedDays(whT, e)) \in CachedDays(whT, e)
              /\ r.day <= Max(CachedDays(whT, e))
              /\ WindowOf(e) = Max(CachedDays(whT, e)) + 1 .. range.to
<1> DEFINE S == CachedDays(whT, e)
<1>1. S \subseteq Days  BY CachedAreDays DEF TypeInv, TypeOK
<1>2. WindowOf(e) \subseteq Days  BY <1>1, WindowOfDays DEF WindowOf
<1>3. S = {} => WindowOf(e) = range.from - Buffer .. range.to  BY DEF WindowOf, Window
<1>4. ASSUME NEW r \in whT.rows, r.entity = e
      PROVE  r.day <= Max(S) /\ Max(S) \in S /\ WindowOf(e) = Max(S) + 1 .. range.to
  <2>1. \A q \in whT.rows : q.entity = e => q.day \in S  BY DEF CachedDays, RowsOf
  <2>2. PICK s \in whT.rows : SameTicker(s, r) /\ s.day >= range.from
    BY <1>4 DEF Seamless, Reaching
  <2>3. r.day \in S /\ s.day \in S  BY <1>4, <2>1, <2>2 DEF SameTicker
  <2>4. S # {} /\ Max(S) \in S /\ r.day <= Max(S) /\ s.day <= Max(S)
    BY <1>1, <2>3, LastDayOf
  <2> HIDE DEF S
  <2>5. Max(S) >= range.from - Buffer
    BY <1>1, <2>2, <2>3, <2>4, RangeTyped
  <2> USE DEF S
  <2>6. WindowOf(e) = Max(S) + 1 .. range.to  BY <2>4, <2>5 DEF WindowOf, Window
  <2> QED  BY <2>4, <2>6
<1> QED  BY <1>2, <1>3, <1>4

\* Loading the downloads leaves the cache seamless.
LEMMA LoadedSeamless ==
  ASSUME TypeInv, Seamless(whT.rows, range.from), Downloads
  PROVE  Seamless(whT.rows \cup fetched, range.from)
<1> DEFINE L == whT.rows \cup fetched
<1>t. /\ \A r \in L : r.entity \in Entities /\ r.day \in Days /\ r.day \in Int
      /\ range.from \in Int /\ range.to \in Int /\ Days \subseteq Int
  <2>1. whT.rows \subseteq Row /\ fetched \subseteq Row  BY DEF TypeInv, TypeOK, Warehouse
  <2>2. Days \subseteq Int  BY RangeTyped
  <2> QED  BY <2>1, <2>2, RangeTyped DEF Row
<1>1. ASSUME NEW r \in fetched, NEW s \in whT.rows, SameTicker(r, s)
      PROVE  s.day < r.day /\ r.day <= range.to /\ s.day \in Int /\ r.day \in Int
             /\ \A d \in Days : s.day <= d /\ d <= r.day =>
                  \E q \in L : SameTicker(q, r) /\ q.day = d
  <2> DEFINE m == Max(CachedDays(whT, r.entity))
  <2>1. /\ m \in CachedDays(whT, r.entity) /\ s.day <= m
        /\ WindowOf(r.entity) = m + 1 .. range.to
    BY <1>1, <1>t, WindowAhead DEF SameTicker
  <2>2. PICK t \in whT.rows : t.entity = r.entity /\ t.day = m
    BY <2>1 DEF CachedDays, RowsOf
  <2> HIDE DEF m
  <2>3. m \in Int /\ r.day \in m + 1 .. range.to  BY <2>1, <2>2, <1>t DEF Downloads
  <2>4. ASSUME NEW d \in Days, s.day <= d, d <= r.day
        PROVE  \E q \in L : SameTicker(q, r) /\ q.day = d
    <3>1. CASE d <= m
      <4>1. \E q \in whT.rows : SameTicker(q, s) /\ q.day = d
        BY <1>1, <2>2, <2>4, <3>1 DEF SameTicker, Seamless, Gapless
      <4> QED  BY <4>1, <1>1 DEF SameTicker
    <3>2. CASE ~ (d <= m)
      <4>1. d \in WindowOf(r.entity)  BY <2>1, <2>3, <2>4, <3>2, <1>t
      <4> QED  BY <4>1 DEF Downloads
    <3> QED  BY <3>1, <3>2
  <2>5. s.day < r.day /\ r.day <= range.to  BY <2>1, <2>3, <1>t
  <2> QED  BY <2>4, <2>5, <1>t
<1>2. Gapless(L)
  <2> SUFFICES ASSUME NEW r \in L, NEW s \in L, SameTicker(r, s),
                      NEW d \in Days, r.day <= d, d <= s.day
               PROVE  \E q \in L : SameTicker(q, r) /\ q.day = d
    BY DEF Gapless
  <2>1. CASE r \in whT.rows /\ s \in whT.rows
    <3>1. \E q \in whT.rows : SameTicker(q, r) /\ q.day = d
      BY <2>1 DEF Seamless, Gapless
    <3> QED  BY <3>1
  <2>2. CASE r \in whT.rows /\ s \in fetched
    <3>1. \E q \in L : SameTicker(q, s) /\ q.day = d
      <4>1. SameTicker(s, r)  BY DEF SameTicker
      <4> HIDE DEF L
      <4> QED  BY <2>2, <4>1, <1>1
    <3> QED  BY <3>1 DEF SameTicker
  <2>3. CASE r \in fetched /\ s \in whT.rows
    <3>1. s.day < r.day  BY <2>3, <1>1
    <3> QED  BY <3>1, <1>t
  <2>4. CASE r \in fetched /\ s \in fetched
    <3>1. WindowOf(r.entity) = WindowOf(s.entity)  BY DEF SameTicker
    <3>2. r.day \in WindowOf(r.entity) /\ s.day \in WindowOf(r.entity)
      BY <2>4, <3>1 DEF Downloads
    <3>3. \E a \in Int : WindowOf(r.entity) = a .. range.to
      <4>1. CASE CachedDays(whT, r.entity) = {}
        <5>1. range.from - Buffer \in Int  BY RangeTyped
        <5> QED  BY <4>1, <5>1, <1>t, WindowAhead
      <4>2. CASE CachedDays(whT, r.entity) # {}
        <5>1. PICK t \in whT.rows : t.entity = r.entity  BY <4>2 DEF CachedDays, RowsOf
        <5>2. /\ Max(CachedDays(whT, r.entity)) \in CachedDays(whT, r.entity)
              /\ WindowOf(r.entity) = Max(CachedDays(whT, r.entity)) + 1 .. range.to
          BY <5>1, <1>t, WindowAhead
        <5>3. CachedDays(whT, r.entity) \subseteq Int  BY <1>t DEF CachedDays, RowsOf
        <5> QED  BY <5>2, <5>3
      <4> QED  BY <4>1, <4>2
    <3>4. d \in WindowOf(r.entity)  BY <3>2, <3>3, <1>t
    <3> QED  BY <2>4, <3>4 DEF Downloads
  <2> QED  BY <2>1, <2>2, <2>3, <2>4
<1>3. OnePerDay(L)
  <2> SUFFICES ASSUME NEW r \in L, NEW s \in L, SameTicker(r, s), r.day = s.day PROVE r = s
    BY DEF OnePerDay
  <2>1. SameTicker(s, r)  BY DEF SameTicker
  <2>2. ~ (r \in fetched /\ s \in whT.rows) /\ ~ (s \in fetched /\ r \in whT.rows)
    BY <1>1, <2>1
  <2> QED  BY <2>2 DEF Downloads, Seamless, OnePerDay
<1>4. Reaching(L, range.from)
  <2> SUFFICES ASSUME NEW r \in L PROVE \E s \in L : SameTicker(s, r) /\ s.day >= range.from
    BY DEF Reaching
  <2>1. CASE r \in whT.rows  BY <2>1 DEF Seamless, Reaching
  <2>2. CASE r \in fetched
    <3>1. CASE CachedDays(whT, r.entity) = {}
      <4>1. range.from \in WindowOf(r.entity)
        <5>1. WindowOf(r.entity) = range.from - Buffer .. range.to  BY <3>1, <1>t, WindowAhead
        <5> QED  BY <5>1, RangeTyped
      <4>2. PICK s \in fetched : SameTicker(s, r) /\ s.day = range.from
        BY <2>2, <4>1 DEF Downloads
      <4> QED  BY <4>2, <1>t
    <3>2. CASE CachedDays(whT, r.entity) # {}
      <4>1. PICK t \in whT.rows : SameTicker(t, r)
        BY <3>2 DEF CachedDays, RowsOf, SameTicker
      <4>2. PICK s \in whT.rows : SameTicker(s, t) /\ s.day >= range.from
        BY <4>1 DEF Seamless, Reaching
      <4> QED  BY <4>1, <4>2 DEF SameTicker
    <3> QED  BY <3>1, <3>2
  <2> QED  BY <2>1, <2>2
<1> QED  BY <1>2, <1>3, <1>4 DEF Seamless

LEMMA NothingDangling ==
  ASSUME NEW wh, NEW cp, Whole(wh), Known(cp), Agree(wh, cp)
  PROVE  Pruned(wh, cp).rows = wh.rows
BY DEF Whole, Known, Agree, Pruned

\* After a split, healing takes exactly the rows of the split run.
LEMMA SplitDangling ==
  ASSUME TypeInv, StoresInv, pc # "idle"
  PROVE  Pruned(whT, control).rows = warehouse.rows
<1>1. Whole(whT)  BY Committed
<1>2. Pruned(whT, control).rows = {r \in whT.rows : r.chunk \in Registered(control)}
  BY <1>1 DEF Pruned, Whole
<1>3. Agree(warehouse, control) /\ Known(control) /\ Whole(warehouse)
      /\ whT.rows = warehouse.rows \cup Added
  BY DEF StoresInv, Transactions
<1>4. \A r \in warehouse.rows : r.chunk \in Registered(control)
  BY <1>3 DEF Agree, Registered
<1>5. \A r \in control.vault : r.chunk.run # run
  <2>1. \A r \in control.vault : r.chunk.run < run /\ r.chunk.run \in Int
    BY DEF StoresInv, Numbered, TypeInv, TypeOK, Control, Row, Chunk
  <2> QED  BY <2>1, RangeTyped
<1>6. \A r \in Added : r.chunk \notin Registered(control)
  BY <1>5 DEF Added, Registered
<1> QED  BY <1>2, <1>3, <1>4, <1>6

LEMMA EmptySeamless == ASSUME NEW first PROVE Seamless({}, first)
BY DEF Seamless, Gapless, OnePerDay, Reaching

LEMMA CacheInit == Init => CacheInv
<1> SUFFICES ASSUME Init PROVE CacheInv
  OBVIOUS
<1>1. warehouse.rows = {} /\ Pruned(warehouse, control).rows = {} /\ fetched = {} /\ pc = "idle"
  BY DEF Init, Pruned
<1> QED  BY <1>1, EmptySeamless DEF CacheInv, Downloads, OnePerDay

\* Every step keeps the cache seamless, as it is and as a healing would leave it.
LEMMA CacheInductive ==
  TypeInv /\ StoresInv /\ CacheInv /\ [Next]_vars => CacheInv'
<1> SUFFICES ASSUME TypeInv, StoresInv, CacheInv, [Next]_vars PROVE CacheInv'
  OBVIOUS
<1>a. Steps \/ UNCHANGED vars  BY StepsOfNext
<1>b. StoresInv' /\ TypeInv'  BY StoresInductive, TypeInductive
<1> DEFINE Still == UNCHANGED <<range, warehouse, control, whT>>
<1>s. ASSUME Still
      PROVE  /\ Seamless(warehouse.rows, range.from)' /\ Seamless(Pruned(warehouse, control).rows, range.from)'
             /\ Seamless(whT.rows, range.from) => Seamless(whT.rows, range.from)'
  <2>1. /\ warehouse'.rows = warehouse.rows /\ range'.from = range.from /\ whT'.rows = whT.rows
        /\ Pruned(warehouse', control').rows = Pruned(warehouse, control).rows
    BY <1>s
  <2>2. Seamless(warehouse.rows, range.from) /\ Seamless(Pruned(warehouse, control).rows, range.from)
    BY DEF CacheInv
  <2> QED  BY <2>1, <2>2
<1>f. ASSUME fetched' = {} PROVE Downloads'
  BY <1>f DEF Downloads, OnePerDay
<1>u. CASE UNCHANGED vars
  <2>1. Still /\ UNCHANGED <<pc, fetched>>  BY <1>u DEF vars, stores
  <2>2. Downloads'  BY <2>1 DEF CacheInv, Downloads, OnePerDay, WindowOf, Window, CachedDays, RowsOf
  <2> QED  BY <2>1, <2>2, <1>s DEF CacheInv
<1>1. CASE Begin
  <2>1. warehouse' = Pruned(warehouse, control) /\ whT' = warehouse' /\ fetched' = {}
    BY <1>1 DEF Begin
  <2>2. range'.from \in Int /\ range'.from <= range.from /\ range.from \in Int
    <3>1. range' \in [from : Buffer .. range.from, to : Days]  BY <1>1 DEF Begin, Ranges
    <3> QED  BY <3>1, RangeTyped
  <2>3. Seamless(Pruned(warehouse, control).rows, range'.from)
    <3>1. Pruned(warehouse, control).rows \in SUBSET Row
      BY HealedTyped DEF Warehouse
    <3>2. Seamless(Pruned(warehouse, control).rows, range.from)  BY DEF CacheInv
    <3> QED  BY <2>2, <3>1, <3>2, SeamlessEarlier, RangeTyped
  <2>4. Seamless(warehouse'.rows, range'.from) /\ Seamless(whT'.rows, range'.from)
    BY <2>1, <2>3
  <2>5. Pruned(warehouse', control').rows = warehouse'.rows
    <3>1. pc' # "idle"  BY <1>1 DEF Begin
    <3>2. Whole(warehouse') /\ Known(control') /\ Agree(warehouse', control')
      BY <1>b, <3>1 DEF StoresInv
    <3> QED  BY <3>2, NothingDangling
  <2>6. Seamless(Pruned(warehouse', control').rows, range'.from)
    BY <2>4, <2>5
  <2> QED  BY <2>1, <2>4, <2>6, <1>f DEF CacheInv
<1>2. CASE Refused \/ \E held \in Spanned \cup {range.to} : Passed(held)
  <2>1. Ingested /\ pc \in Providers  BY <1>2 DEF Refused, Passed, Follows, Providers
  <2>2. /\ UNCHANGED <<warehouse, control, range>> /\ fetched' = {}
        /\ whT'.rows = whT.rows \cup fetched
    BY <2>1 DEF Ingested, Loaded, stores
  <2>3. Seamless(whT.rows \cup fetched, range.from)
    BY <2>1, LoadedSeamless DEF CacheInv, Providers
  <2>4. Seamless(whT'.rows, range'.from)  BY <2>2, <2>3
  <2>5. Seamless(warehouse'.rows, range'.from)
        /\ Seamless(Pruned(warehouse', control').rows, range'.from)
    BY <2>2 DEF CacheInv
  <2> QED  BY <2>2, <2>4, <2>5, <1>f DEF CacheInv
<1>3. ASSUME NEW e \in Entities, Answered(e) PROVE CacheInv'
  <2> DEFINE new == Downloaded(e, WindowOf(e))
  <2>1. /\ Still /\ UNCHANGED pc /\ pc = ProviderOf[e] /\ answer[e] = "open"
        /\ fetched' = fetched \cup new
    BY <1>3 DEF Answered, WindowOf, stores
  <2>2. WindowOf(e) \in SUBSET Days
    <3>1. CachedDays(whT, e) \subseteq Days  BY CachedAreDays DEF TypeInv, TypeOK
    <3> QED  BY <3>1, WindowOfDays DEF WindowOf
  <2>3. /\ \A r \in new : r.entity = e /\ r.day \in WindowOf(e)
        /\ new # {} => \A d \in WindowOf(e) : \E r \in new : r.day = d
        /\ \A r, s \in new : r.day = s.day => r = s
    BY <2>1, <2>2, DownloadedRows
  <2>4. \A x : WindowOf(x)' = WindowOf(x)
    BY <2>1 DEF WindowOf, Window, CachedDays, RowsOf
  <2> HIDE DEF new
  <2>5. \A r \in fetched : r.entity # e  BY <2>1 DEF StoresInv, OwnRows
  <2>6. \A r \in fetched' :
          /\ r.day \in WindowOf(r.entity)
          /\ \A d \in WindowOf(r.entity) : \E s \in fetched' : SameTicker(s, r) /\ s.day = d
    <3>1. ASSUME NEW r \in fetched
          PROVE  /\ r.day \in WindowOf(r.entity)
                 /\ \A d \in WindowOf(r.entity) : \E s \in fetched : SameTicker(s, r) /\ s.day = d
      BY DEF CacheInv, Downloads
    <3>2. ASSUME NEW r \in new
          PROVE  /\ r.day \in WindowOf(r.entity)
                 /\ \A d \in WindowOf(r.entity) : \E s \in new : SameTicker(s, r) /\ s.day = d
      BY <2>3 DEF SameTicker
    <3> QED  BY <3>1, <3>2, <2>1
  <2>7. OnePerDay(fetched')
    <3>1. OnePerDay(fetched)  BY DEF CacheInv, Downloads
    <3> QED  BY <3>1, <2>1, <2>3, <2>5 DEF OnePerDay, SameTicker
  <2>8. Downloads'  BY <2>4, <2>6, <2>7 DEF Downloads, OnePerDay, SameTicker
  <2> QED  BY <2>1, <2>8, <1>s DEF CacheInv
<1>4. ASSUME NEW e \in Entities, Failed(e) PROVE CacheInv'
  <2>1. Still /\ UNCHANGED <<pc, fetched>>  BY <1>4 DEF Failed, stores
  <2>2. Downloads'  BY <2>1 DEF CacheInv, Downloads, OnePerDay, WindowOf, Window, CachedDays, RowsOf
  <2> QED  BY <2>1, <2>2, <1>s DEF CacheInv
<1>5. ASSUME NEW e \in Entities, NEW d \in Days, PublishLate(e, d) PROVE CacheInv'
  <2>1. Still /\ UNCHANGED <<pc, fetched>>  BY <1>5 DEF PublishLate, stores
  <2>2. Downloads'  BY <2>1 DEF CacheInv, Downloads, OnePerDay, WindowOf, Window, CachedDays, RowsOf
  <2> QED  BY <2>1, <2>2, <1>s DEF CacheInv
<1>6. CASE Incomplete
  <2>1. Still /\ fetched' = {} /\ pc # "idle"  BY <1>6 DEF Incomplete, stores, Providers
  <2> QED  BY <2>1, <1>s, <1>f DEF CacheInv
<1>7. CASE Commit \/ CommitSplit \/ Rollback \/ LoseWarehouse
  <2>1. fetched' = {} /\ pc' = "idle" /\ range' = range
    BY <1>7 DEF Commit, CommitSplit, Rollback, LoseWarehouse, Reset
  <2>2. Seamless(warehouse'.rows, range.from)
        /\ Seamless(Pruned(warehouse', control').rows, range.from)
    <3>1. CASE Commit
      <4>1. warehouse' = whT /\ control' = cpT /\ pc = "commit"  BY <3>1 DEF Commit
      <4>2. Seamless(whT.rows, range.from)  BY <4>1 DEF CacheInv
      <4>3. Pruned(whT, cpT).rows = whT.rows  BY <4>1, Committed, NothingDangling
      <4> QED  BY <4>1, <4>2, <4>3
    <3>2. CASE CommitSplit
      <4>1. warehouse' = whT /\ control' = control /\ pc = "commit"  BY <3>2 DEF CommitSplit
      <4>2. Pruned(whT, control).rows = warehouse.rows  BY <4>1, SplitDangling
      <4> QED  BY <4>1, <4>2 DEF CacheInv
    <3>3. CASE Rollback
      <4>1. warehouse' = warehouse /\ control' = control  BY <3>3 DEF Rollback, stores
      <4> QED  BY <4>1 DEF CacheInv
    <3>4. CASE LoseWarehouse
      <4>1. warehouse'.rows = {} /\ Pruned(warehouse', control').rows = {}
        BY <3>4 DEF LoseWarehouse, Pruned
      <4> QED  BY <4>1, EmptySeamless
    <3> QED  BY <1>7, <3>1, <3>2, <3>3, <3>4
  <2>3. Seamless(warehouse'.rows, range'.from)
        /\ Seamless(Pruned(warehouse', control').rows, range'.from)
    BY <2>1, <2>2
  <2> QED  BY <2>1, <2>3, <1>f DEF CacheInv
<1> QED  BY <1>a, <1>u, <1>1, <1>2, <1>3, <1>4, <1>5, <1>6, <1>7, Zenon DEF Steps

\* One row per day: as many rows as days.
LEMMA CountedOnce ==
  ASSUME TypeInv, OnePerDay(warehouse.rows), NEW e \in Entities
  PROVE  Cardinality(RowsOf(warehouse, e)) = Cardinality(CachedDays(warehouse, e))
<1> DEFINE R == RowsOf(warehouse, e)
           D == CachedDays(warehouse, e)
           dayOf == [r \in R |-> r.day]
<1>1. D \subseteq 0 .. LastDay /\ IsFiniteSet(0 .. LastDay)
  <2>1. D \subseteq Days  BY CachedAreDays DEF TypeInv, TypeOK
  <2>2. 0 \in Int /\ LastDay \in Int  BY RangeTyped
  <2> QED  BY <2>1, <2>2, FS_Interval DEF Days
<1>2. IsFiniteSet(D)  BY <1>1, FS_Subset
<1>3. dayOf \in Injection(R, D) /\ dayOf \in Surjection(R, D)
  <2>1. \A r \in R : r.day \in D  BY DEF CachedDays
  <2>2. \A d \in D : \E r \in R : r.day = d  BY DEF CachedDays
  <2>3. \A r, s \in R : r.day = s.day => r = s  BY DEF OnePerDay, SameTicker, RowsOf
  <2> HIDE DEF R, D
  <2> QED  BY <2>1, <2>2, <2>3 DEF Injection, IsInjective, Surjection
<1> QED  BY <1>2, <1>3, FS_Injection

\* The state is of its type, and the committed cache has one row per day and no
\* day missing.
THEOREM CacheSeamless == Spec => []CacheIsSeamless
<1>1. Init => TypeInv /\ StoresInv /\ CacheInv
  BY TypeInit, StoresInit, CacheInit
<1>2. TypeInv /\ StoresInv /\ CacheInv /\ [Next]_vars => (TypeInv /\ StoresInv /\ CacheInv)'
  BY TypeInductive, StoresInductive, CacheInductive
<1>3. TypeInv /\ CacheInv => CacheIsSeamless
  <2> SUFFICES ASSUME TypeInv, CacheInv, NEW e \in Entities
               PROVE  LET days == CachedDays(warehouse, e) IN
                      /\ days # {} => days = Min(days) .. Max(days)
                      /\ Cardinality(RowsOf(warehouse, e)) = Cardinality(days)
    BY DEF CacheIsSeamless, TypeInv
  <2> DEFINE days == CachedDays(warehouse, e)
  <2>1. days \subseteq Days /\ Days \subseteq Int /\ Days = 0 .. LastDay
    BY CachedAreDays, RangeTyped DEF TypeInv, TypeOK
  <2>2. Seamless(warehouse.rows, range.from)  BY DEF CacheInv
  <2>3. ASSUME days # {} PROVE days = Min(days) .. Max(days)
    <3>1. Min(days) \in days /\ Max(days) \in days
          /\ \A x \in days : Min(days) <= x /\ x <= Max(days)
      BY <2>1, <2>3, FirstDayOf, LastDayOf
    <3>2. PICK r, s \in warehouse.rows : /\ r.entity = e /\ r.day = Min(days)
                                         /\ s.entity = e /\ s.day = Max(days)
      BY <3>1 DEF CachedDays, RowsOf
    <3> DEFINE low == Min(days)
               high == Max(days)
    <3>4. low \in 0 .. LastDay /\ high \in 0 .. LastDay /\ r.day = low /\ s.day = high
          /\ days \subseteq 0 .. LastDay /\ \A x \in days : low <= x /\ x <= high
      BY <2>1, <3>1, <3>2
    <3> HIDE DEF days, low, high
    <3>3. ASSUME NEW d \in low .. high PROVE d \in days
      <4>1. d \in 0 .. LastDay /\ r.day <= d /\ d <= s.day  BY <3>4, RangeTyped
      <4>2. PICK q \in warehouse.rows : SameTicker(q, r) /\ q.day = d
        BY <2>1, <2>2, <3>2, <4>1 DEF Seamless, Gapless, SameTicker
      <4> QED  BY <3>2, <4>2 DEF days, CachedDays, RowsOf, SameTicker
    <3>5. ASSUME NEW x \in days PROVE x \in low .. high
      <4>1. x \in Int /\ low \in Int /\ high \in Int /\ low <= x /\ x <= high  BY <3>4
      <4> QED  BY <4>1
    <3>6. days = low .. high  BY <3>3, <3>5
    <3> QED  BY <3>6 DEF low, high
  <2>4. Cardinality(RowsOf(warehouse, e)) = Cardinality(days)
    BY <2>2, CountedOnce DEF Seamless
  <2> QED  BY <2>3, <2>4
<1> QED  BY <1>1, <1>2, <1>3, PTL DEF Spec

----------------------------------------------------------------------------
\* The series.  The close published for a day, from the rows of its entity: the
\* newest up to the day but for the days excused.  A day is excused whether or not
\* the provider has a close for it by now, so a late one changes nothing.

Excused(rows, gone, first, e, x, published) ==
  LET days == {r.day : r \in rows} IN
  \/ x \in gone
  \/ \E r \in rows : r.day = x /\ r.kind = "gap"
  \/ days = {} \/ x < Min(days)
  \/ ProviderOf[e] = "currency" /\ x < first
  \/ ProviderOf[e] = "us_stock" /\ published = None

Newest(rows, closes, gone, first, e, d, published) ==
  /\ published # None => published \in closes \cap (d - MaxAge .. d)
  /\ \A x \in Days \cap (d - MaxAge .. d) :
       published = None \/ published < x => Excused(rows, gone, first, e, x, published)

NewestOn(e, d) ==
  Newest(RowsOf(whT, e), market[e], empty[e], range.from, e, d, series[e][d])

\* The entities whose series this run has published.
Earlier == {<<"currency", "us_stock">>, <<"currency", "benchmark">>, <<"us_stock", "benchmark">>}
Done(e) == ok \/ pc = "commit" \/ <<ProviderOf[e], pc>> \in Earlier

\* Every close recorded was one of the provider's.
QuotesExist ==
  \A r \in warehouse.rows \cup whT.rows \cup fetched :
    r.kind = "quote" => r.day \in market[r.entity]

\* An answered entity has, for each day of its window, a row or nothing at all.
Asked ==
  \A e \in Entities : pc = ProviderOf[e] /\ answer[e] = "answered" =>
    \A x \in WindowOf(e) : x \in empty[e] \/ \E r \in fetched : r.entity = e /\ r.day = x

\* The providers answer in turn.
InTurn == \A e \in Entities : <<pc, ProviderOf[e]>> \in Earlier => answer[e] = "open"

SeriesInv ==
  /\ QuotesExist /\ Asked /\ InTurn
  /\ \A e \in Entities : Done(e) => \A d \in Spanned : NewestOn(e, d)

\* After the batch is loaded, every day up to the end of the range is cached, or
\* was asked in vain, or lies before the cache.
LEMMA LoadedCovers ==
  ASSUME TypeInv, CacheInv, SeriesInv, pc \in Providers, NEW e \in Entities,
         pc = ProviderOf[e], answer[e] = "answered",
         NEW x \in Days, x <= range.to
  PROVE  LET days == CachedDays(Loaded, e) IN
         x \in days \/ x \in empty[e] \/ days = {} \/ x < Min(days)
<1> DEFINE days == CachedDays(Loaded, e)
<1>1. Seamless(whT.rows, range.from) /\ Downloads
  BY DEF CacheInv, Providers
<1>2. Loaded.rows = whT.rows \cup fetched /\ Seamless(Loaded.rows, range.from)
  BY <1>1, LoadedSeamless DEF Loaded
<1>3. Loaded \in Warehouse  BY LoadedTyped
<1>4. days \subseteq Days /\ Days \subseteq Int  BY <1>3, CachedAreDays, RangeTyped
<1>5. \A d : d \in days <=> \E r \in whT.rows \cup fetched : r.entity = e /\ r.day = d
  BY <1>2 DEF CachedDays, RowsOf
<1> HIDE DEF days
<1>6. CASE x \in WindowOf(e)
  <2>1. x \in empty[e] \/ \E r \in fetched : r.entity = e /\ r.day = x
    BY <1>6 DEF SeriesInv, Asked
  <2> QED  BY <2>1, <1>5 DEF days
<1>7. CASE x \notin WindowOf(e) /\ CachedDays(whT, e) = {}
  <2>1. WindowOf(e) = range.from - Buffer .. range.to  BY <1>1, <1>7, WindowAhead
  <2>2. x < range.from - Buffer  BY <1>4, <1>7, <2>1, RangeTyped
  <2>3. ASSUME NEW d \in days PROVE x < d
    <3>1. PICK r \in whT.rows \cup fetched : r.entity = e /\ r.day = d  BY <1>5
    <3>2. r \in fetched  BY <3>1, <1>7 DEF CachedDays, RowsOf
    <3>3. d \in WindowOf(e)  BY <3>1, <3>2, <1>1 DEF Downloads
    <3> QED  BY <3>3, <2>1, <2>2, <1>4, RangeTyped
  <2>4. days # {} => Min(days) \in days  BY <1>4, FirstDayOf
  <2> QED  BY <2>3, <2>4 DEF days
<1>8. CASE x \notin WindowOf(e) /\ CachedDays(whT, e) # {}
  <2> DEFINE m == Max(CachedDays(whT, e))
             low == Min(days)
  <2>1. PICK t \in whT.rows : t.entity = e  BY <1>8 DEF CachedDays, RowsOf
  <2>2. m \in CachedDays(whT, e) /\ WindowOf(e) = m + 1 .. range.to
    BY <2>1, <1>1, WindowAhead
  <2>3. PICK s \in whT.rows : s.entity = e /\ s.day = m
    BY <2>2 DEF CachedDays, RowsOf
  <2>4. m \in days  BY <2>3, <1>5
  <2>5. low \in days /\ low <= m  BY <2>4, <1>4, FirstDayOf
  <2>6. PICK r \in whT.rows \cup fetched : r.entity = e /\ r.day = low
    BY <2>5, <1>5
  <2> HIDE DEF m, low
  <2>7. x <= m  BY <2>2, <2>4, <1>4, <1>8, RangeTyped
  <2>8. CASE low <= x
    <3>1. PICK q \in Loaded.rows : SameTicker(q, r) /\ q.day = x
      BY <1>2, <2>3, <2>6, <2>7, <2>8 DEF Seamless, Gapless, SameTicker
    <3> QED  BY <3>1, <2>6, <1>2, <1>5 DEF SameTicker, days
  <2>9. CASE ~ (low <= x)
    <3>1. x < low  BY <2>9, <2>5, <1>4
    <3> QED  BY <3>1 DEF low, days
  <2> QED  BY <2>8, <2>9
<1> QED  BY <1>6, <1>7, <1>8

\* What a batch publishes is the newest.
LEMMA BatchIsNewest ==
  ASSUME TypeInv, CacheInv, SeriesInv, pc \in Providers, NoBadClose(Loaded),
         NEW e \in Batch, answer[e] = "answered",
         NEW held \in Spanned \cup {range.to}, NEW d \in Spanned
  PROVE  Newest(RowsOf(Loaded, e), market[e], empty[e], range.from, e, d,
                Continuous(Loaded, held)[e][d])
<1> DEFINE rows == RowsOf(Loaded, e)
           S == {x \in Quotes(Loaded, e) :
                   x <= d /\ (ProviderOf[e] = "currency" => x >= range.from)}
           seen == Observed(Loaded, e, d)
           published == Continuous(Loaded, held)[e][d]
<1>1. e \in Entities /\ pc = ProviderOf[e]  BY DEF Batch
<1>2. /\ d \in Days /\ d \in Int /\ d <= range.to /\ MaxAge \in Nat /\ Days \subseteq Int
      /\ held \in Days /\ range.from \in Int /\ range.to \in Int /\ None \notin Days
  <2>1. None \notin Int  BY MarketAssumption
  <2>2. d \in range.from .. range.to  BY DEF Spanned
  <2> QED  BY <2>1, <2>2, RangeTyped
<1>3. Loaded \in Warehouse /\ Loaded.rows = whT.rows \cup fetched
  BY LoadedTyped DEF Loaded
<1>4. S \subseteq Days /\ seen = IF S = {} THEN None ELSE Max(S)
  BY <1>3 DEF Quotes, RowsOf, Warehouse, Row, Observed, NewestOf
<1>5. S \subseteq market[e]
  <2>1. \A r \in rows : r.kind = "quote" => r.day \in market[e]
    BY <1>3 DEF RowsOf, SeriesInv, QuotesExist
  <2> QED  BY <2>1 DEF Quotes
<1>6. published = IF d \in Wanted(e, held) /\ Fresh(d, seen) THEN seen ELSE None
  BY <1>1, <1>2 DEF Continuous
<1>7. S # {} => seen \in S /\ seen # None /\ \A x \in S : x <= seen
  BY <1>2, <1>4, LastDayOf
<1>8. \A x \in S : x <= d  OBVIOUS
<1>9. published # None => published \in market[e] \cap (d - MaxAge .. d)
  <2> SUFFICES ASSUME published # None PROVE published \in market[e] \cap (d - MaxAge .. d)
    OBVIOUS
  <2>1. published = seen /\ Fresh(d, seen) /\ S # {}  BY <1>4, <1>6
  <2> HIDE DEF published, seen, S
  <2>2. seen \in S /\ seen <= d /\ d - seen <= MaxAge /\ seen \in Int
    BY <2>1, <1>2, <1>4, <1>7, <1>8 DEF Fresh
  <2> QED  BY <2>1, <2>2, <1>2, <1>5
<1>10. ASSUME NEW x \in Days \cap (d - MaxAge .. d), published = None \/ published < x
       PROVE  Excused(rows, empty[e], range.from, e, x, published)
  <2>1. x \in Days /\ x \in Int /\ d - MaxAge <= x /\ x <= d /\ x <= range.to
    BY <1>2
  <2>2. LET days == CachedDays(Loaded, e) IN
        x \in days \/ x \in empty[e] \/ days = {} \/ x < Min(days)
    BY <1>1, <2>1, LoadedCovers
  <2>3. CachedDays(Loaded, e) = {r.day : r \in rows}  BY DEF CachedDays
  <2>4. CASE x \notin {r.day : r \in rows}
    BY <2>2, <2>3, <2>4 DEF Excused
  <2>5. CASE x \in {r.day : r \in rows}
    <3>1. PICK r \in rows : r.day = x  BY <2>5
    <3>2. r.kind \in {"quote", "gap"}
      <4>1. r.kind \in {"quote", "bad", "gap"}  BY <1>3 DEF RowsOf, Warehouse, Row
      <4>2. r.kind # "bad"  BY DEF NoBadClose
      <4> QED  BY <4>1, <4>2
    <3>3. CASE r.kind = "gap"  BY <3>1, <3>3 DEF Excused
    <3>4. CASE r.kind = "quote" /\ ProviderOf[e] = "currency" /\ ~ (x >= range.from)
      <4>1. x < range.from  BY <3>4, <2>1, <1>2
      <4> QED  BY <4>1, <3>4 DEF Excused
    <3>5. CASE r.kind = "quote" /\ (ProviderOf[e] = "currency" => x >= range.from)
      <4>1. x \in S  BY <3>1, <3>5, <2>1 DEF Quotes
      <4> HIDE DEF S, seen, published
      <4>2. seen \in S /\ seen # None /\ x <= seen /\ seen <= d /\ seen \in Int
        BY <4>1, <1>2, <1>4, <1>7, <1>8
      <4>3. Fresh(d, seen)  BY <4>2, <2>1, <1>2 DEF Fresh
      <4>4. CASE d \in Wanted(e, held)
        <5>1. published = seen  BY <4>3, <4>4, <1>6
        <5>2. FALSE  BY <5>1, <4>2, <2>1, <1>10
        <5> QED  BY <5>2
      <4>5. CASE d \notin Wanted(e, held)
        <5>1. ProviderOf[e] = "us_stock"  BY <4>5 DEF Wanted
        <5>2. published = None  BY <4>5, <1>6
        <5> QED  BY <5>1, <5>2 DEF Excused
      <4> QED  BY <4>4, <4>5
    <3> QED  BY <3>2, <3>3, <3>4, <3>5
  <2> QED  BY <2>4, <2>5
<1> HIDE DEF published, rows
<1>11. Newest(rows, market[e], empty[e], range.from, e, d, published)
  BY <1>9, <1>10 DEF Newest
<1> QED  BY <1>11 DEF published, rows

LEMMA SeriesInit == Init => SeriesInv
<1> SUFFICES ASSUME Init PROVE SeriesInv
  OBVIOUS
<1>1. warehouse.rows = {} /\ whT.rows = {} /\ fetched = {} /\ pc = "idle" /\ ok = FALSE
      /\ answer = [e \in Entities |-> "open"]
  BY DEF Init
<1> QED  BY <1>1 DEF SeriesInv, QuotesExist, Asked, InTurn, Done, Earlier

\* What is published of earlier providers stays, and what is published now is new.
LEMMA SeriesKeptByPublication ==
  ASSUME TypeInv, StoresInv, CacheInv, SeriesInv,
         NEW held \in Spanned \cup {range.to}, Passed(held)
  PROVE  SeriesInv'
<1>1. /\ Ingested /\ NoBadClose(Loaded) /\ <<pc, pc'>> \in Follows
      /\ series' = Continuous(Loaded, held) /\ pc \in Providers /\ pc # "idle"
  BY DEF Passed, Follows, Providers
<1>2. /\ UNCHANGED <<market, range, warehouse, answer, ok, empty>> /\ fetched' = {}
      /\ whT' = Loaded /\ AllEnded /\ Complete
  BY <1>1 DEF Ingested, world, stores
<1>3. whT'.rows = whT.rows \cup fetched  BY <1>2 DEF Loaded
<1>4. QuotesExist'  BY <1>2, <1>3 DEF SeriesInv, QuotesExist
<1>5. answer \in [Entities -> {"open", "answered", "failed"}]
      /\ series \in [Entities -> [Days -> Days \cup {None}]]
  BY DEF TypeInv, TypeOK
<1>6. \A e \in Batch : answer[e] = "answered"
  BY <1>2, <1>5 DEF AllEnded, Complete, Batch
<1>7. Asked' /\ InTurn'
  <2>1. \A e \in Entities : <<pc', ProviderOf[e]>> \in Earlier => <<pc, ProviderOf[e]>> \in Earlier
    BY <1>1 DEF Follows, Earlier
  <2>2. <<pc, pc'>> \in Earlier \/ pc' = "commit"  BY <1>1 DEF Follows, Earlier
  <2>3. \A e \in Entities : pc' = ProviderOf[e] => answer[e] = "open"
    BY <2>2, MarketAssumption DEF SeriesInv, InTurn, Providers
  <2> QED  BY <2>1, <2>3, <1>2 DEF SeriesInv, Asked, InTurn
<1>8. ASSUME NEW e \in Entities, Done(e)', NEW d \in Spanned
      PROVE  NewestOn(e, d)'
  <2>1. CASE e \in Batch
    <3>1. Newest(RowsOf(Loaded, e), market[e], empty[e], range.from, e, d,
                 Continuous(Loaded, held)[e][d])
      BY <1>1, <1>6, <2>1, BatchIsNewest
    <3>2. Newest(RowsOf(whT', e), market'[e], empty'[e], range'.from, e, d, series'[e][d])
      BY <3>1, <1>1, <1>2
    <3> QED  BY <3>2 DEF NewestOn
  <2>2. CASE e \notin Batch
    <3>1. Done(e) /\ ProviderOf[e] # pc
      <4>1. ~ ok /\ ~ ok'  BY <1>1, <1>2 DEF StoresInv
      <4>2. ProviderOf[e] # pc  BY <2>2 DEF Batch
      <4> QED  BY <4>1, <4>2, <1>1, <1>8, MarketAssumption DEF Done, Earlier, Follows, Providers
    <3>2. NewestOn(e, d)  BY <3>1 DEF SeriesInv
    <3>3. RowsOf(whT', e) = RowsOf(whT, e)
      <4>1. \A r \in fetched : r.entity # e  BY <3>1 DEF StoresInv, OwnRows
      <4> QED  BY <4>1, <1>3 DEF RowsOf
    <3>4. series'[e] = series[e]  BY <1>1, <2>2 DEF Continuous
    <3>5. Newest(RowsOf(whT', e), market'[e], empty'[e], range'.from, e, d, series'[e][d])
      BY <3>2, <3>3, <3>4, <1>2 DEF NewestOn
    <3> QED  BY <3>5 DEF NewestOn
  <2> QED  BY <2>1, <2>2
<1>9. Spanned' = Spanned  BY <1>2 DEF Spanned
<1> QED  BY <1>4, <1>7, <1>8, <1>9 DEF SeriesInv

\* Every step keeps what is published the newest.
LEMMA SeriesInductive ==
  TypeInv /\ StoresInv /\ CacheInv /\ SeriesInv /\ [Next]_vars => SeriesInv'
<1> SUFFICES ASSUME TypeInv, StoresInv, CacheInv, SeriesInv, [Next]_vars PROVE SeriesInv'
  OBVIOUS
<1>a. Steps \/ UNCHANGED vars  BY StepsOfNext
<1>t. answer \in [Entities -> {"open", "answered", "failed"}] /\ market \in [Entities -> SUBSET Days]
      /\ empty \in [Entities -> SUBSET Days] /\ fetched \subseteq Row /\ whT.rows \subseteq Row
      /\ warehouse.rows \subseteq Row
  BY DEF TypeInv, TypeOK, Warehouse
<1>b. ASSUME UNCHANGED <<market, range, warehouse, whT, fetched, answer, empty, series, ok, pc>>
      PROVE  SeriesInv'
  BY <1>b DEF SeriesInv, QuotesExist, Asked, InTurn, Done, Spanned, NewestOn, WindowOf, Window
<1>n. ASSUME NEW e \in Entities, NEW d \in Spanned,
             RowsOf(whT', e) = RowsOf(whT, e), range' = range, series'[e] = series[e],
             market[e] \subseteq market'[e], empty'[e] = empty[e], NewestOn(e, d)
      PROVE  NewestOn(e, d)'
  <2>1. Newest(RowsOf(whT', e), market'[e], empty'[e], range'.from, e, d, series'[e][d])
    BY <1>n DEF NewestOn, Newest
  <2> QED  BY <2>1 DEF NewestOn
<1>q. ASSUME ok' = FALSE, pc' \in {"idle", "refused", "currency"}
      PROVE  \A e \in Entities : ~ Done(e)'
  BY <1>q DEF Done, Earlier
<1>u. CASE UNCHANGED vars  BY <1>u, <1>b DEF vars, world, stores
<1>1. CASE Begin
  <2>1. /\ UNCHANGED market /\ pc' = "currency" /\ ok' = FALSE /\ fetched' = {}
        /\ warehouse' = Pruned(warehouse, control) /\ whT' = warehouse'
        /\ answer' = [e \in Entities |-> "open"]
    BY <1>1 DEF Begin, world
  <2>2. warehouse'.rows \subseteq warehouse.rows  BY <2>1 DEF Pruned
  <2>3. QuotesExist' /\ Asked' /\ InTurn'
    BY <2>1, <2>2 DEF SeriesInv, QuotesExist, Asked, InTurn
  <2> QED  BY <2>1, <2>3, <1>q DEF SeriesInv
<1>2. CASE Refused
  <2>1. /\ UNCHANGED <<market, warehouse>> /\ fetched' = {} /\ pc' = "refused"
        /\ whT'.rows = whT.rows \cup fetched /\ ok' = FALSE
    BY <1>2 DEF Refused, Ingested, Loaded, world, stores, StoresInv, Providers
  <2>2. QuotesExist' /\ Asked' /\ InTurn'
    BY <2>1, MarketAssumption DEF SeriesInv, QuotesExist, Asked, InTurn, Earlier, Providers
  <2> QED  BY <2>1, <2>2, <1>q DEF SeriesInv
<1>3. CASE \E held \in Spanned \cup {range.to} : Passed(held)
  BY <1>3, SeriesKeptByPublication
<1>4. ASSUME NEW e \in Entities, Answered(e) PROVE SeriesInv'
  <2> DEFINE new == Downloaded(e, WindowOf(e))
  <2>1. /\ UNCHANGED <<market, range, warehouse, whT, series, ok, pc>>
        /\ pc = ProviderOf[e] /\ answer[e] = "open"
        /\ answer' = [answer EXCEPT ![e] = "answered"]
        /\ fetched' = fetched \cup new
        /\ empty' = IF new = {} THEN [empty EXCEPT ![e] = WindowOf(e)] ELSE empty
    BY <1>4 DEF Answered, Recorded, WindowOf, world, stores
  <2>2. WindowOf(e) \in SUBSET Days
    <3>1. CachedDays(whT, e) \subseteq Days  BY CachedAreDays DEF TypeInv, TypeOK
    <3> QED  BY <3>1, WindowOfDays DEF WindowOf
  <2>3. /\ \A r \in new : r.entity = e /\ (r.kind = "quote" => r.day \in market[e])
        /\ new # {} => \A d \in WindowOf(e) : \E r \in new : r.entity = e /\ r.day = d
    BY <2>1, <2>2, DownloadedRows
  <2>4. \A x : WindowOf(x)' = WindowOf(x)
    BY <2>1 DEF WindowOf, Window
  <2> HIDE DEF new
  <2>5. \A f \in Entities : f # e => empty'[f] = empty[f] /\ answer'[f] = answer[f]
    BY <2>1, <1>t
  <2>6. new = {} => empty'[e] = WindowOf(e)  BY <2>1, <1>t
  <2>7. QuotesExist'  BY <2>1, <2>3 DEF SeriesInv, QuotesExist
  <2>8. Asked'
    <3> SUFFICES ASSUME NEW f \in Entities, pc = ProviderOf[f], answer'[f] = "answered",
                        NEW x \in WindowOf(f)
                 PROVE  x \in empty'[f] \/ \E r \in fetched' : r.entity = f /\ r.day = x
      BY <2>1, <2>4 DEF Asked
    <3>1. CASE f = e  BY <3>1, <2>1, <2>3, <2>6
    <3>2. CASE f # e
      <4>1. x \in empty[f] \/ \E r \in fetched : r.entity = f /\ r.day = x
        BY <3>2, <2>5 DEF SeriesInv, Asked
      <4> QED  BY <4>1, <3>2, <2>1, <2>5
    <3> QED  BY <3>1, <3>2
  <2>9. InTurn'
    <3>1. <<pc, ProviderOf[e]>> \notin Earlier  BY <2>1, MarketAssumption DEF Earlier, Providers
    <3> QED  BY <3>1, <2>1, <2>5 DEF SeriesInv, InTurn
  <2>10. ASSUME NEW f \in Entities, Done(f)', NEW d \in Spanned PROVE NewestOn(f, d)'
    <3>1. Done(f)  BY <2>1, <2>10 DEF Done
    <3>2. f # e
      <4>1. pc # "idle" /\ pc \in Providers  BY <2>1, MarketAssumption DEF Providers
      <4>2. ~ ok  BY <4>1 DEF StoresInv
      <4> QED  BY <2>1, <3>1, <4>1, <4>2 DEF Done, Earlier, Providers
    <3>3. NewestOn(f, d)  BY <3>1 DEF SeriesInv
    <3> QED  BY <3>2, <3>3, <2>1, <2>5, <1>n
  <2>11. Spanned' = Spanned  BY <2>1 DEF Spanned
  <2> QED  BY <2>7, <2>8, <2>9, <2>10, <2>11 DEF SeriesInv
<1>5. ASSUME NEW e \in Entities, Failed(e) PROVE SeriesInv'
  <2>1. /\ UNCHANGED <<market, range, warehouse, whT, fetched, empty, series, ok, pc>>
        /\ pc = ProviderOf[e] /\ answer' = [answer EXCEPT ![e] = "failed"]
    BY <1>5 DEF Failed, Recorded, world, stores
  <2>2. \A f \in Entities : answer'[f] = IF f = e THEN "failed" ELSE answer[f]
    BY <2>1, <1>t
  <2>3. InTurn'
    <3>1. <<pc, ProviderOf[e]>> \notin Earlier  BY <2>1, MarketAssumption DEF Earlier, Providers
    <3> QED  BY <3>1, <2>1, <2>2 DEF SeriesInv, InTurn
  <2>4. Asked' /\ QuotesExist'
    BY <2>1, <2>2 DEF SeriesInv, Asked, QuotesExist, WindowOf, Window
  <2>5. (\A f \in Entities : Done(f) => \A d \in Spanned : NewestOn(f, d))'
    BY <2>1 DEF SeriesInv, Done, Spanned, NewestOn
  <2> QED  BY <2>3, <2>4, <2>5 DEF SeriesInv
<1>6. ASSUME NEW e \in Entities, NEW d \in Days, PublishLate(e, d) PROVE SeriesInv'
  <2>1. /\ UNCHANGED <<range, warehouse, whT, fetched, answer, empty, series, ok, pc>>
        /\ \A f \in Entities : market[f] \subseteq market'[f]
    BY <1>6, <1>t DEF PublishLate, stores
  <2>2. QuotesExist'
    <3>1. \A r \in warehouse.rows \cup whT.rows \cup fetched : r.entity \in Entities
      BY <1>t DEF Row
    <3> QED  BY <2>1, <3>1 DEF SeriesInv, QuotesExist
  <2>3. Asked' /\ InTurn'  BY <2>1 DEF SeriesInv, Asked, InTurn, WindowOf, Window
  <2>4. ASSUME NEW f \in Entities, Done(f)', NEW c \in Spanned PROVE NewestOn(f, c)'
    <3>1. NewestOn(f, c)  BY <2>1, <2>4 DEF SeriesInv, Done
    <3> QED  BY <2>1, <3>1, <1>n
  <2>5. Spanned' = Spanned  BY <2>1 DEF Spanned
  <2> QED  BY <2>2, <2>3, <2>4, <2>5 DEF SeriesInv
<1>7. CASE Incomplete
  <2>1. /\ UNCHANGED <<market, warehouse, whT, answer, ok>> /\ pc' = "refused" /\ fetched' = {}
        /\ pc # "idle"
    BY <1>7 DEF Incomplete, world, stores, Providers
  <2>2. ok' = FALSE  BY <2>1 DEF StoresInv, TypeInv, TypeOK
  <2>3. QuotesExist' /\ Asked' /\ InTurn'
    BY <2>1, MarketAssumption DEF SeriesInv, QuotesExist, Asked, InTurn, Earlier, Providers
  <2> QED  BY <2>1, <2>2, <2>3, <1>q DEF SeriesInv
<1>8. CASE Commit \/ CommitSplit \/ Rollback \/ LoseWarehouse
  <2>1. /\ UNCHANGED <<market, range>> /\ pc' = "idle" /\ fetched' = {} /\ whT' = warehouse'
    BY <1>8 DEF Commit, CommitSplit, Rollback, LoseWarehouse, Reset, world
  <2>2. warehouse'.rows \subseteq warehouse.rows \cup whT.rows
    BY <1>8 DEF Commit, CommitSplit, Rollback, LoseWarehouse, stores
  <2>3. QuotesExist' /\ Asked' /\ InTurn'
    <3>1. \A e \in Entities : ProviderOf[e] \in Providers  BY MarketAssumption
    <3> QED  BY <2>1, <2>2, <3>1 DEF SeriesInv, QuotesExist, Asked, InTurn, Earlier, Providers
  <2>4. CASE Commit
    <3>1. pc = "commit" /\ whT' = whT /\ UNCHANGED <<series, empty>>
      BY <2>1, <2>4 DEF Commit
    <3>2. \A e \in Entities : Done(e)  BY <3>1 DEF Done
    <3>3. (\A e \in Entities : \A d \in Spanned : NewestOn(e, d))'
      BY <2>1, <3>1, <3>2 DEF SeriesInv, NewestOn, Spanned
    <3> QED  BY <2>3, <3>3 DEF SeriesInv
  <2>5. CASE ~ Commit
    <3>1. ok' = FALSE  BY <1>8, <2>5 DEF CommitSplit, Rollback, LoseWarehouse, Abandon
    <3> QED  BY <2>1, <2>3, <3>1, <1>q DEF SeriesInv
  <2> QED  BY <2>4, <2>5
<1> QED  BY <1>a, <1>u, <1>1, <1>2, <1>3, <1>4, <1>5, <1>6, <1>7, <1>8, Zenon DEF Steps

\* After a successful run each day shows the newest close that was to be had.
THEOREM SeriesNewest == Spec => []PublishedIsNewest
<1>1. Init => TypeInv /\ StoresInv /\ CacheInv /\ SeriesInv
  BY TypeInit, StoresInit, CacheInit, SeriesInit
<1>2. TypeInv /\ StoresInv /\ CacheInv /\ SeriesInv /\ [Next]_vars
        => (TypeInv /\ StoresInv /\ CacheInv /\ SeriesInv)'
  BY TypeInductive, StoresInductive, CacheInductive, SeriesInductive
<1>3. TypeInv /\ StoresInv /\ SeriesInv => PublishedIsNewest
  <2> SUFFICES ASSUME TypeInv, StoresInv, SeriesInv, ok,
                      NEW e \in Entities, NEW d \in Spanned
               PROVE  LET published == series[e][d] IN
    /\ published # None => published \in market[e] \cap (d - MaxAge .. d)
    /\ \A x \in market[e] \cap (d - MaxAge .. d) :
         published = None \/ published < x =>
           \/ x \in empty[e]
           \/ \E r \in RowsOf(warehouse, e) : r.day = x /\ r.kind = "gap"
           \/ CachedDays(warehouse, e) = {} \/ x < Min(CachedDays(warehouse, e))
           \/ ProviderOf[e] = "currency" /\ x < range.from
           \/ ProviderOf[e] = "us_stock" /\ published = None
    BY DEF PublishedIsNewest
  <2>1. NewestOn(e, d)  BY DEF SeriesInv, Done
  <2>2. whT = warehouse  BY DEF StoresInv
  <2>3. market[e] \subseteq Days  BY DEF TypeInv, TypeOK
  <2> QED  BY <2>1, <2>2, <2>3 DEF NewestOn, Newest, Excused, CachedDays
<1> QED  BY <1>1, <1>2, <1>3, PTL DEF Spec

=============================================================================
