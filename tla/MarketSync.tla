----------------------------- MODULE MarketSync -----------------------------
(***************************************************************************)
(* The market histories of a run: per provider a batch of downloads, each   *)
(* of the days its cache in Bronze does not hold, the chunk of new rows     *)
(* vaulted in the control plane, loaded into Bronze and registered, and the *)
(* continuous series published from the whole cache.  The two databases     *)
(* commit one after the other, or not; the next run heals what differs.     *)
(*                                                                         *)
(* A chunk is what one run fetches from one provider (the code cuts it by   *)
(* year).  All providers are asked for one range of days here; in the code  *)
(* each has a range of its own.                                             *)
(***************************************************************************)
EXTENDS Integers, FiniteSets, FiniteSetsExt

CONSTANTS Entities,    \* tickers
          ProviderOf,  \* the pipeline of each
          None,        \* no observation
          LastDay,     \* the days are 0 .. LastDay
          Calendars,   \* the sets of days on which a provider may have a close
          Buffer,      \* buffer_days
          MaxAge,      \* days an observation may be carried forward
          MaxRuns, MaxLate   \* bounds: runs, quotes that appear late

Providers == {"currency", "us_stock", "benchmark"}
Days == 0 .. LastDay

ASSUME MarketAssumption ==
  /\ ProviderOf \in [Entities -> Providers]
  /\ Calendars \subseteq SUBSET Days
  /\ LastDay \in Nat /\ Buffer \in 0 .. LastDay /\ MaxAge \in Nat
  /\ MaxRuns \in Nat /\ MaxLate \in Nat
  /\ None \notin Int

Chunk == [provider : Providers, run : 1 .. MaxRuns]
Row == [entity : Entities, day : Days, kind : {"quote", "bad", "gap"}, chunk : Chunk]

VARIABLES
  market,     \* per entity, the days the provider has a close for
  bad,        \* the closes among them that are not positive numbers
  late,       \* how many closes appeared late
  run,        \* the run at work, or the last one
  pc,         \* idle, a provider's fetch, refused, commit
  range,      \* [from, to] of this run
  answer,     \* per entity: open, answered, failed
  fetched,    \* the rows downloaded by the provider at work
  warehouse,  \* committed: [rows, files], Bronze and the registry in DuckDB
  control,    \* committed: [vault, synced], payloads and SYNCED chunks in SQLite
  whT, cpT,   \* the same inside the open transactions
  series,     \* per entity and day of the range, the day whose close is published
  ok,         \* the last run succeeded
  empty,      \* observation only: days asked in this run of which there was nothing
  broken      \* observation only: runs in which a request or a validation failed

world == <<market, bad, late>>
stores == <<warehouse, control>>
vars == <<world, run, pc, range, answer, fetched, stores, whT, cpT, series, ok,
          empty, broken>>

Warehouse == [rows : SUBSET Row, files : SUBSET Chunk]
Control == [vault : SUBSET Row, synced : SUBSET Chunk]

TypeOK ==
  /\ market \in [Entities -> SUBSET Days] /\ bad \subseteq Entities \X Days
  /\ late \in 0 .. MaxLate /\ run \in 0 .. MaxRuns
  /\ pc \in {"idle", "refused", "commit"} \cup Providers
  /\ range \in [from : Days, to : Days] /\ range.from <= range.to
  /\ answer \in [Entities -> {"open", "answered", "failed"}]
  /\ fetched \subseteq Row
  /\ warehouse \in Warehouse /\ whT \in Warehouse
  /\ control \in Control /\ cpT \in Control
  /\ series \in [Entities -> [Days -> Days \cup {None}]]
  /\ ok \in BOOLEAN /\ empty \in [Entities -> SUBSET Days]
  /\ broken \subseteq 1 .. MaxRuns

NoSeries == [e \in Entities |-> [d \in Days |-> None]]

Init ==
  /\ market \in [Entities -> Calendars]
  /\ bad = {} /\ late = 0 /\ run = 0 /\ pc = "idle"
  /\ range = [from |-> LastDay, to |-> LastDay]
  /\ answer = [e \in Entities |-> "open"] /\ fetched = {}
  /\ warehouse = [rows |-> {}, files |-> {}] /\ control = [vault |-> {}, synced |-> {}]
  /\ whT = warehouse /\ cpT = control
  /\ series = NoSeries /\ ok = FALSE
  /\ empty = [e \in Entities |-> {}] /\ broken = {}

----------------------------------------------------------------------------
\* Healing, before the transactions of a run begin.

Registered(cp) == {r.chunk : r \in cp.vault}

\* A file the control plane does not know leaves the registry and Bronze.
Pruned(wh, cp) ==
  LET dangling == wh.files \ Registered(cp) IN
  [rows |-> {r \in wh.rows : r.chunk \notin dangling}, files |-> wh.files \ dangling]

PrunedInName(wh, cp) == [wh EXCEPT !.files = @ \cap Registered(cp)]

\* A chunk marked SYNCED that the warehouse lost goes back to PENDING_BRONZE.
Requeued(wh, cp) ==
  [cp EXCEPT !.synced = {c \in @ : c \in wh.files /\ \E r \in wh.rows : r.chunk = c}]

----------------------------------------------------------------------------
\* A run.

\* Evidence is only added: the first day moves back.  The last one is today until
\* there are holdings, then the day of the last statement.
Ranges ==
  {r \in [from : Buffer .. range.from, to : Days] : r.from <= r.to}

Begin ==
  /\ pc = "idle" /\ run < MaxRuns
  /\ run' = run + 1
  /\ range' \in Ranges
  /\ warehouse' = Pruned(warehouse, control) /\ control' = Requeued(warehouse, control)
  /\ whT' = warehouse' /\ cpT' = control'
  /\ pc' = "currency" /\ ok' = FALSE
  /\ answer' = [e \in Entities |-> "open"] /\ fetched' = {}
  /\ series' = NoSeries /\ empty' = [e \in Entities |-> {}]
  /\ UNCHANGED <<world, broken>>

RowsOf(wh, e) == {r \in wh.rows : r.entity = e}
CachedDays(wh, e) == {r.day : r \in RowsOf(wh, e)}

WindowBehind(cached) ==
  IF cached # {} /\ Max(cached) >= range.from - Buffer
    THEN Max(cached) + 2 .. range.to
    ELSE range.from - Buffer .. range.to
\* From the day after the newest cached one, or Buffer days ahead of the range;
\* nothing when that is past its end.
Window(cached) ==
  IF cached # {} /\ Max(cached) >= range.from - Buffer
    THEN Max(cached) + 1 .. range.to
    ELSE range.from - Buffer .. range.to

\* One row per day of the window, those without a close marked as closure gaps.
Spine(e, window, chunk) ==
  {[entity |-> e, day |-> d, chunk |-> chunk,
    kind |-> IF d \notin market[e] THEN "gap" ELSE IF <<e, d>> \in bad THEN "bad" ELSE "quote"]
     : d \in window}

Recorded(e, outcome) == answer' = [answer EXCEPT ![e] = outcome]

\* An answer without a single close leaves no row.
Downloaded(e, window) ==
  IF window \cap market[e] = {} THEN {}
  ELSE Spine(e, window, [provider |-> pc, run |-> run])

\* A download thread: the cache suffices, or one of its attempts is answered; an
\* empty answer counts.
Answered(e) ==
  LET window == Window(CachedDays(whT, e))
      rows == Downloaded(e, window) IN
  /\ pc = ProviderOf[e] /\ answer[e] = "open"
  /\ Recorded(e, "answered")
  /\ fetched' = fetched \cup rows
  /\ empty' = IF rows = {} THEN [empty EXCEPT ![e] = window] ELSE empty
  /\ UNCHANGED <<world, run, pc, range, stores, whT, cpT, series, ok, broken>>

\* All attempts fail, the ticker is blank, or the thread raises.
Failed(e) ==
  /\ pc = ProviderOf[e] /\ answer[e] = "open"
  /\ Recorded(e, "failed")
  /\ broken' = broken \cup {run}
  /\ UNCHANGED <<world, run, pc, range, fetched, stores, whT, cpT, series, ok, empty>>

----------------------------------------------------------------------------
\* The end of a batch.

Batch == {e \in Entities : ProviderOf[e] = pc}
AllEnded == \A e \in Batch : answer[e] # "open"

\* assert_complete(): no entity failed.
Complete == \A e \in Batch : answer[e] # "failed"

\* The chunk is loaded into Bronze and registered in DuckDB.
Loaded ==
  [rows |-> whT.rows \cup fetched, files |-> whT.files \cup {r.chunk : r \in fetched}]

VaultedOnly == [cpT EXCEPT !.vault = @ \cup fetched]

\* It is vaulted in the control plane and marked as synced.
Vaulted ==
  [vault |-> cpT.vault \cup fetched, synced |-> cpT.synced \cup {r.chunk : r \in fetched}]

Quotes(wh, e) == {r.day : r \in {x \in RowsOf(wh, e) : x.kind = "quote"}}

NewestOf(days) == IF days = {} THEN None ELSE Max(days)

Spanned == range.from .. range.to

ObservedAhead(wh, e, d) == NewestOf({x \in Quotes(wh, e) : x <= d + 1})

\* The close carried to day d: for a currency only within the range, because the
\* rows are joined to its days before they are filled.
Observed(wh, e, d) ==
  NewestOf({x \in Quotes(wh, e) : x <= d /\ (ProviderOf[e] = "currency" => x >= range.from)})

Fresh(d, x) == x # None /\ d - x <= MaxAge

\* The days a series is wanted for: prices of a stock only while lots are open.
Wanted(e, held) == IF ProviderOf[e] = "us_stock" THEN range.from .. held ELSE Spanned

\* A close that is not a positive number refuses the batch.
NoBadClose(wh) == \A e \in Batch : \A r \in RowsOf(wh, e) : r.kind # "bad"

\* Rates and prices without a fresh close are refused on any day they are wanted.
NoneMissing(wh, held) ==
  \A e \in Batch : \A d \in Wanted(e, held) : Fresh(d, Observed(wh, e, d))

RatesValid(wh) == NoBadClose(wh) /\ NoneMissing(wh, range.to)
PricesValid(wh, held) == NoBadClose(wh) /\ NoneMissing(wh, held)

\* A benchmark is blank where it has no fresh close; but if there are rows, one of
\* them must be a close.
BenchmarksValid(wh) ==
  /\ NoBadClose(wh)
  /\ \A e \in Batch : RowsOf(wh, e) # {} => \E b \in Batch : Quotes(wh, b) # {}

Continuous(wh, held) ==
  [e \in Entities |->
     IF e \notin Batch THEN series[e]
     ELSE [d \in Days |-> IF d \in Wanted(e, held) /\ Fresh(d, Observed(wh, e, d))
                            THEN Observed(wh, e, d) ELSE None]]

\* The series are published and the next provider follows, or the run is refused.
Published(valid, held, next) ==
  IF valid
    THEN /\ pc' = next /\ series' = Continuous(Loaded, held)
         /\ UNCHANGED broken
    ELSE pc' = "refused" /\ broken' = broken \cup {run} /\ UNCHANGED series

\* What the three pipelines have in common: check, vault, load.
Ingested ==
  /\ AllEnded /\ Complete
  /\ whT' = Loaded /\ cpT' = Vaulted
  /\ fetched' = {}
  /\ UNCHANGED <<world, run, range, answer, stores, ok, empty>>

PublishRates ==
  /\ pc = "currency" /\ Ingested
  /\ Published(RatesValid(Loaded), range.to, "us_stock")

\* held is the last day on which lots are open.
PublishPrices ==
  /\ pc = "us_stock" /\ Ingested
  /\ \E held \in Spanned : Published(PricesValid(Loaded, held), held, "benchmark")

PublishBenchmarks ==
  /\ pc = "benchmark" /\ Ingested
  /\ Published(BenchmarksValid(Loaded), range.to, "commit")

Incomplete ==
  /\ pc \in Providers /\ AllEnded /\ ~Complete
  /\ pc' = "refused" /\ fetched' = {}
  /\ UNCHANGED <<world, run, range, answer, stores, whT, cpT, series, ok, empty, broken>>

----------------------------------------------------------------------------
\* The end of a run.

Reset ==
  /\ pc' = "idle" /\ answer' = [e \in Entities |-> "open"] /\ fetched' = {}
  /\ whT' = warehouse' /\ cpT' = control'
  /\ UNCHANGED <<world, run, range, broken>>

\* A run that did not succeed publishes nothing.
Abandon ==
  ok' = FALSE /\ series' = NoSeries /\ empty' = [e \in Entities |-> {}]

Commit ==
  /\ pc = "commit"
  /\ warehouse' = whT /\ control' = cpT
  /\ ok' = TRUE /\ UNCHANGED <<series, empty>>
  /\ Reset

\* DuckDB commits first; SQLite fails, or the process dies in between.
CommitSplit ==
  /\ pc = "commit"
  /\ warehouse' = whT /\ UNCHANGED control
  /\ Abandon /\ Reset

\* An exception rolls both transactions back; the death of the process too.
Rollback ==
  /\ pc # "idle"
  /\ UNCHANGED stores
  /\ Abandon /\ Reset

\* The warehouse file is lost or deleted.
LoseWarehouse ==
  /\ pc = "idle" /\ ok
  /\ warehouse' = [rows |-> {}, files |-> {}] /\ UNCHANGED control
  /\ Abandon /\ Reset

\* Between two runs the provider publishes a close it did not have before.
PublishLate(e, d) ==
  /\ pc = "idle" /\ late < MaxLate /\ d \notin market[e]
  /\ market' = [market EXCEPT ![e] = @ \cup {d}] /\ late' = late + 1
  /\ bad' \in {bad, bad \cup {<<e, d>>}}
  /\ UNCHANGED <<run, pc, range, answer, fetched, stores, whT, cpT, series, ok,
                 empty, broken>>

Next ==
  \/ Begin \/ PublishRates \/ PublishPrices \/ PublishBenchmarks \/ Incomplete
  \/ Commit \/ CommitSplit \/ Rollback \/ LoseWarehouse
  \/ \E e \in Entities : Answered(e) \/ Failed(e) \/ \E d \in Days : PublishLate(e, d)

Spec == Init /\ [][Next]_vars

----------------------------------------------------------------------------
\* The state is of its type, and the cache of an entity has one row per day and no
\* day missing between its first and its last, although each run looks at its
\* newest day only.
CacheIsSeamless ==
  /\ TypeOK
  /\ \A e \in Entities :
       LET days == CachedDays(warehouse, e) IN
       /\ days # {} => days = Min(days) .. Max(days)
       /\ Cardinality(RowsOf(warehouse, e)) = Cardinality(days)

\* The two stores hold the same evidence, and no part of a broken batch: a run in
\* which one request or one series failed leaves nothing behind, of any provider,
\* in either store, and after a successful run Bronze holds the payloads of the
\* synced chunks, all of them and nothing else, whatever was split before.
VaultMatchesCache ==
  /\ \A r \in warehouse.rows \cup control.vault : r.chunk.run \notin broken
  /\ ok => /\ warehouse.rows = {r \in control.vault : r.chunk \in control.synced}
           /\ warehouse.files = control.synced

\* A successful run publishes, for each day, the newest close up to that day that
\* the provider had when the day was asked for.  Three kinds of newer closes are
\* passed over: those of days recorded as gaps, those before the cached history,
\* and, for a currency, those before the range.
PublishedIsNewest ==
  ok => \A e \in Entities : \A d \in Spanned :
    LET published == series[e][d] IN
    /\ published # None => published \in market[e] \cap (d - MaxAge .. d)
    /\ \A x \in market[e] \cap (d - MaxAge .. d) :
         published = None \/ published < x =>
           \/ x \in empty[e]
           \/ \E r \in RowsOf(warehouse, e) : r.day = x /\ r.kind = "gap"
           \/ CachedDays(warehouse, e) = {} \/ x < Min(CachedDays(warehouse, e))
           \/ ProviderOf[e] = "currency" /\ x < range.from
           \/ ProviderOf[e] = "us_stock" /\ published = None

=============================================================================
