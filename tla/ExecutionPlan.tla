---------------------------- MODULE ExecutionPlan ----------------------------
(***************************************************************************)
(* From the capabilities a configuration requests to the tables a run      *)
(* publishes.  CapabilityGraph.resolve closes and orders the request,      *)
(* CapabilityPlanner turns it into an execution plan, SourcePlanner checks *)
(* the configured sources against the plan, and PipelineExecutor then      *)
(* builds its frames stage by stage, compares them with the plan and       *)
(* replaces Silver, Gold and the metadata inside the run's transaction.    *)
(*                                                                         *)
(* Discovery and Bronze are EvidenceSync's, the providers MarketSync's and *)
(* the two commits RunCommit's: here a commit either happens or does not.  *)
(* A frame is its key in PipelineExecutor.dfs; of its rows only whether    *)
(* there are any.  `store` is the committed warehouse and `work` the       *)
(* warehouse as the run's open transaction sees it: a table holds the      *)
(* number of the run that filled it, 0 when it is empty.                   *)
(***************************************************************************)
EXTENDS DatasetCatalog, Naturals, Sequences, SequencesExt

CONSTANTS
    Requests,   \* the sets of capabilities a configuration may enable
    Configs,    \* source configurations: [bound, enabled] sets of Bronze datasets
    Rowless,    \* sets of frames that may come out without rows
    OtherTables,  \* tables found beside those the DDL creates: Bronze, or left
                  \* by an earlier release; each is <<schema, table>>
    MaxRuns     \* bound: pipeline runs

ASSUME RequestsAssumption == Requests \subseteq SUBSET Capabilities
ASSUME BoundAssumption == MaxRuns \in Nat
ASSUME ConfigsAssumption ==
  \A c \in Configs : c.enabled \subseteq c.bound /\ c.bound \subseteq BronzeSets

VARIABLES
    at,         \* the stage the run is in
    runNo,      \* number of the current or last run
    job,        \* what it was asked and finds, and its plan
    dfs,        \* PipelineExecutor.dfs: the keys present
    work, store,
    outcome,    \* how the last run ended
    good        \* history: the last run that committed

planVars == <<at, runNo, job, dfs, work, store, outcome, good>>

-----------------------------------------------------------------------------
(* CapabilityGraph and CapabilityPlanner. *)

Requires(set) == UNION {Registry[c].requires : c \in set}

\* collect_deps over the whole request.
Closure(set) ==
  LET grow[n \in 0..Cardinality(Capabilities)] ==
        IF n = 0 THEN set
        ELSE LET found == grow[n - 1] IN found \cup Requires(found)
  IN grow[Cardinality(Capabilities)]

\* Kahn's algorithm: the queue is kept sorted by the capability's name.
ByName == <<"benchmark_enrichment", "fire", "foreign_asset_enrichment",
            "household_core", "investment_accounting", "tax", "wealth">>
FirstByName(set) ==
  ByName[CHOOSE i \in DOMAIN ByName :
           ByName[i] \in set /\ \A j \in 1..(i - 1) : ByName[j] \notin set]

ReadyTooSoon(active, done) == active \ done

Ready(active, done) ==
  {c \in active \ done : Registry[c].requires \cap active \subseteq done}

Order(active) ==
  LET sorted[n \in 0..Cardinality(active)] ==
        IF n = 0 THEN <<>>
        ELSE LET order == sorted[n - 1]
                 ready == Ready(active, ToSet(order))
             IN IF ready = {} THEN order ELSE Append(order, FirstByName(ready))
  IN sorted[Cardinality(active)]

\* CapabilityGraph.validate, on construction: known prerequisites, no cycle,
\* known datasets, no common dataset claimed, one owner per dataset.
ValidGraph ==
  /\ \A c \in Capabilities :
        /\ Registry[c].requires \subseteq Capabilities
        /\ c \notin Closure(Registry[c].requires)
        /\ Registry[c].needs \cup Registry[c].may \subseteq BronzeSets
        /\ Registry[c].silver \subseteq SilverSets \ CommonSilver
        /\ Registry[c].gold \subseteq GoldSets
  /\ \A c, d \in Capabilities : c # d =>
        Registry[c].silver \cap Registry[d].silver = {}
        /\ Registry[c].gold \cap Registry[d].gold = {}

Gather(active, part(_)) == UNION {part(Registry[c]) : c \in active}

\* resolve and create_plan; the fingerprint is the plan itself.
Plan(request) ==
  LET active == Closure(request)
  IN [ capabilities |-> Order(active),
       required |-> Gather(active, LAMBDA d : d.needs),
       optional |-> Gather(active, LAMBDA d : d.may),
       silver |-> CommonSilver \cup Gather(active, LAMBDA d : d.silver),
       gold |-> Gather(active, LAMBDA d : d.gold),
       enrichments |-> Gather(active, LAMBDA d : d.fetches),
       contributions |->
         {pair \in active \X active : pair[2] \in Registry[pair[1]].contributes} ]

\* A job of the pipeline: the statements hold no funds, funds but no
\* instruments, or a book; `rowless` frames come out empty; `badMaster` is an
\* instrument of the tracker without its ISIN or TAX_TYPE.
Books == {"no_funds", "no_instruments", "book"}
Job(request, book, rowless, badMaster) ==
  [ requested |-> request, plan |-> Plan(request),
    book |-> book, rowless |-> rowless, badMaster |-> badMaster ]
NoJob == Job({}, "book", {}, FALSE)

plan == job.plan
IsActive(c) == c \in ToSet(plan.capabilities)
Expected(p) == p.silver \cup p.gold

-----------------------------------------------------------------------------
(* SourcePlanner.compile_plan. *)

IsEnabled(config, p, d) ==
  d \in config.enabled /\ d \in p.required \cup p.optional

Compiles(config, p) == p.required \cap External \subseteq config.bound

-----------------------------------------------------------------------------
(* What each stage reads from the frames by key, and what it adds.  *)

DimensionFrames ==
  {"df_d_income_category", "df_d_income_subcategory", "df_d_expense_category",
   "df_d_expense_subcategory", "df_d_asset_category", "df_d_asset_subcategory",
   "df_d_currency", "df_d_macro_parameters"}
LedgerFrames ==
  {"df_f_opening_balances", "df_f_income_transactions",
   "df_f_expense_transactions", "df_f_transfer_transactions"}
AssetFrames ==
  {"df_f_investment_market_data", "df_f_tf_inv_purchase", "df_f_tf_inv_sale",
   "df_d_investment_master"}
TransformFrames ==
  DimensionFrames \cup LedgerFrames \cup AssetFrames \cup {"df_d_calendar"} \cup
  (IF IsActive("benchmark_enrichment") THEN {"df_d_benchmark_master"} ELSE {})

\* InvestmentQuantEngine: without an instrument, or without an output row, it
\* reports completion and returns the one empty lot table.
QuantFrames ==
  IF job.book = "no_instruments" THEN {"df_f_investment_analytics_lot"}
  ELSE {"df_f_investment_analytics_lot", "df_f_investment_realized_events",
        "df_f_investment_reconciliation_events"}
       \cup {Frame(d) : d \in DOMAIN GoldPortfolioSlices}

TaxFrames ==
  {"df_f_tax_events", "df_p_tax_year_summary", "df_p_tax_income_breakdown",
   "df_p_tax_reconciliation"}

\* WealthPresentationEngine; the simulation's inputs are logged with the run
\* and popped.
WealthResults ==
  {"df_p_tf_net_worth_monthly_summary", "df_p_tf_wealth_monthly_totals",
   "df_p_tf_category_spend_analytics", "df_p_tf_income_streams_monthly",
   "df_p_tf_budget_forecast_monthly", "df_p_tf_investment_analytics",
   "df_p_tf_wealth_risk_analytics", "df_p_tf_wealth_risk_analytics_inputs",
   "df_p_tf_monthly_cashflow_summary", "df_p_tf_cashflow_activity_summary"}

WealthFrames == WealthResults \ {"df_p_tf_wealth_risk_analytics_inputs"}

\* The order of _run_transform_phase, run_engines and _run_load_phase.
PresentationFirst ==
  [ transform |-> "currency", currency |-> "us_market",
    us_market |-> "benchmark", benchmark |-> "presentation",
    presentation |-> "quant", quant |-> "tax", tax |-> "check",
    check |-> "silver", silver |-> "gold", gold |-> "meta" ]

After ==
  [ transform |-> "currency", currency |-> "us_market",
    us_market |-> "benchmark", benchmark |-> "quant", quant |-> "tax",
    tax |-> "presentation", presentation |-> "check", check |-> "silver",
    silver |-> "gold", gold |-> "meta" ]

HasRows(f) ==
  /\ f \notin job.rowless
  /\ ~(job.book = "no_instruments" /\ f = "df_f_investment_analytics_lot")

-----------------------------------------------------------------------------
(* The run. *)

\* The run raises: its transaction is rolled back.
Abort(why) ==
  /\ at' = "idle"
  /\ outcome' = why
  /\ work' = store
  /\ job' = NoJob /\ dfs' = {}
  /\ UNCHANGED <<runNo, store, good>>

\* The stage ends and leaves these frames.
Leaves(frames) ==
  /\ at' = After[at]
  /\ dfs' = frames
  /\ UNCHANGED <<runNo, job, work, store, outcome, good>>

\* A stage that indexes dfs: a missing key raises.
Stage(name, reads, adds) ==
  /\ at = name
  /\ IF reads \subseteq dfs THEN Leaves(dfs \cup adds) ELSE Abort("key_error")

\* Container.create_orchestrator: plan, then source plan, then the run.
Start(request, config, book, rowless, badMaster) ==
  /\ at = "idle" /\ runNo < MaxRuns
  /\ ValidRegistry /\ ValidGraph
  /\ runNo' = runNo + 1
  /\ IF Compiles(config, Plan(request))
       THEN /\ job' = Job(request, book, rowless, badMaster)
            /\ at' = "transform" /\ outcome' = "running"
       ELSE /\ outcome' = "source_error"
            /\ UNCHANGED <<at, job>>
  /\ UNCHANGED <<dfs, work, store, good>>

\* TransformationDAG.run; without fund holdings the asset frames have no
\* column and the calendar's bounds cannot be selected from them.
Transform ==
  /\ at = "transform"
  /\ IF job.book = "no_funds" THEN Abort("no_column") ELSE Leaves(TransformFrames)

ProcessCurrency ==
  Stage("currency", {"df_d_calendar", "df_d_currency"},
        {"df_f_currency_fx_rates"})

ProcessUSMarket ==
  Stage("us_market",
        {"df_f_tf_inv_purchase", "df_f_tf_inv_sale", "df_d_investment_master",
         "df_f_currency_fx_rates"},
        {"df_f_investment_market_data"})

ProcessBenchmark ==
  Stage("benchmark", {},
        IF IsActive("benchmark_enrichment")
          THEN {"df_f_investment_benchmark_data"} ELSE {})

RunQuantEngine == Stage("quant", AssetFrames, QuantFrames)

RunTaxEngine ==
  Stage("tax",
        {"df_f_income_transactions", "df_f_investment_realized_events",
         "df_d_income_subcategory"},
        TaxFrames)

\* The wealth builders take what is there with dfs.get.
RunPresentationEngine == Stage("presentation", {}, WealthFrames)

\* _run_analytics_phase: no unregistered, unexpected or missing table.
Complete(frames) ==
  /\ frames \subseteq Frames
  /\ \A f \in frames : DatasetOf(f) \in Expected(plan)
  /\ \A d \in Expected(plan) : Frame(d) \in frames

CheckCompleteness ==
  /\ at = "check"
  /\ IF Complete(dfs) THEN Leaves(dfs) ELSE Abort("incomplete")

\* Replacing a layer: DROP SCHEMA, the DDL, then one insert per frame.
Filled(d) == Frame(d) \in dfs /\ HasRows(Frame(d))
KeptTables(layer) ==
  [d \in Analytical |->
     IF d \in layer /\ Filled(d) THEN runNo ELSE work.tables[d]]

Replaced(layer) ==
  [d \in Analytical |->
     IF d \in layer THEN (IF Filled(d) THEN runNo ELSE 0) ELSE work.tables[d]]

Load(layer, ddl, schema) ==
  IF {Table(d) : d \in {l \in layer : Filled(l)}} \subseteq ddl
    THEN /\ at' = After[at]
         /\ work' = [work EXCEPT !.tables = Replaced(layer),
                                 !.others = {t \in @ : t[1] # schema}]
         /\ UNCHANGED <<runNo, job, dfs, store, outcome, good>>
    ELSE Abort("catalog")

LoadSilver ==
  /\ at = "silver"
  /\ IF job.badMaster /\ Filled("investment_master")
       THEN Abort("investment_master")
       ELSE Load(SilverSets, SilverDDL, "silver")

LoadGold == at = "gold" /\ Load(GoldSets, GoldDDL, "gold")

\* MetaLayer.load: row counts, orphaned tables of the persisted schemas; then
\* the run commits.
PersistedSchemas == {"pre_bronze", "bronze", "silver", "gold"}

\* What is found beside the tables of the DDL: no Silver or Gold contract.
ASSUME OtherTablesAssumption ==
  \A t \in OtherTables :
    /\ t[1] \in PersistedSchemas
    /\ t[1] \in {"silver", "gold"} => t \notin ContractTables

LoadMeta ==
  /\ at = "meta"
  /\ work' = [work EXCEPT !.others =
                 {t \in @ : t[1] \in PersistedSchemas => t \in ContractTables},
                          !.counts = [f \in dfs |-> HasRows(f)]]
  /\ store' = work'
  /\ at' = "idle" /\ outcome' = "success"
  /\ good' = runNo
  /\ job' = NoJob /\ dfs' = {}
  /\ UNCHANGED runNo

\* A provider, the database or the data makes any stage raise.
Fails == at # "idle" /\ Abort("failed")

PlanInit ==
  /\ at = "idle" /\ runNo = 0
  /\ job = NoJob /\ dfs = {}
  /\ store = [ tables |-> [d \in Analytical |-> 0], others |-> OtherTables,
               counts |-> <<>> ]
  /\ work = store
  /\ outcome = "none" /\ good = 0

PlanNext ==
  \/ \E request \in Requests, config \in Configs, book \in Books,
        rowless \in Rowless, badMaster \in BOOLEAN :
        Start(request, config, book, rowless, badMaster)
  \/ Transform \/ ProcessCurrency \/ ProcessUSMarket \/ ProcessBenchmark
  \/ RunQuantEngine \/ RunTaxEngine \/ RunPresentationEngine
  \/ CheckCompleteness \/ LoadSilver \/ LoadGold \/ LoadMeta \/ Fails

PlanSpec == PlanInit /\ [][PlanNext]_planVars

-----------------------------------------------------------------------------
(* Properties. *)

Outcomes == {"none", "running", "success", "source_error", "no_column",
             "key_error", "incomplete", "catalog", "investment_master", "failed"}
IsWarehouse(w) ==
  /\ w.tables \in [Analytical -> 0..MaxRuns]
  /\ w.others \subseteq OtherTables
  /\ DOMAIN w.counts \subseteq Frames

\* The stages, the keys of dfs and the shape of the warehouse.
PlanTypeOK ==
  /\ at \in DOMAIN After \cup {"meta", "idle"}
  /\ runNo \in 0..MaxRuns /\ good \in 0..runNo
  /\ job.requested \in Requests \cup {{}} /\ job.book \in Books
  /\ dfs \subseteq Frames
  /\ IsWarehouse(store) /\ IsWarehouse(work)
  /\ outcome \in Outcomes

\* A plan activates the least set of capabilities that contains the request
\* and everything its members require, each once and after its prerequisites,
\* and produces exactly the datasets those capabilities own.
PlanIsLeastAndOrdered ==
  LET order == plan.capabilities
      active == ToSet(order)
      Closed(S) == job.requested \subseteq S /\ Requires(S) \subseteq S
  IN /\ Closed(active)
     /\ \A S \in SUBSET Capabilities : Closed(S) => active \subseteq S
     /\ \A i, j \in DOMAIN order :
          order[i] \in Registry[order[j]].requires => i < j
     /\ IsInjective(order)
     /\ \A d \in Analytical \ CommonSilver :
          d \in Expected(plan) <=>
            \E c \in active : d \in Registry[c].silver \cup Registry[c].gold

\* A Gold mart is built only after every Silver dataset it is declared to read
\* has its frame, unless the plan leaves that dataset out.  The presentation
\* builders read with dfs.get, so an engine run too early would not fail: it
\* would publish net worth and FIRE figures without the portfolio.
BuiltFromFinishedInputs ==
  \A g \in GoldSets : Frame(g) \in dfs =>
    \A s \in GoldInputs[g] : s \in Expected(plan) => Frame(s) \in dfs

\* Whatever plans and failures came before, the committed Silver and Gold
\* tables are those of the last committed run alone: no table of a wider
\* earlier plan survives, and no failed run has left a row.
PublishedByOneRun ==
  \A d \in Analytical : store.tables[d] \in {0, good}

\* The row counts of the metadata describe the committed tables; a committed
\* run leaves no table of an earlier release behind and keeps Bronze.
MetaDescribesStore ==
  good # 0 =>
    /\ store.others = OtherTables \cap ContractTables
    /\ \A d \in Analytical :
         store.tables[d] # 0 <=>
           Frame(d) \in DOMAIN store.counts /\ store.counts[Frame(d)]

\* Both, in a state of its type: the warehouse is that of one run, and says so.
StoreIsOneRun == PlanTypeOK /\ PublishedByOneRun /\ MetaDescribesStore

=============================================================================
