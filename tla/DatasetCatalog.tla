---------------------------- MODULE DatasetCatalog ----------------------------
(***************************************************************************)
(* The catalogue the pipeline is planned from: which datasets exist, which *)
(* capability needs and produces which of them, the frame name and the     *)
(* physical table of every Silver and Gold contract, the tables the DDL    *)
(* creates, and the Silver datasets each Gold mart is declared to read.    *)
(* A contract is the pair <<frame, table>>: the key of PipelineExecutor.dfs *)
(* and the table name as DuckDB compares it, without case.  Grain, domain, *)
(* columns and descriptions are left out, and so is the publication order: *)
(* a layer is replaced inside one transaction.                             *)
(***************************************************************************)
EXTENDS FiniteSets

\* Two registries read as one; no name is in both.
Joined(f, g) ==
  [x \in DOMAIN f \cup DOMAIN g |-> IF x \in DOMAIN f THEN f[x] ELSE g[x]]

\* DATA_CONTRACT_REGISTRY, one definition per kind of contract.
SilverDimensions ==
  [ common_calendar |-> <<"df_d_calendar", "d_calendar">>,
    wealth_income_category |-> <<"df_d_income_category", "d_income_category">>,
    wealth_income_subcategory |->
      <<"df_d_income_subcategory", "d_income_subcategory">>,
    wealth_expense_category |->
      <<"df_d_expense_category", "d_expense_category">>,
    wealth_expense_subcategory |->
      <<"df_d_expense_subcategory", "d_expense_subcategory">>,
    wealth_asset_category |-> <<"df_d_asset_category", "d_asset_category">>,
    wealth_asset_subcategory |->
      <<"df_d_asset_subcategory", "d_asset_subcategory">>,
    common_currency |-> <<"df_d_currency", "d_currency">>,
    investment_benchmark_master_dim |->
      <<"df_d_benchmark_master", "d_investment_benchmark_master">>,
    investment_master |-> <<"df_d_investment_master", "d_investment_master">>,
    investment_macro_parameters_dim |->
      <<"df_d_macro_parameters", "d_macro_parameters">> ]

SilverFacts ==
  [ common_currency_fx_rates |->
      <<"df_f_currency_fx_rates", "f_currency_fx_rates">>,
    wealth_income_transactions |->
      <<"df_f_income_transactions", "f_income_transactions">>,
    wealth_expense_transactions |->
      <<"df_f_expense_transactions", "f_expense_transactions">>,
    wealth_transfer_transactions |->
      <<"df_f_transfer_transactions", "f_transfer_transactions">>,
    wealth_opening_balances |->
      <<"df_f_opening_balances", "f_opening_balances">>,
    investment_market_data |->
      <<"df_f_investment_market_data", "f_investment_market_data">>,
    investment_purchase_data |->
      <<"df_f_tf_inv_purchase", "f_investment_purchase_data">>,
    investment_sale_data |-> <<"df_f_tf_inv_sale", "f_investment_sale_data">>,
    investment_benchmark_data |->
      <<"df_f_investment_benchmark_data", "f_investment_benchmark_data">>,
    investment_lot_analytics |->
      <<"df_f_investment_analytics_lot", "f_investment_analytics_lot">>,
    investment_realized_events |->
      <<"df_f_investment_realized_events", "f_investment_realized_events">>,
    investment_reconciliation_events |->
      <<"df_f_investment_reconciliation_events", "f_investment_reconciliation_events">>,
    tax_events |-> <<"df_f_tax_events", "f_tax_events">> ]

GoldMarts ==
  [ tax_year_summary |-> <<"df_p_tax_year_summary", "tax_year_summary">>,
    tax_income_breakdown |->
      <<"df_p_tax_income_breakdown", "tax_income_breakdown">>,
    tax_reconciliation |-> <<"df_p_tax_reconciliation", "tax_reconciliation">>,
    wealth_core_monthly |->
      <<"df_p_tf_wealth_monthly_totals", "core_monthly_fact">>,
    wealth_asset_breakdown |->
      <<"df_p_tf_net_worth_monthly_summary", "wealth_asset_breakdown">>,
    wealth_cashflow_expense_breakdown |->
      <<"df_p_tf_category_spend_analytics", "cashflow_expense_breakdown">>,
    wealth_cashflow_income_breakdown |->
      <<"df_p_tf_income_streams_monthly", "cashflow_income_breakdown">>,
    fire_analytics |->
      <<"df_p_tf_wealth_risk_analytics", "wealth_fire_analytics">>,
    wealth_budget_variance |->
      <<"df_p_tf_budget_forecast_monthly", "forecast_budget_variance">>,
    investment_portfolio_summary |->
      <<"df_p_tf_investment_analytics", "investment_portfolio_summary">>,
    wealth_cashflow_efficiency |->
      <<"df_p_tf_monthly_cashflow_summary", "cashflow_efficiency_analytics">>,
    wealth_cashflow_activity_summary |->
      <<"df_p_tf_cashflow_activity_summary", "cashflow_activity_summary">> ]

GoldPortfolioSlices ==
  [ investment_by_isin |->
      <<"df_f_investment_analytics_isin", "investment_by_isin">>,
    investment_by_subtype |->
      <<"df_f_investment_analytics_subtype", "investment_by_subtype">>,
    investment_by_class |->
      <<"df_f_investment_analytics_class", "investment_by_class">>,
    investment_by_instrument_type |->
      <<"df_f_investment_analytics_instrument_type", "investment_by_instrument_type">>,
    investment_by_sector |->
      <<"df_f_investment_analytics_sector", "investment_by_sector">>,
    investment_by_industry |->
      <<"df_f_investment_analytics_industry", "investment_by_industry">>,
    investment_by_portfolio |->
      <<"df_f_investment_analytics_portfolio", "investment_by_portfolio">>,
    investment_by_geo |->
      <<"df_f_investment_analytics_geo", "investment_by_geo">>,
    investment_by_country |->
      <<"df_f_investment_analytics_country", "investment_by_country">>,
    investment_by_currency |->
      <<"df_f_investment_analytics_currency", "investment_by_currency">> ]

SilverContracts == Joined(SilverDimensions, SilverFacts)
GoldContracts == Joined(GoldMarts, GoldPortfolioSlices)
Contracts == Joined(SilverContracts, GoldContracts)

SilverSets == DOMAIN SilverContracts
GoldSets == DOMAIN GoldContracts
Analytical == DOMAIN Contracts

Frame(d) == Contracts[d][1]
Table(d) == Contracts[d][2]
Frames == {Frame(d) : d \in Analytical}
FrameOf(datasets) == {Frame(d) : d \in datasets}
DatasetOf(f) == CHOOSE d \in Analytical : Frame(d) = f

\* The tables SILVER_DDL and GOLD_DDL create.
SilverDimensionDDL ==
  {"d_calendar", "d_income_category", "d_income_subcategory",
   "d_expense_category", "d_expense_subcategory", "d_asset_category",
   "d_asset_subcategory", "d_currency"}
SilverLedgerDDL ==
  {"f_currency_fx_rates", "f_income_transactions", "f_expense_transactions",
   "f_transfer_transactions", "f_opening_balances",
   "d_investment_benchmark_master", "d_investment_master", "d_macro_parameters",
   "f_investment_market_data", "f_investment_purchase_data",
   "f_investment_sale_data", "f_investment_benchmark_data"}
SilverAnalyticsDDL ==
  {"f_investment_analytics_lot", "f_investment_realized_events",
   "f_investment_reconciliation_events", "f_tax_events"}

GoldTaxDDL ==
  {"tax_year_summary", "tax_income_breakdown", "tax_reconciliation",
   "wealth_asset_breakdown", "core_monthly_fact"}

GoldWealthDDL ==
  {"cashflow_expense_breakdown", "cashflow_income_breakdown",
   "wealth_fire_analytics", "forecast_budget_variance",
   "investment_portfolio_summary"}

GoldIsinDDL ==
  {"cashflow_efficiency_analytics", "investment_by_isin",
   "investment_by_subtype"}

GoldSliceDDL ==
  {"investment_by_class", "investment_by_instrument_type",
   "investment_by_sector", "investment_by_industry", "investment_by_portfolio"}

GoldRegionDDL ==
  {"investment_by_geo", "investment_by_country", "investment_by_currency",
   "cashflow_activity_summary"}

SilverDDL == SilverDimensionDDL \cup SilverLedgerDDL \cup SilverAnalyticsDDL
GoldDDL ==
  GoldTaxDDL \cup GoldWealthDDL \cup GoldIsinDDL \cup GoldSliceDDL \cup GoldRegionDDL

\* GOLD_CONTRACT_DEPENDENCIES: the Silver datasets each mart reads.
TaxMartInputs ==
  [ tax_year_summary |->
      {"tax_events", "wealth_income_transactions", "investment_realized_events",
       "wealth_income_subcategory", "investment_macro_parameters_dim"},
    tax_income_breakdown |->
      {"tax_events", "wealth_income_transactions", "wealth_income_subcategory"},
    tax_reconciliation |->
      {"tax_events", "wealth_income_transactions", "investment_realized_events",
       "wealth_income_subcategory"} ]

LedgerMartInputs ==
  [ wealth_core_monthly |->
      {"common_calendar", "wealth_income_transactions",
       "wealth_expense_transactions", "wealth_transfer_transactions",
       "wealth_opening_balances", "wealth_asset_subcategory",
       "common_currency_fx_rates", "investment_lot_analytics"},
    wealth_asset_breakdown |->
      {"common_calendar", "wealth_income_transactions",
       "wealth_expense_transactions", "wealth_transfer_transactions",
       "wealth_opening_balances", "wealth_asset_category",
       "wealth_asset_subcategory", "common_currency_fx_rates",
       "investment_lot_analytics"},
    wealth_cashflow_expense_breakdown |->
      {"wealth_expense_transactions", "wealth_expense_category",
       "wealth_expense_subcategory", "common_calendar"},
    wealth_cashflow_income_breakdown |->
      {"wealth_income_transactions", "wealth_income_category",
       "wealth_income_subcategory", "common_calendar"} ]

WealthMartInputs ==
  [ fire_analytics |->
      {"common_calendar", "wealth_income_transactions",
       "wealth_expense_transactions", "wealth_opening_balances",
       "investment_lot_analytics", "investment_macro_parameters_dim"},
    wealth_budget_variance |->
      {"wealth_expense_transactions", "wealth_income_transactions",
       "common_calendar"},
    investment_portfolio_summary |->
      {"investment_lot_analytics", "investment_master", "common_calendar"},
    wealth_cashflow_efficiency |->
      {"wealth_income_transactions", "wealth_expense_transactions",
       "common_calendar"},
    wealth_cashflow_activity_summary |->
      {"wealth_income_transactions", "wealth_expense_transactions",
       "wealth_transfer_transactions", "wealth_asset_category",
       "wealth_asset_subcategory", "common_calendar"} ]

PortfolioMartInputs ==
  [ investment_by_isin |->
      {"investment_lot_analytics", "investment_master",
       "investment_benchmark_data", "common_currency_fx_rates"},
    investment_by_subtype |->
      {"investment_lot_analytics", "investment_master"},
    investment_by_class |->
      {"investment_lot_analytics", "investment_master"} ]

SliceInputs ==
  [ investment_by_instrument_type |->
      {"investment_lot_analytics", "investment_master"},
    investment_by_sector |->
      {"investment_lot_analytics", "investment_master"},
    investment_by_industry |->
      {"investment_lot_analytics", "investment_master"},
    investment_by_portfolio |->
      {"investment_lot_analytics", "investment_master"},
    investment_by_geo |->
      {"investment_lot_analytics", "investment_master"},
    investment_by_country |->
      {"investment_lot_analytics", "investment_master"},
    investment_by_currency |->
      {"investment_lot_analytics", "investment_master", "common_currency"} ]

GoldInputs ==
  Joined(TaxMartInputs,
    Joined(Joined(LedgerMartInputs, WealthMartInputs),
           Joined(PortfolioMartInputs, SliceInputs)))

\* BRONZE_DATASET_ORIGIN_MAP: who supplies each Bronze dataset.
HouseholdEvidence ==
  {"household_zcategory", "household_asset_group", "household_assets",
   "household_currency", "household_inoutcome"}
ConfiguredFiles ==
  {"investment_mf_isin_mapping", "investment_benchmark_mapping",
   "household_opening_balances", "investment_benchmark_master",
   "investment_macro_parameters", "market_currency_mapping"}
Statements ==
  {"market_mf_holdings", "investment_us_stock_transactions",
   "investment_mf_orders", "market_stock_holdings", "investment_stock_orders"}
External == HouseholdEvidence \cup ConfiguredFiles \cup Statements
Transitional == {"common_column_master"}
Provided ==
  {"market_currency_fx_rates", "market_benchmark_history",
   "market_us_stock_prices"}
BronzeSets == External \cup Transitional \cup Provided

\* BRONZE_CONTRACT_REGISTRY: the table of each dataset and whether a changed
\* source replaces all of it.
BronzeReference ==
  [ household_zcategory |-> <<"r_sqlite_zcategory", "full">>,
    household_asset_group |-> <<"r_sqlite_assetgroup", "full">>,
    household_assets |-> <<"r_sqlite_assets", "full">>,
    household_currency |-> <<"r_sqlite_currency", "full">>,
    household_inoutcome |-> <<"r_sqlite_inoutcome", "full">>,
    investment_mf_isin_mapping |-> <<"r_mf_isin_mapping", "full">>,
    investment_benchmark_mapping |-> <<"r_benchmark_mapping", "full">>,
    household_opening_balances |-> <<"r_opening_balances", "full">>,
    investment_benchmark_master |-> <<"r_benchmark_master", "full">>,
    investment_macro_parameters |-> <<"r_macro_parameters", "full">>,
    common_column_master |-> <<"r_column_master", "full">> ]

BronzeSeries ==
  [ market_mf_holdings |-> <<"r_mf_market_data", "delta">>,
    investment_us_stock_transactions |->
      <<"r_us_stock_transactions", "delta">>,
    market_currency_mapping |-> <<"r_currency_mapping", "full">>,
    market_currency_fx_rates |-> <<"r_currency_fx_data", "delta">>,
    investment_mf_orders |-> <<"r_mf_transactions", "delta">>,
    market_stock_holdings |-> <<"r_stock_market_data", "delta">>,
    investment_stock_orders |-> <<"r_stock_transactions", "delta">>,
    market_benchmark_history |-> <<"r_benchmark_data", "delta">>,
    market_us_stock_prices |-> <<"r_us_stock_prices", "delta">> ]

BronzeContracts == Joined(BronzeReference, BronzeSeries)

\* The physical tables of every contract; Pre-Bronze has one for each Bronze
\* dataset, named after it.
ContractTables ==
  {<<"bronze", BronzeContracts[d][1]>> : d \in BronzeSets}
  \cup {<<"pre_bronze", d>> : d \in BronzeSets}
  \cup {<<"silver", Table(d)>> : d \in SilverSets}
  \cup {<<"gold", Table(d)>> : d \in GoldSets}

\* validate_registry: no two contracts share a frame, a table or a dataset.
ValidRegistry ==
  /\ DOMAIN BronzeContracts = BronzeSets
  /\ BronzeSets \cap Analytical = {}
  /\ \A d, e \in Analytical :
        d # e => Frame(d) # Frame(e) /\ Table(d) # Table(e)
  /\ \A d, e \in BronzeSets :
        d # e => BronzeContracts[d][1] # BronzeContracts[e][1]

\* COMMON_PRODUCED_SILVER_DATASETS: produced whatever the plan, owned by none.
CommonSilver == {"common_calendar", "common_currency"}

\* CAPABILITY_REGISTRY, one definition per descriptor: what a capability
\* requires, reads, may read, produces, fetches and contributes to.
HouseholdCore ==
  [ requires |-> {},
    needs |-> HouseholdEvidence \cup {"household_opening_balances"},
    may |-> {"common_column_master"},
    silver |->
      {"wealth_income_category", "wealth_income_subcategory",
       "wealth_expense_category", "wealth_expense_subcategory",
       "wealth_asset_category", "wealth_asset_subcategory",
       "wealth_income_transactions", "wealth_expense_transactions",
       "wealth_transfer_transactions", "wealth_opening_balances"},
    gold |-> {}, fetches |-> {}, contributes |-> {} ]
InvestmentAccounting ==
  [ requires |-> {},
    needs |->
      {"investment_mf_isin_mapping", "investment_macro_parameters",
       "market_mf_holdings", "investment_mf_orders", "market_stock_holdings",
       "investment_stock_orders"},
    may |-> {"investment_us_stock_transactions", "common_column_master"},
    silver |->
      {"investment_master", "investment_macro_parameters_dim",
       "investment_market_data", "investment_purchase_data",
       "investment_sale_data", "investment_lot_analytics",
       "investment_realized_events", "investment_reconciliation_events"},
    gold |-> DOMAIN GoldPortfolioSlices, fetches |-> {},
    contributes |-> {"household_core", "wealth", "tax"} ]
BenchmarkEnrichment ==
  [ requires |-> {"investment_accounting"},
    needs |->
      {"investment_benchmark_mapping", "investment_benchmark_master",
       "market_benchmark_history"},
    may |-> {},
    silver |-> {"investment_benchmark_master_dim", "investment_benchmark_data"},
    gold |-> {}, fetches |-> {"benchmark_prices"}, contributes |-> {} ]
ForeignAssetEnrichment ==
  [ requires |-> {"investment_accounting"},
    needs |->
      {"market_currency_mapping", "market_currency_fx_rates",
       "investment_us_stock_transactions", "market_us_stock_prices"},
    may |-> {},
    silver |-> {"common_currency_fx_rates"}, gold |-> {},
    fetches |-> {"currency_fx_rates", "us_stock_prices"}, contributes |-> {} ]
TaxCapability ==
  [ requires |-> {"household_core", "investment_accounting"},
    needs |-> {}, may |-> {}, silver |-> {"tax_events"},
    gold |-> {"tax_year_summary", "tax_income_breakdown", "tax_reconciliation"},
    fetches |-> {}, contributes |-> {} ]
WealthCapability ==
  [ requires |-> {"household_core"}, needs |-> {}, may |-> {}, silver |-> {},
    gold |->
      {"wealth_core_monthly", "wealth_asset_breakdown",
       "wealth_cashflow_expense_breakdown", "wealth_cashflow_income_breakdown",
       "wealth_budget_variance", "wealth_cashflow_efficiency",
       "wealth_cashflow_activity_summary", "investment_portfolio_summary"},
    fetches |-> {}, contributes |-> {} ]
FireCapability ==
  [ requires |-> {"household_core", "wealth"}, needs |-> {}, may |-> {},
    silver |-> {}, gold |-> {"fire_analytics"}, fetches |-> {},
    contributes |-> {} ]

Registry ==
  [ household_core |-> HouseholdCore,
    investment_accounting |-> InvestmentAccounting,
    benchmark_enrichment |-> BenchmarkEnrichment,
    foreign_asset_enrichment |-> ForeignAssetEnrichment,
    tax |-> TaxCapability, wealth |-> WealthCapability,
    fire |-> FireCapability ]
Capabilities == DOMAIN Registry
=============================================================================
