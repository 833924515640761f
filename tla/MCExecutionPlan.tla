--------------------------- MODULE MCExecutionPlan ---------------------------
(* All 128 requests, complete and incomplete source configurations. *)
EXTENDS ExecutionPlan

MCRequests == SUBSET Capabilities
MCConfigs ==
  { [bound |-> External, enabled |-> External],
    [bound |-> External \ {"market_mf_holdings"},
     enabled |-> External \ {"market_mf_holdings"}] }
MCRowless == {{}, {"df_f_tax_events", "df_p_tax_reconciliation"}}
MCOtherTables ==
  {<<"bronze", "r_stock_transactions">>, <<"bronze", "r_old">>,
   <<"gold", "old_mart">>}
=============================================================================
