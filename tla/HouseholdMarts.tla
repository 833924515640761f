---------------------------- MODULE HouseholdMarts -----------------------------
(* The presentation tables of the household: the cash-flow statement, the       *)
(* monthly summary, spending and income by category, the budget and the monthly *)
(* view of the investments.  Each is a function of the month of the grid.       *)
(*                                                                              *)
(* totals is HouseholdLedger's MonthlyTotals, summary its NetWorthSummary; inc, *)
(* exp and trn are the silver facts.  A trade is [m, buy, value]; the fields of *)
(* a lot are those HouseholdLedger's valuations have, and its class.            *)
EXTENDS HouseholdLedger

In(facts, m) == {r \in facts : r.m = m}
-----------------------------------------------------------------------------
(* Cash-flow statement.                                                        *)

CashBalances(summary, m, dropped) ==
  LET sum(f(_)) == Total(LAMBDA a : f(summary[m][a]), CashPool(dropped)) IN
  [opening |-> sum(LAMBDA b : b.Opening_Balance),
   closing |-> sum(LAMBDA b : b.Closing_Balance)]

OnCash(facts, m, dropped) == {r \in In(facts, m) : r.acct \in CashPool(dropped)}

\* Legs on the cash pools, by the activity of their counterparty and direction.
\* A leg whose counterparty is UNCLASSIFIED is in none of the flows.
TransferFlow(trn, m, dropped, activity, inward) ==
  Amount({r \in OnCash(trn, m, dropped) :
            /\ CounterpartyType(r.to, dropped) = activity
            /\ IF inward THEN r.amt > 0 ELSE r.amt < 0})

CashflowStatement(summary, totals, inc, exp, trn, dropped) ==
  [m \in DOMAIN totals |->
     LET in(activity) == TransferFlow(trn, m, dropped, activity, TRUE)
         out(activity) == -TransferFlow(trn, m, dropped, activity, FALSE)
         cash == CashBalances(summary, m, dropped)
         operatingIn == Amount(OnCash(inc, m, dropped)) + in("OPERATING")
         operatingOut == Amount(OnCash(exp, m, dropped)) + out("OPERATING")
         net == (operatingIn - operatingOut) + (in("INVESTING") - out("INVESTING"))
                  + (in("FINANCING") - out("FINANCING"))
                  + (in("INTERNAL_TRANSFER") - out("INTERNAL_TRANSFER"))
         movement == cash.closing - cash.opening IN
     [ Opening_Cash |-> cash.opening, Closing_Cash |-> cash.closing,
       Net_Cash_Movement |-> movement,
       Net_Operating |-> operatingIn - operatingOut,
       Net_Internal_Transfers |-> in("INTERNAL_TRANSFER") - out("INTERNAL_TRANSFER"),
       Cash_Expenses |-> totals[m].t.Cash_Expense,
       Non_Cash_Expenses |-> totals[m].t.Non_Cash_Expense,
       Inflow |-> operatingIn + in("INVESTING") + in("FINANCING") + in("INTERNAL_TRANSFER"),
       Outflow |-> operatingOut + out("INVESTING") + out("FINANCING") + out("INTERNAL_TRANSFER"),
       Calculated_Net_Cashflow |-> net,
       Unreconciled_Difference |-> movement - net ]]
-----------------------------------------------------------------------------
(* Monthly summary.                                                            *)

\* A category may be both dividend and interest income: passive income counts the
\* two flags.
IncomeStreamsOf(inc, m) ==
  LET of(cats) == Amount({r \in In(inc, m) : r.cat \in cats}) IN
  [ Active |-> of(Active), Dividend |-> of(Dividend), Interest |-> of(Interest),
    Passive |-> of(Dividend) + of(Interest) ]

Deployed(trades, m) == Total(LAMBDA t : t.value, {t \in In(trades, m) : t.buy})

Redeemed(trades, m) == Total(LAMBDA t : t.value, {t \in In(trades, m) : ~t.buy})

\* The mean over the last n rows, which a month without a row does not shorten;
\* kept as its numerator and denominator.  f maps every month to its amount.
Trailing(f, months, m, n) ==
  LET window == {k \in months : m - n < k /\ k <= m} IN
  [sum |-> Total(LAMBDA k : f[k], window), over |-> Cardinality(window)]

MonthlySummary(totals, inc, trades) ==
  [m \in DOMAIN totals |->
     LET t == totals[m].t
         flow == Deployed(trades, m) - Redeemed(trades, m)
         surplus == t.Cash_Income - t.Expense IN
     [ streams |-> IncomeStreamsOf(inc, m),
       Core_Expense |-> t.Core_Expense, NonCore_Expense |-> t.Expense - t.Core_Expense,
       Net_Investment_Flow |-> flow, Gross_Surplus |-> surplus,
       Net_Surplus_After_Invest |-> surplus - flow,
       Is_Surplus_Month |-> surplus > 0,
       Trailing_3M_Income |->
         Trailing([k \in DOMAIN totals |-> totals[k].t.Cash_Income], DOMAIN totals, m, 3) ]]
-----------------------------------------------------------------------------
(* Spending and income by category, for every month of the grid and every      *)
(* category that has a fact in any month.                                      *)

Categories(facts) == {r.cat : r \in facts}

\* A month of the same calendar year.
YearOf(m) == (m - 1) \div 12

SpendAnalytics(exp, months, dropped) ==
  [m \in months |-> [c \in Categories(exp) |->
     LET of(k) == {r \in In(exp, k) : r.cat = c}
         spend == [k \in months |-> Amount(of(k))]
         avg == Trailing(spend, months, m, 3) IN
     [ Spend |-> spend[m],
       Cash_Spend |-> Amount({r \in of(m) : ~IsNonCashPnl(r.acct, dropped)}),
       Count |-> Cardinality(of(m)),
       YTD |-> Total(LAMBDA k : spend[k], {k \in months : YearOf(k) = YearOf(m) /\ k <= m}),
       \* an average needs three rows of the grid
       Trailing_3M |-> IF avg.over = 3 THEN avg.sum ELSE Bad,
       Is_Core |-> c \in Core ]]]

IncomeStreams(inc, months) ==
  [m \in months |-> [c \in Categories(inc) |->
     LET income == [k \in months |-> Amount({r \in In(inc, k) : r.cat = c})]
         avg == Trailing(income, months, m, 3) IN
     [ Income |-> income[m],
       YTD |-> Total(LAMBDA k : income[k], {k \in months : YearOf(k) = YearOf(m) /\ k <= m}),
       Trailing_3M |-> IF avg.over = 3 THEN avg.sum ELSE Bad,
       Is_Passive |-> c \in Dividend \cup Interest, Is_Non_Cash |-> c \in NonCash ]]]
-----------------------------------------------------------------------------
(* Budget.  pct: the percentages of income the rules give to each use.         *)

InvestmentActuals(totals, trades, m) ==
  LET t == totals[m].t
      invested == Deployed(trades, m) - Redeemed(trades, m)
      core == t.Core_Expense
      nonCore == t.Expense - t.Core_Expense IN
  [ income |-> t.Cash_Income, core |-> core, nonCore |-> nonCore, invested |-> invested,
    savings |-> t.Cash_Income - core - nonCore - invested ]

\* Six times the income a month is budgeted with: the last three months weighted
\* 3, 2 and 1, or as many of them as the grid has, or the month's own income.
BudgetIncome(income, months, m) ==
  CASE {m - 1, m - 2, m - 3} \subseteq months ->
         3 * income[m - 1] + 2 * income[m - 2] + income[m - 3]
    [] {m - 1, m - 2} \subseteq months /\ m - 3 \notin months ->
         2 * (2 * income[m - 1] + income[m - 2])
    [] m - 1 \in months /\ m - 2 \notin months -> 6 * income[m - 1]
    [] OTHER -> 6 * income[m]

Budget(totals, trades, pct, emergencyMonths) ==
  [m \in DOMAIN totals |->
     LET a == InvestmentActuals(totals, trades, m)
         base == BudgetIncome([k \in DOMAIN totals |-> totals[k].t.Cash_Income], DOMAIN totals, m)
         over(actual, share) == 600 * actual > base * share
         core == Trailing([k \in DOMAIN totals |-> totals[k].t.Core_Expense], DOMAIN totals, m, 6)
         under == 600 * a.invested < base * pct.investment IN
     [ actual |-> a, Budget_Income |-> base,
       Is_Core_Overspent |-> over(a.core, pct.core),
       Is_NonCore_Overspent |-> over(a.nonCore, pct.nonCore),
       Is_Investment_Underfunded |-> under,
       Emergency_Fund_Short |->
         core.sum * emergencyMonths > totals[m].Liquid_Assets_Market * core.over,
       Is_Healthy |-> ~(over(a.core, pct.core) \/ over(a.nonCore, pct.nonCore) \/ under) ]]
-----------------------------------------------------------------------------
(* Investments.                                                                *)

\* The lots of the last closing date of the month over all instruments.
MonthlyLots(lots, m) ==
  LET rows == In(lots, m) IN {v \in rows : \A w \in rows : w.day <= v.day}

\* Per instrument: values, the losses that can be harvested, the share of its class
\* against the target, and whether the drift calls for rebalancing (percentages).
InvestmentAnalytics(lots, m, target, tolerance) ==
  LET held == MonthlyLots(lots, m)
      market(rows) == Total(LAMBDA v : v.market, rows)
      book(rows) == Total(LAMBDA v : v.book, rows)
      all == market(held) IN
  [i \in {v.isin : v \in held} |->
     LET mine == {v \in held : v.isin = i}
         class == (CHOOSE v \in mine : TRUE).class
         share == 100 * market({v \in held : v.class = class})
         drift == IF all > 0 THEN share - target[class] * all ELSE -target[class] IN
     [ market |-> market(mine), book |-> book(mine),
       loss |-> Total(LAMBDA v : IF v.market < v.book THEN v.market - v.book ELSE 0, mine),
       Rebalance_Required |->
         LET bound == IF all > 0 THEN tolerance * all ELSE tolerance IN
         drift > bound \/ -drift > bound ]]
=============================================================================
