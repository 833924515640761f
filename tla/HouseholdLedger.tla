---------------------------- MODULE HouseholdLedger ----------------------------
(* From the rows of the household journal to monthly balances: the asset roles, *)
(* the silver facts, the calendar, the unified ledger and the net-worth tables. *)
(*                                                                              *)
(* A date is its month, a number; amounts are integers.  A table keyed by month *)
(* (and account) is a function, a table of facts a set of rows.  Names, texts   *)
(* and derived ratios that steer nothing are left out.                          *)
EXTENDS Integers, FiniteSets, Functions

CONSTANTS
    Accounts,        \* account UIDs a row may name
    Role,            \* the ledger role the rules give to an account's group
    Illiquid,        \* accounts the rules call illiquid
    InvestmentGroup, \* accounts of the asset group "Investments"
    IncomeCats,      \* income categories
    NonCash, Active, Dividend, Interest, \* those the rules put in each class
    Core,            \* expense categories the rules call core
    Today,           \* the month the pipeline runs in
    NoDate,          \* a blank date of an opening balance: it sorts before every month
    Bad              \* an amount that is not a finite number

Roles == {"CASH_POOL", "NON_CASH_PNL", "WORKING_CAPITAL_CONDUIT",
          "INVESTING_ASSET", "FINANCING_LIABILITY", "UNCLASSIFIED"}

\* A category is active, dividend or interest income, or none of these.
ASSUME LedgerConstants ==
    /\ Role \in [Accounts -> Roles]
    /\ Illiquid \subseteq Accounts /\ InvestmentGroup \subseteq Accounts
    /\ \A c \in {NonCash, Active, Dividend, Interest} : c \subseteq IncomeCats
    /\ Today \in Nat \ {0} /\ NoDate = 0 /\ Bad \notin Int

INCOME == 0
EXPENSE == 1
LEG_OUT == 3
LEG_IN == 4

Total(value(_), rows) == SumFunctionOnSet([r \in rows |-> value(r)], rows)
Latest(months) == CHOOSE x \in months : \A y \in months : y <= x
Earliest(months) == CHOOSE x \in months : \A y \in months : x <= y
-----------------------------------------------------------------------------
(* Dimensions.  dropped: the accounts and categories the household deleted.    *)

LiveAccounts(dropped) == Accounts \ dropped

CashPool(dropped) == {a \in LiveAccounts(dropped) : Role[a] = "CASH_POOL"}

\* The activity a counterparty gives to a cash movement.
ActivityType(a) ==
  CASE Role[a] = "CASH_POOL" -> "INTERNAL_TRANSFER"
    [] Role[a] \in {"NON_CASH_PNL", "WORKING_CAPITAL_CONDUIT"} -> "OPERATING"
    [] Role[a] = "INVESTING_ASSET" -> "INVESTING"
    [] Role[a] = "FINANCING_LIABILITY" -> "FINANCING"
    [] OTHER -> "UNCLASSIFIED"

\* What is in no dimension, a deleted account or a blank, is UNCLASSIFIED.
CounterpartyType(a, dropped) ==
  IF a \in LiveAccounts(dropped) THEN ActivityType(a) ELSE "UNCLASSIFIED"

IsNonCashPnl(a, dropped) == a \in LiveAccounts(dropped) /\ Role[a] = "NON_CASH_PNL"

IsLiquid(a) == a \notin Illiquid
-----------------------------------------------------------------------------
(* Silver facts.                                                               *)

ActiveRows(journal) == {r \in journal : ~r.del}

\* Every active row must carry a finite amount, or the transformation stops.
AmountsValid(journal) == \A r \in ActiveRows(journal) : r.amt # Bad

IncomeFacts(journal) == {r \in ActiveRows(journal) : r.type = INCOME}

ExpenseFacts(journal) == {r \in ActiveRows(journal) : r.type = EXPENSE}

\* The outgoing leg is negated; a leg on an account of the Investments group is
\* analysed in the month before.
TransferFacts(journal, dropped) ==
  {[acct |-> r.acct, to |-> r.to, m |-> r.m, id |-> r.id,
    amt |-> IF r.type = LEG_OUT THEN -r.amt ELSE r.amt,
    analysed |-> IF r.acct \in InvestmentGroup \ dropped THEN r.m - 1 ELSE r.m] :
      r \in {x \in ActiveRows(journal) : x.type \in {LEG_OUT, LEG_IN}}}

\* The calendar runs from the month before the first dated fact to the last.
CalendarSpine(months) ==
  IF months = {} THEN {} ELSE (Earliest(months) - 1) .. Latest(months)

\* Financial years start in April; month 1 is a January.
FYOf(m) == (m - 4) \div 12
-----------------------------------------------------------------------------
(* The months of the wealth tables, and the inflation of each.                 *)

\* Months no later than today's and no earlier than the first opening balance.
MonthGrid(openings, spine) ==
  LET dated == {o.m : o \in openings} \ {NoDate} IN
  {m \in spine : m <= Today /\ (dated = {} \/ m >= Earliest(dated))}

\* The yearly rate in force: that of the last parameter row that started by then,
\* or the fallback of the rules.
InflationOf(m, macro, fallback) ==
  LET past == {s \in DOMAIN macro : s <= m} IN
  IF past = {} THEN fallback ELSE macro[Latest(past)]
-----------------------------------------------------------------------------
(* The unified ledger.                                                         *)

LedgerRow(kind, fact, nonCash, core) ==
  [kind |-> kind, acct |-> fact.acct, m |-> fact.m, amt |-> fact.amt, id |-> fact.id,
   nonCash |-> nonCash, core |-> core]

\* The opening balance of an account is its row with the last date; no two rows of
\* an account have one date.
LastOpenings(openings) ==
  {o \in openings : \A p \in openings : p.acct = o.acct => p.m <= o.m}

\* Faulty: a transfer is booked in the month it is analysed in.
LedgerAsAnalysed(openings, inc, exp, trn, dropped) ==
  {LedgerRow("OPENING", o, FALSE, FALSE) : o \in LastOpenings(openings)}
    \cup {LedgerRow("INCOME", r, r.cat \in NonCash, FALSE) : r \in inc}
    \cup {LedgerRow("EXPENSE", r, IsNonCashPnl(r.acct, dropped), r.cat \in Core) : r \in exp}
    \cup {LedgerRow("TRANSFER", [r EXCEPT !.m = r.analysed], FALSE, FALSE) : r \in trn}

\* An income is non-cash when its category is, an expense when its account is.
UnifiedLedger(openings, inc, exp, trn, dropped) ==
  {LedgerRow("OPENING", o, FALSE, FALSE) : o \in LastOpenings(openings)}
    \cup {LedgerRow("INCOME", r, r.cat \in NonCash, FALSE) : r \in inc}
    \cup {LedgerRow("EXPENSE", r, IsNonCashPnl(r.acct, dropped), r.cat \in Core) : r \in exp}
    \cup {LedgerRow("TRANSFER", r, FALSE, FALSE) : r \in trn}

Amount(rows) == Total(LAMBDA r : r.amt, rows)

\* What happens on account a in month m.
MonthlyActivity(ledger, a, m) ==
  LET of(kind) == {r \in ledger : r.kind = kind /\ r.acct = a /\ r.m = m}
      nonCash(rows) == {r \in rows : r.nonCash} IN
  [ Income          |-> Amount(of("INCOME")),
    Non_Cash_Income |-> Amount(nonCash(of("INCOME"))),
    Expense         |-> Amount(of("EXPENSE")),
    Core_Expense    |-> Amount({r \in of("EXPENSE") : r.core}),
    Non_Cash_Expense|-> Amount(nonCash(of("EXPENSE"))),
    Net_Transfers   |-> Amount(of("TRANSFER")),
    DB_Opening      |-> Amount(of("OPENING")) ]

\* The monthly change of the balance: all rows, expenses negated.
MonthlyNetChange(ledger, a, m) ==
  Total(LAMBDA r : IF r.kind = "EXPENSE" THEN -r.amt ELSE r.amt,
        {r \in ledger : r.acct = a /\ r.m = m})
-----------------------------------------------------------------------------
(* Net worth, per live account and month of the grid.                          *)

\* Closing is the running sum of the changes; opening is the closing of the month
\* before (0 in the first) plus the month's booked opening balance; what is left
\* unexplained between the two is called organic growth.
Balance(ledger, grid, a, m) ==
  LET closing(n) == Total(LAMBDA k : MonthlyNetChange(ledger, a, k), {k \in grid : k <= n})
      act == MonthlyActivity(ledger, a, m)
      opening == closing(m - 1) + act.DB_Opening
      net == act.Income - act.Expense + act.Net_Transfers IN
  [ act |-> act, Opening_Balance |-> opening, Closing_Balance |-> closing(m),
    Net_Cashflow_Month |-> net, Organic_Growth |-> closing(m) - (opening + net),
    All_Time_High |-> LET past == {closing(k) : k \in {k \in grid : k <= m}} IN Latest(past) ]

\* The valuation of the instruments of an account in a month: the rows of the last
\* closing date that the ACCOUNT has in that month.
AssetValuation(isins, a, m) ==
  LET rows == {v \in isins : v.acct = a /\ v.m = m}
      last == {v \in rows : \A w \in rows : w.day <= v.day} IN
  [market |-> Total(LAMBDA v : v.market, last), book |-> Total(LAMBDA v : v.book, last)]

\* Where instruments are held, their market value replaces their book value.
WithMarketValue(balance, a, valuation) ==
  LET market == IF valuation.book > 0
                  THEN balance.Closing_Balance - valuation.book + valuation.market
                  ELSE balance.Closing_Balance IN
  [ act |-> balance.act, Opening_Balance |-> balance.Opening_Balance,
    Closing_Balance |-> balance.Closing_Balance, Organic_Growth |-> balance.Organic_Growth,
    Net_Cashflow_Month |-> balance.Net_Cashflow_Month, All_Time_High |-> balance.All_Time_High,
    Closing_Balance_Market |-> market,
    Liquid |-> IF IsLiquid(a) THEN balance.Closing_Balance ELSE 0,
    Liquid_Market |-> IF IsLiquid(a) THEN market ELSE 0 ]

NetWorthSummary(ledger, grid, dropped, isins) ==
  [m \in grid |-> [a \in LiveAccounts(dropped) |->
     WithMarketValue(Balance(ledger, grid, a, m), a, AssetValuation(isins, a, m))]]
-----------------------------------------------------------------------------
(* Monthly totals, with the market value of the whole portfolio.               *)

\* The portfolio of a month is that of its last closing date over ALL instruments;
\* the exposure to foreign currencies is summed over every closing date.
PortfolioOf(isins, m) ==
  LET rows == {v \in isins : v.m = m}
      last == {v \in rows : \A w \in rows : w.day <= v.day} IN
  [ market  |-> Total(LAMBDA v : v.market, last),
    book    |-> Total(LAMBDA v : v.book, last),
    foreign |-> Total(LAMBDA v : v.market, {v \in rows : v.foreign}) ]

BalanceTotals(summary, m) ==
  LET live == DOMAIN summary[m]
      sum(f(_)) == Total(LAMBDA a : f(summary[m][a]), live)
      above(b) == IF b.Closing_Balance >= 0 THEN b.Closing_Balance ELSE 0
      below(b) == IF b.Closing_Balance < 0 THEN b.Closing_Balance ELSE 0 IN
  [ Income           |-> sum(LAMBDA b : b.act.Income),
    Cash_Income      |-> sum(LAMBDA b : b.act.Income - b.act.Non_Cash_Income),
    Non_Cash_Income  |-> sum(LAMBDA b : b.act.Non_Cash_Income),
    Expense          |-> sum(LAMBDA b : b.act.Expense),
    Core_Expense     |-> sum(LAMBDA b : b.act.Core_Expense),
    Cash_Expense     |-> sum(LAMBDA b : b.act.Expense - b.act.Non_Cash_Expense),
    Non_Cash_Expense |-> sum(LAMBDA b : b.act.Non_Cash_Expense),
    Net_Cashflow     |-> sum(LAMBDA b : b.Net_Cashflow_Month),
    Assets           |-> sum(above),
    Liabilities      |-> -sum(below),
    Liquid_Assets    |-> Total(LAMBDA a : above(summary[m][a]), {a \in live : IsLiquid(a)}),
    Net_Worth        |-> sum(above) + sum(below) ]

\* Where a portfolio is held, its market value replaces its book value.
Revalued(x, portfolio) ==
  IF portfolio.book > 0 THEN x - portfolio.book + portfolio.market ELSE x

\* opening: the closing figure of the row before (0 in the first row).
MonthlyTotals(summary, isins) ==
  [m \in DOMAIN summary |->
     LET t == BalanceTotals(summary, m)
         p == PortfolioOf(isins, m)
         opening == IF m - 1 \in DOMAIN summary
                      THEN BalanceTotals(summary, m - 1).Net_Worth ELSE 0 IN
     [ t |-> t, portfolio |-> p, Assets_Market |-> Revalued(t.Assets, p),
       Net_Worth_Market |-> Revalued(t.Net_Worth, p),
       Liquid_Assets_Market |-> Revalued(t.Liquid_Assets, p),
       Opening_Balance_Asset |-> opening, Asset_Delta |-> t.Net_Worth - opening ]]
=============================================================================
