----------------------------- MODULE FinanceBooks ------------------------------
(* The analytical half of a pipeline run over the household's data: silver      *)
(* facts, tax, wealth and presentation tables, and the load that replaces the   *)
(* published layers with them.                                                  *)
(*                                                                              *)
(* Between runs the household enters and deletes rows, accounts and categories, *)
(* invests, and changes the rules.  A run reads what is there when it starts.   *)
(* It refuses at the step that finds something wrong, and the layers published  *)
(* before stay.  The facts of the investments come from the brokers' statements; *)
(* the valuations and realized gains, which LotAccounting and IsinPool are about, *)
(* come as given with them.                                                     *)
EXTENDS TaxBooks, InvestmentFacts

CONSTANTS
    Batches,     \* sets of journal rows the household enters together
    OpeningRows, \* opening balances it may enter
    Deletable,   \* accounts and categories it may delete
    RuleSets,    \* tax rules it may write
    FirstRules,  \* those it starts with
    Positions,   \* statements of its brokers, with the lots and gains they amount to
    MacroRate,   \* ordinary tax rate by financial year
    Inflation,   \* inflation by the first month of a financial year
    Fallback,    \* inflation the rules fall back to
    BudgetPct,   \* percentages of income for each use
    Target,      \* target weight of an instrument class, in percent
    Tolerance,   \* drift that calls for rebalancing, in percent points
    MaxEntries   \* bound on what the household does before a run

VARIABLES
    journal,    \* rows of the household's journal
    openings,   \* opening balances
    dropped,    \* deleted accounts and categories
    rules,      \* tax rules
    position,   \* investments
    entries,    \* how much was entered
    stage,      \* phase of the run
    silver, tax, books, presented,  \* tables of the run
    published   \* what the last successful load left in the warehouse

inputs == <<journal, openings, dropped, rules, position, entries>>
booksVars == <<inputs, stage, silver, tax, books, presented, published>>

NoTable == [none |-> TRUE]
NoPosition == [fundOrders |-> {}, fundHoldings |-> {}, stockOrders |-> {},
               stockHoldings |-> {}, usOrders |-> {}, lots |-> {}, realized |-> {}]

ASSUME BooksConstants ==
    /\ FirstRules \in RuleSets /\ MaxEntries \in Nat
    /\ \A p \in Positions : DOMAIN p = DOMAIN NoPosition

\* Orders of a broker: each has a place of its own in its file.
OrdersKept(orders) ==
    /\ IsFiniteSet(orders)
    /\ \A r \in orders : r.m \in Nat \cup {Bad} /\ r.units \in Nat \cup {Bad}
    /\ \A r, s \in orders : r.art = s.art /\ r.id = s.id => r = s

\* Orders that give a value, a multiple of their units, and an ISIN, which in one
\* file has one name and one currency.
ValuesKept(orders) ==
    /\ \A r \in orders : r.value \in Int \cup {Bad}
    /\ \A r \in orders : {r.units, r.value} \subseteq Int =>
                          r.value = r.units * PerUnit(r.value, r.units)
    /\ \A r, s \in orders : r.art = s.art /\ r.isin = s.isin => r.name = s.name

HoldingsKept(holdings) == IsFiniteSet(holdings) /\ \A h \in holdings : h.m \in Nat

\* A file is of one broker.
FilesApart(orders, others) == \A r \in orders, s \in others : r.art # s.art

PositionKept(p) ==
    /\ IsFiniteSet(p.realized) /\ \A e \in p.realized : e.gain \in Int
    /\ HoldingsKept(p.fundHoldings) /\ HoldingsKept(p.stockHoldings)
    /\ OrdersKept(p.fundOrders) /\ \A r \in p.fundOrders : r.nav \in Int \cup {Bad}
    /\ OrdersKept(p.stockOrders) /\ ValuesKept(p.stockOrders)
    /\ OrdersKept(p.usOrders) /\ ValuesKept(p.usOrders)
    /\ \A r \in p.usOrders : r.amount \in Int \cup {Bad} /\ r.rate \in Int \cup {Bad}
    /\ \A r, s \in p.usOrders : r.art = s.art /\ r.isin = s.isin => r.ccy = s.ccy
    /\ FilesApart(p.fundOrders, p.stockOrders) /\ FilesApart(p.fundOrders, p.usOrders)
    /\ FilesApart(p.stockOrders, p.usOrders)

\* The data of the household.  A journal has finitely many rows, each in a month on
\* an account there is, and its legs have ids of their own; an account has one
\* opening balance of a date; months and amounts are numbers.
ASSUME BooksData ==
    /\ IsFiniteSet(Accounts)
    /\ \A b \in Batches : IsFiniteSet(b)
    /\ \A r \in UNION Batches : r.amt \in Int \cup {Bad} /\ r.m \in Nat /\ r.acct \in Accounts
    /\ \A a, b \in {r \in UNION Batches : r.type \in {LEG_OUT, LEG_IN}} : a.id = b.id => a = b
    /\ \A o \in OpeningRows : o.amt \in Int \cup {Bad} /\ o.m \in Nat /\ o.acct \in Accounts
    /\ \A o, p \in OpeningRows : o.acct = p.acct /\ o.m = p.m => o = p
    /\ \A p \in Positions : PositionKept(p)

BooksInit ==
    /\ journal = {} /\ openings = {} /\ dropped = {} /\ rules = FirstRules
    /\ position = NoPosition /\ entries = 0 /\ stage = "idle"
    /\ silver = NoTable /\ tax = NoTable /\ books = NoTable /\ presented = NoTable
    /\ published = NoTable
-----------------------------------------------------------------------------
(* The household.                                                              *)

Entry ==
    /\ stage = "idle" /\ published = NoTable /\ entries < MaxEntries
    /\ entries' = entries + 1
    /\ UNCHANGED <<stage, silver, tax, books, presented, published>>

Enter(batch) ==
    /\ Entry
    /\ ~(batch \subseteq journal)
    /\ journal' = journal \cup batch
    /\ UNCHANGED <<openings, dropped, rules, position>>

EnterOpening(o) ==
    /\ Entry
    /\ o \notin openings
    /\ openings' = openings \cup {o}
    /\ UNCHANGED <<journal, dropped, rules, position>>

Delete(x) ==
    /\ Entry
    /\ x \notin dropped
    /\ dropped' = dropped \cup {x}
    /\ UNCHANGED <<journal, openings, rules, position>>

Invest(p) ==
    /\ Entry
    /\ position # p
    /\ position' = p
    /\ UNCHANGED <<journal, openings, dropped, rules>>

WriteRules(rs) ==
    /\ Entry
    /\ rules # rs
    /\ rules' = rs
    /\ UNCHANGED <<journal, openings, dropped, position>>
-----------------------------------------------------------------------------
(* The run.                                                                    *)

\* The run fails: its tables are gone, the published layers stay.
Refuse ==
    /\ stage' = "refused"
    /\ silver' = NoTable /\ tax' = NoTable /\ books' = NoTable /\ presented' = NoTable
    /\ UNCHANGED <<inputs, published>>

\* The rules are read first; rules that contradict themselves stop the run.
ReadRules ==
    /\ stage = "idle" /\ published = NoTable
    /\ IF RulesValid(rules)
         THEN stage' = "transforming" /\ UNCHANGED <<inputs, silver, tax, books, presented, published>>
         ELSE Refuse

DatesOf(inc, exp, trn, inv) ==
  {r.m : r \in inc \cup exp \cup trn} \cup ({o.m : o \in openings} \ {NoDate})
    \cup {f.m : f \in inv.market \cup inv.purchases} \cup {s.sale.m : s \in inv.sales}

InputsValid ==
    AmountsValid(journal) /\ (\A o \in openings : o.amt # Bad) /\ StatementsValid(position)

SilverTables ==
  LET inc == IncomeFacts(journal)
      exp == ExpenseFacts(journal)
      trn == TransferFacts(journal, dropped)
      inv == InvestmentFactsOf(position, dropped) IN
  [inc |-> inc, exp |-> exp, trn |-> trn, inv |-> inv,
   calendar |-> CalendarSpine(DatesOf(inc, exp, trn, inv))]

BuildFacts ==
    /\ stage = "transforming"
    /\ IF InputsValid
         THEN /\ silver' = SilverTables
              /\ stage' = "taxing"
              /\ UNCHANGED <<inputs, tax, books, presented, published>>
         ELSE Refuse

\* Rules that name what is not there, or two events of one key, stop the run.
RunTax ==
    /\ stage = "taxing"
    /\ IF /\ RulesKnown(rules, dropped)
          /\ EventKeysUnique(silver.inc, position.realized, rules, dropped)
         THEN LET events ==
                    TaxEvents(silver.inc, position.realized, rules, dropped, MacroRate) IN
              /\ tax' = [events |-> events, year |-> TaxYearSummary(events),
                         breakdown |-> TaxIncomeBreakdown(events),
                         recon |-> TaxReconciliation(events,
                                     LedgerEvidence(silver.inc, rules, dropped), rules)]
              /\ stage' = "wealth"
              /\ UNCHANGED <<inputs, silver, books, presented, published>>
         ELSE Refuse

WealthTables(s) ==
  LET grid == MonthGrid(openings, s.calendar)
      ledger == UnifiedLedger(openings, s.inc, s.exp, s.trn, dropped)
      summary == NetWorthSummary(ledger, grid, dropped, position.lots) IN
  [summary |-> summary, totals |-> MonthlyTotals(summary, position.lots),
   inflation |-> [m \in grid |-> InflationOf(m, Inflation, Fallback)]]

BuildWealth ==
    /\ stage = "wealth"
    /\ books' = WealthTables(silver)
    /\ stage' = "presenting"
    /\ UNCHANGED <<inputs, silver, tax, presented, published>>

\* Purchases and sales as the tables of the household see them.
Trades(inv) ==
  {[m |-> f.m, buy |-> TRUE, value |-> f.units * f.price, id |-> <<f.art, PurchaseId(f)>>] :
     f \in inv.purchases}
    \cup {[m |-> s.sale.m, buy |-> FALSE, value |-> s.sale.units * s.sale.price,
           id |-> <<s.sale.art, SaleId(s)>>] : s \in inv.sales}

PresentationTables(s, wealth) ==
  LET trades == Trades(s.inv)
      totals == wealth.totals
      months == DOMAIN totals IN
  [ statement |-> CashflowStatement(wealth.summary, totals, s.inc, s.exp, s.trn, dropped),
    summary   |-> MonthlySummary(totals, s.inc, trades),
    spend     |-> SpendAnalytics(s.exp, months, dropped),
    streams   |-> IncomeStreams(s.inc, months),
    budget    |-> Budget(totals, trades, BudgetPct, 6),
    holdings  |-> [m \in months |-> InvestmentAnalytics(position.lots, m, Target, Tolerance)] ]

Present ==
    /\ stage = "presenting"
    /\ presented' = PresentationTables(silver, books)
    /\ stage' = "loading"
    /\ UNCHANGED <<inputs, silver, tax, books, published>>

\* The keys and references the warehouse tables declare; a calendar of no dates is
\* one blank day, which its key refuses.
Loadable(s) ==
  LET live(x) == x \notin dropped
      dated == {r.m : r \in s.inc \cup s.exp}
                 \cup UNION {{r.m, r.analysed} : r \in s.trn} \cup {o.m : o \in openings}
      keyed(facts) == \A a, b \in facts : a.id = b.id => a = b IN
  /\ \A r \in s.inc \cup s.exp : live(r.acct) /\ live(r.cat)
  /\ \A r \in s.trn : live(r.acct) /\ live(r.to)
  /\ \A o \in openings : live(o.acct) /\ o.m # NoDate
  /\ keyed(s.inc) /\ keyed(s.exp) /\ keyed(s.trn) /\ keyed(openings)
  /\ FactsLoadable(s.inv)
  /\ s.calendar # {} /\ dated \subseteq s.calendar

LoadTables ==
    /\ stage = "loading"
    /\ IF Loadable(silver)
         THEN /\ published' = [silver |-> silver, tax |-> tax, books |-> books, marts |-> presented]
              /\ stage' = "idle"
              /\ silver' = NoTable /\ tax' = NoTable /\ books' = NoTable /\ presented' = NoTable
              /\ UNCHANGED inputs
         ELSE Refuse

BooksNext ==
    \/ \E b \in Batches : Enter(b)
    \/ \E o \in OpeningRows : EnterOpening(o)
    \/ \E x \in Deletable : Delete(x)
    \/ \E p \in Positions : Invest(p)
    \/ \E rs \in RuleSets : WriteRules(rs)
    \/ ReadRules \/ BuildFacts \/ RunTax \/ BuildWealth \/ Present \/ LoadTables

BooksSpec == BooksInit /\ [][BooksNext]_booksVars
-----------------------------------------------------------------------------
(* Properties of what a run publishes.                                         *)

Stages == {"idle", "transforming", "taxing", "wealth", "presenting", "loading", "refused"}

BooksTypeOK ==
    /\ journal \subseteq UNION Batches /\ openings \subseteq OpeningRows
    /\ dropped \subseteq Deletable /\ rules \in RuleSets
    /\ position \in Positions \cup {NoPosition} /\ entries \in 0..MaxEntries
    /\ stage \in Stages

Grid == DOMAIN published.books.totals
Facts == published.silver

\* What a leg moves: how much, when, and between which accounts.
Legs(type) == {r \in ActiveRows(journal) : r.type = type}
Movement(r) ==
  [m |-> r.m, amt |-> r.amt, from |-> IF r.type = LEG_OUT THEN r.acct ELSE r.to,
   to |-> IF r.type = LEG_OUT THEN r.to ELSE r.acct]

\* Of its movement as many legs were entered out of the one account as into the other.
Paired(r) ==
  LET halves(type) == {x \in Legs(type) : Movement(x) = Movement(r)} IN
  Cardinality(halves(LEG_OUT)) = Cardinality(halves(LEG_IN))

\* The legs of the other movements, with their sign.
LooseLegs == {[m |-> r.m, acct |-> r.acct, to |-> r.to, id |-> r.id,
               amt |-> IF r.type = LEG_IN THEN r.amt ELSE -r.amt] :
                 r \in {x \in Legs(LEG_OUT) \cup Legs(LEG_IN) : ~Paired(x)}}

\* The opening balance that counts: the latest entered for the account.
Opened(a) ==
  LET own == {o \in openings : o.acct = a} IN
  IF own = {} THEN {} ELSE {CHOOSE o \in own : \A p \in own : o.m >= p.m}

\* What the household owns at the end of month m, from the rows it entered.
OwnWorth(m) ==
  LET counted(rows) == Amount({r \in rows : r.m \in Grid /\ r.m <= m}) IN
  counted(UNION {Opened(a) : a \in LiveAccounts(dropped)}) + counted(Facts.inc)
    - counted(Facts.exp) + counted(LooseLegs)

\* What the statements say went into investments in month m, less what came out.
Invested(m) ==
  LET in(rows, buy, sell, value(_)) ==
        Total(value, {r \in Listed(rows) : r.m = m /\ r.type = buy})
          - Total(value, {r \in Listed(rows) : r.m = m /\ r.type = sell}) IN
  in(position.fundOrders, "PURCHASE", "REDEEM", LAMBDA r : r.units * r.nav)
    + in(position.stockOrders, "BUY", "SELL", LAMBDA r : r.value)
    + in(position.usOrders, "BUY", "SELL", LAMBDA r : r.value)

\* Before the load, every fact and every month it is analysed in has its day.
CalendarCovers ==
  stage = "loading" =>
    \A r \in silver.inc \cup silver.exp \cup silver.trn :
      r.m \in silver.calendar /\ (r \in silver.trn => r.analysed \in silver.calendar)

\* Net worth is what the rows amount to, and no balance grows by itself.
NetWorthExplained(m) ==
  LET t == published.books.totals[m].t IN
  /\ t.Net_Worth = OwnWorth(m) /\ t.Assets - t.Liabilities = t.Net_Worth
  /\ \A a \in LiveAccounts(dropped) : published.books.summary[m][a].Organic_Growth = 0

\* The statement explains the cash of the month, which goes on in the next.
CashExplained(m) ==
  LET statement == published.marts.statement
      cash == CashPool(dropped) IN
  /\ statement[m].Unreconciled_Difference =
       Amount({r \in In(Facts.trn, m) :
                 r.acct \in cash /\ CounterpartyType(r.to, dropped) = "UNCLASSIFIED"})
  /\ statement[m].Net_Internal_Transfers =
       Amount({r \in In(LooseLegs, m) : r.acct \in cash /\ r.to \in cash})
  /\ m + 1 \in Grid =>
       statement[m + 1].Opening_Cash =
         statement[m].Closing_Cash + Amount(In(UNION {Opened(a) : a \in cash}, m + 1))

\* The tables by category add up to the totals.
CategoriesAddUp(m) ==
  LET t == published.books.totals[m].t
      spend == published.marts.spend[m]
      streams == published.marts.streams[m] IN
  /\ Total(LAMBDA c : spend[c].Spend, DOMAIN spend) = t.Expense
  /\ Total(LAMBDA c : spend[c].Cash_Spend, DOMAIN spend) = t.Cash_Expense
  /\ Total(LAMBDA c : streams[c].Income, DOMAIN streams) = t.Income

BudgetAgrees(m) ==
  published.marts.budget[m].actual.savings = published.marts.summary[m].Net_Surplus_After_Invest

\* What the summary shows as invested is what the orders of the month come to.
InvestmentsAgree(m) == published.marts.summary[m].Net_Investment_Flow = Invested(m)

\* The tables of a published run agree with the journal and with each other.  Net
\* worth is opening balances plus income less spending: a transfer between accounts
\* changes nothing, and nothing grows unexplained.  The cash statement explains the
\* movement of the cash but for the legs whose counterparty is unclassified, and
\* this month's closing cash is the next one's opening but for balances booked
\* then.  Categories add up to the totals, the budget to the summary, and what the
\* summary shows as invested is what the orders of the month come to.  Before the
\* load, every fact and every month it is analysed in has its calendar day.
BooksBalance ==
  /\ BooksTypeOK /\ CalendarCovers
  /\ published # NoTable =>
       \A m \in Grid : /\ NetWorthExplained(m) /\ CashExplained(m) /\ CategoriesAddUp(m)
                       /\ BudgetAgrees(m) /\ InvestmentsAgree(m)

\* Every active income row is in the tax tables exactly once: as the event of its
\* sub-head, as non-taxable income, or as an excluded investment gain.  Only a tax
\* credit claimed under a non-taxable sub-head is there twice, as a credit and as
\* non-taxable income.  The yearly summary, the breakdown by income and the
\* reconciliation carry the same amounts, and a year's estimate on the ledger is
\* complete when, and only when, none of its ledger events must be checked.
IncomeTaxedOnce ==
  published # NoTable =>
    LET x == published.tax
        shown(r) ==
          Cardinality({e \in x.events : e.source \in {"LEDGER", "TAX_CREDIT"} /\ e.id = r.id})
          + Cardinality({k \in DOMAIN x.recon :
               \E e \in x.recon[k].Non_Taxable \cup x.recon[k].Excluded_Investment : e.id = r.id})
        twice(c) == /\ c \in CreditCats(rules)
                    /\ TaxMapOf(c, rules, dropped).taxability = "non_taxable" IN
    /\ \A r \in Facts.inc : shown(r) = IF twice(r.cat) THEN 2 ELSE 1
    /\ \A fy \in DOMAIN x.year, s \in Sources :
         LET amount == x.year[fy].of[s].amount IN
         /\ amount = Total(LAMBDA k : x.breakdown[k].amount,
                           {k \in DOMAIN x.breakdown : k.fy = fy /\ k.source = s})
         /\ amount = Total(LAMBDA k : CASE s = "LEDGER" -> x.recon[k].Ledger.amount
                                        [] s = "QUANT" -> x.recon[k].Quant.amount
                                        [] OTHER -> x.recon[k].Tax_Credit.amount,
                           {k \in DOMAIN x.recon : k[1] = fy})
    /\ \A fy \in DOMAIN x.year :
         LET ledger == {e \in From(x.events, "LEDGER") : e.fy = fy} IN
         ledger # {} => (x.year[fy].of["LEDGER"].complete
                           <=> \A e \in ledger : e.status = "READY")
=============================================================================
