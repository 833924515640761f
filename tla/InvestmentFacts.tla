---------------------------- MODULE InvestmentFacts ----------------------------
(* From the statements of the brokers to the investment facts of the silver      *)
(* layer: purchases, sales, holdings at a closing date, and the master of the    *)
(* instruments.                                                                  *)
(*                                                                               *)
(* A row is an order or a holding; its id is its place in its file, art the file *)
(* itself.  The two directions of a trade are told by a word in its type.  A     *)
(* price is a whole number, and the values of the orders are multiples of their  *)
(* units.  Identifiers are hashes of their fields: here, the fields.  Columns no  *)
(* fact uses are left out.                                                       *)
EXTENDS HouseholdLedger

CONSTANTS
    NoName,        \* a blank name, or the text a statement without rows shows
    Blank,         \* a null
    BaseCurrency,  \* currency of the household
    SchemeMap,     \* today's name of a fund that was renamed
    FundIsin,      \* ISIN of each fund the mapping lists
    Etfs,          \* ISINs of exchange-traded funds
    TaxType,       \* tax type of each instrument the benchmark mapping lists
    FundAccounts,  \* accounts named for mutual funds
    StockAccounts  \* accounts named for stocks

\* An ISIN is that of one fund, and a null is no number.
ASSUME FactConstants ==
    /\ FundAccounts \cup StockAccounts \subseteq Accounts
    /\ \A f, g \in DOMAIN FundIsin : FundIsin[f] = FundIsin[g] => f = g
    /\ Blank \notin Int

Lookup(map, x, default) == IF x \in DOMAIN map THEN map[x] ELSE default

\* A statement without rows says so in a row of its own.
Listed(rows) == {r \in rows : r.name # NoName}

\* The numbers of every row must be there and finite.
Numeric(rows, fields) == \A r \in rows : \A f \in fields : r[f] # Bad

\* Every row must have a date one of the formats of the column reads.
Dated(rows) == \A r \in rows : r.m # Bad
-----------------------------------------------------------------------------
(* Trades: what the orders of a broker say was bought or sold.                 *)

Trade(isin, name, r, price) ==
  [isin |-> isin, name |-> name, m |-> r.m, units |-> r.units, price |-> price,
   local |-> Blank, rate |-> Blank, ccy |-> Blank, art |-> r.art, id |-> r.id]

PerUnit(value, units) == IF units = 0 THEN 0 ELSE value \div units

FundOrders(rows) == Listed(rows)
FundOrdersValid(rows) ==
  Numeric(FundOrders(rows), {"units", "nav", "amount"}) /\ Dated(FundOrders(rows))

\* A fund is known by its name of today; one the mapping does not list has no ISIN.
\* What the order says it cost is not used: its value is units at the price.
FundTrades(rows, type) ==
  {LET name == Lookup(SchemeMap, r.name, r.name) IN
   Trade(Lookup(FundIsin, name, Blank), name, r, r.nav) :
     r \in {x \in FundOrders(rows) : x.type = type}}

StockOrders(rows) == Listed(rows)
StockOrdersValid(rows) ==
  Numeric(StockOrders(rows), {"units", "value"}) /\ Dated(StockOrders(rows))

\* The status of an order is not looked at.
StockTrades(rows, type) ==
  {Trade(r.isin, r.name, r, PerUnit(r.value, r.units)) :
     r \in {x \in StockOrders(rows) : x.type = type}}

UsOrders(rows) == Listed(rows)
UsOrdersValid(rows) ==
  Dated(UsOrders(rows)) /\ Numeric(UsOrders(rows), {"units", "amount", "rate", "value"})

UsTrades(rows, type) ==
  {[Trade(r.isin, r.name, r, PerUnit(r.value, r.units)) EXCEPT
      !.local = PerUnit(r.amount, r.units), !.rate = r.rate, !.ccy = r.ccy] :
     r \in {x \in UsOrders(rows) : x.type = type}}
-----------------------------------------------------------------------------
(* Purchases and sales of one broker.                                          *)

\* Trades of a file that differ in their units only become one.
PurchaseRef(trades) ==
  LET key(t) == [t EXCEPT !.units = 0, !.id = 0] IN
  {[k EXCEPT !.units = Total(LAMBDA t : t.units, {t \in trades : key(t) = k})] :
     k \in {key(t) : t \in trades}}

\* All that was bought of an instrument until month m and what it cost, whatever
\* was sold since; their quotient is the average price a sale is charged with.
AverageCost(purchases, isin, m) ==
  LET past == {p \in purchases : p.isin = isin /\ p.m <= m} IN
  [value |-> Total(LAMBDA p : p.units * p.price, past), units |-> Total(LAMBDA p : p.units, past)]

SaleRef(sales, purchases) ==
  {[sale |-> s, cost |-> AverageCost(purchases, s.isin, s.m)] : s \in PurchaseRef(sales)}
-----------------------------------------------------------------------------
(* Holdings of one broker at the closing date of a statement.                  *)

Holding(isin, r, units, closing) ==
  [isin |-> isin, name |-> r.name, m |-> r.m, units |-> units, closing |-> closing, ccy |-> BaseCurrency]

FundHoldings(rows) == Listed(rows)
FundHoldingsValid(rows) == Numeric(FundHoldings(rows), {"units", "invested", "current"})

\* The folios of a fund are added up.  Here the name is the one of the statement.
FundMarketRef(rows) ==
  LET of(r) == {x \in FundHoldings(rows) : x.m = r.m /\ x.name = r.name} IN
  {Holding(Lookup(FundIsin, r.name, Blank), r, Total(LAMBDA x : x.units, of(r)),
           Total(LAMBDA x : x.current, of(r))) : r \in FundHoldings(rows)}

\* What a holding cost is optional.
StockHoldings(rows) == Listed(rows)
StockHoldingsValid(rows) == Numeric(StockHoldings(rows), {"units", "price"})

\* Rows of an instrument at one closing and one buying price are added up.
StockMarketRef(rows) ==
  LET of(r) == {x \in StockHoldings(rows) : \A f \in {"m", "isin", "name", "price", "cost"} : x[f] = r[f]}
      units(r) == Total(LAMBDA x : x.units, of(r)) IN
  {Holding(r.isin, r, units(r), units(r) * r.price) : r \in StockHoldings(rows)}
-----------------------------------------------------------------------------
(* Masters: the instruments a broker's rows are about.  A class hangs on the   *)
(* account named for it; without the account the master is empty.              *)

Instrument(isin, class, acct, ccy) == [isin |-> isin, class |-> class, acct |-> acct, ccy |-> ccy]

FundMaster(market, bought, sold, dropped) ==
  {Instrument(i, "Mutual Funds", a, Blank) :
     i \in {x.isin : x \in market \cup bought \cup sold}, a \in FundAccounts \ dropped}

\* Only what a statement of holdings shows is an instrument, an order is not enough.
StockMaster(rows, dropped) ==
  {Instrument(r.isin, IF r.isin \in Etfs THEN "ETFs" ELSE "Direct Stocks", a, BaseCurrency) :
     r \in StockHoldings(rows), a \in StockAccounts \ dropped}

UsMaster(rows, dropped) ==
  {Instrument(r.isin, "US Stocks", a, r.ccy) : r \in UsOrders(rows), a \in StockAccounts \ dropped}
-----------------------------------------------------------------------------
(* The three brokers.                                                          *)

FundPipeline(st, dropped) ==
  LET market == FundMarketRef(st.fundHoldings)
      bought == FundTrades(st.fundOrders, "PURCHASE")
      sold == FundTrades(st.fundOrders, "REDEEM") IN
  [ market |-> market, purchases |-> PurchaseRef(bought),
    sales |-> SaleRef(sold, PurchaseRef(bought)),
    master |-> FundMaster(market, bought, sold, dropped) ]

StockPipeline(st, dropped) ==
  LET purchases == PurchaseRef(StockTrades(st.stockOrders, "BUY")) IN
  [ market |-> StockMarketRef(st.stockHoldings), purchases |-> purchases,
    sales |-> SaleRef(StockTrades(st.stockOrders, "SELL"), purchases),
    master |-> StockMaster(st.stockHoldings, dropped) ]

\* The holdings abroad come from no statement.
UsPipeline(st, dropped) ==
  LET purchases == PurchaseRef(UsTrades(st.usOrders, "BUY")) IN
  [ market |-> {}, purchases |-> purchases,
    sales |-> SaleRef(UsTrades(st.usOrders, "SELL"), purchases),
    master |-> UsMaster(st.usOrders, dropped) ]

StatementsValid(st) ==
  /\ FundHoldingsValid(st.fundHoldings) /\ FundOrdersValid(st.fundOrders)
  /\ StockHoldingsValid(st.stockHoldings) /\ StockOrdersValid(st.stockOrders)
  /\ UsOrdersValid(st.usOrders)
-----------------------------------------------------------------------------
(* The facts.                                                                  *)

\* A blank currency is the household's, and only that one has a rate of 1 unsaid.
WithCurrency(f) ==
  LET ccy == IF f.ccy = Blank THEN BaseCurrency ELSE f.ccy IN
  [f EXCEPT !.ccy = ccy, !.rate = IF @ = Blank /\ ccy = BaseCurrency THEN 1 ELSE @]

WithLocalPrice(f) == [f EXCEPT !.local = IF @ = Blank THEN f.price ELSE @]

\* Names are dropped, and rows that are then equal are one.
PurchaseFacts(refs) ==
  {WithLocalPrice(WithCurrency([f EXCEPT !.name = Blank])) : f \in UNION refs}

SaleFacts(refs) ==
  {[s EXCEPT !.sale = WithLocalPrice(WithCurrency([@ EXCEPT !.name = Blank]))] : s \in UNION refs}

MarketFacts(refs) == {[h EXCEPT !.name = Blank] : h \in UNION refs}

PurchaseId(f) == <<f.isin, f.m, f.price, f.units, f.ccy>>

SaleId(s) == <<s.sale.isin, s.sale.m, s.sale.price, s.sale.units, s.sale.ccy>>

\* Of several rows for an ISIN any one is kept.
InvestmentMaster(refs) ==
  LET rows == UNION refs
      one(i) == CHOOSE r \in rows : r.isin = i IN
  {[isin |-> i, class |-> one(i).class, acct |-> one(i).acct,
    ccy |-> IF one(i).ccy = Blank THEN BaseCurrency ELSE one(i).ccy,
    tax |-> Lookup(TaxType, i, Blank)] : i \in {r.isin : r \in rows}}

InvestmentFactsOf(st, dropped) ==
  LET brokers == {FundPipeline(st, dropped), StockPipeline(st, dropped), UsPipeline(st, dropped)} IN
  [ market    |-> MarketFacts({b.market : b \in brokers}),
    purchases |-> PurchaseFacts({b.purchases : b \in brokers}),
    sales     |-> SaleFacts({b.sales : b \in brokers}),
    master    |-> InvestmentMaster({b.master : b \in brokers}) ]

\* An instrument without an ISIN or a tax type stops the load.
MasterComplete(master) == \A i \in master : i.isin # Blank /\ i.tax # Blank

\* The keys and references of the fact tables.
FactsLoadable(inv) ==
  LET unique(id(_), rows) == \A a, b \in rows : id(a) = id(b) => a = b
      known == {i.isin : i \in inv.master} IN
  /\ MasterComplete(inv.master)
  /\ unique(PurchaseId, inv.purchases) /\ unique(SaleId, inv.sales)
  /\ {f.isin : f \in inv.purchases \cup inv.market} \cup {s.sale.isin : s \in inv.sales} \subseteq known
=============================================================================
