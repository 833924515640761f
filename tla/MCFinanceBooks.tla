---------------------------- MODULE MCFinanceBooks -----------------------------
(* A household with two cash accounts, a fund, an account of non-cash gains, a  *)
(* loan and one account without a role.  A financial year starts in month 4,    *)
(* the month of the run, and month 5 is in the future.                          *)
EXTENDS FinanceBooks

MCRole ==
  [a \in {"bank", "wallet", "fund", "perks", "loan", "misc"} |->
     CASE a \in {"bank", "wallet"} -> "CASH_POOL" [] a = "fund" -> "INVESTING_ASSET"
       [] a = "perks" -> "NON_CASH_PNL" [] a = "loan" -> "FINANCING_LIABILITY"
       [] a = "misc" -> "UNCLASSIFIED"]

MCParent ==
  [c \in {"salary", "interest", "bonus", "relief", "gain", "tds"} |->
     IF c = "interest" THEN "savings" ELSE "work"]

Row(type, acct, to, cat, m, amt, id) ==
  [type |-> type, acct |-> acct, to |-> to, cat |-> cat, m |-> m, amt |-> amt,
   del |-> FALSE, id |-> id]
Income(acct, cat, m, amt, id) == Row(INCOME, acct, "none", cat, m, amt, id)
Spent(acct, cat, m, amt, id) == Row(EXPENSE, acct, "none", cat, m, amt, id)
Moved(from, to, m, amt, id) ==
  {Row(LEG_OUT, from, to, "none", m, amt, id), Row(LEG_IN, to, from, "none", m, amt, -id)}

MCBatches ==
  { {Income("bank", "salary", 2, 5, 1), Spent("bank", "rent", 3, 3, 2)},
    {Income("bank", "interest", 4, 2, 3), Income("bank", "gain", 3, 4, 4)},
    {Income("perks", "bonus", 3, 2, 5), Spent("perks", "food", 3, 1, 6)},
    {Income("bank", "relief", 2, 3, 7), Income("bank", "tds", 4, 1, 8)},
    Moved("bank", "fund", 2, 2, 9),
    Moved("bank", "wallet", 4, 1, 10) \cup {Row(LEG_OUT, "bank", "misc", "none", 3, 1, 11)},
    {Row(LEG_IN, "bank", "wallet", "none", 3, 2, 12)},
    Moved("loan", "bank", 5, 6, 13),
    {[Spent("bank", "food", 4, Bad, 14) EXCEPT !.del = TRUE], Spent("wallet", "food", 4, 2, 15)},
    {Income("bank", "salary", 3, Bad, 16)},
    {Income("wallet", "salary", 3, 5, 1)} }

Opening(acct, m, amt, id) == [acct |-> acct, m |-> m, amt |-> amt, id |-> id]
MCOpeningRows ==
  { Opening("bank", 2, 10, 1), Opening("bank", 4, 20, 2), Opening("bank", 5, 30, 3),
    Opening("loan", 3, -4, 4), Opening("fund", NoDate, 5, 5) }

MCDeletable == {"misc", "fund", "tds", "interest"}

SubHead(sub, head, taxability, parents, cats, credits) ==
  [sub |-> sub, head |-> head, taxability |-> taxability, parents |-> parents,
   cats |-> cats, credits |-> credits]
Salary(credits) == SubHead("Salary", "Salary", "taxable", {}, {"salary", "bonus"}, credits)
Exempt(credits) == SubHead("Exempt", "Other", "non_taxable", {}, {"relief"}, credits)
Savings == SubHead("Savings", "Other", "taxable", {"savings"}, {}, {})
Books(subHeads) == [subHeads |-> subHeads, stcg |-> {"gain"}, ltcg |-> {}]

\* The second set files the credit under an exempt sub-head and leaves interest to
\* review; the third claims one category twice.
MCFirstRules == Books({Salary({"tds"}), Exempt({}), Savings})
MCRuleSets ==
  { MCFirstRules, Books({Salary({}), Exempt({"tds"})}),
    Books({Salary({"relief"}), Exempt({}), Savings}) }

Lot(isin, class, m, day, book, market, foreign) ==
  [isin |-> isin, acct |-> "fund", class |-> class, m |-> m, day |-> day, book |-> book,
   market |-> market, foreign |-> foreign]
Gain(id, m, type, subtype, acquired, holding, gain, reconciled, due) ==
  [id |-> id, m |-> m, gain |-> gain, type |-> type, subtype |-> subtype,
   acquired |-> acquired, holding |-> holding, reconciled |-> reconciled,
   unidentified |-> FALSE, rate |-> 1, tax |-> due]
\* Funds "A" and "B", the stocks "C" and, abroad, "D"; art is the statement.
FundOrder(name, type, m, units, nav, art, id) ==
  [name |-> name, type |-> type, m |-> m, units |-> units, nav |-> nav,
   amount |-> units * nav, art |-> art, id |-> id]
FundHolding(name, m, units, current, id) ==
  [name |-> name, m |-> m, units |-> units, invested |-> units, current |-> current, id |-> id]
StockOrder(isin, type, m, units, value, art, id) ==
  [name |-> isin, isin |-> isin, type |-> type, m |-> m, units |-> units, value |-> value,
   art |-> art, id |-> id]
StockHolding(isin, m, units, price, cost, id) ==
  [name |-> isin, isin |-> isin, m |-> m, units |-> units, price |-> price, cost |-> cost, id |-> id]
UsOrder(isin, type, m, units, amount, rate, art, id) ==
  [name |-> isin, isin |-> isin, type |-> type, m |-> m, units |-> units, amount |-> amount,
   rate |-> rate, value |-> amount * rate, ccy |-> "USD", art |-> art, id |-> id]

\* One fund under its old and its new name, two orders at one price, a switch, an
\* empty statement; a stock bought and sold; a stock abroad.
MCSound ==
  [ fundOrders |-> {FundOrder("a", "PURCHASE", 2, 2, 1, "f1", 1), FundOrder("a", "PURCHASE", 2, 2, 1, "f1", 2),
                    FundOrder("old a", "PURCHASE", 3, 1, 2, "f2", 1), FundOrder("a", "REDEEM", 4, 1, 3, "f3", 1),
                    FundOrder("b", "SWITCH", 3, 1, 1, "f2", 2),
                    FundOrder(NoName, "PURCHASE", Bad, 1, 1, "f4", 1)},
    fundHoldings |-> {FundHolding("a", 2, 2, 3, 1), FundHolding("a", 2, 1, 2, 2), FundHolding("b", 2, 1, 1, 3)},
    stockOrders |-> {StockOrder("C", "BUY", 2, 1, 2, "s1", 1), StockOrder("C", "SELL", 3, 1, 3, "s1", 2)},
    stockHoldings |-> {StockHolding("C", 2, 1, 2, 2, 1), StockHolding("E", 2, 0, 1, Bad, 2)},
    usOrders |-> {UsOrder("D", "BUY", 3, 2, 4, 2, "u1", 1), UsOrder("D", "SELL", 4, 1, 3, 2, "u1", 2)},
    lots |-> {Lot("A", "equity", 2, 1, 2, 3, FALSE), Lot("B", "debt", 2, 2, 1, 1, TRUE)},
    realized |-> {Gain(101, 4, "equity", "listed", 2, "ST", 1, FALSE, 1),
                  Gain(102, 4, "debt", "mf", 2, "LT", 2, FALSE, 0),
                  Gain(103, 4, "gold", "etf", 2, "LT", 1, TRUE, Null)} ]

\* The same with a fund the mapping does not know, with a stock no statement of
\* holdings shows, with an order in two statements, with a price that is no number.
MCPositions ==
  { MCSound,
    [MCSound EXCEPT !.fundOrders = @ \cup {FundOrder("c", "PURCHASE", 3, 1, 1, "f2", 9)}],
    [MCSound EXCEPT !.stockOrders = @ \cup {StockOrder("G", "BUY", 3, 1, 1, "s1", 9)}],
    [MCSound EXCEPT !.stockOrders = @ \cup {StockOrder("C", "BUY", 2, 1, 2, "s2", 1)}],
    [MCSound EXCEPT !.fundHoldings = @ \cup {FundHolding("b", 3, 1, Bad, 9)}] }

MCSchemeMap == [n \in {"old a"} |-> "a"]
MCFundIsin == [n \in {"a", "b"} |-> IF n = "a" THEN "A" ELSE "B"]
MCTaxType == [i \in {"A", "B", "C", "D", "E"} |-> "equity"]

MCMacroRate == [fy \in {0} |-> 2]
MCInflation == [m \in {1} |-> 6]
MCBudgetPct == [core |-> 50, nonCore |-> 30, investment |-> 20]
MCTarget == [c \in {"equity", "debt"} |-> 50]
=============================================================================
