----------------------------- MODULE LotAccounting -----------------------------
(* One instrument's history replayed by IsinProcessor.process: a FIFO queue of *)
(* tax lots driven by purchases, sales and the broker's market rows, ended by  *)
(* the trades after the last row.                                              *)
(*                                                                             *)
(* Quantities count grains: one grain is the code's tolerance of 1e-8, so each *)
(* comparison with the tolerance is an exact comparison with one grain.  Lot   *)
(* prices are integers over the denominator den, which a cost adjustment       *)
(* changes.  The records are not fixed at the start: each is chosen when a     *)
(* loop of the code reaches it.  Benchmark shadows, local-currency prices and  *)
(* tax rates follow a lot without steering it and are left out.                *)
EXTENDS Integers, Sequences

CONSTANTS
    MaxDay,     \* market rows carry the dates 1..MaxDay
    MaxBuys,    \* bound on the purchases of the instrument
    MaxSales,   \* bound on its sales
    MaxScalings,\* bound on the cost adjustments
    BuyQtys, BuyPrices, SaleQtys,
    Reports,    \* quantities a market row may report
    Bases,      \* cost bases a market row may report, as an amount or Absent
    Absent      \* the row leaves its cost basis blank

ASSUME LotConstants ==
    /\ MaxDay \in Nat \ {0} /\ MaxBuys \in Nat /\ MaxSales \in Nat
    /\ MaxScalings \in Nat
    /\ BuyQtys \subseteq Nat \ {0} /\ SaleQtys \subseteq Nat \ {0}
    /\ BuyPrices \subseteq Nat \ {0} /\ Reports \subseteq Nat
    /\ Bases \ {Absent} \subseteq Nat /\ Absent \notin Nat

Beyond == MaxDay + 1      \* the replay of the trades after the last market row
NoPurchase == 0

VARIABLES
    step,       \* what the replay does next
    upto,       \* records dated up to this date are read now
    firstBuy,   \* the date of the first purchase, or NoPurchase
    unread,     \* the earliest date of an unread purchase and of an unread sale
    count,      \* purchases, sales and cost adjustments so far
    lots,       \* the open lots, oldest first
    den,        \* the denominator of the lot prices
    acquired,   \* units of every lot ever opened, in opening order
    gone,       \* units that realized and removal events took from each of them
    costTrail,  \* cost bought, plus adjustments, less cost disposed of and removed
    reported,   \* the quantity in the row reconciled last
    valued      \* the market days with lot snapshots

vars == <<step, upto, firstBuy, unread, count, lots, den, acquired, gone,
          costTrail, reported, valued>>

Units(s) ==
  LET sum[k \in 0..Len(s)] == IF k = 0 THEN 0 ELSE sum[k - 1] + s[k]
  IN sum[Len(s)]

Quantities(q) == [i \in DOMAIN q |-> q[i].qty]
Costs(q) == [i \in DOMAIN q |-> q[i].qty * q[i].price]
Open == Units(Quantities(lots))
Cost(q) == Units(Costs(q))
-----------------------------------------------------------------------------
\* Faulty: the whole of a lot that is split.
TookWholeLot(due, lot, whole) == lot.qty

\* What taking qty grains from the front of queue q does: a lot no larger than
\* what is still due plus one grain is closed, a larger one is split.  took is
\* the event quantity of each lot reached; a sale records no more than was due,
\* a removal the whole lot.
Took(due, lot, whole) ==
  IF lot.qty <= due + 1 THEN (IF whole \/ lot.qty <= due THEN lot.qty ELSE due)
  ELSE due

Piece(lot, n) == [id |-> lot.id, qty |-> n, cost |-> n * lot.price]

\* Faulty: only the oldest lot is reached.
ConsumeOneLot(q, qty, whole) ==
  IF q = <<>> THEN [due |-> qty, rest |-> q, took |-> <<>>]
  ELSE LET lot == Head(q)
       IN [due  |-> qty,
           rest |-> IF lot.qty <= qty + 1 THEN Tail(q)
                    ELSE <<[lot EXCEPT !.qty = @ - qty]>> \o Tail(q),
           took |-> <<Piece(lot, Took(qty, lot, whole))>>]

\* What is due when lot is reached, what is left of the queue, what was taken.
Reach(a, lot, whole) ==
  IF a.due <= 0 THEN [a EXCEPT !.rest = Append(@, lot)]
  ELSE [due  |-> IF lot.qty <= a.due + 1 THEN a.due - lot.qty ELSE 0,
        rest |-> IF lot.qty <= a.due + 1 THEN a.rest
                 ELSE Append(a.rest, [lot EXCEPT !.qty = @ - a.due]),
        took |-> Append(a.took, Piece(lot, Took(a.due, lot, whole)))]

Consume(q, qty, whole) ==
  LET after[k \in 0..Len(q)] ==
        IF k = 0 THEN [due |-> qty, rest |-> <<>>, took |-> <<>>]
        ELSE Reach(after[k - 1], q[k], whole)
  IN after[Len(q)]

Record(took) ==
  /\ gone' = [i \in DOMAIN gone |->
                gone[i] + Units([k \in DOMAIN took |->
                            IF took[k].id = i THEN took[k].qty ELSE 0])]
  /\ costTrail' = costTrail - Units([k \in DOMAIN took |-> took[k].cost])

\* Faulty: the new lot is sold first.
OpenLotInFront(date, qty, price) ==
  /\ lots' = <<[id |-> Len(acquired) + 1, date |-> date,
                qty |-> qty, price |-> price]>> \o lots
  /\ acquired' = Append(acquired, qty)
  /\ gone' = Append(gone, 0)
  /\ costTrail' = costTrail + qty * price

\* FIFOPortfolio.buy: a lot always joins the back of the queue.
OpenLot(date, qty, price) ==
  /\ lots' = Append(lots, [id |-> Len(acquired) + 1, date |-> date,
                           qty |-> qty, price |-> price])
  /\ acquired' = Append(acquired, qty)
  /\ gone' = Append(gone, 0)
  /\ costTrail' = costTrail + qty * price

-----------------------------------------------------------------------------
Init ==
  /\ step = "market" /\ upto = 0
  /\ firstBuy \in NoPurchase..Beyond
  /\ unread = [buy |-> 1, sale |-> 1]
  /\ count = [buys |-> 0, sales |-> 0, scalings |-> 0]
  /\ lots = <<>> /\ den = 1 /\ acquired = <<>> /\ gone = <<>>
  /\ costTrail = 0 /\ reported = 0 /\ valued = {}

\* The next market row; one dated before the first purchase is passed over.
MarketRow(d) ==
  /\ step = "market" /\ upto < d /\ d <= MaxDay
  /\ upto' = d
  /\ step' = IF d < firstBuy THEN "market" ELSE "buy"
  /\ UNCHANGED <<firstBuy, unread, count, lots, den, acquired, gone,
                 costTrail, reported, valued>>

\* No row is left: the trades after it follow, without a bound on their date.
LastRow ==
  /\ step = "market" /\ upto > 0
  /\ upto' = Beyond /\ step' = "buy"
  /\ UNCHANGED <<firstBuy, unread, count, lots, den, acquired, gone,
                 costTrail, reported, valued>>

Purchase(date, qty, price) ==
  /\ step = "buy" /\ count.buys < MaxBuys
  /\ date \in unread.buy..upto
  /\ IF count.buys = 0 THEN date = firstBuy ELSE firstBuy # NoPurchase
  /\ OpenLot(date, qty, price * den)
  /\ unread' = [unread EXCEPT !.buy = date]
  /\ count' = [count EXCEPT !.buys = @ + 1]
  /\ UNCHANGED <<step, upto, firstBuy, den, reported, valued>>

\* The purchases dated up to this row are applied; the sales follow.
PurchasesDone ==
  /\ step = "buy"
  /\ firstBuy \in 1..upto => count.buys > 0
  /\ step' = "sell"
  /\ unread' = [unread EXCEPT !.buy = upto + 1]
  /\ UNCHANGED <<upto, firstBuy, count, lots, den, acquired, gone, costTrail,
                 reported, valued>>

Sale(date, qty) ==
  /\ step = "sell" /\ count.sales < MaxSales
  /\ date \in unread.sale..upto
  /\ LET sold == Consume(lots, qty, FALSE)
     IN /\ lots' = sold.rest
        /\ Record(sold.took)
  /\ unread' = [unread EXCEPT !.sale = date]
  /\ count' = [count EXCEPT !.sales = @ + 1]
  /\ UNCHANGED <<step, upto, firstBuy, den, acquired, reported, valued>>

SalesDone ==
  /\ step = "sell"
  /\ step' = IF upto = Beyond THEN "done" ELSE "quantity"
  /\ unread' = [unread EXCEPT !.sale = upto + 1]
  /\ UNCHANGED <<upto, firstBuy, count, lots, den, acquired, gone, costTrail,
                 reported, valued>>

\* A purchase or sale without a usable FX rate, or a sale without a price and
\* proceeds, aborts the instrument.
Refuse ==
  /\ step \in {"buy", "sell"} /\ step' = "failed"
  /\ UNCHANGED <<upto, firstBuy, unread, count, lots, den, acquired, gone,
                 costTrail, reported, valued>>

\* Units the broker has and the lots lack become a lot without cost; units the
\* lots have and the broker lacks leave from the oldest lots.
ReconcileQuantity(qty) ==
  /\ step = "quantity"
  /\ step' = "basis" /\ reported' = qty
  /\ \/ /\ qty > Open + 1
        /\ OpenLot(upto, qty - Open, 0)
     \/ /\ qty < Open - 1
        /\ LET removed == Consume(lots, Open - qty, TRUE)
           IN /\ lots' = removed.rest
              /\ Record(removed.took)
        /\ UNCHANGED acquired
     \/ /\ qty \in (Open - 1)..(Open + 1)
        /\ UNCHANGED <<lots, acquired, gone, costTrail>>
  /\ UNCHANGED <<upto, firstBuy, unread, count, den, valued>>

\* The rows of a date are summed before the replay, and a sum over blank cells
\* is zero: the replay never sees a blank cost basis.
Summed(basis) == IF basis = Absent THEN 0 ELSE basis

\* The average cost is within 0.01 of the broker's, or nothing has a cost.
BasisStands(b) ==
  \/ Open = 0 \/ Cost(lots) = 0
  \/ LET gap == Cost(lots) - b * den
     IN 100 * (IF gap < 0 THEN -gap ELSE gap) <= Open * den

Snapshot == valued' = IF lots' = <<>> THEN valued ELSE valued \cup {upto}

\* Every lot's price is multiplied by the broker's average over the lots'.
ReconcileBasis(basis) ==
  /\ step = "basis" /\ step' = "market"
  /\ LET b == Summed(basis)
         total == Cost(lots)
     IN \/ /\ BasisStands(b)
           /\ UNCHANGED <<lots, den, costTrail, count>>
        \/ /\ ~BasisStands(b) /\ count.scalings < MaxScalings
           /\ den' = den * total
           /\ lots' = [i \in DOMAIN lots |->
                         [lots[i] EXCEPT !.price = @ * b * den]]
           /\ costTrail' = costTrail * total + (Cost(lots') - total * total)
           /\ count' = [count EXCEPT !.scalings = @ + 1]
  /\ Snapshot
  /\ UNCHANGED <<upto, firstBuy, unread, acquired, gone, reported>>

Next ==
  \/ \E d \in 1..MaxDay : MarketRow(d)
  \/ LastRow \/ PurchasesDone \/ SalesDone \/ Refuse
  \/ \E d \in 1..Beyond :
       \/ \E q \in BuyQtys, p \in BuyPrices : Purchase(d, q, p)
       \/ \E q \in SaleQtys : Sale(d, q)
  \/ \E q \in Reports : ReconcileQuantity(q)
  \/ \E b \in Bases : ReconcileBasis(b)

Spec == Init /\ [][Next]_vars
-----------------------------------------------------------------------------
TypeOK ==
  /\ step \in {"market", "buy", "sell", "quantity", "basis", "done", "failed"}
  /\ upto \in 0..Beyond /\ firstBuy \in NoPurchase..Beyond
  /\ unread.buy \in 1..Beyond + 1 /\ unread.sale \in 1..Beyond + 1
  /\ \A i \in DOMAIN lots : lots[i].qty \in Nat \ {0} /\ lots[i].price \in Nat
  /\ den \in Nat \ {0} /\ costTrail \in Nat
  /\ DOMAIN gone = DOMAIN acquired
  /\ valued \subseteq 1..MaxDay

\* The queue holds the youngest lots and nothing else, by opening and by date:
\* whatever order purchases, sales, additions and removals come in, a lot is
\* touched only when all older ones are closed (fifo.py sell, reconciliation.py
\* _reconcile_quantity_remove).  What its events took and what is still open
\* make up the lot; a closed lot misses one grain at most.
FirstInFirstOut ==
  /\ \A i \in DOMAIN lots :
       /\ lots[i].id = Len(acquired) - Len(lots) + i
       /\ gone[lots[i].id] + lots[i].qty = acquired[lots[i].id]
       /\ i > 1 => lots[i - 1].date <= lots[i].date
  /\ \A k \in 1..(Len(acquired) - Len(lots)) :
       gone[k] \in (acquired[k] - 1)..acquired[k]

\* Units bought and added are the units sold, removed or still open; the
\* tolerance loses at most one grain per sale and none in a removal.
UnitsConserved ==
  Units(acquired) - Units(gone) - Open \in 0..count.sales

\* Once a row is reconciled the open units are the broker's, within a grain,
\* even when the tolerance closed a lot a grain too large.
BrokerAgrees ==
  step = "basis" => Open \in (reported - 1)..(reported + 1)

\* The published events explain the open cost: what was paid, changed by the
\* adjustments, less the cost of what was disposed of or removed, is the cost
\* of the open lots, except for the grains the tolerance lost.
CostExplained ==
  /\ costTrail >= Cost(lots)
  /\ Units(acquired) = Units(gone) + Open => costTrail = Cost(lots)

\* Both, in a state of its type: no unit and no cost appears or vanishes.
NothingVanishes == TypeOK /\ UnitsConserved /\ CostExplained

\* "The engine explicitly treats absent broker quantity/basis as no
\* reconciliation evidence, not as zero": a row that leaves its basis blank
\* changes no lot.
AbsentBasisIsNoEvidence ==
  [][(step = "basis" /\ ReconcileBasis(Absent)) => lots' = lots]_vars
=============================================================================
