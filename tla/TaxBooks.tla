------------------------------- MODULE TaxBooks --------------------------------
(* The tax tables of a run: the validation of the tax rules, the tax columns of *)
(* the income categories, the tax events of the three sources, and the three    *)
(* presentation tables built from them.                                         *)
(*                                                                              *)
(* A sub-head of the rules is [sub, head, taxability, parents, cats, credits]:  *)
(* the income categories it takes by parent, by name, and as tax credits.  A    *)
(* rate is a number of the unit in which 1 is the whole.                        *)
EXTENDS HouseholdMarts, Sequences

CONSTANTS
    Parent,          \* the parent category of an income category
    FallbackRate,    \* the ordinary rate of the rules
    DebtCutoff,      \* the month before which a debt fund is a pre-cutoff one
    Null             \* no value

ASSUME TaxConstants ==
    /\ DOMAIN Parent = IncomeCats
    /\ FallbackRate \in Int /\ DebtCutoff \in Int /\ Null \notin Int

Check == "CHECK_REQUIRED"
-----------------------------------------------------------------------------
(* The rules.                                                                  *)

Exclusions(rules) == rules.stcg \cup rules.ltcg

CreditCats(rules) == UNION {h.credits : h \in rules.subHeads}

\* Different sub-heads of the rules share no member of their sets of.
Apart(of) == \A g, h \in DOMAIN of : g # h => of[g] \cap of[h] = {}

\* A category is the income of one sub-head, or the credit of one, never both.
ClaimedOnce(subHeads) ==
  /\ Apart([h \in subHeads |-> h.cats])
  /\ Apart([h \in subHeads |-> h.credits])
  /\ \A g, h \in subHeads : g.cats \cap h.credits = {}

\* An excluded gain is short-term or long-term, and no sub-head claims it.
ExclusionsApart(rules) ==
  /\ rules.stcg \cap rules.ltcg = {}
  /\ \A h \in rules.subHeads : (h.cats \cup h.credits) \cap Exclusions(rules) = {}

RulesValid(rules) ==
  /\ Apart([h \in rules.subHeads |-> {<<h.head, h.sub>>}])
  /\ ClaimedOnce(rules.subHeads)
  /\ Apart([h \in rules.subHeads |-> h.parents])
  /\ ExclusionsApart(rules)

\* What the rules name must be in the income dimension.
RulesKnown(rules, dropped) ==
  Exclusions(rules) \cup CreditCats(rules) \subseteq IncomeCats \ dropped
-----------------------------------------------------------------------------
(* The tax columns of an income category.                                      *)

TaxColumns(sub, head, taxability) == [sub |-> sub, head |-> head, taxability |-> taxability]

\* The entries the rules make for a category itself, as income, credit or gain.
OwnColumns(c, rules) ==
  LET gains(sub, cats) == {TaxColumns(sub, "Capital Gains", "taxable") : x \in cats \cap {c}} IN
  {TaxColumns(h.sub, h.head, h.taxability) :
     h \in {g \in rules.subHeads : c \in g.cats \cup g.credits}}
    \cup gains("Investment STCG", rules.stcg) \cup gains("Investment LTCG", rules.ltcg)

ParentColumns(c, rules) ==
  {TaxColumns(h.sub, h.head, h.taxability) :
     h \in {g \in rules.subHeads : Parent[c] \in g.parents}}

\* By its own entry, else by its parent's, else for review, as is what was deleted;
\* valid rules make at most one entry of each kind.
TaxMapOf(c, rules, dropped) ==
  LET own == OwnColumns(c, rules)
      above == ParentColumns(c, rules) IN
  CASE c \notin dropped /\ own # {} -> CHOOSE t \in own : TRUE
    [] c \notin dropped /\ own = {} /\ above # {} -> CHOOSE t \in above : TRUE
    [] OTHER -> TaxColumns(Check, Check, "review")
-----------------------------------------------------------------------------
(* Tax events.                                                                 *)

\* The ordinary rate of the financial year, or the fallback; none if out of range.
OrdinaryRate(macroRate, m) ==
  LET rate == IF FYOf(m) \in DOMAIN macroRate THEN macroRate[FYOf(m)] ELSE FallbackRate IN
  IF rate \in 0..1 THEN rate ELSE Null

TaxEvent(source, id, m, head, sub, amt, tax, status) ==
  [source |-> source, id |-> id, fy |-> FYOf(m), head |-> head, sub |-> sub,
   amt |-> amt, tax |-> tax, status |-> status]

\* Faulty: an investment gain the rules exclude is taxed as income as well.
SourceWithGains(c, rules, dropped) ==
  IF c \in CreditCats(rules) THEN "TAX_CREDIT"
  ELSE IF TaxMapOf(c, rules, dropped).taxability = "non_taxable" THEN "NON_TAXABLE" ELSE "LEDGER"

\* What becomes of an income row: a credit and an excluded gain are no income, and
\* non-taxable income is no event.
SourceOf(c, rules, dropped) ==
  CASE c \in CreditCats(rules) -> "TAX_CREDIT"
    [] c \in Exclusions(rules) -> "EXCLUDED"
    [] c \notin CreditCats(rules) \cup Exclusions(rules) ->
         IF TaxMapOf(c, rules, dropped).taxability = "non_taxable" THEN "NON_TAXABLE" ELSE "LEDGER"

\* What is not classified as taxable, or has no rate, gets no estimate and must be
\* checked.
LedgerEvents(inc, rules, dropped, macroRate) ==
  LET event(r) ==
        LET map == TaxMapOf(r.cat, rules, dropped)
            rate == OrdinaryRate(macroRate, r.m)
            incomplete == map.head = Check \/ map.sub = Check
                            \/ map.taxability # "taxable" \/ rate = Null IN
        IF incomplete
          THEN TaxEvent("LEDGER", r.id, r.m, map.head, map.sub, r.amt, Null, Check)
          ELSE TaxEvent("LEDGER", r.id, r.m, map.head, map.sub, r.amt,
                        IF r.amt > 0 THEN r.amt * rate ELSE 0, "READY") IN
  {event(r) : r \in {x \in inc : SourceOf(x.cat, rules, dropped) = "LEDGER"}}

\* A credit is filed under the sub-head that claims it, without an estimate.
CreditEvents(inc, rules, dropped) ==
  {TaxEvent("TAX_CREDIT", r.id, r.m, "TAX_CREDIT", TaxMapOf(r.cat, rules, dropped).sub, r.amt, Null,
            "READY") : r \in {x \in inc : SourceOf(x.cat, rules, dropped) = "TAX_CREDIT"}}

\* The capital-gains sub-head of a realized gain, or CHECK_REQUIRED.
QuantSubHead(e) ==
  LET family == CASE e.type = "equity" /\ e.subtype \in {"listed", "direct"} -> "Equity_Listed"
                  [] e.type = "equity" /\ e.subtype = "unlisted" -> "Equity_Unlisted"
                  [] e.type = "equity" /\ e.subtype = "foreign" -> "Default"
                  [] e.type = "debt" /\ e.subtype = "mf" /\ e.acquired # Null ->
                       IF e.acquired < DebtCutoff THEN "Debt_MF_Pre_Cutoff"
                                                  ELSE "Debt_MF_Post_Cutoff"
                  [] e.type = "debt" /\ e.subtype = "bond" -> "Other_Debt"
                  [] e.type = "gold" -> "Gold"
                  [] OTHER -> Null IN
  IF family = Null \/ e.holding \notin {"ST", "LT"} THEN Check
    ELSE family \o "_" \o e.holding \o "CG"

ValidEstimate(e) == e.rate \in 0..1 /\ e.tax \in Nat

\* A realized gain must be checked when any of its evidence is missing.
QuantStatus(e) ==
  IF e.reconciled \/ QuantSubHead(e) = Check \/ e.unidentified \/ ~ValidEstimate(e)
    THEN Check ELSE "READY"

\* It keeps the estimate of the engine when that is valid; a reconciliation lot
\* never has one.
QuantEvents(realized) ==
  {TaxEvent("QUANT", e.id, e.m, "Capital Gains", QuantSubHead(e), e.gain,
            IF e.reconciled \/ ~ValidEstimate(e) THEN Null ELSE e.tax, QuantStatus(e)) :
     e \in realized}

TaxEvents(inc, realized, rules, dropped, macroRate) ==
  LedgerEvents(inc, rules, dropped, macroRate) \cup CreditEvents(inc, rules, dropped)
    \cup QuantEvents(realized)

\* An event is known by its source, its id and its sub-head; two facts that make
\* events of one key stop the run.
EventKeysUnique(inc, realized, rules, dropped) ==
  /\ \A a, b \in {r \in inc : SourceOf(r.cat, rules, dropped) \in {"LEDGER", "TAX_CREDIT"}} :
       /\ a.id = b.id /\ SourceOf(a.cat, rules, dropped) = SourceOf(b.cat, rules, dropped)
       /\ TaxMapOf(a.cat, rules, dropped).sub = TaxMapOf(b.cat, rules, dropped).sub
       => a = b
  /\ \A a, b \in realized : a.id = b.id /\ QuantSubHead(a) = QuantSubHead(b) => a = b
-----------------------------------------------------------------------------
(* Presentation.                                                               *)

From(events, source) == {e \in events : e.source = source}

\* Sums of a group of events; the estimate of a source is there when at least one
\* of its events has one, and complete when all of them have.
SourceTotals(events, source) ==
  LET rows == From(events, source)
      known == {e \in rows : e.tax # Null} IN
  [ amount   |-> Amount(rows),
    tax      |-> IF known = {} THEN Null ELSE Total(LAMBDA e : e.tax, known),
    complete |-> IF rows = {} THEN Null ELSE known = rows,
    count    |-> Cardinality(rows) ]

Sources == {"LEDGER", "TAX_CREDIT", "QUANT"}

TaxYearSummary(events) ==
  [fy \in {e.fy : e \in events} |->
     LET rows == {e \in events : e.fy = fy} IN
     [ of |-> [s \in Sources |-> SourceTotals(rows, s)],
       Ready |-> Cardinality({e \in rows : e.status = "READY"}),
       Check_Required |-> Cardinality({e \in rows : e.status = Check}),
       count |-> Cardinality(rows) ]]

\* A credit never has an estimate, complete or not.
TaxIncomeBreakdown(events) ==
  [k \in {[fy |-> e.fy, head |-> e.head, sub |-> e.sub, source |-> e.source] : e \in events} |->
     LET rows == {e \in events : /\ e.fy = k.fy /\ e.head = k.head
                                 /\ e.sub = k.sub /\ e.source = k.source}
         t == SourceTotals(rows, k.source) IN
     [ amount |-> t.amount, count |-> t.count, tax |-> t.tax,
       complete |-> IF k.source = "TAX_CREDIT" THEN Null ELSE t.complete ]]

\* The ledger rows with their tax columns: the evidence beside the events.
LedgerEvidence(inc, rules, dropped) ==
  {[id |-> r.id, cat |-> r.cat, amt |-> r.amt, fy |-> FYOf(r.m),
    map |-> TaxMapOf(r.cat, rules, dropped)] : r \in inc}

\* Evidence that became no event: non-taxable income, and what the rules exclude
\* as an investment gain.
ExcludedNonTaxable(evidence, rules) ==
  {r \in evidence : r.map.taxability = "non_taxable" /\ r.cat \notin Exclusions(rules)}

ExcludedInvestment(evidence, rules) == {r \in evidence : r.cat \in Exclusions(rules)}

\* A row for each financial year and sub-head of an event or an exclusion.
ReconciliationKeys(events, excluded) ==
  {<<e.fy, e.sub>> : e \in events} \cup {<<r.fy, r.map.sub>> : r \in excluded}

\* Events and exclusions side by side.  The two sources of an investment gain are
\* compared only where both are there.
TaxReconciliation(events, evidence, rules) ==
  LET exempt == ExcludedNonTaxable(evidence, rules)
      gains == ExcludedInvestment(evidence, rules)
      of(rows, k) == {r \in rows : r.fy = k[1] /\ r.map.sub = k[2]} IN
  [k \in ReconciliationKeys(events, exempt \cup gains) |->
     LET rows == {e \in events : e.fy = k[1] /\ e.sub = k[2]}
         quant == SourceTotals(rows, "QUANT") IN
     [ Ledger |-> SourceTotals(rows, "LEDGER"), Quant |-> quant,
       Tax_Credit |-> SourceTotals(rows, "TAX_CREDIT"),
       Non_Taxable |-> of(exempt, k), Excluded_Investment |-> of(gains, k),
       Source_Difference |-> IF quant.count > 0 /\ of(gains, k) # {}
                               THEN quant.amount - Amount(of(gains, k)) ELSE Null,
       Check_Required |-> Cardinality({e \in rows : e.status = Check}) ]]
=============================================================================
