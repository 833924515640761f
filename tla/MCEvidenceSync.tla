--------------------------- MODULE MCEvidenceSync ---------------------------
(* Two names for a statement whose digest is compared, two backups of the    *)
(* ledger, which replaces its two tables and is compared by name only.       *)
EXTENDS EvidenceSync, TLC

MCPaths == 1..4
MCCat   == <<"us_stock", "us_stock", "ledger", "ledger">>
MCTableCat  == [statements |-> "us_stock", currency |-> "ledger",
                inoutcome |-> "ledger"]
MCLastTable == [us_stock |-> "statements", ledger |-> "inoutcome"]
MCName  == <<"jan", "feb", "b1", "b2">>

\* Contents that yield rows are interchangeable.
Interchangeable == Permutations(Contents \ Blank)
=============================================================================
