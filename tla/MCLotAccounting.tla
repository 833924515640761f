---------------------------- MODULE MCLotAccounting ----------------------------
(* Two purchases, two sales and up to three broker rows of one instrument;     *)
(* quantities differ by less than, by exactly and by more than one grain.      *)
EXTENDS LotAccounting
=============================================================================
