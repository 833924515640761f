------------------------------- MODULE MCIsinPool -------------------------------
(* Three instruments on two workers and two dates: two share a class, two a     *)
(* sector, and one has no sector.                                               *)
EXTENDS IsinPool

MCIsins == 1..3
MCWorth == <<1, 2, 4>>
MCClass == <<"equity", "equity", "gold">>
MCSector == <<"bank", NoSector, "bank">>

=============================================================================
