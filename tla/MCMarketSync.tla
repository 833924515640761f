---------------------------- MODULE MCMarketSync ----------------------------
\* The market histories for TLC: a ticker of each kind of provider.
EXTENDS MarketSync, TLC

CONSTANTS fx, us, bm
MCEntities == {fx, us, bm}
MCProviderOf == (fx :> "currency") @@ (us :> "us_stock") @@ (bm :> "benchmark")
\* No closure, a closure of one day, a longer one, closures around the quotes.
MCCalendars == {0 .. 3, {0, 1, 3}, {0, 3}, {1, 2}, {}}
=============================================================================
