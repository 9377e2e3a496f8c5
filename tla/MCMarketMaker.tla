---------------------------- MODULE MCMarketMaker ----------------------------
(* Small instances of MarketMaker for TLC. *)
EXTENDS MarketMaker

TwoTicks == {10, 13}   \* the ask of one is the bid of the other
QuotePrices == {Quote(p, k).price : p \in Tick, k \in 1..(2 * Levels)}
One == {1}
Two == {2}
=============================================================================
