----------------------------- MODULE MCOrderBook -----------------------------
(* Small instances of OrderBook for TLC. *)
EXTENDS OrderBook
TwoPrices == {1, 2}
OneTwo == {1, 2}
ZeroTwo == {0, 2}
=============================================================================
