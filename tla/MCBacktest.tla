------------------------------ MODULE MCBacktest ------------------------------
(* A small instance of Backtest for TLC. *)
EXTENDS Backtest

TickPrices == {4, 10, 14}
=============================================================================
