------------------------------- MODULE MCReport -------------------------------
(* A small instance of Report for TLC. *)
EXTENDS Report

SomePrices == {0, 2, 5}
SomeQtys == {0, 1, 3}
=============================================================================
