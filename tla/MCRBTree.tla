------------------------------ MODULE MCRBTree -------------------------------
(* Small instances of RBTree for TLC. *)
EXTENDS RBTree

EightPrices == 1..8
=============================================================================
