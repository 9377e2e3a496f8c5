---------------------------- MODULE MCLiveEngine -----------------------------
(* Small instances of LiveEngine for TLC. *)
EXTENDS LiveEngine

CONSTANTS s1

OneStrategy == {s1}
TwoPrices == {2, 4}
NoQty == {}
OneQty == {1}
=============================================================================
