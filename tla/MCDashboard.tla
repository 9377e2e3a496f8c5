----------------------------- MODULE MCDashboard -----------------------------
(* Small instances of Dashboard for TLC. *)
EXTENDS Dashboard

CONSTANTS b1

NoBrowser == {}
OneBrowser == {b1}
=============================================================================
