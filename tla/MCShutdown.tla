----------------------------- MODULE MCShutdown -----------------------------
(* Small instances of Shutdown for TLC. *)
EXTENDS Shutdown

CONSTANTS h1, h2

TwoHandlers == {h1, h2}
Everyone == {h1, h2, main}
=============================================================================
