----------------------------- MODULE MCSqlQueue -----------------------------
(* TLC instance of SqlQueue. *)
EXTENDS SqlQueue
=============================================================================
