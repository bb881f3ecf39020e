---------------------------- MODULE MCPttService ----------------------------
(* TLC instance of PttService. *)
EXTENDS PttService
=============================================================================
