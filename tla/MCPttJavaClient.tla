-------------------------- MODULE MCPttJavaClient --------------------------
(* TLC instance of PttJavaClient. *)
EXTENDS PttJavaClient
=============================================================================
