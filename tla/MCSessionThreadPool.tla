------------------------ MODULE MCSessionThreadPool ------------------------
(* TLC instance of SessionThreadPool. *)
EXTENDS SessionThreadPool
=============================================================================
