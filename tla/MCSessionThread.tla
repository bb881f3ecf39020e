-------------------------- MODULE MCSessionThread --------------------------
(* SessionThread on a small instance. *)
EXTENDS SessionThread

OneTarget == {CS_PARK}
=============================================================================
