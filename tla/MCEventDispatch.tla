-------------------------- MODULE MCEventDispatch --------------------------
(* TLC instance of EventDispatch. *)
EXTENDS EventDispatch
=============================================================================
