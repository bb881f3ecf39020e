------------------------ MODULE MCSessionLifecycle ------------------------
(* SessionLifecycle on small instances. *)
EXTENDS SessionLifecycle
=============================================================================
