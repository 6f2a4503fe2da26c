----------------------------- MODULE MCDirectHost -----------------------------
(* Model checking what is said of removals from a host: two requests at a time. *)
EXTENDS DirectHost
=============================================================================
