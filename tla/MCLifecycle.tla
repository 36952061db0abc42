----------------------------- MODULE MCLifecycle -----------------------------
(* Two workers and two requests, before, during and after the signal. *)
EXTENDS Lifecycle
==============================================================================
