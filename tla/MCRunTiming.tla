----------------------------- MODULE MCRunTiming -----------------------------
(* The deployment's own timeouts and lifetimes, in seconds.                *)
EXTENDS RunTiming
=============================================================================
