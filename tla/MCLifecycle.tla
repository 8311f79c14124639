----------------------------- MODULE MCLifecycle -----------------------------
(* Lifecycle with three attempts to log in: enough for an account to be     *)
(* created twice and for a late login to follow the exit handler.           *)
EXTENDS Lifecycle
=============================================================================
