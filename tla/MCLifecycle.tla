----------------------------- MODULE MCLifecycle -----------------------------
(* Values of Lifecycle's constants for TLC: a desktop and a command line. *)
EXTENDS Lifecycle, TLC

CONSTANTS c1, c2, v1, v2

\* Each asks for something of its own.
OneEach == c1 :> {v1} @@ c2 :> {v2}
===============================================================================
