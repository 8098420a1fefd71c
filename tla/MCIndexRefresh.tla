--------------------------- MODULE MCIndexRefresh ---------------------------
(* Values of IndexRefresh's constants for TLC. *)
EXTENDS IndexRefresh
===============================================================================
