------------------------------ MODULE MCWorker ------------------------------
(* Values of Worker's constants for TLC. *)
EXTENDS Worker, TLC

CONSTANTS s1, s2, d1, d2, c1, c2

TwoSources == {s1, s2}
OneSource  == {s1}
Both       == {s1, s2}
TwoHomes   == {{s1}, {s1, s2}}
OneHome    == {{s1, s2}}
SmallHome  == {{s1}}
NetworkTwo == {s2}
\* Whoever deletes a snapshot does not ask for a refresh before it is done.
DeleteFirst == {{"refresh", "delete"}}
===============================================================================
