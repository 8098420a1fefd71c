---------------------------- MODULE MCDashboard ----------------------------
(***************************************************************************)
(* A small instance of Dashboard: two publications, each with up to four   *)
(* rows for all and one at most for the search.                            *)
(***************************************************************************)
EXTENDS Dashboard

MCRows(p, q) ==
    LET all == IF p = 1 THEN <<"a", "b", "c">> ELSE <<"c", "a", "d", "b">>
        few == IF p = 1 THEN <<"b">> ELSE <<>>
    IN  IF q.period = "day" THEN SelectSeq(IF q.filter = "any" THEN all ELSE few, LAMBDA r : r # "c")
        ELSE IF q.filter = "any" THEN all ELSE few
=============================================================================
