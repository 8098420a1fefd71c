------------------------------ MODULE MCLedger ------------------------------
(***************************************************************************)
(* A small instance of Ledger: two models, of which one got dearer at time *)
(* 16 and has a fast tier and a price for long requests.                   *)
(***************************************************************************)
EXTENDS Ledger

MCModels == {"alpha", "beta"}
MCShapes == <<<<"context", "user", "output", "count">>,
              <<"context", "item", "tool", "count", "task">>,
              <<"context", "output", "record", "count">>,
              <<"context", "output", "record", "count">>>>

\* Every request uses half of what the one before it used, so that no sum of some
\* requests is the sum of others and that a counter which goes back to a
\* checkpoint stays behind.
MCAmount(n) ==
    LET unit == 2 ^ (Len(Shapes) - n)
    IN  [Zero EXCEPT !["input"] = 2 * unit, !["cached"] = unit,
                     !["output"] = unit, !["total"] = 3 * unit]

MCTook == <<6, 3, 6, 6>>

Price(input, cached, output) == [input |-> input, cached |-> cached, output |-> output]
MCStems == [alpha |-> <<"alpha">>, beta |-> <<"beta-2", "beta">>]
MCSchedules == <<[from |-> NoTime, rates |-> [alpha |-> Price(4, 1, 8), beta |-> Price(2, 0, 3)]],
                 [from |-> 16, rates |-> [alpha |-> Price(10, 2, 20), beta |-> Price(2, 0, 3)]]>>
MCFamilies == <<[models |-> {"alpha"}, threshold |-> 4, schedules |-> <<>>,
                 long |-> [alpha |-> Price(30, 5, 40)]]>>
MCMultipliers == [fast |-> [alpha |-> 3]]

\* What one request costs, from its own time, model, tier and size.
MCCharge(r) ==
    LET new == r.usage["input"] - r.usage["cached"]
        Sum(a, b, c) == new * a + r.usage["cached"] * b + r.usage["output"] * c
        scale == IF r.tier = "fast" THEN 3 ELSE 1
    IN  IF r.model = "beta" /\ r.tier = "fast" THEN NoCost
        ELSE IF r.model = "beta" THEN Sum(2, 0, 3)
        ELSE IF r.usage["input"] > 4 THEN scale * Sum(30, 5, 40)
        ELSE IF r.at >= 16 THEN scale * Sum(10, 2, 20)
        ELSE scale * Sum(4, 1, 8)
=============================================================================
