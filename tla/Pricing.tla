------------------------------ MODULE Pricing ------------------------------
(***************************************************************************)
(* Historical prices (crates/usage-core/src/pricing.rs). Money is counted  *)
(* in whole units per token, so that sums are exact; the rounding to six   *)
(* decimals is left out. The price data are constants; time is Usage's.    *)
(***************************************************************************)
EXTENDS Rollout, TLC

CONSTANTS
    Stems,      \* [names -> Seq(names)]: the keys a name can match, longest first
    Schedules,  \* Seq([from, rates]), oldest first, the first from NoTime
    Families,   \* Seq([models, threshold, schedules, long]): dearer long requests
    Multipliers \* [tiers -> [names -> Nat]]: the fast tiers and what they cost

ASSUME ScheduleAssumption ==
    /\ Schedules # <<>>
    /\ \A i \in 1..Len(Schedules) - 1 : Schedules[i].from < Schedules[i + 1].from

NoPrice == [model |-> NoName]

\* The key of a table that a model's name matches: itself or its longest stem.
Lookup(model, rates) ==
    IF model \notin DOMAIN Stems THEN NoName
    ELSE LET found == SelectSeq(Stems[model], LAMBDA key : key \in DOMAIN rates)
         IN  IF found = <<>> THEN NoName ELSE Head(found)

Rate(model, rates) ==
    LET key == Lookup(model, rates) IN IF key = NoName THEN NoPrice ELSE rates[key]

\* Since when, and until when, a price has been the same as in schedule n.
Effective(model, n, schedules) ==
    schedules[Min({i \in 1..n : \A j \in i..n - 1 :
                    Rate(model, schedules[j].rates) = Rate(model, schedules[n].rates)})].from

Expires(model, n, schedules) ==
    LET others == {i \in n + 1..Len(schedules) :
                      Rate(model, schedules[i].rates) # Rate(model, schedules[n].rates)}
    IN  IF others = {} THEN NoTime ELSE schedules[Min(others)].from

\* The schedule in force; without a time, the newest.
InForce(at, schedules) ==
    LET begun == {i \in DOMAIN schedules : at # NoTime /\ schedules[i].from <= at}
    IN  IF begun = {} THEN Len(schedules) ELSE Max(begun)

\* The long prices in force beside schedule n, the oldest if none has begun.
LongInForce(n, schedules) ==
    LET begun == {i \in DOMAIN schedules : \/ Schedules[n].from = NoTime
                                           \/ schedules[i].from <= Schedules[n].from}
    IN  IF begun = {} THEN 1 ELSE Max(begun)

Short(model, n) ==
    LET key == Lookup(model, Schedules[n].rates)
    IN  [model |-> key, prices |-> Schedules[n].rates[key],
         from |-> Effective(model, n, Schedules), until |-> Expires(model, n, Schedules)]

\* What a long request of the family costs instead, if it has a price of its own.
Long(family, short, model, n) ==
    LET m == LongInForce(n, family.schedules)
        dated == family.schedules # <<>>
        rates == IF dated THEN family.schedules[m].rates ELSE family.long
        key == Lookup(model, rates)
    IN  IF key = NoName THEN short @@ [context |-> "short"]
        ELSE [model |-> key, prices |-> rates[key], context |-> "long",
              from |-> IF dated THEN Effective(model, m, family.schedules) ELSE short.from,
              until |-> IF dated THEN Expires(model, m, family.schedules) ELSE NoTime]

\* The price of a request of this size; an unknown input size counts as short.
OfSize(short, model, n, input) ==
    LET families == SelectSeq(Families, LAMBDA f :
                        Lookup(model, Schedules[n].rates) \in f.models)
    IN  IF families = <<>> THEN short @@ [context |-> NoName]
        ELSE IF input > Head(families).threshold THEN Long(Head(families), short, model, n)
        ELSE short @@ [context |-> "short"]

\* An entry at the prices of a tier, or NoPrice.
AtTier(entry, tier) ==
    LET fast == tier \in DOMAIN Multipliers
        scale == IF fast THEN Multipliers[tier][entry.model] ELSE 1
    IN  IF fast /\ entry.model \notin DOMAIN Multipliers[tier] THEN NoPrice
        ELSE [entry EXCEPT !.prices = [f \in DOMAIN @ |-> @[f] * scale]] @@ [tier |-> tier]

\* The price of one request, or NoPrice.
QuoteIn(n, model, input, tier) ==
    IF Lookup(model, Schedules[n].rates) = NoName THEN NoPrice
    ELSE AtTier(OfSize(Short(model, n), model, n, input), tier)

Quote(model, at, input, tier) == QuoteIn(InForce(at, Schedules), model, input, tier)

AtLeast0(n) == IF n < 0 THEN 0 ELSE n

\* Reasoning is part of the output and never billed twice.
Cost(usage, prices) ==
    LET input == AtLeast0(usage["input"])
        cached == IF usage["cached"] > input THEN input ELSE AtLeast0(usage["cached"])
    IN  (input - cached) * prices.input + cached * prices.cached
            + AtLeast0(usage["output"]) * prices.output

SumOf(s) == FoldLeft(LAMBDA sum, n : sum + n, 0, s)
UsageOf(s) == FoldLeft(Plus, Zero, s)

\* What quoted usage costs, as a whole and by price.
Bill(quoted, priced) ==
    LET entries == {q.quote : q \in {priced[i] : i \in {j \in DOMAIN priced :
                                                    HasTokens(priced[j].usage)}}}
        Part(entry) == SelectSeq(priced, LAMBDA q : q.quote = entry /\ HasTokens(q.usage))
        Sum(s) == SumOf([i \in DOMAIN s |-> Cost(s[i].usage, s[i].quote.prices)])
    IN  [known |-> Len(priced) = Len(quoted),
         cost |-> IF Len(priced) = Len(quoted) THEN Sum(priced) ELSE NoCost,
         segments |-> [entry \in entries |->
                         [usage |-> UsageOf([i \in DOMAIN Part(entry) |-> Part(entry)[i].usage]),
                          cost |-> Sum(Part(entry))]]]

Quoted(charges) ==
    Listed([i \in DOMAIN charges |->
        [usage |-> charges[i].usage,
         quote |-> Quote(charges[i].model, charges[i].at, charges[i].input, charges[i].tier)]])

BillOf(quoted) == Bill(quoted, SelectSeq(quoted, LAMBDA q : q.quote # NoPrice))

(***************************************************************************)
(* Each request is priced at its own time, model and tier; a session with  *)
(* no request is priced as a whole. One unknown price makes the cost of    *)
(* the session unknown; the known requests are still told by price.        *)
(***************************************************************************)
PriceEvents(rows, events, model, total, at, tier) ==
    LET requests == SelectSeq(events, LAMBDA e : HasTokens(e.delta))
        Of(e, row) == [usage |-> e.delta, at |-> row.at, tier |-> row.tier,
                       model |-> IF row.model = NoName THEN model ELSE row.model,
                       input |-> AtLeast0(e.delta["input"])]
        whole == [usage |-> total, at |-> at, tier |-> tier, model |-> model, input |-> 0]
    IN  BillOf(Quoted(IF requests = <<>> THEN <<whole>>
                      ELSE [i \in DOMAIN requests |-> Of(requests[i], rows[requests[i].row])]))
=============================================================================
