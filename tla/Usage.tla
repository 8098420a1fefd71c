------------------------------- MODULE Usage -------------------------------
(***************************************************************************)
(* Token counters and the normalisation of one list of usage events        *)
(* (crates/usage-core/src/usage.rs). A rollout logs cumulative counters;   *)
(* the program charges differences, and has to decide for every counter    *)
(* that goes back whether it was reset or restored from a checkpoint.      *)
(* Counters stay far below 2^63 here: the overflow errors of checked_add   *)
(* are left out (AccountingProofs shows that a difference needs none).     *)
(***************************************************************************)
EXTENDS Integers, Sequences, FiniteSets, SequencesExt

Fields == {"input", "cached", "write", "output", "reasoning", "total"}

Zero == [f \in Fields |-> 0]

Plus(a, b) == [f \in Fields |-> a[f] + b[f]]

\* Negative differences are clamped field by field.
Minus(a, b) == [f \in Fields |-> IF a[f] > b[f] THEN a[f] - b[f] ELSE 0]

HasTokens(u) == \E f \in Fields : u[f] > 0

IsReset(u, previous) ==
    IF u["total"] # 0 \/ previous["total"] # 0
    THEN u["total"] < previous["total"]
    ELSE \E f \in Fields \ {"reasoning"} : u[f] < previous[f]

Delta(u, previous) == IF IsReset(u, previous) THEN u ELSE Minus(u, previous)

(***************************************************************************)
(* Time is a positive number; an event whose timestamp is missing or does  *)
(* not parse has NoTime. None of an optional usage is Zero: every use of   *)
(* it in the code treats the two alike.                                    *)
(***************************************************************************)
NoTime == 0

\* The sequence s itself; TLC computes its items once instead of at each use.
Listed(s) == SubSeq(s, 1, Len(s))

\* The items of s at some places. Select is SelectSeq in terms of sets.
Picked(s, places) ==
    LET from[n \in 0..Len(s)] ==
            IF n = 0 THEN <<>>
            ELSE IF n \in places THEN Append(from[n - 1], s[n])
            ELSE from[n - 1]
    IN  IF places = DOMAIN s THEN s ELSE from[Len(s)]
Select(s, Test(_)) ==
    LET items == Listed(s) IN Picked(items, {i \in DOMAIN items : Test(items[i])})

\* The items in an order of their places, ties as they were. before is a set of pairs.
Arranged(items, before) ==
    LET Rank(i) == Cardinality({j \in DOMAIN items :
                        \/ <<j, i>> \in before
                        \/ <<i, j>> \notin before /\ j < i}) + 1
        rank == Listed([i \in DOMAIN items |-> Rank(i)])
    IN  Listed([k \in DOMAIN items |-> items[CHOOSE i \in DOMAIN items : rank[i] = k]])

\* The items of a sequence, in the order of Before, ties in their old order.
StableSort(s, Before(_, _)) ==
    LET items == Listed(s)
        places == DOMAIN items
    IN  IF \A i \in 1..Len(items) - 1 : ~Before(items[i + 1], items[i]) THEN items
        ELSE Arranged(items, {p \in places \X places : Before(items[p[1]], items[p[2]])})

\* The indices of the events that have a time, oldest first.
InTime(events) ==
    StableSort(Select([i \in DOMAIN events |-> i],
                         LAMBDA i : events[i].at # NoTime),
               LAMBDA i, j : events[i].at < events[j].at)

\* A request's own counters are consistent with each other.
ValidRequest(last) ==
    /\ last["total"] = last["input"] + last["output"]
    /\ last["cached"] <= last["input"]
    /\ last["write"] <= last["input"]
    /\ last["reasoning"] <= last["output"]

(***************************************************************************)
(* What each event adds to the one before it in time. The first event, and *)
(* one whose counter went back, start from their total less the request's  *)
(* own usage, if the request's usage can be trusted.                       *)
(***************************************************************************)
DeltasIn(events, order) ==
    LET Total(k) == events[order[k]].total
        Before(k) == IF k = 1 THEN Zero ELSE Total(k - 1)
        Start(k) ==
            LET last == events[order[k]].last
                inferred == Minus(Total(k), last)
            IN  IF /\ k = 1 \/ IsReset(Total(k), Before(k))
                   /\ HasTokens(last)
                   /\ \A f \in Fields : last[f] >= 0
                   /\ Plus(inferred, last) = Total(k)
                   /\ k = 1 \/ ValidRequest(last)
                THEN inferred
                ELSE Before(k)
    IN  Listed([k \in DOMAIN order |-> [row |-> order[k],
                                        at |-> events[order[k]].at,
                                        delta |-> Delta(Total(k), Start(k))]])

Deltas(events) == DeltasIn(events, InTime(events))
=============================================================================
