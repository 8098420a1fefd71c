--------------------------- MODULE AccountingProofs ---------------------------
(***************************************************************************)
(* What the differences of counters are worth, for counters of any size,   *)
(* and which prices are in force when, for any price data.                 *)
(***************************************************************************)
EXTENDS Accounting, FiniteSetTheorems, WellFoundedInduction, TLAPS

-------------------------------------------------------------------------------
(* Numbers *)

\* The least and the greatest of a set of numbers exist.
LEMMA Least ==
    ASSUME NEW T \in SUBSET Nat, T # {}
    PROVE  Min(T) \in T /\ \A y \in T : Min(T) <= y
  <1> DEFINE R == OpToRel(<, Nat)
  <1>0. T \subseteq Nat
    OBVIOUS
  <1>1. \A x, y \in Nat : x < y => <<x, y>> \in R
    BY DEF OpToRel
  <1>2. IsWellFoundedOn(R, Nat)
    BY NatLessThanWellFounded
  <1> HIDE DEF R
  <1>3. PICK x \in T : \A y \in T : ~(<<y, x>> \in R)
    BY <1>0, <1>2, WFMin
  <1>4. \A y \in T : ~(y < x)
    BY <1>0, <1>1, <1>3
  <1>5. \A y \in T : x <= y
    BY <1>0, <1>4
  <1> QED  BY <1>5 DEF Min

LEMMA Greatest ==
    ASSUME NEW n \in Nat, NEW T \in SUBSET (1..n), T # {}
    PROVE  Max(T) \in T /\ \A y \in T : Max(T) >= y
  <1> DEFINE D == {d \in Nat : \E x \in T : d = n - x}
  <1>1. D \in SUBSET Nat /\ D # {}
    <2>1. PICK x \in T : TRUE
      OBVIOUS
    <2>2. n - x \in D
      BY <2>1
    <2> QED  BY <2>2
  <1>2. Min(D) \in D /\ \A d \in D : Min(D) <= d
    BY <1>1, Least
  <1>3. PICK x \in T : Min(D) = n - x
    BY <1>2
  <1>4. \A y \in T : n - y \in D
    OBVIOUS
  <1> HIDE DEF D
  <1>5. \A y \in T : x >= y
    BY <1>2, <1>3, <1>4
  <1> QED  BY <1>5 DEF Max

\* A number that every smaller one leads to: what holds of 0, and of n + 1 if it
\* holds of n, holds of every number.
LEMMA Induct ==
    ASSUME NEW T \in SUBSET Nat, 0 \in T, \A n \in T : n + 1 \in T
    PROVE  \A n \in Nat : n \in T
  <1> DEFINE D == Nat \ T
  <1> SUFFICES ASSUME D # {} PROVE FALSE
    OBVIOUS
  <1>1. Min(D) \in D /\ \A y \in D : Min(D) <= y
    BY Least
  <1> DEFINE m == Min(D)
  <1> HIDE DEF m
  <1>2. m \in Nat \ T /\ \A y \in D : m <= y
    BY <1>1 DEF m
  <1>3. m # 0 /\ m - 1 \in Nat /\ m - 1 \notin D
    BY <1>2
  <1>4. (m - 1) + 1 = m
    BY <1>2
  <1> QED  BY <1>2, <1>3, <1>4

LEMMA GreatestIs ==
    ASSUME NEW n \in Nat, NEW T \in SUBSET (1..n), n \in T
    PROVE  Max(T) = n
  <1>1. Max(T) \in T /\ Max(T) >= n
    BY Greatest
  <1>2. Max(T) \in 1..n
    BY <1>1
  <1> QED  BY <1>1, <1>2

LEMMA Beginning ==
    ASSUME NEW S, NEW s \in Seq(S), NEW k \in 0..Len(s)
    PROVE  /\ SubSeq(s, 1, k) \in Seq(S) /\ Len(SubSeq(s, 1, k)) = k
           /\ \A i \in 1..k : SubSeq(s, 1, k)[i] = s[i]
  OBVIOUS

-------------------------------------------------------------------------------
(* Counters *)

Counters == [Fields -> Nat]

LEMMA ZeroCounts == Zero \in Counters
  BY DEF Zero, Counters

LEMMA MinusCounts ==
    ASSUME NEW a \in Counters, NEW b \in Counters
    PROVE  /\ Minus(a, b) \in Counters
           /\ \A f \in Fields : Minus(a, b)[f] <= a[f]
  <1>1. \A f \in Fields : a[f] \in Nat /\ b[f] \in Nat
    BY DEF Counters
  <1>2. \A f \in Fields : Minus(a, b)[f] = IF a[f] > b[f] THEN a[f] - b[f] ELSE 0
    BY DEF Minus
  <1>3. \A f \in Fields : Minus(a, b)[f] \in Nat /\ Minus(a, b)[f] <= a[f]
    BY <1>1, <1>2
  <1> QED  BY <1>3 DEF Minus, Counters

LEMMA DeltaCounts ==
    ASSUME NEW u \in Counters, NEW previous \in Counters
    PROVE  /\ Delta(u, previous) \in Counters
           /\ \A f \in Fields : Delta(u, previous)[f] <= u[f]
  <1>1. CASE IsReset(u, previous)
    BY <1>1 DEF Delta, Counters
  <1>2. CASE ~ IsReset(u, previous)
    BY <1>2, MinusCounts DEF Delta
  <1> QED  BY <1>1, <1>2

\* A counter that grew in every field is made up of what it was and of what was
\* charged: nothing is lost between two counts (Usage::delta).
THEOREM GrowthIsCharged ==
    ASSUME NEW u \in Counters, NEW previous \in Counters,
           \A f \in Fields : previous[f] <= u[f]
    PROVE  Plus(previous, Delta(u, previous)) = u
  <1>1. \A f \in Fields : u[f] \in Nat /\ previous[f] \in Nat
    BY DEF Counters
  <1>2. ~ IsReset(u, previous)
    <2>1. "total" \in Fields
      BY DEF Fields
    <2> QED  BY <1>1, <2>1 DEF IsReset
  <1>3. \A f \in Fields : previous[f] + Minus(u, previous)[f] = u[f]
    BY <1>1 DEF Minus
  <1>4. Plus(previous, Delta(u, previous)) = [f \in Fields |-> u[f]]
    BY <1>2, <1>3 DEF Plus, Delta
  <1> QED  BY <1>4 DEF Counters

LEMMA ListedIsItself ==
    ASSUME NEW S, NEW s \in Seq(S)
    PROVE  Listed(s) = s
  BY DEF Listed

-------------------------------------------------------------------------------
(* Lists: what is picked, arranged and joined *)

Sequence(s) == s \in Seq({s[i] : i \in DOMAIN s})

\* t is the items of s at some places, each once.
ListsBy(at, t, s, places) ==
    /\ at \in [1..Len(t) -> places]
    /\ \A k, l \in 1..Len(t) : at[k] = at[l] => k = l
    /\ \A i \in places : \E k \in 1..Len(t) : at[k] = i
    /\ \A k \in 1..Len(t) : t[k] = s[at[k]]

Lists(t, s, places) == Sequence(t) /\ \E at : ListsBy(at, t, s, places)

PicksUpTo(g, s, places, n) ==
    g = [k \in 0..n |-> IF k = 0 THEN <<>>
                        ELSE IF k \in places THEN Append(g[k - 1], s[k]) ELSE g[k - 1]]

LEMMA PickNext ==
    ASSUME NEW s, NEW places, NEW n \in Nat, NEW g, PicksUpTo(g, s, places, n)
    PROVE  \E h : PicksUpTo(h, s, places, n + 1)
  <1> DEFINE new == IF n + 1 \in places THEN Append(g[n], s[n + 1]) ELSE g[n]
             h == [k \in 0..n + 1 |-> IF k = n + 1 THEN new ELSE g[k]]
             Value(k) == IF k = 0 THEN <<>>
                         ELSE IF k \in places THEN Append(h[k - 1], s[k]) ELSE h[k - 1]
  <1>1. ASSUME NEW k \in 0..n
        PROVE  /\ k \in 0..n + 1 /\ h[k] = g[k] /\ (k # 0 => h[k - 1] = g[k - 1])
               /\ g[k] = IF k = 0 THEN <<>>
                         ELSE IF k \in places THEN Append(g[k - 1], s[k]) ELSE g[k - 1]
    <2>1. \A j \in 0..n : j \in 0..n + 1 /\ h[j] = g[j]
      OBVIOUS
    <2>2. k # 0 => k - 1 \in 0..n
      OBVIOUS
    <2> HIDE DEF h
    <2> QED  BY <2>1, <2>2 DEF PicksUpTo
  <1>2. h[n + 1] = new /\ h[n] = g[n]
    OBVIOUS
  <1>3. \A k \in 0..n + 1 : h[k] = Value(k)
    <2> TAKE k \in 0..n + 1
    <2> HIDE DEF h, new
    <2>1. CASE k \in 0..n
      BY <1>1, <2>1
    <2>2. CASE k = n + 1
      <3>1. (n + 1) - 1 = n /\ n + 1 # 0
        OBVIOUS
      <3> QED  BY <1>2, <2>2, <3>1 DEF new
    <2> QED  BY <2>1, <2>2
  <1>4. h = [k \in 0..n + 1 |-> Value(k)]
    <2> HIDE DEF Value
    <2>1. h = [k \in 0..n + 1 |-> h[k]]
      OBVIOUS
    <2> HIDE DEF h
    <2> QED  BY <1>3, <2>1
  <1>5. PicksUpTo(h, s, places, n + 1)
    <2> HIDE DEF h
    <2> QED  BY <1>4 DEF PicksUpTo
  <1> QED  BY <1>5

LEMMA PickedIs ==
    ASSUME NEW s, Len(s) \in Nat, NEW places
    PROVE  \E g : /\ PicksUpTo(g, s, places, Len(s))
                  /\ Picked(s, places) = IF places = DOMAIN s THEN s ELSE g[Len(s)]
  <1> DEFINE n == Len(s)
             some == {m \in Nat : \E g : PicksUpTo(g, s, places, m)}
             from == CHOOSE g : PicksUpTo(g, s, places, n)
  <1>1. \A m \in Nat : m \in some
    <2>1. 0 \in some
      <3>1. PicksUpTo([k \in 0..0 |-> <<>>], s, places, 0)
        BY DEF PicksUpTo
      <3> QED  BY <3>1
    <2>2. \A m \in some : m + 1 \in some
      BY PickNext
    <2>3. some \in SUBSET Nat
      OBVIOUS
    <2> HIDE DEF some
    <2> QED  BY <2>1, <2>2, <2>3, Induct
  <1>2. PicksUpTo(from, s, places, n)
    BY <1>1
  <1>3. Picked(s, places) = IF places = DOMAIN s THEN s ELSE from[n]
    BY DEF Picked, PicksUpTo
  <1> HIDE DEF from
  <1> QED  BY <1>2, <1>3

\* What is a sequence of any set is a sequence of its items.
LEMMA AnySequence ==
    ASSUME NEW S, NEW s \in Seq(S)
    PROVE  Sequence(s)
  <1> DEFINE T == {s[i] : i \in DOMAIN s}
  <1>1. Len(s) \in Nat /\ s = [i \in 1..Len(s) |-> s[i]] /\ \A i \in 1..Len(s) : s[i] \in T
    OBVIOUS
  <1> HIDE DEF T
  <1>2. s \in Seq(T)
    BY <1>1
  <1> QED  BY <1>2 DEF Sequence, T

\* What was picked of the first k items.
LEMMA PickedSteps ==
    ASSUME NEW s, Sequence(s), NEW places, NEW g, PicksUpTo(g, s, places, Len(s))
    PROVE  \A k \in 0..Len(s) : Lists(g[k], s, places \cap (1..k))
  <1> DEFINE n == Len(s)
             S == {s[i] : i \in DOMAIN s}
             good == {k \in Nat : k <= n => Lists(g[k], s, places \cap (1..k))}
  <1>1. n \in Nat /\ DOMAIN s = 1..n /\ \A i \in 1..n : s[i] \in S
    BY DEF Sequence
  <1>2. 0 \in good
    <2>1. g[0] = <<>> /\ places \cap (1..0) = {}
      BY <1>1 DEF PicksUpTo
    <2>2. ListsBy(<<>>, <<>>, s, {})
      BY DEF ListsBy
    <2>3. Sequence(<<>>)
      BY DEF Sequence
    <2> QED  BY <2>1, <2>2, <2>3 DEF Lists
  <1>3. ASSUME NEW k \in good PROVE k + 1 \in good
    <2> SUFFICES ASSUME k + 1 <= n PROVE Lists(g[k + 1], s, places \cap (1..k + 1))
      BY <1>3
    <2> DEFINE t == g[k]
               u == g[k + 1]
               P == places \cap (1..k)
    <2>1. Lists(t, s, P)
      BY <1>1
    <2>2. u = IF k + 1 \in places THEN Append(t, s[k + 1]) ELSE t
      <3>1. k + 1 \in 0..n /\ k + 1 # 0 /\ (k + 1) - 1 = k
        BY <1>1
      <3> QED  BY <3>1 DEF PicksUpTo
    <2>3. CASE k + 1 \notin places
      <3>1. places \cap (1..k + 1) = P
        BY <2>3
      <3> QED  BY <2>1, <2>2, <2>3, <3>1
    <2>4. CASE k + 1 \in places
      <3> DEFINE Q == P \cup {k + 1}
                 m == Len(t)
                 T == {t[i] : i \in DOMAIN t}
      <3>1. places \cap (1..k + 1) = Q /\ k + 1 \notin P
        BY <2>4
      <3>2. t \in Seq(T) /\ m \in Nat
        BY <2>1 DEF Lists, Sequence
      <3>3. PICK at : ListsBy(at, t, s, P)
        BY <2>1 DEF Lists
      <3> DEFINE new == [l \in 1..m + 1 |-> IF l = m + 1 THEN k + 1 ELSE at[l]]
      <3> HIDE DEF t, u, P
      <3>4. /\ u \in Seq(T \cup {s[k + 1]}) /\ Len(u) = m + 1 /\ u[m + 1] = s[k + 1]
            /\ \A l \in 1..m : u[l] = t[l]
        BY <2>2, <2>4, <3>2
      <3>5. Sequence(u)
        BY <3>4, AnySequence
      <3>6. /\ at \in [1..m -> P]
            /\ \A i, l \in 1..m : at[i] = at[l] => i = l
            /\ \A i \in P : \E l \in 1..m : at[l] = i
            /\ \A l \in 1..m : t[l] = s[at[l]]
        BY <3>3 DEF ListsBy
      <3> HIDE DEF m, T
      <3>7. new \in [1..m + 1 -> Q] /\ new[m + 1] = k + 1 /\ \A l \in 1..m : new[l] = at[l]
        BY <3>2, <3>6
      <3> HIDE DEF new
      <3>8. \A i, l \in 1..m + 1 : new[i] = new[l] => i = l
        <4>1. \A l \in 1..m : new[l] # new[m + 1] /\ new[l] = at[l]
          BY <3>1, <3>6, <3>7
        <4>2. \A l \in 1..m + 1 : l \in 1..m \/ l = m + 1
          BY <3>2
        <4> QED  BY <3>6, <4>1, <4>2
      <3>9. \A i \in Q : \E l \in 1..m + 1 : new[l] = i
        <4>1. m + 1 \in 1..m + 1 /\ \A l \in 1..m : l \in 1..m + 1
          BY <3>2
        <4>2. \A i \in P : \E l \in 1..m + 1 : new[l] = i
          BY <3>6, <3>7, <4>1
        <4> QED  BY <3>7, <4>1, <4>2
      <3>10. \A l \in 1..m + 1 : u[l] = s[new[l]]
        <4>1. \A l \in 1..m + 1 : l \in 1..m \/ l = m + 1
          BY <3>2
        <4> QED  BY <3>4, <3>6, <3>7, <4>1
      <3>11. ListsBy(new, u, s, Q)
        BY <3>4, <3>7, <3>8, <3>9, <3>10 DEF ListsBy
      <3>12. Lists(u, s, Q)
        BY <3>5, <3>11 DEF Lists
      <3> QED  BY <3>1, <3>12 DEF u
    <2> QED  BY <2>3, <2>4
  <1>4. \A k \in Nat : k \in good
    <2>1. good \in SUBSET Nat
      OBVIOUS
    <2> HIDE DEF good
    <2> QED  BY <1>2, <1>3, <2>1, Induct
  <1> SUFFICES ASSUME NEW k \in 0..n PROVE Lists(g[k], s, places \cap (1..k))
    OBVIOUS
  <1>5. k \in Nat /\ k <= n
    BY <1>1
  <1>6. k \in good
    BY <1>4, <1>5
  <1> QED  BY <1>5, <1>6

LEMMA WholeLists ==
    ASSUME NEW s, Sequence(s)
    PROVE  Lists(s, s, DOMAIN s)
  <1>1. DOMAIN s = 1..Len(s)
    BY DEF Sequence
  <1> DEFINE at == [i \in 1..Len(s) |-> i]
  <1>3. ListsBy(at, s, s, DOMAIN s)
    <2>1. at \in [1..Len(s) -> DOMAIN s] /\ \A i \in 1..Len(s) : at[i] = i
      BY <1>1
    <2> HIDE DEF at
    <2> QED  BY <1>1, <2>1 DEF ListsBy
  <1> QED  BY <1>3 DEF Lists

LEMMA PickedLists ==
    ASSUME NEW s, Sequence(s), NEW places \in SUBSET DOMAIN s
    PROVE  Lists(Picked(s, places), s, places)
  <1>1. Len(s) \in Nat /\ DOMAIN s = 1..Len(s)
    BY DEF Sequence
  <1>2. PICK g : /\ PicksUpTo(g, s, places, Len(s))
                 /\ Picked(s, places) = IF places = DOMAIN s THEN s ELSE g[Len(s)]
    BY <1>1, PickedIs
  <1>3. Lists(g[Len(s)], s, places \cap (1..Len(s)))
    <2>1. \A k \in 0..Len(s) : Lists(g[k], s, places \cap (1..k))
      BY <1>2, PickedSteps
    <2>2. Len(s) \in 0..Len(s)
      BY <1>1
    <2> QED  BY Zenon, <2>1, <2>2
  <1>4. places \cap (1..Len(s)) = places
    BY <1>1
  <1> QED  BY <1>2, <1>3, <1>4, WholeLists

\* A set of pairs that orders the places of n items, ties allowed.
Ranks(before, n) ==
    /\ \A i, j \in 1..n : <<i, j>> \in before => <<j, i>> \notin before
    /\ \A i, j, k \in 1..n : <<i, j>> \notin before /\ <<j, k>> \notin before => <<i, k>> \notin before

LEMMA ItemsIn ==
    ASSUME NEW S, NEW s \in Seq(S)
    PROVE  /\ DOMAIN s = 1..Len(s) /\ Len(s) \in Nat
           /\ \A k \in 1..Len(s) : s[k] \in S
  OBVIOUS

LEMMA Middle ==
    ASSUME NEW S, NEW s \in Seq(S), NEW n \in 0..Len(s), NEW a \in 0..n
    PROVE  /\ SubSeq(s, a + 1, n) \in Seq(S) /\ Len(SubSeq(s, a + 1, n)) = n - a
           /\ \A i \in 1..n - a : SubSeq(s, a + 1, n)[i] = s[a + i]
  OBVIOUS

LEMMA Entire ==
    ASSUME NEW S, NEW s \in Seq(S)
    PROVE  SubSeq(s, 1, Len(s)) = s
  OBVIOUS

\* A function of 1..n is a sequence, and its list is itself.
LEMMA ListedItems ==
    ASSUME NEW n \in Nat, NEW s, DOMAIN s = 1..n, s = [k \in DOMAIN s |-> s[k]]
    PROVE  Sequence(s) /\ Len(s) = n /\ Listed(s) = s
  <1>1. s \in Seq({s[i] : i \in DOMAIN s}) /\ Len(s) = n
    BY Z3
  <1> QED  BY <1>1, ListedIsItself DEF Sequence

LEMMA SequenceOf ==
    ASSUME NEW n \in Nat, NEW f
    PROVE  /\ Sequence([k \in 1..n |-> f[k]]) /\ Len([k \in 1..n |-> f[k]]) = n
  <1> DEFINE t == [k \in 1..n |-> f[k]]
  <1>1. t \in Seq({t[i] : i \in DOMAIN t}) /\ Len(t) = n
    OBVIOUS
  <1> QED  BY <1>1 DEF Sequence

\* Numbers that are different and none too high are all of the numbers.
LEMMA EveryRank ==
    ASSUME NEW n \in Nat, NEW rank \in [1..n -> 1..n],
           \A i, j \in 1..n : rank[i] = rank[j] => i = j
    PROVE  \A k \in 1..n : \E i \in 1..n : rank[i] = k
  <1>1. IsFiniteSet(1..n)
    BY FS_Interval
  <1>2. rank \in Injection(1..n, 1..n)
    BY DEF Injection, IsInjective
  <1>3. rank \in Surjection(1..n, 1..n)
    BY <1>1, <1>2, FS_Injection
  <1> QED  BY <1>3 DEF Surjection

LEMMA UpTo ==
    ASSUME NEW n \in Nat
    PROVE  IsFiniteSet(1..n) /\ Cardinality(1..n) = n
  BY FS_Interval

LEMMA ArrangedLists ==
    ASSUME NEW items, Sequence(items), NEW before, Ranks(before, Len(items))
    PROVE  Lists(Arranged(items, before), items, DOMAIN items)
  <1> DEFINE n == Len(items)
             Below(j, i) == <<j, i>> \in before \/ (<<i, j>> \notin before /\ j < i)
             Under(i) == {j \in 1..n : Below(j, i)}
             rank == [i \in 1..n |-> Cardinality(Under(i)) + 1]
             at == [k \in 1..n |-> CHOOSE i \in 1..n : rank[i] = k]
             t == [k \in 1..n |-> items[at[k]]]
  <1>1. n \in Nat /\ DOMAIN items = 1..n
    BY DEF Sequence
  <1>2. \A i, j \in 1..n : i # j => Below(i, j) \/ Below(j, i)
    BY <1>1
  <1>3. \A i, j, k \in 1..n : Below(i, j) /\ Below(j, k) => Below(i, k)
    BY <1>1 DEF Ranks
  <1>4. \A i \in 1..n : ~Below(i, i)
    BY <1>1 DEF Ranks
  <1> HIDE DEF Below
  <1>5. \A i \in 1..n : IsFiniteSet(Under(i)) /\ Cardinality(Under(i)) \in 0..n - 1
    <2> TAKE i \in 1..n
    <2>1. IsFiniteSet(1..n) /\ Cardinality(1..n) = n
      <3> HIDE DEF n, Under
      <3> QED  BY <1>1, UpTo
    <2>2. Under(i) \in SUBSET (1..n) /\ i \notin Under(i)
      BY <1>4
    <2> HIDE DEF Under
    <2>3. IsFiniteSet(Under(i)) /\ Cardinality(Under(i)) <= n /\ Cardinality(Under(i)) # n
      BY <2>1, <2>2, FS_Subset
    <2>4. Cardinality(Under(i)) \in Nat
      BY <2>3, FS_CardinalityType
    <2> QED  BY <1>1, <2>3, <2>4
  <1>6. \A i, j \in 1..n : Below(i, j) => Cardinality(Under(i)) # Cardinality(Under(j))
    <2> SUFFICES ASSUME NEW i \in 1..n, NEW j \in 1..n, Below(i, j)
                 PROVE  Cardinality(Under(i)) # Cardinality(Under(j))
      OBVIOUS
    <2>1. Under(i) \in SUBSET Under(j)
      BY <1>3
    <2>2. i \in Under(j) /\ i \notin Under(i)
      BY <1>4
    <2>3. IsFiniteSet(Under(j))
      BY <1>5
    <2> HIDE DEF Under
    <2> QED  BY <2>1, <2>2, <2>3, FS_Subset
  <1> HIDE DEF Under
  <1>7. rank \in [1..n -> 1..n] /\ \A i \in 1..n : rank[i] = Cardinality(Under(i)) + 1
    <2> SUFFICES ASSUME NEW i \in 1..n PROVE Cardinality(Under(i)) + 1 \in 1..n
      OBVIOUS
    <2> QED  BY <1>1, <1>5
  <1> HIDE DEF rank
  <1>8. \A i, j \in 1..n : rank[i] = rank[j] => i = j
    <2> SUFFICES ASSUME NEW i \in 1..n, NEW j \in 1..n, rank[i] = rank[j], i # j PROVE FALSE
      OBVIOUS
    <2>1. Cardinality(Under(i)) = Cardinality(Under(j))
      BY <1>5, <1>7
    <2> QED  BY <1>2, <1>6, <2>1
  <1>9. \A k \in 1..n : \E i \in 1..n : rank[i] = k
    BY <1>1, <1>7, <1>8, EveryRank
  <1>10. at \in [1..n -> 1..n] /\ \A k \in 1..n : rank[at[k]] = k
    BY <1>9
  <1>11. Arranged(items, before) = t
    <2>1. DOMAIN items = 1..n /\ rank = Listed([i \in 1..n |-> Cardinality(Under(i)) + 1])
      <3>1. Listed(rank) = rank
        BY <1>1, <1>7, ListedItems
      <3> QED  BY <1>1, <3>1 DEF rank
    <2>2. Arranged(items, before) = Listed([k \in 1..n |-> items[CHOOSE i \in 1..n : rank[i] = k]])
      BY <2>1 DEF Arranged, Under, Below
    <2>3. [k \in 1..n |-> items[CHOOSE i \in 1..n : rank[i] = k]] = t
      OBVIOUS
    <2>4. Listed(t) = t
      BY <1>1, ListedItems
    <2> QED  BY <2>2, <2>3, <2>4
  <1> HIDE DEF at
  <1>12. Sequence(t) /\ Len(t) = n /\ \A k \in 1..n : t[k] = items[at[k]]
    <2>1. DOMAIN t = 1..n /\ t = [k \in DOMAIN t |-> t[k]] /\ \A k \in 1..n : t[k] = items[at[k]]
      OBVIOUS
    <2> HIDE DEF t
    <2> QED  BY <1>1, <2>1, ListedItems
  <1> HIDE DEF t
  <1>13. \A k, l \in 1..n : at[k] = at[l] => k = l
    BY <1>10
  <1>14. \A i \in 1..n : \E k \in 1..n : at[k] = i
    <2> TAKE i \in 1..n
    <2>1. rank[i] \in 1..n /\ rank[at[rank[i]]] = rank[i] /\ at[rank[i]] \in 1..n
      BY <1>7, <1>10
    <2> QED  BY <1>8, <2>1
  <1>15. ListsBy(at, t, items, DOMAIN items)
    BY <1>1, <1>10, <1>12, <1>13, <1>14 DEF ListsBy
  <1> QED  BY <1>11, <1>12, <1>15 DEF Lists

\* In whatever order, what is arranged is a sequence as long.
LEMMA ArrangedIsSequence ==
    ASSUME NEW items, Sequence(items), NEW before
    PROVE  Sequence(Arranged(items, before)) /\ Len(Arranged(items, before)) = Len(items)
  <1> DEFINE Rank(i) == Cardinality({j \in DOMAIN items :
                            \/ <<j, i>> \in before
                            \/ <<i, j>> \notin before /\ j < i}) + 1
             rank == Listed([i \in DOMAIN items |-> Rank(i)])
             t == [k \in DOMAIN items |-> items[CHOOSE i \in DOMAIN items : rank[i] = k]]
  <1>1. Arranged(items, before) = Listed(t)
    BY DEF Arranged
  <1>2. Len(items) \in Nat /\ DOMAIN items = 1..Len(items)
    BY DEF Sequence
  <1> HIDE DEF rank
  <1>3. DOMAIN t = 1..Len(items) /\ t = [k \in DOMAIN t |-> t[k]]
    BY <1>2
  <1> HIDE DEF t
  <1> QED  BY <1>1, <1>2, <1>3, ListedItems

FlattensUpTo(g, seqs, n) ==
    g = [i \in 1..n |-> IF i = 1 THEN seqs[i] ELSE g[i - 1] \o seqs[i]]

LEMMA FlattenNext ==
    ASSUME NEW seqs, NEW n \in Nat, NEW g, FlattensUpTo(g, seqs, n)
    PROVE  \E h : FlattensUpTo(h, seqs, n + 1)
  <1> DEFINE new == IF n + 1 = 1 THEN seqs[n + 1] ELSE g[n] \o seqs[n + 1]
             h == [i \in 1..n + 1 |-> IF i = n + 1 THEN new ELSE g[i]]
             Value(i) == IF i = 1 THEN seqs[i] ELSE h[i - 1] \o seqs[i]
  <1>1. h[n + 1] = new /\ \A i \in 1..n : i \in 1..n + 1 /\ h[i] = g[i]
    <2>1. n + 1 \in 1..n + 1 /\ \A i \in 1..n : i \in 1..n + 1 /\ i # n + 1
      OBVIOUS
    <2> HIDE DEF new
    <2> QED  BY <2>1
  <1>2. \A i \in 1..n : g[i] = IF i = 1 THEN seqs[i] ELSE g[i - 1] \o seqs[i]
    BY DEF FlattensUpTo
  <1>3. h = [i \in 1..n + 1 |-> h[i]]
    OBVIOUS
  <1> HIDE DEF h
  <1>4. \A i \in 1..n + 1 : h[i] = Value(i)
    <2> TAKE i \in 1..n + 1
    <2>1. CASE i \in 1..n
      <3>1. i # 1 => i - 1 \in 1..n
        BY <2>1
      <3> QED  BY <1>1, <1>2, <2>1, <3>1
    <2>2. CASE i = n + 1
      <3>1. i # 1 => n \in 1..n /\ (n + 1) - 1 = n
        BY <2>2
      <3> QED  BY <1>1, <2>2, <3>1
    <2> QED  BY <2>1, <2>2
  <1>5. h = [i \in 1..n + 1 |-> Value(i)]
    BY <1>3, <1>4
  <1> QED  BY <1>5 DEF FlattensUpTo

\* FlattenSeq is what its name says.
LEMMA FlattenIs ==
    ASSUME NEW seqs, Len(seqs) \in Nat \ {0}
    PROVE  \E g : FlattensUpTo(g, seqs, Len(seqs)) /\ FlattenSeq(seqs) = g[Len(seqs)]
  <1> DEFINE n == Len(seqs)
             some == {m \in Nat : \E g : FlattensUpTo(g, seqs, m)}
             flatten == CHOOSE g : FlattensUpTo(g, seqs, n)
  <1>1. \A m \in Nat : m \in some
    <2>1. 0 \in some
      <3>1. FlattensUpTo([i \in 1..0 |-> <<>>], seqs, 0)
        BY DEF FlattensUpTo
      <3> QED  BY <3>1
    <2>2. \A m \in some : m + 1 \in some
      BY FlattenNext
    <2>3. some \in SUBSET Nat
      OBVIOUS
    <2> HIDE DEF some
    <2> QED  BY <2>1, <2>2, <2>3, Induct
  <1>2. FlattensUpTo(flatten, seqs, n)
    BY <1>1
  <1>3. FlattenSeq(seqs) = flatten[n]
    BY DEF FlattenSeq, FlattensUpTo
  <1> HIDE DEF flatten
  <1> QED  BY <1>2, <1>3

\* The items of sequences one after another are theirs.
LEMMA FlattenedItems ==
    ASSUME NEW n \in Nat, NEW seqs, DOMAIN seqs = 1..n, seqs = [i \in DOMAIN seqs |-> seqs[i]],
           NEW S, \A i \in 1..n : seqs[i] \in Seq(S)
    PROVE  FlattenSeq(seqs) \in Seq(S)
  <1>1. Len(seqs) = n
    BY ListedItems
  <1>2. CASE n = 0
    <2>1. seqs = <<>>
      BY <1>2, Z3
    <2> QED  BY <1>1, <1>2, <2>1 DEF FlattenSeq
  <1>3. CASE n # 0
    <2>1. PICK g : FlattensUpTo(g, seqs, n) /\ FlattenSeq(seqs) = g[n]
      BY <1>1, <1>3, FlattenIs
    <2> DEFINE good == {k \in Nat : k + 1 <= n => g[k + 1] \in Seq(S)}
    <2>2. \A k \in 1..n : g[k] = IF k = 1 THEN seqs[k] ELSE g[k - 1] \o seqs[k]
      BY <2>1 DEF FlattensUpTo
    <2>3. 0 \in good
      BY <2>2
    <2>4. ASSUME NEW k \in good PROVE k + 1 \in good
      <3> SUFFICES ASSUME k + 2 <= n PROVE g[k + 2] \in Seq(S)
        OBVIOUS
      <3>1. k + 2 \in 1..n /\ k + 2 # 1 /\ (k + 2) - 1 = k + 1 /\ k + 1 <= n
        OBVIOUS
      <3>2. g[k + 1] \in Seq(S) /\ seqs[k + 2] \in Seq(S)
        BY <3>1
      <3> HIDE DEF good
      <3>3. g[k + 2] = g[k + 1] \o seqs[k + 2]
        BY <2>2, <3>1
      <3> QED  BY <3>2, <3>3
    <2>5. \A k \in Nat : k \in good
      <3>1. good \in SUBSET Nat
        OBVIOUS
      <3> HIDE DEF good
      <3> QED  BY <2>3, <2>4, <3>1, Induct
    <2>6. n - 1 \in Nat /\ (n - 1) + 1 = n
      BY <1>3
    <2>7. g[n] \in Seq(S)
      BY <2>5, <2>6
    <2> QED  BY <2>1, <2>7
  <1> QED  BY <1>2, <1>3

(***************************************************************************)
(* Whatever the counters of a log do - go back, restart, come from a       *)
(* checkpoint - no event is charged less than nothing, nor more than its   *)
(* own counter says, in any field: subtract, checked_add and is_reset of   *)
(* usage.rs never leave the range of the counters that were logged.        *)
(***************************************************************************)
THEOREM ChargedWithinCounter ==
    ASSUME NEW n \in Nat, NEW events,
           \A i \in 1..n : events[i].total \in Counters,
           \A i \in 1..n : events[i].last \in [Fields -> Int],
           NEW order \in Seq(1..n)
    PROVE  \A k \in DOMAIN order :
               /\ DeltasIn(events, order)[k].delta \in Counters
               /\ \A f \in Fields :
                      DeltasIn(events, order)[k].delta[f] <= events[order[k]].total[f]
  <1> DEFINE Total(k) == events[order[k]].total
             Earlier(k) == IF k = 1 THEN Zero ELSE Total(k - 1)
             Trusted(k) == /\ k = 1 \/ IsReset(Total(k), Earlier(k))
                           /\ HasTokens(events[order[k]].last)
                           /\ \A f \in Fields : events[order[k]].last[f] >= 0
                           /\ Plus(Minus(Total(k), events[order[k]].last),
                                   events[order[k]].last) = Total(k)
                           /\ k = 1 \/ ValidRequest(events[order[k]].last)
             Start(k) == IF Trusted(k) THEN Minus(Total(k), events[order[k]].last) ELSE Earlier(k)
             all == [k \in DOMAIN order |-> [row |-> order[k], at |-> events[order[k]].at,
                                             delta |-> Delta(Total(k), Start(k))]]
  <1>1. \A k \in DOMAIN order : order[k] \in 1..n
    OBVIOUS
  <1>2. \A k \in DOMAIN order : Total(k) \in Counters
    BY <1>1
  <1>3. ASSUME NEW k \in DOMAIN order PROVE Earlier(k) \in Counters
    <2>1. CASE k = 1
      BY <2>1, ZeroCounts
    <2>2. CASE k # 1
      <3>1. k - 1 \in DOMAIN order
        BY <2>2
      <3> QED  BY <2>2, <3>1, <1>2
    <2> QED  BY <2>1, <2>2
  <1>4. ASSUME NEW k \in DOMAIN order PROVE Start(k) \in Counters
    <2>1. CASE Trusted(k)
      <3>1. events[order[k]].last \in Counters
        <4>1. events[order[k]].last \in [Fields -> Int]
          BY <1>1
        <4>2. \A f \in Fields : events[order[k]].last[f] >= 0
          BY <2>1
        <4> QED  BY <4>1, <4>2 DEF Counters
      <3>2. Minus(Total(k), events[order[k]].last) \in Counters
        BY <3>1, <1>2, MinusCounts
      <3> QED  BY <2>1, <3>2
    <2>2. CASE ~ Trusted(k)
      BY <2>2, <1>3
    <2> QED  BY <2>1, <2>2
  <1>5. \A k \in DOMAIN order : /\ Delta(Total(k), Start(k)) \in Counters
                                /\ \A f \in Fields : Delta(Total(k), Start(k))[f] <= Total(k)[f]
    <2> HIDE DEF Total, Start
    <2> QED  BY <1>2, <1>4, DeltaCounts
  <1>6. DeltasIn(events, order) = all
    <2>1. DeltasIn(events, order) = Listed(all)
      BY DEF DeltasIn
    <2>2. all \in Seq({all[k] : k \in DOMAIN order})
      <3> HIDE DEF Total, Start
      <3> QED  OBVIOUS
    <2> HIDE DEF all
    <2> QED  BY <2>1, <2>2, ListedIsItself
  <1>7. \A k \in DOMAIN order : all[k].delta = Delta(Total(k), Start(k))
    <2> HIDE DEF Total, Start
    <2> QED  OBVIOUS
  <1>8. ASSUME NEW k \in DOMAIN order
        PROVE  /\ all[k].delta \in Counters
               /\ \A f \in Fields : all[k].delta[f] <= events[order[k]].total[f]
    <2>1. Total(k) = events[order[k]].total
      OBVIOUS
    <2> HIDE DEF Total, Start, all
    <2> QED  BY <2>1, <1>5, <1>7
  <1> HIDE DEF all
  <1> QED  BY <1>6, <1>8

-------------------------------------------------------------------------------
(* Folds *)

\* FoldLeft is what its name says: for usage, the partial sums exist.
UsageFrom(base, s) == FoldLeft(Plus, base, s)

UsageFolds(g, base, s, n) ==
    g = [T \in SUBSET (1..n) |->
           IF T = {} THEN base ELSE Plus(g[T \ {Max(T)}], s[Max(T)])]

LEMMA UsageFoldNext ==
    ASSUME NEW base, NEW s, NEW n \in Nat, NEW g, UsageFolds(g, base, s, n)
    PROVE  \E h : UsageFolds(h, base, s, n + 1)
  <1> DEFINE h == [T \in SUBSET (1..n + 1) |->
                     IF n + 1 \notin T THEN g[T] ELSE Plus(g[T \ {n + 1}], s[n + 1])]
             Value(T) == IF T = {} THEN base ELSE Plus(h[T \ {Max(T)}], s[Max(T)])
  <1>1. ASSUME NEW T \in SUBSET (1..n)
        PROVE  /\ T \in SUBSET (1..n + 1) /\ h[T] = g[T]
               /\ g[T] = IF T = {} THEN base ELSE Plus(g[T \ {Max(T)}], s[Max(T)])
    <2>1. T \in SUBSET (1..n + 1) /\ n + 1 \notin T
      OBVIOUS
    <2> QED  BY <2>1 DEF UsageFolds
  <1>2. ASSUME NEW T \in SUBSET (1..n + 1) PROVE h[T] = Value(T)
    <2>1. CASE n + 1 \notin T
      <3>1. T \in SUBSET (1..n)
        BY <2>1
      <3>2. T \ {Max(T)} \in SUBSET (1..n)
        BY <3>1
      <3>3. h[T] = g[T] /\ h[T \ {Max(T)}] = g[T \ {Max(T)}]
        BY <1>1, <3>1, <3>2
      <3> HIDE DEF h
      <3> QED  BY <1>1, <3>1, <3>3
    <2>2. CASE n + 1 \in T
      <3>1. Max(T) = n + 1
        BY <2>2, GreatestIs
      <3>2. T \ {n + 1} \in SUBSET (1..n)
        OBVIOUS
      <3>3. h[T \ {n + 1}] = g[T \ {n + 1}]
        BY <1>1, <3>2
      <3>4. h[T] = Plus(g[T \ {n + 1}], s[n + 1])
        BY <2>2
      <3> HIDE DEF h
      <3> QED  BY <2>2, <3>1, <3>3, <3>4
    <2> QED  BY <2>1, <2>2
  <1>3. h = [T \in SUBSET (1..n + 1) |-> h[T]]
    OBVIOUS
  <1> HIDE DEF h
  <1>4. h = [T \in SUBSET (1..n + 1) |-> Value(T)]
    BY <1>2, <1>3
  <1> QED  BY <1>4 DEF UsageFolds

\* Its partial results.
UsageRuns(h, base, s, n) == h[0] = base /\ \A k \in 1..n : h[k] = Plus(h[k - 1], s[k])

LEMMA UsageFoldIs ==
    ASSUME NEW base, NEW S, NEW s \in Seq(S)
    PROVE  \E h : UsageRuns(h, base, s, Len(s)) /\ UsageFrom(base, s) = h[Len(s)]
  <1> DEFINE iter == CHOOSE g : g = [T \in SUBSET (DOMAIN s) |->
                         IF T = {} THEN base ELSE Plus(g[T \ {Max(T)}], s[Max(T)])]
             some == {n \in Nat : \E g : UsageFolds(g, base, s, n)}
             n == Len(s)
             h == [k \in 0..n |-> iter[1..k]]
  <1>1. DOMAIN s = 1..n /\ n \in Nat
    OBVIOUS
  <1>2. n \in some
    <2>1. UsageFolds([T \in SUBSET (1..0) |-> base], base, s, 0)
      <3>1. \A T \in SUBSET (1..0) : T = {}
        OBVIOUS
      <3> QED  BY <3>1 DEF UsageFolds
    <2>2. \A k \in some : k + 1 \in some
      BY UsageFoldNext
    <2> QED  BY <1>1, <2>1, <2>2, Induct
  <1>3. UsageFolds(iter, base, s, n)
    BY <1>1, <1>2 DEF UsageFolds
  <1>4. UsageFrom(base, s) = iter[1..n]
    BY <1>1 DEF UsageFrom, FoldLeft, MapThenFoldSet
  <1> HIDE DEF iter, n
  <1>5. \A T \in SUBSET (1..n) :
            iter[T] = IF T = {} THEN base ELSE Plus(iter[T \ {Max(T)}], s[Max(T)])
    BY <1>3 DEF UsageFolds
  <1>6. ASSUME NEW k \in 1..n PROVE iter[1..k] = Plus(iter[1..k - 1], s[k])
    <2>1. k \in Nat /\ 1..k \in SUBSET (1..n) /\ 1..k # {} /\ k \in 1..k
      BY <1>1
    <2>2. Max(1..k) = k
      BY <2>1, GreatestIs
    <2>3. (1..k) \ {k} = 1..k - 1
      BY <2>1
    <2> QED  BY <1>5, <2>1, <2>2, <2>3
  <1>7. iter[1..0] = base
    <2>1. 1..0 = {} /\ 1..0 \in SUBSET (1..n)
      OBVIOUS
    <2> QED  BY <1>5, <2>1
  <1>8. h[0] = base /\ \A k \in 1..n : h[k] = Plus(h[k - 1], s[k])
    <2>1. \A k \in 0..n : h[k] = iter[1..k]
      OBVIOUS
    <2>2. \A k \in 1..n : k \in 0..n /\ k - 1 \in 0..n
      BY <1>1
    <2>3. 0 \in 0..n
      BY <1>1
    <2> HIDE DEF h
    <2> QED  BY <1>6, <1>7, <2>1, <2>2, <2>3
  <1>9. UsageFrom(base, s) = h[n]
    BY <1>1, <1>4
  <1>10. UsageRuns(h, base, s, n)
    <2> HIDE DEF h
    <2> QED  BY <1>8 DEF UsageRuns
  <1> HIDE DEF h
  <1> QED  BY <1>9, <1>10 DEF n

\* Every longer beginning of s adds one part to the usage.
UsageGrows(base, s) ==
    LET F(k) == UsageFrom(base, SubSeq(s, 1, k))
    IN  F(0) = base /\ \A k \in 1..Len(s) : F(k) = Plus(F(k - 1), s[k])

LEMMA UsageFoldStep ==
    ASSUME NEW base, NEW S, NEW s \in Seq(S)
    PROVE  UsageGrows(base, s)
  <1> DEFINE F(k) == UsageFrom(base, SubSeq(s, 1, k))
  <1>1. PICK h : UsageRuns(h, base, s, Len(s))
    BY UsageFoldIs
  <1>2. ASSUME NEW k \in 0..Len(s) PROVE F(k) = h[k]
    <2> DEFINE t == SubSeq(s, 1, k)
    <2>1. t \in Seq(S) /\ Len(t) = k /\ \A i \in 1..k : t[i] = s[i]
      BY Beginning
    <2> HIDE DEF t
    <2>2. PICK g : UsageRuns(g, base, t, k) /\ UsageFrom(base, t) = g[k]
      BY <2>1, UsageFoldIs
    <2> DEFINE T == {i \in Nat : i <= k => g[i] = h[i]}
    <2>3. 0 \in T
      BY <1>1, <2>2 DEF UsageRuns
    <2>4. ASSUME NEW i \in T PROVE i + 1 \in T
      <3> SUFFICES ASSUME i + 1 <= k PROVE g[i + 1] = h[i + 1]
        OBVIOUS
      <3>1. i + 1 \in 1..k /\ i + 1 \in 1..Len(s) /\ (i + 1) - 1 = i /\ i <= k
        OBVIOUS
      <3>2. g[i] = h[i]
        BY <3>1
      <3> QED  BY <1>1, <2>1, <2>2, <3>1, <3>2 DEF UsageRuns
    <2>5. k \in T
      <3>1. \A i \in Nat : i \in T
        <4> HIDE DEF T
        <4>1. T \in SUBSET Nat
          BY DEF T
        <4> QED  BY <2>3, <2>4, <4>1, Induct
      <3>2. k \in Nat
        OBVIOUS
      <3> HIDE DEF T
      <3> QED  BY <3>1, <3>2
    <2> QED  BY <2>2, <2>5 DEF t
  <1> HIDE DEF F
  <1>3. F(0) = base
    <2>1. 0 \in 0..Len(s)
      OBVIOUS
    <2> QED  BY <1>1, <1>2, <2>1 DEF UsageRuns
  <1>4. ASSUME NEW k \in 1..Len(s) PROVE F(k) = Plus(F(k - 1), s[k])
    <2>1. k \in 0..Len(s) /\ k - 1 \in 0..Len(s)
      OBVIOUS
    <2> QED  BY <1>1, <1>2, <2>1 DEF UsageRuns
  <1> QED  BY <1>3, <1>4 DEF F, UsageGrows

\* The same for numbers.
SumFrom(base, s) == FoldLeft(LAMBDA sum, n : sum + n, base, s)

SumFolds(g, base, s, n) ==
    g = [T \in SUBSET (1..n) |->
           IF T = {} THEN base ELSE g[T \ {Max(T)}] + s[Max(T)]]

LEMMA SumFoldNext ==
    ASSUME NEW base, NEW s, NEW n \in Nat, NEW g, SumFolds(g, base, s, n)
    PROVE  \E h : SumFolds(h, base, s, n + 1)
  <1> DEFINE h == [T \in SUBSET (1..n + 1) |->
                     IF n + 1 \notin T THEN g[T] ELSE g[T \ {n + 1}] + s[n + 1]]
             Value(T) == IF T = {} THEN base ELSE h[T \ {Max(T)}] + s[Max(T)]
  <1>1. ASSUME NEW T \in SUBSET (1..n)
        PROVE  /\ T \in SUBSET (1..n + 1) /\ h[T] = g[T]
               /\ g[T] = IF T = {} THEN base ELSE g[T \ {Max(T)}] + s[Max(T)]
    <2>1. T \in SUBSET (1..n + 1) /\ n + 1 \notin T
      OBVIOUS
    <2> QED  BY <2>1 DEF SumFolds
  <1>2. ASSUME NEW T \in SUBSET (1..n + 1) PROVE h[T] = Value(T)
    <2>1. CASE n + 1 \notin T
      <3>1. T \in SUBSET (1..n)
        BY <2>1
      <3>2. T \ {Max(T)} \in SUBSET (1..n)
        BY <3>1
      <3>3. h[T] = g[T] /\ h[T \ {Max(T)}] = g[T \ {Max(T)}]
        BY <1>1, <3>1, <3>2
      <3> HIDE DEF h
      <3> QED  BY <1>1, <3>1, <3>3
    <2>2. CASE n + 1 \in T
      <3>1. Max(T) = n + 1
        BY <2>2, GreatestIs
      <3>2. T \ {n + 1} \in SUBSET (1..n)
        OBVIOUS
      <3>3. h[T \ {n + 1}] = g[T \ {n + 1}]
        BY <1>1, <3>2
      <3>4. h[T] = g[T \ {n + 1}] + s[n + 1]
        BY <2>2
      <3> HIDE DEF h
      <3> QED  BY <2>2, <3>1, <3>3, <3>4
    <2> QED  BY <2>1, <2>2
  <1>3. h = [T \in SUBSET (1..n + 1) |-> h[T]]
    OBVIOUS
  <1> HIDE DEF h
  <1>4. h = [T \in SUBSET (1..n + 1) |-> Value(T)]
    BY <1>2, <1>3
  <1> QED  BY <1>4 DEF SumFolds

\* Its partial results.
SumRuns(h, base, s, n) == h[0] = base /\ \A k \in 1..n : h[k] = h[k - 1] + s[k]

LEMMA SumFoldIs ==
    ASSUME NEW base, NEW S, NEW s \in Seq(S)
    PROVE  \E h : SumRuns(h, base, s, Len(s)) /\ SumFrom(base, s) = h[Len(s)]
  <1> DEFINE iter == CHOOSE g : g = [T \in SUBSET (DOMAIN s) |->
                         IF T = {} THEN base ELSE g[T \ {Max(T)}] + s[Max(T)]]
             some == {n \in Nat : \E g : SumFolds(g, base, s, n)}
             n == Len(s)
             h == [k \in 0..n |-> iter[1..k]]
  <1>1. DOMAIN s = 1..n /\ n \in Nat
    OBVIOUS
  <1>2. n \in some
    <2>1. SumFolds([T \in SUBSET (1..0) |-> base], base, s, 0)
      <3>1. \A T \in SUBSET (1..0) : T = {}
        OBVIOUS
      <3> QED  BY <3>1 DEF SumFolds
    <2>2. \A k \in some : k + 1 \in some
      BY SumFoldNext
    <2> QED  BY <1>1, <2>1, <2>2, Induct
  <1>3. SumFolds(iter, base, s, n)
    BY <1>1, <1>2 DEF SumFolds
  <1>4. SumFrom(base, s) = iter[1..n]
    BY <1>1 DEF SumFrom, FoldLeft, MapThenFoldSet
  <1> HIDE DEF iter, n
  <1>5. \A T \in SUBSET (1..n) :
            iter[T] = IF T = {} THEN base ELSE iter[T \ {Max(T)}] + s[Max(T)]
    BY <1>3 DEF SumFolds
  <1>6. ASSUME NEW k \in 1..n PROVE iter[1..k] = iter[1..k - 1] + s[k]
    <2>1. k \in Nat /\ 1..k \in SUBSET (1..n) /\ 1..k # {} /\ k \in 1..k
      BY <1>1
    <2>2. Max(1..k) = k
      BY <2>1, GreatestIs
    <2>3. (1..k) \ {k} = 1..k - 1
      BY <2>1
    <2> QED  BY <1>5, <2>1, <2>2, <2>3
  <1>7. iter[1..0] = base
    <2>1. 1..0 = {} /\ 1..0 \in SUBSET (1..n)
      OBVIOUS
    <2> QED  BY <1>5, <2>1
  <1>8. h[0] = base /\ \A k \in 1..n : h[k] = h[k - 1] + s[k]
    <2>1. \A k \in 0..n : h[k] = iter[1..k]
      OBVIOUS
    <2>2. \A k \in 1..n : k \in 0..n /\ k - 1 \in 0..n
      BY <1>1
    <2>3. 0 \in 0..n
      BY <1>1
    <2> HIDE DEF h
    <2> QED  BY <1>6, <1>7, <2>1, <2>2, <2>3
  <1>9. SumFrom(base, s) = h[n]
    BY <1>1, <1>4
  <1>10. SumRuns(h, base, s, n)
    <2> HIDE DEF h
    <2> QED  BY <1>8 DEF SumRuns
  <1> HIDE DEF h
  <1> QED  BY <1>9, <1>10 DEF n

\* Every longer beginning of s adds one amount to the sum.
SumGrows(base, s) ==
    LET F(k) == SumFrom(base, SubSeq(s, 1, k))
    IN  F(0) = base /\ \A k \in 1..Len(s) : F(k) = F(k - 1) + s[k]

LEMMA SumFoldStep ==
    ASSUME NEW base, NEW S, NEW s \in Seq(S)
    PROVE  SumGrows(base, s)
  <1> DEFINE F(k) == SumFrom(base, SubSeq(s, 1, k))
  <1>1. PICK h : SumRuns(h, base, s, Len(s))
    BY SumFoldIs
  <1>2. ASSUME NEW k \in 0..Len(s) PROVE F(k) = h[k]
    <2> DEFINE t == SubSeq(s, 1, k)
    <2>1. t \in Seq(S) /\ Len(t) = k /\ \A i \in 1..k : t[i] = s[i]
      BY Beginning
    <2> HIDE DEF t
    <2>2. PICK g : SumRuns(g, base, t, k) /\ SumFrom(base, t) = g[k]
      BY <2>1, SumFoldIs
    <2> DEFINE T == {i \in Nat : i <= k => g[i] = h[i]}
    <2>3. 0 \in T
      BY <1>1, <2>2 DEF SumRuns
    <2>4. ASSUME NEW i \in T PROVE i + 1 \in T
      <3> SUFFICES ASSUME i + 1 <= k PROVE g[i + 1] = h[i + 1]
        OBVIOUS
      <3>1. i + 1 \in 1..k /\ i + 1 \in 1..Len(s) /\ (i + 1) - 1 = i /\ i <= k
        OBVIOUS
      <3>2. g[i] = h[i]
        BY <3>1
      <3> QED  BY <1>1, <2>1, <2>2, <3>1, <3>2 DEF SumRuns
    <2>5. k \in T
      <3>1. \A i \in Nat : i \in T
        <4> HIDE DEF T
        <4>1. T \in SUBSET Nat
          BY DEF T
        <4> QED  BY <2>3, <2>4, <4>1, Induct
      <3>2. k \in Nat
        OBVIOUS
      <3> HIDE DEF T
      <3> QED  BY <3>1, <3>2
    <2> QED  BY <2>2, <2>5 DEF t
  <1> HIDE DEF F
  <1>3. F(0) = base
    <2>1. 0 \in 0..Len(s)
      OBVIOUS
    <2> QED  BY <1>1, <1>2, <2>1 DEF SumRuns
  <1>4. ASSUME NEW k \in 1..Len(s) PROVE F(k) = F(k - 1) + s[k]
    <2>1. k \in 0..Len(s) /\ k - 1 \in 0..Len(s)
      OBVIOUS
    <2> QED  BY <1>1, <1>2, <2>1 DEF SumRuns
  <1> QED  BY <1>3, <1>4 DEF F, SumGrows

LEMMA PlusCounts ==
    ASSUME NEW a \in Counters, NEW b \in Counters
    PROVE  /\ Plus(a, b) \in Counters
           /\ \A f \in Fields : Plus(a, b)[f] = a[f] + b[f]
  BY DEF Plus, Counters

LEMMA SameCounts ==
    ASSUME NEW a \in Counters, NEW b \in Counters, \A f \in Fields : a[f] = b[f]
    PROVE  a = b
  BY DEF Counters

\* The usage of the first k parts, for one k after the other.
LEMMA UsageSteps ==
    ASSUME NEW us \in Seq(Counters)
    PROVE  LET U(k) == UsageOf(SubSeq(us, 1, k))
           IN  /\ U(0) = Zero
               /\ \A k \in 1..Len(us) : U(k) = Plus(U(k - 1), us[k])
               /\ \A k \in 0..Len(us) : U(k) \in Counters
               /\ U(Len(us)) = UsageOf(us)
  <1> DEFINE U(k) == UsageOf(SubSeq(us, 1, k))
             F(k) == UsageFrom(Zero, SubSeq(us, 1, k))
             T == {k \in Nat : k <= Len(us) => U(k) \in Counters}
  <1>1. \A k : U(k) = F(k)
    BY DEF UsageOf, UsageFrom
  <1>2. F(0) = Zero /\ \A k \in 1..Len(us) : F(k) = Plus(F(k - 1), us[k])
    <2>1. UsageGrows(Zero, us)
      BY UsageFoldStep
    <2> QED  BY <2>1 DEF UsageGrows
  <1>3. SubSeq(us, 1, Len(us)) = us
    OBVIOUS
  <1>4. U(Len(us)) = UsageOf(us)
    BY <1>3
  <1> HIDE DEF U, F
  <1>5. U(0) = Zero /\ \A k \in 1..Len(us) : U(k) = Plus(U(k - 1), us[k])
    BY <1>1, <1>2
  <1>6. 0 \in T
    BY <1>5, ZeroCounts
  <1>7. ASSUME NEW k \in T PROVE k + 1 \in T
    <2> SUFFICES ASSUME k + 1 <= Len(us) PROVE U(k + 1) \in Counters
      OBVIOUS
    <2>1. k + 1 \in 1..Len(us) /\ (k + 1) - 1 = k /\ U(k) \in Counters
      OBVIOUS
    <2>2. us[k + 1] \in Counters
      BY <2>1
    <2>3. U(k + 1) = Plus(U(k), us[k + 1])
      BY <1>5, <2>1
    <2> QED  BY <2>1, <2>2, <2>3, PlusCounts
  <1>8. \A k \in Nat : k \in T
    <2>1. T \in SUBSET Nat
      OBVIOUS
    <2> HIDE DEF T
    <2> QED  BY <1>6, <1>7, <2>1, Induct
  <1>9. \A k \in 0..Len(us) : k \in Nat /\ k <= Len(us)
    OBVIOUS
  <1>10. \A k \in 0..Len(us) : U(k) \in Counters
    BY <1>8, <1>9
  <1> QED  BY <1>4, <1>5, <1>10 DEF U

(***************************************************************************)
(* If what is charged for each count makes up what the counter grew by,    *)
(* all that is charged makes up the whole growth.                          *)
(***************************************************************************)
Grows(base, us, total, n) ==
    \A k \in 1..n : Plus(IF k = 1 THEN base ELSE total[k - 1], us[k]) = total[k]

LEMMA Telescopes ==
    ASSUME NEW us \in Seq(Counters), NEW base \in Counters, NEW n \in Nat, n = Len(us),
           NEW total \in [1..n -> Counters], Grows(base, us, total, n)
    PROVE  \A k \in 1..n : Plus(base, UsageOf(SubSeq(us, 1, k))) = total[k]
  <1> DEFINE U(k) == UsageOf(SubSeq(us, 1, k))
             T == {k \in Nat : k \in 1..n => Plus(base, U(k)) = total[k]}
  <1>1. /\ U(0) = Zero /\ \A k \in 1..n : U(k) = Plus(U(k - 1), us[k])
        /\ \A k \in 0..n : U(k) \in Counters
    BY UsageSteps
  <1> HIDE DEF U
  <1>2. ASSUME NEW k \in T PROVE k + 1 \in T
    <2> SUFFICES ASSUME k + 1 \in 1..n PROVE Plus(base, U(k + 1)) = total[k + 1]
      OBVIOUS
    <2> DEFINE before == IF k + 1 = 1 THEN base ELSE total[(k + 1) - 1]
    <2>1. /\ k \in 0..n /\ (k + 1) - 1 = k
          /\ U(k) \in Counters /\ us[k + 1] \in Counters /\ total[k + 1] \in Counters
          /\ U(k + 1) = Plus(U(k), us[k + 1]) /\ U(k + 1) \in Counters
      BY <1>1
    <2>2. before \in Counters /\ Plus(before, us[k + 1]) = total[k + 1]
      BY <2>1 DEF Grows
    <2>3. Plus(base, U(k)) = before
      <3>1. CASE k = 0
        <4>1. /\ \A f \in Fields : Plus(base, Zero)[f] = base[f] + Zero[f]
              /\ Plus(base, Zero) \in Counters
          BY ZeroCounts, PlusCounts
        <4>2. \A f \in Fields : Zero[f] = 0 /\ base[f] \in Nat
          BY DEF Zero, Counters
        <4>3. \A f \in Fields : Plus(base, Zero)[f] = base[f]
          BY <4>1, <4>2
        <4> QED  BY <1>1, <3>1, <4>1, <4>3, SameCounts
      <3>2. CASE k # 0
        BY <2>1, <3>2
      <3> QED  BY <3>1, <3>2
    <2> HIDE DEF before
    <2>4. \A f \in Fields : /\ Plus(base, U(k))[f] = base[f] + U(k)[f]
                            /\ U(k + 1)[f] = U(k)[f] + us[k + 1][f]
                            /\ Plus(base, U(k + 1))[f] = base[f] + U(k + 1)[f]
                            /\ total[k + 1][f] = before[f] + us[k + 1][f]
      BY <2>1, <2>2, PlusCounts
    <2>5. \A f \in Fields : base[f] \in Nat /\ U(k)[f] \in Nat /\ us[k + 1][f] \in Nat
      BY <2>1 DEF Counters
    <2>6. \A f \in Fields : Plus(base, U(k + 1))[f] = total[k + 1][f]
      BY <2>3, <2>4, <2>5
    <2>7. Plus(base, U(k + 1)) \in Counters
      BY <2>1, PlusCounts
    <2> QED  BY <2>1, <2>6, <2>7, SameCounts
  <1>3. 0 \in T
    OBVIOUS
  <1>4. T \in SUBSET Nat
    OBVIOUS
  <1>5. \A k \in Nat : k \in T
    <2> HIDE DEF T
    <2> QED  BY <1>2, <1>3, <1>4, Induct
  <1>6. \A k \in 1..n : Plus(base, U(k)) = total[k]
    BY <1>5
  <1> QED  BY <1>6 DEF U

\* The counters of the events in an order, and what is charged for them.
Totals(events, order) == [k \in 1..Len(order) |-> events[order[k]].total]
Charges(events, order) == [k \in 1..Len(order) |-> DeltasIn(events, order)[k].delta]

\* What each event is charged: the difference from the counter before it, or
\* from what the first request leaves of the counter.
Starts(start, events, order) ==
    LET total == Totals(events, order)
        first == events[order[1]]
    IN  /\ start[1] \in {Zero, Minus(first.total, first.last)} /\ start[1] \in Counters
        /\ \A f \in Fields : start[1][f] <= total[1][f]
        /\ \A k \in 2..Len(order) : start[k] = total[k - 1]
        /\ \A k \in 1..Len(order) : Charges(events, order)[k] = Delta(total[k], start[k])

LEMMA ChargedFrom ==
    ASSUME NEW n \in Nat, NEW events,
           \A i \in 1..n : events[i].total \in Counters,
           \A i \in 1..n : events[i].last \in [Fields -> Int],
           NEW order \in Seq(1..n), order # <<>>,
           \A k \in 2..Len(order), f \in Fields :
               events[order[k - 1]].total[f] <= events[order[k]].total[f]
    PROVE  \E start : Starts(start, events, order)
  <1> DEFINE len == Len(order)
             Total(k) == events[order[k]].total
             Earlier(k) == IF k = 1 THEN Zero ELSE Total(k - 1)
             Trusted(k) == /\ k = 1 \/ IsReset(Total(k), Earlier(k))
                           /\ HasTokens(events[order[k]].last)
                           /\ \A f \in Fields : events[order[k]].last[f] >= 0
                           /\ Plus(Minus(Total(k), events[order[k]].last),
                                   events[order[k]].last) = Total(k)
                           /\ k = 1 \/ ValidRequest(events[order[k]].last)
             Start(k) == IF Trusted(k) THEN Minus(Total(k), events[order[k]].last) ELSE Earlier(k)
             all == [k \in 1..len |-> [row |-> order[k], at |-> events[order[k]].at,
                                       delta |-> Delta(Total(k), Start(k))]]
             start == [k \in 1..len |-> Start(k)]
             charged == Charges(events, order)
             total == Totals(events, order)
             first == events[order[1]]
  <1>1. len \in Nat \ {0} /\ DOMAIN order = 1..len /\ \A k \in 1..len : order[k] \in 1..n
    OBVIOUS
  <1>2. \A k \in 1..len : Total(k) \in Counters /\ events[order[k]].last \in [Fields -> Int]
    BY <1>1
  <1>3. DeltasIn(events, order) = all
    <2>1. DeltasIn(events, order) = Listed([k \in DOMAIN order |->
              [row |-> order[k], at |-> events[order[k]].at, delta |-> Delta(Total(k), Start(k))]])
      BY DEF DeltasIn
    <2>2. DeltasIn(events, order) = Listed(all)
      BY Zenon, <1>1, <2>1
    <2>3. all \in Seq({all[k] : k \in 1..len})
      <3> HIDE DEF Total, Start
      <3> QED  BY <1>1
    <2> HIDE DEF all
    <2> QED  BY <2>2, <2>3, ListedIsItself
  <1>4. \A k \in 1..len : charged[k] = Delta(Total(k), Start(k))
    <2>1. charged = [k \in 1..len |-> all[k].delta]
      BY <1>3 DEF Charges
    <2> HIDE DEF Total, Start, charged
    <2> QED  BY <2>1
  <1>5. ASSUME NEW k \in 2..len PROVE Start(k) = Total(k - 1)
    <2>1. k - 1 \in 1..len /\ k \in 1..len /\ k # 1
      BY <1>1
    <2>2. \A f \in Fields : Total(k - 1)[f] <= Total(k)[f]
      BY <1>1, <1>5
    <2>3. Total(k) \in Counters /\ Total(k - 1) \in Counters
      BY <1>2, <2>1
    <2>4. Earlier(k) = Total(k - 1)
      BY <2>1
    <2> HIDE DEF Total
    <2>5. \A f \in Fields : /\ Total(k)[f] \in Nat /\ Total(k - 1)[f] \in Nat
                            /\ ~(Total(k)[f] < Total(k - 1)[f])
      BY <2>2, <2>3 DEF Counters
    <2>6. ~ IsReset(Total(k), Total(k - 1))
      BY <2>5 DEF IsReset, Fields
    <2> HIDE DEF Earlier
    <2> QED  BY <2>1, <2>4, <2>6
  <1>6. /\ Start(1) \in {Zero, Minus(Total(1), first.last)} /\ Start(1) \in Counters
        /\ \A f \in Fields : Start(1)[f] <= Total(1)[f]
    <2>1. Total(1) \in Counters /\ first.last \in [Fields -> Int]
      BY <1>1, <1>2
    <2>2. CASE Trusted(1)
      <3>1. first.last \in Counters
        BY <2>1, <2>2 DEF Counters
      <3>2. Start(1) = Minus(Total(1), first.last)
        BY <2>2
      <3> HIDE DEF Start, Total, first
      <3> QED  BY <2>1, <3>1, <3>2, MinusCounts
    <2>3. CASE ~ Trusted(1)
      <3>1. Start(1) = Zero
        BY <2>3
      <3> HIDE DEF Start, Total
      <3>2. \A f \in Fields : Zero[f] <= Total(1)[f]
        BY <2>1 DEF Zero, Counters
      <3> QED  BY <3>1, <3>2, ZeroCounts
    <2> QED  BY <2>2, <2>3
  <1>7. /\ start[1] = Start(1) /\ total[1] = Total(1)
        /\ \A k \in 1..len : start[k] = Start(k) /\ total[k] = Total(k)
        /\ \A k \in 2..len : k \in 1..len /\ k - 1 \in 1..len
    <2>1. total = [k \in 1..len |-> Total(k)]
      BY DEF Totals
    <2> HIDE DEF Start, Total, total
    <2> QED  BY <1>1, <2>1
  <1>8. Total(1) = first.total
    OBVIOUS
  <1>9. Starts(start, events, order)
    <2> HIDE DEF Start, Total, start, first
    <2> QED  BY <1>4, <1>5, <1>6, <1>7, <1>8 DEF Starts, first
  <1> QED  BY <1>9

(***************************************************************************)
(* A log whose counters only grow is charged exactly what they grew by: at *)
(* every count, what was charged so far and what the log began with - none,*)
(* or what its first request says was there before - make up the counter.  *)
(* Nothing is lost and nothing charged twice, however many counts there    *)
(* are and wherever they are read from (Usage::delta, event_deltas).       *)
(***************************************************************************)
THEOREM GrowthIsCounted ==
    ASSUME NEW n \in Nat, NEW events,
           \A i \in 1..n : events[i].total \in Counters,
           \A i \in 1..n : events[i].last \in [Fields -> Int],
           NEW order \in Seq(1..n), order # <<>>,
           \A k \in 2..Len(order), f \in Fields :
               events[order[k - 1]].total[f] <= events[order[k]].total[f]
    PROVE  \E base \in {Zero, Minus(events[order[1]].total, events[order[1]].last)} :
               \A k \in 1..Len(order) :
                   Plus(base, UsageOf(SubSeq(Charges(events, order), 1, k))) = events[order[k]].total
  <1> DEFINE len == Len(order)
             total == Totals(events, order)
             charged == Charges(events, order)
             first == events[order[1]]
  <1>1. len \in Nat \ {0} /\ DOMAIN order = 1..len /\ \A k \in 1..len : order[k] \in 1..n
    OBVIOUS
  <1>2. PICK start : Starts(start, events, order)
    BY ChargedFrom
  <1>3. total \in [1..len -> Counters]
    BY <1>1 DEF Totals
  <1>4. charged \in Seq(Counters) /\ Len(charged) = len
    <2>1. \A k \in 1..len : DeltasIn(events, order)[k].delta \in Counters
      BY <1>1, ChargedWithinCounter
    <2> QED  BY <1>1, <2>1 DEF Charges
  <1>5. \A k \in 2..len, f \in Fields : total[k - 1][f] <= total[k][f]
    <2>1. \A k \in 2..len : k - 1 \in 1..len /\ k \in 1..len
      BY <1>1
    <2> QED  BY <2>1 DEF Totals
  <1>6. \A k \in 1..len : total[k] = events[order[k]].total
    BY DEF Totals
  <1> HIDE DEF charged, total, len, first
  <1>7. /\ start[1] \in {Zero, Minus(first.total, first.last)} /\ start[1] \in Counters
        /\ \A f \in Fields : start[1][f] <= total[1][f]
        /\ \A k \in 2..len : start[k] = total[k - 1]
        /\ \A k \in 1..len : charged[k] = Delta(total[k], start[k])
    BY <1>2 DEF Starts, charged, total, len, first
  <1>8. ASSUME NEW k \in 1..len
        PROVE  Plus(IF k = 1 THEN start[1] ELSE total[k - 1], charged[k]) = total[k]
    <2>1. CASE k = 1
      <3>1. 1 \in 1..len /\ total[1] \in Counters
        BY <1>1, <1>3
      <3>2. charged[1] = Delta(total[1], start[1])
        BY <1>7, <3>1
      <3>3. Plus(start[1], Delta(total[1], start[1])) = total[1]
        BY <1>7, <3>1, GrowthIsCharged
      <3> QED  BY <2>1, <3>2, <3>3
    <2>2. CASE k # 1
      <3>1. k \in 2..len /\ k - 1 \in 1..len
        BY <1>1, <2>2
      <3>2. total[k] \in Counters /\ total[k - 1] \in Counters
        BY <1>3, <3>1
      <3>3. Plus(total[k - 1], Delta(total[k], total[k - 1])) = total[k]
        BY <1>5, <3>1, <3>2, GrowthIsCharged
      <3>4. charged[k] = Delta(total[k], total[k - 1])
        BY <1>7, <3>1
      <3> QED  BY <2>2, <3>3, <3>4
    <2> QED  BY <2>1, <2>2
  <1>9. Grows(start[1], charged, total, len)
    BY <1>8 DEF Grows
  <1>10. \A k \in 1..len : Plus(start[1], UsageOf(SubSeq(charged, 1, k))) = total[k]
    <2>1. start[1] \in Counters /\ len \in Nat /\ len = Len(charged)
      BY <1>1, <1>4, <1>7
    <2> QED  BY Zenon, <1>3, <1>4, <1>9, <2>1, Telescopes
  <1>11. \A k \in 1..len :
             Plus(start[1], UsageOf(SubSeq(charged, 1, k))) = events[order[k]].total
    BY <1>6, <1>10
  <1>12. start[1] \in {Zero, Minus(first.total, first.last)}
    BY <1>7
  <1> QED  BY Zenon, <1>11, <1>12 DEF charged, len, first

-------------------------------------------------------------------------------
(* Rows *)

Row == [at : Nat, model : STRING, tier : STRING, total : Counters, last : [Fields -> Int],
        request : Int, generation : Int]

LEMMA CumulatedAre ==
    ASSUME NEW n \in Nat, NEW rows, DOMAIN rows = 1..n, \A k \in 1..n : rows[k] \in Row,
           NEW deltas \in Seq(Counters), n = Len(deltas)
    PROVE  /\ Cumulated(rows, deltas) \in Seq(Row) /\ Len(Cumulated(rows, deltas)) = n
           /\ \A k \in 1..n :
                /\ Cumulated(rows, deltas)[k].total = UsageOf(SubSeq(deltas, 1, k))
                /\ Cumulated(rows, deltas)[k].last = deltas[k]
  <1> DEFINE U(k) == UsageOf(SubSeq(deltas, 1, k))
             all == [k \in 1..n |-> [rows[k] EXCEPT !.last = deltas[k], !.total = U(k)]]
  <1>1. \A k \in 1..n : U(k) \in Counters /\ deltas[k] \in Counters
    <2>1. \A k \in 0..n : U(k) \in Counters
      BY UsageSteps
    <2> HIDE DEF U
    <2> QED  BY <2>1
  <1> HIDE DEF U
  <1>2. ASSUME NEW k \in 1..n
        PROVE  all[k] \in Row /\ all[k].total = U(k) /\ all[k].last = deltas[k]
    <2>1. deltas[k] \in [Fields -> Int] /\ U(k) \in Counters
      BY <1>1 DEF Counters
    <2> QED  BY <2>1 DEF Row
  <1>3. all \in Seq(Row) /\ Len(all) = n
    <2>1. all = [k \in 1..n |-> all[k]]
      OBVIOUS
    <2> HIDE DEF all
    <2> QED  BY <1>2, <2>1
  <1>4. Cumulated(rows, deltas) = Listed(all)
    BY DEF Cumulated, U
  <1>5. Listed(all) = all
    <2> HIDE DEF all
    <2> QED  BY <1>3, ListedIsItself
  <1> HIDE DEF all
  <1> QED  BY <1>2, <1>3, <1>4, <1>5 DEF U

(***************************************************************************)
(* A child whose counter only grows from what it inherited ends up with    *)
(* its own usage: at every row, what it inherited and the total that is    *)
(* shown for it make up the counter of its log. History that was copied    *)
(* from the parent is neither lost nor counted again (normalize.rs).       *)
(***************************************************************************)
THEOREM ChildCountsItsOwn ==
    ASSUME NEW own \in Seq(Row), NEW spec, spec.baseline \in Counters, spec.tier \in STRING,
           own # <<>> => \A f \in Fields : spec.baseline[f] <= own[1].total[f],
           \A k \in 2..Len(own), f \in Fields : own[k - 1].total[f] <= own[k].total[f]
    PROVE  /\ OwnRows(own, spec) \in Seq(Row) /\ Len(OwnRows(own, spec)) = Len(own)
           /\ \A k \in 1..Len(own) :
                Plus(spec.baseline, OwnRows(own, spec)[k].total) = own[k].total
  <1> DEFINE n == Len(own)
             Previous(k) == IF k = 1 THEN spec.baseline ELSE own[k - 1].total
             Told(row) == [row EXCEPT !.tier = IF @ = NoName THEN spec.tier ELSE @]
             rows == [k \in DOMAIN own |-> Told(own[k])]
             deltas == [k \in DOMAIN own |-> Delta(own[k].total, Previous(k))]
             total == [k \in 1..n |-> own[k].total]
  <1>1. n \in Nat /\ DOMAIN own = 1..n /\ \A k \in 1..n : own[k] \in Row
    OBVIOUS
  <1>2. \A k \in 1..n : own[k].total \in Counters
    BY <1>1 DEF Row
  <1>3. ASSUME NEW k \in 1..n
        PROVE  Previous(k) \in Counters /\ \A f \in Fields : Previous(k)[f] <= own[k].total[f]
    <2>1. CASE k = 1
      <3>1. own # <<>>
        BY <1>1
      <3> QED  BY <2>1, <3>1
    <2>2. CASE k # 1
      <3>1. k \in 2..n /\ k - 1 \in 1..n
        BY <1>1, <2>2
      <3> QED  BY <1>2, <2>2, <3>1
    <2> QED  BY <2>1, <2>2
  <1> HIDE DEF n
  <1>4. ASSUME NEW k \in 1..n
        PROVE  /\ Delta(own[k].total, Previous(k)) \in Counters
               /\ Plus(Previous(k), Delta(own[k].total, Previous(k))) = own[k].total
    <2> HIDE DEF Previous
    <2> QED  BY <1>2, <1>3, DeltaCounts, GrowthIsCharged
  <1>5. deltas \in Seq(Counters) /\ Len(deltas) = n /\ \A k \in 1..n :
            deltas[k] = Delta(own[k].total, Previous(k))
    <2> HIDE DEF Previous
    <2> QED  BY <1>1, <1>4
  <1>6. total \in [1..n -> Counters] /\ \A k \in 1..n : total[k] = own[k].total
    BY <1>2
  <1>7. DOMAIN rows = 1..n /\ \A k \in 1..n : rows[k] \in Row
    <2>1. \A k \in 1..n : Told(own[k]) \in Row
      BY <1>1 DEF Row
    <2> HIDE DEF Told
    <2> QED  BY <1>1, <2>1
  <1>8. OwnRows(own, spec) = Cumulated(rows, deltas)
    BY DEF OwnRows
  <1>9. \A k \in 1..n : Previous(k) = IF k = 1 THEN spec.baseline ELSE total[k - 1]
    <2>1. \A k \in 1..n : k # 1 => k - 1 \in 1..n
      BY <1>1
    <2> QED  BY <2>1
  <1> HIDE DEF rows, deltas, total, Previous
  <1>10. Grows(spec.baseline, deltas, total, n)
    BY <1>4, <1>5, <1>6, <1>9 DEF Grows
  <1>11. \A k \in 1..n : Plus(spec.baseline, UsageOf(SubSeq(deltas, 1, k))) = total[k]
    BY Zenon, <1>1, <1>5, <1>6, <1>10, Telescopes
  <1>12. /\ Cumulated(rows, deltas) \in Seq(Row) /\ Len(Cumulated(rows, deltas)) = n
         /\ \A k \in 1..n : Cumulated(rows, deltas)[k].total = UsageOf(SubSeq(deltas, 1, k))
    BY <1>1, <1>5, <1>7, CumulatedAre
  <1> QED  BY <1>6, <1>8, <1>11, <1>12 DEF n

\* What is added to a counter is what is charged for it.
LEMMA AddedIsCharged ==
    ASSUME NEW a \in Counters, NEW b \in Counters
    PROVE  ~IsReset(Plus(a, b), a) /\ Delta(Plus(a, b), a) = b
  <1>1. \A f \in Fields : /\ a[f] \in Nat /\ b[f] \in Nat /\ Plus(a, b)[f] = a[f] + b[f]
    BY PlusCounts DEF Counters
  <1>2. \A f \in Fields : ~(Plus(a, b)[f] < a[f])
    BY <1>1
  <1>3. ~IsReset(Plus(a, b), a)
    BY <1>2 DEF IsReset, Fields
  <1>4. \A f \in Fields : Minus(Plus(a, b), a)[f] = b[f]
    BY <1>1 DEF Minus
  <1>5. Minus(Plus(a, b), a) \in Counters
    BY PlusCounts, MinusCounts
  <1>6. Minus(Plus(a, b), a) = b
    BY <1>4, <1>5, SameCounts
  <1> QED  BY <1>3, <1>6 DEF Delta

(***************************************************************************)
(* Rows that were normalised say the same when they are normalised again:  *)
(* the differences of the totals that cumulate some charges are those      *)
(* charges. A session can be exported, imported, narrowed to a period or   *)
(* priced again, and each of its requests is charged what it was charged   *)
(* first (reprice of normalize.rs, for_period of query.rs, remote.rs).     *)
(***************************************************************************)
THEOREM NormalizedStays ==
    ASSUME NEW n \in Nat, NEW rows, DOMAIN rows = 1..n, \A k \in 1..n : rows[k] \in Row,
           NEW deltas \in Seq(Counters), n = Len(deltas)
    PROVE  \A k \in 1..n :
               DeltasIn(Cumulated(rows, deltas), [i \in 1..n |-> i])[k].delta = deltas[k]
  <1> DEFINE events == Cumulated(rows, deltas)
             order == [i \in 1..n |-> i]
             U(k) == UsageOf(SubSeq(deltas, 1, k))
             Total(k) == events[order[k]].total
             Earlier(k) == IF k = 1 THEN Zero ELSE Total(k - 1)
             Trusted(k) == /\ k = 1 \/ IsReset(Total(k), Earlier(k))
                           /\ HasTokens(events[order[k]].last)
                           /\ \A f \in Fields : events[order[k]].last[f] >= 0
                           /\ Plus(Minus(Total(k), events[order[k]].last),
                                   events[order[k]].last) = Total(k)
                           /\ k = 1 \/ ValidRequest(events[order[k]].last)
             Start(k) == IF Trusted(k) THEN Minus(Total(k), events[order[k]].last) ELSE Earlier(k)
             all == [k \in 1..n |-> [row |-> order[k], at |-> events[order[k]].at,
                                     delta |-> Delta(Total(k), Start(k))]]
  <1>1. \A k \in 1..n : events[k].total = U(k) /\ events[k].last = deltas[k]
    BY CumulatedAre
  <1>2. /\ U(0) = Zero /\ \A k \in 1..n : U(k) = Plus(U(k - 1), deltas[k])
        /\ \A k \in 0..n : U(k) \in Counters
    BY UsageSteps
  <1> HIDE DEF events, U
  <1>3. \A k \in 1..n : order[k] = k /\ Total(k) = U(k) /\ events[order[k]].last = deltas[k]
    BY <1>1
  <1>4. DeltasIn(events, order) = all
    <2>1. DOMAIN order = 1..n
      OBVIOUS
    <2>2. DeltasIn(events, order) = Listed([k \in DOMAIN order |->
              [row |-> order[k], at |-> events[order[k]].at, delta |-> Delta(Total(k), Start(k))]])
      BY DEF DeltasIn
    <2> HIDE DEF order
    <2>3. DeltasIn(events, order) = Listed(all)
      BY Zenon, <2>1, <2>2
    <2>4. all \in Seq({all[k] : k \in 1..n})
      <3> HIDE DEF Total, Start
      <3> QED  OBVIOUS
    <2> HIDE DEF all
    <2> QED  BY <2>3, <2>4, ListedIsItself
  <1>5. \A k \in 1..n : all[k].delta = Delta(Total(k), Start(k))
    <2> HIDE DEF Total, Start, order
    <2> QED  OBVIOUS
  <1> HIDE DEF all, order
  <1>6. ASSUME NEW k \in 1..n
        PROVE  Earlier(k) = U(k - 1) /\ U(k - 1) \in Counters /\ deltas[k] \in Counters
    <2>1. k = 1 \/ k - 1 \in 1..n
      OBVIOUS
    <2>2. k - 1 \in 0..n
      OBVIOUS
    <2> QED  BY <1>2, <1>3, <2>1, <2>2
  <1>7. ASSUME NEW k \in 1..n PROVE Start(k) = U(k - 1)
    <2>1. Total(k) = Plus(U(k - 1), deltas[k]) /\ events[order[k]].last = deltas[k]
      BY <1>2, <1>3
    <2>2. ~IsReset(Total(k), Earlier(k))
      BY <1>6, <2>1, AddedIsCharged
    <2>3. CASE k = 1
      <3>1. Earlier(k) = Zero /\ U(k - 1) = Zero
        BY <1>2, <2>3
      <3>2. \A f \in Fields : deltas[k][f] \in Nat /\ Plus(Zero, deltas[k])[f] = deltas[k][f]
        <4>1. \A f \in Fields : deltas[k][f] \in Nat
          BY <1>6 DEF Counters
        <4> QED  BY <4>1 DEF Plus, Zero
      <3>3. \A f \in Fields : Minus(Total(k), deltas[k])[f] = 0
        BY <2>1, <3>1, <3>2 DEF Minus
      <3>4. Minus(Total(k), deltas[k]) = [f \in Fields |-> 0]
        BY <3>3 DEF Minus
      <3> QED  BY <2>1, <3>1, <3>4 DEF Zero
    <2>4. CASE k # 1
      <3>1. ~Trusted(k)
        BY <2>2, <2>4
      <3> HIDE DEF Trusted
      <3> QED  BY <1>6, <3>1
    <2> QED  BY <2>3, <2>4
  <1>8. ASSUME NEW k \in 1..n PROVE Delta(Total(k), Start(k)) = deltas[k]
    <2>1. Total(k) = Plus(U(k - 1), deltas[k])
      BY <1>2, <1>3
    <2> HIDE DEF Total, Start
    <2> QED  BY <1>6, <1>7, <2>1, AddedIsCharged
  <1> HIDE DEF Total, Start
  <1>9. \A k \in 1..n : DeltasIn(events, order)[k].delta = deltas[k]
    BY <1>4, <1>5, <1>8
  <1> QED  BY <1>9 DEF events, order

-------------------------------------------------------------------------------
(* Costs *)

\* The amounts of the first k parts, for one k after the other.
LEMMA SumSteps ==
    ASSUME NEW cs \in Seq(Int)
    PROVE  LET C(k) == SumOf(SubSeq(cs, 1, k))
           IN  /\ C(0) = 0
               /\ \A k \in 1..Len(cs) : C(k) = C(k - 1) + cs[k]
               /\ C(Len(cs)) = SumOf(cs)
  <1> DEFINE C(k) == SumOf(SubSeq(cs, 1, k))
             F(k) == SumFrom(0, SubSeq(cs, 1, k))
  <1>1. \A k : C(k) = F(k)
    BY DEF SumOf, SumFrom
  <1>2. F(0) = 0 /\ \A k \in 1..Len(cs) : F(k) = F(k - 1) + cs[k]
    <2>1. SumGrows(0, cs)
      BY SumFoldStep
    <2> QED  BY <2>1 DEF SumGrows
  <1>3. SubSeq(cs, 1, Len(cs)) = cs
    OBVIOUS
  <1>4. C(Len(cs)) = SumOf(cs)
    BY <1>3
  <1> HIDE DEF C, F
  <1> QED  BY <1>1, <1>2, <1>4 DEF C

Prices == [input : Int, cached : Int, output : Int]

\* Requests none of which reads more from the cache than it reads.
Plausible(us) == us \in Seq(Counters) /\ \A k \in 1..Len(us) : us[k]["cached"] <= us[k]["input"]

LEMMA CostIs ==
    ASSUME NEW u \in Counters, u["cached"] <= u["input"], NEW p \in Prices
    PROVE  /\ Cost(u, p) = (u["input"] - u["cached"]) * p.input + u["cached"] * p.cached
                               + u["output"] * p.output
           /\ Cost(u, p) \in Int
  <1>1. u["input"] \in Nat /\ u["cached"] \in Nat /\ u["output"] \in Nat
    BY DEF Counters, Fields
  <1>2. p.input \in Int /\ p.cached \in Int /\ p.output \in Int
    BY DEF Prices
  <1>3. /\ AtLeast0(u["input"]) = u["input"] /\ AtLeast0(u["cached"]) = u["cached"]
        /\ AtLeast0(u["output"]) = u["output"] /\ ~(u["cached"] > u["input"])
    BY <1>1 DEF AtLeast0
  <1>4. Cost(u, p) = (u["input"] - u["cached"]) * p.input + u["cached"] * p.cached
                         + u["output"] * p.output
    BY <1>1, <1>3 DEF Cost
  <1> QED  BY <1>1, <1>2, <1>4

LEMMA Distributes ==
    ASSUME NEW a \in Int, NEW b \in Int, NEW c \in Int
    PROVE  (a + b) * c = a * c + b * c
  OBVIOUS

LEMMA CostAdds ==
    ASSUME NEW a \in Counters, a["cached"] <= a["input"],
           NEW b \in Counters, b["cached"] <= b["input"], NEW p \in Prices
    PROVE  /\ Plus(a, b)["cached"] <= Plus(a, b)["input"]
           /\ Cost(Plus(a, b), p) = Cost(a, p) + Cost(b, p)
  <1> DEFINE sum == Plus(a, b)
  <1>1. sum \in Counters /\ \A f \in Fields : sum[f] = a[f] + b[f]
    BY PlusCounts
  <1> HIDE DEF sum
  <1>2. /\ a["input"] \in Nat /\ a["cached"] \in Nat /\ a["output"] \in Nat
        /\ b["input"] \in Nat /\ b["cached"] \in Nat /\ b["output"] \in Nat
        /\ sum["input"] = a["input"] + b["input"]
        /\ sum["cached"] = a["cached"] + b["cached"]
        /\ sum["output"] = a["output"] + b["output"]
    BY <1>1 DEF Counters, Fields
  <1>3. p.input \in Int /\ p.cached \in Int /\ p.output \in Int
    BY DEF Prices
  <1>4. sum["cached"] <= sum["input"]
    BY <1>2
  <1>5. /\ Cost(sum, p) = (sum["input"] - sum["cached"]) * p.input + sum["cached"] * p.cached
                              + sum["output"] * p.output
        /\ Cost(a, p) = (a["input"] - a["cached"]) * p.input + a["cached"] * p.cached
                            + a["output"] * p.output
        /\ Cost(b, p) = (b["input"] - b["cached"]) * p.input + b["cached"] * p.cached
                            + b["output"] * p.output
    BY <1>1, <1>4, CostIs
  <1> DEFINE x == a["input"] - a["cached"]
             y == b["input"] - b["cached"]
  <1>6. x \in Int /\ y \in Int /\ sum["input"] - sum["cached"] = x + y
    BY <1>2
  <1>7. /\ (x + y) * p.input = x * p.input + y * p.input
        /\ (a["cached"] + b["cached"]) * p.cached = a["cached"] * p.cached + b["cached"] * p.cached
        /\ (a["output"] + b["output"]) * p.output = a["output"] * p.output + b["output"] * p.output
    <2> HIDE DEF x, y
    <2> QED  BY <1>2, <1>3, <1>6, Distributes
  <1>8. Cost(sum, p) = Cost(a, p) + Cost(b, p)
    <2> DEFINE xi == x * p.input
               yi == y * p.input
               ac == a["cached"] * p.cached
               bc == b["cached"] * p.cached
               ao == a["output"] * p.output
               bo == b["output"] * p.output
    <2>1. /\ xi \in Int /\ yi \in Int /\ ac \in Int /\ bc \in Int /\ ao \in Int /\ bo \in Int
      <3> HIDE DEF x, y
      <3> QED  BY <1>2, <1>3, <1>6
    <2>2. Cost(a, p) = xi + ac + ao /\ Cost(b, p) = yi + bc + bo
      BY <1>5
    <2>3. Cost(sum, p) = (xi + yi) + (ac + bc) + (ao + bo)
      <3> HIDE DEF x, y
      <3> QED  BY <1>2, <1>5, <1>6, <1>7
    <2> HIDE DEF xi, yi, ac, bc, ao, bo
    <2> QED  BY <2>1, <2>2, <2>3
  <1> QED  BY <1>4, <1>8 DEF sum

(***************************************************************************)
(* At one price it makes no difference whether requests are priced one by  *)
(* one or as a whole, as long as none of them reads more from the cache    *)
(* than it reads: what a segment of a bill costs is what its usage costs,  *)
(* and segments can be taken together or apart (cost_for and the segments  *)
(* of pricing.rs).                                                         *)
(***************************************************************************)
THEOREM CostOfTheSum ==
    ASSUME NEW us, Plausible(us), NEW p \in Prices
    PROVE  Cost(UsageOf(us), p) = SumOf([k \in 1..Len(us) |-> Cost(us[k], p)])
  <1> DEFINE n == Len(us)
             cs == [k \in 1..n |-> Cost(us[k], p)]
             U(k) == UsageOf(SubSeq(us, 1, k))
             C(k) == SumOf(SubSeq(cs, 1, k))
             Agrees(k) == U(k)["cached"] <= U(k)["input"] /\ Cost(U(k), p) = C(k)
             T == {k \in Nat : k <= n => Agrees(k)}
  <1>1. us \in Seq(Counters) /\ n \in Nat
    BY DEF Plausible
  <1>2. \A k \in 1..n : us[k] \in Counters /\ us[k]["cached"] <= us[k]["input"]
    BY <1>1 DEF Plausible
  <1>3. cs \in Seq(Int) /\ Len(cs) = n /\ \A k \in 1..n : cs[k] = Cost(us[k], p)
    <2>1. \A k \in 1..n : Cost(us[k], p) \in Int
      BY <1>2, CostIs
    <2> QED  BY <1>1, <2>1
  <1>4. /\ U(0) = Zero /\ \A k \in 1..n : U(k) = Plus(U(k - 1), us[k])
        /\ \A k \in 0..n : U(k) \in Counters
        /\ U(n) = UsageOf(us)
    BY <1>1, UsageSteps
  <1>5. C(0) = 0 /\ (\A k \in 1..n : C(k) = C(k - 1) + cs[k]) /\ C(n) = SumOf(cs)
    <2> HIDE DEF cs
    <2> QED  BY <1>3, SumSteps
  <1> HIDE DEF cs, U, C, n
  <1>6. 0 \in T
    <2>1. /\ Zero["cached"] = 0 /\ Zero["input"] = 0 /\ Zero["output"] = 0
      BY DEF Zero, Fields
    <2>2. p.input \in Int /\ p.cached \in Int /\ p.output \in Int
      BY DEF Prices
    <2>3. Cost(Zero, p) = (0 - 0) * p.input + 0 * p.cached + 0 * p.output
      BY <2>1, ZeroCounts, CostIs
    <2>4. Cost(Zero, p) = 0
      BY <2>2, <2>3
    <2> QED  BY <1>4, <1>5, <2>1, <2>4
  <1>7. ASSUME NEW k \in T PROVE k + 1 \in T
    <2> SUFFICES ASSUME k + 1 <= n PROVE Agrees(k + 1)
      OBVIOUS
    <2>1. k + 1 \in 1..n /\ k \in 0..n /\ (k + 1) - 1 = k /\ Agrees(k)
      BY <1>1
    <2>2. U(k + 1) = Plus(U(k), us[k + 1]) /\ C(k + 1) = C(k) + Cost(us[k + 1], p)
      BY <1>3, <1>4, <1>5, <2>1
    <2>3. U(k) \in Counters /\ us[k + 1] \in Counters /\ us[k + 1]["cached"] <= us[k + 1]["input"]
      BY <1>2, <1>4, <2>1
    <2> QED  BY <2>1, <2>2, <2>3, CostAdds
  <1>8. n \in T
    <2>1. T \in SUBSET Nat
      OBVIOUS
    <2> HIDE DEF T
    <2> QED  BY <1>1, <1>6, <1>7, <2>1, Induct
  <1>9. Cost(U(n), p) = C(n)
    BY <1>1, <1>8
  <1> QED  BY <1>4, <1>5, <1>9 DEF cs, n

-------------------------------------------------------------------------------
(* Schedules of prices *)

\* Schedules come in the order of their times, as from_json demands.
Ordered(schedules) ==
    /\ \E S : schedules \in Seq(S)
    /\ schedules # <<>>
    /\ \A i \in 1..Len(schedules) : schedules[i].from \in Nat
    /\ \A i \in 1..Len(schedules) - 1 : schedules[i].from < schedules[i + 1].from

LEMMA LaterFrom ==
    ASSUME NEW schedules, Ordered(schedules),
           NEW i \in 1..Len(schedules), NEW j \in 1..Len(schedules), i < j
    PROVE  schedules[i].from < schedules[j].from
  <1> DEFINE T == {k \in i + 1..Len(schedules) : ~(schedules[i].from < schedules[k].from)}
  <1>1. Len(schedules) \in Nat
    BY DEF Ordered
  <1>2. SUFFICES ASSUME T # {} PROVE FALSE
    BY <1>1
  <1>3. T \in SUBSET Nat
    BY <1>1
  <1>4. Min(T) \in T /\ \A k \in T : Min(T) <= k
    BY <1>2, <1>3, Least
  <1> DEFINE m == Min(T)
  <1>5. m \in i + 1..Len(schedules) /\ ~(schedules[i].from < schedules[m].from)
    BY <1>4
  <1>6. m - 1 \notin T
    BY <1>4, <1>5, <1>1
  <1> HIDE DEF m
  <1>7. m - 1 = i \/ schedules[i].from < schedules[m - 1].from
    BY <1>1, <1>5, <1>6
  <1> HIDE DEF T
  <1>8. m - 1 \in 1..Len(schedules) - 1 /\ (m - 1) + 1 = m
    BY <1>1, <1>5
  <1>9. schedules[m - 1].from < schedules[m].from
    BY <1>8 DEF Ordered
  <1>10. /\ schedules[i].from \in Nat /\ schedules[m].from \in Nat
         /\ schedules[m - 1].from \in Nat
    BY <1>1, <1>5, <1>8 DEF Ordered
  <1> QED  BY <1>5, <1>7, <1>9, <1>10

\* A time after the first schedule has begun.
Dated(at, schedules) == at \in Nat \ {NoTime} /\ schedules[1].from <= at

\* The schedule in force is the last one that has begun.
LEMMA InForceLast ==
    ASSUME NEW schedules, Ordered(schedules), NEW at, Dated(at, schedules)
    PROVE  LET n == InForce(at, schedules)
           IN  /\ n \in 1..Len(schedules) /\ schedules[n].from <= at
               /\ \A i \in 1..Len(schedules) : schedules[i].from <= at <=> i <= n
  <1> DEFINE begun == {i \in DOMAIN schedules : at # NoTime /\ schedules[i].from <= at}
             n == InForce(at, schedules)
  <1>1. Len(schedules) \in Nat \ {0} /\ DOMAIN schedules = 1..Len(schedules)
    BY DEF Ordered
  <1>2. begun \in SUBSET (1..Len(schedules)) /\ 1 \in begun
    BY <1>1 DEF Dated
  <1>3. n = Max(begun)
    BY Zenon, <1>2 DEF InForce
  <1>4. n \in begun /\ \A i \in begun : n >= i
    BY <1>1, <1>2, <1>3, Greatest
  <1>5. ASSUME NEW i \in 1..Len(schedules), i <= n
        PROVE  schedules[i].from <= at
    <2>1. i = n \/ schedules[i].from < schedules[n].from
      BY <1>1, <1>2, <1>4, <1>5, LaterFrom
    <2>2. schedules[i].from \in Nat /\ schedules[n].from \in Nat /\ at \in Nat
      BY <1>1, <1>2, <1>4 DEF Ordered, Dated
    <2> QED  BY <1>4, <2>1, <2>2
  <1>6. ASSUME NEW i \in 1..Len(schedules), schedules[i].from <= at
        PROVE  i <= n
    BY <1>1, <1>4, <1>6 DEF Dated
  <1> QED  BY <1>1, <1>4, <1>5, <1>6

(***************************************************************************)
(* A price is shown with the time since when, and the time until when, it  *)
(* has been the same. Both are right: they enclose the time it was quoted  *)
(* for, and the schedules in force at all times between have that price,   *)
(* although the model's name may match other keys in them and other prices *)
(* may have changed meanwhile (quote, effective and expires of pricing.rs).*)
(***************************************************************************)
THEOREM PriceDatesHold ==
    ASSUME NEW schedules, Ordered(schedules), NEW at, Dated(at, schedules), NEW model
    PROVE  LET n == InForce(at, schedules)
               from == Effective(model, n, schedules)
               until == Expires(model, n, schedules)
           IN  /\ from <= at
               /\ until # NoTime => at < until
               /\ \A t \in Nat \ {NoTime} :
                      from <= t /\ (until # NoTime => t < until) =>
                          Rate(model, schedules[InForce(t, schedules)].rates)
                          = Rate(model, schedules[n].rates)
  <1> DEFINE last == Len(schedules)
             n == InForce(at, schedules)
             At(i) == Rate(model, schedules[i].rates)
             same == {i \in 1..n : \A j \in i..n - 1 : At(j) = At(n)}
             others == {i \in n + 1..last : At(i) # At(n)}
             from == Effective(model, n, schedules)
             until == Expires(model, n, schedules)
  <1> HIDE DEF At
  <1>1. last \in Nat \ {0}
    BY DEF Ordered
  <1>2. /\ n \in 1..last /\ schedules[n].from <= at
        /\ \A i \in 1..last : schedules[i].from <= at <=> i <= n
    BY InForceLast
  <1> DEFINE since == Min(same)
  <1>3. from = schedules[since].from
    BY DEF Effective, At
  <1>4. until = IF others = {} THEN NoTime ELSE schedules[Min(others)].from
    BY DEF Expires, At
  <1> HIDE DEF n, from, until
  <1>5. n \in same /\ same \in SUBSET (1..n) /\ same \in SUBSET Nat
    BY <1>1, <1>2
  <1>6. since \in same /\ \A i \in same : since <= i
    BY <1>5, Least
  <1>7. since \in 1..n /\ since \in 1..last /\ \A j \in since..n : At(j) = At(n)
    BY <1>1, <1>2, <1>6
  <1>8. from <= at
    BY <1>1, <1>2, <1>3, <1>7
  <1>9. \A i \in 1..last : schedules[i].from \in Nat
    BY DEF Ordered
  <1>10. others # {} =>
            /\ Min(others) \in n + 1..last /\ \A i \in others : Min(others) <= i
            /\ until = schedules[Min(others)].from
    <2>1. others \in SUBSET Nat
      BY <1>1, <1>2
    <2> QED  BY <1>4, <2>1, Least
  <1> DEFINE next == Min(others)
  <1> HIDE DEF since, same
  <1>11. until # NoTime => at < until
    <2>1. others # {} => next \in 1..last /\ ~(next <= n)
      BY <1>1, <1>2, <1>10
    <2>2. others # {} => ~(schedules[next].from <= at) /\ schedules[next].from \in Nat
      BY <1>2, <1>9, <2>1
    <2>3. at \in Nat
      BY DEF Dated
    <2> QED  BY <1>4, <1>10, <2>2, <2>3
  <1>12. ASSUME NEW t \in Nat \ {NoTime}, from <= t, until # NoTime => t < until
         PROVE  At(InForce(t, schedules)) = At(n)
    <2> DEFINE m == InForce(t, schedules)
    <2>1. Dated(t, schedules)
      <3>1. since = 1 \/ schedules[1].from < schedules[since].from
        BY <1>1, <1>7, LaterFrom
      <3>2. schedules[1].from \in Nat /\ schedules[since].from \in Nat
        BY <1>1, <1>7, <1>9
      <3> QED  BY <1>3, <1>12, <3>1, <3>2 DEF Dated
    <2>2. m \in 1..last /\ \A i \in 1..last : schedules[i].from <= t <=> i <= m
      BY <2>1, InForceLast
    <2> HIDE DEF m
    <2>3. since <= m
      BY <1>3, <1>7, <1>12, <2>2
    <2>4. m \notin others
      <3> SUFFICES ASSUME m \in others PROVE FALSE
        OBVIOUS
      <3>1. next \in n + 1..last /\ next <= m /\ until = schedules[next].from
        BY <1>10
      <3> HIDE DEF others, next
      <3>2. next \in 1..last
        BY <1>1, <1>2, <3>1
      <3>3. schedules[next].from <= t
        BY <2>2, <3>1, <3>2
      <3>4. until = NoTime
        BY <1>9, <1>12, <3>1, <3>2, <3>3
      <3>5. schedules[n].from < schedules[next].from
        BY <1>1, <1>2, <3>1, <3>2, LaterFrom
      <3>6. schedules[n].from \in Nat
        BY <1>2, <1>9
      <3> QED  BY <3>1, <3>4, <3>5, <3>6 DEF NoTime
    <2>5. m \in since..n \/ m \in n + 1..last
      BY <1>1, <1>2, <1>7, <2>2, <2>3
    <2>6. At(m) = At(n)
      BY <1>7, <2>4, <2>5
    <2> QED  BY <2>6 DEF m
  <1> DEFINE Goal == /\ from <= at
                     /\ until # NoTime => at < until
                     /\ \A t \in Nat \ {NoTime} :
                          from <= t /\ (until # NoTime => t < until) =>
                              At(InForce(t, schedules)) = At(n)
  <1>13. Goal
    BY <1>8, <1>11, <1>12
  <1> QED  BY Zenon, <1>13 DEF n, from, until, At

(***************************************************************************)
(* The prices of long requests are picked by the schedule in force, not by *)
(* the time. That is the same, if they change with the schedules, and the  *)
(* schedule in force is one with a date, as in the price data: what        *)
(* PriceDatesHold says holds of long requests too.                         *)
(***************************************************************************)
THEOREM LongPricesKeepUp ==
    ASSUME NEW schedules, Ordered(schedules), Ordered(Schedules),
           \A i \in 1..Len(schedules) : \E j \in 1..Len(Schedules) :
               schedules[i].from = Schedules[j].from,
           NEW at, Dated(at, schedules), Dated(at, Schedules),
           Schedules[InForce(at, Schedules)].from # NoTime
    PROVE  LongInForce(InForce(at, Schedules), schedules) = InForce(at, schedules)
  <1> DEFINE n == InForce(at, Schedules)
             begun == {i \in DOMAIN schedules : schedules[i].from <= Schedules[n].from}
             open == {i \in DOMAIN schedules : at # NoTime /\ schedules[i].from <= at}
  <1>1. /\ n \in 1..Len(Schedules) /\ Schedules[n].from <= at
        /\ \A i \in 1..Len(Schedules) : Schedules[i].from <= at <=> i <= n
    BY InForceLast
  <1>2. /\ Len(Schedules) \in Nat /\ DOMAIN schedules = 1..Len(schedules)
        /\ \A i \in 1..Len(Schedules) : Schedules[i].from \in Nat
        /\ \A i \in 1..Len(schedules) : schedules[i].from \in Nat
        /\ Len(schedules) \in Nat \ {0} /\ at \in Nat \ {NoTime}
    BY DEF Ordered, Dated
  <1> HIDE DEF n
  <1>3. ASSUME NEW i \in DOMAIN schedules
        PROVE  schedules[i].from <= Schedules[n].from <=> schedules[i].from <= at
    <2>1. PICK j \in 1..Len(Schedules) : schedules[i].from = Schedules[j].from
      BY <1>2
    <2>2. j <= n => j = n \/ Schedules[j].from < Schedules[n].from
      BY <1>1, <1>2, LaterFrom
    <2> QED  BY <1>1, <1>2, <2>1, <2>2
  <1>4. begun = open /\ 1 \in open
    BY <1>2, <1>3 DEF Dated
  <1>5. LongInForce(n, schedules) = IF begun = {} THEN 1 ELSE Max(begun)
    BY DEF LongInForce, n
  <1>6. InForce(at, schedules) = IF open = {} THEN Len(schedules) ELSE Max(open)
    BY DEF InForce
  <1> HIDE DEF begun, open
  <1> QED  BY <1>4, <1>5, <1>6 DEF n

-------------------------------------------------------------------------------
(* What rows and files keep on the way to a session *)

CountedRow(r) ==
    /\ {"at", "total", "last"} \subseteq DOMAIN r
    /\ r.at \in Nat /\ r.total \in Counters /\ r.last \in Counters

CountedRows(rows) == Sequence(rows) /\ \A k \in 1..Len(rows) : CountedRow(rows[k])

\* What is picked from a sequence.
LEMMA Selects ==
    ASSUME NEW s, Sequence(s), NEW places \in SUBSET DOMAIN s
    PROVE  /\ Sequence(Picked(s, places))
           /\ \A k \in 1..Len(Picked(s, places)) :
                  \E i \in places : Picked(s, places)[k] = s[i]
  <1>1. Lists(Picked(s, places), s, places)
    BY PickedLists
  <1> QED  BY <1>1 DEF Lists, ListsBy

LEMMA SequenceIsListed ==
    ASSUME NEW s, Sequence(s)
    PROVE  Listed(s) = s /\ Len(s) \in Nat /\ DOMAIN s = 1..Len(s)
  <1>1. Listed(s) = s
    BY ListedIsItself DEF Sequence
  <1> QED  BY <1>1 DEF Sequence

\* What is arranged of a sequence, by numbers.
LEMMA ArrangedItems ==
    ASSUME NEW items, Sequence(items), NEW before, Ranks(before, Len(items))
    PROVE  /\ Sequence(Arranged(items, before))
           /\ \A k \in 1..Len(Arranged(items, before)) :
                  \E i \in DOMAIN items : Arranged(items, before)[k] = items[i]
  <1>1. Lists(Arranged(items, before), items, DOMAIN items)
    BY ArrangedLists
  <1> QED  BY <1>1 DEF Lists, ListsBy

LEMMA RanksByNumber ==
    ASSUME NEW n \in Nat, NEW key, \A i \in 1..n : key[i] \in Int
    PROVE  /\ Ranks({p \in (1..n) \X (1..n) : key[p[1]] < key[p[2]]}, n)
           /\ Ranks({p \in (1..n) \X (1..n) : key[p[1]] > key[p[2]]}, n)
  BY DEF Ranks

\* The events that have a time, in some order.
LEMMA InTimeIs ==
    ASSUME NEW rows, CountedRows(rows)
    PROVE  InTime(rows) \in Seq(1..Len(rows))
  <1> DEFINE n == Len(rows)
             all == [i \in DOMAIN rows |-> i]
             places == {i \in DOMAIN all : rows[all[i]].at # NoTime}
             timed == Picked(all, places)
             m == Len(timed)
             before == {p \in (DOMAIN timed) \X (DOMAIN timed) :
                            rows[timed[p[1]]].at < rows[timed[p[2]]].at}
  <1>1. n \in Nat /\ DOMAIN rows = 1..n
    BY SequenceIsListed DEF CountedRows
  <1>2. Sequence(all) /\ Listed(all) = all /\ DOMAIN all = 1..n /\ \A i \in 1..n : all[i] = i
    <2>1. DOMAIN all = 1..n /\ all = [k \in DOMAIN all |-> all[k]] /\ \A i \in 1..n : all[i] = i
      BY <1>1
    <2> HIDE DEF all
    <2> QED  BY <1>1, <2>1, ListedItems
  <1>3. timed = Select(all, LAMBDA i : rows[i].at # NoTime)
    BY <1>2 DEF Select
  <1>4. Sequence(timed) /\ \A k \in 1..m : timed[k] \in 1..n
    <2>1. places \in SUBSET DOMAIN all
      OBVIOUS
    <2> HIDE DEF places, all
    <2>2. Sequence(timed) /\ \A k \in 1..m : \E i \in places : timed[k] = all[i]
      BY <1>2, <2>1, Selects
    <2> QED  BY <1>2, <2>1, <2>2
  <1> HIDE DEF timed, places
  <1>5. Listed(timed) = timed /\ m \in Nat /\ DOMAIN timed = 1..m
    BY <1>4, SequenceIsListed
  <1>6. Ranks(before, m)
    <2> DEFINE key == [k \in 1..m |-> rows[timed[k]].at]
    <2>1. \A k \in 1..m : key[k] \in Int /\ key[k] = rows[timed[k]].at
      BY <1>4 DEF CountedRows, CountedRow
    <2> HIDE DEF key
    <2>2. before = {p \in (1..m) \X (1..m) : key[p[1]] < key[p[2]]}
      BY <1>5, <2>1
    <2> HIDE DEF before, m
    <2>3. Ranks({p \in (1..m) \X (1..m) : key[p[1]] < key[p[2]]}, m)
      BY <1>5, <2>1, RanksByNumber
    <2> QED  BY <2>2, <2>3
  <1>7. InTime(rows) \in {timed, Arranged(timed, before)}
    <2>1. InTime(rows) = StableSort(timed, LAMBDA i, j : rows[i].at < rows[j].at)
      BY <1>3 DEF InTime
    <2> QED  BY <1>5, <2>1 DEF StableSort
  <1> HIDE DEF before
  <1>8. Sequence(Arranged(timed, before))
        /\ \A k \in 1..Len(Arranged(timed, before)) :
               \E i \in DOMAIN timed : Arranged(timed, before)[k] = timed[i]
    BY <1>4, <1>6, ArrangedItems DEF m
  <1> DEFINE t == Arranged(timed, before)
  <1>9. \A k \in 1..Len(t) : t[k] \in 1..n
    BY <1>4, <1>5, <1>8
  <1> HIDE DEF t, n, m
  <1>10. Sequence(InTime(rows)) /\ \A k \in 1..Len(InTime(rows)) : InTime(rows)[k] \in 1..n
    BY <1>4, <1>7, <1>8, <1>9 DEF m, t
  <1> QED  BY <1>10 DEF Sequence, n

\* What one of n rows is charged.
Charging(n) == [row : 1..n, at : Nat, delta : Counters]

LEMMA DeltasAre ==
    ASSUME NEW rows, CountedRows(rows)
    PROVE  /\ Sequence(Deltas(rows))
           /\ \A k \in 1..Len(Deltas(rows)) : Deltas(rows)[k] \in Charging(Len(rows))
  <1> DEFINE n == Len(rows)
             order == InTime(rows)
             ds == DeltasIn(rows, order)
  <1>1. n \in Nat /\ \A i \in 1..n : rows[i].total \in Counters /\ rows[i].last \in [Fields -> Int]
    BY SequenceIsListed DEF CountedRows, CountedRow, Counters
  <1>2. order \in Seq(1..n)
    BY InTimeIs
  <1> HIDE DEF n, order
  <1>3. \A k \in DOMAIN order : ds[k].delta \in Counters
    BY <1>1, <1>2, ChargedWithinCounter
  <1> DEFINE Total(k) == rows[order[k]].total
             Earlier(k) == IF k = 1 THEN Zero ELSE Total(k - 1)
             Trusted(k) == /\ k = 1 \/ IsReset(Total(k), Earlier(k))
                           /\ HasTokens(rows[order[k]].last)
                           /\ \A f \in Fields : rows[order[k]].last[f] >= 0
                           /\ Plus(Minus(Total(k), rows[order[k]].last),
                                   rows[order[k]].last) = Total(k)
                           /\ k = 1 \/ ValidRequest(rows[order[k]].last)
             Start(k) == IF Trusted(k) THEN Minus(Total(k), rows[order[k]].last) ELSE Earlier(k)
             Added(k) == Delta(Total(k), Start(k))
             all == [k \in DOMAIN order |->
                        [row |-> order[k], at |-> rows[order[k]].at, delta |-> Added(k)]]
  <1>4. ds = Listed(all)
    BY DEF DeltasIn
  <1> HIDE DEF Added
  <1>5. ds = all /\ Sequence(all) /\ Len(all) = Len(order) /\ DOMAIN order = 1..Len(order)
    <2>1. DOMAIN all = 1..Len(order) /\ all = [k \in DOMAIN all |-> all[k]] /\ Len(order) \in Nat
          /\ DOMAIN order = 1..Len(order)
      BY <1>2
    <2>2. ds = Listed(all)
      BY <1>4
    <2> HIDE DEF all, ds
    <2> QED  BY <2>1, <2>2, ListedItems
  <1>6. \A k \in 1..Len(order) : order[k] \in 1..n /\ rows[order[k]].at \in Nat
    <2>1. \A k \in 1..Len(order) : order[k] \in 1..n
      BY <1>2, ItemsIn
    <2>2. \A i \in 1..n : rows[i].at \in Nat
      BY DEF CountedRows, CountedRow, n
    <2> QED  BY <2>1, <2>2
  <1>7. ASSUME NEW k \in 1..Len(ds) PROVE ds[k] \in Charging(n)
    <2>1. k \in DOMAIN order /\ ds[k] = all[k]
      BY <1>5
    <2>2. ds[k].delta \in Counters
      BY <1>3, <2>1
    <2> HIDE DEF ds
    <2>3. all[k] = [row |-> order[k], at |-> rows[order[k]].at, delta |-> Added(k)]
      BY <2>1
    <2>4. order[k] \in 1..n /\ rows[order[k]].at \in Nat
      BY <1>5, <1>6, <2>1
    <2> HIDE DEF all
    <2>5. Added(k) \in Counters
      BY <2>1, <2>2, <2>3
    <2> QED  BY <2>1, <2>3, <2>4, <2>5 DEF Charging
  <1> HIDE DEF all, ds
  <1> QED  BY <1>5, <1>7 DEF Deltas, ds, order, n

\* Rows that add up what was charged.
LEMMA CumulatedRows ==
    ASSUME NEW n \in Nat, NEW rows, DOMAIN rows = 1..n, \A k \in 1..n : CountedRow(rows[k]),
           NEW deltas \in Seq(Counters), n = Len(deltas)
    PROVE  CountedRows(Cumulated(rows, deltas)) /\ Len(Cumulated(rows, deltas)) = n
  <1> DEFINE U(k) == UsageOf(SubSeq(deltas, 1, k))
             all == [k \in DOMAIN rows |-> [rows[k] EXCEPT !.last = deltas[k], !.total = U(k)]]
  <1>1. \A k \in 1..n : U(k) \in Counters /\ deltas[k] \in Counters
    <2>1. \A k \in 0..Len(deltas) : UsageOf(SubSeq(deltas, 1, k)) \in Counters
      BY UsageSteps
    <2> QED  BY <2>1
  <1>2. Cumulated(rows, deltas) = Listed(all)
    BY DEF Cumulated
  <1> HIDE DEF U
  <1>3. \A k \in 1..n : CountedRow(all[k])
    BY <1>1 DEF CountedRow
  <1>4. DOMAIN all = 1..n /\ all = [k \in DOMAIN all |-> all[k]]
    OBVIOUS
  <1> HIDE DEF all
  <1>5. Listed(all) = all /\ Sequence(all) /\ Len(all) = n
    BY <1>4, ListedItems
  <1> QED  BY <1>2, <1>3, <1>5 DEF CountedRows

LEMMA RowsOfAre ==
    ASSUME NEW rows, CountedRows(rows)
    PROVE  CountedRows(RowsOf(rows, Deltas(rows)))
  <1> DEFINE events == Deltas(rows)
             n == Len(events)
             picked == [k \in DOMAIN events |-> rows[events[k].row]]
             deltas == [k \in DOMAIN events |-> events[k].delta]
  <1>1. Sequence(events) /\ \A k \in 1..n : events[k] \in Charging(Len(rows))
    BY DeltasAre
  <1> HIDE DEF events
  <1>2. n \in Nat /\ DOMAIN events = 1..n
    BY <1>1, SequenceIsListed
  <1> HIDE DEF n
  <1>3. DOMAIN picked = 1..n /\ \A k \in 1..n : CountedRow(picked[k])
    BY <1>1, <1>2 DEF CountedRows, Charging
  <1>4. deltas \in Seq(Counters) /\ Len(deltas) = n
    <2>1. \A k \in 1..n : events[k].delta \in Counters
      BY <1>1 DEF Charging
    <2> QED  BY <1>2, <2>1
  <1>5. RowsOf(rows, events) = Cumulated(picked, deltas)
    BY DEF RowsOf
  <1> HIDE DEF picked, deltas
  <1> QED  BY <1>2, <1>3, <1>4, <1>5, CumulatedRows DEF events

\* What every file and every session has.
Whole(f) ==
    /\ {"rows", "total", "uid", "detailed"} \subseteq DOMAIN f
    /\ CountedRows(f.rows) /\ f.total \in Counters

Same(s, f) == s.uid = f.uid /\ s.detailed = f.detailed

LEMMA LastRow ==
    ASSUME NEW rows, CountedRows(rows), rows # <<>>
    PROVE  CountedRow(Last(rows)) /\ Len(rows) \in Nat \ {0}
  <1>1. rows \in Seq({rows[i] : i \in DOMAIN rows})
    BY DEF CountedRows, Sequence
  <1>2. Len(rows) \in 1..Len(rows)
    BY <1>1
  <1> QED  BY <1>2 DEF CountedRows, Last

LEMMA PickedRows ==
    ASSUME NEW rows, CountedRows(rows), NEW places \in SUBSET DOMAIN rows
    PROVE  CountedRows(Picked(rows, places))
  <1>1. DOMAIN rows = 1..Len(rows)
    BY SequenceIsListed DEF CountedRows
  <1>2. /\ Sequence(Picked(rows, places))
        /\ \A k \in 1..Len(Picked(rows, places)) :
               \E i \in places : Picked(rows, places)[k] = rows[i]
    BY Selects DEF CountedRows
  <1> QED  BY <1>1, <1>2 DEF CountedRows

LEMMA RowsAfter ==
    ASSUME NEW rows, CountedRows(rows), NEW n \in 0..Len(rows)
    PROVE  CountedRows(SubSeq(rows, n + 1, Len(rows)))
  <1> DEFINE t == SubSeq(rows, n + 1, Len(rows))
             S == {rows[i] : i \in DOMAIN rows}
  <1>1. rows \in Seq(S) /\ \A i \in 1..Len(rows) : CountedRow(rows[i])
    BY DEF CountedRows, Sequence
  <1>2. /\ t \in Seq(S) /\ Len(t) = Len(rows) - n
        /\ \A i \in 1..Len(rows) - n : t[i] = rows[n + i]
    <2>1. Len(rows) \in 0..Len(rows) /\ n \in 0..Len(rows)
      BY <1>1
    <2> HIDE DEF S
    <2> QED  BY <1>1, <2>1, Middle
  <1>4. \A i \in 1..Len(t) : n + i \in 1..Len(rows) /\ t[i] = rows[n + i]
    <2>1. Len(rows) \in Nat
      BY <1>1
    <2> HIDE DEF t
    <2> QED  BY <1>2, <2>1
  <1> HIDE DEF t, S
  <1>3. t \in Seq({t[i] : i \in DOMAIN t})
    BY <1>2
  <1> QED  BY <1>1, <1>3, <1>4 DEF CountedRows, Sequence, t

LEMMA NoRows == CountedRows(<<>>)
  BY DEF CountedRows, Sequence

LEMMA RepricedIsWhole ==
    ASSUME NEW f, Whole(f), NEW events
    PROVE  Whole(Repriced(f, events)) /\ Same(Repriced(f, events), f)
  <1> DEFINE at == IF f.rows # <<>> /\ Last(f.rows).at # NoTime THEN Last(f.rows).at ELSE f.end
             speed == SpeedOf(f.rows, events)
             pricing == PriceEvents(f.rows, events, f.model, f.total, at, f.tier)
  <1>1. Repriced(f, events) = [f EXCEPT !.speed = speed, !.pricing = pricing]
    BY DEF Repriced
  <1> HIDE DEF speed, pricing
  <1> QED  BY <1>1 DEF Whole, Same

LEMMA RepriceIsWhole ==
    ASSUME NEW f, Whole(f), NEW normalized
    PROVE  Whole(Reprice(f, normalized)) /\ Same(Reprice(f, normalized), f)
  BY RepricedIsWhole DEF Reprice

LEMMA FromRowsIsWhole ==
    ASSUME NEW f, Whole(f), NEW rows, CountedRows(rows)
    PROVE  Whole(FromRows(f, rows)) /\ Same(FromRows(f, rows), f)
  <1>1. CASE rows = <<>>
    BY <1>1, ZeroCounts DEF FromRows, Whole, Same
  <1>2. CASE rows # <<>>
    <2>1. Last(rows).total \in Counters
      BY <1>2, LastRow DEF CountedRow
    <2> QED  BY <1>2, <2>1 DEF FromRows, Whole, Same
  <1> QED  BY <1>1, <1>2

LEMMA MainIsWhole ==
    ASSUME NEW f, Whole(f)
    PROVE  Whole(NormalizeMain(f)) /\ Same(NormalizeMain(f), f)
  <1> DEFINE rows == RowsOf(f.rows, Deltas(f.rows))
             made == FromRows(f, rows)
             known == WithModels(made)
             g == IF f.rows = <<>> THEN f ELSE known
  <1>1. CountedRows(rows)
    BY RowsOfAre DEF Whole
  <1> HIDE DEF rows
  <1>2. Whole(made) /\ Same(made, f)
    BY <1>1, FromRowsIsWhole
  <1> HIDE DEF made
  <1>3. Whole(known) /\ Same(known, f)
    BY <1>2 DEF WithModels, Whole, Same
  <1> HIDE DEF known
  <1>4. Whole(g) /\ Same(g, f)
    BY <1>3 DEF Same
  <1>5. NormalizeMain(f) = Reprice(g, f.rows # <<>>)
    BY DEF NormalizeMain, known, made, rows
  <1> HIDE DEF g
  <1> QED  BY <1>4, <1>5, RepriceIsWhole DEF Same

LEMMA GreatestOf ==
    ASSUME NEW n \in Nat, NEW T \in SUBSET (0..n), 0 \in T
    PROVE  Max(T) \in T
  <1>1. CASE T = {0}
    <2>1. 0 \in T /\ \A y \in T : 0 >= y
      BY <1>1
    <2> QED  BY <2>1 DEF Max
  <1>2. CASE T # {0}
    <2>1. T \ {0} \in SUBSET (1..n) /\ T \ {0} # {}
      BY <1>2
    <2>2. Max(T \ {0}) \in T \ {0} /\ \A y \in T \ {0} : Max(T \ {0}) >= y
      BY <2>1, Greatest
    <2> DEFINE m == Max(T \ {0})
    <2> HIDE DEF m
    <2>3. m \in T /\ \A y \in T : m >= y
      <3>1. m \in T \ {0} /\ m \in 1..n /\ \A y \in T \ {0} : m >= y
        BY <2>1, <2>2 DEF m
      <3> QED  BY <3>1
    <2> QED  BY <2>3 DEF Max
  <1> QED  BY <1>1, <1>2

\* What a child has inherited, as it is used.
Bequest(spec, child) ==
    /\ spec.prefix \in 0..Len(child)
    /\ spec.baseline \in Counters

LEMMA InheritanceIs ==
    ASSUME NEW files, \A i \in DOMAIN files : Whole(files[i]), NEW i \in DOMAIN files
    PROVE  Bequest(Inheritance(files, i), files[i].rows)
  <1> DEFINE file == files[i]
             child == file.rows
             parents == WithIdentity(files, ParentKey(file))
             p == CHOOSE q \in parents : TRUE
             fork == file.created
             rows == IF parents = {} THEN <<>>
                     ELSE Select(files[p].rows, LAMBDA r :
                              fork = NoTime \/ (r.at # NoTime /\ r.at <= fork))
             prefix == InheritedPrefix(child, rows)
             before == IF rows = <<>> THEN Zero ELSE Last(rows).total
             startsAnew == child = <<>> \/ ~HasTokens(before) \/ child[1].total = child[1].last
             goesOn == ~startsAnew /\ Delta(child[1].total, before) = child[1].last
             inferred == prefix = 0 /\ file.fork # NoId
             baseline == IF prefix > 0 THEN child[prefix].total
                         ELSE IF inferred /\ parents # {} /\ goesOn THEN before ELSE Zero
  <1>1. CountedRows(child)
    BY DEF Whole
  <1>2. CountedRows(rows)
    <2>1. CASE parents = {}
      BY <2>1, NoRows
    <2>2. CASE parents # {}
      <3>1. p \in DOMAIN files
        BY <2>2 DEF WithIdentity
      <3>2. CountedRows(files[p].rows)
        BY <3>1 DEF Whole
      <3> DEFINE s == files[p].rows
      <3> HIDE DEF p
      <3>3. Listed(s) = s
        BY <3>2, SequenceIsListed DEF CountedRows
      <3>4. rows = Picked(s, {k \in DOMAIN s : fork = NoTime \/ (s[k].at # NoTime /\ s[k].at <= fork)})
        BY <2>2, <3>3 DEF Select, p
      <3> DEFINE places == {k \in DOMAIN s : fork = NoTime \/ (s[k].at # NoTime /\ s[k].at <= fork)}
      <3>5. places \in SUBSET DOMAIN s
        OBVIOUS
      <3> HIDE DEF places, s
      <3> QED  BY <3>2, <3>4, <3>5, PickedRows DEF places, s
    <2> QED  BY <2>1, <2>2
  <1> HIDE DEF rows
  <1>3. prefix \in 0..Len(child) /\ Len(child) \in Nat
    <2> DEFINE T == {n \in 0..Len(child) :
                        n = 0 \/ \E j \in 0..Len(rows) - n :
                                     \A k \in 1..n : SameUsage(child[k], rows[j + k])}
    <2>1. Len(child) \in Nat
      BY <1>1, SequenceIsListed DEF CountedRows
    <2>2. T \in SUBSET (0..Len(child)) /\ 0 \in T
      BY <2>1
    <2>3. prefix = Max(T)
      BY DEF InheritedPrefix
    <2> HIDE DEF T, prefix
    <2> QED  BY <2>1, <2>2, <2>3, GreatestOf
  <1> HIDE DEF prefix
  <1>4. before \in Counters
    BY <1>2, LastRow, ZeroCounts DEF CountedRow
  <1> HIDE DEF before, goesOn, inferred
  <1>5. baseline \in Counters
    BY <1>1, <1>3, <1>4, ZeroCounts DEF CountedRows, CountedRow
  <1> HIDE DEF baseline
  <1>6. /\ Inheritance(files, i).prefix = prefix
        /\ Inheritance(files, i).baseline = baseline
    BY DEF Inheritance, prefix, baseline, before, goesOn, inferred, rows
  <1> HIDE DEF file
  <1> QED  BY <1>3, <1>5, <1>6 DEF Bequest, file

LEMMA OwnRowsAre ==
    ASSUME NEW own, CountedRows(own), NEW spec, spec.baseline \in Counters
    PROVE  CountedRows(OwnRows(own, spec))
  <1> DEFINE n == Len(own)
             Previous(k) == IF k = 1 THEN spec.baseline ELSE own[k - 1].total
             Told(row) == [row EXCEPT !.tier = IF @ = NoName THEN spec.tier ELSE @]
             rows == [k \in DOMAIN own |-> Told(own[k])]
             deltas == [k \in DOMAIN own |-> Delta(own[k].total, Previous(k))]
  <1>1. n \in Nat /\ DOMAIN own = 1..n
    BY SequenceIsListed DEF CountedRows
  <1>2. \A k \in 1..n : own[k].total \in Counters /\ CountedRow(own[k])
    BY DEF CountedRows, CountedRow
  <1> HIDE DEF n
  <1>3. \A k \in 1..n : Previous(k) \in Counters
    <2>1. \A k \in 1..n : k # 1 => k - 1 \in 1..n
      BY <1>1
    <2> QED  BY <1>2, <2>1
  <1>4. deltas \in Seq(Counters) /\ Len(deltas) = n
    <2>1. \A k \in 1..n : Delta(own[k].total, Previous(k)) \in Counters
      <3> HIDE DEF Previous
      <3> QED  BY <1>2, <1>3, DeltaCounts
    <2> HIDE DEF Previous
    <2> QED  BY <1>1, <2>1
  <1>5. DOMAIN rows = 1..n /\ \A k \in 1..n : CountedRow(rows[k])
    <2>1. \A k \in 1..n : CountedRow(Told(own[k]))
      BY <1>2 DEF CountedRow
    <2> HIDE DEF Told
    <2> QED  BY <1>1, <2>1
  <1>6. OwnRows(own, spec) = Cumulated(rows, deltas)
    BY DEF OwnRows
  <1> HIDE DEF rows, deltas
  <1> QED  BY <1>1, <1>4, <1>5, <1>6, CumulatedRows

LEMMA ChildIsWhole ==
    ASSUME NEW file, Whole(file), NEW spec, Bequest(spec, file.rows)
    PROVE  Whole(NormalizeChild(file, spec)) /\ Same(NormalizeChild(file, spec), file)
  <1> DEFINE own == SubSeq(file.rows, spec.prefix + 1, Len(file.rows))
             rows == OwnRows(own, spec)
             kept == ChildWith(file, spec, rows)
  <1>1. CASE ~spec.resolved
    <2>1. NormalizeChild(file, spec) = Unresolved(file)
      BY <1>1 DEF NormalizeChild
    <2>2. Whole(Unresolved(file)) /\ Same(Unresolved(file), file)
      BY NoRows, ZeroCounts DEF Unresolved, Whole, Same
    <2> QED  BY <2>1, <2>2
  <1>2. CASE spec.resolved
    <2>1. CountedRows(own)
      BY RowsAfter DEF Bequest, Whole
    <2> HIDE DEF own
    <2>2. CountedRows(rows)
      BY <2>1, OwnRowsAre DEF Bequest
    <2> HIDE DEF rows
    <2>3. Whole(kept) /\ Same(kept, file)
      <3> DEFINE told == [file EXCEPT !.tier = IF @ = NoName THEN spec.tier ELSE @]
                 child == FromRows(told, rows)
                 cutoff == IF spec.prefix = 0 THEN NoTime ELSE file.rows[spec.prefix].at
                 models == {rows[k].model : k \in DOMAIN rows} \ {NoName}
                 tasks == IF cutoff = NoTime THEN child.tasks
                          ELSE SelectSeq(child.tasks, LAMBDA t : t.at > cutoff)
                 used == IF models # {} THEN models
                         ELSE IF rows = <<>> /\ child.models # {} THEN child.models
                         ELSE {child.model} \ {NoName}
                 start == IF rows = <<>> THEN child.start
                          ELSE IF rows[1].at # NoTime THEN rows[1].at ELSE child.created
                 end == IF rows = <<>> \/ Last(rows).at = NoTime THEN child.end ELSE Last(rows).at
      <3>1. Whole(told) /\ Same(told, file)
        BY DEF Whole, Same
      <3> HIDE DEF told
      <3>2. Whole(child) /\ Same(child, file)
        BY <2>2, <3>1, FromRowsIsWhole DEF Same
      <3>3. kept = [child EXCEPT !.tasks = tasks, !.models = used, !.start = start, !.end = end]
        BY DEF ChildWith, told
      <3> HIDE DEF child, tasks, used, start, end, kept
      <3> QED  BY <3>2, <3>3 DEF Whole, Same
    <2> HIDE DEF kept
    <2> DEFINE priced == Reprice(kept, TRUE)
    <2>4. Whole(priced) /\ Same(priced, file)
      BY <2>3, RepriceIsWhole DEF Same
    <2>5. NormalizeChild(file, spec) = [priced EXCEPT !.resolved = TRUE,
              !.inherited = spec.baseline, !.copied = spec.prefix]
      BY <1>2 DEF NormalizeChild, kept, rows, own
    <2> HIDE DEF priced
    <2> QED  BY <2>4, <2>5 DEF Whole, Same
  <1> QED  BY <1>1, <1>2

LEMMA NormalizedAre ==
    ASSUME NEW merged, Sequence(merged), \A i \in 1..Len(merged) : Whole(merged[i])
    PROVE  /\ Sequence(NormalizeMerged(merged)) /\ Len(NormalizeMerged(merged)) = Len(merged)
           /\ \A i \in 1..Len(merged) : /\ Whole(NormalizeMerged(merged)[i])
                                        /\ Same(NormalizeMerged(merged)[i], merged[i])
  <1> DEFINE Of(i) == IF IsChild(merged[i]) THEN NormalizeChild(merged[i], Inheritance(merged, i))
                      ELSE NormalizeMain(merged[i])
             all == [i \in DOMAIN merged |-> Of(i)]
  <1>1. Len(merged) \in Nat /\ DOMAIN merged = 1..Len(merged)
    BY SequenceIsListed
  <1>2. NormalizeMerged(merged) = Listed(all)
    BY DEF NormalizeMerged
  <1>3. ASSUME NEW i \in 1..Len(merged) PROVE Whole(Of(i)) /\ Same(Of(i), merged[i])
    <2>1. Bequest(Inheritance(merged, i), merged[i].rows)
      BY <1>1, InheritanceIs
    <2>2. Whole(NormalizeChild(merged[i], Inheritance(merged, i)))
          /\ Same(NormalizeChild(merged[i], Inheritance(merged, i)), merged[i])
      BY <2>1, ChildIsWhole
    <2>3. Whole(NormalizeMain(merged[i])) /\ Same(NormalizeMain(merged[i]), merged[i])
      BY MainIsWhole
    <2> QED  BY <2>2, <2>3
  <1> HIDE DEF Of
  <1>4. DOMAIN all = 1..Len(merged) /\ all = [k \in DOMAIN all |-> all[k]]
        /\ \A i \in 1..Len(merged) : all[i] = Of(i)
    BY <1>1
  <1> HIDE DEF all
  <1>5. Listed(all) = all /\ Sequence(all) /\ Len(all) = Len(merged)
    BY <1>1, <1>4, ListedItems
  <1> QED  BY <1>2, <1>3, <1>4, <1>5

\* A file before its session is known.
Sound(f) ==
    /\ Whole(f)
    /\ f.path \in Nat /\ f.created \in Nat /\ f.start \in Nat /\ f.end \in Nat

SoundFiles(files) == Sequence(files) /\ \A i \in 1..Len(files) : Sound(files[i])

LEMMA MomentIs ==
    ASSUME NEW f, Sound(f)
    PROVE  Moment(f) \in Nat
  <1> DEFINE rows == f.rows
             places == {i \in DOMAIN rows : rows[i].at # NoTime}
             timed == Picked(rows, places)
             times == <<f.created, f.start, f.end>>
             given == {i \in DOMAIN times : times[i] # NoTime}
             known == Picked(times, given)
  <1>1. CountedRows(rows) /\ Listed(rows) = rows
    BY SequenceIsListed DEF Sound, Whole, CountedRows
  <1>2. timed = Select(rows, LAMBDA r : r.at # NoTime)
    BY <1>1 DEF Select
  <1>3. timed # <<>> => Head(timed).at \in Nat
    <2>1. places \in SUBSET DOMAIN rows
      OBVIOUS
    <2> HIDE DEF rows, places
    <2>2. CountedRows(timed)
      BY <1>1, <2>1, PickedRows
    <2> HIDE DEF timed
    <2>3. timed # <<>> => 1 \in 1..Len(timed) /\ Head(timed) = timed[1]
      <3>1. timed \in Seq({timed[i] : i \in DOMAIN timed})
        BY <2>2 DEF CountedRows, Sequence
      <3> QED  BY <3>1
    <2> QED  BY <2>2, <2>3 DEF CountedRows, CountedRow
  <1>4. times \in Seq(Nat) /\ Sequence(times) /\ Listed(times) = times
    <2>1. times \in Seq(Nat)
      BY DEF Sound
    <2>2. Sequence(times)
      BY DEF Sequence
    <2> HIDE DEF times
    <2> QED  BY <2>1, <2>2, SequenceIsListed
  <1>5. known = Select(times, LAMBDA t : t # NoTime)
    BY <1>4 DEF Select
  <1>6. known # <<>> => Head(known) \in Nat
    <2>1. given \in SUBSET DOMAIN times
      OBVIOUS
    <2> HIDE DEF given, times
    <2>2. /\ Sequence(known)
          /\ \A k \in 1..Len(known) : \E i \in given : known[k] = times[i]
      BY <1>4, <2>1, Selects
    <2>3. \A i \in given : times[i] \in Nat
      BY <1>4, <2>1
    <2> HIDE DEF known
    <2>4. known # <<>> => 1 \in 1..Len(known) /\ Head(known) = known[1]
      <3>1. known \in Seq({known[i] : i \in DOMAIN known})
        BY <2>2 DEF Sequence
      <3> QED  BY <3>1
    <2> QED  BY <2>2, <2>3, <2>4
  <1>7. Moment(f) = IF timed # <<>> THEN Head(timed).at
                    ELSE IF known # <<>> THEN Head(known) ELSE NoTime
    BY <1>2, <1>5 DEF Moment
  <1> HIDE DEF timed, known
  <1> QED  BY <1>3, <1>6, <1>7 DEF NoTime

LEMMA RanksByTime ==
    ASSUME NEW n \in Nat, NEW at, \A i \in 1..n : at[i] \in Nat
    PROVE  Ranks({p \in (1..n) \X (1..n) : Before(at[p[1]], at[p[2]])}, n)
  BY DEF Ranks, Before, NoTime

Earlier(at, path, n) ==
    {p \in (1..n) \X (1..n) : \/ Before(at[p[1]], at[p[2]])
                              \/ at[p[1]] = at[p[2]] /\ path[p[1]] < path[p[2]]}

LEMMA RanksOfFiles ==
    ASSUME NEW n \in Nat, NEW at, \A i \in 1..n : at[i] \in Nat,
           NEW path, \A i \in 1..n : path[i] \in Nat
    PROVE  Ranks(Earlier(at, path, n), n)
  BY DEF Ranks, Earlier, Before, NoTime

LEMMA SortedRows ==
    ASSUME NEW rows, CountedRows(rows)
    PROVE  CountedRows(ByTime(rows))
  <1> DEFINE n == Len(rows)
             at == [i \in 1..n |-> rows[i].at]
             before == {p \in (DOMAIN rows) \X (DOMAIN rows) : Before(rows[p[1]].at, rows[p[2]].at)}
             t == Arranged(rows, before)
  <1>1. Listed(rows) = rows /\ n \in Nat /\ DOMAIN rows = 1..n
    BY SequenceIsListed DEF CountedRows
  <1>2. \A i \in 1..n : at[i] \in Nat /\ at[i] = rows[i].at
    BY DEF CountedRows, CountedRow
  <1>3. ByTime(rows) \in {rows, t}
    BY <1>1 DEF ByTime, StableSort
  <1> HIDE DEF at
  <1>4. Ranks(before, n)
    <2>1. before = {p \in (1..n) \X (1..n) : Before(at[p[1]], at[p[2]])}
      BY <1>1, <1>2
    <2> HIDE DEF before, n
    <2> QED  BY <1>1, <1>2, <2>1, RanksByTime
  <1> HIDE DEF before
  <1>5. Sequence(t) /\ \A k \in 1..Len(t) : \E i \in DOMAIN rows : t[k] = rows[i]
    BY <1>4, ArrangedItems DEF CountedRows
  <1> HIDE DEF t, n
  <1>6. CountedRows(t)
    BY <1>1, <1>5 DEF CountedRows
  <1> QED  BY <1>3, <1>6

LEMMA MergedRowsAre ==
    ASSUME NEW n \in Nat, NEW files, DOMAIN files = 1..n, \A i \in 1..n : Whole(files[i])
    PROVE  CountedRows(MergedRows(files))
  <1> DEFINE parts == [i \in DOMAIN files |-> files[i].rows]
             S == UNION {{files[i].rows[k] : k \in 1..Len(files[i].rows)} : i \in 1..n}
             all == FlattenSeq(parts)
             keys == Listed([i \in DOMAIN all |->
                        <<all[i].at, all[i].model, all[i].tier, all[i].total, all[i].last>>])
             places == {i \in DOMAIN all : \A j \in 1..i - 1 : keys[j] # keys[i]}
             rows == Picked(all, places)
  <1>1. \A r \in S : CountedRow(r)
    BY DEF Whole, CountedRows
  <1>2. \A i \in 1..n : parts[i] \in Seq(S)
    <2> TAKE i \in 1..n
    <2>1. CountedRows(files[i].rows)
      BY DEF Whole
    <2>2. \A k \in 1..Len(files[i].rows) : files[i].rows[k] \in S
      OBVIOUS
    <2> HIDE DEF S
    <2>3. files[i].rows \in Seq(S)
      BY <2>1, <2>2 DEF CountedRows, Sequence
    <2> QED  BY <2>3
  <1> HIDE DEF S
  <1>3. DOMAIN parts = 1..n /\ parts = [i \in DOMAIN parts |-> parts[i]]
    OBVIOUS
  <1> HIDE DEF parts
  <1>4. all \in Seq(S)
    BY <1>2, <1>3, FlattenedItems
  <1> HIDE DEF all
  <1>5. CountedRows(all)
    <2>1. \A k \in 1..Len(all) : all[k] \in S
      BY <1>4, ItemsIn
    <2>2. Sequence(all)
      BY <1>4 DEF Sequence
    <2> QED  BY <1>1, <2>1, <2>2 DEF CountedRows
  <1>6. CountedRows(rows)
    <2>1. places \in SUBSET DOMAIN all
      OBVIOUS
    <2> HIDE DEF places
    <2> QED  BY <1>5, <2>1, PickedRows
  <1>7. MergedRows(files) = ByTime(rows)
    BY DEF MergedRows, Distinct, rows, places, keys, all, parts
  <1> HIDE DEF rows
  <1> QED  BY <1>6, <1>7, SortedRows

LEMMA MergedIsWhole ==
    ASSUME NEW files, Whole(files[1]), NEW rows, CountedRows(rows)
    PROVE  Whole(MergeFiles(files, rows)) /\ Same(MergeFiles(files, rows), files[1])
  <1> DEFINE latest == Last(files)
             All(Of(_)) == FlattenSeq([i \in DOMAIN files |-> Of(files[i])])
             Either(own, ofRow) == IF rows = <<>> \/ ofRow = NoName THEN own ELSE ofRow
             lastRow == IF rows = <<>> THEN [model |-> NoName, tier |-> NoName] ELSE Last(rows)
             model == Either(latest.model, lastRow.model)
             Extreme(Of(_), Pick(_, _)) ==
                 FoldLeft(LAMBDA a, f : Pick(a, Of(f)), Of(files[1]), files)
             source == IF \E i \in DOMAIN files : files[i].source = "active"
                       THEN "active" ELSE latest.source
             created == Extreme(LAMBDA f : f.created, Earliest)
             start == Extreme(LAMBDA f : f.start, Earliest)
             end == Extreme(LAMBDA f : f.end, Later)
             tasks == ByTime(Distinct(All(LAMBDA f : f.tasks), LAMBDA t : <<t.at, t.turn, t.ms>>))
             tiers == NormalizeTiers(All(LAMBDA f : f.tiers))
             turns == UNION {files[i].turns : i \in DOMAIN files}
             models == (UNION {files[i].models : i \in DOMAIN files}
                           \cup {rows[i].model : i \in DOMAIN rows} \cup {latest.model}) \ {NoName}
             tier == Either(latest.tier, lastRow.tier)
             total == IF rows = <<>> THEN files[1].total ELSE Last(rows).total
             last == IF rows = <<>> THEN files[1].last ELSE Last(rows).last
             made == [files[1] EXCEPT
                        !.path = latest.path, !.project = latest.project, !.source = source,
                        !.created = created, !.start = start, !.end = end, !.rows = rows,
                        !.tasks = tasks, !.tiers = tiers, !.turns = turns, !.model = model,
                        !.models = models, !.tier = tier, !.total = total, !.last = last]
  <1>1. MergeFiles(files, rows) = IF Len(files) = 1 THEN files[1] ELSE made
    BY DEF MergeFiles
  <1>2. total \in Counters
    BY LastRow DEF CountedRow, Whole
  <1> HIDE DEF model, source, created, start, end, tasks, tiers, turns, models, tier, total, last
  <1>3. Whole(made) /\ Same(made, files[1])
    BY <1>2 DEF Whole, Same
  <1> HIDE DEF made
  <1> QED  BY <1>1, <1>3 DEF Same

LEMMA GroupIsWhole ==
    ASSUME NEW group, SoundFiles(group), group # <<>>
    PROVE  \E i \in 1..Len(group) : Whole(MergeGroup(group)) /\ Same(MergeGroup(group), group[i])
  <1> DEFINE n == Len(group)
             at == [i \in 1..n |-> Moment(group[i])]
             path == [i \in 1..n |-> group[i].path]
             before == {p \in (DOMAIN group) \X (DOMAIN group) :
                           \/ Before(Moment(group[p[1]]), Moment(group[p[2]]))
                           \/ /\ Moment(group[p[1]]) = Moment(group[p[2]])
                              /\ group[p[1]].path < group[p[2]].path}
             t == Arranged(group, before)
             sorted == StableSort(group, LAMBDA f, g :
                          \/ Before(Moment(f), Moment(g))
                          \/ Moment(f) = Moment(g) /\ f.path < g.path)
  <1>1. Listed(group) = group /\ n \in Nat /\ DOMAIN group = 1..n
    BY SequenceIsListed DEF SoundFiles
  <1>2. n # 0
    BY DEF SoundFiles, Sequence
  <1>3. \A i \in 1..n : /\ at[i] \in Nat /\ at[i] = Moment(group[i])
                        /\ path[i] \in Nat /\ path[i] = group[i].path
    BY MomentIs DEF SoundFiles, Sound
  <1>4. sorted \in {group, t}
    BY <1>1 DEF StableSort
  <1> HIDE DEF at, path, sorted
  <1>5. Ranks(before, n)
    <2>1. before = {p \in (1..n) \X (1..n) :
                       \/ Before(at[p[1]], at[p[2]])
                       \/ at[p[1]] = at[p[2]] /\ path[p[1]] < path[p[2]]}
      BY <1>1, <1>3
    <2> HIDE DEF before, n
    <2>2. \A i \in 1..n : at[i] \in Nat /\ path[i] \in Nat
      BY <1>3
    <2>3. Ranks(Earlier(at, path, n), n)
      BY <1>1, <2>2, RanksOfFiles
    <2> QED  BY <2>1, <2>3 DEF Earlier
  <1> HIDE DEF before
  <1>6. Sequence(t) /\ \A k \in 1..Len(t) : \E i \in DOMAIN group : t[k] = group[i]
    BY <1>5, ArrangedItems DEF SoundFiles
  <1>7. Len(t) = n
    BY ArrangedIsSequence DEF SoundFiles
  <1> HIDE DEF t, n
  <1>8. /\ DOMAIN sorted = 1..n
        /\ \A k \in 1..n : \E i \in 1..n : sorted[k] = group[i]
    BY <1>1, <1>4, <1>6, <1>7, SequenceIsListed
  <1>9. \A i \in 1..n : Whole(group[i])
    BY DEF SoundFiles, Sound, n
  <1>10. CountedRows(MergedRows(sorted))
    BY <1>1, <1>8, <1>9, MergedRowsAre
  <1>11. PICK i \in 1..n : sorted[1] = group[i]
    BY <1>1, <1>2, <1>8
  <1>12. MergeGroup(group) = MergeFiles(sorted, MergedRows(sorted))
    BY DEF MergeGroup, MergeOldest, sorted
  <1>13. Whole(MergeGroup(group)) /\ Same(MergeGroup(group), group[i])
    BY <1>9, <1>10, <1>11, <1>12, MergedIsWhole
  <1> QED  BY <1>13 DEF n

\* Every session keeps what the others share of one file: one session of each identity.
EachOnce(all, files) ==
    \E of \in [1..Len(all) -> 1..Len(files)] :
        /\ \A k \in 1..Len(all) : Whole(all[k]) /\ Same(all[k], files[of[k]])
        /\ \A k, l \in 1..Len(all) : Identity(files[of[k]]) = Identity(files[of[l]]) => k = l
        /\ \A i \in 1..Len(files) : \E k \in 1..Len(all) :
               Identity(files[of[k]]) = Identity(files[i])

LEMMA MergeIs ==
    ASSUME NEW files, SoundFiles(files)
    PROVE  Sequence(Merge(files)) /\ EachOnce(Merge(files), files)
  <1> DEFINE n == Len(files)
             keys == Listed([i \in DOMAIN files |-> Identity(files[i])])
             leading == {i \in DOMAIN files : \A j \in 1..i - 1 : keys[j] # keys[i]}
             first == Picked(files, leading)
             m == Len(first)
             places(k) == {i \in DOMAIN files : Identity(files[i]) = Identity(first[k])}
             group(k) == Picked(files, places(k))
             all == [k \in DOMAIN first |-> MergeGroup(group(k))]
  <1>1. Listed(files) = files /\ n \in Nat /\ DOMAIN files = 1..n
    BY SequenceIsListed DEF SoundFiles
  <1>2. \A i \in 1..n : keys[i] = Identity(files[i])
    <2> DEFINE ids == [i \in DOMAIN files |-> Identity(files[i])]
    <2>1. DOMAIN ids = 1..n /\ ids = [i \in DOMAIN ids |-> ids[i]]
          /\ \A i \in 1..n : ids[i] = Identity(files[i])
      BY <1>1
    <2> HIDE DEF ids
    <2>2. Listed(ids) = ids
      BY <1>1, <2>1, ListedItems
    <2> QED  BY <2>1, <2>2 DEF ids
  <1> HIDE DEF keys
  <1>3. Lists(first, files, leading)
    <2>1. leading \in SUBSET DOMAIN files
      OBVIOUS
    <2> HIDE DEF leading
    <2> QED  BY <2>1, PickedLists DEF SoundFiles
  <1>4. PICK at : ListsBy(at, first, files, leading)
    BY <1>3 DEF Lists
  <1>5. Sequence(first) /\ m \in Nat /\ DOMAIN first = 1..m
    BY <1>3, SequenceIsListed DEF Lists
  <1> HIDE DEF first
  <1>6. /\ \A k \in 1..m : at[k] \in leading /\ first[k] = files[at[k]]
        /\ \A k, l \in 1..m : at[k] = at[l] => k = l
    BY <1>4 DEF ListsBy
  <1>7. \A k, l \in 1..m : Identity(first[k]) = Identity(first[l]) => k = l
    <2>1. \A i, j \in leading : keys[i] = keys[j] => i = j
      BY <1>1
    <2>2. \A i \in leading : i \in 1..n
      BY <1>1
    <2> HIDE DEF leading
    <2> QED  BY <1>2, <1>6, <2>1, <2>2
  <1>8. Merge(files) = Listed(all)
    BY <1>1 DEF Merge, Distinct, Select, first, leading, keys
  <1>9. DOMAIN all = 1..m /\ all = [k \in DOMAIN all |-> all[k]]
        /\ \A k \in 1..m : all[k] = MergeGroup(group(k))
    BY <1>5
  <1> HIDE DEF all, m
  <1>10. Listed(all) = all /\ Sequence(all) /\ Len(all) = m
    BY <1>5, <1>9, ListedItems
  <1>11. ASSUME NEW k \in 1..m
         PROVE  \E i \in 1..n : /\ Whole(all[k]) /\ Same(all[k], files[i])
                                /\ Identity(files[i]) = Identity(first[k])
    <2>1. at[k] \in places(k)
      BY <1>1, <1>6
    <2>2. Lists(group(k), files, places(k))
      <3>1. places(k) \in SUBSET DOMAIN files
        OBVIOUS
      <3> HIDE DEF places
      <3> QED  BY <3>1, PickedLists DEF SoundFiles
    <2> HIDE DEF group
    <2>3. PICK by : ListsBy(by, group(k), files, places(k))
      BY <2>2 DEF Lists
    <2>4. /\ \A l \in 1..Len(group(k)) : by[l] \in places(k) /\ group(k)[l] = files[by[l]]
          /\ \E l \in 1..Len(group(k)) : by[l] = at[k]
      BY <2>1, <2>3 DEF ListsBy
    <2>5. Sequence(group(k))
      BY <2>2 DEF Lists
    <2>6. SoundFiles(group(k)) /\ group(k) # <<>>
      <3>1. \A l \in 1..Len(group(k)) : Sound(group(k)[l])
        BY <1>1, <2>4 DEF SoundFiles
      <3>2. Len(group(k)) # 0
        BY <2>4
      <3> QED  BY <2>5, <3>1, <3>2 DEF SoundFiles
    <2>7. PICK l \in 1..Len(group(k)) :
              Whole(MergeGroup(group(k))) /\ Same(MergeGroup(group(k)), group(k)[l])
      BY <2>6, GroupIsWhole
    <2>8. by[l] \in 1..n /\ Identity(files[by[l]]) = Identity(first[k])
          /\ group(k)[l] = files[by[l]]
      BY <1>1, <2>4
    <2> HIDE DEF places
    <2> QED  BY <1>9, <2>7, <2>8
  <1> DEFINE of == [k \in 1..m |-> CHOOSE i \in 1..n :
                       /\ Whole(all[k]) /\ Same(all[k], files[i])
                       /\ Identity(files[i]) = Identity(first[k])]
  <1>12. \A k \in 1..m : /\ of[k] \in 1..n
                         /\ Whole(all[k]) /\ Same(all[k], files[of[k]])
                         /\ Identity(files[of[k]]) = Identity(first[k])
    BY <1>11
  <1>13. of \in [1..m -> 1..n]
    <2>1. of = [k \in 1..m |-> of[k]]
      OBVIOUS
    <2> HIDE DEF of
    <2> QED  BY <1>12, <2>1
  <1> HIDE DEF of
  <1>14. \A k, l \in 1..m : Identity(files[of[k]]) = Identity(files[of[l]]) => k = l
    BY <1>7, <1>12
  <1>15. ASSUME NEW i \in 1..n
         PROVE  \E k \in 1..m : Identity(files[of[k]]) = Identity(files[i])
    <2> DEFINE alike == {j \in 1..n : Identity(files[j]) = Identity(files[i])}
               j == Min(alike)
    <2>1. alike \in SUBSET Nat /\ alike # {}
      BY <1>1
    <2>2. j \in alike /\ \A l \in alike : j <= l
      <3> HIDE DEF alike
      <3> QED  BY <2>1, Least
    <2> HIDE DEF j
    <2>3. \A l \in 1..j - 1 : l \in 1..n /\ l \notin alike
      BY <1>1, <2>2
    <2>4. j \in leading
      BY <1>1, <1>2, <2>2, <2>3
    <2>5. PICK k \in 1..m : at[k] = j
      BY <1>4, <2>4 DEF ListsBy, m
    <2>6. Identity(files[j]) = Identity(files[i])
      BY <2>2
    <2>7. Identity(files[of[k]]) = Identity(files[j])
      BY <1>6, <1>12, <2>5
    <2> QED  BY <2>6, <2>7
  <1>16. Merge(files) = all /\ Len(all) = m
    BY <1>8, <1>10
  <1>17. EachOnce(all, files)
    <2> HIDE DEF n
    <2>1. /\ of \in [1..m -> 1..n]
          /\ \A k \in 1..m : Whole(all[k]) /\ Same(all[k], files[of[k]])
          /\ \A k, l \in 1..m : Identity(files[of[k]]) = Identity(files[of[l]]) => k = l
          /\ \A i \in 1..n : \E k \in 1..m : Identity(files[of[k]]) = Identity(files[i])
      BY <1>12, <1>13, <1>14, <1>15
    <2> QED  BY <1>16, <2>1 DEF EachOnce, n
  <1> QED  BY <1>10, <1>16, <1>17

(***************************************************************************)
(* However many files a conversation was resumed into, and whatever was    *)
(* copied into them, it becomes one session: every file belongs to one, no *)
(* two sessions are the same conversation, and each is known by one of its *)
(* own files, with all its requests (normalize_sessions of normalize.rs).  *)
(***************************************************************************)
THEOREM OneSessionEach ==
    ASSUME NEW files, SoundFiles(files)
    PROVE  LET all == NormalizeSessions(files)
           IN  Sequence(all) /\ EachOnce(all, files)
  <1> DEFINE all == NormalizeSessions(files)
             merged == Merge(files)
  <1>1. Sequence(merged)
    BY MergeIs
  <1>2. PICK of \in [1..Len(merged) -> 1..Len(files)] :
            /\ \A k \in 1..Len(merged) : Whole(merged[k]) /\ Same(merged[k], files[of[k]])
            /\ \A k, l \in 1..Len(merged) :
                   Identity(files[of[k]]) = Identity(files[of[l]]) => k = l
            /\ \A i \in 1..Len(files) : \E k \in 1..Len(merged) :
                   Identity(files[of[k]]) = Identity(files[i])
    BY MergeIs DEF EachOnce
  <1>3. all = NormalizeMerged(merged)
    BY DEF NormalizeSessions
  <1> HIDE DEF all, merged
  <1>4. /\ Sequence(all) /\ Len(all) = Len(merged)
        /\ \A k \in 1..Len(merged) : Whole(all[k]) /\ Same(all[k], merged[k])
    BY <1>1, <1>2, <1>3, NormalizedAre
  <1>5. \A k \in 1..Len(all) : Whole(all[k]) /\ Same(all[k], files[of[k]])
    BY <1>2, <1>4 DEF Same
  <1>6. of \in [1..Len(all) -> 1..Len(files)]
    BY <1>4
  <1>7. /\ \A k, l \in 1..Len(all) : Identity(files[of[k]]) = Identity(files[of[l]]) => k = l
        /\ \A i \in 1..Len(files) : \E k \in 1..Len(all) :
               Identity(files[of[k]]) = Identity(files[i])
    BY <1>2, <1>4
  <1>8. EachOnce(all, files)
    BY <1>5, <1>6, <1>7 DEF EachOnce
  <1> QED  BY <1>4, <1>8 DEF all

-------------------------------------------------------------------------------
(* Usage of some items of a list *)

\* What the items at some places use together.
UsageAt(f, n, places) == UsageOf([k \in 1..n |-> IF k \in places THEN f[k] ELSE Zero])

\* A list of n items with usage.
Usages(f, n) == f = [k \in 1..n |-> f[k]] /\ \A k \in 1..n : f[k] \in Counters

\* The usage of items one after the other.
Runs(f, n, U) ==
    U[0] = Zero /\ \A k \in 1..n : U[k] = Plus(U[k - 1], f[k]) /\ U[k] \in Counters

LEMMA UsageRun ==
    ASSUME NEW n \in Nat, NEW f, Usages(f, n)
    PROVE  \E U : Runs(f, n, U) /\ U[n] = UsageOf(f)
  <1>1. f \in Seq(Counters) /\ Len(f) = n
    BY DEF Usages
  <1> DEFINE F(k) == UsageOf(SubSeq(f, 1, k))
             U == [k \in 0..n |-> F(k)]
  <1>2. /\ F(0) = Zero
        /\ \A k \in 1..n : F(k) = Plus(F(k - 1), f[k])
        /\ \A k \in 0..n : F(k) \in Counters
        /\ F(n) = UsageOf(f)
    BY <1>1, UsageSteps
  <1> HIDE DEF F
  <1>3. \A k \in 0..n : U[k] = F(k)
    OBVIOUS
  <1> HIDE DEF U
  <1>4. 0 \in 0..n /\ n \in 0..n /\ \A k \in 1..n : k \in 0..n /\ k - 1 \in 0..n
    OBVIOUS
  <1>5. Runs(f, n, U) /\ U[n] = UsageOf(f)
    BY <1>2, <1>3, <1>4 DEF Runs
  <1> QED  BY <1>5

\* Sums of items are sums of usage.
LEMMA UsageOfSums ==
    ASSUME NEW n \in Nat, NEW f, Usages(f, n), NEW g, Usages(g, n), NEW h, Usages(h, n),
           \A k \in 1..n : h[k] = Plus(f[k], g[k])
    PROVE  UsageOf(h) = Plus(UsageOf(f), UsageOf(g))
  <1>3. PICK U : Runs(f, n, U) /\ U[n] = UsageOf(f)
    BY UsageRun
  <1>4. PICK V : Runs(g, n, V) /\ V[n] = UsageOf(g)
    BY UsageRun
  <1>5. PICK W : Runs(h, n, W) /\ W[n] = UsageOf(h)
    BY UsageRun
  <1> DEFINE T == {k \in Nat : k <= n => W[k] = Plus(U[k], V[k])}
  <1>6. 0 \in T
    <2>1. Plus(Zero, Zero) = Zero
      BY DEF Plus, Zero
    <2> QED  BY <1>3, <1>4, <1>5, <2>1 DEF Runs
  <1>7. ASSUME NEW k \in T PROVE k + 1 \in T
    <2> SUFFICES ASSUME k + 1 <= n PROVE W[k + 1] = Plus(U[k + 1], V[k + 1])
      OBVIOUS
    <2>1. k + 1 \in 1..n /\ (k + 1) - 1 = k /\ k <= n /\ (k = 0 \/ k \in 1..n)
      OBVIOUS
    <2>2. /\ W[k + 1] = Plus(W[k], h[k + 1]) /\ W[k] = Plus(U[k], V[k])
          /\ U[k + 1] = Plus(U[k], f[k + 1]) /\ V[k + 1] = Plus(V[k], g[k + 1])
          /\ h[k + 1] = Plus(f[k + 1], g[k + 1])
      BY <1>3, <1>4, <1>5, <2>1 DEF Runs
    <2>3. U[k] \in Counters /\ V[k] \in Counters
      BY <1>3, <1>4, <2>1, ZeroCounts DEF Runs
    <2>4. f[k + 1] \in Counters /\ g[k + 1] \in Counters
      BY <2>1 DEF Usages
    <2> DEFINE a == U[k]  b == V[k]  c == f[k + 1]  d == g[k + 1]
    <2>5. Plus(Plus(a, b), Plus(c, d)) = Plus(Plus(a, c), Plus(b, d))
      <3>1. a \in Counters /\ b \in Counters /\ c \in Counters /\ d \in Counters
        BY <2>3, <2>4
      <3> HIDE DEF a, b, c, d
      <3> QED  BY <3>1 DEF Plus, Counters
    <2> QED  BY <2>2, <2>5
  <1>8. \A k \in Nat : k \in T
    <2>1. T \in SUBSET Nat
      OBVIOUS
    <2> HIDE DEF T
    <2> QED  BY <1>6, <1>7, <2>1, Induct
  <1> QED  BY <1>3, <1>4, <1>5, <1>8

\* A list of which only one item uses anything, or none if j is 0.
Single(f, n, j, u) == \A k \in 1..n : f[k] = IF k = j THEN u ELSE Zero

LEMMA UsageOfOne ==
    ASSUME NEW n \in Nat, NEW j \in 0..n, NEW u \in Counters,
           NEW f, Usages(f, n), Single(f, n, j, u)
    PROVE  UsageOf(f) = IF j = 0 THEN Zero ELSE u
  <1>2. PICK U : Runs(f, n, U) /\ U[n] = UsageOf(f)
    BY UsageRun
  <1> DEFINE T == {k \in Nat : k <= n => U[k] = IF j # 0 /\ j <= k THEN u ELSE Zero}
  <1>3. 0 \in T
    BY <1>2 DEF Runs
  <1>4. ASSUME NEW a \in Counters PROVE Plus(a, Zero) = a /\ Plus(Zero, a) = a
    BY DEF Plus, Zero, Counters
  <1>5. ASSUME NEW k \in T PROVE k + 1 \in T
    <2> SUFFICES ASSUME k + 1 <= n PROVE U[k + 1] = IF j # 0 /\ j <= k + 1 THEN u ELSE Zero
      OBVIOUS
    <2>1. k + 1 \in 1..n /\ (k + 1) - 1 = k /\ k <= n
      OBVIOUS
    <2>2. U[k + 1] = Plus(U[k], f[k + 1]) /\ U[k] = IF j # 0 /\ j <= k THEN u ELSE Zero
      BY <1>2, <2>1 DEF Runs
    <2>3. CASE j = k + 1
      <3>1. U[k] = Zero /\ f[k + 1] = u
        BY <2>1, <2>2, <2>3 DEF Single
      <3> QED  BY <1>4, <2>2, <2>3, <3>1
    <2>4. CASE j # k + 1
      <3>1. f[k + 1] = Zero /\ U[k] \in Counters
        BY <2>1, <2>2, <2>4, ZeroCounts DEF Single
      <3>2. U[k + 1] = U[k]
        BY <1>4, <2>2, <3>1
      <3>3. (j # 0 /\ j <= k + 1) <=> (j # 0 /\ j <= k)
        BY <2>4
      <3> QED  BY <2>2, <3>2, <3>3
    <2> QED  BY <2>3, <2>4
  <1>6. \A k \in Nat : k \in T
    <2>1. T \in SUBSET Nat
      OBVIOUS
    <2> HIDE DEF T
    <2> QED  BY <1>3, <1>5, <2>1, Induct
  <1>7. U[n] = IF j # 0 /\ j <= n THEN u ELSE Zero
    BY <1>6
  <1> QED  BY <1>2, <1>7

LEMMA UsageAtIs ==
    ASSUME NEW n \in Nat, NEW f, Usages(f, n), NEW j \in 1..n
    PROVE  UsageAt(f, n, {j}) = f[j]
  <1> DEFINE g == [k \in 1..n |-> IF k \in {j} THEN f[k] ELSE Zero]
             u == f[j]
  <1>1. Usages(g, n) /\ Single(g, n, j, u)
    BY ZeroCounts DEF Usages, Single
  <1>2. j \in 0..n /\ u \in Counters /\ j # 0
    BY DEF Usages
  <1>3. UsageAt(f, n, {j}) = UsageOf(g)
    BY DEF UsageAt
  <1> HIDE DEF g, u
  <1>4. UsageOf(g) = u
    BY <1>1, <1>2, UsageOfOne
  <1> QED  BY <1>3, <1>4 DEF u

LEMMA UsageAtParts ==
    ASSUME NEW n \in Nat, NEW f, Usages(f, n)
    PROVE  /\ UsageAt(f, n, {}) = Zero
           /\ UsageAt(f, n, 1..n) = UsageOf(f)
           /\ \A S, T : S \cap T = {} =>
                  UsageAt(f, n, S \cup T) = Plus(UsageAt(f, n, S), UsageAt(f, n, T))
           /\ \A S : UsageAt(f, n, S) \in Counters
  <1> DEFINE M(S) == [k \in 1..n |-> IF k \in S THEN f[k] ELSE Zero]
  <1>1. \A S : UsageAt(f, n, S) = UsageOf(M(S))
    BY DEF UsageAt
  <1>2. \A S : /\ Usages(M(S), n)
               /\ \A k \in 1..n : M(S)[k] = IF k \in S THEN f[k] ELSE Zero
    BY ZeroCounts DEF Usages
  <1>3. M(1..n) = f
    BY DEF Usages
  <1> HIDE DEF M
  <1>4. UsageAt(f, n, {}) = Zero
    <2> DEFINE g == M({})
    <2>1. Usages(g, n) /\ Single(g, n, 0, Zero)
      BY <1>2 DEF Single
    <2>2. 0 \in 0..n
      OBVIOUS
    <2> HIDE DEF g
    <2>3. UsageOf(g) = Zero
      BY <2>1, <2>2, ZeroCounts, UsageOfOne
    <2> QED  BY <1>1, <2>3 DEF g
  <1>6. UsageAt(f, n, 1..n) = UsageOf(f)
    BY <1>1, <1>3
  <1>7. ASSUME NEW S, NEW T, S \cap T = {}
        PROVE  UsageAt(f, n, S \cup T) = Plus(UsageAt(f, n, S), UsageAt(f, n, T))
    <2> DEFINE a == M(S)
               b == M(T)
               c == M(S \cup T)
    <2>1. Usages(a, n) /\ Usages(b, n) /\ Usages(c, n)
      BY <1>2
    <2>2. \A u \in Counters : Plus(u, Zero) = u /\ Plus(Zero, u) = u
      BY DEF Plus, Zero, Counters
    <2>3. ASSUME NEW k \in 1..n PROVE c[k] = Plus(a[k], b[k])
      <3>1. f[k] \in Counters /\ Zero \in Counters
        BY ZeroCounts DEF Usages
      <3>2. /\ c[k] = IF k \in S \/ k \in T THEN f[k] ELSE Zero
            /\ a[k] = IF k \in S THEN f[k] ELSE Zero
            /\ b[k] = IF k \in T THEN f[k] ELSE Zero
            /\ ~(k \in S /\ k \in T)
        BY <1>2, <1>7
      <3> HIDE DEF a, b, c
      <3>3. CASE k \in S
        <4>1. c[k] = f[k] /\ a[k] = f[k] /\ b[k] = Zero
          BY <3>2, <3>3
        <4> QED  BY <2>2, <3>1, <4>1
      <3>4. CASE k \notin S
        <4>1. c[k] = b[k] /\ a[k] = Zero
          BY <3>2, <3>4
        <4>2. b[k] \in Counters
          BY <2>1 DEF Usages
        <4> QED  BY <2>2, <4>1, <4>2
      <3> QED  BY <3>3, <3>4
    <2> HIDE DEF a, b, c
    <2>4. UsageOf(c) = Plus(UsageOf(a), UsageOf(b))
      BY <2>1, <2>3, UsageOfSums
    <2> QED  BY <1>1, <2>4 DEF a, b, c
  <1>8. ASSUME NEW S PROVE UsageAt(f, n, S) \in Counters
    <2> DEFINE g == M(S)
    <2>1. Usages(g, n)
      BY <1>2
    <2> HIDE DEF g
    <2>2. PICK U : Runs(g, n, U) /\ U[n] = UsageOf(g)
      BY <2>1, UsageRun
    <2>3. U[n] \in Counters
      BY <2>2, ZeroCounts DEF Runs
    <2> QED  BY <1>1, <2>2, <2>3 DEF g
  <1> QED  BY <1>4, <1>6, <1>7, <1>8

\* Parts that have no item in common, and all that is in them.
Apart(parts, m) == \A k, l \in 1..m : k # l => parts[k] \cap parts[l] = {}
Together(parts, m) == UNION {parts[k] : k \in 1..m}

\* Parts that have no item in common use together what their items use.
LEMMA PartsUse ==
    ASSUME NEW n \in Nat, NEW f, Usages(f, n), NEW m \in Nat, NEW parts, Apart(parts, m),
           NEW g, Usages(g, m), \A k \in 1..m : g[k] = UsageAt(f, n, parts[k])
    PROVE  UsageOf(g) = UsageAt(f, n, Together(parts, m))
  <1> DEFINE P(k) == Together(parts, k)
  <1>2. PICK U : Runs(g, m, U) /\ U[m] = UsageOf(g)
    BY UsageRun
  <1> DEFINE T == {k \in Nat : k <= m => U[k] = UsageAt(f, n, P(k))}
  <1>3. 0 \in T
    <2>1. P(0) = {}
      BY DEF Together
    <2> HIDE DEF P
    <2>2. UsageAt(f, n, P(0)) = Zero
      BY <2>1, UsageAtParts
    <2> QED  BY <1>2, <2>2 DEF Runs
  <1>4. ASSUME NEW k \in T PROVE k + 1 \in T
    <2> SUFFICES ASSUME k + 1 <= m PROVE U[k + 1] = UsageAt(f, n, P(k + 1))
      OBVIOUS
    <2>1. k + 1 \in 1..m /\ (k + 1) - 1 = k /\ k <= m
      OBVIOUS
    <2> DEFINE p == parts[k + 1]
    <2>2. P(k + 1) = P(k) \cup p
      <3>1. 1..k + 1 = (1..k) \cup {k + 1}
        OBVIOUS
      <3> QED  BY <3>1 DEF Together
    <2>3. P(k) \cap p = {}
      <3>1. ASSUME NEW l \in 1..k PROVE parts[l] \cap parts[k + 1] = {}
        <4>1. l \in 1..m /\ l # k + 1
          BY <2>1
        <4> QED  BY <2>1, <4>1 DEF Apart
      <3> QED  BY <3>1 DEF Together
    <2>4. g[k + 1] = UsageAt(f, n, p) /\ U[k] = UsageAt(f, n, P(k))
      BY <2>1
    <2> HIDE DEF P, p
    <2>5. UsageAt(f, n, P(k) \cup p) = Plus(UsageAt(f, n, P(k)), UsageAt(f, n, p))
      BY <2>3, UsageAtParts
    <2>6. U[k + 1] = Plus(U[k], g[k + 1])
      BY <1>2, <2>1 DEF Runs
    <2> QED  BY <2>2, <2>4, <2>5, <2>6
  <1>5. \A k \in Nat : k \in T
    <2>1. T \in SUBSET Nat
      OBVIOUS
    <2> HIDE DEF T
    <2> QED  BY <1>3, <1>4, <2>1, Induct
  <1> QED  BY <1>2, <1>5

\* A list of some of the items, each once, uses what they use, in any order.
LEMMA ListUses ==
    ASSUME NEW n \in Nat, NEW f, Usages(f, n), NEW places \in SUBSET (1..n),
           NEW m \in Nat, NEW at \in [1..m -> places],
           \A k, l \in 1..m : at[k] = at[l] => k = l,
           \A i \in places : \E k \in 1..m : at[k] = i,
           NEW g, Usages(g, m), \A k \in 1..m : g[k] = f[at[k]]
    PROVE  UsageOf(g) = UsageAt(f, n, places)
  <1> DEFINE parts == [k \in 1..m |-> {at[k]}]
  <1>1. \A k \in 1..m : parts[k] = {at[k]} /\ at[k] \in 1..n /\ at[k] \in places
    OBVIOUS
  <1> HIDE DEF parts
  <1>2. Apart(parts, m)
    BY <1>1 DEF Apart
  <1>3. Together(parts, m) = places
    <2>1. ASSUME NEW i \in places PROVE i \in Together(parts, m)
      <3>1. PICK k \in 1..m : at[k] = i
        OBVIOUS
      <3>2. i \in parts[k]
        BY <1>1, <3>1
      <3> QED  BY <3>2 DEF Together
    <2>2. ASSUME NEW i \in Together(parts, m) PROVE i \in places
      <3>1. PICK k \in 1..m : i \in parts[k]
        BY <2>2 DEF Together
      <3> QED  BY <1>1, <3>1
    <2> QED  BY <2>1, <2>2
  <1>4. \A k \in 1..m : g[k] = UsageAt(f, n, parts[k])
    <2> SUFFICES ASSUME NEW k \in 1..m PROVE g[k] = UsageAt(f, n, parts[k])
      OBVIOUS
    <2> DEFINE i == at[k]
    <2>1. parts[k] = {i} /\ i \in 1..n /\ g[k] = f[i]
      BY <1>1
    <2> HIDE DEF i
    <2>2. UsageAt(f, n, {i}) = f[i]
      BY <2>1, UsageAtIs
    <2> QED  BY <2>1, <2>2
  <1> QED  BY <1>2, <1>3, <1>4, PartsUse

-------------------------------------------------------------------------------
(* Sums and greatest of numbers *)

\* The sum of numbers is a number.
LEMMA SumIsNumber ==
    ASSUME NEW s \in Seq(Int)
    PROVE  SumOf(s) \in Int
  <1>1. PICK h : SumRuns(h, 0, s, Len(s)) /\ SumFrom(0, s) = h[Len(s)]
    BY SumFoldIs
  <1> DEFINE T == {k \in Nat : k <= Len(s) => h[k] \in Int}
  <1>2. 0 \in T
    BY <1>1 DEF SumRuns
  <1>3. ASSUME NEW k \in T PROVE k + 1 \in T
    <2> SUFFICES ASSUME k + 1 <= Len(s) PROVE h[k + 1] \in Int
      OBVIOUS
    <2>1. k + 1 \in 1..Len(s) /\ (k + 1) - 1 = k /\ h[k] \in Int /\ s[k + 1] \in Int
      OBVIOUS
    <2>2. h[k + 1] = h[k] + s[k + 1]
      BY <1>1, <2>1 DEF SumRuns
    <2> QED  BY <2>1, <2>2
  <1>4. \A k \in Nat : k \in T
    <2>1. T \in SUBSET Nat
      OBVIOUS
    <2> HIDE DEF T
    <2> QED  BY <1>2, <1>3, <2>1, Induct
  <1>5. Len(s) \in Nat
    OBVIOUS
  <1>6. SumOf(s) = SumFrom(0, s)
    BY DEF SumOf, SumFrom
  <1> QED  BY <1>1, <1>4, <1>5, <1>6

\* The greatest of some numbers is one of them.
LEMMA GreatestIsNumber ==
    ASSUME NEW n \in Nat \ {0}, NEW u, \A k \in 1..n : u[k] \in Int
    PROVE  Max({u[k] : k \in 1..n}) \in Int
  <1> DEFINE T == {k \in Nat : k + 1 <= n =>
                        \E j \in 1..k + 1 : \A i \in 1..k + 1 : u[j] >= u[i]}
             S == {u[k] : k \in 1..n}
  <1>1. 0 \in T
    OBVIOUS
  <1>2. ASSUME NEW k \in T PROVE k + 1 \in T
    <2> SUFFICES ASSUME k + 2 <= n
                 PROVE  \E j \in 1..k + 2 : \A i \in 1..k + 2 : u[j] >= u[i]
      OBVIOUS
    <2>1. PICK j \in 1..k + 1 : \A i \in 1..k + 1 : u[j] >= u[i]
      OBVIOUS
    <2>2. k + 2 \in 1..n /\ j \in 1..n /\ \A i \in 1..k + 2 : i \in 1..n
      OBVIOUS
    <2>3. u[k + 2] \in Int /\ u[j] \in Int /\ \A i \in 1..k + 2 : u[i] \in Int
      BY <2>2
    <2>4. CASE u[j] >= u[k + 2]
      <3>1. \A i \in 1..k + 2 : u[j] >= u[i]
        BY <2>1, <2>4
      <3> QED  BY <3>1
    <2>5. CASE ~(u[j] >= u[k + 2])
      <3>1. \A i \in 1..k + 1 : u[k + 2] >= u[i]
        BY <2>1, <2>2, <2>3, <2>5
      <3>2. \A i \in 1..k + 2 : u[k + 2] >= u[i]
        BY <2>3, <3>1
      <3> QED  BY <3>2
    <2> QED  BY <2>4, <2>5
  <1>3. \A k \in Nat : k \in T
    <2>1. T \in SUBSET Nat
      OBVIOUS
    <2> HIDE DEF T
    <2> QED  BY <1>1, <1>2, <2>1, Induct
  <1>4. PICK j \in 1..n : \A i \in 1..n : u[j] >= u[i]
    <2>1. n - 1 \in Nat /\ (n - 1) + 1 = n
      OBVIOUS
    <2>2. n - 1 \in T
      BY <1>3, <2>1
    <2> QED  BY <2>1, <2>2
  <1>5. u[j] \in S /\ \A x \in S : u[j] >= x
    BY <1>4
  <1>6. \A x \in S : x \in Int
    OBVIOUS
  <1> HIDE DEF S
  <1>7. Max(S) \in S
    BY <1>5 DEF Max
  <1> QED  BY <1>6, <1>7 DEF S
===============================================================================
