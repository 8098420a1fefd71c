-------------------------- MODULE IndexContentProofs --------------------------
(***************************************************************************)
(* Proofs about what the local index holds and shows of the logs, for any  *)
(* logs, any writers, acting at any time, and any number of failures.  An  *)
(* entry or a component that is not marked as mixed has the fingerprint of *)
(* what was parsed for it, of the length that was listed; as a fingerprint *)
(* tells contents of one length apart, all the rest follows.               *)
(***************************************************************************)
EXTENDS IndexProofs

USE DEF diskVars, indexVars, hintVars, passVars

-------------------------------------------------------------------------------
(* Prefixes *)

LEMMA PrefixByBlocks ==
  ASSUME NEW s \in Data, NEW t \in Data
  PROVE  IsPrefix(s, t) <=> Len(s) <= Len(t) /\ \A k \in 1..Len(s) : s[k] = t[k]
  <1>1. Len(s) \in Nat /\ Len(t) \in Nat
    BY DEF Data
  <1>2. ASSUME Len(s) <= Len(t), \A k \in 1..Len(s) : s[k] = t[k]
        PROVE  IsPrefix(s, t)
    <2>1. SubSeq(s, 1, Len(s)) = SubSeq(t, 1, Len(s))
      BY <1>1, <1>2 DEF Data
    <2> QED
      BY <1>2, <2>1 DEF IsPrefix
  <1>3. ASSUME IsPrefix(s, t), NEW k \in 1..Len(s)
        PROVE  s[k] = t[k]
    <2>1. SubSeq(s, 1, Len(s))[k] = SubSeq(t, 1, Len(s))[k] /\ Len(s) <= Len(t)
      BY <1>3 DEF IsPrefix
    <2> QED
      BY <1>1, <2>1 DEF Data
  <1> QED
    BY <1>2, <1>3 DEF IsPrefix

LEMMA EmptyPrefix == ASSUME NEW d \in Data PROVE IsPrefix(<<>>, d)
  <1>1. <<>> \in Data /\ Len(<<>>) = 0 /\ Len(d) \in Nat
    BY DEF Data
  <1>2. \A k \in 1..Len(<<>>) : <<>>[k] = d[k]
    BY <1>1
  <1> QED
    BY <1>1, <1>2, PrefixByBlocks

LEMMA TakePrefix == ASSUME NEW d \in Data, NEW n \in Nat PROVE IsPrefix(Take(d, n), d)
  <1>1. Len(d) \in Nat /\ Least(n, Len(d)) \in 0..Len(d)
    BY DEF Data, Least
  <1> QED
    BY <1>1, TakeType, PrefixByBlocks

LEMMA SameBlocks ==
  ASSUME NEW d \in Data, NEW e \in Data, Len(d) = Len(e), \A j \in 1..Len(d) : d[j] = e[j]
  PROVE  d = e
  BY DEF Data

LEMMA Concatenation ==
  ASSUME NEW d \in Data, NEW e \in Data
  PROVE  /\ Len(d \o e) = Len(d) + Len(e)
         /\ \A j \in 1..Len(d) + Len(e) :
               (d \o e)[j] = IF j <= Len(d) THEN d[j] ELSE e[j - Len(d)]
  BY DEF Data

LEMMA TakeTake ==
  ASSUME NEW d \in Data, NEW n \in Nat, NEW s \in Nat, s <= n
  PROVE  Take(Take(d, n), s) = Take(d, s)
  <1> DEFINE e == Take(d, n)
  <1>0. Len(d) \in Nat
    BY DEF Data
  <1>1. /\ e \in Data /\ Len(e) = Least(n, Len(d)) /\ Len(d) \in Nat
        /\ \A j \in 1..Least(n, Len(d)) : e[j] = d[j]
    BY <1>0, TakeType
  <1>2. /\ Take(e, s) \in Data /\ Len(Take(e, s)) = Least(s, Len(e))
        /\ \A j \in 1..Least(s, Len(e)) : Take(e, s)[j] = e[j]
    BY <1>1, TakeType
  <1>3. /\ Take(d, s) \in Data /\ Len(Take(d, s)) = Least(s, Len(d))
        /\ \A j \in 1..Least(s, Len(d)) : Take(d, s)[j] = d[j]
    BY TakeType
  <1> HIDE DEF e
  <1>4. Least(s, Len(e)) = Least(s, Len(d)) /\ Least(s, Len(d)) \in 0..Least(n, Len(d))
    BY <1>1 DEF Least
  <1>5. \A j \in 1..Least(s, Len(d)) : Take(e, s)[j] = Take(d, s)[j]
    <2>1. \A j \in 1..Least(s, Len(d)) : /\ j \in 1..Least(s, Len(e)) /\ j \in 1..Least(n, Len(d))
                                        /\ j \in 1..Least(s, Len(d))
      BY <1>1, <1>4
    <2> QED
      BY <1>1, <1>2, <1>3, <2>1
  <1>6. Take(e, s) = Take(d, s)
    BY <1>2, <1>3, <1>4, <1>5, SameBlocks
  <1> QED
    BY <1>6 DEF e

\* What two logs that start alike have in common.
LEMMA SameStart ==
  ASSUME NEW d \in Data, NEW e \in Data, NEW n \in Nat, Take(d, n) = Take(e, n)
  PROVE  /\ Least(n, Len(d)) = Least(n, Len(e))
         /\ \A j \in 1..Least(n, Len(d)) : d[j] = e[j]
         /\ \A s \in Nat : s <= n => Take(d, s) = Take(e, s)
  <1>1. \A s \in Nat : s <= n => Take(d, s) = Take(Take(d, n), s) /\ Take(e, s) = Take(Take(e, n), s)
    BY TakeTake
  <1>2. /\ Len(Take(d, n)) = Least(n, Len(d)) /\ Len(Take(e, n)) = Least(n, Len(e))
        /\ \A j \in 1..Least(n, Len(d)) : Take(d, n)[j] = d[j]
        /\ \A j \in 1..Least(n, Len(e)) : Take(e, n)[j] = e[j]
    BY TakeType
  <1> QED
    BY <1>1, <1>2

-------------------------------------------------------------------------------
(* Fingerprints *)

\* A chunk is made of its blocks.
LEMMA ChunkBlocks ==
  ASSUME NEW d \in Data, NEW e \in Data, NEW i \in Nat \ {0}, NEW high \in Nat,
         Least(i * Chunk, Len(d)) = high, Least(i * Chunk, Len(e)) = high,
         \A j \in (i - 1) * Chunk + 1..high : d[j] = e[j]
  PROVE  ChunkOf(d, i) = ChunkOf(e, i)
  <1> DEFINE low == (i - 1) * Chunk
  <1>1. low \in Nat /\ i * Chunk \in Nat
    BY IndexAssumption, Product
  <1>2. high <= Len(d) /\ high <= Len(e)
    BY <1>1 DEF Least, Data
  <1>3. /\ ChunkOf(d, i) = SubSeq(d, low + 1, high) /\ ChunkOf(e, i) = SubSeq(e, low + 1, high)
        /\ \A j \in low + 1..high : d[j] = e[j]
    BY DEF ChunkOf
  <1> HIDE DEF low
  <1>4. SubSeq(d, low + 1, high) = SubSeq(e, low + 1, high)
    BY <1>1, <1>2, <1>3 DEF Data
  <1> QED
    BY <1>3, <1>4

LEMMA SameChunks ==
  ASSUME NEW n \in Nat, NEW f \in Seq(Data), NEW g \in Seq(Data), Len(f) = n, Len(g) = n,
         \A i \in 1..n : f[i] = g[i]
  PROVE  f = g
  OBVIOUS

\* A fingerprint tells contents of one length apart.
LEMMA FingerprintOfOne ==
  ASSUME NEW d \in Data, NEW e \in Data, Len(d) = Len(e), Fingerprint(d) = Fingerprint(e)
  PROVE  d = e
  <1>1. Len(d) \in Nat
    BY DEF Data
  <1>2. ASSUME NEW j \in 1..Len(d)
        PROVE  d[j] = e[j]
    <2>1. PICK i \in 1..Chunks(Len(d)) : (i - 1) * Chunk < j /\ j <= i * Chunk
      BY <1>1, InChunk
    <2>2. /\ (i - 1) * Chunk \in Nat /\ i * Chunk \in Nat
          /\ j \in (i - 1) * Chunk + 1..Least(i * Chunk, Len(d))
      <3>1. (i - 1) * Chunk \in Nat /\ i * Chunk \in Nat
        BY ChunksCover, <1>1, Product, IndexAssumption
      <3> QED
        BY <3>1, <1>1, <2>1 DEF Least
    <2>3. ChunkOf(d, i) = ChunkOf(e, i)
      BY FingerprintType
    <2> QED
      BY <2>2, <2>3, ChunkType
  <1> QED
    BY <1>1, <1>2 DEF Data

\* A fingerprint that keeps the chunks of what was parsed before, of a log that still
\* has the last of them, is the fingerprint of what was parsed in all.
LEMMA GrownWhole ==
  ASSUME NEW base \in Data, NEW d \in Data, NEW e \in Data, Len(d) = Len(e),
         Len(base) <= Len(d),
         \A j \in 1..Len(e) : e[j] = IF j <= Len(base) THEN base[j] ELSE d[j],
         base # <<>> => ChunkOf(Take(d, Len(base)), Chunks(Len(base)))
                           = ChunkOf(base, Chunks(Len(base)))
  PROVE  GrownFingerprint(Fingerprint(base), Len(base), d) = Fingerprint(e)
  <1> DEFINE n     == Len(base)
             size  == Len(d)
             whole == n \div Chunk
             old   == Fingerprint(base)
  <1>1. n \in Nat /\ size \in Nat /\ n <= size /\ Chunk \in Nat \ {0}
    BY IndexAssumption DEF Data
  <1>2. /\ whole \in Nat /\ whole * Chunk <= n /\ whole <= Chunks(n) /\ Chunks(n) <= whole + 1
        /\ Chunks(n) \in Nat /\ Chunks(size) \in Nat
        /\ \A i \in 1..Chunks(n) : old[i] = ChunkOf(base, i)
    BY <1>1, Complete, ChunksCover, FingerprintType
  <1> HIDE DEF whole, old
  <1>3. ASSUME NEW i \in 1..Chunks(size), i <= whole
        PROVE  old[i] = ChunkOf(e, i)
    <2>1. i * Chunk \in Nat /\ i * Chunk <= n
      <3>1. i * Chunk <= whole * Chunk
        BY <1>1, <1>2, <1>3, Scale
      <3>2. i * Chunk \in Nat /\ whole * Chunk \in Nat
        BY <1>1, <1>2, Product
      <3>3. \A x, y \in Nat : x <= y /\ y <= n => x <= n
        BY <1>1
      <3>4. whole * Chunk <= n
        BY <1>2
      <3> QED
        BY <3>1, <3>2, <3>3, <3>4, Zenon
    <2>2. Least(i * Chunk, n) = i * Chunk /\ Least(i * Chunk, Len(e)) = i * Chunk
      BY <1>1, <2>1 DEF Least
    <2>3. (i - 1) * Chunk \in Nat
      BY <1>1, <1>2, Product
    <2>4. \A j \in (i - 1) * Chunk + 1..i * Chunk : base[j] = e[j]
      BY <1>1, <2>1, <2>3
    <2>5. ChunkOf(base, i) = ChunkOf(e, i)
      BY <2>1, <2>2, <2>4, ChunkBlocks
    <2> QED
      BY <1>2, <1>3, <2>5
  <1>4. ASSUME NEW i \in 1..Chunks(size), ~(i <= whole)
        PROVE  ChunkOf(d, i) = ChunkOf(e, i)
    <2> DEFINE low  == (i - 1) * Chunk
               high == Least(i * Chunk, size)
    <2>1. low \in Nat /\ i * Chunk \in Nat /\ i * Chunk = low + Chunk
      <3>1. (i - 1) * Chunk + Chunk = i * Chunk
        BY <1>1, <1>2, Distribute
      <3> QED
        BY <1>1, <1>2, <3>1, Product
    <2>2. high \in Nat /\ high <= size /\ high <= i * Chunk
      BY <1>1, <2>1 DEF Least
    <2>3. ASSUME NEW j \in low + 1..high
          PROVE  d[j] = e[j]
      <3>1. j \in 1..size
        BY <2>1, <2>2
      <3>2. CASE j > n
        BY <1>1, <3>1, <3>2
      <3>3. CASE j <= n
        <4>1. i = Chunks(n)
          <5>1. low < n
            BY <1>1, <2>1, <3>3
          <5>2. low < Chunks(n) * Chunk
            <6>1. n <= Chunks(n) * Chunk /\ Chunks(n) * Chunk \in Nat
              BY <1>1, <1>2, ChunksCover, Product
            <6> QED
              BY <1>1, <2>1, <5>1, <6>1
          <5>3. i - 1 < Chunks(n)
            BY <1>1, <1>2, <5>2, Cancel
          <5> QED
            BY <1>2, <1>4, <5>3
        <4>2. base # <<>>
          BY <1>1, <3>1, <3>3
        <4>3. /\ Take(d, n) \in Data /\ Len(Take(d, n)) = n
              /\ \A k \in 1..n : Take(d, n)[k] = d[k]
          BY <1>1, TakeType DEF Least
        <4>4. i \in 1..Chunks(n) /\ j \in low + 1..Least(i * Chunk, n)
          <5>1. i \in 1..Chunks(n)
            BY <1>2, <4>1
          <5>2. j \in Nat /\ low + 1 <= j /\ j <= i * Chunk /\ j <= n
            BY <2>1, <2>2, <3>3
          <5>3. j <= Least(i * Chunk, n) /\ Least(i * Chunk, n) \in Nat
            BY <1>1, <2>1, <5>2 DEF Least
          <5> QED
            BY <2>1, <5>1, <5>2, <5>3
        <4>5. Take(d, n)[j] = base[j]
          <5>1. ChunkOf(Take(d, n), i) = ChunkOf(base, i)
            BY <4>1, <4>2
          <5> DEFINE t == Take(d, n)
          <5>2. t \in Data /\ i \in 1..Chunks(Len(t)) /\ j \in (i - 1) * Chunk + 1..Least(i * Chunk, Len(t))
            BY <4>3, <4>4
          <5>3. ChunkOf(t, i)[j - (i - 1) * Chunk] = t[j]
            <6> HIDE DEF t
            <6> QED
              BY <5>2, ChunkType
          <5>4. ChunkOf(base, i)[j - (i - 1) * Chunk] = base[j]
            BY <4>4, ChunkType
          <5> QED
            BY <5>1, <5>3, <5>4
        <4>6. e[j] = base[j] /\ Take(d, n)[j] = d[j]
          BY <3>1, <3>3, <4>3
        <4> QED
          BY <4>5, <4>6
      <3> QED
        BY <1>1, <3>1, <3>2, <3>3
    <2>4. i \in Nat \ {0} /\ Least(i * Chunk, Len(e)) = high
      BY <1>2
    <2> HIDE DEF high
    <2>5. \A j \in (i - 1) * Chunk + 1..high : d[j] = e[j]
      BY <2>3
    <2> QED
      BY <2>2, <2>4, <2>5, ChunkBlocks DEF high
  <1>5. GrownFingerprint(old, n, d) = [i \in 1..Chunks(size) |-> ChunkOf(e, i)]
    BY <1>3, <1>4 DEF GrownFingerprint, whole
  <1> QED
    BY <1>5 DEF Fingerprint, old

-------------------------------------------------------------------------------
(* What entries and components hold *)

\* Unless the log changed under its parse in a way no stamp can tell, an entry has the
\* fingerprint of what was parsed, all that was listed of it, and was parsed by lines.
CleanEntry(e) ==
    ~e.parsed.mixed =>
       /\ e.fp = Fingerprint(e.parsed.data) /\ Len(e.parsed.data) = e.stamp.size
       /\ ~e.parsed.torn
       /\ e.marks.safe => EndsLine(e.parsed.data)
CleanFiles(f) == \A p \in DOMAIN f : CleanEntry(f[p])

\* The signature of a component is that of what it shows.
CleanComponent(c) ==
    ~c.shows.mixed =>
       c.sig.digest = Fingerprint(c.shows.data) /\ Len(c.shows.data) = c.sig.stamp.size
CleanComponents(cs) == \A p \in DOMAIN cs : CleanComponent(cs[p])

\* What was parsed of a log before this pass.
Base == IF appends THEN files[Current].parsed.data ELSE <<>>

\* What was taken of a log that did not change under its parse.
Taken ==
    /\ Len(Base) <= Len(parsed.data) /\ Len(parsed.data) <= Len(disk[Current].data)
    /\ \A j \in 1..Len(parsed.data) :
          parsed.data[j] = IF j <= Len(Base) THEN Base[j] ELSE disk[Current].data[j]
    /\ appends => TailMatches(Current)
    /\ pc # "read" =>
          Len(parsed.data) = Least(inventory[Current].size, Len(disk[Current].data))

ReadInv ==
    ~parsed.mixed =>
       /\ ~parsed.torn
       /\ appends => ~files[Current].parsed.mixed
       /\ ~touched => Taken

\* All that a pass may keep, reuse or commit is clean.
CleanInv ==
    /\ CleanFiles(files) /\ (Planned => CleanFiles(next))
    /\ CleanComponents(components) /\ CleanComponents(snapshot.logs)
    /\ CleanComponents(db.snapshot.logs)
    /\ pc = "commit" => CleanComponents(built.logs)
    /\ Reads => ReadInv

LEMMA CleanInit == ASSUME Init PROVE CleanInv
  <1>1. /\ files = <<>> /\ components = <<>> /\ snapshot = NoSnapshot
        /\ db.snapshot = NoSnapshot /\ pc = "idle"
    BY DEF Init
  <1> QED
    BY <1>1 DEF CleanInv, CleanFiles, CleanComponents, NoSnapshot, Planned, Reads

\* What a pass works on while it parses a log.
LEMMA CurrentTypes ==
  ASSUME TypeInv, Reads
  PROVE  /\ Current \in Paths /\ inventory[Current].size \in Nat
         /\ disk[Current].data \in Data /\ Len(disk[Current].data) \in Nat
         /\ parsed.data \in Data /\ Len(parsed.data) \in Nat
         /\ Len(parsed.data) <= inventory[Current].size
         /\ Base \in Data /\ Len(Base) \in Nat
         /\ appends => /\ Current \in DOMAIN files /\ GoodEntry(files[Current])
                       /\ files[Current].stamp.size \in Nat
                       /\ files[Current].stamp.size < inventory[Current].size
  <1>0. WorldType /\ IndexType /\ PassType
    BY DEF TypeInv
  <1>1. Current \in Paths /\ inventory[Current].size \in Nat
    BY <1>0, CurrentListed DEF Reads, Planned, PassType, Stamp
  <1>2. disk[Current].data \in Data /\ Len(disk[Current].data) \in Nat
    BY <1>0, <1>1 DEF WorldType, Log, Data
  <1>3. /\ parsed.data \in Data /\ Len(parsed.data) \in Nat
        /\ Len(parsed.data) <= inventory[Current].size
    BY <1>0 DEF PassType, Parse, Data
  <1>4. ASSUME appends
        PROVE  /\ Current \in DOMAIN files /\ GoodEntry(files[Current])
               /\ files[Current].stamp.size \in Nat
               /\ files[Current].stamp.size < inventory[Current].size
               /\ files[Current].parsed.data \in Data
    <2>1. Continues(Current)
      BY <1>0, <1>4 DEF PassType
    <2>2. GoodEntry(files[Current])
      BY <1>0, <2>1 DEF Continues, IndexType, GoodFiles
    <2>3. files[Current].stamp.size \in Nat /\ files[Current].parsed.data \in Data
      BY <2>2 DEF GoodEntry, Entry, Stamp, Parse
    <2> QED
      BY <1>1, <2>1, <2>2, <2>3 DEF Continues
  <1>5. Base \in Data /\ Len(Base) \in Nat
    <2>1. <<>> \in Data
      BY DEF Data
    <2>2. Base \in Data
      BY <1>4, <2>1 DEF Base
    <2> QED
      BY <2>2 DEF Data
  <1> QED
    BY <1>1, <1>2, <1>3, <1>4, <1>5

\* A component of the cache or a new one.
LEMMA ComponentClean ==
  ASSUME CleanFiles(next), CleanComponents(components), NEW p \in DOMAIN next
  PROVE  CleanComponent(ComponentOf(p))
  <1>1. CASE p \in DOMAIN components /\ components[p].sig = Signature(next[p])
    BY <1>1 DEF ComponentOf, CleanComponents
  <1>2. CASE ~(p \in DOMAIN components /\ components[p].sig = Signature(next[p]))
    <2>1. /\ ComponentOf(p).shows = next[p].parsed
          /\ ComponentOf(p).sig.stamp = next[p].stamp /\ ComponentOf(p).sig.digest = next[p].fp
      BY <1>2 DEF ComponentOf, Signature
    <2> QED
      BY <2>1 DEF CleanFiles, CleanEntry, CleanComponent
  <1> QED
    BY <1>1, <1>2

\* A write that does not disturb a parse leaves alone what was taken.
LEMMA TakenWrite ==
  ASSUME TypeInv, CleanInv, Reads, ~parsed.mixed, ~touched, Taken,
         NEW p \in Paths, NEW log, Written(p, log), ~touched'
  PROVE  Taken'
  <1>0. WorldType /\ IndexType /\ PassType
    BY DEF TypeInv
  <1>1. /\ disk' = [disk EXCEPT ![p] = log] /\ log \in Log /\ ~Disturbs(p, log)
        /\ UNCHANGED <<files, pc, inventory, todo, appends, parsed>>
    BY DEF Written, Put
  <1>2. Current' = Current /\ Base' = Base
    BY <1>1 DEF Current, Base
  <1>3. CASE p # Current
    <2>1. disk'[Current] = disk[Current]
      BY <1>0, <1>1, <1>3, CurrentTypes DEF WorldType
    <2> QED
      BY <1>1, <1>2, <2>1 DEF Taken, TailMatches
  <1>4. CASE p = Current
    <2> DEFINE d == disk[p].data
               e == log.data
               size == inventory[p].size
               n == IF pc = "read" THEN Len(parsed.data) ELSE size
    <2>1. disk'[p] = log /\ Take(e, n) = Take(d, n)
      BY <1>0, <1>1, <1>4 DEF WorldType, Disturbs, Reads
    <2>2. /\ d \in Data /\ e \in Data /\ n \in Nat /\ Len(d) \in Nat /\ Len(e) \in Nat
          /\ size \in Nat /\ Len(parsed.data) \in Nat /\ Len(parsed.data) <= n
      BY <1>1, <1>4, CurrentTypes DEF Log, Data
    <2> HIDE DEF n, d, e, size
    <2>3. /\ Least(n, Len(d)) = Least(n, Len(e))
          /\ \A j \in 1..Least(n, Len(d)) : d[j] = e[j]
          /\ \A s \in Nat : s <= n => Take(d, s) = Take(e, s)
      BY <2>1, <2>2, SameStart
    <2>4. Len(parsed.data) <= Len(d)
      BY <1>4 DEF Taken, d
    <2>5. Len(parsed.data) <= Least(n, Len(d)) /\ Len(parsed.data) <= Len(e)
      BY <2>2, <2>3, <2>4 DEF Least
    <2>6. \A j \in 1..Len(parsed.data) :
             parsed.data[j] = IF j <= Len(Base) THEN Base[j] ELSE e[j]
      <3>1. \A j \in 1..Len(parsed.data) : d[j] = e[j]
        <4>1. Least(n, Len(d)) \in Nat
          BY <2>2 DEF Least
        <4> QED
          BY <2>2, <2>3, <2>5, <4>1
      <3> QED
        BY <1>4, <3>1 DEF Taken, d
    <2>7. ASSUME appends
          PROVE  TailMatches(p)'
      <3>1. /\ files[p].stamp.size \in Nat /\ files[p].stamp.size <= n
        <4>1. /\ files[p].stamp.size \in Nat /\ files[p].stamp.size < size
          BY <1>4, <2>7, CurrentTypes DEF size
        <4>2. CASE pc = "read"
          <5>1. CleanEntry(files[p]) /\ ~files[p].parsed.mixed
            BY <1>4, <2>7, CurrentTypes DEF CleanInv, CleanFiles, ReadInv
          <5>2. Len(Base) = files[p].stamp.size
            BY <1>4, <2>7, <5>1 DEF CleanEntry, Base
          <5> QED
            BY <4>1, <4>2, <5>2 DEF Taken, n
        <4>3. CASE pc # "read"
          BY <2>2, <4>1, <4>3 DEF n
        <4> QED
          BY <4>2, <4>3
      <3>2. Take(d, files[p].stamp.size) = Take(e, files[p].stamp.size)
        BY <2>3, <3>1
      <3>3. TailMatches(p)
        BY <1>4, <2>7 DEF Taken
      <3> QED
        BY <1>1, <2>1, <3>2, <3>3 DEF TailMatches, d, e
    <2>8. pc # "read" => Len(parsed.data) = Least(size, Len(e))
      BY <1>4, <2>3 DEF Taken, d, size, n
    <2> QED
      BY <1>1, <1>2, <1>4, <2>1, <2>5, <2>6, <2>7, <2>8 DEF Taken, e, size
  <1> QED
    BY <1>3, <1>4

LEMMA CleanWrite ==
  ASSUME TypeInv, CleanInv, NEW p \in Paths, Write(p)
  PROVE  CleanInv'
  <1>1. PICK log : Written(p, log)
    BY WriteShape DEF TypeInv
  <1>2. /\ UNCHANGED <<files, next, components, snapshot, db, pc, built, inventory, todo,
                       appends, parsed>>
        /\ touched => touched'
    BY <1>1 DEF Written, Put
  <1>3. Current' = Current
    BY <1>2 DEF Current
  <1>4. Reads => ReadInv'
    <2>1. SUFFICES ASSUME Reads, ~parsed.mixed, ReadInv
                   PROVE  ~touched' => Taken'
      BY <1>2, <1>3 DEF ReadInv, CleanInv
    <2> QED
      BY <1>1, <1>2, <2>1, TakenWrite DEF ReadInv
  <1> QED
    BY <1>2, <1>4 DEF CleanInv, Planned, Reads

LEMMA CleanCheck ==
  ASSUME CleanInv, NEW audit \in BOOLEAN, Check(audit)
  PROVE  CleanInv'
  <1>1. /\ UNCHANGED <<files, components, snapshot, db>>
        /\ \/ pc' = "idle"
           \/ pc' = "next" /\ \E bad : next' = [p \in Known \ bad |-> files[p]]
    BY DEF Check
  <1>2. CASE pc' = "idle"
    BY <1>1, <1>2 DEF CleanInv, Planned, Reads
  <1>3. ASSUME pc' = "next", NEW bad, next' = [p \in Known \ bad |-> files[p]]
        PROVE  CleanInv'
    <2>1. CleanFiles(next)'
      BY <1>3 DEF CleanInv, CleanFiles, Known
    <2> QED
      BY <1>1, <1>3, <2>1 DEF CleanInv, Reads
  <1> QED
    BY <1>1, <1>2, <1>3

\* A parse that continues another starts after whole lines.
LEMMA CleanDecide ==
  ASSUME TypeInv, CleanInv, Decide
  PROVE  CleanInv'
  <1>0. WorldType /\ IndexType /\ PassType
    BY DEF TypeInv
  <1>1. /\ pc = "next" /\ pc' = "read" /\ todo # <<>>
        /\ UNCHANGED <<disk, files, next, components, snapshot, db, inventory, todo>>
    BY DEF Decide
  <1>2. Current' = Current /\ Current \in Paths /\ disk[Current].data \in Data
        /\ Len(disk[Current].data) \in Nat
    BY <1>0, <1>1, CurrentListed DEF Current, Planned, WorldType, Log, Data
  <1>3. ReadInv'
    <2>1. CASE MayAppend(Current)
      <3>1. /\ appends'
            /\ parsed'.data = files[Current].parsed.data
            /\ parsed'.mixed = files[Current].parsed.mixed
            /\ parsed'.torn = (files[Current].parsed.torn \/ ~EndsLine(files[Current].parsed.data))
        <4>1. Current \in DOMAIN files
          BY <2>1 DEF MayAppend
        <4>2. files[Current].parsed \in Parse
          BY <1>0, <4>1 DEF IndexType, GoodFiles, GoodEntry, Entry
        <4> QED
          BY <2>1, <4>2 DEF Decide, Parse
      <3>2. /\ Current \in DOMAIN files /\ files[Current].marks.safe /\ TailMatches(Current)
            /\ Len(disk[Current].data) >= Len(files[Current].parsed.data)
        BY <2>1 DEF MayAppend, AppendSafe
      <3>3. ASSUME ~parsed'.mixed
            PROVE  ~parsed'.torn /\ Taken'
        <4>1. CleanEntry(files[Current]) /\ ~files[Current].parsed.mixed
          BY <3>1, <3>2, <3>3 DEF CleanInv, CleanFiles
        <4>2. ~parsed'.torn
          BY <3>1, <3>2, <4>1, Zenon DEF CleanEntry
        <4>3. Base' = parsed'.data
          BY <1>1, <1>2, <3>1 DEF Base
        <4>4. Len(parsed'.data) \in Nat
          <5>1. files[Current].parsed.data \in Data
            BY <1>0, <3>2 DEF IndexType, GoodFiles, GoodEntry, Entry, Parse
          <5> QED
            BY <3>1, <5>1 DEF Data
        <4>5. TailMatches(Current)'
          BY <1>1, <1>2, <3>2 DEF TailMatches
        <4>6. Len(parsed'.data) <= Len(disk[Current].data)
          BY <1>2, <3>1, <3>2, <4>4
        <4> QED
          BY <1>1, <1>2, <4>2, <4>3, <4>4, <4>5, <4>6 DEF Taken
      <3> QED
        BY <1>1, <1>2, <3>1, <3>3 DEF ReadInv
    <2>2. CASE ~MayAppend(Current)
      <3>1. ~appends' /\ parsed' = NoParse
        BY <2>2 DEF Decide
      <3>2. Base' = <<>> /\ Len(<<>>) = 0
        BY <3>1 DEF Base
      <3>3. Taken'
        BY <1>1, <1>2, <3>1, <3>2 DEF Taken, NoParse
      <3> QED
        BY <3>1, <3>3 DEF ReadInv, NoParse
    <2> QED
      BY <2>1, <2>2
  <1> QED
    BY <1>1, <1>3 DEF CleanInv, Planned

LEMMA CleanRead ==
  ASSUME TypeInv, CleanInv, Read
  PROVE  CleanInv'
  <1>0. WorldType /\ IndexType /\ PassType
    BY DEF TypeInv
  <1>1. /\ pc = "read" /\ pc' \in {"read", "after"}
        /\ UNCHANGED <<disk, files, next, components, snapshot, db, inventory, todo, appends,
                       touched>>
    BY DEF Read
  <1>2. Current' = Current /\ Base' = Base /\ (TailMatches(Current)' <=> TailMatches(Current))
    BY <1>1 DEF Current, Base, TailMatches
  <1> DEFINE n    == Len(parsed.data)
             data == disk[Current].data
             end  == Least(inventory[Current].size, Len(data))
  <1>3. PICK m \in Nat :
           /\ end \in Nat
           /\ (n < m /\ m <= end) \/ (end <= n /\ m = n)
           /\ parsed' = [parsed EXCEPT !.data = @ \o SubSeq(data, n + 1, m)]
           /\ pc' = IF m < end THEN "read" ELSE "after"
    BY <1>0, ReadAdds
  <1>4. /\ parsed.data \in Data /\ data \in Data /\ n \in Nat /\ Len(data) \in Nat
        /\ n <= inventory[Current].size /\ inventory[Current].size \in Nat
        /\ Base \in Data /\ Len(Base) \in Nat
    BY <1>1, CurrentTypes DEF Reads
  <1>5. /\ parsed'.data = parsed.data \o SubSeq(data, n + 1, m)
        /\ parsed'.torn = parsed.torn /\ parsed'.mixed = parsed.mixed
    BY <1>0, <1>3 DEF PassType, Parse
  <1>6. ASSUME Taken
        PROVE  Taken'
    <2>1. n <= Len(data) /\ Len(Base) <= n
      BY <1>6 DEF Taken
    <2>2. n <= end /\ end <= Len(data) /\ end <= inventory[Current].size
      BY <1>4, <2>1 DEF Least
    <2>3. n <= m /\ m <= end
      BY <1>3, <1>4, <2>2
    <2> DEFINE rest == SubSeq(data, n + 1, m)
    <2> HIDE DEF n, data, end
    <2>4. /\ rest \in Data /\ Len(rest) = m - n
          /\ \A j \in 1..m - n : rest[j] = data[n + j]
      <3>1. m <= Len(data)
        BY <1>3, <1>4, <2>2, <2>3
      <3> QED
        BY <1>4, <2>3, <3>1 DEF Data
    <2> HIDE DEF rest
    <2>5. Len(parsed.data) = n
      BY DEF n
    <2> DEFINE all == parsed.data \o rest
    <2>6. /\ Len(all) = m
          /\ \A j \in 1..m : all[j] = IF j <= n THEN parsed.data[j] ELSE data[j]
      <3>1. /\ Len(all) = n + Len(rest)
            /\ \A j \in 1..n + Len(rest) : all[j] = IF j <= n THEN parsed.data[j] ELSE rest[j - n]
        BY <1>4, <2>4, <2>5, Concatenation
      <3> HIDE DEF all
      <3>2. n + Len(rest) = m
        BY <1>4, <2>3, <2>4
      <3>3. \A j \in 1..m : j > n => rest[j - n] = data[j]
        <4>1. ASSUME NEW j \in 1..m, j > n
              PROVE  rest[j - n] = data[j]
          <5>1. j - n \in 1..m - n /\ n + (j - n) = j
            BY <1>4, <2>3, <4>1
          <5> QED
            BY <2>4, <5>1
        <4> QED
          BY <4>1
      <3>4. \A j \in 1..m : all[j] = IF j <= n THEN parsed.data[j] ELSE rest[j - n]
        BY <3>1, <3>2
      <3>5. Len(all) = m
        BY <3>1, <3>2
      <3>6. ASSUME NEW j \in 1..m
            PROVE  all[j] = IF j <= n THEN parsed.data[j] ELSE data[j]
        <4>1. CASE j <= n
          BY <3>4, <4>1
        <4>2. CASE ~(j <= n)
          <5>1. all[j] = rest[j - n]
            BY <3>4, <4>2
          <5>2. j > n
            BY <1>4, <4>2
          <5> QED
            BY <3>3, <4>2, <5>1, <5>2
        <4> QED
          BY <4>1, <4>2
      <3> QED
        BY <3>5, <3>6
    <2>7. parsed'.data = all /\ Len(parsed'.data) = m
      BY <1>5, <2>6 DEF rest
    <2> HIDE DEF all
    <2>8. \A j \in 1..m : parsed'.data[j] = IF j <= Len(Base) THEN Base[j] ELSE data[j]
      <3>1. \A j \in 1..n : parsed.data[j] = IF j <= Len(Base) THEN Base[j] ELSE data[j]
        BY <1>6 DEF Taken, n, data
      <3>2. ASSUME NEW j \in 1..m
            PROVE  parsed'.data[j] = IF j <= Len(Base) THEN Base[j] ELSE data[j]
        BY <1>4, <2>1, <2>6, <2>7, <3>1
      <3> QED
        BY <3>2
    <2>9. Len(Base) <= m /\ m <= Len(data)
      BY <1>3, <1>4, <2>1, <2>2, <2>3
    <2>10. pc' # "read" => m = end
      BY <1>3, <2>3
    <2> QED
      BY <1>1, <1>2, <1>6, <2>7, <2>8, <2>9, <2>10 DEF Taken, data, end
  <1>7. ReadInv'
    BY <1>1, <1>2, <1>5, <1>6 DEF CleanInv, ReadInv, Reads
  <1> QED
    BY <1>1, <1>7 DEF CleanInv, Planned

\* A marked entry is clean, as the log was long enough to be parsed to the size that
\* was listed.
LEMMA MarkedClean ==
  ASSUME TypeInv, CleanInv, Mark,
         NEW entry,
         entry.stamp = inventory[Current],
         entry.parsed = [parsed EXCEPT !.mixed = @ \/ touched],
         entry.marks = Markers(disk[Current].data, Len(parsed.data)),
         entry.fp = IF ~appends
                    THEN Fingerprint(Take(disk[Current].data, inventory[Current].size))
                    ELSE GrownFingerprint(files[Current].fp, files[Current].stamp.size,
                                          Take(disk[Current].data, inventory[Current].size))
  PROVE  CleanEntry(entry)
  <1> DEFINE log  == disk[Current].data
             size == inventory[Current].size
             old  == files[Current]
             d    == Take(log, size)
             e    == parsed.data
  <1>1. SUFFICES ASSUME ~entry.parsed.mixed
                 PROVE  /\ entry.fp = Fingerprint(e) /\ Len(e) = size
                        /\ ~parsed.torn /\ (entry.marks.safe => EndsLine(e))
    <2>1. entry.parsed.data = e /\ entry.parsed.torn = parsed.torn
      BY DEF TypeInv, PassType, Parse
    <2> QED
      BY <2>1 DEF CleanEntry
  <1>2. pc = "mark" /\ Reads /\ Len(log) >= size
    BY DEF Mark, Readable, HasBlocks, Reads
  <1>3. ~parsed.mixed /\ ~touched
    <2>1. entry.parsed.mixed = (parsed.mixed \/ touched)
      BY DEF TypeInv, PassType, Parse
    <2> QED
      BY <1>1, <2>1
  <1>4. ~parsed.torn /\ Taken /\ (appends => ~old.parsed.mixed)
    BY <1>2, <1>3 DEF CleanInv, ReadInv
  <1>5. /\ size \in Nat /\ log \in Data /\ Len(log) \in Nat /\ e \in Data /\ Len(e) \in Nat
        /\ Base \in Data /\ Len(Base) \in Nat
        /\ appends => /\ Current \in DOMAIN files /\ GoodEntry(old)
                      /\ old.stamp.size \in Nat /\ old.stamp.size < size
    BY <1>2, CurrentTypes
  <1>6. /\ Len(e) = size /\ Len(Base) <= Len(e)
        /\ \A j \in 1..Len(e) : e[j] = IF j <= Len(Base) THEN Base[j] ELSE log[j]
        /\ appends => TailMatches(Current)
    BY <1>2, <1>4, <1>5 DEF Taken, Least
  <1>7. /\ d \in Data /\ Len(d) = size /\ \A j \in 1..size : d[j] = log[j]
    <2>1. Least(size, Len(log)) = size
      BY <1>2, <1>5 DEF Least
    <2> HIDE DEF log, size
    <2>2. /\ Take(log, size) \in Data /\ Len(Take(log, size)) = Least(size, Len(log))
          /\ \A j \in 1..Least(size, Len(log)) : Take(log, size)[j] = log[j]
      BY <1>5, TakeType
    <2> QED
      BY <2>1, <2>2
  <1>8. ASSUME appends
        PROVE  old.fp = Fingerprint(Base) /\ Len(Base) = old.stamp.size
    <2>1. CleanEntry(old)
      BY <1>5, <1>8 DEF CleanInv, CleanFiles
    <2> QED
      BY <1>4, <1>8, <2>1 DEF CleanEntry, Base
  <1>9. Len(e) # 0 => Len(Base) < Len(e)
    <2>1. CASE appends
      BY <1>5, <1>6, <1>8, <2>1
    <2>2. CASE ~appends
      <3>1. Len(Base) = 0
        BY <2>2 DEF Base
      <3> QED
        BY <1>5, <3>1
    <2> QED
      BY <2>1, <2>2
  <1>10. entry.fp = Fingerprint(e)
    <2>1. CASE ~appends
      <3>1. Len(Base) = 0
        BY <2>1 DEF Base
      <3>2. \A j \in 1..Len(d) : d[j] = e[j]
        BY <1>6, <1>7, <3>1
      <3>3. d = e
        <4> HIDE DEF d, e
        <4> QED
          BY <1>5, <1>6, <1>7, <3>2, SameBlocks
      <3>4. entry.fp = Fingerprint(d)
        BY <2>1
      <3> QED
        BY <3>3, <3>4
    <2>2. CASE appends
      <3>1. entry.fp = GrownFingerprint(Fingerprint(Base), Len(Base), d)
        BY <1>8, <2>2
      <3>2. \A j \in 1..Len(e) : e[j] = IF j <= Len(Base) THEN Base[j] ELSE d[j]
        BY <1>6, <1>7
      <3>3. ASSUME Base # <<>>
            PROVE  ChunkOf(Take(d, Len(Base)), Chunks(Len(Base)))
                      = ChunkOf(Base, Chunks(Len(Base)))
        <4>1. Len(Base) # 0
          BY <1>5, <3>3 DEF Data
        <4>2. /\ Len(old.fp) = Chunks(Len(Base)) /\ Chunks(Len(Base)) \in Nat \ {0}
              /\ \A i \in 1..Chunks(Len(Base)) : old.fp[i] = ChunkOf(Base, i)
          BY <1>5, <1>8, <2>2, <4>1, FingerprintType, ChunksCover
        <4>3. ChunkOf(Take(log, Len(Base)), Len(old.fp)) = old.fp[Len(old.fp)]
          <5>1. old.fp # <<>>
            BY <4>2
          <5> QED
            BY <1>6, <1>8, <2>2, <5>1 DEF TailMatches
        <4>4. Take(d, Len(Base)) = Take(log, Len(Base))
          BY <1>5, <1>6, TakeTake
        <4>5. old.fp[Chunks(Len(Base))] = ChunkOf(Base, Chunks(Len(Base)))
          BY <4>2
        <4>6. ChunkOf(Take(log, Len(Base)), Chunks(Len(Base))) = old.fp[Chunks(Len(Base))]
          BY <4>2, <4>3
        <4> QED
          BY <4>4, <4>5, <4>6
      <3>4. Len(d) = Len(e) /\ Len(Base) <= Len(d)
        BY <1>6, <1>7
      <3>5. GrownFingerprint(Fingerprint(Base), Len(Base), d) = Fingerprint(e)
        <4> HIDE DEF d, e, log, size, old
        <4> QED
          BY <1>5, <1>7, <3>2, <3>3, <3>4, GrownWhole
      <3> QED
        BY <3>1, <3>5
    <2> QED
      BY <2>1, <2>2
  <1>11. ASSUME entry.marks.safe
         PROVE  EndsLine(e)
    <2>1. Len(e) = 0 \/ log[Len(e)].ends
      <3>1. entry.marks.safe = (Len(e) = 0 \/ log[Len(e)].ends)
        BY DEF Markers
      <3> QED
        BY <1>11, <3>1
    <2>2. CASE Len(e) = 0
      BY <1>5, <2>2 DEF EndsLine, Data
    <2>3. CASE Len(e) # 0
      <3>1. Len(e) \in 1..Len(e) /\ ~(Len(e) <= Len(Base))
        BY <1>5, <1>9, <2>3
      <3>2. e[Len(e)] = log[Len(e)]
        BY <1>6, <3>1
      <3> QED
        BY <2>1, <2>3, <3>2 DEF EndsLine
    <2> QED
      BY <2>2, <2>3
  <1> QED
    BY <1>4, <1>6, <1>10, <1>11

LEMMA CleanMark ==
  ASSUME TypeInv, CleanInv, Mark
  PROVE  CleanInv'
  <1>1. /\ pc = "mark" /\ pc' = "next"
        /\ UNCHANGED <<files, components, snapshot, db>>
    BY DEF Mark
  <1>2. PICK entry :
           /\ CleanEntry(entry)
           /\ next' = [q \in DOMAIN next \cup {Current} |-> IF q = Current THEN entry ELSE next[q]]
    <2>1. PICK entry :
             /\ entry.stamp = inventory[Current]
             /\ entry.parsed = [parsed EXCEPT !.mixed = @ \/ touched]
             /\ entry.marks = Markers(disk[Current].data, Len(parsed.data))
             /\ entry.fp =
                   IF ~appends
                   THEN Fingerprint(Take(disk[Current].data, inventory[Current].size))
                   ELSE GrownFingerprint(files[Current].fp, files[Current].stamp.size,
                                         Take(disk[Current].data, inventory[Current].size))
             /\ next' = [q \in DOMAIN next \cup {Current} |-> IF q = Current THEN entry ELSE next[q]]
      BY MarkedEntry DEF TypeInv
    <2> QED
      BY <2>1, MarkedClean
  <1>3. CleanFiles(next)'
    BY <1>1, <1>2 DEF CleanInv, CleanFiles, Planned
  <1> QED
    BY <1>1, <1>3 DEF CleanInv, Reads

\* The cache and what is built of it stay clean, and a failed pass leaves it so.
LEMMA CleanNormalize ==
  ASSUME CleanInv, Normalize
  PROVE  CleanInv'
  <1>1. /\ pc = "next" /\ pc' = "commit"
        /\ components' = [p \in DOMAIN next |-> ComponentOf(p)]
        /\ built'.logs = components' \/ built' = snapshot
        /\ UNCHANGED <<files, next, snapshot, db>>
    BY DEF Normalize
  <1>2. CleanComponents(components)'
    BY <1>1, ComponentClean DEF CleanInv, CleanComponents, Planned
  <1>3. CleanComponents(built.logs)'
    BY <1>1, <1>2 DEF CleanInv
  <1> QED
    BY <1>1, <1>2, <1>3 DEF CleanInv, Planned, Reads

LEMMA CleanFail ==
  ASSUME CleanInv, Fail
  PROVE  CleanInv'
  <1>1. pc' = "idle" /\ UNCHANGED <<files, snapshot, db>>
    BY DEF Fail
  <1>2. PICK done \in SUBSET (IF pc = "next" /\ todo = <<>> THEN DOMAIN next ELSE {}) :
           components' = [p \in DOMAIN components \cup done |->
                            IF p \in done THEN ComponentOf(p) ELSE components[p]]
    BY DEF Fail
  <1>3. \A p \in done : CleanComponent(ComponentOf(p))
    BY <1>2, ComponentClean DEF CleanInv, Planned
  <1>4. CleanComponents(components)'
    BY <1>2, <1>3 DEF CleanInv, CleanComponents
  <1> QED
    BY <1>1, <1>4 DEF CleanInv, Planned, Reads

LEMMA CleanStep ==
  ASSUME TypeInv, CleanInv, [Next]_vars
  PROVE  CleanInv'
  <1>1. CASE \E p \in Paths : Write(p)
    BY <1>1, CleanWrite
  <1>2. CASE (\E audit \in BOOLEAN : Check(audit)) \/ Decide \/ Read \/ Mark \/ Normalize \/ Fail
    BY <1>2, CleanCheck, CleanDecide, CleanRead, CleanMark, CleanNormalize, CleanFail
  <1>3. CASE Commit
    <2>1. /\ pc = "commit" /\ pc' = "idle" /\ files' = next /\ snapshot' = built
          /\ db'.snapshot = built /\ UNCHANGED components
      BY <1>3 DEF Commit
    <2> QED
      BY <2>1 DEF CleanInv, Planned, Reads
  <1>4. CASE Reopen
    <2>1. /\ pc' = "idle" /\ files' = files /\ UNCHANGED db /\ components' = snapshot'.logs
          /\ snapshot' = db.snapshot \/ snapshot' = NoSnapshot
      BY <1>4 DEF Reopen, TypeInv, IndexType
    <2>2. CleanComponents(NoSnapshot.logs)
      BY DEF CleanComponents, NoSnapshot
    <2> QED
      BY <2>1, <2>2 DEF CleanInv, Planned, Reads
  <1>5. CASE \/ List \/ ForceRefresh \/ Changed \/ Unreadable
             \/ \E p \in Paths : Invalidate(p)
    <2>1. pc' \in {"idle", "check"} /\ UNCHANGED <<files, components, snapshot, db>>
      BY <1>5 DEF List, ForceRefresh, Changed, Unreadable, Invalidate
    <2> QED
      BY <2>1 DEF CleanInv, Planned, Reads
  <1>6. CASE Confirm
    <2>1. /\ pc = "after" /\ pc' = "mark"
          /\ UNCHANGED <<disk, files, components, snapshot, db, inventory, todo, next, appends,
                         parsed>>
      BY <1>6 DEF Confirm
    <2>2. touched => touched'
      BY <1>6 DEF Confirm, StillParsed, Indistinct, SameIdentity, StampOf
    <2>3. Current' = Current /\ Base' = Base /\ (TailMatches(Current)' <=> TailMatches(Current))
      BY <2>1 DEF Current, Base, TailMatches
    <2>4. Taken => Taken'
      BY <2>1, <2>3 DEF Taken
    <2>5. ReadInv'
      BY <2>1, <2>2, <2>3, <2>4 DEF CleanInv, ReadInv, Reads
    <2> QED
      BY <2>1, <2>5 DEF CleanInv, Planned
  <1>7. CASE Record \/ UNCHANGED vars
    <2>1. UNCHANGED <<disk, files, components, snapshot, db, inventory, todo, next, appends,
                      parsed, touched, built, pc>>
      BY <1>7 DEF Record, vars
    <2>2. Current' = Current /\ Base' = Base /\ (TailMatches(Current)' <=> TailMatches(Current))
      BY <2>1 DEF Current, Base, TailMatches
    <2>3. ReadInv => ReadInv'
      BY <2>1, <2>2 DEF ReadInv, Taken
    <2> QED
      BY <2>1, <2>3 DEF CleanInv, Planned, Reads
  <1> QED
    BY <1>1, <1>2, <1>3, <1>4, <1>5, <1>6, <1>7 DEF Next, Step

LEMMA CleanAlways == Spec => [](TypeInv /\ CleanInv)
  <1>1. TypeInv /\ CleanInv /\ [Next]_vars => (TypeInv /\ CleanInv)'
    BY TypeStep, CleanStep
  <1> QED
    BY TypeInit, CleanInit, <1>1, PTL DEF Spec

\* No parse is ever continued in the middle of a line (the markers' append_safe),
\* unless the log changed under it and no stamp could tell.
THEOREM LinesStayWhole == Spec => []LinesWhole
  <1>1. CleanInv => LinesWhole
    BY DEF CleanInv, CleanFiles, CleanEntry, LinesWhole
  <1> QED
    BY <1>1, CleanAlways, PTL

\* What has the chunks kept of a log begins with what was parsed of it.
LEMMA MatchShows ==
  ASSUME NEW d \in Data, NEW e \in Data, NEW n \in Nat, n <= Len(d), Len(e) = n,
         Fingerprint(Take(d, n)) = Fingerprint(e)
  PROVE  IsPrefix(e, d)
  <1>1. Take(d, n) \in Data /\ Len(Take(d, n)) = n
    BY TakeType DEF Least, Data
  <1>2. Take(d, n) = e
    BY <1>1, FingerprintOfOne
  <1> QED
    BY <1>2, TakePrefix

\* A log that has the chunks kept of it begins with what was parsed:
\* append_tail_matches and the chunks a grown fingerprint keeps unread are enough.
THEOREM ComparisonsTell == Spec => []FingerprintsTell
  <1>1. ASSUME TypeInv, CleanInv, NEW p \in DOMAIN files, Matches(disk[p], files[p]),
               ~files[p].parsed.mixed
        PROVE  IsPrefix(files[p].parsed.data, disk[p].data)
    <2>1. p \in Paths /\ GoodEntry(files[p]) /\ CleanEntry(files[p])
      BY <1>1 DEF TypeInv, IndexType, GoodFiles, CleanInv, CleanFiles
    <2>2. /\ disk[p].data \in Data /\ files[p].parsed.data \in Data /\ files[p].stamp.size \in Nat
      BY <1>1, <2>1 DEF TypeInv, WorldType, Log, GoodEntry, Entry, Parse, Stamp
    <2>3. /\ Len(files[p].parsed.data) = files[p].stamp.size
          /\ files[p].fp = Fingerprint(files[p].parsed.data)
      BY <1>1, <2>1 DEF CleanEntry
    <2>4. /\ files[p].stamp.size <= Len(disk[p].data)
          /\ Fingerprint(Take(disk[p].data, files[p].stamp.size)) = files[p].fp
      BY <1>1, <2>2 DEF Matches, Data
    <2> QED
      BY <2>2, <2>3, <2>4, MatchShows
  <1>2. TypeInv /\ CleanInv => FingerprintsTell
    BY <1>1 DEF FingerprintsTell
  <1> QED
    BY <1>2, CleanAlways, PTL

-------------------------------------------------------------------------------
(* Components reused by their signatures *)

\* A snapshot has a component for every entry, with its stamp and its digest.
Follows(s, f) ==
    s.rev > 0 =>
       /\ DOMAIN s.logs = DOMAIN f
       /\ \A p \in DOMAIN f : s.logs[p].sig.stamp = f[p].stamp /\ s.logs[p].sig.digest = f[p].fp

FollowInv ==
    /\ Follows(snapshot, files) /\ Follows(db.snapshot, files)
    /\ pc = "commit" => built.rev > 0 /\ Follows(built, next)

LEMMA FollowInit == ASSUME Init PROVE FollowInv
  <1>1. snapshot = NoSnapshot /\ db.snapshot = NoSnapshot /\ pc = "idle"
    BY DEF Init
  <1> QED
    BY <1>1 DEF FollowInv, Follows, NoSnapshot

LEMMA FollowStep ==
  ASSUME TypeInv, FollowInv, [Next]_vars
  PROVE  FollowInv'
  <1>0. IndexType /\ PassType
    BY DEF TypeInv
  <1>1. CASE Normalize
    <2>1. /\ pc' = "commit" /\ UNCHANGED <<files, snapshot, db, next>>
          /\ components' = [p \in DOMAIN next |-> ComponentOf(p)]
          /\ \/ snapshot.rev # 0 /\ built' = snapshot /\ components' = snapshot.logs
             \/ built' = [rev |-> NextRevision, logs |-> components']
      BY <1>1 DEF Normalize
    <2>2. built'.logs = components' /\ built'.rev \in Nat /\ built'.rev > 0
      <3>1. NextRevision \in Nat /\ NextRevision > 0
        BY <1>0 DEF NextRevision, IndexType, IsSnapshot
      <3> QED
        BY <1>0, <2>1, <3>1 DEF IndexType, IsSnapshot
    <2>3. ASSUME NEW p \in DOMAIN next
          PROVE  /\ built'.logs[p].sig.stamp = next[p].stamp
                 /\ built'.logs[p].sig.digest = next[p].fp
      <3>1. built'.logs[p] = ComponentOf(p)
        BY <2>1, <2>2
      <3>2. ComponentOf(p).sig = Signature(next[p])
        BY DEF ComponentOf
      <3> QED
        BY <3>1, <3>2 DEF Signature
    <2> QED
      BY <2>1, <2>2, <2>3 DEF FollowInv, Follows
  <1>2. CASE Commit
    <2>1. /\ pc = "commit" /\ pc' = "idle" /\ files' = next /\ snapshot' = built
          /\ db'.snapshot = built
      BY <1>2 DEF Commit
    <2> QED
      BY <2>1 DEF FollowInv
  <1>3. CASE Reopen
    <2>1. /\ pc' = "idle" /\ files' = files /\ UNCHANGED db
          /\ snapshot' = db.snapshot \/ snapshot' = NoSnapshot
      BY <1>0, <1>3 DEF Reopen, IndexType
    <2> QED
      BY <2>1 DEF FollowInv, Follows, NoSnapshot
  <1>4. CASE \/ List \/ (\E audit \in BOOLEAN : Check(audit)) \/ Decide \/ Read \/ Confirm
             \/ Changed \/ Mark \/ Unreadable \/ Fail \/ ForceRefresh \/ Record
             \/ (\E p \in Paths : Invalidate(p) \/ Write(p)) \/ UNCHANGED vars
    <2>1. /\ UNCHANGED <<files, snapshot, db>>
          /\ pc' = "commit" => pc = "commit" /\ UNCHANGED <<built, next>>
      <3>1. CASE List \/ (\E audit \in BOOLEAN : Check(audit)) \/ Decide \/ Read \/ Confirm
        BY <3>1 DEF List, Check, Decide, Read, Confirm
      <3>2. CASE Changed \/ Mark \/ Unreadable \/ Fail \/ ForceRefresh
        BY <3>2 DEF Changed, Mark, Unreadable, Fail, ForceRefresh
      <3>3. CASE Record \/ (\E p \in Paths : Invalidate(p)) \/ UNCHANGED vars
        BY <3>3 DEF Record, Invalidate, vars, passVars, indexVars
      <3>4. ASSUME NEW p \in Paths, Write(p)
            PROVE  UNCHANGED <<files, snapshot, db, pc, built, next>>
        <4>1. PICK log : Written(p, log)
          BY <3>4, WriteShape DEF TypeInv
        <4> QED
          BY <4>1 DEF Written, Put, indexVars
      <3> QED
        BY <1>4, <3>1, <3>2, <3>3, <3>4
    <2> QED
      BY <2>1 DEF FollowInv
  <1> QED
    BY <1>1, <1>2, <1>3, <1>4 DEF Next, Step

\* Two contents with one fingerprint and one length are one.
LEMMA CleanShown ==
  ASSUME NEW e, GoodEntry(e), CleanEntry(e), NEW c, CleanComponent(c), c.shows \in Parse,
         c.sig.stamp = e.stamp, c.sig.digest = e.fp, ~c.shows.mixed, ~e.parsed.mixed
  PROVE  c.shows.data = e.parsed.data
  <1>1. c.shows.data \in Data /\ e.parsed.data \in Data
    BY DEF GoodEntry, Entry, Parse
  <1>2. /\ Len(c.shows.data) = Len(e.parsed.data)
        /\ Fingerprint(c.shows.data) = Fingerprint(e.parsed.data)
    BY DEF CleanEntry, CleanComponent
  <1> QED
    BY <1>1, <1>2, FingerprintOfOne

\* The snapshot shows what was parsed, although Normalize reuses a component by its
\* signature and not by its content, from passes whose commit failed as well as from
\* committed ones.
THEOREM SnapshotCorrect == Spec => []SnapshotShowsParsed
  <1>1. TypeInv /\ CleanInv /\ FollowInv /\ [Next]_vars => (TypeInv /\ CleanInv /\ FollowInv)'
    BY TypeStep, CleanStep, FollowStep
  <1>2. ASSUME TypeInv, CleanInv, FollowInv
        PROVE  SnapshotShowsParsed
    <2>1. SUFFICES ASSUME snapshot.rev > 0
                   PROVE  /\ DOMAIN snapshot.logs = DOMAIN files
                          /\ \A p \in DOMAIN files :
                                \/ snapshot.logs[p].shows.data = files[p].parsed.data
                                \/ snapshot.logs[p].shows.mixed \/ files[p].parsed.mixed
      BY DEF SnapshotShowsParsed
    <2>2. /\ DOMAIN snapshot.logs = DOMAIN files
          /\ \A p \in DOMAIN files : /\ snapshot.logs[p].sig.stamp = files[p].stamp
                                     /\ snapshot.logs[p].sig.digest = files[p].fp
      BY <1>2, <2>1 DEF FollowInv, Follows
    <2>3. ASSUME NEW p \in DOMAIN files,
                 ~snapshot.logs[p].shows.mixed, ~files[p].parsed.mixed
          PROVE  snapshot.logs[p].shows.data = files[p].parsed.data
      <3>1. /\ GoodEntry(files[p]) /\ CleanEntry(files[p])
            /\ CleanComponent(snapshot.logs[p]) /\ snapshot.logs[p].shows \in Parse
        BY <1>2, <2>2 DEF TypeInv, IndexType, GoodFiles, IsSnapshot, IsComponents, CleanInv,
           CleanFiles, CleanComponents
      <3> QED
        BY <2>2, <2>3, <3>1, CleanShown
    <2> QED
      BY <2>2, <2>3
  <1> QED
    BY TypeInit, CleanInit, FollowInit, <1>1, <1>2, PTL DEF Spec

-------------------------------------------------------------------------------
(* Full validation on demand *)

\* The log was long enough for the entry and had its fingerprint, at some time since
\* the refresh was asked for.
Validates(e, p) ==
    \E d \in since[p] : /\ d \in Data /\ e.stamp.size <= Len(d)
                        /\ Fingerprint(Take(d, e.stamp.size)) = e.fp

\* While a refresh is asked for no pass finds the evidence unchanged, no parse is
\* continued, and every entry of a pass is one the log had the fingerprint of.
ForceInv ==
    /\ DOMAIN since = Paths /\ \A p \in Paths : disk[p].data \in since[p]
    /\ force => auxiliary = 0
    /\ force /\ Reads => ~appends
    /\ force /\ Planned => \A p \in DOMAIN next : Validates(next[p], p)

ForceDone ==
    force /\ ~force' /\ faults' = faults =>
       \A p \in Paths : ShownRecently(snapshot', p) \/ Shown(snapshot', p).mixed

LEMMA ForceInit == ASSUME Init PROVE ForceInv
  <1>1. /\ pc = "idle" /\ ~force /\ DOMAIN since = Paths
        /\ \A p \in Paths : disk[p].data \in since[p]
    BY DEF Init
  <1> QED
    BY <1>1 DEF ForceInv, Planned, Reads

LEMMA ForceCheck ==
  ASSUME TypeInv, ForceInv, NEW audit \in BOOLEAN, Check(audit)
  PROVE  ForceInv' /\ ForceDone
  <1>0. WorldType /\ IndexType /\ PassType
    BY DEF TypeInv
  <1> DEFINE bad == {p \in Validated : Mismatch(p)} \cup {p \in AuditSet : audit /\ AuditMismatch(p)}
  <1>1. /\ pc = "check" /\ signature' = evidence
        /\ \A p \in Validated : Readable(p)
        /\ UNCHANGED <<disk, since, files, auxiliary>>
        /\ \/ pc' = "idle" /\ signature' = auxiliary
           \/ /\ pc' = "next" /\ UNCHANGED force
              /\ next' = [p \in Known \ bad |-> files[p]]
    BY DEF Check
  <1>2. CASE pc' = "idle" /\ signature' = auxiliary
    <2>1. ~force
      BY <1>0, <1>1, <1>2 DEF ForceInv, WorldType
    <2>2. force' = force \/ force' = FALSE
      BY DEF Check
    <2>3. ~force'
      BY <2>1, <2>2, Zenon
    <2> QED
      BY <1>1, <1>2, <2>1, <2>3 DEF ForceInv, ForceDone, Planned, Reads
  <1>3. CASE /\ pc' = "next" /\ UNCHANGED force
             /\ next' = [p \in Known \ bad |-> files[p]]
    <2>1. ASSUME force, NEW p \in DOMAIN next'
          PROVE  Validates(next'[p], p)
      <3>1. p \in Known /\ p \notin bad /\ next'[p] = files[p]
        BY <1>3, <2>1
      <3>2. ~Mismatch(p) /\ Readable(p)
        BY <1>1, <2>1, <3>1 DEF Validated
      <3>3. /\ p \in Paths /\ files[p].stamp = inventory[p] /\ inventory[p].size \in Nat
        BY <1>0, <3>1 DEF Known, IndexType, GoodFiles, PassType, Stamp
      <3>4. disk[p].data \in Data /\ disk[p].data \in since[p]
        BY <1>0, <3>3 DEF WorldType, Log, ForceInv
      <3>5. inventory[p].size <= Len(disk[p].data)
        BY <3>2, <3>3, <3>4 DEF Readable, HasBlocks, Data
      <3> QED
        BY <3>1, <3>2, <3>3, <3>4, <3>5 DEF Mismatch, Validates
    <2> QED
      BY <1>1, <1>3, <2>1 DEF ForceInv, ForceDone, Planned, Reads, Validates
  <1> QED
    BY <1>1, <1>2, <1>3

LEMMA ForceMark ==
  ASSUME TypeInv, ForceInv, Mark
  PROVE  ForceInv' /\ ForceDone
  <1>0. WorldType /\ IndexType /\ PassType
    BY DEF TypeInv
  <1>1. /\ pc = "mark" /\ pc' = "next" /\ Readable(Current)
        /\ UNCHANGED <<disk, since, auxiliary, force>>
    BY DEF Mark
  <1>2. PICK entry :
           /\ entry.stamp = inventory[Current]
           /\ ~appends =>
                 entry.fp = Fingerprint(Take(disk[Current].data, inventory[Current].size))
           /\ next' = [q \in DOMAIN next \cup {Current} |-> IF q = Current THEN entry ELSE next[q]]
    BY <1>0, MarkedEntry
  <1>3. ASSUME force
        PROVE  Validates(entry, Current)
    <2>1. ~appends
      BY <1>1, <1>3 DEF ForceInv, Reads
    <2>2. /\ Current \in Paths /\ inventory[Current].size \in Nat
          /\ disk[Current].data \in Data /\ Len(disk[Current].data) \in Nat
      BY <1>1, CurrentTypes DEF Reads
    <2>3. /\ disk[Current].data \in since[Current]
          /\ inventory[Current].size <= Len(disk[Current].data)
      BY <1>1, <2>2 DEF ForceInv, Readable, HasBlocks
    <2> QED
      BY <1>2, <2>1, <2>2, <2>3 DEF Validates
  <1>4. ASSUME force, NEW q \in DOMAIN next'
        PROVE  Validates(next'[q], q)
    <2>1. CASE q = Current
      BY <1>2, <1>3, <1>4, <2>1
    <2>2. CASE q # Current
      BY <1>1, <1>2, <1>4, <2>2 DEF ForceInv, Planned
    <2> QED
      BY <2>1, <2>2
  <1> QED
    BY <1>1, <1>4 DEF ForceInv, ForceDone, Planned, Reads, Validates

\* The pass that ends a refresh shows nothing but what is recent, whichever pass
\* normalised it.
LEMMA ForceCommit ==
  ASSUME TypeInv, CleanInv, FollowInv, ForceInv, Commit
  PROVE  ForceInv' /\ ForceDone
  <1>0. WorldType /\ PassType
    BY DEF TypeInv
  <1>1. /\ pc = "commit" /\ pc' = "idle" /\ snapshot' = built /\ ~force'
        /\ UNCHANGED <<disk, since>>
    BY DEF Commit
  <1>2. /\ DOMAIN built.logs = DOMAIN next
        /\ \A p \in DOMAIN next : /\ built.logs[p].sig.stamp = next[p].stamp
                                  /\ built.logs[p].sig.digest = next[p].fp
                                  /\ CleanComponent(built.logs[p])
                                  /\ built.logs[p].shows \in Parse
                                  /\ next[p].stamp.size \in Nat
    BY <1>0, <1>1 DEF FollowInv, Follows, CleanInv, CleanComponents, PassType, IsSnapshot,
       IsComponents, Planned, GoodFiles, GoodEntry, Entry, Stamp
  <1>3. ASSUME force, NEW p \in Paths, ~Shown(built, p).mixed
        PROVE  ShownRecently(built, p)
    <2>1. CASE p \in DOMAIN next
      <3>1. PICK d \in since[p] : /\ d \in Data /\ next[p].stamp.size <= Len(d)
                                  /\ Fingerprint(Take(d, next[p].stamp.size)) = next[p].fp
        BY <1>1, <1>3, <2>1 DEF ForceInv, Planned, Validates
      <3>2. Shown(built, p) = built.logs[p].shows
        BY <1>2, <2>1 DEF Shown
      <3>3. /\ next[p].fp = Fingerprint(Shown(built, p).data)
            /\ Len(Shown(built, p).data) = next[p].stamp.size
            /\ Shown(built, p).data \in Data
        BY <1>2, <1>3, <2>1, <3>2 DEF CleanComponent, Parse
      <3>4. IsPrefix(Shown(built, p).data, d)
        BY <1>2, <2>1, <3>1, <3>3, MatchShows
      <3> QED
        BY <3>4 DEF ShownRecently
    <2>2. CASE p \notin DOMAIN next
      <3>1. Shown(built, p).data = <<>>
        BY <1>2, <2>2 DEF Shown, NoParse
      <3>2. disk[p].data \in Data /\ disk[p].data \in since[p]
        BY <1>0 DEF WorldType, Log, ForceInv
      <3> QED
        BY <3>1, <3>2, EmptyPrefix DEF ShownRecently
    <2> QED
      BY <2>1, <2>2
  <1> QED
    BY <1>1, <1>3 DEF ForceInv, ForceDone, Planned, Reads, ShownRecently

LEMMA ForceStep ==
  ASSUME TypeInv, CleanInv, FollowInv, ForceInv, [Next]_vars
  PROVE  ForceInv' /\ ForceDone
  <1>0. WorldType /\ IndexType /\ PassType
    BY DEF TypeInv
  <1>1. ASSUME NEW p \in Paths, Write(p)
        PROVE  ForceInv' /\ ForceDone
    <2>1. PICK log : Written(p, log)
      BY <1>0, <1>1, WriteShape
    <2>2. /\ \A q \in Paths : disk'[q] = IF q = p THEN log ELSE disk[q]
          /\ DOMAIN since' = Paths /\ \A q \in Paths : since[q] \subseteq since'[q]
          /\ log.data \in since'[p]
          /\ UNCHANGED <<force, auxiliary, pc, next, appends>>
      BY <1>0, <2>1 DEF Written, Put, WorldType, ForceInv
    <2>3. \A q \in Paths : disk'[q].data \in since'[q]
      BY <2>2 DEF ForceInv
    <2>4. ASSUME force, Planned, NEW q \in DOMAIN next
          PROVE  Validates(next[q], q)'
      <3>1. q \in Paths /\ Validates(next[q], q)
        BY <1>0, <2>4 DEF PassType, GoodFiles, ForceInv
      <3> QED
        BY <2>2, <3>1 DEF Validates
    <2> QED
      BY <2>2, <2>3, <2>4 DEF ForceInv, ForceDone, Planned, Reads
  <1>2. CASE Mark \/ Commit \/ \E audit \in BOOLEAN : Check(audit)
    BY <1>2, ForceMark, ForceCommit, ForceCheck
  <1>3. CASE Decide
    <2>1. /\ pc = "next" /\ pc' = "read" /\ appends' = MayAppend(Current)
          /\ UNCHANGED <<disk, since, auxiliary, force, next>>
      BY <1>3 DEF Decide
    <2>2. force => ~appends'
      BY <2>1 DEF MayAppend
    <2> QED
      BY <2>1, <2>2 DEF ForceInv, ForceDone, Planned, Reads, Validates
  <1>4. CASE Read \/ Confirm \/ Normalize \/ Record \/ UNCHANGED vars
    <2>1. /\ UNCHANGED <<disk, since, auxiliary, force, next, appends>>
          /\ \/ UNCHANGED pc
             \/ pc \in {"read", "after"} /\ pc' \in {"read", "after", "mark"}
             \/ pc = "next" /\ pc' = "commit"
      BY <1>4 DEF Read, Confirm, Normalize, Record, vars
    <2> QED
      BY <2>1 DEF ForceInv, ForceDone, Planned, Reads, Validates
  <1>5. CASE List \/ Changed \/ Unreadable \/ Fail \/ \E p \in Paths : Invalidate(p)
    <2>1. pc' \in {"idle", "check"} /\ UNCHANGED <<disk, since, auxiliary, force>>
      BY <1>5 DEF List, Changed, Unreadable, Fail, Invalidate
    <2> QED
      BY <2>1 DEF ForceInv, ForceDone, Planned, Reads
  <1>6. CASE Reopen
    <2>1. pc' = "idle" /\ ~force' /\ faults' # faults /\ UNCHANGED <<disk, since>>
      BY <1>0, <1>6 DEF Reopen, WorldType
    <2> QED
      BY <2>1 DEF ForceInv, ForceDone, Planned, Reads
  <1>7. CASE ForceRefresh
    <2>1. /\ pc = "idle" /\ pc' = "idle" /\ auxiliary' = 0 /\ force' /\ UNCHANGED disk
          /\ DOMAIN since' = Paths /\ \A p \in Paths : disk[p].data \in since'[p]
      BY <1>7 DEF ForceRefresh
    <2> QED
      BY <2>1 DEF ForceInv, ForceDone, Planned, Reads
  <1> QED
    BY <1>1, <1>2, <1>3, <1>4, <1>5, <1>6, <1>7 DEF Next, Step

\* When an explicit refresh is done, what is shown of every log is what the log
\* began with at some time since it was asked for, unless it changed under its parse
\* and no stamp could tell: the stamps, the caches and the chunks kept from earlier
\* passes are not trusted.
THEOREM RefreshExact == Spec => ForceExact
  <1>1. Init => TypeInv /\ CleanInv /\ FollowInv /\ ForceInv
    BY TypeInit, CleanInit, FollowInit, ForceInit
  <1>2. TypeInv /\ CleanInv /\ FollowInv /\ ForceInv /\ [Next]_vars
        => /\ (TypeInv /\ CleanInv /\ FollowInv /\ ForceInv)'
           /\ [ForceDone]_vars
    BY TypeStep, CleanStep, FollowStep, ForceStep
  <1> QED
    BY <1>1, <1>2, PTL DEF Spec, ForceExact, ForceDone
===============================================================================
