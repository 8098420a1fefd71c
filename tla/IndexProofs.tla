----------------------------- MODULE IndexProofs -----------------------------
(***************************************************************************)
(* Proofs about the local index, for any logs, any writers and any number  *)
(* of failures: what the operators on a log's blocks return, that every    *)
(* variable keeps its type, and what revisions name.                       *)
(***************************************************************************)
EXTENDS IndexRefresh, TLAPS

USE DEF diskVars, indexVars, hintVars, passVars

-------------------------------------------------------------------------------
(* Chunks *)

LEMMA Distribute == ASSUME NEW i \in Int, NEW c \in Int PROVE (i - 1) * c + c = i * c
  OBVIOUS

LEMMA Product == ASSUME NEW a \in Nat, NEW b \in Nat PROVE a * b \in Nat
  OBVIOUS

LEMMA Cancel == ASSUME NEW a \in Int, NEW b \in Int, NEW c \in Nat \ {0}, a * c < b * c
                PROVE  a < b
  OBVIOUS

LEMMA Scale == ASSUME NEW a \in Int, NEW b \in Int, NEW c \in Nat, a <= b
               PROVE  a * c <= b * c
  OBVIOUS

\* The chunks cover a log and no more.
LEMMA ChunksCover ==
  ASSUME NEW n \in Nat
  PROVE  /\ Chunks(n) \in Nat
         /\ n <= Chunks(n) * Chunk /\ Chunks(n) * Chunk < n + Chunk
         /\ n = 0 <=> Chunks(n) = 0
  BY IndexAssumption DEF Chunks

\* The complete chunks are all chunks but perhaps the last.
LEMMA Complete ==
  ASSUME NEW n \in Nat
  PROVE  /\ n \div Chunk \in Nat /\ (n \div Chunk) * Chunk <= n
         /\ n \div Chunk <= Chunks(n) /\ Chunks(n) <= n \div Chunk + 1
  <1> DEFINE whole == n \div Chunk
             all == Chunks(n)
  <1>1. whole \in Nat /\ whole * Chunk <= n /\ n < whole * Chunk + Chunk
    BY IndexAssumption
  <1>2. all \in Nat /\ n <= all * Chunk /\ all * Chunk < n + Chunk /\ Chunk \in Nat \ {0}
    BY ChunksCover, IndexAssumption
  <1> HIDE DEF whole, all
  <1>3. /\ whole * Chunk + Chunk = (whole + 1) * Chunk
        /\ (whole + 1) * Chunk + Chunk = (whole + 2) * Chunk
        /\ all * Chunk + Chunk = (all + 1) * Chunk
    <2>1. ASSUME NEW a \in Nat PROVE a * Chunk + Chunk = (a + 1) * Chunk
      BY <1>2
    <2> QED
      BY <1>1, <1>2, <2>1
  <1>4. whole < all + 1
    <2>1. whole * Chunk < (all + 1) * Chunk
      BY <1>1, <1>2, <1>3
    <2> QED
      BY <1>1, <1>2, <2>1, Cancel
  <1>5. all < whole + 2
    <2>1. all * Chunk < (whole + 2) * Chunk
      BY <1>1, <1>2, <1>3
    <2> QED
      BY <1>1, <1>2, <2>1, Cancel
  <1> QED
    BY <1>1, <1>2, <1>4, <1>5 DEF whole, all

\* Every block is in a chunk.
LEMMA InChunk ==
  ASSUME NEW n \in Nat, NEW j \in 1..n
  PROVE  \E i \in 1..Chunks(n) : (i - 1) * Chunk < j /\ j <= i * Chunk
  <1> DEFINE i == (j - 1) \div Chunk + 1
  <1>1. i \in Nat \ {0} /\ (i - 1) * Chunk <= j - 1 /\ j - 1 < (i - 1) * Chunk + Chunk
    BY IndexAssumption
  <1>2. Chunks(n) \in Nat /\ Chunk \in Nat \ {0}
    BY ChunksCover, IndexAssumption
  <1> HIDE DEF i
  <1>3. (i - 1) * Chunk + Chunk = i * Chunk
    BY <1>1, <1>2, Distribute
  <1>4. (i - 1) * Chunk < Chunks(n) * Chunk
    BY <1>1, <1>2, ChunksCover
  <1>5. i - 1 < Chunks(n)
    BY <1>1, <1>2, <1>4, Cancel
  <1>6. (i - 1) * Chunk < j /\ j <= i * Chunk
    BY <1>1, <1>2, <1>3
  <1> QED
    BY <1>1, <1>2, <1>5, <1>6

LEMMA ChunkType ==
  ASSUME NEW data \in Data, NEW i \in 1..Chunks(Len(data))
  PROVE  /\ ChunkOf(data, i) \in Data
         /\ (i - 1) * Chunk \in Nat /\ (i - 1) * Chunk < Len(data)
         /\ \A j \in (i - 1) * Chunk + 1..Least(i * Chunk, Len(data)) :
               /\ j - (i - 1) * Chunk \in DOMAIN ChunkOf(data, i)
               /\ ChunkOf(data, i)[j - (i - 1) * Chunk] = data[j]
  <1> DEFINE low == (i - 1) * Chunk
  <1>0. /\ Len(data) \in Nat /\ Chunk \in Nat \ {0}
        /\ Chunks(Len(data)) \in Nat /\ i \in Nat \ {0} /\ i - 1 \in Nat
    <2>1. Len(data) \in Nat
      BY DEF Data
    <2>2. Chunks(Len(data)) \in Nat
      BY <2>1, ChunksCover
    <2> QED
      BY <2>1, <2>2, IndexAssumption
  <1>1. low \in Nat /\ i * Chunk = low + Chunk
    <2>1. (i - 1) * Chunk + Chunk = i * Chunk
      BY <1>0, Distribute
    <2>2. (i - 1) * Chunk \in Nat
      BY <1>0, Product
    <2> QED
      BY <2>1, <2>2
  <1>2. low < Len(data)
    <2>1. i * Chunk <= Chunks(Len(data)) * Chunk
      BY <1>0, Scale
    <2>2. Chunks(Len(data)) * Chunk < Len(data) + Chunk
      BY <1>0, ChunksCover
    <2> QED
      BY <1>0, <1>1, <2>1, <2>2
  <1>3. Least(i * Chunk, Len(data)) \in low + 1..Len(data)
    BY <1>0, <1>1, <1>2 DEF Least
  <1> HIDE DEF low
  <1>4. ChunkOf(data, i) = SubSeq(data, low + 1, Least(i * Chunk, Len(data)))
    BY DEF ChunkOf, low
  <1>5. ChunkOf(data, i) \in Data
    BY <1>0, <1>1, <1>3, <1>4 DEF Data
  <1>6. ASSUME NEW j \in low + 1..Least(i * Chunk, Len(data))
        PROVE  j - low \in DOMAIN ChunkOf(data, i) /\ ChunkOf(data, i)[j - low] = data[j]
    BY <1>0, <1>1, <1>3, <1>4 DEF Data
  <1> QED
    BY <1>1, <1>2, <1>5, <1>6 DEF low

LEMMA FingerprintType ==
  ASSUME NEW data \in Data
  PROVE  /\ Fingerprint(data) \in Seq(Data)
         /\ Len(Fingerprint(data)) = Chunks(Len(data))
         /\ \A i \in 1..Chunks(Len(data)) : Fingerprint(data)[i] = ChunkOf(data, i)
  <1>1. Len(data) \in Nat /\ Chunks(Len(data)) \in Nat
    BY ChunksCover DEF Data
  <1>2. \A i \in 1..Chunks(Len(data)) : ChunkOf(data, i) \in Data
    BY ChunkType
  <1> QED
    BY <1>1, <1>2 DEF Fingerprint

LEMMA TakeType ==
  ASSUME NEW data \in Data, NEW n \in Nat
  PROVE  /\ Take(data, n) \in Data
         /\ Len(Take(data, n)) = Least(n, Len(data))
         /\ \A j \in 1..Least(n, Len(data)) : Take(data, n)[j] = data[j]
  BY DEF Take, Least, Data

LEMMA GrownType ==
  ASSUME NEW old \in Seq(Data), NEW size \in Nat, Len(old) = Chunks(size),
         NEW data \in Data
  PROVE  /\ GrownFingerprint(old, size, data) \in Seq(Data)
         /\ Len(GrownFingerprint(old, size, data)) = Chunks(Len(data))
  <1>1. Len(data) \in Nat /\ Chunks(Len(data)) \in Nat
    BY ChunksCover DEF Data
  <1>2. \A i \in 1..Chunks(Len(data)) : i <= size \div Chunk => old[i] \in Data
    <2>1. size \div Chunk \in Nat /\ size \div Chunk <= Len(old)
      BY Complete
    <2>2. \A i \in 1..Len(old) : old[i] \in Data
      OBVIOUS
    <2> QED
      BY <1>1, <2>1, <2>2
  <1>3. \A i \in 1..Chunks(Len(data)) : ChunkOf(data, i) \in Data
    BY ChunkType
  <1>4. /\ GrownFingerprint(old, size, data) \in [1..Chunks(Len(data)) -> Data]
    BY <1>1, <1>2, <1>3 DEF GrownFingerprint
  <1> QED
    BY <1>1, <1>4

LEMMA MarkersType ==
  ASSUME NEW data \in Data, NEW n \in Nat, n <= Len(data)
  PROVE  Markers(data, n) \in [prefix : Data, tail : Data, safe : BOOLEAN]
  <1>1. Least(n, Marker) \in 0..n
    BY IndexAssumption DEF Least
  <1>2. /\ SubSeq(data, 1, Least(n, Marker)) \in Data
        /\ SubSeq(data, n - Least(n, Marker) + 1, n) \in Data
    BY <1>1 DEF Data
  <1>3. (n = 0 \/ data[n].ends) \in BOOLEAN
    OBVIOUS
  <1> QED
    BY <1>2, <1>3 DEF Markers

-------------------------------------------------------------------------------
(* Types *)

Planned == pc \in {"next", "read", "after", "mark", "commit"}
Reads   == pc \in {"read", "after", "mark"}

\* An entry has the chunks of all that was listed, and parsed no more of it.
GoodEntry(e) ==
    /\ e \in Entry
    /\ Len(e.fp) = Chunks(e.stamp.size)
    /\ Len(e.parsed.data) <= e.stamp.size
GoodFiles(f) == DOMAIN f \subseteq Paths /\ \A p \in DOMAIN f : GoodEntry(f[p])

\* The parse of a log continues the cached one.
Continues(p) ==
    /\ p \in DOMAIN files /\ todo[p] /\ SameIdentity(files[p].stamp, inventory[p])
    /\ inventory[p].size > files[p].stamp.size

\* The types of what the writers and the callers change.
WorldType ==
    /\ disk \in [Paths -> Log] /\ evidence \in Nat \ {0}
    /\ edits \in 0..MaxEdits /\ forces \in 0..MaxForces /\ faults \in 0..MaxFaults
    /\ dirty \subseteq Paths /\ force \in BOOLEAN
    /\ metadata \in [Paths -> Stamp] /\ cursor \in [Paths -> Nat]

\* The types of the index and the database.
IndexType ==
    /\ GoodFiles(files) /\ IsSnapshot(snapshot) /\ auxiliary \in 0..evidence
    /\ db.files = files /\ IsSnapshot(db.snapshot) /\ db.auxiliary \in 0..evidence
    /\ IsComponents(components)

\* The types of the locals of a pass, and how they hang together.
PassType ==
    /\ pc \in {"idle", "check", "next", "read", "after", "mark", "commit"}
    /\ DOMAIN inventory \subseteq Paths
    /\ \A p \in DOMAIN inventory : inventory[p] \in Stamp
    /\ signature \in 0..evidence
    /\ appends \in BOOLEAN /\ touched \in BOOLEAN /\ parsed \in Parse /\ IsSnapshot(built)
    /\ Planned => GoodFiles(next)
    /\ pc = "commit" => DOMAIN next = DOMAIN inventory
    /\ Planned /\ pc # "commit" =>
          /\ todo \in [DOMAIN todo -> BOOLEAN]
          /\ DOMAIN todo \cup DOMAIN next = DOMAIN inventory
    /\ Reads => todo # <<>>
    /\ Reads => Len(parsed.data) <= inventory[Current].size
    /\ Reads /\ appends => Continues(Current)

TypeInv == WorldType /\ IndexType /\ PassType

LEMMA TypeInvImplies == ASSUME TypeInv PROVE TypeOK
  <1>1. \A f : GoodFiles(f) => IsFiles(f)
    BY DEF GoodFiles, GoodEntry, IsFiles
  <1> QED
    BY <1>1 DEF TypeInv, WorldType, IndexType, PassType, TypeOK, Planned, Reads

LEMMA TypeInit == ASSUME Init PROVE TypeInv
  <1>1. WorldType
    <2>1. \A p \in Paths : disk[p] \in Log
      BY IndexAssumption DEF Init, Log, Data, Block
    <2>2. StampOf(NoLog) \in Stamp
      BY DEF StampOf, NoLog, Stamp
    <2>3. disk \in [Paths -> Log]
      BY <2>1 DEF Init
    <2>4. metadata \in [Paths -> Stamp] /\ cursor \in [Paths -> Nat]
      BY <2>2 DEF Init
    <2>5. edits \in 0..MaxEdits /\ forces \in 0..MaxForces /\ faults \in 0..MaxFaults
      BY IndexAssumption DEF Init
    <2>6. evidence \in Nat \ {0} /\ dirty \subseteq Paths
      BY DEF Init
    <2>7. force \in BOOLEAN
      BY Zenon DEF Init
    <2> QED
      BY <2>3, <2>4, <2>5, <2>6, <2>7 DEF WorldType
  <1>2. IndexType
    BY DEF Init, IndexType, GoodFiles, IsSnapshot, IsComponents, NoSnapshot
  <1>3. PassType
    <2>1. NoParse \in Parse /\ IsSnapshot(NoSnapshot)
      BY DEF Parse, NoParse, Data, IsSnapshot, IsComponents, NoSnapshot
    <2>2. appends \in BOOLEAN /\ touched \in BOOLEAN
      BY Zenon DEF Init
    <2> QED
      BY <2>1, <2>2 DEF Init, PassType, Planned, Reads
  <1> QED
    BY <1>1, <1>2, <1>3 DEF TypeInv

LEMMA EmptyFunction == ASSUME NEW S, NEW T, NEW f \in [S -> T], f # <<>> PROVE S # {}
  OBVIOUS

\* What is parsed next was listed.
LEMMA CurrentListed ==
  ASSUME PassType, Planned, pc # "commit", todo # <<>>
  PROVE  /\ Current \in DOMAIN todo /\ Current \in DOMAIN inventory
         /\ Current \in Paths /\ inventory[Current] \in Stamp
  <1>1. DOMAIN todo # {}
    BY EmptyFunction DEF PassType
  <1>2. Current \in DOMAIN todo
    BY <1>1 DEF Current
  <1> QED
    BY <1>2 DEF PassType

LEMMA StampTypes ==
  /\ StampOf(NoLog) \in Stamp
  /\ \A log \in Log : StampOf(log) \in Stamp
  BY DEF StampOf, NoLog, Stamp, Log, Data

\* A component, taken from the cache or new.
LEMMA ComponentType ==
  ASSUME IsComponents(components), GoodFiles(next), NEW p \in DOMAIN next
  PROVE  /\ ComponentOf(p).shows \in Parse
         /\ ComponentOf(p).sig = Signature(next[p]) /\ ComponentOf(p).sig.stamp \in Stamp
  <1>1. next[p].parsed \in Parse /\ next[p].stamp \in Stamp
    BY DEF GoodFiles, GoodEntry, Entry
  <1>2. Signature(next[p]).stamp = next[p].stamp
    BY DEF Signature
  <1> QED
    BY <1>1, <1>2 DEF ComponentOf, IsComponents

\* Requests, failures and restarts.
LEMMA TypeRequests ==
  ASSUME TypeInv,
         (\E p \in Paths : Invalidate(p)) \/ ForceRefresh \/ Fail \/ Reopen \/ Record
  PROVE  TypeInv'
  <1>0. WorldType /\ IndexType /\ PassType /\ StampOf(NoLog) \in Stamp
    BY StampTypes DEF TypeInv
  <1>1. ASSUME NEW p \in Paths, Invalidate(p) PROVE TypeInv'
    <2>1. WorldType'
      BY <1>0, <1>1, IndexAssumption DEF Invalidate, WorldType
    <2>2. IndexType'
      BY <1>0, <1>1 DEF Invalidate, IndexType
    <2>3. PassType'
      BY <1>0, <1>1 DEF Invalidate, PassType, Planned, Reads
    <2> QED
      BY <2>1, <2>2, <2>3 DEF TypeInv
  <1>2. CASE ForceRefresh
    <2>1. WorldType'
      BY <1>0, <1>2, IndexAssumption DEF ForceRefresh, WorldType
    <2>2. IndexType'
      BY <1>0, <1>2 DEF ForceRefresh, IndexType, WorldType
    <2>3. PassType'
      BY <1>0, <1>2 DEF ForceRefresh, PassType, Planned, Reads
    <2> QED
      BY <2>1, <2>2, <2>3 DEF TypeInv
  <1>3. CASE Fail
    <2>1. WorldType'
      BY <1>0, <1>3, IndexAssumption DEF Fail, WorldType
    <2>2. IndexType'
      <3>1. PICK done \in SUBSET (IF pc = "next" /\ todo = <<>> THEN DOMAIN next ELSE {}) :
               components' = [p \in DOMAIN components \cup done |->
                                IF p \in done THEN ComponentOf(p) ELSE components[p]]
        BY <1>3 DEF Fail
      <3>2. done # {} => GoodFiles(next) /\ done \subseteq DOMAIN next
        BY <1>0, <3>1 DEF PassType, Planned
      <3>3. \A p \in done : /\ p \in Paths /\ ComponentOf(p).shows \in Parse
                            /\ ComponentOf(p).sig.stamp \in Stamp
        BY <1>0, <3>2, ComponentType DEF IndexType, GoodFiles
      <3>4. IsComponents(components)'
        BY <1>0, <3>1, <3>3 DEF IndexType, IsComponents
      <3>5. UNCHANGED <<indexVars, db, evidence>>
        BY <1>3 DEF Fail
      <3> QED
        BY <1>0, <3>4, <3>5 DEF IndexType
    <2>3. PassType'
      BY <1>0, <1>3 DEF Fail, PassType, Planned, Reads
    <2> QED
      BY <2>1, <2>2, <2>3 DEF TypeInv
  <1>4. CASE Reopen
    <2>1. WorldType'
      <3>1. force' \in BOOLEAN
        BY <1>4, Zenon DEF Reopen
      <3>2. faults' \in 0..MaxFaults
        BY <1>0, <1>4, IndexAssumption DEF Reopen, WorldType
      <3>3. dirty' \subseteq Paths /\ metadata' \in [Paths -> Stamp] /\ cursor' \in [Paths -> Nat]
        BY <1>0, <1>4 DEF Reopen
      <3>4. UNCHANGED <<disk, evidence, edits, forces>>
        BY <1>4 DEF Reopen
      <3> QED
        BY <1>0, <3>1, <3>2, <3>3, <3>4 DEF WorldType
    <2>2. IndexType'
      <3>1. \/ snapshot' = db.snapshot /\ auxiliary' = db.auxiliary
            \/ snapshot' = NoSnapshot /\ auxiliary' = 0
        BY <1>4 DEF Reopen
      <3>2. files' = db.files /\ components' = snapshot'.logs /\ UNCHANGED <<db, evidence>>
        BY <1>4 DEF Reopen
      <3>3. IsSnapshot(NoSnapshot)
        BY DEF IsSnapshot, IsComponents, NoSnapshot
      <3>4. 0 \in 0..evidence
        BY <1>0 DEF WorldType
      <3> QED
        BY <1>0, <3>1, <3>2, <3>3, <3>4 DEF IndexType, IsSnapshot
    <2>3. PassType'
      BY <1>0, <1>4 DEF Reopen, PassType, Planned, Reads
    <2> QED
      BY <2>1, <2>2, <2>3 DEF TypeInv
  <1>5. CASE Record
    <2>1. WorldType'
      BY <1>0, <1>5, IndexAssumption DEF Record, WorldType
    <2>2. IndexType'
      BY <1>0, <1>5 DEF Record, IndexType, WorldType
    <2>3. PassType'
      BY <1>0, <1>5 DEF Record, PassType, Planned, Reads, WorldType, Current, Continues
    <2> QED
      BY <2>1, <2>2, <2>3 DEF TypeInv
  <1> QED
    BY <1>1, <1>2, <1>3, <1>4, <1>5

\* What a write makes of a log is a log.
Written(p, log) == edits < MaxEdits /\ log \in Log /\ Put(p, log)

\* What a writer makes of the blocks.
LEMMA BlockData ==
  ASSUME NEW data \in Data, NEW new \in Block
  PROVE  /\ Append(data, new) \in Data
         /\ \A i \in DOMAIN data : [data EXCEPT ![i] = new] \in Data
         /\ data # <<>> => Front(data) \in Data
         /\ \A n \in 1..2 : [i \in 1..n |-> new] \in Data
  <1>1. Append(data, new) \in Data
    BY DEF Data
  <1>2. \A i \in DOMAIN data : [data EXCEPT ![i] = new] \in Data
    BY DEF Data
  <1>3. data # <<>> => Front(data) \in Data
    BY DEF Data, Front
  <1>4. \A n \in 1..2 : [i \in 1..n |-> new] \in Data
    BY DEF Data
  <1> QED
    BY <1>1, <1>2, <1>3, <1>4

LEMMA WriteShape ==
  ASSUME WorldType, NEW p \in Paths, Write(p)
  PROVE  \E log : Written(p, log)
  <1> DEFINE new  == [id |-> edits + 1, ends |-> TRUE]
             half == [id |-> edits + 1, ends |-> FALSE]
             data == disk[p].data
             rewritten(i) == [data EXCEPT ![i] = new]
  <1>1. /\ disk[p] \in Log /\ data \in Data /\ edits \in Nat /\ edits < MaxEdits
        /\ disk[p].ino \in Nat /\ disk[p].time \in Nat
    <2>1. disk[p] \in Log /\ edits \in Nat
      BY IndexAssumption DEF WorldType
    <2>2. edits < MaxEdits
      BY DEF Write
    <2> QED
      BY <2>1, <2>2 DEF Log
  <1>2. new \in Block /\ half \in Block
    BY <1>1 DEF Block
  <1>3. \/ \E n \in {new, half} : Put(p, Edited(disk[p], edits + 1, Append(data, n)))
        \/ \E i \in DOMAIN data :
             \/ Put(p, Edited(disk[p], edits + 1, rewritten(i)))
             \/ Put(p, Edited(disk[p], edits + 1, Append(rewritten(i), new)))
             \/ Put(p, Edited(disk[p], disk[p].time, rewritten(i)))
        \/ data # <<>> /\ Put(p, Edited(disk[p], edits + 1, Front(data)))
        \/ \E n \in 1..2 : Put(p, [ino |-> edits + 1 + 1, time |-> edits + 1,
                                   data |-> [i \in 1..n |-> new]])
        \/ Put(p, NoLog)
    BY DEF Write
  <1> HIDE DEF new, half, data
  <1>4. \A time \in Nat, d \in Data : Edited(disk[p], time, d) \in Log
    BY <1>1 DEF Edited, Log
  <1>5. edits + 1 \in Nat /\ edits + 1 + 1 \in Nat
    BY <1>1
  <1>6. /\ \A n \in {new, half} : Append(data, n) \in Data
        /\ \A i \in DOMAIN data : rewritten(i) \in Data /\ Append(rewritten(i), new) \in Data
        /\ data # <<>> => Front(data) \in Data
        /\ \A n \in 1..2 : [i \in 1..n |-> new] \in Data
    BY <1>1, <1>2, BlockData
  <1>7. \A n \in 1..2 : [ino |-> edits + 1 + 1, time |-> edits + 1,
                         data |-> [i \in 1..n |-> new]] \in Log
    BY <1>5, <1>6 DEF Log
  <1>8. NoLog \in Log
    BY DEF NoLog, Log, Data
  <1>9. \E log \in Log : Put(p, log)
    <2> HIDE DEF rewritten
    <2>1. CASE \E n \in {new, half} : Put(p, Edited(disk[p], edits + 1, Append(data, n)))
      BY <1>4, <1>5, <1>6, <2>1
    <2>2. CASE \E i \in DOMAIN data :
                 \/ Put(p, Edited(disk[p], edits + 1, rewritten(i)))
                 \/ Put(p, Edited(disk[p], edits + 1, Append(rewritten(i), new)))
                 \/ Put(p, Edited(disk[p], disk[p].time, rewritten(i)))
      BY <1>1, <1>4, <1>5, <1>6, <2>2
    <2>3. CASE data # <<>> /\ Put(p, Edited(disk[p], edits + 1, Front(data)))
      BY <1>4, <1>5, <1>6, <2>3
    <2>4. CASE \E n \in 1..2 : Put(p, [ino |-> edits + 1 + 1, time |-> edits + 1,
                                       data |-> [i \in 1..n |-> new]])
      BY <1>7, <2>4
    <2> QED
      BY <1>3, <1>8, <2>1, <2>2, <2>3, <2>4 DEF rewritten
  <1> QED
    BY <1>1, <1>9 DEF Written

LEMMA TypeWrite ==
  ASSUME TypeInv, NEW p \in Paths, Write(p)
  PROVE  TypeInv'
  <1>0. WorldType /\ IndexType /\ PassType
    BY DEF TypeInv
  <1>1. PICK log : Written(p, log)
    BY <1>0, WriteShape
  <1>2. WorldType'
    BY <1>0, <1>1, IndexAssumption DEF Written, Put, WorldType
  <1>3. IndexType'
    BY <1>0, <1>1 DEF Written, Put, IndexType
  <1>4. PassType'
    <2>1. /\ UNCHANGED <<evidence, files, pc>>
          /\ UNCHANGED <<inventory, signature, todo, next, appends, parsed, built>>
      BY <1>1 DEF Written, Put
    <2>2. touched' \in BOOLEAN
      BY <1>1 DEF Written, Put
    <2> QED
      BY <1>0, <2>1, <2>2 DEF PassType, Planned, Reads, Current, Continues
  <1> QED
    BY <1>2, <1>3, <1>4 DEF TypeInv

LEMMA ListedType ==
  ASSUME WorldType, NEW p \in Paths
  PROVE  \A s \in Listed(p) : s \in Stamp
  BY StampTypes DEF WorldType, Listed

LEMMA TypeList ==
  ASSUME TypeInv, List
  PROVE  TypeInv'
  <1>0. WorldType /\ IndexType /\ PassType
    BY DEF TypeInv
  <1>1. /\ pc' = "check" /\ DOMAIN inventory' \subseteq Paths
        /\ \A p \in DOMAIN inventory' : inventory'[p] \in Listed(p)
        /\ metadata' = [p \in Paths |-> IF p \in DOMAIN inventory' THEN inventory'[p]
                                         ELSE StampOf(NoLog)]
        /\ UNCHANGED <<diskVars, forces, faults, indexVars, components, dirty, force,
                       cursor, db, signature, todo, next, appends, parsed, built, touched>>
    BY DEF List
  <1>2. \A p \in DOMAIN inventory' : inventory'[p] \in Stamp
    BY <1>0, <1>1, ListedType
  <1>3. WorldType'
    <2>1. metadata' \in [Paths -> Stamp]
      BY <1>1, <1>2, StampTypes
    <2> QED
      BY <1>0, <1>1, <2>1 DEF WorldType
  <1>4. IndexType'
    BY <1>0, <1>1 DEF IndexType
  <1>5. PassType'
    BY <1>0, <1>1, <1>2 DEF PassType, Planned, Reads
  <1> QED
    BY <1>3, <1>4, <1>5 DEF TypeInv

LEMMA TypeCheck ==
  ASSUME TypeInv, NEW audit \in BOOLEAN, Check(audit)
  PROVE  TypeInv'
  <1>0. WorldType /\ IndexType /\ PassType
    BY DEF TypeInv
  <1>1. /\ pc = "check" /\ signature' = evidence
        /\ cursor' = [p \in Paths |-> IF audit /\ p \in AuditSet THEN AuditChunk(p)
                                       ELSE cursor[p]]
        /\ UNCHANGED <<diskVars, forces, faults, indexVars, components, metadata, db,
                       inventory, appends, parsed, built, touched>>
    BY DEF Check
  <1>2. \/ pc' = "idle" /\ force' = FALSE /\ dirty' = {} /\ UNCHANGED <<todo, next>>
        \/ /\ pc' = "next" /\ UNCHANGED <<force, dirty>>
           /\ \E bad : /\ next' = [p \in Known \ bad |-> files[p]]
                       /\ todo' = [p \in DOMAIN inventory \ (Known \ bad) |-> p \notin bad]
    BY DEF Check
  <1>3. WorldType'
    <2>1. cursor' \in [Paths -> Nat]
      <3>1. ASSUME NEW p \in AuditSet
            PROVE  AuditChunk(p) \in Nat
        <4>1. files[p].fp # <<>> /\ files[p].fp \in Seq(Data) /\ p \in Paths
          BY <1>0 DEF AuditSet, Known, IndexType, GoodFiles, GoodEntry, Entry
        <4>2. Len(files[p].fp) \in Nat \ {0} /\ cursor[p] \in Nat
          BY <1>0, <4>1 DEF WorldType
        <4> QED
          BY <4>2 DEF AuditChunk
      <3> QED
        BY <1>0, <1>1, <3>1 DEF WorldType
    <2>2. force' \in BOOLEAN
      BY <1>0, <1>2, Zenon DEF WorldType
    <2>3. dirty' \subseteq Paths
      BY <1>0, <1>2 DEF WorldType
    <2> QED
      BY <1>0, <1>1, <2>1, <2>2, <2>3 DEF WorldType
  <1>4. IndexType'
    BY <1>0, <1>1 DEF IndexType
  <1>5. PassType'
    <2>1. CASE pc' = "idle" /\ UNCHANGED <<todo, next>>
      BY <1>0, <1>1, <2>1 DEF PassType, Planned, Reads, WorldType
    <2>2. ASSUME NEW bad, pc' = "next",
                 next' = [p \in Known \ bad |-> files[p]],
                 todo' = [p \in DOMAIN inventory \ (Known \ bad) |-> p \notin bad]
          PROVE  PassType'
      <3>1. Known \subseteq DOMAIN inventory /\ Known \subseteq DOMAIN files
        BY DEF Known
      <3>2. DOMAIN next' = Known \ bad /\ \A p \in DOMAIN next' : GoodEntry(next'[p])
        BY <1>0, <2>2, <3>1 DEF IndexType, GoodFiles
      <3>3. GoodFiles(next)'
        BY <1>0, <3>1, <3>2 DEF GoodFiles, PassType
      <3>4. todo' \in [DOMAIN todo' -> BOOLEAN]
        BY <2>2
      <3>5. DOMAIN todo' \cup DOMAIN next' = DOMAIN inventory'
        BY <1>1, <2>2, <3>1, <3>2
      <3> QED
        BY <1>0, <1>1, <2>2, <3>3, <3>4, <3>5 DEF PassType, Planned, Reads, WorldType
    <2> QED
      BY <1>2, <2>1, <2>2
  <1> QED
    BY <1>3, <1>4, <1>5 DEF TypeInv

LEMMA TypeDecide ==
  ASSUME TypeInv, Decide
  PROVE  TypeInv'
  <1>0. WorldType /\ IndexType /\ PassType
    BY DEF TypeInv
  <1>1. /\ pc = "next" /\ todo # <<>> /\ pc' = "read"
        /\ UNCHANGED <<diskVars, forces, faults, indexVars, components, hintVars, db,
                       inventory, signature, todo, next, built>>
    BY DEF Decide
  <1>2. WorldType' /\ IndexType'
    BY <1>0, <1>1 DEF WorldType, IndexType
  <1>3. appends' \in BOOLEAN /\ touched' \in BOOLEAN
    <2>1. touched' = FALSE /\ appends' = MayAppend(Current)
      BY DEF Decide
    <2> QED
      BY <2>1, Zenon DEF MayAppend
  <1>4. /\ parsed' \in Parse /\ Len(parsed'.data) <= inventory[Current].size
        /\ appends' => Continues(Current)'
    <2>1. CASE MayAppend(Current)
      <3>1. /\ Current \in DOMAIN files /\ todo[Current]
            /\ SameIdentity(files[Current].stamp, inventory[Current])
            /\ inventory[Current].size > files[Current].stamp.size
        BY <2>1 DEF MayAppend
      <3>2. GoodEntry(files[Current]) /\ inventory[Current].size \in Nat
        BY <1>0, <1>1, <3>1, CurrentListed DEF IndexType, GoodFiles, Planned, Stamp
      <3>3. /\ files[Current].parsed \in Parse /\ files[Current].stamp.size \in Nat
            /\ Len(files[Current].parsed.data) <= files[Current].stamp.size
        BY <3>2 DEF GoodEntry, Entry, Stamp
      <3>4. /\ parsed'.data = files[Current].parsed.data
            /\ parsed' \in Parse
        <4>1. parsed' = [files[Current].parsed EXCEPT
                           !.torn = @ \/ ~EndsLine(files[Current].parsed.data)]
          BY <2>1 DEF Decide
        <4>2. (files[Current].parsed.torn \/ ~EndsLine(files[Current].parsed.data)) \in BOOLEAN
          OBVIOUS
        <4> QED
          BY <3>3, <4>1, <4>2 DEF Parse
      <3>5. Continues(Current)'
        BY <1>1, <3>1 DEF Continues, Current
      <3>6. files[Current].parsed.data \in Data
        BY <3>3 DEF Parse
      <3>7. Len(parsed'.data) <= inventory[Current].size
        BY <3>1, <3>2, <3>3, <3>4, <3>6 DEF Data
      <3> QED
        BY <3>4, <3>5, <3>7
    <2>2. CASE ~MayAppend(Current)
      <3>1. ~appends' /\ parsed' = NoParse
        BY <2>2 DEF Decide
      <3>2. inventory[Current].size \in Nat
        BY <1>0, <1>1, CurrentListed DEF Planned, Stamp
      <3> QED
        BY <3>1, <3>2 DEF NoParse, Parse, Data
    <2> QED
      BY <2>1, <2>2
  <1>5. PassType'
    <2>1. Current' = Current
      BY <1>1 DEF Current
    <2> QED
      BY <1>0, <1>1, <1>3, <1>4, <2>1 DEF PassType, Planned, Reads
  <1> QED
    BY <1>2, <1>5 DEF TypeInv

\* What a read adds to a parse: the blocks up to some place, and at the end of what
\* was listed, or of the log, the parse is done.
LEMMA ReadAdds ==
  ASSUME WorldType, IndexType, PassType, Read
  PROVE  \E m \in Nat :
            LET n   == Len(parsed.data)
                end == Least(inventory[Current].size, Len(disk[Current].data)) IN
            /\ n \in Nat /\ end \in Nat
            /\ (n < m /\ m <= end) \/ (end <= n /\ m = n)
            /\ parsed' = [parsed EXCEPT !.data = @ \o SubSeq(disk[Current].data, n + 1, m)]
            /\ parsed' \in Parse /\ Len(parsed'.data) <= inventory[Current].size
            /\ pc' = IF m < end THEN "read" ELSE "after"
  <1> DEFINE n    == Len(parsed.data)
             data == disk[Current].data
             size == inventory[Current].size
             end  == Least(size, Len(data))
  <1>1. /\ Current \in Paths /\ size \in Nat
        /\ n \in Nat /\ n <= size /\ parsed \in Parse /\ parsed.data \in Data
    <2>1. Reads /\ Planned /\ pc # "commit" /\ todo # <<>>
      BY DEF Read, Reads, Planned, PassType
    <2> QED
      BY <2>1, CurrentListed DEF Stamp, PassType, Parse, Data
  <1>2. data \in Data /\ Len(data) \in Nat
    BY <1>1 DEF WorldType, Log, Data
  <1>3. end \in 0..Len(data) /\ end <= size
    BY <1>1, <1>2 DEF Least
  <1>4. PICK m \in (IF n < end THEN n + 1..end ELSE {n}) :
           /\ parsed' = [parsed EXCEPT !.data = @ \o SubSeq(data, n + 1, m)]
           /\ pc' = IF m < end THEN "read" ELSE "after"
    BY DEF Read
  <1> HIDE DEF n, data, end, size
  <1>5. /\ m \in Nat /\ m <= size
        /\ (n < m /\ m <= end) \/ (end <= n /\ m = n)
    <2>1. CASE n < end
      BY <1>1, <1>3, <1>4, <2>1
    <2>2. CASE ~(n < end)
      <3>1. m = n /\ end <= n
        BY <1>1, <1>3, <1>4, <2>2
      <3> QED
        BY <1>1, <3>1
    <2> QED
      BY <2>1, <2>2
  <1>6. /\ SubSeq(data, n + 1, m) \in Data
        /\ n + Len(SubSeq(data, n + 1, m)) <= size
    <2>1. CASE m = n
      <3> DEFINE rest == SubSeq(data, n + 1, m)
      <3>1. rest \in Data /\ Len(rest) = 0
        BY <1>1, <1>2, <2>1 DEF Data
      <3> HIDE DEF rest
      <3>2. n + Len(rest) <= size
        BY <1>1, <3>1
      <3> QED
        BY <3>1, <3>2 DEF rest
    <2>2. CASE n < m /\ m <= end
      BY <1>1, <1>2, <1>3, <1>5, <2>2 DEF Data
    <2> QED
      BY <1>5, <2>1, <2>2
  <1>7. /\ parsed.data \o SubSeq(data, n + 1, m) \in Data
        /\ Len(parsed.data \o SubSeq(data, n + 1, m)) <= size
    <2> DEFINE rest == SubSeq(data, n + 1, m)
    <2>1. rest \in Data /\ n + Len(rest) <= size /\ Len(parsed.data) = n
      BY <1>6 DEF n
    <2> HIDE DEF rest
    <2>2. parsed.data \o rest \in Data /\ Len(parsed.data \o rest) = n + Len(rest)
      BY <1>1, <2>1 DEF Data
    <2> QED
      BY <2>1, <2>2 DEF rest
  <1>8. parsed' \in Parse /\ Len(parsed'.data) <= size
    BY <1>1, <1>4, <1>7 DEF Parse
  <1>9. end \in Nat
    BY <1>2, <1>3
  <1> QED
    BY <1>1, <1>4, <1>5, <1>8, <1>9 DEF n, data, end, size

LEMMA TypeRead ==
  ASSUME TypeInv, Read
  PROVE  TypeInv'
  <1>0. WorldType /\ IndexType /\ PassType
    BY DEF TypeInv
  <1>1. /\ pc = "read" /\ pc' \in {"read", "after"}
        /\ UNCHANGED <<diskVars, forces, faults, indexVars, components, hintVars, db,
                       inventory, signature, todo, next, appends, built, touched>>
    BY DEF Read
  <1>2. WorldType' /\ IndexType'
    BY <1>0, <1>1 DEF WorldType, IndexType
  <1>3. parsed' \in Parse /\ Len(parsed'.data) <= inventory[Current].size
    BY <1>0, ReadAdds
  <1>4. PassType'
    BY <1>0, <1>1, <1>3 DEF PassType, Planned, Reads, Continues, Current
  <1> QED
    BY <1>2, <1>4 DEF TypeInv

LEMMA TypeQuiet ==
  ASSUME TypeInv, Confirm \/ Changed \/ Unreadable
  PROVE  TypeInv'
  <1>0. WorldType /\ IndexType /\ PassType
    BY DEF TypeInv
  <1>1. /\ pc' = "idle" \/ (pc = "after" /\ pc' = "mark")
        /\ UNCHANGED <<diskVars, forces, faults, indexVars, components, dirty, force, cursor,
                       db, inventory, signature, todo, next, appends, parsed, built>>
        /\ metadata' \in {metadata, [metadata EXCEPT ![Current] = StampOf(NoLog)]}
        /\ touched' = (touched /\ Indistinct(Current)) \/ UNCHANGED touched
    BY DEF Confirm, Changed, Unreadable
  <1>2. WorldType' /\ IndexType'
    BY <1>0, <1>1, StampTypes DEF WorldType, IndexType
  <1>3. PassType'
    <2>1. touched' \in BOOLEAN
      BY <1>0, <1>1, Zenon DEF PassType
    <2> QED
      BY <1>0, <1>1, <2>1 DEF PassType, Planned, Reads, Continues, Current
  <1> QED
    BY <1>2, <1>3 DEF TypeInv

\* What is marked is a good entry.
LEMMA MarkedEntry ==
  ASSUME WorldType, IndexType, PassType, Mark
  PROVE  \E entry :
            /\ GoodEntry(entry)
            /\ entry.stamp = inventory[Current]
            /\ entry.parsed = [parsed EXCEPT !.mixed = @ \/ touched]
            /\ entry.marks = Markers(disk[Current].data, Len(parsed.data))
            /\ entry.fp =
                  IF ~appends
                  THEN Fingerprint(Take(disk[Current].data, inventory[Current].size))
                  ELSE GrownFingerprint(files[Current].fp, files[Current].stamp.size,
                                        Take(disk[Current].data, inventory[Current].size))
            /\ next' = [q \in DOMAIN next \cup {Current} |-> IF q = Current THEN entry ELSE next[q]]
            /\ todo' = [q \in DOMAIN todo \ {Current} |-> todo[q]]
  <1> DEFINE p    == Current
             size == inventory[p].size
             data == Take(disk[p].data, size)
             fp   == IF ~appends THEN Fingerprint(data)
                     ELSE GrownFingerprint(files[p].fp, files[p].stamp.size, data)
             marks == Markers(disk[p].data, Len(parsed.data))
             kept  == [parsed EXCEPT !.mixed = @ \/ touched]
             entry == [stamp |-> inventory[p], parsed |-> kept, marks |-> marks, fp |-> fp]
  <1>1. /\ Reads /\ p \in Paths /\ inventory[p] \in Stamp /\ size \in Nat
        /\ Len(parsed.data) <= size /\ parsed \in Parse
    <2>1. Reads /\ Planned /\ pc # "commit" /\ todo # <<>> /\ pc = "mark"
      BY DEF Mark, Reads, Planned, PassType
    <2> QED
      BY <2>1, CurrentListed DEF PassType, Stamp
  <1>2. disk[p].data \in Data /\ Len(disk[p].data) \in Nat /\ Len(disk[p].data) >= size
    BY <1>1 DEF WorldType, Log, Data, Mark, Readable, HasBlocks
  <1>3. data \in Data /\ Len(data) = size
    BY <1>1, <1>2, TakeType DEF Least
  <1>4. marks \in [prefix : Data, tail : Data, safe : BOOLEAN]
    <2>1. Len(parsed.data) \in Nat /\ Len(parsed.data) <= Len(disk[p].data)
      BY <1>1, <1>2 DEF Parse, Data
    <2> QED
      BY <1>2, <2>1, MarkersType
  <1>5. fp \in Seq(Data) /\ Len(fp) = Chunks(size)
    <2>1. CASE ~appends
      BY <1>3, <2>1, FingerprintType
    <2>2. CASE appends
      <3>1. p \in DOMAIN files
        BY <1>1, <2>2 DEF PassType, Continues
      <3>2. /\ files[p].fp \in Seq(Data) /\ files[p].stamp.size \in Nat
            /\ Len(files[p].fp) = Chunks(files[p].stamp.size)
        BY <3>1 DEF IndexType, GoodFiles, GoodEntry, Entry, Stamp
      <3> QED
        BY <1>3, <2>2, <3>2, GrownType
    <2> QED
      BY <2>1, <2>2
  <1>6. GoodEntry(entry)
    <2> HIDE DEF fp, marks, data, p, size
    <2>1. kept \in Parse /\ kept.data = parsed.data
      <3>1. (parsed.mixed \/ touched) \in BOOLEAN
        OBVIOUS
      <3> QED
        BY <1>1, <3>1 DEF Parse
    <2> HIDE DEF kept
    <2>2. entry \in Entry
      BY <1>1, <1>4, <1>5, <2>1 DEF Entry
    <2> QED
      BY <1>1, <1>5, <2>1, <2>2 DEF GoodEntry, size
  <1>7. /\ next' = [q \in DOMAIN next \cup {p} |-> IF q = p THEN entry ELSE next[q]]
        /\ todo' = [q \in DOMAIN todo \ {p} |-> todo[q]]
    BY DEF Mark
  <1> HIDE DEF fp, marks, p
  <1> QED
    BY <1>6, <1>7 DEF fp, marks, p

LEMMA TypeMark ==
  ASSUME TypeInv, Mark
  PROVE  TypeInv'
  <1>0. WorldType /\ IndexType /\ PassType
    BY DEF TypeInv
  <1>1. /\ pc = "mark" /\ pc' = "next" /\ parsed' = NoParse
        /\ UNCHANGED <<diskVars, forces, faults, indexVars, components, hintVars, db,
                       inventory, signature, built>>
    BY DEF Mark
  <1>2. WorldType' /\ IndexType'
    BY <1>0, <1>1 DEF WorldType, IndexType
  <1>3. PICK entry :
            /\ GoodEntry(entry)
            /\ next' = [q \in DOMAIN next \cup {Current} |-> IF q = Current THEN entry ELSE next[q]]
            /\ todo' = [q \in DOMAIN todo \ {Current} |-> todo[q]]
    BY <1>0, MarkedEntry
  <1>4. Current \in DOMAIN todo /\ Current \in Paths /\ Planned /\ pc # "commit"
    BY <1>0, <1>1, CurrentListed DEF Planned, PassType, Reads
  <1>5. GoodFiles(next)'
    BY <1>0, <1>3, <1>4 DEF GoodFiles, PassType
  <1>6. /\ todo' \in [DOMAIN todo' -> BOOLEAN]
        /\ DOMAIN todo' \cup DOMAIN next' = DOMAIN inventory
    BY <1>0, <1>3, <1>4 DEF PassType
  <1>7. NoParse \in Parse
    BY DEF NoParse, Parse, Data
  <1>8. appends' \in BOOLEAN /\ touched' \in BOOLEAN
    BY Zenon DEF Mark
  <1>9. PassType'
    BY <1>0, <1>1, <1>5, <1>6, <1>7, <1>8 DEF PassType, Planned, Reads
  <1> QED
    BY <1>2, <1>9 DEF TypeInv

LEMMA TypeNormalize ==
  ASSUME TypeInv, Normalize
  PROVE  TypeInv'
  <1>0. WorldType /\ IndexType /\ PassType
    BY DEF TypeInv
  <1>1. /\ pc = "next" /\ todo = <<>> /\ pc' = "commit"
        /\ components' = [p \in DOMAIN next |-> ComponentOf(p)]
        /\ \/ built' = snapshot
           \/ built' = [rev |-> NextRevision, logs |-> components']
        /\ UNCHANGED <<diskVars, forces, faults, indexVars, hintVars, db, inventory,
                       signature, todo, next, appends, parsed, touched>>
    BY DEF Normalize
  <1>2. GoodFiles(next) /\ DOMAIN next = DOMAIN inventory
    BY <1>0, <1>1 DEF PassType, Planned
  <1>3. IsComponents(components)'
    <2>1. \A p \in DOMAIN next : /\ ComponentOf(p).shows \in Parse
                                /\ ComponentOf(p).sig.stamp \in Stamp
      BY <1>0, <1>2, ComponentType DEF IndexType
    <2> QED
      BY <1>1, <1>2, <2>1 DEF IsComponents, GoodFiles
  <1>4. WorldType' /\ IndexType'
    BY <1>0, <1>1, <1>3 DEF WorldType, IndexType
  <1>5. NextRevision \in Nat
    BY <1>0 DEF NextRevision, IndexType, IsSnapshot
  <1>6. IsSnapshot(built)'
    BY <1>0, <1>1, <1>3, <1>5 DEF IsSnapshot, IndexType
  <1>7. PassType'
    BY <1>0, <1>1, <1>2, <1>6 DEF PassType, Planned, Reads
  <1> QED
    BY <1>4, <1>7 DEF TypeInv

LEMMA TypeCommit ==
  ASSUME TypeInv, Commit
  PROVE  TypeInv'
  <1>0. WorldType /\ IndexType /\ PassType
    BY DEF TypeInv
  <1>1. /\ pc = "commit" /\ pc' = "idle"
        /\ files' = next /\ auxiliary' = signature /\ snapshot' = built
        /\ db' = [files |-> next, auxiliary |-> signature, snapshot |-> built]
        /\ dirty' = {} /\ force' = FALSE
        /\ UNCHANGED <<diskVars, forces, faults, components, metadata, cursor, passVars>>
    BY DEF Commit
  <1>2. force' \in BOOLEAN
    BY <1>1, Zenon
  <1>3. WorldType'
    BY <1>0, <1>1, <1>2 DEF WorldType
  <1>4. IndexType'
    BY <1>0, <1>1 DEF IndexType, PassType, Planned
  <1>5. PassType'
    BY <1>0, <1>1 DEF PassType, Planned, Reads
  <1> QED
    BY <1>3, <1>4, <1>5 DEF TypeInv

LEMMA TypeStep ==
  ASSUME TypeInv, [Next]_vars
  PROVE  TypeInv'
  <1>1. CASE Step
    BY <1>1, TypeList, TypeCheck, TypeDecide, TypeRead, TypeQuiet, TypeMark,
       TypeNormalize, TypeCommit DEF Step
  <1>2. ASSUME NEW p \in Paths, Write(p) \/ Invalidate(p)
        PROVE  TypeInv'
    BY <1>2, TypeWrite, TypeRequests
  <1>3. CASE Fail \/ Reopen \/ ForceRefresh \/ Record
    BY <1>3, TypeRequests
  <1>4. CASE UNCHANGED vars
    BY <1>4 DEF vars, TypeInv, WorldType, IndexType, PassType, Planned, Reads,
       Current, Continues
  <1> QED
    BY <1>1, <1>2, <1>3, <1>4 DEF Next

\* Every variable keeps its type, whatever writers, failures and crashes do.
THEOREM IndexTypeCorrect == Spec => []TypeOK
  <1>1. TypeInv /\ [Next]_vars => TypeInv'
    BY TypeStep
  <1>2. Spec => []TypeInv
    BY TypeInit, <1>1, PTL DEF Spec
  <1> QED
    BY <1>2, TypeInvImplies, PTL

-------------------------------------------------------------------------------
(* Revisions *)

\* The snapshot in memory is the committed one, or none; the one a pass is about
\* to commit is the committed one, or has a higher revision.
RevisionInv ==
    /\ snapshot.rev \in Nat /\ db.snapshot.rev \in Nat
    /\ snapshot = db.snapshot \/ snapshot.rev = 0
    /\ pc = "commit" => \/ built = db.snapshot
                        \/ built.rev \in Nat /\ built.rev > db.snapshot.rev

\* What a pass builds: nothing new, or the revision after the committed one.
LEMMA BuiltRevision ==
  ASSUME RevisionInv, Normalize
  PROVE  \/ built' = db.snapshot
         \/ built'.rev \in Nat /\ built'.rev > db.snapshot.rev
  <1>1. NextRevision \in Nat /\ NextRevision > db.snapshot.rev
    BY DEF RevisionInv, NextRevision
  <1>2. \/ snapshot.rev # 0 /\ built' = snapshot
        \/ \E logs : built' = [rev |-> NextRevision, logs |-> logs]
    BY DEF Normalize
  <1> QED
    BY <1>1, <1>2 DEF RevisionInv

\* Only four steps touch a snapshot or reach the commit.
LEMMA SnapshotSteps ==
  ASSUME [Next]_vars
  PROVE  \/ Normalize \/ Commit \/ Reopen
         \/ /\ UNCHANGED <<snapshot, db>>
            /\ pc' = "commit" => pc = "commit" /\ UNCHANGED built
  <1>1. CASE Step
    BY <1>1 DEF Step, List, Check, Decide, Read, Confirm, Changed, Mark, Unreadable
  <1>2. CASE Fail \/ ForceRefresh \/ Record
    BY <1>2 DEF Fail, ForceRefresh, Record
  <1>3. ASSUME NEW p \in Paths, Invalidate(p) \/ Write(p)
        PROVE  UNCHANGED <<snapshot, db, pc, built>>
    BY <1>3 DEF Invalidate, Write, Put
  <1>4. CASE UNCHANGED vars
    BY <1>4 DEF vars
  <1> QED
    BY <1>1, <1>2, <1>3, <1>4 DEF Next

LEMMA RevisionStep ==
  ASSUME RevisionInv, [Next]_vars
  PROVE  /\ RevisionInv'
         /\ db'.snapshot.rev >= db.snapshot.rev
         /\ db'.snapshot.rev = db.snapshot.rev => db'.snapshot = db.snapshot
  <1>1. CASE Normalize
    <2>1. UNCHANGED <<snapshot, db>>
      BY <1>1 DEF Normalize
    <2> QED
      BY <1>1, <2>1, BuiltRevision DEF RevisionInv
  <1>2. CASE Commit
    <2>1. snapshot' = built /\ db'.snapshot = built /\ pc = "commit" /\ pc' = "idle"
      BY <1>2 DEF Commit
    <2> QED
      BY <2>1 DEF RevisionInv
  <1>3. CASE Reopen
    <2>1. UNCHANGED db /\ pc' = "idle" /\ snapshot' \in {db.snapshot, NoSnapshot}
      BY <1>3 DEF Reopen
    <2> QED
      BY <2>1 DEF RevisionInv, NoSnapshot
  <1>4. CASE /\ UNCHANGED <<snapshot, db>>
             /\ pc' = "commit" => pc = "commit" /\ UNCHANGED built
    BY <1>4 DEF RevisionInv
  <1> QED
    BY <1>1, <1>2, <1>3, <1>4, SnapshotSteps

\* A committed revision is never given to other content and never goes back,
\* although the snapshot in memory may have been dropped (refresh_sources takes
\* the higher of the revision in memory and the one in the database).
THEOREM RevisionsCommitted == Spec => RevisionsName
  <1>1. Init => RevisionInv
    BY DEF Init, RevisionInv, NoSnapshot
  <1>2. RevisionInv /\ [Next]_vars
        => /\ RevisionInv'
           /\ [/\ db'.snapshot.rev >= db.snapshot.rev
               /\ db'.snapshot.rev = db.snapshot.rev => db'.snapshot = db.snapshot]_vars
    BY RevisionStep
  <1> QED
    BY <1>1, <1>2, PTL DEF Spec, RevisionsName
===============================================================================
