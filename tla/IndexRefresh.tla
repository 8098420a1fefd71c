----------------------------- MODULE IndexRefresh -----------------------------
(***************************************************************************)
(* How the local index takes in the session logs                           *)
(* (crates/usage-core/src/index.rs, refresh_sources), with the inventory   *)
(* it lists them by (inventory.rs) and the chunk fingerprints it validates *)
(* them with (content.rs).                                                 *)
(*                                                                         *)
(* A pass lists the logs, checks cached ones, parses those that changed,   *)
(* from where the last parse ended if the log only grew, builds a snapshot *)
(* and commits it in one transaction.  Codex, and whoever else writes the  *)
(* logs, may act between any two reads of a pass.  A log is a sequence of  *)
(* blocks, numbered by the edit that wrote them; a block may end in the    *)
(* middle of a line.  The audit's pacing, the expiry of cached metadata    *)
(* and the crash points are choices.  The pass reads every source: Worker  *)
(* models the schedule.  Dependencies between sessions are left out, every *)
(* log is a component of its own.                                          *)
(***************************************************************************)
EXTENDS Naturals, Sequences, FiniteSets, SequencesExt

CONSTANTS
    Paths,      \* the logs
    Network,    \* those on a network share: never audited
    Mounted,    \* those whose old stamps the inventory caches (history_ttl)
    Chunk,      \* blocks per fingerprint chunk (1 MiB in the code)
    Marker,     \* blocks covered by a marker (4 KiB in the code)
    Edits,      \* what writers do to a log
    InitLen,    \* blocks of every log at the start
    MaxLen,     \* bound on the blocks of a log
    MaxEdits,   \* bound on edits
    MaxForces,  \* bound on explicit refreshes and watcher hints
    MaxFaults   \* bound on crashes and failing steps

ASSUME IndexAssumption ==
    /\ Network \subseteq Paths /\ Mounted \subseteq Paths
    /\ Chunk \in Nat \ {0} /\ Marker \in Nat \ {0}
    /\ Edits \subseteq {"append", "half", "rewrite", "forge", "truncate", "replace",
                      "remove", "evidence"}
    /\ InitLen \in Nat /\ MaxLen \in Nat /\ MaxEdits \in Nat /\ MaxForces \in Nat /\ MaxFaults \in Nat

VARIABLES
    disk,       \* the logs as they are
    evidence,   \* version of the runtime evidence next to them
    edits, forces, faults,          \* counters that bound a run
    files, auxiliary, snapshot,     \* the fields of Index: what is indexed
    components,                     \* what a pass may reuse of earlier ones
    dirty, force, metadata, cursor, \* hints, requests and caches of Index
    db,                             \* what the database holds of the index
    pc, inventory, signature, todo, next, appends, parsed, built,  \* the locals of a pass
    since,      \* history: contents of each log since the last explicit refresh
    touched     \* history: whether what a pass reads of a log changed under it

diskVars  == <<disk, evidence, edits, since>>
indexVars == <<files, auxiliary, snapshot>>
hintVars  == <<dirty, force, metadata, cursor>>
passVars  == <<inventory, signature, todo, next, appends, parsed, built, touched>>
vars == <<diskVars, forces, faults, indexVars, components, hintVars, db, pc, passVars>>

-------------------------------------------------------------------------------
(* Data *)

Block == [id : Nat, ends : BOOLEAN]   \* "ends" at the end of a line
Data  == Seq(Block)
Log   == [ino : Nat, time : Nat, data : Data]
NoLog == [ino |-> 0, time |-> 0, data |-> <<>>]
Exists(p) == disk[p] # NoLog

\* FileStamp: identity, change time and size.
Stamp    == [ino : Nat, time : Nat, size : Nat]
StampOf(log) == [ino |-> log.ino, time |-> log.time, size |-> Len(log.data)]
SameIdentity(s, t) == s.ino = t.ino

Take(data, n) == SubSeq(data, 1, IF n < Len(data) THEN n ELSE Len(data))
Least(m, n)   == IF m < n THEN m ELSE n

\* Fingerprint: the hashes of the chunks; its digest is a hash of all of them.
Chunks(n) == (n + Chunk - 1) \div Chunk
ChunkOf(data, i) == SubSeq(data, (i - 1) * Chunk + 1, Least(i * Chunk, Len(data)))
Fingerprint(data) == [i \in 1..Chunks(Len(data)) |-> ChunkOf(data, i)]

\* Fingerprint::read with a previous one of a log of this size: its complete
\* chunks are kept unread.
GrownFingerprint(old, size, data) ==
    [i \in 1..Chunks(Len(data)) |->
        IF i <= size \div Chunk THEN old[i] ELSE ChunkOf(data, i)]

\* Markers: the first and the last bytes of what was parsed, and whether they
\* end a line.
Markers(data, n) ==
    [prefix |-> SubSeq(data, 1, Least(n, Marker)),
     tail   |-> SubSeq(data, n - Least(n, Marker) + 1, n),
     safe   |-> n = 0 \/ data[n].ends]

\* A parse: the blocks it consumed, and its history: whether it ever started within
\* a line, and whether the log changed under it, so that it may mix two contents.
NoParse == [data |-> <<>>, torn |-> FALSE, mixed |-> FALSE]
EndsLine(data) == data = <<>> \/ data[Len(data)].ends

\* A snapshot: its revision, and the component of every log.  A component has its
\* signature, the parse it shows, and the revision it was first normalised for.
NoSnapshot == [rev |-> 0, logs |-> <<>>]

Init ==
    /\ disk = [p \in Paths |-> [ino |-> 1, time |-> 0,
                                data |-> [i \in 1..InitLen |-> [id |-> 0, ends |-> TRUE]]]]
    /\ evidence = 1 /\ edits = 0 /\ forces = 0 /\ faults = 0
    /\ since = [p \in Paths |-> {disk[p].data}]
    /\ files = <<>> /\ auxiliary = 0 /\ snapshot = NoSnapshot
    /\ db = [files |-> <<>>, auxiliary |-> 0, snapshot |-> NoSnapshot]
    /\ components = <<>>
    /\ dirty = {} /\ force = FALSE
    /\ metadata = [p \in Paths |-> StampOf(NoLog)]
    /\ cursor = [p \in Paths |-> 0]
    /\ pc = "idle"
    /\ inventory = <<>> /\ signature = 0 /\ todo = <<>> /\ next = <<>>
    /\ appends = FALSE /\ parsed = NoParse /\ built = NoSnapshot /\ touched = FALSE

-------------------------------------------------------------------------------
(* Requests, handled between passes *)

\* Index::invalidate, on a watcher's hint.
Invalidate(p) ==
    /\ pc = "idle" /\ forces < MaxForces
    /\ forces' = forces + 1
    /\ dirty' = dirty \cup {p}
    /\ metadata' = [metadata EXCEPT ![p] = StampOf(NoLog)]
    /\ UNCHANGED <<diskVars, faults, indexVars, components, force, cursor, db, pc, passVars>>

\* Index::force_refresh.  Nothing cached counts any more, and no pass finds the
\* evidence unchanged.
ForceRefresh ==
    /\ pc = "idle" /\ forces < MaxForces
    /\ forces' = forces + 1
    /\ force' = TRUE
    /\ metadata' = [p \in Paths |-> StampOf(NoLog)]
    /\ auxiliary' = 0
    /\ since' = [p \in Paths |-> {disk[p].data}]
    /\ UNCHANGED <<disk, evidence, edits, faults, files, snapshot, components, dirty,
                   cursor, db, pc, passVars>>

-------------------------------------------------------------------------------
(* One pass of refresh_sources *)

Listed(p) == {StampOf(disk[p])}
             \cup IF p \in Mounted /\ metadata[p].ino # 0 THEN {metadata[p]} ELSE {}

\* discover_sources: the stamp of every log, or a cached one not yet expired (of
\* a log last modified a day ago, which a copy put in its place may claim too).
List ==
    /\ pc = "idle"
    /\ pc' = "check"
    /\ \E stamps \in [{p \in Paths : Exists(p)} ->
                       UNION {Listed(p) : p \in {q \in Paths : Exists(q)}}] :
         /\ \A p \in DOMAIN stamps : stamps[p] \in Listed(p)
         /\ inventory' = stamps
         /\ metadata' = [p \in Paths |-> IF p \in DOMAIN stamps THEN stamps[p]
                                         ELSE StampOf(NoLog)]
    /\ UNCHANGED <<diskVars, forces, faults, indexVars, components, dirty, force,
                   cursor, db, signature, todo, next, appends, parsed, built, touched>>

\* Faulty: the entry of a log that is gone stays.
KnownGone == {p \in DOMAIN files : p \in DOMAIN inventory => files[p].stamp = inventory[p]}

\* The logs whose cached entry has the stamp that was listed.
Known == {p \in DOMAIN inventory \cap DOMAIN files : files[p].stamp = inventory[p]}

\* Faulty: an explicit refresh trusts the stamps.
ValidatedDirty == Known \cap dirty

\* The logs content_changes reads in full.
Validated == IF force THEN Known ELSE Known \cap dirty

\* Whether the log can be read as far as it was listed, and whether it no longer
\* has the fingerprint cached for it.
HasBlocks(p, n) == Exists(p) /\ Len(disk[p].data) >= n
Readable(p)     == HasBlocks(p, inventory[p].size)
Mismatch(p)     == Fingerprint(Take(disk[p].data, inventory[p].size)) # files[p].fp

\* The audit: the next chunk of every local log, eight logs at most (more than a
\* run has), whose stamp is known.
AuditSet         == {p \in Known \ Network : files[p].fp # <<>>}
AuditChunk(p)    == (cursor[p] % Len(files[p].fp)) + 1
AuditReadable(p) == HasBlocks(p, Least(AuditChunk(p) * Chunk, inventory[p].size))

\* Faulty: the last chunk is never compared.
AuditMismatchFirst(p) == ChunkOf(disk[p].data, 1) # files[p].fp[1]

AuditMismatch(p) ==
    ChunkOf(Take(disk[p].data, inventory[p].size), AuditChunk(p))
        # files[p].fp[AuditChunk(p)]

\* auxiliary_signature and content_changes, then the test for an unchanged pass.
\* What is neither new nor changed is kept, the rest is parsed.
Check(audit) ==
    /\ pc = "check"
    /\ \A p \in Validated : Readable(p)
    /\ audit => \A p \in AuditSet : AuditReadable(p)
    /\ signature' = evidence
    /\ cursor' = [p \in Paths |-> IF audit /\ p \in AuditSet THEN AuditChunk(p)
                                  ELSE cursor[p]]
    /\ LET bad  == {p \in Validated : Mismatch(p)}
                   \cup {p \in AuditSet : audit /\ AuditMismatch(p)}
           kept == Known \ bad
       IN IF bad = {} /\ signature' = auxiliary /\ Known = DOMAIN inventory
             /\ Known = DOMAIN files
          THEN /\ pc' = "idle"
               /\ force' = FALSE /\ dirty' = {}
               /\ UNCHANGED <<todo, next>>
          ELSE /\ pc' = "next"
               /\ next' = [p \in kept |-> files[p]]
               /\ todo' = [p \in DOMAIN inventory \ kept |-> p \notin bad]
               /\ UNCHANGED <<force, dirty>>
    /\ UNCHANGED <<diskVars, forces, faults, indexVars, components, metadata, db,
                   inventory, appends, parsed, built, touched>>

\* Faulty: what was parsed need not end a line.
AppendSafeAlways(m) == TRUE

AppendSafe(m) == m.safe

\* Faulty: the markers are enough.
TailMatchesAlways(p) == TRUE

\* Fingerprint::append_tail_matches: the old last chunk is still there.
TailMatches(p) ==
    files[p].fp = <<>>
    \/ ChunkOf(Take(disk[p].data, files[p].stamp.size), Len(files[p].fp))
          = files[p].fp[Len(files[p].fp)]

\* A cached parse can be continued: the log grew, and still begins and ends
\* where it did.
MayAppend(p) ==
    /\ ~force /\ todo[p] /\ p \in DOMAIN files
    /\ SameIdentity(files[p].stamp, inventory[p])
    /\ inventory[p].size > files[p].stamp.size
    /\ AppendSafe(files[p].marks)
    /\ LET n == Len(files[p].parsed.data) IN
       /\ Len(disk[p].data) >= n
       /\ Markers(disk[p].data, n).prefix = files[p].marks.prefix
       /\ Markers(disk[p].data, n).tail = files[p].marks.tail
    /\ Len(disk[p].data) >= files[p].stamp.size
    /\ TailMatches(p)

Current == CHOOSE p \in DOMAIN todo : TRUE

\* Choose where the parse of the next log starts.
Decide ==
    /\ pc = "next" /\ todo # <<>>
    /\ pc' = "read"
    /\ appends' = MayAppend(Current)
    /\ parsed' = IF appends'
                 THEN [files[Current].parsed EXCEPT !.torn = @ \/ ~EndsLine(files[Current].parsed.data)]
                 ELSE NoParse
    /\ touched' = FALSE
    /\ UNCHANGED <<diskVars, forces, faults, indexVars, components, hintVars, db,
                   inventory, signature, todo, next, built>>

\* parse_file: some of the blocks that are left, up to the size the inventory
\* measured.
Read ==
    /\ pc = "read" /\ Exists(Current)
    /\ LET n   == Len(parsed.data)
           end == Least(inventory[Current].size, Len(disk[Current].data))
       IN \E m \in IF n < end THEN n + 1..end ELSE {n} :
            /\ parsed' = [parsed EXCEPT !.data = @ \o SubSeq(disk[Current].data, n + 1, m)]
            /\ pc' = IF m < end THEN "read" ELSE "after"
    /\ UNCHANGED <<diskVars, forces, faults, indexVars, components, hintVars, db,
                   inventory, signature, todo, next, appends, built, touched>>

\* The log is the one that was listed, or that one grown.
StillParsed(p) ==
    LET after == StampOf(disk[p]) IN
    \/ after = inventory[p]
    \/ SameIdentity(after, inventory[p]) /\ after.size > inventory[p].size

\* History: a second stamp is the one that was listed, or that of a log that only
\* grew, so that it cannot tell what else was done to the log.
Indistinct(p) ==
    \/ StampOf(disk[p]) = inventory[p]
    \/ disk[p].ino = inventory[p].ino /\ Len(disk[p].data) > inventory[p].size

\* The stamp read after the parse.
Confirm ==
    /\ pc = "after" /\ Exists(Current) /\ StillParsed(Current)
    /\ pc' = "mark"
    /\ touched' = (touched /\ Indistinct(Current))
    /\ UNCHANGED <<diskVars, forces, faults, indexVars, components, hintVars, db,
                   inventory, signature, todo, next, appends, parsed, built>>

\* "log changed during parse; retry scheduled"
Changed ==
    /\ pc = "after" /\ Exists(Current) /\ ~StillParsed(Current)
    /\ pc' = "idle"
    /\ metadata' = [metadata EXCEPT ![Current] = StampOf(NoLog)]
    /\ UNCHANGED <<diskVars, forces, faults, indexVars, components, dirty, force,
                   cursor, db, passVars>>

\* The markers and the fingerprint, read from the log once more.
Mark ==
    /\ pc = "mark" /\ Readable(Current)
    /\ pc' = "next"
    /\ LET p    == Current
           data == Take(disk[p].data, inventory[p].size)
           fp   == IF ~appends THEN Fingerprint(data)
                   ELSE GrownFingerprint(files[p].fp, files[p].stamp.size, data)
           entry == [stamp |-> inventory[p],
                     parsed |-> [parsed EXCEPT !.mixed = @ \/ touched],
                     marks |-> Markers(disk[p].data, Len(parsed.data)), fp |-> fp]
       IN /\ next' = [q \in DOMAIN next \cup {p} |-> IF q = p THEN entry ELSE next[q]]
          /\ todo' = [q \in DOMAIN todo \ {p} |-> todo[q]]
    /\ appends' = FALSE /\ parsed' = NoParse /\ touched' = FALSE
    /\ UNCHANGED <<diskVars, forces, faults, indexVars, components, hintVars, db,
                   inventory, signature, built>>

\* A read found the log gone or cut short.
Unreadable ==
    /\ \/ pc = "check" /\ \/ \E p \in Validated : ~Readable(p)
                          \/ \E p \in AuditSet : ~AuditReadable(p)
       \/ pc \in {"read", "after"} /\ ~Exists(Current)
       \/ pc = "mark" /\ ~Readable(Current)
    /\ pc' = "idle"
    /\ UNCHANGED <<diskVars, forces, faults, indexVars, components, hintVars, db, passVars>>

\* Faulty: the digest is left out, as a stamp tells one content from another.
SignatureStamp(entry) ==
    [stamp |-> entry.stamp, digest |-> <<>>, evidence |-> evidence]

\* The signature of a component: stamp and digest of its log, and the evidence
\* for its sessions.
Signature(entry) ==
    [stamp |-> entry.stamp, digest |-> entry.fp, evidence |-> evidence]

\* Faulty: count on from the snapshot in memory.
NextRevisionMemory == snapshot.rev + 1

NextRevision ==
    (IF snapshot.rev > db.snapshot.rev THEN snapshot.rev ELSE db.snapshot.rev) + 1

\* The component in the cache, if it has the signature, or a new one.
ComponentOf(p) ==
    IF p \in DOMAIN components /\ components[p].sig = Signature(next[p])
    THEN components[p]
    ELSE [sig |-> Signature(next[p]), shows |-> next[p].parsed, rev |-> NextRevision]

\* Read the evidence, normalise the components whose signature is new, and give
\* the snapshot a new revision if any of its components is another one.  The cache
\* is of this pass from now on, whether or not it is committed.
Normalize ==
    /\ pc = "next" /\ todo = <<>>
    /\ pc' = "commit"
    /\ components' = [p \in DOMAIN next |-> ComponentOf(p)]
    /\ built' = IF snapshot.rev = 0 \/ components' # snapshot.logs
                THEN [rev |-> NextRevision, logs |-> components'] ELSE snapshot
    /\ UNCHANGED <<diskVars, forces, faults, indexVars, hintVars, db, inventory,
                   signature, todo, next, appends, parsed, touched>>

\* One transaction writes the logs' entries, the snapshot and the metadata.
Commit ==
    /\ pc = "commit"
    /\ pc' = "idle"
    /\ files' = next /\ auxiliary' = signature /\ snapshot' = built
    /\ db' = [files |-> next, auxiliary |-> signature, snapshot |-> built]
    /\ dirty' = {} /\ force' = FALSE
    /\ UNCHANGED <<diskVars, forces, faults, components, metadata, cursor, passVars>>

\* An error of the file system or the database: the transaction is rolled back, and
\* the cache keeps the components that were normalised.
Fail ==
    /\ pc # "idle" /\ faults < MaxFaults
    /\ faults' = faults + 1
    /\ pc' = "idle"
    /\ \E done \in SUBSET (IF pc = "next" /\ todo = <<>> THEN DOMAIN next ELSE {}) :
         components' = [p \in DOMAIN components \cup done |->
                          IF p \in done THEN ComponentOf(p) ELSE components[p]]
    /\ UNCHANGED <<diskVars, forces, indexVars, hintVars, db, passVars>>

-------------------------------------------------------------------------------
(* Crashes, and the writers *)

\* The process ends at any point and Index::open reads the database.  A release
\* with other prices, or an unreadable row, drops the snapshot; the components are
\* of its sessions.
Reopen ==
    /\ faults < MaxFaults
    /\ faults' = faults + 1
    /\ pc' = "idle"
    /\ files' = db.files
    /\ \/ snapshot' = db.snapshot /\ auxiliary' = db.auxiliary
       \/ snapshot' = NoSnapshot /\ auxiliary' = 0
    /\ components' = snapshot'.logs
    /\ dirty' = {} /\ force' = FALSE
    /\ metadata' = [p \in Paths |-> StampOf(NoLog)]
    /\ cursor' = [p \in Paths |-> 0]
    /\ UNCHANGED <<diskVars, forces, db, passVars>>

\* History: the log is being parsed, and this one differs in what the parse took, or
\* in what will be fingerprinted with it.
Disturbs(p, log) ==
    /\ pc \in {"read", "after", "mark"} /\ p = Current
    /\ LET n == IF pc = "read" THEN Len(parsed.data) ELSE inventory[p].size
       IN log.ino # disk[p].ino \/ Take(log.data, n) # Take(disk[p].data, n)

\* The log becomes this one.
Put(p, log) ==
    /\ touched' = (touched \/ Disturbs(p, log))
    /\ disk' = [disk EXCEPT ![p] = log]
    /\ since' = [since EXCEPT ![p] = @ \cup {log.data}]
    /\ edits' = edits + 1
    /\ UNCHANGED <<evidence, forces, faults, indexVars, components, hintVars, db, pc,
                   inventory, signature, todo, next, appends, parsed, built>>

\* The same file with another content.
Edited(log, time, data) == [ino |-> log.ino, time |-> time, data |-> data]

\* Codex appends to a log, whole lines or half of one; others rewrite a block in
\* place, with or without growth or a new stamp, cut the last one off, replace or
\* remove the log.
Write(p) ==
    /\ edits < MaxEdits
    /\ LET log   == disk[p]
           now   == edits + 1
           new   == [id |-> now, ends |-> TRUE]
           grows == Exists(p) /\ Len(log.data) < MaxLen
           rewritten(i) == [log.data EXCEPT ![i] = new]
       IN \/ /\ "append" \in Edits /\ grows
             /\ Put(p, Edited(log, now, Append(log.data, new)))
          \/ /\ "half" \in Edits /\ grows
             /\ Put(p, Edited(log, now, Append(log.data, [id |-> now, ends |-> FALSE])))
          \/ /\ "rewrite" \in Edits /\ Exists(p)
             /\ \E i \in DOMAIN log.data :
                  \/ Put(p, Edited(log, now, rewritten(i)))
                  \/ grows /\ Put(p, Edited(log, now, Append(rewritten(i), new)))
          \/ /\ "forge" \in Edits /\ Exists(p)
             /\ \E i \in DOMAIN log.data : Put(p, Edited(log, log.time, rewritten(i)))
          \/ /\ "truncate" \in Edits /\ Exists(p) /\ log.data # <<>>
             /\ Put(p, Edited(log, now, Front(log.data)))
          \/ /\ "replace" \in Edits
             /\ \E n \in 1..2 :
                  Put(p, [ino |-> now + 1, time |-> now, data |-> [i \in 1..n |-> new]])
          \/ /\ "remove" \in Edits /\ Exists(p)
             /\ Put(p, NoLog)

\* Codex records service tiers and titles.
Record ==
    /\ "evidence" \in Edits /\ edits < MaxEdits
    /\ edits' = edits + 1
    /\ evidence' = evidence + 1
    /\ UNCHANGED <<disk, since, forces, faults, indexVars, components, hintVars, db, pc,
                   passVars>>

-------------------------------------------------------------------------------
Step == List \/ (\E audit \in BOOLEAN : Check(audit)) \/ Decide \/ Read \/ Confirm
        \/ Changed \/ Mark \/ Unreadable \/ Normalize \/ Commit
Next == \/ Step \/ Fail \/ Reopen \/ ForceRefresh \/ Record
        \/ \E p \in Paths : Invalidate(p) \/ Write(p)

Spec == Init /\ [][Next]_vars

\* Passes follow one another, the audit comes round every two seconds, and cached
\* stamps expire.
ListFresh == List /\ \A p \in DOMAIN inventory' : inventory'[p] = StampOf(disk[p])
Fairness  == WF_vars(Step) /\ SF_vars(Check(TRUE)) /\ SF_vars(ListFresh)
FairSpec  == Spec /\ Fairness

-------------------------------------------------------------------------------
(* Properties *)

Parse == [data : Data, torn : BOOLEAN, mixed : BOOLEAN]
Entry == [stamp : Stamp, parsed : Parse,
          marks : [prefix : Data, tail : Data, safe : BOOLEAN], fp : Seq(Data)]
IsFiles(f) == DOMAIN f \subseteq Paths /\ \A p \in DOMAIN f : f[p] \in Entry
IsComponents(c) ==
    /\ DOMAIN c \subseteq Paths
    /\ \A p \in DOMAIN c : c[p].shows \in Parse /\ c[p].sig.stamp \in Stamp
IsSnapshot(s) == s.rev \in Nat /\ IsComponents(s.logs)

\* Every variable keeps its type, and no pass works on more than it listed.
TypeOK ==
    /\ disk \in [Paths -> Log] /\ evidence \in Nat \ {0}
    /\ edits \in 0..MaxEdits /\ forces \in 0..MaxForces /\ faults \in 0..MaxFaults
    /\ IsFiles(files) /\ IsSnapshot(snapshot) /\ auxiliary \in 0..evidence
    /\ IsFiles(db.files) /\ IsSnapshot(db.snapshot) /\ db.auxiliary \in 0..evidence
    /\ IsComponents(components)
    /\ dirty \subseteq Paths /\ force \in BOOLEAN
    /\ metadata \in [Paths -> Stamp] /\ cursor \in [Paths -> Nat]
    /\ pc \in {"idle", "check", "next", "read", "after", "mark", "commit"}
    /\ DOMAIN inventory \subseteq Paths
    /\ appends \in BOOLEAN /\ parsed \in Parse /\ touched \in BOOLEAN
    /\ pc \in {"next", "read", "after", "mark"} =>
          DOMAIN todo \cup DOMAIN next = DOMAIN inventory /\ IsFiles(next)
    /\ pc \in {"read", "after", "mark"} => todo # <<>>

\* A log has the chunks that were kept of it.
Matches(log, entry) ==
    /\ Len(log.data) >= entry.stamp.size
    /\ Fingerprint(Take(log.data, entry.stamp.size)) = entry.fp

\* A log that has the chunks kept of it begins with what was parsed, however the
\* parse was continued: a comparison of chunks, by the audit or on demand, never
\* takes a wrong parse for a right one.  A log that changed under its parse in a way
\* that no stamp can tell is the exception here and below.
FingerprintsTell ==
    \A p \in DOMAIN files :
       Matches(disk[p], files[p]) /\ ~files[p].parsed.mixed
          => IsPrefix(files[p].parsed.data, disk[p].data)

\* No parse was ever continued in the middle of a line.
LinesWhole == \A p \in DOMAIN files : files[p].parsed.torn => files[p].parsed.mixed

\* The snapshot shows what was parsed, although components are reused by their
\* signatures and not by their content, and also from passes that failed.
SnapshotShowsParsed ==
    snapshot.rev > 0 =>
       /\ DOMAIN snapshot.logs = DOMAIN files
       /\ \A p \in DOMAIN files :
             LET shown == snapshot.logs[p].shows IN
             \/ shown.data = files[p].parsed.data
             \/ shown.mixed \/ files[p].parsed.mixed

\* A committed revision is never given to other content, and never goes back,
\* across failures, crashes and releases with other prices.
RevisionsName ==
    [][/\ db'.snapshot.rev >= db.snapshot.rev
       /\ db'.snapshot.rev = db.snapshot.rev => db'.snapshot = db.snapshot]_vars

Shown(s, p) == IF p \in DOMAIN s.logs THEN s.logs[p].shows ELSE NoParse

\* What is shown of a log is what it began with at some time since the last
\* explicit refresh.
ShownRecently(s, p) == \E d \in since[p] : IsPrefix(Shown(s, p).data, d)

\* When an explicit refresh is done, the snapshot shows of every log what the log
\* began with at some time since it was asked for: "full validation on demand".
ForceExact ==
    [][force /\ ~force' /\ faults' = faults =>
         \A p \in Paths : ShownRecently(snapshot', p) \/ Shown(snapshot', p).mixed]_vars

\* The same of every log, whenever it was written: false.
ForceShowsAll ==
    [][force /\ ~force' /\ faults' = faults =>
         \A p \in Paths : ShownRecently(snapshot', p)]_vars

\* What the index shows of a log is what the log holds.
Exact(p) ==
    IF Exists(p)
    THEN /\ p \in DOMAIN snapshot.logs /\ snapshot.logs[p].sig.evidence = evidence
         /\ \/ Shown(snapshot, p).data = disk[p].data
            \/ /\ Shown(snapshot, p).mixed
               /\ SameIdentity(snapshot.logs[p].sig.stamp, StampOf(disk[p]))
    ELSE p \notin DOMAIN snapshot.logs

\* Once nobody writes, the index comes to show what is there, whatever was
\* written and whichever hint, pass or process was lost: "dropped notifications
\* ... converge on the same inventory".
Converges == <>[](\A p \in Paths \ Network : Exact(p))
===============================================================================
