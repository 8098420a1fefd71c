----------------------------- MODULE LedgerProofs -----------------------------
(***************************************************************************)
(* A log is read in pieces. What was read and saved, completed with all    *)
(* that a whole reading fills in, goes on as if it had never been saved.   *)
(* And what is published of it is shown in pages that tile every list.     *)
(***************************************************************************)
EXTENDS Ledger, AccountingProofs

-------------------------------------------------------------------------------
(* Lines consumed one after another *)

\* FoldLeft is what its name says: for parses.
ParseFrom(base, s) == FoldLeft(Consume, base, s)

ParseFolds(g, base, s, n) ==
    g = [T \in SUBSET (1..n) |->
           IF T = {} THEN base ELSE Consume(g[T \ {Max(T)}], s[Max(T)])]

LEMMA ParseFoldNext ==
    ASSUME NEW base, NEW s, NEW n \in Nat, NEW g, ParseFolds(g, base, s, n)
    PROVE  \E h : ParseFolds(h, base, s, n + 1)
  <1> DEFINE h == [T \in SUBSET (1..n + 1) |->
                     IF n + 1 \notin T THEN g[T] ELSE Consume(g[T \ {n + 1}], s[n + 1])]
             Value(T) == IF T = {} THEN base ELSE Consume(h[T \ {Max(T)}], s[Max(T)])
  <1>1. ASSUME NEW T \in SUBSET (1..n)
        PROVE  /\ T \in SUBSET (1..n + 1) /\ h[T] = g[T]
               /\ g[T] = IF T = {} THEN base ELSE Consume(g[T \ {Max(T)}], s[Max(T)])
    <2>1. T \in SUBSET (1..n + 1) /\ n + 1 \notin T
      OBVIOUS
    <2> QED  BY <2>1 DEF ParseFolds
  <1>2. ASSUME NEW T \in SUBSET (1..n + 1) PROVE h[T] = Value(T)
    <2>1. CASE n + 1 \notin T
      <3>1. T \in SUBSET (1..n)
        BY <2>1
      <3>2. T \ {Max(T)} \in SUBSET (1..n)
        BY <3>1
      <3>3. h[T] = g[T] /\ h[T \ {Max(T)}] = g[T \ {Max(T)}]
        BY <1>1, <3>1, <3>2
      <3> HIDE DEF h
      <3> QED  BY <1>1, <3>1, <3>3
    <2>2. CASE n + 1 \in T
      <3>1. Max(T) = n + 1
        BY <2>2, GreatestIs
      <3>2. T \ {n + 1} \in SUBSET (1..n)
        OBVIOUS
      <3>3. h[T \ {n + 1}] = g[T \ {n + 1}]
        BY <1>1, <3>2
      <3>4. h[T] = Consume(g[T \ {n + 1}], s[n + 1])
        BY <2>2
      <3> HIDE DEF h
      <3> QED  BY <2>2, <3>1, <3>3, <3>4
    <2> QED  BY <2>1, <2>2
  <1>3. h = [T \in SUBSET (1..n + 1) |-> h[T]]
    OBVIOUS
  <1> HIDE DEF h
  <1>4. h = [T \in SUBSET (1..n + 1) |-> Value(T)]
    BY <1>2, <1>3
  <1> QED  BY <1>4 DEF ParseFolds

\* Its partial results.
ParseRuns(h, base, s, n) == h[0] = base /\ \A k \in 1..n : h[k] = Consume(h[k - 1], s[k])

LEMMA ParseFoldIs ==
    ASSUME NEW base, NEW S, NEW s \in Seq(S)
    PROVE  \E h : ParseRuns(h, base, s, Len(s)) /\ ParseFrom(base, s) = h[Len(s)]
  <1> DEFINE iter == CHOOSE g : g = [T \in SUBSET (DOMAIN s) |->
                         IF T = {} THEN base ELSE Consume(g[T \ {Max(T)}], s[Max(T)])]
             some == {n \in Nat : \E g : ParseFolds(g, base, s, n)}
             n == Len(s)
             h == [k \in 0..n |-> iter[1..k]]
  <1>1. DOMAIN s = 1..n /\ n \in Nat
    OBVIOUS
  <1>2. n \in some
    <2>1. ParseFolds([T \in SUBSET (1..0) |-> base], base, s, 0)
      <3>1. \A T \in SUBSET (1..0) : T = {}
        OBVIOUS
      <3> QED  BY <3>1 DEF ParseFolds
    <2>2. \A k \in some : k + 1 \in some
      BY ParseFoldNext
    <2> QED  BY <1>1, <2>1, <2>2, Induct
  <1>3. ParseFolds(iter, base, s, n)
    BY <1>1, <1>2 DEF ParseFolds
  <1>4. ParseFrom(base, s) = iter[1..n]
    BY <1>1 DEF ParseFrom, FoldLeft, MapThenFoldSet
  <1> HIDE DEF iter, n
  <1>5. \A T \in SUBSET (1..n) :
            iter[T] = IF T = {} THEN base ELSE Consume(iter[T \ {Max(T)}], s[Max(T)])
    BY <1>3 DEF ParseFolds
  <1>6. ASSUME NEW k \in 1..n PROVE iter[1..k] = Consume(iter[1..k - 1], s[k])
    <2>1. k \in Nat /\ 1..k \in SUBSET (1..n) /\ 1..k # {} /\ k \in 1..k
      BY <1>1
    <2>2. Max(1..k) = k
      BY <2>1, GreatestIs
    <2>3. (1..k) \ {k} = 1..k - 1
      BY <2>1
    <2> QED  BY <1>5, <2>1, <2>2, <2>3
  <1>7. iter[1..0] = base
    <2>1. 1..0 = {} /\ 1..0 \in SUBSET (1..n)
      OBVIOUS
    <2> QED  BY <1>5, <2>1
  <1>8. h[0] = base /\ \A k \in 1..n : h[k] = Consume(h[k - 1], s[k])
    <2>1. \A k \in 0..n : h[k] = iter[1..k]
      OBVIOUS
    <2>2. \A k \in 1..n : k \in 0..n /\ k - 1 \in 0..n
      BY <1>1
    <2>3. 0 \in 0..n
      BY <1>1
    <2> HIDE DEF h
    <2> QED  BY <1>6, <1>7, <2>1, <2>2, <2>3
  <1>9. ParseFrom(base, s) = h[n]
    BY <1>1, <1>4
  <1>10. ParseRuns(h, base, s, n)
    <2> HIDE DEF h
    <2> QED  BY <1>8 DEF ParseRuns
  <1> HIDE DEF h
  <1> QED  BY <1>9, <1>10 DEF n

\* Every longer beginning of s parses one line more.
ParseGrows(base, s) ==
    LET F(k) == ParseFrom(base, SubSeq(s, 1, k))
    IN  F(0) = base /\ \A k \in 1..Len(s) : F(k) = Consume(F(k - 1), s[k])

LEMMA ParseFoldStep ==
    ASSUME NEW base, NEW S, NEW s \in Seq(S)
    PROVE  ParseGrows(base, s)
  <1> DEFINE F(k) == ParseFrom(base, SubSeq(s, 1, k))
  <1>1. PICK h : ParseRuns(h, base, s, Len(s))
    BY ParseFoldIs
  <1>2. ASSUME NEW k \in 0..Len(s) PROVE F(k) = h[k]
    <2> DEFINE t == SubSeq(s, 1, k)
    <2>1. t \in Seq(S) /\ Len(t) = k /\ \A i \in 1..k : t[i] = s[i]
      BY Beginning
    <2> HIDE DEF t
    <2>2. PICK g : ParseRuns(g, base, t, k) /\ ParseFrom(base, t) = g[k]
      BY <2>1, ParseFoldIs
    <2> DEFINE T == {i \in Nat : i <= k => g[i] = h[i]}
    <2>3. 0 \in T
      BY <1>1, <2>2 DEF ParseRuns
    <2>4. ASSUME NEW i \in T PROVE i + 1 \in T
      <3> SUFFICES ASSUME i + 1 <= k PROVE g[i + 1] = h[i + 1]
        OBVIOUS
      <3>1. i + 1 \in 1..k /\ i + 1 \in 1..Len(s) /\ (i + 1) - 1 = i /\ i <= k
        OBVIOUS
      <3>2. g[i] = h[i]
        BY <3>1
      <3> QED  BY <1>1, <2>1, <2>2, <3>1, <3>2 DEF ParseRuns
    <2>5. k \in T
      <3>1. \A i \in Nat : i \in T
        <4> HIDE DEF T
        <4>1. T \in SUBSET Nat
          BY DEF T
        <4> QED  BY <2>3, <2>4, <4>1, Induct
      <3>2. k \in Nat
        OBVIOUS
      <3> HIDE DEF T
      <3> QED  BY <3>1, <3>2
    <2> QED  BY <2>2, <2>5 DEF t
  <1> HIDE DEF F
  <1>3. F(0) = base
    <2>1. 0 \in 0..Len(s)
      OBVIOUS
    <2> QED  BY <1>1, <1>2, <2>1 DEF ParseRuns
  <1>4. ASSUME NEW k \in 1..Len(s) PROVE F(k) = Consume(F(k - 1), s[k])
    <2>1. k \in 0..Len(s) /\ k - 1 \in 0..Len(s)
      OBVIOUS
    <2> QED  BY <1>1, <1>2, <2>1 DEF ParseRuns
  <1> QED  BY <1>3, <1>4 DEF F, ParseGrows

-------------------------------------------------------------------------------
(* A parse and its saved copy *)

ParseFields ==
    {"offset", "meta", "timer", "tiers", "turns", "rawCreated", "rawStart", "rawEnd",
     "id", "root", "parent", "fork", "agent", "model", "models", "tier", "project",
     "total", "last", "rows", "tasks", "lines", "errors", "created", "start", "end",
     "env", "path", "source", "uid", "title", "detailed", "resolved", "inherited", "copied",
     "speed", "pricing"}

\* What only Completed writes, and the two texts it fills in.
Filled == {"id", "root", "resolved", "offset", "start", "end", "created"}

\* The fields by name, for proofs that need not know that there are no others.
LEMMA FieldNames ==
    /\ "meta" \in ParseFields
    /\ "timer" \in ParseFields
    /\ "tiers" \in ParseFields
    /\ "turns" \in ParseFields
    /\ "rawCreated" \in ParseFields
    /\ "rawStart" \in ParseFields
    /\ "rawEnd" \in ParseFields
    /\ "parent" \in ParseFields
    /\ "fork" \in ParseFields
    /\ "agent" \in ParseFields
    /\ "model" \in ParseFields
    /\ "models" \in ParseFields
    /\ "tier" \in ParseFields
    /\ "project" \in ParseFields
    /\ "total" \in ParseFields
    /\ "last" \in ParseFields
    /\ "rows" \in ParseFields
    /\ "tasks" \in ParseFields
    /\ "lines" \in ParseFields
    /\ "errors" \in ParseFields
    /\ "id" \in ParseFields
    /\ "root" \in ParseFields
    /\ "resolved" \in ParseFields
    /\ "offset" \in ParseFields
    /\ "start" \in ParseFields
    /\ "end" \in ParseFields
    /\ "created" \in ParseFields
    /\ "meta" \notin Filled
    /\ "timer" \notin Filled
    /\ "tiers" \notin Filled
    /\ "turns" \notin Filled
    /\ "rawCreated" \notin Filled
    /\ "rawStart" \notin Filled
    /\ "rawEnd" \notin Filled
    /\ "parent" \notin Filled
    /\ "fork" \notin Filled
    /\ "agent" \notin Filled
    /\ "model" \notin Filled
    /\ "models" \notin Filled
    /\ "tier" \notin Filled
    /\ "project" \notin Filled
    /\ "total" \notin Filled
    /\ "last" \notin Filled
    /\ "rows" \notin Filled
    /\ "tasks" \notin Filled
    /\ "lines" \notin Filled
    /\ "errors" \notin Filled
    /\ "id" \in Filled
    /\ "root" \in Filled
    /\ "resolved" \in Filled
    /\ "offset" \in Filled
    /\ "start" \in Filled
    /\ "end" \in Filled
    /\ "created" \in Filled
    /\ Filled \subseteq ParseFields
  BY DEF ParseFields, Filled

\* Every model of a row, and the one in use, was noted before.
ModelsNoted(p) ==
    /\ NoName \notin p.models
    /\ p.model \in p.models \cup {NoName}
    /\ \A i \in DOMAIN p.rows : p.rows[i].model \in p.models \cup {NoName}

Regular(p) ==
    /\ p = [f \in ParseFields |-> p[f]]
    /\ Sequence(p.rows)
    /\ ModelsNoted(p)

IdOf(p, name) == IF p.id = NoId THEN name ELSE p.id
RootOf(p, name) == IF p.root = NoId THEN IdOf(p, name) ELSE p.root

\* q is what p became when it was completed, and perhaps read on.
Alike(p, q, name) ==
    /\ p = [f \in ParseFields |-> p[f]]
    /\ q = [f \in ParseFields |-> q[f]]
    /\ \A f \in ParseFields \ Filled : q[f] = p[f]
    /\ q.id = IdOf(p, name)
    /\ q.root = RootOf(p, name)

LEMMA NewParseIsRegular == Regular(NewParse)
  <1>1. NewParse = [f \in ParseFields |-> NewParse[f]]
    BY DEF NewParse, ParseFields
  <1>2. /\ NewParse.rows = <<>> /\ NewParse.models = {} /\ NewParse.model = NoName
    BY DEF NewParse
  <1>3. Sequence(<<>>) /\ DOMAIN <<>> = {}
    BY DEF Sequence
  <1> HIDE DEF NewParse
  <1>4. NoName \notin {} /\ NoName \in {} \cup {NoName}
    OBVIOUS
  <1>5. ModelsNoted(NewParse)
    BY <1>2, <1>3, <1>4 DEF ModelsNoted
  <1>6. Sequence(NewParse.rows)
    BY <1>2, <1>3
  <1> QED  BY <1>1, <1>5, <1>6 DEF Regular

LEMMA Appended ==
    ASSUME NEW s, Sequence(s), NEW x
    PROVE  /\ Sequence(Append(s, x))
           /\ \A i \in DOMAIN Append(s, x) :
                  \/ i \in DOMAIN s /\ Append(s, x)[i] = s[i]
                  \/ Append(s, x)[i] = x
  <1> DEFINE S == {s[i] : i \in DOMAIN s} \cup {x}
             t == Append(s, x)
  <1>1. s \in Seq(S)
    BY DEF Sequence
  <1>2. t \in Seq(S) /\ Len(t) = Len(s) + 1
    BY <1>1
  <1>3. \A i \in DOMAIN t : (i \in DOMAIN s /\ t[i] = s[i]) \/ t[i] = x
    BY <1>1
  <1>4. t \in Seq({t[i] : i \in DOMAIN t})
    <2> HIDE DEF t
    <2> QED  BY <1>2
  <1> QED  BY <1>3, <1>4 DEF Sequence

-------------------------------------------------------------------------------
(* What is noted stays noted *)

LEMMA NoteIsRegular ==
    ASSUME NEW p, Regular(p), NEW line
    PROVE  Regular(Note(p, line)) /\ Note(p, line).rows = p.rows
           /\ Note(p, line).model \in Note(p, line).models \cup {NoName}
  <1> DEFINE m == NoteModel(p, line.model)
  <1>1. Regular(m) /\ m.rows = p.rows
    BY FieldNames DEF Regular, ModelsNoted, NoteModel
  <1>2. Note(p, line) = NoteTier(m, line.tier, line.at)
    BY DEF Note
  <1> HIDE DEF m
  <1>3. /\ Regular(NoteTier(m, line.tier, line.at))
        /\ NoteTier(m, line.tier, line.at).rows = m.rows
    BY <1>1, FieldNames DEF Regular, ModelsNoted, NoteTier
  <1> QED  BY <1>1, <1>2, <1>3 DEF Regular, ModelsNoted

LEMMA ProjectIsRegular ==
    ASSUME NEW p, Regular(p), NEW line
    PROVE  Regular(Project(p, line))
  BY FieldNames DEF Regular, ModelsNoted, Project

LEMMA NamedIsRegular ==
    ASSUME NEW p, Regular(p), NEW a, NEW b, NEW c, NEW d, NEW e, NEW f
    PROVE  Regular([p EXCEPT !.meta = TRUE, !.id = a, !.root = b, !.fork = c, !.parent = d,
                             !.agent = e, !.rawCreated = f])
  BY FieldNames DEF Regular, ModelsNoted

LEMMA MetaIsRegular ==
    ASSUME NEW p, Regular(p), NEW line
    PROVE  Regular(Meta(p, line))
  <1> DEFINE id == IF line.id = NoId THEN p.id ELSE line.id
             root == IF line.root = NoId THEN id ELSE line.root
             agent == line.parent # NoId \/ line.agent
             parent == IF ~agent \/ line.parent # NoId THEN line.parent
                       ELSE IF line.fork # NoId THEN line.fork
                       ELSE IF root # id THEN root ELSE NoId
             created == IF line.created = NoTime THEN p.rawCreated ELSE line.created
             named == [p EXCEPT !.meta = TRUE, !.id = id, !.root = root, !.fork = line.fork,
                                !.parent = parent, !.agent = agent, !.rawCreated = created]
  <1>1. Regular(named)
    <2> HIDE DEF id, root, agent, parent, created
    <2> QED  BY NamedIsRegular
  <1>2. Meta(p, line) = IF p.meta THEN p ELSE Note(Project(named, line), line)
    BY DEF Meta
  <1> HIDE DEF named
  <1> QED  BY <1>1, <1>2, ProjectIsRegular, NoteIsRegular

LEMMA ContextIsRegular ==
    ASSUME NEW p, Regular(p), NEW line
    PROVE  Regular(Context(p, line))
  <1> DEFINE t == [p EXCEPT !.turns = @ \cup ({line.turn} \ {NoId})]
  <1>1. Regular(t)
    BY FieldNames DEF Regular, ModelsNoted
  <1>2. Context(p, line) = Note(Project(t, line), line)
    BY DEF Context
  <1> HIDE DEF t
  <1> QED  BY <1>1, <1>2, ProjectIsRegular, NoteIsRegular

LEMMA TaskIsRegular ==
    ASSUME NEW p, Regular(p), NEW line
    PROVE  Regular(TaskComplete(p, line))
  BY FieldNames DEF Regular, ModelsNoted, TaskComplete

WithRow(p, row, timer) ==
    [p EXCEPT !.total = row.total, !.last = row.last, !.timer = timer, !.rows = Append(@, row)]

LEMMA RowIsRegular ==
    ASSUME NEW p, Regular(p), NEW row, row.model \in p.models \cup {NoName}, NEW timer
    PROVE  Regular(WithRow(p, row, timer))
  <1> DEFINE q == WithRow(p, row, timer)
             rows == Append(p.rows, row)
  <1>1. /\ q = [f \in ParseFields |-> q[f]]
        /\ q.rows = rows /\ q.model = p.model /\ q.models = p.models
    BY FieldNames DEF Regular, WithRow
  <1>2. /\ Sequence(rows)
        /\ \A i \in DOMAIN rows :
               \/ i \in DOMAIN p.rows /\ rows[i] = p.rows[i]
               \/ rows[i] = row
    BY Appended DEF Regular
  <1> HIDE DEF q, rows
  <1>3. \A i \in DOMAIN rows : rows[i].model \in p.models \cup {NoName}
    BY <1>2 DEF Regular, ModelsNoted
  <1>4. Regular(q)
    BY <1>1, <1>2, <1>3 DEF Regular, ModelsNoted
  <1> QED  BY <1>4 DEF q

LEMMA CountIsRegular ==
    ASSUME NEW p, Regular(p), NEW line
    PROVE  Regular(TokenCount(p, line))
  <1> DEFINE noted == Note(p, line)
             fresh == p.rows = <<>>
             changed == fresh \/ Last(p.rows).total # line.total
             timing == Timing(p.timer, line.at, line.last)
             output == IF fresh THEN line.last["output"]
                       ELSE Delta(line.total, Last(p.rows).total)["output"]
             timed == changed /\ output > 0 /\ output = line.last["output"]
             row == [at |-> line.at, model |-> noted.model, tier |-> noted.tier,
                     total |-> line.total, last |-> line.last,
                     request |-> IF timed THEN timing.request ELSE NoMs,
                     generation |-> IF timed THEN timing.generation ELSE NoMs]
             timer == IF changed THEN Closed(noted.timer, line.at) ELSE noted.timer
  <1>1. row.model = noted.model
    OBVIOUS
  <1>2. TokenCount(p, line) = WithRow(noted, row, timer)
    <2>1. [noted EXCEPT !.total = line.total, !.last = line.last,
                        !.timer = IF changed THEN Closed(@, line.at) ELSE @,
                        !.rows = Append(@, row)]
              = WithRow(noted, row, timer)
      <3>1. row.total = line.total /\ row.last = line.last
        OBVIOUS
      <3> HIDE DEF row, noted, changed
      <3> QED  BY <3>1 DEF WithRow
    <2> QED  BY <2>1 DEF TokenCount
  <1>3. Regular(noted) /\ noted.model \in noted.models \cup {NoName}
    BY NoteIsRegular
  <1> HIDE DEF row, noted, timer
  <1> QED  BY <1>1, <1>2, <1>3, RowIsRegular

LEMMA ConsumeIsRegular ==
    ASSUME NEW p, Regular(p), NEW line
    PROVE  Regular(Consume(p, line))
  <1> DEFINE counted == [p EXCEPT !.lines = @ + 1]
             failed == [counted EXCEPT !.errors = @ + 1]
             seen == [counted EXCEPT !.rawStart = Earliest(@, line.at),
                                     !.rawEnd = Later(@, line.at),
                                     !.timer = Observe(@, line)]
  <1>1. Regular(counted)
    BY FieldNames DEF Regular, ModelsNoted
  <1>2. Regular(failed) /\ Regular(seen)
    <2> HIDE DEF counted
    <2> QED  BY <1>1, FieldNames DEF Regular, ModelsNoted
  <1>3. Consume(p, line) = IF line.kind = "garbled" THEN failed ELSE Understood(seen, line)
    BY DEF Consume
  <1> HIDE DEF failed, seen
  <1>4. Regular(Understood(seen, line))
    <2>1. Regular(Project(seen, line))
      BY <1>2, ProjectIsRegular
    <2> QED  BY <1>2, <2>1, MetaIsRegular, ContextIsRegular, NoteIsRegular, CountIsRegular,
                TaskIsRegular DEF Understood
  <1> QED  BY <1>2, <1>3, <1>4

-------------------------------------------------------------------------------
(* The copy reads the same line in the same way *)

\* A parse that stopped there.
Paused(p, offset) == [p EXCEPT !.offset = offset]

LEMMA CompletedIsAlike ==
    ASSUME NEW p, Regular(p), NEW name, NEW offset
    PROVE  /\ Alike(p, Completed(Paused(p, offset), name), name)
           /\ Completed(Paused(p, offset), name).offset = offset
  <1> DEFINE x == Paused(p, offset)
             q == Completed(x, name)
             start == IF x.rawStart # NoTime THEN x.rawStart ELSE x.rawCreated
             end == IF x.rawEnd # NoTime THEN x.rawEnd ELSE start
             created == IF x.rawCreated = NoTime THEN start ELSE x.rawCreated
             used == {x.rows[i].model : i \in DOMAIN x.rows}
             models == (x.models \cup used \cup {x.model}) \ {NoName}
  <1>1. /\ x = [f \in ParseFields |-> x[f]]
        /\ \A f \in ParseFields : f # "offset" => x[f] = p[f]
        /\ x.offset = offset
    BY FieldNames DEF Regular, Paused
  <1> HIDE DEF x
  <1>2. /\ q = [f \in ParseFields |-> q[f]]
        /\ \A f \in ParseFields \ Filled : f # "models" => q[f] = x[f]
        /\ q.id = IdOf(x, name) /\ q.root = RootOf(x, name)
        /\ q.models = models /\ q.offset = x.offset
    <2>1. q = [x EXCEPT !.id = IdOf(x, name), !.root = RootOf(x, name),
                        !.resolved = ~x.agent, !.start = start, !.end = end,
                        !.created = created, !.models = models]
      BY DEF Completed, IdOf, RootOf
    <2> HIDE DEF q, start, end, created, models, used
    <2> QED  BY <1>1, <2>1, FieldNames
  <1> HIDE DEF q
  <1>3. x.models = p.models /\ x.rows = p.rows /\ x.model = p.model /\ x.id = p.id
        /\ x.root = p.root
    BY <1>1, FieldNames
  <1>4. q.models = p.models
    <2>1. used \subseteq p.models \cup {NoName}
      BY <1>3 DEF Regular, ModelsNoted
    <2>2. p.model \in p.models \cup {NoName} /\ NoName \notin p.models
      BY DEF Regular, ModelsNoted
    <2> HIDE DEF used
    <2> QED  BY <1>2, <1>3, <2>1, <2>2
  <1>5. \A f \in ParseFields \ Filled : q[f] = p[f]
    BY <1>1, <1>2, <1>4, FieldNames
  <1>6. q.id = IdOf(p, name) /\ q.root = RootOf(p, name)
    BY <1>2, <1>3 DEF IdOf, RootOf
  <1>7. Alike(p, q, name)
    BY <1>2, <1>5, <1>6 DEF Alike, Regular
  <1> QED  BY <1>1, <1>2, <1>7 DEF q, x

LEMMA NoteIsAlike ==
    ASSUME NEW p, NEW q, NEW name, Alike(p, q, name), NEW line
    PROVE  Alike(Note(p, line), Note(q, line), name)
  <1> DEFINE x == NoteModel(p, line.model)
             y == NoteModel(q, line.model)
  <1>1. Alike(x, y, name)
    BY FieldNames DEF Alike, NoteModel, IdOf, RootOf
  <1>2. Note(p, line) = NoteTier(x, line.tier, line.at)
    BY DEF Note
  <1>3. Note(q, line) = NoteTier(y, line.tier, line.at)
    BY DEF Note
  <1> HIDE DEF x, y
  <1>4. Alike(NoteTier(x, line.tier, line.at), NoteTier(y, line.tier, line.at), name)
    BY <1>1, FieldNames DEF Alike, NoteTier, IdOf, RootOf
  <1> QED  BY <1>2, <1>3, <1>4

LEMMA ProjectIsAlike ==
    ASSUME NEW p, NEW q, NEW name, Alike(p, q, name), NEW line
    PROVE  Alike(Project(p, line), Project(q, line), name)
  BY FieldNames DEF Alike, Project, IdOf, RootOf

LEMMA MetaIsAlike ==
    ASSUME NEW p, NEW q, NEW name, Alike(p, q, name), NEW line,
           line.id = NoId => line.root = NoId \/ line.root # name
    PROVE  Alike(Meta(p, line), Meta(q, line), name)
  <1> DEFINE Id(x) == IF line.id = NoId THEN x.id ELSE line.id
             Root(x) == IF line.root = NoId THEN Id(x) ELSE line.root
             agent == line.parent # NoId \/ line.agent
             Parent(x) == IF ~agent \/ line.parent # NoId THEN line.parent
                          ELSE IF line.fork # NoId THEN line.fork
                          ELSE IF Root(x) # Id(x) THEN Root(x) ELSE NoId
             Created(x) == IF line.created = NoTime THEN x.rawCreated ELSE line.created
             WithNames(x) == [x EXCEPT !.meta = TRUE, !.id = Id(x), !.root = Root(x),
                                       !.fork = line.fork, !.parent = Parent(x),
                                       !.agent = agent, !.rawCreated = Created(x)]
  <1>1. /\ p.meta = q.meta /\ p.rawCreated = q.rawCreated
        /\ q.id = IF p.id = NoId THEN name ELSE p.id
    BY FieldNames DEF Alike, IdOf
  <1>2. /\ Id(q) = IF Id(p) = NoId THEN name ELSE Id(p)
        /\ Root(q) = IF Root(p) = NoId THEN Id(q) ELSE Root(p)
        /\ Parent(q) = Parent(p)
        /\ Created(q) = Created(p)
    <2> HIDE DEF agent
    <2> QED  BY <1>1
  <1>3. CASE p.meta
    BY <1>1, <1>3 DEF Meta
  <1>4. CASE ~p.meta
    <2>1. Alike(WithNames(p), WithNames(q), name)
      <3> HIDE DEF Id, Root, agent, Parent, Created
      <3> QED  BY <1>2, FieldNames DEF Alike, IdOf, RootOf
    <2>2. Meta(p, line) = Note(Project(WithNames(p), line), line)
      BY <1>4 DEF Meta
    <2>3. Meta(q, line) = Note(Project(WithNames(q), line), line)
      BY <1>1, <1>4 DEF Meta
    <2> HIDE DEF WithNames
    <2>4. Alike(Project(WithNames(p), line), Project(WithNames(q), line), name)
      BY <2>1, ProjectIsAlike
    <2> QED  BY <2>2, <2>3, <2>4, NoteIsAlike
  <1> QED  BY <1>3, <1>4

LEMMA ContextIsAlike ==
    ASSUME NEW p, NEW q, NEW name, Alike(p, q, name), NEW line
    PROVE  Alike(Context(p, line), Context(q, line), name)
  <1> DEFINE Turned(x) == [x EXCEPT !.turns = @ \cup ({line.turn} \ {NoId})]
  <1>1. Alike(Turned(p), Turned(q), name)
    BY FieldNames DEF Alike, IdOf, RootOf
  <1>2. /\ Context(p, line) = Note(Project(Turned(p), line), line)
        /\ Context(q, line) = Note(Project(Turned(q), line), line)
    BY DEF Context
  <1> HIDE DEF Turned
  <1>3. Alike(Project(Turned(p), line), Project(Turned(q), line), name)
    BY <1>1, ProjectIsAlike
  <1> QED  BY <1>2, <1>3, NoteIsAlike

LEMMA TaskIsAlike ==
    ASSUME NEW p, NEW q, NEW name, Alike(p, q, name), NEW line
    PROVE  Alike(TaskComplete(p, line), TaskComplete(q, line), name)
  BY FieldNames DEF Alike, IdOf, RootOf, TaskComplete

LEMMA CountIsAlike ==
    ASSUME NEW p, NEW q, NEW name, Alike(p, q, name), NEW line
    PROVE  Alike(TokenCount(p, line), TokenCount(q, line), name)
  <1> DEFINE fresh == p.rows = <<>>
             changed == fresh \/ Last(p.rows).total # line.total
             timing == Timing(p.timer, line.at, line.last)
             output == IF fresh THEN line.last["output"]
                       ELSE Delta(line.total, Last(p.rows).total)["output"]
             timed == changed /\ output > 0 /\ output = line.last["output"]
             Counted(x) == [at |-> line.at, model |-> x.model, tier |-> x.tier,
                            total |-> line.total, last |-> line.last,
                            request |-> IF timed THEN timing.request ELSE NoMs,
                            generation |-> IF timed THEN timing.generation ELSE NoMs]
             Timer(x) == IF changed THEN Closed(x.timer, line.at) ELSE x.timer
             Rowed(x) == [x EXCEPT !.total = line.total, !.last = line.last,
                                   !.timer = Timer(x), !.rows = Append(@, Counted(x))]
             x == Note(p, line)
             y == Note(q, line)
  <1>1. p.rows = q.rows /\ p.timer = q.timer
    BY FieldNames DEF Alike
  <1>2. TokenCount(p, line) = Rowed(x)
    BY DEF TokenCount
  <1>3. TokenCount(q, line) = Rowed(y)
    BY <1>1 DEF TokenCount
  <1>4. Alike(x, y, name)
    BY NoteIsAlike
  <1> HIDE DEF x, y, timing, changed, timed
  <1>5. x.model = y.model /\ x.tier = y.tier /\ x.timer = y.timer
    BY <1>4, FieldNames DEF Alike
  <1>6. Counted(x) = Counted(y) /\ Timer(x) = Timer(y)
    BY <1>5
  <1> HIDE DEF Counted, Timer
  <1>7. Alike(Rowed(x), Rowed(y), name)
    BY <1>4, <1>6, FieldNames DEF Alike, IdOf, RootOf
  <1> QED  BY <1>2, <1>3, <1>7

\* A line that names no session but a root tells a root other than the file:
\* only then is a name from the file as good as none.
Rooted(line, name) ==
    line.kind = "meta" /\ line.id = NoId => line.root = NoId \/ line.root # name

LEMMA ConsumeIsAlike ==
    ASSUME NEW p, NEW q, NEW name, Alike(p, q, name), NEW line, Rooted(line, name)
    PROVE  Alike(Consume(p, line), Consume(q, line), name)
  <1> DEFINE Counted(x) == [x EXCEPT !.lines = @ + 1]
             Failed(x) == [Counted(x) EXCEPT !.errors = @ + 1]
             Seen(x) == [Counted(x) EXCEPT !.rawStart = Earliest(@, line.at),
                                           !.rawEnd = Later(@, line.at),
                                           !.timer = Observe(@, line)]
  <1>1. Alike(Counted(p), Counted(q), name)
    BY FieldNames DEF Alike, IdOf, RootOf
  <1>2. Alike(Failed(p), Failed(q), name) /\ Alike(Seen(p), Seen(q), name)
    <2> HIDE DEF Counted
    <2> QED  BY <1>1, FieldNames DEF Alike, IdOf, RootOf
  <1>3. \A x : Consume(x, line) = IF line.kind = "garbled" THEN Failed(x)
                                  ELSE Understood(Seen(x), line)
    BY DEF Consume
  <1> HIDE DEF Failed, Seen
  <1>4. Alike(Understood(Seen(p), line), Understood(Seen(q), line), name)
    <2>1. CASE line.kind = "meta"
      <3>1. Alike(Meta(Seen(p), line), Meta(Seen(q), line), name)
        BY <1>2, <2>1, MetaIsAlike DEF Rooted
      <3> QED  BY <2>1, <3>1 DEF Understood
    <2>2. CASE line.kind = "settings"
      <3>1. Alike(Project(Seen(p), line), Project(Seen(q), line), name)
        BY <1>2, ProjectIsAlike
      <3>2. Alike(Note(Project(Seen(p), line), line), Note(Project(Seen(q), line), line), name)
        BY <3>1, NoteIsAlike
      <3> QED  BY <2>2, <3>2 DEF Understood
    <2>3. CASE line.kind = "context"
      BY <1>2, <2>3, ContextIsAlike DEF Understood
    <2>4. CASE line.kind = "count"
      BY <1>2, <2>4, CountIsAlike DEF Understood
    <2>5. CASE line.kind = "task"
      BY <1>2, <2>5, TaskIsAlike DEF Understood
    <2>6. CASE line.kind \notin {"meta", "settings", "context", "count", "task"}
      BY <1>2, <2>6 DEF Understood
    <2> QED  BY <2>1, <2>2, <2>3, <2>4, <2>5, <2>6
  <1> QED  BY <1>2, <1>3, <1>4

\* x and y differ in nothing but the fields that completing fills in.
SameFilled(x, y) ==
    /\ x = [f \in ParseFields |-> x[f]] /\ y = [f \in ParseFields |-> y[f]]
    /\ \A f \in ParseFields : x[f] = y[f] \/ f \in Filled
    /\ x.offset = y.offset

FillIn(z, id, root, resolved, start, end, created, models) ==
    [z EXCEPT !.id = id, !.root = root, !.resolved = resolved, !.start = start, !.end = end,
              !.created = created, !.models = models]

LEMMA FilledAlike ==
    ASSUME NEW x, NEW y, SameFilled(x, y), NEW id, NEW root, NEW resolved, NEW start, NEW end,
           NEW created, NEW models
    PROVE  FillIn(x, id, root, resolved, start, end, created, models)
               = FillIn(y, id, root, resolved, start, end, created, models)
  <1> DEFINE a == FillIn(x, id, root, resolved, start, end, created, models)
             b == FillIn(y, id, root, resolved, start, end, created, models)
  <1>1. \A f \in ParseFields : a[f] = b[f]
    BY DEF FillIn, SameFilled, Filled
  <1>2. a = [f \in ParseFields |-> a[f]] /\ b = [f \in ParseFields |-> b[f]]
    BY DEF FillIn, SameFilled
  <1> HIDE DEF a, b
  <1>3. a = b
    BY <1>1, <1>2
  <1> QED  BY <1>3 DEF a, b

LEMMA AlikeCompletesAlike ==
    ASSUME NEW p, NEW q, NEW name, Alike(p, q, name), NEW offset
    PROVE  Completed(Paused(p, offset), name) = Completed(Paused(q, offset), name)
  <1> DEFINE x == Paused(p, offset)
             y == Paused(q, offset)
             Start(z) == IF z.rawStart # NoTime THEN z.rawStart ELSE z.rawCreated
             End(z) == IF z.rawEnd # NoTime THEN z.rawEnd ELSE Start(z)
             Created(z) == IF z.rawCreated = NoTime THEN Start(z) ELSE z.rawCreated
             Used(z) == (z.models \cup {z.rows[i].model : i \in DOMAIN z.rows} \cup {z.model})
                            \ {NoName}
             Filling(z) == FillIn(z, IdOf(z, name), RootOf(z, name), ~z.agent, Start(z), End(z),
                                  Created(z), Used(z))
  <1>1. \A z : Completed(z, name) = Filling(z)
    BY DEF Completed, IdOf, RootOf, FillIn
  <1>2. Alike(x, y, name) /\ x.offset = y.offset
    BY FieldNames DEF Alike, IdOf, RootOf, Paused
  <1> HIDE DEF x, y
  <1>3. /\ x.rawStart = y.rawStart /\ x.rawEnd = y.rawEnd /\ x.rawCreated = y.rawCreated
        /\ x.models = y.models /\ x.rows = y.rows /\ x.model = y.model /\ x.agent = y.agent
    BY <1>2, FieldNames DEF Alike
  <1>4. /\ Start(x) = Start(y) /\ End(x) = End(y) /\ Created(x) = Created(y) /\ Used(x) = Used(y)
    BY <1>3
  <1>5. IdOf(x, name) = IdOf(y, name) /\ RootOf(x, name) = RootOf(y, name)
    BY <1>2 DEF Alike, IdOf, RootOf
  <1> HIDE DEF Start, End, Created, Used
  <1>6. Filling(x) = Filling(y)
    <2>1. \A f \in ParseFields \ Filled : y[f] = x[f]
      BY <1>2 DEF Alike
    <2>2. /\ x = [f \in ParseFields |-> x[f]] /\ y = [f \in ParseFields |-> y[f]]
          /\ \A f \in ParseFields : x[f] = y[f] \/ f \in Filled
      BY <1>2, <2>1 DEF Alike
    <2> HIDE DEF x, y
    <2>3. SameFilled(x, y)
      BY <1>2, <2>2 DEF SameFilled
    <2> QED  BY <1>3, <1>4, <1>5, <2>3, FilledAlike
  <1> HIDE DEF Filling
  <1> QED  BY <1>1, <1>6 DEF x, y

-------------------------------------------------------------------------------
(* Bytes *)

\* A torn body is left for the next reading.
Kept(size) == IF size % 3 = 1 THEN size - 1 ELSE size

LEMMA BodiesKept ==
    ASSUME NEW n \in Nat, NEW end \in 0..3 * n, NEW cut \in 0..end
    PROVE  /\ Bodies(0) = 0 /\ Bodies(3 * n) = n
           /\ Bodies(cut) \in 0..Bodies(end) /\ Bodies(end) \in 0..n
           /\ Bodies(Kept(cut)) = Bodies(cut)
  BY DEF Bodies, Kept

LEMMA ReadingIs ==
    ASSUME NEW p, NEW lines, NEW end
    PROVE  ReadRollout(p, lines, end)
             = Paused(ParseFrom(p, SubSeq(lines, Bodies(p.offset) + 1, Bodies(end))), Kept(end))
  BY DEF ReadRollout, ParseFrom, Kept, Paused

(***************************************************************************)
(* A file may be read in two parts, cut at any byte, and what was saved of *)
(* the first reading is all the second needs: session, model, tier, the    *)
(* counters before, the request being timed and the lines that were torn.  *)
(* Reading on gives what reading the whole file gives, in every field      *)
(* (ParseCheckpoint and read_file of reader.rs, parser.rs).                *)
(***************************************************************************)
THEOREM ReadOnIsReadWhole ==
    ASSUME NEW S, NEW lines \in Seq(S), NEW name,
           \A i \in 1..Len(lines) : Rooted(lines[i], name),
           NEW end \in 0..Size(lines), NEW cut \in 0..end
    PROVE  ParseFile(ParseFile(NewParse, name, lines, cut), name, lines, end)
               = ParseFile(NewParse, name, lines, end)
  <1> DEFINE n == Bodies(end)
             a == Bodies(cut)
             F(k) == ParseFrom(NewParse, SubSeq(lines, 1, k))
             saved == ParseFile(NewParse, name, lines, cut)
             rest == SubSeq(lines, a + 1, n)
             G(j) == ParseFrom(saved, SubSeq(rest, 1, j))
  <1>1. /\ a \in 0..n /\ n \in 0..Len(lines)
        /\ Bodies(0) = 0 /\ Bodies(Kept(cut)) = a
    <2> DEFINE m == Len(lines)
    <2>1. m \in Nat /\ end \in 0..3 * m
      BY DEF Size
    <2> HIDE DEF m, n, a
    <2>2. /\ Bodies(0) = 0
          /\ Bodies(cut) \in 0..Bodies(end) /\ Bodies(end) \in 0..m
          /\ Bodies(Kept(cut)) = Bodies(cut)
      BY <2>1, BodiesKept
    <2> QED  BY <2>2 DEF m, n, a
  <1> HIDE DEF n, a
  <1>2. NewParse.offset = 0
    BY DEF NewParse
  <1>3. ReadRollout(NewParse, lines, cut) = Paused(F(a), Kept(cut))
    BY <1>1, <1>2, ReadingIs DEF a
  <1>4. ReadRollout(NewParse, lines, end) = Paused(F(n), Kept(end))
    BY <1>1, <1>2, ReadingIs DEF n
  <1>5. F(0) = NewParse /\ \A k \in 1..Len(lines) : F(k) = Consume(F(k - 1), lines[k])
    <2>1. ParseGrows(NewParse, lines)
      BY ParseFoldStep
    <2> QED  BY <2>1 DEF ParseGrows
  <1>6. saved = Completed(Paused(F(a), Kept(cut)), name)
    BY <1>3 DEF ParseFile
  <1>7. rest \in Seq(S) /\ Len(rest) = n - a /\ \A i \in 1..n - a : rest[i] = lines[a + i]
    BY <1>1, Middle
  <1> HIDE DEF F, saved, rest
  <1>8. G(0) = saved /\ \A j \in 1..Len(rest) : G(j) = Consume(G(j - 1), rest[j])
    <2>1. ParseGrows(saved, rest)
      BY <1>7, ParseFoldStep
    <2> QED  BY <2>1 DEF ParseGrows
  <1>9. G(n - a) = ParseFrom(saved, rest)
    BY <1>7, Entire
  <1> HIDE DEF G
  <1>10. ASSUME NEW k \in 0..n PROVE Regular(F(k))
    <2> DEFINE T == {i \in Nat : i <= n => Regular(F(i))}
    <2>1. 0 \in T
      BY <1>5, NewParseIsRegular
    <2>2. ASSUME NEW i \in T PROVE i + 1 \in T
      <3> SUFFICES ASSUME i + 1 <= n PROVE Regular(F(i + 1))
        OBVIOUS
      <3>1. i + 1 \in 1..Len(lines) /\ (i + 1) - 1 = i /\ i <= n
        BY <1>1
      <3>2. Regular(F(i))
        BY <3>1
      <3> QED  BY <1>5, <3>1, <3>2, ConsumeIsRegular
    <2>3. T \in SUBSET Nat
      OBVIOUS
    <2> HIDE DEF T
    <2>4. \A i \in Nat : i \in T
      BY <2>1, <2>2, <2>3, Induct
    <2> USE DEF T
    <2> QED  BY <1>1, <2>4
  <1>11. Alike(F(a), saved, name) /\ saved.offset = Kept(cut)
    <2>1. Regular(F(a))
      BY <1>1, <1>10
    <2>2. /\ Alike(F(a), Completed(Paused(F(a), Kept(cut)), name), name)
          /\ Completed(Paused(F(a), Kept(cut)), name).offset = Kept(cut)
      BY <2>1, CompletedIsAlike
    <2> QED  BY <1>6, <2>2
  <1>12. Alike(F(n), G(n - a), name)
    <2> DEFINE T == {j \in Nat : j <= n - a => Alike(F(a + j), G(j), name)}
    <2>1. 0 \in T
      <3>1. a + 0 = a
        BY <1>1
      <3> QED  BY <1>8, <1>11, <3>1
    <2>2. ASSUME NEW j \in T PROVE j + 1 \in T
      <3> SUFFICES ASSUME j + 1 <= n - a PROVE Alike(F(a + (j + 1)), G(j + 1), name)
        OBVIOUS
      <3>1. /\ j + 1 \in 1..n - a /\ (j + 1) - 1 = j /\ j <= n - a
            /\ a + (j + 1) \in 1..Len(lines) /\ (a + (j + 1)) - 1 = a + j
        BY <1>1
      <3>2. Alike(F(a + j), G(j), name)
        BY <3>1
      <3>3. Rooted(lines[a + (j + 1)], name)
        BY <3>1
      <3>4. F(a + (j + 1)) = Consume(F(a + j), lines[a + (j + 1)])
        BY <1>5, <3>1
      <3>5. G(j + 1) = Consume(G(j), lines[a + (j + 1)])
        BY <1>7, <1>8, <3>1
      <3> QED  BY <3>2, <3>3, <3>4, <3>5, ConsumeIsAlike
    <2>3. T \in SUBSET Nat
      OBVIOUS
    <2> HIDE DEF T
    <2>4. \A j \in Nat : j \in T
      BY <2>1, <2>2, <2>3, Induct
    <2>5. n - a \in Nat /\ a + (n - a) = n
      BY <1>1
    <2> USE DEF T
    <2> QED  BY <2>4, <2>5
  <1>13. ReadRollout(saved, lines, end) = Paused(G(n - a), Kept(end))
    <2>1. ReadRollout(saved, lines, end)
              = Paused(ParseFrom(saved, SubSeq(lines, a + 1, n)), Kept(end))
      BY <1>1, <1>11, ReadingIs DEF n
    <2> QED  BY <1>9, <2>1 DEF rest
  <1>14. Completed(Paused(F(n), Kept(end)), name)
            = Completed(Paused(G(n - a), Kept(end)), name)
    BY <1>12, AlikeCompletesAlike
  <1>15. ParseFile(saved, name, lines, end)
            = Completed(Paused(G(n - a), Kept(end)), name)
    BY <1>13 DEF ParseFile
  <1>16. ParseFile(NewParse, name, lines, end)
            = Completed(Paused(F(n), Kept(end)), name)
    BY <1>4 DEF ParseFile
  <1>17. ParseFile(saved, name, lines, end) = ParseFile(NewParse, name, lines, end)
    BY <1>14, <1>15, <1>16
  <1> QED  BY <1>17 DEF saved

-------------------------------------------------------------------------------
(* The files that Codex writes *)

FormedLine(line) ==
    /\ {"kind", "id", "root", "at", "created", "total", "last"} \subseteq DOMAIN line
    /\ line.kind = "meta" /\ line.id = NoId => line.root = NoId
    /\ line.at \in Nat /\ line.created \in Nat
    /\ line.total \in Counters /\ line.last \in Counters

FormedLines(lines) == Sequence(lines) /\ \A k \in 1..Len(lines) : FormedLine(lines[k])

FilesFormed(fs) ==
    /\ Sequence(fs)
    /\ \A i \in 1..Len(fs) :
           /\ {"path", "lines"} \subseteq DOMAIN fs[i]
           /\ fs[i].path = i
           /\ FormedLines(fs[i].lines)
           /\ fs[i].lines # <<>>

LiveWrites(who, n) ==
    \A s \in DOMAIN who : /\ {"file", "counter"} \subseteq DOMAIN who[s]
                          /\ who[s].file \in 1..n
                          /\ who[s].counter \in Counters

Told(requests) ==
    /\ Sequence(requests)
    /\ \A k \in 1..Len(requests) : requests[k].counter \in Counters

\* Every file begins with a line, every session writes one that exists, and what
\* is shown is made of what is written.
Written ==
    /\ FilesFormed(files)
    /\ LiveWrites(live, Len(files)) /\ Main \in DOMAIN live
    /\ Told(truth)
    /\ clock \in Nat
    /\ sessions = Publish(files, log)

LEMMA LineIsFormed ==
    ASSUME NEW kind, NEW at
    PROVE  /\ Line(kind, at) = [f \in DOMAIN Blank |-> Line(kind, at)[f]]
           /\ Line(kind, at).id = NoId /\ Line(kind, at).root = NoId
           /\ Line(kind, at).kind = kind /\ Line(kind, at).at = at
           /\ Line(kind, at).created = NoTime
           /\ Line(kind, at).total = Zero /\ Line(kind, at).last = Zero
           /\ {"kind", "id", "root", "at", "created", "total", "last"} \subseteq DOMAIN Blank
  BY DEF Line, Blank

LEMMA LinesJoined ==
    ASSUME NEW a, NEW b, FormedLines(a), FormedLines(b)
    PROVE  FormedLines(a \o b) /\ Len(a \o b) = Len(a) + Len(b)
  <1> DEFINE S == {a[i] : i \in DOMAIN a} \cup {b[i] : i \in DOMAIN b}
             t == a \o b
  <1>1. a \in Seq(S) /\ b \in Seq(S)
    BY DEF FormedLines, Sequence
  <1>2. t \in Seq(S) /\ Len(t) = Len(a) + Len(b)
    BY <1>1
  <1>3. \A i \in 1..Len(t) : t[i] = IF i <= Len(a) THEN a[i] ELSE b[i - Len(a)]
    BY <1>1
  <1> HIDE DEF S
  <1>4. Len(a) \in Nat /\ Len(b) \in Nat
    BY <1>1
  <1> HIDE DEF t
  <1>5. ASSUME NEW i \in 1..Len(t) PROVE FormedLine(t[i])
    <2>1. CASE i <= Len(a)
      BY <1>2, <1>3, <1>4, <2>1 DEF FormedLines
    <2>2. CASE ~(i <= Len(a))
      <3>1. i - Len(a) \in 1..Len(b) /\ t[i] = b[i - Len(a)]
        BY <1>2, <1>3, <1>4, <2>2
      <3> QED  BY <3>1 DEF FormedLines
    <2> QED  BY <2>1, <2>2
  <1>6. Sequence(t)
    BY <1>2 DEF Sequence
  <1> QED  BY <1>2, <1>5, <1>6 DEF FormedLines, t

LEMMA OneLine ==
    ASSUME NEW line, FormedLine(line)
    PROVE  FormedLines(<<line>>) /\ Len(<<line>>) = 1
  BY DEF FormedLines, Sequence

LEMMA RequestLinesFormed ==
    ASSUME NEW shape \in Seq(STRING), NEW model, NEW total \in Counters, NEW last \in Counters,
           NEW now \in Nat
    PROVE  /\ FormedLines(RequestLines(shape, model, total, last, now))
           /\ Len(RequestLines(shape, model, total, last, now)) = Len(shape)
  <1> DEFINE At(k) == now + 1 + (k - 1) * Step
             Of1(k) == [Line(shape[k], At(k)) EXCEPT
                     !.model = IF shape[k] = "context" THEN model ELSE NoName,
                     !.total = IF shape[k] = "count" THEN total ELSE Zero,
                     !.last = IF shape[k] \in {"count", "record"} THEN last ELSE Zero,
                     !.started = IF shape[k] = "item" THEN At(k - 1) ELSE NoTime,
                     !.ms = IF shape[k] = "task" THEN At(k) - At(1) ELSE 0]
             t == [k \in DOMAIN shape |-> Of1(k)]
  <1>1. RequestLines(shape, model, total, last, now) = t
    BY DEF RequestLines
  <1>4. \A k \in 1..Len(shape) : At(k) \in Nat
    BY DEF Step
  <1> HIDE DEF At
  <1>2. ASSUME NEW k \in 1..Len(shape) PROVE FormedLine(Of1(k))
    <2> DEFINE line == Line(shape[k], At(k))
               model1 == IF shape[k] = "context" THEN model ELSE NoName
               total1 == IF shape[k] = "count" THEN total ELSE Zero
               last1 == IF shape[k] \in {"count", "record"} THEN last ELSE Zero
               started == IF shape[k] = "item" THEN At(k - 1) ELSE NoTime
               ms == IF shape[k] = "task" THEN At(k) - At(1) ELSE 0
    <2>1. /\ line = [f \in DOMAIN Blank |-> line[f]]
          /\ line.id = NoId /\ line.root = NoId /\ line.at \in Nat /\ line.created \in Nat
          /\ {"kind", "id", "root", "at", "created", "total", "last"} \subseteq DOMAIN Blank
      BY <1>4, LineIsFormed DEF NoTime
    <2>2. total1 \in Counters /\ last1 \in Counters
      BY ZeroCounts
    <2>3. Of1(k) = [line EXCEPT !.model = model1, !.total = total1, !.last = last1,
                                !.started = started, !.ms = ms]
      OBVIOUS
    <2> HIDE DEF line, model1, total1, last1, started, ms, Of1
    <2> QED  BY <2>1, <2>2, <2>3 DEF FormedLine
  <1> HIDE DEF Of1
  <1>3. t \in Seq({t[k] : k \in DOMAIN t}) /\ Len(t) = Len(shape)
        /\ \A k \in 1..Len(shape) : t[k] = Of1(k)
    OBVIOUS
  <1> HIDE DEF t
  <1>5. FormedLines(t) /\ Len(t) = Len(shape)
    BY <1>2, <1>3 DEF FormedLines, Sequence
  <1> QED  BY <1>1, <1>5

LEMMA FileLengthened ==
    ASSUME NEW fs, FilesFormed(fs), NEW i \in 1..Len(fs), NEW lines, FormedLines(lines)
    PROVE  /\ FilesFormed([fs EXCEPT ![i].lines = @ \o lines])
           /\ Len([fs EXCEPT ![i].lines = @ \o lines]) = Len(fs)
  <1> DEFINE old == fs[i].lines
             new == [fs[i] EXCEPT !.lines = @ \o lines]
             t == [fs EXCEPT ![i] = new]
  <1>1. fs \in Seq({fs[k] : k \in DOMAIN fs}) /\ Len(fs) \in Nat
    BY DEF FilesFormed, Sequence
  <1>2. /\ Len(t) = Len(fs) /\ t \in Seq({t[k] : k \in DOMAIN t})
        /\ \A k \in 1..Len(fs) : t[k] = IF k = i THEN new ELSE fs[k]
    <2> DEFINE S == {fs[k] : k \in DOMAIN fs} \cup {new}
    <2>1. fs \in Seq(S)
      BY <1>1
    <2> HIDE DEF new
    <2>2. /\ t \in Seq(S) /\ Len(t) = Len(fs)
          /\ \A k \in 1..Len(fs) : t[k] = IF k = i THEN new ELSE fs[k]
      BY <2>1
    <2> HIDE DEF t, S
    <2> QED  BY <2>2
  <1>3. /\ {"path", "lines"} \subseteq DOMAIN fs[i] /\ fs[i].path = i
        /\ FormedLines(old) /\ old # <<>>
    BY DEF FilesFormed
  <1>4. {"path", "lines"} \subseteq DOMAIN new /\ new.lines = old \o lines /\ new.path = i
    BY <1>3
  <1>5. FormedLines(old \o lines) /\ old \o lines # <<>>
    <2>1. FormedLines(old \o lines) /\ Len(old \o lines) = Len(old) + Len(lines)
      BY <1>3, LinesJoined
    <2>2. Len(old) \in Nat \ {0} /\ Len(lines) \in Nat
      BY <1>3 DEF FormedLines, Sequence
    <2>3. Len(old \o lines) # 0
      <3> HIDE DEF old
      <3> QED  BY <2>1, <2>2
    <2> QED  BY <2>1, <2>3
  <1> HIDE DEF new, old, t
  <1>6. FilesFormed(t)
    BY <1>1, <1>2, <1>4, <1>5 DEF FilesFormed, Sequence
  <1>7. t = [fs EXCEPT ![i].lines = @ \o lines]
    BY DEF t, new
  <1> QED  BY <1>2, <1>6, <1>7

LEMMA FileBegun ==
    ASSUME NEW fs, FilesFormed(fs), NEW file, {"path", "lines"} \subseteq DOMAIN file,
           file.path = Len(fs) + 1, FormedLines(file.lines), file.lines # <<>>
    PROVE  FilesFormed(Append(fs, file)) /\ Len(Append(fs, file)) = Len(fs) + 1
           /\ Len(fs) \in Nat
  <1> DEFINE S == {fs[k] : k \in DOMAIN fs} \cup {file}
             t == Append(fs, file)
  <1>1. fs \in Seq(S)
    BY DEF FilesFormed, Sequence
  <1>2. /\ t \in Seq(S) /\ Len(t) = Len(fs) + 1 /\ Len(fs) \in Nat
        /\ \A k \in 1..Len(t) : t[k] = IF k <= Len(fs) THEN fs[k] ELSE file
    BY <1>1
  <1> HIDE DEF t, S
  <1>3. t \in Seq({t[k] : k \in DOMAIN t})
    BY <1>2
  <1>4. FilesFormed(t)
    BY <1>2, <1>3 DEF FilesFormed, Sequence
  <1> QED  BY <1>2, <1>4 DEF t

LEMMA MetaLineIsFormed ==
    ASSUME NEW id, id # NoId, NEW at \in Nat
    PROVE  /\ FormedLine(MetaLine(id, at))
           /\ FormedLine([MetaLine(id, at) EXCEPT !.fork = Main])
           /\ FormedLine([MetaLine(id, at) EXCEPT !.fork = Ghost])
           /\ FormedLine([MetaLine(id, at) EXCEPT !.parent = Main, !.root = Main, !.agent = TRUE])
  <1> DEFINE line == MetaLine(id, at)
  <1>1. /\ line = [f \in DOMAIN Blank |-> line[f]]
        /\ line.id = id /\ line.root = NoId /\ line.at = at /\ line.created = at
        /\ line.total = Zero /\ line.last = Zero
        /\ {"kind", "id", "root", "at", "created", "total", "last", "fork", "parent", "agent"}
               \subseteq DOMAIN Blank
    <2>1. line = [Blank EXCEPT !.kind = "meta", !.at = at, !.id = id, !.created = at]
      BY DEF MetaLine, Line
    <2>2. {"kind", "id", "root", "at", "created", "total", "last", "fork", "parent", "agent"}
              \subseteq DOMAIN Blank
      BY DEF Blank
    <2>3. Blank.root = NoId /\ Blank.total = Zero /\ Blank.last = Zero
      BY DEF Blank
    <2>4. Blank = [f \in DOMAIN Blank |-> Blank[f]]
      BY DEF Blank
    <2> HIDE DEF line
    <2> QED  BY <2>1, <2>2, <2>3, <2>4
  <1> HIDE DEF line
  <1>2. line.total \in Counters /\ line.last \in Counters
    BY <1>1, ZeroCounts
  <1>3. /\ FormedLine(line)
        /\ FormedLine([line EXCEPT !.fork = Main])
        /\ FormedLine([line EXCEPT !.fork = Ghost])
        /\ FormedLine([line EXCEPT !.parent = Main, !.root = Main, !.agent = TRUE])
    BY <1>1, <1>2 DEF FormedLine
  <1> QED  BY <1>3 DEF line

LEMMA LiveCounts ==
    ASSUME NEW who, NEW n, LiveWrites(who, n), NEW s \in DOMAIN who, NEW a \in Counters, NEW b
    PROVE  /\ LiveWrites([who EXCEPT ![s].counter = a, ![s].again = b], n)
           /\ LiveWrites([who EXCEPT ![s].model = b], n)
           /\ LiveWrites([who EXCEPT ![s].tier = b], n)
  BY DEF LiveWrites

LEMMA LiveMoves ==
    ASSUME NEW who, NEW n \in Nat, LiveWrites(who, n), NEW s \in DOMAIN who
    PROVE  LiveWrites([who EXCEPT ![s].file = n + 1], n + 1)
  BY DEF LiveWrites

LEMMA LineRetimed ==
    ASSUME NEW line, FormedLine(line), NEW at \in Nat, NEW tier
    PROVE  /\ FormedLine([line EXCEPT !.at = at])
           /\ FormedLine([line EXCEPT !.at = at, !.tier = tier])
  BY DEF FormedLine

LEMMA FirstAndLast ==
    ASSUME NEW lines, FormedLines(lines), lines # <<>>
    PROVE  FormedLine(Head(lines)) /\ FormedLine(Last(lines))
  <1>1. lines \in Seq({lines[i] : i \in DOMAIN lines}) /\ 1 \in 1..Len(lines)
        /\ Len(lines) \in 1..Len(lines)
    BY DEF FormedLines, Sequence
  <1>2. Head(lines) = lines[1] /\ Last(lines) = lines[Len(lines)]
    BY <1>1 DEF Last
  <1> QED  BY <1>1, <1>2 DEF FormedLines

\* A request logs a count at the least, and ends later than it began.
LEMMA RequestIs ==
    ASSUME NEW n \in 1..Len(Shapes), NEW model, NEW total \in Counters, NEW now \in Nat
    PROVE  LET lines == RequestLines(Shapes[n], model, total, Amount(n), now)
           IN  FormedLines(lines) /\ Last(lines).at + 1 \in Nat
  <1> DEFINE lines == RequestLines(Shapes[n], model, total, Amount(n), now)
  <1>1. Shapes[n] \in Seq(STRING) /\ Len(Shapes[n]) \in Nat \ {0} /\ n \in 0..Len(Shapes)
    BY ShapesAssumption
  <1>2. Amount(n) \in Counters
    BY <1>1, AmountsAssumption DEF Counters
  <1>3. FormedLines(lines) /\ Len(lines) = Len(Shapes[n])
    BY <1>1, <1>2, RequestLinesFormed
  <1> HIDE DEF lines
  <1>4. lines # <<>>
    BY <1>1, <1>3
  <1>5. Last(lines).at \in Nat
    BY <1>3, <1>4, FirstAndLast DEF FormedLine
  <1> QED  BY <1>3, <1>5 DEF lines

LEMMA Begins == Init => Written
  <1> SUFFICES ASSUME Init PROVE Written
    OBVIOUS
  <1> DEFINE who == [file |-> 1, counter |-> Amount(1), model |-> CHOOSE m \in Models : TRUE,
                     tier |-> NoName, known |-> TRUE, again |-> Zero]
             lines == RequestLines(Shapes[1], who.model, Amount(1), Amount(1), 1)
             all == <<MetaLine(Main, 1)>> \o lines
             file == [path |-> 1, id |-> Main, lines |-> all]
             true == Truth(1, Main, who, Amount(1), lines)
  <1>1. /\ files = <<file>> /\ live = [s \in {Main} |-> who] /\ truth = <<true>>
        /\ clock = Last(lines).at + 1 /\ sessions = Publish(files, log)
    BY DEF Init
  <1>2. Amount(1) \in Counters
    <2>1. 1 \in 0..Len(Shapes)
      BY ShapesAssumption
    <2> QED  BY <2>1, AmountsAssumption DEF Counters
  <1>3. FormedLines(lines) /\ Last(lines).at + 1 \in Nat
    <2>1. 1 \in 1..Len(Shapes) /\ 1 \in Nat
      BY ShapesAssumption
    <2> HIDE DEF who
    <2> QED  BY <1>2, <2>1, RequestIs
  <1>4. who.file = 1 /\ who.counter = Amount(1) /\ {"file", "counter"} \subseteq DOMAIN who
    OBVIOUS
  <1>5. true.counter = Amount(1)
    BY DEF Truth
  <1> HIDE DEF who, lines, true
  <1>6. FormedLines(all) /\ all # <<>>
    <2>1. FormedLine(MetaLine(Main, 1))
      BY MetaLineIsFormed, NamesAssumption
    <2>2. FormedLines(<<MetaLine(Main, 1)>>) /\ Len(<<MetaLine(Main, 1)>>) = 1
      BY <2>1, OneLine
    <2>3. FormedLines(all) /\ Len(all) = 1 + Len(lines)
      BY <1>3, <2>2, LinesJoined
    <2>4. Len(lines) \in Nat
      BY <1>3 DEF FormedLines, Sequence
    <2> HIDE DEF all
    <2> QED  BY <2>3, <2>4
  <1> HIDE DEF all
  <1>7. {"path", "lines"} \subseteq DOMAIN file /\ file.lines = all /\ file.path = Len(<<>>) + 1
    OBVIOUS
  <1> HIDE DEF file
  <1>8. FilesFormed(<<>>)
    BY DEF FilesFormed, Sequence
  <1>9. FilesFormed(Append(<<>>, file))
    BY <1>6, <1>7, <1>8, FileBegun
  <1>10. Append(<<>>, file) = <<file>> /\ Len(<<file>>) = 1
    OBVIOUS
  <1>11. LiveWrites(live, Len(files)) /\ Main \in DOMAIN live
    BY <1>1, <1>2, <1>4, <1>10 DEF LiveWrites
  <1>12. Told(truth)
    BY <1>1, <1>2, <1>5 DEF Told, Sequence
  <1> QED  BY <1>1, <1>3, <1>9, <1>10, <1>11, <1>12 DEF Written

LEMMA AppendsFormed ==
    ASSUME Written, NEW s \in DOMAIN live, NEW lines, FormedLines(lines),
           Append1(live[s].file, lines)
    PROVE  FilesFormed(files') /\ Len(files') = Len(files)
  <1>1. live[s].file \in 1..Len(files) /\ FilesFormed(files)
    BY DEF Written, LiveWrites
  <1> QED  BY <1>1, FileLengthened DEF Append1

LEMMA Spends ==
    ASSUME Written, Change
    PROVE  clock' \in Nat /\ clock + 1 \in Nat
  BY DEF Written, Change

LEMMA RequestWrites ==
    ASSUME Written, NEW s \in DOMAIN live, Request(s)
    PROVE  Written'
  <1>1. PICK base \in {live[s].counter} \cup Checkpoints(s) :
            LET n == Len(truth) + 1
                total == Plus(base, Amount(n))
                lines == RequestLines(Shapes[n], live[s].model, total, Amount(n), clock)
                back == base # live[s].counter
            IN  /\ n <= Len(Shapes)
                /\ clock' = Last(lines).at + 1
                /\ Append1(live[s].file, lines)
                /\ live' = [live EXCEPT ![s].counter = total,
                                ![s].again = IF back /\ s # Main THEN Plus(@, base) ELSE @]
                /\ truth' = Append(truth, Truth(n, s, live[s], total, lines))
                /\ Publishing
    BY DEF Request
  <1> DEFINE n == Len(truth) + 1
             total == Plus(base, Amount(n))
             lines == RequestLines(Shapes[n], live[s].model, total, Amount(n), clock)
             true == Truth(n, s, live[s], total, lines)
  <1>2. PICK again : /\ n <= Len(Shapes)
                     /\ clock' = Last(lines).at + 1
                     /\ Append1(live[s].file, lines)
                     /\ live' = [live EXCEPT ![s].counter = total, ![s].again = again]
                     /\ truth' = Append(truth, true)
                     /\ sessions' = Publish(files', log')
    BY <1>1 DEF Publishing
  <1>3. Told(truth) /\ LiveWrites(live, Len(files)) /\ clock \in Nat
    BY DEF Written
  <1>4. n \in 1..Len(Shapes) /\ n \in 0..Len(Shapes) /\ DOMAIN truth = 1..Len(truth)
    BY <1>2, <1>3, ShapesAssumption DEF Told, Sequence
  <1>5. base \in Counters
    <2>1. live[s].counter \in Counters
      BY <1>3 DEF LiveWrites
    <2> QED  BY <1>1, <1>3, <1>4, <2>1, ZeroCounts DEF Checkpoints, Told
  <1> HIDE DEF n
  <1>6. total \in Counters
    BY <1>4, <1>5, AmountsAssumption, PlusCounts DEF Counters
  <1> HIDE DEF total
  <1>7. FormedLines(lines) /\ Last(lines).at + 1 \in Nat
    BY <1>3, <1>4, <1>6, RequestIs
  <1>8. Told(truth')
    <2>1. true.counter = total
      BY DEF Truth
    <2> HIDE DEF true
    <2>2. /\ Sequence(truth')
          /\ \A i \in DOMAIN truth' : \/ i \in DOMAIN truth /\ truth'[i] = truth[i]
                                      \/ truth'[i] = true
      BY <1>2, <1>3, Appended DEF Told
    <2>3. DOMAIN truth' = 1..Len(truth')
      BY <2>2, SequenceIsListed
    <2> QED  BY <1>3, <1>4, <1>6, <2>1, <2>2, <2>3 DEF Told
  <1> HIDE DEF lines, true
  <1>9. FilesFormed(files') /\ Len(files') = Len(files)
    BY <1>2, <1>7, AppendsFormed
  <1>10. LiveWrites(live', Len(files)) /\ DOMAIN live' = DOMAIN live
    BY <1>2, <1>3, <1>6, LiveCounts
  <1> QED  BY <1>2, <1>7, <1>8, <1>9, <1>10 DEF Written

LEMMA RepeatWrites ==
    ASSUME Written, NEW s \in DOMAIN live, Repeat(s)
    PROVE  Written'
  <1> DEFINE old == files[live[s].file].lines
             line == [Last(old) EXCEPT !.at = clock + 1]
  <1>1. /\ Append1(live[s].file, <<line>>) /\ live' = live /\ truth' = truth
        /\ Change /\ sessions' = Publish(files', log')
    BY DEF Repeat, Publishing
  <1>2. FormedLines(old) /\ old # <<>>
    BY DEF Written, FilesFormed, LiveWrites
  <1>3. clock' \in Nat /\ clock + 1 \in Nat
    BY <1>1, Spends
  <1> HIDE DEF old
  <1>4. FormedLine(line)
    BY <1>2, <1>3, FirstAndLast, LineRetimed
  <1> HIDE DEF line
  <1>5. FilesFormed(files') /\ Len(files') = Len(files)
    BY <1>1, <1>4, OneLine, AppendsFormed
  <1> QED  BY <1>1, <1>3, <1>5 DEF Written

LEMMA ResumeWrites ==
    ASSUME Written, NEW s \in DOMAIN live, Resume(s)
    PROVE  Written'
  <1> DEFINE old == files[live[s].file].lines
             tier == IF InRollout THEN live[s].tier ELSE NoName
             meta == [Head(old) EXCEPT !.at = clock + 1, !.tier = tier]
  <1>1. PICK lines \in {<<meta>>, old} :
            files' = Append(files, [path |-> Len(files) + 1, id |-> s, lines |-> lines])
    BY DEF Resume
  <1>2. /\ live' = [live EXCEPT ![s].file = Len(files')] /\ truth' = truth
        /\ Change /\ sessions' = Publish(files', log')
    BY DEF Resume, Publishing
  <1>3. FormedLines(old) /\ old # <<>>
    BY DEF Written, FilesFormed, LiveWrites
  <1>4. clock' \in Nat /\ clock + 1 \in Nat
    BY <1>2, Spends
  <1> HIDE DEF old, tier
  <1>5. FormedLine(meta)
    BY <1>3, <1>4, FirstAndLast, LineRetimed
  <1> HIDE DEF meta
  <1>6. FormedLines(<<meta>>) /\ <<meta>> # <<>>
    BY <1>5, OneLine
  <1>7. FormedLines(lines) /\ lines # <<>>
    BY <1>3, <1>6
  <1> DEFINE file == [path |-> Len(files) + 1, id |-> s, lines |-> lines]
  <1>8. {"path", "lines"} \subseteq DOMAIN file /\ file.lines = lines /\ file.path = Len(files) + 1
    OBVIOUS
  <1>9. files' = Append(files, file)
    BY <1>1
  <1> HIDE DEF file
  <1>10. FilesFormed(files') /\ Len(files') = Len(files) + 1 /\ Len(files) \in Nat
    BY <1>7, <1>8, <1>9, FileBegun DEF Written
  <1>11. LiveWrites(live', Len(files')) /\ DOMAIN live' = DOMAIN live
    BY <1>2, <1>10, LiveMoves DEF Written
  <1> QED  BY <1>2, <1>4, <1>10, <1>11 DEF Written

LEMMA SwitchModelWrites ==
    ASSUME Written, NEW s \in DOMAIN live, SwitchModel(s)
    PROVE  Written'
  <1>1. PICK model : live' = [live EXCEPT ![s].model = model]
    BY DEF SwitchModel
  <1>2. files' = files /\ truth' = truth /\ Change /\ sessions' = Publish(files', log')
    BY DEF SwitchModel, Publishing
  <1>3. LiveWrites(live', Len(files)) /\ DOMAIN live' = DOMAIN live
    BY <1>1, ZeroCounts, LiveCounts DEF Written
  <1>4. clock' \in Nat
    BY <1>2, Spends
  <1> QED  BY <1>2, <1>3, <1>4 DEF Written

LEMMA SwitchTierWrites ==
    ASSUME Written, NEW s \in DOMAIN live, SwitchTier(s)
    PROVE  Written'
  <1>1. PICK tier :
            /\ live' = [live EXCEPT ![s].tier = tier]
            /\ \/ Append1(live[s].file, <<[Line("settings", clock + 1) EXCEPT !.tier = tier]>>)
               \/ files' = files
    BY DEF SwitchTier
  <1>2. truth' = truth /\ Change /\ sessions' = Publish(files', log')
    BY DEF SwitchTier, Publishing
  <1>3. clock' \in Nat /\ clock + 1 \in Nat
    BY <1>2, Spends
  <1>4. FormedLine([Line("settings", clock + 1) EXCEPT !.tier = tier])
    BY <1>3, LineIsFormed, ZeroCounts DEF FormedLine, NoTime
  <1>5. FilesFormed(files') /\ Len(files') = Len(files)
    <2>1. CASE files' = files
      BY <2>1 DEF Written
    <2>2. CASE Append1(live[s].file, <<[Line("settings", clock + 1) EXCEPT !.tier = tier]>>)
      BY <1>4, <2>2, OneLine, AppendsFormed
    <2> QED  BY <1>1, <2>1, <2>2
  <1>6. LiveWrites(live', Len(files)) /\ DOMAIN live' = DOMAIN live
    BY <1>1, ZeroCounts, LiveCounts DEF Written
  <1> QED  BY <1>2, <1>3, <1>5, <1>6 DEF Written

LEMMA BeginWrites ==
    ASSUME Written, NEW meta, FormedLine(meta), NEW copied, FormedLines(copied),
           NEW counter \in Counters, NEW known, Begin(meta, copied, counter, known)
    PROVE  Written'
  <1> DEFINE all == <<meta>> \o copied
             file == [path |-> Len(files) + 1, id |-> Child, lines |-> all]
             who == [live[Main] EXCEPT !.file = Len(files'), !.counter = counter,
                                       !.known = known]
  <1>1. /\ files' = Append(files, file) /\ truth' = truth
        /\ live' = [s \in DOMAIN live \cup {Child} |-> IF s = Child THEN who ELSE live[s]]
        /\ clock' = clock + 2 /\ sessions' = Publish(files', log')
    BY DEF Begin, Publishing
  <1>2. FormedLines(all) /\ all # <<>>
    <2>1. FormedLines(<<meta>>) /\ Len(<<meta>>) = 1
      BY OneLine
    <2>2. FormedLines(all) /\ Len(all) = 1 + Len(copied)
      BY <2>1, LinesJoined
    <2>3. Len(copied) \in Nat
      BY DEF FormedLines, Sequence
    <2> HIDE DEF all
    <2> QED  BY <2>2, <2>3
  <1> HIDE DEF all
  <1>3. {"path", "lines"} \subseteq DOMAIN file /\ file.lines = all /\ file.path = Len(files) + 1
    OBVIOUS
  <1> HIDE DEF file
  <1>4. FilesFormed(files') /\ Len(files') = Len(files) + 1 /\ Len(files) \in Nat
    BY <1>1, <1>2, <1>3, FileBegun DEF Written
  <1>5. \A r \in DOMAIN live' : live'[r] = who \/ (r \in DOMAIN live /\ live'[r] = live[r])
    <2> HIDE DEF who
    <2> QED  BY <1>1
  <1>6. {"file", "counter"} \subseteq DOMAIN who /\ who.file = Len(files) + 1
        /\ who.counter \in Counters
    BY <1>4 DEF Written, LiveWrites
  <1>7. Main \in DOMAIN live'
    <2> HIDE DEF who
    <2> QED  BY <1>1 DEF Written
  <1> HIDE DEF who
  <1>8. LiveWrites(live', Len(files'))
    BY <1>4, <1>5, <1>6 DEF Written, LiveWrites
  <1>9. clock' \in Nat
    BY <1>1 DEF Written
  <1> QED  BY <1>1, <1>4, <1>7, <1>8, <1>9 DEF Written

LEMMA CopyFormed ==
    ASSUME Written, NEW copy \in Copies(files[live[Main].file].lines), NEW rewritten,
           NEW at \in Nat
    PROVE  FormedLines([k \in DOMAIN copy |->
               IF rewritten THEN [copy[k] EXCEPT !.at = at] ELSE copy[k]])
  <1> DEFINE old == files[live[Main].file].lines
             turns == {k \in DOMAIN old : old[k].kind = "context"}
             first == Max(turns \cup {1})
             Of(k) == IF rewritten THEN [copy[k] EXCEPT !.at = at] ELSE copy[k]
             t == [k \in DOMAIN copy |-> Of(k)]
  <1>1. FormedLines(old) /\ old # <<>>
    BY DEF Written, FilesFormed, LiveWrites
  <1>2. copy \in {old, <<>>} \cup {SubSeq(old, k, Len(old)) : k \in {first}}
    BY DEF Copies
  <1>3. first \in 1..Len(old)
    <2>1. Len(old) \in Nat /\ turns \cup {1} \in SUBSET (1..Len(old)) /\ turns \cup {1} # {}
      <3> HIDE DEF old
      <3>1. DOMAIN old = 1..Len(old) /\ Len(old) \in Nat /\ Len(old) # 0
        BY <1>1 DEF FormedLines, Sequence
      <3> QED  BY <3>1
    <2> HIDE DEF turns, old
    <2> QED  BY <2>1, Greatest
  <1> HIDE DEF first, old
  <1>4. old \in Seq({old[i] : i \in DOMAIN old}) /\ \A k \in 1..Len(old) : FormedLine(old[k])
    BY <1>1 DEF FormedLines, Sequence
  <1>5. /\ Len(copy) \in Nat /\ DOMAIN copy = 1..Len(copy)
        /\ \A k \in 1..Len(copy) : FormedLine(copy[k])
    <2>1. CASE copy = old
      BY <1>4, <2>1
    <2>2. CASE copy = <<>>
      BY <2>2
    <2>3. CASE copy = SubSeq(old, first, Len(old))
      BY <1>3, <1>4, <2>3
    <2> QED  BY <1>2, <2>1, <2>2, <2>3
  <1>6. \A k \in 1..Len(copy) : FormedLine(Of(k))
    BY <1>5, LineRetimed
  <1> HIDE DEF Of
  <1>7. /\ t \in Seq({t[k] : k \in DOMAIN t}) /\ Len(t) = Len(copy)
        /\ \A k \in 1..Len(copy) : t[k] = Of(k)
    BY <1>5
  <1>8. FormedLines(t)
    <2> HIDE DEF t
    <2> QED  BY <1>6, <1>7 DEF FormedLines, Sequence
  <1> QED  BY <1>8 DEF Of

LEMMA StepsWrite ==
    ASSUME Written, [Next]_vars
    PROVE  Written'
  <1>1. CASE \E s \in DOMAIN live : Request(s) \/ Repeat(s) \/ Resume(s)
                                      \/ SwitchModel(s) \/ SwitchTier(s)
    BY <1>1, RequestWrites, RepeatWrites, ResumeWrites, SwitchModelWrites, SwitchTierWrites
  <1>2. /\ Main # NoId /\ Child # NoId /\ clock + 1 \in Nat
        /\ live[Main].counter \in Counters /\ Amount(0) \in Counters /\ Zero \in Counters
    <2>1. 0 \in 0..Len(Shapes)
      BY ShapesAssumption
    <2> QED  BY <2>1, NamesAssumption, AmountsAssumption, ZeroCounts
             DEF Counters, Written, LiveWrites
  <1>3. CASE Spawn
    <2>1. PICK copy \in Copies(files[live[Main].file].lines), rewritten \in BOOLEAN :
              Begin([MetaLine(Child, clock + 1) EXCEPT !.parent = Main, !.root = Main,
                                                       !.agent = TRUE],
                    [k \in DOMAIN copy |->
                        IF rewritten THEN [copy[k] EXCEPT !.at = clock + 1] ELSE copy[k]],
                    IF HasCount(copy) THEN live[Main].counter ELSE Zero, TRUE)
      BY <1>3 DEF Spawn
    <2>2. FormedLine([MetaLine(Child, clock + 1) EXCEPT !.parent = Main, !.root = Main,
                                                       !.agent = TRUE])
      BY <1>2, MetaLineIsFormed
    <2>3. (IF HasCount(copy) THEN live[Main].counter ELSE Zero) \in Counters
      BY <1>2
    <2> QED  BY <1>2, <2>1, <2>2, <2>3, CopyFormed, BeginWrites
  <1>4. CASE Fork
    <2>1. PICK copy \in Copies(files[live[Main].file].lines),
               rewritten \in BOOLEAN, anew \in BOOLEAN :
              Begin([MetaLine(Child, clock + 1) EXCEPT !.fork = Main],
                    [k \in DOMAIN copy |->
                        IF rewritten THEN [copy[k] EXCEPT !.at = clock + 1] ELSE copy[k]],
                    IF anew THEN Zero ELSE live[Main].counter, TRUE)
      BY <1>4 DEF Fork
    <2>2. FormedLine([MetaLine(Child, clock + 1) EXCEPT !.fork = Main])
      BY <1>2, MetaLineIsFormed
    <2>3. (IF anew THEN Zero ELSE live[Main].counter) \in Counters
      BY <1>2
    <2> QED  BY <1>2, <2>1, <2>2, <2>3, CopyFormed, BeginWrites
  <1>5. CASE ForkOfGhost
    <2>1. FormedLine([MetaLine(Child, clock + 1) EXCEPT !.fork = Ghost])
      BY <1>2, MetaLineIsFormed
    <2>2. FormedLines(<<>>)
      BY DEF FormedLines, Sequence
    <2> QED  BY <1>2, <1>5, <2>1, <2>2, BeginWrites DEF ForkOfGhost
  <1>6. CASE UNCHANGED vars
    BY <1>6 DEF vars, Written
  <1> QED  BY <1>1, <1>3, <1>4, <1>5, <1>6 DEF Next

LEMMA WrittenSuffices ==
    ASSUME Written
    PROVE  ResumedAsFresh
  <1> SUFFICES ASSUME NEW s \in DOMAIN live,
                      NEW cut \in AtLeast0(Size(files[live[s].file].lines) - 9)
                                      ..Size(files[live[s].file].lines)
               PROVE  LET file == files[live[s].file]
                      IN  ParseFile(ParseFile(NewParse, file.path, file.lines, cut),
                                    file.path, file.lines, Size(file.lines))
                            = ParseFile(NewParse, file.path, file.lines, Size(file.lines))
    BY DEF ResumedAsFresh
  <1> DEFINE file == files[live[s].file]
             lines == file.lines
             name == file.path
             S == {lines[i] : i \in DOMAIN lines}
  <1>1. FormedLines(lines)
    BY DEF Written, FilesFormed, LiveWrites
  <1> HIDE DEF file, lines, name
  <1>2. lines \in Seq(S)
    BY <1>1 DEF FormedLines, Sequence
  <1>3. \A i \in 1..Len(lines) : Rooted(lines[i], name)
    BY <1>1 DEF FormedLines, FormedLine, Rooted
  <1>4. Size(lines) \in Nat
    BY <1>2 DEF Size
  <1>5. cut \in 0..Size(lines) /\ Size(lines) \in 0..Size(lines)
    <2>1. cut \in AtLeast0(Size(lines) - 9)..Size(lines)
      BY DEF file, lines
    <2> QED  BY <1>4, <2>1 DEF AtLeast0
  <1> HIDE DEF S
  <1>6. ParseFile(ParseFile(NewParse, name, lines, cut), name, lines, Size(lines))
            = ParseFile(NewParse, name, lines, Size(lines))
    BY <1>2, <1>3, <1>5, ReadOnIsReadWhole
  <1> QED  BY <1>6 DEF file, lines, name

(***************************************************************************)
(* Whatever Codex does - switches, repeats, resumptions, copies and forks, *)
(* for any shapes of requests and any number of files - a reading of a     *)
(* file that stopped anywhere goes on to the same result as a reading of   *)
(* the whole (reader.rs, parser.rs).                                       *)
(***************************************************************************)
THEOREM ReadingGoesOn == Spec => []ResumedAsFresh
  <1>1. Init => Written
    BY Begins
  <1>2. Written /\ [Next]_vars => Written'
    BY StepsWrite
  <1>3. Written => ResumedAsFresh
    BY WrittenSuffices
  <1> QED  BY <1>1, <1>2, <1>3, PTL DEF Spec

-------------------------------------------------------------------------------
(* What is parsed of well-formed lines *)

\* What every step of a parse keeps.
Tallied(p) ==
    /\ p = [f \in ParseFields |-> p[f]]
    /\ CountedRows(p.rows) /\ p.total \in Counters
    /\ p.rawCreated \in Nat /\ p.rawStart \in Nat /\ p.rawEnd \in Nat
    /\ p.detailed = TRUE

LEMMA MoreNames ==
    /\ "detailed" \in ParseFields /\ "uid" \in ParseFields /\ "path" \in ParseFields
    /\ "env" \in ParseFields /\ "source" \in ParseFields
  BY DEF ParseFields

LEMMA NewParseIsTallied == Tallied(NewParse)
  <1>1. NewParse = [f \in ParseFields |-> NewParse[f]]
    BY DEF NewParse, ParseFields
  <1>2. /\ NewParse.rows = <<>> /\ NewParse.total = Zero /\ NewParse.rawCreated = 0
        /\ NewParse.rawStart = 0 /\ NewParse.rawEnd = 0 /\ NewParse.detailed = TRUE
    BY DEF NewParse, NoTime
  <1> HIDE DEF NewParse
  <1> QED  BY <1>1, <1>2, NoRows, ZeroCounts DEF Tallied

LEMMA NoteIsTallied ==
    ASSUME NEW p, Tallied(p), NEW line
    PROVE  Tallied(Note(p, line)) /\ Note(p, line).rows = p.rows
  <1> DEFINE m == NoteModel(p, line.model)
  <1>1. Tallied(m) /\ m.rows = p.rows
    BY FieldNames, MoreNames DEF Tallied, NoteModel
  <1>2. Note(p, line) = NoteTier(m, line.tier, line.at)
    BY DEF Note
  <1> HIDE DEF m
  <1>3. /\ Tallied(NoteTier(m, line.tier, line.at))
        /\ NoteTier(m, line.tier, line.at).rows = m.rows
    BY <1>1, FieldNames, MoreNames DEF Tallied, NoteTier
  <1> QED  BY <1>1, <1>2, <1>3

LEMMA ProjectIsTallied ==
    ASSUME NEW p, Tallied(p), NEW line
    PROVE  Tallied(Project(p, line))
  BY FieldNames, MoreNames DEF Tallied, Project

LEMMA NamedIsTallied ==
    ASSUME NEW p, Tallied(p), NEW a, NEW b, NEW c, NEW d, NEW e, NEW f \in Nat
    PROVE  Tallied([p EXCEPT !.meta = TRUE, !.id = a, !.root = b, !.fork = c, !.parent = d,
                             !.agent = e, !.rawCreated = f])
  BY FieldNames, MoreNames DEF Tallied

LEMMA MetaIsTallied ==
    ASSUME NEW p, Tallied(p), NEW line, line.created \in Nat
    PROVE  Tallied(Meta(p, line))
  <1> DEFINE id == IF line.id = NoId THEN p.id ELSE line.id
             root == IF line.root = NoId THEN id ELSE line.root
             agent == line.parent # NoId \/ line.agent
             parent == IF ~agent \/ line.parent # NoId THEN line.parent
                       ELSE IF line.fork # NoId THEN line.fork
                       ELSE IF root # id THEN root ELSE NoId
             created == IF line.created = NoTime THEN p.rawCreated ELSE line.created
             named == [p EXCEPT !.meta = TRUE, !.id = id, !.root = root, !.fork = line.fork,
                                !.parent = parent, !.agent = agent, !.rawCreated = created]
  <1>1. Tallied(named)
    <2>1. created \in Nat
      BY DEF Tallied
    <2> HIDE DEF id, root, agent, parent, created
    <2> QED  BY <2>1, NamedIsTallied
  <1>2. Meta(p, line) = IF p.meta THEN p ELSE Note(Project(named, line), line)
    BY DEF Meta
  <1> HIDE DEF named
  <1> QED  BY <1>1, <1>2, ProjectIsTallied, NoteIsTallied

LEMMA ContextIsTallied ==
    ASSUME NEW p, Tallied(p), NEW line
    PROVE  Tallied(Context(p, line))
  <1> DEFINE t == [p EXCEPT !.turns = @ \cup ({line.turn} \ {NoId})]
  <1>1. Tallied(t)
    BY FieldNames, MoreNames DEF Tallied
  <1>2. Context(p, line) = Note(Project(t, line), line)
    BY DEF Context
  <1> HIDE DEF t
  <1> QED  BY <1>1, <1>2, ProjectIsTallied, NoteIsTallied

LEMMA TaskIsTallied ==
    ASSUME NEW p, Tallied(p), NEW line
    PROVE  Tallied(TaskComplete(p, line))
  BY FieldNames, MoreNames DEF Tallied, TaskComplete

LEMMA RowAppended ==
    ASSUME NEW rows, CountedRows(rows), NEW row, CountedRow(row)
    PROVE  CountedRows(Append(rows, row))
  <1> DEFINE t == Append(rows, row)
  <1>1. /\ Sequence(t)
        /\ \A i \in DOMAIN t : (i \in DOMAIN rows /\ t[i] = rows[i]) \/ t[i] = row
    BY Appended DEF CountedRows
  <1>2. DOMAIN t = 1..Len(t) /\ DOMAIN rows = 1..Len(rows)
    BY <1>1, SequenceIsListed DEF CountedRows
  <1> HIDE DEF t
  <1>3. \A i \in 1..Len(t) : CountedRow(t[i])
    BY <1>1, <1>2 DEF CountedRows
  <1>4. CountedRows(t)
    BY <1>1, <1>3 DEF CountedRows
  <1> QED  BY <1>4 DEF t

LEMMA RowIsTallied ==
    ASSUME NEW p, Tallied(p), NEW row, CountedRow(row), NEW timer
    PROVE  Tallied(WithRow(p, row, timer))
  <1>1. CountedRows(Append(p.rows, row))
    BY RowAppended DEF Tallied
  <1>2. row.total \in Counters
    BY DEF CountedRow
  <1> QED  BY <1>1, <1>2, FieldNames, MoreNames DEF Tallied, WithRow

LEMMA CountIsTallied ==
    ASSUME NEW p, Tallied(p), NEW line, FormedLine(line)
    PROVE  Tallied(TokenCount(p, line))
  <1> DEFINE noted == Note(p, line)
             fresh == p.rows = <<>>
             changed == fresh \/ Last(p.rows).total # line.total
             timing == Timing(p.timer, line.at, line.last)
             output == IF fresh THEN line.last["output"]
                       ELSE Delta(line.total, Last(p.rows).total)["output"]
             timed == changed /\ output > 0 /\ output = line.last["output"]
             request == IF timed THEN timing.request ELSE NoMs
             generation == IF timed THEN timing.generation ELSE NoMs
             row == [at |-> line.at, model |-> noted.model, tier |-> noted.tier,
                     total |-> line.total, last |-> line.last,
                     request |-> request, generation |-> generation]
             timer == IF changed THEN Closed(noted.timer, line.at) ELSE noted.timer
  <1>1. CountedRow(row)
    <2> HIDE DEF noted, request, generation
    <2> QED  BY DEF CountedRow, FormedLine
  <1>2. TokenCount(p, line) = WithRow(noted, row, timer)
    <2>1. [noted EXCEPT !.total = line.total, !.last = line.last,
                        !.timer = IF changed THEN Closed(@, line.at) ELSE @,
                        !.rows = Append(@, row)]
              = WithRow(noted, row, timer)
      <3>1. row.total = line.total /\ row.last = line.last
        OBVIOUS
      <3> HIDE DEF row, noted, changed
      <3> QED  BY <3>1 DEF WithRow
    <2> QED  BY <2>1 DEF TokenCount
  <1>3. Tallied(noted)
    BY NoteIsTallied
  <1> HIDE DEF row, noted, timer
  <1> QED  BY <1>1, <1>2, <1>3, RowIsTallied

LEMMA ConsumeIsTallied ==
    ASSUME NEW p, Tallied(p), NEW line, FormedLine(line)
    PROVE  Tallied(Consume(p, line))
  <1> DEFINE counted == [p EXCEPT !.lines = @ + 1]
             failed == [counted EXCEPT !.errors = @ + 1]
             from == Earliest(counted.rawStart, line.at)
             to == Later(counted.rawEnd, line.at)
             timer == Observe(counted.timer, line)
             seen == [counted EXCEPT !.rawStart = from, !.rawEnd = to, !.timer = timer]
  <1>1. Tallied(counted)
    BY FieldNames, MoreNames DEF Tallied
  <1>2. Tallied(failed) /\ Tallied(seen)
    <2>1. from \in Nat /\ to \in Nat
      <3> HIDE DEF counted
      <3> QED  BY <1>1 DEF Tallied, FormedLine, Earliest, Later
    <2> HIDE DEF counted, from, to, timer
    <2> QED  BY <1>1, <2>1, FieldNames, MoreNames DEF Tallied
  <1>3. Consume(p, line) = IF line.kind = "garbled" THEN failed ELSE Understood(seen, line)
    <2> HIDE DEF counted
    <2>1. [counted EXCEPT !.rawStart = Earliest(@, line.at), !.rawEnd = Later(@, line.at),
                          !.timer = Observe(@, line)] = seen
      OBVIOUS
    <2> HIDE DEF seen, failed
    <2> QED  BY <2>1 DEF Consume, counted, failed
  <1> HIDE DEF failed, seen
  <1>4. Tallied(Understood(seen, line))
    <2>1. Tallied(Project(seen, line))
      BY <1>2, ProjectIsTallied
    <2>2. line.created \in Nat
      BY DEF FormedLine
    <2> QED  BY <1>2, <2>1, <2>2, MetaIsTallied, ContextIsTallied, NoteIsTallied, CountIsTallied,
                TaskIsTallied DEF Understood
  <1> QED  BY <1>2, <1>3, <1>4

LEMMA ReadingIsTallied ==
    ASSUME NEW lines, FormedLines(lines)
    PROVE  Tallied(ReadRollout(NewParse, lines, Size(lines)))
  <1> DEFINE n == Len(lines)
             F(k) == ParseFrom(NewParse, SubSeq(lines, 1, k))
  <1>1. lines \in Seq({lines[i] : i \in DOMAIN lines}) /\ n \in Nat
    BY DEF FormedLines, Sequence
  <1>2. F(0) = NewParse /\ \A k \in 1..n : F(k) = Consume(F(k - 1), lines[k])
    <2>1. ParseGrows(NewParse, lines)
      BY <1>1, ParseFoldStep
    <2> QED  BY <2>1 DEF ParseGrows, n
  <1>3. Bodies(0) = 0 /\ Bodies(Size(lines)) = n /\ NewParse.offset = 0
    BY <1>1, BodiesKept DEF Size, NewParse
  <1>4. ReadRollout(NewParse, lines, Size(lines)) = Paused(F(n), Kept(Size(lines)))
    BY <1>3, ReadingIs
  <1> HIDE DEF F
  <1>5. \A k \in Nat : k <= n => Tallied(F(k))
    <2> DEFINE T == {k \in Nat : k <= n => Tallied(F(k))}
    <2>1. 0 \in T
      BY <1>2, NewParseIsTallied
    <2>2. ASSUME NEW k \in T PROVE k + 1 \in T
      <3> SUFFICES ASSUME k + 1 <= n PROVE Tallied(F(k + 1))
        OBVIOUS
      <3>1. k + 1 \in 1..n /\ (k + 1) - 1 = k /\ k <= n
        BY <1>1
      <3>2. Tallied(F(k)) /\ FormedLine(lines[k + 1])
        BY <3>1 DEF FormedLines
      <3> QED  BY <1>2, <3>1, <3>2, ConsumeIsTallied
    <2>3. T \in SUBSET Nat
      OBVIOUS
    <2> HIDE DEF T
    <2>4. \A k \in Nat : k \in T
      BY <2>1, <2>2, <2>3, Induct
    <2> QED  BY <2>4 DEF T
  <1>6. Tallied(F(n))
    BY <1>1, <1>5
  <1>7. Tallied(Paused(F(n), Kept(Size(lines))))
    BY <1>6, FieldNames, MoreNames DEF Tallied, Paused
  <1> QED  BY <1>4, <1>7

\* A file as it is handed to the accounting.
ParsedIs(f, file) ==
    /\ f = [x \in ParseFields |-> f[x]]
    /\ Sound(f) /\ f.uid = <<Env, file.path>> /\ f.detailed = TRUE

\* What is filled in at the end.
Filed(p, file, id, root, resolved, start, end, created, models) ==
    [[p EXCEPT !.id = id, !.root = root, !.resolved = resolved, !.start = start,
               !.end = end, !.created = created, !.models = models]
        EXCEPT !.env = Env, !.path = file.path, !.source = "active",
               !.uid = <<Env, file.path>>]

LEMMA SoundOf ==
    ASSUME NEW p, Tallied(p), NEW file, file.path \in Nat, NEW id, NEW root, NEW resolved,
           NEW start \in Nat, NEW end \in Nat, NEW created \in Nat, NEW models
    PROVE  ParsedIs(Filed(p, file, id, root, resolved, start, end, created, models), file)
  <1> DEFINE q == [p EXCEPT !.id = id, !.root = root, !.resolved = resolved, !.start = start,
                            !.end = end, !.created = created, !.models = models]
             f == [q EXCEPT !.env = Env, !.path = file.path, !.source = "active",
                            !.uid = <<Env, file.path>>]
  <1>1. /\ q = [x \in ParseFields |-> q[x]] /\ q.rows = p.rows /\ q.total = p.total
        /\ q.detailed = TRUE
        /\ q.start = start /\ q.end = end /\ q.created = created
    BY FieldNames, MoreNames DEF Tallied
  <1> HIDE DEF q
  <1>2. /\ f = [x \in ParseFields |-> f[x]] /\ f.rows = p.rows /\ f.total = p.total
        /\ f.detailed = TRUE
        /\ f.start = start /\ f.end = end /\ f.created = created
        /\ f.path = file.path /\ f.uid = <<Env, file.path>>
    BY <1>1, FieldNames, MoreNames
  <1> HIDE DEF f
  <1>3. DOMAIN f = ParseFields
    BY <1>2
  <1>4. {"rows", "total", "uid", "detailed"} \subseteq DOMAIN f
    BY <1>3, FieldNames, MoreNames
  <1>5. Whole(f)
    BY <1>2, <1>4 DEF Whole, Tallied
  <1>6. Sound(f)
    BY <1>2, <1>5 DEF Sound
  <1>7. ParsedIs(f, file)
    BY <1>2, <1>6 DEF ParsedIs
  <1> QED  BY <1>7 DEF f, q, Filed

LEMMA ParsedIsSound ==
    ASSUME NEW file, FormedLines(file.lines), file.path \in Nat
    PROVE  ParsedIs(Parsed(file), file)
  <1> DEFINE p == ReadRollout(NewParse, file.lines, Size(file.lines))
             id == IF p.id = NoId THEN file.path ELSE p.id
             root == IF p.root = NoId THEN id ELSE p.root
             start == IF p.rawStart # NoTime THEN p.rawStart ELSE p.rawCreated
             end == IF p.rawEnd # NoTime THEN p.rawEnd ELSE start
             created == IF p.rawCreated = NoTime THEN start ELSE p.rawCreated
             models == (p.models \cup {p.rows[i].model : i \in DOMAIN p.rows} \cup {p.model})
                           \ {NoName}
             done == [p EXCEPT !.id = id, !.root = root, !.resolved = ~p.agent, !.start = start,
                               !.end = end, !.created = created, !.models = models]
  <1>1. Tallied(p)
    BY ReadingIsTallied
  <1> HIDE DEF p
  <1>2. start \in Nat /\ end \in Nat /\ created \in Nat
    BY <1>1 DEF Tallied
  <1>3. Completed(p, file.path) = done
    <2>1. p = [x \in ParseFields |-> p[x]]
      BY <1>1 DEF Tallied
    <2> QED  BY <2>1, FieldNames DEF Completed
  <1>4. Parsed(file) = Filed(p, file, id, root, ~p.agent, start, end, created, models)
    <2>1. Parsed(file) = [done EXCEPT !.env = Env, !.path = file.path, !.source = "active",
                                      !.uid = <<Env, file.path>>]
      <3> HIDE DEF done
      <3> QED  BY <1>3 DEF Parsed, ParseFile, p
    <2> HIDE DEF id, root, start, end, created, models
    <2> QED  BY <2>1 DEF Filed
  <1> HIDE DEF id, root, start, end, created, models
  <1>5. ParsedIs(Filed(p, file, id, root, ~p.agent, start, end, created, models), file)
    BY <1>1, <1>2, SoundOf
  <1> QED  BY <1>4, <1>5

-------------------------------------------------------------------------------
(* What is published *)

LEMMA TiersKeepSound ==
    ASSUME NEW file, NEW f, ParsedIs(f, file), NEW events
    PROVE  ParsedIs(ApplyRuntimeTiers(f, events), file)
  <1> DEFINE combined == NormalizeTiers(events \o f.tiers)
             Reached(k) == Max({f.rows[j].at : j \in 1..k})
             Tier(k) == LET active == TierSet(combined, Reached(k))
                        IN  IF active = NoName THEN f.rows[k].tier ELSE active
             rows == [k \in DOMAIN f.rows |-> [f.rows[k] EXCEPT !.tier = Tier(k)]]
             tier == IF rows = <<>> THEN f.tier ELSE Last(rows).tier
             g == [f EXCEPT !.rows = rows, !.tiers = combined, !.tier = tier]
  <1>1. ApplyRuntimeTiers(f, events) = IF events = <<>> THEN f ELSE g
    BY DEF ApplyRuntimeTiers
  <1>2. Len(f.rows) \in Nat /\ DOMAIN f.rows = 1..Len(f.rows)
        /\ \A k \in 1..Len(f.rows) : CountedRow(f.rows[k])
    BY SequenceIsListed DEF ParsedIs, Sound, Whole, CountedRows
  <1>3. ASSUME NEW r, CountedRow(r), NEW t
        PROVE  CountedRow([r EXCEPT !.tier = t])
    BY <1>3 DEF CountedRow
  <1> HIDE DEF Tier
  <1>4. /\ DOMAIN rows = 1..Len(f.rows) /\ rows = [k \in DOMAIN rows |-> rows[k]]
        /\ \A k \in 1..Len(f.rows) : rows[k] = [f.rows[k] EXCEPT !.tier = Tier(k)]
    BY <1>2
  <1> HIDE DEF rows
  <1>5. Sequence(rows) /\ Len(rows) = Len(f.rows)
    BY <1>2, <1>4, ListedItems
  <1>6. \A k \in 1..Len(rows) : CountedRow(rows[k])
    <2> SUFFICES ASSUME NEW k \in 1..Len(rows) PROVE CountedRow(rows[k])
      OBVIOUS
    <2>1. CountedRow(f.rows[k]) /\ rows[k] = [f.rows[k] EXCEPT !.tier = Tier(k)]
      BY <1>2, <1>4, <1>5
    <2> DEFINE r == f.rows[k]
               tierK == Tier(k)
    <2>2. CountedRow(r) /\ rows[k] = [r EXCEPT !.tier = tierK]
      BY <2>1
    <2> HIDE DEF r, tierK
    <2>3. CountedRow([r EXCEPT !.tier = tierK])
      BY <1>3, <2>2
    <2> QED  BY <2>2, <2>3
  <1>7. CountedRows(rows)
    BY <1>5, <1>6 DEF CountedRows
  <1> HIDE DEF tier, combined
  <1>8. /\ g = [x \in ParseFields |-> g[x]] /\ g.rows = rows
        /\ g.total = f.total /\ g.uid = f.uid /\ g.detailed = f.detailed
        /\ g.path = f.path /\ g.created = f.created /\ g.start = f.start /\ g.end = f.end
    BY FieldNames, MoreNames DEF ParsedIs
  <1> HIDE DEF g
  <1>9. {"rows", "total", "uid", "detailed"} \subseteq DOMAIN g
    <2>1. DOMAIN g = ParseFields
      BY <1>8
    <2> QED  BY <2>1, FieldNames, MoreNames
  <1>10. Sound(g)
    BY <1>7, <1>8, <1>9 DEF ParsedIs, Sound, Whole
  <1>11. ParsedIs(g, file)
    BY <1>8, <1>10 DEF ParsedIs
  <1> QED  BY <1>1, <1>11

\* What is published: sessions with usage and details, no two of one file.
Published(all) ==
    /\ Sequence(all)
    /\ \A k \in 1..Len(all) : Whole(all[k]) /\ all[k].detailed = TRUE
    /\ \A k, l \in 1..Len(all) : all[k].uid = all[l].uid => k = l

LEMMA PublishIs ==
    ASSUME NEW fs, FilesFormed(fs), NEW switches
    PROVE  Published(Publish(fs, switches))
  <1> DEFINE raw == [i \in DOMAIN fs |-> WithTiers(Parsed(fs[i]), switches)]
             n == Len(fs)
             all == NormalizeSessions(raw)
  <1>1. n \in Nat /\ DOMAIN fs = 1..n
    BY SequenceIsListed DEF FilesFormed
  <1>2. \A i \in 1..n : ParsedIs(raw[i], fs[i]) /\ fs[i].path = i
    <2> SUFFICES ASSUME NEW i \in 1..n PROVE ParsedIs(raw[i], fs[i]) /\ fs[i].path = i
      OBVIOUS
    <2>1. FormedLines(fs[i].lines) /\ fs[i].path = i /\ i \in Nat
      BY <1>1 DEF FilesFormed
    <2>2. ParsedIs(Parsed(fs[i]), fs[i])
      BY <2>1, ParsedIsSound
    <2>3. raw[i] = ApplyRuntimeTiers(Parsed(fs[i]),
                       SelectSeq(switches, LAMBDA t : t.id = Parsed(fs[i]).id))
      BY <1>1 DEF WithTiers
    <2> QED  BY <2>1, <2>2, <2>3, TiersKeepSound
  <1>3. DOMAIN raw = 1..n /\ raw = [k \in DOMAIN raw |-> raw[k]]
    BY <1>1
  <1>4. Publish(fs, switches) = all
    BY DEF Publish
  <1> HIDE DEF raw
  <1>5. Sequence(raw) /\ Len(raw) = n
    BY <1>1, <1>3, ListedItems
  <1>6. SoundFiles(raw)
    BY <1>2, <1>5 DEF SoundFiles, ParsedIs
  <1>7. /\ Sequence(all)
        /\ EachOnce(all, raw)
    BY <1>6, OneSessionEach
  <1> HIDE DEF all, n
  <1>8. PICK of \in [1..Len(all) -> 1..n] :
            /\ \A k \in 1..Len(all) : Whole(all[k]) /\ Same(all[k], raw[of[k]])
            /\ \A k, l \in 1..Len(all) : Identity(raw[of[k]]) = Identity(raw[of[l]]) => k = l
    BY <1>5, <1>7 DEF EachOnce
  <1>9. \A k \in 1..Len(all) : of[k] \in 1..n
    BY <1>8
  <1>10. \A k \in 1..Len(all) : all[k].uid = <<Env, of[k]>> /\ all[k].detailed = TRUE
    <2> SUFFICES ASSUME NEW k \in 1..Len(all)
                 PROVE  all[k].uid = <<Env, of[k]>> /\ all[k].detailed = TRUE
      OBVIOUS
    <2>1. ParsedIs(raw[of[k]], fs[of[k]]) /\ fs[of[k]].path = of[k]
      BY <1>2, <1>9
    <2>2. all[k].uid = raw[of[k]].uid /\ all[k].detailed = raw[of[k]].detailed
      BY <1>8 DEF Same
    <2> QED  BY <2>1, <2>2 DEF ParsedIs
  <1>11. \A k, l \in 1..Len(all) : all[k].uid = all[l].uid => k = l
    <2> SUFFICES ASSUME NEW k \in 1..Len(all), NEW l \in 1..Len(all), all[k].uid = all[l].uid
                 PROVE  k = l
      OBVIOUS
    <2>1. of[k] = of[l]
      BY <1>10
    <2> QED  BY <1>8, <2>1
  <1> QED  BY <1>4, <1>7, <1>8, <1>10, <1>11 DEF Published

-------------------------------------------------------------------------------
(* Pages of a list *)

\* How many pages of a size there are, and where one begins.
Pages(total, limit) == IF total = 0 THEN 1 ELSE 1 + (total - 1) \div limit
At(n, limit) == (n - 1) * limit

LEMMA Quotient ==
    ASSUME NEW a \in Nat, NEW b \in Nat \ {0}
    PROVE  /\ a \div b \in Nat
           /\ (a \div b) * b <= a
           /\ a < (a \div b) * b + b
  OBVIOUS

LEMMA Multiple ==
    ASSUME NEW k \in Nat, NEW b \in Nat \ {0}
    PROVE  (k * b) % b = 0 /\ k * b \in Nat
  OBVIOUS

LEMMA Larger ==
    ASSUME NEW j \in Nat, NEW k \in Nat, j <= k, NEW b \in Nat \ {0}
    PROVE  j * b <= k * b /\ (j < k => j * b + b <= k * b)
  OBVIOUS

\* Every page but the last is full, and the last ends with the list.
LaidOut(total, limit) ==
    /\ Pages(total, limit) \in Nat \ {0}
    /\ At(1, limit) = 0
    /\ \A n \in 1..Pages(total, limit) :
           /\ At(n, limit) \in Nat /\ At(n, limit) % limit = 0
           /\ At(n + 1, limit) = At(n, limit) + limit
           /\ total # 0 => At(n, limit) < total
           /\ n # 1 => At(n, limit) = At(n - 1, limit) + limit /\ At(n - 1, limit) \in Nat
                       /\ At(n, limit) >= limit
           /\ n < Pages(total, limit) <=> At(n, limit) + limit < total

LEMMA Offsets ==
    ASSUME NEW total \in Nat, NEW limit \in Nat \ {0}
    PROVE  LaidOut(total, limit)
  <1> DEFINE last == Pages(total, limit)
             q == (total - 1) \div limit
  <1>1. total # 0 => /\ q \in Nat /\ q * limit <= total - 1 /\ total - 1 < q * limit + limit
                     /\ last = 1 + q
    <2> SUFFICES ASSUME total # 0
                 PROVE  q \in Nat /\ q * limit <= total - 1 /\ total - 1 < q * limit + limit
      BY DEF Pages
    <2>1. total - 1 \in Nat
      OBVIOUS
    <2> QED  BY <2>1, Quotient
  <1>2. total = 0 => last = 1
    BY DEF Pages
  <1> HIDE DEF last, q
  <1>3. last \in Nat \ {0}
    BY <1>1, <1>2
  <1>4. At(1, limit) = 0
    BY DEF At
  <1>5. ASSUME NEW n \in 1..last
        PROVE  /\ At(n, limit) \in Nat /\ At(n, limit) % limit = 0
               /\ At(n + 1, limit) = At(n, limit) + limit
               /\ total # 0 => At(n, limit) < total
               /\ n # 1 => At(n, limit) = At(n - 1, limit) + limit /\ At(n - 1, limit) \in Nat
                           /\ At(n, limit) >= limit
               /\ n < last <=> At(n, limit) + limit < total
    <2>1. n - 1 \in Nat /\ (n + 1) - 1 = (n - 1) + 1
      BY <1>3
    <2>2. At(n, limit) \in Nat /\ At(n, limit) % limit = 0
      BY <2>1, Multiple DEF At
    <2>3. At(n + 1, limit) = At(n, limit) + limit
      <3>1. \A k \in Nat : (k + 1) * limit = k * limit + limit
        OBVIOUS
      <3> QED  BY <2>1, <3>1 DEF At
    <2>4. total # 0 => At(n, limit) < total
      <3> SUFFICES ASSUME total # 0 PROVE At(n, limit) < total
        OBVIOUS
      <3>1. n - 1 <= q /\ q \in Nat
        BY <1>1, <1>3
      <3>2. (n - 1) * limit <= q * limit
        BY <2>1, <3>1, Larger
      <3>3. q * limit \in Nat
        BY <3>1, Multiple
      <3> QED  BY <1>1, <2>2, <3>2, <3>3 DEF At
    <2>5. n # 1 => At(n, limit) = At(n - 1, limit) + limit /\ At(n - 1, limit) \in Nat
                   /\ At(n, limit) >= limit
      <3> SUFFICES ASSUME n # 1
                   PROVE  At(n, limit) = At(n - 1, limit) + limit /\ At(n - 1, limit) \in Nat
        OBVIOUS
      <3>1. (n - 1) - 1 \in Nat /\ n - 1 = ((n - 1) - 1) + 1
        BY <1>3
      <3>2. \A k \in Nat : (k + 1) * limit = k * limit + limit /\ k * limit \in Nat
        OBVIOUS
      <3>3. At(n - 1, limit) = ((n - 1) - 1) * limit /\ At(n, limit) = (n - 1) * limit
        BY DEF At
      <3> QED  BY <3>1, <3>2, <3>3
    <2>6. n < last <=> At(n, limit) + limit < total
      <3>1. CASE total = 0
        BY <1>2, <1>3, <2>2, <3>1
      <3>2. CASE total # 0 /\ n < last
        <4>1. n - 1 < q /\ q \in Nat
          BY <1>1, <1>3, <3>2
        <4>2. (n - 1) * limit + limit <= q * limit
          BY <2>1, <4>1, Larger
        <4>3. q * limit \in Nat
          BY <4>1, Multiple
        <4> QED  BY <1>1, <2>2, <3>2, <4>2, <4>3 DEF At
      <3>3. CASE total # 0 /\ ~(n < last)
        <4>1. n - 1 = q /\ q \in Nat
          BY <1>1, <1>3, <3>3
        <4>2. At(n, limit) = q * limit
          BY <4>1 DEF At
        <4> QED  BY <1>1, <2>2, <3>3, <4>2
      <3> QED  BY <3>1, <3>2, <3>3
    <2> QED  BY <2>2, <2>3, <2>4, <2>5, <2>6
  <1> QED  BY <1>3, <1>4, <1>5 DEF last, LaidOut

\* The page that begins at an offset.
Sheet(view, binding, items, summary, limit, offset) ==
    LET Neighbor(at) == Cursor(view.revision, binding, limit, at)
        total == Len(items)
        end == IF offset + limit < total THEN offset + limit ELSE total
    IN  [token |-> <<view.revision, binding, limit, offset>>, revision |-> view.revision,
         total |-> total, offset |-> offset, limit |-> limit, summary |-> summary,
         next |-> IF end < total THEN Neighbor(end) ELSE NoCursor,
         previous |-> IF offset = 0 THEN NoCursor
                      ELSE Neighbor(IF offset < limit THEN 0 ELSE offset - limit),
         items |-> SubSeq(items, offset + 1, end)]

\* The cursor of an offset.
CursorAt(view, binding, limit, offset) ==
    IF offset = 0 THEN NoCursor ELSE Cursor(view.revision, binding, limit, offset)

LEMMA CursorsAre ==
    ASSUME NEW revision, NEW binding, NEW limit, NEW offset
    PROVE  LET c == Cursor(revision, binding, limit, offset)
           IN  /\ c # NoCursor
               /\ c.revision = revision /\ c.binding = binding
               /\ c.limit = limit /\ c.offset = offset
               /\ \A at : [c EXCEPT !.offset = at] = Cursor(revision, binding, limit, at)
               /\ \A r : [c EXCEPT !.revision = r] = Cursor(r, binding, limit, offset)
  <1> DEFINE c == Cursor(revision, binding, limit, offset)
  <1>1. c # NoCursor
    <2>1. "offset" \in DOMAIN c /\ "offset" \notin DOMAIN NoCursor
      BY DEF Cursor, NoCursor
    <2> QED  BY <2>1
  <1>2. /\ c.revision = revision /\ c.binding = binding
        /\ c.limit = limit /\ c.offset = offset
    BY DEF Cursor
  <1>3. \A at : [c EXCEPT !.offset = at] = Cursor(revision, binding, limit, at)
    BY DEF Cursor
  <1>4. \A r : [c EXCEPT !.revision = r] = Cursor(r, binding, limit, offset)
    BY DEF Cursor
  <1> QED  BY <1>1, <1>2, <1>3, <1>4

LEMMA FaultsAre ==
    /\ \A why : IsFault(Fault(why))
    /\ \A at : ~IsFault([offset |-> at]) /\ [offset |-> at].offset = at
    /\ \A view, binding, items, summary, limit, offset :
           ~IsFault(Sheet(view, binding, items, summary, limit, offset))
  <1>1. \A why : IsFault(Fault(why))
    BY DEF IsFault, Fault
  <1>2. \A at : ~IsFault([offset |-> at]) /\ [offset |-> at].offset = at
    BY DEF IsFault
  <1>3. \A view, binding, items, summary, limit, offset :
           ~IsFault(Sheet(view, binding, items, summary, limit, offset))
    BY DEF IsFault, Sheet
  <1> QED  BY <1>1, <1>2, <1>3

\* A page is found by the cursor of its offset, the first one without, too.
FoundBy(view, binding, items, summary, limit, offset) ==
    LET Of(c) == Page(view, binding, items, summary, c, limit)
        sheet == Sheet(view, binding, items, summary, limit, offset)
    IN  /\ Of(CursorAt(view, binding, limit, offset)) = sheet
        /\ offset < Len(items) => Of(Cursor(view.revision, binding, limit, offset)) = sheet

LEMMA FoundAt ==
    ASSUME NEW view, NEW binding, NEW items, NEW summary, NEW limit \in 1..100,
           NEW offset \in Nat, offset % limit = 0, Len(items) \in Nat,
           offset # 0 => offset < Len(items)
    PROVE  FoundBy(view, binding, items, summary, limit, offset)
  <1> DEFINE c == CursorAt(view, binding, limit, offset)
             d == Cursor(view.revision, binding, limit, offset)
             total == Len(items)
  <1>1. /\ d # NoCursor /\ d.revision = view.revision /\ d.binding = binding
        /\ d.limit = limit /\ d.offset = offset
    BY CursorsAre
  <1> HIDE DEF d, total
  <1>2. offset < total => Offset(d, view.revision, binding, limit, total) = [offset |-> offset]
    BY <1>1 DEF Offset, total
  <1>4. Offset(c, view.revision, binding, limit, total) = [offset |-> offset]
    <2>1. CASE offset = 0
      <3>1. c = NoCursor
        BY <2>1 DEF CursorAt
      <3> QED  BY <2>1, <3>1 DEF Offset
    <2>2. CASE offset # 0
      <3>1. c = d /\ offset < total
        BY <2>2 DEF CursorAt, d, total
      <3> QED  BY <1>2, <3>1
    <2> QED  BY <2>1, <2>2
  <1>3. ASSUME NEW e, Offset(e, view.revision, binding, limit, total) = [offset |-> offset]
        PROVE  Page(view, binding, items, summary, e, limit)
                   = Sheet(view, binding, items, summary, limit, offset)
    <2>1. /\ ~IsFault(Offset(e, view.revision, binding, limit, total))
          /\ Offset(e, view.revision, binding, limit, total).offset = offset
      BY <1>3, FaultsAre
    <2> QED  BY <2>1 DEF Page, Sheet, total
  <1> QED  BY <1>2, <1>3, <1>4 DEF FoundBy, d, total

\* A cursor of another page size is refused, one of another view, too.
Refused(view, binding, items, summary, limit, offset) ==
    /\ Page(view, binding, items, summary,
            Cursor(view.revision, binding, limit, offset), limit + 1) = Fault("invalid")
    /\ Page(view, binding, items, summary,
            Cursor(<<>>, binding, limit, offset), limit) = Fault("stale")

LEMMA RefusedCursors ==
    ASSUME NEW view, view.revision # <<>>, NEW binding, NEW items, NEW summary,
           NEW limit \in 1..100, NEW offset
    PROVE  Refused(view, binding, items, summary, limit, offset)
  <1> DEFINE c == Cursor(view.revision, binding, limit, offset)
             d == Cursor(<<>>, binding, limit, offset)
             total == Len(items)
  <1>1. /\ c # NoCursor /\ c.revision = view.revision /\ c.limit = limit
        /\ d # NoCursor /\ d.revision = <<>>
    BY CursorsAre
  <1> HIDE DEF c, d, total
  <1>2. Offset(c, view.revision, binding, limit + 1, total) = Fault("invalid")
    <2>1. limit # limit + 1
      OBVIOUS
    <2> QED  BY <1>1, <2>1 DEF Offset
  <1>3. Offset(d, view.revision, binding, limit, total) = Fault("stale")
    BY <1>1 DEF Offset
  <1> QED  BY <1>2, <1>3, FaultsAre DEF Refused, Page, c, d, total

\* The n-th page has the n-th part of the items, and the cursors of its neighbors.
Neighbors(view, binding, items, summary, limit, n) ==
    LET sheet == Sheet(view, binding, items, summary, limit, At(n, limit))
        last == Pages(Len(items), limit)
    IN  /\ sheet.next = IF n = last THEN NoCursor
                        ELSE Cursor(view.revision, binding, limit, At(n + 1, limit))
        /\ sheet.previous = IF n = 1 THEN NoCursor
                            ELSE Cursor(view.revision, binding, limit, At(n - 1, limit))
        /\ sheet.total = Len(items) /\ sheet.limit = limit
        /\ sheet.offset = At(n, limit)
        /\ sheet.items = SubSeq(items, At(n, limit) + 1,
                                IF n = last THEN Len(items) ELSE At(n + 1, limit))

LEMMA SheetNeighbors ==
    ASSUME NEW view, NEW binding, NEW items, NEW summary, NEW limit \in 1..100,
           Len(items) \in Nat, NEW n \in 1..Pages(Len(items), limit)
    PROVE  Neighbors(view, binding, items, summary, limit, n)
  <1> DEFINE offset == At(n, limit)
             total == Len(items)
             last == Pages(total, limit)
             end == IF offset + limit < total THEN offset + limit ELSE total
             s == Sheet(view, binding, items, summary, limit, offset)
  <1>1. /\ last \in Nat \ {0} /\ offset \in Nat
        /\ At(n + 1, limit) = offset + limit
        /\ n # 1 => offset = At(n - 1, limit) + limit /\ At(n - 1, limit) \in Nat /\ offset >= limit
        /\ n < last <=> offset + limit < total
        /\ At(1, limit) = 0
    <2>1. limit \in Nat \ {0} /\ total \in Nat /\ n \in 1..Pages(total, limit)
      OBVIOUS
    <2> HIDE DEF total
    <2>2. LaidOut(total, limit)
      BY <2>1, Offsets
    <2>3. last = Pages(total, limit)
      BY DEF total
    <2> HIDE DEF last
    <2> QED  BY <2>1, <2>2, <2>3 DEF LaidOut
  <1>2. /\ s.total = total /\ s.limit = limit /\ s.offset = offset
        /\ s.next = IF end < total THEN Cursor(view.revision, binding, limit, end) ELSE NoCursor
        /\ s.previous = IF offset = 0 THEN NoCursor
                        ELSE Cursor(view.revision, binding, limit,
                                    IF offset < limit THEN 0 ELSE offset - limit)
        /\ s.items = SubSeq(items, offset + 1, end)
    BY DEF Sheet
  <1> HIDE DEF s, offset, last, total
  <1>3. n = last => end = total
    BY <1>1 DEF total
  <1>4. n # last => end = At(n + 1, limit) /\ end < total
    BY <1>1 DEF total, last
  <1>5. n # 1 => offset # 0 /\ ~(offset < limit) /\ offset - limit = At(n - 1, limit)
    <2> SUFFICES ASSUME n # 1
                 PROVE  offset # 0 /\ ~(offset < limit) /\ offset - limit = At(n - 1, limit)
      OBVIOUS
    <2> DEFINE b == At(n - 1, limit)
    <2>1. offset = b + limit /\ b \in Nat /\ limit \in Nat \ {0}
      BY <1>1
    <2> HIDE DEF b
    <2>2. offset # 0 /\ ~(offset < limit) /\ offset - limit = b
      BY <2>1
    <2> QED  BY <2>2 DEF b
  <1>6. n = 1 => offset = 0
    BY <1>1 DEF offset
  <1>7. /\ s.next = IF n = last THEN NoCursor
                    ELSE Cursor(view.revision, binding, limit, At(n + 1, limit))
        /\ s.items = SubSeq(items, offset + 1, IF n = last THEN total ELSE At(n + 1, limit))
    <2>1. CASE n = last
      <3>1. ~(end < total)
        BY <1>3, <2>1 DEF total
      <3> QED  BY <1>2, <1>3, <2>1, <3>1
    <2>2. CASE n # last
      BY <1>2, <1>4, <2>2
    <2> QED  BY <2>1, <2>2
  <1>8. s.previous = IF n = 1 THEN NoCursor
                     ELSE Cursor(view.revision, binding, limit, At(n - 1, limit))
    BY <1>2, <1>5, <1>6
  <1> HIDE DEF end
  <1> QED  BY <1>2, <1>7, <1>8 DEF Neighbors, s, offset, last, total

\* f is the pages that one gets by following the next cursors.
Walked(f, view, binding, items, summary, limit) ==
    f = [n \in 1..Pages(Len(items), limit) |->
            IF n = 1 THEN Page(view, binding, items, summary, NoCursor, limit)
            ELSE Page(view, binding, items, summary, f[n - 1].next, limit)]

Follows(view, binding, items, summary, limit) ==
    LET S(k) == Sheet(view, binding, items, summary, limit, At(k, limit))
        Of(c) == Page(view, binding, items, summary, c, limit)
    IN  /\ Of(NoCursor) = S(1)
        /\ \A n \in 2..Pages(Len(items), limit) :
               Of(S(n - 1).next) = S(n) /\ Of(S(n).previous) = S(n - 1)

LEMMA NextIsFound ==
    ASSUME NEW view, NEW binding, NEW items, NEW summary, NEW limit \in 1..100,
           Len(items) \in Nat
    PROVE  Follows(view, binding, items, summary, limit)
  <1> DEFINE S(k) == Sheet(view, binding, items, summary, limit, At(k, limit))
             Of(c) == Page(view, binding, items, summary, c, limit)
             last == Pages(Len(items), limit)
             Named1(k) == Cursor(view.revision, binding, limit, At(k, limit))
  <1>1. /\ last \in Nat \ {0} /\ At(1, limit) = 0
        /\ \A n \in 1..last : /\ At(n, limit) \in Nat /\ At(n, limit) % limit = 0
                              /\ Len(items) # 0 => At(n, limit) < Len(items)
                              /\ n # 1 => At(n, limit) >= limit
    <2>1. limit \in Nat \ {0}
      OBVIOUS
    <2>2. LaidOut(Len(items), limit)
      BY <2>1, Offsets
    <2> QED  BY <2>1, <2>2 DEF LaidOut
  <1>2. \A n \in 1..last : Len(items) # 0 => Of(Named1(n)) = S(n)
    <2> SUFFICES ASSUME NEW n \in 1..last, Len(items) # 0 PROVE Of(Named1(n)) = S(n)
      OBVIOUS
    <2> DEFINE o == At(n, limit)
    <2>1. o \in Nat /\ o % limit = 0 /\ o < Len(items)
      BY <1>1
    <2> HIDE DEF o
    <2>2. Page(view, binding, items, summary, Cursor(view.revision, binding, limit, o), limit)
              = Sheet(view, binding, items, summary, limit, o)
      <3>1. FoundBy(view, binding, items, summary, limit, o)
        BY <2>1, FoundAt
      <3> QED  BY <2>1, <3>1 DEF FoundBy
    <2> QED  BY <2>2 DEF o
  <1>3. Of(NoCursor) = S(1)
    <2>1. CursorAt(view, binding, limit, 0) = NoCursor
      BY DEF CursorAt
    <2>2. 0 \in Nat /\ 0 % limit = 0
      OBVIOUS
    <2>3. FoundBy(view, binding, items, summary, limit, 0)
      BY <2>2, FoundAt
    <2> QED  BY <1>1, <2>1, <2>3 DEF FoundBy
  <1>4. last >= 2 => Len(items) # 0
    BY <1>1 DEF Pages
  <1>5. ASSUME NEW n \in 2..last PROVE Of(S(n - 1).next) = S(n) /\ Of(S(n).previous) = S(n - 1)
    <2>1. n \in 1..last /\ n - 1 \in 1..last /\ n - 1 # last /\ n # 1 /\ (n - 1) + 1 = n
      BY <1>1
    <2>2. S(n - 1).next = Named1(n) /\ S(n).previous = Named1(n - 1)
      <3>1. /\ Neighbors(view, binding, items, summary, limit, n - 1)
            /\ Neighbors(view, binding, items, summary, limit, n)
        BY <2>1, SheetNeighbors
      <3> QED  BY <2>1, <3>1 DEF Neighbors
    <2>3. last >= 2
      BY <1>1
    <2> HIDE DEF S, Of, Named1, last
    <2> QED  BY <1>2, <1>4, <2>1, <2>2, <2>3
  <1> QED  BY <1>3, <1>5 DEF Follows

Sheets(view, binding, items, summary, limit) ==
    [n \in 1..Pages(Len(items), limit) |->
        Sheet(view, binding, items, summary, limit, At(n, limit))]

LEMMA WalkIs ==
    ASSUME NEW view, NEW binding, NEW items, NEW summary, NEW limit \in 1..100,
           Len(items) \in Nat
    PROVE  \A f : Walked(f, view, binding, items, summary, limit)
                    <=> f = Sheets(view, binding, items, summary, limit)
  <1> DEFINE S(k) == Sheet(view, binding, items, summary, limit, At(k, limit))
             Of(c) == Page(view, binding, items, summary, c, limit)
             last == Pages(Len(items), limit)
             all == [n \in 1..last |-> S(n)]
  <1>1. /\ Of(NoCursor) = S(1)
        /\ \A n \in 2..last : Of(S(n - 1).next) = S(n)
    <2>1. Follows(view, binding, items, summary, limit)
      BY NextIsFound
    <2> QED  BY <2>1 DEF Follows
  <1>2. last \in Nat \ {0}
    <2>1. limit \in Nat \ {0}
      OBVIOUS
    <2>2. LaidOut(Len(items), limit)
      BY <2>1, Offsets
    <2> QED  BY <2>1, <2>2 DEF LaidOut
  <1>3. \A f : Walked(f, view, binding, items, summary, limit)
                  <=> f = [n \in 1..last |-> IF n = 1 THEN Of(NoCursor) ELSE Of(f[n - 1].next)]
    BY DEF Walked
  <1> HIDE DEF S, Of, last
  <1>4. ASSUME NEW f, f = [n \in 1..last |-> IF n = 1 THEN Of(NoCursor) ELSE Of(f[n - 1].next)]
        PROVE  f = all
    <2> DEFINE good == {k \in Nat : k + 1 <= last => f[k + 1] = S(k + 1)}
    <2>0. \A n \in 1..last : f[n] = IF n = 1 THEN Of(NoCursor) ELSE Of(f[n - 1].next)
      BY <1>4
    <2>1. 0 \in good
      <3>1. 1 \in 1..last
        BY <1>2
      <3> QED  BY <1>1, <2>0, <3>1
    <2>2. ASSUME NEW k \in good PROVE k + 1 \in good
      <3> SUFFICES ASSUME k + 2 <= last PROVE f[k + 2] = S(k + 2)
        OBVIOUS
      <3>1. k + 2 \in 2..last /\ k + 2 \in 1..last /\ k + 2 # 1 /\ (k + 2) - 1 = k + 1 /\ k + 1 <= last
        BY <1>2
      <3>2. f[k + 1] = S(k + 1)
        BY <3>1
      <3> HIDE DEF good
      <3>3. f[k + 2] = Of(f[k + 1].next)
        BY <2>0, <3>1
      <3> QED  BY <1>1, <3>1, <3>2, <3>3
    <2>3. \A k \in Nat : k \in good
      <3>1. good \in SUBSET Nat
        OBVIOUS
      <3> HIDE DEF good
      <3> QED  BY <2>1, <2>2, <3>1, Induct
    <2>4. \A n \in 1..last : f[n] = S(n)
      <3> TAKE n \in 1..last
      <3>1. n - 1 \in Nat /\ (n - 1) + 1 = n /\ n <= last
        BY <1>2
      <3> QED  BY <2>3, <3>1
    <2> HIDE DEF good
    <2>5. DOMAIN f = 1..last /\ f = [n \in DOMAIN f |-> f[n]]
      BY <1>4
    <2> QED  BY <2>4, <2>5
  <1>5. all = [n \in 1..last |-> IF n = 1 THEN Of(NoCursor) ELSE Of(all[n - 1].next)]
    <2>1. \A n \in 1..last : S(n) = IF n = 1 THEN Of(NoCursor) ELSE Of(all[n - 1].next)
      <3> TAKE n \in 1..last
      <3>1. n # 1 => n \in 2..last /\ n - 1 \in 1..last
        BY <1>2
      <3>2. n # 1 => all[n - 1] = S(n - 1)
        BY <3>1
      <3> HIDE DEF all
      <3> QED  BY <1>1, <3>1, <3>2
    <2>2. all = [n \in 1..last |-> S(n)]
      OBVIOUS
    <2> HIDE DEF all
    <2> QED  BY <2>1, <2>2
  <1> HIDE DEF all
  <1>6. \A f : Walked(f, view, binding, items, summary, limit) <=> f = all
    BY <1>3, <1>4, <1>5
  <1> QED  BY <1>6 DEF Sheets, all, S, last

LEMMA Joined ==
    ASSUME NEW S, NEW s \in Seq(S), NEW a \in 0..Len(s), NEW b \in a..Len(s)
    PROVE  SubSeq(s, 1, a) \o SubSeq(s, a + 1, b) = SubSeq(s, 1, b)
  OBVIOUS

\* The parts between offsets, one after another, are the whole.
LEMMA PartsMakeWhole ==
    ASSUME NEW items, Sequence(items), NEW last \in Nat \ {0}, NEW ends \in [0..last -> 0..Len(items)],
           ends[0] = 0, ends[last] = Len(items), \A n \in 1..last : ends[n - 1] <= ends[n]
    PROVE  FlattenSeq([n \in 1..last |-> SubSeq(items, ends[n - 1] + 1, ends[n])]) = items
  <1> DEFINE parts == [n \in 1..last |-> SubSeq(items, ends[n - 1] + 1, ends[n])]
             S == {items[i] : i \in DOMAIN items}
  <1>1. DOMAIN parts = 1..last /\ parts = [n \in DOMAIN parts |-> parts[n]]
        /\ \A n \in 1..last : parts[n] = SubSeq(items, ends[n - 1] + 1, ends[n])
    OBVIOUS
  <1>2. items \in Seq(S) /\ Len(items) \in Nat
    BY DEF Sequence
  <1> HIDE DEF parts, S
  <1>3. Len(parts) = last
    BY <1>1, ListedItems
  <1>4. PICK g : FlattensUpTo(g, parts, last) /\ FlattenSeq(parts) = g[last]
    BY <1>3, FlattenIs
  <1>5. \A n \in 1..last : g[n] = IF n = 1 THEN parts[n] ELSE g[n - 1] \o parts[n]
    BY <1>4 DEF FlattensUpTo
  <1> DEFINE good == {k \in Nat : k + 1 <= last => g[k + 1] = SubSeq(items, 1, ends[k + 1])}
  <1>6. 0 \in good
    <2>1. 1 \in 1..last /\ 1 - 1 = 0 /\ 0 + 1 = 1
      OBVIOUS
    <2>2. g[1] = parts[1]
      BY <1>5, <2>1
    <2>3. parts[1] = SubSeq(items, 1, ends[1])
      BY <1>1, <2>1
    <2> QED  BY <2>2, <2>3
  <1>7. ASSUME NEW k \in good PROVE k + 1 \in good
    <2> SUFFICES ASSUME k + 2 <= last PROVE g[k + 2] = SubSeq(items, 1, ends[k + 2])
      OBVIOUS
    <2>1. k + 2 \in 1..last /\ k + 2 # 1 /\ (k + 2) - 1 = k + 1 /\ k + 1 <= last
          /\ k + 1 \in 0..last /\ k + 2 \in 0..last
      OBVIOUS
    <2>2. g[k + 1] = SubSeq(items, 1, ends[k + 1])
      BY <2>1
    <2>3. g[k + 2] = g[k + 1] \o SubSeq(items, ends[k + 1] + 1, ends[k + 2])
      <3> HIDE DEF good
      <3> DEFINE m == k + 2
      <3>1. m \in 1..last /\ m # 1 /\ m - 1 = k + 1
        BY <2>1
      <3> HIDE DEF m
      <3>2. g[m] = g[m - 1] \o parts[m]
        BY <1>5, <3>1
      <3>3. parts[m] = SubSeq(items, ends[m - 1] + 1, ends[m])
        BY <1>1, <3>1
      <3>4. g[m] = g[k + 1] \o SubSeq(items, ends[k + 1] + 1, ends[m])
        BY <3>1, <3>2, <3>3
      <3> QED  BY <3>4 DEF m
    <2>4. ends[k + 1] \in 0..Len(items) /\ ends[k + 2] \in ends[k + 1]..Len(items)
      <3>1. ends[(k + 2) - 1] <= ends[k + 2]
        BY <2>1
      <3> QED  BY <1>2, <2>1, <3>1
    <2> HIDE DEF good
    <2> QED  BY <1>2, <2>2, <2>3, <2>4, Joined
  <1>8. \A k \in Nat : k \in good
    <2>1. good \in SUBSET Nat
      OBVIOUS
    <2> HIDE DEF good
    <2> QED  BY <1>6, <1>7, <2>1, Induct
  <1>9. g[last] = SubSeq(items, 1, Len(items))
    <2>1. last - 1 \in Nat /\ (last - 1) + 1 = last
      OBVIOUS
    <2>2. last - 1 \in good
      BY <1>8, <2>1
    <2> QED  BY <2>1, <2>2
  <1>10. SubSeq(items, 1, Len(items)) = items
    BY <1>2, Entire
  <1> QED  BY <1>4, <1>9, <1>10 DEF parts

SheetItems(view, binding, items, summary, limit) ==
    [n \in 1..Pages(Len(items), limit) |->
        Sheet(view, binding, items, summary, limit, At(n, limit)).items]

LEMMA SheetsTile ==
    ASSUME NEW view, NEW binding, NEW items, NEW summary, NEW limit \in 1..100,
           Sequence(items)
    PROVE  FlattenSeq(SheetItems(view, binding, items, summary, limit)) = items
  <1> DEFINE total == Len(items)
             last == Pages(total, limit)
             ends == [n \in 0..last |-> IF n = last THEN total ELSE At(n + 1, limit)]
             Part(n) == Sheet(view, binding, items, summary, limit, At(n, limit)).items
  <1>1. total \in Nat /\ limit \in Nat \ {0}
    BY DEF Sequence
  <1>2. /\ last \in Nat \ {0} /\ At(1, limit) = 0
        /\ \A n \in 1..last : /\ At(n, limit) \in Nat
                              /\ At(n + 1, limit) = At(n, limit) + limit
                              /\ total # 0 => At(n, limit) < total
                              /\ n < last <=> At(n, limit) + limit < total
    <2> HIDE DEF total
    <2> QED  BY <1>1, Offsets DEF LaidOut
  <1>3. \A n \in 1..last : Part(n) = SubSeq(items, At(n, limit) + 1,
                                            IF n = last THEN total ELSE At(n + 1, limit))
    <2>1. ASSUME NEW n \in 1..last
          PROVE  Part(n) = SubSeq(items, At(n, limit) + 1,
                                  IF n = last THEN total ELSE At(n + 1, limit))
      <3>1. Neighbors(view, binding, items, summary, limit, n)
        BY <1>1, SheetNeighbors
      <3> QED  BY <3>1 DEF Neighbors
    <2> HIDE DEF Part, last, total
    <2> QED  BY <2>1
  <1> HIDE DEF Part, last, total
  <1>4. total = 0 => last = 1
    BY DEF Pages, last
  <1>5. \A n \in 0..last - 1 : ends[n] = At(n + 1, limit) /\ ends[n] \in 0..total
    <2> TAKE n \in 0..last - 1
    <2>1. n \in 0..last /\ n # last /\ n + 1 \in 1..last
      BY <1>2
    <2>2. ends[n] = At(n + 1, limit)
      BY <2>1
    <2>3. total = 0 => n + 1 = 1
      BY <1>4, <2>1
    <2>4. At(n + 1, limit) \in Nat /\ (total # 0 => At(n + 1, limit) < total)
      BY <1>2, <2>1
    <2>5. total = 0 => At(n + 1, limit) = 0
      BY <1>2, <2>3
    <2> HIDE DEF ends
    <2> QED  BY <1>1, <2>2, <2>4, <2>5
  <1>6. ends[last] = total /\ ends[0] = 0 /\ ends \in [0..last -> 0..total]
    <2>1. ends[last] = total
      BY <1>2
    <2>2. 0 \in 0..last - 1 /\ 0 + 1 = 1
      BY <1>2
    <2>3. ends[0] = 0
      BY <1>2, <1>5, <2>2
    <2>4. \A n \in 0..last : ends[n] \in 0..total
      <3> HIDE DEF ends
      <3> QED  BY <1>1, <1>2, <1>5, <2>1
    <2>5. DOMAIN ends = 0..last /\ ends = [n \in 0..last |-> ends[n]]
      OBVIOUS
    <2> HIDE DEF ends
    <2> QED  BY <2>1, <2>3, <2>4, <2>5
  <1>7. \A n \in 1..last : /\ At(n, limit) = ends[n - 1]
                           /\ ends[n] = IF n = last THEN total ELSE At(n + 1, limit)
    <2> TAKE n \in 1..last
    <2>1. n - 1 \in 0..last - 1 /\ (n - 1) + 1 = n /\ n \in 0..last
      BY <1>2
    <2>2. ends[n - 1] = At(n, limit)
      BY <1>5, <2>1
    <2>3. ends[n] = IF n = last THEN total ELSE At(n + 1, limit)
      BY <2>1
    <2> HIDE DEF ends
    <2> QED  BY <2>2, <2>3
  <1>8. \A n \in 1..last : ends[n - 1] <= ends[n]
    <2> TAKE n \in 1..last
    <2>1. At(n, limit) = ends[n - 1] /\ At(n, limit) \in Nat
          /\ At(n + 1, limit) = At(n, limit) + limit
          /\ ends[n - 1] \in 0..total
      <3>1. n - 1 \in 0..last
        BY <1>2
      <3> HIDE DEF ends
      <3> QED  BY <1>2, <1>6, <1>7, <3>1
    <2>2. ends[n] = IF n = last THEN total ELSE At(n + 1, limit)
      BY <1>7
    <2> HIDE DEF ends
    <2> QED  BY <1>1, <2>1, <2>2
  <1> HIDE DEF ends
  <1>9. [n \in 1..last |-> Part(n)] = [n \in 1..last |-> SubSeq(items, ends[n - 1] + 1, ends[n])]
    BY <1>3, <1>7
  <1>10. FlattenSeq([n \in 1..last |-> SubSeq(items, ends[n - 1] + 1, ends[n])]) = items
    BY <1>2, <1>6, <1>8, PartsMakeWhole DEF total
  <1>11. FlattenSeq([n \in 1..last |-> Part(n)]) = items
    BY <1>9, <1>10
  <1> QED  BY <1>11 DEF SheetItems, Part, last, total

\* The previous cursors lead back, and only in their own view and page size.
LeadsBack(view, binding, items, summary, limit) ==
    LET S(k) == Sheet(view, binding, items, summary, limit, At(k, limit))
    IN  \A n \in 2..Pages(Len(items), limit) :
            /\ Page(view, binding, items, summary, S(n).previous, limit) = S(n - 1)
            /\ Page(view, binding, items, summary, S(n).previous, limit + 1) = Fault("invalid")
            /\ Page(view, binding, items, summary, [S(n).previous EXCEPT !.revision = <<>>], limit)
                   = Fault("stale")

LEMMA SheetsLeadBack ==
    ASSUME NEW view, view.revision # <<>>, NEW binding, NEW items, NEW summary,
           NEW limit \in 1..100, Len(items) \in Nat
    PROVE  LeadsBack(view, binding, items, summary, limit)
  <1> DEFINE S(k) == Sheet(view, binding, items, summary, limit, At(k, limit))
             last == Pages(Len(items), limit)
             Of(c, size) == Page(view, binding, items, summary, c, size)
             back(n) == Cursor(view.revision, binding, limit, At(n - 1, limit))
  <1>0. limit \in Nat \ {0}
    OBVIOUS
  <1>1. ASSUME NEW n \in 2..last
        PROVE  /\ Of(S(n).previous, limit) = S(n - 1)
               /\ Of(S(n).previous, limit + 1) = Fault("invalid")
               /\ Of([S(n).previous EXCEPT !.revision = <<>>], limit) = Fault("stale")
    <2>1. Follows(view, binding, items, summary, limit)
      BY NextIsFound
    <2>2. Of(S(n).previous, limit) = S(n - 1)
      BY <2>1 DEF Follows
    <2>3. n \in 1..last /\ n # 1
      <3>1. last \in Nat
        BY <1>0, Offsets DEF LaidOut
      <3> HIDE DEF last
      <3> QED  BY <3>1
    <2>4. Neighbors(view, binding, items, summary, limit, n)
      BY <2>3, SheetNeighbors
    <2>5. S(n).previous = back(n)
      BY <2>3, <2>4 DEF Neighbors
    <2>6. /\ Of(back(n), limit + 1) = Fault("invalid")
          /\ Of(Cursor(<<>>, binding, limit, At(n - 1, limit)), limit) = Fault("stale")
      <3>1. Refused(view, binding, items, summary, limit, At(n - 1, limit))
        BY RefusedCursors
      <3> QED  BY <3>1 DEF Refused
    <2>7. [back(n) EXCEPT !.revision = <<>>] = Cursor(<<>>, binding, limit, At(n - 1, limit))
      BY CursorsAre
    <2> HIDE DEF S, Of, back
    <2> QED  BY <2>2, <2>5, <2>6, <2>7
  <1> QED  BY <1>1 DEF LeadsBack

\* From a page of several, an anchored cursor finds the page of an old place.
Anchors(view, binding, items, summary, limit, offset) ==
    LET first == Sheet(view, binding, items, summary, limit, 0)
        found == Page(view, binding, items, summary, AnchorCursor(first, offset), limit)
    IN  /\ ~IsFault(found)
        /\ found.offset <= offset
        /\ offset < Len(items) => offset < found.offset + limit

LEMMA SheetsAnchor ==
    ASSUME NEW view, NEW binding, NEW items, NEW summary, NEW limit \in 1..100,
           Len(items) \in Nat, Pages(Len(items), limit) > 1, NEW offset \in 0..Len(items)
    PROVE  Anchors(view, binding, items, summary, limit, offset)
  <1> DEFINE total == Len(items)
             first == Sheet(view, binding, items, summary, limit, 0)
             Of(c) == Page(view, binding, items, summary, c, limit)
             place == IF offset <= total - 1 THEN offset ELSE total - 1
             at == (place \div limit) * limit
             found == Of(AnchorCursor(first, offset))
  <1>1. total \in Nat \ {0} /\ limit \in Nat \ {0}
    BY DEF Pages
  <1>2. /\ first.next = Cursor(view.revision, binding, limit, At(2, limit))
        /\ first.total = total /\ first.limit = limit
    <2>1. At(1, limit) = 0
      BY DEF At
    <2>2. 1 \in 1..Pages(total, limit) /\ 1 # Pages(total, limit)
      <3>1. Pages(total, limit) \in Nat
        <4> HIDE DEF total
        <4> QED  BY <1>1, Offsets DEF LaidOut
      <3> QED  BY <3>1
    <2>3. Neighbors(view, binding, items, summary, limit, 1)
      BY <2>2, SheetNeighbors
    <2>4. 1 + 1 = 2
      OBVIOUS
    <2> QED  BY <2>1, <2>2, <2>3, <2>4 DEF Neighbors
  <1>3. place \in 0..total - 1 /\ place <= offset /\ (offset < total => place = offset)
    BY <1>1
  <1>4. at \in Nat /\ at % limit = 0 /\ at <= place /\ place < at + limit
    <2>1. place \in Nat
      BY <1>1, <1>3
    <2> DEFINE q == place \div limit
    <2> HIDE DEF place
    <2>2. q \in Nat /\ q * limit <= place /\ place < q * limit + limit
      BY <1>1, <2>1, Quotient
    <2> HIDE DEF q
    <2>3. (q * limit) % limit = 0 /\ q * limit \in Nat
      BY <1>1, <2>2, Multiple
    <2> QED  BY <2>2, <2>3 DEF q
  <1>5. AnchorCursor(first, offset)
            = IF at = 0 THEN NoCursor ELSE Cursor(view.revision, binding, limit, at)
    <2> DEFINE c == Cursor(view.revision, binding, limit, At(2, limit))
    <2>1. c # NoCursor /\ [c EXCEPT !.offset = at] = Cursor(view.revision, binding, limit, at)
      <3> HIDE DEF at
      <3> QED  BY CursorsAre
    <2> HIDE DEF c, first
    <2>2. AnchorCursor(first, offset) = IF at = 0 THEN NoCursor ELSE [c EXCEPT !.offset = at]
      <3>1. ((IF offset <= first.total - 1 THEN offset ELSE first.total - 1) \div first.limit)
                * first.limit = at
        BY <1>2
      <3>2. first.next = c /\ first.total # 0
        BY <1>1, <1>2 DEF c
      <3> HIDE DEF at
      <3> QED  BY <2>1, <3>1, <3>2 DEF AnchorCursor
    <2> QED  BY <2>1, <2>2
  <1> HIDE DEF first, place, at
  <1>6. AnchorCursor(first, offset) = CursorAt(view, binding, limit, at)
    BY <1>5 DEF CursorAt
  <1>7. FoundBy(view, binding, items, summary, limit, at)
    <2>1. at < total
      BY <1>1, <1>3, <1>4
    <2> QED  BY <1>4, <2>1, FoundAt
  <1>8. found = Sheet(view, binding, items, summary, limit, at)
    BY <1>6, <1>7 DEF FoundBy
  <1>9. found.offset = at /\ ~IsFault(found)
    <2>1. Sheet(view, binding, items, summary, limit, at).offset = at
      BY DEF Sheet
    <2> QED  BY <1>8, <2>1, FaultsAre
  <1> HIDE DEF found
  <1>10. found.offset <= offset /\ (offset < total => offset < found.offset + limit)
    BY <1>1, <1>3, <1>4, <1>9
  <1> QED  BY <1>9, <1>10 DEF Anchors, found, first

\* What Walks says of the pages that were walked.
Tiled(view, binding, items, summary, limit, page) ==
    LET last == Pages(Len(items), limit)
        Of(c, size) == Page(view, binding, items, summary, c, size)
    IN  /\ FlattenSeq([n \in 1..last |-> page[n].items]) = items
        /\ page[last].next = NoCursor
        /\ \A n \in 2..last :
               /\ Of(page[n].previous, limit) = page[n - 1]
               /\ Of(page[n].previous, limit + 1) = Fault("invalid")
               /\ Of([page[n].previous EXCEPT !.revision = <<>>], limit) = Fault("stale")
        /\ last > 1 => \A offset \in 0..Len(items) :
               LET found == Of(AnchorCursor(page[1], offset), limit)
               IN  /\ ~IsFault(found)
                   /\ found.offset <= offset
                   /\ offset < Len(items) => offset < found.offset + limit

LEMMA SheetsAreTiled ==
    ASSUME NEW view, view.revision # <<>>, NEW binding, NEW items, Sequence(items), NEW summary,
           NEW limit \in 1..100
    PROVE  Tiled(view, binding, items, summary, limit,
                 Sheets(view, binding, items, summary, limit))
  <1> DEFINE Of(c, size) == Page(view, binding, items, summary, c, size)
             last == Pages(Len(items), limit)
             S(k) == Sheet(view, binding, items, summary, limit, At(k, limit))
             page == Sheets(view, binding, items, summary, limit)
  <1>1. Len(items) \in Nat /\ limit \in Nat \ {0}
    BY DEF Sequence
  <1>2. last \in Nat \ {0} /\ At(1, limit) = 0
    BY <1>1, Offsets DEF LaidOut
  <1>3. page = [n \in 1..last |-> S(n)]
    BY DEF Sheets
  <1>4. \A n \in 1..last : page[n] = S(n)
    <2> HIDE DEF page, S, last
    <2> QED  BY <1>3
  <1> HIDE DEF page
  <1>5. FlattenSeq([n \in 1..last |-> page[n].items]) = items
    <2>1. [n \in 1..last |-> page[n].items] = SheetItems(view, binding, items, summary, limit)
      BY <1>4 DEF SheetItems
    <2>2. FlattenSeq(SheetItems(view, binding, items, summary, limit)) = items
      BY Zenon, SheetsTile
    <2> QED  BY Zenon, <2>1, <2>2
  <1>6. page[last].next = NoCursor
    <2>1. last \in 1..last
      <3> HIDE DEF last
      <3> QED  BY <1>2
    <2>2. Neighbors(view, binding, items, summary, limit, last)
      BY <1>1, <2>1, SheetNeighbors
    <2> QED  BY <1>4, <2>1, <2>2 DEF Neighbors
  <1>7. ASSUME NEW n \in 2..last
        PROVE  /\ Of(page[n].previous, limit) = page[n - 1]
               /\ Of(page[n].previous, limit + 1) = Fault("invalid")
               /\ Of([page[n].previous EXCEPT !.revision = <<>>], limit) = Fault("stale")
    <2>1. n \in 1..last /\ n - 1 \in 1..last
      <3> HIDE DEF last
      <3> QED  BY <1>2
    <2>2. page[n] = S(n) /\ page[n - 1] = S(n - 1)
      <3> HIDE DEF S
      <3> QED  BY <1>4, <2>1
    <2>3. LeadsBack(view, binding, items, summary, limit)
      BY <1>1, SheetsLeadBack
    <2>4. /\ Of(S(n).previous, limit) = S(n - 1)
          /\ Of(S(n).previous, limit + 1) = Fault("invalid")
          /\ Of([S(n).previous EXCEPT !.revision = <<>>], limit) = Fault("stale")
      BY <2>3 DEF LeadsBack
    <2> HIDE DEF S, Of
    <2> QED  BY <2>2, <2>4
  <1>8. ASSUME last > 1, NEW offset \in 0..Len(items)
        PROVE  LET found == Of(AnchorCursor(page[1], offset), limit)
               IN  /\ ~IsFault(found)
                   /\ found.offset <= offset
                   /\ offset < Len(items) => offset < found.offset + limit
    <2>1. Anchors(view, binding, items, summary, limit, offset)
      BY <1>1, <1>8, SheetsAnchor
    <2>2. page[1] = Sheet(view, binding, items, summary, limit, 0)
      <3>1. 1 \in 1..last
        <4> HIDE DEF last
        <4> QED  BY <1>2
      <3> QED  BY <1>2, <1>4, <3>1
    <2> QED  BY <2>1, <2>2 DEF Anchors
  <1> QED  BY <1>5, <1>6, <1>7, <1>8 DEF Tiled, page

PageWalk(view, binding, items, summary, limit) ==
    Walks(LAMBDA c, n : Page(view, binding, items, summary, c, n), items, limit)

(***************************************************************************)
(* A list that is asked for page by page is shown as a whole, in order and *)
(* without a repetition, whatever its length and the size of the pages;    *)
(* every cursor leads where it says and only in its own view (view.rs).    *)
(***************************************************************************)
THEOREM WalkTiles ==
    ASSUME NEW view, view.revision # <<>>, NEW binding, NEW items, Sequence(items), NEW summary,
           NEW limit \in 1..100
    PROVE  PageWalk(view, binding, items, summary, limit)
  <1> DEFINE Q(c, n) == Page(view, binding, items, summary, c, n)
             last == IF items = <<>> THEN 1 ELSE 1 + (Len(items) - 1) \div limit
             all == Sheets(view, binding, items, summary, limit)
             V == CHOOSE f : f = [n \in 1..last |->
                      IF n = 1 THEN Q(NoCursor, limit) ELSE Q(f[n - 1].next, limit)]
             page == Listed([n \in 1..last |-> V[n]])
  <1>1. Len(items) \in Nat /\ (items = <<>> <=> Len(items) = 0) /\ limit \in Nat \ {0}
    BY DEF Sequence
  <1>2. last = Pages(Len(items), limit)
    BY <1>1 DEF Pages
  <1>3. last \in Nat \ {0}
    BY <1>1, <1>2, Offsets DEF LaidOut
  <1> HIDE DEF last
  <1>4. V = all
    <2>1. \A f : Walked(f, view, binding, items, summary, limit) <=> f = all
      BY <1>1, WalkIs
    <2> HIDE DEF all
    <2>2. \A f : (f = [n \in 1..last |-> IF n = 1 THEN Q(NoCursor, limit)
                                        ELSE Q(f[n - 1].next, limit)]) <=> f = all
      BY <1>2, <2>1 DEF Walked
    <2> HIDE DEF Q
    <2> QED  BY <2>2
  <1> HIDE DEF V
  <1>5. page = all
    <2>1. DOMAIN all = 1..last /\ all = [n \in DOMAIN all |-> all[n]]
      BY <1>2 DEF Sheets
    <2> HIDE DEF all
    <2>2. Listed(all) = all
      BY <1>3, <2>1, ListedItems
    <2> QED  BY <1>4, <2>1, <2>2
  <1>6. Tiled(view, binding, items, summary, limit, page)
    BY <1>5, SheetsAreTiled
  <1> HIDE DEF page
  <1> QED  BY <1>2, <1>6 DEF Tiled, PageWalk, Walks, page, V, last

\* It is so behind conditions that hold, too.
ShownPageWalk(view, binding, items, summary, limit, none, bare) ==
    Walks(LAMBDA c, n : IF none THEN Fault("missing")
                        ELSE IF bare THEN Fault("details missing")
                        ELSE Page(view, binding, items, summary, c, n), items, limit)

LEMMA ShownWalkTiles ==
    ASSUME NEW view, view.revision # <<>>, NEW binding, NEW items, Sequence(items), NEW summary,
           NEW limit \in 1..100, NEW none, ~none, NEW bare, ~bare
    PROVE  ShownPageWalk(view, binding, items, summary, limit, none, bare)
  <1> DEFINE Q(c, n) == IF none THEN Fault("missing")
                        ELSE IF bare THEN Fault("details missing")
                        ELSE Page(view, binding, items, summary, c, n)
             last == IF items = <<>> THEN 1 ELSE 1 + (Len(items) - 1) \div limit
             all == Sheets(view, binding, items, summary, limit)
             V == CHOOSE f : f = [n \in 1..last |->
                      IF n = 1 THEN Q(NoCursor, limit) ELSE Q(f[n - 1].next, limit)]
             page == Listed([n \in 1..last |-> V[n]])
  <1>0. \A c, n : Q(c, n) = Page(view, binding, items, summary, c, n)
    OBVIOUS
  <1> HIDE DEF Q
  <1>1. Len(items) \in Nat /\ (items = <<>> <=> Len(items) = 0) /\ limit \in Nat \ {0}
    BY DEF Sequence
  <1>2. last = Pages(Len(items), limit)
    BY <1>1 DEF Pages
  <1>3. last \in Nat \ {0}
    BY <1>1, <1>2, Offsets DEF LaidOut
  <1> HIDE DEF last
  <1>4. V = all
    <2>1. \A f : Walked(f, view, binding, items, summary, limit) <=> f = all
      BY <1>1, WalkIs
    <2> HIDE DEF all
    <2>2. \A f : (f = [n \in 1..last |-> IF n = 1 THEN Q(NoCursor, limit)
                                        ELSE Q(f[n - 1].next, limit)]) <=> f = all
      BY <1>0, <1>2, <2>1 DEF Walked
    <2> QED  BY <2>2
  <1> HIDE DEF V
  <1>5. page = all
    <2>1. DOMAIN all = 1..last /\ all = [n \in DOMAIN all |-> all[n]]
      BY <1>2 DEF Sheets
    <2> HIDE DEF all
    <2>2. Listed(all) = all
      BY <1>3, <2>1, ListedItems
    <2> QED  BY <1>4, <2>1, <2>2
  <1>6. Tiled(view, binding, items, summary, limit, page)
    BY <1>5, SheetsAreTiled
  <1> HIDE DEF page
  <1>7. /\ FlattenSeq([n \in 1..last |-> page[n].items]) = items
        /\ page[last].next = NoCursor
        /\ \A n \in 2..last :
               /\ Q(page[n].previous, limit) = page[n - 1]
               /\ Q(page[n].previous, limit + 1) = Fault("invalid")
               /\ Q([page[n].previous EXCEPT !.revision = <<>>], limit) = Fault("stale")
        /\ last > 1 => \A offset \in 0..Len(items) :
               LET found == Q(AnchorCursor(page[1], offset), limit)
               IN  /\ ~IsFault(found)
                   /\ found.offset <= offset
                   /\ offset < Len(items) => offset < found.offset + limit
    BY <1>0, <1>2, <1>6 DEF Tiled
  <1> QED  BY <1>7 DEF ShownPageWalk, Walks, Q, page, V, last

-------------------------------------------------------------------------------
(* The lists of a view *)

\* The place of every session in a view of them.
Placed(entries, all) ==
    \A i \in 1..Len(all) : \E k \in 1..Len(entries) :
        /\ entries[k].s = all[i]
        /\ \A l \in 1..Len(entries) : entries[l].s.uid = all[i].uid => l = k

LEMMA EntryIs ==
    ASSUME NEW s, NEW period
    PROVE  Entry(s, period).s = s
  BY DEF Entry, EntryOf

\* A view that shows every session, once.
Shows(view, all) ==
    view.revision # <<>> /\ Sequence(view.entries) /\ Placed(view.entries, all)

\* What the sessions of a list of entries use, one after the other.
TotalsOf(entries) == [k \in 1..Len(entries) |-> entries[k].s.total]

\* Entries of sessions that have counters.
CountedEntries(entries) ==
    Sequence(entries) /\ \A k \in 1..Len(entries) : entries[k].s.total \in Counters

LEMMA TotalsAreUsed ==
    ASSUME NEW entries, CountedEntries(entries)
    PROVE  Usages(TotalsOf(entries), Len(entries)) /\ Len(entries) \in Nat
  <1>1. Len(entries) \in Nat
    BY SequenceIsListed DEF CountedEntries
  <1> QED  BY <1>1 DEF CountedEntries, TotalsOf, Usages

\* Some of the entries, in any order, use together what they use among all.
LEMMA ListedUse ==
    ASSUME NEW entries, CountedEntries(entries), NEW places \in SUBSET (1..Len(entries)),
           NEW t, Lists(t, entries, places)
    PROVE  /\ CountedEntries(t)
           /\ UsageOf(TotalsOf(t)) = UsageAt(TotalsOf(entries), Len(entries), places)
  <1> DEFINE n == Len(entries)
             m == Len(t)
             f == TotalsOf(entries)
             g == TotalsOf(t)
  <1>1. Usages(f, n) /\ n \in Nat
    BY TotalsAreUsed
  <1>2. Sequence(t) /\ m \in Nat
    BY SequenceIsListed DEF Lists
  <1>3. PICK at : ListsBy(at, t, entries, places)
    BY DEF Lists
  <1>4. \A k \in 1..m : at[k] \in 1..n /\ t[k] = entries[at[k]]
    BY <1>3 DEF ListsBy
  <1>5. CountedEntries(t)
    BY <1>2, <1>4 DEF CountedEntries
  <1>6. Usages(g, m)
    BY <1>5, TotalsAreUsed
  <1>7. \A k \in 1..m : g[k] = f[at[k]]
    BY <1>4 DEF TotalsOf
  <1>8. /\ at \in [1..m -> places]
        /\ \A k, l \in 1..m : at[k] = at[l] => k = l
        /\ \A i \in places : \E k \in 1..m : at[k] = i
    BY <1>3 DEF ListsBy
  <1>9. places \in SUBSET (1..n)
    OBVIOUS
  <1> HIDE DEF n, m, f, g
  <1>10. UsageOf(g) = UsageAt(f, n, places)
    BY <1>1, <1>2, <1>6, <1>7, <1>8, <1>9, ListUses
  <1> QED  BY <1>5, <1>10 DEF n, f, g

\* The places of the first item of each key.
Firsts(keys, n) == {i \in 1..n : \A j \in 1..i - 1 : keys[j] # keys[i]}

\* Places of items that have each of the keys once.
EachKey(at, keys, m, n) ==
    /\ at \in [1..m -> 1..n]
    /\ \A k, l \in 1..m : keys[at[k]] = keys[at[l]] => k = l
    /\ \A i \in 1..n : \E k \in 1..m : keys[at[k]] = keys[i]

LEMMA FirstsHaveEachKey ==
    ASSUME NEW s, Sequence(s), NEW keys, NEW t, Lists(t, s, Firsts(keys, Len(s)))
    PROVE  \E at : EachKey(at, keys, Len(t), Len(s)) /\ \A k \in 1..Len(t) : t[k] = s[at[k]]
  <1> DEFINE n == Len(s)
             m == Len(t)
             places == Firsts(keys, n)
  <1>1. n \in Nat /\ m \in Nat
    BY SequenceIsListed DEF Lists
  <1>2. PICK at : ListsBy(at, t, s, places)
    BY DEF Lists
  <1>3. places \in SUBSET (1..n)
    BY DEF Firsts
  <1>4. at \in [1..m -> 1..n] /\ \A k \in 1..m : at[k] \in places /\ t[k] = s[at[k]]
    <2>1. at \in [1..m -> places] /\ \A k \in 1..m : t[k] = s[at[k]]
      BY <1>2 DEF ListsBy
    <2> HIDE DEF places, m, n
    <2> QED  BY <1>3, <2>1
  <1>5. ASSUME NEW k \in 1..m, NEW l \in 1..m, keys[at[k]] = keys[at[l]] PROVE k = l
    <2> DEFINE i == at[k]
               j == at[l]
    <2>1. i \in places /\ j \in places /\ keys[i] = keys[j]
      BY <1>4, <1>5
    <2> HIDE DEF i, j
    <2>2. i = j
      BY <2>1 DEF Firsts
    <2> QED  BY <1>2, <2>2 DEF ListsBy, i, j
  <1>6. ASSUME NEW i \in 1..n PROVE \E k \in 1..m : keys[at[k]] = keys[i]
    <2> DEFINE T == {j \in 1..n : keys[j] = keys[i]}
    <2>1. T \in SUBSET Nat /\ T # {}
      OBVIOUS
    <2> DEFINE j == Min(T)
    <2>2. j \in T /\ \A l \in T : j <= l
      <3> HIDE DEF T
      <3> QED  BY <2>1, Least
    <2>3. j \in 1..n /\ keys[j] = keys[i]
      BY <2>2
    <2>4. \A l \in 1..n : keys[l] = keys[i] => j <= l
      BY <2>2
    <2> HIDE DEF T, j
    <2>5. \A l \in 1..j - 1 : keys[l] # keys[j]
      BY <1>1, <2>3, <2>4
    <2>6. j \in places
      BY <2>3, <2>5 DEF Firsts
    <2>7. PICK k \in 1..m : at[k] = j
      BY <1>2, <2>6 DEF ListsBy
    <2> QED  BY <2>3, <2>7
  <1>7. EachKey(at, keys, m, n)
    BY <1>4, <1>5, <1>6 DEF EachKey
  <1> QED  BY <1>4, <1>7

\* The places of one key.
OfKey(keys, n, key) == {i \in 1..n : keys[i] = key}

\* The groups of the items of each key use together what all items use.
LEMMA KeysUse ==
    ASSUME NEW n \in Nat, NEW f, Usages(f, n), NEW m \in Nat, NEW keys, NEW at,
           EachKey(at, keys, m, n), NEW g, Usages(g, m),
           \A k \in 1..m : g[k] = UsageAt(f, n, OfKey(keys, n, keys[at[k]]))
    PROVE  UsageOf(g) = UsageOf(f)
  <1> DEFINE parts == [k \in 1..m |-> OfKey(keys, n, keys[at[k]])]
  <1>1. \A k \in 1..m : parts[k] = OfKey(keys, n, keys[at[k]])
    OBVIOUS
  <1> HIDE DEF parts
  <1>2. Apart(parts, m)
    <2>1. ASSUME NEW k \in 1..m, NEW l \in 1..m, k # l, NEW i \in parts[k], i \in parts[l]
          PROVE  FALSE
      <3>1. keys[i] = keys[at[k]] /\ keys[i] = keys[at[l]]
        BY <1>1, <2>1 DEF OfKey
      <3> QED  BY <2>1, <3>1 DEF EachKey
    <2> QED  BY <2>1 DEF Apart
  <1>3. Together(parts, m) = 1..n
    <2>1. ASSUME NEW i \in 1..n PROVE i \in Together(parts, m)
      <3>1. PICK k \in 1..m : keys[at[k]] = keys[i]
        BY DEF EachKey
      <3>2. i \in parts[k]
        BY <1>1, <3>1 DEF OfKey
      <3> QED  BY <3>2 DEF Together
    <2>2. ASSUME NEW i \in Together(parts, m) PROVE i \in 1..n
      <3>1. PICK k \in 1..m : i \in parts[k]
        BY <2>2 DEF Together
      <3> QED  BY <1>1, <3>1 DEF OfKey
    <2> QED  BY <2>1, <2>2
  <1>4. \A k \in 1..m : g[k] = UsageAt(f, n, parts[k])
    BY <1>1
  <1>5. UsageOf(g) = UsageAt(f, n, Together(parts, m))
    BY <1>2, <1>4, PartsUse
  <1> QED  BY <1>3, <1>5, UsageAtParts

EntriesOf(all) == [i \in DOMAIN all |-> Entry(all[i], Forever)]

LEMMA ViewLists ==
    ASSUME NEW all, Published(all), NEW revision
    PROVE  /\ CountedEntries(EntriesOf(all)) /\ Len(EntriesOf(all)) = Len(all)
           /\ \A i \in 1..Len(all) : EntriesOf(all)[i].s = all[i]
           /\ Lists(View(revision, all, Forever).entries, EntriesOf(all), 1..Len(all))
  <1> DEFINE n == Len(all)
             first == EntriesOf(all)
             before == {p \in (DOMAIN first) \X (DOMAIN first) :
                            first[p[1]].s.total["total"] > first[p[2]].s.total["total"]}
             t == Arranged(first, before)
             entries == View(revision, all, Forever).entries
  <1>1. n \in Nat /\ DOMAIN all = 1..n
    BY SequenceIsListed DEF Published
  <1>2. DOMAIN first = 1..n /\ first = [k \in DOMAIN first |-> first[k]]
        /\ \A i \in 1..n : first[i].s = all[i]
    BY <1>1, EntryIs DEF EntriesOf
  <1>3. entries = StableSort(first, LAMBDA a, b : a.s.total["total"] > b.s.total["total"])
    BY DEF View, ViewOf, InPeriod, EntriesOf
  <1> HIDE DEF first, entries
  <1>4. Sequence(first) /\ Len(first) = n /\ Listed(first) = first
    BY <1>1, <1>2, ListedItems
  <1>5. entries \in {first, t}
    BY <1>3, <1>4 DEF StableSort
  <1>0. \A k \in 1..n : all[k].total \in Counters
    BY DEF Published, Whole
  <1>6. Ranks(before, n)
    <2> DEFINE key == [k \in 1..n |-> all[k].total["total"]]
    <2>1. \A k \in 1..n : key[k] \in Int /\ key[k] = first[k].s.total["total"]
      <3> SUFFICES ASSUME NEW k \in 1..n
                   PROVE  key[k] \in Int /\ key[k] = first[k].s.total["total"]
        OBVIOUS
      <3>1. all[k].total["total"] \in Nat
        BY <1>0 DEF Counters, Fields
      <3> QED  BY <1>2, <3>1
    <2> HIDE DEF key
    <2>2. before = {p \in (1..n) \X (1..n) : key[p[1]] > key[p[2]]}
      BY <1>2, <2>1
    <2> HIDE DEF before, n
    <2>3. Ranks({p \in (1..n) \X (1..n) : key[p[1]] > key[p[2]]}, n)
      BY <1>1, <2>1, RanksByNumber
    <2> QED  BY <2>2, <2>3
  <1> HIDE DEF before
  <1>7. Lists(t, first, DOMAIN first) /\ Lists(first, first, DOMAIN first)
    BY <1>4, <1>6, ArrangedLists, WholeLists
  <1> HIDE DEF t
  <1>8. Lists(entries, first, 1..n)
    BY <1>2, <1>5, <1>7
  <1>9. CountedEntries(first)
    BY <1>0, <1>2, <1>4 DEF CountedEntries
  <1> QED  BY <1>2, <1>4, <1>8, <1>9 DEF first, entries, n

LEMMA ViewShows ==
    ASSUME NEW all, Published(all), NEW revision
    PROVE  Shows(View(revision, all, Forever), all)
  <1> DEFINE view == View(revision, all, Forever)
             n == Len(all)
             first == EntriesOf(all)
             entries == view.entries
  <1>1. n \in Nat
    BY SequenceIsListed DEF Published
  <1>2. \A i \in 1..n : first[i].s = all[i]
    BY ViewLists
  <1>0. view.revision = <<revision, Forever>>
    BY DEF View, ViewOf
  <1>8. Lists(entries, first, 1..n)
    BY ViewLists
  <1> HIDE DEF first, view, entries
  <1>9. PICK at : ListsBy(at, entries, first, 1..n)
    BY <1>8 DEF Lists
  <1>10. Sequence(entries)
    BY <1>8 DEF Lists
  <1>11. ASSUME NEW i \in 1..n
         PROVE  \E k \in 1..Len(entries) :
                    /\ entries[k].s = all[i]
                    /\ \A l \in 1..Len(entries) : entries[l].s.uid = all[i].uid => l = k
    <2>1. PICK k \in 1..Len(entries) : at[k] = i
      BY <1>2, <1>9 DEF ListsBy
    <2>2. \A l \in 1..Len(entries) : at[l] \in 1..n /\ entries[l].s = all[at[l]]
      BY <1>2, <1>9 DEF ListsBy
    <2>3. ASSUME NEW l \in 1..Len(entries), entries[l].s.uid = all[i].uid PROVE l = k
      <3>1. all[at[l]].uid = all[i].uid /\ at[l] \in 1..n
        BY <2>2, <2>3
      <3>2. at[l] = i
        BY <3>1 DEF Published
      <3> QED  BY <1>9, <2>1, <3>2 DEF ListsBy
    <2> QED  BY <2>1, <2>2, <2>3
  <1>12. Placed(entries, all)
    BY <1>11 DEF Placed, n
  <1>13. view.revision # <<>>
    <2>1. Len(<<revision, Forever>>) = 2 /\ Len(<<>>) = 0
      OBVIOUS
    <2> QED  BY <1>0, <2>1
  <1>14. Shows(view, all)
    BY <1>10, <1>12, <1>13 DEF entries, Shows
  <1> QED  BY <1>14 DEF view

\* The order that a filter asks for, and what is sorted by it.
Order(filter, key, n) == {p \in (1..n) \X (1..n) : Precedes(filter, key[p[1]], key[p[2]])}
Sorted(t, items, filter, key) == t = items \/ t = Arranged(items, Order(filter, key, Len(items)))

Numbers(key, n) == \A k \in 1..n : key[k] \in Int

LEMMA SortedIsSequence ==
    ASSUME NEW items, Sequence(items), NEW t, NEW filter, NEW key, Sorted(t, items, filter, key)
    PROVE  Sequence(t)
  <1> DEFINE before == Order(filter, key, Len(items))
  <1>1. t \in {items, Arranged(items, before)}
    BY DEF Sorted
  <1> HIDE DEF before
  <1> QED  BY <1>1, ArrangedIsSequence

LEMMA SortedLists ==
    ASSUME NEW items, Sequence(items), NEW t, NEW filter, NEW key, Sorted(t, items, filter, key),
           Numbers(key, Len(items))
    PROVE  Lists(t, items, DOMAIN items)
  <1> DEFINE n == Len(items)
             before == Order(filter, key, n)
             up == {p \in (1..n) \X (1..n) : key[p[1]] < key[p[2]]}
             down == {p \in (1..n) \X (1..n) : key[p[1]] > key[p[2]]}
  <1>1. n \in Nat /\ \A k \in 1..n : key[k] \in Int
    BY SequenceIsListed DEF Numbers
  <1>2. Ranks(up, n) /\ Ranks(down, n)
    <2> HIDE DEF n
    <2> QED  BY <1>1, RanksByNumber
  <1>3. before \in {up, down}
    BY DEF Order, Precedes
  <1>4. t \in {items, Arranged(items, before)}
    BY DEF Sorted
  <1> HIDE DEF before, up, down
  <1>5. Ranks(before, Len(items))
    BY <1>2, <1>3
  <1> QED  BY <1>4, <1>5, ArrangedLists, WholeLists

\* What a filter leaves of a view, as it was ordered before.
Matching(view, filter) == {i \in DOMAIN view.entries : Matches(view.entries[i].s, filter)}
KeptBy(view, filter) == Picked(view.entries, Matching(view, filter))
EntryKeys(items, filter) == [k \in 1..Len(items) |-> SortKey(items[k], filter.sort)]

LEMMA SelectedSorts ==
    ASSUME NEW view, Sequence(view.entries), NEW filter
    PROVE  /\ Lists(KeptBy(view, filter), view.entries, Matching(view, filter))
           /\ Sorted(Selected(view, filter), KeptBy(view, filter), filter,
                     EntryKeys(KeptBy(view, filter), filter))
  <1> DEFINE items == view.entries
             kept == KeptBy(view, filter)
             key == EntryKeys(kept, filter)
             before == {p \in (DOMAIN kept) \X (DOMAIN kept) :
                           Precedes(filter, SortKey(kept[p[1]], filter.sort),
                                            SortKey(kept[p[2]], filter.sort))}
  <1>1. Listed(items) = items
    BY SequenceIsListed
  <1>2. kept = Select(items, LAMBDA e : Matches(e.s, filter))
    BY <1>1 DEF Select, KeptBy, Matching
  <1>3. Lists(kept, items, Matching(view, filter))
    <2>1. Matching(view, filter) \in SUBSET DOMAIN items
      BY DEF Matching
    <2> QED  BY <2>1, PickedLists DEF KeptBy
  <1> HIDE DEF kept
  <1>4. Sequence(kept)
    BY <1>3 DEF Lists
  <1>5. Listed(kept) = kept /\ DOMAIN kept = 1..Len(kept)
    BY <1>4, SequenceIsListed
  <1>6. Selected(view, filter) \in {kept, Arranged(kept, before)}
    <2>1. Selected(view, filter)
            = StableSort(kept, LAMBDA a, b : Precedes(filter, SortKey(a, filter.sort),
                                                      SortKey(b, filter.sort)))
      BY <1>2 DEF Selected
    <2> QED  BY <1>5, <2>1 DEF StableSort
  <1>7. before = Order(filter, key, Len(kept))
    BY <1>5 DEF Order, EntryKeys
  <1> HIDE DEF before
  <1>8. Sorted(Selected(view, filter), kept, filter, key)
    BY <1>6, <1>7 DEF Sorted
  <1> QED  BY <1>3, <1>8 DEF kept

LEMMA SelectedIs ==
    ASSUME NEW view, Sequence(view.entries), NEW filter
    PROVE  Sequence(Selected(view, filter))
  <1>1. Sequence(KeptBy(view, filter))
    BY SelectedSorts DEF Lists
  <1> QED  BY <1>1, SelectedSorts, SortedIsSequence

LEMMA RowsSorted ==
    ASSUME NEW rows, Sequence(rows)
    PROVE  Sequence(StableSort(rows, LAMBDA a, b : a.at > b.at))
  <1> DEFINE before == {p \in (DOMAIN rows) \X (DOMAIN rows) : rows[p[1]].at > rows[p[2]].at}
             t == StableSort(rows, LAMBDA a, b : a.at > b.at)
  <1>1. Listed(rows) = rows
    BY SequenceIsListed
  <1>2. t \in {rows, Arranged(rows, before)}
    BY <1>1 DEF StableSort
  <1> HIDE DEF before, t
  <1>3. Sequence(t)
    BY <1>2, ArrangedIsSequence
  <1> QED  BY <1>3 DEF t

-------------------------------------------------------------------------------
(* Groups *)

\* What some entries use.
UseOf(entries) == TotalOf([i \in DOMAIN entries |-> entries[i].s])

LEMMA UseIsTotals ==
    ASSUME NEW entries, Sequence(entries)
    PROVE  UseOf(entries) = UsageOf(TotalsOf(entries))
  <1> DEFINE ss == [i \in DOMAIN entries |-> entries[i].s]
  <1>1. DOMAIN ss = 1..Len(entries) /\ \A i \in 1..Len(entries) : ss[i].total = entries[i].s.total
    BY SequenceIsListed
  <1>2. [i \in DOMAIN ss |-> ss[i].total] = TotalsOf(entries)
    BY <1>1 DEF TotalsOf
  <1> QED  BY <1>2 DEF TotalOf, UseOf

\* The group of some entries.
KnownEntries(part) == Select(part, LAMBDA e : e.s.pricing.cost # NoCost)
KnownCost(part) ==
    SumOf([i \in DOMAIN KnownEntries(part) |-> KnownEntries(part)[i].s.pricing.cost])
LastUsed(part) == Max({part[i].usedAt : i \in DOMAIN part})
Group(part, key) ==
    [key |-> key, entries |-> part, usage |-> UseOf(part), cost |-> KnownCost(part),
     priced |-> Len(KnownEntries(part)), usedAt |-> LastUsed(part)]

IsGroup(g, part) == \E key : g = Group(part, key)

LEMMA GroupFields ==
    ASSUME NEW part, NEW g, IsGroup(g, part)
    PROVE  /\ g.entries = part /\ g.usage = UseOf(part)
           /\ g.cost = KnownCost(part) /\ g.usedAt = LastUsed(part)
  BY DEF IsGroup, Group

\* Groups of entries: one for each key, of all its entries.
GroupsOfKeys(groups, entries, keys) ==
    /\ Sequence(groups)
    /\ \E at : /\ EachKey(at, keys, Len(groups), Len(entries))
               /\ \A k \in 1..Len(groups) :
                      IsGroup(groups[k], Picked(entries, OfKey(keys, Len(entries), keys[at[k]])))

UsageIn(groups) == [k \in 1..Len(groups) |-> groups[k].usage]

LEMMA GroupsUse ==
    ASSUME NEW entries, CountedEntries(entries), NEW groups, NEW keys,
           GroupsOfKeys(groups, entries, keys)
    PROVE  /\ Usages(UsageIn(groups), Len(groups)) /\ Len(groups) \in Nat
           /\ UsageOf(UsageIn(groups)) = UsageOf(TotalsOf(entries))
  <1> DEFINE n == Len(entries)
             m == Len(groups)
             f == TotalsOf(entries)
             g == UsageIn(groups)
             Part(k) == OfKey(keys, n, k)
  <1>1. PICK at : /\ EachKey(at, keys, m, n)
                  /\ \A k \in 1..m : IsGroup(groups[k], Picked(entries, Part(keys[at[k]])))
    BY DEF GroupsOfKeys
  <1>2. n \in Nat /\ m \in Nat /\ DOMAIN entries = 1..n
    BY SequenceIsListed DEF GroupsOfKeys, CountedEntries
  <1>3. Usages(f, n)
    BY TotalsAreUsed
  <1>4. ASSUME NEW k \in 1..m
        PROVE  groups[k].usage = UsageAt(f, n, Part(keys[at[k]]))
    <2> DEFINE places == Part(keys[at[k]])
    <2>1. places \in SUBSET (1..n) /\ places \in SUBSET DOMAIN entries
      BY <1>2 DEF OfKey
    <2>2. IsGroup(groups[k], Picked(entries, places))
      BY <1>1
    <2> HIDE DEF places
    <2>3. Lists(Picked(entries, places), entries, places)
      BY <2>1, PickedLists DEF CountedEntries
    <2>5. groups[k].usage = UsageOf(TotalsOf(Picked(entries, places)))
      <3>1. groups[k].usage = UseOf(Picked(entries, places))
        BY <2>2, GroupFields
      <3> QED  BY <2>3, <3>1, UseIsTotals DEF Lists
    <2>4. UsageOf(TotalsOf(Picked(entries, places))) = UsageAt(f, n, places)
      BY <2>1, <2>3, ListedUse
    <2> QED  BY <2>5, <2>4 DEF places
  <1>5. ASSUME NEW k \in 1..m
        PROVE  g[k] = UsageAt(f, n, Part(keys[at[k]])) /\ g[k] \in Counters
    <2>1. g[k] = UsageAt(f, n, Part(keys[at[k]]))
      BY <1>4 DEF UsageIn
    <2> HIDE DEF f, g, n, Part
    <2> QED  BY <1>2, <1>3, <2>1, UsageAtParts
  <1>6. Usages(g, m)
    <2>1. g = [k \in 1..m |-> g[k]]
      BY DEF UsageIn
    <2> HIDE DEF g, m
    <2> QED  BY <1>5, <2>1 DEF Usages
  <1> HIDE DEF f, g, n, m
  <1>7. \A k \in 1..m : g[k] = UsageAt(f, n, OfKey(keys, n, keys[at[k]]))
    BY <1>5
  <1>8. UsageOf(g) = UsageOf(f)
    BY <1>1, <1>2, <1>3, <1>6, <1>7, KeysUse
  <1> QED  BY <1>2, <1>6, <1>8 DEF f, g, m

\* Sorting keeps what is used.
LEMMA SortedUse ==
    ASSUME NEW groups, Sequence(groups), Usages(UsageIn(groups), Len(groups)),
           NEW t, Lists(t, groups, DOMAIN groups)
    PROVE  GroupUsage(t) = UsageOf(UsageIn(groups))
  <1> DEFINE n == Len(groups)
             m == Len(t)
             f == UsageIn(groups)
             g == UsageIn(t)
  <1>1. n \in Nat /\ DOMAIN groups = 1..n
    BY SequenceIsListed
  <1>2. Sequence(t) /\ m \in Nat /\ DOMAIN t = 1..m
    BY SequenceIsListed DEF Lists
  <1>3. PICK at : ListsBy(at, t, groups, 1..n)
    BY <1>1 DEF Lists
  <1>4. /\ at \in [1..m -> 1..n]
        /\ \A k, l \in 1..m : at[k] = at[l] => k = l
        /\ \A i \in 1..n : \E k \in 1..m : at[k] = i
        /\ \A k \in 1..m : t[k] = groups[at[k]] /\ at[k] \in 1..n
    BY <1>3 DEF ListsBy
  <1>5. \A k \in 1..m : g[k] = f[at[k]]
    BY <1>4 DEF UsageIn
  <1>6. g = [k \in 1..m |-> g[k]] /\ GroupUsage(t) = UsageOf(g)
    BY <1>2 DEF UsageIn, GroupUsage
  <1>7. Usages(f, n)
    OBVIOUS
  <1> HIDE DEF n, m, f, g
  <1>8. Usages(g, m)
    BY <1>4, <1>5, <1>6, <1>7 DEF Usages
  <1>9. UsageOf(g) = UsageAt(f, n, 1..n)
    <2> DEFINE places == 1..n
    <2>1. /\ at \in [1..m -> places] /\ places \in SUBSET (1..n)
          /\ \A k, l \in 1..m : at[k] = at[l] => k = l
          /\ \A i \in places : \E k \in 1..m : at[k] = i
      BY <1>4
    <2> HIDE DEF places
    <2>2. UsageOf(g) = UsageAt(f, n, places)
      BY <1>1, <1>2, <1>5, <1>7, <1>8, <2>1, ListUses
    <2> QED  BY <2>2 DEF places
  <1>10. UsageAt(f, n, 1..n) = UsageOf(f)
    BY <1>1, <1>7, UsageAtParts
  <1> QED  BY <1>6, <1>9, <1>10 DEF f

\* The groups of some entries, one for each of the first ones of a key.
GroupAt(entries, first, Key(_), k) ==
    Group(Select(entries, LAMBDA e : Key(e) = Key(first[k])), Key(first[k]))

\* A group for each item that is the first of its key.
OnePerKey(all, entries, keys) ==
    LET first == Picked(entries, Firsts(keys, Len(entries)))
    IN  /\ DOMAIN all = DOMAIN first /\ all = [k \in DOMAIN all |-> all[k]]
        /\ \A k \in DOMAIN first : \A i \in 1..Len(entries) :
               first[k] = entries[i]
                   => IsGroup(all[k], Picked(entries, OfKey(keys, Len(entries), keys[i])))

LEMMA GroupsFromKeys ==
    ASSUME NEW entries, Sequence(entries), NEW keys, NEW all, OnePerKey(all, entries, keys)
    PROVE  GroupsOfKeys(Listed(all), entries, keys)
  <1> DEFINE n == Len(entries)
             places == Firsts(keys, n)
             first == Picked(entries, places)
             m == Len(first)
             Part(key) == Picked(entries, OfKey(keys, n, key))
  <1>1. n \in Nat /\ DOMAIN entries = 1..n
    BY SequenceIsListed
  <1>2. places \in SUBSET DOMAIN entries
    BY <1>1 DEF Firsts
  <1>3. /\ DOMAIN all = DOMAIN first /\ all = [k \in DOMAIN all |-> all[k]]
        /\ \A k \in DOMAIN first : \A i \in 1..n :
               first[k] = entries[i] => IsGroup(all[k], Part(keys[i]))
    BY DEF OnePerKey
  <1> HIDE DEF places
  <1>4. Lists(first, entries, places)
    BY <1>2, PickedLists
  <1> HIDE DEF first
  <1>5. PICK at : EachKey(at, keys, m, n) /\ \A k \in 1..m : first[k] = entries[at[k]]
    BY <1>4, FirstsHaveEachKey DEF places
  <1>6. m \in Nat /\ DOMAIN first = 1..m
    BY <1>4, SequenceIsListed DEF Lists
  <1>7. Sequence(all) /\ Len(all) = m /\ Listed(all) = all
    BY <1>3, <1>6, ListedItems
  <1>8. ASSUME NEW k \in 1..m PROVE IsGroup(all[k], Part(keys[at[k]]))
    <2>1. at[k] \in 1..n /\ first[k] = entries[at[k]]
      BY <1>5 DEF EachKey
    <2> QED  BY <1>3, <1>6, <2>1
  <1>9. GroupsOfKeys(all, entries, keys)
    BY <1>5, <1>7, <1>8 DEF GroupsOfKeys
  <1> QED  BY <1>7, <1>9

ProjectGroupsOf(entries) == Grouped(entries, LAMBDA e : Named(e.s.project))
TaskGroupsOf(entries) == Grouped(entries, LAMBDA e : <<e.s.env, e.s.root>>)

ProjectKeys(entries) == [i \in DOMAIN entries |-> Named(entries[i].s.project)]
TaskKeys(entries) == [i \in DOMAIN entries |-> <<entries[i].s.env, entries[i].s.root>>]

LEMMA KeysAre ==
    ASSUME NEW entries, Sequence(entries), NEW keys, DOMAIN keys = DOMAIN entries,
           keys = [i \in DOMAIN keys |-> keys[i]]
    PROVE  /\ Listed(keys) = keys
           /\ {i \in DOMAIN entries : \A j \in 1..i - 1 : Listed(keys)[j] # Listed(keys)[i]}
                = Firsts(keys, Len(entries))
           /\ \A key : OfKey(keys, Len(entries), key) = {i \in DOMAIN entries : keys[i] = key}
  <1>1. Len(entries) \in Nat /\ DOMAIN entries = 1..Len(entries)
    BY SequenceIsListed
  <1>2. Listed(keys) = keys
    BY <1>1, ListedItems
  <1> QED  BY <1>1, <1>2 DEF Firsts, OfKey

LEMMA ProjectGroups ==
    ASSUME NEW entries, Sequence(entries)
    PROVE  GroupsOfKeys(ProjectGroupsOf(entries), entries, ProjectKeys(entries))
  <1> DEFINE keys == ProjectKeys(entries)
             places == {i \in DOMAIN entries :
                            \A j \in 1..i - 1 : Listed(keys)[j] # Listed(keys)[i]}
             first == Picked(entries, places)
             all == [k \in DOMAIN first |->
                        GroupAt(entries, first, LAMBDA e : Named(e.s.project), k)]
  <1>1. ProjectGroupsOf(entries) = Listed(all)
    BY DEF Grouped, Distinct, GroupAt, Group, UseOf, KnownEntries, KnownCost, LastUsed,
           ProjectGroupsOf, ProjectKeys
  <1>2. DOMAIN all = DOMAIN first /\ all = [k \in DOMAIN all |-> all[k]]
    OBVIOUS
  <1>3. ASSUME NEW k \in DOMAIN first, NEW i \in DOMAIN entries, first[k] = entries[i]
        PROVE  IsGroup(all[k], Picked(entries, {j \in DOMAIN entries : keys[j] = keys[i]}))
    <2> DEFINE of == {j \in DOMAIN entries : keys[j] = keys[i]}
               group == Select(entries, LAMBDA e : Named(e.s.project) = Named(first[k].s.project))
    <2>1. of = {j \in DOMAIN entries : Named(entries[j].s.project) = Named(first[k].s.project)}
      BY <1>3 DEF ProjectKeys
    <2>2. Listed(entries) = entries
      BY SequenceIsListed
    <2>3. group = Picked(entries, of)
      BY <2>1, <2>2 DEF Select
    <2>4. IsGroup(all[k], group)
      BY DEF GroupAt, IsGroup
    <2> QED  BY <2>3, <2>4
  <1> HIDE DEF all, places
  <1>4. DOMAIN keys = DOMAIN entries /\ keys = [i \in DOMAIN keys |-> keys[i]]
    BY DEF ProjectKeys
  <1> HIDE DEF keys
  <1>5. places = Firsts(keys, Len(entries)) /\ DOMAIN entries = 1..Len(entries)
        /\ \A key : OfKey(keys, Len(entries), key) = {i \in DOMAIN entries : keys[i] = key}
    BY <1>4, KeysAre, SequenceIsListed DEF places
  <1>6. OnePerKey(all, entries, keys)
    BY <1>2, <1>3, <1>5 DEF OnePerKey
  <1> QED  BY <1>1, <1>6, GroupsFromKeys DEF keys

LEMMA TaskGroups ==
    ASSUME NEW entries, Sequence(entries)
    PROVE  GroupsOfKeys(TaskGroupsOf(entries), entries, TaskKeys(entries))
  <1> DEFINE keys == TaskKeys(entries)
             places == {i \in DOMAIN entries :
                            \A j \in 1..i - 1 : Listed(keys)[j] # Listed(keys)[i]}
             first == Picked(entries, places)
             all == [k \in DOMAIN first |->
                        GroupAt(entries, first, LAMBDA e : <<e.s.env, e.s.root>>, k)]
  <1>1. TaskGroupsOf(entries) = Listed(all)
    BY DEF Grouped, Distinct, GroupAt, Group, UseOf, KnownEntries, KnownCost, LastUsed,
           TaskGroupsOf, TaskKeys
  <1>2. DOMAIN all = DOMAIN first /\ all = [k \in DOMAIN all |-> all[k]]
    OBVIOUS
  <1>3. ASSUME NEW k \in DOMAIN first, NEW i \in DOMAIN entries, first[k] = entries[i]
        PROVE  IsGroup(all[k], Picked(entries, {j \in DOMAIN entries : keys[j] = keys[i]}))
    <2> DEFINE of == {j \in DOMAIN entries : keys[j] = keys[i]}
               group == Select(entries, LAMBDA e : <<e.s.env, e.s.root>>
                                                     = <<first[k].s.env, first[k].s.root>>)
    <2>1. of = {j \in DOMAIN entries : <<entries[j].s.env, entries[j].s.root>>
                                          = <<first[k].s.env, first[k].s.root>>}
      BY <1>3 DEF TaskKeys
    <2>2. Listed(entries) = entries
      BY SequenceIsListed
    <2>3. group = Picked(entries, of)
      BY <2>1, <2>2 DEF Select
    <2>4. IsGroup(all[k], group)
      BY DEF GroupAt, IsGroup
    <2> QED  BY <2>3, <2>4
  <1> HIDE DEF all, places
  <1>4. DOMAIN keys = DOMAIN entries /\ keys = [i \in DOMAIN keys |-> keys[i]]
    BY DEF TaskKeys
  <1> HIDE DEF keys
  <1>5. places = Firsts(keys, Len(entries)) /\ DOMAIN entries = 1..Len(entries)
        /\ \A key : OfKey(keys, Len(entries), key) = {i \in DOMAIN entries : keys[i] = key}
    BY <1>4, KeysAre, SequenceIsListed DEF places
  <1>6. OnePerKey(all, entries, keys)
    BY <1>2, <1>3, <1>5 DEF OnePerKey
  <1> QED  BY <1>1, <1>6, GroupsFromKeys DEF keys

\* What projects and tasks are sorted by.
ProjectMeasures(groups, filter) ==
    [k \in 1..Len(groups) |-> GroupKey(groups[k], filter.sort, groups[k].entries[1].s.title)]
TitleOf(g) == LET mains == Select(g.entries, LAMBDA e : ~e.s.agent)
              IN  (IF mains = <<>> THEN g.entries[1] ELSE mains[1]).s.title
PricedGroup(g) == [g EXCEPT !.cost = IF g.priced = Len(g.entries) THEN @ ELSE 0]
TaskMeasures(groups, filter) ==
    [k \in 1..Len(groups) |-> GroupKey(PricedGroup(groups[k]), filter.sort, TitleOf(groups[k]))]

ProjectsShown(view, filter) == ProjectGroupsOf(Selected(view, filter))
Narrower(filter, project) == [filter EXCEPT !.project = project]
TasksShown(view, filter, project) == TaskGroupsOf(Selected(view, Narrower(filter, project)))

LEMMA ProjectsSort ==
    ASSUME NEW view, NEW filter, Sequence(ProjectsShown(view, filter))
    PROVE  Sorted(Projects(view, filter), ProjectsShown(view, filter), filter,
                  ProjectMeasures(ProjectsShown(view, filter), filter))
  <1> DEFINE groups == ProjectsShown(view, filter)
             Key(g) == GroupKey(g, filter.sort, g.entries[1].s.title)
             before == {p \in (DOMAIN groups) \X (DOMAIN groups) :
                            Precedes(filter, Key(groups[p[1]]), Key(groups[p[2]]))}
  <1>1. Projects(view, filter)
            = StableSort(groups, LAMBDA a, b : Precedes(filter, Key(a), Key(b)))
    BY DEF Projects, ProjectsShown, ProjectGroupsOf
  <1> HIDE DEF groups
  <1>2. Listed(groups) = groups /\ DOMAIN groups = 1..Len(groups)
    BY SequenceIsListed DEF groups
  <1>3. Projects(view, filter) \in {groups, Arranged(groups, before)}
    BY <1>1, <1>2 DEF StableSort
  <1>4. before = Order(filter, ProjectMeasures(groups, filter), Len(groups))
    BY <1>2 DEF Order, ProjectMeasures
  <1> HIDE DEF before
  <1>5. Sorted(Projects(view, filter), groups, filter, ProjectMeasures(groups, filter))
    BY <1>3, <1>4 DEF Sorted
  <1> QED  BY <1>5 DEF groups

LEMMA TasksSort ==
    ASSUME NEW view, NEW filter, NEW project, Sequence(TasksShown(view, filter, project))
    PROVE  Sorted(Tasks(view, filter, project), TasksShown(view, filter, project), filter,
                  TaskMeasures(TasksShown(view, filter, project), filter))
  <1> DEFINE groups == TasksShown(view, filter, project)
             Key(g) == GroupKey(PricedGroup(g), filter.sort, TitleOf(g))
             before == {p \in (DOMAIN groups) \X (DOMAIN groups) :
                            Precedes(filter, Key(groups[p[1]]), Key(groups[p[2]]))}
  <1>1. Tasks(view, filter, project)
            = StableSort(groups, LAMBDA a, b : Precedes(filter, Key(a), Key(b)))
    BY DEF Tasks, TasksShown, TaskGroupsOf, Narrower, PricedGroup, TitleOf
  <1> HIDE DEF groups, Key
  <1>2. Listed(groups) = groups /\ DOMAIN groups = 1..Len(groups)
    BY SequenceIsListed DEF groups
  <1>3. Tasks(view, filter, project) \in {groups, Arranged(groups, before)}
    BY <1>1, <1>2 DEF StableSort
  <1>4. before = Order(filter, TaskMeasures(groups, filter), Len(groups))
    BY <1>2 DEF Order, TaskMeasures, Key
  <1> HIDE DEF before
  <1>5. Sorted(Tasks(view, filter, project), groups, filter, TaskMeasures(groups, filter))
    BY <1>3, <1>4 DEF Sorted
  <1> QED  BY <1>5 DEF groups

LEMMA ProjectsAre ==
    ASSUME NEW view, Sequence(view.entries), NEW filter
    PROVE  Sequence(Projects(view, filter))
  <1>1. Sequence(ProjectsShown(view, filter))
    <2>1. Sequence(Selected(view, filter))
      BY SelectedIs
    <2> QED  BY <2>1, ProjectGroups DEF ProjectsShown, GroupsOfKeys
  <1> QED  BY <1>1, ProjectsSort, SortedIsSequence

LEMMA TasksAre ==
    ASSUME NEW view, Sequence(view.entries), NEW filter, NEW project
    PROVE  Sequence(Tasks(view, filter, project))
  <1>1. Sequence(TasksShown(view, filter, project))
    <2>1. Sequence(Selected(view, Narrower(filter, project)))
      BY SelectedIs
    <2> QED  BY <2>1, TaskGroups DEF TasksShown, GroupsOfKeys
  <1> QED  BY <1>1, TasksSort, SortedIsSequence

\* The walks over the lists of a view.
SessionWalk(view, filter, limit) ==
    Walks(LAMBDA c, n : QuerySessions(view, filter, c, n), Selected(view, filter), limit)
ProjectWalk(view, filter, limit) ==
    Walks(LAMBDA c, n : QueryProjects(view, filter, c, n), Projects(view, filter), limit)
TaskWalk(view, filter, project, limit) ==
    Walks(LAMBDA c, n : QueryTasks(view, filter, project, c, n), Tasks(view, filter, project), limit)
EventWalk(view, s, limit) ==
    Walks(LAMBDA c, n : QueryEvents(view, s.uid, c, n),
          StableSort(s.rows, LAMBDA a, b : a.at > b.at), limit)

LEMMA SessionPages ==
    ASSUME NEW view, view.revision # <<>>, Sequence(view.entries), NEW filter, NEW limit \in 1..100
    PROVE  SessionWalk(view, filter, limit)
  <1> DEFINE items == Selected(view, filter)
             summary == Summary(Selected(view, filter))
             binding == <<"sessions", filter>>
  <1>1. Sequence(items)
    BY SelectedIs
  <1> HIDE DEF items, summary, binding
  <1>2. PageWalk(view, binding, items, summary, limit)
    BY <1>1, WalkTiles
  <1> QED  BY <1>2 DEF PageWalk, SessionWalk, QuerySessions, items, summary, binding

LEMMA ProjectPages ==
    ASSUME NEW view, view.revision # <<>>, Sequence(view.entries), NEW filter, NEW limit \in 1..100
    PROVE  ProjectWalk(view, filter, limit)
  <1> DEFINE items == Projects(view, filter)
             summary == Summary(Selected(view, filter))
             binding == <<"projects", filter>>
  <1>1. Sequence(items)
    BY ProjectsAre
  <1> HIDE DEF items, summary, binding
  <1>2. PageWalk(view, binding, items, summary, limit)
    BY <1>1, WalkTiles
  <1> QED  BY <1>2 DEF PageWalk, ProjectWalk, QueryProjects, items, summary, binding

LEMMA TaskPages ==
    ASSUME NEW view, view.revision # <<>>, Sequence(view.entries), NEW filter, NEW project,
           NEW limit \in 1..100
    PROVE  TaskWalk(view, filter, project, limit)
  <1> DEFINE items == Tasks(view, filter, project)
             summary == Summary(Selected(view, [filter EXCEPT !.project = project]))
             binding == <<"tasks", filter, project>>
  <1>1. Sequence(items)
    BY TasksAre
  <1> HIDE DEF items, summary, binding
  <1>2. PageWalk(view, binding, items, summary, limit)
    BY <1>1, WalkTiles
  <1> QED  BY <1>2 DEF PageWalk, TaskWalk, QueryTasks, items, summary, binding

LEMMA EventPages ==
    ASSUME NEW view, NEW all, Published(all), Shows(view, all), NEW i \in 1..Len(all),
           NEW limit \in 1..100
    PROVE  EventWalk(view, all[i], limit)
  <1> DEFINE uid == all[i].uid
             shown == {k \in DOMAIN view.entries : view.entries[k].s.uid = uid}
             s == view.entries[Max(shown)].s
             Newest(r) == StableSort(r, LAMBDA a, b : a.at > b.at)
             rows == Newest(s.rows)
  <1>1. PICK k \in 1..Len(view.entries) :
            /\ view.entries[k].s = all[i]
            /\ \A l \in 1..Len(view.entries) : view.entries[l].s.uid = all[i].uid => l = k
    BY DEF Shows, Placed
  <1>2. Len(view.entries) \in Nat /\ DOMAIN view.entries = 1..Len(view.entries)
    BY SequenceIsListed DEF Shows
  <1>3. shown = {k}
    BY <1>1, <1>2
  <1>4. Max(shown) = k
    <2>1. shown \in SUBSET (1..Len(view.entries)) /\ shown # {}
      BY <1>1, <1>3
    <2>2. Max(shown) \in shown
      BY <1>2, <2>1, Greatest
    <2> QED  BY <1>3, <2>2
  <1> DEFINE none == shown = {}
             bare == ~s.detailed
  <1>5. s = all[i] /\ ~none /\ ~bare
    <2>1. s = all[i] /\ ~none
      BY <1>1, <1>3, <1>4
    <2>2. all[i].detailed = TRUE
      BY DEF Published
    <2> QED  BY <2>1, <2>2
  <1>6. Sequence(rows)
    <2>1. Sequence(all[i].rows)
      BY DEF Published, Whole, CountedRows
    <2> QED  BY <1>5, <2>1, RowsSorted
  <1>7. rows = Newest(all[i].rows)
    <2> HIDE DEF Newest, s
    <2> QED  BY <1>5
  <1> HIDE DEF none, bare, rows
  <1>8. ShownPageWalk(view, <<"events", uid>>, rows, NoName, limit, none, bare)
    BY <1>5, <1>6, ShownWalkTiles DEF Shows
  <1>9. Walks(LAMBDA c, n : QueryEvents(view, uid, c, n), rows, limit)
    BY <1>8 DEF ShownPageWalk, QueryEvents, none, bare, rows
  <1>10. Walks(LAMBDA c, n : QueryEvents(view, uid, c, n), Newest(all[i].rows), limit)
    <2> HIDE DEF Newest
    <2> QED  BY <1>7, <1>9
  <1> QED  BY <1>10 DEF EventWalk

(***************************************************************************)
(* Every list of a publication - sessions, projects and tasks of any       *)
(* filter, and the events of any of its sessions - is shown whole by pages *)
(* of any size that may be asked for (view.rs).                            *)
(***************************************************************************)
THEOREM AnyListTiles ==
    ASSUME NEW view, NEW all, Published(all), Shows(view, all), NEW filter, NEW project,
           NEW limit \in 1..100
    PROVE  /\ SessionWalk(view, filter, limit)
           /\ ProjectWalk(view, filter, limit)
           /\ TaskWalk(view, filter, project, limit)
           /\ \A i \in 1..Len(all) : EventWalk(view, all[i], limit)
  <1>1. view.revision # <<>> /\ Sequence(view.entries)
    BY DEF Shows
  <1> QED  BY <1>1, SessionPages, ProjectPages, TaskPages, EventPages

LEMMA WrittenTiles ==
    ASSUME Written
    PROVE  PagesTile
  <1> DEFINE view == View(1, sessions, Forever)
  <1>1. Published(sessions)
    BY PublishIs DEF Written
  <1>2. Shows(view, sessions)
    BY <1>1, ViewShows
  <1> HIDE DEF view
  <1>3. 1 \in 1..100 /\ 2 \in 1..100
    OBVIOUS
  <1>4. SessionWalk(view, NoFilter, 1) /\ ProjectWalk(view, NoFilter, 1)
        /\ TaskWalk(view, NoFilter, Unknown, 1)
    BY <1>1, <1>2, <1>3, AnyListTiles
  <1>5. \A i \in DOMAIN sessions : EventWalk(view, sessions[i], 2)
    <2>1. DOMAIN sessions = 1..Len(sessions)
      BY <1>1, SequenceIsListed DEF Published
    <2> QED  BY <1>1, <1>2, <1>3, <2>1, AnyListTiles
  <1>6. PagesOf(view)
    BY <1>4, <1>5 DEF PagesOf, SessionWalk, ProjectWalk, TaskWalk, EventWalk
  <1> QED  BY <1>6 DEF PagesTile, view

(***************************************************************************)
(* Whatever Codex does, every list of what is published is shown whole by  *)
(* its pages: what is parsed of well-formed files are sessions with usage  *)
(* and details, one for each session id, whichever files they were merged  *)
(* from, so that a view has each of them once (normalize.rs, view.rs).     *)
(***************************************************************************)
THEOREM PagesAlwaysTile == Spec => []PagesTile
  <1>1. Init => Written
    BY Begins
  <1>2. Written /\ [Next]_vars => Written'
    BY StepsWrite
  <1>3. Written => PagesTile
    BY WrittenTiles
  <1> QED  BY <1>1, <1>2, <1>3, PTL DEF Spec

-------------------------------------------------------------------------------
(* What the groups of a selection use *)

\* What is selected uses what matches, in whatever order it is shown.
LEMMA SelectedUse ==
    ASSUME NEW view, CountedEntries(view.entries), NEW filter,
           Numbers(EntryKeys(view.entries, filter), Len(view.entries))
    PROVE  /\ CountedEntries(Selected(view, filter))
           /\ UsageOf(TotalsOf(Selected(view, filter)))
                = UsageAt(TotalsOf(view.entries), Len(view.entries), Matching(view, filter))
  <1> DEFINE items == view.entries
             n == Len(items)
             places == Matching(view, filter)
             kept == KeptBy(view, filter)
             m == Len(kept)
             t == Selected(view, filter)
  <1>1. Sequence(items) /\ n \in Nat /\ DOMAIN items = 1..n
    BY SequenceIsListed DEF CountedEntries
  <1>2. Lists(kept, items, places) /\ Sorted(t, kept, filter, EntryKeys(kept, filter))
    BY <1>1, SelectedSorts
  <1>3. places \in SUBSET (1..n)
    BY <1>1 DEF Matching
  <1>4. \A i \in 1..n : SortKey(items[i], filter.sort) \in Int
    BY DEF Numbers, EntryKeys
  <1>0. CountedEntries(items)
    OBVIOUS
  <1> HIDE DEF items, n, places, kept, t
  <1>5. CountedEntries(kept) /\ UsageOf(TotalsOf(kept)) = UsageAt(TotalsOf(items), n, places)
    BY <1>0, <1>2, <1>3, ListedUse DEF n
  <1>6. Sequence(kept) /\ m \in Nat /\ DOMAIN kept = 1..m
    BY <1>5, SequenceIsListed DEF CountedEntries
  <1>7. Numbers(EntryKeys(kept, filter), m)
    <2>1. PICK at : ListsBy(at, kept, items, places)
      BY <1>2 DEF Lists
    <2>2. \A k \in 1..m : kept[k] = items[at[k]] /\ at[k] \in 1..n
      BY <1>3, <2>1 DEF ListsBy
    <2> QED  BY <1>4, <2>2 DEF Numbers, EntryKeys
  <1>8. Lists(t, kept, DOMAIN kept)
    BY <1>2, <1>6, <1>7, SortedLists
  <1>9. CountedEntries(t) /\ UsageOf(TotalsOf(t)) = UsageAt(TotalsOf(kept), m, 1..m)
    <2> DEFINE whole == 1..m
    <2>1. whole \in SUBSET (1..m) /\ Lists(t, kept, whole)
      BY <1>6, <1>8
    <2> HIDE DEF whole
    <2>2. CountedEntries(t) /\ UsageOf(TotalsOf(t)) = UsageAt(TotalsOf(kept), m, whole)
      BY <1>5, <2>1, ListedUse
    <2> QED  BY <2>2 DEF whole
  <1>10. UsageAt(TotalsOf(kept), m, 1..m) = UsageOf(TotalsOf(kept))
    <2>1. Usages(TotalsOf(kept), m)
      BY <1>5, TotalsAreUsed
    <2> HIDE DEF m
    <2> QED  BY <1>6, <2>1, UsageAtParts
  <1> QED  BY <1>5, <1>9, <1>10 DEF items, n, places, t

\* Entries that have counters and what a list is to be sorted by.
Measured(entries, sort) ==
    CountedEntries(entries) /\ \A k \in 1..Len(entries) : SortKey(entries[k], sort) \in Int

LEMMA PartIsMeasured ==
    ASSUME NEW entries, NEW sort, Measured(entries, sort),
           NEW places \in SUBSET (1..Len(entries)), NEW t, Lists(t, entries, places)
    PROVE  Measured(t, sort)
  <1>1. CountedEntries(t)
    BY ListedUse DEF Measured
  <1>2. PICK at : ListsBy(at, t, entries, places)
    BY DEF Lists
  <1>3. \A k \in 1..Len(t) : t[k] = entries[at[k]] /\ at[k] \in 1..Len(entries)
    BY <1>2 DEF ListsBy
  <1> QED  BY <1>1, <1>3 DEF Measured

\* A list that is not empty, sorted by numbers, is measured by numbers.
LEMMA CostIsNumber ==
    ASSUME NEW part, Measured(part, "cost"), NEW g, IsGroup(g, part)
    PROVE  g.cost \in Int
  <1> DEFINE places == {i \in DOMAIN part : part[i].s.pricing.cost # NoCost}
             known == Picked(part, places)
             costs == [i \in DOMAIN known |-> known[i].s.pricing.cost]
  <1>1. Sequence(part) /\ Listed(part) = part /\ DOMAIN part = 1..Len(part)
    BY SequenceIsListed DEF Measured, CountedEntries
  <1>2. g.cost = SumOf(costs)
    <2>1. known = KnownEntries(part)
      BY <1>1 DEF Select, KnownEntries
    <2> HIDE DEF known
    <2>2. KnownCost(part) = SumOf(costs)
      BY <2>1 DEF KnownCost
    <2> QED  BY <2>2, GroupFields
  <1>3. \A i \in DOMAIN part : part[i].s.pricing.cost \in Int
    BY <1>1 DEF Measured, SortKey
  <1>4. places \in SUBSET DOMAIN part
    OBVIOUS
  <1> HIDE DEF places
  <1>5. Sequence(known) /\ \A k \in 1..Len(known) : \E i \in places : known[k] = part[i]
    BY <1>1, <1>4, Selects
  <1> HIDE DEF known
  <1>6. DOMAIN known = 1..Len(known) /\ Len(known) \in Nat
    BY <1>5, SequenceIsListed
  <1>7. \A k \in 1..Len(known) : known[k].s.pricing.cost \in Int
    BY <1>3, <1>4, <1>5
  <1>8. costs \in Seq(Int)
    BY <1>6, <1>7
  <1> HIDE DEF costs
  <1> QED  BY <1>2, <1>8, SumIsNumber

LEMMA UsedAtIsNumber ==
    ASSUME NEW part, Measured(part, "updated"), Len(part) # 0, NEW g, IsGroup(g, part)
    PROVE  g.usedAt \in Int
  <1> DEFINE u == [i \in 1..Len(part) |-> part[i].usedAt]
  <1>1. Len(part) \in Nat \ {0} /\ DOMAIN part = 1..Len(part)
    BY SequenceIsListed DEF Measured, CountedEntries
  <1>2. \A k \in 1..Len(part) : u[k] \in Int
    BY DEF Measured, SortKey
  <1>3. {part[i].usedAt : i \in DOMAIN part} = {u[k] : k \in 1..Len(part)}
    BY <1>1
  <1>4. g.usedAt = Max({part[i].usedAt : i \in DOMAIN part})
    BY GroupFields DEF LastUsed
  <1> HIDE DEF u
  <1>5. Max({u[k] : k \in 1..Len(part)}) \in Int
    BY <1>1, <1>2, GreatestIsNumber
  <1> QED  BY <1>3, <1>4, <1>5

LEMMA TitleIsNumber ==
    ASSUME NEW part, Measured(part, "title"), Len(part) # 0, NEW g, IsGroup(g, part)
    PROVE  g.entries[1].s.title \in Int /\ TitleOf(g) \in Int
  <1> DEFINE places == {i \in DOMAIN part : ~part[i].s.agent}
             mains == Picked(part, places)
  <1>1. Sequence(part) /\ Listed(part) = part /\ DOMAIN part = 1..Len(part) /\ 1 \in 1..Len(part)
    BY SequenceIsListed DEF Measured, CountedEntries
  <1>2. g.entries = part
    BY GroupFields
  <1>3. \A k \in 1..Len(part) : part[k].s.title \in Int
    BY DEF Measured, SortKey
  <1>4. mains = Select(part, LAMBDA e : ~e.s.agent)
    BY <1>1 DEF Select
  <1>5. TitleOf(g) = (IF mains = <<>> THEN part[1] ELSE mains[1]).s.title
    BY <1>2, <1>4 DEF TitleOf
  <1>6. places \in SUBSET DOMAIN part
    OBVIOUS
  <1> HIDE DEF places
  <1>7. Sequence(mains) /\ \A k \in 1..Len(mains) : \E i \in places : mains[k] = part[i]
    BY <1>1, <1>6, Selects
  <1> HIDE DEF mains
  <1>8. CASE mains = <<>>
    BY <1>1, <1>2, <1>3, <1>5, <1>8
  <1>9. CASE mains # <<>>
    <2>1. mains \in Seq({mains[i] : i \in DOMAIN mains})
      BY <1>7 DEF Sequence
    <2>2. 1 \in 1..Len(mains)
      BY <1>9, <2>1
    <2>3. mains[1].s.title \in Int
      BY <1>1, <1>3, <1>6, <1>7, <2>2
    <2> QED  BY <1>1, <1>2, <1>3, <1>5, <1>9, <2>3
  <1> QED  BY <1>8, <1>9

\* What a group is sorted by is a number if what its entries are sorted by is.
LEMMA GroupIsMeasured ==
    ASSUME NEW part, NEW sort, Measured(part, sort), Len(part) # 0, NEW g, IsGroup(g, part)
    PROVE  /\ GroupKey(g, sort, g.entries[1].s.title) \in Int
           /\ GroupKey(PricedGroup(g), sort, TitleOf(g)) \in Int
  <1> DEFINE h == PricedGroup(g)
  <1>1. /\ h.usedAt = g.usedAt /\ h.usage = g.usage /\ h.cost \in {g.cost, 0}
    BY DEF PricedGroup, IsGroup, Group
  <1> HIDE DEF h
  <1>2. CASE sort = "cost"
    <2>1. g.cost \in Int
      BY <1>2, CostIsNumber
    <2> QED  BY <1>1, <1>2, <2>1 DEF GroupKey, h
  <1>3. CASE sort = "updated"
    <2>1. g.usedAt \in Int
      BY <1>3, UsedAtIsNumber
    <2> QED  BY <1>1, <1>3, <2>1 DEF GroupKey, h
  <1>4. CASE sort = "title"
    <2>1. g.entries[1].s.title \in Int /\ TitleOf(g) \in Int
      BY <1>4, TitleIsNumber
    <2> QED  BY <1>4, <2>1 DEF GroupKey
  <1>5. CASE sort \notin {"cost", "updated", "title"}
    <2>1. CountedEntries(part) /\ Sequence(part)
      BY DEF Measured, CountedEntries
    <2>2. g.usage = UsageOf(TotalsOf(part))
      <3>1. g.usage = UseOf(part)
        BY GroupFields
      <3> QED  BY <2>1, <3>1, UseIsTotals
    <2>3. UsageOf(TotalsOf(part)) \in Counters
      <3> DEFINE n == Len(part)
                 f == TotalsOf(part)
      <3>1. n \in Nat /\ Usages(f, n)
        BY <2>1, TotalsAreUsed
      <3> HIDE DEF n, f
      <3>2. UsageAt(f, n, 1..n) = UsageOf(f) /\ UsageAt(f, n, 1..n) \in Counters
        BY <3>1, UsageAtParts
      <3> QED  BY <3>2 DEF f
    <2>4. g.usage["total"] \in Int
      BY <2>2, <2>3 DEF Counters, Fields
    <2> QED  BY <1>1, <1>5, <2>4 DEF GroupKey, h
  <1> QED  BY <1>2, <1>3, <1>4, <1>5

\* The groups of measured entries have measures.
LEMMA GroupsAreMeasured ==
    ASSUME NEW entries, NEW sort, Measured(entries, sort), NEW groups, NEW keys,
           GroupsOfKeys(groups, entries, keys)
    PROVE  \A k \in 1..Len(groups) :
               /\ GroupKey(groups[k], sort, groups[k].entries[1].s.title) \in Int
               /\ GroupKey(PricedGroup(groups[k]), sort, TitleOf(groups[k])) \in Int
  <1> DEFINE n == Len(entries)
             Part(key) == Picked(entries, OfKey(keys, n, key))
  <1>1. PICK at : /\ EachKey(at, keys, Len(groups), n)
                  /\ \A k \in 1..Len(groups) : IsGroup(groups[k], Part(keys[at[k]]))
    BY DEF GroupsOfKeys
  <1>2. Sequence(entries) /\ DOMAIN entries = 1..n
    BY SequenceIsListed DEF Measured, CountedEntries
  <1> SUFFICES ASSUME NEW k \in 1..Len(groups)
               PROVE  /\ GroupKey(groups[k], sort, groups[k].entries[1].s.title) \in Int
                      /\ GroupKey(PricedGroup(groups[k]), sort, TitleOf(groups[k])) \in Int
    OBVIOUS
  <1> DEFINE of == OfKey(keys, n, keys[at[k]])
             part == Picked(entries, of)
             g == groups[k]
  <1>3. IsGroup(g, part)
    BY <1>1
  <1>4. of \in SUBSET (1..n) /\ at[k] \in of
    <2>1. at[k] \in 1..n
      BY <1>1 DEF EachKey
    <2> QED  BY <2>1 DEF OfKey
  <1> HIDE DEF of, g
  <1>5. Lists(part, entries, of)
    BY <1>2, <1>4, PickedLists
  <1> HIDE DEF part
  <1>6. Measured(part, sort)
    BY <1>4, <1>5, PartIsMeasured
  <1>7. Len(part) # 0
    <2>1. PICK j \in 1..Len(part) : TRUE
      BY <1>4, <1>5 DEF Lists, ListsBy
    <2> QED  BY <2>1
  <1> QED  BY <1>3, <1>6, <1>7, GroupIsMeasured DEF g

\* Sorted groups use what their entries use.
LEMMA ShownGroupsUse ==
    ASSUME NEW entries, CountedEntries(entries), NEW groups, NEW keys,
           GroupsOfKeys(groups, entries, keys), NEW t, NEW filter, NEW key,
           Sorted(t, groups, filter, key), Numbers(key, Len(groups))
    PROVE  GroupUsage(t) = UseOf(entries)
  <1>1. Sequence(groups)
    BY DEF GroupsOfKeys
  <1>2. Lists(t, groups, DOMAIN groups)
    BY <1>1, SortedLists
  <1>3. Usages(UsageIn(groups), Len(groups)) /\ UsageOf(UsageIn(groups)) = UsageOf(TotalsOf(entries))
    BY GroupsUse
  <1>4. GroupUsage(t) = UsageOf(UsageIn(groups))
    BY <1>1, <1>2, <1>3, SortedUse
  <1>5. UseOf(entries) = UsageOf(TotalsOf(entries))
    BY UseIsTotals DEF CountedEntries
  <1> QED  BY <1>3, <1>4, <1>5

LEMMA SelectionIsMeasured ==
    ASSUME NEW view, NEW filter, Measured(view.entries, filter.sort)
    PROVE  Measured(Selected(view, filter), filter.sort)
  <1> DEFINE items == view.entries
             n == Len(items)
             places == Matching(view, filter)
             kept == KeptBy(view, filter)
             t == Selected(view, filter)
             key == EntryKeys(kept, filter)
  <1>1. Sequence(items) /\ DOMAIN items = 1..n
    BY SequenceIsListed DEF Measured, CountedEntries
  <1>2. Lists(kept, items, places) /\ Sorted(t, kept, filter, key)
    BY <1>1, SelectedSorts
  <1>3. places \in SUBSET (1..n)
    BY <1>1 DEF Matching
  <1> HIDE DEF places, kept, t
  <1>4. Measured(kept, filter.sort)
    BY <1>2, <1>3, PartIsMeasured
  <1>5. Sequence(kept) /\ DOMAIN kept = 1..Len(kept)
    BY <1>4, SequenceIsListed DEF Measured, CountedEntries
  <1>6. Numbers(key, Len(kept))
    BY <1>4 DEF Measured, Numbers, EntryKeys
  <1> HIDE DEF key
  <1>7. Lists(t, kept, DOMAIN kept)
    BY <1>2, <1>5, <1>6, SortedLists
  <1> DEFINE all == 1..Len(kept)
  <1>8. Lists(t, kept, all) /\ all \in SUBSET (1..Len(kept))
    BY <1>5, <1>7
  <1> HIDE DEF all
  <1>9. Measured(t, filter.sort)
    BY <1>4, <1>8, PartIsMeasured
  <1> QED  BY <1>9 DEF t

(***************************************************************************)
(* Projects, and the tasks of a project, divide what is selected: whatever *)
(* the filter and the order, the groups that are shown use together what   *)
(* the selected sessions use, none twice and none left out (view.rs).      *)
(***************************************************************************)
THEOREM GroupsDivide ==
    ASSUME NEW view, NEW filter, DOMAIN filter = DOMAIN NoFilter,
           Measured(view.entries, filter.sort), NEW project
    PROVE  /\ GroupUsage(Projects(view, filter)) = UseOf(Selected(view, filter))
           /\ GroupUsage(Tasks(view, filter, project))
                = UseOf(Selected(view, Narrower(filter, project)))
  <1>1. GroupUsage(Projects(view, filter)) = UseOf(Selected(view, filter))
    <2> DEFINE entries == Selected(view, filter)
               groups == ProjectsShown(view, filter)
               keys == ProjectKeys(entries)
               key == ProjectMeasures(groups, filter)
    <2>1. Measured(entries, filter.sort)
      BY SelectionIsMeasured
    <2>2. CountedEntries(entries) /\ Sequence(entries)
      BY <2>1 DEF Measured, CountedEntries
    <2>3. GroupsOfKeys(groups, entries, keys)
      BY <2>2, ProjectGroups DEF ProjectsShown
    <2>4. Sorted(Projects(view, filter), groups, filter, key)
      BY <2>3, ProjectsSort DEF GroupsOfKeys
    <2> HIDE DEF entries, groups, keys
    <2>5. Numbers(key, Len(groups))
      <3>1. \A k \in 1..Len(groups) :
                GroupKey(groups[k], filter.sort, groups[k].entries[1].s.title) \in Int
        BY <2>1, <2>3, GroupsAreMeasured
      <3> QED  BY <3>1 DEF Numbers, ProjectMeasures
    <2> HIDE DEF key
    <2>6. GroupUsage(Projects(view, filter)) = UseOf(entries)
      BY <2>2, <2>3, <2>4, <2>5, ShownGroupsUse
    <2> QED  BY <2>6 DEF entries
  <1>2. GroupUsage(Tasks(view, filter, project))
            = UseOf(Selected(view, Narrower(filter, project)))
    <2> DEFINE narrower == Narrower(filter, project)
               entries == Selected(view, narrower)
               groups == TasksShown(view, filter, project)
               keys == TaskKeys(entries)
               key == TaskMeasures(groups, filter)
    <2>1. Measured(entries, filter.sort)
      <3>1. Measured(Selected(view, narrower), narrower.sort)
        <4>1. Measured(view.entries, narrower.sort)
          BY DEF Narrower
        <4> HIDE DEF narrower
        <4> QED  BY <4>1, SelectionIsMeasured
      <3>2. narrower.sort = filter.sort
        BY DEF Narrower
      <3> QED  BY <3>1, <3>2
    <2>2. CountedEntries(entries) /\ Sequence(entries)
      BY <2>1 DEF Measured, CountedEntries
    <2>3. GroupsOfKeys(groups, entries, keys)
      BY <2>2, TaskGroups DEF TasksShown
    <2>4. Sorted(Tasks(view, filter, project), groups, filter, key)
      BY <2>3, TasksSort DEF GroupsOfKeys
    <2> HIDE DEF entries, groups, keys
    <2>5. Numbers(key, Len(groups))
      <3>1. \A k \in 1..Len(groups) :
                GroupKey(PricedGroup(groups[k]), filter.sort, TitleOf(groups[k])) \in Int
        BY <2>1, <2>3, GroupsAreMeasured
      <3> QED  BY <3>1 DEF Numbers, TaskMeasures
    <2> HIDE DEF key
    <2>6. GroupUsage(Tasks(view, filter, project)) = UseOf(entries)
      BY <2>2, <2>3, <2>4, <2>5, ShownGroupsUse
    <2> QED  BY <2>6 DEF entries
  <1> QED  BY <1>1, <1>2

\* The sessions that are selected by what they are.
Only(filter, agents) == [filter EXCEPT !.agents = agents]

(***************************************************************************)
(* Main sessions and sub-agents divide what a filter selects (view.rs).    *)
(***************************************************************************)
THEOREM AgentsDivide ==
    ASSUME NEW view, NEW filter, DOMAIN filter = DOMAIN NoFilter,
           Measured(view.entries, filter.sort)
    PROVE  UseOf(Selected(view, Only(filter, "all")))
             = Plus(UseOf(Selected(view, Only(filter, "main"))),
                    UseOf(Selected(view, Only(filter, "agents"))))
  <1> DEFINE items == view.entries
             n == Len(items)
             f == TotalsOf(items)
             PlacesOf(agents) == Matching(view, Only(filter, agents))
             Use(agents) == UseOf(Selected(view, Only(filter, agents)))
  <1>1. CountedEntries(items) /\ n \in Nat /\ Usages(f, n)
    BY TotalsAreUsed DEF Measured
  <1>2. ASSUME NEW agents PROVE Use(agents) = UsageAt(f, n, PlacesOf(agents))
    <2> DEFINE only == Only(filter, agents)
    <2>1. only.sort = filter.sort
      BY DEF Only, NoFilter
    <2> HIDE DEF only
    <2>2. Measured(items, only.sort)
      BY <2>1
    <2>3. Numbers(EntryKeys(items, only), n)
      BY <2>2 DEF Measured, Numbers, EntryKeys
    <2>4. /\ CountedEntries(Selected(view, only))
          /\ UsageOf(TotalsOf(Selected(view, only))) = UsageAt(f, n, Matching(view, only))
      BY <1>1, <2>3, SelectedUse
    <2>5. UseOf(Selected(view, only)) = UsageOf(TotalsOf(Selected(view, only)))
      BY <2>4, UseIsTotals DEF CountedEntries
    <2> QED  BY <2>4, <2>5 DEF only
  <1>3. /\ PlacesOf("all") = PlacesOf("main") \cup PlacesOf("agents")
        /\ PlacesOf("main") \cap PlacesOf("agents") = {}
    <2> DEFINE Other(s) ==
                   /\ filter.search = NoName \/ filter.search \in Words(s)
                   /\ filter.models = {} \/ (s.models \cup {s.model}) \cap filter.models # {}
                   /\ filter.environments = {} \/ s.env \in filter.environments
                   /\ filter.source = NoName \/ s.source = filter.source
                   /\ filter.project = NoName \/ Named(s.project) = filter.project
               Is(s, agents) == Matches(s, Only(filter, agents))
    <2>1. ASSUME NEW s, NEW agents
          PROVE  Is(s, agents) <=> /\ Other(s)
                                   /\ agents = "main" => ~s.agent
                                   /\ agents = "agents" => s.agent
      <3> DEFINE only == Only(filter, agents)
      <3>1. /\ only.search = filter.search /\ only.models = filter.models
            /\ only.environments = filter.environments /\ only.source = filter.source
            /\ only.project = filter.project /\ only.agents = agents
        BY DEF Only, NoFilter
      <3> HIDE DEF only
      <3>2. Matches(s, only) <=> /\ Other(s)
                                 /\ agents = "main" => ~s.agent
                                 /\ agents = "agents" => s.agent
        BY <3>1 DEF Matches
      <3> QED  BY <3>2 DEF only
    <2>2. \A agents : PlacesOf(agents) = {i \in DOMAIN items : Is(items[i].s, agents)}
      BY DEF Matching
    <2> HIDE DEF Other, Is, PlacesOf
    <2>3. \A i \in DOMAIN items :
              /\ Is(items[i].s, "all") <=> Other(items[i].s)
              /\ Is(items[i].s, "main") <=> Other(items[i].s) /\ ~items[i].s.agent
              /\ Is(items[i].s, "agents") <=> Other(items[i].s) /\ items[i].s.agent
      BY <2>1
    <2> QED  BY <2>2, <2>3
  <1> HIDE DEF f, n, PlacesOf
  <1>4. UsageAt(f, n, PlacesOf("main") \cup PlacesOf("agents"))
            = Plus(UsageAt(f, n, PlacesOf("main")), UsageAt(f, n, PlacesOf("agents")))
    BY <1>1, <1>3, UsageAtParts
  <1>5. Use("all") = Plus(Use("main"), Use("agents"))
    BY <1>2, <1>3, <1>4
  <1> QED  BY <1>5 DEF Use

\* What is published is divided by projects, by the tasks of a project, and
\* by main sessions and sub-agents.
DividedByUsage ==
    LET view == View(1, sessions, Forever)
        Use(filter) == UseOf(Selected(view, filter))
    IN  /\ GroupUsage(Projects(view, NoFilter)) = TotalOf(sessions)
        /\ \A project : GroupUsage(Tasks(view, NoFilter, project))
                            = Use(Narrower(NoFilter, project))
        /\ TotalOf(sessions) = Plus(Use(Only(NoFilter, "main")), Use(Only(NoFilter, "agents")))

LEMMA WrittenDivides ==
    ASSUME Written
    PROVE  DividedByUsage
  <1> DEFINE view == View(1, sessions, Forever)
             entries == view.entries
             n == Len(sessions)
             first == EntriesOf(sessions)
  <1>1. Published(sessions)
    BY PublishIs DEF Written
  <1>2. /\ CountedEntries(first) /\ Len(first) = n
        /\ \A i \in 1..n : first[i].s = sessions[i]
        /\ Lists(entries, first, 1..n)
    BY <1>1, ViewLists
  <1>3. n \in Nat /\ DOMAIN sessions = 1..n
    BY <1>1, SequenceIsListed DEF Published
  <1> HIDE DEF view, entries, first
  <1>4. CountedEntries(entries) /\ UsageOf(TotalsOf(entries)) = UsageAt(TotalsOf(first), n, 1..n)
    <2> DEFINE all == 1..n
    <2>1. all \in SUBSET (1..Len(first)) /\ Lists(entries, first, all)
      BY <1>2
    <2> HIDE DEF all, n
    <2>2. CountedEntries(entries)
          /\ UsageOf(TotalsOf(entries)) = UsageAt(TotalsOf(first), Len(first), all)
      BY <1>2, <2>1, ListedUse
    <2> QED  BY <1>2, <2>2 DEF all
  <1>5. UsageOf(TotalsOf(entries)) = TotalOf(sessions)
    <2>1. Usages(TotalsOf(first), n)
      BY <1>2, TotalsAreUsed
    <2>2. UsageAt(TotalsOf(first), n, 1..n) = UsageOf(TotalsOf(first))
      BY <1>3, <2>1, UsageAtParts
    <2>3. TotalsOf(first) = [i \in DOMAIN sessions |-> sessions[i].total]
      BY <1>2, <1>3 DEF TotalsOf
    <2> QED  BY <1>4, <2>2, <2>3 DEF TotalOf
  <1>6. Measured(entries, NoFilter.sort)
    <2>1. NoFilter.sort = "tokens"
      BY DEF NoFilter
    <2>2. ASSUME NEW k \in 1..Len(entries) PROVE SortKey(entries[k], "tokens") \in Int
      <3>1. entries[k].s.total["total"] \in Nat
        BY <1>4 DEF CountedEntries, Counters, Fields
      <3> QED  BY <3>1 DEF SortKey
    <2> QED  BY <1>4, <2>1, <2>2 DEF Measured
  <1>7. UseOf(Selected(view, NoFilter)) = TotalOf(sessions)
    <2>1. Numbers(EntryKeys(entries, NoFilter), Len(entries))
      BY <1>6 DEF Measured, Numbers, EntryKeys
    <2>2. CountedEntries(Selected(view, NoFilter))
          /\ UsageOf(TotalsOf(Selected(view, NoFilter)))
               = UsageAt(TotalsOf(entries), Len(entries), Matching(view, NoFilter))
      BY <1>4, <2>1, SelectedUse DEF entries
    <2>3. Matching(view, NoFilter) = 1..Len(entries)
      <3>1. \A s : Matches(s, NoFilter)
        BY DEF Matches, NoFilter
      <3>2. DOMAIN entries = 1..Len(entries)
        BY <1>4, SequenceIsListed DEF CountedEntries
      <3> QED  BY <3>1, <3>2 DEF Matching, entries
    <2>4. UsageAt(TotalsOf(entries), Len(entries), 1..Len(entries)) = UsageOf(TotalsOf(entries))
      <3> DEFINE m == Len(entries)
                 f == TotalsOf(entries)
      <3>1. m \in Nat /\ Usages(f, m)
        BY <1>4, TotalsAreUsed
      <3> HIDE DEF m, f
      <3>2. UsageAt(f, m, 1..m) = UsageOf(f)
        BY <3>1, UsageAtParts
      <3> QED  BY <3>2 DEF m, f
    <2>5. UseOf(Selected(view, NoFilter)) = UsageOf(TotalsOf(Selected(view, NoFilter)))
      BY <2>2, UseIsTotals DEF CountedEntries
    <2> QED  BY <1>5, <2>2, <2>3, <2>4, <2>5
  <1>8. Only(NoFilter, "all") = NoFilter
    <2> DEFINE f == NoFilter
    <2>1. f = [k \in DOMAIN f |-> f[k]] /\ f.agents = "all"
      BY DEF NoFilter
    <2> HIDE DEF f
    <2>2. [f EXCEPT !.agents = "all"] = f
      BY <2>1
    <2> QED  BY <2>2 DEF Only, f
  <1>9. Measured(view.entries, NoFilter.sort)
    BY <1>6 DEF entries
  <1>10. GroupUsage(Projects(view, NoFilter)) = TotalOf(sessions)
    BY <1>7, <1>9, GroupsDivide
  <1>11. \A project : GroupUsage(Tasks(view, NoFilter, project))
                          = UseOf(Selected(view, Narrower(NoFilter, project)))
    BY <1>9, GroupsDivide
  <1>12. UseOf(Selected(view, Only(NoFilter, "all")))
            = Plus(UseOf(Selected(view, Only(NoFilter, "main"))),
                   UseOf(Selected(view, Only(NoFilter, "agents"))))
    BY <1>9, AgentsDivide
  <1>13. TotalOf(sessions) = Plus(UseOf(Selected(view, Only(NoFilter, "main"))),
                                  UseOf(Selected(view, Only(NoFilter, "agents"))))
    BY <1>7, <1>8, <1>12
  <1> QED  BY <1>10, <1>11, <1>13 DEF DividedByUsage, view

(***************************************************************************)
(* Whatever Codex does, the projects of what is published use together     *)
(* what its sessions use, so do main sessions and sub-agents, and the      *)
(* tasks of a project what the sessions of the project use (view.rs).      *)
(***************************************************************************)
THEOREM UsageIsDivided == Spec => []DividedByUsage
  <1>1. Init => Written
    BY Begins
  <1>2. Written /\ [Next]_vars => Written'
    BY StepsWrite
  <1>3. Written => DividedByUsage
    BY WrittenDivides
  <1> QED  BY <1>1, <1>2, <1>3, PTL DEF Spec
===============================================================================
