------------------------------ MODULE Rollout ------------------------------
(***************************************************************************)
(* Reading and parsing one rollout file (reader.rs, parser.rs, and the     *)
(* request timer of speed.rs). A file is a sequence of lines; a line is a  *)
(* record with a kind, a timestamp and the fields its kind uses. A parse   *)
(* is resumed from the saved result of an earlier one: everything the next *)
(* lines need must be in it. Texts (prompts, previews, titles), message    *)
(* and tool counts, rate limits and the fast path for long lines, which    *)
(* yields the same record, are left out.                                   *)
(***************************************************************************)
EXTENDS Usage

CONSTANTS
    NoId,       \* no session, an empty text
    Tenth,      \* 100 ms: items this close to a count belong to what it closed
    Second,     \* 1 s: the shortest request window worth a sample
    Hour        \* 1 h: the longest one

ASSUME TimesAssumption ==
    Tenth \in Nat /\ Second \in Nat /\ Hour \in Nat /\ Tenth <= Second /\ Second <= Hour

NoName == ""
NoMs == -1
NoCost == -1
NoSpeed == [output |-> 0, ms |-> 0, requests |-> 0]
NoPricing == [known |-> FALSE, cost |-> NoCost, segments |-> <<>>]

Later(a, b) == IF a >= b THEN a ELSE b
Earliest(a, b) == IF a = NoTime THEN b ELSE IF b = NoTime \/ a <= b THEN a ELSE b

(***************************************************************************)
(* The request timer. Times are NoTime while unknown.                      *)
(***************************************************************************)
NoTimer == [boundary |-> NoTime, count |-> NoTime, start |-> NoTime,
            output |-> NoTime, tool |-> NoTime, usageAt |-> NoTime, usage |-> Zero,
            firstStart |-> NoTime, firstEnd |-> NoTime]

\* An item just after a count was flushed late by the response before it.
FlushedLate(t, at) == t.start = NoTime /\ t.count # NoTime /\ at - t.count \in 0..Tenth

NoteOutput(t, at) ==
    IF FlushedLate(t, at) THEN t
    ELSE LET opened == IF t.output # NoTime THEN t
                       ELSE [t EXCEPT !.start = IF t.boundary <= at THEN t.boundary ELSE NoTime,
                                      !.firstEnd = at]
         IN  [opened EXCEPT !.output = at, !.tool = NoTime]

NoteItem(t, at, started) ==
    LET noted == NoteOutput(t, at)
    IN  IF FlushedLate(t, at) \/ started > at \/ at - started > Hour THEN noted
        ELSE [noted EXCEPT !.firstStart = Earliest(@, started)]

Observe(t, line) ==
    LET at == line.at
        bounded == [t EXCEPT !.boundary = Later(@, at)]
    IN  IF at = NoTime THEN t
        ELSE CASE line.kind \in {"context", "user"} -> bounded
             [] line.kind = "record"       -> [t EXCEPT !.usageAt = at, !.usage = line.last]
             [] line.kind \in {"started", "aborted", "task"} ->
                    [NoTimer EXCEPT !.boundary = Later(t.boundary, at), !.count = t.count]
             [] line.kind = "item"         -> NoteItem(t, at, line.started)
             [] line.kind = "tool"         ->
                    IF t.output = NoTime THEN bounded ELSE [bounded EXCEPT !.tool = at]
             [] line.kind = "output"       -> NoteOutput(t, at)
             [] OTHER                      -> t

\* Faulty: a request lasts until it is counted, whatever tools did meanwhile.
TimingToTheCount(t, at, usage) ==
    LET first == IF t.firstEnd # NoTime /\ t.firstStart <= t.firstEnd THEN t.firstStart ELSE NoTime
        known == t.start # NoTime /\ at # NoTime /\ t.output # NoTime /\ at - t.start \in Tenth..Hour
    IN  [request |-> IF known THEN at - t.start ELSE NoMs,
         generation |-> IF known /\ first # NoTime /\ first >= t.start THEN at - first ELSE NoMs]

\* The window of the request that a count at time `at` closes.
Timing(t, at, usage) ==
    LET first == IF t.firstEnd # NoTime /\ t.firstStart <= t.firstEnd
                 THEN t.firstStart ELSE NoTime
        recorded == /\ t.usageAt # NoTime
                    /\ \A f \in {"input", "cached", "output"} : t.usage[f] = usage[f]
        waited == t.tool # NoTime /\ at # NoTime /\ at - t.tool \in 0..Tenth
        end == IF recorded THEN t.usageAt ELSE IF waited THEN t.output ELSE at
        request == IF /\ t.start # NoTime /\ end # NoTime /\ t.output # NoTime
                      /\ end - t.start \in Tenth..Hour
                   THEN end - t.start ELSE NoMs
    IN  [request |-> request,
         generation |-> IF request # NoMs /\ first # NoTime /\ first >= t.start
                        THEN end - first ELSE NoMs]

Closed(t, at) == [NoTimer EXCEPT !.boundary = Later(t.boundary, at), !.count = at]

(***************************************************************************)
(* Consuming one line.                                                     *)
(***************************************************************************)
NewParse ==
    [offset |-> 0, meta |-> FALSE, timer |-> NoTimer, tiers |-> <<>>, turns |-> {},
     rawCreated |-> NoTime, rawStart |-> NoTime, rawEnd |-> NoTime,
     id |-> NoId, root |-> NoId, parent |-> NoId, fork |-> NoId, agent |-> FALSE,
     model |-> NoName, models |-> {}, tier |-> NoName, project |-> NoName,
     total |-> Zero, last |-> Zero, rows |-> <<>>, tasks |-> <<>>,
     lines |-> 0, errors |-> 0, created |-> NoTime, start |-> NoTime, end |-> NoTime,
     env |-> NoName, path |-> NoId, source |-> NoName, uid |-> NoId, title |-> 0,
     detailed |-> TRUE, resolved |-> FALSE, inherited |-> Zero, copied |-> 0,
     speed |-> NoSpeed, pricing |-> NoPricing]

NoteModel(p, model) ==
    IF model = NoName THEN p ELSE [p EXCEPT !.model = model, !.models = @ \cup {model}]

\* Only a change of the tier is remembered with its time.
NoteTier(p, tier, at) ==
    IF tier = NoName THEN p
    ELSE [p EXCEPT !.tier = tier,
                   !.tiers = IF at # NoTime /\ (@ = <<>> \/ Last(@).tier # tier)
                             THEN Append(@, [at |-> at, tier |-> tier]) ELSE @]

Note(p, line) == NoteTier(NoteModel(p, line.model), line.tier, line.at)

Project(p, line) == IF line.project = NoName THEN p ELSE [p EXCEPT !.project = line.project]

\* The first session_meta names the session; copied ones that follow do not.
Meta(p, line) ==
    IF p.meta THEN p
    ELSE LET id == IF line.id = NoId THEN p.id ELSE line.id
             root == IF line.root = NoId THEN id ELSE line.root
             agent == line.parent # NoId \/ line.agent
             parent == IF ~agent \/ line.parent # NoId THEN line.parent
                       ELSE IF line.fork # NoId THEN line.fork
                       ELSE IF root # id THEN root ELSE NoId
             named == [p EXCEPT !.meta = TRUE, !.id = id, !.root = root, !.fork = line.fork,
                                !.parent = parent, !.agent = agent,
                                !.rawCreated = IF line.created = NoTime THEN @ ELSE line.created]
         IN  Note(Project(named, line), line)

Context(p, line) ==
    Note(Project([p EXCEPT !.turns = @ \cup ({line.turn} \ {NoId})], line), line)

\* A token_count: a repeated total closes no request, and a window is kept
\* only if the counter grew by what the request says.
TokenCount(p, line) ==
    LET noted == Note(p, line)
        fresh == p.rows = <<>>
        changed == fresh \/ Last(p.rows).total # line.total
        timing == Timing(p.timer, line.at, line.last)
        output == IF fresh THEN line.last["output"]
                  ELSE Delta(line.total, Last(p.rows).total)["output"]
        timed == changed /\ output > 0 /\ output = line.last["output"]
        row == [at |-> line.at, model |-> noted.model, tier |-> noted.tier,
                total |-> line.total, last |-> line.last,
                request |-> IF timed THEN timing.request ELSE NoMs,
                generation |-> IF timed THEN timing.generation ELSE NoMs]
    IN  [noted EXCEPT !.total = line.total, !.last = line.last,
                      !.timer = IF changed THEN Closed(@, line.at) ELSE @,
                      !.rows = Append(@, row)]

TaskComplete(p, line) ==
    [p EXCEPT !.turns = @ \cup ({line.turn} \ {NoId}),
              !.tasks = Append(@, [at |-> line.at, turn |-> line.turn, ms |-> line.ms])]

Understood(seen, line) ==
    CASE line.kind = "meta"     -> Meta(seen, line)
      [] line.kind = "context"  -> Context(seen, line)
      [] line.kind = "settings" -> Note(Project(seen, line), line)
      [] line.kind = "count"    -> TokenCount(seen, line)
      [] line.kind = "task"     -> TaskComplete(seen, line)
      [] OTHER                  -> seen

Consume(p, line) ==
    LET counted == [p EXCEPT !.lines = @ + 1]
    IN  IF line.kind = "garbled" THEN [counted EXCEPT !.errors = @ + 1]
        ELSE Understood([counted EXCEPT !.rawStart = Earliest(@, line.at),
                                        !.rawEnd = Later(@, line.at),
                                        !.timer = Observe(@, line)], line)

(***************************************************************************)
(* Bytes. Line k takes three: 3k-2 is a torn body, 3k-1 a whole one that   *)
(* still lacks its newline, 3k a complete line. A whole body is consumed   *)
(* at once; its newline, read later, is an empty line. A torn one is left. *)
(***************************************************************************)
Size(lines) == 3 * Len(lines)

\* How many lines have their whole body within a size.
Bodies(size) == (size + 1) \div 3

\* Faulty: a resumed parse forgets the request it was in.
ReadWithNewTimer(p, lines, end) ==
    LET unread == SubSeq(lines, Bodies(p.offset) + 1, Bodies(end))
    IN  [FoldLeft(Consume, [p EXCEPT !.timer = NoTimer], unread) EXCEPT
            !.offset = IF end % 3 = 1 THEN end - 1 ELSE end]

ReadRollout(p, lines, end) ==
    LET unread == SubSeq(lines, Bodies(p.offset) + 1, Bodies(end))
    IN  [FoldLeft(Consume, p, unread) EXCEPT
            !.offset = IF end % 3 = 1 THEN end - 1 ELSE end]

\* What a rollout leaves open is filled in, its id from the name of the file.
Completed(p, name) ==
    LET id == IF p.id = NoId THEN name ELSE p.id
        start == IF p.rawStart # NoTime THEN p.rawStart ELSE p.rawCreated
    IN  [p EXCEPT !.id = id,
                  !.root = IF @ = NoId THEN id ELSE @,
                  !.resolved = ~p.agent,
                  !.start = start,
                  !.end = IF p.rawEnd # NoTime THEN p.rawEnd ELSE start,
                  !.created = IF p.rawCreated = NoTime THEN start ELSE p.rawCreated,
                  !.models = (@ \cup {p.rows[i].model : i \in DOMAIN p.rows} \cup {p.model})
                                 \ {NoName}]

\* Parsing on from an earlier result up to a size seen before the read.
ParseFile(base, name, lines, end) == Completed(ReadRollout(base, lines, end), name)
=============================================================================
