------------------------------- MODULE Ledger -------------------------------
(***************************************************************************)
(* From what Codex does to what the dashboard says of it. Codex is the     *)
(* environment: it makes requests, logs their cumulative counters, repeats *)
(* a count, goes back to a checkpoint, resumes a session in another file,  *)
(* forks a session or spawns a sub-agent with or without a copy of the     *)
(* history, and changes the model and the tier. The program's part is      *)
(* sessions: what a refresh after the step publishes, through Rollout,     *)
(* Accounting and Pricing; earlier is what was published before the step.  *)
(* truth is what really happened: every request, with what it used.        *)
(***************************************************************************)
EXTENDS Snapshots

CONSTANTS
    Main, Child, Ghost, \* sessions; Ghost has no file
    Models, Tiers,      \* what a session can be switched to
    Shapes,             \* Seq: the kinds of lines the n-th request writes
    Amount(_),          \* what the n-th request uses; 0 is the Ghost's
    Took,               \* Seq: how long its answer really took
    MaxFiles,           \* rollout files
    MaxChanges,         \* switches, repeated counts and resumptions
    Charge(_)           \* what a request of truth costs, stated on its own

ASSUME NamesAssumption == NoId \notin {Main, Child, Ghost}
ASSUME ShapesAssumption ==
    /\ Shapes \in Seq(Seq(STRING)) /\ Shapes # <<>>
    /\ \A n \in 1..Len(Shapes) : \E k \in 1..Len(Shapes[n]) : Shapes[n][k] = "count"
ASSUME AmountsAssumption == \A n \in 0..Len(Shapes) : Amount(n) \in [Fields -> Nat]

VARIABLES clock, files, live, truth, log, changes, sessions, earlier

vars == <<clock, files, live, truth, log, changes, sessions, earlier>>

Env == "local"
Here == "here"      \* this device, and the one that imports its snapshot
There == "there"

(***************************************************************************)
(* What a refresh publishes.                                               *)
(***************************************************************************)
Parsed(file) ==
    [ParseFile(NewParse, file.path, file.lines, Size(file.lines)) EXCEPT
        !.env = Env, !.path = file.path, !.source = "active", !.uid = <<Env, file.path>>]

WithTiers(file, switches) == ApplyRuntimeTiers(file, SelectSeq(switches, LAMBDA t : t.id = file.id))

Publish(fs, switches) ==
    NormalizeSessions([i \in DOMAIN fs |-> WithTiers(Parsed(fs[i]), switches)])

(***************************************************************************)
(* Lines.                                                                  *)
(***************************************************************************)
Blank == [kind |-> "other", at |-> NoTime, model |-> NoName, tier |-> NoName,
          project |-> NoName, turn |-> NoId, id |-> NoId, root |-> NoId, parent |-> NoId,
          fork |-> NoId, agent |-> FALSE, created |-> NoTime, total |-> Zero, last |-> Zero,
          started |-> NoTime, ms |-> 0]

Line(kind, at) == [Blank EXCEPT !.kind = kind, !.at = at]
MetaLine(id, at) == [Line("meta", at) EXCEPT !.id = id, !.created = at]

\* The lines of a request, one Step after another.
Step == 3
RequestLines(shape, model, total, last, now) ==
    LET At(k) == now + 1 + (k - 1) * Step
        Of1(k) == [Line(shape[k], At(k)) EXCEPT
                     !.model = IF shape[k] = "context" THEN model ELSE NoName,
                     !.total = IF shape[k] = "count" THEN total ELSE Zero,
                     !.last = IF shape[k] \in {"count", "record"} THEN last ELSE Zero,
                     !.started = IF shape[k] = "item" THEN At(k - 1) ELSE NoTime,
                     !.ms = IF shape[k] = "task" THEN At(k) - At(1) ELSE 0]
    IN  [k \in DOMAIN shape |-> Of1(k)]

\* The n-th request as it really was.
Truth(n, s, who, total, lines) ==
    LET counted == lines[CHOOSE k \in DOMAIN lines : lines[k].kind = "count"].at
    IN  [id |-> s, usage |-> Amount(n), counter |-> total, model |-> who.model,
         tier |-> who.tier, at |-> counted, ms |-> Took[n]]

(***************************************************************************)
(* Actions of Codex. Every one takes time. A run begins after the first    *)
(* request of the main session.                                            *)
(***************************************************************************)
Init ==
    LET who == [file |-> 1, counter |-> Amount(1), model |-> CHOOSE m \in Models : TRUE,
                tier |-> NoName, known |-> TRUE, again |-> Zero]
        lines == RequestLines(Shapes[1], who.model, Amount(1), Amount(1), 1)
    IN  /\ clock = Last(lines).at + 1
        /\ files = <<[path |-> 1, id |-> Main, lines |-> <<MetaLine(Main, 1)>> \o lines]>>
        /\ live = [s \in {Main} |-> who]
        /\ truth = <<Truth(1, Main, who, Amount(1), lines)>>
        /\ log = <<>>
        /\ changes = 0
        /\ sessions = Publish(files, log)
        /\ earlier = <<>>

Publishing == sessions' = Publish(files', log') /\ earlier' = sessions
Append1(file, lines) == files' = [files EXCEPT ![file].lines = @ \o lines]

\* A bound: a switch, repetition or resumption takes the place of a request.
Room == Len(truth) + changes < Len(Shapes)

\* Earlier counters of a session, and none.
Checkpoints(s) ==
    {Zero} \cup {truth[k].counter : k \in {j \in DOMAIN truth : truth[j].id = s}}

\* A request that starts from the counter, or from an earlier one. The code
\* cannot tell a checkpoint if the request makes up for what it took back.
\* In a child it takes the checkpoint itself for new usage, again.
Request(s) ==
    \E base \in {live[s].counter} \cup Checkpoints(s) :
        LET n == Len(truth) + 1
            total == Plus(base, Amount(n))
            lines == RequestLines(Shapes[n], live[s].model, total, Amount(n), clock)
            back == base # live[s].counter
        IN  /\ n <= Len(Shapes) /\ Room
            /\ back => total["total"] < live[s].counter["total"]
            /\ clock' = Last(lines).at + 1
            /\ Append1(live[s].file, lines)
            /\ live' = [live EXCEPT ![s].counter = total,
                                    ![s].again = IF back /\ s # Main THEN Plus(@, base) ELSE @]
            /\ truth' = Append(truth, Truth(n, s, live[s], total, lines))
            /\ UNCHANGED <<log, changes>>
            /\ Publishing

Change == changes < MaxChanges /\ Room /\ changes' = changes + 1 /\ clock' = clock + 2

\* The same count once more, without a request.
Repeat(s) ==
    LET lines == files[live[s].file].lines
    IN  /\ Change
        /\ Last(lines).kind = "count"
        /\ Append1(live[s].file, <<[Last(lines) EXCEPT !.at = clock + 1]>>)
        /\ UNCHANGED <<live, truth, log>>
        /\ Publishing

\* The rollouts tell the tier, or only the log does.
InRollout == \E i \in DOMAIN files : \E k \in DOMAIN files[i].lines :
                 files[i].lines[k].tier # NoName

\* The session goes on in another file, which begins with a copy or, if tiers
\* are told by rollouts, says which one goes on.
Resume(s) ==
    /\ Change
    /\ Len(files) < MaxFiles
    /\ LET old == files[live[s].file].lines
           meta == [Head(old) EXCEPT !.at = clock + 1,
                                     !.tier = IF InRollout THEN live[s].tier ELSE NoName]
       IN  \E lines \in {<<meta>>, old} :
               files' = Append(files, [path |-> Len(files) + 1, id |-> s, lines |-> lines])
    /\ live' = [live EXCEPT ![s].file = Len(files')]
    /\ UNCHANGED <<truth, log>>
    /\ Publishing

SwitchModel(s) ==
    /\ Change
    /\ \E model \in Models \ {live[s].model} : live' = [live EXCEPT ![s].model = model]
    /\ UNCHANGED <<files, truth, log>>
    /\ Publishing

SwitchTier(s) ==
    /\ Change
    /\ \E tier \in Tiers \ {live[s].tier} :
           /\ live' = [live EXCEPT ![s].tier = tier]
           /\ \/ /\ log = <<>>
                 /\ Append1(live[s].file, <<[Line("settings", clock + 1) EXCEPT !.tier = tier]>>)
                 /\ UNCHANGED log
              \/ /\ ~InRollout
                 /\ log' = Append(log, [id |-> s, at |-> clock + 1, tier |-> tier])
                 /\ UNCHANGED files
    /\ UNCHANGED <<truth>>
    /\ Publishing

(***************************************************************************)
(* A child, with a copy of its parent's file, of its last turn or of none.  *)
(* Copies keep their timestamps or, when old rollouts were migrated, get   *)
(* new ones. A child with no count of its parent counts from zero; only a  *)
(* fork may go on counting. Its tier is its parent's until it sets one.    *)
(***************************************************************************)
Copies(lines) ==
    LET turns == {k \in DOMAIN lines : lines[k].kind = "context"}
    IN  {lines, <<>>} \cup {SubSeq(lines, k, Len(lines)) : k \in {Max(turns \cup {1})}}

HasCount(lines) == \E k \in DOMAIN lines : lines[k].kind = "count"

Begin(meta, copied, counter, known) ==
    /\ Child \notin DOMAIN live
    /\ Len(files) < MaxFiles
    /\ files' = Append(files, [path |-> Len(files) + 1, id |-> Child, lines |-> <<meta>> \o copied])
    /\ LET child == [live[Main] EXCEPT !.file = Len(files'), !.counter = counter,
                                       !.known = known]
       IN  live' = [s \in DOMAIN live \cup {Child} |-> IF s = Child THEN child ELSE live[s]]
    /\ clock' = clock + 2
    /\ UNCHANGED <<truth, log, changes>>
    /\ Publishing

Spawn ==
    \E copy \in Copies(files[live[Main].file].lines), rewritten \in BOOLEAN :
        LET at == clock + 1
            copied == [k \in DOMAIN copy |-> IF rewritten THEN [copy[k] EXCEPT !.at = at] ELSE copy[k]]
        IN  Begin([MetaLine(Child, at) EXCEPT !.parent = Main, !.root = Main, !.agent = TRUE], copied,
                  IF HasCount(copy) THEN live[Main].counter ELSE Zero, TRUE)

Fork ==
    \E copy \in Copies(files[live[Main].file].lines), rewritten, anew \in BOOLEAN :
        LET at == clock + 1
            copied == [k \in DOMAIN copy |-> IF rewritten THEN [copy[k] EXCEPT !.at = at] ELSE copy[k]]
        IN  /\ anew => ~HasCount(copy)
            /\ Begin([MetaLine(Child, at) EXCEPT !.fork = Main], copied,
                     IF anew THEN Zero ELSE live[Main].counter, TRUE)

\* A fork of a session that has no file here, and whose counter goes on.
ForkOfGhost ==
    Begin([MetaLine(Child, clock + 1) EXCEPT !.fork = Ghost], <<>>, Amount(0), FALSE)

Next == \/ \E s \in DOMAIN live : Request(s) \/ Repeat(s) \/ Resume(s)
                                    \/ SwitchModel(s) \/ SwitchTier(s)
        \/ Spawn \/ Fork \/ ForkOfGhost

Spec == Init /\ [][Next]_vars

(***************************************************************************)
(* Properties.                                                             *)
(***************************************************************************)
Shown(s) == LET at == CHOOSE i \in DOMAIN sessions : sessions[i].id = s IN sessions[at]
Requests(s) == SelectSeq(truth, LAMBDA r : r.id = s)
Spent(s) == LET own == Requests(s) IN UsageOf([k \in DOMAIN own |-> own[k].usage])
Charged(requests) ==
    LET charges == [k \in DOMAIN requests |-> Charge(requests[k])]
    IN  IF \E k \in DOMAIN charges : charges[k] = NoCost THEN NoCost ELSE SumOf(charges)

\* Every request is counted in its session, once, whatever files it was
\* logged or copied into; a fork of an unknown session counts nothing rather
\* than the history it cannot tell from its own. Only a child that went back to
\* a checkpoint is charged that checkpoint again (normalize.rs, usage.rs).
CountedOnce ==
    /\ Len(sessions) = Cardinality(DOMAIN live)
    /\ \A s \in DOMAIN live :
           Shown(s).total = IF live[s].known THEN Plus(Spent(s), live[s].again) ELSE Zero

\* The cost of a session is what its own requests cost at their own times,
\* for the model and the tier they were made with, wherever the tier was
\* logged or inherited from (pricing.rs, normalize.rs).
CostAsSpent ==
    \A s \in DOMAIN live :
        Requests(s) # <<>> /\ live[s].known /\ live[s].again = Zero => Shown(s).pricing.cost = Charged(Requests(s))

Onward(requests) ==
    \A k \in 2..Len(requests) : requests[k].counter["total"] > requests[k - 1].counter["total"]

\* A speed is measured on requests of the session itself and only while they
\* were answered, without the time of tools: copies, repeated counts and
\* resumed files add nothing, and no request is left out unless the counter
\* went back (speed.rs, parser.rs).
SpeedAsMeasured ==
    \A s \in DOMAIN live :
        LET own == Requests(s)
            speed == Shown(s).speed
            real == [output |-> Spent(s)["output"], requests |-> Len(own),
                     ms |-> SumOf([k \in DOMAIN own |-> own[k].ms])]
        IN  /\ speed.requests <= real.requests
            /\ speed.output <= real.output
            /\ speed.ms <= real.ms
            /\ live[s].known /\ Onward(own) => speed = real

\* A parse that stopped anywhere in the lines of the last request, even
\* within a line, and goes on from what was saved gives what a parse of the
\* whole file gives (reader.rs, parser.rs). Every file is looked at when it has
\* just been written.
ResumedAsFresh ==
    \A s \in DOMAIN live :
        LET file == files[live[s].file]
            whole == ParseFile(NewParse, file.path, file.lines, Size(file.lines))
            written == Last(file.lines).at = clock - 1
        IN  written => \A cut \in AtLeast0(Size(file.lines) - 9)..Size(file.lines) :
                ParseFile(ParseFile(NewParse, file.path, file.lines, cut),
                          file.path, file.lines, Size(file.lines)) = whole

AsShown(alone) == \A k \in DOMAIN alone : alone[k] = Shown(alone[k].id)

EachSuffices(raw) ==
    \A part \in DependencyComponents(raw) :
        AsShown(NormalizeSessions(SelectSeq(raw, LAMBDA f : \E i \in part : raw[i].path = f.path)))

\* Files of different components never need each other: the index normalises
\* and caches each component on its own (normalize.rs, index.rs).
ComponentsSuffice == EachSuffices([i \in DOMAIN files |-> WithTiers(Parsed(files[i]), log)])

Days == {Period(day, day, clock) : day \in 0..Day(clock)}
CostOfAll(list) == IF \E i \in DOMAIN list : list[i].pricing.cost = NoCost THEN NoCost
                   ELSE SumOf([i \in DOMAIN list |-> list[i].pricing.cost])
SumOver(S, F(_)) == FoldSet(LAMBDA x, sum : Plus(F(x), sum), Zero, S)

SlicesOf(whole, total, of, models, points) ==
    /\ SumOver(DOMAIN of, LAMBDA d : TotalOf(of[d])) = total
    /\ SumOver(DOMAIN whole.daily, LAMBDA d : whole.daily[d]) = total
    /\ SumOver(DOMAIN models, LAMBDA m : models[m].usage) = total
    /\ SumOver(DOMAIN points, LAMBDA d : points[d].usage) = total
    /\ SumOver(DOMAIN models, LAMBDA m :
           TotalOf(SessionsOf(Narrowed(whole, {m}).entries))) = total
    /\ CostOfAll(sessions) # NoCost =>
           FoldSet(LAMBDA d, sum : CostOfAll(of[d]) + sum, 0, DOMAIN of) = CostOfAll(sessions)

SlicesOfView(whole) ==
    SlicesOf(whole, TotalOf(sessions), [d \in Days |-> InPeriod(sessions, d)] @@ <<>>,
             Breakdown(whole.entries), Trend(whole, whole.entries).points)

\* Days, models, daily usage, breakdowns and trends each divide the whole:
\* what the program shows of parts adds up to what it shows of all.
SlicesAddUp == SlicesOfView(View(1, sessions, Forever))

SnapshotOf(list) == [valid |-> TRUE, newer |-> FALSE, device |-> Here, label |-> Here,
                     at |-> clock, sessions |-> list]

\* A device that imports a snapshot shows what this device shows: the same
\* usage, cost and models for every session. It does not matter that an older
\* snapshot was imported before, and importing again changes nothing, nor does
\* importing one's own snapshot by mistake. The name the user gave the device
\* outlives another import, and forgetting the device leaves nothing behind.
RemoteAsLocal ==
    LET Take(stored, snapshot) == ImportSnapshot(stored, snapshot, Here, FALSE, There)
        before == IF earlier = <<>> THEN <<>> ELSE Take(<<>>, SnapshotOf(earlier)).stored
        now == SnapshotOf(sessions)
        taken == Take(before, now)
        remote == RemoteSessions(taken.stored, Here)
        renamed == Rename(taken.stored, Here, There)
    IN  /\ taken.result.ok
        /\ Len(remote) = Len(sessions)
        /\ \A i \in DOMAIN remote :
               LET own == Shown(remote[i].id)
               IN  /\ remote[i].total = own.total
                   /\ remote[i].models = own.models
                   /\ remote[i].pricing.cost = own.pricing.cost
        /\ Take(taken.stored, now).stored = taken.stored
        /\ ImportSnapshot(before, now, Here, FALSE, Here).stored = before
        /\ ImportSnapshot(renamed.stored, now, NoName, FALSE, There).stored = renamed.stored
        /\ RemoteSessions(Delete(renamed.stored, Here).stored, Here) = <<>>

GroupUsage(groups) == UsageOf([k \in DOMAIN groups |-> groups[k].usage])
In(group, s) == \E i \in DOMAIN group.entries : group.entries[i].s.id = s

Gathered(tasks) ==
    /\ GroupUsage(tasks) = TotalOf(sessions)
    /\ \E k \in DOMAIN tasks :
           /\ In(tasks[k], Main)
           /\ \A j \in DOMAIN tasks \ {k} : ~In(tasks[j], Main)
           /\ \A i \in DOMAIN sessions : sessions[i].agent => In(tasks[k], sessions[i].id)

GroupsOf(view) ==
    /\ \A sort \in {"tokens", "cost", "updated"} :
           /\ GroupUsage(Projects(view, [NoFilter EXCEPT !.sort = sort])) = TotalOf(sessions)
           /\ Gathered(Tasks(view, [NoFilter EXCEPT !.sort = sort], Unknown))
    /\ FoldSet(LAMBDA agents, sum : Plus(sum, TotalOf(SessionsOf(
                    Selected(view, [NoFilter EXCEPT !.agents = agents])))),
               Zero, {"main", "agents"}) = TotalOf(sessions)

\* Project and task groups, and main sessions and sub-agents, divide what is
\* selected, and a task gathers a main session with its sub-agents, however it
\* is sorted (view.rs).
GroupsAddUp == GroupsOf(View(1, sessions, Forever))

Walks(Query(_, _), items, limit) ==
    LET last == IF items = <<>> THEN 1 ELSE 1 + (Len(items) - 1) \div limit
        Visit[n \in 1..last] ==
            IF n = 1 THEN Query(NoCursor, limit) ELSE Query(Visit[n - 1].next, limit)
        page == Listed([n \in 1..last |-> Visit[n]])
        Anchored(offset) == Query(AnchorCursor(page[1], offset), limit)
    IN  /\ FlattenSeq([n \in 1..last |-> page[n].items]) = items
        /\ page[last].next = NoCursor
        /\ \A n \in 2..last :
               /\ Query(page[n].previous, limit) = page[n - 1]
               /\ Query(page[n].previous, limit + 1) = Fault("invalid")
               /\ Query([page[n].previous EXCEPT !.revision = <<>>], limit) = Fault("stale")
        /\ last > 1 => \A offset \in 0..Len(items) :
               LET found == Anchored(offset)
               IN  /\ ~IsFault(found)
                   /\ found.offset <= offset
                   /\ offset < Len(items) => offset < found.offset + limit

PagesOf(view) ==
    /\ Walks(LAMBDA c, n : QuerySessions(view, NoFilter, c, n), Selected(view, NoFilter), 1)
    /\ Walks(LAMBDA c, n : QueryProjects(view, NoFilter, c, n), Projects(view, NoFilter), 1)
    /\ Walks(LAMBDA c, n : QueryTasks(view, NoFilter, Unknown, c, n),
             Tasks(view, NoFilter, Unknown), 1)
    /\ \A i \in DOMAIN sessions :
           Walks(LAMBDA c, n : QueryEvents(view, sessions[i].uid, c, n),
                 StableSort(sessions[i].rows, LAMBDA a, b : a.at > b.at), 2)

\* Following the next cursor from the first page shows every item once and in
\* order, the previous cursor leads back, a cursor of another view or page
\* size is refused, and an anchored cursor finds the old place (view.rs).
PagesTile == PagesOf(View(1, sessions, Forever))
=============================================================================
