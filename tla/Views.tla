------------------------------- MODULE Views -------------------------------
(***************************************************************************)
(* What a publication says of its sessions (crates/usage-core/src/query.rs *)
(* and view.rs): sessions narrowed to a period or to models, their         *)
(* summaries, a view with its entries, filtered selections, project and    *)
(* task groups, and pages of them. A session is a record of                *)
(* Accounting!NormalizeSessions with uid, title and detailed; it is not    *)
(* detailed when an old export had its summary only. Texts are names, and  *)
(* a title is a number so that it can be ordered. The wire form of old     *)
(* exports, time zones and the order and length of breakdown lists are     *)
(* left out.                                                               *)
(***************************************************************************)
EXTENDS Accounting, Pages

CONSTANT DayLength
ASSUME DayAssumption == DayLength \in Nat \ {0}

Day(at) == at \div DayLength
Forever == [start |-> NoTime, end |-> NoTime]
Unknown == "unknown"
Named(name) == IF name = NoName THEN Unknown ELSE name

ModelOf(s, row) == IF row.model # NoName THEN row.model ELSE Named(s.model)

SessionsOf(entries) == Listed([i \in DOMAIN entries |-> entries[i].s])

(***************************************************************************)
(* A session narrowed to the events between two times of some models; no   *)
(* models means all. Always deltas are chosen, never cumulative counters.  *)
(***************************************************************************)
Within(at, start, end) == start <= at /\ (end = NoTime \/ at <= end)

Wanted(s, e, models) == models = {} \/ ModelOf(s, s.rows[e.row]) \in models

ChosenRows(s, kept, models) ==
    LET Row(e) == IF models = {} THEN s.rows[e.row]
                  ELSE [s.rows[e.row] EXCEPT !.model = ModelOf(s, s.rows[e.row])]
    IN  Cumulated([k \in DOMAIN kept |-> Row(kept[k])], [k \in DOMAIN kept |-> kept[k].delta])

\* A task belongs to the models of the last request before its end.
TasksIn(s, events, start, end, models) ==
    LET past(t) == {k \in DOMAIN events : events[k].at <= t.at}
        During(t) == models = {} \/ (past(t) # {} /\ Wanted(s, events[Max(past(t))], models))
    IN  SelectSeq(s.tasks, LAMBDA t : t.at # NoTime /\ Within(t.at, start, end) /\ During(t))

\* The session of some rows only, with what they say of it.
Ranged(ranged, rows, deltas, end) ==
    LET named == {rows[k].model : k \in DOMAIN rows} \ {NoName}
        priceAt == IF rows # <<>> THEN Last(rows).at ELSE end
    IN  [ranged EXCEPT
            !.models = IF named # {} THEN named
                       ELSE IF ranged.model # NoName THEN {ranged.model} ELSE @,
            !.speed = SpeedOf(rows, deltas),
            !.pricing = PriceEvents(rows, deltas, ranged.model, ranged.total,
                                    priceAt, ranged.tier),
            !.start = IF rows = <<>> THEN @ ELSE rows[1].at,
            !.end = IF rows = <<>> THEN @ ELSE Last(rows).at]

RangedTo(s, rows, end) == Ranged(FromRows(s, rows), rows, Deltas(rows), end)

ForEvents(s, events, start, end, models) ==
    LET kept == SelectSeq(events, LAMBDA e : Within(e.at, start, end) /\ Wanted(s, e, models))
    IN  RangedTo([s EXCEPT !.tasks = TasksIn(s, events, start, end, models)],
                 ChosenRows(s, kept, models), end)

ForPeriod(s, period) == ForEvents(s, Deltas(s.rows), period.start, period.end, {})

ForModels(s, models) == ForEvents(s, Deltas(s.rows), NoTime, NoTime, models)

\* Faulty: a period includes the first moment after it.
PeriodToMidnight(first, last, now) ==
    LET to == IF first <= last THEN last ELSE first
    IN  [start |-> (IF first <= last THEN first ELSE last) * DayLength,
         end |-> IF to >= Day(now) THEN now ELSE (to + 1) * DayLength]

\* Whole days; an interval the wrong way round is turned, and one that
\* reaches today ends now.
Period(first, last, now) ==
    LET from == IF first <= last THEN first ELSE last
        to == IF first <= last THEN last ELSE first
    IN  [start |-> from * DayLength,
         end |-> IF to >= Day(now) THEN now ELSE (to + 1) * DayLength - 1]

SingleDay(period) == period # Forever /\ Day(period.start) = Day(period.end)

(***************************************************************************)
(* Sums over sessions.                                                     *)
(***************************************************************************)
TotalOf(sessions) == UsageOf([i \in DOMAIN sessions |-> sessions[i].total])

GroupsBy(sessions, Key(_)) ==
    [key \in {Key(sessions[i]) : i \in DOMAIN sessions} |->
        LET group == SelectSeq(sessions, LAMBDA s : Key(s) = key)
        IN  [sessions |-> Len(group), usage |-> TotalOf(group)]]

Summarize(sessions) ==
    LET known == SelectSeq(sessions, LAMBDA s : s.pricing.cost # NoCost)
        Count(P(_)) == Len(SelectSeq(sessions, P))
    IN  [sessions |-> Len(sessions),
         mains |-> Count(LAMBDA s : ~s.agent), agents |-> Count(LAMBDA s : s.agent),
         active |-> Count(LAMBDA s : s.source = "active"),
         archived |-> Count(LAMBDA s : s.source = "archived"),
         usage |-> TotalOf(sessions),
         cost |-> SumOf([i \in DOMAIN known |-> known[i].pricing.cost]),
         priced |-> Len(known),
         ms |-> SumOf([i \in DOMAIN sessions |-> sessions[i].speed.ms]),
         byModel |-> GroupsBy(sessions, LAMBDA s : Named(s.model)),
         byProject |-> GroupsBy(sessions, LAMBDA s : Named(s.project)),
         byEnvironment |-> GroupsBy(sessions, LAMBDA s : s.env),
         byDay |-> GroupsBy(sessions, LAMBDA s : Day(IF s.end # NoTime THEN s.end ELSE s.start)),
         top |-> IF sessions = <<>> THEN NoId ELSE sessions[1].uid]

ByDay(charged) ==
    [day \in {Day(charged[k].at) : k \in DOMAIN charged} |->
        LET part == SelectSeq(charged, LAMBDA e : Day(e.at) = day)
        IN  UsageOf([k \in DOMAIN part |-> part[k].delta])]

ChargedEvents(s) == SelectSeq(Deltas(s.rows), LAMBDA e : e.delta["total"] > 0)

DailyUsage(sessions) ==
    ByDay(FlattenSeq([i \in DOMAIN sessions |-> ChargedEvents(sessions[i])]))

(***************************************************************************)
(* The entries of a view: each session that has usage in the period, with  *)
(* its usage by day (by hour if the period is one day) and by model.       *)
(***************************************************************************)
Bucket(period, at) == IF SingleDay(period) THEN (at - period.start) \div Hour ELSE Day(at)

\* Hours of a one-day period are shown even when nothing happened.
Hours(period) == IF SingleDay(period) THEN 0..((period.end - period.start) \div Hour) ELSE {}

AllKnown(costs) == IF \E i \in DOMAIN costs : costs[i] = NoCost THEN NoCost ELSE SumOf(costs)
SumKnown(costs) ==
    LET known == SelectSeq(costs, LAMBDA c : c # NoCost)
    IN  IF known = <<>> THEN NoCost ELSE SumOf(known)

\* Usage and cost by a key; a day without a price has no cost, a model keeps
\* what is known and says that it is not all.
ByKey(parts, keys) ==
    LET items == Listed(parts)
    IN  [key \in keys \cup {items[i].key : i \in DOMAIN items} |->
            LET part == SelectSeq(items, LAMBDA p : p.key = key)
                costs == [i \in DOMAIN part |-> part[i].cost]
            IN  [usage |-> UsageOf([i \in DOMAIN part |-> part[i].usage]),
                 sessions |-> SumOf([i \in DOMAIN part |-> part[i].sessions]),
                 cost |-> AllKnown(costs), known |-> SumKnown(costs),
                 complete |-> \A i \in DOMAIN part : part[i].complete]] @@ <<>>

CostOf(e, row, model) ==
    LET quote == Quote(model, row.at, AtLeast0(e.delta["input"]), row.tier)
    IN  IF quote = NoPrice THEN NoCost ELSE Cost(e.delta, quote.prices)

PartsBy(charged, costs, Key(_)) ==
    [k \in DOMAIN charged |->
        [key |-> Key(charged[k]), usage |-> charged[k].delta, cost |-> costs[k],
         sessions |-> 0, complete |-> costs[k] # NoCost]]

\* A session whose events do not tell all its usage is shown as one model's.
EntryOf(s, period, charged, costs, used) ==
    LET complete == UsageOf([k \in DOMAIN charged |-> charged[k].delta])["total"] = s.total["total"]
        whole == [key |-> IF Cardinality(s.models) > 1 THEN Unknown ELSE Named(s.model),
                  usage |-> s.total, cost |-> s.pricing.cost, sessions |-> 0,
                  complete |-> s.pricing.cost # NoCost]
    IN  [s |-> s, complete |-> complete,
         days |-> ByKey(PartsBy(charged, costs, LAMBDA e : Bucket(period, e.at)), {}),
         breakdown |-> ByKey(IF complete
                             THEN PartsBy(charged, costs, LAMBDA e : ModelOf(s, s.rows[e.row]))
                             ELSE <<whole>>, {}),
         usedAt |-> IF used = <<>> THEN NoTime ELSE Last(used).at]

Entry(s, period) ==
    LET charged == ChargedEvents(s)
    IN  EntryOf(s, period, charged,
                Listed([k \in DOMAIN charged |->
                    CostOf(charged[k], s.rows[charged[k].row],
                           ModelOf(s, s.rows[charged[k].row]))]),
                SelectSeq(Deltas(s.rows), LAMBDA e : HasTokens(e.delta)))

InPeriod(sessions, period) ==
    IF period = Forever THEN sessions
    ELSE LET detailed == SelectSeq(sessions, LAMBDA s : s.detailed)
             ranged == Listed([i \in DOMAIN detailed |-> ForPeriod(detailed[i], period)])
         IN  SelectSeq(ranged, LAMBDA s : s.rows # <<>> \/ s.total["total"] > 0)

ViewOf(revision, shown, period) ==
    [revision |-> <<revision, period>>, period |-> period,
     daily |-> DailyUsage(shown),
     entries |-> StableSort([i \in DOMAIN shown |-> Entry(shown[i], period)],
                     LAMBDA a, b : a.s.total["total"] > b.s.total["total"])]

View(revision, sessions, period) == ViewOf(revision, InPeriod(sessions, period), period)

(***************************************************************************)
(* A view of some models only. A summary without details is in it only if  *)
(* all of its usage is known to be of one of them. The list of models      *)
(* describes the conversation, not the selection.                          *)
(***************************************************************************)
OneOf(s, models) ==
    LET names == IF s.models = {} THEN {Named(s.model)} ELSE s.models
    IN  Cardinality(names) = 1 /\ names \subseteq models

Split(s) == s.detailed /\ Deltas(s.rows) # <<>>

\* The sessions of the models, each with the one it was narrowed from.
Narrow(shown, models) ==
    SelectSeq([i \in DOMAIN shown |->
                  [from |-> shown[i], split |-> Split(shown[i]),
                   s |-> IF Split(shown[i]) THEN ForModels(shown[i], models) ELSE shown[i]]],
              LAMBDA n : IF n.split THEN HasTokens(n.s.total) ELSE OneOf(n.from, models))

NarrowedTo(base, models, kept) ==
    LET Original(s) == kept[CHOOSE k \in DOMAIN kept : kept[k].s.uid = s.uid].from
    IN  [View(base.revision[1], [k \in DOMAIN kept |-> kept[k].s], base.period) EXCEPT
            !.revision = <<base.revision, models>>,
            !.entries = [i \in DOMAIN @ |->
                LET e == @[i] IN [e EXCEPT !.s.models = Original(e.s).models]]]

Narrowed(base, models) ==
    IF models = {} THEN base
    ELSE NarrowedTo(base, models, Narrow(SessionsOf(base.entries), models))

(***************************************************************************)
(* Selections: what a filter leaves of a view, in the order asked for.     *)
(***************************************************************************)
NoFilter == [search |-> NoName, models |-> {}, environments |-> {}, source |-> NoName,
             project |-> NoName, agents |-> "all", sort |-> "tokens", ascending |-> FALSE]

Words(s) == s.models \cup {s.model, s.project, s.source, s.env}

Matches(s, filter) ==
    /\ filter.search = NoName \/ filter.search \in Words(s)
    /\ filter.models = {} \/ (s.models \cup {s.model}) \cap filter.models # {}
    /\ filter.environments = {} \/ s.env \in filter.environments
    /\ filter.source = NoName \/ s.source = filter.source
    /\ filter.project = NoName \/ Named(s.project) = filter.project
    /\ filter.agents = "main" => ~s.agent
    /\ filter.agents = "agents" => s.agent

\* Whether a comes before b for some measure; ties keep their order.
Precedes(filter, a, b) == IF filter.ascending THEN a < b ELSE a > b

SortKey(e, sort) ==
    CASE sort = "cost"    -> e.s.pricing.cost
      [] sort = "updated" -> e.usedAt
      [] sort = "title"   -> e.s.title
      [] OTHER            -> e.s.total["total"]

Selected(view, filter) ==
    StableSort(Select(view.entries, LAMBDA e : Matches(e.s, filter)),
               LAMBDA a, b : Precedes(filter, SortKey(a, filter.sort), SortKey(b, filter.sort)))

Parts(entries, Of(_)) ==
    FlattenSeq([i \in DOMAIN entries |->
        SetToSeq({[key |-> key, usage |-> Of(entries[i])[key].usage, sessions |-> 1,
                   cost |-> Of(entries[i])[key].cost, complete |-> Of(entries[i])[key].complete]
                     : key \in DOMAIN Of(entries[i])})])

Summary(entries) == Summarize(SessionsOf(entries))
Breakdown(entries) == ByKey(Parts(entries, LAMBDA e : e.breakdown), {})
Trend(view, entries) ==
    [points |-> ByKey(Parts(entries, LAMBDA e : e.days), Hours(view.period)),
     complete |-> \A i \in DOMAIN entries : entries[i].complete]

(***************************************************************************)
(* Groups of a selection.                                                  *)
(***************************************************************************)
Grouped(entries, Key(_)) ==
    LET first == Distinct(entries, Key)
    IN  Listed([k \in DOMAIN first |->
            LET group == Select(entries, LAMBDA e : Key(e) = Key(first[k]))
                known == Select(group, LAMBDA e : e.s.pricing.cost # NoCost)
            IN  [key |-> Key(first[k]), entries |-> group,
                 usage |-> TotalOf([i \in DOMAIN group |-> group[i].s]),
                 cost |-> SumOf([i \in DOMAIN known |-> known[i].s.pricing.cost]),
                 priced |-> Len(known),
                 usedAt |-> Max({group[i].usedAt : i \in DOMAIN group})]])

GroupKey(group, sort, title) ==
    CASE sort = "cost"    -> group.cost
      [] sort = "updated" -> group.usedAt
      [] sort = "title"   -> title
      [] OTHER            -> group.usage["total"]

Projects(view, filter) ==
    LET groups == Grouped(Selected(view, filter), LAMBDA e : Named(e.s.project))
    IN  StableSort(groups, LAMBDA a, b : Precedes(filter,
            GroupKey(a, filter.sort, a.entries[1].s.title),
            GroupKey(b, filter.sort, b.entries[1].s.title)))

\* Faulty: every session is a task of its own.
TasksOfSessions(view, filter, project) ==
    Grouped(Selected(view, [filter EXCEPT !.project = project]), LAMBDA e : <<e.s.env, e.s.id>>)

\* The tasks of a project: a main session and its sub-agents. A task with an
\* unknown price counts as free when tasks are ordered by cost.
Tasks(view, filter, project) ==
    LET narrowed == [filter EXCEPT !.project = project]
        groups == Grouped(Selected(view, narrowed), LAMBDA e : <<e.s.env, e.s.root>>)
        Title(g) == LET mains == Select(g.entries, LAMBDA e : ~e.s.agent)
                    IN  (IF mains = <<>> THEN g.entries[1] ELSE mains[1]).s.title
        Priced(g) == [g EXCEPT !.cost = IF g.priced = Len(g.entries) THEN @ ELSE 0]
    IN  StableSort(groups, LAMBDA a, b : Precedes(filter,
            GroupKey(Priced(a), filter.sort, Title(a)), GroupKey(Priced(b), filter.sort, Title(b))))

(***************************************************************************)
(* Queries: a page of a selection, of groups or of a session's events.     *)
(***************************************************************************)
QuerySessions(view, filter, cursor, limit) ==
    LET entries == Selected(view, filter)
    IN  Page(view, <<"sessions", filter>>, entries, Summary(entries), cursor, limit)

QueryProjects(view, filter, cursor, limit) ==
    Page(view, <<"projects", filter>>, Projects(view, filter),
         Summary(Selected(view, filter)), cursor, limit)

QueryTasks(view, filter, project, cursor, limit) ==
    Page(view, <<"tasks", filter, project>>, Tasks(view, filter, project),
         Summary(Selected(view, [filter EXCEPT !.project = project])), cursor, limit)

\* The events of one session, newest first, those without a time last.
QueryEvents(view, uid, cursor, limit) ==
    LET shown == {i \in DOMAIN view.entries : view.entries[i].s.uid = uid}
        s == view.entries[Max(shown)].s
    IN  IF shown = {} THEN Fault("missing")
        ELSE IF ~s.detailed THEN Fault("details missing")
        ELSE Page(view, <<"events", uid>>,
                  StableSort(s.rows, LAMBDA a, b : a.at > b.at), NoName, cursor, limit)
=============================================================================
