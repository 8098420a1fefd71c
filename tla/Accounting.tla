----------------------------- MODULE Accounting -----------------------------
(***************************************************************************)
(* From parsed files to sessions (crates/usage-core/src/normalize.rs).     *)
(* A conversation may be spread over several files, and the rollout of a   *)
(* fork or a sub-agent may begin with the history of its parent. Files of  *)
(* one session are merged, inherited history is removed, and cumulative    *)
(* counters become what each request added. A file is a record of          *)
(* Rollout!ParseFile with env, path and source.                            *)
(***************************************************************************)
EXTENDS Pricing

Identity(file) == <<file.env, file.id>>
ParentKey(file) == <<file.env, IF file.fork # NoId THEN file.fork ELSE file.parent>>

\* The items of s whose key no earlier item has.
Distinct(s, Key(_)) ==
    LET keys == Listed([i \in DOMAIN s |-> Key(s[i])])
    IN  Picked(s, {i \in DOMAIN s : \A j \in 1..i - 1 : keys[j] # keys[i]})

\* No time sorts last.
Before(a, b) == a # NoTime /\ (b = NoTime \/ a < b)
ByTime(s) == StableSort(s, LAMBDA a, b : Before(a.at, b.at))

NormalizeTiers(tiers) ==
    ByTime(Distinct(SelectSeq(tiers, LAMBDA t : t.at # NoTime /\ t.tier # NoName),
                    LAMBDA t : <<t.at, t.tier>>))

\* The last tier set at or before a time; NoName if none was.
TierSet(tiers, at) ==
    LET set == {i \in DOMAIN tiers : at # NoTime /\ tiers[i].at <= at}
    IN  IF set = {} THEN NoName ELSE tiers[Max(set)].tier

(***************************************************************************)
(* Tier changes that only Codex's own log knows. The scan goes through the *)
(* rows and the changes side by side, so a row sees every change a row     *)
(* before it has seen.                                                     *)
(***************************************************************************)
ApplyRuntimeTiers(file, events) ==
    LET combined == NormalizeTiers(events \o file.tiers)
        Reached(k) == Max({file.rows[j].at : j \in 1..k})
        Tier(k) == LET active == TierSet(combined, Reached(k))
                   IN  IF active = NoName THEN file.rows[k].tier ELSE active
        rows == [k \in DOMAIN file.rows |-> [file.rows[k] EXCEPT !.tier = Tier(k)]]
    IN  IF events = <<>> THEN file
        ELSE [file EXCEPT !.rows = rows, !.tiers = combined,
                          !.tier = IF rows = <<>> THEN @ ELSE Last(rows).tier]

(***************************************************************************)
(* Files that have to be normalised together: those of one session, and    *)
(* those of a session and of its parent.                                   *)
(***************************************************************************)
\* Faulty: a child may be normalised without its parent.
LinkedByIdentity(f, g) == Identity(f) = Identity(g)

Linked(f, g) == \/ Identity(f) = Identity(g)
                \/ ParentKey(f) = Identity(g)
                \/ ParentKey(g) = Identity(f)

Component(files, i) ==
    LET Reach[n \in 0..Len(files)] ==
            IF n = 0 THEN {i}
            ELSE Reach[n - 1] \cup {j \in DOMAIN files :
                                        \E k \in Reach[n - 1] : Linked(files[j], files[k])}
    IN  Reach[Len(files)]

DependencyComponents(files) == {Component(files, i) : i \in DOMAIN files}

(***************************************************************************)
(* Merging the files of one session.                                       *)
(***************************************************************************)
Moment(file) ==
    LET timed == Select(file.rows, LAMBDA r : r.at # NoTime)
        known == Select(<<file.created, file.start, file.end>>, LAMBDA t : t # NoTime)
    IN  IF timed # <<>> THEN Head(timed).at
        ELSE IF known # <<>> THEN Head(known) ELSE NoTime

MergedRows(files) ==
    ByTime(Distinct(FlattenSeq([i \in DOMAIN files |-> files[i].rows]),
                    LAMBDA r : <<r.at, r.model, r.tier, r.total, r.last>>))

\* The latest file gives what may change, the earliest what may not.
MergeFiles(files, rows) ==
    LET latest == Last(files)
        All(Of(_)) == FlattenSeq([i \in DOMAIN files |-> Of(files[i])])
        Either(own, ofRow) == IF rows = <<>> \/ ofRow = NoName THEN own ELSE ofRow
        lastRow == IF rows = <<>> THEN [model |-> NoName, tier |-> NoName] ELSE Last(rows)
        model == Either(latest.model, lastRow.model)
        Extreme(Of(_), Pick(_, _)) == FoldLeft(LAMBDA a, f : Pick(a, Of(f)), Of(files[1]), files)
    IN  IF Len(files) = 1 THEN files[1]
        ELSE [files[1] EXCEPT
                !.path = latest.path, !.project = latest.project,
                !.source = IF \E i \in DOMAIN files : files[i].source = "active"
                           THEN "active" ELSE latest.source,
                !.created = Extreme(LAMBDA f : f.created, Earliest),
                !.start = Extreme(LAMBDA f : f.start, Earliest),
                !.end = Extreme(LAMBDA f : f.end, Later),
                !.rows = rows,
                !.tasks = ByTime(Distinct(All(LAMBDA f : f.tasks),
                              LAMBDA t : <<t.at, t.turn, t.ms>>)),
                !.tiers = NormalizeTiers(All(LAMBDA f : f.tiers)),
                !.turns = UNION {files[i].turns : i \in DOMAIN files},
                !.model = model,
                !.models = (UNION {files[i].models : i \in DOMAIN files}
                            \cup {rows[i].model : i \in DOMAIN rows} \cup {latest.model})
                                \ {NoName},
                !.tier = Either(latest.tier, lastRow.tier),
                !.total = IF rows = <<>> THEN @ ELSE Last(rows).total,
                !.last = IF rows = <<>> THEN @ ELSE Last(rows).last]

MergeOldest(files) == MergeFiles(files, MergedRows(files))
MergeGroup(group) ==
    MergeOldest(StableSort(group, LAMBDA f, g :
                    \/ Before(Moment(f), Moment(g))
                    \/ Moment(f) = Moment(g) /\ f.path < g.path))

\* One entry for each identity, in the order the identities are first met.
Merge(files) ==
    LET first == Distinct(files, Identity)
    IN  Listed([k \in DOMAIN first |->
            MergeGroup(Select(files, LAMBDA f : Identity(f) = Identity(first[k])))])

(***************************************************************************)
(* Speed and price of a session from what its requests added.              *)
(***************************************************************************)
SpeedOf(rows, events) ==
    LET Ms(e) == LET row == rows[e.row]
                 IN  IF row.generation # NoMs
                     THEN IF row.generation \in Tenth..Hour THEN row.generation ELSE NoMs
                     ELSE IF row.request \in Second..Hour THEN row.request ELSE NoMs
        sampled == SelectSeq(events, LAMBDA e : e.delta["output"] > 0 /\ Ms(e) # NoMs)
    IN  [output |-> SumOf([i \in DOMAIN sampled |-> sampled[i].delta["output"]]),
         ms |-> SumOf([i \in DOMAIN sampled |-> Ms(sampled[i])]),
         requests |-> Len(sampled)]

\* Rows that are normalised already carry their deltas.
Carried(rows) ==
    LET timed == SelectSeq([i \in DOMAIN rows |-> i], LAMBDA i : rows[i].at # NoTime)
    IN  Listed([k \in DOMAIN timed |-> [row |-> timed[k], at |-> rows[timed[k]].at,
                                        delta |-> rows[timed[k]].last]])

Repriced(file, events) ==
    LET at == IF file.rows # <<>> /\ Last(file.rows).at # NoTime
              THEN Last(file.rows).at ELSE file.end
    IN  [file EXCEPT
            !.speed = SpeedOf(file.rows, events),
            !.pricing = PriceEvents(file.rows, events, file.model, file.total, at, file.tier)]

Reprice(file, normalized) ==
    Repriced(file, IF normalized /\ \A i \in DOMAIN file.rows, f \in Fields :
                                        file.rows[i].last[f] >= 0
                   THEN Carried(file.rows) ELSE Deltas(file.rows))

\* Rows whose totals are the sums of the deltas so far.
Cumulated(rows, deltas) ==
    Listed([k \in DOMAIN rows |->
        [rows[k] EXCEPT !.last = deltas[k], !.total = UsageOf(SubSeq(deltas, 1, k))]])

\* Totals, model and tier of a session from its rows.
FromRows(file, rows) ==
    LET last == Last(rows)
    IN  IF rows = <<>>
        THEN [file EXCEPT !.rows = rows, !.total = Zero, !.last = Zero]
        ELSE [file EXCEPT !.rows = rows, !.total = last.total, !.last = last.last,
                          !.model = IF last.model = NoName THEN @ ELSE last.model,
                          !.tier = IF last.tier = NoName THEN @ ELSE last.tier]

IsChild(file) == file.agent \/ file.fork # NoId

\* The rows of some events, with what each of them added.
RowsOf(rows, events) ==
    Cumulated([k \in DOMAIN events |-> rows[events[k].row]],
              [k \in DOMAIN events |-> events[k].delta])

WithModels(main) ==
    [main EXCEPT !.models = (@ \cup {main.rows[i].model : i \in DOMAIN main.rows}
                             \cup {main.model}) \ {NoName}]

NormalizeMain(file) ==
    Reprice(IF file.rows = <<>> THEN file
            ELSE WithModels(FromRows(file, RowsOf(file.rows, Deltas(file.rows)))),
            file.rows # <<>>)

(***************************************************************************)
(* What a child inherited. The child's first rows are looked for anywhere  *)
(* in the parent's rows up to the fork, the longest match wins; timestamps *)
(* do not count, for a migration of old rollouts rewrites them.            *)
(***************************************************************************)
SameUsage(a, b) == a.total = b.total /\ a.last = b.last

\* Faulty: only a history copied from its beginning is found.
InheritedFromTheStart(child, parent) ==
    Max({n \in 0..Min({Len(child), Len(parent)}) : \A i \in 1..n : SameUsage(child[i], parent[i])})

InheritedPrefix(child, parent) ==
    Max({n \in 0..Len(child) :
            n = 0 \/ \E j \in 0..Len(parent) - n :
                         \A i \in 1..n : SameUsage(child[i], parent[j + i])})

WithIdentity(files, key) == {i \in DOMAIN files : Identity(files[i]) = key}

\* Faulty: a child runs at its parent's tier of today.
LatestTier(files, i, at) == files[i].tier

\* The tier of session i at a time; one that never set a tier runs at the
\* tier its parent had when it was created, and so on upwards.
TierAt(files, i, at) ==
    LET OwnTiers(f) == NormalizeTiers(f.tiers \o [k \in DOMAIN f.rows |->
                        [at |-> f.rows[k].at, tier |-> f.rows[k].tier]])
        Up[n \in 0..Len(files)] ==
            LET before == Up[n - 1]
                file == files[before.i]
                tier == TierSet(OwnTiers(file), before.at)
                parents == WithIdentity(files, ParentKey(file))
            IN  IF n = 0 THEN [i |-> i, at |-> at, tier |-> NoName, done |-> at = NoTime]
                ELSE IF before.done THEN before
                ELSE IF tier # NoName \/ parents = {}
                     THEN [before EXCEPT !.tier = tier, !.done = TRUE]
                ELSE [before EXCEPT !.i = CHOOSE p \in parents : TRUE,
                                    !.at = IF file.created = NoTime THEN @ ELSE file.created]
    IN  Up[Len(files)].tier

Inheritance(files, i) ==
    LET file == files[i]
        child == file.rows
        parents == WithIdentity(files, ParentKey(file))
        p == CHOOSE q \in parents : TRUE
        fork == file.created
        rows == IF parents = {} THEN <<>>
                ELSE Select(files[p].rows, LAMBDA r :
                         fork = NoTime \/ (r.at # NoTime /\ r.at <= fork))
        prefix == InheritedPrefix(child, rows)
        before == IF rows = <<>> THEN Zero ELSE Last(rows).total
        startsAnew == child = <<>> \/ ~HasTokens(before) \/ child[1].total = child[1].last
        goesOn == ~startsAnew /\ Delta(child[1].total, before) = child[1].last
        inferred == prefix = 0 /\ file.fork # NoId
    IN  [prefix |-> prefix,
         baseline |-> IF prefix > 0 THEN child[prefix].total
                      ELSE IF inferred /\ parents # {} /\ goesOn THEN before ELSE Zero,
         resolved |-> ~inferred \/ IF parents = {} THEN child = <<>> ELSE startsAnew \/ goesOn,
         tier |-> IF parents = {} THEN NoName ELSE TierAt(files, p, fork)]

Unresolved(file) ==
    [file EXCEPT !.rows = <<>>, !.total = Zero, !.last = Zero, !.resolved = FALSE,
                 !.speed = NoSpeed, !.pricing = NoPricing]

\* A child keeps its own rows only, counted from what it inherited.
OwnRows(own, spec) ==
    LET Previous(k) == IF k = 1 THEN spec.baseline ELSE own[k - 1].total
        Told(row) == [row EXCEPT !.tier = IF @ = NoName THEN spec.tier ELSE @]
    IN  Cumulated([k \in DOMAIN own |-> Told(own[k])],
                  [k \in DOMAIN own |-> Delta(own[k].total, Previous(k))])

ChildWith(file, spec, rows) ==
    LET cutoff == IF spec.prefix = 0 THEN NoTime ELSE file.rows[spec.prefix].at
        child == FromRows([file EXCEPT !.tier = IF @ = NoName THEN spec.tier ELSE @], rows)
        models == {rows[k].model : k \in DOMAIN rows} \ {NoName}
    IN  [child EXCEPT
            !.tasks = IF cutoff = NoTime THEN @ ELSE SelectSeq(@, LAMBDA t : t.at > cutoff),
            !.models = IF models # {} THEN models
                       ELSE IF rows = <<>> /\ @ # {} THEN @
                       ELSE {child.model} \ {NoName},
            !.start = IF rows = <<>> THEN @
                      ELSE IF rows[1].at # NoTime THEN rows[1].at ELSE child.created,
            !.end = IF rows = <<>> \/ Last(rows).at = NoTime THEN @ ELSE Last(rows).at]

NormalizeChild(file, spec) ==
    LET own == SubSeq(file.rows, spec.prefix + 1, Len(file.rows))
        kept == ChildWith(file, spec, OwnRows(own, spec))
    IN  IF ~spec.resolved THEN Unresolved(file)
        ELSE [Reprice(kept, TRUE) EXCEPT !.resolved = TRUE, !.inherited = spec.baseline,
                                     !.copied = spec.prefix]

(***************************************************************************)
(* All sessions of a component. What a child inherited is told from its    *)
(* parent's raw counters, before any of them is normalised.                *)
(***************************************************************************)
NormalizeMerged(merged) ==
    Listed([i \in DOMAIN merged |->
        IF IsChild(merged[i]) THEN NormalizeChild(merged[i], Inheritance(merged, i))
        ELSE NormalizeMain(merged[i])])

NormalizeSessions(files) == NormalizeMerged(Merge(files))
=============================================================================
