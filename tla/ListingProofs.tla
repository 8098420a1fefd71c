---------------------------- MODULE ListingProofs ----------------------------
(***************************************************************************)
(* Theorems about what the page lists, for all publications and rows, any  *)
(* acts of the user, lost requests and sizes of the cache of views.        *)
(***************************************************************************)
EXTENDS DashboardProofs

(***************************************************************************)
(* The invariant. Its parts are about values, so that they can be said of  *)
(* what a step makes of the page as well: "last" stands for the current    *)
(* publication, n for the views built, kept for the revisions of the views *)
(* that are kept.                                                          *)
(***************************************************************************)
\* A revision names one view: its publication, its period, and when it was built.
GoodRevision(r, last, n) ==
    \E p \in 1..last, period \in Periods \cup {Elsewhere}, k \in 0..n : r = <<p, period, k>>

GoodView(v, last, n) ==
    /\ GoodRevision(v.revision, last, n)
    /\ v.pub = v.revision[1] /\ v.period = v.revision[2]

KeptRevisions == {views[i].revision : i \in DOMAIN views}

ServerInv ==
    /\ pub \in 0..PublicationLimit /\ builds \in Nat
    /\ \E S : views \in Seq(S)
    /\ \A i \in DOMAIN views : GoodView(views[i], pub, builds)

\* A gapless part of the rows of one view, and cursors for what is next to it.
ListingFields == {"token", "revision", "total", "offset", "limit", "summary", "next", "previous",
                  "items"}
RowsOf(revision, filter) == Rows(revision[1], [period |-> revision[2], filter |-> filter])

Whole(l, mode, filter, last, n) ==
    LET rows == RowsOf(l.revision, filter)
        end == l.offset + Len(l.items)
        At(k) == Cursor(l.revision, <<mode, filter>>, l.limit, k)
    IN  /\ DOMAIN l = ListingFields
        /\ GoodRevision(l.revision, last, n) /\ l.token[1] = l.revision
        /\ l.limit \in 1..100 /\ l.offset \in Nat /\ Len(l.items) \in Nat
        /\ l.total = Len(rows) /\ end <= Len(rows)
        /\ l.items = SubSeq(rows, l.offset + 1, end)
        /\ l.next = IF end = Len(rows) THEN NoCursor ELSE At(end)
        /\ l.previous # NoCursor =>
               l.previous.offset \in Nat /\ l.previous = At(l.previous.offset)

PageFields == {"query", "mode", "shown", "listing", "loading", "more", "stuck", "typing", "failed",
               "seen", "selected", "bundle", "scope", "detailLoading"}
GoodQuery(q) ==
    DOMAIN q = {"period", "filter"} /\ q.period \in Periods /\ q.filter \in Filters

Shows(p, last, n) ==
    /\ DOMAIN p = PageFields
    /\ GoodQuery(p.query) /\ p.mode \in Modes
    /\ DOMAIN p.shown = {"query", "mode"} /\ GoodQuery(p.shown.query) /\ p.shown.mode \in Modes
    /\ p.listing # None => /\ Whole(p.listing, p.shown.mode, p.shown.query.filter, last, n)
                           /\ p.shown.mode = "projects" => p.listing.offset = 0

\* What the listing request asks for, and how its answer goes on from what is there.
AskedFields == {"for", "mode", "query", "cursor", "revision", "unless", "offset", "limit", "want",
                "first", "found", "read"}
NotOlder(p, publication) == p.listing # None => p.listing.revision[1] <= publication

FromListing(p, a) ==
    /\ p.listing # None /\ a.first = None
    /\ a.cursor # NoCursor /\ a.revision = p.listing.revision

AsksMore(p, a) ==
    /\ a.for = "more" /\ FromListing(p, a)
    /\ a.mode = "projects" /\ p.shown.mode = "projects" /\ a.query = p.shown.query
    /\ a.cursor = p.listing.next /\ a.limit = p.listing.limit
    /\ a.unless = NoRevision /\ a.offset = 0
AsksTurn(p, a) ==
    /\ a.for = "load" /\ FromListing(p, a)
    /\ p.shown.mode = "sessions" /\ a.cursor \in {p.listing.next, p.listing.previous}
AsksAnew(a) ==
    /\ a.for = "load" /\ a.first = None
    /\ a.cursor = NoCursor /\ a.revision = NoRevision
    /\ a.mode = "projects" => a.offset = 0
AsksOn(p, a, last, n) ==
    /\ a.for = "load" /\ a.first # None
    /\ a.mode = "projects" /\ Whole(a.first, a.mode, a.query.filter, last, n)
    /\ a.first.offset = 0 /\ NotOlder(p, a.first.revision[1])
    /\ a.cursor = a.first.next /\ a.cursor # NoCursor
    /\ a.revision = a.first.revision /\ a.limit = a.first.limit /\ a.unless = NoRevision

Asks(p, a, last, n) ==
    a # None =>
      /\ DOMAIN a = AskedFields
      /\ GoodQuery(a.query) /\ a.mode \in Modes /\ a.offset \in Nat
      /\ a.read = TRUE => a.found \in 0..last /\ NotOlder(p, a.found)
      /\ a.unless # NoRevision => p.listing # None /\ a.unless = p.listing.token
      /\ AsksMore(p, a) \/ AsksTurn(p, a) \/ AsksAnew(a) \/ AsksOn(p, a, last, n)

\* The detail is of the selected session, and what is asked for it is of the
\* listing and of the filters.
Bundled(p) ==
    /\ p.selected = NoSession => p.bundle = None
    /\ p.bundle # None => p.listing # None /\ p.bundle.id = p.selected

Tied(p, d) ==
    /\ Bundled(p)
    /\ p.scope # None => p.scope = p.query
    /\ p.selected = NoSession => d = None
    /\ p.bundle # None /\ p.scope = None => p.detailLoading = TRUE
    /\ d # None => /\ p.listing # None /\ d.revision = p.listing.revision
                   /\ DOMAIN d = {"id", "query", "step", "revision"} /\ d.id = p.selected
                   /\ p.detailLoading = TRUE /\ p.scope # None

\* A detail may be of another revision than the listing, and not be asked for,
\* only if what is listed is not kept any more and a load is going on or failed:
\* what that load brings has another revision.
Behind(p, d) ==
    /\ p.bundle # None /\ p.bundle.revision # p.listing.revision
    /\ d = None /\ p.scope # None /\ PeriodOf(p.listing) \notin Past

Follows(p, d, kept) ==
    /\ Tied(p, d)
    /\ Behind(p, d) => /\ p.listing.revision \notin kept
                       /\ p.loading = TRUE \/ p.failed = TRUE

Good(p, a, d, last, n, kept) ==
    Shows(p, last, n) /\ Asks(p, a, last, n) /\ Follows(p, d, kept)

\* What is listed is not replaced by what an older publication has.
Onward(p, q) ==
    p.listing # None =>
        \/ q.listing = p.listing
        \/ q.listing # None /\ q.listing.revision[1] >= p.listing.revision[1]

PageInv == Good(page, asked, detail, pub, builds, KeptRevisions)
ListingInv == ServerInv /\ PageInv

(***************************************************************************)
(* Revisions and rows.                                                     *)
(***************************************************************************)
LEMMA RevisionParts ==
    ASSUME NEW last \in 0..PublicationLimit, NEW n \in Nat, NEW r, GoodRevision(r, last, n)
    PROVE  /\ r[1] \in 1..last /\ r[1] \in 1..PublicationLimit
           /\ r[2] \in Periods \cup {Elsewhere} /\ r[3] \in 0..n
           /\ r # NoRevision
  <1>1. PICK p \in 1..last, period \in Periods \cup {Elsewhere}, k \in 0..n : r = <<p, period, k>>
    BY DEF GoodRevision
  <1>2. PublicationLimit \in Nat
    BY ServingAssumption
  <1> QED  BY <1>1, <1>2 DEF NoRevision

LEMMA RevisionLater ==
    ASSUME NEW last \in Nat, NEW n \in Nat, NEW more \in Nat, NEW m \in Nat,
           last <= more, n <= m, NEW r, GoodRevision(r, last, n)
    PROVE  GoodRevision(r, more, m)
  BY DEF GoodRevision

\* What a view has for a filter is a sequence of sessions.
LEMMA RowsTyped ==
    ASSUME NEW last \in 0..PublicationLimit, NEW n \in Nat, NEW r, GoodRevision(r, last, n),
           NEW filter \in Filters
    PROVE  \E S : NoSession \notin S /\ RowsOf(r, filter) \in Seq(S)
  <1> DEFINE rows == RowsOf(r, filter)
             S == {rows[i] : i \in DOMAIN rows} \ {NoSession}
  <1>1. r[1] \in 1..PublicationLimit /\ r[2] \in Periods \cup {Elsewhere}
    BY RevisionParts
  <1>2. rows \in Seq(S)
    BY <1>1, RowsAssumption DEF RowsOf
  <1> QED  BY <1>2

LEMMA Concatenation ==
    ASSUME NEW S, NEW s \in Seq(S), NEW t \in Seq(S)
    PROVE  /\ s \o t \in Seq(S) /\ Len(s \o t) = Len(s) + Len(t)
           /\ \A i \in 1..Len(s) : (s \o t)[i] = s[i]
           /\ \A i \in 1..Len(t) : (s \o t)[Len(s) + i] = t[i]
  OBVIOUS

LEMMA SameSequence ==
    ASSUME NEW S, NEW s \in Seq(S), NEW t \in Seq(S), Len(s) = Len(t),
           \A i \in 1..Len(s) : s[i] = t[i]
    PROVE  s = t
  OBVIOUS

LEMMA JoinedRows ==
    ASSUME NEW S, NEW rows \in Seq(S), NEW a \in Nat, NEW b \in Nat, NEW c \in Nat,
           a <= b, b <= c, c <= Len(rows)
    PROVE  SubSeq(rows, a + 1, b) \o SubSeq(rows, b + 1, c) = SubSeq(rows, a + 1, c)
  <1> DEFINE s == SubSeq(rows, a + 1, b)
             t == SubSeq(rows, b + 1, c)
             u == SubSeq(rows, a + 1, c)
  <1>1. /\ s \in Seq(S) /\ Len(s) = b - a /\ \A i \in 1..(b - a) : s[i] = rows[a + i]
    OBVIOUS
  <1>2. /\ t \in Seq(S) /\ Len(t) = c - b /\ \A i \in 1..(c - b) : t[i] = rows[b + i]
    OBVIOUS
  <1>3. /\ u \in Seq(S) /\ Len(u) = c - a /\ \A i \in 1..(c - a) : u[i] = rows[a + i]
    OBVIOUS
  <1> HIDE DEF s, t, u
  <1>4. /\ s \o t \in Seq(S) /\ Len(s \o t) = Len(s) + Len(t)
        /\ \A i \in 1..Len(s) : (s \o t)[i] = s[i]
        /\ \A i \in 1..Len(t) : (s \o t)[Len(s) + i] = t[i]
    <2>1. s \in Seq(S) /\ t \in Seq(S)
      BY <1>1, <1>2
    <2> QED  BY ONLY <2>1, Concatenation
  <1>5. ASSUME NEW i \in 1..(c - a) PROVE (s \o t)[i] = u[i]
    <2>1. CASE i <= b - a
      <3>1. i \in 1..(b - a)
        BY <2>1
      <3> QED  BY <3>1, <1>1, <1>3, <1>4
    <2>2. CASE i > b - a
      <3> DEFINE j == i - (b - a)
      <3>1. j \in 1..(c - b) /\ b + j = a + i /\ (b - a) + j = i
        BY <2>2
      <3> HIDE DEF j
      <3>2. (s \o t)[(b - a) + j] = t[j]
        BY <3>1, <1>1, <1>2, <1>4
      <3> QED  BY <3>1, <3>2, <1>2, <1>3
    <2>3. i <= b - a \/ i > b - a
      OBVIOUS
    <2> QED  BY <2>1, <2>2, <2>3
  <1>6. Len(s \o t) = Len(u) /\ \A i \in 1..Len(s \o t) : (s \o t)[i] = u[i]
    BY <1>1, <1>2, <1>3, <1>4, <1>5
  <1> QED  BY <1>3, <1>4, <1>6, SameSequence DEF s, t, u

\* What is whole is a listing.
LEMMA WholeIsListing ==
    ASSUME NEW last \in 0..PublicationLimit, NEW n \in Nat, NEW l, NEW mode, NEW filter,
           Whole(l, mode, filter, last, n)
    PROVE  /\ l # None /\ l.revision # NoRevision
           /\ l.revision[1] \in 1..last /\ l.revision[3] \in 0..n
  <1>1. DOMAIN l = ListingFields /\ GoodRevision(l.revision, last, n)
    BY DEF Whole
  <1>2. l # None
    <2>1. DOMAIN l # DOMAIN None
      BY <1>1 DEF None, ListingFields
    <2> QED  BY <2>1
  <1> QED  BY <1>1, <1>2, RevisionParts

(***************************************************************************)
(* What the parts of the invariant depend on.                              *)
(***************************************************************************)
Alike(p, q) ==
    /\ DOMAIN q = DOMAIN p
    /\ q.query = p.query /\ q.mode = p.mode /\ q.shown = p.shown /\ q.listing = p.listing

LEMMA AlikeShows ==
    ASSUME NEW last, NEW n, NEW p, NEW q, Shows(p, last, n), Alike(p, q)
    PROVE  Shows(q, last, n)
  BY DEF Shows, Alike

LEMMA AlikeAsks ==
    ASSUME NEW last, NEW n, NEW p, NEW q, NEW a, Asks(p, a, last, n), Alike(p, q)
    PROVE  Asks(q, a, last, n)
  BY DEF Asks, Alike, NotOlder, AsksMore, AsksTurn, AsksOn, FromListing

\* The page and its detail stay tied when none of their fields changes.
LEMMA AlikeTied ==
    ASSUME NEW p, NEW q, NEW d, Alike(p, q), q.selected = p.selected, q.bundle = p.bundle,
           q.scope = p.scope, q.detailLoading = p.detailLoading
    PROVE  (Tied(p, d) <=> Tied(q, d)) /\ (Behind(p, d) <=> Behind(q, d))
  BY DEF Alike, Tied, Bundled, Behind

LEMMA Outdated ==
    ASSUME NEW p, NEW d, Bundled(p), NEW q, NEW e, Invalidated(p) = Pair(q, e),
           DOMAIN p = PageFields
    PROVE  Alike(p, q) /\ Tied(q, e) /\ ~Behind(q, e)
  <1>1. /\ q = [p EXCEPT !.scope = None, !.detailLoading = p.selected # NoSession]
        /\ e = None
    BY DEF Invalidated, Pair
  <1>2. /\ DOMAIN q = DOMAIN p /\ Alike(p, q)
        /\ q.selected = p.selected /\ q.bundle = p.bundle /\ q.scope = None
        /\ q.detailLoading = (p.selected # NoSession)
    BY <1>1 DEF PageFields, Alike
  <1>3. q.bundle # None => q.detailLoading = TRUE
    BY Zenon, <1>2 DEF Bundled
  <1> QED  BY <1>1, <1>2, <1>3 DEF Tied, Behind, Bundled, Alike

LEMMA OpenDetailPair ==
    ASSUME NEW p, NEW id
    PROVE  OpenDetail(p, id) = Pair(OpenDetail(p, id).page, OpenDetail(p, id).detail)
  <1> DEFINE chosen == [p EXCEPT !.selected = id,
                                 !.bundle = IF @ # None /\ @.id = id THEN @ ELSE None]
  <1>1. ASSUME NEW q, NEW e PROVE Pair(q, e) = Pair(Pair(q, e).page, Pair(q, e).detail)
    BY DEF Pair
  <1>2. \E q, e : OpenDetail(p, id) = Pair(q, e)
    <2>1. CASE p.loading
      <3>1. OpenDetail(p, id) = Invalidated(chosen)
        BY Zenon, <2>1 DEF OpenDetail
      <3> HIDE DEF chosen
      <3> QED  BY Zenon, <3>1 DEF Invalidated
    <2>2. CASE ~p.loading
      BY Zenon, <2>2 DEF OpenDetail
    <2> QED  BY <2>1, <2>2
  <1> QED  BY Zenon, <1>1, <1>2

LEMMA Opened ==
    ASSUME NEW p, DOMAIN p = PageFields, GoodQuery(p.query), p.listing # None,
           NEW id, id # NoSession,
           NEW q, NEW e, OpenDetail(p, id) = Pair(q, e)
    PROVE  /\ Alike(p, q) /\ Tied(q, e) /\ ~Behind(q, e)
           /\ q.loading = p.loading /\ q.failed = p.failed
  <1> DEFINE chosen == [p EXCEPT !.selected = id,
                                 !.bundle = IF @ # None /\ @.id = id THEN @ ELSE None]
  <1>1. /\ DOMAIN chosen = DOMAIN p /\ Alike(p, chosen)
        /\ chosen.selected = id /\ chosen.loading = p.loading /\ chosen.failed = p.failed
        /\ chosen.bundle # None => chosen.bundle.id = id
    BY DEF PageFields, Alike
  <1>2. CASE p.loading
    <2>1. Invalidated(chosen) = Pair(q, e)
      BY Zenon, <1>2 DEF OpenDetail
    <2>2. Bundled(chosen)
      BY <1>1 DEF Bundled, Alike
    <2>3. q = [chosen EXCEPT !.scope = None, !.detailLoading = chosen.selected # NoSession]
      BY <2>1 DEF Invalidated, Pair
    <2> HIDE DEF chosen
    <2>4. q.loading = p.loading /\ q.failed = p.failed
      BY <2>3, <1>1 DEF PageFields
    <2> QED  BY <1>1, <2>1, <2>2, <2>4, Outdated DEF Alike
  <1>3. CASE ~p.loading
    <2> DEFINE sent == [id |-> id, query |-> p.query, step |-> "metadata",
                        revision |-> p.listing.revision]
    <2>1. /\ q = [chosen EXCEPT !.scope = p.query, !.detailLoading = TRUE]
          /\ e = sent
      <3>1. OpenDetail(p, id) = Pair([chosen EXCEPT !.scope = p.query, !.detailLoading = TRUE], sent)
        BY Zenon, <1>3 DEF OpenDetail
      <3> HIDE DEF chosen, sent
      <3> QED  BY <3>1 DEF Pair
    <2>2. e # None
      <3>1. DOMAIN e # DOMAIN None
        BY <2>1 DEF None
      <3> QED  BY <3>1
    <2> HIDE DEF chosen
    <2>3. /\ Alike(p, q) /\ q.selected = id /\ q.bundle = chosen.bundle /\ q.scope = p.query
          /\ q.detailLoading = TRUE /\ q.loading = p.loading /\ q.failed = p.failed
      BY <2>1, <1>1 DEF PageFields, Alike
    <2>4. q.scope = q.query /\ q.scope # None
      <3>1. DOMAIN p.query # DOMAIN None
        BY DEF GoodQuery, None
      <3> QED  BY <3>1, <2>3 DEF Alike
    <2> QED  BY <1>1, <2>1, <2>2, <2>3, <2>4 DEF Tied, Behind, Bundled, Alike
  <1> QED  BY <1>2, <1>3

(***************************************************************************)
(* A load asks for what it may, whatever was going on.                     *)
(***************************************************************************)
LEMMA Loads ==
    ASSUME NEW last \in 0..PublicationLimit, NEW n \in Nat, NEW kept, NEW p, NEW d,
           Shows(p, last, n), Tied(p, d), Behind(p, d) => p.listing.revision \notin kept,
           NEW refresh, NEW cursor,
           cursor # NoCursor => /\ p.listing # None /\ p.shown.mode = "sessions"
                                /\ cursor \in {p.listing.next, p.listing.previous}
    PROVE  /\ Good(LoadedPage(p), Request(p, refresh /\ ~Pending(p), cursor), d, last, n, kept)
           /\ Onward(p, LoadedPage(p))
  <1> DEFINE q == LoadedPage(p)
             again == (refresh /\ ~Pending(p)) /\ p.listing # None
             a == Request(p, refresh /\ ~Pending(p), cursor)
  <1>1. /\ Alike(p, q) /\ q.loading = TRUE
        /\ q.selected = p.selected /\ q.bundle = p.bundle
        /\ q.scope = p.scope /\ q.detailLoading = p.detailLoading
    BY DEF LoadedPage, Shows, PageFields, Alike
  <1>2. Shows(q, last, n) /\ q.listing = p.listing /\ q.shown = p.shown
    BY <1>1, AlikeShows DEF Alike
  <1>3. Follows(q, d, kept)
    BY <1>1, AlikeTied DEF Follows, Alike
  <1>4. /\ DOMAIN a = AskedFields /\ a.for = "load" /\ a.mode = p.mode /\ a.query = p.query
        /\ a.first = None /\ a.cursor = cursor /\ a.read = FALSE
        /\ a.revision = IF cursor = NoCursor THEN NoRevision ELSE p.listing.revision
        /\ a.unless = IF again THEN p.listing.token ELSE NoRevision
        /\ a.offset = IF again THEN p.listing.offset ELSE 0
    BY DEF Request, AskedFields
  <1> HIDE DEF a, q
  <1>5. a.offset \in Nat /\ (a.mode = "projects" => a.offset = 0)
    <2>1. CASE again
      <3>1. p.listing # None /\ p.mode = p.shown.mode
        BY Zenon, <2>1 DEF Pending
      <3>2. p.listing.offset \in Nat /\ (p.shown.mode = "projects" => p.listing.offset = 0)
        BY <3>1 DEF Shows, Whole
      <3>3. a.offset = p.listing.offset
        BY Zenon, <2>1, <1>4
      <3> QED  BY <3>1, <3>2, <3>3, <1>4
    <2>2. CASE ~again
      <3>1. a.offset = 0
        BY Zenon, <2>2, <1>4
      <3> QED  BY <3>1
    <2> QED  BY <2>1, <2>2
  <1>6. a.unless # NoRevision => p.listing # None /\ a.unless = p.listing.token
    BY Zenon, <1>4
  <1>7. GoodQuery(a.query) /\ a.mode \in Modes
    BY <1>4 DEF Shows
  <1>8. AsksTurn(q, a) \/ AsksAnew(a)
    BY <1>2, <1>4, <1>5 DEF AsksTurn, AsksAnew, FromListing
  <1>9. Asks(q, a, last, n)
    BY <1>2, <1>4, <1>5, <1>6, <1>7, <1>8 DEF Asks
  <1> QED  BY <1>2, <1>3, <1>9 DEF Good, Onward, a, q

LEMMA LoadStep ==
    ASSUME NEW last \in 0..PublicationLimit, NEW n \in Nat, NEW kept, NEW p, NEW d,
           Shows(p, last, n), Tied(p, d), Behind(p, d) => p.listing.revision \notin kept,
           NEW refresh, NEW cursor,
           cursor # NoCursor => /\ p.listing # None /\ p.shown.mode = "sessions"
                                /\ cursor \in {p.listing.next, p.listing.previous},
           Load(Pair(p, d), refresh, cursor)
    PROVE  Good(page', asked', detail', last, n, kept) /\ Onward(p, page')
  <1>1. Pair(p, d).page = p /\ Pair(p, d).detail = d
    BY DEF Pair
  <1>2. /\ page' = LoadedPage(p) /\ asked' = Request(p, refresh /\ ~Pending(p), cursor)
        /\ detail' = d
    BY Zenon, <1>1 DEF Load
  <1> QED  BY Zenon, <1>2, Loads

\* A refresh of the page, or of one that shows the same.
LEMMA RefreshStep ==
    ASSUME NEW last \in 0..PublicationLimit, NEW n \in Nat, NEW kept, NEW p,
           Good(p, asked, detail, last, n, kept), Refresh(p)
    PROVE  Good(page', asked', detail', last, n, kept) /\ Onward(p, page')
  <1>1. CASE Busy(p)
    BY Zenon, <1>1 DEF Refresh, Onward
  <1>2. CASE ~Busy(p)
    <2>1. Load(Pair(p, detail), TRUE, NoCursor)
      BY Zenon, <1>2 DEF Refresh
    <2>2. /\ Shows(p, last, n) /\ Tied(p, detail)
          /\ Behind(p, detail) => p.listing.revision \notin kept
      BY DEF Good, Follows
    <2> QED  BY <2>1, <2>2, LoadStep
  <1> QED  BY <1>1, <1>2

(***************************************************************************)
(* Acts of the user, timers and events, one lemma for each.                *)
(***************************************************************************)
Kind(last, n, kept) == Good(page, asked, detail, last, n, kept)
Held(last, n, kept) == Good(page', asked', detail', last, n, kept) /\ Onward(page, page')

\* What every step may use.
LEMMA HeldParts ==
    ASSUME NEW last, NEW n, NEW kept, Kind(last, n, kept)
    PROVE  /\ Shows(page, last, n) /\ Asks(page, asked, last, n)
           /\ Tied(page, detail) /\ Bundled(page)
           /\ Behind(page, detail) => /\ page.listing.revision \notin kept
                                      /\ page.loading = TRUE \/ page.failed = TRUE
           /\ DOMAIN page = PageFields
  BY DEF Kind, Good, Follows, Tied, Shows

\* Another filter, period or list: what is asked for is forgotten, and asked again.
LEMMA LoadsAnew ==
    ASSUME NEW last \in 0..PublicationLimit, NEW n \in Nat, NEW kept, NEW p,
           Shows(p, last, n), Bundled(p), Load(Invalidated(p), FALSE, NoCursor),
           p.listing = page.listing
    PROVE  Held(last, n, kept)
  <1> DEFINE q == Invalidated(p).page
             e == Invalidated(p).detail
  <1>1. Invalidated(p) = Pair(q, e)
    BY DEF Invalidated, Pair
  <1> HIDE DEF q, e
  <1>2. Alike(p, q) /\ Tied(q, e) /\ ~Behind(q, e)
    BY <1>1, Outdated DEF Shows
  <1>3. Shows(q, last, n)
    BY <1>2, AlikeShows
  <1>4. Load(Pair(q, e), FALSE, NoCursor)
    BY Zenon, <1>1
  <1>5. Good(page', asked', detail', last, n, kept) /\ Onward(q, page')
    BY <1>2, <1>3, <1>4, LoadStep
  <1> QED  BY <1>2, <1>5 DEF Held, Onward, Alike

LEMMA FilterChanged ==
    ASSUME NEW last \in 0..PublicationLimit, NEW n \in Nat, NEW kept, Kind(last, n, kept),
           ChangeFilter
    PROVE  Held(last, n, kept)
  <1>1. PICK f \in Filters :
            \/ Load(Invalidated([page EXCEPT !.query.filter = f]), FALSE, NoCursor)
            \/ /\ page' = [Invalidated([page EXCEPT !.query.filter = f]).page
                              EXCEPT !.loading = TRUE, !.typing = TRUE, !.more = FALSE]
               /\ asked' = None
               /\ detail' = Invalidated([page EXCEPT !.query.filter = f]).detail
    BY Zenon DEF ChangeFilter
  <1> DEFINE p == [page EXCEPT !.query.filter = f]
  <1>2. /\ DOMAIN p = PageFields /\ p.query = [page.query EXCEPT !.filter = f]
        /\ p.mode = page.mode /\ p.shown = page.shown /\ p.listing = page.listing
        /\ p.selected = page.selected /\ p.bundle = page.bundle
    BY HeldParts DEF PageFields
  <1> HIDE DEF p
  <1>3. GoodQuery(p.query)
    BY <1>2, HeldParts DEF Shows, GoodQuery
  <1>4. Shows(p, last, n) /\ Bundled(p)
    BY <1>2, <1>3, HeldParts DEF Shows, Bundled
  <1>5. CASE Load(Invalidated(p), FALSE, NoCursor)
    BY <1>2, <1>4, <1>5, LoadsAnew
  <1>6. CASE /\ page' = [Invalidated(p).page EXCEPT !.loading = TRUE, !.typing = TRUE, !.more = FALSE]
             /\ asked' = None
             /\ detail' = Invalidated(p).detail
    <2> DEFINE q == Invalidated(p).page
               e == Invalidated(p).detail
    <2>1. Invalidated(p) = Pair(q, e)
      BY DEF Invalidated, Pair
    <2> HIDE DEF q, e
    <2>2. Alike(p, q) /\ Tied(q, e) /\ ~Behind(q, e) /\ DOMAIN q = PageFields
      BY <1>2, <1>4, <2>1, Outdated DEF Alike
    <2>3. page' = [q EXCEPT !.loading = TRUE, !.typing = TRUE, !.more = FALSE] /\ detail' = e
      BY Zenon, <1>6 DEF q, e
    <2>4. /\ Alike(q, page') /\ page'.selected = q.selected /\ page'.bundle = q.bundle
          /\ page'.scope = q.scope /\ page'.detailLoading = q.detailLoading
      BY <2>2, <2>3 DEF Alike, PageFields
    <2>5. Shows(page', last, n)
      BY <1>4, <2>2, <2>4, AlikeShows
    <2>6. Tied(page', detail') /\ ~Behind(page', detail')
      BY <2>2, <2>3, <2>4, AlikeTied
    <2> QED  BY <1>2, <1>6, <2>2, <2>4, <2>5, <2>6 DEF Held, Good, Follows, Asks, Onward, Alike
  <1> QED  BY <1>1, <1>5, <1>6 DEF p

LEMMA PeriodChanged ==
    ASSUME NEW last \in 0..PublicationLimit, NEW n \in Nat, NEW kept, Kind(last, n, kept),
           ChangePeriod
    PROVE  Held(last, n, kept)
  <1>1. PICK d \in Periods :
            Load(Invalidated([page EXCEPT !.query.period = d]), FALSE, NoCursor)
    BY Zenon DEF ChangePeriod
  <1> DEFINE p == [page EXCEPT !.query.period = d]
  <1>2. /\ DOMAIN p = PageFields /\ p.query = [page.query EXCEPT !.period = d]
        /\ p.mode = page.mode /\ p.shown = page.shown /\ p.listing = page.listing
        /\ p.selected = page.selected /\ p.bundle = page.bundle
    BY HeldParts DEF PageFields
  <1>3. Load(Invalidated(p), FALSE, NoCursor)
    BY <1>1
  <1> HIDE DEF p
  <1>4. GoodQuery(p.query)
    BY <1>2, HeldParts DEF Shows, GoodQuery
  <1>5. Shows(p, last, n) /\ Bundled(p)
    BY <1>2, <1>4, HeldParts DEF Shows, Bundled
  <1> QED  BY <1>2, <1>3, <1>5, LoadsAnew

LEMMA ModeSwitched ==
    ASSUME NEW last \in 0..PublicationLimit, NEW n \in Nat, NEW kept, Kind(last, n, kept),
           SwitchMode
    PROVE  Held(last, n, kept)
  <1>1. PICK mode \in Modes : Load(Invalidated([page EXCEPT !.mode = mode]), FALSE, NoCursor)
    BY Zenon DEF SwitchMode
  <1> DEFINE p == [page EXCEPT !.mode = mode]
  <1>2. /\ DOMAIN p = PageFields /\ p.mode = mode
        /\ p.query = page.query /\ p.shown = page.shown /\ p.listing = page.listing
        /\ p.selected = page.selected /\ p.bundle = page.bundle
    BY HeldParts DEF PageFields
  <1>3. Load(Invalidated(p), FALSE, NoCursor)
    BY <1>1
  <1> HIDE DEF p
  <1>4. Shows(p, last, n) /\ Bundled(p)
    BY <1>2, HeldParts DEF Shows, Bundled
  <1> QED  BY <1>2, <1>3, <1>4, LoadsAnew

LEMMA StartGood == GoodQuery(Start.query) /\ Start.mode \in Modes
  <1>1. \E q : q \in Queries
    <2>1. PICK period \in Periods, filter \in Filters : TRUE
      BY ServingAssumption
    <2>2. [period |-> period, filter |-> filter] \in Queries
      BY DEF Queries
    <2> QED  BY <2>2
  <1>2. Start.query \in Queries
    <2>1. Start.query = CHOOSE q \in Queries : TRUE
      BY DEF Start
    <2> QED  BY Zenon, <1>1, <2>1
  <1>3. DOMAIN Start.query = {"period", "filter"} /\ Start.query.period \in Periods
        /\ Start.query.filter \in Filters
    BY <1>2 DEF Queries
  <1>4. Start.mode = "projects"
    BY DEF Start
  <1> QED  BY <1>3, <1>4 DEF GoodQuery, Modes

LEMMA WentBack ==
    ASSUME NEW last \in 0..PublicationLimit, NEW n \in Nat, NEW kept, Kind(last, n, kept), Back
    PROVE  Held(last, n, kept)
  <1> DEFINE opened == [page EXCEPT !.query = Start.query, !.mode = Start.mode,
                                    !.selected = NoSession]
             p == [opened EXCEPT !.bundle = None]
  <1>1. Load(Invalidated(p), FALSE, NoCursor)
    BY DEF Back
  <1>2. /\ DOMAIN p = PageFields /\ p.query = Start.query /\ p.mode = Start.mode
        /\ p.shown = page.shown /\ p.listing = page.listing
        /\ p.selected = NoSession /\ p.bundle = None
    BY HeldParts DEF PageFields
  <1> HIDE DEF p
  <1>3. Shows(p, last, n) /\ Bundled(p)
    BY <1>2, StartGood, HeldParts DEF Shows, Bundled
  <1> QED  BY <1>1, <1>2, <1>3, LoadsAnew

LEMMA Turned ==
    ASSUME NEW last \in 0..PublicationLimit, NEW n \in Nat, NEW kept, Kind(last, n, kept), Turn
    PROVE  Held(last, n, kept)
  <1>1. PICK cursor \in {page.listing.next, page.listing.previous} :
            Load(Pair(page, detail), FALSE, cursor)
    BY Zenon DEF Turn
  <1>2. page.listing # None /\ page.shown.mode = "sessions"
    BY DEF Turn
  <1>3. /\ Shows(page, last, n) /\ Tied(page, detail)
        /\ Behind(page, detail) => page.listing.revision \notin kept
    BY HeldParts
  <1> QED  BY <1>1, <1>2, <1>3, LoadStep DEF Held

\* Loading the first page again, with what is there.
LEMMA LoadedAgain ==
    ASSUME NEW last \in 0..PublicationLimit, NEW n \in Nat, NEW kept, Kind(last, n, kept),
           Load(Pair(page, detail), FALSE, NoCursor)
    PROVE  Held(last, n, kept)
  <1>1. /\ Shows(page, last, n) /\ Tied(page, detail)
        /\ Behind(page, detail) => page.listing.revision \notin kept
    BY HeldParts
  <1> QED  BY <1>1, LoadStep DEF Held

LEMMA MoreLoaded ==
    ASSUME NEW last \in 0..PublicationLimit, NEW n \in Nat, NEW kept, Kind(last, n, kept), LoadMore
    PROVE  Held(last, n, kept)
  <1> DEFINE a == [for |-> "more", mode |-> "projects", query |-> page.shown.query,
                   cursor |-> page.listing.next, revision |-> page.listing.revision,
                   unless |-> NoRevision, offset |-> 0, limit |-> page.listing.limit,
                   want |-> 0, first |-> None, found |-> 0, read |-> FALSE]
  <1>1. /\ page' = [page EXCEPT !.more = TRUE, !.stuck = FALSE] /\ detail' = detail
        /\ asked' = a /\ page.listing # None /\ page.shown.mode = "projects"
        /\ page.listing.next # NoCursor
    BY DEF LoadMore
  <1>2. /\ Alike(page, page') /\ page'.selected = page.selected /\ page'.bundle = page.bundle
        /\ page'.scope = page.scope /\ page'.detailLoading = page.detailLoading
        /\ page'.loading = page.loading /\ page'.failed = page.failed
    BY <1>1, HeldParts DEF PageFields, Alike
  <1>3. Shows(page', last, n)
    BY <1>2, AlikeShows, HeldParts
  <1>4. Follows(page', detail', kept)
    BY <1>1, <1>2, AlikeTied DEF Kind, Good, Follows, Alike
  <1>5. /\ DOMAIN a = AskedFields /\ a.for = "more" /\ a.mode = "projects"
        /\ a.query = page.shown.query /\ a.cursor = page.listing.next
        /\ a.revision = page.listing.revision /\ a.unless = NoRevision /\ a.offset = 0
        /\ a.limit = page.listing.limit /\ a.first = None /\ a.read = FALSE
    BY DEF AskedFields
  <1> HIDE DEF a
  <1>6. AsksMore(page', a)
    BY <1>1, <1>2, <1>5 DEF AsksMore, FromListing, Alike
  <1>7. GoodQuery(a.query) /\ a.mode \in Modes
    BY <1>5, HeldParts DEF Shows, Modes
  <1>8. Asks(page', a, last, n)
    BY <1>5, <1>6, <1>7 DEF Asks
  <1> QED  BY <1>1, <1>2, <1>3, <1>4, <1>8 DEF Held, Good, Onward, Alike

\* Only the detail changes, and it is asked for or forgotten.
LEMMA DetailChanged ==
    ASSUME NEW last \in 0..PublicationLimit, NEW n \in Nat, NEW kept, Kind(last, n, kept),
           asked' = asked, Alike(page, page'), Tied(page', detail'), ~Behind(page', detail')
    PROVE  Held(last, n, kept)
  <1>1. Shows(page', last, n) /\ Asks(page', asked, last, n)
    BY AlikeShows, AlikeAsks, HeldParts
  <1> QED  BY Zenon, <1>1 DEF Held, Good, Follows, Onward, Alike

LEMMA Selected ==
    ASSUME NEW last \in 0..PublicationLimit, NEW n \in Nat, NEW kept, Kind(last, n, kept), Select
    PROVE  Held(last, n, kept)
  <1>1. PICK i \in DOMAIN page.listing.items :
            /\ page' = OpenDetail(page, page.listing.items[i]).page
            /\ detail' = OpenDetail(page, page.listing.items[i]).detail
    BY Zenon DEF Select
  <1> DEFINE id == page.listing.items[i]
  <1>2. page.listing # None /\ asked' = asked
    BY DEF Select
  <1>3. id # NoSession
    <2> DEFINE rows == RowsOf(page.listing.revision, page.shown.query.filter)
               l == page.listing
    <2>1. /\ Whole(l, page.shown.mode, page.shown.query.filter, last, n)
          /\ page.shown.query.filter \in Filters
      BY <1>2, HeldParts DEF Shows, GoodQuery
    <2>2. PICK S : NoSession \notin S /\ rows \in Seq(S)
      BY <2>1, RowsTyped DEF Whole
    <2>3. /\ l.items = SubSeq(rows, l.offset + 1, l.offset + Len(l.items))
          /\ l.offset \in Nat /\ Len(l.items) \in Nat /\ l.offset + Len(l.items) <= Len(rows)
      BY <2>1 DEF Whole
    <2> DEFINE from == l.offset
               size == Len(l.items)
    <2>4. from \in Nat /\ size \in Nat /\ from + size <= Len(rows)
      BY <2>3
    <2>5. l.items = SubSeq(rows, from + 1, from + size)
      BY <2>3
    <2> HIDE DEF rows, from, size, l
    <2>6. SubSeq(rows, from + 1, from + size) \in Seq(S)
      BY <2>2, <2>4
    <2>7. page.listing.items \in Seq(S)
      BY <2>5, <2>6 DEF l
    <2>8. page.listing.items[i] \in S
      BY <2>7, <1>1
    <2> QED  BY <2>2, <2>8
  <1> HIDE DEF id
  <1>4. OpenDetail(page, id) = Pair(page', detail')
    <2>1. OpenDetail(page, id) = Pair(OpenDetail(page, id).page, OpenDetail(page, id).detail)
      BY OpenDetailPair
    <2> QED  BY <1>1, <2>1 DEF id
  <1>5. Alike(page, page') /\ Tied(page', detail') /\ ~Behind(page', detail')
    BY <1>2, <1>3, <1>4, Opened, HeldParts DEF Shows
  <1> QED  BY <1>2, <1>5, DetailChanged

LEMMA Cleared ==
    ASSUME NEW p, DOMAIN p = PageFields, NEW q, NEW e, q = ClearDetail(p).page,
           e = ClearDetail(p).detail
    PROVE  Alike(p, q) /\ Tied(q, e) /\ ~Behind(q, e)
  <1>1. /\ q = [p EXCEPT !.selected = NoSession, !.bundle = None, !.scope = None,
                         !.detailLoading = FALSE]
        /\ e = None
    BY DEF ClearDetail, Pair
  <1> QED  BY <1>1 DEF Alike, PageFields, Tied, Bundled, Behind

LEMMA Closed ==
    ASSUME NEW last \in 0..PublicationLimit, NEW n \in Nat, NEW kept, Kind(last, n, kept), Close
    PROVE  Held(last, n, kept)
  <1>1. Alike(page, page') /\ Tied(page', detail') /\ ~Behind(page', detail')
    BY Cleared, HeldParts DEF Close
  <1> QED  BY <1>1, DetailChanged DEF Close

LEMMA Polled ==
    ASSUME NEW last \in 0..PublicationLimit, NEW n \in Nat, NEW kept, Kind(last, n, kept), Poll
    PROVE  Held(last, n, kept)
  BY RefreshStep DEF Poll, Kind, Held

LEMMA Told ==
    ASSUME NEW last \in 0..PublicationLimit, NEW n \in Nat, NEW kept, Kind(last, n, kept), Notified
    PROVE  Held(last, n, kept)
  <1> DEFINE noted == [page EXCEPT !.seen = pub]
  <1>1. /\ Alike(page, noted) /\ noted.selected = page.selected /\ noted.bundle = page.bundle
        /\ noted.scope = page.scope /\ noted.detailLoading = page.detailLoading
        /\ noted.loading = page.loading /\ noted.failed = page.failed
    BY HeldParts DEF PageFields, Alike
  <1>2. Load(Pair(noted, detail), FALSE, NoCursor) \/ Refresh(noted)
    BY Zenon DEF Notified
  <1> HIDE DEF noted
  <1>3. Shows(noted, last, n) /\ Asks(noted, asked, last, n)
    BY <1>1, AlikeShows, AlikeAsks, HeldParts
  <1>4. Follows(noted, detail, kept)
    BY <1>1, AlikeTied DEF Kind, Good, Follows, Alike
  <1>5. Good(page', asked', detail', last, n, kept) /\ Onward(noted, page')
    <2>1. CASE Refresh(noted)
      BY <1>3, <1>4, <2>1, RefreshStep DEF Good
    <2>2. CASE Load(Pair(noted, detail), FALSE, NoCursor)
      BY <1>3, <1>4, <2>2, LoadStep DEF Follows
    <2> QED  BY <1>2, <2>1, <2>2
  <1> QED  BY <1>1, <1>5 DEF Held, Onward, Alike

\* The publication that a request finds is as new as what is listed.
LEMMA ReadOn ==
    ASSUME NEW last \in 0..PublicationLimit, NEW n \in Nat, NEW kept, Kind(last, n, kept), Read,
           last = pub
    PROVE  Held(last, n, kept)
  <1>1. /\ asked # None /\ asked' = [asked EXCEPT !.read = TRUE, !.found = pub]
        /\ page' = page /\ detail' = detail
    BY DEF Read
  <1>2. DOMAIN asked = AskedFields
    BY <1>1, HeldParts DEF Asks
  <1>3. /\ asked'.found = pub /\ DOMAIN asked' = AskedFields
        /\ \A k \in AskedFields \ {"read", "found"} : asked'[k] = asked[k]
    BY <1>1, <1>2 DEF AskedFields
  <1>4. /\ asked'.for = asked.for /\ asked'.mode = asked.mode /\ asked'.query = asked.query
        /\ asked'.cursor = asked.cursor /\ asked'.revision = asked.revision
        /\ asked'.unless = asked.unless /\ asked'.offset = asked.offset
        /\ asked'.limit = asked.limit /\ asked'.first = asked.first
    BY <1>3 DEF AskedFields
  <1>5. PublicationLimit \in Nat /\ NotOlder(page, pub) /\ pub \in 0..last
    <2>1. PublicationLimit \in Nat
      BY ServingAssumption
    <2>2. page.listing # None => page.listing.revision[1] \in 1..last
      BY WholeIsListing, HeldParts DEF Shows
    <2> QED  BY <2>1, <2>2 DEF NotOlder
  <1>6. Asks(page, asked', last, n)
    <2>1. Asks(page, asked, last, n)
      BY HeldParts
    <2>2. \/ AsksMore(page, asked') \/ AsksTurn(page, asked') \/ AsksAnew(asked')
          \/ AsksOn(page, asked', last, n)
      BY <1>1, <1>4, <2>1 DEF Asks, AsksMore, AsksTurn, AsksAnew, AsksOn, FromListing
    <2>3. /\ GoodQuery(asked'.query) /\ asked'.mode \in Modes /\ asked'.offset \in Nat
          /\ asked'.unless # NoRevision =>
                 page.listing # None /\ asked'.unless = page.listing.token
      BY <1>1, <1>4, <2>1 DEF Asks
    <2>4. asked'.found \in 0..last /\ NotOlder(page, asked'.found)
      BY <1>3, <1>5
    <2> QED  BY <1>3, <2>2, <2>3, <2>4 DEF Asks
  <1> QED  BY <1>1, <1>6, HeldParts DEF Held, Good, Onward, Kind

\* No page came: the next load is to bring it, unless nothing is listed yet.
LEMMA NotAnswered ==
    ASSUME NEW last \in 0..PublicationLimit, NEW n \in Nat, NEW kept, Kind(last, n, kept),
           NEW told, told = TRUE \/ page.listing = None, Unanswered(told)
    PROVE  Held(last, n, kept)
  <1>1. asked' = None /\ detail' = detail /\ DOMAIN page = PageFields
    BY HeldParts DEF Unanswered
  <1>2. \/ page' = [page EXCEPT !.loading = FALSE, !.failed = told]
        \/ page' = [page EXCEPT !.more = FALSE, !.stuck = TRUE]
    BY DEF Unanswered
  <1>3. /\ Alike(page, page') /\ page'.selected = page.selected /\ page'.bundle = page.bundle
        /\ page'.scope = page.scope /\ page'.detailLoading = page.detailLoading
        /\ \/ page'.failed = told
           \/ page'.loading = page.loading /\ page'.failed = page.failed
    BY <1>1, <1>2 DEF PageFields, Alike
  <1>4. Shows(page', last, n)
    BY <1>3, AlikeShows, HeldParts
  <1>5. Tied(page', detail') /\ (Behind(page', detail') => Behind(page, detail))
    BY <1>1, <1>3, AlikeTied, HeldParts
  <1>6. Behind(page', detail') => /\ page'.listing.revision \notin kept
                                  /\ page'.loading = TRUE \/ page'.failed = TRUE
    <2> SUFFICES ASSUME Behind(page', detail')
                 PROVE  /\ page'.listing.revision \notin kept
                        /\ page'.loading = TRUE \/ page'.failed = TRUE
      OBVIOUS
    <2>1. page.listing # None
      BY <1>5, HeldParts DEF Behind, Bundled
    <2>2. page.listing.revision \notin kept /\ (page.loading = TRUE \/ page.failed = TRUE)
      BY <1>5, HeldParts
    <2> QED  BY <1>3, <2>1, <2>2 DEF Alike
  <1> QED  BY <1>1, <1>3, <1>4, <1>5, <1>6 DEF Held, Good, Follows, Asks, Onward, Alike

LEMMA Lost ==
    ASSUME NEW last \in 0..PublicationLimit, NEW n \in Nat, NEW kept, Kind(last, n, kept), Lose
    PROVE  Held(last, n, kept)
  BY NotAnswered DEF Lose

LEMMA DetailAnswered ==
    ASSUME NEW last \in 0..PublicationLimit, NEW n \in Nat, Kind(last, n, KeptRevisions),
           DetailAnswer
    PROVE  Held(last, n, KeptRevisions)
  <1>1. /\ DOMAIN page = PageFields /\ detail # None
        /\ page.listing # None /\ detail.revision = page.listing.revision
        /\ DOMAIN detail = {"id", "query", "step", "revision"} /\ detail.id = page.selected
        /\ page.detailLoading = TRUE /\ page.scope # None /\ page.scope = page.query
        /\ page.selected # NoSession /\ Bundled(page)
    BY HeldParts DEF DetailAnswer, Tied
  <1>2. CASE Tokened(detail.revision) = {} /\
             Load(Pair([page EXCEPT !.detailLoading = FALSE], None), FALSE, NoCursor)
    <2> DEFINE p == [page EXCEPT !.detailLoading = FALSE]
    <2>1. /\ Alike(page, p) /\ p.selected = page.selected /\ p.bundle = page.bundle
          /\ p.scope = page.scope
      BY <1>1 DEF PageFields, Alike
    <2>2. Load(Pair(p, None), FALSE, NoCursor)
      BY <1>2
    <2> HIDE DEF p
    <2>3. Shows(p, last, n)
      BY <2>1, AlikeShows, HeldParts
    <2>4. Tied(p, None)
      BY <1>1, <2>1 DEF Tied, Bundled, Alike
    <2>5. p.listing.revision \notin KeptRevisions
      BY <1>1, <1>2, <2>1 DEF Tokened, KeptRevisions, Alike
    <2>6. Good(page', asked', detail', last, n, KeptRevisions) /\ Onward(p, page')
      BY <2>2, <2>3, <2>4, <2>5, LoadStep
    <2> QED  BY <2>1, <2>6 DEF Held, Onward, Alike
  <1>3. CASE page' = ClearDetail(page).page /\ detail' = ClearDetail(page).detail /\ asked' = asked
    <2>1. Alike(page, page') /\ Tied(page', detail') /\ ~Behind(page', detail')
      BY <1>1, <1>3, Cleared
    <2> QED  BY <1>3, <2>1, DetailChanged
  <1>4. CASE detail' = [detail EXCEPT !.step = "events"] /\ page' = page /\ asked' = asked
    <2>1. /\ DOMAIN detail' = DOMAIN detail /\ detail'.id = detail.id
          /\ detail'.revision = detail.revision
      BY <1>1, <1>4
    <2>2. detail' # None
      <3>1. DOMAIN detail' # DOMAIN None
        BY <1>1, <2>1 DEF None
      <3> QED  BY <3>1
    <2>3. Alike(page, page')
      BY <1>4 DEF Alike
    <2>4. Tied(page', detail') /\ ~Behind(page', detail')
      BY <1>1, <1>4, <2>1, <2>2 DEF Tied, Bundled, Behind
    <2> QED  BY <1>4, <2>3, <2>4, DetailChanged
  <1>5. CASE /\ page' = [page EXCEPT !.bundle = [id |-> detail.id, revision |-> detail.revision],
                                     !.detailLoading = FALSE]
             /\ detail' = None /\ asked' = asked
    <2>1. /\ Alike(page, page') /\ page'.selected = page.selected /\ page'.scope = page.scope
          /\ page'.bundle = [id |-> detail.id, revision |-> detail.revision]
      BY <1>1, <1>5 DEF PageFields, Alike
    <2>2. page'.bundle.id = detail.id /\ page'.bundle.revision = detail.revision
      BY <2>1
    <2>3. Tied(page', detail') /\ ~Behind(page', detail')
      BY <1>1, <1>5, <2>1, <2>2 DEF Tied, Bundled, Behind, Alike
    <2> QED  BY <1>5, <2>1, <2>3, DetailChanged
  <1> QED  BY Zenon, <1>2, <1>3, <1>4, <1>5 DEF DetailAnswer

LEMMA DetailLost ==
    ASSUME NEW last \in 0..PublicationLimit, NEW n \in Nat, NEW kept, Kind(last, n, kept),
           LoseDetail
    PROVE  Held(last, n, kept)
  <1>1. /\ page' = [page EXCEPT !.bundle = None, !.detailLoading = FALSE]
        /\ detail' = None /\ asked' = asked
    BY DEF LoseDetail
  <1>2. /\ Alike(page, page') /\ page'.selected = page.selected /\ page'.scope = page.scope
        /\ page'.bundle = None
    BY <1>1, HeldParts DEF PageFields, Alike
  <1>3. Tied(page', detail') /\ ~Behind(page', detail')
    BY <1>1, <1>2, HeldParts DEF Tied, Bundled, Behind, Alike
  <1> QED  BY <1>1, <1>2, <1>3, DetailChanged

(***************************************************************************)
(* Pages. A page that is no fault is a whole part of the rows of its view. *)
(***************************************************************************)
LEMMA OffsetFound ==
    ASSUME NEW cursor, NEW revision, NEW binding, NEW limit, NEW total \in Nat
    PROVE  LET found == Offset(cursor, revision, binding, limit, total)
           IN  /\ IsFault(found) => found.fault \in {"invalid", "stale"}
               /\ ~IsFault(found) =>
                      /\ limit \in 1..100
                      /\ found.offset = IF cursor = NoCursor THEN 0 ELSE cursor.offset
                      /\ cursor # NoCursor =>
                             /\ cursor.revision = revision /\ cursor.binding = binding
                             /\ cursor.limit = limit /\ ~(cursor.offset >= total)
  <1> DEFINE found == Offset(cursor, revision, binding, limit, total)
  <1>1. \A why : IsFault(Fault(why)) /\ Fault(why).fault = why
    BY DEF IsFault, Fault
  <1>2. \A at : ~IsFault([offset |-> at]) /\ [offset |-> at].offset = at
    BY DEF IsFault
  <1>3. CASE limit \notin 1..100
    <2>1. found = Fault("invalid")
      BY Zenon, <1>3 DEF Offset
    <2> QED  BY <1>1, <2>1
  <1>4. CASE limit \in 1..100 /\ cursor = NoCursor
    <2>1. found = [offset |-> 0]
      BY Zenon, <1>4 DEF Offset
    <2> QED  BY <1>2, <1>4, <2>1
  <1>5. CASE limit \in 1..100 /\ cursor # NoCursor /\ cursor.revision # revision
    <2>1. found = Fault("stale")
      BY Zenon, <1>5 DEF Offset
    <2> QED  BY <1>1, <2>1
  <1> DEFINE Wrong == \/ cursor.binding # binding
                      \/ cursor.limit # limit
                      \/ cursor.offset % limit # 0
                      \/ cursor.offset >= total
  <1>6. CASE limit \in 1..100 /\ cursor # NoCursor /\ cursor.revision = revision /\ Wrong
    <2>1. found = Fault("invalid")
      BY Zenon, <1>6 DEF Offset
    <2> QED  BY <1>1, <2>1
  <1>7. CASE limit \in 1..100 /\ cursor # NoCursor /\ cursor.revision = revision /\ ~Wrong
    <2>1. found = [offset |-> cursor.offset]
      BY Zenon, <1>7 DEF Offset
    <2> QED  BY Zenon, <1>2, <1>7, <2>1
  <1> QED  BY <1>3, <1>4, <1>5, <1>6, <1>7

\* A gapless part of a sequence.
LEMMA Part ==
    ASSUME NEW S, NEW rows \in Seq(S), NEW a \in Nat, NEW b \in Nat, a <= b, b <= Len(rows)
    PROVE  SubSeq(rows, a + 1, b) \in Seq(S) /\ Len(SubSeq(rows, a + 1, b)) = b - a
  OBVIOUS

FinePage(p, view, mode, filter, cursor, limit, last, n) ==
    /\ IsFault(p) => p.fault \in {"invalid", "stale"}
    /\ ~IsFault(p) =>
           /\ Whole(p, mode, filter, last, n)
           /\ p.revision = view.revision /\ p.limit = limit /\ p.token # NoRevision
           /\ p.offset = IF cursor = NoCursor THEN 0 ELSE cursor.offset
           /\ cursor # NoCursor => cursor.binding = <<mode, filter>> /\ cursor.limit = limit

LEMMA PageWhole ==
    ASSUME NEW last \in 0..PublicationLimit, NEW n \in Nat, NEW view, GoodView(view, last, n),
           NEW mode, NEW filter \in Filters, NEW cursor, NEW limit, NEW summary,
           cursor # NoCursor => cursor.offset \in Nat
    PROVE  FinePage(Page(view, <<mode, filter>>, RowsOf(view.revision, filter), summary,
                         cursor, limit),
                    view, mode, filter, cursor, limit, last, n)
  <1> DEFINE rows == RowsOf(view.revision, filter)
             total == Len(rows)
             binding == <<mode, filter>>
             found == Offset(cursor, view.revision, binding, limit, total)
             start == found.offset
             end == IF start + limit < total THEN start + limit ELSE total
             At(k) == Cursor(view.revision, binding, limit, k)
             page1 == Page(view, binding, rows, summary, cursor, limit)
  <1>1. GoodRevision(view.revision, last, n)
    BY DEF GoodView
  <1>2. PICK S : NoSession \notin S /\ rows \in Seq(S)
    BY <1>1, RowsTyped
  <1>3. total \in Nat
    BY <1>2
  <1> HIDE DEF rows, total, binding
  <1>4. /\ IsFault(found) => found.fault \in {"invalid", "stale"}
        /\ ~IsFault(found) =>
               /\ limit \in 1..100
               /\ start = IF cursor = NoCursor THEN 0 ELSE cursor.offset
               /\ cursor # NoCursor => /\ cursor.binding = binding /\ cursor.limit = limit
                                       /\ ~(cursor.offset >= total)
    BY <1>3, OffsetFound
  <1>5. CASE IsFault(found)
    <2>1. page1 = found
      BY <1>5 DEF Page, total
    <2> QED  BY <1>4, <1>5, <2>1 DEF rows, binding, FinePage
  <1>6. CASE ~IsFault(found)
    <2> DEFINE items == SubSeq(rows, start + 1, end)
               next == IF end < total THEN At(end) ELSE NoCursor
               previous == IF start = 0 THEN NoCursor
                           ELSE At(IF start < limit THEN 0 ELSE start - limit)
               made1 == [token |-> <<view.revision, binding, limit, start>>,
                         revision |-> view.revision, total |-> total, offset |-> start,
                         limit |-> limit, summary |-> summary, next |-> next,
                         previous |-> previous, items |-> items]
    <2>1. page1 = made1
      BY Zenon, <1>6 DEF Page, total
    <2>2. /\ limit \in 1..100 /\ limit \in Nat /\ start \in Nat /\ start <= total
          /\ start = IF cursor = NoCursor THEN 0 ELSE cursor.offset
      BY <1>3, <1>4, <1>6
    <2> HIDE DEF found
    <2>3. end \in Nat /\ start <= end /\ end <= total
      BY <1>3, <2>2
    <2> HIDE DEF end
    <2>4. items \in Seq(S) /\ Len(items) = end - start
      BY <1>2, <2>2, <2>3, Part DEF total
    <2>5. /\ ~IsFault(made1) /\ DOMAIN made1 = ListingFields
          /\ made1.token = <<view.revision, binding, limit, start>>
          /\ made1.revision = view.revision /\ made1.total = total /\ made1.offset = start
          /\ made1.limit = limit /\ made1.next = next /\ made1.previous = previous
          /\ made1.items = items
      BY DEF IsFault, ListingFields
    <2>6. previous # NoCursor => previous.offset \in Nat /\ previous = At(previous.offset)
      <3> SUFFICES ASSUME previous # NoCursor
                   PROVE  previous.offset \in Nat /\ previous = At(previous.offset)
        OBVIOUS
      <3> DEFINE back == IF start < limit THEN 0 ELSE start - limit
      <3>1. back \in Nat
        BY <2>2
      <3>2. previous = At(back)
        OBVIOUS
      <3> HIDE DEF back, previous
      <3>3. At(back).offset = back
        BY DEF Cursor
      <3> QED  BY <3>1, <3>2, <3>3
    <2>7. next = IF start + Len(items) = total THEN NoCursor ELSE At(start + Len(items))
      <3>1. start + Len(items) = end
        BY <2>2, <2>3, <2>4
      <3>2. end < total <=> end # total
        BY <1>3, <2>3
      <3> QED  BY <3>1, <3>2
    <2> HIDE DEF items, next, previous, made1
    <2>8. /\ start + Len(items) <= total /\ Len(items) \in Nat
          /\ items = SubSeq(rows, start + 1, start + Len(items))
      <3>1. start + Len(items) = end /\ Len(items) \in Nat
        BY <2>2, <2>3, <2>4
      <3> QED  BY <3>1, <2>3 DEF items
    <2>9. Whole(made1, mode, filter, last, n)
      <3>1. made1.token[1] = made1.revision
        BY <2>5
      <3> QED  BY <1>1, <2>2, <2>5, <2>6, <2>7, <2>8, <3>1 DEF Whole, rows, total, binding
    <2>10. page1.token # NoRevision
      BY <2>1, <2>5 DEF NoRevision
    <2> QED  BY <1>4, <1>6, <2>1, <2>2, <2>5, <2>9, <2>10 DEF rows, binding, FinePage
  <1> QED  BY <1>5, <1>6

\* The cursors of what is whole.
LEMMA CursorsOf ==
    ASSUME NEW last, NEW n, NEW l, NEW mode, NEW filter, Whole(l, mode, filter, last, n)
    PROVE  /\ l.next # NoCursor => /\ l.next.offset = l.offset + Len(l.items)
                                   /\ l.next.offset \in Nat
                                   /\ l.next.binding = <<mode, filter>>
           /\ l.previous # NoCursor => /\ l.previous.offset \in Nat
                                       /\ l.previous.binding = <<mode, filter>>
  <1>1. \A k : /\ Cursor(l.revision, <<mode, filter>>, l.limit, k).offset = k
               /\ Cursor(l.revision, <<mode, filter>>, l.limit, k).binding = <<mode, filter>>
    BY DEF Cursor
  <1>2. l.offset + Len(l.items) \in Nat
    BY DEF Whole
  <1> QED  BY <1>1, <1>2 DEF Whole

LEMMA Quotient ==
    ASSUME NEW x \in Nat, NEW k \in 1..100
    PROVE  x \div k \in Nat /\ 0 \div k = 0
  OBVIOUS

LEMMA Multiple ==
    ASSUME NEW q \in Nat, NEW k \in 1..100
    PROVE  q * k \in Nat /\ 0 * k = 0
  OBVIOUS

LEMMA Anchored ==
    ASSUME NEW last, NEW n, NEW l, NEW mode, NEW filter, Whole(l, mode, filter, last, n),
           Len(RowsOf(l.revision, filter)) \in Nat, NEW offset \in Nat
    PROVE  LET c == AnchorCursor(l, offset)
           IN  (c # NoCursor => c.offset \in Nat) /\ (offset = 0 => c = NoCursor)
  <1> DEFINE end == l.total - 1
             least == IF offset <= end THEN offset ELSE end
             at == (least \div l.limit) * l.limit
             known == IF l.next # NoCursor THEN l.next ELSE l.previous
             c == AnchorCursor(l, offset)
  <1>1. l.total \in Nat /\ l.limit \in 1..100
    BY DEF Whole
  <1>2. c = IF l.total = 0 \/ at = 0 \/ known = NoCursor THEN NoCursor
            ELSE [known EXCEPT !.offset = at]
    BY DEF AnchorCursor
  <1>3. l.total # 0 => least \in Nat /\ (offset = 0 => least = 0)
    BY <1>1
  <1> HIDE DEF least
  <1>4. l.total # 0 => at \in Nat /\ (offset = 0 => at = 0)
    <2> DEFINE q == least \div l.limit
    <2>1. l.total # 0 => q \in Nat /\ (offset = 0 => q = 0)
      BY <1>1, <1>3, Quotient
    <2> HIDE DEF q
    <2>2. q \in Nat => q * l.limit \in Nat
      BY <1>1, Multiple
    <2>3. q = 0 => q * l.limit = 0
      BY <1>1, Multiple
    <2> QED  BY <2>1, <2>2, <2>3 DEF q
  <1>5. known # NoCursor => "offset" \in DOMAIN known
    <2>1. \A k : "offset" \in DOMAIN Cursor(l.revision, <<mode, filter>>, l.limit, k)
      BY DEF Cursor
    <2>2. l.next # NoCursor => "offset" \in DOMAIN l.next
      BY <2>1 DEF Whole
    <2>3. l.previous # NoCursor => "offset" \in DOMAIN l.previous
      BY <2>1 DEF Whole
    <2> QED  BY <2>2, <2>3
  <1> HIDE DEF at, known, c
  <1>6. "offset" \in DOMAIN known => [known EXCEPT !.offset = at].offset = at
    OBVIOUS
  <1> QED  BY <1>2, <1>4, <1>5, <1>6 DEF c

\* What a view answers to a request.
LEMMA ListingWhole ==
    ASSUME NEW last \in 0..PublicationLimit, NEW n \in Nat, NEW view, GoodView(view, last, n),
           NEW r, r.query.filter \in Filters, r.offset \in Nat,
           r.cursor # NoCursor => r.cursor.offset \in Nat
    PROVE  LET answer == Listing(view, r)
           IN  /\ IsFault(answer) => answer.fault \in {"invalid", "stale", "unchanged"}
               /\ IsFault(answer) /\ answer.fault = "unchanged" =>
                      r.unless # NoRevision /\ r.unless[1] = view.revision
               /\ ~IsFault(answer) =>
                      /\ Whole(answer, r.mode, r.query.filter, last, n)
                      /\ answer.revision = view.revision /\ answer.limit = r.limit
                      /\ r.cursor # NoCursor => /\ answer.offset = r.cursor.offset
                                                /\ r.cursor.binding = <<r.mode, r.query.filter>>
                      /\ r.cursor = NoCursor /\ r.offset = 0 => answer.offset = 0
  <1> DEFINE first == PageOf(view, r, r.cursor)
             anchor == AnchorCursor(first, r.offset)
             page1 == IF IsFault(first) \/ r.cursor # NoCursor \/ anchor = NoCursor THEN first
                      ELSE PageOf(view, r, anchor)
             Fine(p, cursor) ==
                 FinePage(p, view, r.mode, r.query.filter, cursor, r.limit, last, n)
  <1>1. \A cursor : (cursor # NoCursor => cursor.offset \in Nat) => Fine(PageOf(view, r, cursor), cursor)
    <2> TAKE cursor
    <2> HAVE cursor # NoCursor => cursor.offset \in Nat
    <2>1. PageOf(view, r, cursor) =
              Page(view, <<r.mode, r.query.filter>>, RowsOf(view.revision, r.query.filter),
                   view.pub, cursor, r.limit)
      BY DEF PageOf, RowsOf, GoodView
    <2> DEFINE made1 == Page(view, <<r.mode, r.query.filter>>,
                             RowsOf(view.revision, r.query.filter), view.pub, cursor, r.limit)
    <2>2. Fine(made1, cursor)
      BY PageWhole
    <2> HIDE DEF made1
    <2>3. PageOf(view, r, cursor) = made1
      BY <2>1 DEF made1
    <2> QED  BY Zenon, <2>2, <2>3
  <1>2. Fine(first, r.cursor)
    BY <1>1
  <1> HIDE DEF first
  <1>3. ~IsFault(first) => (anchor # NoCursor => anchor.offset \in Nat)
                           /\ (r.offset = 0 => anchor = NoCursor)
    <2>1. GoodRevision(view.revision, last, n)
      BY DEF GoodView
    <2>2. Len(RowsOf(view.revision, r.query.filter)) \in Nat
      BY <2>1, RowsTyped
    <2> QED  BY <1>2, <2>2, Anchored DEF FinePage
  <1> HIDE DEF anchor
  <1>4. CASE IsFault(first) \/ r.cursor # NoCursor \/ anchor = NoCursor
    <2>1. page1 = first
      BY Zenon, <1>4
    <2> QED
      <3>1. CASE ~IsFault(page1) /\ r.unless = page1.token
        <4>1. Listing(view, r) = Unchanged
          BY Zenon, <3>1 DEF Listing, first, anchor
        <4>2. IsFault(Unchanged) /\ Unchanged.fault = "unchanged"
          BY DEF IsFault, Unchanged
        <4>3. r.unless # NoRevision /\ r.unless[1] = view.revision
          BY <1>2, <2>1, <3>1 DEF Whole, FinePage
        <4> QED  BY <4>1, <4>2, <4>3
      <3>2. CASE ~(~IsFault(page1) /\ r.unless = page1.token)
        <4>1. Listing(view, r) = page1
          BY Zenon, <3>2 DEF Listing, first, anchor
        <4> QED  BY <1>2, <2>1, <4>1 DEF FinePage
      <3> QED  BY Zenon, <3>1, <3>2
  <1>5. CASE ~IsFault(first) /\ r.cursor = NoCursor /\ anchor # NoCursor
    <2>1. page1 = PageOf(view, r, anchor)
      BY Zenon, <1>5
    <2>2. Fine(page1, anchor) /\ r.offset # 0
      BY <1>1, <1>3, <1>5, <2>1
    <2> HIDE DEF page1
    <2> QED
      <3>1. CASE ~IsFault(page1) /\ r.unless = page1.token
        <4>1. Listing(view, r) = Unchanged
          BY Zenon, <3>1 DEF Listing, first, anchor, page1
        <4>2. IsFault(Unchanged) /\ Unchanged.fault = "unchanged"
          BY DEF IsFault, Unchanged
        <4>3. r.unless # NoRevision /\ r.unless[1] = view.revision
          BY <2>2, <3>1 DEF Whole, FinePage
        <4> QED  BY <4>1, <4>2, <4>3
      <3>2. CASE ~(~IsFault(page1) /\ r.unless = page1.token)
        <4>1. Listing(view, r) = page1
          BY Zenon, <3>2 DEF Listing, first, anchor, page1
        <4> QED  BY <1>5, <2>2, <4>1 DEF FinePage
      <3> QED  BY Zenon, <3>1, <3>2
  <1> QED  BY Zenon, <1>4, <1>5

(***************************************************************************)
(* The service. What it keeps later is what it kept, a view of a period    *)
(* that is over, or a view that was built since.                           *)
(***************************************************************************)
Later(kept, n, keptLater) ==
    \A r \in keptLater : r \in kept \/ r[2] \in Past \/ r[3] > n

LEMMA WholeLater ==
    ASSUME NEW last \in Nat, NEW n \in Nat, NEW more \in Nat, NEW m \in Nat, last <= more, n <= m,
           NEW l, NEW mode, NEW filter, Whole(l, mode, filter, last, n)
    PROVE  Whole(l, mode, filter, more, m)
  BY RevisionLater DEF Whole

LEMMA GoodLater ==
    ASSUME NEW last \in 0..PublicationLimit, NEW n \in Nat, NEW kept,
           NEW more \in 0..PublicationLimit, NEW m \in Nat, NEW keptLater,
           last <= more, n <= m, Later(kept, n, keptLater),
           NEW p, NEW a, NEW d, Good(p, a, d, last, n, kept)
    PROVE  Good(p, a, d, more, m, keptLater)
  <1>1. last \in Nat /\ more \in Nat
    BY ServingAssumption
  <1>2. Shows(p, more, m)
    <2>1. p.listing # None => Whole(p.listing, p.shown.mode, p.shown.query.filter, more, m)
      BY <1>1, WholeLater DEF Good, Shows
    <2> QED  BY <2>1 DEF Good, Shows
  <1>3. Asks(p, a, more, m)
    <2> SUFFICES ASSUME a # None
                 PROVE  Asks(p, a, more, m)
      BY DEF Asks
    <2>1. a.read = TRUE => a.found \in 0..more /\ NotOlder(p, a.found)
      BY <1>1 DEF Good, Asks
    <2>2. AsksOn(p, a, last, n) => AsksOn(p, a, more, m)
      BY <1>1, WholeLater DEF AsksOn
    <2> QED  BY <2>1, <2>2 DEF Good, Asks
  <1>4. Follows(p, d, keptLater)
    <2> SUFFICES ASSUME Behind(p, d) PROVE p.listing.revision \notin keptLater
      BY DEF Good, Follows
    <2>1. p.listing # None /\ p.listing.revision \notin kept /\ p.listing.revision[2] \notin Past
      BY DEF Good, Follows, Tied, Bundled, Behind, PeriodOf
    <2>2. p.listing.revision[3] \in 0..n
      BY <2>1, WholeIsListing DEF Good, Shows
    <2>3. ~(p.listing.revision[3] > n)
      BY <2>2
    <2> QED  BY <2>1, <2>3 DEF Later
  <1> QED  BY <1>2, <1>3, <1>4 DEF Good

LEMMA Appended ==
    ASSUME NEW T, NEW s \in Seq(T), NEW x \in T
    PROVE  LET all == Append(s, x)
           IN  /\ all \in Seq(T) /\ Len(all) = Len(s) + 1 /\ Len(s) \in Nat /\ all # <<>>
               /\ \A j \in 1..Len(all) : all[j] = IF j = Len(s) + 1 THEN x ELSE s[j]
  OBVIOUS

\* The views kept after one more, which is kept itself.
LEMMA PushKeeps ==
    ASSUME NEW S, views \in Seq(S), NEW v
    PROVE  LET t == Push(v)
           IN  /\ t \in Seq(S \cup {v})
               /\ \A i \in DOMAIN t : t[i] = v \/ \E j \in DOMAIN views : t[i] = views[j]
               /\ \E i \in DOMAIN t : t[i] = v
  <1> DEFINE all == Append(views, v)
             T == S \cup {v}
  <1>1. views \in Seq(T) /\ v \in T
    OBVIOUS
  <1> HIDE DEF T
  <1>2. /\ all \in Seq(T) /\ Len(all) = Len(views) + 1 /\ Len(views) \in Nat /\ all # <<>>
        /\ \A j \in 1..Len(all) : all[j] = IF j = Len(views) + 1 THEN v ELSE views[j]
    BY <1>1, Appended
  <1>3. DOMAIN views = 1..Len(views)
    BY <1>1
  <1> HIDE DEF all
  <1>4. CASE Len(all) > CacheSize
    <2> DEFINE t == Tail(all)
    <2>1. Push(v) = t
      BY Zenon, <1>4 DEF Push, all
    <2>2. t \in Seq(T) /\ Len(t) = Len(views) /\ \A i \in 1..Len(t) : t[i] = all[i + 1]
      BY <1>2
    <2>3. DOMAIN t = 1..Len(views)
      BY <2>2
    <2>4. Len(views) >= 1
      BY <1>2, <1>4, ServingAssumption
    <2> HIDE DEF t
    <2>5. ASSUME NEW i \in DOMAIN t PROVE t[i] = v \/ \E j \in DOMAIN views : t[i] = views[j]
      <3>1. i + 1 \in 1..Len(all) /\ t[i] = all[i + 1]
        BY <1>2, <2>2, <2>3
      <3>2. i + 1 # Len(views) + 1 => i + 1 \in DOMAIN views
        BY <1>2, <1>3, <3>1
      <3> QED  BY <1>2, <3>1, <3>2
    <2>6. Len(views) \in DOMAIN t /\ t[Len(views)] = v
      BY <1>2, <2>2, <2>3, <2>4
    <2> QED  BY <2>1, <2>2, <2>5, <2>6 DEF T
  <1>5. CASE ~(Len(all) > CacheSize)
    <2>1. Push(v) = all
      BY Zenon, <1>5 DEF Push, all
    <2>2. DOMAIN all = 1..Len(views) + 1
      BY <1>2
    <2>3. ASSUME NEW i \in DOMAIN all PROVE all[i] = v \/ \E j \in DOMAIN views : all[i] = views[j]
      <3>1. i # Len(views) + 1 => i \in DOMAIN views
        BY <1>2, <1>3, <2>2
      <3> QED  BY <1>2, <2>2, <3>1
    <2>4. Len(views) + 1 \in DOMAIN all /\ all[Len(views) + 1] = v
      BY <1>2, <2>2
    <2> QED  BY <1>2, <2>1, <2>3, <2>4 DEF T
  <1> QED  BY <1>4, <1>5

\* A view that is asked for of the current or an earlier publication.
LEMMA ViewKept ==
    ASSUME ServerInv, NEW p \in 1..pub, NEW period \in Periods \cup {Elsewhere},
           Keep(p, period), pub' = pub
    PROVE  /\ ServerInv' /\ builds <= builds' /\ Later(KeptRevisions, builds, KeptRevisions')
           /\ KeptRevisions \subseteq KeptRevisions' \/ Kept(p, period) = {}
           /\ Kept(p, period) = {} =>
                  /\ GoodView(NewView(p, period), pub', builds') /\ NewView(p, period).pub = p
                  /\ NewView(p, period).revision \in KeptRevisions'
  <1>1. pub \in 0..PublicationLimit /\ pub \in Nat /\ builds \in Nat
    BY ServingAssumption DEF ServerInv
  <1>2. CASE Kept(p, period) # {}
    <2>1. views' = views /\ builds' = builds
      BY Zenon, <1>2 DEF Keep
    <2>2. KeptRevisions' = KeptRevisions
      BY <2>1 DEF KeptRevisions
    <2> QED  BY <1>1, <1>2, <2>1, <2>2 DEF ServerInv, Later
  <1>3. CASE Kept(p, period) = {}
    <2> DEFINE k == IF period \in Past THEN 0 ELSE builds + 1
               v == NewView(p, period)
    <2>1. views' = Push(v) /\ builds' = builds + 1
      BY Zenon, <1>3 DEF Keep
    <2>2. v.pub = p /\ v.period = period /\ v.revision = <<p, period, k>>
      BY DEF NewView
    <2>3. k \in 0..builds' /\ builds' \in Nat /\ builds <= builds'
      BY <1>1, <2>1
    <2>4. k > builds \/ period \in Past
      BY <1>1
    <2> HIDE DEF v, k
    <2>5. GoodView(v, pub, builds')
      BY <2>2, <2>3 DEF GoodView, GoodRevision
    <2>6. PICK S : views \in Seq(S)
      BY DEF ServerInv
    <2>7. /\ views' \in Seq(S \cup {v})
          /\ \A i \in DOMAIN views' : views'[i] = v \/ \E j \in DOMAIN views : views'[i] = views[j]
          /\ \E i \in DOMAIN views' : views'[i] = v
      BY <2>1, <2>6, PushKeeps
    <2>8. ASSUME NEW j \in DOMAIN views PROVE GoodView(views[j], pub, builds')
      <3>1. GoodView(views[j], pub, builds)
        BY DEF ServerInv
      <3>2. GoodRevision(views[j].revision, pub, builds')
        BY <1>1, <2>3, <3>1, RevisionLater DEF GoodView
      <3> QED  BY <3>1, <3>2 DEF GoodView
    <2>9. \A i \in DOMAIN views' : GoodView(views'[i], pub, builds')
      BY <2>5, <2>7, <2>8
    <2>10. ServerInv'
      BY <1>1, <2>3, <2>7, <2>9 DEF ServerInv
    <2>11. Later(KeptRevisions, builds, KeptRevisions')
      <3> SUFFICES ASSUME NEW i \in DOMAIN views'
                   PROVE  LET r == views'[i].revision
                          IN  r \in KeptRevisions \/ r[2] \in Past \/ r[3] > builds
        BY DEF Later, KeptRevisions
      <3>1. CASE views'[i] = v
        <4>1. v.revision[2] = period /\ v.revision[3] = k
          BY <2>2
        <4> QED  BY <2>4, <3>1, <4>1
      <3>2. CASE \E j \in DOMAIN views : views'[i] = views[j]
        BY <3>2 DEF KeptRevisions
      <3> QED  BY <2>7, <3>1, <3>2
    <2>12. v.revision \in KeptRevisions'
      BY <2>7 DEF KeptRevisions
    <2> QED  BY <1>3, <2>2, <2>3, <2>5, <2>10, <2>11, <2>12 DEF v
  <1> QED  BY <1>2, <1>3

\* What answers a request is a view that is kept then.
LEMMA Served ==
    ASSUME ServerInv, NEW r, GoodQuery(r.query), NEW found \in 0..pub, Serve(r, found),
           pub' = pub, NEW answer \in Answers(r, found)
    PROVE  /\ ServerInv' /\ builds <= builds' /\ Later(KeptRevisions, builds, KeptRevisions')
           /\ \/ answer = Fault("loading") /\ found = 0
              \/ answer = Fault("stale")
              \/ \E view :
                    /\ GoodView(view, pub', builds') /\ view.revision \in KeptRevisions'
                    /\ answer = Listing(view, r)
                    /\ r.revision # NoRevision => view.revision = r.revision
                    /\ r.revision = NoRevision => view.pub = found
  <1>1. pub \in Nat /\ builds \in Nat /\ found \in Nat /\ found <= pub
    BY ServingAssumption DEF ServerInv
  <1>2. CASE found = 0 \/ r.revision # NoRevision
    <2>1. views' = views /\ builds' = builds
      BY Zenon, <1>2 DEF Serve
    <2>2. KeptRevisions' = KeptRevisions
      BY <2>1 DEF KeptRevisions
    <2>3. ServerInv' /\ builds <= builds' /\ Later(KeptRevisions, builds, KeptRevisions')
      BY <1>1, <2>1, <2>2 DEF ServerInv, Later
    <2>4. CASE found = 0
      <3>1. answer = Fault("loading")
        BY <2>4 DEF Answers
      <3> QED  BY <2>3, <2>4, <3>1
    <2>5. CASE found # 0 /\ Chosen(r, found) = {}
      <3>1. answer = Fault("stale")
        BY <2>5 DEF Answers
      <3> QED  BY <2>3, <3>1
    <2>6. CASE found # 0 /\ Chosen(r, found) # {}
      <3>1. PICK view \in Chosen(r, found) : answer = Listing(view, r)
        BY <2>6 DEF Answers
      <3>2. PICK i \in Tokened(r.revision) : view = views[i]
        BY <1>2, <2>6 DEF Chosen
      <3>3. i \in DOMAIN views /\ views[i].revision = r.revision
        BY DEF Tokened
      <3>4. GoodView(view, pub', builds') /\ view.revision \in KeptRevisions'
        BY <2>1, <2>2, <3>2, <3>3 DEF ServerInv, KeptRevisions
      <3> QED  BY <1>2, <2>3, <2>6, <3>1, <3>2, <3>3, <3>4
    <2> QED  BY <2>4, <2>5, <2>6
  <1>3. CASE found # 0 /\ r.revision = NoRevision
    <2> DEFINE period == r.query.period
    <2>1. Keep(found, period) /\ found \in 1..pub /\ period \in Periods
      BY <1>1, <1>3 DEF Serve, GoodQuery
    <2>2. /\ ServerInv' /\ builds <= builds' /\ Later(KeptRevisions, builds, KeptRevisions')
          /\ Kept(found, period) = {} =>
                 /\ GoodView(NewView(found, period), pub', builds')
                 /\ NewView(found, period).pub = found
                 /\ NewView(found, period).revision \in KeptRevisions'
      BY <2>1, ViewKept
    <2> HIDE DEF period
    <2>3. CASE Kept(found, period) = {}
      <3>1. answer = Listing(NewView(found, period), r)
        BY <1>3, <2>3 DEF Answers, Chosen, period
      <3> QED  BY <1>3, <2>2, <2>3, <3>1
    <2>4. CASE Kept(found, period) # {}
      <3>1. PICK i \in Kept(found, period) : answer = Listing(views[i], r)
        BY <1>3, <2>4 DEF Answers, Chosen, period
      <3>2. i \in DOMAIN views /\ views[i].pub = found
        BY DEF Kept, Key
      <3>3. views' = views /\ builds' = builds
        BY <2>1, <2>4 DEF Keep
      <3>4. GoodView(views[i], pub', builds') /\ views[i].revision \in KeptRevisions'
        BY <3>2, <3>3 DEF ServerInv, KeptRevisions
      <3> QED  BY <1>3, <2>2, <3>1, <3>2, <3>4
    <2> QED  BY <2>3, <2>4
  <1> QED  BY <1>2, <1>3

(***************************************************************************)
(* Answers.                                                                *)
(***************************************************************************)
\* A page joined to the one before it is a whole part again.
LEMMA JoinedWhole ==
    ASSUME NEW last \in 0..PublicationLimit, NEW n \in Nat, NEW mode, NEW filter \in Filters,
           NEW first, Whole(first, mode, filter, last, n),
           NEW answer, Whole(answer, mode, filter, last, n),
           answer.revision = first.revision, answer.limit = first.limit,
           answer.offset = first.offset + Len(first.items)
    PROVE  /\ Whole(Joined(first, answer), mode, filter, last, n)
           /\ Joined(first, answer).revision = first.revision
           /\ Joined(first, answer).offset = first.offset
  <1> DEFINE got == Joined(first, answer)
             rows == RowsOf(first.revision, filter)
             from == first.offset
             middle == first.offset + Len(first.items)
             end == answer.offset + Len(answer.items)
  <1>1. /\ DOMAIN got = ListingFields
        /\ got.items = first.items \o answer.items /\ got.next = answer.next
        /\ got.previous = NoCursor /\ got.token = first.token /\ got.revision = first.revision
        /\ got.total = first.total /\ got.offset = first.offset /\ got.limit = first.limit
    BY DEF Joined, Whole, ListingFields
  <1>2. GoodRevision(first.revision, last, n)
    BY DEF Whole
  <1>3. PICK S : NoSession \notin S /\ rows \in Seq(S)
    BY <1>2, RowsTyped
  <1>4. /\ from \in Nat /\ middle \in Nat /\ end \in Nat
        /\ from <= middle /\ middle <= end /\ end <= Len(rows)
    <2>1. first.offset \in Nat /\ Len(first.items) \in Nat
      BY DEF Whole
    <2>2. answer.offset \in Nat /\ Len(answer.items) \in Nat
      BY DEF Whole
    <2>3. answer.offset + Len(answer.items) <= Len(rows)
      BY DEF Whole
    <2> QED  BY <2>1, <2>2, <2>3
  <1>5. /\ first.items = SubSeq(rows, from + 1, middle)
        /\ answer.items = SubSeq(rows, middle + 1, end)
    BY DEF Whole
  <1> HIDE DEF got, rows
  <1>6. got.items = SubSeq(rows, from + 1, end) /\ Len(got.items) = end - from
    <2>1. /\ SubSeq(rows, from + 1, middle) \o SubSeq(rows, middle + 1, end)
                 = SubSeq(rows, from + 1, end)
          /\ Len(SubSeq(rows, from + 1, end)) = end - from
      <3> HIDE DEF from, middle, end
      <3>1. from <= end
        BY <1>4
      <3> QED  BY <1>3, <1>4, <3>1, JoinedRows, Part
    <2> QED  BY <1>1, <1>5, <2>1
  <1>7. got.offset + Len(got.items) = end /\ Len(got.items) \in Nat
    <2>1. got.offset = from
      BY <1>1
    <2>2. from \in Nat /\ end \in Nat /\ from <= end
      BY <1>4
    <2> HIDE DEF from, end
    <2> QED  BY <1>6, <2>1, <2>2
  <1>8. answer.next = IF end = Len(rows) THEN NoCursor
                      ELSE Cursor(first.revision, <<mode, filter>>, first.limit, end)
    BY DEF Whole, rows
  <1>9. Whole(got, mode, filter, last, n)
    <2>1. /\ GoodRevision(got.revision, last, n) /\ got.token[1] = got.revision
          /\ got.limit \in 1..100 /\ got.offset \in Nat /\ got.total = Len(rows)
      BY <1>1 DEF Whole, rows
    <2> HIDE DEF end, from, middle
    <2>2. /\ got.offset + Len(got.items) <= Len(rows)
          /\ got.items = SubSeq(rows, got.offset + 1, got.offset + Len(got.items))
      BY <1>1, <1>4, <1>6, <1>7 DEF from
    <2> QED  BY <1>1, <1>7, <1>8, <2>1, <2>2 DEF Whole, rows
  <1> QED  BY <1>1, <1>9 DEF got

\* Where a request that goes on starts, and what it is bound to.
LEMMA AskedCursor ==
    ASSUME NEW last, NEW n, NEW kept, Kind(last, n, kept), asked # None, asked.cursor # NoCursor
    PROVE  /\ asked.cursor.offset \in Nat
           /\ AsksMore(page, asked) => asked.cursor.offset = page.listing.offset + Len(page.listing.items)
           /\ AsksTurn(page, asked) =>
                  asked.cursor.binding = <<"sessions", page.shown.query.filter>>
           /\ AsksOn(page, asked, last, n) =>
                  asked.cursor.offset = asked.first.offset + Len(asked.first.items)
  <1>1. page.listing # None =>
            Whole(page.listing, page.shown.mode, page.shown.query.filter, last, n)
    BY HeldParts DEF Shows
  <1>2. \/ AsksMore(page, asked) \/ AsksTurn(page, asked) \/ AsksOn(page, asked, last, n)
    BY HeldParts DEF Asks, AsksAnew
  <1>3. ASSUME AsksMore(page, asked)
        PROVE  /\ asked.cursor.offset \in Nat
               /\ asked.cursor.offset = page.listing.offset + Len(page.listing.items)
    BY <1>1, <1>3, CursorsOf DEF AsksMore, FromListing
  <1>4. ASSUME AsksTurn(page, asked)
        PROVE  /\ asked.cursor.offset \in Nat
               /\ asked.cursor.binding = <<"sessions", page.shown.query.filter>>
    <2>1. /\ Whole(page.listing, "sessions", page.shown.query.filter, last, n)
          /\ asked.cursor = page.listing.next \/ asked.cursor = page.listing.previous
      BY <1>1, <1>4 DEF AsksTurn, FromListing
    <2> QED  BY <2>1, CursorsOf
  <1>5. ASSUME AsksOn(page, asked, last, n)
        PROVE  /\ asked.cursor.offset \in Nat
               /\ asked.cursor.offset = asked.first.offset + Len(asked.first.items)
    BY <1>5, CursorsOf DEF AsksOn
  <1> QED  BY <1>2, <1>3, <1>4, <1>5

\* What was got so far, with an answer.
LEMMA Got ==
    ASSUME NEW last \in 0..PublicationLimit, NEW n \in Nat, NEW kept, Kind(last, n, kept),
           asked # None, asked.read = TRUE, NEW view, GoodView(view, last, n),
           asked.revision # NoRevision => view.revision = asked.revision,
           asked.revision = NoRevision => view.pub = asked.found,
           NEW answer, answer = Listing(view, asked), ~IsFault(answer), asked.for = "load"
    PROVE  LET got == IF asked.first = None THEN answer ELSE Joined(asked.first, answer)
           IN  /\ Whole(got, asked.mode, asked.query.filter, last, n)
               /\ got.revision = view.revision /\ NotOlder(page, got.revision[1])
               /\ asked.mode = "projects" => got.offset = 0
  <1> DEFINE got == IF asked.first = None THEN answer ELSE Joined(asked.first, answer)
  <1>1. /\ asked.query.filter \in Filters /\ asked.offset \in Nat
        /\ NotOlder(page, asked.found)
    BY HeldParts DEF Asks, GoodQuery
  <1>2. asked.cursor # NoCursor => asked.cursor.offset \in Nat
    BY AskedCursor
  <1>3. /\ Whole(answer, asked.mode, asked.query.filter, last, n)
        /\ answer.revision = view.revision /\ answer.limit = asked.limit
        /\ asked.cursor # NoCursor =>
               /\ answer.offset = asked.cursor.offset
               /\ asked.cursor.binding = <<asked.mode, asked.query.filter>>
        /\ asked.cursor = NoCursor /\ asked.offset = 0 => answer.offset = 0
    BY <1>1, <1>2, ListingWhole
  <1>4. AsksTurn(page, asked) \/ AsksAnew(asked) \/ AsksOn(page, asked, last, n)
    BY HeldParts DEF Asks, AsksMore
  <1>5. CASE AsksTurn(page, asked)
    <2>1. got = answer /\ asked.cursor # NoCursor /\ view.revision = page.listing.revision
      <3>1. page.listing # None
        BY <1>5 DEF AsksTurn, FromListing
      <3>2. page.listing.revision # NoRevision
        BY <3>1, WholeIsListing, HeldParts DEF Shows
      <3> QED  BY <1>5, <3>2 DEF AsksTurn, FromListing
    <2>2. asked.mode # "projects"
      <3>1. <<asked.mode, asked.query.filter>> = <<"sessions", page.shown.query.filter>>
        BY <1>3, <1>5, <2>1, AskedCursor
      <3>2. asked.mode = "sessions"
        BY <3>1
      <3> QED  BY <3>2
    <2>3. NotOlder(page, got.revision[1])
      <3>1. got.revision = page.listing.revision
        BY <1>3, <2>1
      <3>2. got.revision[1] \in Nat
        <4>1. got.revision[1] \in 1..last
          BY <1>3, <2>1, WholeIsListing
        <4> QED  BY <4>1
      <3> QED  BY <3>1, <3>2 DEF NotOlder
    <2> QED  BY <1>3, <2>1, <2>2, <2>3
  <1>6. CASE AsksAnew(asked)
    <2>1. got = answer /\ asked.cursor = NoCursor /\ view.pub = asked.found
      BY <1>6 DEF AsksAnew
    <2>2. view.revision[1] = asked.found
      BY <2>1 DEF GoodView
    <2> QED  BY <1>1, <1>3, <1>6, <2>1, <2>2 DEF AsksAnew
  <1>7. CASE AsksOn(page, asked, last, n)
    <2>1. /\ got = Joined(asked.first, answer) /\ asked.mode = "projects"
          /\ Whole(asked.first, asked.mode, asked.query.filter, last, n)
          /\ asked.first.offset = 0 /\ NotOlder(page, asked.first.revision[1])
          /\ asked.cursor # NoCursor /\ asked.limit = asked.first.limit
          /\ asked.revision = asked.first.revision
      BY <1>7 DEF AsksOn
    <2>2. view.revision = asked.first.revision
      BY <2>1, WholeIsListing
    <2>3. answer.offset = asked.first.offset + Len(asked.first.items)
      BY <1>3, <1>7, <2>1, AskedCursor
    <2>4. /\ Whole(Joined(asked.first, answer), asked.mode, asked.query.filter, last, n)
          /\ Joined(asked.first, answer).revision = asked.first.revision
          /\ Joined(asked.first, answer).offset = asked.first.offset
      <3> DEFINE first == asked.first
                 mode == asked.mode
                 filter == asked.query.filter
      <3>1. /\ Whole(first, mode, filter, last, n) /\ Whole(answer, mode, filter, last, n)
            /\ answer.revision = first.revision /\ answer.limit = first.limit
            /\ answer.offset = first.offset + Len(first.items) /\ filter \in Filters
        BY <1>1, <1>3, <2>1, <2>2, <2>3
      <3> HIDE DEF first, mode, filter
      <3>2. /\ Whole(Joined(first, answer), mode, filter, last, n)
            /\ Joined(first, answer).revision = first.revision
            /\ Joined(first, answer).offset = first.offset
        <4>1. last \in 0..PublicationLimit /\ n \in Nat
          OBVIOUS
        <4> QED  BY ONLY <3>1, <4>1, JoinedWhole
      <3> QED  BY <3>2 DEF first, mode, filter
    <2> QED  BY <2>1, <2>2, <2>4
  <1> QED  BY <1>4, <1>5, <1>6, <1>7

\* The detail is brought in line with what is listed now.
SyncedPage(p, changed) == [SyncDetail(p, changed).page EXCEPT !.loading = FALSE]
SyncedDetail(p, changed) == SyncDetail(p, changed).detail

LEMMA Synced ==
    ASSUME NEW last, NEW n, NEW kept, NEW p, Shows(p, last, n), p.listing # None, Bundled(p),
           p.scope # None => p.scope = p.query, p.selected = NoSession => detail = None,
           NEW changed \in BOOLEAN,
           changed = FALSE => Tied(p, detail) /\ ~Behind(p, detail)
    PROVE  /\ Shows(SyncedPage(p, changed), last, n)
           /\ Follows(SyncedPage(p, changed), SyncedDetail(p, changed), kept)
           /\ SyncedPage(p, changed).listing = p.listing
  <1> SUFFICES ASSUME NEW q, q = [SyncDetail(p, changed).page EXCEPT !.loading = FALSE],
                      NEW e, e = SyncDetail(p, changed).detail
               PROVE  Shows(q, last, n) /\ Follows(q, e, kept) /\ q.listing = p.listing
    BY DEF SyncedPage, SyncedDetail
  <1> DEFINE opens == /\ p.selected # NoSession
                      /\ \/ changed
                         \/ p.bundle = None
                         \/ p.bundle # None /\ p.bundle.id # p.selected
                         \/ p.scope # p.query
  <1>0. DOMAIN p = PageFields /\ GoodQuery(p.query)
    BY DEF Shows
  <1>1. CASE opens
    <2> DEFINE still == [p EXCEPT !.loading = FALSE]
               new == OpenDetail(still, p.selected)
    <2>1. SyncDetail(p, changed) = new
      BY Zenon, <1>1 DEF SyncDetail
    <2>2. /\ DOMAIN still = PageFields /\ Alike(p, still) /\ GoodQuery(still.query)
          /\ still.listing # None
      BY <1>0 DEF PageFields, Alike
    <2> HIDE DEF still
    <2>3. new = Pair(new.page, new.detail)
      BY OpenDetailPair
    <2>4. Alike(still, new.page) /\ Tied(new.page, new.detail) /\ ~Behind(new.page, new.detail)
      <3>1. p.selected # NoSession
        BY <1>1
      <3> QED  BY <2>2, <2>3, <3>1, Opened
    <2> HIDE DEF new
    <2>5. q = [new.page EXCEPT !.loading = FALSE] /\ e = new.detail
      BY <2>1
    <2>6. /\ Alike(new.page, q) /\ q.selected = new.page.selected /\ q.bundle = new.page.bundle
          /\ q.scope = new.page.scope /\ q.detailLoading = new.page.detailLoading
      BY <2>2, <2>4, <2>5 DEF Alike, PageFields
    <2>7. Tied(q, e) /\ ~Behind(q, e)
      BY <2>4, <2>5, <2>6, AlikeTied
    <2>8. Alike(p, q)
      BY <2>2, <2>4, <2>6 DEF Alike
    <2>9. Shows(q, last, n)
      BY <2>8, AlikeShows
    <2> QED  BY <2>7, <2>8, <2>9 DEF Follows, Alike
  <1>2. CASE ~opens
    <2>1. SyncDetail(p, changed) = Pair(p, detail)
      BY Zenon, <1>2 DEF SyncDetail
    <2>2. q = [p EXCEPT !.loading = FALSE] /\ e = detail
      BY <2>1 DEF Pair
    <2>3. /\ Alike(p, q) /\ q.selected = p.selected /\ q.bundle = p.bundle
          /\ q.scope = p.scope /\ q.detailLoading = p.detailLoading
      BY <1>0, <2>2 DEF Alike, PageFields
    <2>4. Tied(p, detail) /\ ~Behind(p, detail)
      <3>1. CASE p.selected = NoSession
        <4>1. p.bundle = None /\ detail = None
          BY <3>1 DEF Bundled
        <4> QED  BY <3>1, <4>1 DEF Tied, Behind
      <3>2. CASE p.selected # NoSession
        <4>1. changed = FALSE
          BY Zenon, <1>2, <3>2
        <4> QED  BY <4>1
      <3> QED  BY <3>1, <3>2
    <2>5. Tied(q, e) /\ ~Behind(q, e)
      BY <2>2, <2>3, <2>4, AlikeTied
    <2>6. Shows(q, last, n)
      BY <2>3, AlikeShows
    <2> QED  BY <2>3, <2>5, <2>6 DEF Follows, Alike
  <1> QED  BY <1>1, <1>2

\* What is listed is kept, so the detail is not behind it.
LEMMA NotBehind ==
    ASSUME NEW last, NEW n, NEW kept, Kind(last, n, kept), page.listing.revision \in kept
    PROVE  ~Behind(page, detail)
  BY HeldParts

LEMMA SameShown ==
    ASSUME NEW last \in 0..PublicationLimit, NEW n \in Nat, NEW kept, Kind(last, n, kept),
           page.listing # None, page.listing.revision \in kept, Same
    PROVE  Held(last, n, kept)
  <1>1. page' = SyncedPage(page, FALSE) /\ asked' = None /\ detail' = SyncedDetail(page, FALSE)
    BY DEF Same, SyncedPage, SyncedDetail
  <1>2. Tied(page, detail) /\ ~Behind(page, detail)
    BY NotBehind, HeldParts
  <1>3. Shows(page', last, n) /\ Follows(page', detail', kept) /\ page'.listing = page.listing
    <2>1. Shows(page, last, n) /\ Bundled(page)
      BY HeldParts
    <2>2. /\ page.scope # None => page.scope = page.query
          /\ page.selected = NoSession => detail = None
      BY <1>2 DEF Tied
    <2> QED  BY <1>1, <1>2, <2>1, <2>2, Synced
  <1> QED  BY <1>1, <1>3 DEF Held, Good, Asks, Onward

LEMMA Displayed ==
    ASSUME NEW last \in 0..PublicationLimit, NEW n \in Nat, NEW kept, Kind(last, n, kept),
           asked # None, NEW answer, Whole(answer, asked.mode, asked.query.filter, last, n),
           answer.revision \in kept, NotOlder(page, answer.revision[1]),
           asked.mode = "projects" => answer.offset = 0, Display(answer)
    PROVE  Held(last, n, kept)
  <1> DEFINE old == IF page.listing = None THEN NoRevision ELSE page.listing.revision
             changed == answer.revision # old
             shown == [page EXCEPT !.listing = answer,
                                   !.shown = [query |-> asked.query, mode |-> asked.mode]]
  <1>1. /\ page' = SyncedPage(shown, changed) /\ asked' = None
        /\ detail' = SyncedDetail(shown, changed)
    BY DEF Display, SyncedPage, SyncedDetail
  <1>2. answer # None /\ answer.revision # NoRevision /\ answer.revision[1] \in 1..last
    BY WholeIsListing
  <1>3. /\ DOMAIN shown = PageFields /\ shown.listing = answer
        /\ shown.shown = [query |-> asked.query, mode |-> asked.mode]
        /\ shown.query = page.query /\ shown.mode = page.mode
        /\ shown.selected = page.selected /\ shown.bundle = page.bundle
        /\ shown.scope = page.scope /\ shown.detailLoading = page.detailLoading
    BY HeldParts DEF PageFields
  <1> HIDE DEF shown
  <1>4. Shows(shown, last, n)
    <2>1. GoodQuery(asked.query) /\ asked.mode \in Modes
      BY HeldParts DEF Asks
    <2>2. /\ DOMAIN shown.shown = {"query", "mode"} /\ shown.shown.query = asked.query
          /\ shown.shown.mode = asked.mode
      BY <1>3
    <2> QED  BY <1>3, <2>1, <2>2, HeldParts DEF Shows
  <1>5. /\ Bundled(shown) /\ (shown.scope # None => shown.scope = shown.query)
        /\ shown.selected = NoSession => detail = None
    BY <1>2, <1>3, HeldParts DEF Bundled, Tied
  <1>6. changed = FALSE => Tied(shown, detail) /\ ~Behind(shown, detail)
    <2> SUFFICES ASSUME changed = FALSE
                 PROVE  Tied(shown, detail) /\ ~Behind(shown, detail)
      OBVIOUS
    <2>1. page.listing # None /\ answer.revision = page.listing.revision
      BY <1>2
    <2>2. ~Behind(page, detail)
      BY <2>1, NotBehind
    <2> QED  BY <1>2, <1>3, <2>1, <2>2, HeldParts DEF Tied, Bundled, Behind, PeriodOf
  <1>7. changed \in BOOLEAN
    OBVIOUS
  <1> HIDE DEF changed
  <1>8. Shows(page', last, n) /\ Follows(page', detail', kept) /\ page'.listing = answer
    <2>1. shown.listing # None
      BY <1>2, <1>3
    <2>2. Shows(page', last, n) /\ Follows(page', detail', kept) /\ page'.listing = shown.listing
      BY <1>1, <1>4, <1>5, <1>6, <1>7, <2>1, Synced
    <2> QED  BY <1>3, <2>2
  <1>9. Onward(page, page')
    <2>1. page.listing # None => page.listing.revision[1] \in 1..last
      BY WholeIsListing, HeldParts DEF Shows
    <2> QED  BY <1>2, <1>8, <2>1 DEF Onward, NotOlder
  <1> QED  BY <1>1, <1>8, <1>9 DEF Held, Good, Asks

\* An answer to what the page asked for: of a view that is kept, and is the one
\* that the request names or of the publication that it found.
Fits(view, last, n, kept) ==
    /\ asked # None /\ asked.read = TRUE
    /\ GoodView(view, last, n) /\ view.revision \in kept
    /\ asked.revision # NoRevision => view.revision = asked.revision
    /\ asked.revision = NoRevision => view.pub = asked.found

LEMMA MoreShown ==
    ASSUME NEW last \in 0..PublicationLimit, NEW n \in Nat, NEW kept, Kind(last, n, kept),
           NEW view, Fits(view, last, n, kept), NEW answer, answer = Listing(view, asked),
           ~IsFault(answer), asked.for = "more", MoreAnswered(answer)
    PROVE  Held(last, n, kept)
  <1> DEFINE l == page.listing
             got == Joined(l, answer)
             mode == page.shown.mode
             filter == page.shown.query.filter
  <1>1. /\ page' = [page EXCEPT !.more = FALSE, !.listing = got]
        /\ asked' = None /\ detail' = detail
    BY DEF MoreAnswered
  <1>2. AsksMore(page, asked) /\ asked # None
    BY HeldParts DEF Asks, AsksTurn, AsksAnew, AsksOn, Fits
  <1>3. /\ l # None /\ Whole(l, mode, filter, last, n) /\ mode = "projects" /\ l.offset = 0
        /\ filter \in Filters
    BY <1>2, HeldParts DEF Shows, AsksMore, FromListing, GoodQuery
  <1>4. /\ asked.mode = mode /\ asked.query.filter = filter /\ asked.cursor # NoCursor
        /\ asked.limit = l.limit /\ asked.revision = l.revision /\ asked.offset \in Nat
    BY <1>2, <1>3, HeldParts DEF Asks, AsksMore, FromListing
  <1>5. asked.cursor.offset \in Nat /\ asked.cursor.offset = l.offset + Len(l.items)
    BY <1>2, <1>4, AskedCursor
  <1>6. /\ Whole(answer, asked.mode, asked.query.filter, last, n)
        /\ answer.revision = view.revision /\ answer.limit = asked.limit
        /\ answer.offset = asked.cursor.offset
    BY <1>3, <1>4, <1>5, ListingWhole DEF Fits
  <1>7. view.revision = l.revision
    BY <1>3, <1>4, WholeIsListing DEF Fits
  <1>8. Whole(got, mode, filter, last, n) /\ got.revision = l.revision /\ got.offset = l.offset
    <2>1. /\ Whole(answer, mode, filter, last, n) /\ answer.revision = l.revision
          /\ answer.limit = l.limit /\ answer.offset = l.offset + Len(l.items)
      BY <1>4, <1>5, <1>6, <1>7
    <2>2. last \in 0..PublicationLimit /\ n \in Nat
      OBVIOUS
    <2>3. Whole(l, mode, filter, last, n) /\ filter \in Filters
      BY <1>3
    <2> HIDE DEF l, mode, filter
    <2> QED  BY ONLY <2>1, <2>2, <2>3, JoinedWhole
  <1>9. got # None /\ got.revision[1] \in Nat
    <2>1. got # None /\ got.revision[1] \in 1..last
      BY <1>8, WholeIsListing
    <2> QED  BY <2>1
  <1> HIDE DEF got
  <1>10. /\ DOMAIN page' = PageFields /\ page'.listing = got
         /\ page'.query = page.query /\ page'.mode = page.mode /\ page'.shown = page.shown
         /\ page'.selected = page.selected /\ page'.bundle = page.bundle
         /\ page'.scope = page.scope /\ page'.detailLoading = page.detailLoading
         /\ page'.loading = page.loading /\ page'.failed = page.failed
    BY <1>1, HeldParts DEF PageFields
  <1>11. Shows(page', last, n)
    BY <1>3, <1>8, <1>10, HeldParts DEF Shows
  <1>12. Follows(page', detail', kept)
    <2>1. Follows(page, detail, kept)
      BY DEF Kind, Good
    <2> QED  BY <1>1, <1>3, <1>8, <1>9, <1>10, <2>1 DEF Follows, Tied, Bundled, Behind, PeriodOf
  <1> QED  BY <1>1, <1>8, <1>9, <1>10, <1>11, <1>12 DEF Held, Good, Asks, Onward

LEMMA LoadShown ==
    ASSUME NEW last \in 0..PublicationLimit, NEW n \in Nat, NEW kept, Kind(last, n, kept),
           NEW view, Fits(view, last, n, kept), NEW answer, answer = Listing(view, asked),
           ~IsFault(answer), asked.for = "load", LoadAnswered(answer)
    PROVE  Held(last, n, kept)
  <1> DEFINE got == IF asked.first = None THEN answer ELSE Joined(asked.first, answer)
             goesOn == asked.mode = "projects" /\ got.next # NoCursor /\ Len(got.items) < asked.want
             final == IF asked.mode = "projects" THEN [got EXCEPT !.previous = NoCursor] ELSE got
  <1>1. /\ Whole(got, asked.mode, asked.query.filter, last, n)
        /\ got.revision = view.revision /\ NotOlder(page, got.revision[1])
        /\ asked.mode = "projects" => got.offset = 0
    BY Got DEF Fits
  <1>2. \/ /\ goesOn
           /\ asked' = [asked EXCEPT !.first = got, !.cursor = got.next, !.unless = NoRevision,
                                     !.revision = got.revision, !.limit = got.limit, !.read = FALSE]
           /\ page' = page /\ detail' = detail
        \/ Display(final)
    BY DEF LoadAnswered
  <1> HIDE DEF got
  <1>3. CASE /\ goesOn
             /\ asked' = [asked EXCEPT !.first = got, !.cursor = got.next, !.unless = NoRevision,
                                       !.revision = got.revision, !.limit = got.limit, !.read = FALSE]
             /\ page' = page /\ detail' = detail
    <2>1. asked # None /\ DOMAIN asked = AskedFields
      BY HeldParts DEF Fits, Asks
    <2>2. /\ DOMAIN asked' = AskedFields /\ asked'.for = "load" /\ asked'.first = got
          /\ asked'.cursor = got.next /\ asked'.unless = NoRevision
          /\ asked'.revision = got.revision /\ asked'.limit = got.limit /\ asked'.read = FALSE
          /\ asked'.mode = asked.mode /\ asked'.query = asked.query
          /\ asked'.offset = asked.offset
      BY <1>3, <2>1 DEF AskedFields
    <2>3. asked.mode = "projects" /\ got.next # NoCursor /\ got # None
      BY <1>1, <1>3, WholeIsListing
    <2>4. AsksOn(page, asked', last, n)
      BY <1>1, <2>2, <2>3 DEF AsksOn
    <2>5. Asks(page, asked', last, n)
      <3>1. Asks(page, asked, last, n)
        BY HeldParts
      <3>2. GoodQuery(asked'.query) /\ asked'.mode \in Modes /\ asked'.offset \in Nat
        BY <2>1, <2>2, <3>1 DEF Asks
      <3> QED  BY <2>2, <2>4, <3>2 DEF Asks
    <2> QED  BY <1>3, <2>5 DEF Held, Kind, Good, Onward
  <1>4. CASE Display(final)
    <2>1. /\ Whole(final, asked.mode, asked.query.filter, last, n)
          /\ final.revision = got.revision /\ final.offset = got.offset
      <3>1. CASE asked.mode = "projects"
        <4> DEFINE made1 == [got EXCEPT !.previous = NoCursor]
        <4>1. final = made1
          BY <3>1
        <4>2. DOMAIN got = ListingFields
          BY <1>1 DEF Whole
        <4>3. /\ DOMAIN made1 = ListingFields /\ made1.previous = NoCursor
              /\ made1.token = got.token /\ made1.revision = got.revision
              /\ made1.total = got.total /\ made1.offset = got.offset
              /\ made1.limit = got.limit /\ made1.next = got.next /\ made1.items = got.items
          BY <4>2 DEF ListingFields
        <4> HIDE DEF made1
        <4>4. Whole(made1, asked.mode, asked.query.filter, last, n)
          BY <1>1, <4>3 DEF Whole
        <4> QED  BY <4>1, <4>3, <4>4
      <3>2. CASE asked.mode # "projects"
        BY <1>1, <3>2
      <3> QED  BY <3>1, <3>2
    <2> HIDE DEF final
    <2>2. asked # None /\ final.revision \in kept
      BY <1>1, <2>1 DEF Fits
    <2> QED  BY <1>1, <1>4, <2>1, <2>2, Displayed
  <1> QED  BY <1>2, <1>3, <1>4

LEMMA NotLoaded ==
    ASSUME NEW last \in 0..PublicationLimit, NEW n \in Nat, NEW kept, Kind(last, n, kept),
           Refresh([page EXCEPT !.more = FALSE])
    PROVE  Held(last, n, kept)
  <1> DEFINE p == [page EXCEPT !.more = FALSE]
  <1>1. /\ Alike(page, p) /\ p.selected = page.selected /\ p.bundle = page.bundle
        /\ p.scope = page.scope /\ p.detailLoading = page.detailLoading
        /\ p.loading = page.loading /\ p.failed = page.failed
    BY HeldParts DEF PageFields, Alike
  <1>2. Refresh(p)
    OBVIOUS
  <1> HIDE DEF p
  <1>3. Shows(p, last, n) /\ Asks(p, asked, last, n)
    BY <1>1, AlikeShows, AlikeAsks, HeldParts
  <1>4. Follows(p, detail, kept)
    BY <1>1, AlikeTied DEF Kind, Good, Follows, Alike
  <1>5. Good(page', asked', detail', last, n, kept) /\ Onward(p, page')
    BY <1>2, <1>3, <1>4, RefreshStep DEF Good
  <1> QED  BY <1>1, <1>5 DEF Held, Onward, Alike

\* Whatever is answered: a page, that nothing changed, or why there is none.
LEMMA Answered ==
    ASSUME ListingInv, Answer
    PROVE  ServerInv' /\ Held(pub', builds', KeptRevisions')
  <1>1. /\ ServerInv /\ Good(page, asked, detail, pub, builds, KeptRevisions)
        /\ asked # None /\ asked.read = TRUE /\ pub' = pub /\ Serve(asked, asked.found)
    BY DEF ListingInv, PageInv, Answer
  <1>2. PICK answer \in Answers(asked, asked.found) :
            IF ~IsFault(answer)
            THEN IF asked.for = "more" THEN MoreAnswered(answer) ELSE LoadAnswered(answer)
            ELSE CASE answer.fault = "unchanged" -> Same
                   [] answer.fault = "stale" /\ asked.for = "load" ->
                          Load(Pair(page, detail), FALSE, NoCursor)
                   [] answer.fault = "stale" /\ asked.for = "more" ->
                          Refresh([page EXCEPT !.more = FALSE])
                   [] OTHER -> Unanswered(answer.fault # "loading")
    BY Zenon DEF Answer
  <1>3. GoodQuery(asked.query) /\ asked.found \in 0..pub /\ NotOlder(page, asked.found)
    BY <1>1 DEF Good, Asks
  <1>4. /\ ServerInv' /\ builds <= builds' /\ Later(KeptRevisions, builds, KeptRevisions')
        /\ \/ answer = Fault("loading") /\ asked.found = 0
           \/ answer = Fault("stale")
           \/ \E view : /\ Fits(view, pub', builds', KeptRevisions')
                        /\ answer = Listing(view, asked)
    BY <1>1, <1>3, Served DEF Fits
  <1> DEFINE last == pub'
             n == builds'
             kept == KeptRevisions'
  <1>5. /\ last \in 0..PublicationLimit /\ n \in Nat
        /\ pub \in 0..PublicationLimit /\ builds \in Nat /\ pub <= pub'
    <2>1. pub \in 0..PublicationLimit /\ builds \in Nat /\ builds' \in Nat
      BY <1>1, <1>4 DEF ServerInv
    <2> QED  BY <1>1, <2>1, ServingAssumption
  <1>6. Kind(last, n, kept)
    BY <1>1, <1>4, <1>5, GoodLater DEF Kind
  <1> HIDE DEF last, n, kept
  <1>7. ASSUME \E view : Fits(view, last, n, kept) /\ answer = Listing(view, asked)
        PROVE  Held(last, n, kept)
    <2>1. PICK view : Fits(view, last, n, kept) /\ answer = Listing(view, asked)
      BY <1>7
    <2>2. asked.for \in {"load", "more"}
      BY <1>1, <1>6, HeldParts DEF Asks, AsksMore, AsksTurn, AsksAnew, AsksOn
    <2>3. CASE ~IsFault(answer)
      <3>1. CASE asked.for = "more"
        <4>1. MoreAnswered(answer)
          BY Zenon, <1>2, <2>3, <3>1
        <4> QED  BY <1>5, <1>6, <2>1, <2>3, <3>1, <4>1, MoreShown
      <3>2. CASE asked.for = "load"
        <4>1. asked.for # "more"
          BY <3>2
        <4>2. LoadAnswered(answer)
          BY Zenon, <1>2, <2>3, <4>1
        <4> QED  BY <1>5, <1>6, <2>1, <2>3, <3>2, <4>2, LoadShown
      <3> QED  BY <2>2, <3>1, <3>2
    <2>4. CASE IsFault(answer)
      <3>1. /\ answer.fault \in {"invalid", "stale", "unchanged"}
            /\ answer.fault = "unchanged" => asked.unless # NoRevision
                                             /\ asked.unless[1] = view.revision
        <4>1. asked.cursor # NoCursor => asked.cursor.offset \in Nat
          BY <1>1, <1>6, AskedCursor
        <4>2. asked.query.filter \in Filters /\ asked.offset \in Nat
          BY <1>1, <1>6, HeldParts DEF Asks, GoodQuery
        <4>3. GoodView(view, last, n)
          BY <2>1 DEF Fits
        <4> QED  BY <1>5, <2>1, <2>4, <4>1, <4>2, <4>3, ListingWhole
      <3>2. CASE answer.fault = "unchanged"
        <4>1. Same
          <5>1. answer.fault # "stale"
            BY <3>2
          <5> QED  BY Zenon, <1>2, <2>4, <3>2, <5>1
        <4>2. page.listing # None /\ asked.unless = page.listing.token
          BY <1>1, <1>6, <3>1, <3>2, HeldParts DEF Asks
        <4>3. page.listing.revision = view.revision
          BY <1>6, <3>1, <3>2, <4>2, HeldParts DEF Shows, Whole
        <4>4. page.listing.revision \in kept
          BY <2>1, <4>3 DEF Fits
        <4> QED  BY <1>5, <1>6, <4>1, <4>2, <4>4, SameShown
      <3>3. CASE answer.fault = "stale"
        <4>1. CASE asked.for = "load"
          <5>1. Load(Pair(page, detail), FALSE, NoCursor)
            <6>1. answer.fault # "unchanged" /\ asked.for # "more"
              BY <3>3, <4>1
            <6> QED  BY Zenon, <1>2, <2>4, <3>3, <4>1, <6>1
          <5> QED  BY <1>5, <1>6, <5>1, LoadedAgain
        <4>2. CASE asked.for = "more"
          <5>1. Refresh([page EXCEPT !.more = FALSE])
            <6>1. answer.fault # "unchanged" /\ asked.for # "load"
              BY <3>3, <4>2
            <6> QED  BY Zenon, <1>2, <2>4, <3>3, <4>2, <6>1
          <5> QED  BY <1>5, <1>6, <5>1, NotLoaded
        <4> QED  BY <2>2, <4>1, <4>2
      <3>4. CASE answer.fault = "invalid"
        <4>1. answer.fault # "unchanged" /\ answer.fault # "stale" /\ answer.fault # "loading"
          BY <3>4
        <4>2. Unanswered(answer.fault # "loading")
          BY Zenon, <1>2, <2>4, <4>1
        <4>3. (answer.fault # "loading") = TRUE
          BY <4>1
        <4> QED  BY <1>5, <1>6, <4>2, <4>3, NotAnswered
      <3> QED  BY <3>1, <3>2, <3>3, <3>4
    <2> QED  BY <2>3, <2>4
  <1>8. ASSUME answer = Fault("loading"), asked.found = 0 PROVE Held(last, n, kept)
    <2>1. IsFault(answer) /\ answer.fault = "loading"
      BY <1>8 DEF IsFault, Fault
    <2>2. answer.fault # "unchanged" /\ answer.fault # "stale"
      BY <2>1
    <2>3. Unanswered(answer.fault # "loading")
      BY Zenon, <1>2, <2>1, <2>2
    <2>4. page.listing = None
      <3> SUFFICES ASSUME page.listing # None PROVE FALSE
        OBVIOUS
      <3>1. page.listing.revision[1] \in 1..last
        BY <1>5, <1>6, WholeIsListing, HeldParts DEF Shows
      <3>2. page.listing.revision[1] <= 0
        BY <1>3, <1>8 DEF NotOlder
      <3> QED  BY <3>1, <3>2
    <2> QED  BY <1>5, <1>6, <2>3, <2>4, NotAnswered
  <1>9. ASSUME answer = Fault("stale") PROVE Held(last, n, kept)
    <2>1. IsFault(answer) /\ answer.fault = "stale"
      BY <1>9 DEF IsFault, Fault
    <2>2. asked.for \in {"load", "more"} /\ answer.fault # "unchanged"
      BY <1>1, <1>6, <2>1, HeldParts DEF Asks, AsksMore, AsksTurn, AsksAnew, AsksOn
    <2>3. CASE asked.for = "load"
      <3>1. asked.for # "more"
        BY <2>3
      <3>2. Load(Pair(page, detail), FALSE, NoCursor)
        BY Zenon, <1>2, <2>1, <2>2, <2>3, <3>1
      <3> QED  BY <1>5, <1>6, <3>2, LoadedAgain
    <2>4. CASE asked.for = "more"
      <3>1. asked.for # "load"
        BY <2>4
      <3>2. Refresh([page EXCEPT !.more = FALSE])
        BY Zenon, <1>2, <2>1, <2>2, <2>4, <3>1
      <3> QED  BY <1>5, <1>6, <3>2, NotLoaded
    <2> QED  BY <2>2, <2>3, <2>4
  <1>10. Held(last, n, kept)
    BY <1>4, <1>7, <1>8, <1>9 DEF last, n, kept
  <1> QED  BY <1>4, <1>10 DEF last, n, kept

(***************************************************************************)
(* The invariant holds in every state, and every step goes on.             *)
(***************************************************************************)
LEMMA ListingInvInit == Init => ListingInv
  <1> SUFFICES ASSUME Init PROVE ListingInv
    OBVIOUS
  <1> USE DEF Init, ServerInit, PageInit
  <1>1. ServerInv
    <2>1. 0 \in 0..PublicationLimit
      BY ServingAssumption
    <2> QED  BY <2>1 DEF ServerInv
  <1>2. /\ DOMAIN page = PageFields /\ page.query = Start.query /\ page.mode = Start.mode
        /\ page.shown = Start /\ page.listing = None /\ page.selected = NoSession
        /\ page.bundle = None /\ page.scope = None
    BY DEF PageFields
  <1>3. DOMAIN Start = {"query", "mode"}
    BY DEF Start
  <1>4. Shows(page, pub, builds)
    BY <1>2, <1>3, StartGood DEF Shows
  <1>5. Follows(page, detail, KeptRevisions)
    BY <1>2 DEF Follows, Tied, Bundled, Behind
  <1> QED  BY <1>1, <1>4, <1>5 DEF ListingInv, PageInv, Good, Asks

\* The page does not change while the service does.
LEMMA ServerMoves ==
    ASSUME ListingInv, UNCHANGED <<page, asked, detail>>, ServerInv',
           pub <= pub', builds <= builds', Later(KeptRevisions, builds, KeptRevisions')
    PROVE  ListingInv' /\ Onward(page, page')
  <1>1. /\ pub \in 0..PublicationLimit /\ builds \in Nat
        /\ pub' \in 0..PublicationLimit /\ builds' \in Nat
    BY DEF ListingInv, ServerInv
  <1>2. Good(page, asked, detail, pub, builds, KeptRevisions)
    BY DEF ListingInv, PageInv
  <1>3. Good(page, asked, detail, pub', builds', KeptRevisions')
    BY <1>1, <1>2, GoodLater
  <1> QED  BY <1>3 DEF ListingInv, PageInv, Onward

LEMMA ListingInvPublish == ListingInv /\ PublishStep => ListingInv' /\ Onward(page, page')
  <1> SUFFICES ASSUME ListingInv, PublishStep PROVE ListingInv' /\ Onward(page, page')
    OBVIOUS
  <1>1. /\ pub' = pub + 1 /\ pub < PublicationLimit /\ views' = views /\ builds' = builds
        /\ UNCHANGED <<page, asked, detail>>
    BY DEF PublishStep, Publish, pageVars
  <1>2. pub \in 0..PublicationLimit /\ builds \in Nat /\ PublicationLimit \in Nat
    BY ServingAssumption DEF ListingInv, ServerInv
  <1>3. pub' \in 0..PublicationLimit /\ pub \in Nat /\ pub' \in Nat /\ pub <= pub' /\ builds <= builds'
    BY <1>1, <1>2
  <1>4. ServerInv'
    <2>1. ASSUME NEW i \in DOMAIN views PROVE GoodView(views[i], pub', builds')
      <3>1. GoodView(views[i], pub, builds)
        BY DEF ListingInv, ServerInv
      <3>2. GoodRevision(views[i].revision, pub', builds')
        BY <1>1, <1>2, <1>3, <3>1, RevisionLater DEF GoodView
      <3> QED  BY <3>1, <3>2 DEF GoodView
    <2> QED  BY <1>1, <1>2, <1>3, <2>1 DEF ListingInv, ServerInv
  <1>5. Later(KeptRevisions, builds, KeptRevisions')
    BY <1>1 DEF Later, KeptRevisions
  <1> QED  BY <1>1, <1>3, <1>4, <1>5, ServerMoves

LEMMA ListingInvOther ==
    ListingInv /\ OtherView /\ UNCHANGED pageVars => ListingInv' /\ Onward(page, page')
  <1> SUFFICES ASSUME ListingInv, OtherView, UNCHANGED pageVars
               PROVE  ListingInv' /\ Onward(page, page')
    OBVIOUS
  <1>1. pub > 0 /\ Keep(pub, Elsewhere) /\ pub' = pub /\ UNCHANGED <<page, asked, detail>>
    BY DEF OtherView, pageVars
  <1>2. pub \in 1..pub /\ pub <= pub'
    BY <1>1, ServingAssumption DEF ListingInv, ServerInv
  <1>3. ServerInv
    BY DEF ListingInv
  <1>4. ServerInv' /\ builds <= builds' /\ Later(KeptRevisions, builds, KeptRevisions')
    BY <1>1, <1>2, <1>3, ViewKept
  <1> QED  BY <1>1, <1>2, <1>4, ServerMoves

\* What the page does while the service stays as it is.
LEMMA PageMoves ==
    ASSUME ListingInv, Held(pub, builds, KeptRevisions), UNCHANGED serverVars
    PROVE  ListingInv' /\ Onward(page, page')
  <1>1. pub' = pub /\ builds' = builds /\ views' = views
    BY DEF serverVars
  <1>2. KeptRevisions' = KeptRevisions
    BY <1>1 DEF KeptRevisions
  <1> QED  BY <1>1, <1>2 DEF ListingInv, ServerInv, PageInv, Held

LEMMA ListingInvPage == ListingInv /\ PageStep => ListingInv' /\ Onward(page, page')
  <1> SUFFICES ASSUME ListingInv, PageStep PROVE ListingInv' /\ Onward(page, page')
    OBVIOUS
  <1>1. /\ pub \in 0..PublicationLimit /\ builds \in Nat
        /\ Kind(pub, builds, KeptRevisions)
    BY DEF ListingInv, ServerInv, PageInv, Kind
  <1>2. CASE Answer
    <2>1. ServerInv' /\ Held(pub', builds', KeptRevisions')
      BY <1>2, Answered
    <2> QED  BY <2>1 DEF Held, ListingInv, PageInv
  <1>3. CASE OtherView /\ UNCHANGED pageVars
    BY <1>3, ListingInvOther
  <1>4. CASE ChangeFilter
    <2>1. UNCHANGED serverVars
      BY <1>4 DEF ChangeFilter, Act
    <2> QED  BY <1>1, <1>4, <2>1, FilterChanged, PageMoves
  <1>5. CASE ChangePeriod
    <2>1. UNCHANGED serverVars
      BY <1>5 DEF ChangePeriod, Act
    <2> QED  BY <1>1, <1>5, <2>1, PeriodChanged, PageMoves
  <1>6. CASE SwitchMode
    <2>1. UNCHANGED serverVars
      BY <1>6 DEF SwitchMode, Act
    <2> QED  BY <1>1, <1>6, <2>1, ModeSwitched, PageMoves
  <1>7. CASE Back
    <2>1. UNCHANGED serverVars
      BY <1>7 DEF Back, Act
    <2> QED  BY <1>1, <1>7, <2>1, WentBack, PageMoves
  <1>8. CASE Turn
    <2>1. UNCHANGED serverVars
      BY <1>8 DEF Turn, Act
    <2> QED  BY <1>1, <1>8, <2>1, Turned, PageMoves
  <1>9. CASE LoadMore
    <2>1. UNCHANGED serverVars
      BY <1>9 DEF LoadMore, Act
    <2> QED  BY <1>1, <1>9, <2>1, MoreLoaded, PageMoves
  <1>10. CASE Select
    <2>1. UNCHANGED serverVars
      BY <1>10 DEF Select, Act
    <2> QED  BY <1>1, <1>10, <2>1, Selected, PageMoves
  <1>11. CASE Close
    <2>1. UNCHANGED serverVars
      BY <1>11 DEF Close, Act
    <2> QED  BY <1>1, <1>11, <2>1, Closed, PageMoves
  <1>12. CASE Retry
    <2>1. UNCHANGED serverVars /\ Load(Pair(page, detail), FALSE, NoCursor)
      BY <1>12 DEF Retry, Act
    <2> QED  BY <1>1, <2>1, LoadedAgain, PageMoves
  <1>13. CASE SearchTimer
    <2>1. UNCHANGED serverVars /\ Load(Pair(page, detail), FALSE, NoCursor)
      BY <1>13 DEF SearchTimer, Quiet
    <2> QED  BY <1>1, <2>1, LoadedAgain, PageMoves
  <1>14. CASE Poll
    <2>1. UNCHANGED serverVars
      BY <1>14 DEF Poll
    <2> QED  BY <1>1, <1>14, <2>1, Polled, PageMoves
  <1>15. CASE Notified
    <2>1. UNCHANGED serverVars
      BY <1>15 DEF Notified, Quiet
    <2> QED  BY <1>1, <1>15, <2>1, Told, PageMoves
  <1>16. CASE Read
    <2>1. UNCHANGED serverVars
      BY <1>16 DEF Read, Quiet
    <2> QED  BY <1>1, <1>16, <2>1, ReadOn, PageMoves
  <1>17. CASE Lose
    <2>1. UNCHANGED serverVars
      BY <1>17 DEF Lose
    <2> QED  BY <1>1, <1>17, <2>1, Lost, PageMoves
  <1>18. CASE DetailAnswer
    <2>1. UNCHANGED serverVars
      BY <1>18 DEF DetailAnswer, Quiet
    <2> QED  BY <1>1, <1>18, <2>1, DetailAnswered, PageMoves
  <1>19. CASE LoseDetail
    <2>1. UNCHANGED serverVars
      BY <1>19 DEF LoseDetail
    <2> QED  BY <1>1, <1>19, <2>1, DetailLost, PageMoves
  <1> QED  BY <1>2, <1>3, <1>4, <1>5, <1>6, <1>7, <1>8, <1>9, <1>10, <1>11, <1>12, <1>13, <1>14,
              <1>15, <1>16, <1>17, <1>18, <1>19 DEF PageStep

LEMMA ListingInvNext == ListingInv /\ [Next]_vars => ListingInv' /\ Onward(page, page')
  <1> SUFFICES ASSUME ListingInv, [Next]_vars PROVE ListingInv' /\ Onward(page, page')
    OBVIOUS
  <1>1. CASE PublishStep
    BY <1>1, ListingInvPublish
  <1>2. CASE AboutPage
    BY <1>2, ListingInvPage DEF AboutPage
  <1>3. CASE AboutExports \/ UNCHANGED vars
    <2>1. ExportStep => UNCHANGED serverVars
      BY DEF ExportStep, Begin, Find, StartExport, Progress, Download, GiveUp, Complete
    <2>2. /\ pub' = pub /\ builds' = builds /\ views' = views
          /\ page' = page /\ asked' = asked /\ detail' = detail
      BY <1>3, <2>1 DEF AboutExports, pageVars, serverVars, vars
    <2>3. KeptRevisions' = KeptRevisions
      BY <2>2 DEF KeptRevisions
    <2> QED  BY <2>2, <2>3 DEF ListingInv, ServerInv, PageInv, Onward
  <1> QED  BY <1>1, <1>2, <1>3 DEF Next

(***************************************************************************)
(* What is listed, put together from several answers of a service that     *)
(* publishes and drops views meanwhile, is a gapless part of one view:     *)
(* State::view never reads a later page from another view, load and        *)
(* loadMoreProjects never join what does not belong together.              *)
(***************************************************************************)
THEOREM ListedWhole == Spec => []ShownWhole
  <1>1. ListingInv => ShownWhole
    <2> SUFFICES ASSUME ListingInv, page.listing # None PROVE ShownWhole
      BY DEF ShownWhole
    <2> DEFINE l == page.listing
               rows == Rows(l.revision[1], [period |-> l.revision[2],
                                            filter |-> page.shown.query.filter])
               end == l.offset + Len(l.items)
    <2>1. /\ Whole(l, page.shown.mode, page.shown.query.filter, pub, builds)
          /\ page.shown.mode = "projects" => l.offset = 0
      BY DEF ListingInv, PageInv, Good, Shows
    <2>2. /\ l.total = Len(rows) /\ l.items = SubSeq(rows, l.offset + 1, end)
          /\ l.next = IF end = Len(rows) THEN NoCursor
                      ELSE Cursor(l.revision, <<page.shown.mode, page.shown.query.filter>>,
                                  l.limit, end)
      BY <2>1 DEF Whole, RowsOf
    <2>3. \A revision, binding, limit, k : Cursor(revision, binding, limit, k) # NoCursor
      <3> TAKE revision, binding, limit, k
      <3>1. "offset" \in DOMAIN Cursor(revision, binding, limit, k)
        BY DEF Cursor
      <3>2. "offset" \notin DOMAIN NoCursor
        BY DEF NoCursor
      <3> QED  BY <3>1, <3>2
    <2>4. l.next = NoCursor <=> end = Len(rows)
      BY <2>2, <2>3
    <2> QED  BY <2>1, <2>2, <2>4 DEF ShownWhole, PublicationOf, PeriodOf
  <1> QED  BY <1>1, ListingInvInit, ListingInvNext, PTL DEF Spec

(***************************************************************************)
(* The detail is of the selected session, and of the revision that is      *)
(* listed once nothing is loading and nothing failed (syncDetail and       *)
(* openDetail, whatever is answered in which order).                       *)
(***************************************************************************)
THEOREM DetailOfListing == Spec => []DetailMatches
  <1>1. ListingInv => DetailMatches
    <2> SUFFICES ASSUME ListingInv, page.bundle # None
                 PROVE  /\ page.bundle.id = page.selected
                        /\ ~page.loading /\ ~page.detailLoading /\ ~page.failed /\ ~SameWhenRebuilt =>
                               page.bundle.revision = page.listing.revision
      BY DEF DetailMatches
    <2>1. /\ Tied(page, detail) /\ page.listing # None /\ page.bundle.id = page.selected
          /\ Behind(page, detail) => page.loading = TRUE \/ page.failed = TRUE
      BY DEF ListingInv, PageInv, Good, Follows, Tied, Bundled
    <2>2. detail # None => page.detailLoading = TRUE
      BY <2>1 DEF Tied
    <2>3. page.scope = None => page.detailLoading = TRUE
      BY <2>1 DEF Tied
    <2>4. ASSUME ~page.loading, ~page.detailLoading, ~page.failed, ~SameWhenRebuilt,
                 page.bundle.revision # page.listing.revision
          PROVE  FALSE
      <3>1. detail = None /\ page.scope # None
        BY Zenon, <2>2, <2>3, <2>4
      <3>2. Behind(page, detail)
        BY <2>1, <2>4, <3>1 DEF Behind, SameWhenRebuilt
      <3> QED  BY Zenon, <2>1, <2>4, <3>2
    <2> QED  BY Zenon, <2>1, <2>4
  <1> QED  BY <1>1, ListingInvInit, ListingInvNext, PTL DEF Spec

(***************************************************************************)
(* The page never goes back to an older publication than it has shown:     *)
(* what a request finds is as new as what is listed when it is read, and   *)
(* nothing else is listed before it is answered or given up.               *)
(***************************************************************************)
THEOREM OnlyForward == Spec => NeverBack
  <1>1. ListingInv /\ [Next]_vars =>
            [page.listing # None =>
                 page'.listing # None
                 /\ PublicationOf(page'.listing) >= PublicationOf(page.listing)]_vars
    <2> SUFFICES ASSUME ListingInv, [Next]_vars, page.listing # None
                 PROVE  /\ page'.listing # None
                        /\ PublicationOf(page'.listing) >= PublicationOf(page.listing)
      OBVIOUS
    <2>1. Onward(page, page')
      BY ListingInvNext
    <2>2. page.listing.revision[1] \in 1..pub /\ pub \in 0..PublicationLimit
      <3>1. pub \in 0..PublicationLimit /\ builds \in Nat
        BY DEF ListingInv, ServerInv
      <3>2. Whole(page.listing, page.shown.mode, page.shown.query.filter, pub, builds)
        BY DEF ListingInv, PageInv, Good, Shows
      <3> QED  BY <3>1, <3>2, WholeIsListing
    <2> QED  BY <2>1, <2>2 DEF Onward, PublicationOf
  <1> QED  BY <1>1, ListingInvInit, ListingInvNext, PTL DEF Spec, NeverBack

-------------------------------------------------------------------------------
(***************************************************************************)
(* Turning pages. Multiples of the page size.                              *)
(***************************************************************************)
LEMMA Divided ==
    ASSUME NEW n \in Nat, NEW l \in Nat \ {0}
    PROVE  n % l \in 0..l - 1 /\ n \div l \in Nat /\ n = (n \div l) * l + (n % l)
  OBVIOUS

LEMMA OnlyQuotient ==
    ASSUME NEW k \in Int, NEW q \in Int, NEW l \in Nat \ {0}, NEW r \in 0..l - 1,
           k * l = q * l + r
    PROVE  r = 0 /\ k = q
  <1> DEFINE d == k - q
  <1>1. d \in Int /\ d * l = r
    OBVIOUS
  <1> HIDE DEF d
  <1>2. d >= 1 => d * l >= l
    BY <1>1
  <1>3. d <= -1 => d * l <= -l
    BY <1>1
  <1>4. d = 0
    BY <1>1, <1>2, <1>3
  <1> QED  BY <1>1, <1>4 DEF d

LEMMA MultipleRest ==
    ASSUME NEW k \in Nat, NEW l \in Nat \ {0}
    PROVE  k * l \in Nat /\ (k * l) % l = 0
  <1> DEFINE n == k * l
  <1>1. n \in Nat
    OBVIOUS
  <1> HIDE DEF n
  <1>2. n % l \in 0..l - 1 /\ n \div l \in Nat /\ n = (n \div l) * l + (n % l)
    BY <1>1, Divided
  <1>3. n % l = 0
    BY <1>2, OnlyQuotient DEF n
  <1> QED  BY <1>1, <1>3 DEF n

LEMMA Multiples ==
    ASSUME NEW n \in Nat, NEW l \in Nat \ {0}, n % l = 0
    PROVE  /\ (n + l) % l = 0
           /\ n # 0 => n >= l /\ (n - l) % l = 0
  <1> DEFINE k == n \div l
  <1>1. k \in Nat /\ n = k * l
    <2>1. k \in Nat /\ n = k * l + (n % l)
      BY Divided
    <2> HIDE DEF k
    <2>2. k * l \in Nat
      BY <2>1
    <2> QED  BY <2>1, <2>2
  <1> HIDE DEF k
  <1>2. k + 1 \in Nat /\ n + l = (k + 1) * l
    BY <1>1
  <1>3. n # 0 => n >= l /\ (n - l) % l = 0
    <2>1. n # 0 => k # 0
      BY <1>1
    <2>2. n # 0 => k - 1 \in Nat /\ n - l = (k - 1) * l
      BY <1>1, <2>1
    <2>3. n # 0 => (k - 1) * l \in Nat /\ ((k - 1) * l) % l = 0
      BY <2>2, MultipleRest
    <2> QED  BY <2>2, <2>3
  <1> QED  BY <1>2, <1>3, MultipleRest

LEMMA LastMultiple ==
    ASSUME NEW n \in Nat, NEW l \in Nat \ {0}
    PROVE  LET m == (n \div l) * l IN m \in Nat /\ m <= n /\ n < m + l /\ m % l = 0
  <1> DEFINE k == n \div l
  <1>1. k \in Nat /\ n = k * l + (n % l) /\ n % l \in 0..l - 1
    BY Divided
  <1> HIDE DEF k
  <1>2. k * l \in Nat /\ (k * l) % l = 0
    BY <1>1, MultipleRest
  <1>3. k * l <= n /\ n < k * l + l
    BY <1>1, <1>2
  <1> QED  BY <1>2, <1>3 DEF k

\* The page that begins at a row, and the cursors beside it.
PageFrom(view, binding, items, summary, limit, start) ==
    LET total == Len(items)
        end == IF start + limit < total THEN start + limit ELSE total
        Neighbor(at) == Cursor(view.revision, binding, limit, at)
    IN  [token |-> <<view.revision, binding, limit, start>>, revision |-> view.revision,
         total |-> total, offset |-> start, limit |-> limit, summary |-> summary,
         next |-> IF end < total THEN Neighbor(end) ELSE NoCursor,
         previous |-> IF start = 0 THEN NoCursor
                      ELSE Neighbor(IF start < limit THEN 0 ELSE start - limit),
         items |-> SubSeq(items, start + 1, end)]

\* Where a page may begin.
Begins(start, limit, total) ==
    start \in Nat /\ start % limit = 0 /\ (start = 0 \/ start < total)

LEMMA PageIsFrom ==
    ASSUME NEW view, NEW binding, NEW S, NEW items \in Seq(S), NEW summary, NEW limit,
           NEW cursor, cursor # NoCursor => cursor.offset \in Nat,
           ~IsFault(Page(view, binding, items, summary, cursor, limit))
    PROVE  /\ limit \in 1..100
           /\ \E start : /\ Begins(start, limit, Len(items))
                         /\ Page(view, binding, items, summary, cursor, limit)
                            = PageFrom(view, binding, items, summary, limit, start)
  <1> DEFINE found == Offset(cursor, view.revision, binding, limit, Len(items))
             page1 == Page(view, binding, items, summary, cursor, limit)
  <1>1. ~IsFault(found)
    <2>1. IsFault(found) => page1 = found
      BY Zenon DEF Page
    <2> QED  BY <2>1
  <1>2. \A why : IsFault(Fault(why))
    BY DEF IsFault, Fault
  <1>3. limit \in 1..100
    <2>1. limit \notin 1..100 => found = Fault("invalid")
      BY Zenon DEF Offset
    <2> QED  BY <1>1, <1>2, <2>1
  <1>4. page1 = PageFrom(view, binding, items, summary, limit, found.offset)
    BY Zenon, <1>1 DEF Page, PageFrom
  <1>5. Begins(found.offset, limit, Len(items))
    <2>1. CASE cursor = NoCursor
      <3>1. found = [offset |-> 0]
        BY Zenon, <1>3, <2>1 DEF Offset
      <3>2. 0 % limit = 0
        BY <1>3
      <3> QED  BY <3>1, <3>2 DEF Begins
    <2>2. CASE cursor # NoCursor
      <3>1. cursor.revision = view.revision
        <4>1. cursor.revision # view.revision => found = Fault("stale")
          BY Zenon, <1>3, <2>2 DEF Offset
        <4> QED  BY <1>1, <1>2, <4>1
      <3>2. \/ found = Fault("invalid")
            \/ /\ found = [offset |-> cursor.offset]
               /\ ~(cursor.offset % limit # 0) /\ ~(cursor.offset >= Len(items))
        BY Zenon, <1>3, <2>2, <3>1 DEF Offset
      <3>3. /\ found.offset = cursor.offset
            /\ cursor.offset % limit = 0 /\ ~(cursor.offset >= Len(items))
        BY <1>1, <1>2, <3>2
      <3>4. cursor.offset \in Nat /\ Len(items) \in Nat
        BY <2>2
      <3> QED  BY <3>3, <3>4 DEF Begins
    <2> QED  BY <2>1, <2>2
  <1> QED  BY <1>3, <1>4, <1>5

\* A cursor made for this list and page size is accepted wherever a page may
\* begin, and none stands for the first page.
LEMMA OffsetTaken ==
    ASSUME NEW view, NEW binding, NEW items, NEW summary, NEW limit, NEW start, NEW cursor,
           Offset(cursor, view.revision, binding, limit, Len(items)) = [offset |-> start]
    PROVE  Page(view, binding, items, summary, cursor, limit)
           = PageFrom(view, binding, items, summary, limit, start)
  <1> DEFINE found == Offset(cursor, view.revision, binding, limit, Len(items))
  <1>1. ~IsFault(found) /\ found.offset = start
    BY DEF IsFault
  <1> QED  BY Zenon, <1>1 DEF Page, PageFrom

LEMMA FirstTaken ==
    ASSUME NEW view, NEW binding, NEW items, NEW summary, NEW limit \in 1..100
    PROVE  Page(view, binding, items, summary, NoCursor, limit)
           = PageFrom(view, binding, items, summary, limit, 0)
  <1>1. Offset(NoCursor, view.revision, binding, limit, Len(items)) = [offset |-> 0]
    BY Zenon DEF Offset
  <1> QED  BY Zenon, <1>1, OffsetTaken

LEMMA CursorTaken ==
    ASSUME NEW view, NEW binding, NEW S, NEW items \in Seq(S), NEW summary,
           NEW limit \in 1..100, NEW start, Begins(start, limit, Len(items)),
           start < Len(items)
    PROVE  Page(view, binding, items, summary, Cursor(view.revision, binding, limit, start), limit)
           = PageFrom(view, binding, items, summary, limit, start)
  <1> DEFINE cursor == Cursor(view.revision, binding, limit, start)
  <1>1. /\ cursor.revision = view.revision /\ cursor.binding = binding
        /\ cursor.limit = limit /\ cursor.offset = start /\ cursor # NoCursor
    BY DEF Cursor, NoCursor
  <1>2. ~(start >= Len(items)) /\ start % limit = 0
    <2>1. Len(items) \in Nat
      OBVIOUS
    <2> QED  BY <2>1 DEF Begins
  <1> HIDE DEF cursor
  <1>3. Offset(cursor, view.revision, binding, limit, Len(items)) = [offset |-> start]
    BY Zenon, <1>1, <1>2 DEF Offset
  <1> QED  BY Zenon, <1>3, OffsetTaken DEF cursor

\* What such a page shows, and what is beside it.
Tells(p, view, binding, total, limit, start) ==
    LET At(k) == Cursor(view.revision, binding, limit, k)
    IN  /\ ~IsFault(p) /\ p.offset = start /\ p.total = total /\ p.limit = limit
        /\ Len(p.items) \in Nat
        /\ start + Len(p.items) = IF start + limit < total THEN start + limit ELSE total
        /\ p.next = IF start + limit < total THEN At(start + limit) ELSE NoCursor
        /\ p.previous = IF start = 0 THEN NoCursor ELSE At(start - limit)

LEMMA PageTells ==
    ASSUME NEW view, NEW binding, NEW S, NEW items \in Seq(S), NEW summary,
           NEW limit \in 1..100, NEW start, Begins(start, limit, Len(items))
    PROVE  Tells(PageFrom(view, binding, items, summary, limit, start),
                 view, binding, Len(items), limit, start)
  <1> DEFINE total == Len(items)
             end == IF start + limit < total THEN start + limit ELSE total
             p == PageFrom(view, binding, items, summary, limit, start)
             At(k) == Cursor(view.revision, binding, limit, k)
             part == SubSeq(items, start + 1, end)
  <1>1. start \in Nat /\ limit \in Nat /\ total \in Nat /\ start <= total
    BY DEF Begins
  <1>2. end \in Nat /\ start <= end /\ end <= total
    BY <1>1
  <1> HIDE DEF end
  <1>3. Len(part) = end - start
    BY <1>1, <1>2, Part
  <1>4. start # 0 => start >= limit
    BY <1>1, Multiples DEF Begins
  <1>5. /\ ~IsFault(p) /\ p.offset = start /\ p.total = total /\ p.limit = limit
        /\ p.items = part
        /\ p.next = IF end < total THEN At(end) ELSE NoCursor
        /\ p.previous = IF start = 0 THEN NoCursor
                        ELSE At(IF start < limit THEN 0 ELSE start - limit)
    BY DEF IsFault, PageFrom, end
  <1>6. p.previous = IF start = 0 THEN NoCursor ELSE At(start - limit)
    <2>1. start # 0 => (IF start < limit THEN 0 ELSE start - limit) = start - limit
      BY <1>1, <1>4
    <2> QED  BY <1>5, <2>1
  <1>7. p.next = IF start + limit < total THEN At(start + limit) ELSE NoCursor
    <2>1. start + limit < total => end = start + limit /\ end < total
      BY DEF end
    <2>2. ~(start + limit < total) => ~(end < total)
      BY <1>1 DEF end
    <2> QED  BY <1>5, <2>1, <2>2
  <1>8. Len(p.items) \in Nat /\ start + Len(p.items) = end
    BY <1>1, <1>2, <1>3, <1>5
  <1>9. /\ ~IsFault(p) /\ p.offset = start /\ p.total = total /\ p.limit = limit
        /\ Len(p.items) \in Nat
        /\ start + Len(p.items) = end
        /\ p.next = IF start + limit < total THEN At(start + limit) ELSE NoCursor
        /\ p.previous = IF start = 0 THEN NoCursor ELSE At(start - limit)
    BY Zenon, <1>5, <1>6, <1>7, <1>8
  <1> QED  BY Zenon, <1>9 DEF end, Tells

(***************************************************************************)
(* Turning the pages of a view goes through its list without a gap or an   *)
(* overlap: the cursor for the next page is accepted and begins where this *)
(* page ends, the one for the page before ends where this page begins, and *)
(* turning back gives this page again. A page without such a cursor is the *)
(* last, or the first (page, offset and cursor of view.rs).                *)
(***************************************************************************)
THEOREM PagesTurn ==
    ASSUME NEW view, NEW binding, NEW S, NEW items \in Seq(S), NEW summary, NEW limit,
           NEW cursor, cursor # NoCursor => cursor.offset \in Nat,
           ~IsFault(Page(view, binding, items, summary, cursor, limit))
    PROVE  LET PageAt(c) == Page(view, binding, items, summary, c, limit)
               p == PageAt(cursor)
           IN  /\ IF p.next = NoCursor THEN p.offset + Len(p.items) = Len(items)
                  ELSE LET q == PageAt(p.next)
                       IN  /\ ~IsFault(q) /\ q.offset = p.offset + Len(p.items)
                           /\ PageAt(q.previous) = p
               /\ IF p.previous = NoCursor THEN p.offset = 0
                  ELSE LET q == PageAt(p.previous)
                       IN  /\ ~IsFault(q) /\ q.offset + Len(q.items) = p.offset
                           /\ PageAt(q.next) = p
  <1> DEFINE total == Len(items)
             PageAt(c) == Page(view, binding, items, summary, c, limit)
             At(k) == Cursor(view.revision, binding, limit, k)
             From(k) == PageFrom(view, binding, items, summary, limit, k)
             p == PageAt(cursor)
  <1>1. limit \in 1..100
    BY PageIsFrom
  <1>2. PICK start : Begins(start, limit, total) /\ p = From(start)
    BY PageIsFrom
  <1>3. start \in Nat /\ total \in Nat /\ limit \in Nat \ {0} /\ start % limit = 0
    BY <1>1, <1>2 DEF Begins
  <1>4. \A k : At(k) # NoCursor
    BY DEF Cursor, NoCursor
  <1>5. ASSUME NEW k, Begins(k, limit, total)
        PROVE  /\ k < total => PageAt(At(k)) = From(k)
               /\ k = 0 => PageAt(NoCursor) = From(k)
    <2>1. ASSUME k < total PROVE PageAt(At(k)) = From(k)
      BY Zenon, <1>1, <1>5, <2>1, CursorTaken
    <2>2. ASSUME k = 0 PROVE PageAt(NoCursor) = From(k)
      BY Zenon, <1>1, <1>5, <2>2, FirstTaken
    <2> QED  BY <2>1, <2>2
  <1>6. ASSUME NEW k, Begins(k, limit, total)
        PROVE  /\ ~IsFault(From(k)) /\ From(k).offset = k /\ Len(From(k).items) \in Nat
               /\ k + Len(From(k).items) = IF k + limit < total THEN k + limit ELSE total
               /\ From(k).next = IF k + limit < total THEN At(k + limit) ELSE NoCursor
               /\ From(k).previous = IF k = 0 THEN NoCursor ELSE At(k - limit)
    <2>1. Tells(From(k), view, binding, total, limit, k)
      BY Zenon, <1>1, <1>6, PageTells
    <2> QED  BY Zenon, <2>1 DEF Tells
  <1> HIDE DEF PageAt, At, From, p
  <1>7. IF p.next = NoCursor THEN p.offset + Len(p.items) = total
        ELSE /\ ~IsFault(PageAt(p.next)) /\ PageAt(p.next).offset = p.offset + Len(p.items)
             /\ PageAt(PageAt(p.next).previous) = p
    <2>1. CASE start + limit < total
      <3>1. Begins(start + limit, limit, total) /\ start + limit # 0
        BY <1>3, <2>1, Multiples DEF Begins
      <3>2. p.next = At(start + limit) /\ PageAt(p.next) = From(start + limit)
        BY <1>2, <1>5, <1>6, <2>1, <3>1
      <3>3. (start + limit) - limit = start /\ start < total
        BY <1>3, <2>1
      <3>4. PageAt(p.next).previous = At(start)
        BY <1>6, <3>1, <3>2, <3>3
      <3>5. PageAt(At(start)) = p
        BY <1>2, <1>5, <3>3
      <3> QED  BY <1>2, <1>4, <1>6, <2>1, <3>1, <3>2, <3>4, <3>5
    <2>2. CASE ~(start + limit < total)
      BY <1>2, <1>6, <2>2
    <2> QED  BY <2>1, <2>2
  <1>8. IF p.previous = NoCursor THEN p.offset = 0
        ELSE /\ ~IsFault(PageAt(p.previous))
             /\ PageAt(p.previous).offset + Len(PageAt(p.previous).items) = p.offset
             /\ PageAt(PageAt(p.previous).next) = p
    <2>1. CASE start = 0
      BY <1>2, <1>6, <2>1
    <2>2. CASE start # 0
      <3> DEFINE back == start - limit
      <3>1. start < total
        BY <1>2, <2>2 DEF Begins
      <3>2. start >= limit /\ back % limit = 0
        BY <1>3, <2>2, Multiples
      <3>3. back \in Nat /\ back < total /\ back + limit = start
        BY <1>3, <3>1, <3>2
      <3> HIDE DEF back
      <3>4. Begins(back, limit, total)
        BY <3>2, <3>3 DEF Begins
      <3>5. p.previous = At(back) /\ PageAt(p.previous) = From(back)
        BY <1>2, <1>5, <1>6, <2>2, <3>3, <3>4 DEF back
      <3>6. PageAt(p.previous).next = At(start)
        BY <1>6, <3>1, <3>3, <3>4, <3>5
      <3>7. PageAt(At(start)) = p
        BY <1>2, <1>5, <3>1
      <3> QED  BY <1>2, <1>4, <1>6, <3>1, <3>3, <3>4, <3>5, <3>6, <3>7
    <2> QED  BY <2>1, <2>2
  <1> QED  BY <1>7, <1>8 DEF PageAt, p

(***************************************************************************)
(* A listing that is renewed stays where it was: the cursor anchored at an *)
(* old offset, or none, is accepted by the new view and finds the page     *)
(* that holds that row, or the last row of a list that got shorter         *)
(* (anchor_cursor of view.rs).                                             *)
(***************************************************************************)
THEOREM AnchorHoldsRow ==
    ASSUME NEW view, NEW binding, NEW S, NEW items \in Seq(S), NEW summary, NEW limit,
           NEW cursor, cursor # NoCursor => cursor.offset \in Nat, NEW offset \in Nat,
           ~IsFault(Page(view, binding, items, summary, cursor, limit))
    PROVE  LET PageAt(c) == Page(view, binding, items, summary, c, limit)
               q == PageAt(AnchorCursor(PageAt(cursor), offset))
               row == IF offset < Len(items) THEN offset ELSE Len(items) - 1
           IN  /\ ~IsFault(q)
               /\ items # <<>> => q.offset <= row /\ row < q.offset + Len(q.items)
  <1> DEFINE total == Len(items)
             PageAt(c) == Page(view, binding, items, summary, c, limit)
             At(k) == Cursor(view.revision, binding, limit, k)
             From(k) == PageFrom(view, binding, items, summary, limit, k)
             p == PageAt(cursor)
             c == AnchorCursor(p, offset)
             q == PageAt(c)
             row == IF offset < total THEN offset ELSE total - 1
             at == (row \div limit) * limit
             known == IF p.next # NoCursor THEN p.next ELSE p.previous
  <1>1. limit \in 1..100
    BY PageIsFrom
  <1>2. PICK start : Begins(start, limit, total) /\ p = From(start)
    BY PageIsFrom
  <1>3. start \in Nat /\ total \in Nat /\ limit \in Nat \ {0} /\ start <= total
    BY <1>1, <1>2 DEF Begins
  <1>4. \A k : At(k) # NoCursor
    BY DEF Cursor, NoCursor
  <1>5. ASSUME NEW k, Begins(k, limit, total)
        PROVE  /\ k < total => PageAt(At(k)) = From(k)
               /\ k = 0 => PageAt(NoCursor) = From(k)
    <2>1. ASSUME k < total PROVE PageAt(At(k)) = From(k)
      BY Zenon, <1>1, <1>5, <2>1, CursorTaken
    <2>2. ASSUME k = 0 PROVE PageAt(NoCursor) = From(k)
      BY Zenon, <1>1, <1>5, <2>2, FirstTaken
    <2> QED  BY <2>1, <2>2
  <1>6. ASSUME NEW k, Begins(k, limit, total)
        PROVE  /\ ~IsFault(From(k)) /\ From(k).offset = k /\ Len(From(k).items) \in Nat
               /\ From(k).total = total /\ From(k).limit = limit
               /\ k + Len(From(k).items) = IF k + limit < total THEN k + limit ELSE total
               /\ From(k).next = IF k + limit < total THEN At(k + limit) ELSE NoCursor
               /\ From(k).previous = IF k = 0 THEN NoCursor ELSE At(k - limit)
    <2>1. Tells(From(k), view, binding, total, limit, k)
      BY Zenon, <1>1, <1>6, PageTells
    <2> QED  BY Zenon, <2>1 DEF Tells
  <1>7. \A i, j : [At(i) EXCEPT !.offset = j] = At(j)
    BY DEF Cursor
  <1>8. items # <<>> => total > 0
    OBVIOUS
  <1>9. Begins(0, limit, total)
    BY <1>3 DEF Begins
  <1>10. total # 0 => row \in Nat /\ row < total
    BY <1>3
  <1>11. total # 0 => /\ at \in Nat /\ at <= row /\ row < at + limit /\ at % limit = 0
    BY <1>3, <1>10, LastMultiple
  <1>12. c = IF total = 0 \/ at = 0 \/ known = NoCursor THEN NoCursor
             ELSE [known EXCEPT !.offset = at]
    <2>1. p.total = total /\ p.limit = limit
      BY <1>2, <1>6
    <2>2. c = LET least == IF offset <= total - 1 THEN offset ELSE total - 1
                  m == (least \div limit) * limit
              IN  IF total = 0 \/ m = 0 \/ known = NoCursor THEN NoCursor
                  ELSE [known EXCEPT !.offset = m]
      BY <2>1 DEF AnchorCursor
    <2>3. (IF offset <= total - 1 THEN offset ELSE total - 1) = row
      BY <1>3
    <2> QED  BY <2>2, <2>3
  <1> DEFINE Found == /\ ~IsFault(q)
                      /\ items # <<>> => q.offset <= row /\ row < q.offset + Len(q.items)
  <1> SUFFICES Found
    BY Zenon
  <1> HIDE DEF PageAt, At, From, p, c, row, at
  <1>13. known # NoCursor => \E i : known = At(i)
    BY <1>2, <1>6
  <1>14. known = NoCursor => start = 0 /\ ~(start + limit < total)
    BY <1>2, <1>4, <1>6
  <1> HIDE DEF known
  <1>15. CASE total = 0
    BY <1>5, <1>6, <1>8, <1>9, <1>12, <1>15
  <1>16. CASE total # 0 /\ (at = 0 \/ known = NoCursor)
    <2>1. q = From(0)
      BY <1>5, <1>9, <1>12, <1>16
    <2>2. row < limit \/ ~(0 + limit < total)
      BY <1>3, <1>11, <1>14, <1>16
    <2>3. 0 + Len(q.items) = IF 0 + limit < total THEN 0 + limit ELSE total
      BY <1>6, <1>9, <2>1
    <2> QED  BY <1>3, <1>6, <1>9, <1>10, <1>16, <2>1, <2>2, <2>3 DEF row
  <1>17. CASE total # 0 /\ at # 0 /\ known # NoCursor
    <2>1. c = At(at)
      BY <1>7, <1>12, <1>13, <1>17
    <2>2. Begins(at, limit, total) /\ at < total
      BY <1>3, <1>10, <1>11, <1>17 DEF Begins
    <2>3. q = From(at)
      BY <1>5, <2>1, <2>2
    <2> QED  BY <1>3, <1>6, <1>10, <1>11, <1>17, <2>2, <2>3 DEF row
  <1> QED  BY <1>15, <1>16, <1>17
=============================================================================
