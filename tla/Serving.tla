------------------------------ MODULE Serving ------------------------------
(***************************************************************************)
(* How the service answers queries while publications replace each other   *)
(* (State::view of crates/usage-server/src/service.rs and the listing      *)
(* handlers of http.rs). A query is [period, filter]; Rows(p, q) is what   *)
(* publication p has for it. A view shows one publication and one period;  *)
(* the views built last are kept, and pages after the first are read from  *)
(* the kept view that their revision names, never from a newer one. Views  *)
(* are immutable, so a page read from one is Pages!Page of its rows.       *)
(***************************************************************************)
EXTENDS Pages

CONSTANTS
    Periods, Filters,
    Past,               \* periods that ended before today: their bounds are fixed
    Rows(_, _),         \* of a publication, for a query
    CacheSize,          \* views kept
    PublicationLimit,   \* publications
    OtherLimit          \* views that other pages ask for

ASSUME ServingAssumption ==
    /\ Periods # {} /\ Filters # {} /\ Past \subseteq Periods
    /\ CacheSize \in Nat \ {0} /\ PublicationLimit \in Nat

VARIABLES
    pub,        \* State.current: 0 before the first publication
    views,      \* State.views: Seq([pub, period, revision]), oldest first
    builds,     \* views built, which stands for the time of the last build
    others      \* those built for other pages

serverVars == <<pub, views, builds, others>>

Queries == [period : Periods, filter : Filters]
Elsewhere == "elsewhere"    \* a period that only other pages ask for
NoRevision == <<>>

ServerInit == pub = 0 /\ views = <<>> /\ builds = 0 /\ others = 0

(***************************************************************************)
(* State::view. The key of a kept view is its publication and period. What *)
(* View::new hashes into the revision includes the bounds of the period,   *)
(* and a period that is not past ends now.                                 *)
(***************************************************************************)
\* Faulty: a view kept for a period serves later publications.
KeyWithoutPublication(p, period) == <<period>>
Key(p, period) == <<p, period>>
Kept(p, period) == {i \in DOMAIN views : Key(views[i].pub, views[i].period) = Key(p, period)}
Tokened(revision) == {i \in DOMAIN views : views[i].revision = revision}

NewView(p, period) ==
    [pub |-> p, period |-> period,
     revision |-> <<p, period, IF period \in Past THEN 0 ELSE builds + 1>>]

Push(view) ==
    LET all == Append(views, view)
    IN  IF Len(all) > CacheSize THEN Tail(all) ELSE all

\* A view of a publication read before is built and kept if it is not yet.
Keep(p, period) ==
    IF Kept(p, period) # {} THEN UNCHANGED <<views, builds>>
    ELSE views' = Push(NewView(p, period)) /\ builds' = builds + 1

(***************************************************************************)
(* The listing handlers. A request for a later page names a revision; one  *)
(* for the first page may name an offset to be kept, and the answer the    *)
(* page already has.                                                       *)
(***************************************************************************)
Unchanged == [fault |-> "unchanged"]

PageOf(view, r, cursor) ==
    Page(view, <<r.mode, r.query.filter>>,
         Rows(view.pub, [period |-> view.period, filter |-> r.query.filter]),
         view.pub, cursor, r.limit)

Listing(view, r) ==
    LET first == PageOf(view, r, r.cursor)
        anchor == AnchorCursor(first, r.offset)
        page == IF IsFault(first) \/ r.cursor # NoCursor \/ anchor = NoCursor THEN first
                ELSE PageOf(view, r, anchor)
    IN  IF ~IsFault(page) /\ r.unless = page.token THEN Unchanged ELSE page

\* The view that answers a request which found publication p, if there is one:
\* the one it names, however old, or the current one of its period.
Chosen(r, p) ==
    IF r.revision # NoRevision THEN {views[i] : i \in Tokened(r.revision)}
    ELSE IF Kept(p, r.query.period) # {} THEN {views[i] : i \in Kept(p, r.query.period)}
    ELSE {NewView(p, r.query.period)}

Answers(r, p) ==
    IF p = 0 THEN {Fault("loading")}
    ELSE IF Chosen(r, p) = {} THEN {Fault("stale")}
    ELSE {Listing(view, r) : view \in Chosen(r, p)}

\* What answering it leaves behind.
Serve(r, p) ==
    IF p = 0 \/ r.revision # NoRevision THEN UNCHANGED <<views, builds>>
    ELSE Keep(p, r.query.period)

(***************************************************************************)
(* The rest of the service, as the page sees it.                           *)
(***************************************************************************)
Publish ==
    /\ pub < PublicationLimit
    /\ pub' = pub + 1
    /\ UNCHANGED <<views, builds, others>>

OtherView ==
    /\ pub > 0
    /\ others < OtherLimit
    /\ Kept(pub, Elsewhere) = {}
    /\ others' = others + 1
    /\ Keep(pub, Elsewhere)
    /\ UNCHANGED pub
=============================================================================
