------------------------------ MODULE Browser ------------------------------
(***************************************************************************)
(* The overview page of the dashboard (web/src/App.svelte and              *)
(* lib/data/http.ts): one listing, of projects or of sessions, and one     *)
(* selected session, kept up to date while publications, the user, lost    *)
(* requests and other pages interfere. JavaScript runs one handler at a    *)
(* time; a request that is superseded is aborted, and what it would have   *)
(* answered is dropped (HttpDashboard.get, listSequence, detailSequence).  *)
(* What is listed stands for projects and sessions alike. Errors are shown *)
(* until the next load; the calendar, the task lists inside a project, the *)
(* sort order and the wording are left out.                                *)
(***************************************************************************)
EXTENDS Serving

CONSTANTS
    PageSize,   \* projects asked for at first
    MaxPage,    \* sessions of a page, and the most that is asked for at once
    ActLimit,   \* acts of the user
    EarlyLimit, \* polls before the detail that was asked for has come
    LossLimit   \* requests that fail

ASSUME BrowserAssumption ==
    PageSize \in 1..MaxPage /\ MaxPage \in 1..100

VARIABLES
    page,       \* the state of the page
    asked,      \* the listing request it waits for
    detail,     \* the detail requests it waits for
    acts, losses, early

pageVars == <<page, asked, detail, acts, losses, early>>

None == [none |-> TRUE]
Modes == {"projects", "sessions"}
NoSession == "no session"

ASSUME RowsAssumption ==
    \A p \in 1..PublicationLimit, period \in Periods \cup {Elsewhere}, f \in Filters :
        LET rows == Rows(p, [period |-> period, filter |-> f])
        IN  rows \in Seq({rows[i] : i \in DOMAIN rows} \ {NoSession})

\* What the first page looks like before anything was answered.
Start == [query |-> CHOOSE q \in Queries : TRUE, mode |-> "projects"]

PageInit ==
    /\ page = [query |-> Start.query, mode |-> Start.mode, shown |-> Start, listing |-> None,
               loading |-> FALSE, more |-> FALSE, stuck |-> FALSE, typing |-> FALSE,
               failed |-> FALSE, seen |-> 0, selected |-> NoSession, bundle |-> None,
               scope |-> None, detailLoading |-> FALSE]
    /\ asked = None
    /\ detail = None
    /\ acts = 0
    /\ losses = 0
    /\ early = 0

(***************************************************************************)
(* The detail of a session: its metadata first, which tells whether the    *)
(* filters still let it through, then its events and its chart, all of the *)
(* revision that is listed. While a listing is loading it has to wait.     *)
(* Each operator returns the page and the detail requests.                 *)
(***************************************************************************)
Pair(p, d) == [page |-> p, detail |-> d]

Invalidated(p) ==
    Pair([p EXCEPT !.scope = None, !.detailLoading = p.selected # NoSession], None)

OpenDetail(p, id) ==
    LET chosen == [p EXCEPT !.selected = id,
                            !.bundle = IF @ # None /\ @.id = id THEN @ ELSE None]
    IN  IF p.loading THEN Invalidated(chosen)
        ELSE Pair([chosen EXCEPT !.scope = p.query, !.detailLoading = TRUE],
                  [id |-> id, query |-> p.query, step |-> "metadata",
                   revision |-> IF p.listing = None THEN NoRevision ELSE p.listing.revision])

ClearDetail(p) ==
    Pair([p EXCEPT !.selected = NoSession, !.bundle = None, !.scope = None,
                   !.detailLoading = FALSE], None)

\* Faulty: a detail that is there is not renewed with the listing.
SyncDetailOfSelection(p, changed) ==
    IF p.selected # NoSession /\ p.bundle = None
    THEN OpenDetail([p EXCEPT !.loading = FALSE], p.selected)
    ELSE Pair(p, detail)

\* After a listing: the detail follows it, unless it is what it should be.
SyncDetail(p, changed) ==
    IF /\ p.selected # NoSession
       /\ \/ changed
          \/ p.bundle = None
          \/ p.bundle # None /\ p.bundle.id # p.selected
          \/ p.scope # p.query
    THEN OpenDetail([p EXCEPT !.loading = FALSE], p.selected)
    ELSE Pair(p, detail)

(***************************************************************************)
(* load(). A refresh gives way to whatever is going on; it asks for as     *)
(* many projects as are shown and for no answer if nothing changed.        *)
(***************************************************************************)
Pending(p) ==
    p.listing # None /\ (p.mode # p.shown.mode \/ p.query # p.shown.query)

Less(a, b) == IF a < b THEN a ELSE b

Request(p, refresh, cursor) ==
    LET again == refresh /\ p.listing # None
        want == IF again /\ p.shown.mode = "projects" /\ p.listing.items # <<>>
                THEN Len(p.listing.items) ELSE PageSize
    IN  [for |-> "load", mode |-> p.mode, query |-> p.query, cursor |-> cursor,
         revision |-> IF cursor = NoCursor THEN NoRevision ELSE p.listing.revision,
         unless |-> IF again THEN p.listing.token ELSE NoRevision,
         offset |-> IF again THEN p.listing.offset ELSE 0,
         limit |-> IF p.mode = "projects" THEN Less(MaxPage, want) ELSE MaxPage,
         want |-> want, first |-> None, found |-> 0, read |-> FALSE]

Busy(p) == p.loading \/ p.more \/ p.typing

LoadedPage(p) == [p EXCEPT !.loading = TRUE, !.more = FALSE, !.stuck = FALSE,
                           !.typing = FALSE, !.failed = FALSE]

\* The next state of the page and its listing request, with given details.
\* (A quantifier over one value, here and below, is a LET that TLC evaluates once.)
Load(given, refresh, cursor) ==
    \E new \in {given} :
        /\ page' = LoadedPage(new.page)
        /\ asked' = Request(new.page, refresh /\ ~Pending(new.page), cursor)
        /\ detail' = new.detail

Refresh(p) ==
    IF Busy(p) THEN page' = p /\ UNCHANGED <<asked, detail>>
    ELSE Load(Pair(p, detail), TRUE, NoCursor)

(***************************************************************************)
(* Acts of the user.                                                       *)
(***************************************************************************)
Act ==
    /\ acts < ActLimit
    /\ acts' = acts + 1
    /\ UNCHANGED <<serverVars, losses, early>>

\* A search waits for more letters; every other change loads at once.
ChangeFilter ==
    \E f \in Filters \ {page.query.filter} :
        LET changed == Invalidated([page EXCEPT !.query.filter = f])
        IN  /\ Act
            /\ \/ Load(changed, FALSE, NoCursor)
               \/ /\ page' = [changed.page EXCEPT !.loading = TRUE, !.typing = TRUE, !.more = FALSE]
                  /\ asked' = None
                  /\ detail' = changed.detail

ChangePeriod ==
    \E d \in Periods \ {page.query.period} :
        /\ Act
        /\ Load(Invalidated([page EXCEPT !.query.period = d]), FALSE, NoCursor)

SwitchMode ==
    \E mode \in Modes \ {page.mode} :
        /\ Act
        /\ Load(Invalidated([page EXCEPT !.mode = mode]), FALSE, NoCursor)

\* The browser's back button, to the address the page was opened at.
Back ==
    LET opened == [page EXCEPT !.query = Start.query, !.mode = Start.mode, !.selected = NoSession]
    IN  /\ Act
        /\ Load(Invalidated([opened EXCEPT !.bundle = None]), FALSE, NoCursor)

\* The pager is disabled while a listing is loading.
Turn ==
    /\ page.listing # None
    /\ page.shown.mode = "sessions"
    /\ ~page.loading
    /\ \E cursor \in {page.listing.next, page.listing.previous} \ {NoCursor} :
           Load(Pair(page, detail), FALSE, cursor)
    /\ Act

\* Scrolling to the end of the projects, or trying that again.
LoadMore ==
    /\ page.listing # None
    /\ ~page.loading /\ ~page.more
    /\ ~Pending(page)
    /\ page.shown.mode = "projects"
    /\ page.listing.next # NoCursor
    /\ page' = [page EXCEPT !.more = TRUE, !.stuck = FALSE]
    /\ asked' = [for |-> "more", mode |-> "projects", query |-> page.shown.query,
                 cursor |-> page.listing.next, revision |-> page.listing.revision,
                 unless |-> NoRevision, offset |-> 0, limit |-> page.listing.limit,
                 want |-> 0, first |-> None, found |-> 0, read |-> FALSE]
    /\ UNCHANGED detail
    /\ Act

Select ==
    /\ page.listing # None
    /\ \E i \in DOMAIN page.listing.items :
           LET new == OpenDetail(page, page.listing.items[i])
           IN  page' = new.page /\ detail' = new.detail
    /\ UNCHANGED asked
    /\ Act

Close ==
    /\ page.selected # NoSession
    /\ page' = ClearDetail(page).page
    /\ detail' = ClearDetail(page).detail
    /\ UNCHANGED asked
    /\ Act

Retry ==
    /\ page.failed
    /\ Load(Pair(page, detail), FALSE, NoCursor)
    /\ Act

(***************************************************************************)
(* Timers and events.                                                      *)
(***************************************************************************)
Quiet == UNCHANGED <<serverVars, acts, losses, early>>

SearchTimer == page.typing /\ Load(Pair(page, detail), FALSE, NoCursor) /\ Quiet

\* When the page opens, every 15 s, and when the event stream is connected
\* again. Its answer makes the page ask again for a detail that has not come,
\* so that one which takes longer than a poll's period would never come.
Poll ==
    /\ ~Busy(page)
    /\ detail # None => early < EarlyLimit
    /\ early' = IF detail = None THEN early ELSE early + 1
    /\ Refresh(page)
    /\ UNCHANGED <<serverVars, acts, losses>>

\* The service says that there is another publication.
Notified ==
    /\ page.seen # pub
    /\ LET noted == [page EXCEPT !.seen = pub]
       IN  IF page.listing = None THEN Load(Pair(noted, detail), FALSE, NoCursor)
           ELSE Refresh(noted)
    /\ Quiet

(***************************************************************************)
(* The listing request: the service reads the publication, then takes the  *)
(* lock of the views and answers, and the page goes on.                    *)
(***************************************************************************)
Read ==
    /\ asked # None
    /\ asked.read = FALSE
    /\ asked' = [asked EXCEPT !.read = TRUE, !.found = pub]
    /\ UNCHANGED <<page, detail>>
    /\ Quiet

\* Faulty: a load that failed still counts as loading.
UnansweredLoading(told) ==
    /\ page' = IF asked.for = "load" THEN [page EXCEPT !.failed = told]
               ELSE [page EXCEPT !.more = FALSE, !.stuck = TRUE]
    /\ asked' = None
    /\ UNCHANGED detail

\* No page came. An index that is not ready yet is no error to tell the user.
Unanswered(told) ==
    /\ page' = IF asked.for = "load" THEN [page EXCEPT !.loading = FALSE, !.failed = told]
               ELSE [page EXCEPT !.more = FALSE, !.stuck = TRUE]
    /\ asked' = None
    /\ UNCHANGED detail

\* What is shown is what there is: the detail may still have to follow.
Same ==
    \E synced \in {SyncDetail(page, FALSE)} :
        /\ page' = [synced.page EXCEPT !.loading = FALSE]
        /\ asked' = None
        /\ detail' = synced.detail

Display(answer) ==
    LET old == IF page.listing = None THEN NoRevision ELSE page.listing.revision
    IN  \E shown \in {[page EXCEPT !.listing = answer,
                                   !.shown = [query |-> asked.query, mode |-> asked.mode]]} :
        \E new \in {SyncDetail(shown, answer.revision # old)} :
            /\ page' = [new.page EXCEPT !.loading = FALSE]
            /\ asked' = None
            /\ detail' = new.detail

\* Faulty: the joined list still asks for the page it has.
JoinedAtTheSameCursor(first, answer) ==
    [first EXCEPT !.items = @ \o answer.items, !.previous = NoCursor]

\* The projects got so far with those of the next page.
Joined(first, answer) ==
    [first EXCEPT !.items = @ \o answer.items, !.next = answer.next, !.previous = NoCursor]

\* A page that answers load(): projects are asked for until there are as many
\* as were shown.
LoadAnswered(answer) ==
    \E got \in {IF asked.first = None THEN answer ELSE Joined(asked.first, answer)} :
        IF asked.mode = "projects" /\ got.next # NoCursor /\ Len(got.items) < asked.want
        THEN /\ asked' = [asked EXCEPT !.first = got, !.cursor = got.next, !.unless = NoRevision,
                                       !.revision = got.revision, !.limit = got.limit, !.read = FALSE]
             /\ UNCHANGED <<page, detail>>
        ELSE Display(IF asked.mode = "projects" THEN [got EXCEPT !.previous = NoCursor] ELSE got)

MoreAnswered(answer) ==
    /\ page' = [page EXCEPT !.more = FALSE, !.listing = Joined(@, answer)]
    /\ asked' = None
    /\ UNCHANGED detail

Answer ==
    /\ asked # None
    /\ asked.read = TRUE
    /\ Serve(asked, asked.found)
    /\ \E answer \in Answers(asked, asked.found) :
           IF ~IsFault(answer)
           THEN IF asked.for = "more" THEN MoreAnswered(answer) ELSE LoadAnswered(answer)
           ELSE CASE answer.fault = "unchanged" -> Same
                  [] answer.fault = "stale" /\ asked.for = "load" ->
                         Load(Pair(page, detail), FALSE, NoCursor)
                  [] answer.fault = "stale" /\ asked.for = "more" ->
                         Refresh([page EXCEPT !.more = FALSE])
                  [] OTHER -> Unanswered(answer.fault # "loading")
    /\ UNCHANGED <<pub, others, acts, losses, early>>

\* The connection is lost before the answer.
Lose ==
    /\ asked # None
    /\ losses < LossLimit
    /\ losses' = losses + 1
    /\ Unanswered(TRUE)
    /\ UNCHANGED <<serverVars, acts, early>>

(***************************************************************************)
(* The detail requests. Events and chart are asked for together; either of *)
(* them finds the view or neither is used.                                 *)
(***************************************************************************)
DetailAnswer ==
    LET Listed(view) ==
            Rows(view.pub, [period |-> view.period, filter |-> detail.query.filter])
        Has(view) == \E i \in DOMAIN Listed(view) : Listed(view)[i] = detail.id
        named == Tokened(detail.revision)
    IN  /\ detail # None
        /\ \/ /\ named = {}
              /\ Load(Pair([page EXCEPT !.detailLoading = FALSE], None), FALSE, NoCursor)
           \/ /\ detail.step = "metadata"
              /\ \E i \in named : ~Has(views[i])
              /\ page' = ClearDetail(page).page
              /\ detail' = ClearDetail(page).detail
              /\ UNCHANGED asked
           \/ /\ detail.step = "metadata"
              /\ \E i \in named : Has(views[i])
              /\ detail' = [detail EXCEPT !.step = "events"]
              /\ UNCHANGED <<page, asked>>
           \/ /\ detail.step = "events"
              /\ named # {}
              /\ page' = [page EXCEPT !.bundle = [id |-> detail.id, revision |-> detail.revision],
                                      !.detailLoading = FALSE]
              /\ detail' = None
              /\ UNCHANGED asked
        /\ Quiet

LoseDetail ==
    /\ detail # None
    /\ losses < LossLimit
    /\ losses' = losses + 1
    /\ page' = [page EXCEPT !.bundle = None, !.detailLoading = FALSE]
    /\ detail' = None
    /\ UNCHANGED <<serverVars, asked, acts, early>>

PageStep ==
    \/ ChangeFilter \/ ChangePeriod \/ SwitchMode \/ Back \/ Turn \/ LoadMore
    \/ Select \/ Close \/ Retry \/ SearchTimer \/ Poll \/ Notified
    \/ Read \/ Answer \/ Lose \/ DetailAnswer \/ LoseDetail \/ (OtherView /\ UNCHANGED pageVars)
=============================================================================
