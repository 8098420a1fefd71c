----------------------------- MODULE Dashboard -----------------------------
(***************************************************************************)
(* The dashboard and the service behind it: a page that lists usage and    *)
(* exporters, while publications replace each other. The two share nothing *)
(* but the publication, which neither of them changes, so a behaviour is   *)
(* about one of them.                                                      *)
(***************************************************************************)
EXTENDS Browser, Exports

VARIABLE about      \* "page" or "exports"

vars == <<serverVars, pageVars, exportVars, about>>

Init ==
    /\ ServerInit
    /\ PageInit
    /\ ExportInit
    /\ about \in {"page", "exports"}

PublishStep == Publish /\ UNCHANGED <<pageVars, exportVars>>
AboutPage == about = "page" /\ PageStep /\ UNCHANGED exportVars
AboutExports == about = "exports" /\ ExportStep /\ UNCHANGED pageVars

Next == UNCHANGED about /\ (PublishStep \/ AboutPage \/ AboutExports)

(***************************************************************************)
(* Fairness: the page goes on (of its timers and its listing request, only *)
(* one is due at a time), the service answers a detail that is not lost,   *)
(* jobs come to an end and are asked after. The user and the index owe     *)
(* nothing.                                                                *)
(***************************************************************************)
PageGoesOn == about = "page" /\ (Poll \/ SearchTimer \/ Read \/ Answer) /\ UNCHANGED <<exportVars, about>>
DetailComes == about = "page" /\ DetailAnswer /\ UNCHANGED <<exportVars, about>>

ExportsGoOn ==
    /\ about = "exports"
    /\ \/ \E e \in Exporters : Find(e) \/ StartExport(e) \/ Progress(e) \/ Download(e)
       \/ \E i \in DOMAIN jobs : Complete(i)
    /\ UNCHANGED <<pageVars, about>>

Fairness == WF_vars(PageGoesOn) /\ WF_vars(DetailComes) /\ WF_vars(ExportsGoOn)

Spec == Init /\ [][Next]_vars
FairSpec == Spec /\ Fairness

(***************************************************************************)
(* Properties.                                                             *)
(***************************************************************************)
PublicationOf(listing) == listing.revision[1]
PeriodOf(listing) == listing.revision[2]

\* What is listed is a gapless part of one publication and one period, for the
\* filter that is shown as its filter, whatever became of the publication, the
\* filter and the kept views while it was put together from several answers
\* (load and loadMoreProjects, State::view).
ShownWhole ==
    page.listing # None =>
        LET l == page.listing
            rows == Rows(PublicationOf(l), [period |-> PeriodOf(l), filter |-> page.shown.query.filter])
        IN  /\ l.total = Len(rows)
            /\ l.items = SubSeq(rows, l.offset + 1, l.offset + Len(l.items))
            /\ l.next = NoCursor <=> l.offset + Len(l.items) = Len(rows)
            /\ page.shown.mode = "projects" => l.offset = 0

\* The page never goes back to an older publication than it has shown.
NeverBack ==
    [][page.listing # None =>
           page'.listing # None /\ PublicationOf(page'.listing) >= PublicationOf(page.listing)]_vars

\* The view of a period that is over has the same revision when it is built again.
SameWhenRebuilt == page.listing # None /\ PeriodOf(page.listing) \in Past

\* The detail belongs to the selected session, and once nothing is loading
\* any more and nothing failed, to the revision that is listed. (Not so in a
\* period that is over: if its view is dropped while a detail of it is asked
\* for, and built again for the reload, the listing has not changed, and the
\* detail of an earlier publication stays.)
DetailMatches ==
    page.bundle # None =>
        /\ page.bundle.id = page.selected
        /\ ~page.loading /\ ~page.detailLoading /\ ~page.failed /\ ~SameWhenRebuilt =>
               page.bundle.revision = page.listing.revision

UpToDate ==
    /\ page.listing # None
    /\ PublicationOf(page.listing) = pub
    /\ PeriodOf(page.listing) = page.query.period
    /\ page.shown = [query |-> page.query, mode |-> page.mode]
    /\ page.selected # NoSession =>
           /\ page.bundle # None
           /\ page.bundle.id = page.selected
           /\ ~SameWhenRebuilt => page.bundle.revision = page.listing.revision

\* When the user and the index are done, the page comes to show the current
\* publication and what was asked for, in the list and in the detail, and
\* stays so: no lost request, aborted load or skipped refresh leaves it behind.
Settles == <>[](about = "page" /\ pub > 0 => UpToDate)

\* A file that was saved holds one publication, one that was current after the
\* export was asked for, and was made private if that was asked for, whoever
\* else started the job.
ExportWhole ==
    \A e \in Exporters :
        client[e].state = "saved" =>
            /\ client[e].file[1] = client[e].redacted
            /\ client[e].file[2] \in client[e].asked..pub

\* Every export ends, also when its job was dropped to make room for others.
Done(e) == client[e].state \in {"saved", "failed", "expired"}
ExportsEnd == <>[](\A e \in Exporters : client[e].state # "idle" => Done(e))
=============================================================================
