------------------------------- MODULE Pages -------------------------------
(***************************************************************************)
(* Pages of a list that a view of one publication shows                    *)
(* (crates/usage-core/src/view.rs). A cursor names the view, the query,    *)
(* the page size and where the page starts; its encoding is left out.      *)
(***************************************************************************)
EXTENDS Integers, Sequences

NoCursor == <<>>
Cursor(revision, binding, limit, offset) ==
    [revision |-> revision, binding |-> binding, limit |-> limit, offset |-> offset]

Fault(why) == [fault |-> why]
IsFault(page) == "fault" \in DOMAIN page

\* Where a page starts, or why there is none.
Offset(cursor, revision, binding, limit, total) ==
    IF limit \notin 1..100 THEN Fault("invalid")
    ELSE IF cursor = NoCursor THEN [offset |-> 0]
    ELSE IF cursor.revision # revision THEN Fault("stale")
    ELSE IF \/ cursor.binding # binding
            \/ cursor.limit # limit
            \/ cursor.offset % limit # 0
            \/ cursor.offset >= total THEN Fault("invalid")
    ELSE [offset |-> cursor.offset]

Page(view, binding, items, summary, cursor, limit) ==
    LET total == Len(items)
        found == Offset(cursor, view.revision, binding, limit, total)
        start == found.offset
        end == IF start + limit < total THEN start + limit ELSE total
        Neighbor(at) == Cursor(view.revision, binding, limit, at)
    IN  IF IsFault(found) THEN found
        ELSE [token |-> <<view.revision, binding, limit, start>>, revision |-> view.revision,
              total |-> total, offset |-> start, limit |-> limit, summary |-> summary,
              next |-> IF end < total THEN Neighbor(end) ELSE NoCursor,
              previous |-> IF start = 0 THEN NoCursor
                           ELSE Neighbor(IF start < limit THEN 0 ELSE start - limit),
              items |-> SubSeq(items, start + 1, end)]

\* Faulty: a page may start anywhere.
AnchorAtTheItem(page, offset) ==
    LET at == IF offset < page.total THEN offset ELSE page.total - 1
        known == IF page.next # NoCursor THEN page.next ELSE page.previous
    IN  IF page.total = 0 \/ at = 0 \/ known = NoCursor THEN NoCursor
        ELSE [known EXCEPT !.offset = at]

\* A cursor for the page of a new publication that holds an old offset.
AnchorCursor(page, offset) ==
    LET last == page.total - 1
        at == ((IF offset <= last THEN offset ELSE last) \div page.limit) * page.limit
        known == IF page.next # NoCursor THEN page.next ELSE page.previous
    IN  IF page.total = 0 \/ at = 0 \/ known = NoCursor THEN NoCursor
        ELSE [known EXCEPT !.offset = at]
=============================================================================
