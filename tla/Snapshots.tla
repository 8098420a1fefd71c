----------------------------- MODULE Snapshots -----------------------------
(***************************************************************************)
(* Snapshots of other devices (crates/usage-core/src/remote.rs): importing *)
(* one into the data stored for its device, renaming and forgetting        *)
(* a device, and turning stored data into sessions of a publication.       *)
(* A snapshot is a record [valid, newer, device, label, at, sessions]; its *)
(* sessions are those of Views, with uid "none" (NoId) when very old. What *)
(* is stored is a function from device codes to [label, sessions]; a file  *)
(* that holds some other document is Unreadable, and one that holds none   *)
(* is left out.                                                            *)
(***************************************************************************)
EXTENDS Views

Unreadable == [label |-> NoName]
Readable(stored, code) == code \in DOMAIN stored /\ stored[code] # Unreadable

\* What a document must be before anything of it is used.
Validate(snapshot) ==
    IF ~snapshot.valid THEN Fault("invalid")
    ELSE IF snapshot.newer THEN Fault("newer")
    ELSE IF snapshot.device = NoName THEN Fault("device")
    ELSE [code |-> snapshot.device]

\* A row is known by its session; old rows by their uid, path or content.
RowKey(row) ==
    IF row.id # NoId THEN row.id
    ELSE IF row.uid # NoId THEN row.uid
    ELSE IF row.path # NoId THEN row.path ELSE row

\* Faulty: only sessions that are not known yet are taken.
MergeMissingRows(existing, incoming) ==
    LET EndOf(s) == IF s.end # NoTime THEN s.end ELSE s.start
    IN  StableSort(Distinct(existing \o incoming, RowKey), LAMBDA a, b : EndOf(a) > EndOf(b))

\* The rows of both, an incoming one in the place and instead of the row it
\* has the key of, with its own details or with none; newest first.
MergeRows(existing, incoming) ==
    LET all == existing \o incoming
        first == Distinct(all, RowKey)
        Newest(key) == all[Max({i \in DOMAIN all : RowKey(all[i]) = key})]
        EndOf(s) == IF s.end # NoTime THEN s.end ELSE s.start
    IN  StableSort([k \in DOMAIN first |-> Newest(RowKey(first[k]))],
                   LAMBDA a, b : EndOf(a) > EndOf(b))

NeedsConfirmation(code) == [ok |-> FALSE, why |-> "confirm", code |-> code]
NeedsLabel(code) == [ok |-> FALSE, why |-> "label", code |-> code]

(***************************************************************************)
(* Import, rename and delete. Each is [result, stored]: a name the user    *)
(* gave before stays, and what is stored under an unreadable file is lost. *)
(***************************************************************************)
ImportSnapshot(stored, snapshot, label, confirmed, current) ==
    LET code == Validate(snapshot).code
        readable == Readable(stored, code)
        candidate == IF readable THEN stored[code].label
                     ELSE IF snapshot.label # NoName THEN snapshot.label ELSE code
        old == IF readable THEN stored[code].sessions ELSE <<>>
        row == [label |-> IF label # NoName THEN label ELSE candidate,
                sessions |-> MergeRows(old, snapshot.sessions)]
        result == [ok |-> TRUE, created |-> code \notin DOMAIN stored]
    IN  IF IsFault(Validate(snapshot))
        THEN [result |-> Validate(snapshot), stored |-> stored]
        ELSE IF code = current /\ ~confirmed
        THEN [result |-> NeedsConfirmation(code), stored |-> stored]
        ELSE IF code \notin DOMAIN stored /\ label = NoName
        THEN [result |-> NeedsLabel(code), stored |-> stored]
        ELSE [result |-> result, stored |-> (code :> row) @@ stored]

Rename(stored, code, label) ==
    IF ~Readable(stored, code) THEN [result |-> Fault("missing"), stored |-> stored]
    ELSE [result |-> [ok |-> TRUE],
          stored |-> [stored EXCEPT ![code].label = IF label = NoName THEN code ELSE label]]

Delete(stored, code) ==
    IF code \notin DOMAIN stored THEN [result |-> Fault("missing"), stored |-> stored]
    ELSE [result |-> [ok |-> TRUE],
          stored |-> [c \in DOMAIN stored \ {code} |-> stored[c]]]

(***************************************************************************)
(* A stored session as a publication shows it: under the device's own      *)
(* environment, and priced again with the prices known here, unless a      *)
(* request's model is not known.                                           *)
(***************************************************************************)
RemoteEnv(code) == <<"remote", code>>
RemoteUid(code, row) == <<code, IF row.uid # NoId THEN row.uid
                                ELSE IF row.id # NoId THEN row.id ELSE row.path>>

Transform(code, row) ==
    LET used == SelectSeq(row.rows, LAMBDA r : HasTokens(r.total))
        named == used # <<>> /\ \A i \in DOMAIN used : used[i].model # NoName
        moved == [row EXCEPT !.uid = RemoteUid(code, row), !.env = RemoteEnv(code)]
    IN  IF ~row.detailed \/ ~named THEN moved
        ELSE [moved EXCEPT !.pricing =
                 PriceEvents(row.rows, Deltas(row.rows), row.model, row.total, row.end, row.tier)]

RemoteSessions(stored, code) ==
    IF ~Readable(stored, code) THEN <<>>
    ELSE [i \in DOMAIN stored[code].sessions |-> Transform(code, stored[code].sessions[i])]
=============================================================================
