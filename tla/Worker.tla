-------------------------------- MODULE Worker --------------------------------
(***************************************************************************)
(* The index worker of the dashboard service and the shared state it feeds *)
(* (crates/usage-server/src/service.rs), with the request handlers that    *)
(* send it commands (crates/usage-server/src/http.rs) and the remote       *)
(* snapshot store it owns (crates/usage-core/src/remote.rs, Store).        *)
(*                                                                         *)
(* One thread runs run_worker.  A pass refreshes the local index for the   *)
(* sources that are due, refreshes the remote store, publishes when either *)
(* reports a change, announces the outcome, answers the callers, and waits *)
(* for commands or the next poll.  The parts are abstracted as follows:    *)
(*   - the logs of a source are a version number, disk[s];                 *)
(*   - the index is the version it last took in, seen[s]; refresh_sources  *)
(*     is modelled by what it promises (IndexRefresh models how);          *)
(*   - an imported snapshot file is a version number and a presence flag;  *)
(*     the version of an absent file says which change removed it.         *)
(***************************************************************************)
EXTENDS Naturals, Sequences, FiniteSets

CONSTANTS
    Sources,    \* log sources a Codex home may name
    Network,    \* those on a network share: polled slower, not re-read on wake
    Homes,      \* the source selections a user may save
    InitHomes,  \* the selection the service starts with
    Devices,    \* devices whose snapshots may be imported
    Clients,    \* request handlers waiting on the worker, one call each
    Ops,        \* the calls clients make
    Apart,      \* pairs of them that are never queued together
    Edits,      \* the changes others make: "log", "write" and "remove"
    QueueCap,   \* capacity of the command channel (128 in the code)
    MaxEdits,   \* bound on changes made by others
    MaxCalls,   \* bound on calls
    MaxFaults   \* bound on failing steps

ASSUME WorkerAssumption ==
    /\ Network \subseteq Sources
    /\ Homes \subseteq (SUBSET Sources) \ {{}}
    /\ InitHomes \in Homes
    /\ Ops \subseteq {"refresh", "import", "rename", "delete", "sources", "polling",
                    "shutdown"}
    /\ Apart \subseteq SUBSET Ops
    /\ Edits \subseteq {"log", "write", "remove"}
    /\ QueueCap \in Nat \ {0}
    /\ MaxEdits \in Nat /\ MaxCalls \in Nat /\ MaxFaults \in Nat

VARIABLES
    \* the file system and the counters that bound a run
    disk, files, stamp, edits, calls, faults,
    \* struct State, with the channel its sender feeds
    queue, cancel, current, status, event,
    \* the locals of run_worker
    pc, sources, due, watched, inventory, localResult, passed, progressed,
    publication, batch, stopping, pending,
    \* the Index and the Store run_worker owns
    seen, force, cache, dirty,
    \* the saved selection: preferences.json and the managed instance.json
    saved, record,
    \* what callers know: the outcome of their call, and the newest content
    \* an "ok" answer has promised them
    reply, acked

envVars     == <<disk, files, stamp, edits>>
outsideVars == <<disk, files, stamp, edits, calls, cancel>>
noteVars    == <<status, event>>
sharedVars  == <<current, status, event>>
loopVars    == <<sources, due, watched>>
passVars    == <<inventory, localResult, passed, progressed>>
batchVars   == <<batch, stopping>>
indexVars   == <<seen, force>>
storeVars   == <<cache, dirty>>
savedVars   == <<saved, record>>
callerVars  == <<reply, acked>>
ownVars     == <<pc, sources, due, watched, inventory, localResult, passed,
                 progressed, publication, batch, stopping, pending, seen, force,
                 cache, dirty, saved, record>>
vars == <<outsideVars, faults, queue, sharedVars, ownVars, callerVars>>

-------------------------------------------------------------------------------
(* Data *)

\* A device's file in the remotes directory: when it was last written, and when
\* it was last removed.
File       == [ver : Nat, gone : Nat]
NoFile     == [ver |-> 0, gone |-> 0]
Present(f) == f.ver > f.gone
Vis(f)     == IF Present(f) THEN f.ver ELSE 0

\* What an "ok" answer lets its caller rely on: content at least this new.
Promise   == [local : [Sources -> Nat], remote : [Devices -> File]]
NoPromise == [local  |-> [s \in Sources |-> 0],
              remote |-> [d \in Devices |-> NoFile]]

\* A publication.  "listed" is a history field: the sources whose files the index
\* had listed itself by then, rather than found in its database.
Published == [rev : Nat, srcs : SUBSET Sources, listed : SUBSET Sources,
              local : [Sources -> Nat], remote : [Devices -> File]]

Command ==
       [op : {"refresh"}, by : Clients, floor : Promise]
  \cup [op : {"import"}, by : Clients, dev : Devices, labelled : BOOLEAN]
  \cup [op : {"rename", "delete"}, by : Clients, dev : Devices]
  \cup [op : {"sources"}, by : Clients, homes : Homes, expected : Homes]
  \cup [op : {"wake"}, src : Sources]
  \cup [op : {"polling", "stop"}]

Pending == [by : Clients, ok : BOOLEAN, floor : Promise]

Note(phase, r) == [phase |-> phase, rev |-> r]
Phases == {"loading", "parsing", "ready", "error"}

Higher(m, n) == IF m >= n THEN m ELSE n
Stamp(f)     == Higher(f.ver, f.gone)
Newer(f, g)  == IF Stamp(f) >= Stamp(g) THEN f ELSE g

Running == pc # "stopped"
MayFail == faults < MaxFaults
Fail    == MayFail /\ faults' = faults + 1

-------------------------------------------------------------------------------
(* Shared steps *)

\* update_status: readers see every new status, subscribers only a change of
\* phase or one the caller asked to notify.
UpdateStatus(note, notify) ==
    /\ status' = note
    /\ event' = IF status # note /\ (notify \/ status.phase # note.phase)
                THEN note ELSE event

\* Faulty: a reply already handed to the pass is not dropped with the thread.
DroppedLeaky == {queue[i].by : i \in {j \in DOMAIN queue : "by" \in DOMAIN queue[j]}}

\* The callers whose reply channel is dropped with the thread.
Dropped == {c \in Clients : reply[c] = "waiting"}

\* The worker's thread ends.  The receiver and the unsent replies are dropped,
\* which every waiting handler sees as a closed channel and answers 503.
Terminate ==
    /\ pc' = "stopped"
    /\ queue' = <<>> /\ batch' = <<>> /\ pending' = {}
    /\ reply' = [c \in Clients |-> IF c \in Dropped THEN "closed" ELSE reply[c]]

\* SyncSender::try_send: never blocks; a full queue or a gone receiver fails.
TrySend(cmd) ==
    IF Running /\ Len(queue) < QueueCap
    THEN queue' = Append(queue, cmd)
    ELSE UNCHANGED queue

Init ==
    /\ disk = [s \in Sources |-> 1]
    /\ files = [d \in Devices |-> NoFile]
    /\ stamp = 0 /\ edits = 0 /\ calls = 0 /\ faults = 0
    /\ queue = <<>> /\ cancel = FALSE
    /\ current = [rev |-> 0, srcs |-> {}, listed |-> {},
                  local |-> [s \in Sources |-> 0],
                  remote |-> [d \in Devices |-> NoFile]]
    /\ status = Note("loading", 0) /\ event = Note("loading", 0)
    /\ pc = "opening"
    /\ sources = InitHomes /\ due = InitHomes /\ watched = {}
    /\ inventory = [s \in Sources |-> 0]
    /\ localResult = "unchanged" /\ passed = FALSE /\ progressed = FALSE
    /\ publication = 0
    /\ batch = <<>> /\ stopping = FALSE /\ pending = {}
    /\ seen \in {[s \in Sources |-> IF s \in S THEN disk[s] ELSE 0] :
                   S \in {{}, InitHomes}}        \* a new index, or the last run's
    /\ force = FALSE
    /\ cache = [d \in Devices |-> 0] /\ dirty = FALSE
    /\ saved = InitHomes /\ record = InitHomes
    /\ reply = [c \in Clients |-> "none"]
    /\ acked = NoPromise

-------------------------------------------------------------------------------
(* One pass of run_worker *)

\* open_index succeeded: Index::open, Store::new, the watcher and the policies.
Open ==
    /\ pc = "opening"
    /\ pc' = "scan"
    /\ UNCHANGED <<outsideVars, faults, queue, sharedVars, loopVars, passVars,
                   publication, batchVars, pending, indexVars, storeVars,
                   savedVars, callerVars>>

\* open_index failed, or another writer held its lock for a minute: the worker
\* is gone and start's closure publishes the error.
OpenFails ==
    /\ pc = "opening"
    /\ Fail
    /\ Terminate
    /\ UpdateStatus(Note("error", 0), TRUE)
    /\ UNCHANGED <<outsideVars, current, loopVars, passVars, publication,
                   stopping, indexVars, storeVars, savedVars, acked>>

\* The sources refresh_sources lists: a forced refresh ignores the schedule.
Scope == IF due = {} THEN {} ELSE IF force THEN sources ELSE due

\* Faulty: the listing of the due sources is taken for that of all.
InventoryDue == [s \in Sources |-> IF s \in Scope THEN disk[s] ELSE 0]

\* What refresh_sources compares with the index: the files of the due sources as
\* they are, those of the others as they were last listed.  Nothing is listed
\* for a source until the first pass after Index::open that succeeds for it.
Inventory == [s \in Sources |-> IF s \in Scope THEN disk[s] ELSE inventory[s]]

\* Faulty: progress already names the revision being built.
ProgressRevisionAhead == publication + 1

\* The revision progress reports carry: the one readers can still fetch.
ProgressRevision == publication

\* The top of the loop: watch the due sources, and only those, then take the
\* inventory.  Without a change refresh_sources returns Ok(None) at once; files
\* found changed are parsed next, as far as the inventory measured them, and a
\* forced refresh goes through with everything.
Scan ==
    /\ pc = "scan"
    /\ watched' = due
    /\ inventory' = Inventory
    /\ \/ /\ due # {} /\ (inventory' # seen \/ force)
          /\ pc' = "parse"
          /\ progressed' = TRUE
          /\ UpdateStatus(Note("parsing", ProgressRevision), TRUE)
          /\ UNCHANGED <<due, localResult>>
       \/ /\ due # {} => inventory' = seen /\ ~force
          /\ pc' = "merge"
          /\ progressed' = FALSE
          /\ localResult' = "unchanged"
          /\ due' = {}
          /\ UNCHANGED noteVars
    /\ UNCHANGED <<outsideVars, faults, queue, current, sources, passed,
                   publication, batchVars, pending, indexVars, storeVars,
                   savedVars, callerVars>>

\* refresh_sources parsed the changed files and committed them.  It returns a
\* new snapshot unless every session came out the same.
Parse ==
    /\ pc = "parse"
    /\ pc' = "merge"
    /\ seen' = inventory
    /\ localResult' = IF seen' = seen THEN "unchanged" ELSE "changed"
    /\ force' = FALSE
    /\ due' = {}
    /\ UNCHANGED <<outsideVars, faults, queue, sharedVars, sources, watched,
                   inventory, passed, progressed, publication, batchVars,
                   pending, storeVars, savedVars, callerVars>>

\* refresh_sources returned an error: the discovery or a read failed, a log was
\* rewritten under the parser ("retry scheduled"), or the shutdown flag was seen.
\* The index keeps what it had, the inventory stays if it was complete, and the
\* schedule is reset all the same.
RefreshFails ==
    /\ \/ pc = "parse"
       \/ pc = "scan" /\ due # {}
    /\ IF cancel THEN UNCHANGED faults ELSE Fail
    /\ pc' = "merge"
    /\ watched' = IF pc = "scan" THEN due ELSE watched
    /\ inventory' \in IF pc = "scan" THEN {inventory, Inventory} ELSE {inventory}
    /\ progressed' = (pc = "parse")
    /\ localResult' = "error"
    /\ due' = {}
    /\ UNCHANGED <<outsideVars, queue, sharedVars, sources, passed, publication,
                   batchVars, pending, indexVars, storeVars, savedVars,
                   callerVars>>

\* Faulty: only a Stop command ends the loop.
CancelSeenNever == FALSE

CancelSeen == cancel

\* A shutdown was requested: leave the loop before touching the store.
Cancelled ==
    /\ pc = "merge" /\ CancelSeen
    /\ Terminate
    /\ UNCHANGED <<outsideVars, faults, sharedVars, loopVars, passVars,
                   publication, stopping, indexVars, storeVars, savedVars,
                   acked>>

\* Faulty: trust the cache alone, an operation leaves no mark.
RemoteChangedClean == \E d \in Devices : cache[d] # Vis(files[d])

RemoteChanged == dirty \/ \E d \in Devices : cache[d] # Vis(files[d])

\* The publication a pass ends with.
Snapshot(r, srcs, remote) ==
    [rev |-> r, srcs |-> srcs, listed |-> {s \in srcs : inventory[s] # 0},
     local |-> [s \in Sources |-> IF s \in srcs THEN seen[s] ELSE 0],
     remote |-> remote]

\* Faulty: imported snapshots wait for the next local change.
NeedsPublicationLocal == localResult = "changed" \/ publication = 0

NeedsPublication ==
    localResult = "changed" \/ RemoteChanged \/ publication = 0

\* Faulty: a publication announces itself only if logs were parsed for it.
NotifiesParsed == progressed

\* Whether the status after a publishing pass is pushed to the subscribers.
Notifies == TRUE

\* Store::refresh succeeded.  Publish if the index refresh succeeded as well
\* and either of them reports a change, or nothing was published yet.
Merge ==
    /\ pc = "merge" /\ ~CancelSeen
    /\ pc' = "announce"
    /\ cache' = [d \in Devices |-> Vis(files[d])]
    /\ dirty' = FALSE
    /\ passed' = (localResult # "error")
    /\ IF passed' /\ NeedsPublication
       THEN /\ publication' = publication + 1
            /\ current' = Snapshot(publication + 1, sources, files)
            /\ progressed' = Notifies
       ELSE UNCHANGED <<current, progressed, publication>>
    /\ UNCHANGED <<outsideVars, faults, queue, noteVars, loopVars, inventory,
                   localResult, batchVars, pending, indexVars, savedVars,
                   callerVars>>

\* Store::refresh failed: listing the directory (nothing was touched), or at
\* one of its files, when absent files are already dropped from the cache and
\* the files before it are already in it.
StoreFails ==
    /\ pc = "merge" /\ ~CancelSeen
    /\ Fail
    /\ pc' = "announce"
    /\ passed' = FALSE
    /\ \/ UNCHANGED cache
       \/ \E bad \in {d \in Devices : Present(files[d])} :
          \E done \in SUBSET (Devices \ {bad}) :
             cache' = [d \in Devices |->
                         IF d \in done \/ ~Present(files[d])
                         THEN Vis(files[d]) ELSE cache[d]]
    /\ UNCHANGED <<outsideVars, queue, sharedVars, loopVars, inventory,
                   localResult, progressed, publication, batchVars, pending,
                   indexVars, dirty, savedVars, callerVars>>

Announce ==
    /\ pc = "announce"
    /\ pc' = IF pending = {} THEN "wait" ELSE "answer"
    /\ IF passed
       THEN UpdateStatus(Note("ready", publication), progressed)
       ELSE UpdateStatus(Note("error", publication), TRUE)
    /\ UNCHANGED <<outsideVars, faults, queue, current, loopVars, passVars,
                   publication, batchVars, pending, indexVars, storeVars,
                   savedVars, callerVars>>

\* One reply of pending.drain(..): its own outcome, or the error of the pass.
Answer ==
    /\ pc = "answer"
    /\ \E p \in pending :
         /\ pending' = pending \ {p}
         /\ pc' = IF pending' = {} THEN "wait" ELSE "answer"
         /\ reply' = [reply EXCEPT ![p.by] = IF passed /\ p.ok THEN "ok" ELSE "error"]
         /\ acked' = IF passed /\ p.ok
                     THEN [local  |-> [s \in Sources |->
                                         Higher(acked.local[s], p.floor.local[s])],
                           remote |-> [d \in Devices |->
                                         Newer(acked.remote[d], p.floor.remote[d])]]
                     ELSE acked
    /\ UNCHANGED <<outsideVars, faults, queue, sharedVars, loopVars, passVars,
                   publication, batchVars, indexVars, storeVars, savedVars>>

-------------------------------------------------------------------------------
(* Waiting: recv_timeout until the next poll, at most two seconds *)

\* Faulty: no polling, rely on the watcher.
ElapseNever(D) == D \subseteq sources /\ due' = due

\* The sources whose poll interval ran out while the worker waited.
Elapse(D) == D \subseteq sources /\ due' = due \cup D

\* A local source is due within the longest wait, so that some source is due.
Timeout(D) ==
    /\ pc = "wait" /\ queue = <<>>
    /\ D = {} => sources \subseteq Network
    /\ Elapse(D)
    /\ pc' = "scan"
    /\ UNCHANGED <<outsideVars, faults, queue, sharedVars, sources, watched,
                   passVars, publication, batchVars, pending, indexVars,
                   storeVars, savedVars, callerVars>>

\* recv_timeout returned a command; try_iter empties the rest of the channel.
Receive(D) ==
    /\ pc = "wait" /\ queue # <<>>
    /\ Elapse(D)
    /\ pc' = "command"
    /\ batch' = queue /\ queue' = <<>>
    /\ stopping' = FALSE
    /\ UNCHANGED <<outsideVars, faults, sharedVars, sources, watched, passVars,
                   publication, pending, indexVars, storeVars, savedVars,
                   callerVars>>

-------------------------------------------------------------------------------
(* Commands, one at a time in the order they were sent *)

Cmd == Head(batch)
Take(op) == pc = "command" /\ batch # <<>> /\ Cmd.op = op /\ batch' = Tail(batch)

\* The reply of a command that waits for the next pass.
Later(ok, floor) ==
    pending' = pending \cup {[by |-> Cmd.by, ok |-> ok, floor |-> floor]}

\* The reply of a command that is answered on the spot.
Now(answer) == reply' = [reply EXCEPT ![Cmd.by] = answer]

\* Faulty: only the remote store is renewed.
ReadAllRemote == UNCHANGED <<force, due>>

\* Index::force_refresh, and every source due at once.
ReadAll == force' = TRUE /\ due' = sources

\* Command::Refresh: read everything again, with a new store.
Refresh ==
    /\ Take("refresh")
    /\ ReadAll
    /\ cache' = [d \in Devices |-> 0] /\ dirty' = FALSE
    /\ Later(TRUE, Cmd.floor)
    /\ UNCHANGED <<outsideVars, faults, queue, sharedVars, pc, sources, watched,
                   passVars, publication, stopping, seen, savedVars,
                   callerVars>>

\* Command::Wake: a log of the source changed, refresh it now.
Wake ==
    /\ Take("wake")
    /\ due' = due \cup ({Cmd.src} \cap sources)
    /\ UNCHANGED <<outsideVars, faults, queue, sharedVars, pc, sources, watched,
                   passVars, publication, stopping, pending, indexVars,
                   storeVars, savedVars, callerVars>>

\* Command::Reconfigure: new polling settings, everything is due.
Reconfigure ==
    /\ Take("polling")
    /\ due' = sources
    /\ UNCHANGED <<outsideVars, faults, queue, sharedVars, pc, sources, watched,
                   passVars, publication, stopping, pending, indexVars,
                   storeVars, savedVars, callerVars>>

Stop ==
    /\ Take("stop")
    /\ stopping' = TRUE
    /\ UNCHANGED <<outsideVars, faults, queue, sharedVars, pc, loopVars,
                   passVars, publication, pending, indexVars, storeVars,
                   savedVars, callerVars>>

Written(f) == [f EXCEPT !.ver = stamp + 1]
Removed(f) == [f EXCEPT !.gone = stamp + 1]

\* The promise of a command that left device d's file as f.
Wrote(d, f) == [NoPromise EXCEPT !.remote[d] = f]

\* Store::import, rename and delete, once the file is in place.
StoreWrite(d, f) ==
    /\ files' = [files EXCEPT ![d] = f]
    /\ stamp' = stamp + 1
    /\ cache' = [cache EXCEPT ![d] = 0]
    /\ dirty' = TRUE
    /\ Later(TRUE, Wrote(d, f))

\* Nothing was written: the reply asks for a label, or reports an error.
StoreKeep(ok) ==
    /\ Later(ok, NoPromise)
    /\ UNCHANGED <<files, stamp, storeVars>>

\* Command::Remote.  An import of a device not seen before needs a label; a
\* rename or a removal needs a stored snapshot.
Remote ==
    /\ LET old == files[Cmd.dev] IN
       \/ /\ Take("import")
          /\ IF Present(old) \/ Cmd.labelled
             THEN StoreWrite(Cmd.dev, Written(old)) ELSE StoreKeep(TRUE)
       \/ /\ Take("rename")
          /\ IF Present(old) THEN StoreWrite(Cmd.dev, Written(old)) ELSE StoreKeep(FALSE)
       \/ /\ Take("delete")
          /\ IF Present(old) THEN StoreWrite(Cmd.dev, Removed(old)) ELSE StoreKeep(FALSE)
    /\ UNCHANGED <<disk, edits, calls, cancel, faults, queue, sharedVars, pc,
                   loopVars, passVars, publication, stopping, indexVars,
                   savedVars, callerVars>>

\* Reading or writing the file failed; writes replace the file atomically.
RemoteFails ==
    /\ Take("import") \/ Take("rename") \/ Take("delete")
    /\ Fail
    /\ StoreKeep(FALSE)
    /\ UNCHANGED <<disk, edits, calls, cancel, queue, sharedVars, pc, loopVars,
                   passVars, publication, stopping, indexVars, savedVars,
                   callerVars>>

\* Command::Sources whose caller saw an older selection: refused.
SourcesConflict ==
    /\ Take("sources")
    /\ Cmd.expected # sources
    /\ Now("error")
    /\ UNCHANGED <<outsideVars, faults, queue, sharedVars, pc, loopVars,
                   passVars, publication, stopping, pending, indexVars,
                   storeVars, savedVars, acked>>

\* Faulty: the publication of a new selection forgets the remote sessions.
KeptRemotesNone == [d \in Devices |-> NoFile]

\* The remote sessions a new selection is published with.
KeptRemotes == current.remote

\* Faulty: the schedule of the old selection stays.
FreshScheduleStale(homes) == due

FreshSchedule(homes) == homes

\* Faulty: the record of the running service is left as it was started.
NewRecordStale(homes) == record

\* The selection instance.json names once the change is saved.
NewRecord(homes) == homes

\* Command::Sources: open and refresh the index of the new selection, save the
\* selection, and publish it with the remote sessions of the last publication.
\* Saving the selection in use again only saves it.
SwitchSources ==
    /\ Take("sources")
    /\ Cmd.expected = sources
    /\ saved' = Cmd.homes /\ record' = NewRecord(Cmd.homes)
    /\ Now("ok")
    /\ IF Cmd.homes = sources
       THEN UNCHANGED <<sharedVars, loopVars, inventory, publication, indexVars>>
       ELSE /\ sources' = Cmd.homes /\ due' = FreshSchedule(Cmd.homes) /\ watched' = Cmd.homes
            /\ seen' = [s \in Sources |-> IF s \in Cmd.homes THEN disk[s] ELSE 0]
            /\ inventory' = seen'
            /\ force' = FALSE
            /\ publication' = publication + 1
            /\ current' = [rev |-> publication + 1, srcs |-> Cmd.homes,
                           listed |-> Cmd.homes, local |-> seen',
                           remote |-> KeptRemotes]
            /\ UpdateStatus(Note("ready", publication + 1), TRUE)
    /\ UNCHANGED <<outsideVars, faults, queue, pc, localResult, passed,
                   progressed, stopping, pending, storeVars, acked>>

\* Opening or refreshing the new index failed or was aborted, the selection or
\* the record could not be written, or neither could be put back.
SourcesFail ==
    /\ Take("sources")
    /\ Cmd.expected = sources
    /\ \/ /\ cancel /\ Cmd.homes # sources
          /\ UNCHANGED <<faults, saved>>
       \/ /\ Fail
          /\ saved' \in {saved, Cmd.homes}
    /\ Now("error")
    /\ UNCHANGED <<outsideVars, queue, sharedVars, pc, loopVars, passVars,
                   publication, stopping, pending, indexVars, storeVars, record,
                   acked>>

\* The batch is done: leave, or start the next pass with every local source due.
EndBatch ==
    /\ pc = "command" /\ batch = <<>>
    /\ IF stopping
       THEN Terminate /\ UNCHANGED due
       ELSE /\ pc' = "scan"
            /\ due' = due \cup (sources \ Network)
            /\ UNCHANGED <<queue, batch, pending, reply>>
    /\ UNCHANGED <<outsideVars, faults, sharedVars, sources, watched, passVars,
                   publication, stopping, indexVars, storeVars, savedVars,
                   acked>>

-------------------------------------------------------------------------------
(* The others: request handlers, shutdown, and whoever writes the files *)

\* A handler sends its command and waits for the reply, or answers 503 at once.
Call(c, cmd) ==
    /\ reply[c] # "waiting" /\ calls < MaxCalls
    /\ \A k \in DOMAIN queue : {queue[k].op, cmd.op} \notin Apart
    /\ calls' = calls + 1
    /\ TrySend(cmd)
    /\ reply' = [reply EXCEPT ![c] = IF queue' = queue THEN "closed" ELSE "waiting"]
    /\ UNCHANGED <<envVars, cancel, faults, sharedVars, ownVars, acked>>

CallRefresh(c) ==
    /\ "refresh" \in Ops
    /\ Call(c, [op |-> "refresh", by |-> c,
                floor |-> [local |-> disk, remote |-> files]])

CallImport(c) ==
    /\ "import" \in Ops
    /\ \E d \in Devices, l \in BOOLEAN :
         Call(c, [op |-> "import", by |-> c, dev |-> d, labelled |-> l])

CallRemote(c) ==
    \E op \in Ops \cap {"rename", "delete"}, d \in Devices :
        Call(c, [op |-> op, by |-> c, dev |-> d])

\* The settings dialog sends the selection it shows with the one it loaded.
CallSources(c) ==
    /\ "sources" \in Ops
    /\ \E h, e \in Homes :
         Call(c, [op |-> "sources", by |-> c, homes |-> h, expected |-> e])

\* save_settings: the handler does not wait; a full queue drops the hint.
SavePolling ==
    /\ "polling" \in Ops /\ calls < MaxCalls
    /\ calls' = calls + 1
    /\ TrySend([op |-> "polling"])
    /\ UNCHANGED <<envVars, cancel, faults, sharedVars, ownVars, callerVars>>

\* Codex appends to a log.  The watcher's callback may send a hint for a source
\* it watches; the operating system or a full queue may drop it.
EditLog(s) ==
    /\ "log" \in Edits /\ edits < MaxEdits
    /\ edits' = edits + 1
    /\ disk' = [disk EXCEPT ![s] = @ + 1]
    /\ \/ UNCHANGED queue
       \/ s \in watched /\ TrySend([op |-> "wake", src |-> s])
    /\ UNCHANGED <<files, stamp, calls, cancel, faults, sharedVars, ownVars,
                   callerVars>>

\* Someone else writes or removes a file of the remotes directory.
EditRemote(d) ==
    /\ edits < MaxEdits
    /\ edits' = edits + 1
    /\ \/ /\ "write" \in Edits
          /\ files' = [files EXCEPT ![d] = Written(@)]
       \/ /\ "remove" \in Edits /\ Present(files[d])
          /\ files' = [files EXCEPT ![d] = Removed(@)]
    /\ stamp' = stamp + 1
    /\ UNCHANGED <<disk, calls, cancel, faults, queue, sharedVars, ownVars,
                   callerVars>>

\* request_shutdown: raise the flag, tell the subscribers.
RequestShutdown ==
    /\ "shutdown" \in Ops /\ ~cancel
    /\ cancel' = TRUE
    /\ event' = Note("shutdown", 0)
    /\ UNCHANGED <<envVars, calls, faults, queue, current, status, ownVars,
                   callerVars>>

\* stop_worker: a Stop in the queue if there is room, for a worker that waits.
StopWorker ==
    /\ cancel /\ Running
    /\ \A i \in DOMAIN queue : queue[i].op # "stop"
    /\ Len(queue) < QueueCap
    /\ TrySend([op |-> "stop"])
    /\ UNCHANGED <<outsideVars, faults, sharedVars, ownVars, callerVars>>

-------------------------------------------------------------------------------
Pass    == Open \/ OpenFails \/ Scan \/ Parse \/ RefreshFails \/ Cancelled \/ Merge
           \/ StoreFails \/ Announce \/ Answer
Waiting == \E D \in SUBSET Sources : Timeout(D) \/ Receive(D)
Handle  == Refresh \/ Wake \/ Reconfigure \/ Stop \/ Remote \/ RemoteFails
           \/ SourcesConflict \/ SwitchSources \/ SourcesFail \/ EndBatch
Others  == \/ \E c \in Clients : CallRefresh(c) \/ CallImport(c) \/ CallRemote(c)
                                 \/ CallSources(c)
           \/ SavePolling \/ RequestShutdown \/ StopWorker
           \/ \E s \in Sources : EditLog(s)
           \/ \E d \in Devices : EditRemote(d)

WorkerStep == Pass \/ Waiting \/ Handle
Next == WorkerStep \/ Others

Spec == Init /\ [][Next]_vars

\* The worker's thread runs, and the poll of every source comes round: due_at
\* is an absolute time, and the worker never waits longer than two seconds.
PollDue(s) == \E D \in SUBSET Sources : s \in D /\ (Timeout(D) \/ Receive(D))
Fairness == WF_vars(WorkerStep) /\ \A s \in Sources : SF_vars(PollDue(s))
FairSpec == Spec /\ Fairness

-------------------------------------------------------------------------------
(* Properties *)

\* Every variable keeps its type; the schedule and the watches only name
\* sources that are selected, and replies are owed to waiting callers only.
TypeOK ==
    /\ disk \in [Sources -> Nat] /\ files \in [Devices -> File]
    /\ stamp \in Nat /\ edits \in Nat /\ calls \in Nat /\ faults \in Nat
    /\ queue \in Seq(Command) /\ Len(queue) <= QueueCap
    /\ cancel \in BOOLEAN
    /\ current \in Published
    /\ status \in [phase : Phases, rev : Nat]
    /\ event \in [phase : Phases \cup {"shutdown"}, rev : Nat]
    /\ pc \in {"opening", "scan", "parse", "merge", "announce", "answer", "wait",
               "command", "stopped"}
    /\ sources \in Homes /\ due \subseteq sources /\ watched \subseteq sources
    /\ inventory \in [Sources -> Nat]
    /\ localResult \in {"unchanged", "changed", "error"}
    /\ passed \in BOOLEAN /\ progressed \in BOOLEAN
    /\ publication \in Nat
    /\ batch \in Seq(Command) /\ stopping \in BOOLEAN
    /\ pending \subseteq Pending
    /\ seen \in [Sources -> Nat] /\ force \in BOOLEAN
    /\ cache \in [Devices -> Nat] /\ dirty \in BOOLEAN
    /\ saved \in Homes /\ record \in Homes
    /\ reply \in [Clients -> {"none", "waiting", "ok", "error", "closed"}]
    /\ acked \in Promise

\* The status never names a revision that State.current does not hold yet: a
\* reader told of revision r by a status or an event fetches r or a later one.
StatusNeverAhead == status.rev <= current.rev /\ event.rev <= current.rev

\* While the worker waits, the last event subscribers got says what the status
\* says, so a window that only listens is never left behind (update_status,
\* run_worker's progressed flag).  The shutdown event may hide a later status.
EventKeepsUp == pc = "wait" => event = status \/ cancel

\* An "ok" is sent only when the publication shows what it acknowledges: the
\* imported, renamed or removed snapshot, or everything on disk when a refresh
\* was requested ("Reply only after the associated publication is ready").
AckedVisible ==
    /\ \A s \in current.srcs : current.local[s] >= acked.local[s]
    /\ \A d \in Devices :
         IF Present(current.remote[d])
         THEN current.remote[d].ver >= Stamp(acked.remote[d])
         ELSE Present(acked.remote[d]) => files[d].gone > acked.remote[d].ver

\* While the worker waits, readers see what the index and the store hold: no
\* change was taken in by one of them without reaching a publication.
NothingUnpublished ==
    pc = "wait" =>
        /\ current.srcs = sources
        /\ \A s \in sources : current.local[s] = seen[s]
        /\ \A d \in Devices : Vis(current.remote[d]) = cache[d]

\* The record of the managed service names the sources it serves, whatever step
\* of a change of the selection fails: ensure_service compares it with the
\* sources a caller asks for.  The saved selection agrees unless a step failed.
RecordDescribesService ==
    /\ record = sources
    /\ saved # sources => faults > 0

\* State.current is the register Publication describes: whole publications with
\* consecutive revisions whose content never moves back.  What the index only
\* found in its database is not promised to stay: see IndexKeeps.
Pub == INSTANCE Publication WITH
         rev <- current.rev, srcs <- current.listed, local <- current.local,
         remote <- [d \in Devices |-> Stamp(current.remote[d])]
PublishesForward == Pub!PubSpec

\* The index never loses the logs of a source that stays selected, whatever
\* fails: "Inventory I/O errors retain the last published snapshot".
IndexKeeps == [][\A s \in sources \cap sources' : seen'[s] >= seen[s]]_vars

\* Every call is answered: the handlers wait for the worker without a timeout.
Answered == \A c \in Clients : (reply[c] = "waiting") ~> (reply[c] # "waiting")

\* Once a shutdown is requested the worker's thread ends by itself, even if no
\* Stop command reaches it.
Terminates == cancel ~> (pc = "stopped")

\* Readers see what is on disk.
Fresh ==
    /\ current.rev > 0
    /\ \A s \in current.srcs : current.local[s] = disk[s]
    /\ \A d \in Devices : Vis(current.remote[d]) = Vis(files[d])

\* Once nobody changes files any more, readers get to see the final content,
\* with every watcher hint dropped ("Poll even without watcher events; dropped
\* notifications ... converge on the same inventory"), as long as no step fails.
Converges == <>[](Fresh \/ pc = "stopped" \/ faults > 0)
===============================================================================
