---------------------------- MODULE WorkerProofs ----------------------------
(***************************************************************************)
(* Proofs about the index worker, for any number of sources, devices and   *)
(* callers, any capacity of the command channel and any number of changes, *)
(* calls and failures.                                                     *)
(***************************************************************************)
EXTENDS Worker, TLAPS

USE DEF envVars, outsideVars, noteVars, sharedVars, loopVars, passVars,
        batchVars, indexVars, storeVars, savedVars, callerVars

-------------------------------------------------------------------------------
(* Data *)

\* A stamp is a number, and two files compare by their stamps.
LEMMA StampType == \A f \in File : Stamp(f) \in Nat /\ Vis(f) \in Nat
  BY DEF File, Stamp, Higher, Vis, Present

\* The content of a command, by its name.
LEMMA CommandFields ==
  ASSUME NEW m \in Command
  PROVE  /\ m.op = "refresh" => m.by \in Clients /\ m.floor \in Promise
         /\ m.op \in {"import", "rename", "delete"} => m.by \in Clients /\ m.dev \in Devices
         /\ m.op = "sources" => /\ m.by \in Clients
                                /\ m.homes \in Homes /\ m.expected \in Homes
         /\ m.op = "wake" => m.src \in Sources
  BY DEF Command

\* A selection is a set of sources.
LEMMA HomesType == \A h \in Homes : h \subseteq Sources
  BY WorkerAssumption

\* The empty sequence is a queue.
LEMMA EmptyType == <<>> \in Seq(Command) /\ Len(<<>>) <= QueueCap
  BY WorkerAssumption

\* Taking a command leaves a sequence of commands and uncovers one.
LEMMA TakeType ==
  ASSUME TypeOK, NEW op, Take(op)
  PROVE  Cmd \in Command /\ Cmd.op = op /\ batch' \in Seq(Command)
  BY DEF TypeOK, Take, Cmd

\* The empty promise, and one about a single device.
LEMMA PromiseType ==
  /\ NoPromise \in Promise
  /\ \A d \in Devices, f \in File : Wrote(d, f) \in Promise
  BY DEF NoPromise, Promise, NoFile, File, Wrote


-------------------------------------------------------------------------------
(* Types *)

LEMMA TypeInit == Init => TypeOK
  <1> SUFFICES ASSUME Init PROVE TypeOK
    OBVIOUS
  <1>1. /\ NoPromise \in Promise /\ current \in Published
        /\ files \in [Devices -> File]
    BY PromiseType DEF Init, Published, NoFile, File
  <1>2. /\ status \in [phase : Phases, rev : Nat]
        /\ event \in [phase : Phases \cup {"shutdown"}, rev : Nat]
    BY DEF Init, Note, Phases
  <1>3. disk \in [Sources -> Nat] /\ seen \in [Sources -> Nat]
    BY DEF Init
  <1>4. queue \in Seq(Command) /\ Len(queue) <= QueueCap /\ batch \in Seq(Command)
    BY EmptyType DEF Init
  <1>5. sources \in Homes /\ saved \in Homes /\ record \in Homes
    BY WorkerAssumption DEF Init
  <1>6. inventory \in [Sources -> Nat] /\ cache \in [Devices -> Nat]
    BY DEF Init
  <1> QED
    BY <1>1, <1>2, <1>3, <1>4, <1>5, <1>6 DEF Init, TypeOK

\* Announcing a well-formed note keeps status and event well-formed.
LEMMA StatusType ==
  ASSUME TypeOK, NEW phase \in Phases, NEW r \in Nat, NEW notify \in BOOLEAN,
         UpdateStatus(Note(phase, r), notify)
  PROVE  /\ status' \in [phase : Phases, rev : Nat]
         /\ event' \in [phase : Phases \cup {"shutdown"}, rev : Nat]
  BY DEF TypeOK, UpdateStatus, Note

\* Ending the thread keeps the types of what it touches.
LEMMA TerminateType ==
  ASSUME TypeOK, Terminate
  PROVE  /\ pc' = "stopped"
         /\ queue' \in Seq(Command) /\ Len(queue') <= QueueCap
         /\ batch' \in Seq(Command) /\ pending' \subseteq Pending
         /\ reply' \in [Clients -> {"none", "waiting", "ok", "error", "closed"}]
  BY EmptyType DEF TypeOK, Terminate

\* Sending a command keeps the queue within its capacity.
LEMMA SendType ==
  ASSUME TypeOK, NEW cmd \in Command, TrySend(cmd)
  PROVE  queue' \in Seq(Command) /\ Len(queue') <= QueueCap
  <1>1. queue \in Seq(Command) /\ Len(queue) \in Nat /\ QueueCap \in Nat
    BY WorkerAssumption DEF TypeOK
  <1>2. CASE queue' = Append(queue, cmd) /\ Len(queue) < QueueCap
    BY <1>1, <1>2
  <1>3. CASE queue' = queue
    BY <1>3 DEF TypeOK
  <1> QED
    BY <1>2, <1>3 DEF TrySend

\* An inventory is a version of every source.
LEMMA InventoryType == TypeOK => Inventory \in [Sources -> Nat]
  BY DEF TypeOK, Inventory

LEMMA TypePass ==
  ASSUME TypeOK, Pass
  PROVE  TypeOK'
  <1>1. CASE Open
    BY <1>1 DEF Open, TypeOK
  <1>2. CASE OpenFails
    <2>1. /\ status' \in [phase : Phases, rev : Nat]
          /\ event' \in [phase : Phases \cup {"shutdown"}, rev : Nat]
      BY <1>2, StatusType DEF OpenFails, Phases
    <2>2. /\ pc' = "stopped" /\ faults' \in Nat
          /\ queue' \in Seq(Command) /\ Len(queue') <= QueueCap
          /\ batch' \in Seq(Command) /\ pending' \subseteq Pending
          /\ reply' \in [Clients -> {"none", "waiting", "ok", "error", "closed"}]
      BY <1>2, TerminateType DEF OpenFails, TypeOK, Fail
    <2> QED
      BY <1>2, <2>1, <2>2 DEF OpenFails, TypeOK
  <1>3. CASE Scan
    <2>1. inventory' \in [Sources -> Nat]
      BY <1>3, InventoryType DEF Scan
    <2>2. CASE pc' = "parse"
      <3>1. /\ status' \in [phase : Phases, rev : Nat]
            /\ event' \in [phase : Phases \cup {"shutdown"}, rev : Nat]
        BY <1>3, <2>2, StatusType DEF Scan, Phases, ProgressRevision, TypeOK
      <3> QED
        BY <1>3, <2>1, <2>2, <3>1 DEF Scan, TypeOK
    <2>3. CASE pc' = "merge"
      BY <1>3, <2>1, <2>3 DEF Scan, TypeOK
    <2> QED
      BY <1>3, <2>2, <2>3 DEF Scan
  <1>4. CASE Parse
    BY <1>4 DEF Parse, TypeOK
  <1>5. CASE RefreshFails
    <2>1. faults' \in Nat
      BY <1>5 DEF RefreshFails, TypeOK, Fail
    <2>2. watched' \subseteq sources
      BY <1>5 DEF RefreshFails, TypeOK
    <2>3. progressed' \in BOOLEAN
      BY <1>5 DEF RefreshFails
    <2>4. inventory' \in [Sources -> Nat]
      <3>1. inventory' \in {inventory, Inventory}
        BY <1>5 DEF RefreshFails
      <3> QED
        BY <3>1, InventoryType DEF TypeOK
    <2> QED
      BY <1>5, <2>1, <2>2, <2>3, <2>4 DEF RefreshFails, TypeOK
  <1>6. CASE Cancelled
    BY <1>6, TerminateType DEF Cancelled, TypeOK
  <1>7. CASE Merge
    <2>1. cache' \in [Devices -> Nat]
      BY <1>7, StampType DEF Merge, TypeOK
    <2>2. Snapshot(publication + 1, sources, files) \in Published
      <3>1. sources \in SUBSET Sources /\ publication + 1 \in Nat
        BY HomesType DEF TypeOK
      <3>2. [s \in Sources |-> IF s \in sources THEN seen[s] ELSE 0] \in [Sources -> Nat]
        BY DEF TypeOK
      <3> QED
        BY <3>1, <3>2 DEF Snapshot, Published, TypeOK
    <2>3. publication' \in Nat /\ current' \in Published /\ progressed' \in BOOLEAN
      <3>1. CASE passed' /\ NeedsPublication
        <4>1. /\ publication' = publication + 1
              /\ current' = Snapshot(publication + 1, sources, files)
              /\ progressed' = TRUE
          BY <1>7, <3>1 DEF Merge, Notifies
        <4> QED
          BY <2>2, <4>1 DEF TypeOK
      <3>2. CASE ~(passed' /\ NeedsPublication)
        BY <1>7, <3>2 DEF Merge, TypeOK
      <3> QED
        BY <3>1, <3>2
    <2> QED
      BY <1>7, <2>1, <2>3 DEF Merge, TypeOK
  <1>8. CASE StoreFails
    <2>1. cache' \in [Devices -> Nat]
      <3>1. CASE UNCHANGED cache
        BY <3>1 DEF TypeOK
      <3>2. CASE \E done \in SUBSET Devices :
                    cache' = [d \in Devices |->
                                IF d \in done \/ ~Present(files[d])
                                THEN Vis(files[d]) ELSE cache[d]]
        BY <3>2, StampType DEF TypeOK
      <3> QED
        BY <1>8, <3>1, <3>2 DEF StoreFails
    <2>2. faults' \in Nat
      BY <1>8 DEF StoreFails, TypeOK, Fail
    <2> QED
      BY <1>8, <2>1, <2>2 DEF StoreFails, TypeOK
  <1>9. CASE Announce
    <2>1. /\ status' \in [phase : Phases, rev : Nat]
          /\ event' \in [phase : Phases \cup {"shutdown"}, rev : Nat]
      <3> publication \in Nat /\ progressed \in BOOLEAN
        BY DEF TypeOK
      <3>1. CASE passed
        BY <1>9, <3>1, StatusType DEF Announce, Phases
      <3>2. CASE ~passed
        BY <1>9, <3>2, StatusType DEF Announce, Phases
      <3> QED
        BY <3>1, <3>2
    <2> QED
      BY <1>9, <2>1 DEF Announce, TypeOK
  <1>10. CASE Answer
    <2> PICK p \in pending :
          /\ pending' = pending \ {p}
          /\ reply' = [reply EXCEPT ![p.by] = IF passed /\ p.ok THEN "ok" ELSE "error"]
          /\ acked' = IF passed /\ p.ok
                      THEN [local  |-> [s \in Sources |->
                                          Higher(acked.local[s], p.floor.local[s])],
                            remote |-> [d \in Devices |->
                                          Newer(acked.remote[d], p.floor.remote[d])]]
                      ELSE acked
      BY <1>10 DEF Answer
    <2>1. p \in Pending /\ p.floor \in Promise
      BY DEF TypeOK, Pending
    <2>2. acked' \in Promise
      BY <2>1 DEF TypeOK, Promise, Higher, Newer
    <2>3. /\ reply' \in [Clients -> {"none", "waiting", "ok", "error", "closed"}]
          /\ pending' \subseteq Pending
      BY DEF TypeOK
    <2> QED
      BY <1>10, <2>2, <2>3 DEF Answer, TypeOK
  <1> QED
    BY <1>1, <1>2, <1>3, <1>4, <1>5, <1>6, <1>7, <1>8, <1>9, <1>10 DEF Pass

LEMMA TypeWaiting ==
  ASSUME TypeOK, Waiting
  PROVE  TypeOK'
  <1> PICK D \in SUBSET Sources : Timeout(D) \/ Receive(D)
    BY DEF Waiting
  <1>1. CASE Timeout(D)
    BY <1>1 DEF Timeout, Elapse, TypeOK
  <1>2. CASE Receive(D)
    <2>1. batch' \in Seq(Command) /\ due' \subseteq sources
      BY <1>2 DEF Receive, Elapse, TypeOK
    <2>2. queue' \in Seq(Command) /\ Len(queue') <= QueueCap
      BY <1>2, EmptyType DEF Receive
    <2> QED
      BY <1>2, <2>1, <2>2 DEF Receive, TypeOK
  <1> QED
    BY <1>1, <1>2

\* A reply that waits for the next pass, or one given at once, is well-typed.
LEMMA ReplyType ==
  ASSUME TypeOK, Cmd.by \in Clients
  PROVE  /\ \A ok \in BOOLEAN, floor \in Promise :
               Later(ok, floor) => pending' \subseteq Pending
         /\ \A answer \in {"ok", "error"} : Now(answer) =>
               reply' \in [Clients -> {"none", "waiting", "ok", "error", "closed"}]
  <1>1. ASSUME NEW ok \in BOOLEAN, NEW floor \in Promise, Later(ok, floor)
        PROVE  pending' \subseteq Pending
    <2>1. [by |-> Cmd.by, ok |-> ok, floor |-> floor] \in Pending
      BY DEF Pending
    <2> QED
      BY <1>1, <2>1 DEF Later, TypeOK
  <1>2. ASSUME NEW answer \in {"ok", "error"}, Now(answer)
        PROVE  reply' \in [Clients -> {"none", "waiting", "ok", "error", "closed"}]
    BY <1>2 DEF Now, TypeOK
  <1> QED
    BY <1>1, <1>2

\* Writing or removing a file leaves a file.
LEMMA StoreFiles ==
  ASSUME TypeOK, NEW d \in Devices
  PROVE  Written(files[d]) \in File /\ Removed(files[d]) \in File
  <1>1. files[d] \in File /\ stamp + 1 \in Nat
    BY DEF TypeOK
  <1> QED
    BY <1>1 DEF Written, Removed, File

\* A write to the store: a newer file, an emptied cache entry, a reply to come.
LEMMA StoreType ==
  ASSUME TypeOK, Cmd.by \in Clients, NEW d \in Devices
  PROVE  /\ Written(files[d]) \in File /\ Removed(files[d]) \in File
         /\ \A f \in File : StoreWrite(d, f) =>
               /\ files' \in [Devices -> File] /\ stamp' \in Nat
               /\ cache' \in [Devices -> Nat] /\ dirty' \in BOOLEAN
               /\ pending' \subseteq Pending
         /\ \A ok \in BOOLEAN : StoreKeep(ok) =>
               /\ files' \in [Devices -> File] /\ stamp' \in Nat
               /\ cache' \in [Devices -> Nat] /\ dirty' \in BOOLEAN
               /\ pending' \subseteq Pending
  <1>1. Written(files[d]) \in File /\ Removed(files[d]) \in File
    BY StoreFiles
  <1>2. ASSUME NEW f \in File, StoreWrite(d, f)
        PROVE  /\ files' \in [Devices -> File] /\ stamp' \in Nat
               /\ cache' \in [Devices -> Nat] /\ dirty' \in BOOLEAN
               /\ pending' \subseteq Pending
    <2>1. pending' \subseteq Pending
      BY <1>2, ReplyType, PromiseType DEF StoreWrite
    <2> QED
      BY <1>2, <2>1 DEF StoreWrite, TypeOK
  <1>3. ASSUME NEW ok \in BOOLEAN, StoreKeep(ok)
        PROVE  /\ files' \in [Devices -> File] /\ stamp' \in Nat
               /\ cache' \in [Devices -> Nat] /\ dirty' \in BOOLEAN
               /\ pending' \subseteq Pending
    <2>1. pending' \subseteq Pending
      BY <1>3, ReplyType, PromiseType DEF StoreKeep
    <2> QED
      BY <1>3, <2>1 DEF StoreKeep, TypeOK
  <1> QED
    BY <1>1, <1>2, <1>3

LEMMA TypeHandle ==
  ASSUME TypeOK, Handle
  PROVE  TypeOK'
  <1>1. CASE Refresh
    <2>1. /\ batch' \in Seq(Command) /\ Cmd.by \in Clients /\ Cmd.floor \in Promise
      BY <1>1, TakeType, CommandFields DEF Refresh
    <2>2. pending' \subseteq Pending
      BY <1>1, <2>1, ReplyType DEF Refresh
    <2> QED
      BY ZenonT(40), <1>1, <2>1, <2>2 DEF Refresh, ReadAll, TypeOK
  <1>2. CASE Wake
    <2>1. batch' \in Seq(Command)
      BY <1>2, TakeType DEF Wake
    <2> QED
      BY <1>2, <2>1 DEF Wake, TypeOK
  <1>3. CASE Reconfigure
    <2>1. batch' \in Seq(Command)
      BY <1>3, TakeType DEF Reconfigure
    <2> QED
      BY <1>3, <2>1 DEF Reconfigure, TypeOK
  <1>4. CASE Stop
    <2>1. batch' \in Seq(Command)
      BY <1>4, TakeType DEF Stop
    <2> QED
      BY <1>4, <2>1 DEF Stop, TypeOK
  <1>5. CASE Remote
    <2>1. /\ batch' \in Seq(Command)
          /\ Cmd.by \in Clients /\ Cmd.dev \in Devices
      BY <1>5, TakeType, CommandFields DEF Remote
    <2>2. /\ files' \in [Devices -> File] /\ stamp' \in Nat
          /\ cache' \in [Devices -> Nat] /\ dirty' \in BOOLEAN
          /\ pending' \subseteq Pending
      BY <1>5, <2>1, StoreType DEF Remote
    <2> QED
      BY <1>5, <2>1, <2>2 DEF Remote, TypeOK
  <1>6. CASE RemoteFails
    <2>1. /\ batch' \in Seq(Command)
          /\ Cmd.by \in Clients /\ Cmd.dev \in Devices
      BY <1>6, TakeType, CommandFields DEF RemoteFails
    <2>2. /\ files' \in [Devices -> File] /\ stamp' \in Nat
          /\ cache' \in [Devices -> Nat] /\ dirty' \in BOOLEAN
          /\ pending' \subseteq Pending
      BY <1>6, <2>1, StoreType DEF RemoteFails
    <2> QED
      BY <1>6, <2>1, <2>2 DEF RemoteFails, Fail, TypeOK
  <1>7. CASE SourcesConflict
    <2>1. batch' \in Seq(Command) /\ Cmd.by \in Clients
      BY <1>7, TakeType, CommandFields DEF SourcesConflict
    <2>2. reply' \in [Clients -> {"none", "waiting", "ok", "error", "closed"}]
      BY <1>7, <2>1, ReplyType DEF SourcesConflict
    <2> QED
      BY <1>7, <2>1, <2>2 DEF SourcesConflict, TypeOK
  <1>8. CASE SwitchSources
    <2>1. batch' \in Seq(Command) /\ Cmd.by \in Clients /\ Cmd.homes \in Homes
      BY <1>8, TakeType, CommandFields DEF SwitchSources
    <2>2. reply' \in [Clients -> {"none", "waiting", "ok", "error", "closed"}]
      BY <1>8, <2>1, ReplyType DEF SwitchSources
    <2>3. CASE Cmd.homes = sources
      BY <1>8, <2>1, <2>2, <2>3 DEF SwitchSources, NewRecord, TypeOK
    <2>4. CASE Cmd.homes # sources
      <3>1. seen' \in [Sources -> Nat] /\ publication' \in Nat
        <4>1. /\ seen' = [s \in Sources |-> IF s \in Cmd.homes THEN disk[s] ELSE 0]
              /\ publication' = publication + 1
          BY <1>8, <2>4 DEF SwitchSources
        <4> QED
          BY <4>1 DEF TypeOK
      <3>2. current' \in Published
        <4>1. current' = [rev |-> publication + 1, srcs |-> Cmd.homes,
                          listed |-> Cmd.homes, local |-> seen',
                          remote |-> KeptRemotes]
          BY <1>8, <2>4 DEF SwitchSources
        <4>2. Cmd.homes \subseteq Sources /\ publication + 1 \in Nat
          BY <2>1, HomesType DEF TypeOK
        <4>3. KeptRemotes \in [Devices -> File]
          BY DEF KeptRemotes, Published, TypeOK
        <4> QED
          BY <3>1, <4>1, <4>2, <4>3 DEF Published
      <3>3. /\ status' \in [phase : Phases, rev : Nat]
            /\ event' \in [phase : Phases \cup {"shutdown"}, rev : Nat]
        <4>1. UpdateStatus(Note("ready", publication + 1), TRUE)
          BY <1>8, <2>4 DEF SwitchSources
        <4>2. publication + 1 \in Nat /\ "ready" \in Phases
          BY DEF Phases, TypeOK
        <4> QED
          BY <4>1, <4>2, StatusType
      <3> QED
        BY ZenonT(40), <1>8, <2>1, <2>2, <2>4, <3>1, <3>2, <3>3
        DEF SwitchSources, FreshSchedule, NewRecord, TypeOK
    <2> QED
      BY <2>3, <2>4
  <1>9. CASE SourcesFail
    <2>1. batch' \in Seq(Command) /\ Cmd.by \in Clients /\ Cmd.homes \in Homes
      BY <1>9, TakeType, CommandFields DEF SourcesFail
    <2>2. reply' \in [Clients -> {"none", "waiting", "ok", "error", "closed"}]
      BY <1>9, <2>1, ReplyType DEF SourcesFail
    <2>3. faults' \in Nat /\ saved' \in Homes
      BY <1>9, <2>1 DEF SourcesFail, Fail, TypeOK
    <2> QED
      BY <1>9, <2>1, <2>2, <2>3 DEF SourcesFail, TypeOK
  <1>10. CASE EndBatch
    <2>1. CASE stopping
      BY <1>10, <2>1, TerminateType DEF EndBatch, TypeOK
    <2>2. CASE ~stopping
      BY <1>10, <2>2 DEF EndBatch, TypeOK
    <2> QED
      BY <2>1, <2>2
  <1> QED
    BY <1>1, <1>2, <1>3, <1>4, <1>5, <1>6, <1>7, <1>8, <1>9, <1>10 DEF Handle

\* A call writes to the channel and to what its own caller knows only.
LEMMA CallKeeps ==
  \A c, cmd : Call(c, cmd) => UNCHANGED <<cancel, sharedVars, ownVars, acked>>
  BY DEF Call

\* A call sends a command, or fails at once.
LEMMA CallType ==
  ASSUME TypeOK, NEW c \in Clients, NEW cmd \in Command, Call(c, cmd)
  PROVE  TypeOK'
  <1> USE DEF ownVars
  <1>1. queue' \in Seq(Command) /\ Len(queue') <= QueueCap
    BY SendType DEF Call
  <1>2. /\ reply' \in [Clients -> {"none", "waiting", "ok", "error", "closed"}]
        /\ calls' \in Nat
    BY DEF Call, TypeOK
  <1> QED
    BY <1>1, <1>2 DEF Call, TypeOK

LEMMA TypeOthers ==
  ASSUME TypeOK, Others
  PROVE  TypeOK'
  <1> USE DEF ownVars
  <1>1. ASSUME NEW c \in Clients, CallRefresh(c)
        PROVE  TypeOK'
    <2> DEFINE cmd == [op |-> "refresh", by |-> c,
                       floor |-> [local |-> disk, remote |-> files]]
    <2>1. cmd \in Command
      BY DEF Command, Promise, TypeOK
    <2> QED
      BY <1>1, <2>1, CallType DEF CallRefresh
  <1>2. ASSUME NEW c \in Clients, CallImport(c)
        PROVE  TypeOK'
    <2> PICK d \in Devices, l \in BOOLEAN :
          Call(c, [op |-> "import", by |-> c, dev |-> d, labelled |-> l])
      BY <1>2 DEF CallImport
    <2>1. [op |-> "import", by |-> c, dev |-> d, labelled |-> l] \in Command
      BY DEF Command
    <2> QED
      BY <2>1, CallType
  <1>3. ASSUME NEW c \in Clients, CallRemote(c)
        PROVE  TypeOK'
    <2> PICK op \in Ops \cap {"rename", "delete"}, d \in Devices :
          Call(c, [op |-> op, by |-> c, dev |-> d])
      BY <1>3 DEF CallRemote
    <2>1. [op |-> op, by |-> c, dev |-> d] \in Command
      BY DEF Command
    <2> QED
      BY <2>1, CallType
  <1>4. ASSUME NEW c \in Clients, CallSources(c)
        PROVE  TypeOK'
    <2> PICK h \in Homes, e \in Homes :
          Call(c, [op |-> "sources", by |-> c, homes |-> h, expected |-> e])
      BY <1>4 DEF CallSources
    <2>1. [op |-> "sources", by |-> c, homes |-> h, expected |-> e] \in Command
      BY DEF Command
    <2> QED
      BY <2>1, CallType
  <1>5. CASE SavePolling
    <2>1. [op |-> "polling"] \in Command
      BY DEF Command
    <2>2. queue' \in Seq(Command) /\ Len(queue') <= QueueCap
      BY <1>5, <2>1, SendType DEF SavePolling
    <2> QED
      BY <1>5, <2>2 DEF SavePolling, TypeOK
  <1>6. CASE RequestShutdown
    <2>1. event' \in [phase : Phases \cup {"shutdown"}, rev : Nat]
      BY <1>6 DEF RequestShutdown, Note
    <2> QED
      BY <1>6, <2>1 DEF RequestShutdown, TypeOK
  <1>7. CASE StopWorker
    <2>1. [op |-> "stop"] \in Command
      BY DEF Command
    <2>2. queue' \in Seq(Command) /\ Len(queue') <= QueueCap
      BY <1>7, <2>1, SendType DEF StopWorker
    <2> QED
      BY <1>7, <2>2 DEF StopWorker, TypeOK
  <1>8. ASSUME NEW s \in Sources, EditLog(s)
        PROVE  TypeOK'
    <2>1. [op |-> "wake", src |-> s] \in Command
      BY DEF Command
    <2>2. queue' \in Seq(Command) /\ Len(queue') <= QueueCap
      <3>1. CASE UNCHANGED queue
        BY <3>1 DEF TypeOK
      <3>2. CASE TrySend([op |-> "wake", src |-> s])
        BY <2>1, <3>2, SendType
      <3> QED
        BY <1>8, <3>1, <3>2 DEF EditLog
    <2>3. disk' \in [Sources -> Nat] /\ edits' \in Nat
      BY <1>8 DEF EditLog, TypeOK
    <2> QED
      BY <1>8, <2>2, <2>3 DEF EditLog, TypeOK
  <1>9. ASSUME NEW d \in Devices, EditRemote(d)
        PROVE  TypeOK'
    <2>1. files' \in [Devices -> File]
      <3>1. CASE files' = [files EXCEPT ![d] = Written(@)]
        <4>1. files[d] \in File /\ Written(files[d]) \in File
          BY StoreFiles DEF TypeOK
        <4> QED
          BY <3>1, <4>1 DEF TypeOK
      <3>2. CASE files' = [files EXCEPT ![d] = Removed(@)]
        <4>1. files[d] \in File /\ Removed(files[d]) \in File
          BY StoreFiles DEF TypeOK
        <4> QED
          BY <3>2, <4>1 DEF TypeOK
      <3> QED
        BY <1>9, <3>1, <3>2 DEF EditRemote
    <2>2. stamp' \in Nat /\ edits' \in Nat
      BY <1>9 DEF EditRemote, TypeOK
    <2> QED
      BY <1>9, <2>1, <2>2 DEF EditRemote, TypeOK
  <1> QED
    BY <1>1, <1>2, <1>3, <1>4, <1>5, <1>6, <1>7, <1>8, <1>9 DEF Others

LEMMA TypeStutter == TypeOK /\ UNCHANGED vars => TypeOK'
  BY DEF TypeOK, vars, ownVars

LEMMA TypeStep == TypeOK /\ [Next]_vars => TypeOK'
  BY TypePass, TypeWaiting, TypeHandle, TypeOthers, TypeStutter DEF Next, WorkerStep

\* No interleaving of the worker, its callers and the changes of others takes a
\* variable out of its type; in particular the schedule and the watches never
\* name a source that is not selected any more (run_worker, Command::Sources).
THEOREM TypeCorrect == Spec => []TypeOK
  BY TypeInit, TypeStep, PTL DEF Spec

-------------------------------------------------------------------------------
(* What readers see *)

\* The only steps that touch what readers see, or the number of publications.
LEMMA Readers ==
  ASSUME [Next]_vars
  PROVE  \/ OpenFails \/ Scan \/ Merge \/ Announce \/ SwitchSources
         \/ RequestShutdown
         \/ /\ UNCHANGED <<sharedVars, publication, cancel>>
            /\ pc = "announce" => UNCHANGED <<pc, progressed>>
  <1> USE DEF ownVars
  <1>1. CASE Pass
    BY <1>1 DEF Pass, Open, Parse, RefreshFails, Cancelled, StoreFails, Answer
  <1>2. CASE Waiting
    BY <1>2 DEF Waiting, Timeout, Receive
  <1>3. CASE Handle
    BY <1>3 DEF Handle, Refresh, Wake, Reconfigure, Stop, Remote, RemoteFails,
                SourcesConflict, SourcesFail, EndBatch
  <1>4. CASE Others
    <2>1. ASSUME NEW c \in Clients, CallRefresh(c) \/ CallImport(c) \/ CallRemote(c)
                                         \/ CallSources(c)
          PROVE  UNCHANGED <<cancel, sharedVars, ownVars>>
      BY <2>1, CallKeeps DEF CallRefresh, CallImport, CallRemote, CallSources
    <2> QED
      BY <1>4, <2>1 DEF Others, SavePolling, StopWorker, EditLog, EditRemote
  <1>5. CASE UNCHANGED vars
    BY <1>5 DEF vars
  <1> QED
    BY <1>1, <1>2, <1>3, <1>4, <1>5 DEF Next, WorkerStep

\* A publishing pass builds the next revision; any other leaves the current one.
LEMMA MergeOutcome ==
  ASSUME TypeOK, Merge
  PROVE  \/ /\ publication' = publication + 1
            /\ current' = Snapshot(publication + 1, sources, files)
            /\ progressed' = TRUE /\ pc' = "announce" /\ UNCHANGED noteVars
         \/ UNCHANGED <<sharedVars, publication, progressed>>
  BY DEF Merge, Notifies

\* A change of the selection publishes the next revision and announces it, or
\* only saves the selection in use.
LEMMA SwitchOutcome ==
  ASSUME TypeOK, SwitchSources
  PROVE  \/ /\ publication' = publication + 1
            /\ current' = [rev |-> publication + 1, srcs |-> Cmd.homes,
                           listed |-> Cmd.homes, local |-> seen',
                           remote |-> current.remote]
            /\ seen' = [s \in Sources |-> IF s \in Cmd.homes THEN disk[s] ELSE 0]
            /\ inventory' = seen'
            /\ UpdateStatus(Note("ready", publication + 1), TRUE)
         \/ UNCHANGED <<sharedVars, loopVars, inventory, publication, indexVars>>
  BY DEF SwitchSources, KeptRemotes

\* A status update gives status the new note, and event this note or none.
LEMMA UpdateOutcome ==
  ASSUME NEW note, NEW notify, UpdateStatus(note, notify)
  PROVE  status' = note /\ event' \in {note, event}
  BY DEF UpdateStatus

\* The worker counts its publications in step with the one it publishes, so
\* that no status can name a revision beyond it.
RevisionInv == publication = current.rev /\ StatusNeverAhead

LEMMA RevisionStep ==
  ASSUME TypeOK, RevisionInv, [Next]_vars
  PROVE  RevisionInv'
  <1> USE DEF RevisionInv, StatusNeverAhead
  <1>0. /\ publication \in Nat /\ current.rev \in Nat
        /\ status.rev \in Nat /\ event.rev \in Nat
    BY DEF TypeOK, Published
  <1>1. CASE OpenFails
    <2>1. status' = Note("error", 0) /\ event' \in {Note("error", 0), event}
      BY <1>1, UpdateOutcome DEF OpenFails
    <2> QED
      BY <1>0, <1>1, <2>1 DEF OpenFails, Note
  <1>2. CASE Scan
    <2>1. CASE UNCHANGED noteVars
      BY <1>2, <2>1 DEF Scan
    <2>2. CASE UpdateStatus(Note("parsing", publication), TRUE)
      <3>1. /\ status' = Note("parsing", publication)
            /\ event' \in {Note("parsing", publication), event}
        BY <2>2, UpdateOutcome
      <3> QED
        BY <1>0, <1>2, <3>1 DEF Scan, Note
    <2> QED
      BY <1>2, <2>1, <2>2 DEF Scan, ProgressRevision
  <1>3. CASE Merge
    <2>1. Snapshot(publication + 1, sources, files).rev = publication + 1
      BY DEF Snapshot
    <2>2. CASE /\ publication' = publication + 1 /\ current'.rev = publication + 1
               /\ UNCHANGED noteVars
      BY <1>0, <2>2
    <2>3. CASE UNCHANGED <<sharedVars, publication>>
      BY <2>3
    <2> QED
      BY <1>3, <2>1, <2>2, <2>3, MergeOutcome
  <1>4. CASE Announce
    <2> PICK phase, notify : UpdateStatus(Note(phase, publication), notify)
      BY <1>4 DEF Announce
    <2>1. /\ status' = Note(phase, publication)
          /\ event' \in {Note(phase, publication), event}
      BY UpdateOutcome
    <2> QED
      BY <1>0, <1>4, <2>1 DEF Announce, Note
  <1>5. CASE SwitchSources
    <2>1. CASE UNCHANGED <<sharedVars, publication>>
      BY <2>1
    <2>2. CASE /\ publication' = publication + 1 /\ current'.rev = publication + 1
               /\ UpdateStatus(Note("ready", publication + 1), TRUE)
      <3>1. /\ status' = Note("ready", publication + 1)
            /\ event' \in {Note("ready", publication + 1), event}
        BY <2>2, UpdateOutcome
      <3> QED
        BY <1>0, <2>2, <3>1 DEF Note
    <2>3. current' = [rev |-> publication + 1, srcs |-> Cmd.homes,
                      listed |-> Cmd.homes, local |-> seen',
                      remote |-> current.remote]
          => current'.rev = publication + 1
      OBVIOUS
    <2> QED
      BY <1>5, <2>1, <2>2, <2>3, SwitchOutcome
  <1>6. CASE RequestShutdown
    BY <1>0, <1>6 DEF RequestShutdown, Note, ownVars
  <1>7. CASE UNCHANGED <<sharedVars, publication>>
    BY <1>7
  <1> QED
    BY <1>1, <1>2, <1>3, <1>4, <1>5, <1>6, <1>7, Readers

\* A reader who is told of a revision, by the status or by an event, always
\* finds it published (update_status after State.current is replaced).
THEOREM RevisionsPublished == Spec => []StatusNeverAhead
  <1>1. Init => RevisionInv
    BY DEF Init, RevisionInv, StatusNeverAhead, Note
  <1>2. TypeOK /\ RevisionInv /\ [Next]_vars => RevisionInv'
    BY RevisionStep
  <1>3. RevisionInv => StatusNeverAhead
    BY DEF RevisionInv
  <1> QED
    BY <1>1, <1>2, <1>3, TypeCorrect, PTL DEF Spec

\* The last event equals the status until a shutdown is announced.  A status
\* that says "ready" can lag behind the publications only in the pass that is
\* about to announce one, and that pass will notify.
EventInv ==
    /\ event = status \/ cancel
    /\ status.phase = "ready" =>
          status.rev = publication \/ (pc = "announce" /\ progressed)

LEMMA EventStep ==
  ASSUME TypeOK, EventInv, [Next]_vars
  PROVE  EventInv'
  <1> USE DEF EventInv
  <1>1. CASE OpenFails
    BY <1>1 DEF OpenFails, UpdateStatus, Note
  <1>2. CASE Scan
    <2>1. CASE UNCHANGED noteVars
      BY <1>2, <2>1 DEF Scan
    <2>2. CASE UpdateStatus(Note("parsing", publication), TRUE)
      BY <1>2, <2>2 DEF Scan, UpdateStatus, Note
    <2> QED
      BY <1>2, <2>1, <2>2 DEF Scan, ProgressRevision
  <1>3. CASE Merge
    <2>1. CASE progressed' = TRUE /\ pc' = "announce" /\ UNCHANGED noteVars
      BY <1>3, <2>1 DEF Merge
    <2>2. CASE UNCHANGED <<sharedVars, publication, progressed>>
      BY <1>3, <2>2 DEF Merge
    <2> QED
      BY <1>3, <2>1, <2>2, MergeOutcome
  <1>4. CASE Announce
    <2>1. CASE passed
      <3>1. UpdateStatus(Note("ready", publication), progressed)
        BY <1>4, <2>1 DEF Announce
      <3>2. status' = Note("ready", publication) /\ UNCHANGED <<publication, cancel>>
        BY <1>4, <3>1 DEF Announce, UpdateStatus
      <3>3. status \in [phase : Phases, rev : Nat]
        BY DEF TypeOK
      <3>4. CASE status = Note("ready", publication)
        BY <3>1, <3>2, <3>4 DEF UpdateStatus, Note
      <3>5. CASE status # Note("ready", publication) /\ status.phase # "ready"
        BY <3>1, <3>2, <3>5 DEF UpdateStatus, Note
      <3>6. CASE status # Note("ready", publication) /\ status.phase = "ready"
        <4>1. status.rev # publication
          BY <3>3, <3>6 DEF Note
        <4>2. progressed
          BY <3>6, <4>1
        <4> QED
          BY <3>1, <3>2, <3>6, <4>2 DEF UpdateStatus, Note
      <3> QED
        BY <3>4, <3>5, <3>6
    <2>2. CASE ~passed
      BY <1>4, <2>2 DEF Announce, UpdateStatus, Note
    <2> QED
      BY <2>1, <2>2
  <1>5. CASE SwitchSources
    <2>1. UNCHANGED <<cancel, pc>> /\ pc = "command"
      BY <1>5 DEF SwitchSources, Take
    <2>2. CASE UNCHANGED <<sharedVars, publication>>
      BY <2>1, <2>2
    <2>3. CASE /\ publication' = publication + 1
               /\ UpdateStatus(Note("ready", publication + 1), TRUE)
      BY <2>1, <2>3 DEF UpdateStatus, Note
    <2> QED
      BY <1>5, <2>2, <2>3, SwitchOutcome
  <1>6. CASE RequestShutdown
    BY <1>6 DEF RequestShutdown, ownVars
  <1>7. CASE /\ UNCHANGED <<sharedVars, publication, cancel>>
             /\ pc = "announce" => UNCHANGED <<pc, progressed>>
    BY <1>7
  <1> QED
    BY <1>1, <1>2, <1>3, <1>4, <1>5, <1>6, <1>7, Readers

\* A window that only listens to events is never left with an older status than
\* one that asks, whenever the worker waits (update_status, progressed).
THEOREM EventsKeepUp == Spec => []EventKeepsUp
  <1>1. Init => EventInv
    BY DEF Init, EventInv, Note
  <1>2. TypeOK /\ EventInv /\ [Next]_vars => EventInv'
    BY EventStep
  <1>3. EventInv => EventKeepsUp
    BY DEF EventInv, EventKeepsUp
  <1> QED
    BY <1>1, <1>2, <1>3, TypeCorrect, PTL DEF Spec

-------------------------------------------------------------------------------
(* The selection *)

\* Only a change of the selection touches what is saved; failures accumulate.
LEMMA Selections ==
  ASSUME TypeOK, [Next]_vars
  PROVE  \/ SwitchSources \/ SourcesFail
         \/ UNCHANGED <<sources, saved, record>> /\ (faults > 0 => faults' > 0)
  <1> USE DEF ownVars
  <1>0. Fail => faults' > 0
    BY DEF TypeOK, Fail
  <1>1. CASE Pass
    BY <1>0, <1>1 DEF Pass, Open, OpenFails, Scan, Parse, RefreshFails, Cancelled,
                      Merge, StoreFails, Announce, Answer
  <1>2. CASE Waiting
    BY <1>2 DEF Waiting, Timeout, Receive
  <1>3. CASE Handle
    BY <1>0, <1>3 DEF Handle, Refresh, Wake, Reconfigure, Stop, Remote, RemoteFails,
                      SourcesConflict, EndBatch
  <1>4. CASE Others
    BY ZenonT(40), <1>4 DEF Others, CallRefresh, CallImport, CallRemote, CallSources, Call,
                SavePolling, RequestShutdown, StopWorker, EditLog, EditRemote
  <1>5. CASE UNCHANGED vars
    BY <1>5 DEF vars
  <1> QED
    BY <1>1, <1>2, <1>3, <1>4, <1>5 DEF Next, WorkerStep

\* The record of the managed service names the sources it serves, and the saved
\* selection does unless a step failed (save_sources writes both, or puts the
\* selection back).
THEOREM RecordCorrect == Spec => []RecordDescribesService
  <1> USE DEF RecordDescribesService
  <1>1. Init => RecordDescribesService
    BY DEF Init
  <1>2. ASSUME TypeOK, RecordDescribesService, [Next]_vars
        PROVE  RecordDescribesService'
    <2>0. faults \in Nat
      BY <1>2 DEF TypeOK
    <2>1. CASE SwitchSources
      <3>1. sources' = Cmd.homes /\ saved' = Cmd.homes /\ record' = Cmd.homes
        BY <2>1 DEF SwitchSources, NewRecord
      <3> QED
        BY <3>1
    <2>2. CASE SourcesFail
      BY <1>2, <2>0, <2>2 DEF SourcesFail, Fail
    <2>3. CASE UNCHANGED <<sources, saved, record>> /\ (faults > 0 => faults' > 0)
      BY <1>2, <2>3
    <2> QED
      BY <1>2, <2>1, <2>2, <2>3, Selections
  <1> QED
    BY <1>1, <1>2, TypeCorrect, PTL DEF Spec

-------------------------------------------------------------------------------
(* Content never moves back *)

\* Content is published no later than it is indexed, and indexed no later than
\* it is written; a published snapshot is no newer than the stored one.  What the
\* index lists is there, at least as new as what it holds, and stays listed.
ContentInv ==
    /\ \A s \in Sources : /\ 0 < disk[s] /\ seen[s] <= disk[s]
                          /\ inventory[s] <= disk[s]
                          /\ inventory[s] # 0 => seen[s] <= inventory[s]
    /\ \A s \in current.listed : inventory[s] # 0 /\ current.local[s] <= seen[s]
    /\ \A d \in Devices : /\ Stamp(current.remote[d]) <= Stamp(files[d])
                          /\ Stamp(files[d]) <= stamp

\* The only steps that touch content.
LEMMA Contents ==
  ASSUME [Next]_vars
  PROVE  \/ Scan \/ Parse \/ RefreshFails \/ Merge \/ SwitchSources \/ Remote
         \/ \E s \in Sources : EditLog(s)
         \/ \E d \in Devices : EditRemote(d)
         \/ UNCHANGED <<disk, files, stamp, current, seen, inventory>>
  <1> USE DEF ownVars
  <1>1. CASE Pass
    BY <1>1 DEF Pass, Open, OpenFails, Cancelled, StoreFails, Announce, Answer,
                Terminate
  <1>2. CASE Waiting
    BY <1>2 DEF Waiting, Timeout, Receive
  <1>3. CASE Handle
    BY <1>3 DEF Handle, Refresh, ReadAll, Wake, Reconfigure, Stop, RemoteFails,
                StoreKeep, SourcesConflict, SourcesFail, EndBatch, Terminate, Take
  <1>4. CASE Others
    <2>1. CASE \E c \in Clients : CallRefresh(c) \/ CallImport(c) \/ CallRemote(c) \/ CallSources(c)
      <3> DEFINE Quiet == UNCHANGED <<envVars, sharedVars, ownVars>>
      <3>1. \A c, cmd : Call(c, cmd) => Quiet
        BY DEF Call
      <3> HIDE DEF Quiet
      <3>2. PICK c \in Clients : CallRefresh(c) \/ CallImport(c) \/ CallRemote(c) \/ CallSources(c)
        BY <2>1
      <3>3. CallRefresh(c) => Quiet
        BY <3>1 DEF CallRefresh
      <3>4. CallImport(c) => Quiet
        BY <3>1 DEF CallImport
      <3>5. CallRemote(c) => Quiet
        BY <3>1 DEF CallRemote
      <3>6. CallSources(c) => Quiet
        BY <3>1 DEF CallSources
      <3>7. Quiet
        BY <3>2, <3>3, <3>4, <3>5, <3>6
      <3> QED
        BY <3>7 DEF Quiet
    <2>2. CASE SavePolling
      BY <2>2 DEF SavePolling
    <2>3. CASE RequestShutdown
      BY <2>3 DEF RequestShutdown
    <2>4. CASE StopWorker
      BY <2>4 DEF StopWorker
    <2> QED
      BY <1>4, <2>1, <2>2, <2>3, <2>4 DEF Others
  <1>5. CASE UNCHANGED vars
    BY <1>5 DEF vars
  <1> QED
    BY <1>1, <1>2, <1>3, <1>4, <1>5 DEF Next, WorkerStep

\* Writing or removing a file gives it the next stamp.
LEMMA NextStamp ==
  ASSUME TypeOK, ContentInv, NEW d \in Devices
  PROVE  Stamp(Written(files[d])) = stamp + 1 /\ Stamp(Removed(files[d])) = stamp + 1
  <1>1. /\ files[d] \in File /\ stamp \in Nat /\ files[d].ver \in Nat
        /\ files[d].gone \in Nat
    BY DEF TypeOK, File
  <1>2. files[d].ver <= stamp /\ files[d].gone <= stamp
    BY <1>1 DEF ContentInv, Stamp, Higher
  <1>3. /\ Written(files[d]).ver = stamp + 1 /\ Written(files[d]).gone = files[d].gone
        /\ Removed(files[d]).ver = files[d].ver /\ Removed(files[d]).gone = stamp + 1
    BY <1>1 DEF Written, Removed, File
  <1> QED
    BY <1>1, <1>2, <1>3 DEF Stamp, Higher

\* A file of the store, or none, replaced by its next version keeps the order of
\* stamps.
LEMMA StampsStep ==
  ASSUME TypeOK, ContentInv, NEW d \in Devices, NEW f, Stamp(f) = stamp + 1,
         files' = [files EXCEPT ![d] = f], stamp' = stamp + 1, UNCHANGED current
  PROVE  \A x \in Devices : /\ Stamp(current.remote[x])' <= Stamp(files[x])'
                            /\ Stamp(files[x])' <= stamp'
  <1> TAKE x \in Devices
  <1>1. /\ Stamp(current.remote[x]) \in Nat /\ Stamp(files[x]) \in Nat /\ stamp \in Nat
        /\ Stamp(current.remote[x]) <= Stamp(files[x]) /\ Stamp(files[x]) <= stamp
    BY StampType DEF ContentInv, TypeOK, Published
  <1>2. files'[x] = IF x = d THEN f ELSE files[x]
    BY DEF TypeOK
  <1>3. Stamp(files'[x]) = IF x = d THEN stamp + 1 ELSE Stamp(files[x])
    BY <1>2
  <1>4. Stamp(current.remote[x])' = Stamp(current.remote[x])
    BY DEF Stamp, Higher
  <1>5. Stamp(files[x])' = Stamp(files'[x])
    BY DEF Stamp, Higher
  <1> QED
    BY <1>1, <1>3, <1>4, <1>5

LEMMA ContentStep ==
  ASSUME TypeOK, ContentInv, [Next]_vars
  PROVE  ContentInv'
  <1>0. /\ disk \in [Sources -> Nat] /\ seen \in [Sources -> Nat]
        /\ inventory \in [Sources -> Nat] /\ current.local \in [Sources -> Nat]
        /\ current.listed \subseteq Sources /\ sources \subseteq Sources
    BY HomesType DEF TypeOK, Published
  <1>1. CASE UNCHANGED <<disk, files, stamp, current, seen>> /\ inventory' = Inventory
    <2>1. \A s \in Sources : /\ inventory'[s] <= disk[s] /\ inventory'[s] >= inventory[s]
                             /\ inventory'[s] # 0 => seen[s] <= inventory'[s]
      BY <1>0, <1>1 DEF ContentInv, Inventory
    <2>2. \A s \in current.listed : inventory'[s] # 0
      BY <1>0, <2>1 DEF ContentInv
    <2> QED
      BY <1>1, <2>1, <2>2 DEF ContentInv, Stamp, Higher
  <1>2. CASE Parse
    <2>1. UNCHANGED <<disk, files, stamp, current, inventory>> /\ seen' = inventory
      BY <1>2 DEF Parse
    <2>2. \A s \in current.listed : current.local[s] <= inventory[s]
      BY <1>0 DEF ContentInv
    <2> QED
      BY <1>0, <2>1, <2>2 DEF ContentInv, Stamp, Higher
  <1>3. CASE Merge
    <2>1. UNCHANGED <<disk, files, stamp, seen, inventory>>
      BY <1>3 DEF Merge
    <2>2. CASE current' = Snapshot(publication + 1, sources, files)
      <3>1. /\ current'.listed = {s \in sources : inventory[s] # 0}
            /\ current'.remote = files
            /\ \A s \in sources : current'.local[s] = seen[s]
        BY <1>0, <2>2 DEF Snapshot
      <3>2. \A d \in Devices : Stamp(files[d]) \in Nat
        BY StampType DEF TypeOK
      <3> QED
        BY <1>0, <2>1, <3>1, <3>2 DEF ContentInv, Stamp, Higher
    <2>3. CASE UNCHANGED current
      BY <2>1, <2>3 DEF ContentInv, Stamp, Higher
    <2> QED
      BY <1>3, <2>2, <2>3, MergeOutcome
  <1>4. CASE SwitchSources
    <2>1. UNCHANGED <<disk, files, stamp>>
      BY <1>4 DEF SwitchSources
    <2>2. CASE UNCHANGED <<current, seen, inventory>>
      BY <2>1, <2>2 DEF ContentInv, Stamp, Higher
    <2>3. CASE /\ current' = [rev |-> publication + 1, srcs |-> Cmd.homes,
                              listed |-> Cmd.homes, local |-> seen',
                              remote |-> current.remote]
               /\ seen' = [s \in Sources |-> IF s \in Cmd.homes THEN disk[s] ELSE 0]
               /\ inventory' = seen'
      <3>1. Cmd.homes \subseteq Sources
        BY <1>4, TakeType, CommandFields, HomesType DEF SwitchSources
      <3>2. /\ current'.listed = Cmd.homes /\ current'.remote = current.remote
            /\ current'.local = seen'
        BY <2>3
      <3>3. \A s \in Sources : /\ seen'[s] \in Nat /\ seen'[s] <= disk[s]
                               /\ s \in Cmd.homes => seen'[s] = disk[s]
        BY <1>0, <2>3
      <3> QED
        BY <1>0, <2>1, <2>3, <3>1, <3>2, <3>3 DEF ContentInv, Stamp, Higher
    <2> QED
      BY <1>4, <2>2, <2>3, SwitchOutcome
  <1>5. CASE Remote
    <2>1. UNCHANGED <<disk, current, seen, inventory>>
      BY <1>5 DEF Remote
    <2>2. Cmd.dev \in Devices
      BY <1>5, TakeType, CommandFields DEF Remote
    <2>3. CASE UNCHANGED <<files, stamp>>
      BY <2>1, <2>3 DEF ContentInv, Stamp, Higher
    <2>4. CASE \E f \in {Written(files[Cmd.dev]), Removed(files[Cmd.dev])} :
                 files' = [files EXCEPT ![Cmd.dev] = f] /\ stamp' = stamp + 1
      BY <2>1, <2>2, <2>4, NextStamp, StampsStep DEF ContentInv
    <2> QED
      BY <1>5, <2>3, <2>4 DEF Remote, StoreWrite, StoreKeep
  <1>6. ASSUME NEW x \in Sources, EditLog(x)
        PROVE  ContentInv'
    <2>1. UNCHANGED <<files, stamp, current, seen, inventory>>
      BY <1>6 DEF EditLog, ownVars
    <2>2. \A s \in Sources : disk[s] <= disk'[s] /\ disk'[s] \in Nat
      BY <1>0, <1>6 DEF EditLog
    <2>3. \A s \in Sources : 0 < disk'[s] /\ seen[s] <= disk'[s] /\ inventory[s] <= disk'[s]
      BY <1>0, <2>2 DEF ContentInv
    <2> QED
      BY <2>1, <2>3 DEF ContentInv, Stamp, Higher
  <1>7. ASSUME NEW d \in Devices, EditRemote(d)
        PROVE  ContentInv'
    <2>1. UNCHANGED <<disk, current, seen, inventory>> /\ stamp' = stamp + 1
      BY <1>7 DEF EditRemote, ownVars
    <2>2. \E f \in {Written(files[d]), Removed(files[d])} :
             files' = [files EXCEPT ![d] = f]
      BY <1>7 DEF EditRemote
    <2> QED
      BY <2>1, <2>2, NextStamp, StampsStep DEF ContentInv
  <1>8. CASE UNCHANGED <<disk, files, stamp, current, seen, inventory>>
    BY <1>8 DEF ContentInv, Stamp, Higher
  <1>9. RefreshFails \/ Scan => UNCHANGED <<disk, files, stamp, current, seen>>
                              /\ inventory' \in {inventory, Inventory}
    BY DEF RefreshFails, Scan
  <1> QED
    BY <1>1, <1>2, <1>3, <1>4, <1>5, <1>6, <1>7, <1>8, <1>9, Contents

\* Every step of the service publishes as Publication allows, or not at all.
LEMMA PublishStep ==
  ASSUME TypeOK, ContentInv, RevisionInv, [Next]_vars
  PROVE  [Pub!Publish]_(Pub!pubVars)
  <1>0. /\ disk \in [Sources -> Nat] /\ seen \in [Sources -> Nat]
        /\ current.listed \subseteq Sources /\ sources \subseteq Sources
        /\ current.local \in [Sources -> Nat]
        /\ \A d \in Devices : Stamp(files[d]) \in Nat /\ Stamp(current.remote[d]) \in Nat
    BY HomesType, StampType DEF TypeOK, Published
  <1>1. CASE UNCHANGED current
    <2>1. \A d \in Devices : Stamp(current.remote[d])' = Stamp(current.remote[d])
      BY <1>1 DEF Stamp, Higher
    <2> QED
      BY <1>1, <2>1 DEF Pub!pubVars
  <1>2. CASE Merge /\ current' = Snapshot(publication + 1, sources, files)
    <2>1. /\ current'.rev = publication + 1 /\ current'.listed \subseteq sources
          /\ current'.local = [s \in Sources |-> IF s \in sources THEN seen[s] ELSE 0]
          /\ current'.remote = files
      BY <1>2 DEF Snapshot
    <2>2. \A s \in current.listed \cap current'.listed :
             current'.local[s] >= current.local[s]
      BY <1>0, <2>1 DEF ContentInv, TypeOK, Published
    <2>3. \A d \in Devices : Stamp(current.remote[d])' = Stamp(files[d])
      BY <2>1 DEF Stamp, Higher
    <2>4. \A d \in Devices : Stamp(current.remote[d])' >= Stamp(current.remote[d])
      BY <1>0, <2>3 DEF ContentInv
    <2>5. current'.local \in [Sources -> Nat]
      BY <1>0, <2>1
    <2> QED
      BY <1>0, <2>1, <2>2, <2>3, <2>4, <2>5 DEF Pub!Publish, RevisionInv
  <1>3. CASE /\ SwitchSources
             /\ current' = [rev |-> publication + 1, srcs |-> Cmd.homes,
                            listed |-> Cmd.homes, local |-> seen',
                            remote |-> current.remote]
             /\ seen' = [s \in Sources |-> IF s \in Cmd.homes THEN disk[s] ELSE 0]
    <2>1. Cmd.homes \subseteq Sources
      BY <1>3, TakeType, CommandFields, HomesType DEF SwitchSources
    <2>2. /\ current'.rev = publication + 1 /\ current'.listed = Cmd.homes
          /\ current'.local = seen' /\ current'.remote = current.remote
      BY <1>3
    <2>3. seen' \in [Sources -> Nat]
      BY <1>0, <1>3
    <2>4. \A s \in current.listed \cap Cmd.homes : seen'[s] >= current.local[s]
      BY <1>0, <1>3 DEF ContentInv, TypeOK, Published
    <2>5. \A d \in Devices : Stamp(current.remote[d])' = Stamp(current.remote[d])
      BY <2>2 DEF Stamp, Higher
    <2> QED
      BY <1>0, <2>1, <2>2, <2>3, <2>4, <2>5 DEF Pub!Publish, RevisionInv
  <1> QED
    <2>1. Merge => UNCHANGED current
                   \/ current' = Snapshot(publication + 1, sources, files)
      BY MergeOutcome
    <2>2. SwitchSources =>
            \/ UNCHANGED current
            \/ /\ current' = [rev |-> publication + 1, srcs |-> Cmd.homes,
                             listed |-> Cmd.homes, local |-> seen',
                             remote |-> current.remote]
               /\ seen' = [s \in Sources |-> IF s \in Cmd.homes THEN disk[s] ELSE 0]
      BY SwitchOutcome
    <2>3. OpenFails \/ Scan \/ Announce \/ RequestShutdown => UNCHANGED current
      BY DEF OpenFails, Scan, Announce, RequestShutdown
    <2> QED
      BY <1>1, <1>2, <1>3, <2>1, <2>2, <2>3, Readers

\* State.current is a register of whole publications: revisions count up by one,
\* a source that stays selected and every imported snapshot only move forward,
\* whatever fails and however commands, passes and edits interleave.
THEOREM PublicationRefined == Spec => PublishesForward
  <1>1. Init => ContentInv /\ RevisionInv
    BY DEF Init, ContentInv, NoFile, Stamp, Higher, RevisionInv, StatusNeverAhead, Note
  <1>2. Init => Pub!PubInit
    BY DEF Init, NoFile, Stamp, Higher, Pub!PubInit
  <1>3. TypeOK /\ ContentInv /\ RevisionInv /\ [Next]_vars
        => ContentInv' /\ RevisionInv' /\ [Pub!Publish]_(Pub!pubVars)
    BY ContentStep, RevisionStep, PublishStep
  <1> QED
    BY <1>1, <1>2, <1>3, TypeCorrect, PTL DEF Spec, PublishesForward, Pub!PubSpec

-------------------------------------------------------------------------------
(* What an "ok" promises *)

\* The commands in a queue.
Sent(q) == {q[i] : i \in DOMAIN q}

\* The disk and the store hold what a promise speaks of, or something newer.
Backed(g) ==
    /\ \A s \in Sources : g.local[s] <= disk[s]
    /\ \A d \in Devices : /\ g.remote[d].ver <= files[d].ver
                          /\ g.remote[d].gone <= files[d].gone

\* A version of every source is at least what a promise says of the selection.
Holds(version, g) == \A s \in sources : version[s] >= g.local[s]

\* Readers see what a promise says of the logs, and of the snapshots.
ShowsLocal(g)  == \A s \in current.srcs : current.local[s] >= g.local[s]
ShowsRemote(g) ==
    \A d \in Devices :
        IF Present(current.remote[d])
        THEN current.remote[d].ver >= Stamp(g.remote[d])
        ELSE Present(g.remote[d]) => files[d].gone > g.remote[d].ver

\* A promise is kept, and will be: the next publication keeps it as well.
Kept(g) == Backed(g) /\ Holds(seen, g) /\ ShowsLocal(g) /\ ShowsRemote(g)

\* A change of a snapshot is the latest one, a file is not written and removed
\* by the same change, and a published snapshot is an earlier form of the file.
FileInv ==
    \A d \in Devices : /\ files[d].ver <= stamp /\ files[d].gone <= stamp
                       /\ files[d].ver = files[d].gone => files[d].ver = 0
                       /\ current.remote[d].ver <= files[d].ver
                       /\ current.remote[d].gone <= files[d].gone

\* The parts of a well-typed state that promises are compared with.
LEMMA ContentType ==
  ASSUME TypeOK
  PROVE  /\ disk \in [Sources -> Nat] /\ seen \in [Sources -> Nat]
         /\ inventory \in [Sources -> Nat] /\ current.local \in [Sources -> Nat]
         /\ sources \subseteq Sources /\ sources # {} /\ current.srcs \subseteq Sources
         /\ stamp \in Nat /\ files \in [Devices -> File]
         /\ current.remote \in [Devices -> File]
         /\ \A d \in Devices : /\ files[d].ver \in Nat /\ files[d].gone \in Nat
                               /\ current.remote[d].ver \in Nat
                               /\ current.remote[d].gone \in Nat
  <1>1. sources \subseteq Sources /\ sources # {}
    BY WorkerAssumption DEF TypeOK
  <1>2. files \in [Devices -> File] /\ current.remote \in [Devices -> File]
    BY DEF TypeOK, Published
  <1>3. \A f \in File : f.ver \in Nat /\ f.gone \in Nat
    BY DEF File
  <1> QED
    BY <1>1, <1>2, <1>3 DEF TypeOK, Published

\* A promise is a number for every source and a file for every device.
LEMMA PromiseParts ==
  \A g \in Promise :
      /\ \A s \in Sources : g.local[s] \in Nat
      /\ \A d \in Devices : /\ g.remote[d] \in File
                            /\ g.remote[d].ver \in Nat /\ g.remote[d].gone \in Nat
  BY DEF Promise, File

\* Sending adds a command, taking one uncovers it and adds none.
LEMMA SentFacts ==
  ASSUME NEW S, NEW q \in Seq(S)
  PROVE  /\ \A c \in S : Sent(Append(q, c)) = Sent(q) \cup {c}
         /\ q # <<>> => Head(q) \in Sent(q) /\ Sent(Tail(q)) \subseteq Sent(q)
         /\ Sent(q) \subseteq S
  <1>1. ASSUME NEW c \in S
        PROVE  Sent(Append(q, c)) = Sent(q) \cup {c}
    <2>1. /\ Len(q) \in Nat /\ DOMAIN q = 1..Len(q)
          /\ DOMAIN Append(q, c) = 1..(Len(q) + 1)
          /\ \A i \in 1..Len(q) : Append(q, c)[i] = q[i]
          /\ Append(q, c)[Len(q) + 1] = c
      OBVIOUS
    <2>2. 1..(Len(q) + 1) = 1..Len(q) \cup {Len(q) + 1}
      BY <2>1
    <2> QED
      BY <2>1, <2>2 DEF Sent
  <1>2. ASSUME q # <<>>
        PROVE  Head(q) \in Sent(q) /\ Sent(Tail(q)) \subseteq Sent(q)
    <2>1. /\ Len(q) \in Nat \ {0} /\ DOMAIN q = 1..Len(q) /\ Head(q) = q[1]
          /\ Len(Tail(q)) = Len(q) - 1 /\ DOMAIN Tail(q) = 1..(Len(q) - 1)
          /\ \A i \in 1..(Len(q) - 1) : Tail(q)[i] = q[i + 1]
      BY <1>2
    <2>2. 1 \in 1..Len(q) /\ \A i \in 1..(Len(q) - 1) : i + 1 \in 1..Len(q)
      BY <2>1
    <2> QED
      BY <2>1, <2>2 DEF Sent
  <1>3. Sent(q) \subseteq S
    BY DEF Sent
  <1> QED
    BY <1>1, <1>2, <1>3

LEMMA SentEmpty == Sent(<<>>) = {}
  BY DEF Sent

\* One file of the store replaced by its next version.
LEMMA FileWrite ==
  ASSUME TypeOK, FileInv, NEW d \in Devices,
         NEW f \in {Written(files[d]), Removed(files[d])},
         files' = [files EXCEPT ![d] = f], stamp' = stamp + 1, UNCHANGED current
  PROVE  /\ FileInv'
         /\ \A x \in Devices : /\ files[x].ver <= files'[x].ver
                               /\ files[x].gone <= files'[x].gone
  <1>1. /\ f.ver \in {files[d].ver, stamp + 1} /\ f.gone \in {files[d].gone, stamp + 1}
        /\ f.ver # f.gone
    <2>1. /\ Written(files[d]).ver = stamp + 1 /\ Written(files[d]).gone = files[d].gone
          /\ Removed(files[d]).ver = files[d].ver /\ Removed(files[d]).gone = stamp + 1
      BY ContentType DEF Written, Removed, File
    <2> QED
      BY <2>1, ContentType DEF FileInv
  <1>2. files'[d] = f /\ \A x \in Devices \ {d} : files'[x] = files[x]
    BY ContentType
  <1>3. \A x \in Devices : files[x].ver <= files'[x].ver /\ files[x].gone <= files'[x].gone
    BY <1>1, <1>2, ContentType DEF FileInv
  <1>4. \A x \in Devices : /\ files'[x].ver <= stamp' /\ files'[x].gone <= stamp'
                           /\ files'[x].ver = files'[x].gone => files'[x].ver = 0
    BY <1>1, <1>2, ContentType DEF FileInv
  <1>5. \A x \in Devices : /\ current.remote[x].ver <= files'[x].ver
                           /\ current.remote[x].gone <= files'[x].gone
    BY <1>1, <1>2, ContentType DEF FileInv
  <1> QED
    BY <1>3, <1>4, <1>5 DEF FileInv

\* Files are changed by the store and by others, in one of two ways.
LEMMA FileChanges ==
  ASSUME TypeOK, [Next]_vars
  PROVE  \/ /\ \E d \in Devices : \E f \in {Written(files[d]), Removed(files[d])} :
                 files' = [files EXCEPT ![d] = f]
            /\ stamp' = stamp + 1 /\ UNCHANGED current
         \/ UNCHANGED <<files, stamp>>
  <1>1. CASE Remote
    <2>1. Cmd.dev \in Devices /\ UNCHANGED current
      BY <1>1, TakeType, CommandFields DEF Remote
    <2> QED
      BY <1>1, <2>1 DEF Remote, StoreWrite, StoreKeep
  <1>2. CASE \E d \in Devices : EditRemote(d)
    BY <1>2 DEF EditRemote, ownVars
  <1>3. Scan \/ Parse \/ RefreshFails \/ Merge \/ SwitchSources => UNCHANGED <<files, stamp>>
    BY DEF Scan, Parse, RefreshFails, Merge, SwitchSources
  <1>4. \A s \in Sources : EditLog(s) => UNCHANGED <<files, stamp>>
    BY DEF EditLog
  <1> QED
    BY <1>1, <1>2, <1>3, <1>4, Contents

\* Only a pass that publishes, or a change of the selection, changes what readers
\* see of the snapshots, and then they see the files.
LEMMA RemoteShown ==
  ASSUME TypeOK, [Next]_vars
  PROVE  current'.remote \in {current.remote, files}
  <1>1. CASE Merge
    <2>1. Snapshot(publication + 1, sources, files).remote = files
      BY DEF Snapshot
    <2>2. current' \in {current, Snapshot(publication + 1, sources, files)}
      BY <1>1, MergeOutcome
    <2> QED
      BY <2>1, <2>2
  <1>2. CASE SwitchSources
    <2>1. CASE UNCHANGED current
      BY <2>1
    <2>2. CASE current' = [rev |-> publication + 1, srcs |-> Cmd.homes,
                           listed |-> Cmd.homes, local |-> seen',
                           remote |-> current.remote]
      BY <2>2
    <2> QED
      BY <1>2, <2>1, <2>2, SwitchOutcome
  <1>3. Scan \/ Parse \/ RefreshFails \/ Remote => UNCHANGED current
    BY DEF Scan, Parse, RefreshFails, Remote
  <1>4. /\ \A s \in Sources : EditLog(s) => UNCHANGED current
        /\ \A d \in Devices : EditRemote(d) => UNCHANGED current
    BY DEF EditLog, EditRemote, ownVars
  <1> QED
    BY <1>1, <1>2, <1>3, <1>4, Contents

\* The disk and the store only move on.
LEMMA Growth ==
  ASSUME TypeOK, FileInv, [Next]_vars
  PROVE  /\ FileInv'
         /\ \A d \in Devices : files[d].ver <= files'[d].ver /\ files[d].gone <= files'[d].gone
         /\ \A s \in Sources : disk[s] <= disk'[s]
  <1>1. FileInv' /\ \A d \in Devices : /\ files[d].ver <= files'[d].ver
                                       /\ files[d].gone <= files'[d].gone
    <2>1. CASE UNCHANGED <<files, stamp>>
      BY <2>1, RemoteShown, ContentType DEF FileInv
    <2>2. CASE /\ \E d \in Devices : \E f \in {Written(files[d]), Removed(files[d])} :
                    files' = [files EXCEPT ![d] = f]
               /\ stamp' = stamp + 1 /\ UNCHANGED current
      BY <2>2, FileWrite
    <2> QED
      BY <2>1, <2>2, FileChanges
  <1>2. \A s \in Sources : disk[s] <= disk'[s]
    <2>1. ASSUME NEW x \in Sources, EditLog(x)
          PROVE  \A s \in Sources : disk[s] <= disk'[s]
      BY <2>1, ContentType DEF EditLog
    <2>2. CASE UNCHANGED disk
      BY <2>2, ContentType
    <2>3. /\ Scan \/ Parse \/ RefreshFails \/ Merge \/ SwitchSources \/ Remote
             => UNCHANGED disk
          /\ \A d \in Devices : EditRemote(d) => UNCHANGED disk
      BY DEF Scan, Parse, RefreshFails, Merge, SwitchSources, Remote, EditRemote
    <2> QED
      BY <2>1, <2>2, <2>3, Contents
  <1> QED
    BY <1>1, <1>2

\* What is on disk and in the store stays a fit answer to an earlier promise.
LEMMA BackedStep ==
  ASSUME TypeOK, FileInv, [Next]_vars, NEW g \in Promise, Backed(g)
  PROVE  Backed(g)'
  <1>1. /\ \A s \in Sources : g.local[s] \in Nat /\ disk[s] \in Nat /\ disk'[s] \in Nat
        /\ \A d \in Devices : /\ g.remote[d].ver \in Nat /\ g.remote[d].gone \in Nat
                              /\ files[d].ver \in Nat /\ files[d].gone \in Nat
                              /\ files'[d].ver \in Nat /\ files'[d].gone \in Nat
    <2>1. TypeOK'
      BY TypeStep
    <2>2. disk' \in [Sources -> Nat] /\ files' \in [Devices -> File]
      BY <2>1 DEF TypeOK
    <2>3. \A f \in File : f.ver \in Nat /\ f.gone \in Nat
      BY DEF File
    <2> QED
      BY <2>2, <2>3, PromiseParts, ContentType
  <1>2. \A s \in Sources : g.local[s] <= disk'[s]
    BY <1>1, Growth DEF Backed
  <1>3. \A d \in Devices : g.remote[d].ver <= files'[d].ver /\ g.remote[d].gone <= files'[d].gone
    BY <1>1, Growth DEF Backed
  <1> QED
    BY <1>2, <1>3 DEF Backed

\* Readers who are shown the files are shown what the files are backed by.
LEMMA FilesShow ==
  ASSUME TypeOK, FileInv, NEW g \in Promise, Backed(g), NEW d \in Devices
  PROVE  IF Present(files[d])
         THEN files[d].ver >= Stamp(g.remote[d])
         ELSE Present(g.remote[d]) => files[d].gone > g.remote[d].ver
  <1>1. /\ files[d].ver \in Nat /\ files[d].gone \in Nat
        /\ g.remote[d].ver \in Nat /\ g.remote[d].gone \in Nat
        /\ g.remote[d].ver <= files[d].ver /\ g.remote[d].gone <= files[d].gone
        /\ files[d].ver = files[d].gone => files[d].ver = 0
    BY ContentType, PromiseParts DEF Backed, FileInv
  <1> QED
    BY <1>1 DEF Present, Stamp, Higher

\* What readers are shown of the snapshots stays a fit answer.
LEMMA ShowsRemoteStep ==
  ASSUME TypeOK, FileInv, [Next]_vars, NEW g \in Promise, Backed(g), ShowsRemote(g)
  PROVE  ShowsRemote(g)'
  <1> SUFFICES ASSUME NEW d \in Devices
               PROVE  IF Present(current'.remote[d])
                      THEN current'.remote[d].ver >= Stamp(g.remote[d])
                      ELSE Present(g.remote[d]) => files'[d].gone > g.remote[d].ver
    BY DEF ShowsRemote, Present, Stamp, Higher
  <1>1. /\ files[d].gone \in Nat /\ files[d].gone <= files'[d].gone /\ files'[d].gone \in Nat
        /\ g.remote[d].ver \in Nat
    <2>1. TypeOK'
      BY TypeStep
    <2>2. files'[d] \in File
      BY <2>1 DEF TypeOK
    <2>3. \A f \in File : f.gone \in Nat
      BY DEF File
    <2> QED
      BY <2>2, <2>3, ContentType, PromiseParts, Growth
  <1>2. CASE current'.remote = current.remote
    BY <1>1, <1>2 DEF ShowsRemote
  <1>3. CASE current'.remote = files
    BY <1>1, <1>3, FilesShow
  <1> QED
    BY <1>2, <1>3, RemoteShown

-------------------------------------------------------------------------------
(* Nothing stays unpublished *)

\* Without failing steps, without removals by others and with no refresh queued
\* together with a delete: what the runs refresh_lost and fault_lost leave out.
Calm ==
    /\ MaxFaults = 0
    /\ "remove" \notin Edits
    /\ {"refresh", "delete"} \in Apart

\* Only an abort is reported as an error, and nothing comes after it.  The index
\* is listed before it is compared, and published when it has changed.
IndexInv ==
    /\ localResult = "error" => cancel /\ pc \in {"merge", "stopped"}
    /\ \/ pc \in {"opening", "scan"} /\ due = sources
       \/ localResult = "error"
       \/ \A s \in sources : seen[s] <= inventory[s]
    /\ pc \in {"announce", "answer", "wait", "command"} => publication > 0
    /\ publication > 0 => current.srcs = sources
    /\ \/ publication = 0 \/ pc = "stopped"
       \/ pc = "merge" /\ localResult = "changed"
       \/ \A s \in sources : current.local[s] = seen[s]

\* Nothing fails when no failure is allowed for.
LEMMA NoFaults == TypeOK /\ MaxFaults = 0 => ~Fail
  BY DEF TypeOK, Fail, MayFail

\* The others only touch the disk, the channel and the shutdown flag.
LEMMA OthersKeep ==
  ASSUME Others
  PROVE  UNCHANGED <<current, ownVars, acked>> /\ (cancel => cancel')
  <1>1. ASSUME NEW c \in Clients, CallRefresh(c) \/ CallImport(c) \/ CallRemote(c)
                                  \/ CallSources(c)
        PROVE  UNCHANGED <<cancel, current, ownVars, acked>>
    BY <1>1, CallKeeps DEF CallRefresh, CallImport, CallRemote, CallSources
  <1>2. CASE SavePolling \/ StopWorker
    BY <1>2 DEF SavePolling, StopWorker
  <1>3. CASE RequestShutdown
    <2>1. cancel' = TRUE /\ UNCHANGED <<current, ownVars, acked>>
      BY <1>3 DEF RequestShutdown
    <2> QED
      BY <2>1
  <1>4. /\ \A s \in Sources : EditLog(s) => UNCHANGED <<cancel, current, ownVars, acked>>
        /\ \A d \in Devices : EditRemote(d) => UNCHANGED <<cancel, current, ownVars, acked>>
    BY DEF EditLog, EditRemote
  <1> QED
    BY <1>1, <1>2, <1>3, <1>4 DEF Others

LEMMA IndexPass ==
  ASSUME MaxFaults = 0, TypeOK, ContentInv, IndexInv, Pass
  PROVE  IndexInv'
  <1> USE DEF IndexInv
  <1>0. ~Fail
    BY NoFaults
  <1>1. CASE Open
    BY <1>1 DEF Open
  <1>2. CASE Scan
    <2>1. \A s \in sources : seen[s] <= inventory'[s]
      <3>1. inventory' = Inventory /\ localResult # "error"
        BY <1>2 DEF Scan
      <3>2. CASE due = sources
        <4>1. \A s \in sources : inventory'[s] = disk[s]
          BY <3>1, <3>2, ContentType DEF Inventory, Scope
        <4> QED
          BY <4>1, ContentType DEF ContentInv
      <3>3. CASE \A s \in sources : seen[s] <= inventory[s]
        <4>1. \A s \in sources : inventory'[s] \in {disk[s], inventory[s]}
          BY <3>1, ContentType DEF Inventory
        <4> QED
          BY <3>3, <4>1, ContentType DEF ContentInv
      <3> QED
        BY <3>1, <3>2, <3>3
    <2>2. pc = "scan" /\ pc' \in {"parse", "merge"}
          /\ localResult' \in {localResult, "unchanged"}
          /\ UNCHANGED <<publication, current, sources, seen, cancel>>
      BY <1>2 DEF Scan
    <2> QED
      BY <2>1, <2>2
  <1>3. CASE Parse
    <2>1. /\ pc = "parse" /\ pc' = "merge" /\ seen' = inventory
          /\ localResult' = IF seen' = seen THEN "unchanged" ELSE "changed"
          /\ UNCHANGED <<publication, current, sources, inventory, cancel>>
      BY <1>3 DEF Parse
    <2>2. \A s \in sources : seen'[s] <= inventory'[s]
      BY <2>1, ContentType
    <2> QED
      BY <2>1, <2>2
  <1>4. CASE RefreshFails
    <2>1. /\ cancel /\ pc \in {"scan", "parse"} /\ pc' = "merge"
          /\ localResult' = "error"
          /\ UNCHANGED <<publication, current, sources, seen, cancel>>
      BY <1>0, <1>4 DEF RefreshFails
    <2> QED
      BY <2>1
  <1>5. CASE Cancelled
    BY <1>5 DEF Cancelled, CancelSeen, Terminate
  <1>6. CASE Merge
    <2>1. /\ pc = "merge" /\ pc' = "announce" /\ localResult # "error"
          /\ UNCHANGED <<sources, seen, inventory, localResult, cancel>>
      BY <1>6 DEF Merge, CancelSeen
    <2>2. CASE NeedsPublication
      <3>1. /\ publication' = publication + 1
            /\ current' = Snapshot(publication + 1, sources, files)
        BY <1>6, <2>1, <2>2 DEF Merge
      <3>2. current'.srcs = sources /\ \A s \in sources : current'.local[s] = seen[s]
        BY <3>1, ContentType DEF Snapshot
      <3>3. publication' > 0
        BY <3>1 DEF TypeOK
      <3> QED
        BY <2>1, <3>2, <3>3
    <2>3. CASE ~NeedsPublication
      <3>1. /\ UNCHANGED <<publication, current>>
            /\ publication # 0 /\ localResult # "changed"
        BY <1>6, <2>3 DEF Merge, NeedsPublication
      <3>2. publication > 0
        BY <3>1 DEF TypeOK
      <3> QED
        BY <2>1, <3>1, <3>2
    <2> QED
      BY <2>2, <2>3
  <1>7. CASE Announce \/ Answer
    BY <1>7 DEF Announce, Answer
  <1>8. ~OpenFails /\ ~StoreFails
    BY <1>0 DEF OpenFails, StoreFails
  <1> QED
    BY <1>1, <1>2, <1>3, <1>4, <1>5, <1>6, <1>7, <1>8 DEF Pass

LEMMA IndexHandle ==
  ASSUME MaxFaults = 0, TypeOK, ContentInv, IndexInv, Handle
  PROVE  IndexInv'
  <1> USE DEF IndexInv
  <1>0. pc = "command" => /\ localResult # "error" /\ publication > 0
                          /\ \A s \in sources : seen[s] <= inventory[s]
                          /\ \A s \in sources : current.local[s] = seen[s]
    BY DEF TypeOK
  <1>1. CASE SwitchSources
    <2>1. pc = "command" /\ UNCHANGED <<pc, localResult, cancel>>
      BY <1>1 DEF SwitchSources, Take
    <2>2. CASE Cmd.homes = sources
      <3>1. UNCHANGED <<sharedVars, loopVars, inventory, publication, indexVars>>
        BY <1>1, <2>2 DEF SwitchSources
      <3> QED
        BY <1>0, <2>1, <3>1
    <2>3. CASE Cmd.homes # sources
      <3>1. /\ sources' = Cmd.homes /\ inventory' = seen'
            /\ publication' = publication + 1
            /\ current' = [rev |-> publication + 1, srcs |-> Cmd.homes,
                           listed |-> Cmd.homes, local |-> seen',
                           remote |-> KeptRemotes]
            /\ seen' = [s \in Sources |-> IF s \in Cmd.homes THEN disk[s] ELSE 0]
        BY <1>1, <2>3 DEF SwitchSources
      <3>2. current'.srcs = sources' /\ current'.local = seen' /\ publication' > 0
        BY <3>1 DEF TypeOK
      <3>3. \A s \in sources' : seen'[s] <= inventory'[s]
        <4>1. Cmd.homes \subseteq Sources
          BY <1>1, TakeType, CommandFields, HomesType DEF SwitchSources
        <4> QED
          BY <3>1, <4>1, ContentType
      <3> QED
        BY <1>0, <2>1, <3>2, <3>3
    <2> QED
      BY <2>2, <2>3
  <1>2. CASE EndBatch
    <2>1. /\ pc = "command" /\ pc' \in {"scan", "stopped"}
          /\ UNCHANGED <<publication, current, sources, seen, inventory, localResult, cancel>>
      BY <1>2 DEF EndBatch, Terminate
    <2> QED
      BY <1>0, <2>1
  <1>3. CASE Refresh \/ Wake \/ Reconfigure \/ Stop \/ Remote \/ SourcesConflict
             \/ SourcesFail \/ RemoteFails
    <2>1. /\ pc = "command" /\ pc' = pc
          /\ UNCHANGED <<publication, current, sources, seen, inventory, localResult, cancel>>
      BY <1>3 DEF Refresh, Wake, Reconfigure, Stop, Remote, SourcesConflict,
                  SourcesFail, RemoteFails, Take
    <2> QED
      BY <1>0, <2>1
  <1> QED
    BY <1>1, <1>2, <1>3 DEF Handle

LEMMA IndexStep ==
  ASSUME MaxFaults = 0, TypeOK, ContentInv, IndexInv, [Next]_vars
  PROVE  IndexInv'
  <1>1. CASE Waiting
    <2>1. /\ pc = "wait" /\ pc' \in {"scan", "command"}
          /\ UNCHANGED <<publication, current, sources, seen, inventory, localResult, cancel>>
      BY <1>1 DEF Waiting, Timeout, Receive
    <2> QED
      BY <2>1 DEF IndexInv
  <1>2. CASE Others
    BY <1>2, OthersKeep DEF ownVars, IndexInv
  <1>3. CASE UNCHANGED vars
    BY <1>3 DEF vars, ownVars, IndexInv
  <1> QED
    BY <1>1, <1>2, <1>3, IndexPass, IndexHandle DEF Next, WorkerStep

\* What the index holds of a source that stays selected never moves back, as long
\* as nothing fails: a pass takes in no listing that is older than the index.  The
\* run unlisted shows that a single failing listing is enough to lose it.
THEOREM IndexNeverBack ==
  ASSUME MaxFaults = 0
  PROVE  Spec => IndexKeeps
  <1>1. Init => ContentInv /\ IndexInv
    BY DEF Init, ContentInv, IndexInv, NoFile, Stamp, Higher
  <1>2. TypeOK /\ ContentInv /\ IndexInv /\ [Next]_vars => ContentInv' /\ IndexInv'
    BY ContentStep, IndexStep
  <1>3. ASSUME TypeOK, ContentInv, IndexInv, [Next]_vars
        PROVE  \A s \in sources \cap sources' : seen'[s] >= seen[s]
    <2>1. CASE Parse
      <3>1. pc = "parse" /\ seen' = inventory
        BY <2>1 DEF Parse
      <3>2. \A s \in sources : seen[s] <= inventory[s]
        BY <1>3, <3>1 DEF IndexInv
      <3> QED
        BY <1>3, <3>1, <3>2, ContentType
    <2>2. CASE SwitchSources
      <3>1. CASE UNCHANGED seen
        BY <1>3, <3>1, ContentType
      <3>2. CASE /\ sources' = Cmd.homes
                 /\ seen' = [s \in Sources |-> IF s \in Cmd.homes THEN disk[s] ELSE 0]
        <4>1. \A s \in sources \cap sources' : seen'[s] = disk[s]
          BY <1>3, <3>2, ContentType
        <4> QED
          BY <1>3, <4>1, ContentType DEF ContentInv
      <3> QED
        BY <2>2, <3>1, <3>2 DEF SwitchSources
    <2>3. CASE UNCHANGED seen
      BY <1>3, <2>3, ContentType
    <2>4. Scan \/ RefreshFails \/ Merge \/ Remote => UNCHANGED seen
      BY DEF Scan, RefreshFails, Merge, Remote
    <2>5. /\ \A s \in Sources : EditLog(s) => UNCHANGED seen
          /\ \A d \in Devices : EditRemote(d) => UNCHANGED seen
      BY DEF EditLog, EditRemote, ownVars
    <2> QED
      BY <1>3, <2>1, <2>2, <2>3, <2>4, <2>5, Contents
  <1>4. TypeOK /\ ContentInv /\ IndexInv /\ [Next]_vars
        => [\A s \in sources \cap sources' : seen'[s] >= seen[s]]_vars
    BY <1>3
  <1> QED
    BY <1>1, <1>2, <1>4, TypeCorrect, PTL DEF Spec, IndexKeeps

\* A queue never holds a refresh and a delete.
NoneApart(q) == \A m, n \in Sent(q) : ~(m.op = "refresh" /\ n.op = "delete")

\* The cache knows what readers see, or nothing.  A removal that readers do not
\* see yet is marked, and no refresh of its batch can clear the mark.
StoreInv ==
    /\ NoneApart(queue) /\ NoneApart(batch)
    /\ \A d \in Devices :
         /\ cache[d] \in {0, Vis(current.remote[d])}
         /\ pc \in {"announce", "answer", "wait"} => cache[d] = Vis(current.remote[d])
         /\ files[d].gone # current.remote[d].gone =>
              /\ dirty
              /\ pc \in {"command", "scan", "parse", "merge", "stopped"}
              /\ \A m \in Sent(batch) : m.op # "refresh"

\* Sending adds at most the command sent.
LEMMA SendSent ==
  ASSUME TypeOK, NEW cmd \in Command, TrySend(cmd)
  PROVE  Sent(queue') \subseteq Sent(queue) \cup {cmd}
  <1>1. queue \in Seq(Command)
    BY DEF TypeOK
  <1>2. CASE queue' = Append(queue, cmd)
    BY <1>1, <1>2, SentFacts
  <1>3. CASE queue' = queue
    BY <1>3
  <1> QED
    BY <1>2, <1>3 DEF TrySend

\* A command that was sent and may not be queued with others was not.
Fit(cmd) ==
    /\ cmd.op = "refresh" => /\ "refresh" \in Ops
                             /\ cmd.floor = [local |-> disk, remote |-> files]
    /\ cmd.op \in {"refresh", "delete"} =>
         \A m \in Sent(queue) : {m.op, cmd.op} \notin Apart

LEMMA CallSent ==
  ASSUME TypeOK, NEW c \in Clients, NEW cmd \in Command, Call(c, cmd),
         cmd.op = "refresh" => /\ "refresh" \in Ops
                               /\ cmd.floor = [local |-> disk, remote |-> files]
  PROVE  batch' = batch /\ \E x \in Command : /\ Sent(queue') \subseteq Sent(queue) \cup {x}
                                              /\ Fit(x)
  <1>1. batch' = batch /\ TrySend(cmd)
    BY DEF Call, ownVars
  <1>2. \A m \in Sent(queue) : {m.op, cmd.op} \notin Apart
    BY DEF Call, Sent
  <1> QED
    BY <1>1, <1>2, SendSent DEF Fit

\* What happens to the channel and to the batch in a step.
LEMMA Channel ==
  ASSUME TypeOK, [Next]_vars
  PROVE  \/ Sent(queue') \subseteq Sent(queue) /\ Sent(batch') \subseteq Sent(batch)
         \/ pc = "wait" /\ Sent(queue') = {} /\ batch' = queue
         \/ batch' = batch /\ \E x \in Command : /\ Sent(queue') \subseteq Sent(queue) \cup {x}
                                                 /\ Fit(x)
  <1>1. CASE Pass
    <2>1. \/ UNCHANGED <<queue, batch>>
          \/ queue' = <<>> /\ batch' = <<>>
      BY <1>1 DEF Pass, Open, OpenFails, Scan, Parse, RefreshFails, Cancelled, Merge,
                  StoreFails, Announce, Answer, Terminate
    <2> QED
      BY <2>1, SentEmpty
  <1>2. CASE Waiting
    BY <1>2, SentEmpty DEF Waiting, Timeout, Receive
  <1>3. CASE Handle
    <2>1. \/ UNCHANGED <<queue, batch>>
          \/ queue' = <<>> /\ batch' = <<>>
          \/ UNCHANGED queue /\ batch # <<>> /\ batch' = Tail(batch)
      BY <1>3 DEF Handle, Refresh, Wake, Reconfigure, Stop, Remote, RemoteFails,
                  SourcesConflict, SwitchSources, SourcesFail, EndBatch, Terminate, Take
    <2>2. batch \in Seq(Command)
      BY DEF TypeOK
    <2> QED
      BY <2>1, <2>2, SentEmpty, SentFacts
  <1>4. CASE Others
    <2> DEFINE Sends == batch' = batch /\ \E x \in Command :
                          Sent(queue') \subseteq Sent(queue) \cup {x} /\ Fit(x)
    <2>1. ASSUME NEW c \in Clients, CallRefresh(c)
          PROVE  Sends
      <3> DEFINE cmd == [op |-> "refresh", by |-> c,
                         floor |-> [local |-> disk, remote |-> files]]
      <3>1. cmd \in Command /\ cmd.floor = [local |-> disk, remote |-> files]
        BY DEF Command, Promise, TypeOK
      <3>2. Call(c, cmd) /\ "refresh" \in Ops
        BY <2>1 DEF CallRefresh
      <3> HIDE DEF cmd
      <3> QED
        BY <3>1, <3>2, CallSent
    <2>2. ASSUME NEW c \in Clients, CallImport(c)
          PROVE  Sends
      <3> PICK d \in Devices, l \in BOOLEAN :
            Call(c, [op |-> "import", by |-> c, dev |-> d, labelled |-> l])
        BY <2>2 DEF CallImport
      <3>1. [op |-> "import", by |-> c, dev |-> d, labelled |-> l] \in Command
        BY DEF Command
      <3> QED
        BY <3>1, CallSent
    <2>3. ASSUME NEW c \in Clients, CallRemote(c)
          PROVE  Sends
      <3> PICK op \in Ops \cap {"rename", "delete"}, d \in Devices :
            Call(c, [op |-> op, by |-> c, dev |-> d])
        BY <2>3 DEF CallRemote
      <3>1. [op |-> op, by |-> c, dev |-> d] \in Command
        BY DEF Command
      <3>2. [op |-> op, by |-> c, dev |-> d].op # "refresh"
        OBVIOUS
      <3> QED
        BY <3>1, <3>2, CallSent
    <2>4. ASSUME NEW c \in Clients, CallSources(c)
          PROVE  Sends
      <3> PICK h \in Homes, e \in Homes :
            Call(c, [op |-> "sources", by |-> c, homes |-> h, expected |-> e])
        BY <2>4 DEF CallSources
      <3>1. [op |-> "sources", by |-> c, homes |-> h, expected |-> e] \in Command
        BY DEF Command
      <3> QED
        BY <3>1, CallSent
    <2>5. ASSUME NEW cmd \in Command, TrySend(cmd), batch' = batch,
                 cmd.op \in {"polling", "stop", "wake"}
          PROVE  Sends
      BY <2>5, SendSent DEF Fit
    <2>6. ASSUME SavePolling
          PROVE  Sends
      <3>1. [op |-> "polling"] \in Command
        BY DEF Command
      <3> QED
        BY <2>5, <2>6, <3>1 DEF SavePolling, ownVars
    <2>7. ASSUME StopWorker
          PROVE  Sends
      <3>1. [op |-> "stop"] \in Command
        BY DEF Command
      <3> QED
        BY <2>5, <2>7, <3>1 DEF StopWorker, ownVars
    <2>8. ASSUME NEW s \in Sources, EditLog(s), ~ UNCHANGED queue
          PROVE  Sends
      <3>1. [op |-> "wake", src |-> s] \in Command
        BY DEF Command
      <3>2. TrySend([op |-> "wake", src |-> s]) /\ batch' = batch
        BY <2>8 DEF EditLog, ownVars
      <3> QED
        BY <2>5, <3>1, <3>2
    <2>9. RequestShutdown => UNCHANGED <<queue, batch>>
      BY DEF RequestShutdown, ownVars
    <2>10. ASSUME NEW s \in Sources, EditLog(s)
           PROVE  Sends \/ UNCHANGED <<queue, batch>>
      <3>1. UNCHANGED batch
        BY <2>10 DEF EditLog, ownVars
      <3> HIDE DEF Sends
      <3>2. UNCHANGED queue \/ Sends
        BY <2>8, <2>10
      <3> QED
        BY <3>1, <3>2
    <2>11. \A d \in Devices : EditRemote(d) => UNCHANGED <<queue, batch>>
      BY DEF EditRemote, ownVars
    <2> HIDE DEF Sends
    <2>12. ASSUME NEW c \in Clients,
                  CallRefresh(c) \/ CallImport(c) \/ CallRemote(c) \/ CallSources(c)
           PROVE  Sends
      BY <2>1, <2>2, <2>3, <2>4, <2>12
    <2>13. Sends \/ UNCHANGED <<queue, batch>>
      BY <1>4, <2>6, <2>7, <2>9, <2>10, <2>11, <2>12 DEF Others
    <2> QED
      BY <2>13 DEF Sends
  <1>5. CASE UNCHANGED vars
    BY <1>5 DEF vars, ownVars
  <1> QED
    BY <1>1, <1>2, <1>3, <1>4, <1>5 DEF Next, WorkerStep

\* A refresh and a delete do not get into one queue, nor into one batch.
LEMMA ApartStep ==
  ASSUME Calm, TypeOK, NoneApart(queue), NoneApart(batch), [Next]_vars
  PROVE  NoneApart(queue') /\ NoneApart(batch')
  <1>1. CASE Sent(queue') \subseteq Sent(queue) /\ Sent(batch') \subseteq Sent(batch)
    BY <1>1 DEF NoneApart
  <1>2. CASE Sent(queue') = {} /\ batch' = queue
    BY <1>2 DEF NoneApart
  <1>3. CASE batch' = batch /\ \E x \in Command : /\ Sent(queue') \subseteq Sent(queue) \cup {x}
                                                  /\ Fit(x)
    <2> PICK x \in Command : Sent(queue') \subseteq Sent(queue) \cup {x} /\ Fit(x)
      BY <1>3
    <2>1. /\ x.op = "refresh" => \A m \in Sent(queue) : m.op # "delete"
          /\ x.op = "delete" => \A m \in Sent(queue) : m.op # "refresh"
      <3>1. {"refresh", "delete"} \in Apart /\ {"refresh", "delete"} = {"delete", "refresh"}
        BY DEF Calm
      <3> QED
        BY <3>1 DEF Fit
    <2> QED
      BY <1>3, <2>1 DEF NoneApart
  <1> QED
    BY <1>1, <1>2, <1>3, Channel

\* A pass that comes to its end leaves readers with what the files hold.
LEMMA MergeShows ==
  ASSUME Calm, TypeOK, FileInv, IndexInv, StoreInv, Merge
  PROVE  /\ \A s \in sources : current'.local[s] = seen[s]
         /\ current'.srcs = sources
         /\ \A d \in Devices : /\ Vis(current'.remote[d]) = Vis(files[d])
                               /\ current'.remote[d].gone = files[d].gone
  <1>1. pc = "merge" /\ localResult # "error"
    BY DEF Merge, CancelSeen, IndexInv
  <1>2. CASE NeedsPublication
    <2>1. current' = Snapshot(publication + 1, sources, files)
      BY <1>1, <1>2 DEF Merge
    <2>2. current'.srcs = sources /\ current'.remote = files
          /\ \A s \in sources : current'.local[s] = seen[s]
      BY <2>1, ContentType DEF Snapshot
    <2> QED
      BY <2>2
  <1>3. CASE ~NeedsPublication
    <2>1. /\ UNCHANGED current /\ ~dirty /\ publication # 0 /\ localResult # "changed"
          /\ \A d \in Devices : cache[d] = Vis(files[d])
      BY <1>3 DEF Merge, NeedsPublication, RemoteChanged
    <2>2. \A s \in sources : current.local[s] = seen[s]
      BY <1>1, <2>1 DEF IndexInv
    <2>3. current.srcs = sources
      <3>1. publication > 0
        BY <2>1 DEF TypeOK
      <3> QED
        BY <3>1 DEF IndexInv
    <2>4. \A d \in Devices : /\ Vis(current.remote[d]) = Vis(files[d])
                             /\ current.remote[d].gone = files[d].gone
      <3> TAKE d \in Devices
      <3>1. files[d].gone = current.remote[d].gone /\ Vis(files[d]) \in {0, Vis(current.remote[d])}
        BY <2>1 DEF StoreInv
      <3>2. current.remote[d].ver <= files[d].ver
        BY DEF FileInv
      <3> QED
        BY <3>1, <3>2, ContentType DEF Vis, Present
    <2> QED
      BY <2>1, <2>2, <2>3, <2>4
  <1> QED
    BY <1>2, <1>3

\* The part of StoreInv about one device.
StoreOf(d) ==
    /\ cache[d] \in {0, Vis(current.remote[d])}
    /\ pc \in {"announce", "answer", "wait"} => cache[d] = Vis(current.remote[d])
    /\ files[d].gone # current.remote[d].gone =>
         /\ dirty
         /\ pc \in {"command", "scan", "parse", "merge", "stopped"}
         /\ \A m \in Sent(batch) : m.op # "refresh"

LEMMA StorePass ==
  ASSUME Calm, TypeOK, FileInv, IndexInv, StoreInv, Pass, NEW d \in Devices
  PROVE  StoreOf(d)'
  <1>0. ~Fail
    BY NoFaults DEF Calm
  <1>1. CASE Merge
    <2>1. cache'[d] = Vis(files[d]) /\ UNCHANGED files
      BY <1>1 DEF Merge
    <2>2. /\ cache'[d] = Vis(current'.remote[d])
          /\ files'[d].gone = current'.remote[d].gone
      BY <1>1, <2>1, MergeShows
    <2> QED
      BY <2>2 DEF StoreOf, Vis, Present
  <1>2. CASE Open \/ Scan \/ Parse \/ RefreshFails \/ Cancelled
    <2>1. /\ UNCHANGED <<files, current, cache, dirty>>
          /\ pc \in {"opening", "scan", "parse", "merge"}
          /\ pc' \in {"scan", "parse", "merge", "stopped"}
          /\ batch' = batch \/ batch' = <<>>
      BY <1>2 DEF Open, Scan, Parse, RefreshFails, Cancelled, Terminate
    <2> QED
      BY <2>1, SentEmpty DEF StoreInv, StoreOf, Vis, Present
  <1>3. CASE Announce \/ Answer
    <2>1. /\ UNCHANGED <<files, current, cache, dirty, batch>>
          /\ pc \in {"announce", "answer"} /\ pc' \in {"answer", "wait"}
      BY <1>3 DEF Announce, Answer
    <2> QED
      BY <2>1 DEF StoreInv, StoreOf, Vis, Present
  <1>4. ~OpenFails /\ ~StoreFails
    BY <1>0 DEF OpenFails, StoreFails
  <1> QED
    BY <1>1, <1>2, <1>3, <1>4 DEF Pass

\* A write of the store leaves its mark, and a removal was not removed before.
LEMMA StoreRemote ==
  ASSUME Calm, TypeOK, FileInv, IndexInv, StoreInv, Remote, NEW d \in Devices
  PROVE  StoreOf(d)'
  <1>1. /\ pc = "command" /\ pc' = "command" /\ UNCHANGED current
        /\ batch # <<>> /\ batch' = Tail(batch) /\ batch \in Seq(Command)
        /\ Cmd.dev \in Devices
    BY TakeType, CommandFields DEF Remote, Take, TypeOK
  <1>2. Cmd \in Sent(batch) /\ Sent(batch') \subseteq Sent(batch)
    BY <1>1, SentFacts DEF Cmd
  <1>3. CASE UNCHANGED <<files, cache, dirty>>
    BY <1>1, <1>2, <1>3 DEF StoreInv, StoreOf, Vis, Present
  <1>4. CASE StoreWrite(Cmd.dev, Written(files[Cmd.dev]))
    <2>1. files'[d].gone = files[d].gone
      <3>1. files'[d] = IF d = Cmd.dev THEN Written(files[d]) ELSE files[d]
        BY <1>1, <1>4, ContentType DEF StoreWrite
      <3>2. Written(files[d]).gone = files[d].gone
        BY ContentType DEF Written, File
      <3> QED
        BY <3>1, <3>2
    <2>2. dirty' = TRUE /\ cache'[d] \in {0, cache[d]}
      BY <1>1, <1>4 DEF StoreWrite, TypeOK
    <2> QED
      BY <1>1, <1>2, <2>1, <2>2 DEF StoreInv, StoreOf, Vis, Present
  <1>5. CASE Cmd.op = "delete" /\ StoreWrite(Cmd.dev, Removed(files[Cmd.dev]))
    <2>1. \A m \in Sent(batch') : m.op # "refresh"
      BY <1>2, <1>5 DEF StoreInv, NoneApart
    <2>2. dirty' = TRUE /\ cache'[d] \in {0, cache[d]}
      BY <1>1, <1>5 DEF StoreWrite, TypeOK
    <2> QED
      BY <1>1, <2>1, <2>2 DEF StoreInv, StoreOf, Vis, Present
  <1> QED
    BY <1>3, <1>4, <1>5 DEF Remote, StoreKeep, Take

LEMMA StoreHandle ==
  ASSUME Calm, TypeOK, FileInv, IndexInv, StoreInv, Handle, NEW d \in Devices
  PROVE  StoreOf(d)'
  <1>1. CASE Refresh
    <2>1. /\ pc = "command" /\ pc' = "command" /\ UNCHANGED <<current, files>>
          /\ cache'[d] = 0
          /\ Cmd \in Sent(batch) /\ Cmd.op = "refresh"
      BY <1>1, SentFacts DEF Refresh, Take, Cmd, TypeOK
    <2>2. files[d].gone = current.remote[d].gone
      BY <2>1 DEF StoreInv
    <2> QED
      BY <2>1, <2>2 DEF StoreOf, Vis, Present
  <1>2. CASE SwitchSources
    <2>1. current'.remote = current.remote
      <3>1. CASE UNCHANGED current
        BY <3>1
      <3>2. CASE current' = [rev |-> publication + 1, srcs |-> Cmd.homes,
                             listed |-> Cmd.homes, local |-> seen',
                             remote |-> current.remote]
        BY <3>2
      <3> QED
        BY <1>2, <3>1, <3>2, SwitchOutcome
    <2>2. /\ pc = "command" /\ pc' = "command" /\ UNCHANGED <<files, cache, dirty>>
          /\ Sent(batch') \subseteq Sent(batch)
      BY <1>2, SentFacts DEF SwitchSources, Take, TypeOK
    <2> QED
      BY <2>1, <2>2 DEF StoreInv, StoreOf, Vis, Present
  <1>3. CASE Wake \/ Reconfigure \/ Stop \/ SourcesConflict \/ SourcesFail
    <2>1. /\ pc = "command" /\ pc' = "command" /\ UNCHANGED <<current, files, cache, dirty>>
          /\ batch # <<>> /\ batch' = Tail(batch)
      BY <1>3 DEF Wake, Reconfigure, Stop, SourcesConflict, SourcesFail, Take
    <2>2. Sent(batch') \subseteq Sent(batch)
      BY <2>1, SentFacts DEF TypeOK
    <2> QED
      BY <2>1, <2>2 DEF StoreInv, StoreOf, Vis, Present
  <1>4. CASE EndBatch
    <2>1. /\ pc = "command" /\ pc' \in {"scan", "stopped"}
          /\ UNCHANGED <<current, files, cache, dirty>>
          /\ batch' = batch \/ batch' = <<>>
      BY <1>4 DEF EndBatch, Terminate
    <2> QED
      BY <2>1, SentEmpty DEF StoreInv, StoreOf, Vis, Present
  <1>5. ~RemoteFails
    BY NoFaults DEF RemoteFails, Calm
  <1> QED
    BY <1>1, <1>2, <1>3, <1>4, <1>5, StoreRemote DEF Handle

LEMMA StoreStep ==
  ASSUME Calm, TypeOK, FileInv, IndexInv, StoreInv, [Next]_vars
  PROVE  StoreInv'
  <1>1. ASSUME NEW d \in Devices
        PROVE  StoreOf(d)'
    <2>1. CASE Waiting
      <3>1. /\ UNCHANGED <<current, files, cache, dirty>> /\ pc = "wait"
            /\ pc' \in {"scan", "command"}
        BY <2>1 DEF Waiting, Timeout, Receive
      <3> QED
        BY <3>1 DEF StoreInv, StoreOf, Vis, Present
    <2>2. CASE Others
      <3>1. UNCHANGED <<current, cache, dirty, pc, batch>>
        BY <2>2, OthersKeep DEF ownVars
      <3>2. files'[d].gone = files[d].gone
        <4>1. ASSUME NEW x \in Devices, EditRemote(x)
              PROVE  files'[d].gone = files[d].gone
          <5>1. files' = [files EXCEPT ![x] = Written(@)]
            BY <4>1 DEF EditRemote, Calm
          <5>2. files'[d] \in {files[d], Written(files[d])}
            BY <5>1, ContentType
          <5>3. Written(files[d]).gone = files[d].gone
            BY ContentType DEF Written, File
          <5> QED
            BY <5>2, <5>3
        <4>2. \A c, cmd : Call(c, cmd) => UNCHANGED files
          BY DEF Call
        <4>3. ASSUME NEW c \in Clients,
                     CallRefresh(c) \/ CallImport(c) \/ CallRemote(c) \/ CallSources(c)
              PROVE  UNCHANGED files
          BY <4>2, <4>3 DEF CallRefresh, CallImport, CallRemote, CallSources
        <4>4. /\ SavePolling \/ RequestShutdown \/ StopWorker => UNCHANGED files
              /\ \A s \in Sources : EditLog(s) => UNCHANGED files
          BY DEF SavePolling, RequestShutdown, StopWorker, EditLog
        <4> QED
          BY <2>2, <4>1, <4>3, <4>4 DEF Others
      <3> QED
        BY <3>1, <3>2 DEF StoreInv, StoreOf, Vis, Present
    <2>3. CASE UNCHANGED vars
      BY <2>3 DEF vars, ownVars, StoreInv, StoreOf, Vis, Present
    <2> QED
      BY <2>1, <2>2, <2>3, StorePass, StoreHandle DEF Next, WorkerStep
  <1>2. NoneApart(queue') /\ NoneApart(batch')
    BY ApartStep DEF StoreInv
  <1> QED
    BY <1>1, <1>2 DEF StoreInv, StoreOf, NoneApart, Sent, Vis, Present

\* While the worker waits, readers see what the index and the store hold: no
\* change was taken in by one of them without reaching a publication, however
\* commands, passes, edits and a shutdown interleave (run_worker).  The
\* hypotheses are those the code needs: with a failing step, a refresh in the
\* batch of a delete, or a refresh after others removed a file, it is not so.
THEOREM PublishedAtRest ==
  ASSUME Calm
  PROVE  Spec => []NothingUnpublished
  <1>1. Init => FileInv /\ ContentInv /\ IndexInv /\ StoreInv
    <2> SUFFICES ASSUME Init PROVE FileInv /\ ContentInv /\ IndexInv /\ StoreInv
      OBVIOUS
    <2>1. FileInv /\ ContentInv
      BY DEF Init, FileInv, ContentInv, NoFile, Stamp, Higher
    <2>2. IndexInv
      BY DEF Init, IndexInv
    <2>3. StoreInv
      BY SentEmpty DEF Init, StoreInv, NoneApart, NoFile, Vis, Present
    <2> QED
      BY <2>1, <2>2, <2>3
  <1>2. TypeOK /\ FileInv /\ ContentInv /\ IndexInv /\ StoreInv /\ [Next]_vars
        => FileInv' /\ ContentInv' /\ IndexInv' /\ StoreInv'
    BY Growth, ContentStep, IndexStep, StoreStep DEF Calm
  <1>3. TypeOK /\ IndexInv /\ StoreInv => NothingUnpublished
    BY DEF TypeOK, IndexInv, StoreInv, NothingUnpublished
  <1> QED
    BY <1>1, <1>2, <1>3, TypeCorrect, PTL DEF Spec

-------------------------------------------------------------------------------
(* What was acknowledged stays visible *)

\* A promise without content.
Empty(g) == /\ \A s \in Sources : g.local[s] = 0
            /\ \A d \in Devices : g.remote[d] = NoFile

\* What was promised of the logs is on its way to readers: everything will be
\* read again, or was listed, or is in the index.
OnTheWay(g) ==
    /\ pc \in {"command", "scan"} => (force /\ due = sources) \/ Holds(seen, g)
    /\ pc = "parse" => Holds(inventory, g)
    /\ pc \in {"merge", "announce", "answer"} =>
         Holds(seen, g) \/ localResult = "error"

\* Promises given are kept, those a successful pass is about to give can be, and
\* the others are of what was written.
PromiseInv ==
    /\ Kept(acked)
    /\ \A p \in pending : /\ Backed(p.floor)
                          /\ pc \in {"announce", "answer"} /\ passed => Kept(p.floor)
    /\ \A m \in Sent(queue) \cup Sent(batch) : m.op = "refresh" => Backed(m.floor)
    /\ pc \in {"opening", "wait", "stopped"} => pending = {}

\* Nobody asks for a refresh: all promises are of snapshots, and a snapshot that
\* was written is marked until a pass has merged it.
NoRefreshInv ==
    /\ \A m \in Sent(queue) \cup Sent(batch) : m.op # "refresh"
    /\ \A s \in Sources : acked.local[s] = 0
    /\ \A p \in pending :
         /\ \A s \in Sources : p.floor.local[s] = 0
         /\ pc \in {"command", "scan", "parse", "merge"} => dirty \/ Empty(p.floor)

\* What a promise about one device, or none, says.
LEMMA WroteFacts ==
  /\ Empty(NoPromise)
  /\ \A d \in Devices, f \in File :
        /\ \A s \in Sources : Wrote(d, f).local[s] = 0
        /\ \A x \in Devices : Wrote(d, f).remote[x] = IF x = d THEN f ELSE NoFile
  BY DEF Empty, NoPromise, Wrote

\* An empty promise is backed by anything.
LEMMA EmptyBacked ==
  ASSUME TypeOK, NEW g \in Promise, Empty(g)
  PROVE  Backed(g) /\ ShowsRemote(g)
  <1>1. \A d \in Devices : /\ g.remote[d].ver = 0 /\ g.remote[d].gone = 0
                           /\ Stamp(g.remote[d]) = 0 /\ ~Present(g.remote[d])
    BY DEF Empty, NoFile, Stamp, Higher, Present
  <1>2. \A s \in Sources : g.local[s] = 0
    BY DEF Empty
  <1> QED
    BY <1>1, <1>2, ContentType DEF Backed, ShowsRemote

\* A promise that is silent about logs is kept as far as logs go.
LEMMA SilentLocal ==
  ASSUME TypeOK, NEW g, \A s \in Sources : g.local[s] = 0
  PROVE  /\ Holds(seen, g) /\ ShowsLocal(g)
         /\ Holds(inventory, g)
  BY ContentType DEF Holds, ShowsLocal

\* What the index holds and readers see of the logs does not fall behind a
\* promise, in any step of a service in which nothing fails.
LEMMA LocalStep ==
  ASSUME Calm, TypeOK, FileInv, ContentInv, IndexInv, StoreInv, [Next]_vars,
         NEW g \in Promise, Backed(g), Holds(seen, g), ShowsLocal(g)
  PROVE  Holds(seen, g)' /\ ShowsLocal(g)'
  <1>0. \A s \in Sources : g.local[s] \in Nat
    BY PromiseParts
  <1>1. CASE Parse
    <2>1. pc = "parse" /\ seen' = inventory /\ UNCHANGED <<current, sources>>
      BY <1>1 DEF Parse
    <2>2. \A s \in sources : seen[s] <= inventory[s]
      BY <2>1 DEF IndexInv
    <2>3. \A s \in sources : inventory[s] >= g.local[s]
      BY <1>0, <2>2, ContentType DEF Holds
    <2> QED
      BY <2>1, <2>3 DEF Holds, ShowsLocal
  <1>2. CASE Merge
    <2>1. UNCHANGED <<seen, sources>>
      BY <1>2 DEF Merge
    <2>2. current'.srcs = sources /\ \A s \in sources : current'.local[s] = seen[s]
      BY <1>2, MergeShows
    <2> QED
      BY <2>1, <2>2 DEF Holds, ShowsLocal
  <1>3. CASE SwitchSources
    <2>1. CASE Cmd.homes = sources
      <3>1. UNCHANGED <<current, sources, seen>>
        BY <1>3, <2>1 DEF SwitchSources
      <3> QED
        BY <3>1 DEF Holds, ShowsLocal
    <2>2. CASE Cmd.homes # sources
      <3>1. /\ sources' = Cmd.homes
            /\ seen' = [s \in Sources |-> IF s \in Cmd.homes THEN disk[s] ELSE 0]
            /\ current' = [rev |-> publication + 1, srcs |-> Cmd.homes,
                           listed |-> Cmd.homes, local |-> seen',
                           remote |-> KeptRemotes]
        BY <1>3, <2>2 DEF SwitchSources
      <3>2. Cmd.homes \subseteq Sources
        BY <1>3, TakeType, CommandFields, HomesType DEF SwitchSources
      <3>3. \A s \in Cmd.homes : seen'[s] >= g.local[s]
        BY <1>0, <3>1, <3>2, ContentType DEF Backed
      <3>4. current'.srcs = Cmd.homes /\ current'.local = seen'
        BY <3>1
      <3> QED
        BY <3>1, <3>3, <3>4 DEF Holds, ShowsLocal
    <2> QED
      BY <2>1, <2>2
  <1>4. CASE ~(Parse \/ Merge \/ SwitchSources)
    <2>1. UNCHANGED sources
      BY <1>4, Selections DEF SourcesFail, Take
    <2>2. UNCHANGED <<current, seen>>
      <3>1. Scan \/ RefreshFails \/ Remote => UNCHANGED <<current, seen>>
        BY DEF Scan, RefreshFails, Remote
      <3>2. /\ \A s \in Sources : EditLog(s) => UNCHANGED <<current, seen>>
            /\ \A d \in Devices : EditRemote(d) => UNCHANGED <<current, seen>>
        BY DEF EditLog, EditRemote, ownVars
      <3> QED
        BY <1>4, <3>1, <3>2, Contents
    <2> QED
      BY <2>1, <2>2 DEF Holds, ShowsLocal
  <1> QED
    BY <1>1, <1>2, <1>3, <1>4

\* What a service promises stays kept, if nothing fails or if the promise is of
\* snapshots alone.
LEMMA KeptStep ==
  ASSUME TypeOK, FileInv, [Next]_vars, NEW g \in Promise, Kept(g),
         \/ Calm /\ ContentInv /\ IndexInv /\ StoreInv
         \/ \A s \in Sources : g.local[s] = 0
  PROVE  Kept(g)'
  <1>1. Backed(g)' /\ ShowsRemote(g)'
    BY BackedStep, ShowsRemoteStep DEF Kept
  <1>2. Holds(seen, g)' /\ ShowsLocal(g)'
    <2>1. CASE Calm /\ ContentInv /\ IndexInv /\ StoreInv
      BY <2>1, LocalStep DEF Kept
    <2>2. CASE \A s \in Sources : g.local[s] = 0
      <3>1. TypeOK'
        BY TypeStep
      <3>2. /\ seen' \in [Sources -> Nat] /\ sources' \subseteq Sources
            /\ current'.local \in [Sources -> Nat] /\ current'.srcs \subseteq Sources
        BY <3>1, HomesType DEF TypeOK, Published
      <3> QED
        BY <2>2, <3>2 DEF Holds, ShowsLocal
    <2> QED
      BY <2>1, <2>2
  <1> QED
    BY <1>1, <1>2 DEF Kept

\* What was promised of the logs comes nearer to readers, while the batch and the
\* pass after it last.
LEMMA OnTheWayStep ==
  ASSUME Calm, TypeOK, ContentInv, IndexInv, [Next]_vars,
         NEW g \in Promise, Backed(g), OnTheWay(g),
         pc \notin {"opening", "wait", "stopped"}
  PROVE  OnTheWay(g)'
  <1>0. /\ \A s \in Sources : g.local[s] \in Nat /\ disk[s] \in Nat
        /\ \A s \in sources : g.local[s] <= disk[s]
    BY PromiseParts, ContentType DEF Backed
  <1>1. CASE Scan
    <2>1. /\ pc = "scan" /\ inventory' = Inventory /\ pc' \in {"parse", "merge"}
          /\ UNCHANGED <<sources, seen>>
          /\ pc' = "merge" => due = {} \/ ~force
      BY <1>1 DEF Scan
    <2>2. CASE force /\ due = sources
      <3>1. pc' = "parse"
        BY <2>1, <2>2, ContentType
      <3>2. \A s \in sources : inventory'[s] = disk[s]
        BY <2>1, <2>2, ContentType DEF Inventory, Scope
      <3> QED
        BY <1>0, <2>1, <3>1, <3>2, ContentType DEF OnTheWay, Holds
    <2>3. CASE Holds(seen, g)
      <3>1. \A s \in sources : inventory'[s] >= g.local[s]
        <4>1. \A s \in sources : inventory'[s] \in {disk[s], inventory[s]}
          BY <2>1, ContentType DEF Inventory
        <4>2. due = sources \/ \A s \in sources : seen[s] <= inventory[s]
          BY <2>1 DEF IndexInv
        <4>3. CASE due = sources
          <5>1. \A s \in sources : inventory'[s] = disk[s]
            BY <2>1, <4>3, ContentType DEF Inventory, Scope
          <5> QED
            BY <1>0, <5>1, ContentType
        <4>4. CASE \A s \in sources : seen[s] <= inventory[s]
          BY <1>0, <2>3, <4>1, <4>4, ContentType DEF Holds
        <4> QED
          BY <4>2, <4>3, <4>4
      <3> QED
        BY <2>1, <2>3, <3>1 DEF OnTheWay, Holds
    <2> QED
      BY <2>1, <2>2, <2>3 DEF OnTheWay
  <1>2. CASE Parse
    <2>1. pc = "parse" /\ pc' = "merge" /\ seen' = inventory /\ UNCHANGED sources
      BY <1>2 DEF Parse
    <2> QED
      BY <2>1 DEF OnTheWay, Holds
  <1>3. CASE RefreshFails
    BY <1>3 DEF RefreshFails, OnTheWay
  <1>4. CASE Merge \/ StoreFails \/ Announce \/ Answer
    <2>1. /\ pc \in {"merge", "announce", "answer"}
          /\ pc' \in {"announce", "answer", "wait"}
          /\ UNCHANGED <<sources, seen, localResult>>
      BY <1>4 DEF Merge, StoreFails, Announce, Answer
    <2> QED
      BY <2>1 DEF OnTheWay, Holds
  <1>5. CASE Open \/ OpenFails \/ Cancelled
    BY <1>5 DEF Open, OpenFails, Cancelled, Terminate, OnTheWay
  <1>6. CASE Waiting
    BY <1>6 DEF Waiting, Timeout, Receive
  <1>7. CASE SwitchSources
    <2>1. pc = "command" /\ pc' = "command"
      BY <1>7 DEF SwitchSources, Take
    <2>2. CASE Cmd.homes = sources
      <3>1. UNCHANGED <<sources, due, seen, force>>
        BY <1>7, <2>2 DEF SwitchSources
      <3> QED
        BY <2>1, <3>1 DEF OnTheWay, Holds
    <2>3. CASE Cmd.homes # sources
      <3>1. /\ sources' = Cmd.homes
            /\ seen' = [s \in Sources |-> IF s \in Cmd.homes THEN disk[s] ELSE 0]
        BY <1>7, <2>3 DEF SwitchSources
      <3>2. Cmd.homes \subseteq Sources
        BY <1>7, TakeType, CommandFields, HomesType DEF SwitchSources
      <3>3. \A s \in Cmd.homes : seen'[s] >= g.local[s]
        BY <1>0, <3>1, <3>2 DEF Backed
      <3> QED
        BY <2>1, <3>1, <3>3 DEF OnTheWay, Holds
    <2> QED
      BY <2>2, <2>3
  <1>8. CASE EndBatch
    <2>1. /\ pc = "command" /\ pc' \in {"scan", "stopped"}
          /\ UNCHANGED <<sources, seen, force>>
          /\ due = sources => due' = sources
      BY <1>8 DEF EndBatch, Terminate
    <2> QED
      BY <2>1 DEF OnTheWay, Holds
  <1>9. CASE \/ Refresh \/ Wake \/ Reconfigure \/ Stop \/ Remote \/ RemoteFails
             \/ SourcesConflict \/ SourcesFail
    <2>1. /\ pc = "command" /\ pc' = "command" /\ UNCHANGED <<sources, seen>>
          /\ force' \in {force, TRUE}
      BY <1>9 DEF Refresh, ReadAll, Wake, Reconfigure, Stop, Remote, RemoteFails,
                  SourcesConflict, SourcesFail, Take
    <2>2. due = sources => due' = sources
      BY <1>9 DEF Refresh, ReadAll, Wake, Reconfigure, Stop, Remote, RemoteFails,
                  SourcesConflict, SourcesFail
    <2> QED
      BY <2>1, <2>2 DEF OnTheWay, Holds
  <1>10. CASE Others
    BY <1>10, OthersKeep DEF ownVars, OnTheWay, Holds
  <1>11. CASE UNCHANGED vars
    BY <1>11 DEF vars, ownVars, OnTheWay, Holds
  <1> QED
    BY <1>1, <1>2, <1>3, <1>4, <1>5, <1>6, <1>7, <1>8, <1>9, <1>10, <1>11
    DEF Next, WorkerStep, Pass, Handle

\* A pass that succeeded delivers what was on its way.
LEMMA Delivered ==
  ASSUME TypeOK, FileInv, [Next]_vars, Merge, passed', NEW g \in Promise, Backed(g),
         \/ Calm /\ ContentInv /\ IndexInv /\ StoreInv /\ OnTheWay(g)
         \/ (\A s \in Sources : g.local[s] = 0) /\ (dirty \/ Empty(g))
  PROVE  Kept(g)'
  <1>1. Backed(g)'
    BY BackedStep
  <1>2. UNCHANGED <<seen, sources, files>> /\ pc = "merge"
    BY DEF Merge
  <1>3. CASE Calm /\ ContentInv /\ IndexInv /\ StoreInv /\ OnTheWay(g)
    <2>1. /\ \A s \in sources : current'.local[s] = seen[s]
          /\ current'.srcs = sources
          /\ \A d \in Devices : /\ Vis(current'.remote[d]) = Vis(files[d])
                                /\ current'.remote[d].gone = files[d].gone
      BY <1>3, MergeShows
    <2>2. Holds(seen, g)
      BY <1>2, <1>3 DEF OnTheWay, Merge, CancelSeen, IndexInv
    <2>3. Holds(seen, g)' /\ ShowsLocal(g)'
      BY <1>2, <2>1, <2>2 DEF Holds, ShowsLocal
    <2>4. ShowsRemote(g)'
      <3> SUFFICES ASSUME NEW d \in Devices
                   PROVE  IF Present(current'.remote[d])
                          THEN current'.remote[d].ver >= Stamp(g.remote[d])
                          ELSE Present(g.remote[d]) => files[d].gone > g.remote[d].ver
        BY <1>2 DEF ShowsRemote, Present, Stamp, Higher
      <3>1. current'.remote[d].ver \in Nat /\ current'.remote[d].gone \in Nat
        <4>1. TypeOK'
          BY TypeStep
        <4>2. current'.remote[d] \in File
          BY <4>1 DEF TypeOK, Published
        <4> QED
          BY <4>2 DEF File
      <3>2. /\ Present(current'.remote[d]) <=> Present(files[d])
            /\ Present(files[d]) => current'.remote[d].ver = files[d].ver
        BY <2>1, <3>1, ContentType DEF Vis, Present
      <3> QED
        BY <1>3, <3>2, FilesShow
    <2> QED
      BY <1>1, <2>3, <2>4 DEF Kept
  <1>4. CASE (\A s \in Sources : g.local[s] = 0) /\ (dirty \/ Empty(g))
    <2>1. TypeOK'
      BY TypeStep
    <2>2. Holds(seen, g)' /\ ShowsLocal(g)'
      <3>1. /\ seen' \in [Sources -> Nat] /\ sources' \subseteq Sources
            /\ current'.local \in [Sources -> Nat] /\ current'.srcs \subseteq Sources
        BY <2>1, HomesType DEF TypeOK, Published
      <3> QED
        BY <1>4, <3>1 DEF Holds, ShowsLocal
    <2>3. ShowsRemote(g)'
      <3>1. CASE Empty(g)
        BY <3>1, EmptyBacked, ShowsRemoteStep
      <3>2. CASE dirty
        <4>1. current' = Snapshot(publication + 1, sources, files)
          BY <3>2 DEF Merge, NeedsPublication, RemoteChanged
        <4>2. current'.remote = files
          BY <4>1 DEF Snapshot
        <4> QED
          BY <1>2, <4>2, FilesShow DEF ShowsRemote, Present, Stamp, Higher
      <3> QED
        BY <1>4, <3>1, <3>2
    <2> QED
      BY <1>1, <2>2, <2>3 DEF Kept
  <1> QED
    BY <1>3, <1>4

\* A reply that is owed since this step: for a refresh, for nothing that was
\* written, or for a file as the step left it.
NewlyOwed(p) ==
    \/ Refresh /\ p.floor = Cmd.floor
    \/ p.floor = NoPromise
    \/ dirty' /\ \E d \in Devices : p.floor = Wrote(d, files'[d])

\* Replies are owed by the commands of a batch, and by nothing else.
LEMMA Owed ==
  ASSUME TypeOK, [Next]_vars
  PROVE  \/ pending' \subseteq pending
         \/ /\ pc = "command" /\ pc' = "command"
            /\ \A p \in pending' : p \in pending \/ NewlyOwed(p)
  <1>1. CASE Pass
    BY <1>1 DEF Pass, Open, OpenFails, Scan, Parse, RefreshFails, Cancelled, Merge,
                StoreFails, Announce, Answer, Terminate
  <1>2. CASE Waiting
    BY <1>2 DEF Waiting, Timeout, Receive
  <1>3. CASE Refresh
    BY <1>3 DEF Refresh, Take, Later, NewlyOwed
  <1>4. CASE Remote \/ RemoteFails
    <2>1. pc = "command" /\ pc' = "command"
      BY <1>4 DEF Remote, RemoteFails, Take
    <2>2. ASSUME NEW ok, StoreKeep(ok)
          PROVE  \A p \in pending' : p \in pending \/ NewlyOwed(p)
      BY <2>2 DEF StoreKeep, Later, NewlyOwed
    <2>3. ASSUME NEW d \in Devices, NEW f, StoreWrite(d, f)
          PROVE  \A p \in pending' : p \in pending \/ NewlyOwed(p)
      <3>1. files'[d] = f /\ dirty'
        BY <2>3, ContentType DEF StoreWrite
      <3> QED
        BY <2>3, <3>1 DEF StoreWrite, Later, NewlyOwed
    <2>4. Cmd.dev \in Devices
      BY <1>4, TakeType, CommandFields DEF Remote, RemoteFails
    <2> QED
      BY <1>4, <2>1, <2>2, <2>3, <2>4 DEF Remote, RemoteFails
  <1>5. CASE Wake \/ Reconfigure \/ Stop \/ SourcesConflict \/ SwitchSources
             \/ SourcesFail \/ EndBatch
    BY <1>5 DEF Wake, Reconfigure, Stop, SourcesConflict, SwitchSources,
                SourcesFail, EndBatch, Terminate
  <1>6. CASE Others
    BY <1>6, OthersKeep DEF ownVars
  <1>7. CASE UNCHANGED vars
    BY <1>7 DEF vars, ownVars
  <1> QED
    BY <1>1, <1>2, <1>3, <1>4, <1>5, <1>6, <1>7 DEF Next, WorkerStep, Handle

\* Nothing is owed by a worker that opens, waits or has stopped.
LEMMA NoneOwed ==
  ASSUME TypeOK, [Next]_vars, pc \in {"opening", "wait", "stopped"} => pending = {}
  PROVE  pc' \in {"opening", "wait", "stopped"} => pending' = {}
  <1>1. CASE Pass
    BY <1>1 DEF Pass, Open, OpenFails, Scan, Parse, RefreshFails, Cancelled, Merge,
                StoreFails, Announce, Answer, Terminate
  <1>2. CASE Waiting
    BY <1>2 DEF Waiting, Timeout, Receive
  <1>3. CASE Handle
    BY <1>3 DEF Handle, Refresh, Wake, Reconfigure, Stop, Remote, RemoteFails,
                SourcesConflict, SwitchSources, SourcesFail, EndBatch, Take, Terminate
  <1>4. CASE Others
    BY <1>4, OthersKeep DEF ownVars
  <1>5. CASE UNCHANGED vars
    BY <1>5 DEF vars, ownVars
  <1> QED
    BY <1>1, <1>2, <1>3, <1>4, <1>5 DEF Next, WorkerStep

\* A pass gets to its end by Merge, by a failure, or is there already.
LEMMA PassEnd ==
  ASSUME TypeOK, [Next]_vars, pc' \in {"announce", "answer"}
  PROVE  \/ Merge /\ UNCHANGED pending
         \/ ~passed'
         \/ /\ pc \in {"announce", "answer"} /\ UNCHANGED passed
            /\ pending' \subseteq pending
  <1>1. CASE Pass
    BY <1>1 DEF Pass, Open, OpenFails, Scan, Parse, RefreshFails, Cancelled, Merge,
                StoreFails, Announce, Answer, Terminate
  <1>2. CASE Waiting \/ Handle
    <2>1. pc' \notin {"announce", "answer"}
      BY <1>2 DEF Waiting, Timeout, Receive, Handle, Refresh, Wake, Reconfigure, Stop,
                  Remote, RemoteFails, SourcesConflict, SwitchSources, SourcesFail,
                  EndBatch, Take, Terminate
    <2> QED
      BY <2>1
  <1>3. CASE Others
    BY <1>3, OthersKeep DEF ownVars
  <1>4. CASE UNCHANGED vars
    BY <1>4 DEF vars, ownVars
  <1> QED
    BY <1>1, <1>2, <1>3, <1>4 DEF Next, WorkerStep

\* Only an answer adds to what was promised.
LEMMA Acknowledged ==
  ASSUME TypeOK, [Next]_vars
  PROVE  Answer \/ UNCHANGED acked
  <1>1. CASE Pass
    BY <1>1 DEF Pass, Open, OpenFails, Scan, Parse, RefreshFails, Cancelled, Merge, StoreFails, Announce
  <1>2. CASE Waiting
    BY <1>2 DEF Waiting, Timeout, Receive
  <1>3. CASE Handle
    BY <1>3 DEF Handle, Refresh, Wake, Reconfigure, Stop, Remote, RemoteFails,
                SourcesConflict, SwitchSources, SourcesFail, EndBatch
  <1>4. CASE Others
    BY <1>4, OthersKeep
  <1>5. CASE UNCHANGED vars
    BY <1>5 DEF vars
  <1> QED
    BY <1>1, <1>2, <1>3, <1>4, <1>5 DEF Next, WorkerStep

\* Two kept promises are kept together.
LEMMA KeptTogether ==
  ASSUME TypeOK, NEW g \in Promise, NEW h \in Promise, Kept(g), Kept(h)
  PROVE  Kept([local  |-> [s \in Sources |-> Higher(g.local[s], h.local[s])],
               remote |-> [d \in Devices |-> Newer(g.remote[d], h.remote[d])]])
  <1> DEFINE both == [local  |-> [s \in Sources |-> Higher(g.local[s], h.local[s])],
                      remote |-> [d \in Devices |-> Newer(g.remote[d], h.remote[d])]]
  <1>1. /\ \A s \in Sources : both.local[s] \in {g.local[s], h.local[s]}
        /\ \A d \in Devices : both.remote[d] \in {g.remote[d], h.remote[d]}
    BY DEF Higher, Newer
  <1> HIDE DEF both
  <1>2. Backed(both)
    BY <1>1 DEF Backed, Kept
  <1>3. Holds(seen, both) /\ ShowsLocal(both)
    BY <1>1, ContentType DEF Holds, ShowsLocal, Kept
  <1>4. ShowsRemote(both)
    BY <1>1 DEF ShowsRemote, Kept
  <1>5. Kept(both)
    BY <1>2, <1>3, <1>4 DEF Kept
  <1> QED
    BY <1>5 DEF both

\* What a step must find to keep a promise: nothing fails, or the promise is of
\* snapshots alone.
Safe(g) == \/ Calm /\ ContentInv /\ IndexInv /\ StoreInv
           \/ \A s \in Sources : g.local[s] = 0

\* A reply owed since this step is of something written.
LEMMA NewlyBacked ==
  ASSUME TypeOK, FileInv, PromiseInv, [Next]_vars, NEW p \in pending', NewlyOwed(p)
  PROVE  Backed(p.floor)'
  <1>0. TypeOK' /\ p.floor \in Promise
    BY TypeStep DEF TypeOK, Pending
  <1>1. CASE Refresh /\ p.floor = Cmd.floor
    <2>1. Cmd \in Sent(batch) /\ Cmd.op = "refresh"
      BY <1>1, SentFacts DEF Refresh, Take, Cmd, TypeOK
    <2>2. Backed(Cmd.floor) /\ Cmd.floor \in Promise
      BY <1>1, <2>1, TakeType, CommandFields DEF PromiseInv, Refresh
    <2> QED
      BY <1>1, <2>2, BackedStep
  <1>2. CASE p.floor = NoPromise
    BY <1>0, <1>2, WroteFacts, EmptyBacked, BackedStep
  <1>3. ASSUME NEW d \in Devices, p.floor = Wrote(d, files'[d])
        PROVE  Backed(p.floor)'
    <2>1. /\ disk' \in [Sources -> Nat] /\ files' \in [Devices -> File]
          /\ \A f \in File : f.ver \in Nat /\ f.gone \in Nat
      BY <1>0 DEF TypeOK, File
    <2>2. /\ \A s \in Sources : p.floor.local[s] = 0
          /\ \A x \in Devices : p.floor.remote[x] \in {files'[x], NoFile}
      BY <1>3, <2>1, WroteFacts
    <2>3. /\ \A s \in Sources : p.floor.local[s] <= disk'[s]
          /\ \A x \in Devices : /\ p.floor.remote[x].ver <= files'[x].ver
                                /\ p.floor.remote[x].gone <= files'[x].gone
      BY <2>1, <2>2 DEF NoFile
    <2> QED
      BY <2>3 DEF Backed
  <1> QED
    BY <1>1, <1>2, <1>3 DEF NewlyOwed

LEMMA PromiseStep ==
  ASSUME TypeOK, FileInv, PromiseInv, [Next]_vars, Safe(acked),
         \A p \in pending :
            /\ Safe(p.floor)
            /\ Merge => \/ Calm /\ ContentInv /\ IndexInv /\ StoreInv /\ OnTheWay(p.floor)
                        \/ (\A s \in Sources : p.floor.local[s] = 0) /\ (dirty \/ Empty(p.floor))
  PROVE  PromiseInv'
  <1> USE DEF PromiseInv
  <1>0. acked \in Promise /\ \A p \in pending : p.floor \in Promise
    BY DEF TypeOK, Pending
  <1>1. Kept(acked)'
    <2>1. ASSUME NEW g, acked' = g, Kept(g)'
          PROVE  Kept(acked)'
      BY <2>1 DEF Kept, Backed, Holds, ShowsLocal, ShowsRemote
    <2>2. CASE UNCHANGED acked
      <3> PICK g \in Promise : g = acked
        BY <1>0
      <3>1. Kept(g) /\ Safe(g)
        OBVIOUS
      <3>2. Kept(g)'
        BY <3>1, KeptStep DEF Safe
      <3> QED
        BY <2>1, <2>2, <3>2
    <2>3. CASE Answer /\ ~UNCHANGED acked
      <3> PICK p \in pending :
            /\ passed
            /\ acked' = [local  |-> [s \in Sources |->
                                      Higher(acked.local[s], p.floor.local[s])],
                         remote |-> [d \in Devices |->
                                      Newer(acked.remote[d], p.floor.remote[d])]]
        BY <2>3 DEF Answer
      <3>1. Kept(acked) /\ Kept(p.floor)
        BY <2>3 DEF Answer
      <3> PICK g : g = acked'
        OBVIOUS
      <3>2. Kept(g)
        BY <1>0, <3>1, KeptTogether
      <3>3. UNCHANGED <<disk, files, sources, seen, current>>
        BY <2>3 DEF Answer
      <3>4. Kept(g)'
        BY <3>2, <3>3 DEF Kept, Backed, Holds, ShowsLocal, ShowsRemote, Present
      <3> QED
        BY <2>1, <3>4
    <2> QED
      BY <2>2, <2>3, Acknowledged
  <1>2. ASSUME NEW p \in pending'
        PROVE  /\ Backed(p.floor)'
               /\ pc' \in {"announce", "answer"} /\ passed' => Kept(p.floor)'
    <2>1. Backed(p.floor)'
      <3>1. CASE p \in pending
        BY <1>0, <3>1, BackedStep
      <3>2. CASE NewlyOwed(p)
        BY <3>2, NewlyBacked
      <3> QED
        BY <3>1, <3>2, Owed
    <2>2. ASSUME pc' \in {"announce", "answer"}, passed'
          PROVE  Kept(p.floor)'
      <3>1. CASE Merge /\ UNCHANGED pending
        BY <1>0, <2>2, <3>1, Delivered
      <3>2. CASE /\ pc \in {"announce", "answer"} /\ UNCHANGED passed
                 /\ pending' \subseteq pending
        <4>1. p \in pending /\ Kept(p.floor) /\ Safe(p.floor)
          BY <2>2, <3>2
        <4> QED
          BY <1>0, <4>1, KeptStep DEF Safe
      <3> QED
        BY <2>2, <3>1, <3>2, PassEnd
    <2> QED
      BY <2>1, <2>2
  <1>3. ASSUME NEW m \in Sent(queue') \cup Sent(batch'), m.op = "refresh"
        PROVE  Backed(m.floor)'
    <2>1. ASSUME NEW n \in Command, n.op = "refresh", Backed(n.floor)
          PROVE  Backed(n.floor)'
      BY <2>1, CommandFields, BackedStep
    <2>2. Sent(queue) \subseteq Command /\ Sent(batch) \subseteq Command
      BY SentFacts DEF TypeOK
    <2>3. CASE m \in Sent(queue) \cup Sent(batch)
      BY <1>3, <2>1, <2>2, <2>3
    <2>4. CASE \E x \in Command : m = x /\ Fit(x)
      <3>1. m \in Command /\ m.floor = [local |-> disk, remote |-> files]
        BY <1>3, <2>4 DEF Fit
      <3>2. Backed(m.floor)
        BY <3>1, ContentType DEF Backed
      <3> QED
        BY <1>3, <2>1, <3>1, <3>2
    <2> QED
      BY <1>3, <2>3, <2>4, Channel
  <1>4. pc' \in {"opening", "wait", "stopped"} => pending' = {}
    BY NoneOwed
  <1> QED
    BY <1>1, <1>2, <1>3, <1>4

\* The marks of the store are only cleared by a refresh or by a merge.
LEMMA Marks ==
  ASSUME TypeOK, [Next]_vars, dirty, ~Refresh, ~Merge
  PROVE  dirty'
  <1>1. CASE Pass
    BY <1>1 DEF Pass, Open, OpenFails, Scan, Parse, RefreshFails, Cancelled,
                StoreFails, Announce, Answer
  <1>2. CASE Waiting
    BY <1>2 DEF Waiting, Timeout, Receive
  <1>3. CASE Handle
    BY <1>3 DEF Handle, Wake, Reconfigure, Stop, Remote, StoreWrite, StoreKeep,
                RemoteFails, SourcesConflict, SwitchSources, SourcesFail, EndBatch
  <1>4. CASE Others
    BY <1>4, OthersKeep DEF ownVars
  <1>5. CASE UNCHANGED vars
    BY <1>5 DEF vars, ownVars
  <1> QED
    BY <1>1, <1>2, <1>3, <1>4, <1>5 DEF Next, WorkerStep

\* A pass that ends answers before anything else begins.
LEMMA EndOfPass ==
  ASSUME TypeOK, [Next]_vars
  PROVE  /\ pc \in {"announce", "answer"} => pc' \in {"announce", "answer", "wait"}
         /\ Merge => pc' = "announce"
  <1>1. CASE Pass
    BY <1>1 DEF Pass, Open, OpenFails, Scan, Parse, RefreshFails, Cancelled, Merge,
                StoreFails, Announce, Answer
  <1>2. CASE Waiting \/ Handle
    <2>1. pc \in {"wait", "command"}
      BY <1>2 DEF Waiting, Timeout, Receive, Handle, Refresh, Wake, Reconfigure, Stop,
                  Remote, RemoteFails, SourcesConflict, SwitchSources, SourcesFail,
                  EndBatch, Take
    <2> QED
      BY <2>1 DEF Merge
  <1>3. CASE Others
    BY <1>3, OthersKeep DEF ownVars, Merge
  <1>4. CASE UNCHANGED vars
    BY <1>4 DEF vars, ownVars, Merge
  <1> QED
    BY <1>1, <1>2, <1>3, <1>4 DEF Next, WorkerStep

LEMMA NoRefreshStep ==
  ASSUME "refresh" \notin Ops, TypeOK, PromiseInv, NoRefreshInv, [Next]_vars
  PROVE  NoRefreshInv'
  <1> USE DEF NoRefreshInv
  <1>1. \A m \in Sent(queue') \cup Sent(batch') : m.op # "refresh"
    BY Channel DEF Fit
  <1>2. ~Refresh
    BY SentFacts DEF Refresh, Take, Cmd, TypeOK
  <1>3. \A s \in Sources : acked'.local[s] = 0
    <2>1. CASE UNCHANGED acked
      BY <2>1
    <2>2. CASE Answer
      <3> PICK p \in pending :
            acked' = IF passed /\ p.ok
                     THEN [local  |-> [s \in Sources |->
                                         Higher(acked.local[s], p.floor.local[s])],
                           remote |-> [d \in Devices |->
                                         Newer(acked.remote[d], p.floor.remote[d])]]
                     ELSE acked
        BY <2>2 DEF Answer
      <3>1. \A s \in Sources : Higher(acked.local[s], p.floor.local[s]) = 0
        BY DEF Higher
      <3> QED
        BY <3>1
    <2> QED
      BY <2>1, <2>2, Acknowledged
  <1>4. ASSUME NEW p \in pending'
        PROVE  /\ \A s \in Sources : p.floor.local[s] = 0
               /\ pc' \in {"command", "scan", "parse", "merge"} => dirty' \/ Empty(p.floor)
    <2>1. CASE p \in pending
      <3>1. pc \in {"command", "scan", "parse", "merge", "announce", "answer"}
        BY <2>1 DEF PromiseInv, TypeOK
      <3>2. ASSUME pc' \in {"command", "scan", "parse", "merge"}
            PROVE  dirty' \/ Empty(p.floor)
        <4>1. pc \in {"command", "scan", "parse", "merge"} /\ ~Merge
          BY <3>1, <3>2, EndOfPass
        <4>2. dirty \/ Empty(p.floor)
          BY <2>1, <4>1
        <4> QED
          BY <1>2, <4>1, <4>2, Marks
      <3> QED
        BY <2>1, <3>2
    <2>2. CASE NewlyOwed(p)
      <3>1. CASE p.floor = NoPromise
        BY <3>1, WroteFacts DEF Empty
      <3>2. ASSUME NEW d \in Devices, dirty', p.floor = Wrote(d, files'[d])
            PROVE  dirty' /\ \A s \in Sources : p.floor.local[s] = 0
        <4>1. files'[d] \in File
          BY TypeStep DEF TypeOK
        <4> QED
          BY <3>2, <4>1, WroteFacts
      <3> QED
        BY <1>2, <2>2, <3>1, <3>2 DEF NewlyOwed
    <2> QED
      BY <2>1, <2>2, Owed
  <1> QED
    BY <1>1, <1>3, <1>4

LEMMA OnTheWayAll ==
  ASSUME Calm, TypeOK, FileInv, ContentInv, IndexInv, PromiseInv, [Next]_vars,
         \A p \in pending : OnTheWay(p.floor)
  PROVE  \A p \in pending' : OnTheWay(p.floor)'
  <1> TAKE p \in pending'
  <1>1. CASE p \in pending
    <2>1. p.floor \in Promise /\ Backed(p.floor) /\ pc \notin {"opening", "wait", "stopped"}
      BY <1>1 DEF PromiseInv, TypeOK, Pending
    <2> QED
      BY <1>1, <2>1, OnTheWayStep
  <1>2. CASE pc' = "command" /\ NewlyOwed(p)
    <2>1. TypeOK'
      BY TypeStep
    <2>2. CASE Refresh
      <3>1. force' = TRUE /\ due' = sources /\ sources' = sources
        BY <2>2 DEF Refresh, ReadAll
      <3> QED
        BY <1>2, <3>1 DEF OnTheWay
    <2>3. CASE \A s \in Sources : p.floor.local[s] = 0
      <3>1. seen' \in [Sources -> Nat] /\ sources' \subseteq Sources
        BY <2>1, HomesType DEF TypeOK
      <3>2. Holds(seen, p.floor)'
        BY <2>3, <3>1 DEF Holds
      <3> QED
        BY <1>2, <3>2 DEF OnTheWay
    <2>4. p.floor = NoPromise => \A s \in Sources : p.floor.local[s] = 0
      BY WroteFacts DEF Empty
    <2>5. \A d \in Devices : p.floor = Wrote(d, files'[d])
                             => \A s \in Sources : p.floor.local[s] = 0
      <3>1. \A d \in Devices : files'[d] \in File
        BY <2>1 DEF TypeOK
      <3> QED
        BY <3>1, WroteFacts
    <2>6. Refresh \/ \A s \in Sources : p.floor.local[s] = 0
      BY <1>2, <2>4, <2>5 DEF NewlyOwed
    <2> QED
      BY <2>2, <2>3, <2>6
  <1> QED
    BY <1>1, <1>2, Owed

\* What the service keeps about its promises: in general, where nothing fails,
\* and where nobody asks for a refresh.
AckInv ==
    /\ FileInv /\ ContentInv /\ PromiseInv
    /\ Calm => /\ IndexInv /\ StoreInv
               /\ \A p \in pending : OnTheWay(p.floor)
    /\ "refresh" \notin Ops => NoRefreshInv

LEMMA AckInit == Init => AckInv
  <1> SUFFICES ASSUME Init PROVE AckInv
    OBVIOUS
  <1>1. TypeOK /\ Empty(acked)
    BY TypeInit, WroteFacts DEF Init
  <1>2. FileInv /\ ContentInv
    BY DEF Init, FileInv, ContentInv, NoFile, Stamp, Higher
  <1>3. IndexInv
    BY DEF Init, IndexInv
  <1>4. StoreInv
    BY SentEmpty DEF Init, StoreInv, NoneApart, NoFile, Vis, Present
  <1>5. PromiseInv
    <2>1. acked \in Promise /\ \A s \in Sources : acked.local[s] = 0
      BY <1>1 DEF TypeOK, Empty
    <2>2. Kept(acked)
      BY <1>1, <2>1, EmptyBacked, SilentLocal DEF Kept
    <2> QED
      BY <2>2, SentEmpty DEF Init, PromiseInv
  <1>6. NoRefreshInv /\ pending = {}
    BY <1>1, SentEmpty DEF Init, NoRefreshInv, Empty
  <1> QED
    BY <1>2, <1>3, <1>4, <1>5, <1>6 DEF AckInv

LEMMA AckStep ==
  ASSUME Calm \/ "refresh" \notin Ops, TypeOK, AckInv, [Next]_vars
  PROVE  AckInv'
  <1>1. FileInv' /\ ContentInv'
    BY Growth, ContentStep DEF AckInv
  <1>2. PromiseInv'
    <2>1. CASE Calm
      BY <2>1, PromiseStep DEF AckInv, Safe
    <2>2. CASE "refresh" \notin Ops
      <3>1. /\ \A s \in Sources : acked.local[s] = 0
            /\ \A p \in pending : \A s \in Sources : p.floor.local[s] = 0
        BY <2>2 DEF AckInv, NoRefreshInv
      <3>2. Merge => \A p \in pending : dirty \/ Empty(p.floor)
        BY <2>2 DEF AckInv, NoRefreshInv, Merge
      <3> QED
        BY <3>1, <3>2, PromiseStep DEF AckInv, Safe
    <2> QED
      BY <2>1, <2>2
  <1>3. ASSUME Calm
        PROVE  IndexInv' /\ StoreInv' /\ \A p \in pending' : OnTheWay(p.floor)'
    BY <1>3, IndexStep, StoreStep, OnTheWayAll DEF AckInv, Calm
  <1>4. ASSUME "refresh" \notin Ops
        PROVE  NoRefreshInv'
    BY <1>4, NoRefreshStep DEF AckInv
  <1> QED
    BY <1>1, <1>2, <1>3, <1>4 DEF AckInv

\* An "ok" is kept: whoever was told that a refresh, an import, a renaming or a
\* removal is done finds it in the publication, and in every later one
\* (run_worker, "Reply only after the associated publication is ready").  It is
\* so in a service in which nothing fails, and whatever fails where nobody asks for
\* a refresh; the runs refresh_lost and fault_lost show why neither can go.
THEOREM OkIsVisible ==
  ASSUME Calm \/ "refresh" \notin Ops
  PROVE  Spec => []AckedVisible
  <1>1. TypeOK /\ AckInv /\ [Next]_vars => AckInv'
    BY AckStep
  <1>2. AckInv => AckedVisible
    BY DEF AckInv, PromiseInv, Kept, ShowsLocal, ShowsRemote, AckedVisible
  <1> QED
    BY AckInit, <1>1, <1>2, TypeCorrect, PTL DEF Spec
=============================================================================
