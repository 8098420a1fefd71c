------------------------------- MODULE Lifecycle -------------------------------
(***************************************************************************)
(* How services of one configuration directory are found, started, stopped *)
(* and killed (crates/usage-runtime/src/lib.rs), by command lines and      *)
(* desktops, with what a service does for it from its start to its exit    *)
(* (crates/usage-server/src/main.rs, service.rs save_sources).             *)
(*                                                                         *)
(* Three things are shared by processes that know nothing of each other:   *)
(* startup.lock, held while a service is being started or its sources are  *)
(* being saved; service.lock, held by a registered service; and            *)
(* instance.json, the record by which a service is found.  Process ids are *)
(* reused.  Waits that run out are steps that may be taken at any time     *)
(* the wait goes on.  What a service is asked to be, its build, sources    *)
(* and time zone, is one value, a variant; saving sources changes it.      *)
(***************************************************************************)
EXTENDS Naturals, FiniteSets

CONSTANTS
    Clients,    \* processes that start and stop services
    Desktops,   \* those whose services end with them
    Pids,       \* process ids
    Variants,   \* builds, sources and time zones
    Wants,      \* what a client may ask for
    MaxFaults,  \* bound on crashes, failures and calls that take too long or come too late
    NoOne       \* none of the above

ASSUME LifecycleAssumption ==
    /\ Desktops \subseteq Clients
    /\ Wants \in [Clients -> SUBSET Variants]
    /\ NoOne \notin Clients \cup Pids \cup Variants
    /\ Clients \cap Pids = {} /\ IsFiniteSet(Clients)
    /\ "invalid" \notin Variants \cup {NoOne}
    /\ MaxFaults \in Nat

VARIABLES
    proc,       \* the processes: services, and others that got a reused id
    service,    \* who holds service.lock
    startup,    \* who holds startup.lock
    record,     \* instance.json
    pc,         \* what every client is doing
    want,       \* the variant it asked for
    target,     \* the record it read, or the service it is starting or stopping
    signals,    \* signals it has sent: none, a request to end, a kill
    faults,     \* counter that bounds a run
    orphan      \* history: a client died while the service it started was booting

clientVars  == <<pc, want, target, signals>>
historyVars == <<faults, orphan>>
vars == <<proc, service, startup, record, clientVars, historyVars>>

-------------------------------------------------------------------------------
(* Data *)

\* Record: what instance.json says of a service.  An unreadable record, or one of
\* an incompatible release, is of no use to anyone.  An instance id is random and
\* only ever compared: the last service with a process id has 0 here, and those
\* before it that anyone remembers are numbered from there.
NoRecord == [pid |-> NoOne, inst |-> 0, variant |-> NoOne]
Invalid  == [NoRecord EXCEPT !.variant = "invalid"]
Insts    == 0..Cardinality(Clients) + 1
Record   == [pid : Pids, inst : Insts, variant : Variants]
Handles  == [pid : Pids, inst : Insts, variant : {NoOne}]

\* A service boots (binds its port), locks (holds service.lock), is up (recorded
\* and serving), drains, has dropped its record, and is ending without the lock.
Stages == {"boot", "locked", "up", "draining", "dropped", "ending"}
Free   == [at |-> "free"]
Other  == [at |-> "other"]
Service == [at : Stages, saved : Variants, active : Variants,
            owner : Clients \cup {NoOne, "gone"}, failed : BOOLEAN]

IsService(p) == proc[p].at \in Stages
Registered(p) == proc[p].at \in {"up", "draining"}
RecordOf(p)  == [pid |-> p, inst |-> 0, variant |-> proc[p].saved]
Same(r, s)   == r.pid = s.pid /\ r.inst = s.inst
Names(r, p)  == Same(r, RecordOf(p))
Alive(r)     == r.pid # NoOne /\ proc[r.pid] # Free

\* Record::health: the service that wrote the record answers.
Healthy(r) == r.pid \in Pids /\ proc[r.pid].at = "up" /\ Names(r, r.pid)

\* Record::released: the instance gave up its record.
Released(r) == record # Invalid /\ ~Same(record, r)

Idle(c) == pc[c] = "idle"

\* What stop and terminate use of a record.
Handle(r) == [r EXCEPT !.variant = NoOne]

\* A client that probes service.lock holds it for a moment, in which others may
\* find it busy.
Probes(c) == pc[c] \in {"aside", "wait", "probe"}
IsFree    == service = NoOne
MayBeBusy(c) == service # NoOne \/ \E d \in Clients \ {c} : Probes(d)

\* What is remembered of services, and how a new one with process id p changes it.
Remembered == {record} \cup {target[c] : c \in Clients}
Older(r, p) ==
    LET later == {s.inst : s \in {q \in Remembered : q.pid = p /\ q.inst < r.inst}}
    IN  IF r.pid = p THEN [r EXCEPT !.inst = 1 + Cardinality(later)] ELSE r

Init ==
    /\ proc = [p \in Pids |-> Free]
    /\ service = NoOne /\ startup = NoOne
    /\ record \in {NoRecord, Invalid}
    /\ pc = [c \in Clients |-> "idle"]
    /\ want = [c \in Clients |-> NoOne]
    /\ target = [c \in Clients |-> NoRecord]
    /\ signals = [c \in Clients |-> 0]
    /\ faults = 0 /\ orphan = FALSE

Goto(c, label) == pc' = [pc EXCEPT ![c] = label]

\* Faulty: a startup lock outlives the process that took it.
LeaveLocked(who) ==
    /\ service' = IF service = who THEN NoOne ELSE service
    /\ UNCHANGED startup

\* What is freed when a process ends: the kernel drops its locks.
Leave(who) ==
    /\ service' = IF service = who THEN NoOne ELSE service
    /\ startup' = IF startup = who THEN NoOne ELSE startup

\* The process with this id ends.
Ends(p) == proc' = [proc EXCEPT ![p] = Free] /\ Leave(p)

Fault == faults < MaxFaults /\ faults' = faults + 1 /\ UNCHANGED orphan

-------------------------------------------------------------------------------
(* ensure_service_options, by client c *)

\* Take startup.lock, then inspect the bundled service.  A call that waits for the
\* lock, perhaps in vain, has done nothing yet.
Ensure(c, v) ==
    /\ Idle(c) /\ startup = NoOne /\ v \in Wants[c]
    /\ startup' = c /\ Goto(c, "look")
    /\ want' = [want EXCEPT ![c] = v]
    /\ UNCHANGED <<proc, service, record, target, signals, historyVars>>

\* The call ends, and with it the guard of startup.lock.
Return(c) ==
    /\ startup' = NoOne /\ Goto(c, "idle")
    /\ want' = [want EXCEPT ![c] = NoOne]
    /\ target' = [target EXCEPT ![c] = NoRecord]
    /\ UNCHANGED <<service, signals>>

InspectionFails(c) ==
    /\ pc[c] = "look" /\ Fault
    /\ Return(c)
    /\ UNCHANGED <<proc, record>>

\* Record::read
Look(c) ==
    /\ pc[c] = "look"
    /\ target' = [target EXCEPT ![c] = record]
    /\ Goto(c, CASE record = Invalid  -> "aside"
                 [] record = NoRecord -> "wait"
                 [] OTHER             -> "health")
    /\ UNCHANGED <<proc, service, startup, record, want, signals, historyVars>>

\* Move an invalid record away, unless a service holds the directory.
Aside(c) ==
    /\ pc[c] = "aside"
    /\ \/ IsFree /\ record' = NoRecord /\ Goto(c, "wait")
          /\ target' = [target EXCEPT ![c] = NoRecord]
          /\ UNCHANGED <<service, startup, want, signals>>
       \/ MayBeBusy(c) /\ Return(c) /\ UNCHANGED record
    /\ UNCHANGED <<proc, historyVars>>

\* Faulty: only what the record says is compared.
MatchesRecorded(c) == target[c].variant = want[c]

\* sources_match and the build: what is recorded and what is published.
Matches(c) ==
    /\ target[c].variant = want[c]
    /\ IsService(target[c].pid) /\ proc[target[c].pid].active = want[c]

\* Faulty: a process with the recorded id is enough.
AnswersAlive(r) == Alive(r)

Answers(r) == Healthy(r)

\* A healthy service is reused, or refused if it is not what was asked for.
Reuse(c) ==
    /\ pc[c] = "health" /\ Answers(target[c]) /\ Matches(c)
    /\ Return(c)
    /\ UNCHANGED <<proc, record, historyVars>>

Refuse(c) ==
    /\ pc[c] = "health" /\ Answers(target[c]) /\ ~Matches(c)
    /\ Return(c)
    /\ UNCHANGED <<proc, record, historyVars>>

Unhealthy(c) ==
    /\ pc[c] = "health" /\ ~Answers(target[c])
    /\ Goto(c, "wait")
    /\ target' = [target EXCEPT ![c] = NoRecord]
    /\ UNCHANGED <<proc, service, startup, record, want, signals, historyVars>>

\* The request takes longer than ten seconds.
HealthTimesOut(c) ==
    /\ pc[c] = "health" /\ Fault /\ Goto(c, "wait")
    /\ target' = [target EXCEPT ![c] = NoRecord]
    /\ UNCHANGED <<proc, service, startup, record, want, signals>>

\* Wait for service.lock, and let go of it again.
LockWaited(c) ==
    /\ pc[c] = "wait" /\ IsFree
    /\ Goto(c, "spawn")
    /\ UNCHANGED <<proc, service, startup, record, want, target, signals, historyVars>>

WaitTimesOut(c) ==
    /\ pc[c] = "wait" /\ ~IsFree
    /\ Return(c)
    /\ UNCHANGED <<proc, record, historyVars>>

Spawn(c) ==
    /\ pc[c] = "spawn" /\ Goto(c, "ready")
    /\ \E p \in {q \in Pids : proc[q] = Free} :
         /\ proc' = [proc EXCEPT ![p] =
                [at |-> "boot", saved |-> want[c], active |-> want[c],
                 owner |-> IF c \in Desktops THEN c ELSE NoOne, failed |-> FALSE]]
         /\ record' = Older(record, p)
         /\ target' = [d \in Clients |-> IF d = c THEN [pid |-> p, inst |-> 0, variant |-> NoOne]
                                         ELSE Older(target[d], p)]
    /\ UNCHANGED <<service, startup, want, signals, historyVars>>

Child(c)   == target[c].pid
Running(c) == IsService(Child(c)) /\ Names(target[c], Child(c))

\* wait_ready: the record of the new instance appears and it answers.
Ready(c) ==
    /\ pc[c] = "ready" /\ Running(c)
    /\ Same(record, target[c]) /\ Healthy(record) /\ ~proc[Child(c)].failed
    /\ Return(c)
    /\ UNCHANGED <<proc, record, historyVars>>

\* It has exited, or its index failed, or it takes longer than 90 seconds: kill
\* and reap it.
GiveUp(c) ==
    /\ pc[c] = "ready"
    /\ \/ ~Running(c) /\ UNCHANGED <<proc, service, startup, historyVars>>
       \/ /\ Running(c) /\ Same(record, target[c]) /\ Healthy(record)
          /\ proc[Child(c)].failed
          /\ Ends(Child(c)) /\ UNCHANGED historyVars
       \/ Running(c) /\ Fault /\ Ends(Child(c))
    /\ Goto(c, "clean")
    /\ UNCHANGED <<record, want, target, signals>>

\* Read the record, and remove it if it is the new instance's.
Clean(c) ==
    /\ pc[c] = "clean"
    /\ IF Same(record, target[c])
       THEN Goto(c, "remove") /\ UNCHANGED <<startup, service, want, target, signals>>
       ELSE Return(c)
    /\ UNCHANGED <<proc, record, historyVars>>

Remove(c) ==
    /\ pc[c] = "remove"
    /\ record' = NoRecord
    /\ Return(c)
    /\ UNCHANGED <<proc, historyVars>>

-------------------------------------------------------------------------------
(* Record::stop and Record::terminate, by client c *)

\* A desktop stops the service it started, when it changes sources or quits; a
\* command line the one it finds recorded.
Stop(c) ==
    /\ Idle(c)
    /\ \E p \in Pids :
         /\ proc[p].at = "up"
         /\ IF c \in Desktops THEN proc[p].owner = c ELSE Names(record, p)
         /\ proc' = [proc EXCEPT ![p].at = "draining"]
         /\ target' = [target EXCEPT ![c] = Handle(RecordOf(p))]
    /\ Goto(c, "stopping")
    /\ UNCHANGED <<service, startup, record, want, signals, historyVars>>

\* Its desktop finds a service that no longer answers, as another stop came first,
\* and terminates it.
StopRefused(c) ==
    /\ Idle(c) /\ c \in Desktops /\ Fault
    /\ \E p \in Pids :
         /\ proc[p].at \in {"draining", "dropped", "ending"} /\ proc[p].owner = c
         /\ target' = [target EXCEPT ![c] = Handle(RecordOf(p))]
    /\ Goto(c, "alive")
    /\ UNCHANGED <<proc, service, startup, record, want, signals>>

\* Faulty: a service that no longer answers has stopped.
IsOverUnhealthy(r) == ~Healthy(r)

IsOver(r) == ~Healthy(r) /\ (~Alive(r) \/ Released(r))

\* The call ends; the service is stopped, or an error says it is not.
Finish(c) ==
    /\ Goto(c, "idle")
    /\ target' = [target EXCEPT ![c] = NoRecord]
    /\ signals' = [signals EXCEPT ![c] = 0]
    /\ UNCHANGED <<proc, service, startup, record, want>>

Stopped(c) ==
    /\ pc[c] = "stopping" /\ IsOver(target[c])
    /\ Finish(c)
    /\ UNCHANGED historyVars

\* After 15 seconds a desktop terminates the service it owns (stop_owned).
StopTimesOut(c) ==
    /\ pc[c] = "stopping" /\ ~IsOver(target[c]) /\ Fault
    /\ IF c \in Desktops
       THEN Goto(c, "alive") /\ UNCHANGED <<proc, service, startup, record, want, target, signals>>
       ELSE Finish(c)

\* terminate looks, one after the other, whether the process is gone, whether its
\* record is, and whether service.lock is free.
CheckAlive(c) ==
    /\ pc[c] = "alive"
    /\ IF ~Alive(target[c]) THEN Finish(c)
       ELSE Goto(c, "released") /\ UNCHANGED <<proc, service, startup, record, want, target, signals>>
    /\ UNCHANGED historyVars

CheckReleased(c) ==
    /\ pc[c] = "released"
    /\ IF Released(target[c]) THEN Finish(c)
       ELSE Goto(c, "probe") /\ UNCHANGED <<proc, service, startup, record, want, target, signals>>
    /\ UNCHANGED historyVars

CheckLock(c) ==
    /\ pc[c] = "probe"
    /\ \/ IsFree /\ Finish(c)
       \/ /\ MayBeBusy(c)
          /\ IF signals[c] < 2 THEN Goto(c, "signal") /\ UNCHANGED <<proc, service, startup, record, want, target, signals>>
             ELSE Finish(c)
    /\ UNCHANGED historyVars

\* signal the process id, then look again, for a while.  A process blocked in a
\* read of a network share does not end yet, one of another user not at all.
Signal(c) ==
    /\ pc[c] = "signal"
    /\ Goto(c, "alive") /\ signals' = [signals EXCEPT ![c] = @ + 1]
    /\ \/ proc[target[c].pid] # Free /\ Ends(target[c].pid)
       \/ UNCHANGED <<proc, service, startup>>
    /\ UNCHANGED <<record, want, target, historyVars>>

SignalRefused(c) ==
    /\ pc[c] = "signal" /\ proc[target[c].pid] = Other
    /\ Finish(c)
    /\ UNCHANGED historyVars

-------------------------------------------------------------------------------
(* The service with process id p *)

Step(p, from, to) == proc[p].at = from /\ proc' = [proc EXCEPT ![p].at = to]

\* Faulty: the lock is not exclusive.
CanLockAlways == TRUE

CanLock == IsFree

\* register: take service.lock at once, or exit.
Lock(p) ==
    /\ CanLock /\ Step(p, "boot", "locked")
    /\ service' = p
    /\ UNCHANGED <<startup, record, clientVars, historyVars>>

LockBusy(p) ==
    /\ proc[p].at = "boot" /\ MayBeBusy(NoOne)
    /\ Ends(p)
    /\ UNCHANGED <<record, clientVars, historyVars>>

\* ... then write the record, start the worker and serve.
Publish(p) ==
    /\ Step(p, "locked", "up")
    /\ record' = RecordOf(p)
    /\ UNCHANGED <<service, startup, clientVars, historyVars>>

\* The index cannot be opened or refreshed: health says so.
IndexFails(p) ==
    /\ proc[p].at = "up" /\ ~proc[p].failed /\ Fault
    /\ proc' = [proc EXCEPT ![p].failed = TRUE]
    /\ UNCHANGED <<service, startup, record, clientVars>>

\* save_sources, in the worker: under startup.lock, read the record, which must be
\* this service's, ...
ReadRecord(p) ==
    /\ Registered(p) /\ startup = NoOne /\ Names(record, p)
    /\ startup' = p
    /\ UNCHANGED <<proc, service, record, clientVars, historyVars>>

\* ... and write it back with other sources, whatever the process has come to.
WriteRecord(p) ==
    /\ startup = p
    /\ \E v \in Variants :
         /\ record' = [RecordOf(p) EXCEPT !.variant = v]
         /\ proc' = [proc EXCEPT ![p].saved = v]
    /\ startup' = NoOne
    /\ UNCHANGED <<service, clientVars, historyVars>>

\* The worker publishes the sources that were saved.
Switch(p) ==
    /\ proc[p].at = "up" /\ proc[p].active # proc[p].saved
    /\ proc' = [proc EXCEPT ![p].active = proc[p].saved]
    /\ UNCHANGED <<service, startup, record, clientVars, historyVars>>

\* Faulty: the owner is looked at once, before serving.
WatchesOnce(p) == proc[p].at = "locked"

Watches(p) == proc[p].at = "up"

\* The watch on the desktop that owns the service notifies shutdown.
OwnerWatch(p) ==
    /\ Watches(p) /\ proc[p].owner = "gone"
    /\ Step(p, proc[p].at, "draining")
    /\ UNCHANGED <<service, startup, record, clientVars, historyVars>>

\* Registration::drop: the record goes if it is this instance's, ...
DropRecord(p) ==
    /\ Step(p, "draining", "dropped")
    /\ record' = IF Names(record, p) THEN NoRecord ELSE record
    /\ UNCHANGED <<service, startup, clientVars, historyVars>>

\* ... then service.lock.  The process ends when nothing holds it up.
Unlock(p) ==
    /\ Step(p, "dropped", "ending")
    /\ service' = NoOne
    /\ UNCHANGED <<startup, record, clientVars, historyVars>>

Exit(p) ==
    /\ proc[p].at = "ending" /\ Ends(p)
    /\ UNCHANGED <<record, clientVars, historyVars>>

-------------------------------------------------------------------------------
(* Crashes, and other processes *)

Crash(p) ==
    /\ IsService(p) /\ Fault /\ Ends(p)
    /\ UNCHANGED <<record, clientVars>>

\* A client ends, in the middle of whatever it does; another may be started.
ClientEnds(c) ==
    /\ faults < MaxFaults /\ faults' = faults + 1
    /\ orphan' = (orphan \/ pc[c] = "ready")
    /\ Leave(c)
    /\ want' = [want EXCEPT ![c] = NoOne]
    /\ signals' = [signals EXCEPT ![c] = 0]
    /\ proc' = [p \in Pids |-> IF IsService(p) /\ proc[p].owner = c
                               THEN [proc[p] EXCEPT !.owner = "gone"] ELSE proc[p]]
    /\ Goto(c, "idle")
    /\ target' = [target EXCEPT ![c] = NoRecord]
    /\ UNCHANGED record

\* A process id that somebody remembers goes to a process that is no service, and
\* comes free again; one at a time, as process ids do not run out.
OtherStarts(p) ==
    /\ proc[p] = Free /\ \A q \in Pids : proc[q] # Other
    /\ \E r \in Remembered : r.pid = p
    /\ proc' = [proc EXCEPT ![p] = Other]
    /\ UNCHANGED <<service, startup, record, clientVars, historyVars>>

OtherEnds(p) ==
    /\ proc[p] = Other
    /\ proc' = [proc EXCEPT ![p] = Free]
    /\ UNCHANGED <<service, startup, record, clientVars, historyVars>>

-------------------------------------------------------------------------------
\* What a call does once it was made, what the main thread of a service does, and
\* what its worker does.
Work(c) ==
    \/ Look(c) \/ Aside(c) \/ Reuse(c) \/ Refuse(c) \/ Unhealthy(c) \/ LockWaited(c)
    \/ Spawn(c) \/ Ready(c) \/ GiveUp(c) \/ Clean(c) \/ Remove(c)
    \/ Stopped(c) \/ CheckAlive(c) \/ CheckReleased(c) \/ CheckLock(c) \/ Signal(c)
    \/ SignalRefused(c)
TimesOut(c) ==
    \/ InspectionFails(c) \/ HealthTimesOut(c) \/ WaitTimesOut(c)
    \/ StopTimesOut(c)
Main(p) ==
    \/ Lock(p) \/ LockBusy(p) \/ Publish(p) \/ OwnerWatch(p) \/ DropRecord(p)
    \/ Unlock(p) \/ Exit(p)
Worker(p) == WriteRecord(p) \/ Switch(p)
Asks == \E c \in Clients, v \in Variants : Ensure(c, v)

Next ==
    \/ Asks
    \/ \E c \in Clients : Work(c) \/ TimesOut(c) \/ Stop(c) \/ StopRefused(c) \/ ClientEnds(c)
    \/ \E p \in Pids : \/ Main(p) \/ Worker(p) \/ ReadRecord(p) \/ IndexFails(p)
                       \/ Crash(p) \/ OtherStarts(p) \/ OtherEnds(p)

Spec == Init /\ [][Next]_vars

\* Threads run, and somebody keeps asking for a service.
Fairness ==
    /\ WF_vars(Asks)
    /\ \A c \in Clients : WF_vars(Work(c))
    /\ \A p \in Pids : WF_vars(Main(p)) /\ WF_vars(Worker(p))
FairSpec == Spec /\ Fairness

-------------------------------------------------------------------------------
(* Properties *)

\* Every variable keeps its type, and startup.lock is with a client that is
\* starting a service or a service that is saving its sources.
TypeOK ==
    /\ proc \in [Pids -> {Free, Other} \cup Service]
    /\ service \in Pids \cup {NoOne} /\ startup \in Clients \cup Pids \cup {NoOne}
    /\ record \in Record \cup {NoRecord, Invalid}
    /\ want \in [Clients -> Variants \cup {NoOne}]
    /\ target \in [Clients -> Record \cup Handles \cup {NoRecord, Invalid}]
    /\ signals \in [Clients -> 0..2]
    /\ faults \in 0..MaxFaults /\ orphan \in BOOLEAN
    /\ \A c \in Clients : startup = c <=>
          pc[c] \in {"look", "aside", "health", "wait", "spawn", "ready", "clean", "remove"}
    /\ \A p \in Pids : startup = p => IsService(p)

\* The record is that of the service that is registered, however many calls start,
\* stop and clean up at a time: nobody overwrites, removes or brings back another
\* one.  Only when a call died and left its service booting, that service may
\* register where nobody expects it and lose its record: to the next call, which
\* has just read the record it is about to remove, or to a save of the service
\* before it.
RecordHolder ==
    [][\A p \in Pids : Registered(p)' =>
         \/ record' = RecordOf(p)'
         \/ orphan /\ \/ Registered(p) /\ record # RecordOf(p)
                      \/ \E c \in Clients : Remove(c)
                      \/ \E q \in Pids \ {p} : WriteRecord(q)]_vars

\* A call returns a service only if that service has what was asked for, in what it
\* recorded and in what it publishes, when the call returns.
EnsureExact ==
    [][\A c \in Clients :
         Reuse(c) \/ Ready(c) =>
            LET p == target[c].pid IN
            /\ IsService(p) /\ Names(target[c], p) /\ proc[p].at = "up"
            /\ proc[p].active = want[c]
            /\ record = RecordOf(p) /\ record.variant = want[c]]_vars

\* When a stop succeeds, the service it was for has ended or is past its
\* registration: it no longer serves, and it has dropped its record, so that the
\* next call waits for its lock at most.  (An orphan, registering at the same time,
\* may have taken the record away before.)
StopReleases ==
    [][\A c \in Clients :
         pc[c] = "stopping" /\ pc'[c] = "idle" /\ faults' = faults /\ ~orphan =>
            \A p \in Pids : IsService(p) /\ Names(target[c], p) =>
                ~Registered(p)]_vars

\* Services whose desktop is gone end, whatever they were doing.
Abandoned == \E p \in Pids : IsService(p) /\ proc[p].owner = "gone"
OwnedEnd  == Abandoned ~> ~Abandoned

Found == \E p \in Pids : proc[p].at = "up" /\ record = RecordOf(p)

\* Whatever crashed and whatever it left behind, be it a record whose process id is
\* in use again or an invalid one, somebody who keeps asking gets a service up that
\* is found by its record; unless a call died while its service was booting.
Served == []<>(Found \/ orphan)
===============================================================================
