---------------------------- MODULE LifecycleProofs ----------------------------
(***************************************************************************)
(* That callers get the service they asked for, that a registered service  *)
(* keeps its record and that a stopped one has let go of it, for any       *)
(* number of clients, process ids and variants: an inductive invariant of  *)
(* Lifecycle, and its consequences.                                        *)
(***************************************************************************)
EXTENDS Lifecycle, FiniteSetTheorems, TLAPS

-------------------------------------------------------------------------------
(* The invariant *)

\* A call that holds startup.lock, one that stops or terminates a service, and of
\* these, what they know of it.
Starting == {"look", "aside", "health", "wait", "spawn", "ready", "clean", "remove"}
Stopping == {"stopping", "alive", "released", "probe", "signal"}
Labels   == {"idle"} \cup Starting \cup Stopping

\* A service that has held service.lock and recorded itself; that holds it.
Late    == {"up", "draining", "dropped", "ending"}
Holding == {"locked", "up", "draining", "dropped"}

\* The processes, the locks of the services and the record.
WorldTyped ==
    /\ proc \in [Pids -> {Free, Other} \cup Service]
    /\ service \in Pids \cup {NoOne}
    /\ record \in Record \cup {NoRecord, Invalid}
    /\ faults \in 0..MaxFaults /\ orphan \in BOOLEAN

\* What a call has read or written is of the type that its next step relies on.
CallTyped(c) ==
    /\ pc[c] \in Starting => want[c] \in Variants
    /\ pc[c] = "health" => target[c] \in Record
    /\ pc[c] \in Stopping \cup {"ready", "clean", "remove"} => target[c] \in Handles
    /\ pc[c] = "signal" => signals[c] < 2

CallsTyped ==
    /\ pc \in [Clients -> Labels]
    /\ want \in [Clients -> Variants \cup {NoOne}]
    /\ target \in [Clients -> Record \cup Handles \cup {NoRecord, Invalid}]
    /\ signals \in [Clients -> 0..2]
    /\ \A c \in Clients : CallTyped(c)

\* startup.lock is with a client that starts a service, or a service that saves.
StartupTyped ==
    /\ startup \in Clients \cup Pids \cup {NoOne}
    /\ \A c \in Clients : startup = c <=> pc[c] \in Starting
    /\ \A p \in Pids : startup = p => proc[p].at \in Late

TypeInv == WorldTyped /\ CallsTyped /\ StartupTyped

\* service.lock is held exactly by the service that is past taking it.
LockInv == \A p \in Pids : proc[p].at \in Holding <=> service = p

\* A record that names a service was written by it, and is what it saved last:
\* one of an earlier process with that id names another instance.
RecordInv ==
    \A p \in Pids : IsService(p) /\ Names(record, p) =>
        proc[p].at \in Late /\ record.variant = proc[p].saved

\* A service that is up when its health is asked for was up when its record was
\* read, and the record is the same since; a service that is waited for is what the
\* call asked for; one that is cleaned up after is no more.
CallInv ==
    \A c \in Clients :
        /\ pc[c] = "health" =>
               \A p \in Pids : IsService(p) /\ Names(target[c], p) =>
                   proc[p].at \in Late /\ (proc[p].at = "up" => record = target[c])
        /\ pc[c] = "ready" /\ Running(c) =>
               proc[Child(c)].saved = want[c] /\ proc[Child(c)].active = want[c]
        /\ pc[c] \in {"clean", "remove"} => ~Running(c)

Awaited(p) == \E c \in Clients : pc[c] = "ready" /\ Names(target[c], p)

\* Unless a call has left a service booting, somebody waits for every service that
\* has not recorded itself, and so nobody saves sources or cleans up meanwhile; one
\* that is registered is recorded.
OrphanInv ==
    ~orphan =>
        /\ \A p \in Pids :
               /\ proc[p].at \in {"boot", "locked"} => Awaited(p)
               /\ Registered(p) => record = RecordOf(p) /\ startup \notin Pids \ {p}
        /\ \A c \in Clients : pc[c] = "remove" => Same(record, target[c])

Kept == LockInv /\ RecordInv /\ CallInv /\ OrphanInv

LifecycleInv == TypeInv /\ Kept

-------------------------------------------------------------------------------
(* Instance ids, records and services *)

\* The values of targets, and of what is remembered.
Targets == Record \cup Handles \cup {NoRecord, Invalid}

\* The image of a finite set is not larger.
LEMMA ImageBounded ==
    ASSUME NEW S, IsFiniteSet(S), NEW f, f \in [S -> {f[x] : x \in S}]
    PROVE  /\ IsFiniteSet({f[x] : x \in S})
           /\ Cardinality({f[x] : x \in S}) <= Cardinality(S)
  <1>1. f \in Surjection(S, {f[x] : x \in S})
    BY DEF Surjection
  <1> QED
    BY <1>1, FS_Surjection

\* There are at most as many ids as clients that remember one, beside the record's.
LEMMA OlderBounded ==
    ASSUME target \in [Clients -> Targets], NEW r \in Remembered, NEW p, r.inst \in Nat
    PROVE  1 + Cardinality({s.inst : s \in {q \in Remembered : q.pid = p /\ q.inst < r.inst}})
               \in Insts \ {0}
  <1> DEFINE Rest == {target[c] : c \in Clients}
             S    == {q \in Remembered : q.pid = p /\ q.inst < r.inst}
             f    == [s \in S |-> s.inst]
             Ids  == {s.inst : s \in S}
  <1>1. IsFiniteSet(Clients)
    BY LifecycleAssumption
  <1>2. IsFiniteSet(Rest) /\ Cardinality(Rest) <= Cardinality(Clients)
    <2>1. target \in [Clients -> Rest]
      OBVIOUS
    <2> QED
      BY <1>1, <2>1, ImageBounded
  <1>3. Cardinality(Rest) \in Nat /\ Cardinality(Clients) \in Nat
    BY <1>1, <1>2, FS_CardinalityType
  <1>4. /\ IsFiniteSet(Remembered) /\ Cardinality(Remembered) \in Nat
        /\ Cardinality(Remembered) <= Cardinality(Clients) + 1
    <2> HIDE DEF Rest
    <2>1. Remembered = Rest \cup {record}
      BY DEF Remembered, Rest
    <2>2. IsFiniteSet(Rest \cup {record})
          /\ Cardinality(Rest \cup {record})
                 = IF record \in Rest THEN Cardinality(Rest) ELSE Cardinality(Rest) + 1
      BY <1>2, FS_AddElement
    <2> QED
      BY <1>2, <1>3, <2>1, <2>2
  <1>5. /\ IsFiniteSet(Remembered \ {r})
        /\ Cardinality(Remembered \ {r}) = Cardinality(Remembered) - 1
    BY <1>4, FS_RemoveElement
  <1>6. S \in SUBSET (Remembered \ {r})
    <2> SUFFICES ASSUME NEW q \in S PROVE q \in Remembered \ {r}
      OBVIOUS
    <2>1. q # r
      BY DEF Remembered
    <2> QED
      BY <2>1
  <1>7. IsFiniteSet(S) /\ Cardinality(S) <= Cardinality(Clients) /\ Cardinality(S) \in Nat
    <2> HIDE DEF S
    <2>1. IsFiniteSet(S) /\ Cardinality(S) <= Cardinality(Remembered \ {r})
      BY <1>5, <1>6, FS_Subset
    <2> QED
      BY <1>3, <1>4, <1>5, <2>1, FS_CardinalityType
  <1>8. IsFiniteSet(Ids) /\ Cardinality(Ids) <= Cardinality(S)
    <2>1. f \in [S -> {f[s] : s \in S}] /\ {f[s] : s \in S} = Ids
      OBVIOUS
    <2> HIDE DEF S, f, Ids
    <2>2. IsFiniteSet({f[s] : s \in S}) /\ Cardinality({f[s] : s \in S}) <= Cardinality(S)
      BY <1>7, <2>1, ImageBounded
    <2> QED
      BY <2>1, <2>2
  <1>9. Cardinality(Ids) \in Nat /\ Cardinality(Ids) <= Cardinality(Clients)
    <2> HIDE DEF S, Ids
    <2> QED
      BY <1>3, <1>7, <1>8, FS_CardinalityType
  <1>10. 1 + Cardinality(Ids) \in Insts \ {0}
    <2> HIDE DEF S, Ids
    <2> QED
      BY <1>3, <1>9 DEF Insts
  <1> QED
    BY <1>10

LEMMA InstsHaveZero == 0 \in Insts /\ Insts \subseteq Nat
  BY LifecycleAssumption, FS_CardinalityType DEF Insts

\* The values differ that the code tells apart.
LEMMA RecordsDiffer ==
    /\ NoRecord # Invalid /\ NoRecord \notin Record \cup Handles
    /\ Invalid \notin Record \cup Handles
    /\ \A r \in Record \cup Handles : r.pid \in Pids /\ r.inst \in Insts
  BY LifecycleAssumption DEF NoRecord, Invalid, Record, Handles

\* A new service with process id p makes older instances of what has that id, and
\* leaves everything else alone.
LEMMA OlderTyped ==
    ASSUME target \in [Clients -> Targets], record \in Record \cup {NoRecord, Invalid},
           NEW r \in Remembered, NEW p \in Pids
    PROVE  /\ r.pid # p => Older(r, p) = r
           /\ r.pid = p => Older(r, p).inst \in Insts \ {0}
           /\ Older(r, p).pid = r.pid /\ Older(r, p).variant = r.variant
           /\ r \in Record => Older(r, p) \in Record
           /\ r \in Handles => Older(r, p) \in Handles
           /\ r \in {NoRecord, Invalid} => Older(r, p) = r
  <1>1. r \in Targets
    BY DEF Targets, Remembered
  <1>2. r.inst \in Nat
    BY <1>1, InstsHaveZero DEF Targets, Record, Handles, NoRecord, Invalid
  <1> DEFINE new == 1 + Cardinality({s.inst : s \in {q \in Remembered : q.pid = p /\ q.inst < r.inst}})
  <1>3. new \in Insts \ {0}
    BY <1>2, OlderBounded
  <1>4. Older(r, p) = IF r.pid = p THEN [r EXCEPT !.inst = new] ELSE r
    BY DEF Older
  <1> HIDE DEF new
  <1>5. r \in {NoRecord, Invalid} => r.pid # p
    BY LifecycleAssumption DEF NoRecord, Invalid
  <1>6. r.pid = p => Older(r, p) = [r EXCEPT !.inst = new]
    BY <1>4, Zenon
  <1>7. r.pid # p => Older(r, p) = r
    BY <1>4, Zenon
  <1>8. CASE r.pid # p
    BY <1>7, <1>8
  <1>9. CASE r.pid = p
    <2>1. r \in Record \cup Handles
      BY <1>1, <1>5, <1>9 DEF Targets
    <2> QED
      BY <1>3, <1>5, <1>6, <1>9, <2>1, SMT DEF Record, Handles
  <1> QED
    BY <1>8, <1>9

\* A process that is at a stage of a service is one, and stays one.
LEMMA ServiceStays ==
    ASSUME NEW s \in {Free, Other} \cup Service, s.at \in Stages
    PROVE  /\ s \in Service
           /\ \A at \in Stages : [s EXCEPT !.at = at] \in Service
           /\ \A v \in Variants : [s EXCEPT !.saved = v] \in Service
           /\ \A v \in Variants : [s EXCEPT !.active = v] \in Service
           /\ [s EXCEPT !.failed = TRUE] \in Service
           /\ [s EXCEPT !.owner = "gone"] \in Service
  <1>1. s \in Service
    BY DEF Free, Other, Stages
  <1>2. \A at \in Stages : [s EXCEPT !.at = at] \in Service
    BY <1>1 DEF Service
  <1>3. \A v \in Variants : [s EXCEPT !.saved = v] \in Service
    BY <1>1 DEF Service
  <1>4. \A v \in Variants : [s EXCEPT !.active = v] \in Service
    BY <1>1 DEF Service
  <1>5. [s EXCEPT !.failed = TRUE] \in Service
    BY <1>1 DEF Service
  <1>6. [s EXCEPT !.owner = "gone"] \in Service
    BY <1>1 DEF Service
  <1> QED
    BY <1>1, <1>2, <1>3, <1>4, <1>5, <1>6

LEMMA EditTyped ==
    ASSUME proc \in [Pids -> {Free, Other} \cup Service], NEW p \in Pids,
           proc[p].at \in Stages, NEW at \in Stages
    PROVE  [proc EXCEPT ![p].at = at] \in [Pids -> {Free, Other} \cup Service]
  <1>1. [proc[p] EXCEPT !.at = at] \in Service
    BY ServiceStays
  <1> QED
    BY <1>1

LEMMA HandleTyped ==
    ASSUME NEW p \in Pids
    PROVE  Handle(RecordOf(p)) \in Handles /\ Same(Handle(RecordOf(p)), RecordOf(p))
  BY InstsHaveZero DEF Handle, RecordOf, Handles, Same

-------------------------------------------------------------------------------
(* Types *)

\* ensure_service_options.
LEMMA TypeOfEnsure ==
    ASSUME TypeInv
    PROVE  \/ \E c \in Clients, v \in Variants : Ensure(c, v)
           \/ \E c \in Clients : \/ InspectionFails(c) \/ Look(c) \/ Aside(c)
                                 \/ Reuse(c) \/ Refuse(c) \/ Unhealthy(c)
                                 \/ HealthTimesOut(c) \/ LockWaited(c)
                                 \/ WaitTimesOut(c) \/ Spawn(c) \/ Ready(c)
                                 \/ GiveUp(c) \/ Clean(c) \/ Remove(c)
           => TypeInv'
  <1> USE LifecycleAssumption DEF TypeInv, WorldTyped, CallsTyped, StartupTyped, CallTyped,
        Record, Handles, NoRecord, Invalid, Service, Free, Other, Stages, Late, Labels,
        Starting, Stopping, Fault, Goto, Return, Finish, Ends, Leave, Step, historyVars,
        clientVars, IsService
  <1>1. ASSUME NEW c \in Clients, NEW v \in Variants, Ensure(c, v) PROVE TypeInv'
    BY <1>1 DEF Ensure, Idle
  <1>2. ASSUME NEW c \in Clients, InspectionFails(c) PROVE TypeInv'
    BY <1>2 DEF InspectionFails
  <1>3. ASSUME NEW c \in Clients, Look(c) PROVE TypeInv'
    BY <1>3 DEF Look
  <1>4. ASSUME NEW c \in Clients, Aside(c) PROVE TypeInv'
    <2>1. CASE Return(c) /\ UNCHANGED record
      BY <1>4, <2>1 DEF Aside
    <2>2. CASE Goto(c, "wait") /\ record' = NoRecord
      BY <1>4, <2>2 DEF Aside
    <2> QED
      BY <1>4, <2>1, <2>2 DEF Aside
  <1>5. ASSUME NEW c \in Clients, Reuse(c) PROVE TypeInv'
    BY <1>5 DEF Reuse
  <1>6. ASSUME NEW c \in Clients, Refuse(c) PROVE TypeInv'
    BY <1>6 DEF Refuse
  <1>7. ASSUME NEW c \in Clients, Unhealthy(c) PROVE TypeInv'
    BY <1>7 DEF Unhealthy
  <1>8. ASSUME NEW c \in Clients, HealthTimesOut(c) PROVE TypeInv'
    BY <1>8 DEF HealthTimesOut
  <1>9. ASSUME NEW c \in Clients, LockWaited(c) PROVE TypeInv'
    BY <1>9 DEF LockWaited
  <1>10. ASSUME NEW c \in Clients, WaitTimesOut(c) PROVE TypeInv'
    BY <1>10 DEF WaitTimesOut
  <1>11. ASSUME NEW c \in Clients, Spawn(c) PROVE TypeInv'
    <2>1. PICK p \in Pids :
            /\ proc[p] = Free
            /\ proc' = [proc EXCEPT ![p] =
                   [at |-> "boot", saved |-> want[c], active |-> want[c],
                    owner |-> IF c \in Desktops THEN c ELSE NoOne, failed |-> FALSE]]
            /\ record' = Older(record, p)
            /\ target' = [d \in Clients |-> IF d = c THEN [pid |-> p, inst |-> 0, variant |-> NoOne]
                                            ELSE Older(target[d], p)]
      BY <1>11 DEF Spawn
    <2>2. /\ record \in Record => record' \in Record
          /\ record \in {NoRecord, Invalid} => record' = record
      BY <2>1, OlderTyped DEF Targets, Remembered
    <2>3. ASSUME NEW d \in Clients, d # c
          PROVE  /\ target[d] \in Record => target'[d] \in Record
                 /\ target[d] \in Handles => target'[d] \in Handles
                 /\ target[d] \in {NoRecord, Invalid} => target'[d] = target[d]
      <3>1. target'[d] = Older(target[d], p) /\ target[d] \in Remembered
        BY <2>1, <2>3 DEF Remembered
      <3> QED
        BY <2>1, <3>1, OlderTyped DEF Targets
    <2>4. target'[c] = [pid |-> p, inst |-> 0, variant |-> NoOne] /\ target'[c] \in Handles
      BY <2>1, InstsHaveZero
    <2>5. [at |-> "boot", saved |-> want[c], active |-> want[c],
           owner |-> IF c \in Desktops THEN c ELSE NoOne, failed |-> FALSE] \in Service
      BY <1>11 DEF Spawn
    <2>6. WorldTyped'
      BY <1>11, <2>1, <2>2, <2>5 DEF Spawn
    <2>7. target' \in [Clients -> Targets]
      BY <2>1, <2>3, <2>4 DEF Targets
    <2>8. CallsTyped'
      BY <1>11, <2>3, <2>4, <2>7 DEF Spawn, Targets
    <2>9. StartupTyped'
      BY <1>11, <2>1 DEF Spawn
    <2> QED
      BY <2>6, <2>8, <2>9
  <1>12. ASSUME NEW c \in Clients, Ready(c) PROVE TypeInv'
    BY <1>12 DEF Ready
  <1>13. ASSUME NEW c \in Clients, GiveUp(c) PROVE TypeInv'
    <2>1. CASE UNCHANGED <<proc, service, startup, historyVars>>
      BY <1>13, <2>1 DEF GiveUp
    <2>2. CASE Running(c) /\ Ends(Child(c)) /\ (Fault \/ UNCHANGED historyVars)
      BY <1>13, <2>2 DEF GiveUp, Child, Running
    <2> QED
      BY <1>13, <2>1, <2>2 DEF GiveUp
  <1>14. ASSUME NEW c \in Clients, Clean(c) PROVE TypeInv'
    <2>1. CASE Same(record, target[c])
      BY <1>14, <2>1 DEF Clean
    <2>2. CASE ~Same(record, target[c])
      <3>1. pc[c] = "clean" /\ Return(c) /\ UNCHANGED <<proc, record, historyVars>>
        BY <1>14, <2>2, Zenon DEF Clean
      <3> QED
        BY <3>1
    <2> QED
      BY <2>1, <2>2
  <1>15. ASSUME NEW c \in Clients, Remove(c) PROVE TypeInv'
    BY <1>15 DEF Remove
  <1> QED
    BY <1>1, <1>2, <1>3, <1>4, <1>5, <1>6, <1>7, <1>8, <1>9, <1>10, <1>11, <1>12, <1>13, <1>14, <1>15

\* Record::stop and Record::terminate.
LEMMA TypeOfStop ==
    ASSUME TypeInv
    PROVE  \/ \E c \in Clients : \/ Stop(c) \/ StopRefused(c) \/ Stopped(c)
                                 \/ StopTimesOut(c) \/ CheckAlive(c)
                                 \/ CheckReleased(c) \/ CheckLock(c) \/ Signal(c)
                                 \/ SignalRefused(c)
           => TypeInv'
  <1> USE LifecycleAssumption DEF TypeInv, WorldTyped, CallsTyped, StartupTyped, CallTyped,
        Record, Handles, NoRecord, Invalid, Service, Free, Other, Stages, Late, Labels,
        Starting, Stopping, Fault, Goto, Return, Finish, Ends, Leave, Step, historyVars,
        clientVars, IsService
  <1>1. ASSUME NEW c \in Clients, Stop(c) PROVE TypeInv'
    <2>1. PICK p \in Pids : /\ proc[p].at = "up"
                            /\ proc' = [proc EXCEPT ![p].at = "draining"]
                            /\ target' = [target EXCEPT ![c] = Handle(RecordOf(p))]
      BY <1>1 DEF Stop
    <2>2. Handle(RecordOf(p)) \in Handles
      BY HandleTyped
    <2>3. WorldTyped'
      <3>1. UNCHANGED <<service, record, faults, orphan>>
        BY <1>1 DEF Stop
      <3>2. proc \in [Pids -> {Free, Other} \cup Service] /\ {"up", "draining"} \subseteq Stages
        OBVIOUS
      <3>3. proc' \in [Pids -> {Free, Other} \cup Service]
        <4> HIDE DEF Service, Free, Other, Stages
        <4> QED
          BY <2>1, <3>2, EditTyped
      <3> QED
        BY <3>1, <3>3
    <2>4. CallsTyped'
      BY <1>1, <2>1, <2>2 DEF Stop, Idle
    <2>5. StartupTyped'
      BY <1>1, <2>1, <2>2 DEF Stop, Idle
    <2> QED
      BY <2>3, <2>4, <2>5
  <1>2. ASSUME NEW c \in Clients, StopRefused(c) PROVE TypeInv'
    <2>1. PICK p \in Pids : target' = [target EXCEPT ![c] = Handle(RecordOf(p))]
      BY <1>2 DEF StopRefused
    <2>2. Handle(RecordOf(p)) \in Handles
      BY HandleTyped
    <2> QED
      BY <1>2, <2>1, <2>2 DEF StopRefused, Idle
  <1>3. ASSUME NEW c \in Clients, Stopped(c) PROVE TypeInv'
    BY <1>3 DEF Stopped
  <1>4. ASSUME NEW c \in Clients, StopTimesOut(c) PROVE TypeInv'
    BY <1>4 DEF StopTimesOut
  <1>5. ASSUME NEW c \in Clients, CheckAlive(c) PROVE TypeInv'
    BY <1>5 DEF CheckAlive
  <1>6. ASSUME NEW c \in Clients, CheckReleased(c) PROVE TypeInv'
    <2>1. CASE Released(target[c])
      <3>1. pc[c] = "released" /\ Finish(c) /\ UNCHANGED <<faults, orphan>>
        BY <1>6, <2>1, Zenon DEF CheckReleased
      <3> QED
        BY <3>1
    <2>2. CASE ~Released(target[c])
      <3>1. /\ pc[c] = "released" /\ Goto(c, "probe")
            /\ UNCHANGED <<proc, service, startup, record, want, target, signals, faults, orphan>>
        BY <1>6, <2>2, Zenon DEF CheckReleased
      <3> QED
        BY <3>1
    <2> QED
      BY <2>1, <2>2
  <1>7. ASSUME NEW c \in Clients, CheckLock(c) PROVE TypeInv'
    <2>1. CASE Goto(c, "signal") /\ signals[c] < 2
      BY <1>7, <2>1 DEF CheckLock
    <2>2. CASE Finish(c)
      BY <1>7, <2>2 DEF CheckLock
    <2> QED
      BY <1>7, <2>1, <2>2, Zenon DEF CheckLock
  <1>8. ASSUME NEW c \in Clients, Signal(c) PROVE TypeInv'
    BY <1>8 DEF Signal
  <1>9. ASSUME NEW c \in Clients, SignalRefused(c) PROVE TypeInv'
    BY <1>9 DEF SignalRefused
  <1> QED
    BY <1>1, <1>2, <1>3, <1>4, <1>5, <1>6, <1>7, <1>8, <1>9

\* A service, from register to its exit.
LEMMA TypeOfService ==
    ASSUME TypeInv
    PROVE  \/ \E p \in Pids : \/ Lock(p) \/ LockBusy(p) \/ Publish(p) \/ IndexFails(p)
                              \/ ReadRecord(p) \/ WriteRecord(p) \/ Switch(p)
                              \/ OwnerWatch(p) \/ DropRecord(p) \/ Unlock(p) \/ Exit(p)
           => TypeInv'
  <1> USE LifecycleAssumption DEF TypeInv, WorldTyped, CallsTyped, StartupTyped, CallTyped,
        Record, Handles, NoRecord, Invalid, Service, Free, Other, Stages, Late, Labels,
        Starting, Stopping, Fault, Goto, Return, Finish, Ends, Leave, Step, historyVars,
        clientVars, IsService
  <1>1. ASSUME NEW p \in Pids, Lock(p) PROVE TypeInv'
    <2>1. WorldTyped'
      BY <1>1 DEF Lock
    <2>2. CallsTyped'
      BY <1>1 DEF Lock
    <2>3. StartupTyped'
      BY <1>1 DEF Lock
    <2> QED
      BY <2>1, <2>2, <2>3
  <1>2. ASSUME NEW p \in Pids, LockBusy(p) PROVE TypeInv'
    BY <1>2 DEF LockBusy
  <1>3. ASSUME NEW p \in Pids, Publish(p) PROVE TypeInv'
    <2>1. record' \in Record
      BY <1>3, InstsHaveZero DEF Publish, RecordOf
    <2>2. /\ proc[p].at = "locked" /\ proc' = [proc EXCEPT ![p].at = "up"]
          /\ UNCHANGED <<service, startup, clientVars, historyVars>>
      BY <1>3 DEF Publish
    <2>3. WorldTyped'
      BY <2>1, <2>2
    <2>4. CallsTyped'
      BY <2>1, <2>2
    <2>5. StartupTyped'
      BY <2>1, <2>2
    <2> QED
      BY <2>3, <2>4, <2>5
  <1>4. ASSUME NEW p \in Pids, IndexFails(p) PROVE TypeInv'
    <2>1. [proc[p] EXCEPT !.failed = TRUE] \in Service
      <3>1. proc[p] \in {Free, Other} \cup Service /\ proc[p].at \in Stages
        BY <1>4 DEF IndexFails
      <3> HIDE DEF Service, Free, Other, Stages
      <3> QED
        BY <3>1, ServiceStays
    <2> QED
      BY <1>4, <2>1 DEF IndexFails
  <1>5. ASSUME NEW p \in Pids, ReadRecord(p) PROVE TypeInv'
    BY <1>5 DEF ReadRecord, Registered
  <1>6. ASSUME NEW p \in Pids, WriteRecord(p) PROVE TypeInv'
    <2>1. PICK v \in Variants : /\ record' = [RecordOf(p) EXCEPT !.variant = v]
                                /\ proc' = [proc EXCEPT ![p].saved = v]
      BY <1>6 DEF WriteRecord
    <2>2. record' \in Record
      BY <2>1, InstsHaveZero DEF RecordOf
    <2>3. WorldTyped'
      <3>1. proc \in [Pids -> {Free, Other} \cup Service] /\ proc[p].at \in Stages
        BY <1>6 DEF WriteRecord
      <3>2. proc' \in [Pids -> {Free, Other} \cup Service]
        <4> HIDE DEF Service, Free, Other, Stages
        <4>1. [proc[p] EXCEPT !.saved = v] \in Service
          BY <3>1, ServiceStays
        <4> QED
          BY <2>1, <3>1, <4>1
      <3>3. UNCHANGED <<service, faults, orphan>>
        BY <1>6 DEF WriteRecord
      <3> QED
        BY <2>2, <3>2, <3>3
    <2>4. CallsTyped'
      BY <1>6, <2>1, <2>2 DEF WriteRecord
    <2>5. StartupTyped'
      BY <1>6, <2>1, <2>2 DEF WriteRecord
    <2> QED
      BY <2>3, <2>4, <2>5
  <1>7. ASSUME NEW p \in Pids, Switch(p) PROVE TypeInv'
    BY <1>7 DEF Switch
  <1>8. ASSUME NEW p \in Pids, OwnerWatch(p) PROVE TypeInv'
    BY <1>8 DEF OwnerWatch, Watches
  <1>9. ASSUME NEW p \in Pids, DropRecord(p) PROVE TypeInv'
    <2>1. WorldTyped'
      BY <1>9 DEF DropRecord
    <2>2. CallsTyped'
      BY <1>9 DEF DropRecord
    <2>3. StartupTyped'
      BY <1>9 DEF DropRecord
    <2> QED
      BY <2>1, <2>2, <2>3
  <1>10. ASSUME NEW p \in Pids, Unlock(p) PROVE TypeInv'
    BY <1>10 DEF Unlock
  <1>11. ASSUME NEW p \in Pids, Exit(p) PROVE TypeInv'
    BY <1>11 DEF Exit
  <1> QED
    BY <1>1, <1>2, <1>3, <1>4, <1>5, <1>6, <1>7, <1>8, <1>9, <1>10, <1>11

\* Crashes and other processes.
LEMMA TypeOfOthers ==
    ASSUME TypeInv
    PROVE  \/ \E c \in Clients : \/ ClientEnds(c)
           \/ \E p \in Pids : \/ Crash(p) \/ OtherStarts(p) \/ OtherEnds(p)
           => TypeInv'
  <1> USE LifecycleAssumption DEF TypeInv, WorldTyped, CallsTyped, StartupTyped, CallTyped,
        Record, Handles, NoRecord, Invalid, Service, Free, Other, Stages, Late, Labels,
        Starting, Stopping, Fault, Goto, Return, Finish, Ends, Leave, Step, historyVars,
        clientVars, IsService
  <1>1. ASSUME NEW p \in Pids, Crash(p) PROVE TypeInv'
    BY <1>1 DEF Crash
  <1>2. ASSUME NEW c \in Clients, ClientEnds(c) PROVE TypeInv'
    BY <1>2 DEF ClientEnds
  <1>3. ASSUME NEW p \in Pids, OtherStarts(p) PROVE TypeInv'
    BY <1>3 DEF OtherStarts
  <1>4. ASSUME NEW p \in Pids, OtherEnds(p) PROVE TypeInv'
    BY <1>4 DEF OtherEnds
  <1> QED
    BY <1>1, <1>2, <1>3, <1>4

LEMMA TypeInit == Init => TypeInv
  <1> SUFFICES ASSUME Init PROVE TypeInv
    OBVIOUS
  <1> USE LifecycleAssumption DEF Init
  <1>1. WorldTyped
    <2>1. proc \in [Pids -> {Free, Other} \cup Service]
      BY Zenon
    <2>2. faults \in 0..MaxFaults
      OBVIOUS
    <2> QED
      BY <2>1, <2>2, Zenon DEF WorldTyped
  <1>2. CallsTyped
    BY DEF CallsTyped, CallTyped, Labels, Starting, Stopping
  <1>3. StartupTyped
    BY DEF StartupTyped, Starting
  <1> QED
    BY <1>1, <1>2, <1>3 DEF TypeInv

LEMMA TypeStep == TypeInv /\ [Next]_vars => TypeInv'
  <1> SUFFICES ASSUME TypeInv, [Next]_vars PROVE TypeInv'
    OBVIOUS
  <1>1. CASE UNCHANGED vars
    BY <1>1 DEF vars, clientVars, historyVars, TypeInv, WorldTyped, CallsTyped, StartupTyped,
       CallTyped
  <1>2. CASE Next
    BY <1>2, TypeOfEnsure, TypeOfStop, TypeOfService, TypeOfOthers DEF Next, Asks, Work,
       TimesOut, Main, Worker
  <1> QED
    BY <1>1, <1>2

\* Every variable keeps its type; startup.lock is with a client that is starting a
\* service, or with a service that is saving its sources, and never with a dead one.
THEOREM LifecycleTypes == Spec => []TypeOK
  <1>1. TypeInv => TypeOK
    BY DEF TypeInv, TypeOK, WorldTyped, CallsTyped, StartupTyped, Starting, Late, IsService,
       Stages
  <1> QED
    BY <1>1, TypeInit, TypeStep, PTL DEF Spec

-------------------------------------------------------------------------------
(* Steps keep the rest *)

\* A call gives up a service that has ended or that it ends, and only that one: it
\* held startup.lock, so nobody else waits for one or reads the record.
LEMMA GiveUpKeeps ==
    ASSUME LifecycleInv, NEW c \in Clients, GiveUp(c)
    PROVE  Kept'
  <1> DEFINE child == Child(c)
  <1>1. /\ pc[c] = "ready" /\ pc' = [pc EXCEPT ![c] = "clean"]
        /\ UNCHANGED <<record, want, target, orphan>>
    BY DEF GiveUp, Goto, Fault, historyVars
  <1>2. \/ ~Running(c) /\ UNCHANGED <<proc, service, startup>>
        \/ Running(c) /\ Ends(child)
    BY DEF GiveUp
  <1>3. child \in Pids /\ child = target[c].pid
    BY <1>1, RecordsDiffer DEF LifecycleInv, TypeInv, CallsTyped, CallTyped, Child
  <1>4. /\ \A d \in Clients : pc[d] \in Starting => d = c
        /\ startup = c /\ startup \notin Pids
    BY <1>1, LifecycleAssumption DEF LifecycleInv, TypeInv, StartupTyped, Starting
  <1>5. pc \in [Clients -> Labels] /\ proc \in [Pids -> {Free, Other} \cup Service]
    BY DEF LifecycleInv, TypeInv, CallsTyped, WorldTyped
  <1>6. startup' = startup
    BY <1>2, <1>3, <1>4, Zenon DEF Ends, Leave
  <1>7. ~Running(c)' /\ \A p \in Pids : p # child => proc'[p] = proc[p]
    <2>1. CASE ~Running(c) /\ UNCHANGED <<proc, service, startup>>
      BY <1>1, <2>1 DEF Running, IsService, Names, Same, RecordOf, Child
    <2>2. CASE Ends(child)
      BY <1>1, <1>3, <1>5, <2>2 DEF Ends, Running, IsService, Child, Free, Stages
    <2> QED
      BY <1>2, <2>1, <2>2
  <1>8. \A p \in Pids : proc'[p] = proc[p] \/ proc'[p] = Free
    BY <1>2, <1>3, <1>5 DEF Ends
  <1>9. LockInv'
    BY <1>2, <1>3, <1>5, LifecycleAssumption DEF Ends, Leave, LifecycleInv, Kept, LockInv,
       Holding, Free
  <1>10. RecordInv'
    BY <1>1, <1>8 DEF LifecycleInv, Kept, RecordInv, IsService, Stages, Names, Same, RecordOf, Free
  <1>11. CallInv'
    <2>1. ASSUME NEW d \in Clients
          PROVE  /\ pc'[d] \notin {"health", "ready"}
                 /\ pc'[d] \in {"clean", "remove"} => d = c
      BY <1>1, <1>4, <1>5 DEF Starting
    <2> QED
      BY <1>7, <2>1 DEF CallInv, Running, Child, IsService, Names, Same, RecordOf
  <1>12. OrphanInv'
    <2> SUFFICES ASSUME ~orphan PROVE OrphanInv'
      BY <1>1 DEF OrphanInv
    <2>1. ASSUME NEW p \in Pids, proc'[p].at \in {"boot", "locked"} PROVE FALSE
      <3>1. proc'[p] = proc[p]
        BY <1>8, <2>1 DEF Free
      <3>2. Awaited(p)
        BY <2>1, <3>1 DEF LifecycleInv, Kept, OrphanInv
      <3>3. Names(target[c], p)
        BY <1>4, <3>2 DEF Awaited, Starting
      <3>4. p = child /\ IsService(p) /\ Names(target[c], p)'
        BY <1>1, <1>3, <2>1, <3>1, <3>3 DEF Names, Same, RecordOf, IsService, Stages
      <3> QED
        BY <1>1, <1>7, <2>1, <3>1, <3>4 DEF Running, Child, IsService
    <2>2. ASSUME NEW p \in Pids, Registered(p)'
          PROVE  record' = RecordOf(p)' /\ startup' \notin Pids \ {p}
      <3>1. proc'[p] = proc[p]
        BY <1>8, <2>2 DEF Free, Registered
      <3>2. Registered(p)
        BY <2>2, <3>1 DEF Registered
      <3>3. record = RecordOf(p)
        BY <3>2 DEF LifecycleInv, Kept, OrphanInv
      <3> QED
        BY <1>1, <1>4, <1>6, <3>1, <3>3 DEF RecordOf
    <2>3. ASSUME NEW d \in Clients, pc'[d] = "remove" PROVE Same(record', target'[d])
      BY <1>1, <1>4, <1>5, <2>3 DEF Starting
    <2> QED
      BY <2>1, <2>2, <2>3 DEF OrphanInv
  <1> QED
    BY <1>9, <1>10, <1>11, <1>12 DEF Kept

\* A client ends: its calls with it, its services stay at their stages.
LEMMA ClientEndsKeeps ==
    ASSUME LifecycleInv, NEW c \in Clients, ClientEnds(c)
    PROVE  Kept'
  <1>1. /\ pc' = [pc EXCEPT ![c] = "idle"] /\ target' = [target EXCEPT ![c] = NoRecord]
        /\ want' = [want EXCEPT ![c] = NoOne] /\ record' = record
        /\ startup' = (IF startup = c THEN NoOne ELSE startup)
    BY DEF ClientEnds, Goto, Leave
  <1>2. service' = service
    BY LifecycleAssumption DEF ClientEnds, Leave, LifecycleInv, TypeInv, WorldTyped
  <1>3. ASSUME NEW p \in Pids
        PROVE  /\ proc'[p].at = proc[p].at
               /\ IsService(p) => /\ proc'[p].saved = proc[p].saved
                                  /\ proc'[p].active = proc[p].active
    <2>1. proc[p] \in {Free, Other} \cup Service
      BY DEF LifecycleInv, TypeInv, WorldTyped
    <2>2. proc'[p] = IF IsService(p) /\ proc[p].owner = c
                     THEN [proc[p] EXCEPT !.owner = "gone"] ELSE proc[p]
      BY DEF ClientEnds
    <2>3. CASE IsService(p) /\ proc[p].owner = c
      <3>1. proc'[p] = [proc[p] EXCEPT !.owner = "gone"]
        BY <2>2, <2>3
      <3>2. proc[p] \in Service
        BY <2>1, <2>3, ServiceStays DEF IsService
      <3> QED
        BY <3>1, <3>2 DEF Service
    <2>4. CASE ~(IsService(p) /\ proc[p].owner = c)
      BY <2>2, <2>4
    <2> QED
      BY <2>3, <2>4
  <1>4. /\ pc \in [Clients -> Labels] /\ want \in [Clients -> Variants \cup {NoOne}]
        /\ target \in [Clients -> Targets]
        /\ \A d \in Clients : pc[d] \in {"ready", "clean", "remove"} => target[d].pid \in Pids
    BY RecordsDiffer DEF LifecycleInv, TypeInv, CallsTyped, CallTyped, Targets
  <1>5. LockInv'
    BY <1>2, <1>3 DEF LifecycleInv, Kept, LockInv
  <1>6. RecordInv'
    BY <1>1, <1>3 DEF LifecycleInv, Kept, RecordInv, IsService, Names, Same, RecordOf
  <1>7. CallInv'
    <2> SUFFICES ASSUME NEW d \in Clients, d # c
                 PROVE  /\ pc[d] = "health" =>
                               \A p \in Pids : IsService(p)' /\ Names(target[d], p)' =>
                                   proc'[p].at \in Late /\ (proc'[p].at = "up" => record = target[d])
                        /\ pc[d] = "ready" /\ Running(d)' =>
                               proc'[Child(d)].saved = want[d] /\ proc'[Child(d)].active = want[d]
                        /\ pc[d] \in {"clean", "remove"} => ~Running(d)'
      BY <1>1, <1>4 DEF CallInv, Names, Same, RecordOf, Child
    <2> QED
      BY <1>1, <1>3, <1>4 DEF LifecycleInv, Kept, CallInv, Running, Child, IsService, Names, Same,
         RecordOf
  <1>8. OrphanInv'
    <2>1. CASE orphan \/ pc[c] = "ready"
      BY <2>1, Zenon DEF ClientEnds, OrphanInv
    <2>2. CASE ~orphan /\ pc[c] # "ready"
      <3>1. ASSUME NEW p \in Pids, proc'[p].at \in {"boot", "locked"} PROVE Awaited(p)'
        <4>1. PICK d \in Clients : pc[d] = "ready" /\ Names(target[d], p)
          BY <1>3, <2>2, <3>1 DEF LifecycleInv, Kept, OrphanInv, Awaited
        <4> QED
          BY <1>1, <1>4, <2>2, <4>1 DEF Awaited, Names, Same, RecordOf
      <3>2. ASSUME NEW p \in Pids, Registered(p)'
            PROVE  record' = RecordOf(p)' /\ startup' \notin Pids \ {p}
        <4>1. IsService(p) /\ Registered(p)
          BY <1>3, <3>2 DEF IsService, Registered, Stages
        <4> QED
          BY <1>1, <1>3, <2>2, <4>1, LifecycleAssumption DEF LifecycleInv, Kept, OrphanInv, RecordOf
      <3>3. ASSUME NEW d \in Clients, pc'[d] = "remove" PROVE Same(record', target'[d])
        BY <1>1, <1>4, <2>2, <3>3 DEF LifecycleInv, Kept, OrphanInv
      <3> QED
        BY <3>1, <3>2, <3>3 DEF OrphanInv
    <2> QED
      BY <2>1, <2>2
  <1> QED
    BY <1>5, <1>6, <1>7, <1>8 DEF Kept

\* A new service makes nobody else's record or target name it, and is awaited.
LEMMA SpawnKeeps ==
    ASSUME LifecycleInv, NEW c \in Clients, Spawn(c)
    PROVE  Kept'
  <1>1. PICK p \in Pids :
          /\ proc[p] = Free
          /\ proc' = [proc EXCEPT ![p] =
                 [at |-> "boot", saved |-> want[c], active |-> want[c],
                  owner |-> IF c \in Desktops THEN c ELSE NoOne, failed |-> FALSE]]
          /\ record' = Older(record, p)
          /\ target' = [d \in Clients |-> IF d = c THEN [pid |-> p, inst |-> 0, variant |-> NoOne]
                                          ELSE Older(target[d], p)]
    BY DEF Spawn
  <1>2. /\ record.pid # p => record' = record
        /\ record.pid = p => record'.pid = p /\ record'.inst # 0
    BY <1>1, OlderTyped DEF Targets, Remembered, LifecycleInv, TypeInv, WorldTyped, CallsTyped
  <1>3. /\ pc[c] = "spawn" /\ pc' = [pc EXCEPT ![c] = "ready"]
        /\ UNCHANGED <<service, startup, want, orphan>>
    BY DEF Spawn, Goto, historyVars
  <1>4. /\ \A d \in Clients : pc[d] \in Starting => d = c
        /\ startup = c /\ c \notin Pids
    BY <1>3, LifecycleAssumption DEF LifecycleInv, TypeInv, StartupTyped, Starting
  <1>5. pc \in [Clients -> Labels] /\ proc \in [Pids -> {Free, Other} \cup Service]
    BY DEF LifecycleInv, TypeInv, CallsTyped, WorldTyped
  <1>6. target'[c] = [pid |-> p, inst |-> 0, variant |-> NoOne] /\ Names(target[c], p)'
    BY <1>1 DEF Names, Same, RecordOf
  <1>7. LockInv'
    BY <1>1, <1>3, <1>5 DEF LifecycleInv, Kept, LockInv, Holding, Free
  <1>8. RecordInv'
    BY <1>1, <1>2, <1>5 DEF LifecycleInv, Kept, RecordInv, IsService, Names, Same, RecordOf
  <1>9. CallInv'
    <2>1. \A d \in Clients : pc'[d] \notin {"health", "clean", "remove"} /\ (pc'[d] = "ready" => d = c)
      BY <1>3, <1>4, <1>5 DEF Starting
    <2>2. proc'[p].saved = want[c] /\ proc'[p].active = want[c]
      BY <1>1, <1>5
    <2> QED
      BY <1>3, <1>6, <2>1, <2>2 DEF CallInv, Child
  <1>10. OrphanInv'
    <2> SUFFICES ASSUME ~orphan PROVE OrphanInv'
      BY <1>3 DEF OrphanInv
    <2>1. ASSUME NEW q \in Pids, proc'[q].at \in {"boot", "locked"} PROVE Awaited(q)'
      <3>1. CASE q = p
        BY <1>3, <1>5, <1>6, <3>1 DEF Awaited
      <3>2. CASE q # p
        <4>1. Awaited(q)
          BY <1>1, <1>5, <2>1, <3>2 DEF LifecycleInv, Kept, OrphanInv
        <4> QED
          BY <1>3, <1>4, <4>1 DEF Awaited, Starting
      <3> QED
        BY <3>1, <3>2
    <2>2. ASSUME NEW q \in Pids, Registered(q)'
          PROVE  record' = RecordOf(q)' /\ startup' \notin Pids \ {q}
      <3>1. q # p /\ proc'[q] = proc[q] /\ Registered(q)
        BY <1>1, <1>5, <2>2 DEF Registered
      <3>2. record = RecordOf(q)
        BY <3>1 DEF LifecycleInv, Kept, OrphanInv
      <3> QED
        BY <1>2, <1>3, <1>4, <3>1, <3>2 DEF RecordOf
    <2>3. ASSUME NEW d \in Clients, pc'[d] = "remove" PROVE Same(record', target'[d])
      BY <1>3, <1>4, <1>5, <2>3 DEF Starting
    <2> QED
      BY <2>1, <2>2, <2>3 DEF OrphanInv
  <1> QED
    BY <1>7, <1>8, <1>9, <1>10 DEF Kept

\* ensure_service_options.
LEMMA EnsureKeeps ==
    ASSUME LifecycleInv
    PROVE  \/ \E c \in Clients, v \in Variants : Ensure(c, v)
           \/ \E c \in Clients : \/ InspectionFails(c) \/ Look(c) \/ Aside(c)
                                 \/ Reuse(c) \/ Refuse(c) \/ Unhealthy(c)
                                 \/ HealthTimesOut(c) \/ LockWaited(c)
                                 \/ WaitTimesOut(c) \/ Spawn(c) \/ Ready(c)
                                 \/ GiveUp(c) \/ Clean(c) \/ Remove(c)
           => Kept'
  <1> USE LifecycleAssumption DEF LifecycleInv, TypeInv, WorldTyped, CallsTyped, StartupTyped,
        CallTyped, Kept, LockInv, RecordInv, CallInv, OrphanInv, Record, Handles, NoRecord,
        Invalid, Free, Other, Stages, Late, Holding, Labels, Starting, Stopping, Names, Same,
        RecordOf, Running, Child, Registered, Awaited, Fault, Goto, Return, Finish, Ends, Leave,
        Step, historyVars, clientVars, IsService, IsFree
  <1>1. ASSUME NEW c \in Clients, NEW v \in Variants, Ensure(c, v) PROVE Kept'
    BY <1>1 DEF Ensure, Idle
  <1>2. ASSUME NEW c \in Clients, InspectionFails(c) PROVE Kept'
    BY <1>2 DEF InspectionFails
  <1>3. ASSUME NEW c \in Clients, Look(c) PROVE Kept'
    BY <1>3 DEF Look
  <1>4. ASSUME NEW c \in Clients, Aside(c) PROVE Kept'
    BY <1>4 DEF Aside
  <1>5. ASSUME NEW c \in Clients, Reuse(c) PROVE Kept'
    BY <1>5 DEF Reuse
  <1>6. ASSUME NEW c \in Clients, Refuse(c) PROVE Kept'
    BY <1>6 DEF Refuse
  <1>7. ASSUME NEW c \in Clients, Unhealthy(c) PROVE Kept'
    BY <1>7 DEF Unhealthy
  <1>8. ASSUME NEW c \in Clients, HealthTimesOut(c) PROVE Kept'
    BY <1>8 DEF HealthTimesOut
  <1>9. ASSUME NEW c \in Clients, LockWaited(c) PROVE Kept'
    BY <1>9 DEF LockWaited
  <1>10. ASSUME NEW c \in Clients, WaitTimesOut(c) PROVE Kept'
    BY <1>10 DEF WaitTimesOut
  <1>11. ASSUME NEW c \in Clients, Spawn(c) PROVE Kept'
    BY <1>11, SpawnKeeps
  <1>12. ASSUME NEW c \in Clients, Ready(c) PROVE Kept'
    BY <1>12 DEF Ready, Healthy
  <1>13. ASSUME NEW c \in Clients, GiveUp(c) PROVE Kept'
    BY <1>13, GiveUpKeeps
  <1>14. ASSUME NEW c \in Clients, Clean(c) PROVE Kept'
    BY <1>14 DEF Clean
  <1>15. ASSUME NEW c \in Clients, Remove(c) PROVE Kept'
    BY <1>15 DEF Remove
  <1> QED
    BY <1>1, <1>2, <1>3, <1>4, <1>5, <1>6, <1>7, <1>8, <1>9, <1>10, <1>11, <1>12, <1>13, <1>14, <1>15

\* Record::stop and Record::terminate.
LEMMA StopKeeps ==
    ASSUME LifecycleInv
    PROVE  \/ \E c \in Clients : \/ Stop(c) \/ StopRefused(c) \/ Stopped(c)
                                 \/ StopTimesOut(c) \/ CheckAlive(c)
                                 \/ CheckReleased(c) \/ CheckLock(c) \/ Signal(c)
                                 \/ SignalRefused(c)
           => Kept'
  <1> USE LifecycleAssumption DEF LifecycleInv, TypeInv, WorldTyped, CallsTyped, StartupTyped,
        CallTyped, Kept, LockInv, RecordInv, CallInv, OrphanInv, Record, Handles, NoRecord,
        Invalid, Free, Other, Stages, Late, Holding, Labels, Starting, Stopping, Names, Same,
        RecordOf, Running, Child, Registered, Awaited, Fault, Goto, Return, Finish, Ends, Leave,
        Step, historyVars, clientVars, IsService, IsFree
  <1>1. ASSUME NEW c \in Clients, Stop(c) PROVE Kept'
    BY <1>1 DEF Stop, Idle, Handle
  <1>2. ASSUME NEW c \in Clients, StopRefused(c) PROVE Kept'
    BY <1>2 DEF StopRefused, Idle, Handle
  <1>3. ASSUME NEW c \in Clients, Stopped(c) PROVE Kept'
    BY <1>3 DEF Stopped
  <1>4. ASSUME NEW c \in Clients, StopTimesOut(c) PROVE Kept'
    BY <1>4 DEF StopTimesOut
  <1>5. ASSUME NEW c \in Clients, CheckAlive(c) PROVE Kept'
    BY <1>5 DEF CheckAlive
  <1>6. ASSUME NEW c \in Clients, CheckReleased(c) PROVE Kept'
    BY <1>6 DEF CheckReleased
  <1>7. ASSUME NEW c \in Clients, CheckLock(c) PROVE Kept'
    <2>1. CASE Goto(c, "signal")
      BY <1>7, <2>1 DEF CheckLock
    <2>2. CASE Finish(c)
      BY <1>7, <2>2 DEF CheckLock
    <2> QED
      BY <1>7, <2>1, <2>2, Zenon DEF CheckLock
  <1>8. ASSUME NEW c \in Clients, Signal(c) PROVE Kept'
    BY <1>8 DEF Signal
  <1>9. ASSUME NEW c \in Clients, SignalRefused(c) PROVE Kept'
    BY <1>9 DEF SignalRefused
  <1> QED
    BY <1>1, <1>2, <1>3, <1>4, <1>5, <1>6, <1>7, <1>8, <1>9

\* A service, from register to its exit.
LEMMA ServiceKeeps ==
    ASSUME LifecycleInv
    PROVE  \/ \E p \in Pids : \/ Lock(p) \/ LockBusy(p) \/ Publish(p) \/ IndexFails(p)
                              \/ ReadRecord(p) \/ WriteRecord(p) \/ Switch(p)
                              \/ OwnerWatch(p) \/ DropRecord(p) \/ Unlock(p) \/ Exit(p)
           => Kept'
  <1> USE LifecycleAssumption DEF LifecycleInv, TypeInv, WorldTyped, CallsTyped, StartupTyped,
        CallTyped, Kept, LockInv, RecordInv, CallInv, OrphanInv, Record, Handles, NoRecord,
        Invalid, Free, Other, Stages, Late, Holding, Labels, Starting, Stopping, Names, Same,
        RecordOf, Running, Child, Registered, Awaited, Fault, Goto, Return, Finish, Ends, Leave,
        Step, historyVars, clientVars, IsService, IsFree
  <1>1. ASSUME NEW p \in Pids, Lock(p) PROVE Kept'
    BY <1>1 DEF Lock, CanLock
  <1>2. ASSUME NEW p \in Pids, LockBusy(p) PROVE Kept'
    BY <1>2 DEF LockBusy
  <1>3. ASSUME NEW p \in Pids, Publish(p) PROVE Kept'
    BY <1>3 DEF Publish
  <1>4. ASSUME NEW p \in Pids, IndexFails(p) PROVE Kept'
    BY <1>4 DEF IndexFails
  <1>5. ASSUME NEW p \in Pids, ReadRecord(p) PROVE Kept'
    BY <1>5 DEF ReadRecord
  <1>6. ASSUME NEW p \in Pids, WriteRecord(p) PROVE Kept'
    BY <1>6 DEF WriteRecord
  <1>7. ASSUME NEW p \in Pids, Switch(p) PROVE Kept'
    BY <1>7 DEF Switch
  <1>8. ASSUME NEW p \in Pids, OwnerWatch(p) PROVE Kept'
    BY <1>8 DEF OwnerWatch, Watches
  <1>9. ASSUME NEW p \in Pids, DropRecord(p) PROVE Kept'
    BY <1>9 DEF DropRecord
  <1>10. ASSUME NEW p \in Pids, Unlock(p) PROVE Kept'
    BY <1>10 DEF Unlock
  <1>11. ASSUME NEW p \in Pids, Exit(p) PROVE Kept'
    BY <1>11 DEF Exit
  <1> QED
    BY <1>1, <1>2, <1>3, <1>4, <1>5, <1>6, <1>7, <1>8, <1>9, <1>10, <1>11

\* Crashes and other processes.
LEMMA OthersKeep ==
    ASSUME LifecycleInv
    PROVE  \/ \E c \in Clients : \/ ClientEnds(c)
           \/ \E p \in Pids : \/ Crash(p) \/ OtherStarts(p) \/ OtherEnds(p)
           => Kept'
  <1> USE LifecycleAssumption DEF LifecycleInv, TypeInv, WorldTyped, CallsTyped, StartupTyped,
        CallTyped, Kept, LockInv, RecordInv, CallInv, OrphanInv, Record, Handles, NoRecord,
        Invalid, Free, Other, Stages, Late, Holding, Labels, Starting, Stopping, Names, Same,
        RecordOf, Running, Child, Registered, Awaited, Fault, Goto, Return, Finish, Ends, Leave,
        Step, historyVars, clientVars, IsService, IsFree
  <1>1. ASSUME NEW p \in Pids, Crash(p) PROVE Kept'
    BY <1>1 DEF Crash
  <1>2. ASSUME NEW c \in Clients, ClientEnds(c) PROVE Kept'
    BY <1>2, ClientEndsKeeps
  <1>3. ASSUME NEW p \in Pids, OtherStarts(p) PROVE Kept'
    BY <1>3 DEF OtherStarts
  <1>4. ASSUME NEW p \in Pids, OtherEnds(p) PROVE Kept'
    BY <1>4 DEF OtherEnds
  <1> QED
    BY <1>1, <1>2, <1>3, <1>4

-------------------------------------------------------------------------------
(* The properties *)

LEMMA KeptInit == Init => Kept
  <1> SUFFICES ASSUME Init PROVE Kept
    OBVIOUS
  <1>1. /\ \A p \in Pids : proc[p].at = "free"
        /\ \A c \in Clients : pc[c] = "idle"
        /\ service = NoOne
    BY DEF Init, Free
  <1> QED
    BY <1>1, LifecycleAssumption DEF Kept, LockInv, RecordInv, CallInv, OrphanInv, Holding,
       IsService, Stages, Registered

LEMMA LifecycleStep == LifecycleInv /\ [Next]_vars => LifecycleInv'
  <1> SUFFICES ASSUME LifecycleInv, [Next]_vars PROVE LifecycleInv'
    OBVIOUS
  <1>1. TypeInv'
    BY TypeStep DEF LifecycleInv
  <1>2. CASE UNCHANGED vars
    <2> USE <1>2 DEF vars, clientVars, historyVars, LifecycleInv, Kept
    <2>1. LockInv'
      BY DEF LockInv
    <2>2. RecordInv'
      BY DEF RecordInv, Names, Same, RecordOf, IsService
    <2>3. CallInv'
      BY DEF CallInv, Running, Child, Names, Same, RecordOf, IsService
    <2>4. OrphanInv'
      BY DEF OrphanInv, Awaited, Names, Same, RecordOf, Registered
    <2> QED
      BY <1>1, <2>1, <2>2, <2>3, <2>4
  <1>3. CASE Next
    <2>1. CASE \E c \in Clients : Work(c) \/ TimesOut(c) \/ Stop(c) \/ StopRefused(c) \/ ClientEnds(c)
      <3>1. PICK c \in Clients : Work(c) \/ TimesOut(c) \/ Stop(c) \/ StopRefused(c) \/ ClientEnds(c)
        BY <2>1
      <3> QED
        BY <1>1, <3>1, EnsureKeeps, StopKeeps, OthersKeep DEF Work, TimesOut, LifecycleInv
    <2>2. CASE Asks
      BY <1>1, <2>2, EnsureKeeps DEF Asks, LifecycleInv
    <2>3. CASE \E p \in Pids : \/ Main(p) \/ Worker(p) \/ ReadRecord(p) \/ IndexFails(p)
                               \/ Crash(p) \/ OtherStarts(p) \/ OtherEnds(p)
      <3>1. PICK p \in Pids : \/ Main(p) \/ Worker(p) \/ ReadRecord(p) \/ IndexFails(p)
                              \/ Crash(p) \/ OtherStarts(p) \/ OtherEnds(p)
        BY <2>3
      <3> QED
        BY <1>1, <3>1, ServiceKeeps, OthersKeep DEF Main, Worker, LifecycleInv
    <2> QED
      BY <1>3, <2>1, <2>2, <2>3 DEF Next
  <1> QED
    BY <1>1, <1>2, <1>3 DEF LifecycleInv

LEMMA LifecycleAlways == Spec => []LifecycleInv
  BY TypeInit, KeptInit, LifecycleStep, PTL DEF Spec, LifecycleInv

\* A call returns a service only if what it has recorded and what it publishes is
\* what was asked for, although health, build and sources are asked for one after
\* the other and the record was read before: the service was up when it was read.
THEOREM CallersGetTheirs == Spec => EnsureExact
  <1>1. ASSUME LifecycleInv, NEW c \in Clients, Reuse(c) \/ Ready(c)
        PROVE  LET p == target[c].pid IN
               /\ IsService(p) /\ Names(target[c], p) /\ proc[p].at = "up"
               /\ proc[p].active = want[c]
               /\ record = RecordOf(p) /\ record.variant = want[c]
    <2> DEFINE p == target[c].pid
    <2>1. CASE Reuse(c)
      <3>1. /\ p \in Pids /\ proc[p].at = "up" /\ IsService(p) /\ Names(target[c], p)
            /\ pc[c] = "health" /\ target[c].variant = want[c] /\ proc[p].active = want[c]
        BY <2>1 DEF Reuse, Answers, Healthy, Matches
      <3>2. target[c] \in Record
        BY <1>1, <3>1 DEF LifecycleInv, TypeInv, CallsTyped, CallTyped
      <3>3. record = target[c]
        BY <1>1, <3>1, Zenon DEF LifecycleInv, Kept, CallInv
      <3>4. record.variant = proc[p].saved
        BY <1>1, <3>1, <3>3 DEF LifecycleInv, Kept, RecordInv
      <3> QED
        BY <3>1, <3>2, <3>3, <3>4 DEF Record, RecordOf, Names, Same
    <2>2. CASE Ready(c)
      <3>1. /\ pc[c] = "ready" /\ Running(c) /\ Same(record, target[c]) /\ Healthy(record)
            /\ p = Child(c)
        BY <2>2 DEF Ready, Child
      <3>2. /\ IsService(p) /\ Names(target[c], p) /\ record.pid = p /\ Names(record, p)
            /\ p \in Pids /\ proc[p].at = "up"
        BY <3>1 DEF Running, Same, Names, Healthy
      <3>3. /\ proc[p].saved = want[c] /\ proc[p].active = want[c]
            /\ record.variant = proc[p].saved
        BY <1>1, <3>1, <3>2 DEF LifecycleInv, Kept, CallInv, RecordInv
      <3>4. record \in Record
        BY <1>1, <3>2, LifecycleAssumption DEF LifecycleInv, TypeInv, WorldTyped, NoRecord, Invalid
      <3> QED
        BY <3>2, <3>3, <3>4 DEF Record, RecordOf, Names, Same
    <2> QED
      BY <1>1, <2>1, <2>2
  <1> DEFINE Exact == \A c \in Clients :
        Reuse(c) \/ Ready(c) =>
            LET p == target[c].pid IN
            /\ IsService(p) /\ Names(target[c], p) /\ proc[p].at = "up"
            /\ proc[p].active = want[c]
            /\ record = RecordOf(p) /\ record.variant = want[c]
  <1>2. LifecycleInv => Exact
    BY <1>1
  <1>3. LifecycleInv => [Exact]_vars
    <2> HIDE DEF Exact
    <2> QED
      BY <1>2
  <1> QED
    BY <1>3, LifecycleAlways, PTL DEF EnsureExact

\* What the edits of a process that is a service change of it.
LEMMA EditedAt ==
    ASSUME proc \in [Pids -> {Free, Other} \cup Service], NEW q \in Pids, NEW p \in Pids,
           proc[q].at \in Stages, NEW x
    PROVE  /\ proc' = [proc EXCEPT ![q].at = x] =>
                 /\ proc'[p].saved = proc[p].saved
                 /\ proc'[p].at = IF p = q THEN x ELSE proc[p].at
           /\ proc' = [proc EXCEPT ![q].active = x] \/ proc' = [proc EXCEPT ![q].failed = x] =>
                 proc'[p].saved = proc[p].saved /\ proc'[p].at = proc[p].at
  <1>1. proc[q] \in Service
    BY ServiceStays
  <1> QED
    BY <1>1 DEF Service

\* Nothing but the clean-up of a failed start and a late save takes its record from a
\* service that is registered.
LEMMA RecordStays ==
    ASSUME LifecycleInv, Next, NEW p \in Pids, Registered(p)',
           Registered(p) => record = RecordOf(p),
           \A c \in Clients : ~Remove(c),
           \A q \in Pids \ {p} : ~WriteRecord(q)
    PROVE  record' = RecordOf(p)'
  <1> USE DEF Registered, RecordOf
  <1>1. proc \in [Pids -> {Free, Other} \cup Service]
    BY DEF LifecycleInv, TypeInv, WorldTyped
  <1>2. CASE UNCHANGED <<proc, record>>
    BY <1>2
  <1>3. ASSUME NEW c \in Clients, Spawn(c) PROVE record' = RecordOf(p)'
    <2>1. PICK q \in Pids :
            /\ proc[q] = Free
            /\ proc' = [proc EXCEPT ![q] =
                   [at |-> "boot", saved |-> want[c], active |-> want[c],
                    owner |-> IF c \in Desktops THEN c ELSE NoOne, failed |-> FALSE]]
            /\ record' = Older(record, q)
      BY <1>3 DEF Spawn
    <2>2. p # q /\ proc'[p] = proc[p] /\ record = RecordOf(p)
      BY <1>1, <2>1
    <2>3. Older(record, q) = record
      BY <2>2, OlderTyped DEF Remembered, Targets, LifecycleInv, TypeInv, WorldTyped, CallsTyped
    <2> QED
      BY <2>1, <2>2, <2>3
  <1>4. ASSUME NEW c \in Clients, Aside(c) PROVE record' = RecordOf(p)'
    <2>1. UNCHANGED proc /\ (UNCHANGED record \/ service = NoOne)
      BY <1>4 DEF Aside, IsFree
    <2>2. service = p
      BY <2>1 DEF LifecycleInv, Kept, LockInv, Holding
    <2> QED
      BY <2>1, <2>2, LifecycleAssumption
  <1>5. ASSUME NEW c \in Clients, GiveUp(c) \/ Stop(c) \/ Signal(c) PROVE record' = RecordOf(p)'
    <2>1. UNCHANGED record
      BY <1>5 DEF GiveUp, Stop, Signal
    <2>2. proc' = proc \/ (\E q \in Pids : proc' = [proc EXCEPT ![q] = Free])
          \/ (\E q \in Pids : proc[q].at = "up" /\ proc' = [proc EXCEPT ![q].at = "draining"])
      BY <1>5 DEF GiveUp, Stop, Signal, Ends, LifecycleInv, TypeInv, CallsTyped, CallTyped,
         Stopping, Handles, Child
    <2>3. Registered(p) /\ proc'[p].saved = proc[p].saved
      <3>1. CASE proc' = proc
        BY <3>1
      <3>2. ASSUME NEW q \in Pids, proc' = [proc EXCEPT ![q] = Free]
            PROVE  Registered(p) /\ proc'[p].saved = proc[p].saved
        BY <1>1, <3>2 DEF Free
      <3>3. ASSUME NEW q \in Pids, proc[q].at = "up", proc' = [proc EXCEPT ![q].at = "draining"]
            PROVE  Registered(p) /\ proc'[p].saved = proc[p].saved
        BY <1>1, <3>3, EditedAt
      <3> QED
        BY <2>2, <3>1, <3>2, <3>3
    <2> QED
      BY <2>1, <2>3
  <1>6. ASSUME NEW c \in Clients, ClientEnds(c) PROVE record' = RecordOf(p)'
    <2>1. UNCHANGED record /\ proc'[p].at = proc[p].at
          /\ (IsService(p) => proc'[p].saved = proc[p].saved)
      BY <1>1, <1>6 DEF ClientEnds, Service, Free, Other, IsService
    <2> QED
      BY <2>1 DEF IsService, Stages
  <1>7. ASSUME NEW q \in Pids, Publish(q) PROVE record' = RecordOf(p)'
    <2>1. CASE q = p
      BY <1>1, <1>7, <2>1 DEF Publish, Step
    <2>2. CASE q # p
      <3>1. proc'[p] = proc[p] /\ proc[q].at = "locked"
        BY <1>1, <1>7, <2>2 DEF Publish, Step
      <3> QED
        BY <2>2, <3>1 DEF LifecycleInv, Kept, LockInv, Holding
    <2> QED
      BY <2>1, <2>2
  <1>8. ASSUME NEW q \in Pids, WriteRecord(q) PROVE record' = RecordOf(p)'
    <2>1. q = p
      BY <1>8
    <2> QED
      BY <1>1, <1>8, <2>1 DEF WriteRecord, LifecycleInv, TypeInv, StartupTyped, Late, Service,
         Free, Other
  <1>9. ASSUME NEW q \in Pids, DropRecord(q) PROVE record' = RecordOf(p)'
    <2>1. p # q /\ proc'[p] = proc[p] /\ record = RecordOf(p)
      BY <1>1, <1>9 DEF DropRecord, Step
    <2> QED
      BY <1>9, <2>1 DEF DropRecord, Names, Same
  <1>10. ASSUME NEW q \in Pids,
                Lock(q) \/ LockBusy(q) \/ IndexFails(q) \/ Switch(q) \/ OwnerWatch(q) \/ Unlock(q)
                  \/ Exit(q) \/ Crash(q) \/ OtherStarts(q) \/ OtherEnds(q)
         PROVE  record' = RecordOf(p)'
    <2>1. UNCHANGED record
      BY <1>10 DEF Lock, LockBusy, IndexFails, Switch, OwnerWatch, Unlock, Exit, Crash,
         OtherStarts, OtherEnds
    <2>2. Registered(p) /\ proc'[p].saved = proc[p].saved
      <3>1. CASE Lock(q) \/ OwnerWatch(q) \/ Unlock(q)
        <4>1. PICK from \in Stages, to \in Stages :
                /\ proc[q].at = from /\ proc' = [proc EXCEPT ![q].at = to]
                /\ to \in {"up", "draining"} => from \in {"up", "draining"}
          BY <3>1 DEF Lock, OwnerWatch, Unlock, Step, Watches, Stages
        <4> QED
          BY <1>1, <4>1, EditedAt
      <3>2. CASE IndexFails(q)
        BY <1>1, <3>2, EditedAt DEF IndexFails
      <3>3. CASE Switch(q)
        BY <1>1, <3>3, EditedAt DEF Switch
      <3>4. CASE LockBusy(q) \/ Exit(q) \/ Crash(q) \/ OtherStarts(q) \/ OtherEnds(q)
        BY <1>1, <3>4 DEF LockBusy, Exit, Crash, OtherStarts, OtherEnds, Ends, Free, Other
      <3> QED
        BY <1>10, <3>1, <3>2, <3>3, <3>4
    <2> QED
      BY <2>1, <2>2
  <1>11. ASSUME NEW c \in Clients, Work(c) \/ TimesOut(c) \/ StopRefused(c)
         PROVE  \/ UNCHANGED <<proc, record>>
                \/ Spawn(c) \/ Aside(c) \/ GiveUp(c) \/ Signal(c)
    BY <1>11 DEF Work, TimesOut, InspectionFails, Look, Reuse, Refuse, Unhealthy, HealthTimesOut,
       LockWaited, WaitTimesOut, Ready, Clean, Stopped, StopTimesOut, CheckAlive, CheckReleased,
       CheckLock, SignalRefused, StopRefused, Finish
  <1>12. Asks \/ (\E q \in Pids : ReadRecord(q)) => UNCHANGED <<proc, record>>
    BY DEF Asks, Ensure, ReadRecord
  <1> QED
    BY <1>2, <1>3, <1>4, <1>5, <1>6, <1>7, <1>8, <1>9, <1>10, <1>11, <1>12 DEF Next, Main, Worker

\* The record is that of the service that is registered, unless a call has left a
\* service booting: removing the record of a failed start and saving sources are
\* safe because startup.lock keeps everybody from registering meanwhile.
THEOREM RecordKept == Spec => RecordHolder
  <1> DEFINE Holds == \A p \in Pids : Registered(p)' =>
                 \/ record' = RecordOf(p)'
                 \/ orphan /\ \/ Registered(p) /\ record # RecordOf(p)
                              \/ \E c \in Clients : Remove(c)
                              \/ \E q \in Pids \ {p} : WriteRecord(q)
  <1>1. ASSUME LifecycleInv, LifecycleInv', Next PROVE Holds
    <2> SUFFICES ASSUME NEW p \in Pids, Registered(p)',
                        ~(orphan /\ \/ Registered(p) /\ record # RecordOf(p)
                                    \/ \E c \in Clients : Remove(c)
                                    \/ \E q \in Pids \ {p} : WriteRecord(q))
                 PROVE  record' = RecordOf(p)'
      BY Zenon
    <2>1. CASE (\E c \in Clients : Remove(c)) \/ (\E q \in Pids \ {p} : WriteRecord(q))
      <3>1. ~orphan /\ UNCHANGED orphan
        BY <2>1 DEF Remove, WriteRecord, historyVars
      <3> QED
        BY <1>1, <3>1 DEF LifecycleInv, Kept, OrphanInv
    <2>2. CASE ~((\E c \in Clients : Remove(c)) \/ (\E q \in Pids \ {p} : WriteRecord(q)))
      <3>1. Registered(p) => record = RecordOf(p)
        BY <1>1 DEF LifecycleInv, Kept, OrphanInv
      <3> QED
        BY <1>1, <2>2, <3>1, RecordStays
    <2> QED
      BY <2>1, <2>2
  <1>2. LifecycleInv /\ LifecycleInv' /\ [Next]_vars => [Holds]_vars
    <2> HIDE DEF Holds
    <2> QED
      BY <1>1
  <1> QED
    BY <1>2, LifecycleAlways, PTL DEF RecordHolder, Spec

\* A stop that succeeds has seen the service gone or past its registration: the
\* record it no longer finds is not one that is yet to be written.
THEOREM StopsRelease == Spec => StopReleases
  <1> DEFINE Releases == \A c \in Clients :
                 pc[c] = "stopping" /\ pc'[c] = "idle" /\ faults' = faults /\ ~orphan =>
                    \A p \in Pids : IsService(p) /\ Names(target[c], p) => ~Registered(p)
  <1>1. ASSUME LifecycleInv, Next, NEW c \in Clients,
               pc[c] = "stopping", pc'[c] = "idle", faults' = faults
        PROVE  IsOver(target[c])
    <2> USE <1>1
    <2>1. pc \in [Clients -> Labels] /\ faults \in Nat
      BY LifecycleAssumption DEF LifecycleInv, TypeInv, WorldTyped, CallsTyped
    <2>2. ASSUME NEW d \in Clients, Work(d) \/ TimesOut(d) \/ Stop(d) \/ StopRefused(d) \/ ClientEnds(d)
          PROVE  IsOver(target[c])
      BY <2>1, <2>2 DEF Work, TimesOut, Stop, StopRefused, ClientEnds, InspectionFails, Look, Aside,
         Reuse, Refuse, Unhealthy, HealthTimesOut, LockWaited, WaitTimesOut, Spawn, Ready, GiveUp,
         Clean, Remove, Stopped, StopTimesOut, CheckAlive, CheckReleased, CheckLock, Signal,
         SignalRefused, Goto, Return, Finish, Fault, Idle
    <2>3. CASE Asks
      BY <2>1, <2>3 DEF Asks, Ensure, Goto
    <2>4. ASSUME NEW p \in Pids, Main(p) \/ Worker(p) \/ ReadRecord(p) \/ IndexFails(p) \/ Crash(p)
                                  \/ OtherStarts(p) \/ OtherEnds(p)
          PROVE  IsOver(target[c])
      BY <2>4 DEF Main, Worker, ReadRecord, IndexFails, Crash, OtherStarts, OtherEnds, Lock, LockBusy,
         Publish, OwnerWatch, DropRecord, Unlock, Exit, WriteRecord, Switch, clientVars
    <2> QED
      BY <2>2, <2>3, <2>4 DEF Next
  <1>2. ASSUME LifecycleInv, NEW c \in Clients, pc[c] = "stopping", IsOver(target[c]), ~orphan,
               NEW p \in Pids, IsService(p), Names(target[c], p)
        PROVE  ~Registered(p)
    <2>1. target[c].pid = p /\ Alive(target[c])
      BY <1>2, LifecycleAssumption DEF Names, Same, RecordOf, Alive, IsService, Stages, Free
    <2>2. record # Invalid /\ ~Same(record, target[c])
      BY <1>2, <2>1 DEF IsOver, Released
    <2>3. record # RecordOf(p)
      BY <1>2, <2>2 DEF Names, Same
    <2> QED
      BY <1>2, <2>3 DEF LifecycleInv, Kept, OrphanInv
  <1>3. LifecycleInv /\ [Next]_vars => [Releases]_vars
    <2>1. LifecycleInv /\ Next => Releases
      BY <1>1, <1>2
    <2> HIDE DEF Releases
    <2> QED
      BY <2>1
  <1> QED
    BY <1>3, LifecycleAlways, PTL DEF StopReleases, Spec

================================================================================
