--------------------------- MODULE DashboardProofs ---------------------------
(***************************************************************************)
(* Theorems about Dashboard for all values of its constants.               *)
(***************************************************************************)
EXTENDS Dashboard, WellFoundedInduction, TLAPS

(***************************************************************************)
(* Exports. What a client waits for by its number is a job of its own kind *)
(* and of a publication that it may be given; numbers are never used twice.*)
(***************************************************************************)
Jobs == [id : Nat, redacted : BOOLEAN, pub : Nat, result : {"none", "ok", "error"}]
States == {"idle", "starting", "waiting", "ready", "saved", "failed", "expired"}
Files == {<<>>} \cup (BOOLEAN \X Nat)
Clients == [state : States, redacted : BOOLEAN, asked : Nat, found : Nat, job : Nat, file : Files]

ExportsTyped ==
    /\ pub \in Nat
    /\ jobs \in Seq(Jobs)
    /\ made \in Nat
    /\ client \in [Exporters -> Clients]

JobsNamed ==
    /\ \A i \in DOMAIN jobs : jobs[i].id <= made /\ jobs[i].pub <= pub
    /\ \A i, j \in DOMAIN jobs :
           jobs[i].id = jobs[j].id => jobs[i].redacted = jobs[j].redacted /\ jobs[i].pub = jobs[j].pub

WaitsFor(c) ==
    /\ c.job <= made
    /\ \A i \in DOMAIN jobs :
           jobs[i].id = c.job => jobs[i].redacted = c.redacted /\ jobs[i].pub >= c.asked

ClientsServed ==
    \A e \in Exporters :
        LET c == client[e]
        IN  /\ c.asked <= pub
            /\ c.found # 0 => c.found \in c.asked..pub
            /\ c.state \in {"waiting", "ready"} => WaitsFor(c)
            /\ c.state = "saved" => c.file[1] = c.redacted /\ c.file[2] \in c.asked..pub

ExportInv == ExportsTyped /\ JobsNamed /\ ClientsServed

\* The jobs kept after one more, whether or not the oldest has to go.
LEMMA KeptJobs ==
    ASSUME NEW S, NEW s \in Seq(S), NEW x \in S
    PROVE  \A t : t = Append(s, x) \/ t = Tail(Append(s, x)) =>
           /\ t \in Seq(S)
           /\ \A i \in DOMAIN t : t[i] = x \/ \E j \in DOMAIN s : t[i] = s[j]
  <1> TAKE t
  <1> HAVE t = Append(s, x) \/ t = Tail(Append(s, x))
  <1> DEFINE all == Append(s, x)
  <1>1. /\ all \in Seq(S) /\ Len(all) = Len(s) + 1 /\ all # <<>>
        /\ \A j \in 1..Len(all) : all[j] = IF j = Len(s) + 1 THEN x ELSE s[j]
    OBVIOUS
  <1>2. CASE t = all
    BY <1>1, <1>2
  <1>3. CASE t = Tail(all)
    <2>1. t \in Seq(S) /\ Len(t) = Len(s) /\ \A i \in 1..Len(t) : t[i] = all[i + 1]
      BY <1>1, <1>3
    <2>2. \A i \in 1..Len(t) : t[i] = x \/ (i + 1 \in 1..Len(s) /\ t[i] = s[i + 1])
      BY <1>1, <2>1
    <2> QED  BY SMTT(30), <2>1, <2>2
  <1> QED  BY <1>2, <1>3

LEMMA LastOfSome ==
    ASSUME NEW n \in Nat, NEW S \in SUBSET (1..n), S # {}
    PROVE  \E i \in S : \A k \in S : k <= i
  <1> DEFINE T == {n - i : i \in S}
             R == OpToRel(<, Nat)
  <1>0. \A i \in S : i \in Nat /\ n - i \in Nat
    OBVIOUS
  <1>1. T \subseteq Nat /\ T # {}
    BY <1>0
  <1>2. IsWellFoundedOn(R, Nat)
    BY NatLessThanWellFounded
  <1>3. \A x, y \in Nat : x < y => <<x, y>> \in R
    BY DEF OpToRel
  <1> HIDE DEF R, T
  <1>4. PICK x \in T : \A y \in T : ~ (<<y, x>> \in R)
    BY <1>1, <1>2, WFMin
  <1>5. PICK i \in S : x = n - i
    BY DEF T
  <1>6. \A k \in S : n - k \in T /\ n - k \in Nat
    BY DEF T
  <1>7. \A k \in S : ~ (n - k < n - i)
    BY <1>1, <1>3, <1>4, <1>5, <1>6
  <1> QED  BY <1>0, <1>5, <1>7

\* What each action of an exporter leaves of the invariant's parts: the job list
\* alone, and the exporter's own promises only to be looked at again.
LEMMA OthersServed ==
    ASSUME ExportInv, UNCHANGED <<pub, jobs, made>>,
           NEW e \in Exporters, NEW c \in Clients, client' = [client EXCEPT ![e] = c],
           c.asked <= pub, c.found # 0 => c.found \in c.asked..pub,
           c.state \in {"waiting", "ready"} => WaitsFor(c),
           c.state = "saved" => c.file[1] = c.redacted /\ c.file[2] \in c.asked..pub
    PROVE  ExportInv'
  <1>1. ExportsTyped'
    BY DEF ExportInv, ExportsTyped
  <1>2. JobsNamed'
    BY DEF ExportInv, JobsNamed
  <1>3. ASSUME NEW o \in Exporters PROVE client'[o] = IF o = e THEN c ELSE client[o]
    BY DEF ExportInv, ExportsTyped
  <1>4. ClientsServed'
    BY <1>3 DEF ExportInv, ClientsServed, WaitsFor
  <1> QED  BY <1>1, <1>2, <1>4 DEF ExportInv

\* A new job, and a client that waits for it: no other client waits for its number.
LEMMA StartedAnew ==
    ASSUME ExportInv, NEW e \in Exporters, NEW job \in Jobs, NEW c \in Clients,
           job.id = made + 1, job.pub = c.found, job.redacted = c.redacted,
           c.found \in c.asked..pub, c.job = made + 1, c.state = "waiting",
           client' = [client EXCEPT ![e] = c], made' = made + 1, pub' = pub,
           jobs' \in Seq(Jobs),
           \A i \in DOMAIN jobs' : jobs'[i] = job \/ \E j \in DOMAIN jobs : jobs'[i] = jobs[j]
    PROVE  ExportInv'
  <1>1. /\ pub \in Nat /\ made \in Nat /\ jobs \in Seq(Jobs) /\ client \in [Exporters -> Clients]
    BY DEF ExportInv, ExportsTyped
  <1>2. /\ c.asked \in Nat /\ c.found \in Nat /\ c.asked <= c.found /\ c.found <= pub
    BY <1>1 DEF Clients
  <1>3. \A j \in DOMAIN jobs : /\ jobs[j].id \in Nat /\ jobs[j].pub \in Nat
                               /\ jobs[j].id <= made /\ jobs[j].pub <= pub
    <2>1. \A j \in DOMAIN jobs : jobs[j] \in Jobs
      BY <1>1
    <2>2. \A j \in DOMAIN jobs : jobs[j].id \in Nat /\ jobs[j].pub \in Nat
      BY <2>1 DEF Jobs
    <2> QED  BY <2>2 DEF ExportInv, JobsNamed
  <1>4. ExportsTyped'
    BY <1>1 DEF ExportsTyped
  <1>5. JobsNamed'
    <2>1. \A i \in DOMAIN jobs' : jobs'[i].id <= made' /\ jobs'[i].pub <= pub'
      BY SMTT(30), <1>1, <1>2, <1>3
    <2>2. ASSUME NEW i \in DOMAIN jobs', NEW j \in DOMAIN jobs', jobs'[i].id = jobs'[j].id
          PROVE  jobs'[i].redacted = jobs'[j].redacted /\ jobs'[i].pub = jobs'[j].pub
      <3>1. CASE jobs'[i] = job
        <4>1. jobs'[j] = job
          BY <3>1, <2>2, <1>1, <1>3
        <4> QED  BY <3>1, <4>1
      <3>2. CASE jobs'[i] # job
        <4>1. PICK k \in DOMAIN jobs : jobs'[i] = jobs[k]
          BY <3>2
        <4>2. jobs'[j] # job
          BY <4>1, <2>2, <1>1, <1>3
        <4>3. PICK l \in DOMAIN jobs : jobs'[j] = jobs[l]
          BY <4>2
        <4> QED  BY <4>1, <4>3, <2>2 DEF ExportInv, JobsNamed
      <3> QED  BY <3>1, <3>2
    <2> QED  BY <2>1, <2>2 DEF JobsNamed
  <1>6. ASSUME NEW o \in Exporters, o # e, WaitsFor(client[o]) PROVE WaitsFor(client[o])'
    <2>1. client'[o] = client[o] /\ client[o].job \in Nat /\ client[o].job <= made
      BY <1>1, <1>6 DEF WaitsFor, Clients
    <2>2. ASSUME NEW i \in DOMAIN jobs', jobs'[i].id = client[o].job
          PROVE  jobs'[i].redacted = client[o].redacted /\ jobs'[i].pub >= client[o].asked
      <3>1. jobs'[i] # job
        BY <2>1, <2>2, <1>1
      <3>2. PICK k \in DOMAIN jobs : jobs'[i] = jobs[k]
        BY <3>1
      <3> QED  BY <3>2, <2>2, <1>6 DEF WaitsFor
    <2> QED  BY <2>1, <2>2, <1>1 DEF WaitsFor
  <1>7. WaitsFor(c)'
    <2>1. ASSUME NEW i \in DOMAIN jobs', jobs'[i].id = c.job
          PROVE  jobs'[i].redacted = c.redacted /\ jobs'[i].pub >= c.asked
      <3>1. jobs'[i] = job
        BY <2>1, <1>1, <1>3
      <3> QED  BY <3>1, <1>2
    <2> QED  BY <2>1, <1>1 DEF WaitsFor
  <1>8. ClientsServed'
    <2> SUFFICES ASSUME NEW o \in Exporters
                 PROVE  /\ client'[o].asked <= pub
                        /\ client'[o].found # 0 => client'[o].found \in client'[o].asked..pub
                        /\ client'[o].state \in {"waiting", "ready"} => WaitsFor(client[o])'
                        /\ client'[o].state = "saved" =>
                               /\ client'[o].file[1] = client'[o].redacted
                               /\ client'[o].file[2] \in client'[o].asked..pub
      BY DEF ClientsServed
    <2>1. CASE o = e
      <3>1. client'[o] = c
        BY <2>1, <1>1
      <3>2. WaitsFor(client[o])'
        BY <3>1, <1>7 DEF WaitsFor
      <3> QED  BY <3>1, <3>2, <1>1, <1>2
    <2>2. CASE o # e
      <3>1. client'[o] = client[o]
        BY <2>2, <1>1
      <3> QED  BY <3>1, <2>2, <1>6 DEF ExportInv, ClientsServed
    <2> QED  BY <2>1, <2>2
  <1> QED  BY <1>4, <1>5, <1>8 DEF ExportInv

LEMMA ExportInvInit == Init => ExportInv
  <1> SUFFICES ASSUME Init PROVE ExportInv
    OBVIOUS
  <1> USE DEF Init, ServerInit, ExportInit
  <1>1. Idle \in Clients
    BY DEF Idle, Clients, States, Files
  <1>2. ExportsTyped
    BY <1>1 DEF ExportsTyped
  <1>3. JobsNamed
    BY DEF JobsNamed
  <1>4. ClientsServed
    BY DEF ClientsServed, Idle
  <1> QED  BY <1>2, <1>3, <1>4 DEF ExportInv

LEMMA ExportInvPublish == ExportInv /\ PublishStep => ExportInv'
  <1> SUFFICES ASSUME ExportInv, PublishStep PROVE ExportInv'
    OBVIOUS
  <1>1. pub' = pub + 1 /\ UNCHANGED <<jobs, made, client>> /\ pub \in Nat
    BY DEF PublishStep, Publish, exportVars, ExportInv, ExportsTyped
  <1>2. ExportsTyped'
    BY <1>1 DEF ExportInv, ExportsTyped
  <1>3. JobsNamed'
    <2>1. \A i \in DOMAIN jobs : jobs[i] \in Jobs
      BY DEF ExportInv, ExportsTyped
    <2>2. \A i \in DOMAIN jobs : jobs[i].pub \in Nat
      BY <2>1 DEF Jobs
    <2> QED  BY <1>1, <2>2 DEF ExportInv, JobsNamed
  <1>4. ClientsServed'
    <2>1. \A e \in Exporters : client[e] \in Clients
      BY DEF ExportInv, ExportsTyped
    <2>2. ASSUME NEW e \in Exporters
          PROVE  /\ client[e].asked \in Nat /\ client[e].found \in Nat
                 /\ client[e].asked <= pub
                 /\ client[e].found # 0 => client[e].found \in client[e].asked..pub
                 /\ client[e].state \in {"waiting", "ready"} => WaitsFor(client[e])
                 /\ client[e].state = "saved" => client[e].file[1] = client[e].redacted
                                                  /\ client[e].file[2] \in client[e].asked..pub
      BY <2>1 DEF ExportInv, ClientsServed, Clients
    <2> QED  BY <1>1, <2>2 DEF ClientsServed, WaitsFor
  <1> QED  BY <1>2, <1>3, <1>4 DEF ExportInv

LEMMA ExportInvStep == ExportInv /\ ExportStep /\ UNCHANGED serverVars => ExportInv'
  <1> SUFFICES ASSUME ExportInv, ExportStep, UNCHANGED serverVars PROVE ExportInv'
    OBVIOUS
  <1>t. /\ pub \in Nat /\ pub' = pub
        /\ jobs \in Seq(Jobs) /\ made \in Nat
        /\ client \in [Exporters -> Clients]
    BY DEF ExportInv, ExportsTyped, serverVars
  <1>j. \A i \in DOMAIN jobs : jobs[i] \in Jobs
    BY <1>t
  <1>c. ASSUME NEW e \in Exporters
        PROVE  /\ client[e] \in Clients
               /\ client[e].asked <= pub
               /\ client[e].found # 0 => client[e].found \in client[e].asked..pub
               /\ client[e].state \in {"waiting", "ready"} => WaitsFor(client[e])
               /\ client[e].state = "saved" => client[e].file[1] = client[e].redacted
                                                /\ client[e].file[2] \in client[e].asked..pub
    BY <1>t DEF ExportInv, ClientsServed
  <1>1. ASSUME NEW e \in Exporters, Begin(e) PROVE ExportInv'
    <2>1. PICK redacted \in BOOLEAN :
              client' = [client EXCEPT ![e] = [Idle EXCEPT !.state = "starting", !.redacted = redacted,
                                                           !.asked = pub]]
      BY <1>1 DEF Begin
    <2> DEFINE c == [Idle EXCEPT !.state = "starting", !.redacted = redacted, !.asked = pub]
    <2>2. /\ c \in Clients /\ c.asked = pub /\ c.found = 0 /\ c.state = "starting"
      BY <1>t DEF Idle, Clients, States, Files
    <2>3. UNCHANGED <<pub, jobs, made>>
      BY <1>1, <1>t DEF Begin
    <2>4. c.asked <= pub /\ c.state \notin {"waiting", "ready", "saved"}
      BY <2>2, <1>t
    <2> HIDE DEF c
    <2>5. client' = [client EXCEPT ![e] = c]
      BY <2>1 DEF c
    <2> QED  BY <2>2, <2>3, <2>4, <2>5, OthersServed
  <1>2. ASSUME NEW e \in Exporters, Find(e) PROVE ExportInv'
    <2> DEFINE c == [client[e] EXCEPT !.found = pub]
    <2>1. client' = [client EXCEPT ![e] = c] /\ UNCHANGED <<pub, jobs, made>>
      BY <1>2, <1>t DEF Find
    <2>2. /\ c \in Clients /\ c.asked = client[e].asked /\ c.found = pub /\ c.state = "starting"
          /\ client[e].asked \in Nat /\ client[e].asked <= pub
      BY <1>2, <1>c, <1>t DEF Find, Clients, States
    <2>3. /\ c.asked <= pub /\ (c.found # 0 => c.found \in c.asked..pub)
          /\ c.state \notin {"waiting", "ready", "saved"}
      BY <2>2, <1>t
    <2> HIDE DEF c
    <2> QED  BY <2>1, <2>2, <2>3, OthersServed
  <1>3. ASSUME NEW e \in Exporters, StartExport(e) PROVE ExportInv'
    <2> DEFINE reusable == Reusable(e)
               last == CHOOSE i \in reusable : \A k \in reusable : k <= i
               job == [id |-> made + 1, redacted |-> client[e].redacted, pub |-> client[e].found,
                       result |-> "none"]
               all == Append(jobs, job)
    <2>f. /\ client[e].state = "starting" /\ client[e].found \in client[e].asked..pub
          /\ client[e].asked \in Nat /\ client[e].found \in Nat /\ client[e].redacted \in BOOLEAN
      BY <1>3, <1>c DEF StartExport, Clients
    <2>1. CASE reusable # {}
      <3> DEFINE c == [client[e] EXCEPT !.state = "waiting", !.job = jobs[last].id]
      <3>1. client' = [client EXCEPT ![e] = c] /\ UNCHANGED <<pub, jobs, made>>
        BY <1>3, <2>1, <1>t DEF StartExport
      <3>2. last \in reusable
        <4>1. reusable \in SUBSET (1..Len(jobs))
          BY <1>t DEF Reusable
        <4>2. \E i \in reusable : \A k \in reusable : k <= i
          <5>1. Len(jobs) \in Nat
            BY <1>t
          <5> HIDE DEF reusable
          <5> QED  BY <4>1, <5>1, <2>1, LastOfSome
        <4> HIDE DEF reusable
        <4> QED  BY <4>2
      <3>3. /\ last \in DOMAIN jobs /\ jobs[last].redacted = client[e].redacted
            /\ jobs[last].pub = client[e].found
        BY <3>2 DEF Reusable
      <3> HIDE DEF last, reusable
      <3>4. jobs[last].id \in Nat
        BY <3>3, <1>j DEF Jobs
      <3>5. /\ c \in Clients /\ c.state = "waiting" /\ c.job = jobs[last].id
            /\ c.asked = client[e].asked /\ c.found = client[e].found
            /\ c.redacted = client[e].redacted
        BY <3>4, <1>c DEF Clients, States
      <3> HIDE DEF c
      <3>6. WaitsFor(c)
        BY <3>3, <3>5, <2>f DEF WaitsFor, ExportInv, JobsNamed
      <3> QED  BY <3>1, <3>5, <3>6, <1>c, OthersServed
    <2>2. CASE reusable = {}
      <3> DEFINE c == [client[e] EXCEPT !.state = "waiting", !.job = job.id]
      <3>1. client' = [client EXCEPT ![e] = c] /\ made' = made + 1 /\ pub' = pub
        BY <1>3, <2>2, <1>t DEF StartExport
      <3>2. jobs' = all \/ jobs' = Tail(all)
        BY <1>3, <2>2 DEF StartExport
      <3>3. /\ job \in Jobs /\ job.id = made + 1 /\ job.pub = client[e].found
            /\ job.redacted = client[e].redacted
        BY <2>f, <1>t DEF Jobs
      <3>4. /\ c \in Clients /\ c.state = "waiting" /\ c.job = made + 1
            /\ c.asked = client[e].asked /\ c.found = client[e].found
            /\ c.redacted = client[e].redacted
        <4>1. job.id = made + 1 /\ job.id \in Nat
          BY <1>t
        <4> HIDE DEF job
        <4> QED  BY <4>1, <1>c DEF Clients, States
      <3>5. c.found \in c.asked..pub /\ job.pub = c.found /\ job.redacted = c.redacted
        BY <3>3, <3>4, <2>f
      <3> HIDE DEF job, c
      <3>6. /\ jobs' \in Seq(Jobs)
            /\ \A i \in DOMAIN jobs' : jobs'[i] = job \/ \E j \in DOMAIN jobs : jobs'[i] = jobs[j]
        <4>1. jobs \in Seq(Jobs) /\ job \in Jobs
          BY <3>3, <1>t
        <4>2. \A t : t = Append(jobs, job) \/ t = Tail(Append(jobs, job)) =>
                  /\ t \in Seq(Jobs)
                  /\ \A i \in DOMAIN t : t[i] = job \/ \E j \in DOMAIN jobs : t[i] = jobs[j]
          BY SMTT(30), <4>1, KeptJobs
        <4> QED  BY <4>2, <3>2
      <3> QED  BY <3>1, <3>3, <3>4, <3>5, <3>6, StartedAnew
    <2> QED  BY <2>1, <2>2
  <1>4. ASSUME NEW e \in Exporters, Progress(e) PROVE ExportInv'
    <2>1. PICK state \in {"ready", "failed", "waiting", "expired"} : Go(e, state)
      BY <1>4 DEF Progress
    <2> DEFINE c == [client[e] EXCEPT !.state = state]
    <2>2. client' = [client EXCEPT ![e] = c] /\ UNCHANGED <<pub, jobs, made>>
      BY <2>1, <1>4, <1>t DEF Go, Progress
    <2>3. /\ c \in Clients /\ c.state = state /\ client[e].state = "waiting"
          /\ c.asked = client[e].asked /\ c.found = client[e].found
          /\ c.job = client[e].job /\ c.redacted = client[e].redacted
      BY <1>4, <1>c DEF Progress, Clients, States
    <2>4. WaitsFor(c)
      BY <2>3, <1>c DEF WaitsFor
    <2> HIDE DEF c
    <2> QED  BY <2>2, <2>3, <2>4, <1>c, <1>t, OthersServed
  <1>5. ASSUME NEW e \in Exporters, Download(e) PROVE ExportInv'
    <2> DEFINE found == {i \in Of(client[e].job) : jobs[i].redacted = client[e].redacted}
               job == jobs[CHOOSE i \in found : TRUE]
               c == [client[e] EXCEPT !.state = IF found = {} THEN "expired" ELSE "saved",
                                      !.file = IF found = {} THEN <<>> ELSE <<job.redacted, job.pub>>]
    <2>1. client' = [client EXCEPT ![e] = c] /\ UNCHANGED <<pub, jobs, made>>
      BY <1>5, <1>t DEF Download
    <2>2. found # {} => job.redacted = client[e].redacted /\ job.pub \in client[e].asked..pub
                        /\ job.pub \in Nat
      <3> SUFFICES ASSUME found # {}
                   PROVE job.redacted = client[e].redacted /\ job.pub \in client[e].asked..pub
                         /\ job.pub \in Nat
        OBVIOUS
      <3>1. PICK i \in DOMAIN jobs : job = jobs[i] /\ jobs[i].id = client[e].job
                                     /\ jobs[i].redacted = client[e].redacted
        BY DEF Of
      <3>2. WaitsFor(client[e]) /\ client[e].asked \in Nat
        BY <1>5, <1>c DEF Download, Clients
      <3>3. jobs[i].pub \in Nat /\ jobs[i].pub <= pub
        BY <3>1, <1>j DEF ExportInv, JobsNamed, Jobs
      <3> HIDE DEF job
      <3> QED  BY <3>1, <3>2, <3>3, <1>t DEF WaitsFor
    <2>3. /\ c.asked = client[e].asked /\ c.found = client[e].found
          /\ c.redacted = client[e].redacted
          /\ c.state = IF found = {} THEN "expired" ELSE "saved"
          /\ c.file = IF found = {} THEN <<>> ELSE <<job.redacted, job.pub>>
      BY <1>c DEF Clients
    <2>4. c \in Clients
      <3> HIDE DEF job, found
      <3>1. client[e].redacted \in BOOLEAN
        BY <1>c DEF Clients
      <3>2. c.file \in Files
        BY <2>2, <2>3, <3>1 DEF Files
      <3>3. c.state \in States
        BY <2>3 DEF States
      <3>4. c = [client[e] EXCEPT !.state = c.state, !.file = c.file]
        BY <2>3
      <3> HIDE DEF c
      <3> QED  BY <3>2, <3>3, <3>4, <1>c DEF Clients
    <2>5. c.state = "saved" => c.file[1] = c.redacted /\ c.file[2] \in c.asked..pub
      BY SMTT(30), <2>2, <2>3
    <2>6. c.state \notin {"waiting", "ready"}
      BY <2>3
    <2> HIDE DEF c
    <2> QED  BY <2>1, <2>3, <2>4, <2>5, <2>6, <1>c, <1>t, OthersServed
  <1>6. ASSUME NEW e \in Exporters, GiveUp(e) PROVE ExportInv'
    <2> DEFINE c == [client[e] EXCEPT !.state = "failed"]
    <2>1. client' = [client EXCEPT ![e] = c] /\ UNCHANGED <<pub, jobs, made>>
      BY <1>6, <1>t DEF GiveUp, Go
    <2>2. /\ c \in Clients /\ c.asked = client[e].asked /\ c.found = client[e].found
          /\ c.state = "failed"
      BY <1>c DEF Clients, States
    <2> HIDE DEF c
    <2> QED  BY <2>1, <2>2, <1>c, <1>t, OthersServed
  <1>7. ASSUME NEW i \in DOMAIN jobs, Complete(i) PROVE ExportInv'
    <2>1. PICK result \in {"ok", "error"} : jobs' = [jobs EXCEPT ![i].result = result]
      BY <1>7 DEF Complete
    <2>2. UNCHANGED <<pub, made, client>>
      BY <1>7, <1>t DEF Complete
    <2>3. /\ DOMAIN jobs' = DOMAIN jobs
          /\ \A k \in DOMAIN jobs : /\ jobs'[k].id = jobs[k].id
                                    /\ jobs'[k].redacted = jobs[k].redacted
                                    /\ jobs'[k].pub = jobs[k].pub
      BY <2>1, <1>j DEF Jobs
    <2>4. jobs' \in Seq(Jobs)
      <3>1. [jobs[i] EXCEPT !.result = result] \in Jobs
        BY <1>j DEF Jobs
      <3> QED  BY <3>1, <2>1, <1>t
    <2>5. ExportsTyped'
      BY <2>2, <2>4 DEF ExportInv, ExportsTyped
    <2>6. JobsNamed'
      BY <2>2, <2>3 DEF ExportInv, JobsNamed
    <2>7. ClientsServed'
      BY <2>2, <2>3 DEF ExportInv, ClientsServed, WaitsFor
    <2> QED  BY <2>5, <2>6, <2>7 DEF ExportInv
  <1> QED  BY <1>1, <1>2, <1>3, <1>4, <1>5, <1>6, <1>7 DEF ExportStep

\* The page and what other pages ask for change nothing that exports depend on.
LEMMA PageKeepsPub == PageStep => UNCHANGED pub
  BY DEF PageStep, ChangeFilter, ChangePeriod, SwitchMode, Back, Turn, LoadMore, Select, Close,
         Retry, SearchTimer, Poll, Notified, Read, Answer, Lose, DetailAnswer, LoseDetail,
         OtherView, Act, Quiet, serverVars

LEMMA ExportInvNext == ExportInv /\ [Next]_vars => ExportInv'
  <1> SUFFICES ASSUME ExportInv, [Next]_vars PROVE ExportInv'
    OBVIOUS
  <1>1. CASE PublishStep
    BY <1>1, ExportInvPublish
  <1>2. CASE AboutPage
    <2>1. UNCHANGED <<pub, jobs, made, client>>
      BY <1>2, PageKeepsPub DEF AboutPage, exportVars
    <2> QED  BY <2>1 DEF ExportInv, ExportsTyped, JobsNamed, ClientsServed, WaitsFor
  <1>3. CASE AboutExports
    <2>1. ExportStep => UNCHANGED serverVars
      BY DEF ExportStep, Begin, Find, StartExport, Progress, Download, GiveUp, Complete
    <2> QED  BY <1>3, <2>1, ExportInvStep DEF AboutExports
  <1>4. CASE UNCHANGED vars
    BY <1>4 DEF vars, serverVars, exportVars, ExportInv, ExportsTyped, JobsNamed, ClientsServed, WaitsFor
  <1> QED  BY <1>1, <1>2, <1>3, <1>4 DEF Next

(***************************************************************************)
(* A file that somebody saved has what was asked for: start_export joins a *)
(* job only for the same publication and the same kind, and what a number  *)
(* means never changes, although jobs are dropped, fail and are shared.    *)
(***************************************************************************)
THEOREM ExportsWhole == Spec => []ExportWhole
  <1>1. ExportInv => ExportWhole
    BY DEF ExportInv, ClientsServed, ExportWhole
  <1> QED  BY <1>1, ExportInvInit, ExportInvNext, PTL DEF Spec
=============================================================================
