------------------------------ MODULE Exports ------------------------------
(***************************************************************************)
(* Exports of what this device knows (start_export, export_progress and    *)
(* export_gzip of crates/usage-server/src/http.rs, ExportJob of            *)
(* snapshot.rs) and those who ask for one: dashboards in a browser         *)
(* (web/shared/snapshot-export.js) and the desktop application, which      *)
(* gives up after a while (desktop/src/native.rs). A job holds what one    *)
(* publication had; the service keeps the last few, finished or not, and   *)
(* gives the same job to everyone who asks for the same. Each exporter     *)
(* asks once; someone who asks again is another exporter.                  *)
(***************************************************************************)
EXTENDS Serving

CONSTANTS
    Dashboards, Desktops,
    JobLimit        \* jobs kept

ASSUME ExportAssumption == JobLimit \in Nat \ {0}

VARIABLES
    jobs,       \* State.exports: Seq([id, redacted, pub, result]), oldest first
    made,       \* jobs made
    client      \* what each exporter is doing

exportVars == <<jobs, made, client>>

Exporters == Dashboards \cup Desktops
Idle == [state |-> "idle", redacted |-> FALSE, asked |-> 0, found |-> 0, job |-> 0, file |-> <<>>]

ExportInit == jobs = <<>> /\ made = 0 /\ client = [e \in Exporters |-> Idle]

Of(id) == {i \in DOMAIN jobs : jobs[i].id = id}
Result(id) == jobs[CHOOSE i \in Of(id) : TRUE].result

Go(e, state) == client' = [client EXCEPT ![e].state = state]

\* Someone asks for an export, and the service reads the publication.
Begin(e) ==
    /\ client[e].state = "idle"
    /\ pub > 0
    /\ \E redacted \in BOOLEAN :
           client' = [client EXCEPT ![e] = [Idle EXCEPT !.state = "starting", !.redacted = redacted,
                                                       !.asked = pub]]
    /\ UNCHANGED <<serverVars, jobs, made>>

Find(e) ==
    /\ client[e].state = "starting"
    /\ client[e].found = 0
    /\ client' = [client EXCEPT ![e].found = pub]
    /\ UNCHANGED <<serverVars, jobs, made>>

\* Faulty: a job of an older publication will do.
ReusableWhenOld(e) ==
    {i \in DOMAIN jobs : /\ jobs[i].redacted = client[e].redacted
                         /\ jobs[i].result # "error"}

\* The job it waits for: one of the same publication that has not failed, the
\* latest first, or a new one, for which the oldest may have to go.
Reusable(e) ==
    {i \in DOMAIN jobs : /\ jobs[i].redacted = client[e].redacted
                         /\ jobs[i].pub = client[e].found
                         /\ jobs[i].result # "error"}

StartExport(e) ==
    /\ client[e].state = "starting"
    /\ client[e].found # 0
    /\ LET reusable == Reusable(e)
           job == [id |-> made + 1, redacted |-> client[e].redacted, pub |-> client[e].found,
                   result |-> "none"]
           all == Append(jobs, job)
           last == CHOOSE i \in reusable : \A k \in reusable : k <= i
       IN  IF reusable # {}
           THEN /\ client' = [client EXCEPT ![e] = [@ EXCEPT !.state = "waiting", !.job = jobs[last].id]]
                /\ UNCHANGED <<jobs, made>>
           ELSE /\ client' = [client EXCEPT ![e] = [@ EXCEPT !.state = "waiting", !.job = job.id]]
                /\ jobs' = IF Len(all) > JobLimit THEN Tail(all) ELSE all
                /\ made' = made + 1
    /\ UNCHANGED serverVars

\* The job's thread is done. That of a job which is not kept any more goes on
\* as well, and nobody learns of it.
Complete(i) ==
    /\ jobs[i].result = "none"
    /\ \E result \in {"ok", "error"} : jobs' = [jobs EXCEPT ![i].result = result]
    /\ UNCHANGED <<serverVars, made, client>>

\* Faulty: a job that is gone is waited for.
ProgressWaiting(e) ==
    /\ client[e].state = "waiting"
    /\ Go(e, IF Of(client[e].job) # {} /\ Result(client[e].job) = "ok" THEN "ready"
             ELSE IF Of(client[e].job) # {} /\ Result(client[e].job) = "error" THEN "failed"
             ELSE "waiting")
    /\ UNCHANGED <<serverVars, jobs, made>>

Progress(e) ==
    /\ client[e].state = "waiting"
    /\ Go(e, IF Of(client[e].job) = {} THEN "expired"
             ELSE CASE Result(client[e].job) = "ok"    -> "ready"
                    [] Result(client[e].job) = "error" -> "failed"
                    [] OTHER                           -> "waiting")
    /\ UNCHANGED <<serverVars, jobs, made>>

Download(e) ==
    /\ client[e].state = "ready"
    /\ LET found == {i \in Of(client[e].job) : jobs[i].redacted = client[e].redacted}
           job == jobs[CHOOSE i \in found : TRUE]
       IN  client' = [client EXCEPT ![e].state = IF found = {} THEN "expired" ELSE "saved",
                                    ![e].file = IF found = {} THEN <<>> ELSE <<job.redacted, job.pub>>]
    /\ UNCHANGED <<serverVars, jobs, made>>

GiveUp(e) ==
    /\ e \in Desktops
    /\ client[e].state = "waiting"
    /\ Go(e, "failed")
    /\ UNCHANGED <<serverVars, jobs, made>>

ExportStep ==
    \/ \E e \in Exporters : Begin(e) \/ Find(e) \/ StartExport(e) \/ Progress(e)
                               \/ Download(e) \/ GiveUp(e)
    \/ \E i \in DOMAIN jobs : Complete(i)
=============================================================================
