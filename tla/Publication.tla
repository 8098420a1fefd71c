----------------------------- MODULE Publication -----------------------------
(***************************************************************************)
(* What the index worker promises to everyone who reads State.current      *)
(* (crates/usage-server/src/service.rs, Published): a register holding one *)
(* whole publication at a time.  Every publication has the next revision,  *)
(* and a later publication never shows older content than an earlier one:  *)
(* a source that stays configured, and every remote device, only moves     *)
(* forward.  How the worker arrives at a publication is Worker's business. *)
(***************************************************************************)
EXTENDS Naturals

CONSTANTS Sources, Devices

VARIABLES
    rev,     \* revision of the current publication, 0 before the first
    srcs,    \* the log sources it covers
    local,   \* version of each source's logs it shows
    remote   \* version of each device's imported snapshot it shows

pubVars == <<rev, srcs, local, remote>>

\* Nothing is published before the first pass of the worker is over.
PubInit ==
    /\ rev = 0
    /\ srcs = {}
    /\ local = [s \in Sources |-> 0]
    /\ remote = [d \in Devices |-> 0]

\* A new publication replaces the current one as a whole.
Publish ==
    /\ rev' = rev + 1
    /\ srcs' \in SUBSET Sources
    /\ local' \in [Sources -> Nat]
    /\ \A s \in srcs \cap srcs' : local'[s] >= local[s]
    /\ remote' \in [Devices -> Nat]
    /\ \A d \in Devices : remote'[d] >= remote[d]

PubSpec == PubInit /\ [][Publish]_pubVars
===============================================================================
