# Verification of Codex Usage Dashboard

TLA+ specifications of the dashboard's concurrent core, of its accounting and of the
page that shows it, TLC configurations that check them on small instances, and TLAPS
proofs of what should hold on every instance. Paths such as `service.rs:575` are relative to `src/crates/*/src` unless
they start with `web/`, `desktop/` or `docs/`.

    tlc -config MCWorkerCalls.cfg MCWorker        # a run
    tlapm WorkerProofs.tla                        # the proofs

1. [The system](#1-the-system)
2. [Modules](#2-modules)
3. [Runs](#3-runs)
4. [Fairness](#4-fairness)
5. [Proofs](#5-proofs)
6. [What the code gets wrong](#6-what-the-code-gets-wrong)
7. [What is not modelled](#7-what-is-not-modelled)
8. [Plan](#8-plan)

## 1. The system

Codex writes one append-only log per session. The dashboard is a local web service
that keeps an index of these logs, merges them with snapshots imported from other
devices, and publishes the result, one immutable publication at a time, to browser
windows and to a desktop application that starts the service and shows its pages.

| Component | State | Operations |
|---|---|---|
| Index worker and shared state (`service.rs`) | the channel of commands, `current` (the publication), `status`, the `events` watch, the `cancel` flag; in the worker the schedule, the watches, the pending replies | one thread, `run_worker`: passes, commands `Refresh Wake Reconfigure Sources Remote Stop`; `start`, `stop_worker`, `request_shutdown` |
| HTTP handlers (`http.rs`) | none of their own | `refresh`, `mutate`, `update_sources`, `save_settings`, `shutdown` send commands and wait for the answer; the others read a publication |
| Local index (`index.rs`, `inventory.rs`, `content.rs`) | entries per log (stamp, parse, markers, fingerprint), the snapshot, hints and the force flag, the audit's cursor, the SQLite database | `open`, `invalidate`, `force_refresh`, `refresh_sources` |
| Remote store (`remote.rs`) | files under `remotes/`, a cache, `dirty` | `import`, `rename`, `delete`, `refresh` |
| Process lifecycle (`usage-runtime/lib.rs`, `main.rs`, `service.rs` `save_sources`) | `startup.lock`, `service.lock`, `instance.json`, processes and their ids | `ensure_service`, `wait_ready`, `stop`, `terminate`, `register`, the owner watch |
| Preferences (`preferences.rs`) | `preferences.json` | `load`, `save_patch` |
| Views and exports (`service.rs`, `snapshot.rs`, `http.rs`) | a cache of eight views, three export jobs | `view`, `local_view`, `start_export`, `export_gzip` |
| Usage accounting (`usage.rs`, `normalize.rs`, `pricing.rs`, `speed.rs`) | none | deltas of cumulative counters, inherited prefixes, prices, speeds |
| Queries (`query.rs`, `view.rs`, `project.rs`) | none | filters, cursors, groupings |
| Parsing (`parser.rs`, `reader.rs`, `timestamp.rs`, `wire.rs`) | none | records to sessions |
| Desktop (`desktop/src/main.rs`, `native.rs`) | the service it launched, `busy`, `closing`, `desktop.lock` | `launch_service`, the monitor, `apply_sources`, quitting |
| Web client (`web/src`) | the listing, sequence numbers, request cache | loading, paging, events |
| Rest (`security.rs`, `redact.rs`, `picker.rs`, `fsinfo.rs`, installers, tools) | none | |

How they interact:

- Handlers send the worker a command over a bounded channel of 128 and wait for a
  one-shot reply, without a timeout. The worker takes all queued commands as one
  batch. Changes that need a pass are answered only after it.
- Everyone reads `current` under a lock and keeps an `Arc` of one publication.
  `status` and `events` announce revisions; windows fetch what they name.
- Codex, other programs and file systems change logs and remote snapshots at any
  time. A watcher sends `Wake` with `try_send`, so hints get lost when the channel
  is full, and network shares send none; polling makes up for both.
- Command lines and desktops find a service by `instance.json`, start it under
  `startup.lock`, and never have two at a time thanks to `service.lock`. The worker
  rewrites `instance.json` when the sources change.

What is hard: a pass fails halfway and the parts it did must not be lost; one
command of a batch undoes what another one relies on; a writer acts between two
reads of a pass; a rewritten log must not pass for a grown one; processes die with
locks, records and children of their own, and process ids come back.

What makes each component correct:

- Worker: an answered change is visible; nothing the index or the store took in
  stays unpublished; status and events never run ahead of, or stay behind, the
  publication; publications are whole, numbered one by one, and never go back; the
  saved selection is the one served; every call is answered; a shutdown ends the
  thread; readers converge on the disk.
- Index: no parse mixes two contents or starts inside a line; the snapshot is that
  of the parses; a revision names one content for ever; an explicit refresh is exact;
  without one, the background audit gets there.
- Lifecycle: the record is the registered service's; a caller gets what it asked
  for; a stopped service has let go; services of a dead desktop end; a caller who
  keeps asking is served whatever was left behind.
- Accounting: every request is counted once, priced for the model, tier and day it was
  made at, and timed without tools, over resets, copies, forks and resumed files; a
  resumed parse equals a fresh one; what is shown of parts adds up to the whole; another
  device shows what this one does.
- Views and exports: pages tile a list; a token names one view; an export is of one
  publication, as private as was asked, and ends.
- Client: what is listed is of one publication, never goes back, keeps its detail in
  step, and settles on what was asked for, whatever answers got lost or overtaken.

## 2. Modules

| Module | Models | Extends |
|---|---|---|
| `Publication` | what the worker promises: a register of whole publications (abstract) | |
| `Worker` | `service.rs` `run_worker`, the commanding handlers of `http.rs`, the operations of `remote.rs`'s `Store`; implements `Publication` | |
| `IndexRefresh` | `Index` and one pass of `refresh_sources` | |
| `Lifecycle` | `usage-runtime`, a service from start to exit, `save_sources`' record | |
| `Usage` | `usage.rs`: counters, resets, deltas of a list of events | |
| `Rollout` | `reader.rs`, `parser.rs`, `speed.rs`: a file to rows, resumable; the request timer | `Usage` |
| `Pricing` | `pricing.rs`: schedules by date, long requests, fast tiers | `Rollout` |
| `Accounting` | `normalize.rs`: files to sessions (merging, inheritance, tiers) | `Pricing` |
| `Pages` | the cursors and pages of `view.rs` | |
| `Views` | `query.rs`, `view.rs`: periods, summaries, breakdowns, filters, groups | `Accounting`, `Pages` |
| `Snapshots` | `remote.rs`: what importing, renaming and forgetting a device does to its data | `Views` |
| `Ledger` | Codex as the environment of all of the above | `Snapshots` |
| `Serving` | `State::view`, its cache, revisions and tokens, the listing handlers | `Pages` |
| `Browser` | the overview page: `App.svelte`, `http.ts` | `Serving` |
| `Exports` | export jobs (`http.rs`, `snapshot.rs`) and who asks for them | `Serving` |
| `Dashboard` | the page, the exporters and the service together | `Browser`, `Exports` |
| `WorkerProofs` | theorems about the worker | `Worker` |
| `IndexProofs`, `IndexContentProofs` | theorems about the index: types and revisions; contents and reuse | `IndexRefresh`, `IndexProofs` |
| `LifecycleProofs` | theorems about services, locks and records | `Lifecycle` |
| `DashboardProofs`, `ListingProofs` | theorems about exports; about listing, detail and pages | `Dashboard`, `DashboardProofs` |
| `AccountingProofs` | theorems about counters, sums and price schedules | `Accounting` |
| `LedgerProofs` | theorems about reading a file in parts, pages, and the division into groups | `Ledger`, `AccountingProofs` |
| `MCWorker`, `MCIndexRefresh`, `MCLifecycle`, `MCLedger`, `MCDashboard` | constants for TLC | |

**Worker.** `pc` is where `run_worker` is: *opening* the index, *scan* (due sources,
watches, inventory), *parse*, *merge* (store, publication), *announce*, *answer*,
*wait*, *command* (one action per command of the batch), *stopped*. The locals of the
loop are variables with the code's names. A source's logs are a version `disk[s]`,
the index the version it took in `seen[s]`, and a remote snapshot a version with a
presence flag, so that "shows everything on disk when asked" is an order on numbers.
Failing steps (`OpenFails`, `RefreshFails`, `StoreFails`, `RemoteFails`, `SourcesFail`)
are actions of their own, bounded by `MaxFaults`. Between *scan* and *parse* the disk
may change: what a pass takes in is the listing, as in the code. Handlers are clients
with one outstanding call. `acked` is a history variable: what an "ok" has promised.

**IndexRefresh.** The pass is cut at every read of a file: the listing, the validation
of cached entries (`Check`), and for each changed log the decision to append
(`Decide`), the parse (`Read`), the second stamp (`Confirm`), markers and fingerprint
(`Mark`), then `Normalize` and `Commit`. Writers act between any two of them, and between
any two blocks of a parse, without restriction. A log is a sequence of
numbered blocks, a block is where a read may end, and it may end inside a line
(`ends`). Fingerprints are the contents of the chunks, so equality stands for equality
of hashes. *rewrite* changes the stamp, with or without growth, *forge* keeps length and
stamp, as a write within the resolution of the clock does. `components` is the cache of
normalised sessions: `Normalize` changes it before the transaction, and a pass that fails,
while it normalises or commits, leaves it changed (`index.rs:790-844`). The database holds
what the last `Commit` wrote, and `Reopen` takes it up, with a flag for other prices. A
recycled inode behaves like a rewrite. The pass reads all sources; which are due is
`Worker`'s matter. History variables: `since`, what each log has held since the last explicit
refresh; in a parse, `torn` (it once went on inside a line) and `mixed` (below).

A parse is *mixed* if the log changed under it in a way that its stamps cannot tell: after
blocks were read (`index.rs:667`) and before the fingerprint was (`index.rs:696`), what was
read, or the range to be fingerprinted, became another one, and at the second stamp
(`index.rs:675`) the log either had the stamp that was listed or was the same file and larger,
which is what `index.rs:676-679` accepts. Examples are a rewrite with growth, before or after
that stamp, a forged block, a log cut short and grown back. A log that has only grown since
it was listed is never mixed. `Disturbs` says what counts as a change, `Indistinct` what the
stamp cannot tell. What the code does with a mixed parse is in the model like everything else, and
`index_race` shows it; the properties of `index_safe` and `index_live` leave out the logs
concerned, not the writes. `mixed` is computed from what writers did, not from what the index
does about it, so a code with weaker comparisons has no more exceptions.

**Lifecycle.** Processes are the values of `proc`, by process id; what a service is
asked to be (build, sources, time zone) is a *variant*. Every call is the sequence of
its accesses to the shared files: reading the record, asking for health, probing the
lock, spawning, reading and removing the record. A probe of a lock holds it for a
moment, in which others may find it busy (`MayBeBusy`). Waits that run out are steps
bounded by `MaxFaults`, together with crashes, failures and deaths of callers. Process
ids are reused by services and by other processes. Instance ids are random and only
compared, so they are numbered by age: 0 is the last service with a process id, and
those before it that anyone remembers follow. `orphan` is a history variable: a caller
died between spawning a service and seeing it ready.

**Usage, Rollout, Pricing, Accounting, Views, Snapshots.** The pure part of the
program, as operators that are composed in the order of the code: `ParseFile` folds the
lines of a file into its rows (counters, requests, tasks, tiers) and into what the next
parse needs; `NormalizeSessions` merges the files of a session, removes the history that
a fork or a sub-agent copied and turns cumulative counters into what each request
added; `PriceEvents` prices these; `View` and its queries divide them by day, model,
project and task; `ImportSnapshot` and `RemoteSessions` carry them to another device. A
line is a record with a kind, a time and the fields its kind uses, a name is a string
that is only compared, and money is counted in units per token, so that sums are exact.
Everything that iterates in the code is a function or a fold here, never a RECURSIVE
operator, so that proofs stay possible.

**Ledger.** The environment is Codex: it makes requests, repeats a count, goes back to a
checkpoint, goes on in another file, forks, spawns sub-agents with a copy of the history,
of the last turn or of nothing, with the old timestamps or rewritten ones, and switches
models and tiers, told by rollouts or only by its own log. `truth` records what really
happened, with usage, counter, model, tier, time and duration of every request, and none of it is
computed by the program's operators. `sessions` is what a refresh after each step
publishes. The n-th request uses half of what the one before it used, so that no two sets
of requests have the same sum: a request left out or counted twice cannot be hidden by
another.

**Serving, Browser, Exports, Dashboard.** A publication is a number, and `Rows(p, q)` is
what it has for a query. The service keeps the last views it built under the key
publication and period; their revision hashes the bounds of the period too, so a period
that ends now has another revision whenever its view is built again. A listing request
first reads the publication (`Read`) and is answered later (`Answer`), when another one
may be current and the view it named may be gone: *stale*, *unchanged*, *loading* and
*invalid* are the answers of the code. `page` is the state of `App.svelte` with the code's
flags (`loading`, `more`, `typing`, `stuck`, `failed`), `asked` its one listing request and
`detail` its detail requests: the sequence numbers and abort controllers of the code
make the answer to a superseded request equal to none, so a new request replaces the old
one. Jobs are kept by `Exports` in order; each exporter, a window or a
desktop (which gives up after a while), asks once. The page and the exporters share
nothing but the publication, which neither changes, so a behaviour of `Dashboard` is
about one of them (`about`); this loses no interleaving that matters.

The `map` of `PROJECT.json` names the lines of every definition. The models also have
definitions commented as *Faulty*: what the definition after it would be if the code
forgot a guard, an order or a reset. They are not used by the specifications; each
is the change that makes one property of a run fail.

## 3. Runs

| Run | Instance | Shows |
|---|---|---|
| `worker_calls` | 2 sources (1 network), 2 selections, 1 device, 2 callers, 3 calls, 1 log change | `AckedVisible`, `NothingUnpublished`, `IndexKeeps` with refreshes, imports, renames, deletes and selections in one batch |
| `worker_faults` | 2 sources, 2 selections, 1 device, 1 change of a log or of a snapshot by others, 1 failing step, a shutdown | `TypeOK`, `AckedVisible`, `StatusNeverAhead`, `EventKeepsUp`, `RecordDescribesService`, and that `Worker` implements `Publication` |
| `worker_live` | 1 network source, a channel of 1, 1 failing step, a shutdown | `Answered`, `Terminates`, `Converges` |
| `index_safe` | 1 log of 3 to 5 blocks, 2 edits of all kinds, 1 refresh or hint, 1 crash or failure | `TypeOK`, `FingerprintsTell`, `LinesWhole`, `SnapshotShowsParsed`, `RevisionsName`, `ForceExact` |
| `index_live` | 1 log of 2 chunks, 2 edits, 1 failure, no hints | `Converges` |
| `lifecycle` | a desktop and a command line that want different variants, 2 process ids, 1 fault | `TypeOK`, `RecordHolder`, `EnsureExact`, `StopReleases`, `OwnedEnd`, `Served` |
| `ledger` | up to 4 requests of 2 sessions in up to 3 files; a switch, repetition or resumption takes the place of one of them | `CountedOnce`, `CostAsSpent`, `SpeedAsMeasured`, `ResumedAsFresh`, `ComponentsSuffice`, `RemoteAsLocal`, `SlicesAddUp`, `GroupsAddUp`, `PagesTile` |
| `dashboard` | 2 publications, 2 periods of which one is over, 2 kept views, 2 acts of the user, 1 lost request; 3 exporters, 2 kept jobs | `ShownWhole`, `DetailMatches`, `ExportWhole`, `NeverBack`, `Settles`, `ExportsEnd` |
| `refresh_lost`, `fault_lost`, `unlisted`, `index_race` | the smallest instance | disagreements of section 6 |

The bounds, and why they are enough:

- Two sources suffice for everything that distinguishes due from not due and local
  from network; a second selection, for every switch that keeps one source and drops
  another. One device suffices as the store treats devices independently. Three calls
  by two callers put any two commands into one batch with a third one before or after.
  A channel of two can be full; `worker_live` uses one, so that hints are lost.
- `MaxEdits` and `MaxCalls` bound the environment, not the worker: after the last
  edit a run goes on until everything is at rest, and then through polls for ever.
- The sizes of `IndexRefresh` keep the orders that matter: a marker is shorter than a
  chunk, a log ends inside a chunk, and logs of 3 to 5 blocks cross the boundary. Two
  edits are needed for every hazard of a pass (one before and one during it, or two
  during it). Without the exception for mixed parses the same instance refutes
  `FingerprintsTell`, `LinesWhole` and `SnapshotShowsParsed`, the last with a failed commit and a
  retry that finds the failed pass's component in the cache, so the bounds reach these cases.
  `FingerprintsTell` says that what is compared is enough: a log that has the chunks of its
  entry begins with what was parsed.
- Two process ids let a service start while the one before it still drains, and both
  be reused. One fault is enough for a dead service, a dead caller (an orphan), a slow
  answer or a late stop.
- Three requests are the fewest with which a counter goes back to a checkpoint in a main
  session, and four in a child, which has to make two of its own before it goes back
  behind the second (`again`, `normalize.rs:628`); runs of four have no switch, repetition or
  resumption (`Room`). Three files hold a session, a resumption of it and a
  child. The three different `Shapes` of a request are what the timer distinguishes: an answer,
  an item and a tool with a task that reports its own duration, and a usage record beside
  the count. The prices of `MCLedger` have a model that gets dearer at time 16, a fast
  tier, a surcharge for long requests and a model with no fast price; days of 24
  units end inside a run.
- Two publications let every answer be of the one before; a cache of two views and two
  views of other pages push out a view that the page still names. A page size of 1 and a
  maximum of 2 against lists of 0 to 4 rows make every listing several requests. Two
  acts and a loss put any act before, into and after a load that fails. `EarlyLimit` = 1
  bounds polls that restart a detail (section 6). Three exporters and two jobs drop a job
  that is waited for.

No run checks deadlock: the worker may stop, and the calls, edits, requests and acts
of the bounded environments run out.

## 4. Fairness

- `Worker`: weak fairness of the worker's own steps, one thread that is never blocked
  for good while a step is enabled. Strong fairness of `PollDue(s)`: `due_at` is an
  absolute time and the worker waits at most two seconds at a time, so a source becomes
  due however often commands interrupt the wait. Nothing is assumed of callers, writers
  and watchers: `Converges` holds with every hint dropped. It does assume the file
  system answers: a read of a stalled share that never returns stops the worker, and
  `Terminates` speaks of a worker between such reads (`stop_worker` gives up on it
  otherwise, and the process exits).
- `IndexRefresh`: weak fairness of the steps of a pass, as the worker keeps calling
  it. Strong fairness of `Check(TRUE)`, an audit that finds its turn, because the
  cursor goes round robin through the chunks, and of `ListFresh`, because cached
  stamps expire.
- `Lifecycle`: weak fairness of what a call does once made, of a service's main
  thread and of its worker. `Served` also assumes `Asks`: somebody keeps asking. A
  process that neither answers nor dies is not assumed away in the safety runs.
- `Dashboard`: weak fairness of the page's timers and listing request together (only one
  of them is due at a time: the interval of 15 s, the search timer, a request that the
  service answers), of the service answering a detail, and of the threads and loops of
  exports. The user, the index and the event stream owe nothing: `Settles` holds
  when every event is missed, by polling alone.
- `Ledger` has safety properties only.

## 5. Proofs

Every safety invariant and action property that a passing run checks is a theorem, for
all constants that satisfy the modules' assumptions, but seven of the nine of `Ledger`.

**WorkerProofs**

- `TypeCorrect`: `Spec => []TypeOK`. `TypeOK` is inductive; the proof goes by the
  groups of actions (the pass, the wait, the commands, callers and others).
- `RevisionsPublished`: `Spec => []StatusNeverAhead`. The strengthening is
  `publication = current.rev` (`RevisionInv`): the counter of the worker is that of the
  publication between any two steps.
- `EventsKeepUp`: `Spec => []EventKeepsUp`. `EventInv` says that event and status
  are equal at all times until a shutdown is announced, and that a "ready" status lags
  behind the publications only in the pass that is about to announce one, which will
  notify: without the second part, `update_status` could suppress an event that is
  needed.
- `RecordCorrect`: `Spec => []RecordDescribesService`, which is inductive with
  `TypeOK`.
- `PublicationRefined`: `Spec => PublishesForward`. `ContentInv` orders the stages a
  change goes through: what is published is not newer than what the index holds, that
  not newer than the listing of the pass, that not newer than the disk; and a published
  snapshot is not newer than the stored one. A step that publishes can then only move
  forward (`ContentStep`, `StampsStep`), and `PublishStep` shows that every step is a
  `Publish` or leaves the register alone.
- `IndexNeverBack`: `IndexKeeps`, if no step fails. `IndexInv`: once a selection was listed,
  the index is not ahead of the listing.
- `PublishedAtRest`: `Spec => []NothingUnpublished`, under `Calm`. `IndexInv` says where a
  change of the logs can be that readers do not see: before the listing, or in a pass that
  will merge it. `StoreInv` says the same of snapshots: the cache knows what readers see, or
  nothing; a removal that readers do not see yet is marked `dirty`, and no command of its
  batch will clear the mark.
- `OkIsVisible`: `Spec => []AckedVisible`, under `Calm` or if nobody asks for a refresh.
  A promise is a floor under versions, and `Kept` says that it is kept and that the next
  publication will keep it as well: the disk, the index and the readers are at or above it.
  `PromiseInv`: every promise given is kept, every pending one is of something written, and
  those that the pass in hand will answer are kept before they are answered. Pending
  ones are `OnTheWay`: everything will be read again, or was listed, or is in the index.

`Calm` is: no failing steps, nobody else removes snapshots, no refresh is queued together
with a delete. Each part is needed; the runs `fault_lost` and `refresh_lost` are what happens
without the first and the last, section 6 tells the second. The alternative, no refreshes, allows
all failures, edits and shutdowns: imports, renames and deletes are kept through them because
their mark is cleared by nothing else.

**The index**

- `IndexTypeCorrect`: `Spec => []TypeOK`, from `TypeInv`, which also says at which stage of a
  pass which of its locals describe which logs.
- `RevisionsCommitted`: `Spec => RevisionsName`. `RevisionInv`: the snapshot in memory is the
  committed one or has revision 0, and what a pass is about to commit is the committed one
  or has a higher revision. This is what the code gains by counting on from the database
  instead of from memory (`index.rs:855`).
- The other four need no assumption about writers. `CleanInv`: every entry, component and
  snapshot that is not mixed is clean. `CleanEntry`: the entry has the fingerprint of just
  what was parsed, of the length that was listed, the parse never went on inside a line, and
  markers that call it safe to append to mean that it ends a line. `Taken`, while a log is
  parsed and nothing has disturbed it: what was read so far is what the log holds there, after
  what an earlier parse had. `MarkedClean` is the step that matters: a fingerprint that keeps
  the old chunks unread is that of the whole, as the last old chunk was compared (`GrownWhole`).
- `LinesStayWhole` (`LinesWhole`) follows at once. `ComparisonsTell` (`FingerprintsTell`):
  a fingerprint tells contents of one length apart (`FingerprintOfOne`), so a log that matches
  an entry begins with its parse.
- `SnapshotCorrect` (`SnapshotShowsParsed`): `Normalize` reuses a component if stamp and
  digest are the same, without looking at the parse, also one of a pass that failed.
  `FollowInv`: the snapshot has a component for every entry, with its stamp and digest. Both are
  clean, so their parses have one fingerprint and one length, and are one (`CleanShown`).
- `RefreshExact` (`ForceExact`). `ForceInv`: while a refresh is asked for, no pass finds the
  evidence unchanged and none continues a parse, and every entry of the pass has a
  fingerprint that the log had at some time since (`Validates`). What is shown has that
  fingerprint too, whichever pass normalised it (`ForceCommit`).

**LifecycleProofs**: `LifecycleTypes`, `CallersGetTheirs`, `RecordKept` and `StopsRelease` state
`TypeOK`, `EnsureExact`, `RecordHolder` and `StopReleases`, for a finite set of clients. The
invariant is `TypeInv /\ Kept`, where `Kept` has four parts: `LockInv` (`service.lock` is held
exactly by the service whose stage says so), `RecordInv` (a record that names a living
service was written by it and is what it saved last), `CallInv` (what a call remembers of
a service still holds when it acts on it) and `OrphanInv` (unless a caller died, somebody who
holds `startup.lock` waits for every service that has not recorded itself, so that nobody else
writes or removes the record meanwhile).

**The page**

- `ExportsWhole`: `Spec => []ExportWhole`, for any number of exporters, publications and
  kept jobs. `ExportInv` has three parts: the types (`ExportsTyped`); a number names one job,
  of a publication that exists, and no number above `made` is in use (`JobsNamed`); whoever
  waits for a number waits for a job of its own kind and of a publication not older than its
  question (`ClientsServed`). The second part is what makes dropping a job safe: the number of
  a dropped job never comes back as that of someone else's. `StartedAnew` is the one step
  where it matters.
- `ListedWhole`, `DetailOfListing`, `OnlyForward` state `ShownWhole`, `DetailMatches` and
  `NeverBack`, from `ListingInv`. `ServerInv`: a kept view has the revision of its publication
  and period. `PageInv`: the listing is a gapless part of one view with the cursors that go on
  from it (`Whole`); the request in flight goes on from what is listed, or anew (`Asks`), and if
  it has read the publication, what it found is not older than what is listed; the detail
  is of the selected session and of the listing, or it is asked for, or the listed revision is
  no longer kept and a load is on its way that will bring another (`Follows`).
- `PagesTurn`, `AnchorHoldsRow`: pages of any list tile it in both directions, and an anchored
  cursor is accepted and finds the old row. `LastMultiple` and `Multiples` are the arithmetic.

**AccountingProofs**

- `GrowthIsCharged`, `ChargedWithinCounter`, for counters of any size and rows in any order: two
  counts of a growing counter differ by what is charged, and no event is charged a
  negative amount or more than its own counter.
- `PriceDatesHold`, for any ordered schedules: the dates shown with a price enclose the time of
  the request, and the price is in force at all times between. `InForceLast` says which
  schedule is picked; `LaterFrom` orders schedules that are not neighbours, by the least
  counterexample. `LongPricesKeepUp`: the same for the prices of long requests, which are picked
  by the date of the schedule in force, if they change only at such dates. The bundled
  `prices-v1.json` does.
- `GrowthIsCounted`: if a counter only grows, what `event_deltas` charged up to any count, and what
  the log began with, make up the counter. `ChildCountsItsOwn`: the same for a child and what it
  inherited. Both are about the sequences that the program folds over, of any length.
- `NormalizedStays`: taking the differences of totals that cumulate some charges gives
  these charges, so that sessions can be exported, narrowed and priced again.
- `CostOfTheSum`: at one price the sum of the costs is the cost of the sum. The hypothesis, that
  no request reads more from the cache than it reads, is what `max(0)` in `cost_for` needs:
  without it a request's negative remainder would be cut off, and the sum's would not.

- `OneSessionEach`: merging and normalising gives one session for each identity, with a uid and
  details of one of its files, and every row of it has counters that are numbers. `Whole` and
  `Same` say what each step keeps: sorting, merging and repricing rows (`MergedRowsAre`,
  `MergedIsWhole`), a main session (`MainIsWhole`) and a child (`InheritanceIs`, `ChildIsWhole`).

These are inductions. The theorems of the library that take a predicate cannot be used, but the
least counterexample of a concrete statement can be taken (`Least`, `Induct`), a
recursive function exists because the one with one more row does (`...FoldNext`), and a
fold is unrolled from its definition (`...FoldStep`).

**LedgerProofs**

- `ReadOnIsReadWhole`: a file may be read in two parts, cut at any byte. A saved parse was
  completed (`Completed` fills in id, root and times) and the one that reads
  on was not. `Alike` says that two parses differ in that only: nothing the parser does looks
  at what was filled in, but `Meta`, which sets an id and a root that are not known yet, and
  `Consume` keeps them alike (`ConsumeIsAlike`). Completing both makes them equal, as every model
  in use was noted (`Regular`). The hypothesis is that no line without an id names the
  file itself as its root (`Rooted`): an agent's whole parse would then take the file for its own
  parent, and a parse that went on would not.
- `ReadingGoesOn`: `Spec => []ResumedAsFresh`. `Written` (checked by TLC before it was
  proved) says that every file begins with a line, that the lines are well formed and `Rooted`,
  with times and counters that are numbers, that every session writes a file that exists, and
  that what is published is what these files give.
- `WalkTiles`, `AnyListTiles`, `PagesAlwaysTile`: `Spec => []PagesTile`. A page is the sheet of the
  list at its offset (`Sheet`, `FoundAt`), the sheets are the walk along the next cursors
  (`WalkIs`) and tile the list (`SheetsTile`). That a list of a publication is a sequence, and that
  each session is in a view once, so that its events are found by its uid, needs the way
  from the lines to the sessions: a parse keeps counted rows (`Tallied`, `ConsumeIsTallied`), files
  give one session each (`OneSessionEach`), and what is published has different uids and its
  details (`Published`, `PublishIs`, `ViewShows`).
- `GroupsDivide`, `AgentsDivide`, for any view, filter and order: projects use together what the
  selected sessions use, so do the tasks of a project what those of the project use, and so do
  main sessions and sub-agents. The items of each key are parts without common items (`FirstsHaveEachKey`,
  `PartsUse`), a list of some items uses what they use (`ListUses`), and sorting only
  permutes (`SortedLists`). The hypothesis is `Measured`: counters are numbers, and so is what the
  list is sorted by.
- `UsageIsDivided`: `Spec => []DividedByUsage`, the same of everything that is published, all
  time, in order of tokens, where `Measured` is a consequence of `Written`. It is the part of
  `GroupsAddUp` that is about usage. What `GroupsAddUp` says beyond it, about lists in order of
  cost or last use and about which sessions a task gathers, is model-checked.

`Ledger` states what these proofs need of its constants: no session has the name `NoId`
(`NamesAssumption`), every request writes a list of lines that counts tokens (`ShapesAssumption`),
and amounts are counters (`AmountsAssumption`).

All proofs are checked by `tlapm` to the last leaf with no further assumption. Only
model-checked:

- liveness (`Answered`, `Terminates`, `Converges`, `OwnedEnd`, `Served`, `Settles`, `ExportsEnd`),
  which is out of the prover's reach;
- the other seven invariants of `Ledger`. They compare what the whole pipeline makes of the lines,
  down to sums over days, models and projects, with what was spent. Its types are proved
  (`Tallied`, `Whole`, `Published`), and so is what some of its steps add up to (`GrowthIsCounted`,
  `ChildCountsItsOwn`, `NormalizedStays`, `CostOfTheSum`, `UsageIsDivided`); what is missing is their composition
  over copies, checkpoints and forks. Sums by day and model also select with `SelectSeq` and
  override with `@@`, which the prover treats as unknown;
- what the violation runs refute: `AckedVisible` with refreshes where `Calm` does not hold,
  `IndexKeeps` with failing steps, and `ForceShowsAll`, which is `ForceExact` without the
  exception for mixed parses (section 6).

## 6. What the code gets wrong

Each of these has a run that ends in a counterexample; `PROJECT.json` quotes the text it
contradicts.

- `refresh_lost` (`service.rs:611`): `Refresh` replaces the store and with it the
  `dirty` flag a delete of the same batch has set; both are answered, and the deleted
  device stays published.
- `fault_lost` (`service.rs:579`): the store fails in the pass in which the index took
  in a change; the change is in the database and in no publication until another
  change comes.
- `unlisted` (`index.rs:607`): after a first listing that failed, the next pass, for
  the local sources alone, takes the files of the others for removed.
- `index_race` (`index.rs:676`): a log rewritten in place and grown between its parse
  (`index.rs:667`) and its fingerprint (`index.rs:696`), on either side of the stamp in
  between, keeps the old parse under the new fingerprint; the next pass appends to it, and no
  refresh notices.

`AckedVisible` and `NothingUnpublished` are therefore checked without the combination
of delete and refresh (`Apart`), `AckedVisible` of `worker_faults` without refreshes, and
what `index_safe`, `index_live` and the theorems say of a log excepts mixed parses
(section 2).

These limits showed while the models were written. They have no run of their own; the
models keep them out, or the properties allow for them, as said:

- The cache of normalised sessions keeps what a failed pass put there (`index.rs:822`). If
  that pass had parsed a log that changed under it, and a retry parses the log as it is now
  under the same stamp and digest, the retry finds the failed pass's sessions by their
  signature and shows the old usage. `SnapshotShowsParsed` excepts it with the mixed parses;
  `SnapshotCorrect` shows that nothing else gets in that way.
- A child that goes back to a checkpoint is charged the checkpoint again:
  `normalize_child` takes plain differences (`normalize.rs:628`), where a main session
  goes through `event_deltas`, which recognises a restored checkpoint. `again` in
  `Ledger` is that amount, and `CountedOnce` and `CostAsSpent` allow for it. For main
  sessions, a checkpoint whose next request exceeds what was taken back cannot be told
  from growth; `Request` leaves that case out.
- A change of the period whose request is lost leaves the listing of the old period
  under the new heading until a poll (`App.svelte:160`); turning the page then shows more
  of the old one. `ShownWhole` therefore speaks of the period of the revision that is shown.
- A period that is over has fixed bounds, so its view has the same revision when it is built
  again, and a detail that was read from an older view is kept. `DetailMatches` leaves such
  periods out (`Past`, `SameWhenRebuilt`); the run has one.
- A snapshot that somebody else removes from `remotes/` after a pass stays published if
  somebody asks for a refresh before the next one: the new store has an empty cache and no
  mark, so it sees nothing that is gone (`service.rs:611`, as in `refresh_lost`). The runs
  have no such removals together with refreshes, and `Calm` excludes them.
- A request at a time of the one schedule without a date gets the newest prices for long
  requests, not the oldest (`pricing.rs:315`). No model with such prices is in that schedule of
  the bundled data; `LongPricesKeepUp` leaves the case out.
- Every poll restarts a detail that has not come, so one that takes longer than 15 s never
  comes (`EarlyLimit`).
- Imported rows are known by the session's id alone, so two environments of one device with
  the same session id collapse into one row, and an older export that is imported after a newer
  one puts the older rows back (`Ledger` imports in order, from one environment).
- The tasks of a child include those of its parent that were copied after the last inherited
  count with their timestamps kept.

## 7. What is not modelled

- `--once` and `--export-snapshot`: one process with an index of its own.
- In `Worker` and `Lifecycle`, the contents of logs and snapshots, which `Ledger` has; in
  `IndexRefresh`, sessions that depend on each other (`ComponentsSuffice` shows that
  treating each component alone is right), the directory cache, compressed logs, schema
  versions (they wipe the database) and how evidence is read from SQLite. The transaction
  is assumed atomic.
- In the accounting: texts (prompts, previews, titles), message counts, rate limits, the
  rounding of money, overflow errors of 64-bit counters, time zones, the wire form of old
  exports, the resolution of projects from folders, the order and length of
  breakdown lists.
- In the lists: rows of old exports without detail, which are sorted by the last use they were
  exported with (`view.rs:534`); the order of projects by label (`view.rs:929`; `Views` takes the
  title of their first session) and the fallbacks of `project_key` (`view.rs:1162`); turning
  pages of events by `event_anchor` (`view.rs:1099`), which finds the row that `AnchorCursor`
  finds. In the run every session is in one project, so sums over several projects are proved
  (`GroupsDivide`), not checked; amounts have fixed proportions, so the clamping of single
  fields of a counter is not checked either.
- In the client: the calendar, the task lists inside a project, settings, sorting,
  and components that only draw. In the exports: JSON, compression, file names.
- Preferences validated and patched by several processes; the desktop's own state (`busy`,
  `closing`, windows, tray, updates).
- Wording, formats, logging, ports, browsers, installers, redaction and request protection.
- `Lifecycle` counts a read of the record and the post of the shutdown as one step (the
  token makes a post to another instance fail), and a desktop's memory of the service
  it launched is the owner named to that service, so a desktop does not stop a dead one.

## 8. Plan

Done, in order: `Publication`, `Worker`, `WorkerProofs`, `IndexRefresh`,
`IndexProofs`, `Lifecycle`; `Usage` to `Ledger`; `Serving` to `Dashboard`;
`DashboardProofs`, `AccountingProofs`; the other proofs of the index, `LifecycleProofs`,
`ListingProofs`, and what the worker promises; inductions over rows and lines in
`AccountingProofs` and `LedgerProofs`. To do:

1. That what `Observe` times lies within the request.
2. `LifecycleProofs`: what a desktop's `OwnedEnd` rests on, as an invariant.
3. `Desktop` (`main.rs`, `native.rs`) over `Lifecycle`: `busy`, `closing`, ownership
   across relaunches.
4. `Preferences`: patches of several processes.
