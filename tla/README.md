# Frontpage: TLA+ models, checks and proofs

Frontpage is a personal site with three systems behind it: an **owner
workspace** that edits content and publishes it to GitHub, a **metrics daemon**
on a VPS that samples the host, checks services and keeps incidents, and a
**transport** that carries what they publish to a Cloudflare Durable Object from
which public and owner pages read. This directory holds TLA+ models of the
parts of these systems that keep state, the TLC configurations that check
them, and TLAPS proofs about them. `PROJECT.json` maps each definition to the
source lines it stands for.

```
tlc -workers 2 -config MCPublication.cfg MCPublication     # any MC*.cfg
tlapm PublicationProofs.tla                                # any *Proofs.tla
```

## 1. Inventory

### Owner workspace (TypeScript; one Durable Object, or a file store)

| Part | State | Operations | Module |
|---|---|---|---|
| Drafts and owner state (`src/lib/content/drafts.ts`) | a draft per kind (`personal`, `projects`) with a random revision and the version it was saved on; the publication receipt | save, discard by revision, clear after publication, save and compare a receipt, derive what the panel shows | `Publication`; over files and a lock, `OwnerState` |
| Publication journal (`publication-intents.ts`) | up to 64 intents, 16 of them unfinished, with phases `prepared`, `ref-pending`, `committed`, `complete`, `failed` | find, create (admission, pruning), compare-and-swap update (with expiry of old preparations), oldest pending intent | `Publication` |
| Publication (`publication.ts`, `src/app/api/data/publish/route.ts`) | one request's local variables between awaits | read head, check base, join or create an intent, create commit, move `main`, verify, finish | `Publication` |
| GitHub (`src/lib/github.ts`) | branch `main`, commit objects | `getHead`, `createCommit`, `updateHead` (fast-forward only), `getCommitIdentity`, `isAncestor` | `Publication` |
| Backup and restore (`owner-state-backup.ts`, `owner-maintenance.ts`, `ops/frontpage-owner-state.mjs`) | a backup file, a restore window, a directory being filled | export, restore of the table behind the window, check of the outcome, restore into a fresh directory | `OwnerRestore` |
| Editors (`ProjectEditor.tsx`, `PersonalEditor.tsx`) and draft routes | per browser tab: text, revision, the page's props, one request | type, save, archive, discard, refresh, answers in any order | `Workspace` |
| Unsaved-changes guard (`useUnsavedChanges.ts`) | session history, a guard, traversals under way | links, back and forward, prompt, restoration | `Navigation` |
| Catalogue (`schema.ts`, `src/lib/content/index.ts`, project page) | projects with slug, aliases and services | rename, new project, publication, build, resolution of an address | `Catalogue` |
| Deployment (`.github/workflows/ci.yml`, `scripts/verify-*.mjs`) | the version that runs | CI deploys `main` and verifies it; an operator may redeploy an older version | `Publication`, `Release` |
| Authentication, request parsing | none | | not modelled (section 8) |

*How they interact.* All writes of a Durable Object go through one object that
runs one piece of synchronous code at a time; every `await` is a call to GitHub,
at which other requests run. Draft, receipt and journal writes are separate: the
process may die between any two. *What makes it right*: a review is published
once, over the version it was made on; what is recorded about GitHub is true;
nothing the owner wrote is lost or replaced unseen, in a tab, in the store or by
a restore; an interrupted publication can be finished; addresses stay valid.

### Metrics daemon (Python, `ops/frontpage_metrics_v2/`)

| Part | State | Operations | Module |
|---|---|---|---|
| Threads (`daemon.py`) | a bounded queue, a stop event, a back-pressure event, a list for the producer's fault | a producer thread samples at every 15-second slot; the main thread completes, commits and publishes each cycle | `Pipeline` |
| Service checks (`sources/services.py`) | the last batch, up to eight worker threads | start a batch unless one is running, check, collect | `Pipeline` |
| Incident engine (`incidents.py`) | counters, a history window, active incidents in memory | evaluate an observation; the daemon applies the outcome after the commit | `Incidents` |
| Store (`store.py`, `migrations.py`) | SQLite: points, rollups, capabilities, incidents | commit of a cycle in one transaction, pruning, reading back at start | `Incidents` |
| Projections and publisher (`projections.py`, `publisher.py`) | some dozens of JSON files | build from one snapshot, replace each atomically, never rewrite a chunk of a past day | `Projections` |
| v1 collector (`ops/frontpage-metrics-collector.py`) | a pair of files | replace the pair every minute, one file after the other | `SampleFeed` |
| Sampling (`collector.py`, other `sources/*.py`) | previous counters | read `/proc` and cgroups: pure input | |

*What makes it right*: one cycle per slot with its own readings; a queue that
never overflows; an orderly end on a signal and a loud one on a fault; one
active incident per subject, opened and closed on evidence, across restarts;
projection files a reader can take one by one.

### Transport and readers

| Part | State | Operations | Module |
|---|---|---|---|
| Uploader (`ops/frontpage-metrics-upload.py`) | one snapshot in memory | read and re-read files, `prepare`, send the missing files, `commit`; `--activate` and `--deactivate`; a pair of version 1 | `Upload`, `Projections`, `SampleFeed` |
| v2 endpoint (`v2/cloudflare-upload.ts`) | staged files by hash, the active manifest, the enabled flag | handlers with quota, reclamation, completeness, freshness and ordering checks | `Upload` |
| v1 endpoint (`cloudflare-v1-upload.ts`, `cloudflare-store.ts`) | staged members, one pair, rows of old clients | put, commit of a generation, direct puts | `SampleFeed` |
| v1 readers, history strip (`reader.ts`, `CoarseHistoryStrip.tsx`) | none | normalise a history with its holes, draw it in segments or cells | `SampleFeed` |
| v2 history (`v2/reader.ts`, `queries.ts`) | none; several reads per query | choose chunks, read, merge over a window, refuse | `SeriesReader` |
| Public status (`status-page.ts`, `public-status.ts`, status page and feed) | a cached feed answer | freshness, fall back between versions, maintenance, overall claim | `PublicStatus` |
| Owner status (`OwnerAttentionSummary.tsx`, `reader.ts`) | none | which items ask for attention | `OwnerStatus` |
| Caches (`github-stats.ts`, `v2/mining.ts`) | answers with their age, calls under way | look up, share a call, keep a success | `Caches` |
| Project list (`ProjectList.tsx`, `presentation.ts`) | the address | filters, counts, health by binding | `ProjectList` |
| Dashboard poller (`observability/polling.ts`) | snapshot, ETags, cycle number, in-flight flag, timer, listeners | `start`, `stop`, `refresh`, page events, a poll of several fetches | `Poller` |
| Owner panel (`useOwnerObservability.ts`, `OwnerObservabilityPanel.tsx`) | range, the poller of a range, transitions, the lapsed-session flag | select a range, show, clear | `Panel` |
| Load measurement (`measure-cloudflare-headroom.mjs`) | tasks, workers, a chain of writers, a budget | stages of paced workers with deadlines, verdict, cleanup | `Headroom` |

*What makes it right*: readers always find a whole snapshot and never an older
one; interrupted uploads cannot block later ones; what is said of a service was
true of it as recently as the page claims; a history has no values but recorded
ones and no hidden holes; the dashboard shows no older data, nothing after the
session ended, and catches up; a release or a measurement passes on evidence.

### Behaviours that are hard to test

Answers from GitHub that are lost although the call took effect; requests that
overlap, retry and expire; a crash between any two writes, or with a lock file in
hand; HTTP requests handled after their client gave up; tabs rendered from
different versions; a thread's fault that looks like a shutdown; checks that
never return; files replaced while they are being read, around midnight; two
generations of telemetry of different age on one page; fetch responses and
transitions that arrive after an abort; session-history traversals that queue
up. `PROJECT.json` lists each hazard at its line, with the properties that cover
it.

## 2. Modules

| Module | Models | Extends |
|---|---|---|
| `PublicationService` | abstract: what publication promises the owner | |
| `Publication` | drafts, journal, receipt, GitHub, requests, deployment; implements `PublicationService` | |
| `PublicationRecovery` | the owner's retries once faults have ceased | `Publication` |
| `DraftStore` | abstract: what `drafts.ts` promises its callers | |
| `OwnerState` | the file store under its lock file; implements `DraftStore` | |
| `OwnerRestore` | backup, the operator's tool, both restores | |
| `Workspace` | editors in several tabs over the draft routes | |
| `Navigation` | the guard and the browser's session history | |
| `Catalogue` | slugs, aliases, renames, builds | |
| `Pipeline` | the daemon's threads and the check workers | |
| `Incidents` | engine, incidents table, commit, apply, restart | |
| `Projections` | publication of files and the uploader's reading | |
| `SeriesReader` | history queries over these files | `Projections` |
| `SampleFeed` | version 1 from collector to strip | |
| `Upload` | uploaders and the v2 endpoint | |
| `PublicStatus`, `OwnerStatus` | what visitors and the owner are told | |
| `Caches`, `ProjectList` | statistics and mining caches; the filtered list | |
| `Poller`, `Panel` | the dashboard's poller; the panel over its snapshots | |
| `Headroom`, `Release` | the load measurement; the verification of a release | |
| `PublicationProofs`, `WorkspaceProofs`, `FeedProofs`, `StatusProofs` | proofs | the module of that name |
| `OwnerProofs` | proofs | `OwnerState`, `OwnerRestore` |
| `DaemonProofs` | proofs | `Incidents`, `Pipeline` |
| `DeliveryProofs` | proofs | `Upload`, `Headroom`, `Release` |
| `BrowserProofs` | proofs | `Poller`, `Panel`, `Navigation` |

An `MC` module gives TLC its instance. Where components share no state, one run
checks several of them: a variable `part`, chosen initially, says which one
moves, so that their states add up and do not multiply.

| MC module | Parts |
|---|---|
| `MCPublication` | `Publication`; `Catalogue` |
| `MCPublicationRecovery` | `PublicationRecovery` with `PublicationService` |
| `MCOwner` | `OwnerState` with `DraftStore`; `OwnerRestore` |
| `MCWorkspace` | `Workspace` |
| `MCDaemon` | `Incidents`; `Pipeline` |
| `MCFeed` | `SampleFeed` on the VPS; the same with the network; `Projections`; `SeriesReader` |
| `MCDelivery` | `Upload`; `Headroom`; `Release` |
| `MCBrowser` | `Poller`; `Navigation`; `Panel` |
| `MCStatus` | `PublicStatus`; `OwnerStatus`; `Caches`; `ProjectList` |

The chain daemon → files → Durable Object → dashboard is cut at its natural
seams. `Incidents` and `Pipeline` look at the same cycle from two sides: the
content of a commit, and when it happens. `Projections` starts from a commit and
ends with a snapshot in the uploader's hands, which `Upload` numbers and takes
to readers; `SeriesReader` composes the daemon's publication with a reader of
the same files; `Poller` sees the newest content as a version the server has, and
`Panel` a poller as the versions it publishes. On the owner's side `Workspace`
has publication as one step and the tabs in full, `Publication` the reverse;
`DraftStore` is the interface both take for granted, and `PublicationService` is
what is left of publication for those who only see drafts, `main` and the receipt.

### Correspondence

**Publication.** A request slot `req[r]` is the local state of one POST: `pc` is
the await it is suspended at, `intent` the intent it works on, `seen` the answer
it waits to use. A GitHub call is two actions, because the answer may be stale
by the time it is used: the remote side acts and answers (`GetHead`,
`CreateCommit`, `UpdateHead`, `Verify`), or takes effect and loses its answer;
then the request runs to its next await in one step (`Refuse`, `JoinIntent`,
`CreateIntent`, `RecordCommit`, `RetryHead`, `Finish`...). `finishCommitted`
writes receipt, drafts and journal in this order: `FinishStops` and `CompareStops`
are its interruptions after each write. `Crash` forgets every request.
`SaveDraft` and `DiscardDraft` are the owner's, `ExternalPush` another writer of
`main`, `Deploy` a deployment and, with `Rollback`, the operator's return to an
older version. `AgeIntent` lets a preparation grow older than five minutes.
Revisions are numbers, a commit is an index into `commits`, its tree the
revisions of the two files.

**PublicationService** has neither requests nor a journal nor calls. `history` is
`main` with, for each version, what was reviewed for it and what it contains;
`recorded` is the version the receipt tells of, or none. The refinement mapping
computes both from `main`, `commits` and `receipt` (`History`, `Recorded`).
`ServiceLand` is one review that lands, `ServiceAcknowledge` any part of
`finishCommitted`; a report of failure is possible at any time, because the code
writes it over whatever receipt there is.

**PublicationRecovery** adds `calm`: before it, everything may go wrong; after
it, GitHub answers, the store works, nobody else pushes, and the owner uses the
panel, which offers the oldest unfinished publication and starts no new one
while there is one.

**DraftStore, OwnerState.** In `DraftStore` an operation takes effect at one
instant between call and answer. In `OwnerState` `proc[p].at` is a position
between two calls to the file system: `Lock` (`openSync` with `wx`), a read per
file, with the upgrade of a version-1 envelope, comparison, rename or removal,
the removal of the lock file. `Kill` is the death of a process anywhere, which
leaves the lock file; `RemoveLock` is the operator's, once all processes are
down. `Store` is the refinement mapping: the operation of a process has taken
effect when it has nothing left but to close.

**OwnerRestore.** `net` and `admitted` are PUTs on their way and past the check
of the window, waiting for their body; `tool` is where the operator's tool is.
A PUT may be handled long after the tool gave up; closing the window restarts
the object, which forgets the admitted ones. `staging` and `dest` are the
directories of `restoreFileOwnerState`.

**Workspace.** A tab has its own `text`, `baseline` and `revision`, and the
props `page` of its last rendering, which `Refresh` replaces and nothing else
does. A request is answered (`Accept`, `Refuse`), lost (`Lose`), or moves to
`late` and is handled after its tab was told that it failed.

**Navigation.** `queue` holds traversals asked for by the owner and by the
guard's `history.go()`; `Step` works off the first. With the Navigation API the
owner is asked before the tab moves (`CanceledFirst`, `AgreedFirst`), otherwise
after (`RestoreDone`, `AgreedAfter`, `RefusedAfter`).

**Catalogue.** A rename is made in an editor on the running version and saved to
the draft; `preserveProjectSlugAliases` and the validation of the schema decide
what is published; a version that does not build is never served. `links` remembers every
address that was ever a project's own.

**Pipeline.** `producer.pc` and `consumer.pc` are the places of the two threads;
`pending` is `queue.Queue`, `batches` all batches with the state of each check.
`backpressure` is the event a slow write sets, `fault` the producer's exception.
`Tick` is the clock, which may also run on while a sample is being acquired.

**Incidents.** `Commit` is one cycle's transaction: the engine's `evaluate`
(`Counted`, `Appended`, `Alarms`, `Clears`), the upsert and the retention. `Apply`
is `_apply_transitions`, afterwards. `Stop` may come in between, or at rest;
`Start` loads the active rows and has fresh counters. A row's key is the
incident's id: the digest of rule, target and opening time.

**Projections.** `unwritten` is the rest of the daemon's publication, `dir` the
directory; `uploader` reads `ToRead`, compares, then re-reads three files; both go
through their files in the order of `Rank`. A file's content is the set of cycles it speaks of.

**SeriesReader.** One request to the owner's route: it takes the time, reads the
manifest, chooses the chunks its window overlaps, and reads one after the other
between steps of the daemon. `due` is what was published for its window when it
came, in cycles: the value of the open bucket is computed anew at every cycle, and a
chunk is dated by the beginning of its last bucket. A chunk replaced after the request
took its time is therefore refused (`FromFuture`) only when a new bucket has begun;
within the bucket it is merged. `named` gives each day's chunk the workloads it ranks.

**SampleFeed.** One clock in minutes. The collector's two renames are two steps;
the uploader's reads and each of its requests are steps of their own; a request
given up moves to `late`. `store.pair` is the pair of a generation, `store.rows`
what old clients put directly. Holes, segments and cells are functions of what
is served, evaluated in every state.

**Upload.** `Handle` is the synchronous part of the endpoint. A client waits for
one request at a time; one it gives up on moves to `late`, and may be handled at
any later time or never. `Publish`, `Expire` and `Age` are time: a new snapshot,
45 seconds, ten minutes.

**PublicStatus, OwnerStatus.** `truth` and `trouble` are the world: what is up or
wrong, and for how long. Samples of either version measure it and arrive late;
version 2 may be off or half unreadable. What pages, the feed and the header say
are operators of these, `cached` the answer a cache repeats. That the properties
compare claims with `truth` is what the code cannot do.

**Caches.** Answers are the tick the other side made them in; `pool` and `asking`
are calls under way, `told` the last result a page was given.

**ProjectList.** `address` is the rendered address, `going` the one the router
is on its way to; controls build the next from the rendered one.

**Poller.** A poll occupies a slot until all its fetches have settled. `Answers`
is the response's arrival, `Looks` the code after `await fetch`, `Reads` the code
after the body, `Fails` a rejection, `Succeeds` and `Gives` the two ends of
`Promise.all`; `Abort` is `abortCurrentCycle`.

**Panel.** `polled` is the snapshot of the poller of the rendered range, `old`
the poller whose effect has not been cleaned up, `pending` the transitions React
has not applied, `kept` the state. `OnScreen` is what `currentSnapshot` and the
boundary make of them.

**Headroom.** A worker takes a task, waits for its slot, reads, or queues behind
`tail` and writes in three requests. Deadlines may pass at any time.

**Release.** `verify-worker-commit.mjs` probes until the new version answers;
`verify-release.mjs` then goes through its routes, with retries and redirects,
while `fleet` still holds the old version or no longer does.

## 3. What is checked

Runs that hold:

| Run | Question | Properties |
|---|---|---|
| `publication` | do overlapping requests publish a review once, over what it was made on, and keep true records; do addresses survive renames? | `RecordsSound`, `JournalSound`, `PublishedOnce`, `NoLastWriteWins`, `ReceiptAdvances`, `KeepsOldLinks` |
| `recovery` | is publication, with all that may interrupt it, the service its callers rely on; is what was interrupted finished? | `PublishedDraftRecoverable`, `KeepsPublicationService` (refinement), `RecoveryRecordsLanded` (liveness) |
| `owner_state` | do files and a lock keep what the draft store promises; does a restore restore, and only that? | `LockHolds`, `KeepsDraftStore` (refinement), `RestoredIsBackup`, `OwnerWritesKept` |
| `workspace` | is anything replaced that the tab had not seen, or shown as saved that is not? | `EditorsHonest`, `NothingUnseenReplaced` |
| `daemon` | do memory and table agree over restarts, do incidents follow the evidence; is each slot taken once with its own readings, and does the process end as it should? | `IncidentsSound`, `ChangesOnEvidence`, `PipelineSound`, `ShutdownCompletes` (liveness) |
| `feed` | what do readers get of files that are replaced under them? | `FeedHonest`, `ServedNeverBack`, `SnapshotTrue`, `SeriesTrue` |
| `delivery` | is what readers get whole, newest and what was accepted, and do uploads go on; does a measurement end with a true verdict; does a release pass on evidence? | `UploadSound`, `NeverBack`, `UploadsResume` (liveness), `MeasurementSound`, `GoesOn`, `VerificationSound` |
| `browser` | does the page poll once at a time, show nothing older and catch up; is the panel's content that of its range and session; is a dirty editor left only by consent? | `PollerHonest`, `NeverOlder`, `CatchesUp` (liveness), `PanelHonest`, `LeftOnlyAgreed`, `SettlesAtHome` (liveness) |
| `status` | is what is said of services true, alarms real, caches bounded, and the list honest? | `HealthWasTrue`, `AlarmsAreReal`, `QuietWithoutV2`, `CachesHonest`, `ListHonest` |

A property whose name ends in `Sound`, `Honest` or `True` is a conjunction of
named parts, each with its own comment: `JournalSound` is `OneIntentPerKey`,
`JournalBounded` and `RetryFinds`, `PipelineSound` is `NeverOverflows`,
`OneBatch`, `OnePerSlot`, `ReadingsAreOwn`, `FaultReported` and
`ShutdownNeverWaits`, `PollerHonest` has `NeverSilent` for its last part. The module's type invariant is one of the
parts. The comment above each property says which code it is about. Every
property is known to fail when one definition is changed as a plausible slip in
the code would change it: those variants stand before the definition they
replace, marked `Mutant:`, and are listed in `PROJECT.json`.

Runs that refute a statement of the repository:

| Run | Statement | What the code does |
|---|---|---|
| `old_links` | `docs/superpowers/plans/2026-10-03-all-open-issues.md:352`: a rename retains the previous slug | a bundle written before a rename was deployed and saved after it passes for an edit of the renamed version: the address which the deployed rename introduced is published away (the one the bundle was written with is kept), and so is a project created in between |
| `quiet_attention` | redesign document, line 752: "No attention needed" only when resource thresholds are healthy | with version 2 the page drops the items of version 1 about cpu, memory and disk, and no item of version 2 is about a threshold: a disk over its threshold in a present sample goes unmentioned |
| `workload_history` | dashboard v2 design, line 433: oversized responses truncate | chunks that are each within the limit of series are above it together, and the query is refused |

More statements that do not hold are defined in the modules beside the
properties, each with its quotation. No run of the project checks them; to see
one fail, replace the properties of the named configuration by it:

| Statement | Configuration | Quoted from | What the code does |
|---|---|---|---|
| `AwaitingDeployKept` | `MCPublication.cfg` | `README.md:55`: the UI stays at `Awaiting deploy` until the running version matches | a request that overlaps a successful one and ends in conflict or failure replaces the published receipt; without drafts the panel then shows `Clean` |
| `NoLastWriteWins` | `MCPublication.cfg` with `Rollback = TRUE` | `README.md:58`: "There is no last-write-wins update" | a file without a draft is filled in from the running build. A draft saved on the newest version and published after a redeployment of an older one overwrites the other file with its old copy |
| `BaseWasSeen` | `MCWorkspace.cfg` | `README.md:58` | a tab opened before a deployment may save the first draft after it: the route takes the new version for its base |
| `RecoveryEnds` | `MCPublicationRecovery.cfg` | `PublishPanel.tsx:91`: retry the recorded commit before publishing newer drafts | a `ref-pending` intent whose base `main` has left is answered with a conflict and never finished, failed or expired; the panel publishes nothing else |
| `MergesBuild` | `MCPublication.cfg` | `DEPLOYMENT.md:28`: main CI builds and deploys | a draft may unbind the last project of a service that a maintenance window names; it is published, and the build throws |
| `CriticalDiskIsCritical` | `MCDaemon.cfg` | dashboard v2 design, line 409: critical at 90% | a summary read back from the store overrides the severity in `to_store`: after a restart an escalation is stored as a warning |
| `PublicationWhole` | `MCFeed.cfg` | `docs/cloudflare-v2-activation.md:5`: partial publications are rejected | between midnight and the first manifest of the day, a snapshot without any chunk of the new day passes all checks |
| `LastLoadedShown` | `MCBrowser.cfg` | `OwnerObservabilityPanel.tsx:125`: "Showing the last loaded snapshot" | the poller of a new range starts from what the page was rendered with; if its first poll fails, older values than before stand under that sentence |

`NoLastWriteWins` holds with `Rollback = FALSE`: it is the redeployed old
version that breaks it. That needs no race, only that `main` is where the draft
was saved. `RetryFinds` has the same condition: after a redeployment two
overlapping requests with one review can be based on different versions, and the
later of their intents hides from a retry the earlier one, which has landed.
`SettlesAtHome` is checked with `Hurry = FALSE`: with entries ahead of
the editor's and an owner who traverses again before the tab has come to rest,
the guard's `history.go()` and the owner's traversals can chase one another, and
the address may come to rest beside the editor that is shown. No document
promises more.

## 4. Bounds

* `publication`: two requests at a time (a third adds no new pair of interleaved
  calls), one edited kind, two revisions, two unfinished and two stored intents
  out of three ever made (so that the journal is pruned and retries after expiry
  happen), three commits including the first. Catalogue: two projects, three
  addresses, one service, four versions, two aliases each: enough to rename, to
  rename back, and to hand an address on.
* `recovery`: one request at a time with both kinds of draft: clearing, which goes
  kind by kind, can be interrupted, and three different reviews of two revisions
  reach the journal's limit of two unfinished intents.
* `owner_state`: two processes, two drafts each possibly of version 1, two
  revisions: one process acts inside whatever step of the other. Three PUTs, of
  which one can be late after a second and a third; two concurrent copies.
* `workspace`: two tabs, two slugs, three requests, two versions: one tab saves,
  the other saves on top, and one more is late.
* `daemon`: one service and one workload; thresholds, history and retention
  of two; six cycles, enough for an outage, a recovery and retention of its row.
  An observation has at most one kind of trouble besides the service's
  (`OneTrouble`): the rules share no state but the history and the table. Two
  targets, a queue of two, four slots: the queue fills, a batch outlives its
  slot, and a slow write skips one.
* `feed`: a window of five minutes with a gap threshold of two and three cells,
  so that samples leave it, holes of every length fit, and the strip is drawn
  both ways; seven minutes on the VPS, four with the network. Two days of two
  buckets of two cycles; a query over one day's length; two candidates of which
  a chunk ranks one.
* `delivery`: three snapshots, where neighbours share a chunk; a quota of four
  files, so that two interrupted uploads fill it; one abandoned request at a time and
  one run of the operator. A budget of sixteen requests for stages of two
  workers and of one; three probes, two tries and two redirects.
* `browser`: two resources, two versions, and two polls with unsettled fetches:
  the current one and one that was aborted. Five entries with the editor's in the
  middle, one of them without a recorded position, four traversals. Two ranges, two
  versions of the data, two transitions under way.
* `status`: two services of which one is always up, limits of no more than two
  ticks, one tick of delay; two calls at once; two projects, one bound to both
  services and one to none.

## 5. Fairness

* `PublicationRecovery`: faults end (`calm`); the owner goes on retrying what the
  panel offers; a running request goes on and GitHub answers it. Nothing is
  assumed before `calm`, nor that the owner ever publishes anything new.
* `Pipeline`: both threads run, and a sample and a transaction end. A check need
  not: `ShutdownCompletes` includes checks that hang for ever. A thread that may
  give up its wait does: both waits have timeouts in the code.
* `Upload`: the systemd timer fires again and again, a request that is waited for
  is answered, snapshots before the last grow stale, and old files age.
  `UploadsResume` is about behaviours in which clients in the end stop giving up.
* `Poller`: the browser's timers fire and what has arrived is processed.
  `CatchesUp` assumes that the page stays visible and online with a valid session,
  and that fetches stop failing.
* `Navigation`: the browser works its queue of traversals off; nothing is assumed
  of the owner.
* `Headroom` needs none: `GoesOn` says that there is a step until the report, and
  every step uses up a task, a request or a deadline.
* The other modules have no liveness properties: their operations either answer
  at once or may be lost.

In a run with `part`, a fairness condition concerns the part it belongs to, and
the liveness properties are about behaviours of that part.

## 6. What is proved

Proofs hold for every value of the constants, with only the named assumptions
on them (`PublicationConstants`, `UploadConstants`, `OwnerStateConstants`,
`OwnerRestoreConstants`, `FeedConstants`, `StatusConstants`, `IncidentConstants`,
`PipelineConstants`, `WorkspaceConstants`, `HeadroomConstants`,
`ReleaseConstants`, `PollerConstants`, `PanelConstants`, `NavigationConstants`,
`CatalogueConstants`, `OwnerStatusConstants`, `CacheConstants`,
`ListBinds`, `ProjectionConstants`, `SeriesConstants`). They ask for no more than the code does: a budget that pays the
preflight, at least one stage with at least one worker, versions counted from
one, a list of services per project that ends.

**`PublicationProofs`: `RecordsTrue`** (`RecordsSound`). The invariant is `Shape`:
types, plus what makes indices mean something. Every intent of the journal
(`EntryOK`) names a commit that exists, and one on `main` once it is recorded as
committed or complete; the receipt likewise (`ReceiptOK`). That is not inductive,
because a request writes these records from what it remembers: so `SlotOK` says
the same about each suspended request, and that a request that was told yes
(`headUpdated`, `headRetried`, with `seen` set) or compares receipts has a commit
on `main`. `Growth` is the lemma behind all remote steps: `main` and `commits`
only grow, so what is on `main` stays there. There is one lemma per action.
**`ReceiptsAdvance`** (`ReceiptAdvances`) follows from `Shape`: both commits of a
comparison are on `main`, so one is an ancestor of the other, and the receipt
compared with is still there when the new one is written. **`JournalAdmits`**
(`JournalSound`) needs `Remembered`, what a suspended request knows of its
intent's phase: without it a request could mark an entry failed and back again,
and two entries would share a key. That a retry finds the intent the workspace
offers (`RetryFinds`) needs most of what is proved further on: the reviewed
drafts determine the base (`Based`) and the content (`Carried`) of an intent, so
with one review two intents have one key and are one (`ReviewDetermines`).
**`RequestsAreBounded`** (`RequestsEnd`) gives every await of a request a number
and shows that each step leads to a smaller one or out: one request asks GitHub
at most eleven times, the repeated update of the branch included.

**`PublishedAtMostOnce`** (`PublishedOnce`), in the same module. The invariant `Lineage` adds the argument to `Shape`. `Based`: every intent that
reviews a draft is based on the very version that draft was saved on. `Rooted`:
so is every commit. `Chain`: every commit of `main` but the first stands right
after its parent, and none is there twice. Two commits for one review therefore
have one parent, and `main` has one successor of it. Only the fast-forward rule
of `updateHead` and the comparison of base and head are used, not the journal:
the journal makes retries find their commit, it is not what keeps a review from
landing twice.

`Carried` and `Placed` add what commits contain: **`NothingOverwritten`**
(`NoLastWriteWins`) and **`DraftsKept`** (`DraftsSurvive`, that a draft goes only
by its owner's hand or when it is on `main`; no run of its own). A commit is what its
intent asked for, and an intent asks only for reviewed changes, with one
exception that is the point of the proof: the file without a draft is read from
the running version, which may be newer than the base of the draft. Then `main`
has moved past that base for good (`Passed`), and the comparison with the head
refuses the request; the invariant lets a request be wrong until then. It
assumes `~Rollback`: after a redeployment of an older version a draft's base may
be newer than what runs, the comparison succeeds and the other file would be
taken from the older version. `Retained` gives
**`PublishedRecoverable`** (`PublishedDraftRecoverable`): a commit is in an
unfinished entry before the branch is touched; only entries without a commit are
failed, only finished ones dropped, and an entry is completed after its drafts.

These come together in **`PublicationServes`** (`KeepsPublicationService`): with
`~Rollback`, every step of `Publication` is a step of `PublicationService` or
none. The invariant `Served` is the one of `NothingOverwritten` and two small
facts, that every intent reviews some draft (`Reviewing`) and that versions stay
within their bound (`Counted`). The move of the branch is the landing, and
`Story` gives its guard: the commit is new on `main`, its parent is the newest
version, and its content is the reviewed drafts over that version's. The steps
that finish a request are acknowledgements, whichever of their three writes they
reach; conflicts and failures are `ServiceReportsFailure`; all other steps leave
drafts, `main` and receipt alone.

In the same module, **`OldLinksAreKept`** (`KeepsOldLinks`) about `Catalogue`. Two
facts carry it: in a catalogue that parses an address has one owner (`OneOwner`),
and a rename only adds to what a project answers to (`RenameKeepsAddresses`). The
invariant says when a draft may be trusted with the links: as long as it was first
written on the version that is served (`WordsSound`). A deployment ends that for
every draft at once, because it raises the version (`VersionsSound`); and a draft
that is published without having been carried over was saved on the head, which
then is what is served.

**`OwnerProofs`: `LockExcludes`** (`LockHolds`) **and `Implements`**
(`KeepsDraftStore`). The invariant adds to exclusion what a process has done so
far in each phase (`Phased`): one that compares has read all it compares, one
that writes has found what it wanted. With it every step of the files is a step
of the abstract store or a stutter: the rename is the save, the last removal ends
a clear, `Kill` forgets the call. That a bundle shows all drafts as of one
instant follows from `ReadsAreCurrent`: the last read is that instant.

In the same module, **`RestoreTrue`** (`RestoredIsBackup`) **and `SavesKept`**
(`OwnerWritesKept`) about `OwnerRestore`. The invariant `Guarded` relates window, writes and requests:
the window is open only while writes are stopped, a request is past its check
only while it is open, and the tool works only in an open window. `MovesWhole`
says that only complete copies are moved into place.

**`WorkspaceProofs`: `EditorsStayHonest`** (`EditorsHonest`) **and
`NothingIsUndoneUnseen`** (`NothingUnseenReplaced`). `NothingUnseenReplaced` is not
inductive: React keeps a tab's text and revision over a refresh that replaces its
page, so a tab may send a bundle made from another rendering than its revision.
The invariant ties what is known of the store to revisions, which are never given
out twice (`RevisionsPass`): while a tab's revision is the store's, its page, be it
older or newer, differs from the draft in the tab's own item only (`EditorSound`);
so does a request under way, unless it can no longer be accepted (`RequestSound`,
`AskedSound`). A refresh keeps this (`Refreshed`), because a page that still shows
the tab's project, in a draft that differs from the tab's in that item only, has it
under the slug the tab knows; a page that does not ends the editor. That a project
page refreshes only after a save, and so with a revision, is needed for a tab that
sends its first draft while it waits for the refresh of its last.

**`FeedProofs`: `NeverBack`** (`ServedNeverBack`) about `SampleFeed`. The invariant
is that every pair anywhere, in files, requests and tables, is one; the rest
compares minutes, once for each kind of request. **`FeedIsHonest`** (`FeedHonest`)
has two halves. The first is about a view of any samples, in no state at all:
holes are between neighbours (`Adjacent`), a history without one has a sample in
every stretch of the threshold (`NoGapCovers`), what a sample colours is within
reach of it (`ColourIsMeasured`), and a point no sample reaches lies in a hole
that is drawn (`UnmeasuredIsHole`), so that a cell touching it is not coloured. That
a set of minutes has a first and a last is the library's theorem on well-founded
relations, used at the relation `Smaller`. The second half is the invariant
`FeedInv`: each pair, wherever it is, is of samples that were taken (`Genuine`), one
that was committed agrees with itself, and the stage holds two at most. It uses
that the threshold is at most two sampling intervals (`FeedConstants`).

In the same module, **`SnapshotsAreTrue`** (`SnapshotTrue`) about `Projections`.
Everything follows from the order of a publication, latest values first and
manifest last: `WritingSound` says what is new at each point between, so that a
publication that stops leaves a manifest of existing chunks and no chunk newer than
the public latest values. `Advances` is what no step of the daemon takes back. An
uploader's copies therefore lie behind the directory by an amount that the public
latest values show (`CollectingSound`): that file is copied before any chunk and
compared again after all of them, so a chunk is no newer than it, and one of an
earlier day was sealed when it was copied. **`SeriesIsTrue`** (`SeriesTrue`) uses the
same invariant and `Advances`: what is due to a request lies in what the files read
so far count or in what those still to be read will count (`DueFound`), and
`BucketInWindow` is the arithmetic that makes the choice of days by their borders
miss no cycle of the window.

**`StatusProofs`: `HealthTrue`** (`HealthWasTrue`) **and `AlarmsReal`**
(`AlarmsAreReal`). The invariants `Evidence` and `Alarms` carry the evidence: a
service that a sample calls up, or down, was so within the age of that sample, and
a cached answer of the feed was true when it was made (`Remembered`,
`RememberedDown`). They are preserved by time because ages and truth grow old
together, up to the longest limit. **`QuietIsTrue`** (`QuietWithoutV2`) is the same
argument for what a sample does not show to the owner (`SeenIsTrue`); the claim
for both versions, `QuietIsHealthy`, is false and has a finding instead.

In the same module, **`CachesAreHonest`** (`CachesHonest`) follows an answer from
its request to the page (`PoolSound`, `MiningSound`, `ToldSound`): however answers
overtake one another, one that is cached was asked for at most a deadline ago. One
request at a time asks GitHub because the request that others wait for is the only
one there is (`AskingSound`), and only its end clears the entry.
**`ListIsHonest`** (`ListHonest`) needs no invariant: the list has no state but its
address, so the theorem is about the functions, for every address and reading,
reachable or not; `CompleteMeansAll` is the step from equally many checks to all.

**`DaemonProofs`: `EngineSound`** (`IncidentsSound`)**, `Evidence`**
(`ChangesOnEvidence`) **and `CyclesSound`** (`PipelineSound`). What the engine
will remember is decided before the commit and applied after it, so `EngineInv`
speaks of the memory a state is about to have (`Memory`), and relates each
counter to what the history ends with (`CountsTrue`): a counter may count on
after the history was cut, which is why thresholds must be within
`HistoryPoints`, as they are in the configuration's schema. `PipelineInv` says
where a cycle under way stands (`Ordered`) and whose checks it holds (`Owned`);
it also shows that after a stop some thread has a step that waits for neither a
check nor the clock (`ShutdownNeverWaits`). **`ShutdownIsBounded`**
(`ShutdownAdvances`) adds that every such step leaves less to do, at most three
per queued cycle and six more, and that nothing else puts the end off.

**`DeliveryProofs`: `ServesSoundly`** (`UploadSound`) **and `ServedNeverBack`**
(`NeverBack`). The invariant `IInv` adds to the properties what requests under
way, waited for or abandoned, may ask for (`RequestOK`): nothing about a snapshot
not yet published, no file without a name, and an activation only for a snapshot
that was committed before, so that it is never newer than the active one. Since
the active snapshot only advances, a request that was in order stays so however
long it is under way (`RequestsAge`). `Puts` carries the quota and `Commits`
completeness. **`UploadsAreBounded`** (`UploadsEnd`): each answer leaves an
uploader with fewer requests to make, whatever others do to the staging area.
**`LastGetsIn`** (`RoomForLast`): with a quota of two whole snapshots, as the 520
files are for snapshots of at most 259, no missing file of the last snapshot is
refused once what interrupted uploads left behind is old. A smaller quota would
not do: TLC refutes it.

In the same module, **`MeasurementIsSound`** (`MeasurementSound`) about
`Headroom`. That no task is held back for the budget is an accounting: a task is
paid for when it is taken (`Cost` counts the writers among the first n tasks with
one division), what the workers still owe is a finite set (`Pledged`), and sent
plus owed stay within what the stages so far were dealt (`BudgetSound`, with
`DealtFacts` and `WithinStage` about the dealing). That commits follow the time
stamps is `ChainSound`, only the head of the chain writes, with `OrderSound`; the
completeness of what is accepted is `TallySound`, which counts every started
write once. **`MeasurementNeverWaits`** is what `GoesOn` says, as guards instead of
enabled steps: while a stage is under way it may end, or a worker is at a step
whose guard holds, since the head of the chain is always there to write; and
**`MeasurementIsBounded`** (`MeasurementEnds`) that every step, of a stage, a
task, a worker or a deadline, leaves less to do in an order without infinite
descent. Together they say that a measurement ends, but for the word "eventually".
**`ReleaseIsProven`** (`VerificationSound`) carries the evidence of
each route passed so far, and the requests each may still cost.

**`BrowserProofs`: `PollerIsHonest`** (`PollerHonest`) **and `PollerNeverOlder`**
(`NeverOlder`). Late answers are harmless because only a live poll is listened
to, and there is one: `PollFresh` says that it asked with the ETags of what is
shown and was answered with nothing older. That the dashboard never falls silent
(`NeverSilent`) is kept by every way a poll can end, aborted and superseded ones
included (`AwakeKeeps`). **`PanelIsHonest`** (`PanelHonest`)
follows the series of a range through the transitions that are still under way.
**`LeavingIsAgreed`** (`LeftOnlyAgreed`) and **`RestsAtHome`**, the safety half of
`SettlesAtHome`: with an empty queue and unsaved changes the browser stands on
the editor's entry, however fast the owner was, as long as only entries before
the editor's lack a position (`Untracked \subseteq 0..(Home - 1)`).
**`TabComesToRest`** (`ComesToRest`) is why the queue empties: when the owner
waits for rest wherever there are entries ahead of the editor's (`~Hurry`), each
traversal leaves fewer of the owner's, or the tab nearer to the editor, or the
queue shorter. What the guard asks for leads home from wherever the tab will be
by then (`NavWays`): with no entries ahead all its steps go forward, and with
some it is alone in the queue. Without either condition TLC refutes it.

Only model-checked: all liveness and what speaks of enabled actions, which are
out of the prover's reach. For each of them the theorems show what can be said of
states and steps, that something is always left to do and that it is less each
time; what remains for TLC is that it is done:

| Model-checked | Never stuck | Always nearer |
|---|---|---|
| `RecoveryRecordsLanded` | `PublishedRecoverable`, and `RetryFinds` in `JournalAdmits`, which assumes that no older version is redeployed | `RequestsAreBounded`, of one request; that the owner retries is an assumption |
| `ShutdownCompletes` | `ShutdownNeverWaits` in `CyclesSound` | `ShutdownIsBounded` |
| `UploadsResume` | `LastGetsIn` | `UploadsAreBounded`, of one run; that a run is repeated and files grow old is fairness |
| `CatchesUp` | `NeverSilent` in `PollerIsHonest` | `PollerNeverOlder` |
| `SettlesAtHome` | `RestsAtHome` | `TabComesToRest` |
| `GoesOn` | `MeasurementNeverWaits` | `MeasurementIsBounded` |

`PollerNeverOlder` says no more than that the page never falls back. The
properties behind the other theorems of the last column, `RoomForLast` and
`DraftsSurvive` are theorems only: no run lists them. Every property that a run
checks to hold, other than those of the first column, is a theorem.

## 7. Abstractions to keep in mind

* Contents are revisions, hashes, versions or words. Validation of payloads and
  parsing are left out; a commit's identity (author, message, tree) is compared
  as a whole.
* `Publication` has the atomic store of `DraftStore`, except that clearing may
  stop between its two files.
* `Workspace` publishes in one step what is the newest version's; a draft made
  on an older one cannot be published, which is `Publication`'s to show.
* `Catalogue` opens, fills in and saves an editor in one step; what happens
  between is `Workspace`'s.
* `Upload` numbers snapshots in order of collection and lets neighbours share a
  chunk. An activation refused for its version or acceptance changes nothing.
* `Projections` joins files that are made, ordered and checked alike; retention
  removes no day within its two. `SeriesReader` takes the value of a bucket
  for the cycles it was computed from.
* `PublicStatus` and `OwnerStatus` read a page in one step: its reads are
  synchronous.
* `Poller` and `Release` leave delays out: any timer that is set may fire.
* `Headroom` counts requests, not milliseconds; latencies are within their
  target or not.

## 8. Not modelled

The component list in `PROJECT.json` names every part.

* Authentication, owner requests, request parsing and size limits: stateless
  checks, seen by the models as a request that is refused.
* Rendering, form fields, charts, media uploads, the strings on a page.
* Content validation other than of slugs, aliases and bindings: pure functions
  over text with their own tests.
* Host sampling and parsing of `/proc`, cgroups and configuration files: pure
  input. Rollups and compaction: folds of numbers on which no property depends;
  which cycles are folded into a bucket is in `SeriesReader`.
* The shadow comparison, the environment check and other one-shot scripts; the
  playbooks of the container swap, which `Release` sees from outside.
* `projections.py:115-161` computes the residual of untracked workloads before
  the ranking is cut; the numbers are outside these models.

## 9. Plan

Done: the modules of section 2, the runs of section 3 and the proofs of section
6, beginning with what the owner could lose (`Publication`, `OwnerState`,
`Workspace`), then what readers could be told wrongly (`Upload`, `SampleFeed`,
`PublicStatus`, `SeriesReader`), then the rest; both refinements, of
`DraftStore` and of `PublicationService`; and the safety halves of all liveness
properties (the table at the end of section 6).

Left, in this order:

1. The composition of `Projections` with `Upload`: what a reader is given is a
   snapshot of one publication.
2. Rollup rows as folds over a day's cycles, with the coverage they report.
