# Verification of the Loon agent

This directory holds TLA+ models of the Loon agent (the Go program beside it),
the TLC configurations that check them on small instances, and theorems about
them checked by TLAPS. Paths below are relative to the repository.

## 1. The system

The agent polls a site for requests, downloads the requested torrent, prepares
the content (screenshots, archive, PAR2, obfuscation), posts it to Usenet and
reports an NZB to the site. It also works off a local queue of "offline" jobs
(watch folders, web UI), offers what its owner has to other users and delivers
it, reports an inventory of local folders, and keeps a table of posting groups
in step with the site.

| Component | Source | State | Operations | What is hard | Modules |
|---|---|---|---|---|---|
| Upload pool | `services/upload_usenet.go` | channels `jobs`, `results`, `errs`; one NNTP connection per worker; `fileCRCStates` | read and dispatch chunks, encode, connect, post, retry, collect | goroutines that block on each other, lost acknowledgements, cancellation, workers that die | `UploadPool`, `FileUpload` |
| Publish pipeline, extraction, PAR2 and archive | `services/publish_pipeline.go`, `upload_obfuscate.go`, `extract_*.go`, `upload_par2.go`, `upload_archive.go`, `upload_manifest.go` | the staging directory, its entry in the job table, `UploadSlot` | stage, unpack, add recovery data, seal, audit, post, clean up | a dozen ways out of a function that holds a mutex; files that fail half-way; a sweep beside it; hard links to the source | `PublishPipeline`, `Publication` |
| Task loop | `cmd/agent/main.go` | active task set, pause and stop flags, consecutive aborts, oversize cooldown | poll, claim, spawn, report, back up, backfill, drain | capacity checks made before a task is counted, drain before restart, maintenance, lost answers | `TaskLoop` |
| Disk reservations and sweep | `services/disk_reserve_sweep.go` | `diskReserved`, `reservations`; entries of the temp directory | admit, reserve, release, sweep | check and reserve are two steps; counter and map are updated separately; sweeps run beside tasks | `DiskReserve`, `TempSweep` |
| State store | `storage/storage.go` | `GlobalState.Jobs`, `state.json` | update, remove, save, load | snapshots written outside the lock, restart | `TempSweep` |
| Torrent download | `services/network_torrent.go`, `resume_validation.go` | download loop timers, seed phase | metadata, admission, download, seed | slow and dead swarms, cancellation | `TorrentDownload` |
| Offline queue | `storage/jobs.go`, `services/network_offline_*.go` | SQLite `jobs` table | detect, queue, claim, finish, reset, requeue at boot | operations of the web UI on the row that is being processed | `OfflineQueue` |
| Offers | `services/offer_fulfill*.go`, `offer_stage.go`, `client/offer.go` | claims held on the site, staged content, keepalive goroutines | claim, keep alive, fulfil, deliver, fail | claim TTL against a long job, lost answers, files that go | `OfferFulfil` |
| Offer synchronisation and scrapers | `services/offer_sync.go`, `offer_folder_scanner.go`, `offer_scraper*.go`, `storage/offer_paths.go`, `scrape_cursors.go` | `offer_paths`, `scrape_cursors`, the offers at the site | walk a folder, walk a feed, note a route, register | two sources for one bucket, errors in the middle of a walk, crashes | `OfferSync` |
| Inventory | `services/inventory_*.go`, `client/inventory*.go` | the walk, its batches, the open generation at the site, the prober's batch | walk, ship, close, probe, report | what was not looked at must not be dropped | `Inventory` |
| Collection | `services/collection_scanner.go` | the snapshot in memory, `collection.json` and its `.tmp` | scan, edit, save, load | a scan saves without the mutex, beside the handlers | `CollectionScanner` |
| Newsgroups | `services/network_groups_sync.go`, `storage/groups.go` | `groups` rows, `lastVersion` | poll, upsert, reconcile, edit | statements of a sync between which the page writes | `GroupSync` |
| Watch handoff | `services/network_watch_handoff.go`, `storage/watches.go` | a marker file | hand over, tick | time resolution | - |
| Local UI | `services/local_ui*.go` | none of its own | queue, pause, groups and collection pages | handlers race with what they show | in the modules of what they change |
| Configuration, VPN watchdog, media tools, self update, browser extension, shims | `config/*.go`, `services/media_*.go`, `client/version.go` and others | none, or read once | I/O and parsing | - | - |

Interaction: the task loop spawns one goroutine per claimed task; tasks and
offers run the publish pipeline; they and the offline processor share the disk reservations,
the temp directory and its sweep, `GlobalState`, and `UploadSlot`, the mutex that lets
one upload at a time use the NNTP connections. The inventory, the collection, the
groups and the offer synchronisation run beside them and share nothing with each
other; offers share `offer_paths` with the fulfilment, which reads it.

## 2. Plan

The order follows what matters most: that an upload is complete, that no
finished upload is lost, that no file in use is deleted, that no slot or queue
entry is lost for ever; then what the agent tells others it has.

| # | Modules | Subject | State |
|---|---|---|---|
| 1 | `FileUpload`, `UploadPool`, `UploadPoolProofs` | one file through the NNTP pool; the pool implements the abstract promise | done |
| 2 | `DiskReserve` (proved in `ServicesProofs`) | admission test, reservations, the counter beside the map | done |
| 3 | `TempSweep`, `TempSweepProofs` | job table, `state.json`, directories, the four sweeps, restart | done |
| 4 | `TaskLoop`, `TaskLoopProofs` | poll, claim, report, backup, backfill, drain, signals, restart | done |
| 5 | `OfflineQueue`, `OfflineQueueProofs` | watcher, job table, processor, operator, restart | done |
| 6 | `TorrentDownload`, `TorrentDownloadProofs` | metadata wait, slow, stalled and low-peer countdowns, completion against the ticker, seed phase with its deadlines | done |
| 7 | `Publication`, `PublishPipeline`, `PublishPipelineProofs` | staging, extraction, PAR2, sealing, slot, audits, posting, the deferred calls, a sweep beside it; the pipeline implements the abstract promise | done |
| 8 | `OfferFulfil`, `OfferFulfilProofs` | routes, claim, keepalive, staging, delivery, failure, lapse of a claim, crash | done |
| 9 | `CollectionScanner`, `GroupSync`, `Inventory`, `OfferSync`, `ServicesProofs` | the four services beside the tasks | done |
| 10 | a module of pure rules | layers of the configuration, title matching, obfuscated names, the blocklist, against reference definitions over bounded inputs | not done, see section 7 |

`FileUpload` is the abstract specification of one call of `UploadToUsenet`, `Publication`
that of the calls of `PublishDirectory`; `UploadPool` and `PublishPipeline` implement
them. `PublishPipeline` uses of the pool that a post of a file ends with all its articles or
with an error (`PostFile`, `PostFails`), and `OfferFulfil` uses of the pipeline that it
publishes what is in the directory or fails.

A run bundles the properties that can share an instance, so that each run is
one question about one part: the safety and the liveness of the pool are one
run, the small instances of the sweep are one run under the constraint
`Company`, and the parts whose models share nothing (the safety of the task loop, the disk
reservations, the services) are one run in which the initial state chooses which of
them moves.

A type invariant, and an invariant that a theorem states for every instance, is
not run again: the runs hold what is worth a counterexample.

## 3. Modules and code

Every module opens with the part of the code it stands for, and the comment
above each action names the function or the statement. A local step that no
other goroutine can observe belongs to the action before or after it; a lock, a
channel operation, a call to the site or the server, a file operation and a
write to shared state are where actions end.

**UploadPool** (`services/upload_usenet.go`). The dispatcher (`dpc`, `next`), the
channel `jobs`, the workers (`wpc`, `wjob`, `attempt`, `conn`), the CRC state of the
file (`registered`), the channel `results`, the closer, the channel `errs`, the
collector (`segments`, `ret`), the context (`cancelled`) and the articles on the
news server (`stored`, external). Chunks are part numbers. A post that fails may
have been kept by the server. The dispatcher's send and the wait for the CRC of
the other parts do not watch the context, as in the code.

**FileUpload** is the promise to the caller: while the call runs, at most one
article per part appears; it ends with an NZB of one article for every part, or
with an error; nothing happens after it.

**DiskReserve** (`services/disk_reserve_sweep.go`, the admission test of
`services/network_torrent.go`). The map and the counter are updated by separate
actions (`ReserveDisk` and `Count`, `ReleaseDisk` and `Uncount`), the file system is read
(`Stat`) before the counter (`Admit`, `Refuse`).

**TempSweep** (`services/disk_reserve_sweep.go`, `storage/storage.go`, and the
places where tasks and offers touch the table or their directories). `table` is
`GlobalState.Jobs`; each change is followed by `Marshal` and `WriteFile`, in the
goroutine that changed it and beside the others. A sweep is `SweepRead`,
`SweepKeep`, then `SweepPick` and `SweepRemove` for one entry after the other.
`Restart` loads the file, which a crash may have left torn, and sweeps. The site may
dispatch a request again while its process lives; `overtaken` is the history of those that
a sweep, which had passed by what an earlier run left, may still take (`Condemned`).

**TaskLoop** (`cmd/agent/main.go`). The poll loop (`SkipTurn`, `StartPoll`, `PollTask`,
`PollNothing`, `PollDrain`, `Claim`, `ExitOnSignal`), a goroutine for each task
(`Begin`, `Download`, `Publish`, `Fail`, `Mark`, `Accepted`, `Rejected`,
`Maintenance`, and so on to its cleanup), `runBackfill`, the rejections for disk
with their file, the pause after repeated aborts. The site is external: it may
take a report and answer with an error, hand out a request twice, and be in
maintenance.

**OfflineQueue** (`storage/jobs.go`, `services/network_offline_*.go`, the handlers of
`services/local_ui.go`). The claim is two statements (`ClaimUpdate`,
`ClaimFetch`). `Retry` and `DeleteJob` may come at any moment, `Retry` also from a
page that no longer shows the truth (`shown`). A source's release folder is the
value of `folder`, which two sources may share.

**TorrentDownload** (`services/network_torrent.go`). The caller's goroutine (`at`), the
goroutine in `WaitAll` (`waiter`), the torrent client. Time is counted in ticks of the
loop's ticker. The three rules are one definition each of when they are configured
(`Configured`), whether the options reach the loop (`Reached`) and what a bad tick is
(`Bad`); their start times and recovery counters (`since`, `good`) go through the same
`NextSince` and `NextGood`, as the code repeats the same statements three times. A
tick is `Reject`, `Tick`, `SeedEnd` or `SeedTick`; between ticks `Swarm` and `SeedSwarm`
move bytes and peers. `poor` and `empty` are histories that count bad ticks without
looking at the timers.

**PublishPipeline** (`services/publish_pipeline.go`, `upload_obfuscate.go`,
`upload_manifest.go`, `extract_*.go`, `upload_par2.go`, `upload_archive.go`). One job is
one run of `PublishDirectory`; `pc` names the step it is at. `stage` is its staging
directory, `content` the source, `changed` the files of the source that were
written to, `kept` the jobs whose `StagePath` the table holds. `Clean` is the deferred
calls, which run on every way out, `ReleaseSlot` the end of the critical section.
`Unpack` tells the six extractors apart by what they leave behind when they fail, what
they remove, and whether they write through an existing name (`zip`, `tar`) or
replace it. One file of the model is a file, the volumes of one archive, or all
recovery files. An archive in an archive is not modelled. `doomed` and `torn` belong to
a sweep beside the jobs: files it removes after the audit of the copies are remembered
in `torn` and excepted by `WholeRelease`, since the second audit counts videos only.

**Publication** is the promise of `PublishDirectory` to tasks, offers and the offline
processor: a call ends once, published or failed; only the call that holds the slot
adds to what is on Usenet, and only files of the release; of a release that is to be
sealed nothing can be read without the password; it is published only when a
subscriber can read back all of it (or a sweep has got at its copies), and afterwards
nothing is posted any more. The mapping (`Pub` in `PublishPipeline`) reads a posted archive
as the files the vault sealed into it (`ReadBack`), and the steps before the slot as
"preparing".

**OfferFulfil** (`services/offer_fulfill.go`, `offer_fulfill_remote.go`, `offer_stage.go`,
`client/offer.go`). Each agent has a loop (`pc`, `job`, `dir`) and, for each job, a
keepalive goroutine (`alive`, its ticker `due`, its call `calls`), which may outlive the
job by a call. The site is external: a claim lives two ticks of seven minutes; any call or its
answer may be lost. `have` and `paths` are the disk and the table `offer_paths`, which
the code never prunes. A release on disk is a directory (`Folders`) or a single file, which
`stageLocalContent` treats by rules of their own (`StagesWhole`, `StagesChosen`,
`StagesFile`). A download may end early and leave any of its files (`DownloadRemote`), as
`WaitAllGivesUp` of `TorrentDownload` has it; `cut` goes with the directory into what is
delivered.

**CollectionScanner** (`services/collection_scanner.go`). `snap` is the memory, `file` and
`tmp` the two names on disk; a save is marshal, open, write, rename (`Saving`), by a
handler under the mutex or by a scan without it. A writer holds its file by `fd`,
which a rename of the other moves. `alone` and `trust` are histories: who met nobody
while saving, and what is known of the file.

**GroupSync** (`services/network_groups_sync.go`, `storage/groups.go`, the handlers of the groups
page). A sync is its statements: fetch, read a row, insert or update it, at the first
sync also list and delete, then move the cursor. `late` and `excused` are the
histories of what the operator did between two statements and what an error, a
withdrawal or the operator keeps from the sync.

**Inventory** (`services/inventory_scan.go`, `inventory_service.go`, `inventory_probe.go`). The walk
looks at one place after the other while the library changes, then ships batches with
the flag `final`; the prober takes a batch, looks at file after file, and reports. One
root: rows are keyed by paths relative to it.

**OfferSync** (`services/offer_sync.go`, `offer_folder_scanner.go`, `offer_scraper_torznab.go`).
The folder pass and the tracker pass (`offering`) note a route and register the bucket, which
are two steps. The feed is the tracker's: an item may land at its head or drop out of it at
any moment (`Land`, `Drop`), between two pages and between two ticks, while `offset` and
`cursor` go on counting from the head. A page is one item. `scraped`, `landed` and `slipped`
are the histories of a pass, which begins where the cursor is 0 and goes on over ticks
and restarts: what was fetched, what is new, and what a drop has moved to where the walk
had been. The nyaa feed has one page and no cursor: it is a walk of one page.

**MCParts** puts these four, `DiskReserve` and `TaskLoop` side by side: each behaviour moves
one of them, for their models share no state. The offers are explored twice, whole beside a
tracker that stands still, and their walk alone beside one that moves.

`MC*` modules add the values of an instance, symmetry sets and, for the sweep, one
constraint. The modules
`*Proofs` hold the theorems and nothing else. Definitions introduced by
"Mutant:" are faulty variants of the definition beside them; the specification
does not use them.

## 4. Runs

| Run | Shows | Bounds, and why they are enough |
|---|---|---|
| `pool_all` | a successful call has an article for each chunk; the pool implements `FileUpload` (one article per part although replies are lost, nothing after the return); the call returns; the dispatcher is served while a worker lives | 2 workers, channels of 1, 5 chunks: more than workers and channels hold together, so that the dispatcher can be stuck when the workers die. 2 attempts: one retry, one last failure. Part 1 is left in the CRC state by an earlier upload |
| `sweep_all` | no sweep takes a download in use, but one that had passed it by before the request was dispatched again; an ended request leaves nothing and is not protected | two requests, of which one runs twice, beside their own sweeps; one of them beside the hourly sweep, run twice, or two run once; one request, an offer, the hourly sweep and a crash; two requests and a crash. A race needs a sweeper and a victim, the re-dispatch a second run of it, and the crash any of the steps |
| `sweep_redispatch` (violated) | see section 8 | two requests, each dispatched twice at most |
| `loop_live` | every task ends; a drain ends the process | 1 request, 1 goroutine, 3 interventions, backups that may fail |
| `loop_shutdown` (violated) | see section 8 | one task and a signal |
| `queue_all` | a completed job's folder holds its NZB; status, error and NZB agree; nothing is posted twice unasked; every job ends | 2 sources whose folders may coincide, 3 ids (a deletion and a new detection), 2 interventions: a retry and a crash, two deletions, and so on |
| `torrent_all` | a complete download is never rejected; a poor one does not last; every download and its seeding end, and so does the goroutine in `WaitAll` | one download of 6 kinds, so that each caller, each way and each rule occurs; 6 bytes, of which 5 are 95 %: two fast ticks fit below, so that a countdown can be cleared and start again; limits of 2 and 3 ticks, recovery after 2; one lost piece |
| `publish_all` | an NZB names the whole release; the pipeline implements `Publication`: nothing that is not for Usenet is posted, nothing of a sealed release in the clear, and by one call at a time; no sweep takes up a staging directory between the first copy and the last article; every job ends, so that no way out keeps the slot | a task that seals and an offer that does not, with a video, an archive of any kind and a stray file; one job is cancelled, one directory loses files to a sweep: the jobs meet only at the slot, so that two of them, of which one fails anywhere, are all the ways it can be held |
| `publish_source` (violated) | see section 8 | one job, a zip with an entry of a name beside it |
| `offer_all` | an agent holds the claim it works under; a delivery is what was asked for, and lacks a file only of a download that ended early or where the source is a single file; a claim without a job ends | two agents, one with a film of one file and two episodes of a season, the other with a single episode and a tracker for the film; a request for the film and one for two of three episodes, one of the two open (`MCInit`: the other is on no disk): agents compete for it, and may crash at any step |
| `parts_all` | one task per request, finished uploads kept, one verdict per lock, rejections honoured, the limit kept, a drain loses nothing; the counter of the reservations is the map's sum up to updates under way, and tasks that saw each other's claims fit; `collection.json` is whole and current; a group sync misses nothing and overwrites no older override; the inventory drops nothing unseen and blanks nothing unlooked; offers have routes, and a pass over a moving feed passes nothing by but what slipped | 2 requests, 2 goroutines, a limit that changes between 1 and 2, 2 interventions of any kind, 3 dispatches: one request can be handed out again while the other runs; 3 tasks of two sizes: three small ones fit below the cap, or a small and a large one, two large ones do not; a video in a folder and 4 changes, which is a scan and an edit that overlap and one more of each; 2 groups and 3 publications; 3 files of which a walk takes 2 and a probe batch holds 2, one change of the disk; 2 items, the first without a link, and a third that may land, at most 2 pages a tick: a drop in front of the cursor makes one slip |
| `inventory_unreached` (violated) | see section 8 | 3 files of which a walk takes 2, one change of the disk |

The larger runs: `sweep_all` 4.5 million distinct states, `parts_all` 2.7 (of which the loop
1.2), `publish_all` 0.7, each in two to three minutes; `offer_all` 0.2 million, with the liveness in
the same time.

The bounds are constants of the modules: `MaxRetries`, `QueueCap` (also constants
of the code), `MaxDispatch`, `MaxCrashes`, `MaxEvents`, `MaxHanded`, `MaxJobs`, `MaxPeers`,
`MaxUploaded`, `MaxFailures`, `MaxChanges`, `MaxVersion`, `MaxMoves`, `MaxOpen`, `Last`,
`Items` (`MaxFiles`, `ProbeBatch`, `MaxPages` are settings of the code); the comments
"Bound:" in `PublishPipeline`; `MCInit` of `MCOfferFulfil`; and the constraint `Company` of
`MCTempSweep`. Deadlock is not
checked where the modelled systems may stop: an upload returns, tasks, releases and
interventions are bounded. The runs of the task loop, `offer_all` and `parts_all` check it.

## 5. Fairness

- `UploadPool`: weak fairness of every goroutine. Dials and posts carry deadlines
  (`nntpDialTimeout`, `nntpOpTimeout`), backoffs end, and no two steps of one
  goroutine disable each other.
- `TaskLoop`: weak fairness of the loop, the goroutines, the end of a pause and the
  start of the process by its supervisor. Strong fairness that a task which goes on
  reporting gets an answer other than maintenance: maintenance ends some time. Strong
  fairness that the loop polls and that a poll is answered with the command: the
  turns in which processor or disk are short do not go on for ever.
- `OfflineQueue`: weak fairness of the processor and of the start of the process.
- `TorrentDownload`: weak fairness of the ticker, of each ready branch of the select (Go
  chooses among them at random), of `WaitAll` once it can return, of the metadata wait,
  which has a timer, of the caller's pipeline, and of the deadline of an offer.

- `PublishPipeline`: weak fairness of each job's next step: files are finite, tools and
  posts have deadlines or end. Strong fairness of the acquisition of the slot, since Go's
  mutex hands itself to the waiter after a millisecond of starvation.
- `OfferFulfil`: weak fairness of each loop, of the keepalive goroutines and their calls,
  which end with the 120 seconds of the HTTP client, of time, and of the site's sweeper
  of expired claims.

`TaskLoop` and `OfflineQueue` take for granted that a pipeline ends. `Ends` shows on what
this rests for downloads: on `torrent_no_full_seed_timeout_mins`, whose default is off.
Without it a download from a `.torrent` in a dead swarm ends only by a cancellation, and
the offline queue, which has one processor, stands still with it.

Nothing is assumed of cancellations, signals, operators, crashes or the server's
choice between its answers.

## 6. Proofs

The theorems hold for every value of the constants that satisfies the named
assumption of the module (`PoolAssumption`, `SweepAssumption`, `LoopAssumption`,
`QueueAssumption`, `DownloadAssumption`, `PipelineAssumption`, `OfferAssumption`,
`CollectionAssumption`, `GroupAssumption`, `InventoryAssumption`, `OfferSyncAssumption`,
`DiskAssumption`), so for
any number of workers, chunks, requests, jobs, agents, files, folders, groups and crashes,
and any limits and lengths. Each is proved from an inductive invariant of named parts;
the lemmas show one step after the other that it is kept.

**UploadPoolProofs.** Proved: `TypeOK`, `OkMeansComplete`, `SegmentsOnServer` and
`OneArticlePerPart`, `FinalPartAwaitsEncoders`, `NoConnectionAfterReturn`,
`QuietAfterReturn`, and that the pool implements `FileUpload`. `OkMeansComplete`
speaks of the end only, and is not inductive: the invariant says where each
chunk is at any moment. The channel `jobs` is an interval that ends just
before `next` (`JobsInOrder`); a chunk is in at most one of `jobs`, a worker's hands,
`results` and `segments` (`HeldOnce`, `SentOnce`), and if no error was reported and
the context lives, in one of them (`NoneLost`); a worker that is gone had a reason
that `errs`, the context or the closed channel still shows (`EndsExplained`). For the
last part, `CrcInOrder` says that all smaller parts have left the channel, so
that those not recorded are in the hands of workers that are encoding. The
refinement maps a post that the server keeps to `Store`, the return to `Succeed` or
`GiveUpFile`, everything else to a stutter.

Of `Returns` the part that is safety is proved too. `WorkRunsOut`: a call takes a bounded
number of steps. `WorkLeft` counts what is left: for each chunk, each attempt at it and each
stage of an attempt as an element of a set (`PartWork`), and the ends of the dispatcher, the workers,
the closer, the caller and the context (`DispatchWork`, `Alive`, `Ends`); each action makes the sum of the
cardinalities smaller (`StepUsesWork`), with a retry paid by the attempts left. `NeverStuck`: before the
return, dispatcher, workers, closer and caller do not all wait. A full `jobs` has a reader, a full
`results` has the caller, and the closer comes when the workers are gone; each predicate of waiting is
the negation of its goroutine's guards. That the steps possible are taken is the fairness of section 5, so
`Returns` itself stays with the run.

**TempSweepProofs.** Proved: `TypeOK`, `DownloadKept`, `NothingLeftBehind` and
`EndedUnprotected`, for any number of dispatches of a request in the life of a process. The
invariant says that a request's directory is in the table while it is used (`Listed`), that a
sweeper picks an entry to remove only after it has read the table (`SweepShape`), and that a
directory which a sweep is about to remove belongs to no running request, unless that was
dispatched again after the sweep had passed the directory by (`Doomed`); a request's own sweep
has in hand what the request has left behind (`OwnSweep`).

**TaskLoopProofs.** Proved: `TypeOK`, `OneTaskPerRequest`, `OneVerdict`,
`CooldownHonoured`, `CapacityKept`; `FinishedKept` and `DrainsFirst` if backups can be
written (`SureWrites`). The invariant adds that the poll loop keeps room for the task it
is about to claim (`Room`), that `runBackfill` removes only the backup of a request
the site has taken (`RemovesTaken`), what each place in a task has told the site
(`Told`), and that every rejection reported is in the table and the file or about
to be entered (`Remembered`).

**OfflineQueueProofs.** Proved: `TypeOK`, `CompletedHasItsNzb`, `StatusExplainsJob`,
`NoUnaskedRepost`. The invariant says that ids grow and a source has one job
(`Table`), what the processor holds agrees with the table or the operator has
intervened (`InHand`), and that a source counted as uploaded is completed, or
stranded, or being finished by the processor at this moment (`PostedOnce`).

**TorrentDownloadProofs.** Proved: `TypeOK`, `CompleteNeverRejected`, `PoorNeverLasts`,
`Announced`, `DeadSwarmLeft`. The invariant says that the bad ticks in a row are no more
than the countdown has run (`Counted`), that a running countdown was shown at the last
tick or had its rule out of force there because 95 % had arrived (`AllVisible`), that
bytes do not shrink unless a piece was lost (`NothingLost`), and that seeding's quiet
time covers its empty ticks (`Idling`).

**PublishPipelineProofs.** Proved: `TypeOK`, `WholeRelease`, `OnlyContent`, `StageSpared`, that
the slot is held exactly by the job in the critical section (`SlotDiscipline`), that the
pipeline implements `Publication`, and when the source is safe. `WholeRelease`
speaks of the end: the invariant follows the release through its containers. A
staging directory holds only what may be shipped (`StageInv`), is complete once the
number of copies equals the number of files (`CopyInv`), stays whole while archives are
replaced by what they hold (`WholeInv`, with the lemma `UnpackedIsWhole`), is then the
vault's content (`VaultInv`), and what is posted and still to post is all of it
(`PostInv`, `ResultInv`); none of it if a sweep has torn it. The instance of the run has no
stale recovery files; the proof covers them.

The refinement (`PipelineImplements`, from `StepImplements`, step by step) maps `Acquire` to
`Begin`, a post to `Post`, the NZB to `Succeed`, every way out that fails to `GiveUp`, the deferred
release to `Leave`, a file lost to a sweep to `Spoil`, and the rest to a stutter
(`QuietShowsNothing`). It needs the invariant: that a post adds only content, and of a
sealed release nothing but the archive, is `VaultInv` and `OnlyContent`; that the poster is
the holder is `SlotDiscipline`; that success is complete is `ResultInv`; and that a job has
no result before its last steps is a part of `PostInv`. `OnlyContent` is not run: a post
that breaks it is no step of `Publication`.

`SourceSpared` states when the content directory is read-only, which the comment of the
code promises always and `publish_source` refutes: `NoWriteThrough` asks that no
directory is linked (each copy is made on another device or under an obfuscated name), or that
no zip or tar holds a name that the release has too. So a name met twice, in an archive that
is unpacked in place beside hard links, is the only way to the counterexample.

The safety in `Ends` is proved as `JobsMoveOn` (each step of a job takes it on to a later place, or
a file off its walk, and nobody sets it back) and `SomeJobGoesOn` (a job waits for the slot
alone, and its holder does not).

**OfferFulfilProofs.** Proved: `TypeOK`, `ClaimKept`, `DeliveredScope`. `ClaimKept` is not
inductive: a claim that has lost a tick must have its keepalive on the way (`ClaimInv`),
which rests on a goroutine living exactly as long as its job, on the calls of only
one tick being under way, and, once a call has failed, on none of an older job being left
(`KeepaliveInv`, `CallInv`). For `DeliveredScope`, `LoopInv` says what the directory of a job
may hold at each step (`Fits`): nothing, the file of a single-file source, or all that was asked for
unless the download was cut; `HaveInv` says that the disk holds no more of a release than there
was.

**ServicesProofs.** Proved of the disk reservations and each of the four services: its
type invariant and its properties in `parts_all`. *Inventory*: what the walk has passed was
looked at (`WalkInv`), and the report of the prober names only files it has come to
(`ProbeInv`); and `ReadableKept`: while every file can be read, nothing unseen is dropped, so that
the counterexample of `inventory_unreached` has no other cause. *OfferSync*: a
bucket is noted before it is registered (`NotedInv`), and what lies before the cursor or
the offset, at this moment, was fetched in this pass, is new, or slipped there (`Met`,
`FetchedInv`, `CursorInv`), whatever lands in the feed or drops out of it (`LandMeets`,
`DropMeets`). *CollectionScanner*: a writer that has met
no other has the temporary file to itself (`LoneInv`, `OpenInv`) and writes what the
memory holds (`ImageInv`). *GroupSync*: a row in hand exists and is the operator's only if
taken over since it was read (`HandInv`), what was published is in the table, or
on the list, or excused (`DutyInv`), and between syncs the table knows everything up to
the cursor (`RestInv`).

*DiskReserve*: the counter and the map are sums over a set of tasks. A recursive sum would
need induction over data; the model has the sum of the sizes as the cardinality of the
numbered bytes of the tasks (`Numbered`), for which the library's facts on finite sets
give what is needed: a sum grows with its set and its summands (`SumMonotone`), splits
at a subset (`SumSplit`) and changes with one summand by its difference (`SumChange`). `NoPhantomBytes`
speaks of the moments when nothing runs; the invariant is that the counter is at any moment the
sum of what each task has in the map less what it has still to add (`Credited`,
`CounterInv`), with what that may be at each of its steps (`DiskStages`). `SightedTasksFit` is not
inductive either: an admitted task holds nothing until its claim. The invariant counts it
from its admission on (`Promised`, `PromiseInv`): the admission compares its size with what was
free less the counter, and the counter is at least what the others were promised if none of them
is between its admission and its count (`AdmittedFits`); every other step leaves or shrinks the
promises (`PromisesShrink`). What was free never exceeds the budget, so the reading of the disk
may be as old as it likes.

Only model-checked: every liveness property (`Ends` of the pipeline, the download and the queue, the
return of the pool, the end of tasks, claims and drains), since TLAPS proves no
liveness under fairness and does not reason about `ENABLED` (of the pool and the pipeline, that the steps run
out and that not everyone waits is proved); and the four claims of the code
that section 8 refutes by runs, of which three are proved under the condition that separates them
from their counterexample (`SourceSpared`, `ReadableKept`, and `DownloadKept`, which excepts the
requests of `overtaken`).

## 7. Not modelled

`PROJECT.json` lists every component with its state. Left out, and why:

- Media tools, parsing of titles and feeds, the encoding of articles and of HTTP messages,
  templates, browser extension, platform shims: they keep no state between calls and
  their correctness is in the data, which TLC enumerates badly and TLAPS cannot
  reason about (recursion over strings).
- Self update and version (`client/version.go`): tables of build information and reports
  over HTTP.
- Configuration (`config/config.go`, `layered.go`): each key is read once at start, and the
  precedence of the layers is one expression without state.
- The watch handoff (`network_watch_handoff.go`): one writer and one reader of a marker; what
  can go wrong is the time resolution of file systems (see section 8).
- The VPN watchdog: it compares an address and pauses the queue by the flag that `TaskLoop` has
  as `PauseQueue`.
- The settings, secrets and watch pages of the local UI, the status reporter, the
  blocklist's extensions: data, read afresh at each use.

In the modules that exist: bytes of chunks, articles and files; wording of errors.
`NNTP_CONNECTIONS=0`, with which an upload succeeds without a segment, is excluded by
`PoolAssumption`. A change of the disk cap at run time is not modelled. A file that
shrinks while it is read is covered by the constant `Readable` and is a success of the
call, as in the code. After a delivery the sidecar uploads of an offer change
nothing of it and are left out. Two inventories of different roots are not composed.

## 8. Where the code differs from what it says

Each is a run that TLC ends with a counterexample; `PROJECT.json` quotes the lines.

- `loop_shutdown`: on a signal `main` returns while a finished upload is still being
  reported; the NZB is neither at the site nor on the disk.
- `publish_source`: the staging directory shares its files with the source by hard links,
  and the zip and tar extractors write through them: the content directory is not
  read-only, as its comment has it, but where `SourceSpared` says.
- `sweep_redispatch`: the sweep at the end of a task lists the directory a failed run of a
  request has left, and removes the one of its next run: it removes by name, and its keep-set is
  older than the entry of that run. `DownloadKept` shows that no other download is taken.
- `inventory_unreached`: a walk that passed over an unreadable directory closes its
  generation, and the site drops the files below it; `ReadableKept` shows that nothing else does.

Seen while modelling, without a run of their own.

*Tasks and disk.* An offer downloads into a directory that running sweeps match, and is
in no table before its first progress tick (`offer_fulfill_remote.go:179`). After a crash in
the middle of the removal of a published download, its remains pass the resume check and
are published (`main.go:1379`). The slow and low-peer options are dropped on the way of a
download from a `.torrent` (`network_torrent.go:262`): every task with cached metadata, every
private upload, every offline job. The admission test and the reservation are two steps, so
that two downloads may both pass and together exceed the disk (`SightedTasksFit` without
`\ blind`). The slow and low-peer countdowns keep ageing
above 95 %, where they are not shown, and may reject at once when a lost piece takes the
download back. An empty answer for a private `.torrent` is no error, and the process panics on a nil
session (`main.go:1574`). Entries of offers and offline jobs never leave the table. Two saves
of the table may reach the file in the wrong order (`storage.go:56`), and an unparsable file is
ignored. `InitDiskLimit` ignores 0, so that a cap cannot be lifted without a restart. The command
`stop_after_current` is not seen while the queue is paused or the disk is short. A
backup that cannot be written is lost silently (`main.go:1936`). On a signal a running
task is reported as "skipped by user" and an offline job as failed. The claim of a request
that is already running leaves the second lock unanswered. YEnc CRC parts of an aborted
upload stay in the table of the next one.

*Offline queue.* Two files with one title in one group share a release folder, and the
second NZB replaces the first (`network_offline_processor.go:321`). A retry from a stale page
during a run is overwritten by the mark that ends the run. The status "cancelled" is never
used. The watch handoff compares times or sizes only, and a directory by its own entry.

*Publishing.* The stage directory is made before the `StagePath` that protects it: a sweep between
the two makes the job fail. The manifest audit compares counts, not names. A cancelled
job waits for the slot before it notices. Obfuscated names break the volumes of an archive
set apart. Recovery data is made before sealing, so it is inside the archive. `fitBlockSize` rounds
down and may exceed 32768 slices. Entries beyond 50 GiB are cut silently by the
`LimitReader` of the extractors. The list of uploadable names lacks comics, books and plain tar.

*Offers.* A remote download that `WaitAll` ends early is published as the whole release:
`network_torrent.go:853` makes no error of missing bytes, and `offer_fulfill_remote.go:179` does not compare. Of a source
that is one file `offer_stage.go:47` asks only that its name be one of the filter's, so that a
request for several files is closed with one, though `offer_stage.go:94` says "Refuse rather than
deliver a partial partial". `DeliveredScope` excepts both by their cause. The feed
is paged by offset while it moves, so items slip a tick (the code says so); one that drops in
front of the walk hides another until the next pass. An unfiltered offer of a folder is staged as a link to it, which the pipeline's walk
does not follow: it always fails. `PruneStaleOfferPaths` is never called, and a stale local
path shadows the remote route. Files outside the list of uploadable names are dropped from a
filtered delivery. A keepalive call may come after `/fail` and claim the request
again until it expires. A scraped release with neither link nor file is registered as
deliverable. The cursor is keyed by a short name that two sources of one tracker share. An error
of a register loses the batch until the walk wraps around. `isInSubdirectory` looks at
the first component only, though its comment says any.

*Collection.* `QueueSelectedUploads` with nothing to queue clears flags in memory without saving.
"queues every file under it" leaves out nested folders. A scan swaps the snapshot, then
writes, its comment says the reverse; it marshals while handlers write, and drops their
overrides. "Atomic write" does not hold while a scan and an edit share the `.tmp`.

*Groups.* A 404 at the first sync after a start wipes all site groups. A group whose upsert failed
is not asked for again before a restart. Deleting a local override brings the site's row back only
after a restart. An override made between a sync's read and its write is overwritten.

*Inventory.* Two walks of same-named roots in one second share a generation. A shutdown kills
`ffprobe`, and the file is reported as undescribable for good. Rows are keyed by paths
relative to the root, so that two roots may collide.
