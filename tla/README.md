# A TLA+ verification project for amdl

amdl is a download server for Apple Music: an HTTP API and its event streams in front
of a queue of jobs, whose tracks pass a pipeline of transfers, decryption and output
files, with a command line, a terminal UI and a desktop app as clients. This directory
specifies its concurrent parts in TLA+, checks small instances of them with TLC and
proves their safety properties with TLAPS for every value of the constants. Paths in
this file are relative to `src/internal/` unless they start with `apps/` or `docs/`.

1. [The system](#1-the-system)
2. [Modules and how they correspond to the code](#2-modules-and-how-they-correspond-to-the-code)
3. [Runs](#3-runs)
4. [Fairness](#4-fairness)
5. [What is proved](#5-what-is-proved)
6. [Where the code and its documentation disagree](#6-where-the-code-and-its-documentation-disagree)
7. [What is not modelled](#7-what-is-not-modelled)
8. [Plan](#8-plan)

## 1. The system

The server (`server#Run`) is one process that owns a SQLite store. It runs by itself, as
a service of one computer, or inside a command or the desktop app. `PROJECT.json` lists
all components with their sources, and every hazard with its line.

| Part | State | Operations | What makes it correct |
| --- | --- | --- | --- |
| Job manager (`jobs`) | job and item rows; admission channel, recovered backlog, `cancels`, `finalizing`, two mutexes | SubmitBatch, Cancel, Retry, Delete, workers' run, RecoverUnfinished, Shutdown | a job has one run; a queued job is delivered; a verdict stands while it is announced; a completed job has no unprocessed track; every job ends |
| Job event stream (`api/job_events.go`, `events`, `client`) | event rows; a one-slot wake per subscriber; the cursor | publish, subscribe, drain, end, snapshot, follow | no event is missed, a stream ends of itself only with everything of its run, a follower returns and shows what the store holds |
| Downloads feed (`api/downloads_feed.go`, its clients) | the cursor; the client's list and counts | page, coalesce, snapshot, delete, progress tick, reconnect | the list settles on the store; a deleted job does not return |
| Limits (`limits`) | permits and a heap of waiters; a shared cooldown | Acquire, release; DoWith429Retry | no permit is lost or idle, nobody who ranks below a waiter goes before it; a penalty stands for its retry and for all but the few requests past their check |
| Library watcher (`librarysync`) | anchor rows and their generation, strikes per album | a pass, ResetAnchor | no added song is passed over, none that was there is submitted, a reset holds |
| Hook dispatcher (`hooks`) | pending per job, slots, two contexts, a wait group | Dispatch, execute, Shutdown, Wait | one outcome per execution, filed before the job looks idle; shutdown ends |
| Transfer (`media/transfer.go`, `resume.go`) | checkpoint file and sidecar; the answer being read | request, body, reconnect, complete | what is returned is one object, whatever changed or crashed |
| Track pipeline (`media`) | output lock table, three permit pools, staging and output files, items | select, claim, fetch, decrypt, finalize, retry, fallback | one writer per output, a done item keeps its file, every track ends |
| Item progress (`media/item_*.go`, `progress_gate.go`) | the item, what was last told, what the gate holds back | status, stage, meter, flush, retry, fallback, end | a reader is one meter value behind at most and ends with the item as it ended |
| Wrapper client (`wrapper`) | key templates with shared fetches and lanes; claims, sessions and timers of logins | templateFor, M3U8, StartLogin, SubmitTwoStep | nobody is cancelled by others' leaving; a claim goes with its one login |
| Managed guest (`wrapperhost`) | mode, the guest, the disk, login arguments, `control.json`, `state.json`; part files of an install | Run, Login, Logout, stop, boot, backoff; Install | one guest has the disk, credentials go with their login, a resumed install is the artifact |
| Config store (`config`, `api/config_api.go`) | `config.yaml`, the snapshot, the log level | PUT, reload, edits by hand | the file keeps what it was given, the level follows |
| Log (`logging/store.go`, `api/logs.go`) | a ring, subscribers, a client's cursor | append, query, subscribe, tail, page | nothing a client lacks is still there to be had |
| Web token (`applemusic/tokencache.go`, `auth.go`) | the cached token, its expiry | get, drop on 401, refresh ahead | no fetch without a reason, no token used after its end |
| Local backend (`local`, `apps/*/internal/{app,cli}`) | `backend.lock`, `runtime.json`, the app's connection | Start, Serve, attach, Stop, watch | one process has the database; the app leaves none behind |
| Desktop store (`apps/desktop/internal/store`) | links, search, artist and album screens; jobs, followers, notifications | type, submit, search, page, open, connect; feed, follow, read | an answer is shown for what it was asked for; ends are told once |
| Motion covers (`apps/desktop/internal/motion`) | entries, players, slots, a directory of renditions | Ensure, open, sweep, trim, SetFFmpeg | no ffmpeg without an owner, at most `maxPlayers` |
| Setup screen (`apps/desktop/internal/{setup,ui}`) | typed addresses, tests, tools, installs | type, test, apply, install, cancel | only what answered is applied, one installer at a time |

How they interact. A handler calls the manager; the manager writes rows and events and
wakes streams through `events.Hub`, whose subscribers read the store again. Workers call
`media#ProcessJob`, which reports back through `jobs.Reporter`. Terminal states call
`hooks#Dispatch`; `Delete` and the end of a stream ask `hooks#Pending`. Tracks and
catalog requests share the semaphores; decryption asks the wrapper client for keys,
whose server may be the managed guest. The watcher is a client of `SubmitBatch`. The
clients see the server through the two streams, the log stream and reads.

The hard behaviours are the steps between locks. A submit holds `submitMu` over several
store calls; a run has deferred cleanups after its last write; hooks outlast the run that
dispatched them; streams conclude from several reads; the store call between two steps
may fail; a shutdown cancels the same contexts as a user does; the process may stop
between any two writes. In the clients they are answers: of a request whose question was
since changed, of a server since left, of two reads that overtook each other.

## 2. Modules and how they correspond to the code

Each module lists its constants and variables with their code names. `PROJECT.json`'s
`map` gives the lines each definition stands for. A critical section is one action;
everything the code does outside a lock is a step of its own. Definitions whose comment
begins with `Mutant:` are not part of a specification: each is a plausible mistake that
a property catches, and it stands beside what it replaces. `PROJECT.json` names one of
them for each property of a run; the others are kept, since they show what further
parts of a conjunction are for.

### The server

**JobManager** is the centre. Clients are request threads with a program counter (`cpc`),
workers are goroutines (`wpc`), and `phase` is the process. `SubmitBegin` .. `SubmitDone`
split `SubmitBatch` where `submitMu` is held without `m.mu`; `CancelRunning` and
`CancelQueued` .. `CancelClear` are the two paths of `Cancel`; `Retry` and `Delete` each
are one critical section; `Claim` .. `Cleanup` is `run` with its deferred calls in order;
`RecoverRow`, `RecoverEnqueue`, `Serve`, `Shutdown` and `Restart` are the life of the
process. Items are the set of item states a job has; a track's work is `ProcessSync`,
`ProcessTracks`, `ProcessFails`, `ProcessPanics`, `ProcessCloses`. `Faults` names the store
calls that may fail; a failing call that ends its handler with nothing changed is no
action. A restart from any state is a crash; after `Shutdown` it is an orderly one.

**JobLifecycle** is the abstract specification: what a REST client may see of a job's
row, with no threads or queues: at most one active job per canonical key
(`OneActivePerKey`), a run ends with one terminal event, only an ended job is retried or deleted. `JobManager`
implements it (`ImplementsLifecycle`), with `status` mapped to itself and `ended` to the count of
terminal events, which `FinalizeJob` writes in one transaction with the terminal row.

**JobEventStream** follows one job. The writers (submitter, worker or cancel, retry,
hooks) record and publish as two steps, because the manager publishes after it has
recorded, partly outside its locks. The handler is `streamJobEvents` step by step:
subscribe, head check, backlog, wait, drain, `eventsExhausted` in three reads, second
drain. The follower is `FollowJob`, from its snapshot on. **EventReaders** is what the
stream promises: readers that go through a log in order from where a snapshot was taken,
get no event twice and leave none out, with no pages, wakes or connections. `log` and
`purged` are the store's events, `at` is the follower's cursor, `shown` its view, and it is
`reading` from the request of the stream to its end. What ends a stream in its loop is of
two kinds. A broken connection or the watchdog (`Cut`) is an error to the client, which comes
back from its last event: no step of EventReaders. A shutdown (`EndStreams`) lets the
handler return, and the answer ends as cleanly as an exhausted stream's: the client reads
the detail again and takes its cursor for its own (`client/follow.go:209-216`, `:175`), so
events in between never reach it. That is a `Stop`, and the detail a new `Look`.

**DownloadsFeed** has the writers as lanes that file an event and publish it, the
handler's page, counts, snapshots and sends, the wire with one message, and the client's
list. Rows are read when a message is built.

**PrioritySemaphore** and **RequestGate** are the two types of `limits`. The heap is
the set of waiters whose least element by `Less` is the root, which is what
`container/heap` provides; the gate takes its permits through the semaphore's own
actions and counts time in ticks left of each timer. Acquire's last look at the cooldown
and the start of the request are two steps (`Admit` or `AdmitToken`, then `StartRequest`),
because the lock of the cooldown is free between them. Three variables are history, which no
guard reads: `ahead`, who waited before a caller when it came; `owed`, what is left of the
delay a caller's own 429 asked for; `escaped`, whose requests started in this cooldown.

**PermitPool** is the abstract specification of every semaphore here: at most `Permits`
users hold one, and a permit is taken, given back, or handed from one user to another.
`PrioritySemaphore` implements it (`ImplementsPool`): its heap, ranks and hand-overs are
how a permit finds its next holder. It is also what the tracks and the key lanes are
shown to keep to (`Pool(l)` in TrackPipeline, `KeyPool(s)` in KeyTemplates).

**LibrarySync** has the user's library as a sequence that changes during a pass. A
pass is `LoadAnchor`, `ReadPage`s, `Lookup`s, `SubmitAlbums`, `SaveAnchor`; failures end it.

**HookDispatcher** has one program counter per execution with its deferred calls in
order, and the process's shutdown: close, stop retries, drain, abort, return.

**RangeTransfer** models a byte by the object it was read from. The server may change the
object behind a source between two requests and may ignore `If-Range`; the checkpoint and
its sidecar survive a crash, and a power loss takes a tail that was not synced.

**TrackPipeline** composes the output lock table, the in-flight, download and decrypt
permits and the files of several tracks. A semaphore there is a `PermitPool`, once for
each of the three limits; that a waiter is served is an assumption of fairness.
**ItemMeter** is what one of those tracks tells: its statuses and stages, two meters in
half percents, the gate that spaces meter events, and a reader that has the events only.

**ConfigStore** has three keys for all: one with a follower (the log level), one whose
value is a list, one that an environment variable overrides. **TokenCache** counts time in
checks of the refresher. **LogStore** has the ring with its head, a client that tails it
and one that pages through it; a filter is the set of records that match.

### The wrapper

**KeyTemplates** has the entries of the template cache as slots that callers and fetches
refer to, the `/key` lanes and the playback permits they share with `/m3u8`. **LoginBook**
has the claims, sessions and timers of logins through a wrapper-manager, whose own login
processes may outlive a call. **WrapperGuest** is `wrapperhost.Supervisor`: `Run` with its
boots, backoffs and turns, a login with its prompts, a logout, `amdl wrapper stop`, a
guest that dies at any moment, and a process that stops or crashes. **GuestInstall** is
`wrapperhost.Install`: a byte is the place it belongs at, parts and the single stream
adopt each other's file, and the process may die before any write.

### One computer and its desktop app

**LocalBackend** has every backend somebody refers to, the lock, `runtime.json`, the service
manager, commands that embed a backend, and the app with the goroutines that look for
one. **DesktopHome** holds Home's field, the search, the artist and the album screens: all
state changes on the UI thread, and each answer carries what it was asked under.
**DesktopJobs** is one download as the feed, its follower, a read of its tracks and the
answer of its submit tell it; a row is the number of lifecycle events it had when it was
read. **MotionCovers** has the entries, the opens under way and the directory;
**SetupScreen** the form, the tests, the package managers and the guest's installer.

### Proofs and instances

`JobManagerProofs`, `RequestGateProofs` (semaphore and gate), `StreamProofs` (event stream
and hooks), `TrackPipelineProofs`, `WrapperProofs` (guest, keys, logins, install, local
backend), `MirrorProofs` (token, config, meter, transfer, log, library), `ScreenProofs`
(setup, covers, feed) and `DesktopProofs` (Home and downloads) hold the theorems. Each
`MC` module has the instances TLC runs.

The modules compose by what they assume of each other. `RequestGate` is built on
`PrioritySemaphore`, which implements `PermitPool`; each limit of `TrackPipeline` and
each semaphore of `KeyTemplates`, the one that keys share with streams included, is
proved to be a `PermitPool` too (`TracksUsePools`, `KeysUsePools`).
`JobManager` and `JobEventStream` take of the dispatcher that `pending` drops after the
outcome is recorded (`PendingCoversOutcomes`) and that the last wake comes after
(`LastWakeFindsIdle`). `JobManager` takes of the pipeline that it returns once cancelled
(`TracksEnd`), and `JobEventStream` of the manager the order of rows, events and marks.

## 3. Runs

Modules that share no state run side by side in one run where that is cheap: a variable
`part` picks the module a behaviour is of, and the others keep one initial state. A
property of such a run is one module's, and its states are the sum of theirs. The
properties are conjunctions of named parts; the table names the parts.

| Run | Instance | What it shows |
| --- | --- | --- |
| `jobs_race` | 2 jobs of one key, 2 workers, 2 clients, a channel of 1, one retry each, claims and terminal writes may fail; symmetric | `CancelReachesRun`: stale deliveries and early retries never give a job a second run or a cancel entry that is not its own. `AdmissionStands`: the send under the locks has room (`EnqueueNeverBlocks`), and the dedup decides, not the unique index (`IndexNeverHit`) |
| `jobs_life` | 1 job, 2 workers, 1 client, one hook per event, 6 faults, one retry, one restart | `FinalizeWindowStable`, `DeletedIsQuiet`, `QueuedIsDelivered`, `CompletedIsDone`, the refinement of JobLifecycle, and `ActiveJobEnds` |
| `jobs_stop` | 1 job, 1 worker, a shutdown | finds `InterruptedStaysRunning` violated: see section 6 |
| `stream_follow` | JobEventStream: 1 follower, pages of 2, five settings (a retry; a hook that outlasts the run and a stream that breaks or that the server ends; a cancel that overtakes the submission; replays with failing reads, one of them with such an end). HookDispatcher: 2 executions, 2 jobs, 1 slot, 2 attempts | `EventsArrive` (`NoEventMissed`, `EndHasAll`), `ViewSettles`; `OutcomesArrive` (`PendingCoversOutcomes`, `LastWakeFindsIdle`); `WaitsEnd` (`FollowEnds`, `ShutdownEnds`) |
| `screens` | DownloadsFeed: 1 or 2 jobs, five settings (whole life with a cover; shared pages; cut anywhere with pages of 1; progress ticks; lost events and failed reads). MotionCovers: 2 covers of one rendition, 1 player, 2 slots. SetupScreen: 2 addresses, 2 tools, the guest | `FeedHolds` (`FeedSettles`, `EndsAreSeen`, `NoResurrection`); `PlayersHold` (`NoneOrphaned`, `PlayersCurrent`, `SweepIsDue`, `PartsAreFetches`); `SetupHolds` (`AppliedAnswered`, `NewestShown`, `OneOfEach`) |
| `limits` | 4 callers of 2 ranks, 2 permits, two that are answered 429 (delays of 0, 1 and 5 ticks, a cap of 2), one of a pair of equals rate-limited and with a context that ends | `PermitsAccounted`, `PermitFollowsCall`, `NoneOvertaken`, the refinement of PermitPool, `PenaltiesHold` (`RetriesWait`, `FewEscape`), `CallsEnd` |
| `checkpoints` | LibrarySync: 4 songs, 2 albums, an anchor of 2 with a margin of 1, pages of 1, one upset (failed call, reset or restart). GuestInstall: 4 bytes, chunks of 2, 2 connections, 3 ways of a server that changes them once, 2 faults, 1 torn write. LocalBackend: 5 backends, 3 connections of the app, three scripts (alone, with a command, beside the service) | `AnchorStands` (`NothingSkipped`, `NeverBackfills`, `ResetHolds`), `AnchorCatchesUp`; `ResumesRight`; `OneBackend`; `ComputerServed` (`InstallEnds`, `AllServed`) |
| `library_shift` | LibrarySync with removals under a scan and five songs | finds `NothingSkipped` violated: see section 6 |
| `track_outputs` | 2 or 3 tracks of 2 jobs, 2 paths, 1 download, 1 decrypt, six settings (contended, hung, forced, fallback with panics, quality that moves, restart) | `OutputsHold` (`OutputsSerialized`, `DoneKeepsFile`), `TracksEnd` |
| `track_panic` | as above, a panic in a transfer | finds `PermitsReturned` violated: see section 6 |
| `wrapper` | WrapperGuest: 3 guests, 1 login, one end of the process, one change of `enabled`. KeyTemplates: 2 callers, 3 keys, one of them pinned, 1 stream, 2 playback permits. LoginBook: 2 accounts, 2 clients, 2 ids | `GuestHolds` (`OneGuest`, `CredentialsFileGoes`, `ServingAnswered`), `ServesScrubbed`; `NoBorrowedCancel`; `ClaimsAreExact`; `WrapperAnswers` (`LoginEnds`, `CallersAnswered`) |
| `mirrors` | DesktopHome: four screens. DesktopJobs: four stories. LogStore: a ring of 3, 5 records, one restart. ConfigStore: 2 requests, 3 PUTs, 2 edits. TokenCache: 2 requests, 8 ticks, 3 tokens. ItemMeter: 2 codecs, meters of 4 steps. RangeTransfer: 3 versions of a source and another source, a weak and an absent validator, 3 calls, 2 changes, 2 crashes | `HomeHolds` (`HomeSettles`, `AnswersBelong`); `StoreHolds` (`StoreSettles`, `EndsAreTold`); `NoHoles`; `ConfigHolds` (`EditsAreKept`, `LevelFollows`); `TokenHolds` (`FetchesAreDue`, `NeverLapses`); `MeterSettles`; `WholeObject` |

Two workers of TLC finish each in at most three to four minutes.

The bounds. Two of everything that competes is where the races are: two workers for one
stale delivery, two clients for one key, two jobs for one page, two guests for one disk
with a third slot for the one after. A channel of 1 makes "full" reachable with one
queued job. Pages of 1 or 2 make every page border reachable; a ring of 3 wraps; a
subscriber's channel of 1 overflows. Four callers over two permits let a better rank overtake, with ties.
An anchor of 2 with a margin of 1 has its boundary on a later page. One retry and one
restart per job give each run a predecessor; the code keeps no count of them. `Setups`,
`Stories`, `Screens`, `Showings`, `Screenings` and `Scripts` pick what may happen in one
behaviour, so that rare things are combined in pairs rather than all at once. Constants
that only bound the model are named `Max...`, or are fields of these records, and say so.
The safety properties are proved without the bounds (section 5).

Runs that stop (`CHECK_DEADLOCK FALSE`) do so because the system may: all jobs have
ended and nobody asks for more, or a bound is used up. In `stream_follow`,
`checkpoints`, `mirrors`, `screens` and `wrapper` one part stops while others could not.

Every property has a mutant in `PROJECT.json` under which TLC finds it violated. The
type invariants of the modules serve their proofs; they are not properties of a run.

What a run does not show. `stream_follow` has no setting with both a hook and a retry:
the graph of that setting is beyond the bound on a run's time. `screens` and `mirrors`
are safety only: they say what holds when nothing is under way, not that this is
reached; the feed's fair graph is too large. `limits` bounds arrivals, so a low rank is
not starved by an endless supply of better ones; the code does not promise more.

## 4. Fairness

Fairness is per goroutine, and covers only steps a goroutine takes by itself. Nobody
has to send a request, cancel, retry, restart, or break a connection.

- `JobManager`, `JobEventStream`, `TrackPipeline`: each handler that was accepted, worker,
  hook and startup step goes on. A transfer that hangs is not fair (`setup.hung`).
- Permits of the semaphore are handed over by the releaser (`PrioritySemaphore` needs only
  weak fairness), so the gate needs no more: a call, and time. The dispatcher's slots are
  taken with strong fairness, since Go's channels queue those who wait.
- `HookDispatcher`: an attempt ends by its timeout. The abort after the drain deadline
  needs no fairness: shutdown ends in any case.
- `LibrarySync`: the ticker goes on. What fails is bounded by `MaxUpsets`; albums whose
  lookups never succeed are not upsets, they fail for ever.
- `WrapperGuest`: `Run`'s turns, its backoff timer and a login's caller, which waits in
  its handler; the guest itself has no fairness. `KeyTemplates`: callers and fetches go
  on, and the wrapper answers.
- `GuestInstall`: whoever installs starts it again when it failed; `InstallEnds` supposes
  a server that comes to honor ranges.
- `LocalBackend`: a backend's goroutines, the service manager that starts its service
  again, the app's starter and watcher of each connection, a command.
- Re-drain ticks of the streams have no fairness: `FollowEnds` shows that wakes suffice.
- `TokenCache` has no fairness; instead its clock does not tick past a step that is due,
  which is what a timer of the runtime does up to the lead that the code keeps.

## 5. What is proved

Every safety invariant and action property of a passing run is a theorem, for every
value of the constants, from the assumptions named in the modules: threads and names are
told apart, channels and pages have room for one, counts are naturals. The bounds of the
runs are constants among them, so the theorems hold with any bound. A theorem is about the
specification of its module alone; a run that has several side by side checks each of
them as it is. Three theorems have a hypothesis of their own, where the property is
false without it (`NoJobLost`, `NothingIsSkipped`, `PermitsComeBack`).

Each proof is the same argument: an inductive invariant that implies the property,
which TLC checked as an invariant on the run's instance first. What follows says what
had to be added to the property, since that is what makes the code work.

**JobManagerProofs.** `TypeCorrect`, `OwnedAlways`, `OneRunPerJob`, `VerdictStands`,
`DeletedStaysQuiet`, `AdmissionHolds`, `NoJobLost`, `CompletedJobsAreDone`,
`RefinesLifecycle`, `OneJobPerKey`. That a job has one run (`SingleRunner`) is not
inductive: a worker about to claim must find the row in a state that excludes another run. `Owned` says who owns a
row. A worker in its run has its own entry in `cancels`, and every entry has its worker
(`CancelReachesRun`, `EntryHasRun`); the row of a run is running, and terminal once the run
has written it (`RunRows`); a cancel winding down has its mark and its row is cancelled
(`CancelRows`); a submitter's job is new until it is inserted and is not deleted before it
is enqueued (`SubmitRows`); recovery is alone (`RecoveryAlone`). A second claim is then
impossible because the row is not queued, and Retry cannot make it so because the entry
is still there. `AdmissionHolds` adds that only the holder of `submitMu` is past admission
(`SubmitHolds`) and that nobody else sends. `NoJobLost` needs that recovery's rows are all
still to be enqueued (`RecoveryComplete`) and, per step, that what carried a job goes on or
hands it on (`Deliveries...` lemmas); with failing claims it is false: the row waits for
the next start, as the code's log line says. `CompletedJobsAreDone` adds what a worker's
step says of the items it leaves. `RefinesLifecycle` is the step simulation: the initial
state maps to one, and each action of the manager to a step of the abstract job or to a
stutter; its properties then hold of the manager. `OneJobPerKey` is one: that at most one
job of a key is active (`OneActivePerKey`) is proved of JobLifecycle and carried over, so
the dedup is right whatever threads, channels and cancel entries do.

**RequestGateProofs.** `SemaphoreTypeCorrect`, `PermitsNeverLeak`, `CapacityUsed`,
`NobodyOvertakes` of the semaphore: the heap holds only callers still in `Acquire`'s select
(`WaitersWait`), the count is the number of callers that hold a permit or were handed one,
it is within the limit, and it is at the limit while anybody waits. Without `WaitersWait` a
hand-off could go to a caller that already holds one. `NobodyOvertakes`, that no permit goes
to a newcomer or a waiter while one of a better rank, or of its rank and there before it,
waits, rests on `CapacityUsed` (a newcomer that finds room finds nobody waiting) and on
`InOrder`: the tickets that break ties in the heap are those of the order of arrival, which
`ahead` remembers, through every removal. `GatePermits`, `CallsKeepNoPermit` of the gate:
`GateStepsSemaphore` shows that each step of the gate is one of the semaphore or leaves it
alone, so the semaphore's theorems carry over. `PenaltiesStand` is from `PenaltyInv`: what is
owed to a 429 is never more than what is left of the cooldown, so a retry that finds none
owes nothing; and when a cooldown begins, whoever has answered it holds a permit, so fewer
callers than there are permits are past their last look (`FewStart`), and no more come.
`SemaphoreIsAPool` is the simulation of `PermitPool` (`ImplementsPool`), with the pool's
`held` mapped to those who hold a permit or were handed one: an `Acquire` that finds
room is a `Take`, a `Release` is a `GiveBack` or, if anybody waits, a `HandOver` to the
best of them, and a wait that is given up after the hand-over passes the permit on.
`GateIsAPool` composes it with the gate.

**StreamProofs.** `EventsReachFollowers`, `ViewsFollowTheStore` from `StreamInv`: what each
writer has recorded and still has to publish (`Writers`, `Written`), and for each follower,
by the step it is at (`Follows`), that an event beyond its cursor has a wake pending or
coming, that a stream about to end of itself has read enough to be sure, and that the events from
its cursor on take what it shows to what the store has. `StreamServesReaders` is the
simulation of `EventReaders` (`ImplementsReaders`): a page is the next events in id order
with none left behind (`Page`), so each page sent is a `Read`, the snapshot's steps are a
`Look`, `EndStreams` is a `Stop`, and wakes, checks, failed reads and `Cut` are stutters.
It holds where `ViewSettles`
has an exception (`Overtaken`): the reader shows what the log tells it even then. It is not
a property of a run; TLC found no violation of it on the instance of `stream_follow`.
`OutcomesReachStreams` from
`HooksInv`: the count of a job is that of its executions without an outcome
(`PendingCounts`), an outcome is recorded before it drops (`RecordedFirst`), and whoever
drops it to zero still has to wake (`WakeToCome`).

**TrackPipelineProofs.** `OutputsStand` from `TracksInv`: the lock table's entries, tokens and
leases belong to each other (`LocksStand`, `LockOf`), and what a track does with its
staging and output says that it has the lock (`WorkOf`). `PermitsComeBack` from
`PermitsInv`, if no transfer panics: the run `track_panic` shows that exception.
`TracksUsePools` shows that each limit goes through the steps of a `PermitPool`, with panics
too: a permit that is kept is not returned, but no more than the limit are out.

**WrapperProofs.** `GuestsHold`, `BootsAreScrubbed` from `GuestInv`: at most one owner of the
disk (`OneOwner`), a guest called serving was seen answering (`SeenAnswering`), the
arguments file has its login (`Credentials`), a disk with arguments has its mark in
`state.json` or in memory (`Marked`). `NoCancelIsBorrowed` from `KeyInv`: an entry's waiters
are counted (`Counted`), one that was left is no longer listed (`LeftAlone`, `Listing`).
`KeysUsePools` says of each semaphore, of the playback permits that key fetches share with
media streams in particular, that it goes through the steps of a `PermitPool`.
`ClaimsHold` from `LoginInv`. `OneBackendAtOnce` from `LocalInv`: who has the database has
the lock (`DatabaseLocked`), the app's goroutines know of what they run (`TasksSound`,
`OwnHeld`). `InstallStands` from `InstallInv`: unless a power loss or the server spoiled a
file, every file holds the bytes of its span from its start (`FilesHold`, `Pieces`), and the
parts that are whole cover what they are joined to (`JoinedIs`).

**MirrorProofs.** `TokensAreFetchedInTime` from `TokenInv`: each fetch under way has its
reason counted (`Owed`), and the refresher's next check and fetch come before the cached
token ends (`InTime`). `EditsStay` from `ConfigInv`: what the snapshot holds of a deleted
file (`NothingKept`), what a PUT has read is still so when it writes (`PutKeeps`), and who
owes the level (`LevelChases`). `MetersSettle` from `MeterInv` (`Spaced`, `Told`).
`NeverMixed` from `RangeInv`: the file and its sidecar are of one object (`Checkpoint`), and
so is what is asked (`Asking`) and read (`Reading`). It supposes that two objects of a
source differ in every validator both send (`ValidatorsAssumption`), and, of a server
that ignores `If-Range`, that they share a kind of validator (`LaxAssumption`).
`LogStands` from `LogInv`: the ring holds the last records in order (`Placed`), what waits
is newer than what was sent (`InTurn`), every match was received, known to be missed or
is still to be sent (`Streamed`), a page ends at its cursor (`Paged`). `NothingIsSkipped`
from `SyncInv`: what a pass has read is the top of the library as it was, with newer songs
above (`NewOnTop`, `InOrder`), its anchor is the stored one or a reset came (`PassAnchor`),
and what it submits and stores follows (`ScanGoesOn`, `Submitting`). Its hypothesis
`Steady` excludes a song that goes from under a scan (that is the finding of
`library_shift`), one that comes back, and more additions during a scan than it has read.

**ScreenProofs.** `SetupStands` from `SetupInv`: each answer on its way is of a test of that
generation (`TestsOfServer`, `AnswerShown`). `CoversHold` from `CoversInv`: each open has an
entry that waits for it or is stopped when it comes (`EntriesHold`, `Asked`), and the parts
that trimming lists are as old as it (`Trimmings`). `FeedStands` from `FeedInv`: events are
filed and announced in order (`Pipeline`, `WillWake`), a deleted job has its tombstone and
is gone from messages and the wire (`Deletes`), and everywhere a job is shown, in a message,
a snapshot or the list, it is right or an event beyond that place says otherwise
(`ShownOrAnnounced`, `CountsAnnounced`).

**DesktopProofs.** `HomeStands` from `HomeInv`: every "loading" has its request under way, of
the present generation and connection, and at most one; pages under way are at most one
past those shown. `StoreStands` from `StoreInv`: what the store shows of a job is the newest
it was told (`NewestShown`), a run shown has its follower (`RunningFollowed`), and what is
under way can only tell what was recorded (`Recorded`, `ReadBack`, `EndsKept`).

Only model-checked: liveness (`ActiveJobEnds`, `WaitsEnd`, `CallsEnd`, `AnchorCatchesUp`,
`ComputerServed`, `TracksEnd`, `WrapperAnswers`). `PermitPool` is a safety specification for
the same reason: that a waiter is served is shown on the run `limits` (`CallsEnd`). Liveness under fairness,
`ENABLED`, induction over data and `RECURSIVE` operators are out of the prover's reach; the
modules use sets and filters where the code has a loop over data, so that what the loop
computes can be reasoned about.

## 6. Where the code and its documentation disagree

Three of them are runs that end in a violation:

- **A late shutdown cancels a job** (`jobs_stop`, `jobs/finalize.go:254`). A shutdown between
  `jobs/finalize.go:227` and `:254` makes the interrupted job cancelled; `jobs/manager.go:17`
  says such a job is not cancelled, it stays running for the next start.
- **A removal during a scan skips an addition** (`library_shift`,
  `librarysync/librarysync.go:319`). Pages are read by offset. When a song that was read is
  removed between two pages, the song at the border moves up and is never read, and the
  pass moves the anchor above it. The package comment calls the watermark exact. It needs
  more additions than the margin since the last pass.
- **A panic in a transfer keeps its in-flight permit** (`track_panic`,
  `media/enhanced.go:160`). The permit is a local variable while the transfer runs, with no
  defer, and the panic is recovered above it.

The others were met while modelling. The models follow the code; no property forbids them.

Jobs, streams and media:

- (a) `Delete` asks for pending hooks under `m.mu`, but the `job_queued` hooks of a submission
  are dispatched without it (`jobs/submit.go:122`): a delete in between leaves hook events
  of a job that is gone, contrary to `jobs/finalize.go:107-109`.
- (b) Until the deferred cleanup of a run, `Cancel` finds its entry in `cancels`, answers
  200 and changes nothing when the verdict was already written (`jobs/finalize.go:26-35`);
  `docs/api.md:371-372` says a completed or failed job answers `409 job_not_cancellable`.
- (c) `media/job.go:20-22` says a processor's return closes every item of a cancelled job;
  the verdict at `jobs/finalize.go:254` may become cancelled after it returned.
- (d) `FollowJob` returns on a snapshot that is terminal and shows no hook running. A
  snapshot read after the terminal write and before the hooks have filed their start
  shows none, so the call may return before their events, contrary to
  `client/follow.go:147-148` (the verdict is at `:178`). `EndHasAll` speaks of streams that
  end of themselves, not of that verdict.
- (e) A stream may end before a `job_queued` hook has reported, when a cancel overtakes
  the submission (`api/job_events.go:46` against `docs/api.md:393-394`). `EndHasAll` excepts
  these kinds.
- (f) An empty library leaves no anchor, so the next pass is a first run again
  (`librarysync/librarysync.go:202`); `db/library_sync.go:9-11` tells the two apart.
- (g) A pass that does not meet the oldest remembered song takes it to be gone from the
  library (`librarysync/librarysync.go:221-227`). When more songs came in than a scan
  reads, it is only below the scan's cap (`:328`): the pass lays the anchor anew and the
  additions are passed over. That is why `NothingIsSkipped` supposes `Steady`.
- (h) `media/resume.go:75-79` restarts a checkpoint of full length without its marker, because
  a page-cache tail may have the right size; a shorter file with a hole is trusted.
- (i) The in-flight permit is returned after decryption. When the finalize then fails, the
  decrypt phase is retried on the same media without a permit, so the ceiling of
  `docs/download-pipeline.md:154-156` may be passed.
- (j) `media/job.go:56-57` says cancelled jobs cannot be retried; `jobs/submit.go:163` lets them.
- (k) A server that ignores `If-Range` and whose old and new object share no kind of
  validator is not told from one that kept its object, although `media/transfer.go:234-236`
  says that bytes of two representations are never mixed (`resumeObjectChanged` in
  `media/resume.go` compares what both have). `LaxAssumption` excludes it.
- (z) `FromStart` "replays the job's whole event history" (`client/follow.go:132`). When a
  shutdown ends the stream in mid-replay, the snapshot read next sets the cursor (`:175`)
  and the rest of the history is not sent. `api/sse.go:52-53` speaks of clients that resume
  from Last-Event-ID, which `FollowJob` does after a break only. `EndHasAll` excepts such an
  end; `ViewSettles` does not: the status shown is right all the same.
- (aa) "Do not let queued requests escape that new penalty" (`limits/request_gate.go:68`).
  Those that wait for a permit or a token do not; a request past its last look starts
  inside the cooldown. `FewEscape` bounds how many do.

The wrapper and the local backend:

- (l) A first install that dies while it seeds `data.img` leaves a short image; the next
  install finds the file and keeps it (`wrapperhost/install.go:90`), as an account's would be
  kept (`:21-22`).
- (m) Two logins of one account "must not overlap" (`wrapper/login.go:71-72`), but the claim
  ends with the call while wrapper-manager's process may go on.
- (n) A server that ignores Range "streams into path, resuming a partial file left there"
  (`wrapperhost/fetch.go:100-102`). `NightlyLink.Fetch` refuses an answer of 200 to a request
  from an offset (`:55`), so with such a server a partial file is never resumed: each
  attempt fails until it is removed.
- (o) `local/local.go:226-228` says the lock is held as long as the database is open. `Stop`
  gives up after its own deadline, which is shorter than the time the server's shutdown
  may take (`server/shutdown.go:28`), and releases it. `OneBackend` excepts that.
- (p) The app's own backend that ends by itself is not noticed by it; its calls fail until
  the user connects again.

Configuration and log:

- (q) A file whose startup key is invalid under an environment variable that overrides it is
  loaded at a start and by a reload, but every PUT fails: `saveRuntimeFields` reads the
  file without the environment (`config/file.go:79`).
- (r) A cursor of an earlier process may lie below the new process's records or above them:
  the client is then sent too much, or nothing until the sequence has passed it.
  `NoHoles` excepts such a cursor (`Stale`).

The desktop app:

- (s) A second link typed before the first is looked up drops that lookup: its timer finds
  the text changed, "that change looks them up"
  (`apps/desktop/internal/store/omni.go:116`), but that change looks up the links that are
  new to the cache only, and the first is in it, pending for good.
- (t) `Submit`'s answer clears the field, and with it what was typed meanwhile (`omni.go:212`).
- (u) `JobFinished` "is called once per run of a job that reached completed or failed after
  the app saw it unfinished" (`store.go:19-20`). A snapshot marks the ends it brings as told
  without telling (`jobs.go:213-215`), so a job that ended while the stream was broken is
  not told; and a run that failed, was retried and failed again between two messages is
  told once.
- (v) `OpenDetail` "follows its events from the start, for the activity log"
  (`store.go:165-166`). A running job has a follower without history already, and
  `follow` returns when there is one, so its log begins in the middle.
- (w) `upsert` "merges a job snapshot newer than what the store holds" (`jobs.go:253`), but the
  answers of a submit and of a read of tracks come without an order.
- (x) `wrapperReached` "reports whether the last test reached the typed wrapper"
  (`apps/desktop/internal/ui/setup_local.go:209`): after the address is changed and
  before its test is over, the answer is that of the address before.
- (y) A cover that failed "waits to be tried again" for `retryAfter`
  (`apps/desktop/internal/motion/cache.go:28`), but a sweep drops its entry once it was idle
  for the shorter `idleClose`; and `maxPlayers` "bounds the ffmpeg processes running at
  once" (`:26`), but opens that were under way may bring more until the next sweep.

## 7. What is not modelled

The components with status `not_modelled` in `PROJECT.json` are presentation (console,
windows, terminal UI, site), pure data (codecs, MP4, FairPlay rounds, formats, templates)
or small concurrent parts of a shape that is modelled elsewhere (the manifest cache and the
user token share one fetch as `KeyTemplates` does). Inside the modelled ones:

- Validation, URLs, batches of more than one URL in the runs, list queries and statistics.
- Lost terminal item writes (`media/item_events.go:129`): `ItemMeter` has them for one track,
  `TrackPipeline` takes item writes to succeed, `JobManager` has abstract items.
- Power loss that leaves holes, or that reorders the rename of a sidecar with the data
  before it: `RangeTransfer` loses a tail of the file only. In `GuestInstall` a power loss
  may spoil a file, which the checksum then refuses; the assets unpacked from it are not
  subject to one.
- Errors of `canonicalOutputPath`, sidecar files of cancelled attempts and the content of
  tags in `TrackPipeline`.
- The deadlines of the ordered shutdown, apart from those of the hooks.
- Ranks in `TrackPipeline`; the token bucket's reservation order.
- In the wrapper: the guest, QEMU's command line, reaping by pid on macOS, import and
  uninstall, the ciphers. In `LocalBackend`: clocks (a delay ends at any time).
- Log files, their rotation, and how records are formatted.
- `JobEventStream` has the server end one stream (`EndStreams`, bounded by `MaxCuts`) and go on
  to answer the same client. In the code that is a shutdown, after which another process
  answers; what its start does to jobs is in `JobManager`.

## 8. Plan

Order of the work: the job manager first, since every other part is called by it or
reports to it; then the streams clients depend on; then the limits, the watcher, the
hooks; then the pipeline, the wrapper, what clients keep, the local backend; and the
proofs of all their safety properties. That part is done. What would follow:

1. `Shutdown`: the ordered stop of `server/shutdown.go` over abstract components with
   timeouts, and that nothing uses the store after it closed unless a step gave up.
2. `JobManager` with `TrackPipeline`'s promise in place of abstract items, so that lost
   terminal item writes and late cancels meet the verdict.
3. `TrackPipeline` with the retry that holds media without a permit.
4. The terminal UI's followers and reads; `ManifestCache` and the user token's shared
   refresh; the macOS reaping of guests.
5. Canonical keys and stage weights as operators checked against their reference over
   bounded inputs.
6. Proofs: an abstract specification of the downloads feed (the list that its messages
   rebuild) and of the local backend (a lock), and the simulations by `DownloadsFeed` and
   `LocalBackend`.
