# RFObserver in TLA+

RFObserver is the software of a spectrum sensor: it streams I/Q samples from a
software radio, computes spectra, detects and isolates bursts, keeps averaged
spectra in SQLite and forwards them, records captures to disk, and serves a web
interface; a fleet dashboard shows several sensors. This directory holds TLA+
modules of the parts of it where ordering, failure and restart decide whether it
is right, the TLC configurations that check them, and theorems that TLAPS
proves.

Paths below are relative to the repository; the code is under
`src/rfobserver/`. `PROJECT.json` lists the components, the runs, the lines each
definition models, a mutation of the code's behaviour for each property, the
findings and the hazards.

## 1. The system

### Threads and processes

One process per sensor. An asyncio event loop runs the web server, the
supervisor, the consumer that averages windows, the background loops, the
transports and the database's callers. Around it:

- the *receiver thread* reads chunks from the radio, writes the ring buffer, and
  drives the trigger, the capture recorder and the schedule engine;
- the *dispatch thread* collects the PSD grids of a pool of workers, the *burst
  thread* detects bursts in them, the *isolation thread* cuts the bursts' samples
  out of the ring;
- the *recording-control thread* finalizes captures, one job at a time; each
  capture has a *writer thread* of its own;
- the *scheduled-capture writer* is one thread for all scheduled runs;
- web *worker threads* run the synchronous part of some routes;
- the *watchdog* is a thread beside the loop; systemd restarts the process;
- every SQLite connection has a *worker thread* of its own (aiosqlite), which is
  no daemon.

The fleet dashboard is a process of its own, one asyncio loop that talks to the
sensors over HTTP and web sockets.

### Components

| Component | State it keeps | Operations | What is hard | What makes it correct | Module |
|---|---|---|---|---|---|
| Application, `pipeline/app.py` | the tasks, the open databases, the signal handlers | start, workers, stop | every step may fail, and what has started must still be stopped, in order | ends with everything closed; a stop signal is obeyed | `Lifecycle` |
| Disk-space governor, `storage/governor.py` | step 0-4, recovery counter, sticky "degraded" flag and its two config rows | tick, act (evict, refuse), report a write error, clear, persist | a hysteresis fed by two volumes; a flag written by several coroutines, over crashes | refuses in time; leaves only after calm; a confirmed clear stays | `Governor` |
| Supervisor and watchdog, `pipeline/supervisor.py`, `utils/watchdog.py` | active pipeline, replay override, crash count, gave-up flag, persisted intent | on, off, restart, replay, crash restart, watchdog restart, exit | coroutines that slept through each other; a lock held by something wedged | at most one pipeline; standby stays standby; trouble does not last | `Supervisor` |
| Capture recorder, `pipeline/streaming.py` | recording state, trigger arming, rearm hold, stop reason, finalize jobs, writer flags | arm, start, stop, trigger, end, finalize, shut down | five threads; a writer may hang, fail late or exit at the wrong moment | one capture at a time; metadata tells the truth; a stop is a stop | `Recorder`, `Captures` |
| Capture data, `pipeline/streaming.py`, `capture/buffer.py` | ring, pre-buffer of grids, gap list, rows, tail mark | pre-roll, chunk, grid, finalize's waits | samples are lost before and after the receiver's buffer, grids come late | file and gaps account for every sample; rows belong to it | `CaptureStream` |
| Capture index, `storage/local.py` | index entries, two running totals | track, mark priority, untrack, enforce the cap, make room, sidecars | file I/O between two locked steps, from three threads | totals and index match the disk; nothing is orphaned; events kept whole | `CaptureIndex` |
| Scheduled recordings, `schedules/` | schedules, outcomes (memory and table), plan, open cuts, files, byte budget | add, delete, plan, start, cut, write, close, missed, persist, load | the receiver and writer both report outcomes; saves of one run race | every run has one honest, final outcome | `Schedules` |
| Schedule cutter, `schedules/cutter.py` | written, gaps, breaks, rows per file | feed, zeros, place rows, end | two clocks, one of samples received and one of time | entry *i* of the file is sample *i* of the run | `RunCutter` |
| Windows, tiers, roll-up: `pipeline/streaming.py`, `storage/psd_tiers.py`, `storage/rollup.py` | open window, write queue, tier rows, minute rows, bookmarks | receive, close, insert, fold, backfill, chart | late rows against a bookmark; a tier row behind its windows | a minute is folded whole; a chart counts each window once, if no write broke off | `Windows` |
| Database writer, `storage/database.py` | the connection, reconnect lock, abandoned connections | guarded write, reconnect, close | a storage device that stalls for tens of seconds | acknowledged is stored; the lock is never leaked; no call hangs | `GuardedWrites` |
| Housekeeping, `storage/collection.py`, `storage/database.py` | figures not yet stored, hours done, the prune mark | add, flush, count an hour, prune, delete | a write that fails, or is stored although it failed | no figure lost, no hour marked done with fewer, no blob left behind | `Upkeep` |
| Burst detection, `processing/rolling_burst.py` | tracks of bursts seen | feed a grid | the same burst in several windows, cut or merged | emitted once, and whole, below half of a window | `Detector` |
| Burst isolation, `pipeline/isolation.py` | queue, gate, counts | submit, gate, snapshot, read, stop | submit against stop; a ring that goes on | each burst in exactly one count, its samples read in time | `Isolation`, `Ledger` |
| Archive and attribution, `storage/burst_archive.py`, `pipeline/attribution.py` | files and index, queue, rows, retries | write, evict, put, decode, label, retry | a label before its row, an eviction during a save | index is the disk; settled is settled; the strongest survive | `Delivery` |
| rf-db transport, `transport/rfdb.py` | bookmark, its saved copy | register, read, send, mark, save | commit and bookmark are two steps | nothing behind the bookmark is unsent | `Forward` |
| Fleet dashboard, `fleet/` | registry and its file, viewers, feeds, cursors | join, switch, connect, page, add, poll | viewers and sensors come and go between two awaits | frames match mode and axis; lists are merged; a sensor keeps its slot | `FleetLive`, `FleetPages`, `FleetRegistry` |
| ZMS, sweep and continuous pipelines, receivers, signal processing, archiver, web rendering, add-on modules, configuration, CLI | little or none | - | I/O and arithmetic | - | not modelled |

### How they interact

- The storage loop ticks the governor, whose step tells the recorder to refuse
  or hold captures and the indexes to evict; writers report write errors to the
  governor. Modelled on each side: `Recorder` sees ticks and refusals,
  `Governor` sees reports, `CaptureIndex` and `Delivery` see evictions.
- `run()` starts the supervisor, which starts and stops the pipeline; a stop
  finalizes the open capture (`Recorder`), closes the scheduled runs
  (`Schedules`), stops the isolation stage (`Isolation`) and drains the writer
  of windows (`Windows`).
- One chunk of the receiver goes to the ring (`Isolation`, `CaptureStream`), to
  the capture (`Recorder`, `CaptureStream`), and to the schedule engine
  (`Schedules`, `RunCutter`); its grid to the burst thread (`Isolation`,
  `Detector`), to the averaging consumer (`Windows`), and to the rows of
  captures and runs.
- An isolated burst goes to the archive and to attribution (`Delivery`).
- Everything persists through the writer connection: `Governor`, `Schedules`,
  `Windows` and `Upkeep` assume of it that a save takes time, may fail, and may
  be stored although it failed, and `GuardedWrites` models why.
- The forwarder reads the windows table that `Windows` fills (`Forward`).

## 2. The modules

Each module has a header that names its source, one action per step between two
points where other threads can interfere (a lock, an await, a file operation).
`MC<module>.tla` holds the values its configurations use. Where a module takes a
set `Happens`, `Scenarios` or `Lives`, that set says which of the environment's
events a behaviour includes.

Three MC modules hold several components each: `MCProcess` (`Governor` and
`Lifecycle`), `MCRecords` (`Detector`, `Delivery`, `RunCutter`, `Upkeep`) and
`MCNetwork` (`FleetLive`, `FleetPages`, `FleetRegistry`, `Forward`). A variable
`part` chooses at the start which of them runs; the others rest. The instances
share no state, so side by side they would only multiply each other's
interleavings.

### Governor

`Tick` is `SpaceGovernor.tick` with its two volumes: `ResolveFloor`,
`VolumeStep`, `RawStep` and `Climb` are the ladder's arithmetic. `Act` is what
the storage loop does next (evictions may fail), `ReportWriteError` the writers'
report, `ClearDegraded` the clear route. `TakeChange`, `PutSince`, `PutErr` and
`PutFails` are `persist_degraded_change`, which writes two rows under
`persist_lock`; a failed write may have left either value. `BeginStop`,
`FinishStop`, `Crash` and `Restart` are `run()` and systemd; a restart may fail to
read the rows and goes on without them (`unread`). `calm`, `starved`,
`roomy` and `acked` are history variables computed from the samples and the
clears only, so that the properties do not restate the code's own counters.

### Lifecycle

`StartSteps` and `ShutdownSteps` are `run()`'s, in order. `StepDone`,
`StepForgiven` and `StepRaises` are a step of the start; `Signal`, `WorkerEnds`,
`WorkerFails`, `DeadlinePasses` and `GiveUpExits` what may end the wait;
`WebStops`, `CancelWorkers`, `GatherWorkers`, `StopPipeline`, `FlushFigures`,
`StopZms`, `Close` and `SignalsOff` the shutdown, with its nested `finally`
blocks; `Exit` the interpreter, which waits for the thread of every connection
left open. A worker may ignore its cancellation until what it does is done.
`Wedges` is a wait of the shutdown that never ends.

### Supervisor

Actors (web callers, crash restarts, the watchdog, boot) queue for the asyncio
lock, which is fair: the head of `lock` holds it. Each action runs from one await
to the next. A pipeline may crash, stall, wedge (its stop never returns), fail to
start or fail to close its receiver; the watchdog, on or off
(`WATCHDOG_ENABLED`), asks for restarts and, past its deadline, exits the
process, which systemd starts again.

### Recorder and Captures

`Rx*` are the receiver thread's steps through a chunk, `Start*` and `Stop*` a web
worker's, `Shut*` those of the pipeline's `run()`, `Rc*` the recording-control
thread's (tail, sentinel, join, recheck, save, finish), and one writer per
capture. A step under `_rec_lock` is one action and a read outside it is its own.
A save may fail (`save_fails`: the metadata cannot be written, which is reported
and passed over, or a step before it raises, which ends the job); the capture is
then without metadata ("lost") and the next one opens all the same. The shutdown joins
the receiver and the recording-control thread for 5 s each (`join_timeout`); one
that takes longer goes on by itself until the process exits (`ProcessExits`), if it
does. `Captures` is the abstract promise: captures are taken one after another and
each is saved once, or lost for good. `TakesCaptures` states that `Recorder` implements it, safety and
liveness, with `Phase(g)` as the refinement mapping. `RxWrite` reads the writers'
flags and requests an end in one action.

### CaptureStream

One capture over two rings (a retune begins the second). `Rx` is a chunk:
`WriteChunk` and `Logged` take it and the receiver's gaps, `Begin` and `WebStarts`
start the capture with its pre-roll, `Overlap` is what the ring and the chunk
have in common, `Dispatch` and `WorkerEnds` bring the grids, late and not at all,
`Finalizes` waits for them (`TailIsIn`, `Drained`). A sample is its ring and its
position, so the file is a sequence of samples.

### CaptureIndex

Captures are numbered in the order of their mtimes. Each has a `.sc16`, a
priority mark and a sidecar (the other companions go with the `.sc16`); an action
either holds the index's lock or does one file operation. The recording-control thread tracks, marks and
enforces the cap; the storage thread evicts for space from a snapshot; the
sidecar coroutines write after a grace period. `torn` records that a `track`,
which measures outside the lock, was overtaken by an eviction or a mark. Assumed:
an unlink succeeds; the grace period outlasts finalize's own `track`.

### Schedules and RunCutter

In `Schedules` a unit of time is one chunk. `RunStart`, `TotalRuns`,
`FirstRunFrom`, `RunsBetween` and `RunsUntil` are `schedules/model.py`. `RxChunk`
and `RxFeed` are the engine on the receiver thread, `WriterStep` the writer,
`Persist` the saves of outcomes in their order, `Die` the end of the process and the
`load` of the next one, which reads the book in the order of the table (`InOrder`).
`Takes` is what a run takes from a chunk, `Granted` what the byte budget lets
through: IQ beyond it goes to the file as zeros. Until a file ends it counts samples, zeros (what the budget
refused) and errors.

`RunCutter` looks inside one run. A *time* counts every sample there was, a
*stream position* those received; a gap makes them differ. `RxChunk` feeds the
cutter a chunk with its gaps (`Begin`, `GoesOn`, `Zeros`), `OnGrid` places the
rows of a chunk that arrive up to `MaxLag` chunks late, `Close` flushes them. The
file is a sequence of times, so that "entry *i* is time *i* of the run" is
`FileIsTime`.

### Windows

Time is counted in ticks. `Receive`, `GoIdle` and `Tick` are the averaging
consumer and its clock, `WrTake`, `WrRow` and `WrTier` the ordered writer
(the row, then its tier sums). A row may be stored though its write raised; the
tiers may break off at the coverage's start or at the store (`TierBreaks`), whose
retry may find what the first try's late commit left (`Cuts`). `Stop`, `Drained`, `Start`, `Close` and `Crash`
the pipeline and the process, `RollStart` to `RollFails` the roll-up loop with its
forward bookmark and its backfill. A chart is a pure operator over what is
stored (`Answer`: tiers and raw ends folded, or raw rows), checked in every state for every
range and every set of the tunings there are windows of (any other selects nothing).

### GuardedWrites

A connection is a worker with a queue of statements, an open transaction that
all its writes share, and the WAL write lock while that transaction has written.
`Call`, `Commits`, `Returns` and `Raises` are a write method; `TimesOut`,
`Reconnect`, `Abandon`, `Opened`, `OpenFails` and `Retry` the guard around it.
The worker, SQLite and the device are external: `Execute`, `Stall` and `Unstall`
are modelled from how `database.py` uses and describes them. `heals` says how
stalls end in a behaviour: never, only when the calls that wait are given up, or
at any time.

### Upkeep

Three loops, one per behaviour (`life.part`). *Figures*: `AddRecorded`,
`AddDeleted` and `AddActive` spread a capture over its hours, `Take`, `Flushed`,
`FlushFails` and `Drained` are a flush; a failed write may be stored all the same.
*Hours*: `PassBegins` to `MarkHour` are `_detection_hours_pass`. *Blobs*:
`PruneBegins`, `PruneChunk`, `SaveMark` and `DeleteChunk` are the retention pass
and the mark it resumes from.

### Detector

A row holds a power per channel. `Feed` is one grid. `TwiceFloor` is the floor of
a channel in one window: the median of the very rows that are judged, so a burst
that fills half of them is part of it. `ComponentsOver` are the runs of rows that
stand out over that floor, `Detected` the bursts `processing/burst.py` makes of
them, `Matches` and `Absorb` the tracks they continue, and a burst that lies safely
inside the window is emitted.

### Isolation and Ledger

`Rx` writes chunks to the ring and, in a lossless replay, waits for the burst
thread (`_wait_for_burst_lead`); `Bt` takes grids, publishes its position and
hands batches to the stage; `Wk` is the worker: gate, snapshot of a batch or lazy
reads, DSP; `Stop` is `stop()` on the receiver thread or at the shutdown, step by
step against a submit. `Ledger` is the abstract promise (an item is held until it
is settled, once), and `HandedOver` states that the stage implements it.

### Delivery

`St*` is the stage's fan-out of one burst: data file, metadata, index, hand-over;
`Ev*` the governor's eviction; `LoopPuts`, `Wk*` and `RetryRuns` attribution, its
queue in priority order and its one retry, either of which may raise
(`LabelRaises`); `LoopDrains` and `LastDrain` the row
inserts; `Settled` what an offline replay waits for.

### Forward

`Open`, `Load`, `SaveFirst` and `Hardware` are the writer's start, `Read`,
`Insert`, `InsertRow` (row by row after a rejected batch), `Mark` and `Save` a
flush. A save may fail, or be stored although it failed. `Expire` is retention,
`Die` a crash, `Register` the administrator who makes the sensor known to rf-db.

### FleetLive, FleetPages, FleetRegistry

`FleetLive` is one feed and two browsers: `Join`, `Leave`, `Switch`, `Take`
(a browser's sender takes all that is queued), `Send` (it encodes the frame it
took, after an await, with the axis of that moment), `Connect`, `Lose`,
`Backoff`, `SendMode`, the two ticks of the hub, and `Frame` with the axis it was
measured on. `FleetPages` asks all sensors (`Ask`, `Answer`, `Fail`), merges their heads
(`Merge`) and keeps a cursor; a sensor lists its captures by when they were last
written, and the fleet merges by when they `began`. `FleetRegistry` is the list with its file: `Add`,
`Seen` (mDNS), `AskAddress`, `Enable`, `Drop`, `Restart`, and the poll of the
addresses of each sensor (`StartPoll`, `TryAddress`).

## 3. The runs

Deadlock is not checked: every instance comes to rest once its captures,
requests, writes or time are used up, and a stopped process stays stopped. That
something must go on is stated by the liveness properties instead.

| Run | Instance | What it shows |
|---|---|---|
| `process` | *governor*: five levels around floor/2, floor and floor x 1.15 on two volumes, two floor settings, one clear route, write errors, stops, crashes. *run()*: everything configured, a headless standby, a supervisor that may give up; each step may fail, two signals | refuses within two starved checks (`RefusedWhenStarved`); the ladder is left only after three calm checks (`LeaveOnlyAfterCalm`) and, if all stay calm, is left (`LadderIsLeft`); the table follows memory unless it could not be read (`DiskFollowsMemory`) and a confirmed clear is durable (`ClearIsDurable`); `run()` ends with everything closed and no worker uses a closed database (`ShutsDownInOrder`); a stop signal ends it, or a wait without a bound holds it (`StopIsObeyed`) |
| `supervised` | two clients, three requests, two troubles, one exit | no orphan, standby holds, never silently down, the radio follows the setting (`SensorIsAsAsked`); trouble is answered (`TroubleIsAnswered`) |
| `recorder` | two captures, one worker, three ticks, begun and ended in every way; writers fail, fill the disk, hang; saves fail, joins time out | a job's fields are its capture's, flags its writer's, "ok" means written, a shutdown saves unless the save fails or its join times out (`CapturesAreSound`); a hold outlasts a fresh check, a stop holds the trigger (`BeginsWhenFree`); `Recorder` implements `Captures` (`TakesCaptures`) |
| `capture_stream` | chunks of two samples, three in the first ring, one gap, one drop, one row of two samples | file and gaps account for the stream (`FileIsTheStream`), rows are those of the capture (`RowsAreTheCapture`), its tail arrives (`TailArrives`) |
| `archive` | three captures of either origin and priority, one eviction | totals, index and disk agree and nothing is orphaned (`IndexIsTheDisk`); an event is kept whole and the cap holds (`EvictsWholeEvents`) |
| `schedules` | a counted schedule and an overlapping window, six scenarios of faults | every run answered, honestly, with one file (`RunsAreAnswered`), finally (`OutcomeStays`), and it ends (`RunEnds`) |
| `bursts` | a ring of 15 slots, queues of one, two bursts, nine chunks of a lossless replay or three live ones; a retune, a dying thread, a stop | in a lossless replay samples are read before the ring overwrites them (`ReadAsItWas`); each burst is counted once (`HandedOver`, a refinement of `Ledger`); the receiver goes on (`ReceiverGoesOn`) |
| `records` | *detector*: two channels, or one for longer, or one with strong and weak rows, two bursts; any part of the window filled. *delivery*: three bursts, a queue of one, an archive of three. *cutter*: a run of 14 samples over chunks of six, eight starts, four lists of gaps. *loops*: eleven quarters of an hour | a burst that fills less than half of every window is found once and whole (`FoundOnceAndWhole`); archive, labels and rows agree, unless an update raised, and settled is settled (`DeliveredWhole`); the weakest is given up (`WeakestGoes`); entry *i* of a run's file is its sample *i* and rows lie on theirs (`RunIsTime`); figures, hours and blobs survive failures (`LoopsLoseNothing`) |
| `windows` | eight ticks, windows of two, minutes of two, one tier level; a retune, a fault, a stop; a row stored although its write raised, a store of tiers cut off and retried | windows do not overlap or reach over an outage, a minute is folded whole (`WindowsAndMinutesAreWhole`); a chart counts each window once, fewer after a broken write, more only where a store was merged twice (`ChartIsWhole`); the backfill catches up (`RollupCatchesUp`) |
| `writer` | two writes, two stalls of each kind, reopening may fail | what is acknowledged is stored (`ReturnedIsStored`); one reconnect per stall (`HealthyIsKept`); every call ends and gives back the lock (`NothingIsHeldForEver`) |
| `network` | *hub*: two browsers. *pages*: two sensors, five items, pages of two. *registry*: three hosts, one with two addresses. *forwarder*: four windows in batches of two, outages, crashes | what is queued is the newest of the chosen mode, and none stays drawn on another axis (`FramesAndAxis`), a socket is open while someone watches (`SocketFollowsViewers`); each item once, each sensor's in its own order, newest first where that is the order they began in (`ListsAreMerged`); a sensor keeps its slot and moves back (`SensorsKeepTheirPlace`); nothing behind the bookmark is unsent (`BehindBookmark`) and windows arrive (`WindowsArrive`) |
| `never_hangs` | `Lifecycle` as in `process` | section 5 |

Why the bounds are enough: each is the least at which every action fires and the
hazards meet. Three captures in the index give one to evict, one being finalized
and one inside the span of both. Two captures in the recorder are one job that
still runs and one begun behind it; the recorder forgets everything older. Three
supervisor requests include off and on again behind a sleeping crash restart. Two
writes are the least that share a connection. The ring of `bursts` is just long
enough for the largest burst, the guard and the lead, so that one slot less would
be overwritten; a lossless replay writes it more than once over, live streams, where
any burst may be overwritten, are kept short. A run of 14 samples over chunks of six begins, goes on and ends
in different chunks; half a row is the case of the rounding. Two windows make a
minute and three ticks a tier row, so the borders of the two do not meet. Three
bursts overtake each other in a queue of one. The governor's levels are one per
side of each comparison.

### Fairness

- `Governor`: the loop ticks (weak); evictions and writes may fail any number of
  times but not for ever (strong), as they are retried on every tick.
- `Lifecycle`: the loop runs, and each step of the shutdown ends or wedges for
  ever. The web server may hang: its stop has a timeout. The waits for cancelled
  workers, for the pipeline (`supervisor.py:159`, `:177`) and for a connection's
  close have none, and the watchdog is stopped before them: `Wedges` is that case,
  and only a second signal, a watchdog restart already under way or a give-up's
  timer ends it. Signals, failures, wedges and the steps of the start are not fair.
- `Recorder`: only the recording-control thread is fair, until the process exits.
  Writers are not: a write may block for ever, and finalize then gives up on it.
- `CaptureStream`: the receiver, the PSD workers, the dispatch thread and
  finalize go on; a worker may raise.
- `Supervisor`: every actor goes on under the lock, a stop that can end does, crash
  restarts wake, the watchdog ticks. Requests are not fair. A wedged stop
  never ends: that is what the exit is for.
- `Schedules`: chunks arrive, the receiver gets through each, the writer and the
  saves go on. The radio's fairness is stated as `[]<>` over the states left.
- `Isolation`: the threads run; the shutdown is fair only once the burst thread
  has died, since a dying thread stops the pipeline.
- `Windows`: the loops run and time goes on; no bound on faults is needed beyond
  `MaxFaults`, after which writes succeed.
- `GuardedWrites`: timers and the loop go on, workers run unless they are stalled,
  and a stall that may end does.
- `Forward`: the writer's loop goes on; requests fail at most `MaxFaults` times;
  the administrator registers the sensor.
- `FleetLive`, `FleetRegistry`: timers, ticks, connects and polls go on; browsers,
  outages and edits are not fair.
- `CaptureIndex`, `Detector`, `Delivery`, `RunCutter`, `Upkeep` and `FleetPages`
  have safety properties only.

## 4. The proofs

`ProcessProofs` proves of the governor, for every set of levels, bursts, volumes and
settings (naturals), any number of clear routes and any number of events:

| Theorem | Statement |
|---|---|
| `TypeCorrect` | `Spec => []TypeOK` |
| `StarvedIsRefused` | two starved checks in a row refuse recordings |
| `HealthyIsRoomy` | step 0 is published only when both volumes are at their floors |
| `CalmBeforeLeaving` | the ladder is left only after three calm checks, and then to 0 |
| `WriterHasLock` | one persister writes at a time, and it holds the lock |
| `TableFollowsMemory` | nothing pending: the table holds what memory holds |
| `ClearsLast` | no flag older than a confirmed clear is on disk again |

Only `GovernorAssumption` is assumed, which gives the constants their types.

*The ladder.* `RefusedWhenStarved` is not inductive alone: the step after two
starved checks depends on the step after one. `LadderInv` adds that one starved
check leaves the step at 2 or more, that step 0 means room, and that the code's
counter `good` never runs ahead of `calm`. The lemmas before it
(`FloorIsNat`, `RawStepIsLargest`, `StarvingClimbs`, `ZeroIsRoomy`,
`RecoveredIsZero`) are the arithmetic, `TickClimbs` what a check may do.

*The flag.* `PersistInv` has four parts. `WriterInv`: only a persister that is
writing holds values, and it writes `since` before `err`. `ModeInv`: a process
that is not up writes nothing. `CleanInv`: when nothing is dirty, the table or
the writer at work holds what memory holds. `ClearInv`: memory, the values under
way and the table hold no flag older than a confirmed clear, and what a route
took is no older than its own clear. The last is why the routes' `taken` must be
in the invariant: a crash between a route's two writes leaves the table with the
route's value, and the clear is confirmed only afterwards.

The same module proves `ClosesInOrder` (`ShutsDownInOrder`) of `Lifecycle`, for every
setting, any number of signals and every step that may fail. `EndsClosed` says something
only at the end of `run()`; what makes it inductive is what each place of `run()`
knows: which databases are open there (`Opened`, `Closed`), that no worker runs any
more (`Quiesced`) and that the parts were stopped (`Released`). `slipped`
records that stopping the pipeline or the ZMS client failed; the closes follow
all the same.

`NetworkProofs` proves of `Forward`, for every batch size, set of lengths and bounds
on windows, faults, crashes and changes, and of `FleetLive`, for any number of
browsers, tunings, tasks and events:

| Theorem | Statement |
|---|---|
| `NothingBehind` | every window at or below the bookmark, in memory or saved, was sent or was not due (`BehindBookmark`) |
| `FramesKeepTheirAxis` | what is queued for a browser is the newest frame of its mode; none stays drawn on another tuning's axis (`FramesAndAxis`) |

*The bookmark.* Only `ForwardAssumption` is assumed. `BehindBookmark` is not inductive: the
bookmark moves to the last row of a batch that was read several steps before, and
windows are stored meanwhile. `Inv` adds `Marks` (the types of the bookmarks),
`BatchIsNext` (no window between the bookmark and the end of the batch is missing
from it, unless it was not due) and `BatchIsSent` (once the rows are in, the batch
is sent). `NextBatchIsOldest` is what the query's order gives: a window the batch
leaves out is newer than all it holds. A crash forgets the batch, not the saved
bookmark, which was behind already.

*The hub.* Only `FleetLiveAssumption` is assumed. The frames and the axis reach a
browser by different ways: a frame is queued, taken by the sender, and sent a step
later, with the axis the feed has by then. `HubInv` says what holds between them.
`Axes`: the feed's axis is no older than any of its frames and is the sensor's once
that was sent on this socket. `Behind`: unless a sensor is enabled or disabled in
the behaviour, no frame that is queued, taken or drawn is newer than the axis, so one
on the wrong axis is an old one. `Followed`: unless a browser switches
modes, a browser that may draw an old frame on the new axis has a frame of that axis
queued or taken. The two conditions are those of the property (section 5): with a
disabled sensor or a switch TLC finds the stronger statement violated.

`StorageProofs` proves of `GuardedWrites`, for every finite set of writes, any number of stalls,
and any of the ways they may end that `Heals` lists:

| Theorem | Statement |
|---|---|
| `TypeCorrect` | `WritesSpec => []WritesTypeOK`: in particular no more connections are opened than there are writes, and one |
| `OnlyStalledAbandoned` | a connection that did not stall is never abandoned (`HealthyIsKept`) |
| `AcknowledgedIsStored` | what was acknowledged is stored, when stalls outlast the calls that wait for them (`ReturnedIsStored`) |

Only `GuardedWritesAssumption` is assumed: the writes are finitely many, the
other constants have their types.

*Which connection is abandoned.* A call abandons the connection it was called
with, and only if that is still the one in use. `HealthyIsKept` needs to know that
the call waited on *that* connection when it timed out. `QueueInv` says that a
first attempt's statements are on no connection older than the one it was called
with; the one in use is the newest, so a call that is slow and was called with it
is slow because of it (`SlowInv`). `OpeningInv` is the reconnect lock. `CountInv`
bounds the connections by the writes that had one opened, with the cardinality
theorems of the library, and is what makes the numbers of the connections a type.

*What is acknowledged.* A call executes and commits in two statements, each on
the connection that is in use at that moment; if a reconnect came between them,
the commit would succeed on a connection that does not have the row. `Stored`
says where a row is between its two statements. It is kept by the abandoning
step because of `Waiting`: a call that is going to abandon the connection in use
was stuck behind its stall, the stall is still there, and no call is between its
statements, since its answer came before the stall and the loop has run it in
the 30 s the timeout takes. `SentOnce` and `CloseIsLast` say that each statement
is queued once and that nothing follows a close. The theorem fails for
`heals = "any"`: section 5.

and of `CaptureIndex`, for any number of captures and evictions, any sizes, cap,
share and span:

| Theorem | Statement |
|---|---|
| `DiskAndIndexAgree` | the totals are those of the entries, each entry is what its files measure unless a track was overtaken, nothing is orphaned (`IndexIsTheDisk`) |
| `EventsStayWhole` | an event's captures are marked with it, and the archive fits its cap after each capture (`EvictsWholeEvents`) |

Only `CaptureIndexAssumption` is assumed. The two properties speak of captures
nobody works on, so the invariant `IndexInv` follows each capture while somebody
does, through the files that are unlinked one at a time. `Roles` says how far each
evictor is with its victim, and `Arriving` that a capture is nobody else's until
its first track, which is why that track needs no `torn`. `Known`: what is on disk
is in the index unless it was claimed, so the totals bound the disk, also after a
track was overtaken; this gives `ArchiveBounded`. `Measurements` and `Marks` say
that what a sidecar's track carries between its two steps is not more than what is
on disk. `ExactUnlessTorn` is the index entry against the files, with the mark
that is being settled and the sidecar that is not yet counted as its exceptions.
`Events` says that a capture of an event has its mark or is owed one (`Owed`): it
is being tracked, is on the list of those to mark, or will be put on it by
`RcListsBefore`. The totals are sums over sets. An entry has one of two
sizes, so a total is two cardinalities, and `BytesMove` is what the way in or out
of one capture does to it; `ReplaceKeepsTotals` covers all three writers at once.

`IsolationProofs` proves, for every ring, interval, margin, rate and guard, every
size of the queues and batches and every number of bursts:

| Theorem | Statement |
|---|---|
| `EveryBurstIsCountedOnce` | every step of `Isolation` is a step of `Ledger` or leaves it alone (`HandedOver`) |
| `NoBurstIsOverwritten` | in a lossless replay no burst is overwritten before the stage has read it (`ReadAsItWas`) |

*Counted once.* A burst is in the batch found last, in the queue, in the worker's
hands or counted; `Apart` and `Counts` say it is in one of them only, with the
sequences along which the model moves it (lemmas on appending to, taking from and
draining a sequence of batches). `Control` is what the stop relies on: the worker
drains and ends only when it was told to, and what a submit puts into the queue
behind the stop mark is drained by the submit itself or by `stop`.

*Never overwritten.* The theorem is about a replay whose pipeline runs, is not
reconfigured, and whose burst thread lives (`StillInRing`), and about rings in
which the lead is not cut to the least of two chunks (`RingSuffices`; `_compute_lead_limit`
raises it to that and logs a warning).
`ReplayInv` follows a burst from the grid that completes it: the grids between
the receiver and the burst thread are consecutive (`Chained`), so the receiver is
at most the lead ahead of the burst thread's published position, every burst in
the stage begins within `Interval + Margin + MaxLen` of that position
(`NearBursts`), and the rest of the ring is the lead (`Reserve`). What bounds a
burst's age is `wait_idle` before the publish: the position does not move while the
stage holds a burst.

`RecorderProofs` proves, for any number of captures, clients and storage checks:

| Theorem | Statement |
|---|---|
| `FinalizeIsSound` | writers' flags are their own; a job is alone with its capture's fields, a whole capture was written whole, the open one is saved at a shutdown, unless its save fails or its job outlasts the join (`CapturesAreSound`) |
| `BeginsAreFree` | no capture begins on a storage check older than the hold, nor on the transmission that was stopped by hand (`BeginsWhenFree`) |
| `ImplementsCaptures` | where nothing races, the recorder implements `Captures`: each capture is saved once or lost for good before the next opens |

`Undisturbed` names the races that the code does not prevent (section 5): the stop
that gives up after 15 s, the stop of a busy pipeline, and clients that stop by hand
beside another client or beside a stop of the receiver's own. The parts of the
theorems that are false with them are stated under it; types, flags, the hold and
`StopHoldsTrigger` are proved whatever happens. `Inv` is the story of one finalize
job: `OneJob` (while one is pending the state is finalizing, or the shutdown has
taken over, so nothing begins), `Shutting`, `Clients`, `Saves` (captures are saved
or lost in order) and `Written` (a failed or abandoned writer has left its error, which is
what `save` reads). `ImplementsCaptures` reads `Phase` from `Saves` and goes
through the 33 steps.

`RequestsProofs` proves `KeepsAsAsked` (`SensorIsAsAsked`) for any number of
clients, crash restarts, pipelines, troubles and exits; `SupervisorAssumption` says
that the actors are different. `Queue` is the asyncio lock: an actor is in it once,
and only its head stops or starts. `Settled` says what a restart may find after it
has waited, and is the reason a crash restart that slept cannot undo a standby.
`NotDown` and `Wanted` are the properties with the request that is still under way.
`Unraced` is what a replay that is not started amid other operations adds; with
`replay_race` among the events TLC finds `NoOrphan` and `StandbyHolds` violated, as
section 5 says, and the theorem leaves them out.

It also proves of `Schedules`, for any schedules, ring, grace, byte budget, limit of
runs at once and any scenario of faults, from `ScheduleAssumption` alone:

| Theorem | Statement |
|---|---|
| `ScheduleIsKept` | the inductive invariant `ScheduleInv` |
| `EveryRunIsAnswered` | a run whose instant has passed has an outcome, the outcome is true of the run's file, and a run has one file (`RunsAreAnswered`) |
| `OutcomesAreFinal` | no step takes an outcome back (`OutcomeStays`) |

- *Every run is answered.* An outcome is a row, is on its way to the table, or failed
  to be saved (`Answered`). `PlansInv`: a plan is ahead of the last run that was
  answered, and of the time. `BehindInv`: no run is behind the plan without an
  outcome, except one that was too early to be asked for. A death
  forgets the memory and what is on its way, so the new process starts from the
  rows: it is right to count from the last one because outcomes are saved in the order
  of the runs (`OrderInv`). These two are stated where no schedule is added during
  a retune (`late_add`, section 5); the others hold in every scenario.
- *The outcome is true.* `AccountsInv` follows each sample of a cut: it is in the
  file, in the queue, is written as a zero or was refused, so a file is short exactly
  when something was left out. `ItemsInv` keeps the open, the samples and the close of a
  file in that order in the queue, and `StageInv` has a cut or a close for each
  open file; `FilesInv` puts them together when the writer closes the file.
- *The outcome is final.* `SavesInv`: of one run at most "recording" and then one
  final status are on their way, so the row that is final is what the memory says.
  `AheadInv`, there is nothing of a run its schedule has not come to, is why a run
  is begun once.

`WindowsProofs` proves `WindowsAreWhole` (`WindowsAndMinutesAreWhole`) and
`ChartsAreWhole` (`ChartIsWhole`) for any duration, idle time, gap, minute, span, tier
level, limits and queue size, and any retunes, stops, crashes and failed writes.
`WindowsAssumption` says of the constants that durations are positive and that the
roll-up's lag is at least the duration and the idle time together (`_rollup_lag`: four
durations and at least 10 s; the idle time is 0.5 s). Two facts meet in the first:

- *The windows are in order.* `Current`: the window under way began less than
  `Duration` before the last result, and no later result waits longer than `Idle`.
  `InOrder`: the rows, then the queue from its head, then the window under way follow
  each other without an overlap. While the head's job is between its row and its tiers
  the head is in both, and that is the only row that is.
- *The marks stay behind them.* A minute is `Past` when no window that is still
  queued or open begins in it. `LastClosedIsPast` is the core: the open window began
  after `now - Lag`, and a queued one does not begin before the head, which
  `_rollup_forward` looks at. `LandsAhead` then says that a row never lands in
  a minute between the marks or in one being folded. `FoldsAreWhole` carries the
  folds over the step between folding and moving a mark, so a pass that
  fails there, or a crash, leaves a mark that is behind what was folded.

*What a chart counts* has an inductive invariant of its own, `ChartInv`, on top of
`WindowsInv`:

- `StartsDiffer`: no two windows begin at once, stored or queued. It is what keeps
  windows that are drawn one by one apart, and rests on the guard that a result comes
  later than the one before it.
- `SumsInOrder`: a tuning and a period have one sum among the open ones and one among
  the stored ones. The open sums are all of one period, no later than any window still to
  come, and as long as nothing was lost every stored period ended before it. So a
  window can only add to a sum that is still open, and a stored period never grows.
- `CountedOnce`: for each tuning and period, the stored sum, the open sum and the
  window whose row is in and whose sum is not (`Pending`) add up to the windows
  stored there: never to more, and from the coverage's start on to exactly as many
  while no sum was lost. `Pending` is the step between the row's commit and
  `_add_to_tiers`, which a chart may be read in.

A store that breaks off, a row stored although its write raised, a drain that times
out, a crash and a close within a period keep the
first half only, and set `inexact`; that is the difference `ChartIsWhole` makes. After
such a close the same period is begun again, and is stored and open at once: `Stored`
merges the two, and `StoredIs` says that the merge neither loses a window nor counts
one twice. A store that is cut off and tried again may (`StoreCut`): its periods are
`doubled`, and `CountedOnce` is stated for the others; `CutIs` says what each way of
cutting it leaves. From the invariant to the chart the argument is about sets of windows:
`UsedIs` and `TieredIs` split the range into the stored periods and the windows before
and after them, `PeriodsFit` says that a bucket of whole periods cuts none in two,
`StoredBefore` that no period before the last one used is missing, and `TotalCounts`
that a sum over periods is the number of windows in their union. `Total` is the
fold of the library; `TotalIs` reads it as a function that takes one element
away from the set, and the induction over it is on the set's cardinality, as the
smallest counterexample (`CountsUp`).

`RecordsProofs` proves of `Delivery`, for any number of bursts, any powers, batches, cap
and queue, and of `Upkeep`, for any clock, captures, keep and size of a pass:

| Theorem | Statement |
|---|---|
| `DeliveryIsWhole` | the archive's index is its directory, settled means done, and an attributed burst's outcome is on its row, to be tried once more or given up, as it is when an update raises (`DeliveredWhole`) |
| `TheWeakestGoes` | what a full attribution queue drops is no stronger than what stays (`WeakestGoes`) |
| `TheLoopsLoseNothing` | no figure is lost, an hour marked done has its counts, nothing behind the prune mark has a blob (`LoopsLoseNothing`) |

*Who has a burst.* Only `DeliveryAssumption` is assumed: types, and a queue with room
for one. `SettledIsDone` is about the moment `_attribution_settled` returns true, and
compares counters: bursts handed over, queued, given a verdict. `DeliveryInv` says for
each burst where it is. `InOrder`: the stage takes them in the order they
came in. `CountsAreKept`: the stage is done with a burst exactly when it has counted it.
`OnTheirWay`: between the hand-over and a verdict a burst is in one place only, of the
calls to the loop, the queue and the decoders, and it has no verdict there.
Cardinalities then turn the counters that agree into sets that do (`SettledMeansDone`).
`FilesInHand` lets the evictor and the stage be between two files of a burst: the
one that is being written is not indexed yet, the one that is being unlinked no longer.
`OutcomeIsFollowed` and `RowsToCome` are the label that overtakes its row. A crash
of the process loses what it held; the parts about counts are stated until then.

*What the loops keep.* Only `UpkeepAssumption` is assumed; that a pass keeps a day or
more is the guard of `_run_retention`. `FiguresInv` is the sum over the hours of
what is stored, taken and pending against what the captures owe: equal while every write
was answered, never less. The sums are recursive functions, and `UpToAll` is the
induction they need, on a set of numbers. `SecondsAddUp` and `BytesAddUp` are
`add_recorded`: the shares of a capture over its hours add up to the capture, with
the rounding left to the last. `PhaseInv` is the stop: what is drained and flushed
is not in hand any more. `HoursInv`: what a pass has counted lies in an hour
no detection can land in any more, because `DET_HOURS_SETTLE` has passed, and that an hour
retention has emptied was done or is named as `gone`. `BlobsInv`: windows are in the
order of their starts, no mark is ahead of the clock, and the mark that is on disk,
which may be older than the one in memory, has nothing behind it either.

Every inductive invariant was checked by TLC, as an invariant of the instance of its
run or of a larger one, before it was proved.

Only model-checked: the properties of `CaptureStream`, `Detector`, `RunCutter`,
`FleetPages` and `FleetRegistry`, all liveness (with it `RunEnds` and the second half of
`TakesCaptures`), and `NeverHangs`, which fails. Out of the prover's reach: liveness
under fairness and anything with ENABLED; and induction over data with the library's
theorems, which is why `TotalsMatch` is stated with cardinalities. Where an induction
is over numbers it can be written as a fact about sets, with the smallest
counterexample: so for the sums of `Upkeep`, over the hours, and of `Windows`, over
the size of a set. The fold over gaps of `RunCutter` (`FileIsTime`) is not done.

## 5. Where the code does something else

`never_hangs` reaches one disagreement at its first step: `await db.connect()`
(`pipeline/app.py:167`) opens the aiosqlite connection and then configures and
migrates the database (`storage/database.py:616`-`:640`); when one of those
statements raises, nothing closes the connection, its thread is no daemon, and the
process hangs instead of exiting. The comment at `pipeline/app.py:445` says the
`finally` is there to prevent that, but its `try` begins only after the start. In
the model the same happens at every later step of the start that has no handler of
its own: the schedules' cancellation, the start of ZMS, `supervisor.set_active`.

The following were found while modelling. They are kept out of the passing runs by
their sets of events or by a guard in the property, named where it is not obvious.

- *Application.* When the sticky flag cannot be read at the start, `run()` logs it
  and goes on (`app.py:231`): memory shows no warning, the table still holds one,
  and nothing writes it or reads it again until the next change or restart
  (`unread`; docs/storage.md says the warning survives a restart). The shutdown
  has waits without a bound (`wedged`). The storage loop, which persists the sticky flag, is cancelled
  before the pipeline stops; a write error that the last capture reports is not
  stored (docs/storage.md says the warning survives a restart).
- *Supervisor.* `start_replay` reads `_active` before it takes the lock: behind a
  crash restart it starts a second pipeline over the first. A failed
  `start_replay` leaves the replay override set. A `/replay/stop` after standby
  starts the radio again (`ActiveIsWanted` exempts it). A crash restart that slept
  through off and on restarts a healthy pipeline.
- *Recorder.* `stop_recording` reads the state outside `_rec_lock`; if the receiver
  ends the capture first, it returns without waiting and sets the state to idle
  while the finalize job still reads the fields, and it waits 15 s for that job
  and goes on without it. A manual start reads the hold before it takes the lock.
  A writer given up exits between finalize's entry and its metadata write: a
  capture that is whole is marked `write_failed`. A capture the trigger begins
  while the pipeline shuts down is left unsaved. A capture whose `.json` cannot be
  written keeps none: the failure is logged and counted, later captures open as if
  nothing had happened, and a writer that exits late has nothing to bring up to date.
  A stop that finds the receiver ending the capture itself does not wait for the job
  but for the 5 s join only; a job that takes longer is cut off if the process exits.
  The coroutine that stores a
  capture's row at the shutdown may meet a closed database.
- *CaptureStream.* A retune during a capture restarts the positions: the `.psd`
  gets no more rows and finalize waits its whole timeout. With no pre-roll and
  the first chunk dropped, `_recording_start_sample` names a chunk that is not in
  the file. Rows are placed by their count, so rows a full queue dropped shift
  the later ones.
- *CaptureIndex.* `track` measures before it locks: an eviction in between leaves
  an entry for nothing, a mark in between is forgotten until the next start
  (`torn`).
- *Schedules.* A schedule accepted while the receiver is reconfigured may lose its
  first run with no outcome (`late_add` against `EveryRunAnswered`). Two requests
  that add the same id: the second gets an error 500. Outcomes reported during
  the shutdown may be lost.
- *RunCutter.* The read of the ring at a late start ignores the gaps of earlier
  chunks. Chunks `on_chunk` never saw, together with a receive gap, lose that
  gap. Losses of exactly half a row can drop alternate rows. A `put_grid` that
  refuses rows shifts the later ones. `schedules/cutter.py:9` says that the
  file's index is time.
- *GuardedWrites.* A write stuck at its *commit* is committed by the abandoned
  connection ahead of the queued close, and stored again by the retry; windows
  and collection hours count twice, detections do not (`INSERT OR IGNORE`). When
  reopening fails, the writer has no connection and every later write raises,
  although the docstring says it recovers. A stall that clears while another call
  still waits lets that call execute on the abandoned connection and commit on
  the new one: it is acknowledged and lost (`heals = "any"`).
- *Upkeep.* A flush that is cancelled, or times out, after its write was stored
  counts twice. A crash loses at most the figures since the last flush. A
  finalize that outlasts the 5 s join (`pipeline/streaming.py:1111`) may report after the
  last flush, and its figures are not stored. Retention may empty an hour before it is counted. A clock stepped back by days leaves
  blobs behind the mark. The last part `add_recorded` spreads may be negative for
  captures of a few bytes.
- *Windows.* Stopping the averaging loop drops the window under way. A loop that
  is wedged for longer than the roll-up's lag could fold a minute before a
  window of it lands. A chart falls back to raw rows without saying so
  (`storage/database.py:888`). The sums are kept out of the row's guarded write, "whose
  retry would otherwise count the window twice" (`storage/database.py:876`), but their
  own store is such a write too: when it times out, its commit lands late and the retry
  merges the row again, the period counts its windows twice (`doubled`). The model
  lets a cut-off write land when it raises, not later: until its commit has landed the
  abandoned connection holds the write lock, so nothing else is stored between. A fold
  that had read its minute before the landing and stores after it could miss that window.
  A row that the retry stores a second time is one window here, its duplicate is
  `GuardedWrites`' matter, and two rows of one period and tuning, which both tries may
  leave, are one row with their sum.
- *Isolation.* docs/burst-isolation.md says that an offline replay holds the receiver
  back until isolation has read each burst; the lead has no room for bursts longer
  than `ISOLATION_MAX_BURST_SEC`. A worker that outlasts the 5 s of `stop()`'s
  join counts after it.
- *Detector.* A burst that fills half of a window or more raises its own floor and is
  lost there, or cut (`config.py:207` asks for windows well over the longest burst);
  the docstring of `rolling_burst.py` promises a burst longer than one evaluation at
  its full duration (`Sparse`). When a floor moves, the strong rows of an uneven burst
  may be found alone, emitted, and emitted again as a part of the whole, against
  "EXACTLY ONCE" (`Even`). A burst that a lost chunk cuts may not be emitted at all, and
  `_merge_bursts` compares only with the burst before it. The floor is modelled at the
  default percentile, the median.
- *Delivery.* A label whose row comes later than the one retry is lost; rows of the
  last drain never get one. An update that raises (a locked database, a write that timed
  out twice) is logged and the outcome is on no row and not owed to one, though its
  write may have landed (`pipeline/attribution.py:156`, `:384`). A crash between data and metadata leaves a data file
  nobody tracks, and so does a save that fails. `_attribution_settled` does not count
  what was skipped.
- *Forward.* The docstring says an outage never loses windows: retention deletes
  them after two years whatever the bookmark, and when the save of the first
  bookmark times out, a crash then skips windows. It says rf-db drops what is
  sent twice: windows sent again after a change of `DURATION_SEC` have another
  metadata row and are stored twice. Cached ids survive a rebuild of the remote
  database.
- *FleetLive.* The axis that goes with a frame is the feed's when it is sent: a frame
  taken or queued before a retune may be drawn on the new axis, until the next
  frame of its mode, and one of a sensor disabled meanwhile on the old axis
  (`AxisIsTheFrames` says how far). `freq_sig` outlives a page's tile: a page that dropped the tile of a
  disabled sensor gets no axis when it is enabled again, until the next retune.
  A `set_mode` that fails is retried only at the next change or reconnect, so a
  sensor may go on with High Res for nobody. A viewer that joins between a
  standby and the hub's tick may stay told "standby".
- *FleetPages.* `fleet/captures.py:6` says the cursor never skips or repeats a
  capture: one that is removed makes the next page skip another, one that is
  added makes it repeat one. `fleet/captures.py:1` says newest first, but a sensor
  lists its captures by when they were last written (`storage/local.py:323`) and the
  fleet merges by `meta.start_time`, with none below all others: a long scheduled run, or
  a capture without metadata, holds back what is behind it in its sensor's list
  (`NewestFirst` says how far). A sensor that answers slowly holds up the page
  (`fleet/sensors.py:6`). The detections list filters what the sensors send by
  status, so a short page ends it while older rows would match; and equal start
  times across a page border lose rows.
- *FleetRegistry.* A refresh does not compare the id of what answers with the
  sensor's. Adding by hand an address that was an alternative leaves it in both
  places and forgets the former main address until the next sighting. A sensor added
  by hand that fell back does not move back. Deleting a
  schedule for the whole fleet reaches only enabled sensors, although creating
  one accepts disabled ones.

## 6. Not modelled

- *Receivers, trigger and clock; signal processing; add-on modules' DSP*: hardware
  and arithmetic over arrays. What they decide (a gap, a trigger, a burst in a
  window, an outcome of attribution) is a choice of the modules above.
- *Sweep and continuous pipelines*: sequential loops over a receiver with no state
  of their own beyond the one step they are in.
- *ZMS client and monitor*: an external service; `Lifecycle` has its start and stop.
- *Archiver, sidecar contents, SigMF, metadata formats*: sequential file writing.
  Where the order of those writes matters (`CaptureIndex`, `Delivery`) it is
  modelled.
- *Web rendering, queries, migrations, configuration, metrics, CLI, mDNS
  announcements*: no state the rest depends on.
- *Parts of modelled components*: the RAM capture of replays, downloads and
  `set_storage_path` in the index, the pruning of old runs, the
  `evicting_young` warning, the fleet's proxied routes.

Next: the fleet's schedule fan-out, and `Recorder` composed with `CaptureStream`.

## 7. Running

    tlc -config MCProcess.cfg MCProcess
    tlapm ProcessProofs.tla
    tlapm NetworkProofs.tla
    tlapm StorageProofs.tla
    tlapm IsolationProofs.tla
    tlapm RecorderProofs.tla
    tlapm RequestsProofs.tla
    tlapm WindowsProofs.tla
    tlapm RecordsProofs.tla

`PROJECT.json` names the module and configuration of every run. The longest takes
about four minutes on two cores.
