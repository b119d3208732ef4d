# A TLA+ verification of donut_server

`donut_server` is a wavefront-estimation service: an HTTP front-end (one asyncio
process) that hands exposures to *flights*. A flight is a coordinator child process
with its own workers, a pipe, and a block of shared memory that pixels are streamed
into. A client prepares a job (`/prepare`), pushes the raws (`/push`, or `/ingest` and
`/submit` for raws already on disk) and polls the job's record; a second pool of
flights draws the plots. This directory holds the TLA+ models of the parts whose
correctness depends on interleaving, failure and order, the TLC configurations that
check them, and machine-checked proofs about all eight of them.

Paths below are relative to `src/python/lsst/ts/donut_server/`.

## Inventory

| component | state it keeps | operations | talks to |
|---|---|---|---|
| **Flight supervision** (`Coord`, `server.py` 400–1080) | `_state`, `_restart_attempts`, `_loss_provoked_by`, `_primed_args`, `_proc`/`_conn`, an asyncio lock, a one-thread executor, two background tasks | `start`, `send_command`, `_bring_up`, `_restart`, `request_restart`, `kill_child`, `aclose` | its child over a pipe; the handlers; the operator |
| **Child main loop and prepared caches** (`coordinator.py`) | `_PREPARED_CACHE`, `_PREPARE_COMMANDS`, the two calib caches, the mirror globals `_ACTIVE_KEY`, `_TASK`, `_CALIB_STORE`, `_REFCAT_STORE` | `ensure_prepared`, `ensure_prepared_for_push`, `run_push`, `run_ingest` | the butler, the shards, the front-end |
| **Jobs and routes** (`server.py`: handlers, `FlightPool`) | `JOBS`, `SUBMITTED`, `_by_job`, each flight's `push_lock` and shared block | `/prepare`, `/push`, `/ingest`, `/submit` (with or without `resubmit`), `select`, `route`, `for_push`, `_fail_jobs` | flights, producers, pollers |
| **Plot queue** (`server.py`: `PlotQueue`) | a stack, the set of queued jobs, retries, errors, an event, one drain per plot flight | `enqueue`, `_drain`, `aclose` | plot flights, the `/plots` manifest |
| **Deferred tables and plots** (`coordinator.py`, `server.py` 2340–2440) | `_DEFERRED`, the tables and figures on disk | `_run_deferred`, `render_plots`, `/admin/plots`, the scan for missing plots | three processes through one directory |
| **Camera's hook** (`trigger.py`) | what the last poll saw and when, since when the exposure is complete | `wait_for_exposure`, `run_notifier`, the watchdog | the raw directory, `/submit` |
| **Directory to task** (`daq.py`, `replay.py`, `protocol.py`, `client.py`, `coordinator.py`) | a shared segment per encode or ingest, the flight's block, the headers in use | resolve, fan-out, framing, receive, decode, wrap | forked workers, `/dev/shm`, the flight |
| **Reference catalog shards** (`refcat_store.py`) | `_SHARD_CACHE`, a store per prepared entry | `ensure`, `uncovered` | every prepared entry, a local directory |
| Log tail, table view | none | cut, page | pages of the dashboard |
| Pixel codec, health/dashboards/auth, pipeline task, scripts | | | |

### Where it is hard

- **Interleaving.** The lock, the one-thread executor, the bring-up task created by
  `start()` and the one created by a loss, the operator's restart, and the shutdown meet
  in every `Coord`. Handlers read state, await a flight, and use what they read.
- **Failure.** A child may crash, hang before its hello, declare itself fatal, or be
  killed, at any point of an exchange. `/prepare` may raise at each of its stages. Forked
  workers die without a word, files are replaced under a job, bodies are cut short.
- **Order.** A reply must reach the caller that asked; a push must find in the block
  the bytes it put there; LRU caches and mirrors are updated in a fixed order.
- **Limits and timeouts.** `MAX_RESTART_ATTEMPTS`, `PREPARED_CACHE_CAP`,
  `CALIB_CACHE_CAP`, `SHARD_CACHE_CAP`, `PLOT_MAX_RETRIES`, `PLOT_ERROR_CAP`, the size of the
  block, the room in `/dev/shm`; hello, start-up, fan-out and request timeouts, the settle
  window, the watchdog.

What makes each component correct:

- *Flight:* a command runs at most once; a reply is one's own; a refused command never
  ran; one child at a time; every call ends, and every bring-up unless a spawn raises; closing
  leaves no child but one that is being put down.
- *Prepared caches:* a job runs under its own configuration and on the calibs certified
  at that moment; a refused prepare leaves the old configuration live.
- *Jobs:* the block holds the job's bytes while its command is queued or runs; a job is
  worked on where it is routed; record and reply agree; a loss stays on its flight.
- *Plot queue:* a job has one place, is never dropped or left to nobody, and the queue
  empties once nobody asks.
- *Tables and plots:* what can be seen was written to its end and belongs to a job whose run
  came to its end; a finished job's table comes; a render ends; a draw cut short stays in sight.
- *Hook:* what it submits is finished, the times it reports are true, and it ends.
- *Directory to task:* every detector is fitted on its own pixels, of the exposure that was
  prepared, under that exposure's header; nothing an earlier push left in the block is
  read; a segment is given back; a job ends.
- *Shards:* a store covers what it says it covers; the cache keeps the last pointing.

`PROJECT.json` lists the hazards at their lines, with the properties that would
catch each, or the reason none does.

## The modules

| module | models | composes |
|---|---|---|
| `ConfiguredRuns` | what a child promises about configurations, as if it cached nothing (abstract) | |
| `PreparedCache` | the child's caches and mirrors, and what a push runs with | implements `ConfiguredRuns` |
| `CommandOnce` | what a flight promises its callers (abstract) | |
| `Flight` | one `Coord`, its executor, its children, the operator | implements `CommandOnce` |
| `FlightProofs` | theorems about it, the refinement included | `Flight`, `DataLemmas`, `TLAPS` |
| `Jobs` | handlers, routes, locks, shared blocks over several flights | relies on `CommandOnce`'s three outcomes |
| `JobsProofs` | theorems about it | `Jobs`, `DataLemmas`, `TLAPS` |
| `DataLemmas` | lemmas about queues in which everybody stands at most once, finite sets of numbers in order, sequences and slots, and induction | `TLAPS` |
| `PlotQueue` | the stack and the drains of the plot flights | relies on the three outcomes |
| `PlotQueueProofs` | theorems about it | `PlotQueue`, `DataLemmas`, `TLAPS` |
| `Outputs` | coordinator, plot flight and front-end around the files of a job | relies on `PlotQueue` for order and limits |
| `OutputsProofs` | theorems about it | `Outputs`, `TLAPS` |
| `ExposurePoll` | the camera's hook, a writer, a clock and a server's silence | |
| `ExposurePollProofs` | theorems about it | `ExposurePoll`, `TLAPS` |
| `ExposureDir` | headers, replay, what a directory is: operators | |
| `WireFormat` | the body of a push: operators | |
| `DataPath` | one exposure's way from its directory to the task, pushed or ingested | `ExposureDir`, `WireFormat` |
| `DataPathProofs` | theorems about it and about the layout | `DataPath`, `DataLemmas`, `TLAPS` |
| `ShardCache` | the stores and their shared cache | |
| `CacheProofs` | theorems about `PreparedCache`, the refinement included, and `ShardCache` | both, `DataLemmas`, `TLAPS` |
| `MC*` | instances for TLC | |

### ConfiguredRuns and PreparedCache

`ConfiguredRuns` has no cache: it knows the keys it was prepared for, and a prepare or
a job gets the whole `Config` of its key, built from what the registry certifies now. `PreparedCache` is shown to be that
to the front-end (`knownKeys`, `activeConfig`, `ranUnder` are the mapping).

Ordered dictionaries are sequences, least recently used first (`MoveToEnd`,
`EvictLru`). The child serves one command at a time, so one command is one step; the
steps differ in where the command raised: `Prepare` and `PrepareRaises`, `Push` and
`PushRaises`. `Activate` is `_activate_entry` with its order kept: the detector half is
put in its slot, the filter half ensured, and only then are all mirrors switched;
`ActivateRaises` is every way it stops before the switch, including the one that has
already replaced the detector half. `Recertify` lets the butler resolve a dataset
differently at any time, and `Restart` gives the front-end a fresh child while the keys
it issued live on in job records. `RunJob` carries `run_job`'s own guards: the raws'
filter is the loaded one, and the shards they need are among those loaded. They may be fewer, as those of
a dither are; `Fields` lists what raws can need. A calibration half is the identity of what it was resolved to, a
reference store the set of its shards. `ran` and `reply` observe the last step.

### CommandOnce and Flight

`CommandOnce` has a client's call pending, replied, lost or refused, and a count of its
runs. `Flight` is a coroutine-level model: an action is what one party does between two
awaits, one blocking call of the executor's thread, or one message of the child.
`lockQ` and `execQ` are the holder and the waiters of the lock and of the executor;
`pc[x]` is the await a caller or bring-up task is parked at. `Acquire`/`Wake`/`Exchange`/
`Returned` are `send_command`; `Begin`/`BackoffOver`/`Spawn`/`HelloReturned`/
`ReprimeReturned` are `_bring_up`, and `SpawnRaises` the exception nothing in it catches, which ends the
task (`broken` is what it leaves of a `_proc`). `Detach` and `Reap` are the two halves of `_reap` on the
thread: it drops `_proc` first and puts the child down afterwards (`doomed`), so that others find no child
meanwhile. `Send`, `Receive`, `NoticeLoss` and `HelloTimeout` are its other calls; a reader finds a dead
child by two looks, an empty slice of waiting (`SliceOver`, `looked`) and then `is_alive()`
(`LookAtChild`), and the child may answer and die between them. `Boot`/`RunCommand`/`Respond`/`Crash` are the child. `children` keeps every
child ever spawned, which is what makes an orphan visible. The refinement mapping
`callOf` shows a call as `"crossed"` if its reply was someone else's, a value
`CommandOnce` does not have.

Simplified: time is left out and a timeout may fire whenever its wait is pending (a
command has none); the two cancellations of `aclose` and what they queued are one
step; a wakeup of `_ready_event` turns waiters into woken ones; a SIGKILL kills; `_proc` and `_conn` are
read and cleared together; requests come only once start-up has had its first turn (`Serving`), since
uvicorn serves after `start()` returns. `AcloseReaps` waits for no reap under way: `aclose` cancels the
task that awaits it and shuts the executor down without waiting, so it can return before
the thread has killed its child. `RestartWhileStarting` is an assumption on the operator: FALSE in the passing
run, TRUE in `flight_starting`, which shows what happens otherwise.

### Jobs

A request is a coroutine, `pc[r]` its await. `pushLock[f]` and `lock[f]` are the two
locks of a flight, `block[f]` says whose bytes the shared block holds and whether all
of them. A flight answers a command with a reply (`Replied`, `PrepareReplied`,
`SubmitPrepared`), loses it (`Lose`, which is also `_note_loss`, so the records of the
flight's jobs fail in the same step) or refuses it (`Refused`), which is what
`CommandOnce` leaves possible. `LossWhileIdle` is a loss nobody was waiting on. The
pool's choice is left open (any flight), which covers every policy. The 400 answers to
malformed arguments and the backlog counters are left out; `Resubmits` are the submits sent with
`resubmit`, which pass the check of the ledger, and `dry_run` is a way `ResolvedToNothing` ends.

### PlotQueue

`Turn`, `Drawn`, `Unusable` and `SleepOver` are one turn of `_drain` between its awaits.
Looking at the stack, clearing the event, looking again and waiting happen without
an await, so the event needs no variable: a flight at `"wait"` is woken by `Enqueue` and
`Aclose` and by nothing else. A job being slept over is still held by its drain, as in
the code.

### Outputs

`table[j]` says of each table of job `j` that can be seen under its final name what it holds, `"cut"` or
`"whole"`, and `tmp` what the temporary file holds: `OpenTmp` empties it, `FillTmp` is a write that came to
its end, and `Replace` shows whatever is in it. `png` are the jobs whose first figure can be seen. Deliveries of a job
`Arrive` while its record is PREPARED, several if need be, and wait for a lock; `Deliver` hands
one's command to the coordinator in whatever state the job is by then, and `Refuse` ends one without a
command. `Receive`/`RunJob` are one round of the child's loop up to its reply. `RunJob` hands the
table over as its last act; the exit of `ingested_exposures` comes after it and may still raise, so a
failed reply may have writes behind it (`untold`). `RunDeferred` to `DeferredDone` are the work behind the
reply. `StartRender` to `RenderDone` are `render_plots` in the other process: it skips a figure
that is None, and only the first is followed, being the one the scan looks for. A draw that
fails is `RecordError`, which drops the oldest of a full list (`unlisted`). `Answered`, `AskForPlots` and
`Missing` are the front-end. `KillCoordinator` and `KillPlotFlight` may fall between any two of these,
and `RestartFrontEnd` forgets records, queue and errors while the directory stays; what an
earlier front-end left is `Earlier`.

Simplified: one coordinator and one plot flight (others would write other jobs' files);
the waits may time out whenever their file is not there; the queue is a set, and a lost
draw is put back or given up, since order and counts are `PlotQueue`'s; any error may be the oldest. What
a figure shows, and from which tables, is not modelled.

### ExposurePoll

A poll is three kinds of step, as time passes between them: `Wake` reads the clock
(`polled_at`), `Glob` lists the directory, and `Stat` looks at one file at a time. `Returns`,
`PollsAgain` and `GivesUp` are the rest of the loop's body, in the code's order: settled
first, deadline second. `CompleteSince` is `complete_at`. `Submit` and the four ways the request
ends are `run_notifier`; `Alarm` is the `SIGALRM` of a detached hook, anywhere. The writer
writes a file in pieces and may stall, for at most `MaxStall`; it may start a file over
(`disk[f].started` remembers when) and be back at its size before the next look; sidecars come in any order. `Tick` cannot pass a
deadline of the model: a poll or a wakeup is late by at most `MaxLag`.

### ExposureDir, WireFormat and DataPath

`ExposureDir` is what `daq.py` and `replay.py` make of headers: a file is its detector, the
exposure its pixels are of, and whether an emulator wrote it. `WireFormat` is `protocol.py`.
`DataPath` runs a job through them. `Substitute`/`Resolve` read the directory (an ingest twice:
once for the prepare, once for the job); `CreateSegment`, `Worker`, `WorkerRaises`, `WorkerDies`,
`TimesOut` and `WorkersFailed` are the fan-out, in `build_parts_parallel` and in
`ingested_exposures`; `Frame` and `Serial` the two encoders; `TooLong`, `BadHeader` and `Receive` the
front-end's side of the body, for which the producer holds its segment until it is answered; `Decode`/`Wrap` what the task is handed; `RunJob` the checks before it
runs. A job `End`s by giving its segment back, or, if views an ingest cut from it outlive it, by `CloseRaises`:
`close()` raises and nothing unlinks. A byte of a segment or of the block carries the job that wrote it and what it is of, which
is what makes a stale or foreign byte visible; the block is never cleared between jobs, as in
the code. `Mangle` is a body another producer framed (a wrong magic, a cut, a pad, a payload too
long, a descriptor moved, resized or renamed); `Touch` a file replaced under the job, `Kill` the
process at work killed.

`OwnPixels` promises the detectors' own pixels only for a directory left alone and this
producer's body; what the job checks itself (one visit, its filter, no shards but the prepare's) it promises always. It excepts
an operator who pins an exposure (`DONUT_SERVER_REPLAY_OBSID`), and emulated files with replay off,
which go under the test stand's header. Simplified: one flight, one exposure at a time; the
filter of the sample exposure is any of those given; a pickle is whole or does not load; sizes
come from constants.

### ShardCache

A call of `ensure` is one step, the child serving one command at a time. `Reads` takes the wanted
parents in their order (`Sorted`), each by `Touch`, up to the first that cannot be read; `EnsureShards`
evicts only after the last, as the code does. `Disk` completes the directory or takes a file
away; `DropStore` is the eviction of the prepared entry a store belongs to. `PreparedCache`
treats a store as the set of shards it holds, which `CoverageIsHonest` justifies.

## Checks

| run | expects | instance | what it shows |
|---|---|---|---|
| `prepared_cache` | pass, 73 628 states | 4 commands over 3 keys (one is a dither with the first one's key); raws that need some or all of a key's shards; 2 dataset versions (symmetric); both caps 2 | refinement of `ConfiguredRuns`; the caches at their eviction limit, with reloads and recertification |
| `flight` | pass, 216 635 states | 3 clients (2 prepares, 1 push), 2 attempts, 2 faults | refinement of `CommandOnce`, one child, no crossed reply, closing leaves no stray, liveness |
| `jobs` | pass, 399 292 states | a prepare, 2 pushes of its job, 2 submits of a visit (one says resubmit), 2 flights (symmetric), 1 loss each | bytes, routes, records, loss isolation |
| `jobs_live` | pass, 19 174 states | a prepare, a push and an ingest of its job, a submit, 2 flights | every request is answered, no job computes for ever |
| `plot_queue` | pass, 86 325 states | 4 jobs, 2 flights, 3 retries, error cap 2 | one place, nothing dropped, quiet queue drains |
| `outputs` | pass, 602 611 states | a job with selection tables, one of an earlier front-end, 2 deliveries waiting at a time, room for 1 error, 1 fault | whole files of jobs whose run came to its end, tables come, renders end, cut draws in sight |
| `exposure_poll` | pass, 1 163 770 states | 2 files of 2 writes, one rewrite, stall 1, lag 1, interval 1, settle 3, timeout 7, watchdog 10 | what settles is finished, what is reported is true, the hook ends |
| `data_path` | pass, 107 351 states | 2 jobs, 2 sensors, 3 exposures, 8 directories, 3 replay modes, one mishap; bytes as small as they go | own pixels, no stale byte, no lost segment, every job ends |
| `shards` | pass, 42 110 states | 2 stores, 4 pointings over 5 parents, cap 3, any directory | honest coverage, bounded cache |
| `flight_starting`, `jobs_submit`, `poll_slow` | violation | small instances of the same modules | the findings below |

**Why the bounds are enough.** With three prepare keys and a cap of two, some key is
always the one evicted; the code's caps (3 and 2) only lengthen the path to the same
case. In `Flight` two attempts are the fewest that distinguish the immediate
first attempt from one behind a backoff and let bring-up be exhausted, and two faults
reach "lost twice", "hung then killed", "answered, lost, and lost again" and "degraded then restarted by
the operator" (a spawn that raises is a fault too); three clients let one command run, one queue on
the lock and one arrive later. In `Jobs` two pushes of one job and two submits of one
visit are the smallest racing pairs, and two flights are what a loss could spill to.
In `PlotQueue` four jobs exceed the error cap of two and the two drains, and three retries
separate a first, a middle and a last put-back; enqueues need no bound.
In `Outputs` two deliveries that wait at one time are the fewest that let two of one job meet, and
a list of errors with room for one the smallest that loses an entry; the other job's draws,
whose table may or may not be there from the start, are what pushes it out. One fault is one kill,
failed write or restart; with two the safety properties were checked once (1 621 533 states).
In `ExposurePoll` the writer's stall and the lag of a poll together are less than the settle
window: the case the window is for. A rewrite needs no more than a tick, so it may fall between two
looks. Three ticks of settling make at least three polls, and
the deadline, the request's limit and the watchdog lie far enough apart to come in every
order the code allows; `poll_slow` uses a lag as long as the window. In `DataPath` two jobs are what a stale byte needs, a body that
fills the block to a byte less and one that overruns it both occur, the meta parts of one
exposure are longer than of another so that the allowance is exceeded, and the one segment
`/dev/shm` has room for is missing after a killed ingest. In `ShardCache` one pointing wants more than
the cap, one parent has no rows, and a directory may be short of any parents, so that a read fails
first, in the middle or last.
Named bounds: `MaxFaults` (Flight, Outputs), `MaxWaiting` (Outputs), `MaxLosses` (Jobs), `MaxRewrites` and `MaxTime`
(ExposurePoll), `MaxJobs` and `MaxMishaps` (DataPath). Deadlock is not checked where the
system may stop: the front-end may have been closed, every one-shot request answered, every
job delivered, drawn and asked for no more, or the hook gone. `PreparedCache` and `ShardCache`
have no end, and are checked for it.

**Fairness.** `Flight`: weak fairness of each coroutine that can run (the event loop is
fair), of a waiting client's timer (`STARTUP_WAIT_S`), of the executor's thread, of a child that is not hung
or dead, of a signalled exit; none for requests, crashes, the hello's timeout, raising spawns or the operator. `Jobs`: a request that can go on
does; for a body this means that the producer sends it or goes away, for a command
that its flight answers, which is `Flight`'s `CallsAnswered`. `PlotQueue`: a drain that can
step does, a render command being answered for the same reason. `Outputs`: a living child
goes on, and the front-end reads its pipe; none for kills, failures, requests or the
next job of the queue. `ExposurePoll`: the
host runs the hook, the clock goes on, a writer that began a file goes on with it; no
server need answer. `DataPath`: the process at work goes on, and a timeout that is due comes; a
worker need not answer. `ShardCache` has no liveness. `QuietDrains` is
conditional on enqueues coming to an end: the stack is last in, first out, and the
class's docstring accepts that its tail may starve under load.

**Mutants.** The operators marked `Broken` in the modules are plausible bugs of the
definition they precede (a dropped guard, a retry, a forgotten release); each property of
a passing run is violated by at least one, as `PROJECT.json` lists.

## Proofs

Each theorem holds for every value of the constants that meets the module's named `ASSUME`, and
the further hypothesis the table gives. `X => []Y` below is of the module's `Spec`, without fairness.

| module | properties of the runs that are proved | inductive invariant | assumed besides the module's `ASSUME`s |
|---|---|---|---|
| `CacheProofs` of `PreparedCache` | `RunsOwnConfig`, `CachesMatchKeys`, `MirrorsAgree`, `CalibBoundIsReal`; the steps `FailedPrepareKeepsActive`, `EvictedStaysReloadable`, `RunsOnCertifiedCalibs`; the refinement `CachesAreInvisible` | `ConfigInv` | |
| `FlightProofs` | `NoOrphan`, `OneConversation`, `ClosedLeavesNoStray`; the steps `DegradedIsTerminal`; the refinement `CommandsRunOnce` | `FlightInv` | `~RestartWhileStarting` |
| `JobsProofs` | `BlockIsTheJobs`, `WorkedWhereRouted`, `RecordAgreesWithReply`; the steps `LossStaysOnItsFlight` | `JobsInv` | |
| `PlotQueueProofs` | `OnePlace`, `WorkIsAttended`, `OutcomesAreOver`; the steps `NothingDropped` | `QueueInv /\ OutcomesInv` | |
| `OutputsProofs` | `VisibleIsWhole`, `FailedJobsLeaveNoTable`, `CutDrawsAreKnown` | `OutputsInv` | |
| `ExposurePollProofs` | `SettledMeansFinished`, `OutcomeIsHonest` | `PollInv` | `WindowIsWideEnough` |
| `CacheProofs` of `ShardCache` | `CoverageIsHonest`, `LastPointingStays` | `ShardInv` | |
| `DataPathProofs` | `SegmentsReturned`, `NoStaleBytes`, `OwnPixels`; of the wire format, that an accepted layout lies in what was received and that what is packed is parsed back | `SegmentInv`, `BytesInv` | |

The `ASSUME`s say that limits are positive numbers, that commands, jobs and files are of their
sets, that flights, sensors, the files of a directory and the parents of a pointing are finitely many, that
an exposure has a sensor, that a pinned exposure is an exposure, that a job identifier is given out once,
and that `None` is none of the values it stands beside. The module
of a run extends each, so TLC evaluates them on its instance. `CacheProofs`, `FlightProofs`,
`JobsProofs`, `PlotQueueProofs` and `OutputsProofs` also prove their module's `TypeOK`. Each invariant was
checked by TLC on the instance of its run before it was proved, or while its proof was made.

The proofs are laid out alike: lemmas about the data, one lemma for each action (or group of
actions that move alike) saying that it keeps the invariant, one case per disjunct of `Next`, and
a temporal step. What makes each argument work:

**PreparedCache.** `RunsOwnConfig` is not inductive: a push may find its entry in the cache or reload
it, so the step needs that cached entries are what their keys name and that retained
commands rebuild their keys (`CachesMatchKeys`); the switch at the end of `Activate`
gives `MirrorsAgree`, which with `run_job`'s guards gives the property. `CalibBoundIsReal`
needs the active half to be the newest of the filter cache, which a failed activation
does not disturb because only a load that succeeds touches that cache. The three action
properties follow from `ConfigInv` by cases: every raise comes before the switch of
the mirrors; a key leaves the cache only by `EvictLru`, which leaves its command; and a job's halves
are those `Resolve` names at that moment, because an entry's half is looked up by the identity
of what the butler answers now. The refinement puts these together, one lemma per action: a hit and a rebuild leave
the same entry newest, `Activate` then makes exactly `Config` of its key active (`ActiveIsConfig`), and a key
is known the moment, and only when, its command is retained (`PrepareKnows`), for which a cached
entry must have its command.

**Flight.** The invariant has to say who is where, since the code says it only by its control flow.
`LockInv`: the lock's queue lists exactly the callers that are in it, each once, and whoever is past
`acquire()` is first (`DataLemmas` has what joining and leaving such a queue does).
`Stages` and `FatalFirst`: which bring-up task may be at which await in each state, the reap behind a
fatal hello being the one case of two tasks at once. `ExecInv` and `ResultsFit`: the executor has one call,
or two reaps, each with a caller parked for it, unless `aclose` cancelled that caller.
`Buried`, `Dying`, `ProcOpen`: every child but the flight's own, or the one its reap has taken, is dead,
and while there is such a one the thread is at that reap and there is no other, which is what makes
`NoOrphan` and `ClosedLeavesNoStray` hold through a spawn and a shutdown. `Greeted`, `PipeInv`, `HeadInv`,
`Unread`: nothing is sent before the hello is read, and a job or a reply is in a pipe only for the call the
thread is at, or its child is dead and the reader it was for has reported the loss; with that
nobody is sent to that pipe any more, which gives `OneConversation`. For the refinement, `RunsInv` ties a client's count of runs to where its command is: not
sent, in a pipe, taken, answered. With it `Init` maps to `Init`, and each step moves the abstract
call of one client (it asks, its command runs, it is answered) or of none; the answer a
client gets is its own reply after one run, a loss, or a refusal with no run and nothing of its in a pipe,
so that none can come. No other step changes a count.
The hypothesis `~RestartWhileStarting` is needed: without it `NoOrphan` is false, which
`flight_starting` shows.

**Jobs.** The two locks of a flight are queues in the same sense, and what they list is a function of the
requests' awaits (`LocksList`). That a push past its header is first in `push_lock` gives that no two
stream into one block; that a streaming push began the block gives that what it
finishes is its own (`BlockKept`), whole when the command goes out. `RecordAgreesWithReply` needs that a
record appears only when its prepare is back (`RecordsComeLate`), whoever else knows the job's
identifier, and that a delivery under way leaves its record where no other request may move it.

**PlotQueue.** `OnePlace` and `WorkIsAttended` are inductive only together: a
drain decides to wait because the stack is empty, and that this means that no job
is waiting needs the stack and the set to hold the same jobs, each once; that a put-back keeps that
needs a job being drawn to be in neither. `OutcomesAreOver` needs `OnePlace` (when one drain
ends a job, no other holds it and it is not queued, so its error contradicts nothing) and
that a job is in the errors once, so that one `pop` forgets it. `NothingDropped` comes with the
same cases: a recorded error survives the eviction that follows it, being the newest of at least two.

**Outputs.** A table is written only for a job that was handed over, and what its client is told of that
may come later: `OneInFlight` says that a command is with one party at a time, so a reply is of
the run that wrote it, and `OnlyHandedOverIsWritten` that what the child still owes, or has written, belongs to a
job that was answered well, is about to be, or failed after its hand-over. `VisibleIsWhole` needs that
the temporary file is whole whenever it is about to be renamed, whichever write or kill cut the last one
short. `CutDrawsAreKnown` is inductive beside the queue's types: whatever takes a job off the list of errors
puts it elsewhere, or in `unlisted`.

**ExposurePoll.** Nothing in the state remembers what a file did since it was looked at, so `SeenAs` says it of
the file as it is: it is finished at the size that was seen; it is at that size and its writer may pause
only until a known time; it has grown past it; or it was started over since, and the looks can tell
nothing of it. With `ClockInv`, that looks are no further apart than an interval
and two delays, a size seen again is a file that did not change in between or was started over, and one
that did not change for the window is finished. The exception cannot be avoided, for the code compares sizes. The other half of
`OutcomeIsHonest` is `FreshInv`: a poll that begins after the last write sees everything
whole, so a window begins at most one poll late.
`WindowIsWideEnough` (`MaxStall + MaxLag < Settle`) is what the module's comments
ask of `settle_time`; `poll_slow` shows what happens without it.

**DataPath.** `SegmentsReturned` alone is not inductive: a second
segment must not be created over one that is held, so `HeldWhileUsed` says where a segment may be
held; a segment must not be empty, or holding it could not be told from holding none, so
`SourceHasSensors` says that a resolved source has at least one sensor, which in turn needs
the directory to be one (`DirTyped`), through any replaced file.

*The bytes.* `BytesInv` follows them along their way, one part for each place they stop at:
the directory (`DirInv`), the substituted headers (`HeadersInv`), what was resolved from both
(`SourceInv`), the segment the workers write (`SegmentBytesInv`), the body on the wire (`BodyInv`), the
block (`ShmInv`), the layout the coordinator was given (`LayoutInv`), the images and headers of a job
(`GivenInv`), the checks a job has passed (`RunInv`). Each part says of every byte that it is of this
job, which gives `NoStaleBytes` whoever framed the body; and, under the hypotheses `OwnPixels` names (no
file replaced, no foreign producer), that a part is one detector's pixels or header, of one exposure with the
header it will be paired with (`HonestPart`), with an image of each detector among them. The steps need
that slots do not overlap (`SlotsCover`), which detector is in which slot (`OrderFacts`: the set of detectors in
order), and that a packed part begins at the sum of the sizes before it. Sums (`Cumulative`) and joins (`FlattenSeq`)
are recursive functions, so the proofs first show by induction that a function with the
recursion's equations exists; then the CHOOSE behind the definition satisfies them. The induction is
`NatInduct`: a set of numbers that has 0, and with each number the next, has them all. It is stated of a
set, not of a predicate operator, and proved from the well-foundedness of `<`, so it can be cited.
`PackedPartsComeBack` is the same about the wire format alone, for parts of any lengths.

**ShardCache.** A store gets its two fields at once or keeps both, so `CoverageIsHonest` comes down to what a call
that returns has read: by induction along the wanted parents (`ReadsFacts`), the children of the
ones read so far, while the cache lists each parent once and ends with those, in their order. `LastInOrder` is
the step: moving the next one to the end takes none of the others' places, because a pointing
names it once. The eviction keeps the end of the cache, which gives `LastPointingStays` on both sides of the cap.
A call that raises has no bound on the cache, see below.

Only model-checked: all liveness (`CallsAnswered`, `BringUpResolves`, `RequestsAnswered`, `ComputingResolves`,
`QuietDrains`, `ImagesArrive`, `RenderSettles`, `HookEnds`, `EveryJobEnds`), which is out of the prover's reach.
Every other property of a passing run is a theorem.

## What the checks found

1. *(`flight_starting`)* `request_restart` on a flight in STARTING, while `start()`'s task
   is between two reads, runs two bring-ups at once; the second spawn overwrites `_proc` and a
   live child is never reaped (`server.py` 853, docstring "Safe to call in any state").
2. *(`jobs_submit`)* `/submit` checks `SUBMITTED` before it awaits its prepare and enters
   the visit afterwards: two overlapping calls both run (1944, comment at 214).
3. *(`poll_slow`)* `wait_for_exposure` reads the clock before it looks at the files, so a size
   read late in a delayed poll is dated too early: the settle window shrinks by the delay,
   although a comment says that a slow or descheduled poll cannot shorten it (`trigger.py` 216,
   231, comment at 232).

Seen while modelling, and no run of their own:

- `_bring_up` catches `CoordinatorLost` and nothing else, so a spawn that raises (no memory, no
  descriptors) ends its task: nobody retries, and the flight stays STARTING or RESTARTING with every
  command turned away (`server.py` 682, 705), where the docstring promises retries, and DEGRADED "on
  exhaustion" (656, 658). If it was `start()` that raised, `request_restart` then fails too, joining a
  process that never ran (789). `SpawnRaises` models it, and `BringUpResolves` excepts it.
- A file started over after one look and as long again at the next restarts no window, since two
  looks are compared by their sizes alone (`trigger.py` 226), where a comment wants "nothing moved
  for settle_time" (244). `SettledMeansFinished` and `OutcomeIsHonest` except it (`StartedSince`).
- After a prepare kills its child the new one is READY with nothing loaded while
  `_primed_args` still says what the dead one held, so `select` takes it for primed (757, 1139).
  The cost is only time; the prepare is done again.
- A bring-up that gives up after a hello timeout does not reap its last child, which stays
  alive in DEGRADED (664), where a comment says that there is no child to kill (837). The next
  restart or the shutdown reaps it.
- `aclose` may return while the executor's thread is putting a child down: the reap has dropped `_proc`
  before it kills (628), the task that awaited it is cancelled (910), and the executor is shut
  down without waiting (940). The child goes when the thread gets to it (`ClosedLeavesNoStray`).
- Two pushes of one job may both pass the check of PREPARED, which comes before the wait for
  `push_lock` (2059, 2067): the record may end in ERROR with the first one's tables on disk.
- A failure on the way out of `ingested_exposures` comes after the hand-over: its job is answered
  as failed, and the tables are written all the same (`coordinator.py` 1883, 2470, 2474).
  `FailedJobsLeaveNoTable` excepts these two cases
  and a good reply that nobody reads any more, its child having died, and no other.
- An `ingested_exposures` whose views outlive it fails in `close()` and skips `unlink()`, as its comment
  says (`daq.py` 1011): the segment stays until the front-end exits.
- A RECEIVING job that a loss put in ERROR goes back to COMPUTING when its body ends (2124),
  which the service document's state diagram does not have; the reply and the final state
  agree (`RecordAgreesWithReply`).
- A put-back wakes nobody: a healthy plot flight may wait beside a job that a flight
  without a child retries to failure (1515, comment at 1464).
- The scan for missing plots asks only for the first of the files a render writes: a job whose
  draw a restart of the service cut short is not found again (2430, `README.md` 503). `CutDrawsAreKnown`
  excepts the jobs that a restart or a full list of errors pushed out (`server.py` 1406), and no other.
- A plot flight gives up on a selection table after a second and draws without it; nothing
  redraws the figure when the table comes late (`coordinator.py` 2201).
- A read that fails skips the eviction of `_ensure_shards`: repeated prepares over an incomplete
  directory grow the cache past its cap until one succeeds (`refcat_store.py` 277, comment at 255).
- The check of free space in `/dev/shm` reserves nothing: two flights' ingests may both pass it
  and one be killed by SIGBUS (`daq.py` 957). The job fails and its segment is left behind.
- A killed coordinator's segment stays until the front-end exits, whose resource tracker the
  child shares (`leaked` in `DataPath`). A killed producer's is unlinked by its own.
- A directory that changes between the two reads of an ingest is caught by the checks of filter,
  visit and coverage only: two exposures of one field and filter can be exchanged (`replay.py` 67).
- `run_job` does not count detectors, and checks the filter of the first exposure: a
  producer other than `client.py` may push fewer. `parse_layout` allows gaps, overlaps and bytes
  behind the payload; none of them reaches a stale byte (`NoStaleBytes`).
- In `_fan_out` an alarm's `TimeoutError` is caught with the pool's own errors (`daq.py` 826);
  a process with an armed watchdog that encoded would go serial instead of ending. The hook
  does not encode.
- `trigger.py` 637 says "the exposure never completed on disk" of every `TimeoutError`; a silent
  server and the watchdog end there too.

## Not modelled

Of `Coord`: the generation counter, the `/config` snapshot, the exposure counter, the creation
of the block. Of the jobs: `FlightPool.select` and its bookkeeping (any flight is chosen, which
covers every policy), the backlog counts, the 400s of malformed arguments; `dry_run` and a
skipped calibration frame are one way `ResolvedToNothing` ends. A job whose push ends in 413 or
a disconnect stays in RECEIVING, which is seen in the model but is no documented promise broken.
Of the calibrations: how the two backends find their files (`Recertify` lets the answer change).
Of the client: the butler and file sources, polling and downloads.
Log slicing and table paging are read-only helpers of the dashboard on which nothing depends; the
hazard of the former is listed without a property. Left out for good: header translation, image
assembly and pixel encoding (libraries and numerics, of which identities and sizes are kept),
the scripts (sequential drivers), health, dashboards and authentication (projections of modelled
state), the pipeline task (external; one outcome of a command), the figures themselves.

`PreparedCache`, `Flight`, `Jobs`, `PlotQueue` and `Outputs` state a `TypeOK`, which is a theorem of each; the
runs spend their time on the properties that could go wrong.

## Plan

The components are modelled as far as the section above says, and every safety and step property of the
runs that pass is proved. What is left:

1. What makes the fair steps progress, as far as it is safety: that in each waiting state of a flight
   or a request the step the fairness names is the one that can happen.
2. An abstract delivery that `Jobs` implements, a job's bytes and its one outcome, from `JobsInv`.
