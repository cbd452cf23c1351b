# Tunarr: TLA+ specifications of the streaming core

Tunarr turns a media library into live television channels.  Its server keeps,
for every channel somebody watches, a *session*: an ffmpeg process (or a loop
that starts one after the other), the connections of the players, a cleanup
timer and a place in the map of the session manager.  Around the sessions are a
position in the lineup of every on-demand channel, the calculation of what is
played, a pool of worker threads and a queue of library scans.

This directory holds models of those parts: TLA+ modules, the TLC
configurations that check them on small instances, and proofs checked by TLAPS.
Paths below are relative to `src/server/src/` unless they say otherwise.

1. [Inventory](#1-inventory)
2. [Plan](#2-plan)
3. [The modules and the code](#3-the-modules-and-the-code)
4. [The runs](#4-the-runs)
5. [Fairness](#5-fairness)
6. [The proofs](#6-the-proofs)
7. [What the code does not do](#7-what-the-code-does-not-do)
8. [Not modelled](#8-not-modelled)

## 1. Inventory

The server is one Node.js process.  Its own code is single-threaded apart from
the worker pool; concurrency is that of promises, timers, event emitters,
child processes and HTTP requests.  Every `await` is a place where any other
request may run.  The web client (`src/web`) talks to it over HTTP only.

### Session manager -- `stream/SessionManager.ts`, `util/mutexMap.ts`

* **State**: `#sessions`, a map from (channel, session type) to a session;
  `#sessionLocker`, one mutex per channel.
* **Operations**: `getOrCreateSession` behind typed wrappers,
  `getOrCreateConcatSession` (two critical sections), `enforceConcurrencyLimit`,
  `endSession`, `deleteSession`, `cleanupStaleSessions`, and the listeners on
  `error`, `stop`, `cleanup`, `addConnection` and `removeConnection`.
* **Interacts** with the sessions (awaited calls, events), with the on-demand
  service (calls that are not awaited), with the routes and a scheduled task.
* **Hard**: the manager's lock is per channel, the sessions' locks are their
  own; a tune evicts sessions of *other* channels while it holds its own
  channel's lock; listeners run outside every lock, and late.
* **Correct when**: a stream that runs can be reached and stopped; a session is
  started by one request at a time; what an old instance's event removes is
  that instance; no entry is overwritten; requests come back; idle sessions go.

### Stream sessions -- `stream/Session.ts`, `stream/ConnectionTracker.ts`, `stream/ConcatSession.ts`, `stream/hls/BaseHlsSession.ts`, `stream/hls/HlsSlowerSession.ts`

* **State**: `#state`, a mutex, the connections with their last heartbeats, the
  pending cleanup, and per subclass a process or a loop.
* **Operations**: `start`, `stop`, `waitForStreamReady`, `addConnection`,
  `removeConnection`, `recordHeartbeat`, `isStale`, `scheduleCleanup`.
* **Hard**: three subclasses disagree on which of them sets the state, emits
  `stop`, or rejects; an error found while waiting for readiness is set before
  `start` has finished; errors come from a loop that runs outside the lock.
* **Correct when**: `started` means there is a stream; a failed session can be
  started again or goes away; the lock is always released.

### HLS run loop and ffmpeg processes -- `stream/hls/HlsSession.ts`, `stream/ProgramStream.ts`, `ffmpeg/FfmpegProcess.ts`, `ffmpeg/FfmpegTrancodeSession.ts`

* **State**: the current program stream, its transcode session, its ffmpeg
  process, `transcodedUntil`.
* **Operations**: `run` / `transcode` (look a program up, set it up, or its
  substitute; start it; wait for it), the program stream's own replacement by an
  error stream, `kill`, the exit listener, `stopInternal`.
* **Hard**: `run` is not awaited and `stop` does not wait for it; a program set
  up while the session stops is started all the same; a restart while the old
  loop still waits makes two loops in one session; the error stream is a process
  HlsSession does not know of; `wait()` listens for an exit that may be past.
* **Correct when**: a loop waits for one process that is still to exit; a failed
  session is stopped; a `started` one has a loop; a stopped one falls silent.

### HLS playlists -- `stream/hls/HlsPlaylistMutator.ts`, `HlsSession.trimPlaylist`, `BaseHlsSession.onSegmentRequested`

* **State**: the raw playlist, the segment files, the segment each player asked
  for last, `#lastDelete`, `#lastDiscontinuitySequence`.
* **Operations**: `trimPlaylist`, `deleteOldSegments` (not awaited), segment
  requests, removal of a connection.
* **Hard**: the filter is the slowest player's segment, read before the lock is
  taken; the deletion runs after the lock is released; a restart resets the
  numbers and keeps what the players had asked for.
* **Correct when**: no playlist names a deleted segment, a deletion leaves the
  slowest player its margin, and a playlist's end never goes back.

### Streaming endpoints -- `api/streamApi.ts`, `api/sessionApi.ts`

* No state.  They turn a player's requests into `getOrCreate...`, connections,
  heartbeats, and (raw concat responses only) a disconnection when the pipe
  closes; the operator's `DELETE` into `endSession`.

### On-demand channels -- `services/OnDemandChannelService.ts`, `tasks/OnDemandChannelStateTask.ts`, `db/channel/LineupRepository.ts`

* **State**: per channel, in its lineup file: `playing` or `paused`, a cursor,
  `lastResumed`, the time of the lineup's last change; a mutex per channel.
* **Operations**: `pauseChannel`, `resumeChannel`, `pauseAllChannels`,
  `getLiveTimestamp` (reads without the lock), the periodic task; the channel's
  and the lineup's editors write the same object without the lock.
* **Hard**: calls are queued by events of the sessions, the last one decides;
  several pauses follow the end of one session; the cursor is a JavaScript
  remainder and may be negative; a crash leaves `playing` in the file.
* **Correct when**: the channel is in the state of the last call; the cursor
  stays within the lineup and never runs ahead of the time it was playing.

### Program calculation and guide -- `stream/StreamProgramCalculator.ts`, `db/lineupUtil.ts`, `util/binarySearch.ts`, `services/TvGuideService.ts`

* **State**: none but the lineups; the loop of a session asks again and again,
  each time from where its last program ended.
* **Hard**: a lineup repeats; redirects lead to other channels and back; what
  is almost over is skipped; the guide has a copy of the same algorithm.
* **Correct when**: redirects end; nothing is played beyond its slot; stream and
  guide agree; what a session is ahead of the schedule does not add up.

### Worker pool -- `services/TunarrWorkerPool.ts`, `services/TunarrWorker.ts`

* **State**: an array of worker threads with a ready flag, the promises `start`
  made for them, outstanding requests per slot, `#state`.
* **Operations**: `start`, `queueTask` with retries and a time-out, the
  message, error and exit listeners, `shutdown`.
* **Hard**: the exit listener waits for a promise that may be pending, resolved
  or rejected before it sets a replacement up, and that may die as well; a
  shutdown that times out leaves the pool terminating for good.
* **Correct when**: nobody waits for a dead worker; a dead worker is replaced,
  and only it; a slot always comes back.

### Media source scanning -- `services/scanner/MediaSourceScanCoordinator.ts` and the scanners, `services/EntityMutex.ts`

* **State**: a queue with one running job; per target a lock, a progress entry
  and an abort controller.
* **Operations**: `add`, `addLocal`, the job, its `finally`s, `cancelAll`.
* **Hard**: the locks are released by the job, the controllers later by the
  promise of the queue; a cancellation reaches a scan only between its entries.
* **Correct when**: one scan per target; locks are released on every path; what
  is reported of a target is about the scan under way.

### The rest

Scheduling (`services/Scheduler.ts`, `tasks/`), lineup scheduling
(`services/scheduling`), ffmpeg command lines (`ffmpeg/builder`), persistence
(`db/`, SQLite), media server clients (`external/`), HTTP routing, start-up and
shutdown (`Server.ts`, `App.ts`), the web client and the shared types: see
section 8.

## 2. Plan

What is done, in the order it was done, and what could follow.

| module | of | abstract specification, properties, proofs |
|---|---|---|
| `Session`, `SessionManager` | manager, sessions, listeners, on-demand calls | safety proved, liveness checked |
| `SessionRegistry` | what the map of sessions promises | `SessionManager` implements it: checked, and the safety part proved (`SessionRegistryProofs`) |
| `HlsTranscode` | `run`, `transcode`, program streams, processes of one session | safety proved, liveness checked, one divergence |
| `HlsPlaylist` | `trimPlaylist`, deletion, players | all properties proved |
| `OnDemand` | cursor, lock, file, editors, crash | all properties proved |
| `WorkerPool` | the pool | safety proved, liveness checked |
| `ScanCoordinator` | queue, locks, progress, cancellation | safety proved, liveness checked |
| `ScanQueue` | what the coordinator promises to those who ask for scans | `ScanCoordinator` implements it: checked and proved |
| `Playout` | lookup, redirects, skips, the session's repetition, the guide | all properties proved |

Could follow: two instances of one channel in one working directory (a product
of `SessionManager` and `HlsPlaylist`; as they stand, too large for TLC); the
throttling and the filler history of the program calculation; the guide's
cache.

## 3. The modules and the code

Every component has a module `X`, a module `MCX` with its small instance and a
module `XProofs`.  `MCX` adds only values for constants and the sets of
permutations under which an instance is symmetric.

Operators introduced by "the fault", "the mistake" or similar in a comment
are not part of the specifications: each is a plausible bug at the place it
stands next to, and with it in the place of the real definition one of the
properties is violated in the run that checks it.

### Session, SessionManager, SessionRegistry

`Session` holds the state of every session *instance* (two sessions created
under one key one after the other are different instances, as in the code,
where listeners compare object identities) and the state functions calls are
built from.  `SessionManager` extends it with the map, the requests, the
listeners and the on-demand calls, and owns every action, because a step of a
session runs the manager's listeners in the same turn of the event loop.

| variable | code |
|---|---|
| `keyOf`, `sessions` | the key a session was created under; `#sessions` |
| `state` | `Session.#state` |
| `queue`, `phase` | `Session.lock`: `runExclusive` calls in order, and where the holder is suspended |
| `stream` | `startInternal` has acquired the stream and `stopInternal` has not released it |
| `workers` | `HlsSession.run()` loops that have not returned |
| `late` | a program or error stream that outlives the loop or the stream it was for, and may still report an error |
| `conns`, `fresh` | `ConnectionTracker.#connections`, and those with a recent heartbeat |
| `timer`, `due` | `#cleanupFunc`; the `.finally()` that emits `cleanup` |
| `chanQ` | `#sessionLocker`, per channel |
| `pc`, `want`, `held`, `victims` | a caller's suspended `getOrCreateSession` or `endSession`: where, for which key, on which session, with which sessions left to evict |
| `playing`, `odQ` | the state of an on-demand channel and the calls waiting for its lock |

| actions | code |
|---|---|
| `Request`, `ConcatCheck`, `EnterShare`, `EnterStart`, `EnterCreate` | a tune: the routes, `getOrCreateConcatSession`, the first half of `getOrCreateSession` |
| `LookupMiss`, `LookupCreate`, `LookupEvict`, `Evict` | the awaited channel query, `enforceConcurrencyLimit`, construction and listeners |
| `StartBegin`, `StartAcquired`, `StartFails`, `BecomesReady`, `ReadinessFails` | `Session.start()` cut at its awaits; `StartSettled` is the rest of `getOrCreateSession` |
| `StopBegin`, `HlsStopped`, `SlowerStopFails`, `ConcatStopped` | `Session.stop()` and the subclasses' `stopInternal`; `StopSettled` resumes who awaited it |
| `RequestEnd`, `EnterEnd`, `EndSession` | `endSession` |
| `Poll`, `HeartbeatExpires`, `Disconnect`, `CleanupTask`, `TimerFires`, `CleanupEvent` | connections, staleness, the sweep, the cleanup timer and event |
| `ProgramFails`, `ConcatProcessFails` | errors of ffmpeg |
| `WorkerEnds`, `WorkerRejects`, `LateEnds` | a run loop returns, or rejects, which is only logged; what it left behind ends unnoticed |
| `OnDemandStep`, `OnDemandTask` | the on-demand service and its periodic task |
| `Collect` | none: an unreachable instance gives its identity back, so that a few identities stand for all the sessions the server ever creates |

**Atomicity.**  JavaScript runs to completion and drains promise continuations
before it takes up the next I/O completion, timer or request.  `Micro` is the
disjunction of the continuations; every other step requires `Quiet`, that no
continuation is left.  This matters: without it TLC finds interleavings that
cannot occur (a listener overtaken by a request between two continuations of
one promise chain), and with it the places where code really is interrupted --
the channel query, the start and stop of a process, the readiness poll, the
timers -- are exactly the actions of `Task`.

**Abstractions.**  A connection token is the client that holds it. Time is
replaced by its outcomes: a heartbeat is fresh or not, a timer is armed or not,
the readiness budget runs out or does not, and ties in `lastActivity` allow
every order within the watched and the unwatched sessions. Whether a session's
files are there is a choice between `BecomesReady` and `ReadinessFails`. A
second identical on-demand call in a row is dropped, since the service returns
early on it. `trimPlaylist` takes the session's lock as well
(`stream/hls/HlsSession.ts:127`); its calls are left out, because all they do to
the other calls is delay them, and the steps of those are not timed; what they
do to the playlist is `HlsPlaylist`. A stream that is left behind (`Lingers`) is
one that nobody stops: the error stream of an HLS program whose loop has gone on
or ended, or the item a stopped `HlsSlowerSession` was playing. It fails later,
which sets `error` and runs the manager's listeners whatever has become of the
session by then, or it ends; which process it is and why is in `HlsTranscode`.

**Bounds.**  `MaxQueue` (calls waiting for one session's lock), `MaxWorkers`
(loops of one session), `MaxCalls` (on-demand calls waiting when a new cause
arises) guard only steps that come from outside; with `MaxQueue` 0 there are none
but tunes.  `MaxLate` bounds the sessions with a stream left behind at once.
`Asks` are the keys each client asks for.  `Identities` are the instances a
session of a key can be, either any (`AnyInstance`) or one that the key has to
itself (`OneInstance`); `Spare` (an identity is left) guards the construction of
a session.  `RunRejects` says whether `run()` may reject.

**Refinement.**  `SessionRegistry` says what the map promises: a session takes a
free key, once, opens and closes its stream while it is in the map or on its
way out (`leaving`), and is forgotten only with its stream closed
(`SafeSpec`); what is on its way out is forgotten in the end (`Departure`).
`SessionManager` instantiates it with the map as `slot`, the instances with a
stream as `open`, and the instances that have a key and are not in the map as
`leaving`.  The action that matters is `Construct`: the key was free before the
tune awaited the query and its victims, and the registry demands that it still
is when the session is put there.

### HlsTranscode

One `HlsSession` over its restarts, from inside.

| variable | code |
|---|---|
| `state`, `calls`, `phase` | `#state`; the session lock with its `start` and `stop` calls; where the holder is suspended |
| `loop` | per `run()` call: between programs, setting one up, its substitute, the retry, waiting for an exit |
| `current` | `#currentSession`, while its process has not exited |
| `proc` | per process: running, killed, or an error stream being created; the loop in `wait()`; whether HlsSession listens; `hadError` |
| `crashed` | history: a `run()` has rejected |

| actions | code |
|---|---|
| `Request`, `StartBegin`, `StartInternal`, `StartFails`, `BecomesReady`, `ReadinessFails`, `StopBegin`, `Stopped` | `Session.start`, `stop`, `startInternal`, `stopInternal` (which kills `current`) |
| `LoopTop`, `NothingToPlay`, `RunRejects`, `Play`, `SetupFails`, `FallbackFails`, `RetryPlays`, `RetryFails` | `run`, `transcode`, and `ProgramStream.start`, which sets an unready stream up again |
| `ExitsQuietly`, `FirstError`, `SecondError` | the exit listener of `FfmpegProcess`, the `error` listener of `ProgramStream` |
| `ErrorStreamStarts`, `ErrorStreamFails` | `tryReplaceWithErrorStream` |

How long a loop waits between programs and which program it plays are left
open.  A free session lock that is wanted is taken before anything else happens
(`Quiet`).  Assumed: the configured ffmpeg can be spawned (`spawn` may emit
`error` without `exit`, and `wait()` would never return).  `MaxCalls` bounds the
calls on the lock when another is *requested*; `Loops` and `Procs` bound how many
exist at once, and are reused.  `SecondError` with nobody listening changes
nothing: `emit('error')` then throws, but after the `exit` event and the kill,
and what catches it is the process's `uncaughtException` handler, which logs
(`cli/RunServerCommand.ts:71-79`).

### HlsPlaylist

| variable | code |
|---|---|
| `lead`, `clock` | `livePlaylistLeadMs` or none, and the time since `#playlistStart`, both in segments |
| `total`, `breaks` | the raw playlist: its segments and the discontinuities in it |
| `files`, `deleteDue`, `deletedFor` | the segment files; whether `#lastDelete` is 30 seconds past; history: the largest filter a deletion was made for |
| `asked`, `polls`, `view` | `_minByIp`; `trimPlaylist` calls at the lock with the filter they have read; what a player was last told |
| `lastDisc` | `#lastDiscontinuitySequence` |

`Published`, `FilterFrom`, `First`, `Last`, `Folded` and
`DiscontinuitySequence` are `generatePlaylist`; `Serve` is the locked part of
`trimPlaylist` together with the deletion it sets off, counted as done at once:
whether a file that is going is still there makes no difference to what may be
listed.  `Restart` is `stop()` and `start()`: numbers begin at 0, `_minByIp` and
the discontinuity sequence stay.  Nothing waits for a deletion that is under way
when the session stops; it is assumed to have listed the directory and unlinked
what it found before the new run writes segments of the same numbers.
`segmentFloor` and the date filter, which no
caller uses, are left out.  `MaxSegments`, `MaxBreaks` and `MaxPolls` are bounds.

### OnDemand

| variable | code |
|---|---|
| `now` | the clock; 1 is the creation of the channel |
| `open`, `watching`, `beat` | sessions, connections and their last heartbeats, as far as they call the service |
| `calls` | the channel's lock in `#locks`: `pauseChannel` and `resumeChannel` calls; `write` is what the holder has computed from the configuration it read |
| `cfg`, `updated`, `disk` | `onDemandConfig` and `lastUpdated` in memory and in the file |
| `saving` | a `saveLineup()` suspended between reading and storing the configuration |
| `last`, `played` | history: the last call made; ticks the channel was playing |

`Create`, `Leave`, `Stop`, `StateTask` and `PauseAll` are the five callers;
`Read` and `Write` are the two halves of a call around
`updateLineupConfig`; `UpdateChannel`, `NewLineup`, `LineupSaved` and
`ScheduleSaved` are the editors that write past the lock; `Crash` loses what
`Flush` has not stored, and reads a negative cursor as 0, as the file's schema
does.  A session here is ready as soon as it is created, and a caller does not
wait for the flush.

`Direct` are the concat sessions: no heartbeats, a resume with every response
(`api/streamApi.ts:177-179`), and a `stop` event that pauses.  `Internal` are the
connections of Tunarr's own ffmpeg, which do not count when a plain session asks
who is left.  Which connections count when a viewer of a concat session leaves, or
the session stops, depends on the session it reads from
(`stream/SessionManager.ts:556-595`); `OnDemand` leaves open whether such a step
pauses and, for one who leaves, whether as of now or of the connection's
heartbeat (`MayPause`).  That choice is exact in `SessionManager`.  The responses
of a stopped concat session close later (`Closing`).  Bounds: `MaxTime`,
`MaxCalls`, `MaxUpsets` (edits and crashes together).

### WorkerPool

| variable | code |
|---|---|
| `state` | `#state` |
| `worker` | every thread ever created: slot, alive or not, its setup promise, who has chained a setup to it (`retry`, `waiting`) |
| `pool`, `runs` | `#pool` with the ready flags; the `#startPromises` of each `start()` |
| `closings`, `shutdowns` | shutdowns under way with the workers they wait for |
| `next`, `req`, `outstanding` | `#last`; the calls of `queueTask`; `#outstandingByIndex` |

`SetUp` is `setupWorker`, `Exits` the exit listener with the chain
`.then(setup).catch(setup)`, `Fails` the error listener, `StartsUp` and
`Replies` the message listener, `Queue`, `Attempt`, `GivesUp` and `TimesOut`
`queueTask` with its retries.  Assumed of worker threads: one that exits before
it has started exits with a non-zero code, and `new Worker()` does not throw.
Bounds: `MaxWorkers`, `MaxStarts`, `MaxShutdowns`.

### ScanCoordinator, ScanQueue

| variable | code |
|---|---|
| `target`, `phase` | what a call of `add` or `addLocal` asks for, and how far it and its job have come |
| `lock`, `progress`, `signal` | `EntityMutex`, `MediaSourceProgressService`, `signalById`, per target |
| `queue`, `running` | the `PQueue` with concurrency 1 |
| `aborted`, `canceled` | the call's controller; the scanner's state |
| `pathsLeft` | paths of the running local scan |

`Ask` to `Accept` are the body of `add`; `BeginWalk` to `Collected` the job of a
remote library, `BeginPath` to `LastPath` that of a local source; `Release` its
`finally`; `NextJob` and `Settle` the queue and the last `finally`.  The first
path of a local scan begins in the same turn as its job; the model lets other
steps in between.  `tryAcquire` queues for the lock with a timeout of 0 and gives
back at once what it is granted after that; `Acquire` and `AlreadyLocked` are its
two outcomes.  `awaitAllFinished` has no state.  `MaxPaths` is a bound.

**Refinement.**  `ScanQueue` says what those who ask for scans may count on: a
target belongs to one call at a time; accepted calls work one after the other in
the order they were accepted; each works on a target that is its own and hands
it back before the next one begins.  `ScanCoordinator` instantiates it with the
locks as `owner`, the running job and the queue behind it as `line`, and the
calls from the start of their job to its `finally` as `working`.  Nothing is said
there of how a scan ends; that every way of ending it passes through `HandBack`
is what the implementation has to show.

### Playout

`channels` are the lineups; `now` is `transcodedUntil`; `ask`, `hops`, `context`,
`program`, `bound`, `stream` are the locals of `getCurrentLineupItem`
(`startTime`, `redirectChannels`, `channelContext`, `currentProgram`,
`maxDuration`, `streamDuration`), `skips` how often it called itself.

`StartTimeOffsets`, `BinarySearchRange` (turns of its loop, `Halved`),
`CycleTime`, `Spot` and `Current` are the lookup; `GuideIndex` and `Anchor` are
the guide's. `Lookup`, `Recursive`, `FollowToNowhere`, `Follow`, `Skip` and
`Answer` are the steps of one request, `Played` and `Tune` the session. A stored
duration longer than the lineup makes the search throw: `failed`. Content whose
program or media source is gone (`missing`) is shown as offline time. Offline
time is filled by something of length 1..d; which filler, fallback or offline
screen is picked, and for how long, is left open. That the length is not 0 is a
property of the waits `FillerPickerV2` returns; `createLineupItem` passes them
on as they are. Slack (10 seconds) and the length of items are scaled to small
numbers that keep their order.

What is stored of a channel is `IsChannel`: durations of items are positive, as
the schema of the lineup has it (`db/derived_types/Lineup.ts:7-9`).  The duration
of a channel is a column of its own and need not be the sum of its items.
`PlayoutAssumption` leaves it open, except that a channel with items that is
redirected to has a positive one.  With 0 the cycle time is `NaN`, the search's
comparisons all fail, and it ends at the last item with `NaN` elapsed; the code
puts the duration right for the watched channel alone
(`stream/StreamProgramCalculator.ts:105-109`), and the assumption leaves the case
out.  `DurationAssumption` says that the
watched channel's is not longer than its lineup, as what writes a lineup writes
the sum (`db/channel/LineupRepository.ts:297`, `391`); only `LeadDoesNotGrow`
uses it.

## 4. The runs

Symmetry is used in safety runs only, over identities that play equal roles.

| run | instance | distinct states | shows |
|---|---|---|---|
| `sm_evict` | 2 channels of HLS, limit 1, 2 tunes, 3 instances, no grace period, loops that may reject | 1 590 000 | `TypeOK`; `NoOrphanStream`, `OneStarterPerSession`, `StartedHasStream` and the refinement `RegistrySafe` when tunes evict one another |
| `sm_concat` | concat over hls_slower, whose `stop` may reject, on an on-demand channel; an operator; streams left behind | 2 280 000 | `NoOrphanStream`; `RemovalHasCause`: no event removes a replacement |
| `sm_live` | concat over HLS, one client that tunes, polls and falls silent, loops that may reject, fair | 21 000 | `IdleSessionsEnd`, `FailedSessionsRecover`, `DepartedEnd` |
| `sm_live_evict` | 2 channels with two session types each, limit 1, 2 tunes, one for each channel, fair service | 215 000 | `CallsReturn`: two tunes that hold their channels' locks and each wait for a session of the other's channel both come back |
| `hls_playlist` | 2 players, paced (lead 1) and unpaced, window 3, margin 1, 5 segments, 1 discontinuity, 1 waiting poll | 5 960 000 | `TypeOK`, `ListedUnlessMinimumFell`, `EdgeNeverRecedes`, `DeletionKeepsMargin` |
| `hls_transcode` | 2 loops, 2 processes, 2 calls, fair | 84 000 | `TypeOK`, `AwaitedOnce`, `ErrorIsStopped`, `StartedHasLoop`, `StoppedGoesQuiet` |
| `ondemand` | an HLS and a concat session, a viewer and Tunarr's ffmpeg, lineup of 2, 3 ticks, 2 calls, an edit or a crash | 8 960 000 | `TypeOK`, `LastCallWins`, `ProgressIsPlayed` |
| `worker_pool` | 2 slots, 1 request, 6 threads, 2 starts, 1 shutdown, fair | 1 130 000 | `TypeOK`, `NobodyWaitsForTheDead`, `EveryWorkerInPool`, `SlotsRecover` |
| `scan` | 3 scans, 3 remote libraries (one unscannable, one tidy), 1 local source of up to 2 paths, fair | 785 000 | `TypeOK`, `OneScanPerTarget`, `ProgressShown`, `LocksComeBack`; the refinement `ServedInTurn` |
| `playout` | every lineup of up to 3 items for the watched channel, of up to 2 for the one it redirects to, some with missing content, times to 17 | 4 870 000 | `TypeOK`, `SlotNotExceeded`, `StreamMatchesGuide`, `RedirectsEnd`, `NeverFarAhead` |
| `v_stop_transcoding` | 1 loop, 2 processes | | `StopEndsTranscoding` is violated (section 7) |
| `v_pause_watched` | an on-demand channel of concat over HLS, 2 viewers and Tunarr's ffmpeg | | `PausedOnlyUnwatched` is violated (section 7) |

Why the bounds are enough.

* Sessions: an orphan needs an old and a new instance and, with eviction, a
  victim: three instances.  A double start needs two requests for one key; a
  removal of the wrong instance needs an old instance with an event to come and
  a new one.  `MaxQueue` 1 leaves room for a call behind the one that holds the
  lock (calls made by continuations are never held back by it), 2 for a start
  between two stops.  A stream left behind does its harm to a session whose key
  has a new holder (`sm_concat`) or to one that is started again, which
  `HlsTranscode` looks at from inside and the proofs cover here.
* A circle of waiting calls needs two tunes, each of which holds its channel's
  lock and waits for the lock of a session of the other's channel.  A tune evicts
  when it creates a session, and never one of its own channel, so each channel
  needs two types: one session to be evicted while a tune creates the other.
  Plain hls_slower and a concat session whose underlying one is not there are two
  types that do not depend on each other.  `sm_live_evict` has nothing but tunes,
  starts and evictions, but all of their interleavings; that both tunes do wait
  for each other in this way was confirmed by asking TLC for such a state.
* `sm_live` has one client and no stream left behind: with either its liveness
  graph is too large.
* `HlsTranscode`: two loops are what a restart during a program makes; two
  processes let one loop's program, its error stream and the other loop's
  program compete; two calls put a `start` behind a `stop` and the reverse.
* `HlsPlaylist`: five segments are more than window and margin together, so
  segments are dropped, deleted and asked for after; two players are the
  slowest and another.
* `OnDemand`: a lineup of 2 wraps within 3 ticks; a viewer and Tunarr's ffmpeg are
  one that counts and one that does not, on either session; one call is under way
  and one behind it.  An edit together with a crash is covered by the proofs only.
* `WorkerPool`: six threads allow the first pair, and a replacement of a
  replacement while the promise of `start` is pending; after them the threads are
  used up, so `SlotsRecover` is about the first deaths.
* `ScanCoordinator`: one job runs, one waits, one asks; with two that wait, the
  order of the queue shows.
* `Playout`: three items with items shorter and longer than the slack; a lineup
  shorter than `MaxTime` so that it repeats; redirects that end sooner or later
  than their slot, in a circle, and to a channel that is gone.

Deadlock is checked in every run but two: a worker pool that was shut down and
has used up its bounds stops, and so does a session that has reached the last
time that may be asked for.  The proofs show that the bounds hide nothing from
the safety properties they cover.

`IdleSessionsEnd` and `FailedSessionsRecover` are about HLS and concat sessions:
a session of type hls_slower may stay in `error` for good, as section 7 says.

## 5. Fairness

`ServiceFairness` of `SessionManager` says that the event loop serves what is
ready: continuations (weak fairness of `Micro`, which is enabled without
interruption until it is taken), and the completion each suspended call waits for
(`Completion`): the channel query, or the step of the holder of the session lock
it is queued at.  Completions are ready again and again rather than all the
time, because every continuation in between disables `Quiet`; hence strong
fairness.  The code bounds each of them: the query is a local SQLite query,
starting a process and the readiness poll have a budget, stopping one ends in a
kill.  Completions are fair, not their outcomes: a session may fail to start every
time.

`Fairness` adds the holders of session locks nobody waits for, the timers, the
scheduled tasks and what a session leaves behind (`Remainder`): the return of a
run loop that has been told to stop (or, in the same condition, the end of what
a loop left playing: a program is no longer than its lineup item), or that the
response pipe of a session that is no longer in the map closes (its source has
ended). Nothing is assumed of players, operators or of ffmpeg otherwise:
requests, polls, expiring heartbeats, disconnections and failures are never
fair. `CallsReturn` is checked under `ServiceFairness` alone.

`HlsTranscode`: the lock is taken when it is free; its holder, every loop and
every process take their next step, whichever it is.  Strong fairness for the
same reason as above.  A process comes to an end because its program does, or by
the SIGKILL fifteen seconds after a kill (`ffmpeg/FfmpegProcess.ts:213-252`).
Requests are not fair.

`WorkerPool`: a thread that was created starts up, unless it dies first, and one
that has failed exits.  That a thread dies is not fair, nor are requests,
replies and shutdowns.

`ScanCoordinator`: every call goes on (`Job`); what a scan waits for is answered
or fails, both of which the HTTP clients and the file system guarantee in the
end.  New calls and cancellations are not fair.

The other modules state no liveness.

## 6. The proofs

All theorems are proved for every value of the constants, from the assumptions
named in the modules only: identities are distinct, bounds are numbers, a
window keeps at least one segment, a lineup has a length, a pool has a slot,
and what section 3 says of the channels of `Playout`.

| module | theorems |
|---|---|
| `SessionManagerProofs` | `TypeCorrect`, `StreamsAreReachable` (`NoOrphanStream`), `SharedHasStream` (`StartedHasStream`), `OneStarter` (`OneStarterPerSession`), `RemovalsHaveCause` (`RemovalHasCause`) |
| `SessionRegistryProofs` | `KeepsTheRegistry`: `Spec => Registry!SafeSpec` |
| `HlsTranscodeProofs` | `TypeCorrect`, `LoopsAwaitOneExit` (`AwaitedOnce`), `FailedSessionsAreStopped` (`ErrorIsStopped`), `StartedSessionsRun` (`StartedHasLoop`) |
| `HlsPlaylistProofs` | `TypeCorrect`, `ListedSegmentsExist` (`ListedUnlessMinimumFell`), `DeletionsSpareMargin` (`DeletionKeepsMargin`), `PacedEdge` (`EdgeNeverRecedes`) |
| `OnDemandProofs` | `TypeCorrect`, `CallsTakeEffectInOrder` (`LastCallWins`), `ProgressIsCountedOnce` (`ProgressIsPlayed`) |
| `WorkerPoolProofs` | `TypeCorrect`, `CallersAreAnswered` (`NobodyWaitsForTheDead`), `ThreadsAreInThePool` (`EveryWorkerInPool`) |
| `ScanCoordinatorProofs` | `TypeCorrect`, `ScansExclude` (`OneScanPerTarget`), `ProgressIsOfTheScan` (`ProgressShown`), `ServesTheLine`: `Spec => Line!Spec` |
| `PlayoutProofs` | `SearchFinds` (the binary search), `TypeCorrect`, `RedirectLoopsEnd` (`RedirectsEnd`), `SlotsAreKept` (`SlotNotExceeded`), `StreamFollowsGuide` (`StreamMatchesGuide`), `LeadDoesNotGrow` (`NeverFarAhead`) |

**SessionManager.**  None of the invariants is inductive alone.  `IInv` is, and
its conjuncts are stated and proved in the order in which each rests on the
earlier ones:

1. `TypeOK`.  Even this needs the rest: `Tail` of a lock queue keeps its type
   only if the queue is not empty, which is `LockOK` and `PhaseOK`.
2. `LockOK`, the discipline of the channel locks: a call that has entered its
   critical section is at the head of its channel's queue.
3. `JobsOK`: a call on a session's lock is awaited by the request that made it,
   which is suspended on that very session, and makes no other call meanwhile.
   `OneStarterPerSession` follows from 2 and 3: two starters would both be head
   of the same channel's queue.
4. `PhaseOK`: what the holder of a session's lock is doing fits the call it made.
5. `MapOK`: a session sits under its own key; an unused identity is pristine.
6. `StreamOK`: a stream is open only in a state `stop()` reacts to.  This is what
   makes a queued `stop` effective.
7. `VacantOK`: while a call evicts, nobody else creates a session at the key it
   is about to fill.  Without it, `Construct` could overwrite a running session.
8. `EndingOK`: the session `endSession` stops is the one it will remove, and
   its stream is closed by then -- `endSession` removes without stopping again.
9. `NoOrphanStream`: what leaves the map is stopped by whoever removes it (6 to
   8), and what has a `stop` behind everything keeps it until it is executed.
10. `StartedHasStream`.

Each part has its own step lemma with one case per action; helper operators used
by several actions have their own lemma per part.  `RemovalsHaveCause` and
`KeepsTheRegistry` follow from `IInv` in one more pass over the actions each: the
latter shows that every action frees keys, opens or closes a stream, lists a
session or forgets one, as the registry's actions do, and needs `VacantOK` for
`List` and `NoOrphanStream` for `Forget`.

**HlsTranscode.**  `AwaitedOnce`, `ErrorIsStopped` and `StartedHasLoop` become
inductive with the shape of the lock (`LockShape`), that `#currentSession` has
not exited (`CurrentAlive`), and that while readiness is awaited the loop goes on
or a `stop` waits (`ReadyHasLoop`).

**HlsPlaylist.**  `DeletedOK`: what is deleted lies before the filter of some
deletion and before the last `MaxKeep` published segments; with the lemma that a
window begins at or before its filter and is never shorter than `MaxKeep`, the
three properties follow.  `ViewOK` bounds what players have been told.

**OnDemand.**  The order of calls needs that only the holder of the lock has
read the configuration (`HolderWrites`) and that the last call is the last of
the queue or the last to have returned (`LastIsLast`).  Progress needs that
every copy of the configuration -- in memory, in the file, in a write under way
-- would, if paused now, stay within the time played (`PInv`); a lineup updated
after the resume starts from 0, which is why the copies in force are held to a
weaker bound than those under way.

**WorkerPool.**  Until the first shutdown: one `start`, no slot without a live
worker (`Whole`), and until a thread dies early, threads and pool agree
(`InPool`); always: a request waited for is outstanding at the slot of a worker
that lives (`Posted`).  `Founded` says what the recorded promises refer to.

**ScanCoordinator.**  A busy call holds its target's lock (`Holds`) and the queue
has each waiting job once (`Waiting`); then a step of one call changes nothing
shown of another's target.  For the refinement, a call is at work or has just
released its lock exactly if it is the running job, and nothing waits while no
job runs (`Runs`); then every step but four kinds leaves the line alone, and
those are `Take`, `Join`, `HandBack` and `Advance`.

**Playout.**  The theorems are about lineups of any length, so they rest on what
a running sum and a binary search return.  Induction comes in a form the provers
can use: a set of numbers that is not empty has a least element, hence a set
that holds 0 and every successor holds all (`Induction`).  With it the offsets
are running sums and grow (`Offsets`), and each turn of the search keeps the
item sought between its ends and brings them closer (`Around`, `Halving`), which
gives `SearchFinds`; a lookup then finds an item of the lineup and the time
elapsed in it (`SpotFound`, `CurrentFound`).  The invariant has these parts:

* `Stored`: the channels are those of a plan; `Typed`: the variables' types.
* `Chain`: the channels gone through are distinct and do not include the one
  come to.  `RedirectsEnd` is a part of it.
* `Rooted`: from the first lookup on, the watched channel is among those gone
  through or is the one looked at, so that no redirect leads to it.  It is
  needed because the watched channel alone may be without a positive duration.
* `Slot`: what will be streamed is at least 1 and at most `bound`, and at most
  what is left of a program; something is left of whatever was found.
* `Shown`: before the first redirect, the program is what the lookup finds on the
  watched channel at `ask`: this ties an answer to the lookup that
  `StreamMatchesGuide` and `NeverFarAhead` compare with the guide's.
* `Ahead`: a request is repeated for a time at most the slack and 2 later, so after
  `skips` repetitions it asks for at most `skips * (Slack + 2)` beyond `now`.
* `Fits`, from `DurationAssumption` and used by `LeadDoesNotGrow` alone: the stored
  duration of the watched channel is at most its lineup's.

`StreamMatchesGuide` then is that the guide's search and the stream's have the
same result for the same offsets and time (`SameSearch`), and `NeverFarAhead` that
what is found begins less than the slack after it was asked for
(`SoonScheduled`).

TLC checks what these invariants imply in the runs of section 4; `IInv` of
`SessionManager` was also checked itself on the safety instances before it was
proved.

Only model-checked are the liveness properties, which are beyond this prover:
`IdleSessionsEnd`, `FailedSessionsRecover`, `DepartedEnd`, `CallsReturn`,
`StoppedGoesQuiet`, `SlotsRecover` and `LocksComeBack`.  Every safety invariant
and action property a passing run checks is proved.

## 7. What the code does not do

Exhibited by a run:

* `StopEndsTranscoding` -- `stream/Session.ts:151-154`, "End this shared session.
  This will stop the stream for all participants."  `stop()` kills the program
  that is playing.  While the loop is looking the next one up or setting it up
  there is none to kill, and `transcode()` starts it afterwards without asking
  for the state: ffmpeg runs until that program ends.  `StoppedGoesQuiet` says
  that it does end.
* `PausedOnlyUnwatched` -- `stream/SessionManager.ts:583-584`, "Pause the channel as
  soon as there are no connections other than internal connections".  For a concat
  session `pauseChannelIfNecessary` looks only at the connections of the session it
  reads from that are not Tunarr's own, and those of its viewers are not among
  them.  In the run two viewers share a concat session, Tunarr's ffmpeg reads the
  HLS session under it, one viewer leaves, and the channel is paused.

Read from the code while it was modelled; no run states them:

* the limit of simultaneous transcodes (`docs/michael/local-changes.md:16`, "Cap
  on simultaneous transcodes.") is enforced when a session is created and counts
  sessions that are not `stopped`.  An HLS session that an error has stopped
  stays in the map, is not counted, and the next tune to it starts it again
  without asking for the limit.
* a tune whose readiness budget runs out does not fail
  (`docs/michael/local-changes.md:22`, "Total wait before failing the request."):
  the session is set to `error`, `start()` then sets `started`, the caller finds
  no error and the player is connected to a session that is being stopped.
* candidates for eviction are ranked once; while the first victim stops, another
  may gain a viewer and still be evicted although an idle session is there
  (`docs/michael/local-changes.md:49`, "Sessions with live viewers are only
  evicted when nothing else can be").
* the dangling session `getOrCreateConcatSession` says it removes
  (`stream/SessionManager.ts:195`) is of the type just found to be absent:
  nothing is removed.
* `HlsSlowerSession.stopInternal` keeps the state `error`
  (`stream/hls/HlsSlowerSession.ts:176-185`), and in `error` the sweep only calls
  `stop()` again (`stream/Session.ts:280-284`): an hls_slower session that failed is
  by itself neither removed nor started again (`stream/Session.ts:130`,
  "Please retry later").
* a player that polls an HLS session it has been away from resumes nothing: the
  playlist route shares the session, and `resumeChannel` is called when a session
  is created and by concat responses only.  And the periodic task pauses a channel
  only if it has sessions: one that says `playing` without any, as after a crash,
  keeps saying so.
* the lock of a scan target is kept for good when the factory has no scanner for
  it (`services/scanner/MediaSourceScanCoordinator.ts:142-149`): `LocksComeBack`
  leaves such targets out.
* a scan queued while the previous scan of its target still settles loses its
  abort controller to it (same file, line 179) and can no longer be cancelled.
  `ProgressShown` is about the progress shown, and does not look at controllers.
* a crash while the channel plays leaves `playing` in the file, so the time the
  server is down counts as watched.  `ProgressIsPlayed` counts it as well: what it
  says is that no tick is counted twice.
* a pause or resume stores the configuration it has read
  (`services/OnDemandChannelService.ts:89-94`); an edit of the channel that passes
  the file's lock in between is overwritten, and on-demand playback that was
  switched off is on again (`Read`, `UpdateChannel` and `Write` of `OnDemand` in
  this order; `LastCallWins` says nothing after an edit).

`StreamMatchesGuide` compares the two searches for channels as they are stored;
in its run no stored duration of the watched channel is such that the guide
repairs it, which is a path of the guide alone.

## 8. Not modelled

* **Two sessions in one directory.**  The working directory is named by the
  channel; the delayed cleanup of a stopped session may delete the files of its
  replacement.  `HlsPlaylist` has the files of one session over its restarts.
* **`getLiveTimestamp`** only reads; `Playout` starts a session at any time.
* **Fillers, fallbacks, throttling and play history** of the program calculation:
  random choices and a cache; the model leaves the choice open.
* **Building and caching the guide**, XMLTV and M3U files, the slot schedulers:
  sequential computations over lineups.
* **`util/asyncPool.ts`** yields results in the order they complete; that is its
  purpose and there is no state to go wrong.
* **Scheduling**: a library (`node-schedule`) runs the tasks; those that touch
  modelled state are actions of its modules.
* **ffmpeg command lines**, probing, the master playlist: data, not behaviour.
* **The database** serialises its own transactions; migrations run once before
  anything else does.  The lineup files are in `OnDemand`.
* **HTTP clients of media servers, routing, start-up, the command line**: I/O.
* **The web client and the shared types**: a large part of the repository,
  partly generated, without shared state on the server.

The map therefore covers a small share of the repository: the code with
concurrency and state of its own is a few thousand lines among many that parse,
query, format, validate or render.
