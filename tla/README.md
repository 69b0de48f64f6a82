# PiMonitor: models, checks and proofs

PiMonitor samples the health of a Raspberry Pi, raises alerts, delivers them to
webhooks, keeps a rolling history on the SD card and serves a dashboard. This
directory holds TLA+ models of the parts of it that keep state, run concurrently or must
survive failure, the TLC configurations that check them on small instances, and TLAPS proofs.
`PROJECT.json` relates every definition to the source lines it stands for and lists
the runs, the mutants, the hazards and the theorems.

    tlc -config MCAlertEngine_scalar.cfg MCAlertEngine      # one run
    tlapm AlertEngine_proofs.tla                            # the proofs

## The system

| Component | State | Operations | Talks to |
|---|---|---|---|
| Collector loop (`internal/collector/collector.go`, `ringbuffer.go`) | `latest`, ring buffers, `historyGen`, guarded by one mutex; two tickers | `Run`: load, fast tick, slow tick, flush, shutdown | reads every collector; evaluates the alert engine; hands events to the notifier; starts history writes |
| Alert engine (`internal/alert/alert.go`) | `states` per metric and mountpoint, `events` | `Evaluate`, `Report` | called under the collector's mutex; own mutex |
| Webhook notifier (`internal/alert/notify.go`) | one bounded queue, worker and `lastSent` per webhook | `Notify`, `Start`, `Stop`, worker: `dispatch`, `deliver`, `post` | collector enqueues, never blocks; endpoints are outside |
| History persistence (`persist.go`) | `history.bin`, one write in flight (`persisting`) | `persistHistory`, `writeFileAtomic`, `loadHistory` | file system; crash and power failure |
| Process (`cmd/pimonitor/main.go`) | the context, `collDone` | start, signal, bounded shutdown | everything |
| Disk collector (`disk.go`) | `badUntil`, abandoned goroutines | `Collect` with timeout and cooldown | kernel; alert engine; device series |
| History endpoint (`internal/httpapi/handlers.go`) | per-generation cache | `cachedHistory`, `historyPayload` | handlers run concurrently with each other and with ticks |
| Dashboard (`internal/web/assets/app.js`) | `latestHistory`, `historySince`, resync counter | `pollHistory`, `mergeHistory`, `trimHistoryWindow` | polls the history endpoint |
| HTTP server, middleware (`server.go`, `routes.go`, `middleware.go`, `serverstats.go`) | in-flight slots, pool of gzip writers, request counters | routing, admission, compression, authentication, counting | every client |
| Rate collectors (`cpu.go`, `network.go`, `diskio.go`, `process.go`) | the counters and the instant of the last successful read | `Collect` | kernel |
| Firmware and sensor collectors (`vcgencmd.go`, `temperature.go`, `throttled.go`, `hwmon.go`) | what was detected, and when it was looked for | `Collect`, re-detection, a timeout per `vcgencmd` call | firmware, sysfs |
| Configuration (`internal/config/config.go`) | none once it is read | layers, validation, derived bounds | the process, the collector, the health endpoint |
| Plain readers, Prometheus text, embedded assets | none, or fixed at start | parsing and formatting | - |

What is hard in it: debounced levels over irregular, partly failed samples; delivery
to endpoints that time out after having acted, behind a rate limit that must not lose a
recovery; a queue that is full while the collector holds its mutex; shutdown racing
deliveries, flushes and a deadline; atomic replacement of a file across power failures;
a disk list that is shorter than it should be because one filesystem hangs; a cache
read and filled by racing handlers; a page that assembles the window from deltas; rates from
counters that wrap, or belong to something else by now; a health check that must tell a
collector held up by hanging calls from a dead one; and slots, writers and counters shared by
requests that hang or panic.

## Modules

| Module | Models | Used by |
|---|---|---|
| `AlertEvents` | levels, severities, transition events | all alert modules |
| `AlertLevels` | **abstract**: every key has a level; one event per level that moved | implemented by `AlertEngine`, drives `AlertPipeline` |
| `AlertEngine` | the debounce state machine, `Evaluate`, pruning | `DiskMonitor` |
| `Notifier` | `Notify`, the workers, cancellation, `Stop` | `AlertPipeline` |
| `AlertPipeline` | `AlertLevels` + `Notifier` + a consumer showing the last level it was told | |
| `RingBuffer` | the circular buffer: `Add`, `Fill`, `Snapshot`, `Newest` | `DiskMonitor` |
| `DiskMonitor` | the disk collector and device series feeding `AlertEngine` | |
| `HistoryPersistence` | the collector's loop, the atomic write, the process, the disk | |
| `HistoryServing` | ticks, the cache, concurrent handlers, restarts | `Dashboard` |
| `Dashboard` | the page's incremental history over `HistoryServing` | |
| `RateCollectors` | cpu, network, disk and process rates, and the kernel's counters | |
| `Config` | layers, validation, derived bounds | `SamplingLoop` |
| `Sensors` | detection of thermal zones and `vcgencmd`, and their readings | `SamplingLoop` |
| `SamplingLoop` | `Config` + `Sensors` + the loop in time: tickers, hanging calls, health | |
| `RequestPath` | routing, middleware, traffic counters | |
| `*_proofs` | the theorems about the module they are named after, `AlertPipeline_proofs` also those about `Notifier`, `DiskMonitor_proofs` those about `RingBuffer`, `SamplingLoop_proofs` those about `Config` and `Sensors`, `Dashboard_proofs` those about `HistoryServing` | |

`MC*` modules only give constants their values.

**AlertEngine.** `states` is the map of `metricState`s: `active`, `activeSince` and, for each
of the two thresholds, a boundary with the side the value is on and since when (the
`warnAbove`/`warnSince` and `critAbove`/`critSince` pairs). `Evaluate` is one step because
the engine's mutex makes it one. A sample reads any subset of the scalar metrics (the
`Valid` flags) and, if the disk list is valid, any list of mountpoints; events come in
evaluation order, those of pruning last and in any order, since pruning walks a map.
`samples` is a history variable: the raw readings since a key's bookkeeping began. The
properties are stated over `samples`, never over the clocks they are meant to check.

**Notifier.** The threads are the collector (`Notify` enqueues event by event, to the webhooks
in any order, then `BeginStop`/`EndStop`) and one worker per webhook, whose `pc` is `idle` (in the select),
`ready` (about to post), `inflight`, `backoff` or `exited`. A request may be acknowledged,
refused for good, or fail with the endpoint having acted on it or not. The worker's select
may take an event after the cancellation, a backoff timer may fire in the same instant, and
a backoff of zero is not interrupted at all, as in `sleepCtx`. `log` records what became of
each event at each webhook, and the instant of the cancellation.

**AlertPipeline.** A fast tick performs a round of `AlertLevels` and a `Notify` of its events
in one step (both happen under the collector's mutex). The consumer is the state-based one
that `dispatch`'s comment speaks of.

**HistoryPersistence.** A point is the instant of its tick, and one sequence stands for all
series. `persistHistory` takes its snapshot in the tick and starts a writer, which creates a
temporary file, writes, syncs and renames it, and may fail at each step; the temporary file is
then removed, or, as the error of `os.Remove` is ignored, stays (`strays` counts these). `durable` is the
directory as it is on the disk: the file and how many temporary ones there are. The file system
is taken to journal its directory: changes become durable in order, at any `Commit`, and a
`PowerLoss` takes the whole directory back to the last one, so that a rename or a removal that is
undone brings its temporary file back. A file that is renamed without being synced may turn
out torn. The process may crash, lose power, exit because its deadline passed, or exit cleanly, and
it restarts from the file.

**RingBuffer, DiskMonitor.** A buffer is a value: the slots, the next one to write and how many
are in use; `Snapshot` is the sequence it stands for. In each tick the kernel has any set of
filesystems mounted, and `statfs` of each answers, fails or hangs. A hanging one holds up the
tick for the timeout, starts a cooldown and leaves a goroutine behind until it returns. What
was reported is recorded into the ring buffers of the device series and evaluated by
`AlertEngine!Evaluate`.

**HistoryServing, Dashboard.** A handler reads the generation before it takes the cache's mutex;
in its critical section it reads the collector at most once, so that section is one step.
Points are in time order, so that `Since` and the page's trimming both drop a prefix (`From`).
The page holds points and the newest one as `since`; a poll fetches a delta or everything,
and a delta that does not line up is followed by a full fetch. Requests break at any point,
and the server restarts with a prefix of its points.

**RateCollectors.** `kind` chooses one of the four collectors. `kernel` holds the two counters of
each source (a core, interface, block device or process), `prev` those of the last successful
read. Between reads a source works, wraps, vanishes, is replaced under its name, or, for an
interface, takes over a name; a read may fail and keeps the old sample; a walk over processes
misses any of them. A rate is kept as work over time, not divided: rounding is not what goes
wrong. A ranking is the list of names in the order that the sort's comparison asks for. The usage of cores is a
list without names, as in the code: those of both reads, in order (`Position`, `Nth`). The histories `used`, `waited` and `fate` say what really happened since the last
successful read, and the properties compare the report with them.

**Config.** A length of time is a number of configuration units, `Resolution` to each clock unit,
so that converting it to a `Duration` drops a remainder as the code does. A `Duration` has a range,
`MaxDuration` being the code's `math.MaxInt64`: the conversion of what is out of it gives the longest
duration or the most negative one, depending on the processor (`Saturates`), as the comment
in `validateTiming` says, and arithmetic wraps around. `Load` is the whole way from file, environment and flags to a configuration or an error.

**Sensors, SamplingLoop.** `Start` loads a configuration; `Run` makes the two tickers after the
first ticks, each with a channel of one; the select takes any tick that is due. A fast tick
invokes `vcgencmd` up to three times and stats filesystems one after the other, and each call
answers, fails or hangs to its timeout: of the filesystems any number up to `Mounts` hang, which
`excess` records, less the one that the bound has room for. A slow tick runs apt. The clock jumps to the next instant at which
something happens (`Pass`). Thermal zones and the command come and go between ticks, and
`missed` records what a tick could have read and did not. The published snapshot carries the
instant its tick began, which is what the health endpoint measures.

**RequestPath.** Each request is a goroutine with a `pc` along the middleware: `routing`, `admitted`
(has a slot), `checking` (may hold a gzip writer), `handling`, the deferred calls `returned` and
`closed`, then the three counters `total`, `class`, `route`, which are atomic one by one. A
panic in a handler runs the deferred calls and nothing else. A request for the counters reads
them one at a time, in the order `snapshot` does.

## Runs

| Run | Instance | Question |
|---|---|---|
| `engine_scalar` | one metric, values below/between/above the thresholds, `For = 3`, ticks 1 or 2 apart up to instant 8, one retained event | Do levels move exactly when the raw samples of a whole window justify it (`PromptEscalation`, `PromptRecovery`, `NoSpuriousTransition`)? |
| `disk_watch` | two mountpoints, `For = 1`, three retained events, a cooldown of 2, capacity 2, up to instant 5 | Are hung calls few, do cooldowns end, does a blip cost no history, and do the engine's events stay coherent and implement `AlertLevels` when disks vanish, return and fail? |
| `notifier_liveness` | two webhooks, one of which never answers, one retry, a queue of one | Does neither the collector nor the other webhook wait for it, and does `Stop` return? |
| `pipeline_consumer` | a webhook with `min_level: crit`, queue of 2, one retry, rate limit of 2, four instants | Does no event vanish, are order, limiter and duplicate bound exact, is shutdown quiet and final, and does the consumer end up agreeing with the engine, never left alarming? |
| `history_crash` | two points of capacity, a window of 2, three starts, four instants, one removal that fails, a disk on which a write may never end | Is the file always one complete, newest snapshot, are the files left behind accounted for, do flushed points survive, and do ticks and shutdown go on? |
| `dashboard_history` | the page and another client, capacity 2, window 3, tolerance 2, five instants, one restart | Are replies fresh, and does the page hold what the server has, and no more than it needs? |
| `rates` | two names (one excluded), counters modulo 3, two cores, up to three units of work in two instants | Is no rate overstated, is a steady source exact, a core at its place among those of both reads, does a process answer for itself? |
| `sampling` | intervals of 1 and 5.5 s, one that overflows, windows around their multiples, bad and empty layers; timeouts of 1, apt 2, two filesystems; one hardware change up to instant 2, 21 instants | Is a live collector's snapshot older than the bound only by what the bound leaves out, is a source found again in time, can every accepted configuration be run? |
| `requests` | a reader of the counters, a request for the API and one for anything, two slots and two writers | Does nothing leak through refusals, hangs and panics, do counters agree, does the health endpoint stay open? |
| `pipeline_coalesce` | one webhook told of everything; **violated** | Does the limiter only coalesce? |
| `history_shutdown` | one run of the process; **violated** | Does a clean shutdown lose at most the last tick? |
| `disk_blip` | one mountpoint; **violated** | Does a failed or hanging read leave alerts alone? |

Bounds. `MaxTime` bounds all runs in time; it is chosen so that each debounce window,
rate-limit interval, cooldown or history window fits with room to spare, so that what one
leaves behind meets the next. Thresholds need three readings only: below, between, above.
Events through a queue of two reach a worker that is busy, a full queue and a drop.
A capacity of two with four or more ticks evicts repeatedly. Three starts let the file of a run
that was itself restored from a file be restored. `MaxStrays` bounds the removals that fail. In `RateCollectors`, counters modulo 3 wrap
within `MaxWork`, and two instants allow for a read that fails between two that succeed. In
`SamplingLoop`, `MaxTime` leaves room for hanging fast ticks, slow ticks in between and the
bound to expire; two filesystems are one more than the bound budgets for. `MaxChanges` and `LastChange` let
the hardware change once, when a search is due and when it is not, early enough that whole retry
intervals follow; `Patience` bounds how long Go's random select passes over a due
slow tick, which no run of a real coin does for long but an adversary would do for ever. A backoff
is positive in every run: it then may be interrupted, but need not be, which includes what a
backoff of zero does. In `RequestPath` two slots for three requests make one of them be refused. Every run may stop
(time runs out, the process is gone), so deadlock is not checked; what must go on is stated
as liveness.

Fairness. `HungSpec` in `MCNotifier` assumes that the collector's goroutine and the workers
are scheduled, timers fire, and requests to a healthy endpoint end, which the client's timeout
guarantees; nothing is assumed of a request to a hung endpoint, except that a cancelled context
ends it (`post` passes the context to the request). `StuckDiskSpec` assumes only that the
shutdown context expires and that the load and the ticks happen; nothing of the disk.
`HungSpec` in `RequestPath` assumes that the goroutine of a request for an open path runs;
nothing of one for the API, whose client may have stopped reading. None of them assumes that
events occur, that the process is cancelled, or that anything succeeds.

Each property of a passing run has a mutant: a plausible bug in one definition, named and
commented in the module just before it, under which TLC finds the property violated.

### What disagrees with the documentation

* `pipeline_coalesce`: the rate limiter drops any firing within the interval of any acknowledged
  delivery of the stream, a recovery included. A warn-to-crit escalation is lost that way, though
  `notify.go:218` and `:240` say the limiter only coalesces repeated firings. The consumer is
  made good by the recovery (`pipeline_consumer`), not before.
* `history_shutdown`: when the final flush meets a flush in flight it is skipped, not queued, and
  all ticks since that flush's snapshot are lost, though every write succeeds;
  `collector.go:338` promises at most the points since the last fast tick.
* `disk_blip`: a mounted filesystem whose `statfs` fails or times out is missing from a list that
  counts as valid, so its alert is cleared; `docs/ARCHITECTURE.md:175-178` says a failed
  disk read leaves the state alone.

Noticed while reading, without a run of their own:

* The derived staleness bound counts firmware and `statfs` timeouts but not apt's. With a poll
  interval under five seconds, a slow tick whose apt call takes its whole ten seconds makes a
  live collector look stalled (`collector.go:160-169`; `docs/ARCHITECTURE.md:336-349` and
  `docs/API.md:98-101` make no such exception). `NotMistakenForStalled` therefore asks for
  `Spaced`, which says when apt fits. Several mounts that hang in the same tick also exceed the
  budget of one, as `collector.go:160-163` says; the property grants one `statfs` timeout for each
  further one.
* `Validate` has no upper limit for `poll_interval_seconds`. With 3.2e9 one interval fits a `Duration` and
  three do not: the derived bound is negative (`config.go:250`), and `handleHealthz` compares only a
  positive one, so the health check is off, while `handlers.go:26-27` says that in production the bound
  is never zero and `docs/ARCHITECTURE.md:517-519` that no value that silently misbehaves is accepted.
  `UsableConfig` therefore asks for a bound that fits (`Representable`). An interval and a bound below a
  nanosecond give a bound of zero, with the same effect. `updates_check_minutes` has no upper limit
  either: on amd64 one that does not fit turns negative and is clamped to a second.
* A core that comes online or goes offline between two reads is left out of the list of cores
  (`cpu.go:111-119`), and those after it move to another place, which `prometheus.go:57-58` and
  `app.js:221` take for the core's index, as `docs/API.md:729` calls it. `SteadyExact` therefore speaks of
  a core's place among those of both reads.
* An interval that rounds to zero is clamped to a second where the tickers are made, but not in
  the staleness bound; `Spaced` leaves it out as well.
* A reading that failed is recorded into the history as 0 (`collector.go:578-584`), while
  `collector.go:450-452` says that history and alerts can tell a real zero from a failed
  collection; the alerts can.
* The fallback to any thermal zone is never replaced by a CPU zone that appears later
  (`temperature.go:79-84`), and the cached type may be another zone's after a renumbering; a
  `vcgencmd` that was found once is never looked for again. `ReadingsComplete` says no more than
  the code does.
* A request that panics is not counted, since `withLogging` records without `defer`.

## Proofs

What is proved holds for every value of the constants that the named `ASSUME`s admit; those
only give the constants their ranges, unless stated.

`AlertEngine_proofs` proves, for every set of metrics and mountpoints, all readings, thresholds
(with warn not above crit), debounce windows, tick spacings and bounds:

* `TypeCorrect`: the type invariant, with the bound on the event list.
* `EscalationIsPrompt`, `RecoveryIsPrompt`, `TransitionsAreJustified`: a level moves as soon as,
  and only if, the samples of a whole window are on the other side of its threshold.
* `EngineImplementsLevels`: each tick is a round of `AlertLevels` under the refinement mapping
  `level <- [k \in Keys |-> Level(k)]`.
* `ReportIsCoherent`: the retained events tell, for each key, a story without gaps that ends where
  the key is now, however many were trimmed.

`ThresholdAssumption` is what `config.Validate` enforces. None of the safety properties is
inductive: they speak of raw samples, a step changes clocks. The invariant `IndInv` ties the
two together for every key: the side of a boundary is the side of the key's newest sample, all
samples since its clock started are on that side and the one before, if any, is not (`Tracks`),
and the level already agrees with what the two clocks confirm (`Settled`). From `Tracks` a window
of samples on one side is sustained exactly if the clock has run for `For`, and `Settled` then
gives each property. The events need `ReportInv`: neighbours of the same key fit together
(`Chain`), and no event is of the future, so that those of a tick can be appended; trimming
takes the oldest, which nothing later hangs on.

`AlertPipeline_proofs`, for every set of webhooks and streams, queue size, number of retries,
backoff and rate limit, with endpoints that may do anything:

* `EventsAccounted`, `DeliveredInOrder`: `LineInv` says that a webhook's log, the event its worker has,
  its queue and what `Notify` has still to hand out form one line, in which each event that
  concerns the webhook stands once, in the order of occurrence.
* `DuplicatesAreBounded`: `RetryInv` equates the attempts a worker counts with the requests that
  the endpoint may have received.
* `LimiterIsExact`: `LimiterInv` says that `lastSent` is the latest acknowledged delivery in the log.
* `CancelIsQuiet`: no request starts after the cancellation. `QuietInv` strengthens the property:
  while a request is in flight nothing was received since the cancellation, and afterwards one
  delivery at most, whatever retries, backoffs and queues still do.
* `StopIsFinal`: `StopInv` says what a returned `Stop` has waited for: every worker has exited, and
  nothing is left to hand out.
* `PipelineKeepsPromises`: the composition drives `Notifier` as `Spec` says and the engine as
  `AlertLevels` says, so that the theorems above hold of it.
* `ConsumerComesToAgree`, `ConsumerIsNotStuck`: each event starts where the one before it of its
  stream ended (`ChainInv`), and the last one ends at the engine's level (`LevelInv`). A consumer that
  got the last event therefore shows the engine's level. Only a firing can be limited (`Exact`),
  and a firing that reaches a webhook leads to a level that alarms it: so the last event of a stream
  that is below that level was acknowledged, and the consumer shows the stream as quiet.

`DiskMonitor_proofs`:

* `HungCallsAreFew`, `AnsweringDisksAreShown`: a cooldown that is remembered ends `Cooldown` after the
  last hang, and one that is forgotten has ended (`CooldownInv`), whatever is mounted, skipped or
  unmounted in between; so a mountpoint hangs once per cooldown, and is skipped no longer.
* `DisksImplementLevels`, `DiskReportIsCoherent`: a tick of the composition is a tick of the engine, so
  that `DiskSpec` implements the engine's `Spec` and, by `EngineImplementsLevels`, `AlertLevels`, and
  what holds of the engine's events holds of these.
* `AddKeepsNewest`, `FillKeepsNewest`, `NewestIsLast`: for every capacity a ring buffer is a sequence
  that keeps its newest values, which is how the history modules model a series.
* `HistoryFollowsDisks`: a device's buffer holds every sighting within the window, up to its
  capacity, and a device has none only if it was not seen within the window (`SeriesInv`).

`HistoryPersistence_proofs`:

* `TypeCorrect`: the type invariant, with the bound on the memory and one write at most.
* `FileIsComplete`, `FileIsMonotonic`: the file is never torn, and while the process runs it never
  goes back in time.
* `ShutdownIsComplete`: a `Run` that has returned left the memory in the file, unless the final
  flush failed or was skipped.
* `TempsAreBounded`: one temporary file left behind per run of the process and one per removal
  that failed, at most, power failures included.
* `FlushedPointsSurvive`: what a completed flush contained stays in the file and comes back into
  memory through any crashes and restarts, except for what is older than the window, or than the
  oldest of a full series: `Expired` compares points, so that a loss in the middle would show.

Each is a fact about the file that depends on the write in flight, so the inductive invariant
is about that write: it is the only one and runs only while the collector does (`OneWriter`), was
synced before it may be renamed (`SyncedIsStable`), its snapshot lies in time between the file and
the memory (`InTimeOrder`), and after a final flush that was not skipped its snapshot is the memory
(`FlushedLast`). `TempsCounted` relates the temporary files to the runs of the process.
`SurvivalInv` follows a flushed point through file, memory and snapshot; `Retained` and `Restored`
enter through lemmas.

`Dashboard_proofs`, for any number of clients, any capacity, window, tolerance, spacing of ticks and
number of restarts:

* `RepliesAreFresh`: a reply reaches at least to the newest point there was when its handler started.
  A handler that has read a generation is never served an older cache of that generation
  (`RequestInv`), since a cache of the current one holds the current points (`CacheInv`).
* `PageCoversWindow`, `HolesAreReal`: the page misses nothing of its window that the server still has,
  does not grow, and shows no hole that the collector does not have.

The properties of the page speak of the server at any later time, so the invariant is about what
a reply is: a copy of the series after some instant, complete up to its own end and without a
hole (`Copy`). Ticks, evictions and restarts only remove points or add newer ones (`Later`), which
keeps a copy a copy and the page what it is (`PageOf`); joining and trimming keep `PageOf`, by
the checks on a delta that `mergeHistory` makes. `ServingAssumption` asks for a window above zero, as
`config.Validate` does; without one the code restores points of any age, which `Restart` does not model.

`RateCollectors_proofs`: `WorkIsNotInvented`, `SteadyWorkIsReported` and `UsageIsItsOwn`. The counters
remembered and those of the kernel differ by no more than the work done under the name (`Bounded`),
by exactly that if the source is the same (`Continues`), and another process of the same pid is
younger (`Replaced`). A core stands at its position among those of both reads, since no two have the
same (`NthIsThere`). The ranking rests on `PlacesAreTaken`: names have different places, hence there
is one for each place and a way to sort them.

`SamplingLoop_proofs`: `ValidConfigIsUsable` is arithmetic over the derived bounds, for all
resolutions and limits; what it says of the health endpoint's bound is for bounds that fit a
`Duration`, as conversions are monotone only there (`DurationIsMonotone`, `WrappedFits`). `HungIsNotStalled` needs to know when the next fast tick begins, which
depends on what is due and on what was served since the last one (`Timely`): at most one slow tick
comes between two fast ones, so that a snapshot is replaced by a tick that begins at the latest
one interval, one tick and one apt call after its own, and then takes one tick. How long a tick
takes depends on the filesystems that hang in it (`TickOf`): the bound has room for two ticks with one
each, and `Unbudgeted` counts the others.
`NothingIsMissedForLong`: a source that is there and was not found appeared after the last search,
and one that was found is the best there was then (`Searched`). `SensorsAssumption` numbers the
thermal zones from one, apart from the value for none.

`RequestPath_proofs`, for any number of requests, routes and slots:

* `NothingIsLeaked`: only wrapped requests are past the point where a slot is taken
  (`WrappedWithin`), which makes the slots taken those of `Inside` (`SlotsHeld`); no writer is in two
  places (`WritersHeld`).
* `CountersAreCoherent`: the three sums differ by the requests between two increments (`Balanced`),
  and what a reader has yet to read makes up for what it has read (`Reader`). `RequestAssumption` says
  how the routes are registered (an open route is neither limited nor disabled, a limited one not
  disabled, no route has the name of another counter), and that every slot has a writer.

Two devices replace induction over data. A number with a property has a least one, as the
naturals are well founded: so a prefix to drop, the last event of a stream and a sum over a set
are reasoned about, by least counterexamples. And what a step appends or drops is stated once,
as a relation between sequences (`Suffix`, `Joins`, `Extended`), and used as such.

Only model-checked: liveness (`CollectorNeverBlocks`, `HealthyDrains`, `StopReturns`, `ShutdownEnds`,
`TicksGoOn`, `OpenStaysOpen`), which is out of the prover's reach, as is `ENABLED`. Every invariant and
every action property of a passing run is a theorem.

## Not modelled

Parsing and formatting (of `/proc`, of the history file's bytes, of payloads, JSON and Prometheus
text), the plain readers (`memory.go`, `loadavg.go`, `uptime.go`, `wireless.go`, `sysinfo.go`, and of
`updates.go` all but its duration), `hwmon.go`, which keeps nothing between two calls, the dashboard's
rendering, TLS and headers, packaging. The value an event carries, which no decision reads.
NaN and infinite lengths of time in a configuration, and the rounding of `float64`. Within `HistoryPersistence`, the wait for
the notifier that ends `Run`, which `Notifier` covers.

Two hazards have no property. Clock steps: instants only grow in every module, while the ring
buffers and the page compare wall-clock times; after a step back the retained points are out of
order, and neither the code nor its documentation says what should become of them. And a
request of the page that never ends: the page sets no timeout, so that whether one ends is up
to the browser.

## Plan

Done: the alert path, persistence, disks, the history endpoint and its client, rates, sensors,
configuration, the loop in time, the request path, ring buffers. What is left:

1. A wall clock beside the monotonic one in `HistoryServing`, for `Since` and the page's
   resynchronisation after a step.
2. `HistoryPersistence` over `RingBuffer` values, as in `DiskMonitor`, instead of the sequences that
   `AddKeepsNewest` and `FillKeepsNewest` justify, and the same for `HistoryServing`.
3. An abstract specification of the history, a window of points that is only ever appended to and
   cut off at its old end, which `HistoryPersistence`, `HistoryServing` and the page implement.
