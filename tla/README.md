# Verification of the device metrics exporter

TLA+ models of the concurrent parts of the AMD device metrics exporter (DME) and
of its GPU test runner, checked with TLC on small instances and, where the
property allows it, proved with TLAPS for every value of the constants.

## The system

* **Exporter** (`cmd/exporter`, `pkg/exporter`): one process per node. It serves
  Prometheus metrics over HTTP and GPU/NIC health over gRPC sockets, watches its
  configuration file and restarts its servers when it changes, and runs one
  monitor goroutine per kind of device.
* **GPU agent client** (`pkg/amdgpu/gpuagent`): polls the external `gpuagent`
  process, keeps a short-lived response cache and a CPER (fatal error record)
  cache, derives the health map, pushes node labels, and can end the process
  when the agent is gone.
* **Profiler client** (`pkg/amdgpu/rocprofiler`): runs `rocpctl` for every
  scrape, behind a failure breaker. **rocpctl** (`rocprofilerclient`, C++) packs
  the requested counters into profiles the hardware can measure at once, samples
  them on every GPU and prints the readings.
* **Slurm client** (`pkg/exporter/scheduler/slurm.go`): follows the files that
  Slurm's prolog and epilog scripts keep for each GPU, and says which job runs
  where.
* **Event service** (`pkg/events`): queues Kubernetes Warning events and owns the
  fatal exit of the process.
* **Test runner** (`pkg/testrunner`): another process, which asks the exporter for
  GPU health, tests the unhealthy idle GPUs, and keeps a status DB on disk that
  survives its restarts. **Test handler** (`pkg/testrunner/interface`): runs the
  iterations of one test as child processes.
* **Kubernetes client and scheduler, NIC agent, configuration, logger, metric
  tables**: see the inventory below.

The health map of the monitor is what the test runner polls; the monitor and the
profiler client end the process or report through the event service; the monitor
shares the response cache with the scrapes. A change of the configuration
restarts the metrics server and the health service, and a signal or a fatal
event closes everything while such a restart may be under way.

## Inventory

| Part | Source | Module | State |
|---|---|---|---|
| Event service | `pkg/events` | `EventService` | modelled but for a second `Init` |
| Test handler | `pkg/testrunner/interface/types.go` | `TestHandler`, `TestJob` | modelled; its abstract specification |
| Test runner, status DB | `pkg/testrunner/testrunner.go`, `utils.go` | `TestRunner` | automatic trigger |
| Profiler client | `pkg/amdgpu/rocprofiler/rocpclient.go` | `RocProfiler` | modelled |
| rocpctl, counter sampler | `rocprofilerclient` | `CounterSampler`, `Rocpctl` | modelled; its abstract specification |
| Slurm client and scripts | `scheduler/slurm.go`, `slurm-prolog.sh`, `slurm-epilog.sh` | `SlurmClient` | modelled |
| Response and CPER cache | `gpuagent_gpu.go` | `GpuCache`, `HealthChecks` | caches and record selection |
| Health monitor | `gpuagent.go`, `gpuagent_health.go` | `HealthMonitor`, `HealthChecks` | but for workloads and SR-IOV |
| Config watcher, metrics server, shutdown | `exporter.go`, `cmd/exporter/main.go` | `ConfigWatcher`, `EventService` | but for closing the agents |
| Health service handler | `svc_handler.go` | `SvcHandler` | modelled |
| Configuration | `config_handler.go` | `ConfigWatcher`, `HealthChecks` | its reload and the record age |
| Kubernetes client | `pkg/client/k8s.go` | `HealthMonitor` | the label update only |
| Result parsing, other configuration | see plan | - | planned |
| Kubernetes scheduler, pod watchers, NIC agent | see plan | - | planned |
| Metric tables, metric services, logger, tools | - | - | data and I/O, left out |
| `assets/*/amdsmi.h`, mock `rocpctl` | - | - | vendored declarations, fixed output |

## Modules

Every component module declares its state, `Init`, one action per step between
two points where another goroutine can interfere, `Spec`, and `LiveSpec` with
fairness. Where two components share a proof module, the second has these names
with a prefix (`RunnerSpec`, `SamplerSpec`, `SlurmSpec`).
`MC*` modules give the constants values; `TestHandler`, `SvcHandler`
and `ConfigWatcher` have only numbers and need none.
`*_Something` operators marked *Mutant* are not part of a specification: each is
a plausible wrong version of the definition that follows it, and the property
named with it in `PROJECT.json` fails when it takes that definition's place.

**EventService.** `queue`, the dispatcher (`dpc`), the package mutex `mu`, the
captured singleton, `errCh` per event and a program counter per goroutine. An
event is only an identity; `deliver` counts deliveries. Emitters call
`EmitWarning`, `EmitWarningSync` or `Fatal`; two closers stand for the signal
goroutine and the end of `StartMain`, and a fatal emitter's cleanup is a third.

**TestHandler.** The goroutine `runTest` (`rpc`, `iter`), one context, process
and waiter per iteration, the shared `cancelFunc` field, the option
`stopOnFailure`, which is fixed at the start, and the owner
(`testGPU`) that waits for `Done` or calls `StopTest`. `wg` is the counter of the
WaitGroup, raised before `runTest` and before each waiter is spawned and lowered
as they return. `cancelCtx` is three
steps (check, call, clear) because it takes no lock. A call of a nil function
and a nil process are `panicked`.

**TestJob.** What a run of a test promises to `testGPU`: processes are started
one after the other, each when the one before has ended and is in the report,
and the answer comes when none is left and all are reported. `TestHandler`
implements it (`KeepsPromise`): the processes started and running, the results
and the owner's return are its variables.

**TestRunner.** The status DB (`file`, `db`), the boot sequence with the
conversion of KFD ids that older versions recorded, the watch loop, and `testGPU`
goroutines (`Slots`) whose load, start, save, wait and update are separate steps
on private copies. `os.WriteFile` truncates first, so the file is torn by a save
that fails (`disk`) and by one that the end of the process cuts short: a crash,
or the exit of another goroutine after a signal, a fatal error or a panic. Who
saves decides what a failure means: it is logged (`TestSave`, `CleanupSave`) or
ends the process. `LoadRunnerStatus` returns a nil map for an empty one, as the
JSON encoding omits empty maps, and for a torn file, since all callers but
`transformRunnerStatus` ignore the error. GPU health, workloads and the disk
change freely. `tested` is a history variable: the GPUs with a test that ended.

**RocProfiler.** Breaker (`consecutiveFailures`, `fatalFailure`,
`disabledReason`) and cache, with several callers: a cancelled scrape leaves its
profiler goroutine behind. `Close` is the reset by the health monitor.

**CounterSampler.** One run of `rocpctl`, step by step: the set-up, for each GPU
the packing loop with its lists (`todo` is what the pass has still to try), the
sampling of each profile, and the output. A list of counter names is the set of
its positions in the sorted request, so that a name asked for twice stays two
entries; a value is the number of sampling windows it adds up. Every call of the
profiling library may fail. Where the program ignores the status, the model lets
the context keep the profile before or lose records, and notes it in the history
variable `sound`; `refused` remembers the counters the library refused on their
own. The cache of profile sets never hits, since a process samples each GPU once.

**Rocpctl.** What the exporter relies on when it starts that program: a reading
of every GPU or no output and an error, nothing printed before everything is
sampled, and no counter added up more often than it was asked for. `CounterSampler`
implements it (`KeepsContract`) with the counters asked for and the readings
printed as its variables. `RocProfiler` has the other side: its call of `Run`
ends as an answer, an error or a timeout.

**SlurmClient.** The two scripts (a file is opened, then written, GPU by GPU),
the queue of inotify, the constructor that feeds the files it finds into the same
channel, and the goroutine that takes an event, reads the file as it is then, and
applies it to `GpuJobs`. A file's content is its job, or `Partial`. A send on the
closed channel is `panicked`; a constructor whose `ReadDir` failed is `blind`;
`raced` is a history variable that says that the scan met an epilog half done.

**GpuCache.** A bounded clock, the entry (`lastResponse`, `lastTimestamp`), the
write lock, and per caller the time it read at the call. Responses are the times
they were taken at. The CPER half of the cache is here only as those who wait
for the same lock: its readers, and the refresh goroutine, which fetches without
the lock and stores under it. What it holds is in `HealthChecks`.

**HealthMonitor.** `StartMonitor` as a state machine over one poll, the cached
answer of the agent (`up`, `zero`, `error`), the health map, the node label, the
compute-node override, which walks the map without the lock, and restarts of
the container, which keep the label. The ECC thresholds, CPER and event checks
are the set `bad` of faulty GPUs. `polls` remembers which of the last polls
failed; it is a history variable that the code does not have. A concurrent map use that the
Go runtime detects is the exit `crash`.

**HealthChecks.** What `HealthMonitor` calls `bad`: a poll's ECC, event and
CPER checks, while the agent answers. Counters, injected errors, critical events
and CPER records come at any time, of the GPUs and of a device that the agent does
not list; a record may have any time up to now, whatever the records before it
have. The refresh goroutine copies
the log (or an error status) into the cache, and the poll's selection loop
`latestCPERPerGPU` takes one record per step. A record is its device, its time
in seconds of the model's clock (0 when it does not parse) and whether it is
fatal. `mocked` is a history variable.

**SvcHandler.** The `grpc` field, the servers made so far and what became of
them, the error channel of two, and a program counter for each caller of `Stop`
(the watcher, `Close`, a `Run` with an error or a signal) and each `Run`. `Stop`
is two steps, the capture under `grpcMu` and `GracefulStop` outside of it. gRPC
ends the process when a service is registered twice with a server (`fatal`).

**ConfigWatcher.** `foreverWatcher` with its main and its watcher goroutine,
`startServer` and `stopServer` in steps between their uses of the shared
`srvHandler`, the debounce timer, the file and the version in force, and `Close`
by three goroutines: main's deferred call, the signal goroutine, and the one
inside `events.Fatal`, which admits one. A use of a nil server or handler is the
exit `panic`. `Run` and `Stop` of the service handler are single steps here.
A change is one burst of file events, closer together than the debounce time.
The two modules share only these calls and were one module at first; its state
space was too large for TLC.

## Runs

One run per component checks its safety and its liveness together, on an
instance small enough for both.

| Run | Shows | Instance |
|---|---|---|
| `event_service` | nothing delivered twice, nothing accepted lost, no exit before the drain, one close of `stopCh`; shutdown and fatal events end the process | 2 emitters of 1 event, queue of 1 |
| `test_handler` | processes stay in their iteration, no send on a closed channel, the counter `StopTest` waits for accounts for all that runs, the promise of `TestJob` is kept; the owner is answered | 3 iterations, either `stopOnFailure` |
| `test_runner` | completed entries are of tests that ended; a DB torn by a failed save heals, interrupted tests rerun, unhealthy GPUs are not overlooked, completed entries go | 1 GPU, its KFD id, a vanished id, 2 goroutines, failing saves, 1 crash |
| `roc_profiler` | a reason is on record iff disabled; a client that keeps failing is disabled | 2 callers, threshold 3 |
| `counter_sampler` | no argument in two profiles, no supported counter lost unless refused on its own, the contract of `Rocpctl` is kept; the program ends | up to 2 GPUs, 3 counters, profiles of 2, three argument lists, one with a counter twice, one empty |
| `gpu_cache` | one query at a time and none within `cacheTimer` of a good response (failed queries are not limited), freshness; calls return, CPER answers are stored | 2 callers, expiry 2, clock to 3 |
| `health_monitor` | the exit takes a full row of failures; agent down ends the process, node down is reported, map and label converge | 1 GPU, threshold 2, history 2, both exits on |
| `svc_handler` | a gRPC server is stopped once and never forgotten; a failing one is taken down while a `Run` waits | 2 starts, 1 socket, 2 errors |
| `config_watcher` | one metrics server listens at a time, a change costs at most one restart; the last server runs with the configuration on disk | 1 change |
| `health_checks` | the selection keeps the latest record of each device, the GPU is not blamed for the other device, the report follows the faults | 1 GPU, 1 other device, 1 counter, 2 records, 3 faults, age limit 1, clock from 2 to 3 |
| `slurm_client` | once all events are handled, the map agrees with the files; a job that goes on running is listed for good | 2 GPUs, 2 jobs on both, 1 on the first |

**Bounds.** A queue of one is full after one event, so drops, direct deliveries
and drains all occur. Three iterations are the fewest in which a late waiter
meets a middle iteration. Two `testGPU` goroutines on one GPU give every pair
of overlapping load-modify-save sequences on an entry, and one crash can fall
into any of them. Its first DB is any map over the GPU's index, its KFD id and
the id of a vanished partition, so that the conversion at boot meets both ids of
a GPU with different marks. The run that is expected to fail uses two GPUs and
saves that succeed. Two callers
cover a race for the lock or the breaker, and a clock to 3 an answer that
expires while another caller holds it. In the monitor GPUs are independent of
each other but for the loop over the map; one GPU and a threshold of two keep a
row of failures, its interruption and its restart. Two starts of the health
service are a restart with a `Run` left over from before it; one socket keeps
liveness within minutes (with `Sockets = 2`, where the error channel can fill,
the same properties hold after a quarter of an hour). One change can fall
before the directory is watched, into the first restart or after it; with two
changes the run passes too, in several minutes. Two records are the fewest of
which one supersedes another, with equal times, in either order of different
times or without a time; the clock starts at 2 so that there are two times to
order at once, and one that is too old by 3. Three faults (`MaxFaults`: records,
critical events, a counter above 0, a GPU with an injected error) are two records
and one cause of another kind, or causes of three of the four kinds. Three counters and profiles of
two make the packing take a second pass, and a third when the library refuses;
two GPUs are the fewest of which one fails after another has been sampled. Three
jobs let the GPUs of one be taken over by a job on the same and by one on a part
of them. The theorems remove these bounds where they exist.

## Statements that do not hold

The run `test_runner_one_test` is expected to fail. `OneTestPerGPU` states what
a comment says ("avoid run multiple test on the same device"), and TLC shows two
goroutines that test one GPU; the finding in `PROJECT.json` quotes the lines.

The modules define further statements of this kind that no run lists. Naming one
as the only property of the component's configuration shows its counterexample:
under `INVARIANT` for a state formula (under `PROPERTY` TLC would evaluate it in
the initial states only), under `PROPERTY` for a temporal one or one about steps.

| Module | Property | Said in | The code |
|---|---|---|---|
| `EventService` | `StopDrainsQueue` | `pkg/events/events.go`, `Stop` | an emitter that read `singleton` before `Stop` may queue its event after the dispatcher drained and left |
| `TestHandler` | `TimeoutIsReal` | `interface/types.go:200`, "Timeout occurred" | the waiter calls `cancelCtx` (l. 185) after it handed over, and may find the cancel function of the next iteration, which is killed and reported as timed out |
| `TestHandler` | `StopTestStops` | `interface/types.go`, `StopTest` | `stopTest` is only read after a timeout, so an iteration that ends by itself is followed by the next |
| `TestHandler` | `NilNeverCalled` | `interface/types.go`, `cancelCtx` | two goroutines pass the nil check and the second calls nil |
| `TestRunner` | `DBReadableAtBoot` | `testrunner.go`, `initCfg` | a save that fails or is cut short, by a crash or by the exit of another goroutine, leaves a DB that no later boot can read |
| `TestRunner` | `DBReadableWhileUp` | `testrunner.go:939`, "TODO: add error handling" | a save that fails may leave a torn DB, and is only logged |
| `TestRunner` | `FinishedIsMarkable` | `testrunner.go`, `updateStatusDBAfterTestRun` | marking a finished test in a DB emptied meanwhile writes to a nil map |
| `TestRunner` | `NoOrphanedEntry` | `testrunner.go`, `cleanupHealthyGPUTestStatus` | a stale save brings a running mark back, and the cleanup skips running entries (with `GPUs <- TwoGPUs`, `IDs <- TwoGPUs`, `KFDs <- NoKFD`, `kfdIDToIndex <- NoIndex`, `Slots <- OneSlot`; it holds for one GPU) |
| `RocProfiler` | `OneEventPerDisable` | `rocpclient.go`, `EventEmitFunc` | two overlapping failures each emit; proved for a single caller |
| `RocProfiler` | `DisabledUntilRestart` | the event text in `rocpclient.go` | the monitor's reconnect resets the breaker |
| `CounterSampler` | `SampledOnce` | `gpuagent_gpu_metrics.go:2887`, the quotient for `GPU_PROF_OCCUPANCY_ELAPSED` | two fields have the alias `MeanOccupancyPerActiveCU` (l. 713, 714), so the exporter asks for it twice; when the two fall into different profiles, `+=` (`rocpclient.cpp:627`) adds up two windows |
| `CounterSampler` | `PrintedIsSampled` | `rocpclient.cpp:300`, "after successful sampling" | the statuses of start, sample and stop are not looked at |
| `GpuCache` | `CperReadNeverBlocks` | `gpuagent_gpu.go:400`, "Never blocks on a live gRPC call" | `cacheRead` holds the lock for writing across `GPUGet` (l. 376-397), up to 15 s, and `cacheCperRead` waits for it |
| `HealthMonitor` | `FaultStaysReported` | `docs/configuration/configmap.md` | setting the node healthy marks every GPU healthy until the next poll |
| `HealthMonitor` | `NodeDownIsVisible` | `gpuagent_health.go`, `SetComputeNodeHealthState` | a poll under way republishes healthy GPUs |
| `HealthMonitor` | `RocpErrorExits` | `docs/configuration/configmap.md` | the profiler check is skipped while polls fail |
| `HealthChecks` | `EccMarks` | `docs/configuration/configmap.md` | a counter of 255 or 65535 is taken for "not available" (`Counts <- SomeCounts`) |
| `HealthChecks` | `NewestFatalMarks` | `gpuagent_gpu.go`, `latestCPERPerGPU` | of two records of a second the first is kept, and one without a time gives way to any with one, fatal or not (`MaxAge = 0`) |
| `SvcHandler` | `RegisteredOnce` | `svc_handler.go`, `Run` | a late `Run` finds the server of the next start and registers with it again |
| `SvcHandler` | `StoppedRunReturns` | - | nothing wakes a `Run` whose server the watcher stopped; it may take a later error |
| `SvcHandler` | `OwnErrors` | - | an error left in the channel stops the next server (`Sockets = 2`) |
| `ConfigWatcher` | `StopIsSafe` | `svc_handler.go:116`, "It is safe to call concurrently and more than once" | `Close` clears `svcHandler` (`exporter.go:614`) while `stopServer` sleeps or another `Close` is past its nil check; the call of `Stop` then panics |
| `ConfigWatcher` | `SignalExits` | - | main's garbage-collection goroutine reads the same channel and may take the signal |
| `SlurmClient` | `OnlyRunningListed` | `slurm.go`, `ListWorkloads` | an exporter that starts during the epilog of a job on several GPUs reads the last file, labels all its GPUs, and never sees the removals that came before |
| `SlurmClient` | `NoSendOnClosedWatcher` | `slurm.go`, `NewSlurmClient` | a context that ends during the scan closes the channel the constructor sends on |

The comment of `WithExitOnAgentDown` says that only an unreachable agent counts
as a failure. In the code (`isRestartableFailure`) an answer without GPUs and a
failed reconnect count too; the model follows the code.

**Fairness.** Weak fairness on every goroutine's own steps: the Go scheduler
runs runnable goroutines. Waiting for a mutex is strongly fair, since Go's
mutexes hand over to a starved waiter. A `rocpctl` or test process ends because
its context has a timeout; queries of the agent have one too. `rocpctl` itself
is one thread that runs; the scripts of Slurm get no fairness, only the client's
two goroutines do. The test runner's disk gets none: the properties that need
saves to succeed say so. In the monitor
`LabelOK` is strongly fair, that is, the API server does not reject every push
for ever; the agent, the faults and the operator get no fairness. The tickers
of polls and refreshes go on for good. A change, crash, signal or failure is
never forced.

## Proofs

Each `*Proofs` module proves that its invariant holds initially, that every
action keeps it, and that it implies the property.

* `EventServiceProofs`: types; `LockInv` (who is inside `Stop` holds `mu`, and
  the channel is closed only from there) gives `StopChClosedOnce`; `OnceInv` (an
  event is in exactly one of the queue, the dispatcher's hand and its emitter's,
  or delivered) gives `NeverTwice`; `DrainInv` gives `ShutdownLosesNothing` and
  `NoExitBeforeDrain`. `LateInv`: from the close of `stopCh` on no call gets hold
  of the service and one that has it sends once, hence `StopLeavesFew`.
* `TestProofs`, first part, about `TestHandler`: `WaiterInv` ties the waiter of
  each iteration to the runner's control state, hence `ProcessesContained` and
  `ClosedAfterSends`; `ResultInv` counts the results reported so far, which is
  `EveryRunReported`; `CountInv` says that `wg` is the number of goroutines of the
  run, by a count of the waiters (`WaitersCount`), so that a counter of 0 leaves
  nobody (`ZeroIsNobody`), which with `StopInv` is `StopTestLeavesNothing`.
  With `AnswerInv` (the owner goes on only after `runTest` has sent) these give the
  refinement `RunKeepsPromise`: by `DueIs` exactly the started process of the
  current iteration is due, so that `StartProcess` is a `Launch` of `TestJob`,
  `ProcessExits` its `End`, `LogResults` its `Report`, the step with which the
  owner returns its `Answer`, and every other step a stutter. `FirstInv` says that
  before the first waiter has met `runTest` only the owner can be cancelling.
* `TestProofs`, second part, about `TestRunner`: types, with any GPUs, ids,
  goroutines and crashes; `FileStep` is all that a step may do to the DB
  file, phase by phase, and gives `ReadableOnceUp`, `ReadableWithoutCut` (with
  `BootInv`) and `TornStaysTorn`; `MarkInv` says that the copy a goroutine is about
  to save marks its own GPUs, hence `OwnMarksKept`. `TestedInv` says of the DB and
  of every copy in the hands of the watch loop or a goroutine that a completed mark
  is of a GPU whose test ended; saving one copy over another, the conversion at
  boot and a torn file keep that (`CompletedOnlyIfTested`).
* `ProfilerProofs`, first part: `BreakerInv` says that the reason is set exactly from the
  threshold on, which needs that the count never jumps over it; `CallInv` types
  the callers; `AloneInv` adds what a single caller knows after its check.
* `ProfilerProofs`, second part, about `CounterSampler`. `PackInv`: what is still
  to try, what is in the current profile, what failed in this pass and what the
  profiles have are disjoint, and the last valid configuration is the current
  list. This gives `PackingIsDisjoint`; that every supported position is in one of
  these places or refused gives, with `SampleInv`, `NoCounterLost`. `SampleInv`
  counts: without an unnoticed failure every counter of a sampled profile has a
  value, and by disjointness none adds up more windows than it has positions in
  the profiles sampled so far.
  `ReportInv` ties readings and output to the control state. From these follows
  the refinement `ProgramKeepsContract`: the initial states map to those of
  `Rocpctl`, the set-up is its `Discover`, an ignored error its `Disturb`, a
  printed reading its `Write`, and packing and sampling are stutters.
* `ScrapeProofs`, first part, about `GpuCache`: `LockInv` (one writer), `EntryInv`
  (entries are from the past and each caller's own time is not later than the
  clock).
* `ScrapeProofs`, second part, about `SlurmClient`: `JobInv` says how far the
  scripts have come with each file and that no two jobs share a GPU; `QueueInv`
  that the last event of a GPU tells whether its file is there, and that an event
  whose file is about to go is followed by the removals on the job's other GPUs;
  `HandInv` carries that to the event in the goroutine's hand. `AgreeInv` is the
  point: the entry of a GPU is right once that event is applied, or an event, a
  prolog or the constructor's scan is still to set it right, or the scan met an
  epilog. When all is handled only the agreement is left (`SettledMapAgrees`,
  `RunningLabelled`).
* `HealthMonitorProofs`: `StreakInv` says that the last `fails` entries of the
  history are failures, which makes the exit condition inductive. `RowInv` is the
  other direction: the poll before the row was a good one, so the counter misses
  no failure (`ExitNoLaterThanMax`).
* `SvcHandlerProofs`: each server made is in one place, `grpc`, the hands of one
  caller of `Stop` or the stopped ones, and has been stopped as often as that
  says; both properties follow. `CountInv` bounds the servers made by the runs that
  have begun, which the types need. `OwnInv`: a server that services are registered
  with belongs to a `Run` past its registration. It gives `StoppedServesNothing`
  and `FatalNeedsTwoRuns`, and with one start `OneStartRegistersOnce`.
* `ConfigWatcherProofs`: `ServerInv` says that a live server is `srvHandler`'s,
  or was forgotten by main's last `stopServer`, which cleared what the watcher's
  last restart had set; then the context is done and the watcher restarts no
  more. `PcInv` places the two goroutines: without it a second server could be
  started next to the forgotten one. `StartInv` counts the starts still to come:
  a change not yet noticed, an armed timer and a restart under way pay for one
  each, and no step makes two of one. `OneRestartPerChange` follows.
* `HealthChecksProofs`: `KeepsLatest` is the loop's step as a lemma about any
  sequence of records, `SelectInv` carries it through the poll. `AlarmInv` adds
  that the fatal records a poll may see are in the agent's log, and that faults
  never go: hence `NoGPUBlamedForAnother`. At the end of the loop `SelectInv` is
  about all records of the poll: one with a later time than all others of its GPU
  is the one selected, so that it is found when it is fatal (`NewestFatalFound`).

The assumptions are those named in the component modules (non-empty bounds,
Boolean flags); TLC evaluates them in every run. `OneEventAlone` assumes a
single caller: with two the property fails.
`ExitOnlyAfterMax` speaks of the polls that `history` keeps; with `history`
equal to the threshold that is the full row.

Where a statement does not hold, a theorem says how much of it does:

| Fails | Proved instead | Theorem |
|---|---|---|
| `StopDrainsQueue` | what is left was sent too late, one event per emitter at most | `StopLeavesFew` |
| `TimeoutIsReal` | it holds for the first iteration, hence for tests of one, the default | `FirstTimeoutReal`, `SingleTimeoutReal` |
| `DBReadableAtBoot` | it holds until a save fails or is cut short; a DB that is torn when its process ends stays torn | `ReadableWithoutCut`, `TornStaysTorn` |
| `DBReadableWhileUp` | it holds as long as no save fails, whatever crashes | `ReadableOnceUp` |
| `OneEventPerDisable` | it holds for a single caller | `OneEventAlone` |
| `SampledOnce` | it holds if no counter is named twice | `NamedOnceSampledOnce` |
| `NewestFatalMarks` | it holds for a record with a later time than all others of its GPU | `NewestFatalFound` |
| `RegisteredOnce` | it takes two `Run`s with one server; it holds for one start | `FatalNeedsTwoRuns`, `OneStartRegistersOnce` |
| `OnlyRunningListed` | the map agrees with the files unless the scan met an epilog, and no running job is mistaken for another even then | `SettledMapAgrees`, `RunningLabelled` |
| `NoSendOnClosedWatcher` | it holds unless the context ends while the client is made | `PanicOnlyIfClosed` |

Only model-checked: the liveness properties, which rest on fairness. Every safety
property of a passing run is proved. `TypeOK` (with its prefix) is proved for
every component module and is in no run. The other theorems about statements
that no run lists (`EveryRunReported`, `TornStaysTorn`, `OwnMarksKept`,
`StoppedServesNothing`, those of the table) are about definitions that TLC finds
true on the instances above, or on these with one iteration, start or caller.

## Not modelled

Metric tables and label formatting (`gpuagent_gpu_metrics.go`,
`nicagent_metrics.go`), the command-line tools, packaging and generated code hold
no protocol state. Of the C and C++ files of the repository almost all lines
(36,288 of about 37,200) are six copies of two vendored headers,
`assets/*/amdsmi.h`: declarations of a library, which no file of the repository
includes, and nothing a model could translate. The rest is `rocprofilerclient`,
which is modelled, and a mock that prints a fixed answer. In `rocprofilerclient`
`sample_counter_values`, the dimension queries and the cache of single profiles
have no caller. HTTP and gRPC transport is taken as
given. Wall-clock lengths are abstracted to "may expire", except in `GpuCache`
and for the age of records.
A child process whose own children keep its output pipe open, so that `Wait`
never returns, is not represented.

Three things are assumed away and would matter where they happen: an inotify queue
that overflows, which `slurm.go` logs and never makes up for; a reconnect of the
monitor, which ends the goroutine that refreshes the CPER cache for good (it takes
a first connection that could not be created); and a debounce timer of the
configuration watcher that fires before the directory is added, 3 s after the
start. A panic in a part that is not modelled ends the process at any point;
`ExitAfterDrain` is about the exits that the code makes.

## Plan

1. The rest of `Exporter.Close` (agents, Kubernetes client) and the metric
   registry re-initialised under a scrape.
2. Kubernetes pod and node watchers with reconnect, the Kubernetes scheduler.
3. Pure algorithms against reference definitions: polling-interval clamping,
   overall test result, RVS result repair, AGFHC device mapping, configuration
   normalisation.
4. NIC agent health; health monitor composed with the test runner.
5. Abstract specifications and refinement: `HealthChecks` as the `bad` of
   `HealthMonitor`, "one test per unhealthy GPU" for the test runner.
