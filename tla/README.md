# A TLA+ verification of Testground

Testground runs test plans on many instances of a program.  A *client* sends a
composition to a *daemon*; the daemon queues it as a task; a worker of the
daemon's *engine* builds the groups of the composition with *builders* and runs
them with a *runner*, on this machine or in a cluster; *sidecars* shape the
network of the instances.  This directory models the parts of that system in
which several goroutines, processes or requests meet, checks them with TLC and
proves the central ones with TLAPS.  The *plans* that the instances run are
programs as well: those that synchronize with each other are modelled too.

## 1. The system and the modules

| Part of the system | Source (`src/`) | Modules | What is in the model |
|---|---|---|---|
| Engine: workers, signals, kill, delete | `pkg/engine/{supervisor,engine}.go`, `pkg/daemon/{kill,delete}.go` | `Engine`, `MCEngine`, `EngineProofs`, `EngineRefinement` | whole |
| Task storage and queue | `pkg/task/{storage,queue,task}.go` | `Engine`, `TaskLifecycle`, `TaskHeap`, `MCTasks`, `EngineRefinement` | whole, but for the time ranges of `Filter` |
| Task logs | `pkg/engine/engine.go` (`Logs`), `pkg/daemon/logs.go` | `TaskLogs`, `MCTasks`, `ClientProofs` | whole |
| Builds of a composition | `supervisor.go` (`doBuild`, `doRun`), `pkg/api/composition.go` | `GroupBuilds`, `MCBuilds`, `DaemonProofs` | whole |
| Builder docker:go | `pkg/build/docker_go.go`, `pkg/docker/{network,volume,container}.go` | `DockerGoBuild`, `MCBuilds`, `DockerProofs` | proxy, cache and image of concurrent builds |
| Runner local:docker | `pkg/runner/{local_docker,common,common_result}.go` | `LocalDockerRun`, `LocalDockerShared`, `MCLocalDocker`, `DockerProofs` | `Run`, `Healthcheck`, `CollectOutputs`; not `TerminateAll` |
| Runner local:exec | `pkg/runner/{local_exec,pretty}.go` | `LocalExec`, `Runners`, `MCRunners`, `RunnerProofs` | whole |
| Runner cluster:k8s | `pkg/runner/{cluster_k8s,client_pool}.go` | `K8sRun`, `K8sCollect`, `Runners`, `MCRunners`, `RunnerProofs` | `Run`, `CollectOutputs`, the client pool |
| Runner cluster:swarm | `pkg/runner/cluster_swarm.go` | `SwarmRun`, `Runners`, `MCRunners`, `RunnerProofs` | `Run`, removals that the swarm refuses included |
| Sidecar | `pkg/sidecar/*.go` | `Reactor`, `Sidecar`, `MCSidecars`, `SidecarProofs` | both reactors, handler, both networks, links and routes |
| Test plans | `plans/{network,benchmarks,splitbrain,example,verify}` | `PingPong`, `Storm`, `Benchmarks`, `SplitBrain`, `SyncPlans`, `Plans`, `MCPlans`, `MCSidecars`, `PlanProofs`, `SidecarProofs` | the test cases whose instances synchronize |
| Docker manager | `pkg/docker/{manager,container}.go` | `DockerWatch`, `ContainerDeletion`, `MCRunners`, `DockerProofs` | `Watch`, `DeleteContainers` |
| Health checks | `pkg/healthcheck/*.go`, `pkg/runner/local_common.go` | `HealthChecks`, `Checkers`, `MCHealth`, `MCBuilds`, `DaemonProofs` | `RunChecks`, the enlisted checks and fixes, the combinators |
| Compositions, manifests | `pkg/api/composition*.go`, `pkg/cmd/template.go` | `Composition`, `BuildCommand`, `MCClient`, `MCTasks` | default run, validation, `PrepareForRun`, `PrepareForBuild` |
| Client: `run` | `pkg/cmd/run.go`, `pkg/data/result.go` | `MultiRun`, `Composition`, `MCClient`, `MCTasks`, `ClientProofs` | whole |
| Client: `build` | `pkg/cmd/build.go`, `supervisor.go` (`doBuild`) | `BuildCommand`, `MCClient`, `MCTasks` | `build composition`, from the file to the file |
| Client and daemon: requests | `pkg/client/client.go`, `pkg/rpc/*.go`, `pkg/daemon/*.go`, `pkg/cmd/collect.go` | `Rpc`, `MCClient`, `MCTasks`, `DaemonProofs` | the POST endpoints with a streamed answer |

`Runners` and `Plans` put components side by side and state what they have in common.
The modules that prove something are `EngineProofs`, `EngineRefinement`, `ClientProofs`,
`DaemonProofs`, `RunnerProofs`, `DockerProofs`, `SidecarProofs` and `PlanProofs`.

`PROJECT.json` lists every part with its status, and maps every definition that
models code to the lines it stands for.

### How the parts interact

A request reaches the daemon through `Rpc`.  A run or build request ends in `QueueRun`
or `QueueBuild`, that is `QueueRun(c, t)` and `QueuePush(t)` of `Engine`.  A worker pops
the task, and its step `Execute(w)` stands for the call of `doRun` or `doBuild`.
`Composition` models how `doRun` prepares the composition it is given, `HealthChecks`
the checks it makes before the run, `GroupBuilds` the builds it starts, `DockerGoBuild`
what one builder does, and `LocalDockerRun`, `LocalExec`, `K8sRun` and `SwarmRun` what
each runner does.  `TaskLogs` is the request that follows the worker's output.  Beside a
run, in another process, `DockerWatch` starts a worker for every container; `Reactor` is
what that worker does until it has an instance, and `Sidecar` serves that instance.  A
plan asks for a network and waits for the sidecar to confirm it: `PingPong` and
`SplitBrain` contain this step of the sidecar as `PingConfigures` and `SplitConfigures`.
`MultiRun` is the client, which asks for the runs of a composition one after the other,
and `BuildCommand` the client that asks for a build.

The modules meet at values that are small in the code as well: `Engine` sees of a
run only that it ends as complete or canceled; a runner sees of the engine only
its context; the client sees of the engine only a task's outcome; a plan sees of
its sidecar only that a configuration is confirmed, which `CallbackInForce` of
`Sidecar` justifies.  `TaskLogs`
repeats the part of `Engine` that writes the log and removes the signal, because
it needs the position in the file that `Engine` leaves out.

## 2. State and actions of each module

**Engine.**  `db` has for each of the prefixes queue, current and archive the
last state of every task stored there; `heap` is the queue in memory; a task id
leaves `unused` when it is handed out.  `wpc`, `wtask`, `wres` are the workers:
`Pop`, `AddSignal`, `PersistStart`, `OpenLog`, `Execute`, `PersistEnd`, `Archive`
and `DeleteSignal` are the steps of the closure in `Engine.worker`, with the early
return of each error.  `signals`, `closed`, `watcher` and `ctxDone` are the map of
signal channels, the channels closed, the goroutine that waits on each, and the
contexts that are done; `rleak` says that a panicking `Kill`, or the error path of
`Tasks`, left `signalsLk` read-locked.  A client is a request goroutine:
`QueueRun` starts `PushUniqueByBranch`, whose database writes are the steps
`CancelProcess`, `CancelPersist`, `CancelArchive` and `RemoveDone` under the
queue's mutex; `DeleteKill`, `DeleteLookup`, `DeleteKey` are the handler of
`/delete`.  `Restart` is a new process on the same database.

**TaskLifecycle.**  What the storage promises: a task enters the queue once and
then only moves on, to current, to the archive, or out.

**TaskHeap.**  The slice of the queue with `container/heap`'s sift-up and
sift-down, `Less` on priority and age, `removeExisting` and `NewQueue`.

**TaskLogs.**  The worker that writes chunks, the watcher that removes the signal
on a kill, and `Engine.Logs`: three lookups of the task, opening the tail, the
decode loop, the poll of the signals every second and the two seconds of grace.

**GroupBuilds.**  `buildGroups` are the groups to build; a job is a build key with
the groups that share it; `Go` of the error group waits for a free slot; `ress` and
`artifact` are what is written when all builds ended.

**DockerGoBuild.**  Concurrent builds that lock the builder, find or create the
network, the volume and the proxy container, build, and update the cache image
in the order of the code: remove the tag, then set it.

**LocalDockerRun.**  `Run`: network, containers, the deferred clean-ups in their
order, the start and wait goroutines of each instance, the collector of
outcomes, the two conditions of the last loop, and its timer.
**LocalDockerShared.**  The runner's `RWMutex`, sync client and data networks,
used by several runs, health checks and collections.

**LocalExec.**  Processes, the events on their standard output, the pretty
printer that counts failures, and the context of the task.

**K8sRun.**  The goroutines that create pods, the watcher that polls their phase,
the collector of outcomes, and the deletions.  **K8sCollect.**  The pool of
clients and the requests that ensure and use the collect-outputs pod.

**SwarmRun.**  Service, tasks, the monitor that lists the tasks, the merged logs, which
may break (`TailBreaks`), the removal of the service, which the swarm may refuse, and
the repeated removal of the network, of which each attempt may fail.

**Sidecar.**  For each instance the handler's position, the links it believes to
have (`link`) and those that exist (`real`), the shaping of each, the routes, and
the barriers `network-initialized` and of each callback.  With cluster:k8s,
`Initialize` removes the link that the cluster's plugin made, if it finds one in the
range of the data network, and routes come and go with the link they go through
(`RoutesWith`).  A connection that fails or comes too late may have been made all the
same (`MaybeConnected`).

**Reactor.** A worker of either reactor: `Inspect`, `ResolveServices` under the lock and
with the cache of runs, the two handles of a network namespace, the routes, and the
handler.  The services stand for one of them: a lookup finds it or fails (`Lookup`), and
the run is cached in either case.  `epoch` counts how often the services moved, so that
the age of a route can be told.

**DockerWatch.**  The event stream, the list of running containers, the map of
workers under its lock, and the stop of a worker.  **ContainerDeletion.**  The
goroutines, the channel of slots, and the loop that receives the results.

**HealthChecks.** A world of resources, each of which is there, is missing or cannot be
looked at, the list of checks with fixers that each runner enlists, in its order, and
the report.  The fix of a check that was aborted is omitted, which counts as success.
**Checkers.** `All`, `Any`, `And`, `Or` and `Not`.

**Composition.**  A composition file on its way: defaults, validation by the
client, validation and preparation by the daemon.  Percentages are quarters.  What the
client keeps of the first run's composition is what `mapstructure.Decode` makes of it
(`Decoded`): fields whose names it does not match, such as the parameters of a group, are
lost.
**BuildCommand.**  The groups with builder, configuration and dependencies, the
preparation by client and daemon, the request, the wait, and the file written back.
**MultiRun.**  The runs of a command, the composition that is sent with each, the results
file, the exit status.
**Rpc.**  The body of the request, written by a goroutine while the daemon
answers; the chunks of the answer; the client that reads them.

**PingPong.**  Two instances in lock step: `inst` has the place, the number and the
round of each, `pingPending` and `pingLink` the configuration asked for and the one in
force, `wire` the bytes of the one connection over which both rounds are measured, and
`pingCounts` the signals of each state.  A round trip outside the expected range may
make a measurement fail.  **Storm.**  A goroutine for each outgoing
connection of each instance (`conn`), two semaphores, four barriers that count
goroutines in one case and instances in the others.  **Benchmarks.**  The growing
barriers of `BarrierBench`, and publisher and receivers of `SubtreeBench`, with topics
that end with their publisher.  **SplitBrain.**  Regions chosen by race (`splitSeq`),
filters (`rules`), requests between all pairs (`reached`), and the time they take
(`spent`): a request that is dropped takes its timeout, so that an instance may reach
the deadline of the test case, and then so do those that wait for it
(`CompleteTimesOut`).  The two seconds that `Sleep` gives the servers may not be enough
(`ServersLate`).  **SyncPlans.**  `ExampleSync` and `UsesDataNetwork`, whose target may
fail before it is ready (`TargetFails`), in which case the others wait until their
context ends (`VerifyTimesOut`).

## 3. Runs

Each `MC` module other than `MCEngine` covers several components, or one component
with several constants.  The variable `scenario` (and `plan` for the plans) is chosen
initially and selects the component that takes steps; the variables of the others keep
their initial values.  A component is extended, with the constants of the
configuration, so that a run checks the very definitions that the proofs are about.
Instances of it serve scenarios with other constants: the same system without failures,
for example, whose end is claimed.  `TaskHeap`, `Composition`, `BuildCommand` and
`ContainerDeletion`, about which nothing is proved, are instances only.
`MCClient`, `MCHealth` and `MCPlans` hold the scenarios that `MCTasks`, `MCBuilds` and
`MCSidecars` add to their own; the header of each module lists its scenarios.  A run
checks every listed property in each scenario for which the module states it.

| Run | States | What it shows |
|---|---|---|
| `MCEngine_faults` | 1 243 000 | Two workers, a request goroutine, two tasks of one branch, a queue of one, one task that may be deleted, one restart, failing storage: `EngineInv`, `SingleOwner`, `RunningIsKillable`. |
| `MCEngine_live` | 28 000 | Two workers and two requests without faults: `ActiveTracked`, `ImplementsLifecycle`, and that killed tasks stop and queued tasks finish. |
| `MCTasks` | 179 000 | Seven tasks of three priorities, with and without a branch; a log of two chunks; composition files with counts, percentages and parameters; files to build; up to three runs; every endpoint. |
| `MCBuilds` | 1 037 000 | Five groups, two of them equal, two builds at a time or no limit; two docker:go builds; every initial state of the resources of three runners, errors included; up to four checkers. |
| `MCLocalDocker` | 362 000 | Two instances in one group or two; three runs and a collection. |
| `MCRunners` | 978 000 | Two instances of each runner; three collections with a pool of four clients; two containers with up to four events; four deletions, with and without refusals. |
| `MCSidecars` | 1 015 000 | Two instances with two configurations each; three containers of two runs; two to four instances of each plan, with and without failures. |
| `MCEngine_interrupted` | | violated: see section 6 |
| `MCBuilds_targets` | | violated: see section 6 |
| `MultiRun_killed` | | violated: see section 6 |
| `MCTasks_artifacts` | | violated: see section 6 |
| `MCSidecars_everyone` | | violated: see section 6 |

The properties, by run:

* **MCEngine_faults.**  `SingleOwner`: a popped task is in the hands of one worker
  and of no cancellation.  `RunningIsKillable`: while a task runs and its context
  is alive, its signal is registered and a goroutine waits on it, or a Kill is
  about to cancel it.  `EngineInv`: the inductive invariant of section 5.
* **MCEngine_live.**  `ActiveTracked`: a task that is not archived is in the heap
  or with someone.  `ImplementsLifecycle`: refinement of `TaskLifecycle`.
  `KillStops`: a closed channel leads to a context that is done.
  `QueuedFinishes`: if no worker keeps its task for ever, a queued task leaves the
  queue and is archived.
* **MCTasks.**  `PopsFirst`: `Pop` takes the first task by priority and age, and the
  slice holds each stored task once, also after removals by branch.
  `FollowedToTheEnd`: a task that was not killed is over when its follower returns.
  `LogsCompleteUnlessKilled`: it was given everything the task wrote, unless the
  task was killed.  `RequestEnds`: it returns.
  `InstancesAddUp`: the total told to the runner is the sum of its groups' instances.
  `PreparedAgain`: the composition that a first run returned, sent for another run,
  gives the same; and preparing for a build on the daemon's side what the client
  prepared already adds nothing, so that every group is built as its file says, in the
  order of precedence of the code.  `ResultsCoverRuns`: a command that waits ends
  with results for every run, in order, the first of a run being its own outcome,
  or canceled.  `OutcomeTrue`: the client reports success only if the engine's call
  succeeded, and then has the whole output; otherwise it leaves no file.
* **MCBuilds.**  `OwnArtifact`: a group runs with an artifact of its own inputs.
  `AllOrNothing`: a failed build leaves the composition without artifacts.
  `AllBuildsEnd`: `doRun` returns, and so do docker:go builds that share the lock.
  `ProxyIsUp`: concurrent builds make one network, and who uses the local proxy finds
  it running.  `OkIsHealthy`: if nothing fails meanwhile, a report without failures
  means that everything is there; a local runner that goes on with a warning after
  fixing has everything, save what its checks could not look at; and `And` and `Or`
  apply the fixers they should.  `Recovers`: with fixes that work, a run of local:docker
  starts from any state of its environment that the checks can look at.
* **MCLocalDocker.**  `SuccessIsUnanimous`: a run is a success only if every
  instance was.  `StalledIsFailure`: a run stopped by the timeout of its task is a
  failure unless every instance had succeeded.  `LeavesNothing`: once all containers
  were created, a run leaves neither a container nor its network.  `RunsEnd`: runs
  return, alone and together.
* **MCRunners.**  `SuccessIsUnanimous` for local:exec and cluster:k8s.
  `WatchedToTheEnd`: a run of cluster:k8s without error has seen every pod end.
  `CleanedUp`: no process of local:exec outlives its run, pods that are not to be kept
  are deleted unless the API refuses, and a swarm run in the foreground that keeps
  nothing and returns without error has removed its service or was refused, and leaves
  its network only after five attempts.
  `ClientsReturned`: every client is back in the pool when nobody uses one.
  `OneWorker`: a container never has two workers.  `WatchedAreUp`: when all events are
  handled, the watched containers are those that run.  `RunsEnd`: cancelled or timed
  runs, collections, `Watch` and `DeleteContainers` return.
* **MCSidecars.** `LinksAgree`: while a handler waits for the next configuration, the
  links it keeps are those that exist, and the external routes are those its flag says,
  in a pod as long as the link they go through is there, although calls fail half-way.
  `CallbackInForce`: a callback is signalled only when the configuration is in force.
  `HandlesReleased`: a worker that is over holds no handle and not the lock, whichever
  call failed.  `RoutesFresh`: the routes of a container are not older than its run,
  although they are read without the lock and other runs replace them; after a lookup
  that failed it has none.  `MeasuresShape`: both round trips of ping-pong are measured
  with the latency that belongs to them on both sides.  `BarriersHold`: no instance of
  storm writes before all dials of all instances have succeeded, none closes its
  listeners under a writer, the rounds of the barrier benchmark do not mix, the
  publisher of subtree outlasts its readers in a run of one group, the followers of sync
  are released together, and verify records a failure exactly if the control network can
  be reached.  `NetworkSplit`: an instance of splitbrain that is done has reached
  exactly the others that its region may reach, whatever the order in which regions are
  taken; one that missed another, because that one had failed or its server was late,
  does not return without an error.  `WorkEnds`: plans end, all but ping-pong also when
  calls fail, splitbrain with results if its servers are in time and the requests fit
  into the deadline; published configurations are served; every worker of a reactor is
  over in the end.

Each property was also tried on mutants of the code it is about, listed in
`PROJECT.json`: a dropped guard, a swapped order, a forgotten reset.  TLC finds
every one of them.

The modules state more than the runs check: types, and plainer facts such as
`BuildLimit`, `NoBuildAfterReturn`, `CacheKept`, `HealthExclusive`,
`CollectedIsStored`, `RateLimited`, `Precedence` or `OneFinalChunk`.  A
line `INVARIANT` or `PROPERTY` in the configuration of a run that extends the module
checks one; some of them are proved (section 5).

### Bounds

The bounds are the constants in the configurations and in the INSTANCE lines of the
`MC` modules.  Two workers, two requests and two tasks are the least with which
two workers can meet on a task, and a push by branch can meet a worker or another
push; one restart is enough, because `Restart` resets everything but the database,
which has every reachable content when it happens.  A queue of one makes the limit
bind.  Seven tasks give a heap of three levels, in which a wrong sift-down shows.
Two instances tell "all" from "some"; two groups tell the outcome of a group from
that of the run.  Three collections that need up to two clients each
exhaust a pool of four; with three clients they may wait for each other for ever, see
`EnsuresPod` in section 6.  Two
containers and four events make a container start, die and start again while the
first worker still stops.  Three containers of two runs let a run that is cached meet
one that replaces the routes; a cache of one makes the cache forget.  Ping-pong has two
instances by its manifest.  Three instances fill the regions of splitbrain; its deadline is that of
the plan with servers that are in time, or one minute, in which a dropped request does
not fit, with servers that may be late.  Three or four
instances tell the share of a barrier from the whole.

Symmetry is used in `MCEngine_faults` only, for workers and requests: the run has
no temporal property, and the constants tell neither apart.

`CHECK_DEADLOCK FALSE` is set where a program ends: a command, a run or a request
that returned takes no more steps.  `MCEngine_faults` has it because a read lock
that is left behind stops every worker.

## 4. Fairness

Safety is checked without fairness.  Liveness assumes, and the code justifies:

* *A goroutine that can go on does* (weak fairness of its steps): workers,
  watchers, request goroutines and the loops of the runners are goroutines of one
  Go process, which the scheduler does not starve.  What the outside world may
  refuse to do is left unfair: a runner need not return while its context is
  alive, an instance need not exit, a container need not start, an event stream
  need not fail, a call need not fail.
* *An `RWMutex` serves a waiting writer* (strong fairness of `LockHealthcheck` and
  `LockSyncClient` in `LocalDockerShared`): Go blocks new readers as soon as a
  writer waits, so that a writer cannot be overtaken for ever.
* *Timers fire*: the timeout of a run, the grace period of the log, the deadline of a
  plan.

`QueuedFinishes` and `RunsEnd` of local:docker are implications: that a queued task finishes
supposes that no task keeps a worker for ever, which the code leaves to the runner
and to the timeout of the task.  `RunsEnd` supposes that the instances exit or
the context ends.  The plans and `Reactor` only assume that some step is taken while one
can be: each of their goroutines takes finitely many steps, so that none can be passed
over for ever.

## 5. Proofs

TLAPS proves the following for every value of the constants that satisfies the named
assumptions.  A theorem whose property a run checks is about the same definition.

| Theorem (module) | Statement |
|---|---|
| `EngineInvariant` (`EngineProofs`) | `Spec => []EngineInv` |
| `TypeCorrect`, `StoredOnce`, `OwnedOnce`, `ArchivedFinished`, `KillableWhileRunning` (`EngineProofs`) | `Spec => []TypeOK`, `[]PrefixExclusive`, `[]SingleOwner`, `[]ArchiveTerminal`, `[]RunningIsKillable` |
| `ReadyInvariant` (`EngineRefinement`) | `Spec => []ReadyInv` |
| `Refinement` (`EngineRefinement`) | `Deletable = {} /\ Spec => ImplementsLifecycle` |
| `StoredIsTracked` (`EngineRefinement`) | `~StoreFails /\ Spec => [](crashes = 0 => ActiveTracked)` |
| `LogsInvariant`, `FollowsToTheEnd`, `FollowerHasAll` (`ClientProofs`) | `LogsSpec => []LogsInv`, `[]FollowedToTheEnd`, `[]LogsCompleteUnlessKilled` |
| `RunsInvariant`, `EachRunHasResult`, `ZeroMeansSuccess`, `LaterRunsReuse` (`ClientProofs`) | `~Kills /\ RunsSpec => []RunsInv`, `[]ResultsCoverRuns`, `[]ExitZeroIsSuccess`, `[]ArtifactsReused` |
| `FailureLeavesNone` (`DaemonProofs`) | with `RequestsInRange`: `BuildsSpec => []AllOrNothing` |
| `ArtifactsAreOwn` (`DaemonProofs`) | with `RequestsInRange` and `KeyDecides`: `BuildsSpec => []OwnArtifact` |
| `RpcInvariant`, `ReportsTruth`, `QueuesWholeUploads` (`DaemonProofs`) | `RpcSpec => []RpcInv`, `[]OutcomeTrue`, `[]QueuedWhole` |
| `HealthInvariant`, `LocalDockerRecovers` (`DaemonProofs`) | `HealthSpec => [](ReportShape /\ ReportTrue /\ DecisionTrue)`, `[]Recovers` |
| `ReportIsTrue` (`DaemonProofs`) | `HealthSpec /\ CombineSpec => []OkIsHealthy` |
| `PoolIsWhole` (`RunnerProofs`) | `CollectSpec => []ClientsReturned` |
| `SuccessIsReported` (`RunnerProofs`) | `ExecSpec /\ K8sSpec => []SuccessIsUnanimous` |
| `PodsWatched` (`RunnerProofs`) | `K8sSpec => []WatchedToTheEnd` |
| `RunnersCleanUp` (`RunnerProofs`) | `ExecSpec /\ K8sSpec /\ SwarmSpec => []CleanedUp` |
| `LocalProxyIsUp` (`DockerProofs`) | `GoSpec => []ProxyIsUp` |
| `WatchInvariant`, `OneWorkerAlways`, `WatchesTheRunning` (`DockerProofs`) | `WatchSpec => []WatchInv`, `[]OneWorker`, `[]WatchedAreUp` |
| `ChecksAreExclusive`, `ClientIsShared` (`DockerProofs`) | `SharedSpec => []HealthExclusive`, `[]OneClient` |
| `StoredSuccess`, `StoredFailure`, `NothingLeft` (`DockerProofs`) | `RunSpec => []SuccessIsUnanimous`, `[]StalledIsFailure`, `[]LeavesNothing` |
| `ReactorInvariant`, `NoHandleLeft`, `RoutesAreFresh` (`SidecarProofs`) | with `NamesApart`: `Spec => []ReactorInv`, `[]HandlesReleased`, `[]RoutesFresh` |
| `LinksAlwaysAgree`, `CallbacksInForce` (`SidecarProofs`) | `SidecarSpec => []LinksAgree`, `CallbackInForce` |
| `StormInvariant`, `BenchInvariant`, `SyncInvariant` (`SidecarProofs`) | `StormSpec => []StormInv`, `BenchSpec => []BenchInv`, `SyncSpec => []SyncInv` |
| `PlansKeepStep` (`SidecarProofs`) | `StormSpec /\ BenchSpec /\ SyncSpec => []BarriersHold` |
| `PingInvariant`, `RoundsMeasureShape` (`PlanProofs`) | `PingSpec => []PingInv`, `[]MeasuresShape` |
| `SplitInvariant`, `SplitsAsExpected` (`PlanProofs`) | `SplitSpec => []SplitInv`, `[]NetworkSplit` |

Every safety property of a passing run is among them, except `PopsFirst`,
`InstancesAddUp` and `PreparedAgain`.

### Assumptions

The assumptions stand in the modules that declare the constants, and TLC evaluates them
in the runs.  `EngineAssumption`: the task that stands for none is not a task, deletions
are asked of tasks, and the bounds are naturals.  `RunsAssumption`, `ExecAssumption`,
`PodsAssumption`: the number of runs, processes or pods is a natural.
`BuildsAssumption`, `SharedAssumption`: the free lock is called like no build or run, and
no run like a collection.  `RunAssumption`: a run of local:docker has a finite number of
instances, at least one, and each has a group.  `PoolAssumption`: finitely many requests.
`ConfigsAssumption`: a network configuration enables its network or does not.
`PairAssumption`: two instances, which the manifest of the plan network asks for.
`StormAssumption`, `BenchAssumption`, `SplitAssumption`, `SyncAssumption`: finitely many
instances and connections, at least one round or chunk, timeouts that are naturals.

Four hypotheses are part of the theorems.  `RequestsInRange`: groups to build are groups
of the composition.  `KeyDecides`: a build key determines the inputs; `MCBuilds_targets`
refutes it for groups that differ in the target of a dependency, so that the theorem
holds exactly as far as the key is complete.  `NamesApart`: no worker of a reactor is
called like the free lock, and no run like the entry that the constructor puts into the
cache.  `~Kills`: nobody else kills the task of a run; `MultiRun_killed` shows what
happens otherwise.

### The engine

That a task is stored under one prefix
(`PrefixExclusive`) and owned by one goroutine (`SingleOwner`) is not inductive.
`changePrefix` writes a task under another prefix, and keeps `PrefixExclusive` only
if the task is not under the third; that depends on what the caller knows.  So
`EngineInv` adds `WorkerKnows`: a worker's task has left the queue, is not archived
before the worker's last write, and has a terminal state, or is deleted, when it is
about to be archived.  `PusherKnows` says the same of the task that
`PushUniqueByBranch` cancels, that the task it pushes is stored nowhere, and that
one client at a time is inside.  `UnusedNowhere` says that an id not handed out yet
is nowhere, so that pushing it cannot disturb anything.  The conjuncts need one
another: `SingleOwner` after a `Pop` follows from `WorkerKnows` and `PusherKnows`,
for a task still in the queue is with no worker and no cancellation.

`EngineProofs` has one lemma for each step of a worker, of the goroutine that waits on a
signal, of a push, of a deletion and of a restart, and combines them.  Two lemmas on
the storage, `PutFacts` and `ChangePrefixFacts`, are all that the others know of it.

*Refinement.*  The stage of a task is the prefix it is stored under; a task
inside `PushUniqueByBranch` is still fresh.  A write of a worker must not bring
back a task that is gone.  `InHandStored` says so: without deletions, the task in
the hands of a worker or a cancellation is under current.  It is invariant
together with `EngineInv` (`ReadyInvariant`), and each step of `Engine` is then a step
of `TaskLifecycle` or leaves it alone.  With deletions the theorem is false; see
section 6.

*Tracking.*  `StoredIsTracked` has the hypotheses that leveldb returns no error and that
the daemon was not restarted.  Both are needed: `MCEngine_interrupted` refutes it after a
restart.

### Client and daemon

*Logs.*  `SignalCovers`: the signal of a task nobody killed is registered from before its
state and output can be seen until the task is over, so that a poller that misses the
signal knows that nothing more is written.  `FollowerKnows`: why the request is about to
stop, and that it has caught up unless it was behind when the poller stopped it.

*Runs.*  `RunsInv`: as long as the command goes on, its results are those of the runs that
are settled, one each and in order; the rest is what `CancelEveryOtherRun` adds.

*Requests.*  `RpcInv`: the upload is in order, the answer ends with its final chunk, and
what the client has read is the beginning of what the daemon wrote.

*Builds.*  `JobInv` says that jobs run only while `doBuild` waits for them and that
no artifact is written before, nor when one failed; `ResultInv` that a job that is done
has given each of its groups what that group's own inputs give.

*Health checks.*  `ReportTrue`: as long as nothing failed meanwhile, what was found or
fixed is still there; it relies on fixers never taking anything down, and says nothing
of what could not be looked at.  `DecisionTrue`
adds that every fix of local:docker has succeeded so far, for each finds what an earlier
one provided.

### Runners and Docker

*local:exec.*  `ExecInv`: as long as no failure was counted, every instance that was
started has a reader, and every reader that ended saw a success and nothing else.
*cluster:k8s.*  `OutcomeInv`: the count of a group is at most the number of successes that
the collector received of it.  `WatchedInv`: the watcher, which lists the phases by
separate calls, has counted at most the pods that ended in each phase; since a pod ends
in one phase, counts that add up to all mean that all ended.  `DeletedInv`: pods that
were deleted stay deleted, for no pod is created any more.  *cluster:swarm.*  `SwarmInv`:
where `Run` is says whether the service still has to be removed, and the network is given
up with the last attempt.  *Collections.*  `PoolInv`: the
clients in the pool, those that hold one and those that hold a second one add up to the
size of the pool.

*docker:go.*  The proxy's network, volume and container are made by whoever holds the
builder's lock, and what the holder has found is still there while it holds it.

*Watching containers.*  `OneWorker` needs that a container without an entry in the
map has no live worker unless `stop` waits for it; `WatchedAreUp` needs to say what the
map will be.  `WatchInv` therefore says of every container that its last event tells
whether it runs, and, once no event of it is left to handle, that it has an entry or is
listed exactly if it runs.

*local:docker.*  `SharedInv`: the lock has one writer, who is alone inside.
`CountInv`: the collector's count of a group is the number
of its instances whose success it received.  With it, `OutcomeInv` follows: the shared
outcome, written by three goroutines, says success of unanimous runs only.  `CleanInv`
follows the deferred calls.

### Sidecar

*Reactor.*  `RoutesFresh` holds although `servicesRoutes` is read without the lock.
The invariant says why: the epoch of the routes only grows, since who holds the lock
looks up and stores before the next one looks up; and a run in the cache, or past its
resolution, began no later than that epoch.  A lookup that failed is the exception: there
is no route then, until another run looks up.

*Handler.* `AgreeInv`: what the handler remembers of links and routes is what exists at
the places of `ConfigureNetwork` from which it gets to the next configuration; a call to
CNI that comes too late belongs to a handler that has given up.  `ForceInv` says for
each place how much of the configuration in hand is in force, and `OrderInv` that it is
the one after the last one signalled.

### Plans

A barrier counts signals, and a count does not say whose they are.  The proofs are about
the set of those that have signalled: `Counts(n, S)` says that `n` is at most the size of
`S`.  A count stays within a set that grows (`CountKept`), a signal of one that was not
in the set adds one to both (`CountUp`), and a count that reaches the number of all has
counted all (`CountAll`).  So who has passed a barrier knows what every other has done.
Each invariant has one such set for each barrier that matters, chosen so that no member
leaves it, failures included.

*Storm* (`StormInv`): the connections whose dial succeeded, and the instances all of whose
connections are written.  *BarrierBench*, *SubtreeBench* (`BenchInv`): for each round the
instances that are at its barrier or past it; the instances that have ended.
*ExampleSync*, *UsesDataNetwork* (`SyncInv`): the followers that wait; the numbers are given
out once each and from one, so that exactly one instance publishes and one reads; what
was read so far is what the failures say.  `FailInv`: nobody fails before the target
does, and the target does not once it is ready.

*Splitbrain* (`SplitInv`): `RulesInv` says what filter is in force at each place of an
instance, `RequestsInv` that each request made so far was answered, was expected to fail,
or missed an instance that had failed or was late, which is then recorded, and
`OthersInv` that nobody makes a request before all have signalled, and before all servers
were up if they are in time.  The size of the regions and the length of the timeouts do
not matter.

*Ping-pong* (`PingInv`): `LatencyInv` has the sets of instances whose latency is in force,
that have their number, that have measured once and whose latency is reduced, and what
the place of an instance says about them.  `ByteInv` counts bytes: what is on the wire to an
instance is what its peer has written less what it has read, and the byte at each
position is known, six of them over both rounds.  So the byte that is read last is the
reader's own number, and never one of the round before.

### Only model-checked

* All liveness properties: the provers do not reach fairness and ENABLED.
* `PopsFirst` of `TaskHeap`: sift-up and sift-down are recursive operators, and what they
  do to a slice of any length would need induction over it.
* `InstancesAddUp` of `Composition`: the sum over the groups is a fold, and a statement
  about the sums of all compositions needs induction over sequences.
* `PreparedAgain` of `Composition` and `BuildCommand`: preparing twice gives the same; the
  preparation folds over groups and parameters as well.
* The properties of section 6, which do not hold.

## 6. Where the code departs from what it says

Five runs show a disagreement, with the task storage, the builds, the client and a plan.

* `MCEngine_interrupted`: a task that a restart interrupts is put back into the
  heap, but `Pop` looks for it under queue, fails, and drops it: it stays under
  current, in nobody's hands.
* `MCBuilds_targets`: the build key of a group leaves out the targets of its
  dependencies, so that two groups which differ in a target share an artifact.
* `MultiRun_killed`: `Logs` returns a killed task while it is still processing, and
  `DecodeRunnerResult` turns its missing result into a success, which the client
  reports; the runs that follow are sent with a composition that has no artifacts.
* `MCTasks_artifacts`: `build` sets the artifacts on the groups of the composition that
  `PrepareForBuild` returned, and the command writes the one it had loaded
  (`cmd/build.go:178`): `--write-artifacts` writes none.
* `MCSidecars_everyone`: the publisher of `SubtreeBench` waits "for everyone to be
  done" with the number of instances of its group, while all instances of the run read
  its topics (`benchmarks.go:237`).

The following were met in the same way.  The property stands in the module; it is
violated with the constants given here, or those of the scenario named.

| Property (module) | Constants or scenario | What happens |
|---|---|---|
| `KillStops` (`Engine`) | `KillTwice = TRUE` | A second `Kill` closes a closed channel, panics with `signalsLk` read-locked, and the goroutine that should cancel the task blocks (`engine.go:422`). |
| `KillStops`, `QueuedFinishes` (`Engine`) | `StoreFails = TRUE` | A value that `Tasks` cannot decode makes it return with `signalsLk` read-locked; every later writer of the signals waits for ever (`engine.go:382`). |
| `ImplementsLifecycle` (`Engine`) | `Deletable` not empty | The worker's `PersistProcessing` puts back a task that `/delete` removed (`supervisor.go:87`). |
| `DatabaseBounded` (`Engine`) | three tasks, `QueueMax = 1` | The maximum "of tasks to keep in the database" counts the heap only (`queue.go:63`). |
| `PopsFirst` (`TaskHeap`) | `branch` of `MCTasks` | `removeExisting` does not restore the heap order (`queue.go:141`). |
| `StoredIsFound` (`TaskLogs`) | any | `Get` reads the prefixes against the direction a task moves in (`storage.go:137`). |
| `LogsComplete` (`TaskLogs`) | any | A killed task's signal goes before the task ends; the follower stops early (`supervisor.go:75`). |
| `CancelledWithContext` (`TaskLogs`) | any | A client that leaves during a wait does not cancel its task (`engine.go:550`). |
| `DeletionReturns` (`ContainerDeletion`) | `refused` of `MCRunners` | A failed deletion makes the loop receive twice and block (`container.go:187`). |
| `FallsBackToDirect` (`DockerGoBuild`) | `CallsFail = TRUE` | Without the network, the proxy URL is the configured one and not direct (`docker_go.go:451`). |
| `CacheUsable` (`DockerGoBuild`) | three builds | The cache tag is missing between two calls (`docker_go.go:510`). |
| `SetupDestroyed` (`LocalDockerRun`) | any | A failure while containers are created leaves those that exist (`local_docker.go:474`). |
| `PanicIsFailure` (`LocalDockerRun`) | one instance | The outcome may be read before the collector sets it (`local_docker.go:683`). |
| `FindsFree` (`LocalDockerShared`) | three networks | The number of networks is taken for a free index (`local_docker.go:709`). |
| `ManyRuns` (`LocalDockerShared`) | `LongRunsSpec` | A second run waits as a writer for the first to end (`local_docker.go:117`). |
| `EnsuresPod` (`K8sCollect`) | as many requests as clients | Each holds a client and waits for a second one (`cluster_k8s.go:1097`). |
| `EnsuredIsRunning` (`K8sCollect`) | two requests | The pod of another request may still be pending (`cluster_k8s.go:654`). |
| `TailsUntilDone` (`SwarmRun`) | any | The context of the scheduling ends the run after a minute (`cluster_swarm.go:350`). |
| `RunReturns` (`K8sRun`) | `SubscribeFails = TRUE` | Without a subscription nobody receives what the watcher sends (`cluster_k8s.go:284`). |
| `FixesOnRequest` (`HealthChecks`) | any | Fixes are reported, as omitted, though none was requested (`helper.go:110`). |
| `AllChecks`, `AnyChecks` (`Checkers`) | any | `All` and `Any` look at errors and not at failures (`checkers.go:158`, `172`). |
| `InputUnmodified` (`Composition`) | `ParamFiles` | `PrepareForRun` writes into the maps of its argument (`composition_preparation.go:151`). |
| `ExclusiveInstances` (`Composition`) | `CountFiles` | Merging gives a group both a count and a percentage (`composition.go:478`). |
| `TotalMayBeSkipped` (`Composition`) | `CountFiles` | The client caches a total before counts are inherited (`cmd/run.go:157`). |
| `GlobalTotalIsDefault` (`Composition`) | `CountFiles` | `Global.TotalInstances` serves the generated run only (`composition_preparation.go:98`). |
| `OneFinalChunk` (`Rpc`) | endpoint status | An error of `GetTask` ends the answer without a final chunk (`daemon/status.go:25`). |

Read in the plans and not stated as properties: a dropped request of splitbrain takes
a minute of the five that the test case has, so that from thirteen instances on, five of
them in region B, those of region A reach the deadline although the manifest allows 200;
the payloads of `SubtreeBench`, "ranging from 64B to 4KiB", are empty
(`make([]byte, 0, size)`); in `UsesDataNetwork` one instance pings, not every other
one; and an instance of ping-pong whose peer cannot dial waits in `AcceptTCP` without a
deadline.  Likewise in the sidecar: a call to CNI that ends after the handler gave up
connects the pod, and its goroutine waits for ever to say so (`k8s_network.go:206`); and
a run whose services could not be looked up is cached without them
(`docker_reactor.go:87`).  And in the client: the composition that the daemon returns is
decoded without the tags of its fields, so that the parameters of the groups and the
global ones are lost; later runs do not need them, since the first request has merged
them into every run (`cmd/run.go:470`).

## 7. What is not modelled

* Dashboard, journal and data pages, image registries, configuration, conversions,
  logging and the entry points: reading and formatting without state that changes.
* The builders docker:generic, docker:node and exec:go: commands in sequence in a
  directory of their own.
* `TerminateAll` of the runners, the wait for capacity and the journal of
  cluster:k8s; the traffic shaping of a link beyond its being applied.
* `GET /outputs`, which pipes a collection to a browser.  Its goroutine is not awaited and
  its pipe is never closed, so that its last chunk may be lost.
* Test plans whose instances act alone or only start (placebo, additional_hosts, startup,
  netinit, traffic), and those in other languages.
* The set-up of the network before the first barrier of `UsesDataNetwork`, which is taken
  to succeed.
* A kill of the task that `BuildCommand` waits for: the same wait is in `MultiRun`.
* Torn reads of a Go map: the write of `result.Outcomes` in `cluster_k8s.go:297`
  races with the collector, and the model has only the two orders.

## 8. What comes next

1. Models of `GET /outputs` and of `TerminateAll` against a run.
2. `Engine` with `TaskLogs` as one refinement: the part that `TaskLogs` repeats as an
   image of `Engine`; and `PingPong` over `Sidecar` instead of its one step.
3. Proofs: `PopsFirst` and `InstancesAddUp` in a form that needs no induction over data,
   and `PreparedAgain` of `Composition` for any number of groups and runs.
