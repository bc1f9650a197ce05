-------------------------------- MODULE K8sRun --------------------------------
(***************************************************************************)
(* ClusterK8sRunner.Run: one run of cluster:k8s.  Run launches a goroutine *)
(* per pod to create it and one that watches the pods of the run by        *)
(* listing them by phase; a further goroutine collects the success events  *)
(* the instances publish on the sync service and writes result.Outcome     *)
(* when its context ends.  Pods are deleted by deferred calls that use the *)
(* context of the task.                                                    *)
(*                                                                         *)
(* The Kubernetes API, the instances and `testground terminate` are        *)
(* external: a pod runs, may publish a success, and ends in one of the two *)
(* final phases, or never does.                                            *)
(***************************************************************************)
EXTENDS Integers, FiniteSets

CONSTANTS
  Instances,       \* the number of pods, launched in the order 1, 2, ...
  GroupOf,         \* the group of each instance, ascending with the instance
  ApiLimit,        \* capacity of sem: the pods created at the same time
  SubscribeFails   \* whether subscribing to the events may fail

ASSUME PodsAssumption == Instances \in Nat

I == 1 .. Instances
Groups == {GroupOf[i] : i \in I}

VARIABLES
  stage,      \* where Run is
  keep,       \* the configuration: KeepService
  ctx,        \* the context of the task: live, canceled or deadline
  turn,       \* the instance to launch, then the one to delete
  creator,    \* the goroutine that creates each pod: none, running, done, failed
  pod,        \* each pod: absent, active, succeeded, failed, deleted
  published,  \* the instances that published a success
  delivered,  \* those whose success the collector received
  watcher,    \* where the watching goroutine is
  seen,       \* its counters of the two final phases
  late,       \* whether the run timeout has passed
  collector,  \* off, on, ended (at its channel send) or received
  ok,         \* GroupOutcome.Ok of each group
  outcome,    \* result.Outcome
  err,        \* what Run returns beside its output
  result,     \* what the engine stored
  finished,   \* history: the final phase each instance reached by itself, or none
  refused     \* history: whether the API refused to delete a pod

mainVars == <<stage, turn, err, result>>
clusterVars == <<pod, published, finished>>
watcherVars == <<watcher, seen, late>>
outcomeVars == <<delivered, collector, ok>>
k8sVars == <<keep, ctx, mainVars, creator, clusterVars, watcherVars, outcomeVars, outcome, refused>>

Unread == -2   \* a counter that is not read yet
Failure == -1  \* the counter of a list that failed

K8sInit ==
  /\ stage = "setup" /\ keep \in BOOLEAN /\ ctx = "live" /\ turn = 1
  /\ creator = [i \in I |-> "none"] /\ pod = [i \in I |-> "absent"]
  /\ published = {} /\ delivered = {}
  /\ finished = [i \in I |-> "none"] /\ refused = FALSE
  /\ watcher = "off" /\ seen = [succeeded |-> Unread, failed |-> Unread] /\ late = FALSE
  /\ collector = "off" /\ ok = [g \in Groups |-> 0]
  /\ outcome = "unknown" /\ err = "none" /\ result = "none"

-------------------------------------------------------------------------------
(* The task, the cluster and the engine.                                      *)

TaskEnds ==
  /\ ctx = "live" /\ stage # "returned"
  /\ ctx' \in {"canceled", "deadline"}
  /\ UNCHANGED <<keep, mainVars, creator, clusterVars, watcherVars, outcomeVars, outcome, refused>>

TimePasses ==
  /\ watcher \in {"poll", "list"} /\ ~late
  /\ late' = TRUE
  /\ UNCHANGED <<keep, ctx, mainVars, creator, clusterVars, watcher, seen, outcomeVars, outcome, refused>>

Publish(i) ==
  /\ pod[i] = "active"
  /\ published' = published \cup {i}
  /\ UNCHANGED <<keep, ctx, mainVars, creator, pod, finished, watcherVars, outcomeVars, outcome, refused>>

End(i) ==
  /\ pod[i] = "active"
  /\ \E phase \in {"succeeded", "failed"} :
       pod' = [pod EXCEPT ![i] = phase] /\ finished' = [finished EXCEPT ![i] = phase]
  /\ UNCHANGED <<keep, ctx, mainVars, creator, published, watcherVars, outcomeVars, outcome, refused>>

\* TerminateAll, requested by anybody: DeleteCollection of the plan pods.
Terminate ==
  /\ \E i \in I : pod[i] = "active"
  /\ pod' = [i \in I |-> IF pod[i] = "absent" THEN "absent" ELSE "deleted"]
  /\ UNCHANGED <<keep, ctx, mainVars, creator, published, finished, watcherVars, outcomeVars, outcome, refused>>

\* The engine reads the result after Run returned, nil when Run gave none.
Store ==
  /\ stage = "returned" /\ result = "none"
  /\ result' = IF err = "no_output" THEN "nil" ELSE outcome
  /\ UNCHANGED <<keep, ctx, stage, turn, err, creator, clusterVars, watcherVars, outcomeVars, outcome, refused>>

-------------------------------------------------------------------------------
(* Run: setup and launch.                                                     *)

\* The pool, the registry, the default resources, the subnet, the capacity of
\* the cluster; only a failing pool gives no output.
Setup ==
  /\ stage = "setup"
  /\ \/ stage' = "launch" /\ watcher' = "subscribe" /\ UNCHANGED err
     \/ stage' = "outcome" /\ err' \in {"error", "no_output"} /\ UNCHANGED watcher
  /\ UNCHANGED <<keep, ctx, turn, result, creator, clusterVars, seen, late, outcomeVars, outcome, refused>>

FirstOfGroup(i) == \A j \in I : GroupOf[j] = GroupOf[i] => i <= j

\* result.Outcomes[g.ID] is replaced when the loop comes to the group.
RegisterGroup(i) == ok' = IF FirstOfGroup(i) THEN [ok EXCEPT ![GroupOf[i]] = 0] ELSE ok

\* One turn of the loop over the instances, which waits for a place in sem.
Launch ==
  /\ stage = "launch" /\ turn <= Instances
  /\ Cardinality({i \in I : creator[i] = "running"}) < ApiLimit
  /\ RegisterGroup(turn)
  /\ creator' = [creator EXCEPT ![turn] = "running"]
  /\ turn' = turn + 1
  /\ UNCHANGED <<keep, ctx, stage, err, result, clusterVars, watcherVars, delivered, collector, outcome, refused>>

\* The resources of a group cannot be parsed: Run returns without waiting for
\* the goroutines it has launched.
LaunchFails ==
  /\ stage = "launch" /\ turn <= Instances /\ FirstOfGroup(turn)
  /\ RegisterGroup(turn)
  /\ stage' = "delete" /\ err' = "early"
  /\ turn' = turn - 1
  /\ UNCHANGED <<keep, ctx, result, creator, clusterVars, watcherVars, delivered, collector, outcome, refused>>

Launched ==
  /\ stage = "launch" /\ turn > Instances
  /\ stage' = "wait"
  /\ UNCHANGED <<keep, ctx, turn, err, result, creator, clusterVars, watcherVars, outcomeVars, outcome, refused>>

\* createTestplanPod, with the context of the task; a call that fails may have
\* reached the API.
CreatePod(i) ==
  /\ creator[i] = "running"
  /\ \/ /\ ctx = "live" /\ creator' = [creator EXCEPT ![i] = "done"]
        /\ pod' = [pod EXCEPT ![i] = "active"]
     \/ /\ creator' = [creator EXCEPT ![i] = "failed"]
        /\ pod' \in {pod, [pod EXCEPT ![i] = "active"]}
  /\ UNCHANGED <<keep, ctx, mainVars, published, finished, watcherVars, outcomeVars, outcome, refused>>

-------------------------------------------------------------------------------
(* The collector and the watcher.                                             *)

\* collectOutcomes; its error is only logged, and the channel is then nil.
Subscribe ==
  /\ watcher = "subscribe"
  /\ \/ collector' = "on"
     \/ SubscribeFails /\ UNCHANGED collector
  /\ watcher' = "events"
  /\ UNCHANGED <<keep, ctx, mainVars, creator, clusterVars, seen, late, delivered, ok, outcome, refused>>

\* A success event; Go chooses at random when the context has ended as well.
Receive(i) ==
  /\ collector = "on" /\ i \in published \ delivered
  /\ delivered' = delivered \cup {i}
  /\ ok' = [ok EXCEPT ![GroupOf[i]] = @ + 1]
  /\ UNCHANGED <<keep, ctx, mainVars, creator, clusterVars, watcherVars, collector, outcome, refused>>

\* ctxContainers is done: the watcher cancelled it or returned, or the task did.
CollectionOver == ctx # "live" \/ watcher \in {"await", "done", "failed"}

Total(g) == Cardinality({i \in I : GroupOf[i] = g})

CollectorEnds ==
  /\ collector = "on" /\ CollectionOver
  /\ outcome' = IF \A g \in Groups : ok[g] = Total(g) THEN "success" ELSE "failure"
  /\ collector' = "ended"
  /\ UNCHANGED <<keep, ctx, mainVars, creator, clusterVars, watcherVars, delivered, ok, refused>>

\* The watch of the cluster's events, before the loop.
WatchEvents ==
  /\ watcher = "events"
  /\ \/ watcher' = "poll" /\ ctx = "live"
     \/ watcher' = "failed"
  /\ UNCHANGED <<keep, ctx, mainVars, creator, clusterVars, seen, late, outcomeVars, outcome, refused>>

\* The top of the watcher's loop.
Poll ==
  /\ watcher = "poll"
  /\ \/ watcher' = "failed" /\ (ctx # "live" \/ late)
     \/ watcher' = "list" /\ ctx = "live" /\ ~late
  /\ UNCHANGED <<keep, ctx, mainVars, creator, clusterVars, seen, late, outcomeVars, outcome, refused>>

\* countPodsByState: the phases are listed by concurrent calls, each of which
\* may fail; the other three phases are only logged.  Every turn of the loop has new
\* counters.
ListPods(phase) ==
  /\ watcher = "list" /\ seen[phase] = Unread
  /\ seen' \in {[seen EXCEPT ![phase] = n] :
                  n \in {Failure, Cardinality({i \in I : pod[i] = phase})}}
  /\ UNCHANGED <<keep, ctx, mainVars, creator, clusterVars, watcher, late, outcomeVars, outcome, refused>>

\* Mutant: the watcher counts the pods that are left.
NoneActive == \A i \in I : pod[i] # "active"

AllFinal == seen.succeeded = Instances \/ seen.succeeded + seen.failed = Instances

Counted ==
  /\ watcher = "list" /\ seen.succeeded # Unread /\ seen.failed # Unread
  /\ watcher' = IF AllFinal THEN "await" ELSE "poll"
  /\ seen' = [succeeded |-> Unread, failed |-> Unread]
  /\ UNCHANGED <<keep, ctx, mainVars, creator, clusterVars, late, outcomeVars, outcome, refused>>

\* <-outcomesDoneCh, for ever if the channel is nil.
AwaitOutcomes ==
  /\ watcher = "await" /\ collector = "ended"
  /\ watcher' = "done" /\ collector' = "received"
  /\ UNCHANGED <<keep, ctx, mainVars, creator, clusterVars, seen, late, delivered, ok, outcome, refused>>

-------------------------------------------------------------------------------
(* Run: waiting, logs, deletion.                                              *)

\* eg.Wait returns the first error of its goroutines; the logs are fetched
\* whatever it is.
Wait ==
  /\ stage = "wait"
  /\ watcher \in {"done", "failed"} /\ \A i \in I : creator[i] \in {"done", "failed"}
  /\ err' = IF watcher = "failed" \/ \E i \in I : creator[i] = "failed" THEN "error" ELSE "none"
  /\ stage' = "delete" /\ turn' = Instances
  /\ UNCHANGED <<keep, ctx, result, creator, clusterVars, watcherVars, outcomeVars, outcome, refused>>

\* Mutant: only the finished pods are deleted.
DeleteFinished ==
  /\ stage = "delete" /\ turn > 0
  /\ pod' = IF ~keep /\ ctx = "live" /\ pod[turn] \in {"succeeded", "failed"}
            THEN [pod EXCEPT ![turn] = "deleted"] ELSE pod
  /\ turn' = turn - 1
  /\ UNCHANGED <<keep, ctx, stage, err, result, creator, published, finished, watcherVars, outcomeVars, outcome, refused>>

\* The deferred call of a pod, the last one first.  It has the context of the
\* task, so nothing is deleted once that is done.
DeletePod ==
  /\ stage = "delete" /\ turn > 0
  /\ \/ /\ ~keep /\ ctx = "live" /\ pod[turn] \notin {"absent", "deleted"}
        /\ \/ pod' = [pod EXCEPT ![turn] = "deleted"] /\ UNCHANGED refused
           \/ refused' = TRUE /\ UNCHANGED pod
     \/ (keep \/ ctx # "live" \/ pod[turn] \in {"absent", "deleted"}) /\ UNCHANGED <<pod, refused>>
  /\ turn' = turn - 1
  /\ UNCHANGED <<keep, ctx, stage, err, result, creator, published, finished, watcherVars, outcomeVars, outcome>>

Deleted ==
  /\ stage = "delete" /\ turn = 0
  /\ stage' = "outcome"
  /\ UNCHANGED <<keep, ctx, turn, err, result, creator, clusterVars, watcherVars, outcomeVars, outcome, refused>>

\* The first deferred function.
ReturnOutcome ==
  /\ stage = "outcome"
  /\ outcome' = IF ctx = "canceled" THEN "canceled" ELSE outcome
  /\ stage' = "returned"
  /\ UNCHANGED <<keep, ctx, turn, err, result, creator, clusterVars, watcherVars, outcomeVars, refused>>

-------------------------------------------------------------------------------
K8sSteps == Setup \/ Launch \/ Launched \/ Wait \/ DeletePod \/ Deleted \/ ReturnOutcome \/ Store
WatchSteps == Subscribe \/ WatchEvents \/ Poll \/ ListPods("succeeded") \/ ListPods("failed") \/ Counted \/ AwaitOutcomes

K8sNext ==
  \/ TaskEnds \/ TimePasses \/ Terminate \/ LaunchFails
  \/ K8sSteps \/ WatchSteps \/ CollectorEnds
  \/ \E i \in I : Publish(i) \/ End(i) \/ CreatePod(i) \/ Receive(i)

K8sSpec == K8sInit /\ [][K8sNext]_k8sVars

\* Every goroutine runs, an API call returns and time passes; no pod has to end
\* and no event has to arrive.
K8sFairSpec ==
  /\ K8sSpec
  /\ WF_k8sVars(K8sSteps) /\ WF_k8sVars(WatchSteps) /\ WF_k8sVars(CollectorEnds) /\ WF_k8sVars(TimePasses)
  /\ \A i \in I : WF_k8sVars(CreatePod(i))

-------------------------------------------------------------------------------
K8sTypeOK ==
  /\ stage \in {"setup", "launch", "wait", "delete", "outcome", "returned"}
  /\ ctx \in {"live", "canceled", "deadline"} /\ turn \in 0 .. Instances + 1
  /\ creator \in [I -> {"none", "running", "done", "failed"}]
  /\ pod \in [I -> {"absent", "active", "succeeded", "failed", "deleted"}]
  /\ delivered \subseteq published /\ published \subseteq I
  /\ finished \in [I -> {"none", "succeeded", "failed"}] /\ refused \in BOOLEAN
  /\ watcher \in {"off", "subscribe", "events", "poll", "list", "await", "done", "failed"}
  /\ seen \in [succeeded : Unread .. Instances, failed : Unread .. Instances]
  /\ collector \in {"off", "on", "ended", "received"}
  /\ \A g \in Groups : ok[g] \in 0 .. Total(g)
  /\ outcome \in {"unknown", "success", "failure", "canceled"}
  /\ err \in {"none", "error", "early", "no_output"}

\* Run returns without an error only after every instance has ended, although
\* the phases are counted by separate calls while pods move between them, a
\* call may fail, and pods may be terminated meanwhile (watchRunPods).
WatchedToTheEnd == stage = "returned" /\ err = "none" => \A i \in I : finished[i] # "none"

\* The outcome of a run that was not cancelled is a success if all its outcomes
\* were received: the watcher waits for the collector's verdict.
DeliveredIsSuccess ==
  result # "none" /\ err = "none" /\ ctx # "canceled" /\ delivered = I => result = "success"

\* Run returns: a pod that never ends, or cannot be created, costs no more than
\* the run timeout.  Only a run whose subscription failed waits for ever, once its pods
\* have ended, for the outcomes that nobody collects.
RunReturns == <>(stage = "returned" \/ (watcher = "await" /\ collector = "off"))
===============================================================================
