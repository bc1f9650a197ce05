--------------------------- MODULE LocalDockerRun ---------------------------
(***************************************************************************)
(* LocalDockerRunner.Run: one run of local:docker, from its data network   *)
(* to the result the engine stores.  Besides Run itself there are the      *)
(* goroutine that collects the outcomes the instances publish on the sync  *)
(* service, the goroutines that start the containers and wait for them,    *)
(* and the ones that attach to their logs, which may cancel the run.  All  *)
(* of them share result.Outcome without a lock.                            *)
(*                                                                         *)
(* The Docker daemon and the instances are external: a container runs,     *)
(* publishes at most one outcome and exits, or never does.                 *)
(***************************************************************************)
EXTENDS Naturals, FiniteSets

CONSTANTS Instances, Groups,
          GroupOf,       \* the group of each instance
          Configs        \* the runner configurations a run may have

\* A run has instances, finitely many, and each is of one of its groups.
ASSUME RunAssumption ==
  /\ IsFiniteSet(Instances) /\ Instances # {}
  /\ GroupOf \in [Instances -> Groups]

VARIABLES
  phase,          \* where Run is
  cfg,         \* the runner configuration: KeepContainers, Unstarted, Background
  ctx,         \* the context of the task: ok, canceled or deadline
  cancelled,   \* whether runCtx is done
  network,     \* whether the data network exists
  containers,  \* each container: absent, created, running, exited
  created,     \* the containers in Run's slice
  starter,     \* the goroutine that starts each container
  waiter,      \* the goroutine that waits for each container
  published,   \* what each instance published: none, success, failure or crash
  delivered,   \* the instances whose outcome the collector received
  collector,   \* off, on, finished (at the channel send), received
  ok,          \* GroupOutcome.Ok of each group
  outcome,     \* result.Outcome
  complete,    \* whether runGroup.Wait returned: no, sending or received
  timer,       \* the timeout of the collection: off, running, received
  err,         \* what Run returns beside its output: none, error, or an error and no output
  result,      \* what the engine stored: none, nil or the outcome it read
  refused      \* whether Docker refused to remove something (history)

daemonVars == <<network, containers, published, refused>>
mainVars == <<phase, created, err, result>>
groupVars == <<starter, waiter, complete, timer>>
collectVars == <<delivered, collector, ok>>
runVars == <<cfg, ctx, cancelled, daemonVars, mainVars, groupVars, collectVars, outcome>>

InGroup(g) == {i \in Instances : GroupOf[i] = g}

RunInit ==
  /\ phase = "network" /\ cfg \in Configs
  /\ ctx = "ok" /\ cancelled = FALSE
  /\ network = FALSE /\ containers = [i \in Instances |-> "absent"] /\ created = {}
  /\ starter = [i \in Instances |-> "none"] /\ waiter = [i \in Instances |-> "none"]
  /\ published = [i \in Instances |-> "none"] /\ delivered = {}
  /\ collector = "off" /\ ok = [g \in Groups |-> 0] /\ outcome = "unknown"
  /\ complete = "no" /\ timer = "off" /\ err = "none" /\ result = "none"
  /\ refused = FALSE

-----------------------------------------------------------------------------
(* The engine and the instances.                                            *)

\* The task is killed or reaches its timeout, and runCtx with it.
ContextEnds ==
  /\ ctx = "ok" /\ phase # "returned"
  /\ ctx' \in {"canceled", "deadline"} /\ cancelled' = TRUE
  /\ UNCHANGED <<cfg, daemonVars, mainVars, groupVars, collectVars, outcome>>

Publish(i) ==
  /\ containers[i] = "running" /\ published[i] = "none"
  /\ \E p \in {"success", "failure", "crash"} : published' = [published EXCEPT ![i] = p]
  /\ UNCHANGED <<cfg, ctx, cancelled, network, containers, refused, mainVars, groupVars, collectVars, outcome>>

Exit(i) ==
  /\ containers[i] = "running"
  /\ containers' = [containers EXCEPT ![i] = "exited"]
  /\ UNCHANGED <<cfg, ctx, cancelled, network, published, refused, mainVars, groupVars, collectVars, outcome>>

\* The engine reads the result after Run returned, nil when Run gave none.
Store ==
  /\ phase = "returned" /\ result = "none" 
  /\ result' = IF err = "no_output" THEN "nil" ELSE outcome
  /\ UNCHANGED <<cfg, ctx, cancelled, daemonVars, phase, created, err, groupVars, collectVars, outcome>>

-----------------------------------------------------------------------------
(* Run: the network and the containers.                                     *)

\* newDataNetwork, which leaves nothing when it fails.
NewDataNetwork ==
  /\ phase = "network"
  /\ \/ network' = TRUE /\ phase' = "config" /\ UNCHANGED err
     \/ err' = "error" /\ phase' = "outcome" /\ UNCHANGED network
  /\ UNCHANGED <<cfg, ctx, cancelled, containers, published, refused, created, result, groupVars, collectVars, outcome>>

MergeConfig ==
  /\ phase = "config"
  /\ \/ phase' = "create" /\ UNCHANGED err
     \/ err' = "error" /\ phase' = "outcome"
  /\ UNCHANGED <<cfg, ctx, cancelled, daemonVars, created, result, groupVars, collectVars, outcome>>

\* One turn of the loop over the instances: directories, container, attachment.
\* Every error returns at once, before the deletion of the containers is deferred.
ContainerCreate(i) ==
  /\ phase = "create" /\ i \notin created
  /\ \/ /\ containers' = [containers EXCEPT ![i] = "created"] /\ created' = created \cup {i}
        /\ UNCHANGED <<phase, err>>
     \/ /\ containers' \in {containers, [containers EXCEPT ![i] = "created"]}
        /\ err' = "no_output" /\ phase' = "outcome" /\ UNCHANGED created
  /\ UNCHANGED <<cfg, ctx, cancelled, network, published, refused, result, groupVars, collectVars, outcome>>

\* Mutant: the deletion is deferred only when the collection has begun.
CreatedDeferLate ==
  /\ phase = "create" /\ created = Instances
  /\ IF cfg.unstarted
     THEN phase' = "cleanup" /\ UNCHANGED <<err, collector, starter>>
     ELSE \/ /\ phase' = "start" /\ collector' = "on" /\ UNCHANGED err
             /\ starter' = [i \in Instances |-> "starting"]
          \/ phase' = "outcome" /\ err' = "error" /\ UNCHANGED <<collector, starter>>
  /\ UNCHANGED <<cfg, ctx, cancelled, daemonVars, created, result, waiter, complete, timer, delivered, ok, outcome>>

\* From here on a return goes through "cleanup".  collectOutcomes subscribes first.
Created ==
  /\ phase = "create" /\ created = Instances
  /\ IF cfg.unstarted
     THEN phase' = "cleanup" /\ UNCHANGED <<err, collector, starter>>
     ELSE \/ /\ phase' = "start" /\ collector' = "on" /\ UNCHANGED err
             /\ starter' = [i \in Instances |-> "starting"]
          \/ phase' = "cleanup" /\ err' = "error" /\ UNCHANGED <<collector, starter>>
  /\ UNCHANGED <<cfg, ctx, cancelled, daemonVars, created, result, waiter, complete, timer, delivered, ok, outcome>>

-----------------------------------------------------------------------------
(* Run: starting and waiting.                                               *)

\* ContainerStart: it may fail, and the other starts are then cancelled.
ContainerStart(i) ==
  /\ starter[i] = "starting" /\ containers[i] = "created"
  /\ \/ /\ containers' = [containers EXCEPT ![i] = "running"]
        /\ starter' = [starter EXCEPT ![i] = "started"]
     \/ /\ containers' \in {containers, [containers EXCEPT ![i] = "running"]}
        /\ starter' = [starter EXCEPT ![i] = "failed"]
  /\ UNCHANGED <<cfg, ctx, cancelled, network, published, refused, mainVars, waiter, complete, timer, collectVars, outcome>>

\* Attaching to the logs of a started container, or of the sidecar, fails.
AttachFails ==
  /\ ~cfg.background /\ phase \in {"start", "wait"} /\ ~cancelled /\ cancelled' = TRUE
  /\ UNCHANGED <<cfg, ctx, daemonVars, mainVars, groupVars, collectVars, outcome>>

\* startGroup.Wait.
Started ==
  /\ phase = "start" /\ \A i \in Instances : starter[i] # "starting"
  /\ IF \E i \in Instances : starter[i] = "failed"
     THEN phase' = "cleanup" /\ err' = "error" /\ UNCHANGED waiter
     ELSE phase' = "wait" /\ waiter' = [i \in Instances |-> "waiting"] /\ UNCHANGED err
  /\ UNCHANGED <<cfg, ctx, cancelled, daemonVars, created, result, starter, complete, timer, collectVars, outcome>>

\* A goroutine of runGroup: the container is not running, or the group is done
\* because another wait failed or the run was cancelled.
Waited(i) ==
  /\ waiter[i] = "waiting"
  /\ \/ containers[i] # "running" /\ waiter' = [waiter EXCEPT ![i] = "done"]
     \/ /\ cancelled \/ \E j \in Instances : waiter[j] = "failed"
        /\ waiter' = [waiter EXCEPT ![i] = "done"]
  /\ UNCHANGED <<cfg, ctx, cancelled, daemonVars, mainVars, starter, complete, timer, collectVars, outcome>>

\* The wait for a container fails, with the error of the context when that is done.
WaitFails(i) ==
  /\ waiter[i] = "waiting" /\ waiter' = [waiter EXCEPT ![i] = "failed"]
  /\ UNCHANGED <<cfg, ctx, cancelled, daemonVars, mainVars, starter, complete, timer, collectVars, outcome>>

\* err = runGroup.Wait(), in a goroutine that writes the named result of Run, also
\* while the deferred calls run.
RunGroupDone ==
  /\ complete = "no" /\ \A i \in Instances : waiter[i] \in {"done", "failed"}
  /\ complete' = "sending"
  /\ err' = IF phase = "returned" THEN err ELSE IF \E i \in Instances : waiter[i] = "failed" THEN "error" ELSE "none"
  /\ UNCHANGED <<cfg, ctx, cancelled, daemonVars, phase, created, result, starter, waiter, timer, collectVars, outcome>>

Waiting == complete # "received" \/ (collector # "received" /\ timer # "received")

\* Mutant: the timeout of the collection is not started.
ContainersCompleteUntimed ==
  /\ phase = "wait" /\ Waiting /\ complete = "sending"
  /\ complete' = "received"
  /\ UNCHANGED <<cfg, ctx, cancelled, daemonVars, mainVars, timer, starter, waiter, collectVars, outcome>>

ContainersComplete ==
  /\ phase = "wait" /\ Waiting /\ complete = "sending"
  /\ complete' = "received" /\ timer' = "running"
  /\ UNCHANGED <<cfg, ctx, cancelled, daemonVars, mainVars, starter, waiter, collectVars, outcome>>

OutcomesComplete ==
  /\ phase = "wait" /\ Waiting /\ collector = "finished" /\ collector' = "received"
  /\ UNCHANGED <<cfg, ctx, cancelled, daemonVars, mainVars, groupVars, delivered, ok, outcome>>

OutcomesTimeout ==
  /\ phase = "wait" /\ Waiting /\ timer = "running" /\ timer' = "received"
  /\ UNCHANGED <<cfg, ctx, cancelled, daemonVars, mainVars, starter, waiter, complete, collectVars, outcome>>

\* The loop is over, or runCtx is done.
Leave ==
  /\ phase = "wait"
  /\ ~Waiting \/ cancelled
  /\ phase' = "cleanup"
  /\ UNCHANGED <<cfg, ctx, cancelled, daemonVars, created, err, result, groupVars, collectVars, outcome>>

-----------------------------------------------------------------------------
(* Run: the deferred calls, in their order.                                 *)

CancelRun ==
  /\ phase = "cleanup" /\ phase' = "delete" /\ cancelled' = TRUE
  /\ UNCHANGED <<cfg, ctx, daemonVars, created, err, result, groupVars, collectVars, outcome>>

\* DeleteContainers does not return when a deletion failed (ContainerDeletion);
\* a network that cannot be removed is logged.
Delete ==
  /\ phase = "delete"
  /\ \/ ~cfg.keep /\ phase' = "outcome" /\ network' = FALSE
        /\ containers' = [i \in Instances |-> "absent"]
        /\ UNCHANGED refused
     \/ ~cfg.keep /\ phase' = "stuck" /\ refused' = TRUE /\ UNCHANGED <<network, containers>>
     \/ ~cfg.keep /\ phase' = "outcome" /\ refused' = TRUE /\ UNCHANGED network
        /\ containers' = [i \in Instances |-> "absent"]
     \/ cfg.keep /\ phase' = "outcome" /\ UNCHANGED <<network, containers, refused>>
  /\ UNCHANGED <<cfg, ctx, cancelled, published, created, err, result, groupVars, collectVars, outcome>>

\* Mutant: a run that reached the task timeout keeps the outcome it had.
ReturnAfterDeadline ==
  /\ phase = "outcome" /\ phase' = "returned"
  /\ outcome' = IF ctx = "canceled" THEN "canceled" ELSE outcome
  /\ UNCHANGED <<cfg, ctx, cancelled, daemonVars, created, err, result, groupVars, collectVars>>

\* The first deferred call runs last.  newResult set the outcome to unknown, so
\* that it is never empty and an error leaves it as it is.
ReturnResult ==
  /\ phase = "outcome" /\ phase' = "returned"
  /\ outcome' = CASE ctx = "canceled" -> "canceled"
                   [] ctx = "deadline" -> "failure"
                   [] ctx = "ok" /\ err # "none" /\ outcome = "" -> "failure"
                   [] OTHER -> outcome
  /\ UNCHANGED <<cfg, ctx, cancelled, daemonVars, created, err, result, groupVars, collectVars>>

-----------------------------------------------------------------------------
(* collectOutcomes.                                                         *)

\* Mutant: an outcome of any kind counts as a success.
ReceiveAny(i) ==
  /\ collector = "on" /\ published[i] # "none" /\ i \notin delivered
  /\ delivered' = delivered \cup {i} /\ ok' = [ok EXCEPT ![GroupOf[i]] = @ + 1]
  /\ UNCHANGED <<cfg, ctx, cancelled, daemonVars, mainVars, groupVars, collector, outcome>>

Receive(i) ==
  /\ collector = "on" /\ published[i] # "none" /\ i \notin delivered
  /\ delivered' = delivered \cup {i}
  /\ ok' = IF published[i] = "success" THEN [ok EXCEPT ![GroupOf[i]] = @ + 1] ELSE ok
  /\ UNCHANGED <<cfg, ctx, cancelled, daemonVars, mainVars, groupVars, collector, outcome>>

UpdateOutcome == IF \E g \in Groups : ok[g] # Cardinality(InGroup(g)) THEN "failure" ELSE "success"

\* The loop is over: updateOutcome, then a send that nobody may receive.
CollectorEnds ==
  /\ collector = "on" /\ (delivered = Instances \/ cancelled)
  /\ collector' = "finished" /\ outcome' = UpdateOutcome
  /\ UNCHANGED <<cfg, ctx, cancelled, daemonVars, mainVars, groupVars, delivered, ok>>

-----------------------------------------------------------------------------
\* The steps of Run itself, and of the goroutines of an instance.
Main ==
  \/ NewDataNetwork \/ MergeConfig \/ Created \/ Started \/ ContainersComplete \/ OutcomesComplete
  \/ OutcomesTimeout \/ Leave \/ CancelRun \/ Delete \/ ReturnResult
  \/ \E i \in Instances : ContainerCreate(i)
Goroutine(i) == ContainerStart(i) \/ Waited(i)

RunNext ==
  \/ Main \/ RunGroupDone \/ CollectorEnds \/ ContextEnds \/ Store \/ AttachFails
  \/ \E i \in Instances : Goroutine(i) \/ WaitFails(i) \/ Publish(i) \/ Exit(i) \/ Receive(i)

RunSpec == RunInit /\ [][RunNext]_runVars

\* Run and its goroutines are scheduled, Docker answers and the timer fires.  An
\* instance need not exit.
RunFairness ==
  /\ WF_runVars(Main) /\ WF_runVars(RunGroupDone) /\ WF_runVars(CollectorEnds)
  /\ \A i \in Instances : WF_runVars(Goroutine(i))

RunFairSpec == RunSpec /\ RunFairness

-----------------------------------------------------------------------------
Outcomes == {"unknown", "success", "failure", "canceled"}

(* The state stays in its types, and a group has no more successes than     *)
(* instances whose outcome was received.                                    *)
RunTypeOK ==
  /\ phase \in {"network", "config", "create", "start", "wait", "cleanup", "delete", "stuck", "outcome", "returned"}
  /\ ctx \in {"ok", "canceled", "deadline"} /\ cancelled \in BOOLEAN /\ network \in BOOLEAN
  /\ containers \in [Instances -> {"absent", "created", "running", "exited"}]
  /\ created \subseteq Instances /\ delivered \subseteq Instances
  /\ starter \in [Instances -> {"none", "starting", "started", "failed"}]
  /\ waiter \in [Instances -> {"none", "waiting", "done", "failed"}]
  /\ published \in [Instances -> {"none", "success", "failure", "crash"}]
  /\ collector \in {"off", "on", "finished", "received"}
  /\ \A g \in Groups : ok[g] <= Cardinality(InGroup(g) \cap delivered)
  /\ outcome \in Outcomes /\ result \in Outcomes \cup {"none", "nil"}
  /\ complete \in {"no", "sending", "received"} /\ timer \in {"off", "running", "received"}
  /\ err \in {"none", "error", "no_output"} /\ refused \in BOOLEAN

(* A run is stored as a success only when every instance of every group     *)
(* published a success, whatever the collector, the waits and the end of    *)
(* the context do in between.                                               *)
SuccessIsUnanimous == result = "success" => \A i \in Instances : published[i] = "success"

(* When Run saw the collection end and nobody cancelled, the stored outcome *)
(* is the one the instances published: success exactly if all of them did.  *)
CollectedIsStored ==
  result # "none" /\ ctx = "ok" /\ collector = "received" /\ delivered = Instances
    => result = IF \A i \in Instances : published[i] = "success" THEN "success" ELSE "failure"

(* A run stopped by the task timeout is a failure, unless every instance    *)
(* had succeeded (pkg/integration/local_docker_test.go, the stalled test).  *)
StalledIsFailure ==
  ctx = "deadline" /\ result \notin {"none", "nil"} /\ (\E i \in Instances : published[i] # "success")
    => result = "failure"

(* "We wait until either: all container are done and outcome have been      *)
(* received, we reach a timeout": without a cancellation Run leaves its     *)
(* loop only when no container runs, or a wait failed, and the outcomes are *)
(* collected or the timeout was reached.                                    *)
LeavesWhenDone ==
  [][phase = "wait" /\ phase' = "cleanup" /\ ~cancelled
       => /\ err = "error" \/ \A i \in Instances : containers[i] # "running"
          /\ delivered = Instances \/ timer = "received"]_runVars

(* Once all containers were created, Run returns without leaving a          *)
(* container or the data network, unless it was told to keep them or Docker *)
(* refused to remove one.                                                   *)
LeavesNothing ==
  phase = "returned" /\ created = Instances /\ ~cfg.keep /\ ~refused
    => ~network /\ \A i \in Instances : containers[i] = "absent"

(* Run returns when every instance exits, or its context ends, unless a     *)
(* container could not be removed.                                          *)
RunReturns ==
  (\A i \in Instances : []<>(containers[i] # "running")) \/ <>(ctx # "ok") => <>(phase = "returned" \/ refused)

(* "destroys the setup once all workloads are done": a Run that returned    *)
(* leaves no container and no network of its own, unless told to keep them. *)
SetupDestroyed == phase = "returned" /\ ~cfg.keep => ~network /\ \A i \in Instances : containers[i] = "absent"

(* A run that nothing cancelled and whose outcomes were not collected in    *)
(* time, because an instance panicked without publishing one, is stored as  *)
(* a failure (pkg/integration/local_docker_test.go, the panicking test).    *)
PanicIsFailure ==
  result # "none" /\ ctx = "ok" /\ cfg.background /\ err = "none" /\ timer = "received" /\ (\E i \in Instances : published[i] = "none")
    => result = "failure"
=============================================================================
