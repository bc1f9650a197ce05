------------------------------- MODULE SwarmRun -------------------------------
(***************************************************************************)
(* ClusterSwarmRunner.Run: one run of cluster:swarm.  Run creates a data   *)
(* network and a service per group, all under the name of the run; in the  *)
(* foreground it pipes the logs of the service while a goroutine lists its *)
(* tasks, and removes the service and the network afterwards.  The context *)
(* ends one minute after the start of the run at the latest.               *)
(*                                                                         *)
(* The swarm is external.  It takes one service of a name, so a run never  *)
(* gets to tail more than one.                                             *)
(***************************************************************************)
EXTENDS Naturals, FiniteSets

CONSTANTS
  GroupCount,  \* the groups of the run
  Replicas     \* the instances of a group

Attempts == 5  \* retry(5, ...)

VARIABLES
  step,     \* where Run is
  cfg,      \* [keep, background]
  running,  \* whether the context is live
  group,    \* the group whose service is created next
  network,  \* absent, up or removed
  attempt,  \* the attempts made to remove it
  service,  \* absent, up, refused (up, and removing it failed) or removed
  task,     \* the tasks of the service: running, finished or gone
  monitor,  \* the goroutine that lists the tasks: off, ticking, done or failed
  tail,     \* the goroutine that copies the logs: off, copying or ended
  error     \* whether Run returns an error

swarmVars == <<step, cfg, running, group, network, attempt, service, task, monitor, tail, error>>

Tasks == 1 .. Replicas

SwarmInit ==
  /\ step = "network" /\ cfg \in [keep : BOOLEAN, background : BOOLEAN]
  /\ running = TRUE /\ group = 1
  /\ network = "absent" /\ attempt = 0
  /\ service = "absent" /\ task = [t \in Tasks |-> "gone"]
  /\ monitor = "off" /\ tail = "off" /\ error = FALSE

\* The minute is over, or the task was killed.
MinutePasses ==
  /\ running /\ step # "returned"
  /\ running' = FALSE
  /\ UNCHANGED <<step, cfg, group, network, attempt, service, task, monitor, tail, error>>

TaskFinishes(t) ==
  /\ task[t] = "running" /\ service \in {"up", "refused"}
  /\ task' = [task EXCEPT ![t] = "finished"]
  /\ UNCHANGED <<step, cfg, running, group, network, attempt, service, monitor, tail, error>>

\* The swarm shuts the tasks of a removed service down.
TaskGoes(t) ==
  /\ service = "removed" /\ task[t] # "gone"
  /\ task' = [task EXCEPT ![t] = "gone"]
  /\ UNCHANGED <<step, cfg, running, group, network, attempt, service, monitor, tail, error>>

-------------------------------------------------------------------------------
\* The client, the check for redis, the subnet and the network.
CreateNetwork ==
  /\ step = "network"
  /\ \/ running /\ network' = "up" /\ step' = "create" /\ UNCHANGED error
     \/ error' = TRUE /\ step' = "returned" /\ UNCHANGED network
  /\ UNCHANGED <<cfg, running, group, attempt, service, task, monitor, tail>>

CreateService ==
  /\ step = "create" /\ running /\ service = "absent"
  /\ service' = "up" /\ task' = [t \in Tasks |-> "running"]
  /\ group' = group + 1
  /\ step' = CASE group < GroupCount -> "create"
             [] cfg.background -> "unlink"
             [] OTHER -> "tail"
  /\ UNCHANGED <<cfg, running, network, attempt, monitor, tail, error>>

\* No token for the registry, or the swarm refuses the service; it does when the
\* name is taken.
CreateFails ==
  /\ step = "create"
  /\ error' = TRUE /\ step' = "unlink"
  /\ UNCHANGED <<cfg, running, group, network, attempt, service, task, monitor, tail>>

TailLogs ==
  /\ step = "tail"
  /\ \/ step' = "scan" /\ monitor' = "ticking" /\ tail' = "copying" /\ UNCHANGED error
     \/ step' = "unlink" /\ error' = TRUE /\ UNCHANGED <<monitor, tail>>
  /\ UNCHANGED <<cfg, running, group, network, attempt, service, task>>

Finished == Cardinality({t \in Tasks : task[t] = "finished"})

\* All tasks are over; on its way out the monitor closes the log stream.
MonitorDone ==
  /\ monitor = "ticking" /\ running /\ Finished = Replicas
  /\ monitor' = "done"
  /\ UNCHANGED <<step, cfg, running, group, network, attempt, service, task, tail, error>>

\* TaskList on a done context: the monitor closes the log stream as well.
MonitorTimesOut ==
  /\ monitor = "ticking" /\ ~running
  /\ monitor' = "failed"
  /\ UNCHANGED <<step, cfg, running, group, network, attempt, service, task, tail, error>>

MonitorFails ==
  /\ monitor = "ticking" /\ running
  /\ monitor' = "failed"
  /\ UNCHANGED <<step, cfg, running, group, network, attempt, service, task, tail, error>>

\* StdCopy sees the closed stream.
TailEnds ==
  /\ tail = "copying" /\ monitor \in {"done", "failed"}
  /\ tail' = "ended"
  /\ UNCHANGED <<step, cfg, running, group, network, attempt, service, task, monitor, error>>

\* The stream ends by itself or breaks; an error cancels the context of the group.
TailBreaks ==
  /\ tail = "copying" /\ monitor = "ticking"
  /\ tail' = "ended" /\ running' \in {running, FALSE}
  /\ UNCHANGED <<step, cfg, group, network, attempt, service, task, monitor, error>>

\* Both goroutines are over and the pipe is closed, with their error if there is
\* one: the scanner ends, and Run goes on without looking at the error.
ScanEnds ==
  /\ step = "scan" /\ monitor \in {"done", "failed"} /\ tail = "ended"
  /\ step' = "remove"
  /\ UNCHANGED <<cfg, running, group, network, attempt, service, task, monitor, tail, error>>

\* A line is too long for the scanner.
ScanTooLong ==
  /\ step = "scan" /\ tail = "copying"
  /\ step' = "remove"
  /\ UNCHANGED <<cfg, running, group, network, attempt, service, task, monitor, tail, error>>

\* Mutant: a failed monitor leaves the service alone.
RemoveUnlessFailed ==
  /\ step = "remove"
  /\ service' = IF cfg.keep \/ monitor = "failed" THEN service ELSE "removed"
  /\ step' = "unlink"
  /\ UNCHANGED <<cfg, running, group, network, attempt, task, monitor, tail, error>>

\* Run logs a removal that fails and goes on.
RemoveService ==
  /\ step = "remove"
  /\ service' \in IF cfg.keep THEN {service} ELSE {"removed", "refused"}
  /\ step' = "unlink"
  /\ UNCHANGED <<cfg, running, group, network, attempt, task, monitor, tail, error>>

Attached == service \in {"up", "refused"} \/ \E t \in Tasks : task[t] # "gone"

\* An attempt of the deferred removal, which the swarm refuses while a service
\* or a task is attached, and which may fail.
RemoveNetwork ==
  /\ step = "unlink"
  /\ attempt' = IF cfg.keep \/ cfg.background THEN attempt ELSE attempt + 1
  /\ network' \in IF cfg.keep \/ cfg.background \/ Attached THEN {network} ELSE {network, "removed"}
  /\ step' = IF network' = "up" /\ attempt' \in 1 .. Attempts - 1 THEN "unlink" ELSE "returned"
  /\ UNCHANGED <<cfg, running, group, service, task, monitor, tail, error>>

SwarmSteps ==
  \/ CreateNetwork \/ CreateService \/ CreateFails \/ TailLogs
  \/ MonitorDone \/ MonitorTimesOut \/ TailEnds \/ ScanEnds \/ RemoveService \/ RemoveNetwork

SwarmNext ==
  \/ SwarmSteps \/ MinutePasses \/ MonitorFails \/ TailBreaks \/ ScanTooLong
  \/ \E t \in Tasks : TaskFinishes(t) \/ TaskGoes(t)

SwarmSpec == SwarmInit /\ [][SwarmNext]_swarmVars

\* The goroutines run and the minute passes; no task has to finish.
SwarmFairSpec == SwarmSpec /\ WF_swarmVars(SwarmSteps) /\ WF_swarmVars(MinutePasses)

-------------------------------------------------------------------------------
SwarmTypeOK ==
  /\ step \in {"network", "create", "tail", "scan", "remove", "unlink", "returned"}
  /\ group \in 1 .. GroupCount + 1 /\ attempt \in 0 .. Attempts
  /\ network \in {"absent", "up", "removed"} /\ service \in {"absent", "up", "refused", "removed"}
  /\ task \in [Tasks -> {"running", "finished", "gone"}]
  /\ monitor \in {"off", "ticking", "done", "failed"} /\ tail \in {"off", "copying", "ended"}
  /\ running \in BOOLEAN /\ error \in BOOLEAN

\* Run returns, whether or not the instances ever finish.
SwarmReturns == <>(step = "returned")

\* "Tail all services until all instances are done, then remove the service":
\* a service is removed only when its tasks are over.
TailsUntilDone ==
  [][service = "up" /\ service' = "removed" => Finished = Replicas]_swarmVars
===============================================================================
