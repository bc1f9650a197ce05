------------------------------ MODULE MCRunners ------------------------------
(***************************************************************************)
(* The runners local:exec, cluster:k8s and cluster:swarm, and the watching *)
(* and deleting of containers, for TLC.  A behaviour is one of LocalExec,  *)
(* K8sRun, K8sCollect, SwarmRun or DockerWatch, with the constants of the  *)
(* configuration, or of an instance of DockerWatch or ContainerDeletion,   *)
(* chosen by the initial value of scenario:                                *)
(*   exec      two instances that write at most two events each;           *)
(*   pods      two groups of one pod, which are not kept; subscribing to   *)
(*             the events may fail;                                        *)
(*   kept      the same, the pods are kept and the task is not stopped;    *)
(*   collect   three collections of outputs and four clients;              *)
(*   swarm     one group of two replicas;                                  *)
(*   watch     two containers, four events, workers may not stop in time;  *)
(*   watched   two containers, three events, cancelled workers stop;       *)
(*   deletion  four containers deleted two at a time;                      *)
(*   refused   the same, two of which cannot be deleted.                   *)
(***************************************************************************)
EXTENDS Runners, DockerWatch

VARIABLES
    scenario,
    gpc, removed, caller, round, merr

deletionVars == <<gpc, removed, caller, round, merr>>
managerVars == <<watchVars, deletionVars>>
mcVars == <<scenario, execVars, k8sVars, collectVars, swarmVars, managerVars>>
-----------------------------------------------------------------------------
Four == {"x1", "x2", "x3", "x4"}
MCGroupOf == <<1, 2>>

Watched == INSTANCE DockerWatch WITH MaxEvents <- 3, WorkersStop <- TRUE
Deletion == INSTANCE ContainerDeletion WITH
    Ids <- Four, RateLimit <- 2, Undeletable <- {}, pc <- caller, i <- round
Refused == INSTANCE ContainerDeletion WITH
    Ids <- Four, RateLimit <- 2, Undeletable <- {"x1", "x2"}, pc <- caller, i <- round

MCInit ==
    /\ scenario \in {"exec", "pods", "kept", "collect", "swarm", "watch", "watched", "deletion", "refused"}
    /\ ExecInit
    /\ K8sInit
    /\ keep <=> scenario = "kept"
    /\ CollectInit
    /\ scenario # "collect" => collectPod = "absent"
    /\ SwarmInit
    /\ scenario # "swarm" => cfg = [keep |-> TRUE, background |-> TRUE]
    /\ WatchInit
    /\ scenario \notin {"watch", "watched"} => up = {}
    /\ Deletion!Init

RunnerNext ==
    \/ scenario = "exec" /\ ExecNext /\ UNCHANGED <<k8sVars, collectVars, swarmVars>>
    \/ scenario = "pods" /\ K8sNext /\ UNCHANGED <<execVars, collectVars, swarmVars>>
    \/ scenario = "kept" /\ K8sNext /\ ctx' = "live" /\ UNCHANGED <<execVars, collectVars, swarmVars>>
    \/ scenario = "collect" /\ CollectNext /\ UNCHANGED <<execVars, k8sVars, swarmVars>>
    \/ scenario = "swarm" /\ SwarmNext /\ UNCHANGED <<execVars, k8sVars, collectVars>>

ManagerNext ==
    \/ scenario = "watch" /\ WatchNext /\ UNCHANGED deletionVars
    \/ scenario = "watched" /\ Watched!WatchNext /\ UNCHANGED deletionVars
    \/ scenario = "deletion" /\ Deletion!Next /\ UNCHANGED watchVars
    \/ scenario = "refused" /\ Refused!Next /\ UNCHANGED watchVars

MCNext ==
    /\ \/ RunnerNext /\ UNCHANGED managerVars
       \/ ManagerNext /\ UNCHANGED <<execVars, k8sVars, collectVars, swarmVars>>
    /\ UNCHANGED scenario

\* The fairness of the modules whose end is claimed, each in its scenario.
MCSpec ==
    /\ MCInit /\ [][MCNext]_mcVars
    /\ WF_execVars(scenario = "exec" /\ (StartInstance \/ FailStart))
    /\ WF_execVars(scenario = "exec" /\ ExecSteps)
    /\ \A n \in 1 .. 2 :
         /\ WF_execVars(scenario = "exec" /\ ReadEvent(n))
         /\ WF_execVars(scenario = "exec" /\ ReadEOF(n))
         /\ WF_execVars(scenario = "exec" /\ StderrEOF(n))
         /\ WF_execVars(scenario = "exec" /\ ContextKills(n))
    /\ WF_k8sVars(scenario = "pods" /\ K8sSteps)
    /\ WF_k8sVars(scenario = "pods" /\ WatchSteps)
    /\ WF_k8sVars(scenario = "pods" /\ CollectorEnds)
    /\ WF_k8sVars(scenario = "pods" /\ TimePasses)
    /\ \A n \in 1 .. 2 : WF_k8sVars(scenario = "pods" /\ CreatePod(n))
    /\ WF_collectVars(scenario = "collect" /\ PodStarts)
    /\ \A r \in Requests :
         /\ SF_collectVars(scenario = "collect" /\ CollectSteps(r))
         /\ WF_collectVars(scenario = "collect" /\ ~live[r] /\ ListFails(r))
    /\ WF_swarmVars(scenario = "swarm" /\ SwarmSteps)
    /\ WF_swarmVars(scenario = "swarm" /\ MinutePasses)
    /\ WF_watchVars(scenario = "watched" /\ Watched!OwnStep)
    /\ WF_watchVars(scenario = "watched" /\ ended /\ Watched!StreamFails)
    /\ \A c \in {"c1", "c2"} :
         WF_watchVars(scenario = "watched" /\ worker[c] = "cancelled" /\ Watched!WorkerExits(c))
    /\ WF_deletionVars(scenario = "deletion" /\ Deletion!Next)
-----------------------------------------------------------------------------
\* Runs and collections end: a cancelled run of local:exec, a run of cluster:k8s within its
\* timeout (unless it could not subscribe and waits for outcomes that nobody collects), a
\* run of cluster:swarm whatever its instances do, and every collection if the pool has a
\* client more than there are collections.  Watch returns when its context ended or the
\* stream failed, and DeleteContainers if no deletion fails.
RunsEnd ==
    []<>CASE scenario = "exec" -> context = "cancelled" => where = "returned"
          [] scenario = "pods" -> stage = "returned" \/ (watcher = "await" /\ collector = "off")
          [] scenario = "collect" -> \A r \in Requests : at[r] \in {"done", "failed"}
          [] scenario = "swarm" -> step = "returned"
          [] scenario = "watched" -> ended \/ pc = "returning" => pc = "returned"
          [] scenario = "deletion" -> caller = "returned"
          [] OTHER -> TRUE
=============================================================================
