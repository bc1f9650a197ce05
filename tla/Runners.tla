------------------------------- MODULE Runners -------------------------------
(***************************************************************************)
(* The runners local:exec, cluster:k8s and cluster:swarm side by side, and *)
(* what each of them owes its caller: a success that every instance        *)
(* reported, and nothing left behind.                                      *)
(***************************************************************************)
EXTENDS LocalExec, K8sRun, K8sCollect, SwarmRun

\* local:exec: a run without an error is one in which every instance was started
\* and wrote that it succeeded: an instance that did not start, exited early,
\* failed or was killed makes Run return an error, whatever the order in which
\* processes and readers end (Wait, processStdout, FailStart).
\* cluster:k8s: a run is stored as a success only if every instance of every group
\* published one, whatever the watcher, the deletions and the engine do while the
\* collector still writes (collectOutcomes, Run).
SuccessIsUnanimous ==
  /\ returned = "ok" => \A i \in Procs : proc[i] # "none" /\ Passed(i)
  /\ result = "success" => published = I

\* local:exec: no process of the run outlives Run, or is left as a zombie.
\* cluster:k8s: no pod is left when Run returns and its services are not kept,
\* unless the context of the task ended, the run's resources could not be parsed or
\* the API refused to delete one.
\* cluster:swarm: a run in the foreground that keeps nothing and returns without an
\* error has removed its service, or the swarm refused to, however the monitor and
\* the log stream ended; and the network of a run is left only after five attempts,
\* since tasks that are still being shut down hold it for a while (retry).
CleanedUp ==
  /\ where = "returned" => \A i \in Procs : proc[i] \in {"none", "reaped"}
  /\ stage = "returned" /\ ~keep /\ ctx = "live" /\ err # "early" /\ ~refused =>
       \A i \in I : pod[i] \in {"absent", "deleted"}
  /\ step = "returned" /\ ~cfg.keep /\ ~cfg.background =>
       /\ error \/ service \in {"removed", "refused"}
       /\ network = "up" => attempt = Attempts
==============================================================================
