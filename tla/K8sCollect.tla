------------------------------ MODULE K8sCollect ------------------------------
(***************************************************************************)
(* ClusterK8sRunner.CollectOutputs: concurrent requests for the outputs of *)
(* runs share the pool of Kubernetes clients and the single pod            *)
(* `collect-outputs`, which the first of them creates.  A request takes a  *)
(* client in each function that calls the API, also while its caller holds *)
(* one.  runner/cluster_k8s.go, runner/client_pool.go.                     *)
(***************************************************************************)
EXTENDS Naturals, FiniteSets

CONSTANTS
  Requests,  \* the collection requests
  Workers    \* the clients of the pool

ASSUME PoolAssumption == IsFiniteSet(Requests) /\ Workers \in Nat

VARIABLES
  at,         \* where each request is
  clients,    \* the clients each request holds
  available,  \* the length of pool.availableC
  live,       \* whether the context of each request is live
  collectPod, \* collect-outputs: absent, Pending or Running
  ensured     \* history: the phase of the pod when ensure returned without error

collectVars == <<at, clients, available, live, collectPod, ensured>>

CollectInit ==
  /\ at = [r \in Requests |-> "start"]
  /\ clients = [r \in Requests |-> 0] /\ available = Workers
  /\ live = [r \in Requests |-> TRUE]
  /\ collectPod \in {"absent", "Running"}
  /\ ensured = [r \in Requests |-> "none"]

Goto(r, to) == at' = [at EXCEPT ![r] = to]

\* pool.Acquire: blocks on the channel, whatever the context.
Acquire(r) ==
  /\ available > 0
  /\ available' = available - 1
  /\ clients' = [clients EXCEPT ![r] = @ + 1]

Release(r, n) ==
  /\ available' = available + n
  /\ clients' = [clients EXCEPT ![r] = @ - n]

\* The client leaves, or the request is cancelled.
Leave(r) ==
  /\ live[r] /\ at[r] \notin {"done", "failed"}
  /\ live' = [live EXCEPT ![r] = FALSE]
  /\ UNCHANGED <<at, clients, available, collectPod, ensured>>

\* The cluster starts the pod's container.
PodStarts ==
  /\ collectPod = "Pending"
  /\ collectPod' = "Running"
  /\ UNCHANGED <<at, clients, available, live, ensured>>

-------------------------------------------------------------------------------
(* ensureCollectOutputsPod.                                                   *)

Ensure(r) ==
  /\ at[r] = "start"
  /\ Acquire(r) /\ Goto(r, "list")
  /\ UNCHANGED <<live, collectPod, ensured>>

\* The pod exists: ensure returns, whatever its phase is.
ListFound(r) ==
  /\ at[r] = "list" /\ live[r] /\ collectPod # "absent"
  /\ Goto(r, "ensured") /\ Release(r, 1)
  /\ ensured' = [ensured EXCEPT ![r] = collectPod]
  /\ UNCHANGED <<live, collectPod>>

ListEmpty(r) ==
  /\ at[r] = "list" /\ live[r] /\ collectPod = "absent"
  /\ Goto(r, "acquire_create")
  /\ UNCHANGED <<clients, available, live, collectPod, ensured>>

ListFails(r) ==
  /\ at[r] = "list"
  /\ Goto(r, "failed") /\ Release(r, 1)
  /\ UNCHANGED <<live, collectPod, ensured>>

\* createCollectOutputsPod takes a second client.
AcquireCreate(r) ==
  /\ at[r] = "acquire_create"
  /\ Acquire(r) /\ Goto(r, "create")
  /\ UNCHANGED <<live, collectPod, ensured>>

\* Mutant: the client of the creation is kept until ensure returns.
CreateHolding(r) ==
  /\ at[r] = "create" /\ live[r] /\ collectPod = "absent"
  /\ collectPod' = "Pending" /\ Goto(r, "acquire_wait")
  /\ UNCHANGED <<clients, available, live, ensured>>

CreateCollectPod(r) ==
  /\ at[r] = "create" /\ live[r] /\ collectPod = "absent"
  /\ collectPod' = "Pending"
  /\ Goto(r, "acquire_wait") /\ Release(r, 1)
  /\ UNCHANGED <<live, ensured>>

\* The API refuses, or the pod exists by now: both functions return the error.
CreateCollectFails(r) ==
  /\ at[r] = "create"
  /\ Goto(r, "failed") /\ Release(r, 2)
  /\ UNCHANGED <<live, collectPod, ensured>>

\* Mutant: waitForPod keeps the client when its context ends.
WaitCancelledHolding(r) ==
  /\ at[r] = "wait" /\ ~live[r]
  /\ Goto(r, "failed") /\ Release(r, 1)
  /\ UNCHANGED <<live, collectPod, ensured>>

\* waitForPod takes a second client as well.
AcquireWait(r) ==
  /\ at[r] = "acquire_wait"
  /\ Acquire(r) /\ Goto(r, "wait")
  /\ UNCHANGED <<live, collectPod, ensured>>

WaitForPod(r) ==
  /\ at[r] = "wait" /\ live[r] /\ collectPod = "Running"
  /\ Goto(r, "ensured") /\ Release(r, 2)
  /\ ensured' = [ensured EXCEPT ![r] = collectPod]
  /\ UNCHANGED <<live, collectPod>>

\* The context is done or a list fails.
WaitCancelled(r) ==
  /\ at[r] = "wait" /\ ~live[r]
  /\ Goto(r, "failed") /\ Release(r, 2)
  /\ UNCHANGED <<live, collectPod, ensured>>

WaitListFails(r) ==
  /\ at[r] = "wait" /\ live[r]
  /\ Goto(r, "failed") /\ Release(r, 2)
  /\ UNCHANGED <<live, collectPod, ensured>>

-------------------------------------------------------------------------------
(* CollectOutputs.                                                            *)

Collect(r) ==
  /\ at[r] = "ensured"
  /\ Acquire(r) /\ Goto(r, "stream")
  /\ UNCHANGED <<live, collectPod, ensured>>

\* tar in the pod, streamed to the client; it needs a running container.
Stream(r) ==
  /\ at[r] = "stream"
  /\ \/ collectPod = "Running" /\ Goto(r, "done")
     \/ Goto(r, "failed")
  /\ Release(r, 1)
  /\ UNCHANGED <<live, collectPod, ensured>>

CollectSteps(r) ==
  \/ Ensure(r) \/ ListFound(r) \/ ListEmpty(r) \/ AcquireCreate(r) \/ CreateCollectPod(r)
  \/ CreateCollectFails(r) \/ AcquireWait(r) \/ WaitForPod(r) \/ WaitCancelled(r)
  \/ Collect(r) \/ Stream(r)

CollectNext ==
  \/ PodStarts
  \/ \E r \in Requests : Leave(r) \/ ListFails(r) \/ WaitListFails(r) \/ CollectSteps(r)

CollectSpec == CollectInit /\ [][CollectNext]_collectVars

\* A call of the API returns, a list that is retried on a done context fails, a
\* client in the channel goes to each waiting request in the end (Go serves the
\* receivers of a channel in order), and the cluster starts the pod.
CollectFairSpec ==
  /\ CollectSpec
  /\ WF_collectVars(PodStarts)
  /\ \A r \in Requests : SF_collectVars(CollectSteps(r)) /\ WF_collectVars(~live[r] /\ ListFails(r))

-------------------------------------------------------------------------------
CollectTypeOK ==
  /\ at \in [Requests -> {"start", "list", "acquire_create", "create", "acquire_wait",
                          "wait", "ensured", "stream", "done", "failed"}]
  /\ clients \in [Requests -> 0 .. 2] /\ available \in 0 .. Workers
  /\ live \in [Requests -> BOOLEAN] /\ collectPod \in {"absent", "Pending", "Running"}
  /\ ensured \in [Requests -> {"none", "Pending", "Running"}]

\* A request that has ended, with or without an error, has given back the
\* clients it took in each of the nested functions, so the pool is whole when
\* no request is in progress (the deferred Release calls).
ClientsReturned ==
  (\A r \in Requests : at[r] \in {"start", "done", "failed"}) => available = Workers

\* Each request ends, provided the pool has more clients than there are
\* requests: then one of those that hold a client and wait for a second gets it.
CollectEnds == \A r \in Requests : <>(at[r] \in {"done", "failed"})

\* "ensureCollectOutputsPod ensures that we have a collect-outputs pod running": a
\* request that found none ends up with a pod or with an error.
EnsuresPod ==
  \A r \in Requests : at[r] = "acquire_create" ~> collectPod # "absent" \/ at[r] = "failed"

\* "ensureCollectOutputsPod ensures that we have a collect-outputs pod running":
\* when it returns without an error the pod runs.
EnsuredIsRunning == \A r \in Requests : ensured[r] \in {"none", "Running"}
===============================================================================
