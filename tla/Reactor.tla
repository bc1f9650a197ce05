------------------------------ MODULE Reactor ------------------------------
(***************************************************************************)
(* The reactors of the sidecar: what happens to a container between the    *)
(* moment Watch starts a worker for it and the handler of its network      *)
(* (pkg/sidecar/docker_reactor.go, k8s_reactor.go).  A worker inspects the *)
(* container, has the addresses of the services resolved once per run,     *)
(* opens handles on the network namespace of the container, sets up the    *)
(* routes to the services, and runs the handler.                           *)
(*                                                                         *)
(* The services stand for one of them.  epoch counts how often it has      *)
(* moved to another address, and resolved is the epoch of its address in   *)
(* servicesRoutes, -1 if the lookup failed.  cache is runidsCache, the     *)
(* least recently used run first; lock is the worker that holds the mutex, *)
(* and found what it has looked up.  ns and nl are the workers with an     *)
(* open namespace and netlink handle.  used is the epoch of the route of a *)
(* container, -1 without one, and began the epoch at which the first of a  *)
(* run came, -1 before.                                                    *)
(***************************************************************************)
EXTENDS Integers, Sequences, FiniteSets

CONSTANTS
    Containers,  \* the containers that come
    RunOf,       \* the run of each
    Plain,       \* the containers of runs without a sidecar, or of mkdir-outputs
    Kind,        \* "docker" or "k8s"
    CacheSize,   \* the capacity of the cache
    MaxMoves,    \* bound: how often the services move
    Faults       \* a call to docker, to kubernetes or to netlink may fail

VARIABLES pc, epoch, resolved, cache, lock, found, ns, nl, used, began

vars == <<pc, epoch, resolved, cache, lock, found, ns, nl, used, began>>
-----------------------------------------------------------------------------
Runs == {RunOf[c] : c \in Containers}
Nobody == "nobody"
Goto(c, p) == pc' = [pc EXCEPT ![c] = p]
Cached(r) == \E k \in DOMAIN cache : cache[k] = r
Place(r) == CHOOSE k \in DOMAIN cache : cache[k] = r
Others(r) ==
    IF Cached(r) THEN [k \in 1 .. Len(cache) - 1 |-> cache[IF k < Place(r) THEN k ELSE k + 1]] ELSE cache

\* A run that is used becomes the most recent one; a full cache drops the oldest.
Touch(r) == LET s == Append(Others(r), r) IN IF Len(s) > CacheSize THEN Tail(s) ELSE s

\* A host that cannot be resolved is skipped.
Lookup == IF Faults THEN {epoch, -1} ELSE {epoch}

\* NewDockerReactor has the services resolved for no run.
Init ==
    /\ pc = [c \in Containers |-> "none"]
    /\ epoch = 0 /\ resolved \in Lookup
    /\ cache = <<"constructor">>
    /\ lock = Nobody /\ found = 0
    /\ ns = {} /\ nl = {}
    /\ used = [c \in Containers |-> -1]
    /\ began = [r \in Runs |-> -1]

\* The services restart and get other addresses.
Move ==
    /\ epoch < MaxMoves
    /\ epoch' = epoch + 1
    /\ UNCHANGED <<pc, resolved, cache, lock, found, ns, nl, used, began>>

\* Watch finds a container and starts its worker.
Arrive(c) ==
    /\ pc[c] = "none"
    /\ Goto(c, "inspect")
    /\ began' = [began EXCEPT ![RunOf[c]] = IF @ = -1 THEN epoch ELSE @]
    /\ UNCHANGED <<epoch, resolved, cache, lock, found, ns, nl, used>>

Inspect(c) ==
    /\ pc[c] = "inspect"
    /\ \/ Goto(c, IF c \in Plain THEN "ignored" ELSE "resolve")
       \/ Faults /\ Goto(c, "failed")
    /\ UNCHANGED <<epoch, resolved, cache, lock, found, ns, nl, used, began>>

\* Mutant: the run is put into the cache before its services are looked up, unlocked.
ResolveServicesEarly(c) ==
    /\ pc[c] = "resolve" /\ lock = Nobody
    /\ cache' = Touch(RunOf[c])
    /\ IF Cached(RunOf[c]) THEN Goto(c, "resolved") /\ UNCHANGED found
                           ELSE found' \in Lookup /\ Goto(c, "looked_up")
    /\ UNCHANGED <<epoch, resolved, lock, ns, nl, used, began>>

\* ResolveServices: nothing to do for a run of the cache; otherwise the hosts are looked
\* up and the routes replaced, under the lock.  The run is cached whatever failed.
ResolveServices(c) ==
    /\ pc[c] = "resolve" /\ lock = Nobody
    /\ IF Cached(RunOf[c])
       THEN cache' = Touch(RunOf[c]) /\ Goto(c, "resolved") /\ UNCHANGED <<lock, found>>
       ELSE lock' = c /\ found' \in Lookup /\ Goto(c, "looked_up") /\ UNCHANGED cache
    /\ UNCHANGED <<epoch, resolved, ns, nl, used, began>>

StoreServices(c) ==
    /\ pc[c] = "looked_up"
    /\ cache' = Touch(RunOf[c])
    /\ resolved' = found
    /\ lock' = Nobody
    /\ Goto(c, "resolved")
    /\ UNCHANGED <<epoch, found, ns, nl, used, began>>

\* NetworkList, or the wait until the pod runs, which ends with the context at the latest.
Prepare(c) ==
    /\ pc[c] = "resolved"
    /\ \/ Goto(c, "open")
       \/ Faults /\ Goto(c, "failed")
    /\ UNCHANGED <<epoch, resolved, cache, lock, found, ns, nl, used, began>>

\* getNetworkHandlers: the namespace first; it is closed again if netlink fails.
OpenNamespace(c) ==
    /\ pc[c] = "open"
    /\ \/ ns' = ns \union {c} /\ Goto(c, "opened")
       \/ Faults /\ Goto(c, "failed") /\ UNCHANGED ns
    /\ UNCHANGED <<epoch, resolved, cache, lock, found, nl, used, began>>

OpenNetlink(c) ==
    /\ pc[c] = "opened"
    /\ \/ nl' = nl \union {c} /\ Goto(c, "routes") /\ UNCHANGED ns
       \/ Faults /\ ns' = ns \ {c} /\ Goto(c, "failed") /\ UNCHANGED nl
    /\ UNCHANGED <<epoch, resolved, cache, lock, found, used, began>>

\* Mutant: an error closes the namespace only.
FailureLeaksNetlink(c) == ns' = ns \ {c} /\ UNCHANGED nl /\ Goto(c, "failed")

\* servicesRoutes is taken as it is, without the lock; a pod gets a route to DNS and none
\* of these.
ControlRoutes(c) == used' = IF Kind = "docker" THEN [used EXCEPT ![c] = resolved] ELSE used

\* Each way out closes the namespace, an error netlink too.
Failure(c) == ns' = ns \ {c} /\ nl' = nl \ {c} /\ Goto(c, "failed")

SetUpRoutes(c) ==
    /\ pc[c] = "routes"
    /\ \/ /\ ControlRoutes(c)
          /\ Goto(c, "handled")
          /\ ns' = ns \ {c} /\ UNCHANGED nl
       \/ Faults /\ Failure(c) /\ UNCHANGED used
    /\ UNCHANGED <<epoch, resolved, cache, lock, found, began>>

\* The handler returns and has closed the instance, and with it the netlink handle.
HandlerReturns(c) ==
    /\ pc[c] = "handled"
    /\ nl' = nl \ {c}
    /\ Goto(c, "gone")
    /\ UNCHANGED <<epoch, resolved, cache, lock, found, ns, used, began>>

WorkerStep(c) ==
    \/ Inspect(c) \/ ResolveServices(c) \/ StoreServices(c) \/ Prepare(c)
    \/ OpenNamespace(c) \/ OpenNetlink(c) \/ SetUpRoutes(c) \/ HandlerReturns(c)

Next == Move \/ \E c \in Containers : Arrive(c) \/ WorkerStep(c)

\* Workers run.  Each takes finitely many steps, so it is enough that one of them steps
\* while one can.
Fairness == WF_vars(\E c \in Containers : WorkerStep(c))

Spec == Init /\ [][Next]_vars /\ Fairness
-----------------------------------------------------------------------------
Over(c) == pc[c] \in {"none", "ignored", "failed", "gone"}

\* A worker that is over holds no handle and not the lock, on every path; while its
\* handler runs it holds the netlink handle only (handleContainer, manageContainer).
HandlesReleased ==
    \A c \in Containers :
        /\ Over(c) => c \notin ns \union nl /\ lock # c
        /\ pc[c] = "handled" => c \in nl \ ns

\* The route of a container was resolved after the first container of its run came, in
\* spite of the cache and of other runs that resolve at the same time; if the lookup
\* failed the container has none (ResolveServices, handleContainer).
RoutesFresh == \A c \in Containers : used[c] # -1 => used[c] >= began[RunOf[c]]

AllOver == \A c \in Containers : Over(c)

\* Every container that came is handled in the end, ignored, or fails.
WorkersEnd == []<>AllOver
=============================================================================
