--------------------------- MODULE SidecarProofs ---------------------------
(***************************************************************************)
(* The sidecar, for any containers, runs, configurations and failing       *)
(* calls: the reactors release what they open and give a container fresh   *)
(* routes, and the handler keeps track of the network and confirms a       *)
(* configuration when it is in force.  Then the plans that meet at the     *)
(* barriers of the sync service: an argument about the set of instances,   *)
(* or connections, behind a count of signals.                              *)
(***************************************************************************)
EXTENDS Reactor, Sidecar, Plans, FiniteSetTheorems, TLAPS

-----------------------------------------------------------------------------
(* The reactors.                                                            *)

\* The entry that the constructor makes in the cache is none of a run, and a mutex that is
\* free has no owner.
NamesApart == "constructor" \notin Runs /\ Nobody \notin Containers

Stages ==
    {"none", "inspect", "ignored", "failed", "resolve", "looked_up", "resolved", "open", "opened",
     "routes", "handled", "gone"}

TypeInv ==
    /\ pc \in [Containers -> Stages]
    /\ epoch \in Nat /\ resolved \in Int /\ found \in Int
    /\ cache \in Seq(Runs \union {"constructor"})
    /\ lock \in Containers \union {Nobody}
    /\ ns \in SUBSET Containers /\ nl \in SUBSET Containers
    /\ used \in [Containers -> Int]
    /\ began \in [Runs -> Int]

\* The mutex is held exactly by the worker that has looked up the services.
LockInv == \A c \in Containers : lock = c <=> pc[c] = "looked_up"

\* A handle is open from the step that opens it to the one that closes it.
HandleInv ==
    \A c \in Containers :
        /\ c \in ns <=> pc[c] \in {"opened", "routes"}
        /\ c \in nl <=> pc[c] \in {"routes", "handled"}

\* What is known of the services, if anything, is as new as a run.
AsNew(x, r) == x = -1 \/ began[r] <= x

\* The worker has its services resolved and no routes yet.
Resolved(c) == pc[c] \in {"resolved", "open", "opened", "routes"}

\* A run of the cache has begun, and x is as new as each of them and as the run of each
\* worker that relies on it.
Covers(x) ==
    /\ \A k \in DOMAIN cache : cache[k] \in Runs => began[cache[k]] # -1 /\ AsNew(x, cache[k])
    /\ \A c \in Containers : Resolved(c) => AsNew(x, RunOf[c])

\* Nothing begins after now, and what a worker has looked up may replace what is known.
TimeInv ==
    /\ \A r \in Runs : began[r] <= epoch
    /\ \A c \in Containers : pc[c] = "looked_up" => Covers(found) /\ AsNew(found, RunOf[c])

\* A run has begun before a container of it is past its arrival, and what is known of the
\* services serves the runs of the cache.
RunInv ==
    /\ \A c \in Containers : pc[c] # "none" => began[RunOf[c]] # -1
    /\ Covers(resolved)
    /\ \A c \in Containers : used[c] # -1 => pc[c] # "none" /\ began[RunOf[c]] <= used[c]

ReactorInv == TypeInv /\ LockInv /\ HandleInv /\ TimeInv /\ RunInv
-----------------------------------------------------------------------------
\* Each container is of one of the runs.
LEMMA RunOfContainer == \A c \in Containers : RunOf[c] \in Runs
BY Zenon DEF Runs

LEMMA InitInv == ASSUME NamesApart, Init PROVE ReactorInv
<1>1. cache = <<"constructor">> /\ DOMAIN cache = {1} /\ cache \in Seq(Runs \union {"constructor"})
  BY DEF Init
<1>2. RunInv
  BY <1>1, RunOfContainer DEF Init, NamesApart, RunInv, Covers, Resolved
<1>3. resolved \in Int /\ epoch = 0
  BY DEF Init, Lookup
<1> QED BY <1>1, <1>2, <1>3
           DEF Init, NamesApart, ReactorInv, TypeInv, LockInv, HandleInv, TimeInv, Stages

\* Touch adds no run but the one that is used.
LEMMA TouchAdds ==
    ASSUME NEW S, cache \in Seq(S), NEW r \in S
    PROVE  /\ Touch(r) \in Seq(S)
           /\ \A k \in DOMAIN Touch(r) : Touch(r)[k] = r \/ \E j \in DOMAIN cache : cache[j] = Touch(r)[k]
<1>1. /\ Others(r) \in Seq(S)
      /\ \A k \in DOMAIN Others(r) : \E j \in DOMAIN cache : cache[j] = Others(r)[k]
  <2>1. CASE ~Cached(r)
    BY <2>1, Zenon DEF Others
  <2>2. CASE Cached(r)
    <3>1. Place(r) \in DOMAIN cache /\ Len(cache) \in Nat /\ DOMAIN cache = 1 .. Len(cache)
      BY <2>2 DEF Cached, Place
    <3>2. \A k \in 1 .. Len(cache) - 1 : (IF k < Place(r) THEN k ELSE k + 1) \in DOMAIN cache
      BY <3>1
    <3>3. Others(r) = [k \in 1 .. Len(cache) - 1 |-> cache[IF k < Place(r) THEN k ELSE k + 1]]
      BY <2>2, Zenon DEF Others
    <3>4. Others(r) \in Seq(S) /\ DOMAIN Others(r) = 1 .. Len(cache) - 1
      BY <3>1, <3>2, <3>3
    <3> QED BY <3>2, <3>3, <3>4, Zenon
  <2> QED BY <2>1, <2>2, Zenon
<1> DEFINE s == Append(Others(r), r)
<1>2. /\ s \in Seq(S) /\ Len(s) > 0
      /\ \A k \in DOMAIN s : s[k] = r \/ \E j \in DOMAIN cache : cache[j] = s[k]
  BY <1>1
<1>3. /\ Tail(s) \in Seq(S)
      /\ \A k \in DOMAIN Tail(s) : \E j \in DOMAIN s : s[j] = Tail(s)[k]
  BY <1>2
<1> HIDE DEF s
<1>4. Touch(r) = IF Len(s) > CacheSize THEN Tail(s) ELSE s
  BY Zenon DEF Touch, s
<1> QED BY <1>2, <1>3, <1>4, Zenon
-----------------------------------------------------------------------------
LEMMA MoveInv == ASSUME ReactorInv, Move PROVE ReactorInv'
<1>1. epoch \in Nat /\ epoch' = epoch + 1
  BY Zenon DEF ReactorInv, TypeInv, Move
<1>2. TypeInv' /\ LockInv' /\ HandleInv'
  <2>1. TypeInv'
    BY <1>1 DEF ReactorInv, TypeInv, Move
  <2>2. LockInv' /\ HandleInv'
    BY Zenon DEF ReactorInv, LockInv, HandleInv, Move
  <2> QED BY <2>1, <2>2, Zenon
<1>3. TimeInv'
  <2>1. \A r \in Runs : began[r] \in Int /\ began[r] <= epoch
    BY Zenon DEF ReactorInv, TypeInv, TimeInv
  <2>2. \A r \in Runs : began[r] <= epoch + 1
    BY <1>1, <2>1
  <2> QED BY <1>1, <2>2, Zenon DEF ReactorInv, TimeInv, Covers, Resolved, AsNew, Move
<1>4. RunInv'
  BY Zenon DEF ReactorInv, RunInv, Covers, Resolved, AsNew, Move
<1> QED BY <1>2, <1>3, <1>4, Zenon DEF ReactorInv

\* The first container of a run begins it; a run that has begun keeps its beginning.
LEMMA ArriveInv == ASSUME ReactorInv, NEW c \in Containers, Arrive(c) PROVE ReactorInv'
<1>1. /\ pc[c] = "none" /\ pc' = [pc EXCEPT ![c] = "inspect"]
      /\ UNCHANGED <<epoch, resolved, cache, lock, found, ns, nl, used>>
      /\ began' = [began EXCEPT ![RunOf[c]] = IF @ = -1 THEN epoch ELSE @]
  BY Zenon DEF Arrive, Goto
<1>2. /\ began' \in [Runs -> Int]
      /\ \A r \in Runs : began[r] # -1 => began'[r] = began[r]
      /\ \A r \in Runs : began'[r] <= epoch
      /\ began'[RunOf[c]] # -1
  <2>1. RunOf[c] \in Runs /\ epoch \in Nat /\ began \in [Runs -> Int] /\ \A r \in Runs : began[r] <= epoch
    BY RunOfContainer, Zenon DEF ReactorInv, TypeInv, TimeInv
  <2> QED BY <1>1, <2>1
<1>3. TypeInv' /\ LockInv' /\ HandleInv'
  BY <1>1, <1>2, Zenon DEF ReactorInv, TypeInv, LockInv, HandleInv, Stages
<1>4. /\ \A d \in Containers : pc'[d] = pc[d] \/ (d = c /\ pc'[d] = "inspect")
      /\ \A d \in Containers : pc[d] # "none" => began'[RunOf[d]] = began[RunOf[d]] /\ began[RunOf[d]] # -1
  BY <1>1, <1>2, RunOfContainer, Zenon DEF ReactorInv, TypeInv, RunInv
<1>5. /\ \A d \in Containers : Resolved(d)' => Resolved(d) /\ pc[d] # "none"
      /\ \A d \in Containers : pc'[d] = "looked_up" => pc[d] = "looked_up"
  BY <1>4, Zenon DEF Resolved
<1>6. UNCHANGED cache /\ UNCHANGED resolved /\ UNCHANGED found
  BY <1>1, Zenon
<1>7. ASSUME Covers(resolved) PROVE Covers(resolved)'
  <2>1. ASSUME NEW k \in DOMAIN cache, cache[k] \in Runs
        PROVE  began'[cache[k]] # -1 /\ (resolved = -1 \/ began'[cache[k]] <= resolved)
    BY <1>2, <1>7, <2>1, Zenon DEF Covers, AsNew
  <2>2. ASSUME NEW d \in Containers, Resolved(d)' PROVE resolved = -1 \/ began'[RunOf[d]] <= resolved
    BY <1>4, <1>5, <1>7, <2>2, Zenon DEF Covers, AsNew
  <2> QED BY <1>6, <2>1, <2>2, Zenon DEF Covers, AsNew
<1>8. ASSUME Covers(found) PROVE Covers(found)'
  <2>1. ASSUME NEW k \in DOMAIN cache, cache[k] \in Runs
        PROVE  began'[cache[k]] # -1 /\ (found = -1 \/ began'[cache[k]] <= found)
    BY <1>2, <1>8, <2>1, Zenon DEF Covers, AsNew
  <2>2. ASSUME NEW d \in Containers, Resolved(d)' PROVE found = -1 \/ began'[RunOf[d]] <= found
    BY <1>4, <1>5, <1>8, <2>2, Zenon DEF Covers, AsNew
  <2> QED BY <1>6, <2>1, <2>2, Zenon DEF Covers, AsNew
<1>9. TimeInv'
  BY <1>1, <1>2, <1>4, <1>5, <1>8, Zenon DEF ReactorInv, TimeInv, AsNew
<1>10. RunInv'
  BY <1>1, <1>2, <1>4, <1>7, Zenon DEF ReactorInv, RunInv
<1> QED BY <1>3, <1>9, <1>10, Zenon DEF ReactorInv

\* A worker that moves on and changes no more than its handles.
LEMMA MovesOn ==
    ASSUME ReactorInv, NEW c \in Containers, NEW p \in Stages \ {"none", "looked_up"},
           pc[c] \notin {"none", "looked_up"}, Goto(c, p),
           UNCHANGED <<epoch, resolved, cache, lock, found, used, began>>,
           p \in {"resolved", "open", "opened", "routes"} => Resolved(c)
    PROVE  LockInv' /\ TimeInv' /\ RunInv' /\ pc' \in [Containers -> Stages]
<1>1. pc' = [pc EXCEPT ![c] = p] /\ pc' \in [Containers -> Stages]
  BY Zenon DEF Goto, ReactorInv, TypeInv
<1>2. LockInv'
  BY <1>1, Zenon DEF ReactorInv, TypeInv, LockInv
<1>3. \A d \in Containers : (Resolved(d)' => Resolved(d)) /\ (pc'[d] = "looked_up" => pc[d] = "looked_up")
  BY <1>1, Zenon DEF ReactorInv, TypeInv, Resolved
<1>4. (Covers(resolved) => Covers(resolved)') /\ (Covers(found) => Covers(found)')
  BY <1>3, Zenon DEF Covers, AsNew
<1>5. TimeInv'
  BY <1>3, <1>4, Zenon DEF ReactorInv, TimeInv, AsNew
<1>6. RunInv'
  BY <1>1, <1>4, Zenon DEF ReactorInv, TypeInv, RunInv
<1> QED BY <1>1, <1>2, <1>5, <1>6, Zenon

LEMMA HandlesMoveInv ==
    ASSUME ReactorInv, NEW c \in Containers,
           Inspect(c) \/ Prepare(c) \/ OpenNamespace(c) \/ OpenNetlink(c) \/ HandlerReturns(c)
    PROVE  ReactorInv'
<1> DEFINE handles(p) == /\ ns' = IF p \in {"opened", "routes"} THEN ns \union {c} ELSE ns \ {c}
                         /\ nl' = IF p \in {"routes", "handled"} THEN nl \union {c} ELSE nl \ {c}
<1>1. /\ UNCHANGED <<epoch, resolved, cache, lock, found, used, began>>
      /\ pc[c] \notin {"none", "looked_up"}
      /\ \E p \in Stages \ {"none", "looked_up"} :
           /\ Goto(c, p) /\ handles(p)
           /\ p \in {"resolved", "open", "opened", "routes"} => pc[c] \in {"resolved", "open", "opened"}
  <2>1. /\ c \in ns <=> pc[c] \in {"opened", "routes"}
        /\ c \in nl <=> pc[c] \in {"routes", "handled"}
        /\ ns = IF c \in ns THEN ns \union {c} ELSE ns \ {c}
        /\ nl = IF c \in nl THEN nl \union {c} ELSE nl \ {c}
    BY Zenon DEF ReactorInv, HandleInv
  <2>2. CASE Inspect(c)
    <3>1. PICK p \in {"ignored", "resolve", "failed"} : Goto(c, p)
      BY <2>2, Zenon DEF Inspect
    <3> QED BY <2>1, <2>2, <3>1, Zenon DEF Inspect, Stages
  <2>3. CASE Prepare(c)
    BY <2>1, <2>3, Zenon DEF Prepare, Stages
  <2>4. CASE OpenNamespace(c)
    BY <2>1, <2>4, Zenon DEF OpenNamespace, Stages
  <2>5. CASE OpenNetlink(c)
    BY <2>1, <2>5, Zenon DEF OpenNetlink, Stages
  <2>6. CASE HandlerReturns(c)
    <3>1. Goto(c, "gone") /\ handles("gone")
      BY <2>1, <2>6, Zenon DEF HandlerReturns
    <3> QED BY <2>6, <3>1, Zenon DEF HandlerReturns, Stages
  <2> QED BY <2>2, <2>3, <2>4, <2>5, <2>6, Zenon
<1>2. PICK p \in Stages \ {"none", "looked_up"} :
        /\ Goto(c, p) /\ handles(p)
        /\ p \in {"resolved", "open", "opened", "routes"} => pc[c] \in {"resolved", "open", "opened"}
  BY <1>1, Zenon
<1>3. LockInv' /\ TimeInv' /\ RunInv' /\ pc' \in [Containers -> Stages]
  BY <1>1, <1>2, MovesOn, Zenon DEF Resolved
<1>4. TypeInv'
  BY <1>1, <1>2, <1>3, Zenon DEF ReactorInv, TypeInv
<1>5. HandleInv'
  BY <1>2, Zenon DEF ReactorInv, TypeInv, HandleInv, Goto
<1> QED BY <1>3, <1>4, <1>5, Zenon DEF ReactorInv

LEMMA SetUpRoutesInv == ASSUME ReactorInv, NEW c \in Containers, SetUpRoutes(c) PROVE ReactorInv'
<1>1. /\ pc[c] = "routes" /\ UNCHANGED <<epoch, resolved, cache, lock, found, began>>
      /\ \/ /\ used' = [used EXCEPT ![c] = resolved] \/ used' = used
            /\ pc' = [pc EXCEPT ![c] = "handled"] /\ ns' = ns \ {c} /\ nl' = nl
         \/ /\ used' = used
            /\ pc' = [pc EXCEPT ![c] = "failed"] /\ ns' = ns \ {c} /\ nl' = nl \ {c}
  BY Zenon DEF SetUpRoutes, ControlRoutes, Failure, Goto
<1>2. TypeInv'
  <2>1. "handled" \in Stages /\ "failed" \in Stages
    BY Zenon DEF Stages
  <2>2. resolved \in Int /\ used \in [Containers -> Int] /\ pc \in [Containers -> Stages]
    BY Zenon DEF ReactorInv, TypeInv
  <2>3. pc' \in [Containers -> Stages] /\ used' \in [Containers -> Int]
    BY <1>1, <2>1, <2>2
  <2> QED BY <1>1, <2>3, Zenon DEF ReactorInv, TypeInv
<1>3. LockInv' /\ HandleInv'
  BY <1>1, Zenon DEF ReactorInv, TypeInv, LockInv, HandleInv
<1>4. \A d \in Containers : (Resolved(d)' => Resolved(d)) /\ (pc'[d] = "looked_up" => pc[d] = "looked_up")
  BY <1>1, Zenon DEF ReactorInv, TypeInv, Resolved
<1>5. (Covers(resolved) => Covers(resolved)') /\ (Covers(found) => Covers(found)')
  BY <1>1, <1>4, Zenon DEF Covers, AsNew
<1>6. TimeInv'
  BY <1>1, <1>4, <1>5, Zenon DEF ReactorInv, TimeInv, AsNew
<1>7. RunInv'
  <2>1. resolved = -1 \/ began[RunOf[c]] <= resolved
    BY <1>1, Zenon DEF ReactorInv, RunInv, Covers, Resolved, AsNew
  <2> QED BY <1>1, <1>5, <2>1, Zenon DEF ReactorInv, TypeInv, RunInv
<1> QED BY <1>2, <1>3, <1>6, <1>7, Zenon DEF ReactorInv

\* What is known of the services serves a run of the cache; what is looked up serves every
\* run that has begun.
LEMMA ResolveInv == ASSUME ReactorInv, NEW c \in Containers, ResolveServices(c), NamesApart PROVE ReactorInv'
<1>1. RunOf[c] \in Runs /\ pc[c] = "resolve" /\ lock = Nobody /\ Nobody \notin Containers
  BY RunOfContainer, Zenon DEF ResolveServices, NamesApart
<1>2. CASE Cached(RunOf[c])
  <2>1. /\ cache' = Touch(RunOf[c]) /\ pc' = [pc EXCEPT ![c] = "resolved"]
        /\ UNCHANGED <<epoch, resolved, lock, found, ns, nl, used, began>>
    BY <1>2, Zenon DEF ResolveServices, Goto
  <2>2. AsNew(resolved, RunOf[c]) /\ began[RunOf[c]] # -1
    BY <1>1, <1>2, Zenon DEF Cached, ReactorInv, RunInv, Covers
  <2>3. /\ cache' \in Seq(Runs \union {"constructor"})
        /\ \A k \in DOMAIN cache' : cache'[k] = RunOf[c] \/ \E j \in DOMAIN cache : cache[j] = cache'[k]
    BY <1>1, <2>1, TouchAdds DEF ReactorInv, TypeInv
  <2>4. TypeInv'
    BY <2>1, <2>3, Zenon DEF ReactorInv, TypeInv, Stages
  <2>5. LockInv' /\ HandleInv' /\ \A d \in Containers : pc'[d] # "looked_up"
    BY <1>1, <2>1, Zenon DEF ReactorInv, TypeInv, LockInv, HandleInv
  <2>6. TimeInv'
    BY <2>1, <2>5, Zenon DEF ReactorInv, TimeInv
  <2>7. \A d \in Containers : Resolved(d)' => d = c \/ Resolved(d)
    BY <2>1, Zenon DEF ReactorInv, TypeInv, Resolved
  <2>8. Covers(resolved)'
    <3>1. Covers(resolved)
      BY Zenon DEF ReactorInv, RunInv
    <3>2. ASSUME NEW k \in DOMAIN cache', cache'[k] \in Runs
          PROVE  began[cache'[k]] # -1 /\ AsNew(resolved, cache'[k])
      BY <2>2, <2>3, <3>1, <3>2, Zenon DEF Covers
    <3> QED BY <2>1, <2>2, <2>7, <3>1, <3>2, Zenon DEF Covers, AsNew
  <2>9. RunInv'
    BY <1>1, <2>1, <2>2, <2>8, Zenon DEF ReactorInv, TypeInv, RunInv
  <2> QED BY <2>4, <2>5, <2>6, <2>9, Zenon DEF ReactorInv
<1>3. CASE ~Cached(RunOf[c])
  <2>1. /\ lock' = c /\ found' \in {epoch, -1} /\ pc' = [pc EXCEPT ![c] = "looked_up"]
        /\ UNCHANGED <<epoch, resolved, cache, ns, nl, used, began>>
    BY <1>3, Zenon DEF ResolveServices, Goto, Lookup
  <2>2. TypeInv' /\ HandleInv'
    <3>1. found' \in Int
      BY <2>1 DEF ReactorInv, TypeInv
    <3> QED BY <1>1, <2>1, <3>1, Zenon DEF ReactorInv, TypeInv, HandleInv, Stages
  <2>3. LockInv'
    BY <1>1, <2>1, Zenon DEF ReactorInv, TypeInv, LockInv
  <2>4. \A r \in Runs : AsNew(found, r)'
    BY <2>1, Zenon DEF ReactorInv, TimeInv, AsNew
  <2>5. /\ \A d \in Containers : pc'[d] = "looked_up" => d = c
        /\ \A d \in Containers : Resolved(d)' => Resolved(d)
    BY <1>1, <2>1, Zenon DEF ReactorInv, TypeInv, LockInv, Resolved
  <2>6. Covers(resolved)' /\ Covers(found)'
    BY <2>1, <2>4, <2>5, RunOfContainer, Zenon DEF ReactorInv, RunInv, Covers, AsNew
  <2>7. TimeInv'
    BY <1>1, <2>1, <2>4, <2>5, <2>6, Zenon DEF ReactorInv, TimeInv
  <2>8. RunInv'
    BY <1>1, <2>1, <2>6, Zenon DEF ReactorInv, TypeInv, RunInv
  <2> QED BY <2>2, <2>3, <2>7, <2>8, Zenon DEF ReactorInv
<1> QED BY <1>2, <1>3, Zenon

\* What is stored serves the runs that what it replaces served.
LEMMA StoreInv == ASSUME ReactorInv, NEW c \in Containers, StoreServices(c), NamesApart PROVE ReactorInv'
<1>1. /\ RunOf[c] \in Runs /\ pc[c] = "looked_up" /\ lock = c /\ Nobody \notin Containers
      /\ cache' = Touch(RunOf[c]) /\ resolved' = found /\ lock' = Nobody
      /\ pc' = [pc EXCEPT ![c] = "resolved"]
      /\ UNCHANGED <<epoch, found, ns, nl, used, began>>
  BY RunOfContainer, Zenon DEF StoreServices, NamesApart, ReactorInv, LockInv, Goto
<1>2. Covers(found) /\ AsNew(found, RunOf[c]) /\ began[RunOf[c]] # -1
  BY <1>1, Zenon DEF ReactorInv, TimeInv, RunInv
<1>3. /\ cache' \in Seq(Runs \union {"constructor"})
      /\ \A k \in DOMAIN cache' : cache'[k] = RunOf[c] \/ \E j \in DOMAIN cache : cache[j] = cache'[k]
  <2>1. cache \in Seq(Runs \union {"constructor"}) /\ RunOf[c] \in Runs \union {"constructor"}
    BY <1>1, Zenon DEF ReactorInv, TypeInv
  <2> QED BY <1>1, <2>1, TouchAdds, Zenon
<1>4. TypeInv'
  BY <1>1, <1>3, Zenon DEF ReactorInv, TypeInv, Stages
<1>5. LockInv' /\ HandleInv' /\ \A d \in Containers : pc'[d] # "looked_up"
  BY <1>1, Zenon DEF ReactorInv, TypeInv, LockInv, HandleInv
<1>6. TimeInv'
  BY <1>1, <1>5, Zenon DEF ReactorInv, TimeInv
<1>7. Covers(resolved)'
  <2>1. \A d \in Containers : Resolved(d)' => d = c \/ Resolved(d)
    BY <1>1, Zenon DEF ReactorInv, TypeInv, Resolved
  <2>2. ASSUME NEW k \in DOMAIN cache', cache'[k] \in Runs
        PROVE  began[cache'[k]] # -1 /\ AsNew(found, cache'[k])
    BY <1>2, <1>3, <2>2, Zenon DEF Covers
  <2> QED BY <1>1, <1>2, <2>1, <2>2, Zenon DEF Covers, AsNew
<1>8. RunInv'
  BY <1>1, <1>2, <1>7, Zenon DEF ReactorInv, TypeInv, RunInv
<1> QED BY <1>4, <1>5, <1>6, <1>8, Zenon DEF ReactorInv

LEMMA NextInv == ASSUME ReactorInv, [Next]_vars, NamesApart PROVE ReactorInv'
<1>1. CASE UNCHANGED vars
  BY <1>1, Zenon
     DEF vars, ReactorInv, TypeInv, LockInv, HandleInv, TimeInv, RunInv, Covers, Resolved, AsNew
<1> QED BY <1>1, MoveInv, ArriveInv, HandlesMoveInv, SetUpRoutesInv, ResolveInv, StoreInv, Zenon
           DEF Next, WorkerStep
-----------------------------------------------------------------------------
\* ReactorInv holds in every state of the reactor.
THEOREM ReactorInvariant == ASSUME NamesApart PROVE Spec => []ReactorInv
<1>1. Init => ReactorInv
  BY InitInv, Zenon
<1>2. ReactorInv /\ [Next]_vars => ReactorInv'
  BY NextInv, Zenon
<1> QED BY <1>1, <1>2, PTL DEF Spec

\* A worker that is over holds no handle and not the lock (handleContainer,
\* manageContainer).
THEOREM NoHandleLeft == ASSUME NamesApart PROVE Spec => []HandlesReleased
<1>1. ReactorInv => HandlesReleased
  BY Zenon DEF ReactorInv, LockInv, HandleInv, HandlesReleased, Over
<1> QED BY <1>1, ReactorInvariant, PTL

\* The route of a container was resolved after the first container of its run came, also
\* when lookups fail before or after (ResolveServices, handleContainer).
THEOREM RoutesAreFresh == ASSUME NamesApart PROVE Spec => []RoutesFresh
<1>1. ReactorInv => RoutesFresh
  <2> SUFFICES ASSUME ReactorInv, NEW c \in Containers, used[c] # -1 PROVE used[c] >= began[RunOf[c]]
    BY Zenon DEF RoutesFresh
  <2>1. used[c] \in Int /\ began[RunOf[c]] \in Int /\ began[RunOf[c]] <= used[c]
    BY RunOfContainer, Zenon DEF ReactorInv, TypeInv, RunInv
  <2> QED BY <2>1, Zenon
<1> QED BY <1>1, ReactorInvariant, PTL
-----------------------------------------------------------------------------
(* The handler.                                                             *)

RoutesOf(b) == IF b THEN "present" ELSE "absent"
Wanted(i) == RoutesOf(Cfg(i).policy = "allow")
Held(i) == RoutesOf(enabled[i] /\ (kind = "docker" \/ link[i] # None))

\* The handler of a pod knows its link from the first connection on.
Tracked(i) ==
  /\ handler[i] # "closed"
  /\ kind = "k8s" /\ current[i] = 0 => handler[i] \notin {"start", "links", "connect"}

\* Where it does, it keeps the links and the flag as they are; a call to CNI goes on only
\* for a handler that gave up.
AgreeInv(i) ==
  /\ enabled[i] \in BOOLEAN
  /\ late[i] => handler[i] = "closed"
  /\ Tracked(i) => link[i] = real[i] /\ routes[i] = Held(i)
  /\ kind = "k8s" /\ handler[i] \in {"start", "links", "connect"} /\ current[i] = 0 => link[i] = None
  /\ handler[i] = "connect" => link[i] = None

\* The callbacks were signalled in their order, up to the configuration in hand.
OrderInv(i) ==
  /\ topic[i] \in Seq(Configs) /\ signalled[i] \in Seq(Nat)
  /\ current[i] \in 0 .. Len(topic[i])
  /\ handler[i] \in {"start", "barrier"} => current[i] = 0
  /\ handler[i] \in {"barrier", "loop"} \/ current[i] = 0 => Len(signalled[i]) = current[i]
  /\ handler[i] \in {"routing", "links", "connect", "shape", "signal"} /\ current[i] > 0
       => current[i] = Len(signalled[i]) + 1

Connects(i) == real[i] # None /\ (Cfg(i).ip # None => real[i] = Cfg(i).ip)

\* How far the configuration in hand is in force, for each place of ConfigureNetwork.
ForceInv(i) ==
  /\ handler[i] = "connect" => Cfg(i).enable
  /\ handler[i] = "shape" => Cfg(i).enable /\ Connects(i)
  /\ handler[i] = "routing" /\ kind = "k8s" => Cfg(i).enable /\ Connects(i) /\ shaped[i] = current[i]
  /\ handler[i] \in {"links", "connect", "shape"} /\ kind = "docker" => routes[i] = Wanted(i)
  /\ handler[i] = "signal" =>
       /\ Cfg(i).enable => Connects(i) /\ shaped[i] = current[i]
       /\ ~Cfg(i).enable => real[i] = None
       /\ kind = "docker" \/ Cfg(i).enable => routes[i] = Wanted(i)
       /\ kind = "k8s" /\ ~Cfg(i).enable => routes[i] = "absent"

HandlerPlaces == {"start", "routing", "links", "connect", "shape", "signal", "barrier", "loop", "closed"}

FrameInv ==
  /\ kind \in {"docker", "k8s"} /\ handler \in [Instances -> HandlerPlaces]
  /\ topic = [i \in Instances |-> topic[i]] /\ current = [i \in Instances |-> current[i]]
  /\ link = [i \in Instances |-> link[i]] /\ real = [i \in Instances |-> real[i]]
  /\ shaped = [i \in Instances |-> shaped[i]] /\ enabled = [i \in Instances |-> enabled[i]]
  /\ routes = [i \in Instances |-> routes[i]] /\ signalled = [i \in Instances |-> signalled[i]]
  /\ late = [i \in Instances |-> late[i]]

SidecarInv == FrameInv /\ \A i \in Instances : AgreeInv(i) /\ OrderInv(i) /\ ForceInv(i)
-----------------------------------------------------------------------------
LEMMA SidecarStarts == SidecarInit => SidecarInv
<1> SUFFICES ASSUME SidecarInit PROVE SidecarInv
  BY Zenon
<1>1. FrameInv
  BY Zenon DEF SidecarInit, FrameInv, HandlerPlaces
<1>2. ASSUME NEW i \in Instances PROVE AgreeInv(i) /\ OrderInv(i) /\ ForceInv(i)
  BY <1>2 DEF SidecarInit, AgreeInv, OrderInv, ForceInv, Tracked, Held, RoutesOf
<1> QED BY <1>1, <1>2, Zenon DEF SidecarInv

\* A step of the handler of one instance leaves the others alone.
SameAt(i) ==
  /\ UNCHANGED kind /\ handler'[i] = handler[i] /\ topic'[i] = topic[i] /\ current'[i] = current[i]
  /\ link'[i] = link[i] /\ real'[i] = real[i] /\ shaped'[i] = shaped[i] /\ enabled'[i] = enabled[i]
  /\ routes'[i] = routes[i] /\ signalled'[i] = signalled[i] /\ late'[i] = late[i]

LEMMA SameKept ==
  ASSUME SidecarInv, NEW j \in Instances, SameAt(j) PROVE AgreeInv(j)' /\ OrderInv(j)' /\ ForceInv(j)'
<1>1. AgreeInv(j) /\ OrderInv(j) /\ ForceInv(j)
  BY Zenon DEF SidecarInv
<1>2. Cfg(j)' = Cfg(j)
  BY Zenon DEF SameAt, Cfg
<1>3. AgreeInv(j)'
  BY <1>1, Zenon DEF SameAt, AgreeInv, Tracked, Held
<1>4. OrderInv(j)'
  BY <1>1, Zenon DEF SameAt, OrderInv
<1>5. Connects(j)' <=> Connects(j)
  BY <1>2, Zenon DEF SameAt, Connects
<1>6. Wanted(j)' = Wanted(j)
  BY <1>2, Zenon DEF Wanted
<1>7. ForceInv(j)'
  BY <1>1, <1>2, <1>5, <1>6, Zenon DEF SameAt, ForceInv
<1> QED BY <1>3, <1>4, <1>7, Zenon

LEMMA OthersKept ==
  ASSUME SidecarInv, NEW i \in Instances, FrameInv', AgreeInv(i)', OrderInv(i)', ForceInv(i)',
         \A j \in Instances \ {i} : SameAt(j)
  PROVE  SidecarInv'
BY SameKept, Zenon DEF SidecarInv

\* The configuration in hand connects the instance or does not.
LEMMA CfgEnable == ASSUME NEW i \in Instances, OrderInv(i) PROVE Cfg(i).enable \in BOOLEAN
<1>1. CASE current[i] = 0
  BY <1>1, Zenon DEF Cfg, Default
<1>2. CASE current[i] # 0
  <2>1. topic[i][current[i]] \in Configs
    BY <1>2 DEF OrderInv
  <2> QED BY <1>2, <2>1, ConfigsAssumption, Zenon DEF Cfg
<1> QED BY <1>1, <1>2, Zenon

\* The routes of the others stay when a link of one instance comes or goes.
LEMMA RoutesWithAt ==
  ASSUME FrameInv, NEW i \in Instances, NEW x
  PROVE  /\ RoutesWith(i, x) = [j \in Instances |-> RoutesWith(i, x)[j]]
         /\ kind = "k8s" => RoutesWith(i, x)[i] = x
         /\ kind = "docker" => RoutesWith(i, x) = routes
         /\ \A j \in Instances \ {i} : RoutesWith(i, x)[j] = routes[j]
BY Zenon DEF FrameInv, RoutesWith

LEMMA RoutesKept ==
  ASSUME FrameInv, NEW i \in Instances, NEW x, routes' = RoutesWith(i, x)
  PROVE  routes' = [j \in Instances |-> routes'[j]] /\ \A j \in Instances \ {i} : routes'[j] = routes[j]
<1>1. CASE kind = "k8s"
  <2>1. routes' = [routes EXCEPT ![i] = x] /\ routes = [j \in Instances |-> routes[j]]
    BY <1>1, Zenon DEF RoutesWith, FrameInv
  <2> QED BY <2>1, Zenon
<1>2. CASE kind # "k8s"
  <2>1. routes' = routes /\ routes = [j \in Instances |-> routes[j]]
    BY <1>2, Zenon DEF RoutesWith, FrameInv
  <2> QED BY <2>1, Zenon
<1> QED BY <1>1, <1>2

LEMMA InitializeStep ==
  ASSUME SidecarInv, UNCHANGED kind, NEW i \in Instances, Initialize(i) PROVE SidecarInv'
<1>1. AgreeInv(i) /\ OrderInv(i) /\ ForceInv(i) /\ FrameInv
  BY Zenon DEF SidecarInv
<1>2. FrameInv' /\ \A j \in Instances \ {i} : SameAt(j)
  <2>1. routes' = routes \/ routes' = RoutesWith(i, "absent")
    BY Zenon DEF Initialize
  <2>2. routes' = [j \in Instances |-> routes'[j]] /\ \A j \in Instances \ {i} : routes'[j] = routes[j]
    <3>1. CASE routes' = routes
      BY <1>1, <3>1, Zenon DEF FrameInv
    <3>2. CASE routes' = RoutesWith(i, "absent")
      BY <1>1, <3>2, RoutesKept, Zenon
    <3> QED BY <2>1, <3>1, <3>2
  <2> QED BY <1>1, <2>2, Zenon DEF Initialize, Fail, Proceed, FrameInv, HandlerPlaces, SameAt
<1>3. Cfg(i)' = Cfg(i) /\ Wanted(i)' = Wanted(i) /\ current[i] = 0
  BY <1>1, Zenon DEF Initialize, Cfg, Wanted, OrderInv
<1>4. AgreeInv(i)'
  <2>1. CASE kind = "docker" /\ UNCHANGED <<real, routes, link, enabled, current, late>> /\ handler'[i] = "routing"
    BY <1>1, <2>1, Zenon DEF Initialize, AgreeInv, Tracked, Held
  <2>2. CASE kind = "k8s" /\ UNCHANGED <<link, enabled, current, late>> /\ handler'[i] = "links"
    BY <1>1, <1>3, <2>2, Zenon DEF Initialize, AgreeInv, Tracked
  <2>3. CASE UNCHANGED <<link, enabled, current, late>> /\ handler'[i] = "closed"
    BY <1>1, <2>3, Zenon DEF Initialize, AgreeInv, Tracked
  <2> QED BY <1>1, <2>1, <2>2, <2>3, Zenon DEF Initialize, Fail, Proceed, FrameInv
<1>5. OrderInv(i)'
  BY <1>1 DEF Initialize, Fail, Proceed, OrderInv, FrameInv
<1>6. ForceInv(i)'
  <2>1. \/ handler'[i] = "closed"
        \/ handler'[i] = "links" /\ kind = "k8s"
        \/ handler'[i] = "routing" /\ kind = "docker"
    <3>1. \A v \in HandlerPlaces : Proceed(i, v) => handler'[i] = v
      BY <1>1, Zenon DEF Proceed, FrameInv
    <3> QED BY <3>1, Zenon DEF Initialize, Fail, HandlerPlaces
  <2> QED BY <2>1, Zenon DEF ForceInv
<1> QED BY <1>1, <1>2, <1>4, <1>5, <1>6, OthersKept, Zenon

LEMMA RoutingStep ==
  ASSUME SidecarInv, UNCHANGED kind, NEW i \in Instances, Routing(i) PROVE SidecarInv'
<1>1. AgreeInv(i) /\ OrderInv(i) /\ ForceInv(i) /\ FrameInv
  BY Zenon DEF SidecarInv
<1>2. FrameInv' /\ \A j \in Instances \ {i} : SameAt(j)
  BY <1>1 DEF Routing, Fail, Proceed, FrameInv, HandlerPlaces, SameAt
<1>3. Cfg(i)' = Cfg(i) /\ Wanted(i)' = Wanted(i)
  BY Zenon DEF Routing, Cfg, Wanted
<1>4. /\ kind = "docker" \/ link[i] # None
      /\ link[i] = real[i] /\ routes[i] = RoutesOf(enabled[i]) /\ enabled[i] \in BOOLEAN
  BY <1>1, Zenon DEF Routing, AgreeInv, ForceInv, Connects, Tracked, Held, FrameInv, RoutesOf
<1>5. \/ /\ enabled'[i] = (Cfg(i).policy = "allow") /\ routes'[i] = Wanted(i)
         /\ handler'[i] = IF kind = "docker" THEN "links" ELSE "signal"
      \/ handler'[i] = "closed" /\ UNCHANGED enabled
  BY <1>1, <1>4 DEF Routing, Fail, Proceed, FrameInv, Wanted, RoutesOf
<1>6. AgreeInv(i)'
  <2>1. CASE handler'[i] = "closed"
    BY <1>1, <1>4, <1>5, <2>1, Zenon DEF AgreeInv, Tracked
  <2>2. CASE handler'[i] # "closed"
    <3>1. enabled'[i] \in BOOLEAN /\ routes'[i] = Held(i)'
      BY <1>4, <1>5, <2>2, Zenon DEF Routing, Held, Wanted, RoutesOf
    <3>2. ~late[i] /\ handler[i] = "routing"
      BY <1>1, Zenon DEF Routing, AgreeInv
    <3> QED BY <1>1, <1>4, <1>5, <2>2, <3>1, <3>2, Zenon DEF Routing, AgreeInv, FrameInv
  <2> QED BY <2>1, <2>2
<1>7. OrderInv(i)'
  BY <1>1, Zenon DEF Routing, Fail, Proceed, OrderInv, FrameInv
<1>8. ForceInv(i)'
  <2>1. CASE handler'[i] = "closed"
    BY <2>1, Zenon DEF ForceInv
  <2>2. CASE handler'[i] = "links" /\ kind = "docker" /\ routes'[i] = Wanted(i)
    BY <1>3, <2>2, Zenon DEF ForceInv
  <2>3. CASE handler'[i] = "signal" /\ kind = "k8s" /\ routes'[i] = Wanted(i)
    BY <1>1, <1>3, <2>3, Zenon DEF Routing, ForceInv, Connects
  <2> QED BY <1>1, <1>5, <2>1, <2>2, <2>3, Zenon DEF FrameInv
<1> QED BY <1>1, <1>2, <1>6, <1>7, <1>8, OthersKept, Zenon

LEMMA LinksStep ==
  ASSUME SidecarInv, UNCHANGED kind, NEW i \in Instances, Links(i) PROVE SidecarInv'
<1>1. AgreeInv(i) /\ OrderInv(i) /\ ForceInv(i) /\ FrameInv
  BY Zenon DEF SidecarInv
<1>2. FrameInv' /\ \A j \in Instances \ {i} : SameAt(j)
  <2>1. routes' = routes \/ routes' = RoutesWith(i, "absent")
    BY Zenon DEF Links
  <2>2. routes' = [j \in Instances |-> routes'[j]] /\ \A j \in Instances \ {i} : routes'[j] = routes[j]
    <3>1. CASE routes' = routes
      BY <1>1, <3>1, Zenon DEF FrameInv
    <3>2. CASE routes' = RoutesWith(i, "absent")
      BY <1>1, <3>2, RoutesKept, Zenon
    <3> QED BY <2>1, <3>1, <3>2
  <2> QED BY <1>1, <2>2, Zenon DEF Links, Fail, Proceed, FrameInv, HandlerPlaces, SameAt
<1>3. Cfg(i)' = Cfg(i) /\ Wanted(i)' = Wanted(i) /\ Cfg(i).enable \in BOOLEAN
  BY <1>1, CfgEnable, Zenon DEF Links, Cfg, Wanted
<1>4. current[i] = 0 => Cfg(i).enable /\ Cfg(i).ip = None
  BY Zenon DEF Cfg, Default
<1>5. handler[i] = "links" /\ ~late[i] /\ UNCHANGED <<enabled, late, current>>
  BY <1>1, Zenon DEF Links, AgreeInv
<1>6. OrderInv(i)'
  BY <1>1, Zenon DEF Links, Fail, Proceed, OrderInv, FrameInv
<1>7. CASE handler'[i] = "closed"
  BY <1>1, <1>2, <1>5, <1>6, <1>7, OthersKept, Zenon DEF AgreeInv, ForceInv, Tracked
\* The link is disconnected.
<1>8. CASE /\ link[i] # None /\ link'[i] = None /\ real'[i] = None /\ routes' = RoutesWith(i, "absent")
           /\ handler'[i] = IF Cfg(i).enable THEN "connect" ELSE "signal"
  <2>1. Tracked(i) /\ link[i] = real[i] /\ routes[i] = Held(i) /\ (kind = "k8s" => current[i] # 0)
    BY <1>1, <1>5, <1>8, Zenon DEF AgreeInv, Tracked
  <2>2. /\ kind = "k8s" => routes'[i] = "absent"
        /\ kind = "docker" => routes'[i] = routes[i]
    BY <1>1, <1>8, RoutesWithAt, Zenon
  <2>3. routes'[i] = Held(i)'
    BY <1>1, <1>5, <1>8, <2>1, <2>2, Zenon DEF Held, RoutesOf, FrameInv
  <2>4. AgreeInv(i)'
    BY <1>1, <1>3, <1>5, <1>8, <2>1, <2>3, Zenon DEF AgreeInv
  <2>5. ForceInv(i)'
    BY <1>1, <1>3, <1>5, <1>8, <2>2, Zenon DEF ForceInv, FrameInv
  <2> QED BY <1>1, <1>2, <1>6, <2>4, <2>5, OthersKept, Zenon
\* There is none, or it is kept.
<1>9. CASE /\ UNCHANGED <<link, real, routes>>
           /\ link[i] # None => Cfg(i).enable /\ ~(Cfg(i).ip # None /\ Cfg(i).ip # link[i])
           /\ handler'[i] = IF ~Cfg(i).enable THEN "signal" ELSE IF link[i] # None THEN "shape" ELSE "connect"
  <2>1. CASE Tracked(i)
    <3>1. link[i] = real[i] /\ routes[i] = Held(i) /\ routes'[i] = Held(i)'
      BY <1>1, <1>5, <1>9, <2>1, Zenon DEF AgreeInv, Held
    <3>2. AgreeInv(i)'
      BY <1>1, <1>3, <1>5, <1>9, <3>1, Zenon DEF AgreeInv
    <3>3. ~Cfg(i).enable => link[i] = None
      BY <1>9, Zenon
    <3>4. kind = "k8s" /\ link[i] = None => routes[i] = "absent"
      BY <3>1, Zenon DEF Held, RoutesOf
    <3>5. ForceInv(i)'
      BY <1>1, <1>3, <1>5, <1>9, <3>1, <3>3, <3>4, Zenon DEF ForceInv, Connects, FrameInv
    <3> QED BY <1>1, <1>2, <1>6, <3>2, <3>5, OthersKept, Zenon
  <2>2. CASE ~Tracked(i)
    <3>1. kind = "k8s" /\ current[i] = 0 /\ link[i] = None /\ handler'[i] = "connect"
      BY <1>1, <1>4, <1>5, <1>9, <2>2, Zenon DEF Tracked, AgreeInv
    <3>2. AgreeInv(i)'
      BY <1>1, <1>5, <1>9, <3>1, Zenon DEF AgreeInv, Tracked
    <3>3. ForceInv(i)'
      BY <1>3, <1>4, <3>1, Zenon DEF ForceInv
    <3> QED BY <1>1, <1>2, <1>6, <3>2, <3>3, OthersKept, Zenon
  <2> QED BY <2>1, <2>2
<1> QED BY <1>1, <1>3, <1>7, <1>8, <1>9, Zenon DEF Links, Fail, Proceed, FrameInv

\* A call that may have connected the instance changes no other one.
LEMMA MaybeConnectedAt ==
  ASSUME FrameInv, NEW i \in Instances, MaybeConnected(i)
  PROVE  /\ routes' = [j \in Instances |-> routes'[j]] /\ real' = [j \in Instances |-> real'[j]]
         /\ \A j \in Instances \ {i} : routes'[j] = routes[j] /\ real'[j] = real[j]
<1>1. CASE UNCHANGED <<real, routes>>
  BY <1>1, Zenon DEF FrameInv
<1>2. CASE real' = [real EXCEPT ![i] = Address(i)] /\ routes' = RoutesWith(i, "present")
  <2>1. real' = [j \in Instances |-> real'[j]] /\ \A j \in Instances \ {i} : real'[j] = real[j]
    BY <1>2, Zenon DEF FrameInv
  <2> QED BY <1>2, <2>1, RoutesKept, Zenon
<1> QED BY <1>1, <1>2, Zenon DEF MaybeConnected

LEMMA ConnectStep ==
  ASSUME SidecarInv, UNCHANGED kind, NEW i \in Instances, Connect(i) PROVE SidecarInv'
<1>1. AgreeInv(i) /\ OrderInv(i) /\ ForceInv(i) /\ FrameInv
  BY Zenon DEF SidecarInv
<1>2. /\ handler[i] = "connect" /\ ~late[i] /\ enabled[i] \in BOOLEAN /\ link[i] = None
      /\ UNCHANGED <<late, current, shaped>>
  BY <1>1, Zenon DEF Connect, AgreeInv
<1>3. Cfg(i)' = Cfg(i) /\ Wanted(i)' = Wanted(i)
  BY Zenon DEF Connect, Cfg, Wanted
<1>4. OrderInv(i)'
  BY <1>1, Zenon DEF Connect, Fail, Proceed, OrderInv, FrameInv
<1>5. CASE Fail(i) /\ MaybeConnected(i) /\ UNCHANGED <<link, enabled>>
  <2>1. FrameInv' /\ \A j \in Instances \ {i} : SameAt(j)
    BY <1>1, <1>5, MaybeConnectedAt, Zenon DEF Connect, Fail, Proceed, FrameInv, HandlerPlaces, SameAt
  <2>2. handler'[i] = "closed"
    BY <1>1, <1>5, Zenon DEF Fail, Proceed, FrameInv
  <2>3. AgreeInv(i)' /\ ForceInv(i)'
    BY <1>2, <1>5, <2>2, Zenon DEF AgreeInv, ForceInv, Tracked
  <2> QED BY <1>1, <1>4, <2>1, <2>3, OthersKept, Zenon
<1>6. CASE /\ real' = [real EXCEPT ![i] = Address(i)] /\ link' = [link EXCEPT ![i] = Address(i)]
           /\ enabled' = [enabled EXCEPT ![i] = @ \/ kind = "k8s"]
           /\ routes' = RoutesWith(i, "present") /\ Proceed(i, "shape")
  <2>1. FrameInv' /\ \A j \in Instances \ {i} : SameAt(j)
    <3>1. routes' = [j \in Instances |-> routes'[j]] /\ \A j \in Instances \ {i} : routes'[j] = routes[j]
      BY <1>1, <1>6, RoutesKept, Zenon
    <3> QED BY <1>1, <1>6, <3>1, Zenon DEF Connect, Proceed, FrameInv, HandlerPlaces, SameAt
  <2>2. handler'[i] = "shape" /\ real'[i] = Address(i) /\ link'[i] = Address(i)
    BY <1>1, <1>6, Zenon DEF Proceed, FrameInv
  <2>3. Address(i) # None /\ (Cfg(i).ip # None => Address(i) = Cfg(i).ip)
    BY Zenon DEF Address, None, Automatic
  <2>4. enabled'[i] \in BOOLEAN /\ routes'[i] = Held(i)'
    <3>1. CASE kind = "k8s"
      BY <1>1, <1>6, <2>2, <2>3, <3>1, RoutesWithAt, Zenon DEF FrameInv, Held, RoutesOf
    <3>2. CASE kind = "docker"
      <4>1. routes[i] = RoutesOf(enabled[i])
        BY <1>1, <1>2, <3>2, Zenon DEF AgreeInv, Tracked, Held, RoutesOf
      <4>2. enabled'[i] = enabled[i] /\ routes'[i] = routes[i]
        BY <1>1, <1>2, <1>6, <3>2, RoutesWithAt, Zenon DEF FrameInv
      <4> QED BY <1>2, <3>2, <4>1, <4>2, Zenon DEF Held, RoutesOf
    <3> QED BY <1>1, <3>1, <3>2, Zenon DEF FrameInv
  <2>5. AgreeInv(i)'
    BY <1>2, <2>2, <2>4, Zenon DEF AgreeInv
  <2>6. kind = "docker" => routes'[i] = routes[i]
    BY <1>1, <1>6, RoutesWithAt, Zenon
  <2>7. ForceInv(i)'
    BY <1>1, <1>2, <1>3, <2>2, <2>3, <2>6, Zenon DEF ForceInv, Connects
  <2> QED BY <1>1, <1>4, <2>1, <2>5, <2>7, OthersKept, Zenon
<1> QED BY <1>5, <1>6, Zenon DEF Connect

LEMMA ShapeStep ==
  ASSUME SidecarInv, UNCHANGED kind, NEW i \in Instances, Shape(i) PROVE SidecarInv'
<1>1. AgreeInv(i) /\ OrderInv(i) /\ ForceInv(i) /\ FrameInv
  BY Zenon DEF SidecarInv
<1>2. FrameInv' /\ \A j \in Instances \ {i} : SameAt(j)
  BY <1>1, Zenon DEF Shape, Fail, Proceed, FrameInv, HandlerPlaces, SameAt
<1>3. Cfg(i)' = Cfg(i) /\ Wanted(i)' = Wanted(i)
  BY Zenon DEF Shape, Cfg, Wanted
<1>4. AgreeInv(i)'
  BY <1>1, Zenon DEF Shape, Fail, Proceed, AgreeInv, FrameInv, Tracked, Held, RoutesOf
<1>5. OrderInv(i)'
  BY <1>1, Zenon DEF Shape, Fail, Proceed, OrderInv, FrameInv
<1>6. ForceInv(i)'
  BY <1>1, <1>3, CfgEnable, Zenon DEF Shape, Fail, Proceed, ForceInv, AgreeInv, FrameInv, Connects
<1> QED BY <1>1, <1>2, <1>4, <1>5, <1>6, OthersKept, Zenon

LEMMA HandlerBarrier ==
  ASSUME SidecarInv, UNCHANGED kind, NEW i \in Instances, CountReady(i) \/ AllReady(i) \/ Leave(i) PROVE SidecarInv'
<1>1. AgreeInv(i) /\ OrderInv(i) /\ ForceInv(i) /\ FrameInv
  BY Zenon DEF SidecarInv
<1>2. FrameInv' /\ \A j \in Instances \ {i} : SameAt(j)
  BY <1>1, Zenon
     DEF CountReady, AllReady, Leave, Fail, Proceed, netVars, FrameInv, HandlerPlaces, SameAt
<1>3. Cfg(i)' = Cfg(i) /\ Wanted(i)' = Wanted(i)
  BY Zenon DEF CountReady, AllReady, Leave, Cfg, Wanted
<1>4. AgreeInv(i)'
  BY <1>1, Zenon
     DEF CountReady, AllReady, Leave, Fail, Proceed, netVars, AgreeInv, FrameInv, Tracked, Held, RoutesOf
<1>5. OrderInv(i)'
  BY <1>1, Zenon DEF CountReady, AllReady, Leave, Fail, Proceed, netVars, OrderInv, FrameInv
<1>6. ForceInv(i)'
  BY <1>1, <1>3, CfgEnable, Zenon
     DEF CountReady, AllReady, Leave, Fail, Proceed, netVars, ForceInv, AgreeInv, FrameInv,
         Connects
<1> QED BY <1>1, <1>2, <1>4, <1>5, <1>6, OthersKept, Zenon

LEMMA CallStep ==
  ASSUME SidecarInv, UNCHANGED kind, NEW i \in Instances, ConnectTimesOut(i) \/ LateConnect(i) PROVE SidecarInv'
<1>1. AgreeInv(i) /\ OrderInv(i) /\ ForceInv(i) /\ FrameInv
  BY Zenon DEF SidecarInv
<1>2. FrameInv' /\ \A j \in Instances \ {i} : SameAt(j)
  BY <1>1, MaybeConnectedAt, Zenon
     DEF ConnectTimesOut, LateConnect, Proceed, netVars, FrameInv, HandlerPlaces, SameAt
<1>3. Cfg(i)' = Cfg(i) /\ Wanted(i)' = Wanted(i)
  BY Zenon DEF ConnectTimesOut, LateConnect, Cfg, Wanted
<1>4. AgreeInv(i)'
  BY <1>1, Zenon DEF ConnectTimesOut, LateConnect, Proceed, netVars, AgreeInv, FrameInv, Tracked, Held, RoutesOf
<1>5. OrderInv(i)'
  BY <1>1, Zenon DEF ConnectTimesOut, LateConnect, Proceed, netVars, OrderInv, FrameInv
<1>6. ForceInv(i)'
  BY <1>1, <1>3, CfgEnable, Zenon
     DEF ConnectTimesOut, LateConnect, Proceed, netVars, ForceInv, AgreeInv, FrameInv, Connects
<1> QED BY <1>1, <1>2, <1>4, <1>5, <1>6, OthersKept, Zenon

LEMMA TakeStep ==
  ASSUME SidecarInv, UNCHANGED kind, NEW i \in Instances, Take(i) PROVE SidecarInv'
<1>1. AgreeInv(i) /\ OrderInv(i) /\ ForceInv(i) /\ FrameInv
  BY Zenon DEF SidecarInv
<1>2. FrameInv' /\ \A j \in Instances \ {i} : SameAt(j)
  BY <1>1, Zenon DEF Take, Proceed, netVars, FrameInv, HandlerPlaces, SameAt
<1>3. AgreeInv(i)'
  <2>1. Tracked(i) /\ link[i] = real[i] /\ routes[i] = Held(i)
    BY <1>1, Zenon DEF Take, AgreeInv, Tracked
  <2>2. current'[i] # 0 /\ handler'[i] \in {"routing", "links"}
    BY <1>1 DEF Take, Proceed, OrderInv, FrameInv
  <2>3. Held(i)' = Held(i)
    BY Zenon DEF Take, netVars, Held
  <2> QED BY <1>1, <2>1, <2>2, <2>3, Zenon DEF Take, netVars, AgreeInv
<1>4. OrderInv(i)'
  BY <1>1 DEF Take, Proceed, OrderInv, FrameInv
<1>5. ForceInv(i)'
  BY <1>1, Zenon DEF Take, Proceed, ForceInv, FrameInv
<1> QED BY <1>1, <1>2, <1>3, <1>4, <1>5, OthersKept, Zenon

LEMMA SignalStep ==
  ASSUME SidecarInv, UNCHANGED kind, NEW i \in Instances, Signal(i) PROVE SidecarInv'
<1>1. AgreeInv(i) /\ OrderInv(i) /\ ForceInv(i) /\ FrameInv
  BY Zenon DEF SidecarInv
<1>2. FrameInv' /\ \A j \in Instances \ {i} : SameAt(j)
  BY <1>1, Zenon DEF Signal, Fail, Proceed, netVars, FrameInv, HandlerPlaces, SameAt
<1>3. AgreeInv(i)'
  BY <1>1, Zenon DEF Signal, Fail, Proceed, netVars, AgreeInv, FrameInv, Tracked, Held
<1>4. OrderInv(i)'
  <2>1. UNCHANGED <<topic, current>> /\ current[i] \in Nat /\ current[i] = Len(signalled[i]) + 1
    BY <1>1 DEF Signal, OrderInv
  <2>2. CASE UNCHANGED signalled /\ handler'[i] = "closed"
    BY <1>1, <2>1, <2>2, Zenon DEF OrderInv
  <2>3. CASE signalled'[i] = Append(signalled[i], current[i]) /\ handler'[i] = "loop"
    BY <1>1, <2>1, <2>3 DEF OrderInv
  <2> QED BY <1>1, <2>2, <2>3, Zenon DEF Signal, Fail, Proceed, FrameInv
<1>5. ForceInv(i)'
  BY <1>1, Zenon DEF Signal, Fail, Proceed, ForceInv, FrameInv
<1> QED BY <1>1, <1>2, <1>3, <1>4, <1>5, OthersKept, Zenon

\* A configuration that is published does not change the one in hand.
LEMMA PublishStep ==
  ASSUME SidecarInv, UNCHANGED kind, NEW i \in Instances, Publish(i) PROVE SidecarInv'
<1>1. AgreeInv(i) /\ OrderInv(i) /\ ForceInv(i) /\ FrameInv
  BY Zenon DEF SidecarInv
<1>2. FrameInv' /\ \A j \in Instances \ {i} : SameAt(j)
  BY <1>1, Zenon DEF Publish, netVars, FrameInv, SameAt
<1>3. PICK c \in Configs : topic'[i] = Append(topic[i], c)
  BY <1>1, Zenon DEF Publish, FrameInv
<1>4. OrderInv(i)'
  BY <1>1, <1>3 DEF Publish, OrderInv
<1>5. Cfg(i)' = Cfg(i)
  BY <1>1, <1>3 DEF Publish, Cfg, OrderInv
<1>6. Wanted(i)' = Wanted(i)
  BY <1>5, Zenon DEF Wanted
<1>7. AgreeInv(i)' /\ ForceInv(i)'
  BY <1>1, <1>5, <1>6, Zenon DEF Publish, netVars, AgreeInv, ForceInv, Connects, Tracked, Held
<1> QED BY <1>1, <1>2, <1>4, <1>7, OthersKept, Zenon

LEMMA SidecarStep == SidecarInv /\ [SidecarNext]_sidecarVars => SidecarInv'
<1> SUFFICES ASSUME SidecarInv, [SidecarNext]_sidecarVars PROVE SidecarInv'
  BY Zenon
<1>1. CASE UNCHANGED sidecarVars \/ (UNCHANGED kind /\ \E i \in Instances : Stop(i))
  <2>1. UNCHANGED <<kind, handler, topic, current, netVars, signalled, late>>
    BY <1>1, Zenon DEF sidecarVars, Stop
  <2>2. \A i \in Instances : SameAt(i)
    BY <2>1, Zenon DEF SameAt, netVars
  <2>3. FrameInv'
    BY <2>1, Zenon DEF SidecarInv, FrameInv, netVars
  <2> QED BY <2>2, <2>3, SameKept, Zenon DEF SidecarInv
<1> QED BY <1>1, InitializeStep, RoutingStep, LinksStep, ConnectStep, ShapeStep, HandlerBarrier,
           CallStep,
           TakeStep, SignalStep, PublishStep, Zenon DEF SidecarNext, Handle

\* While a handler waits for the next configuration, the links and the flag it keeps agree
\* with the network and the routes of its instance, whichever calls failed before and
\* whatever a late call to CNI does (docker_network.go, k8s_network.go).
THEOREM LinksAlwaysAgree == SidecarSpec => []LinksAgree
<1>1. SidecarInv => LinksAgree
  BY Zenon DEF SidecarInv, AgreeInv, LinksAgree, Tracked, Held, RoutesOf
<1> QED BY <1>1, SidecarStarts, SidecarStep, PTL DEF SidecarSpec

\* A callback state is signalled in the order of the configurations, each when its own is
\* in force and none after it (handler, ConfigureNetwork).
THEOREM CallbacksInForce == SidecarSpec => CallbackInForce
<1>1. SidecarInv /\ [SidecarNext]_sidecarVars => [CallbackStep]_sidecarVars
  <2> SUFFICES ASSUME SidecarInv, SidecarNext, NEW i \in Instances, signalled'[i] # signalled[i]
               PROVE  /\ signalled'[i] = Append(signalled[i], Len(signalled[i]) + 1)
                      /\ current[i] = Len(signalled'[i]) /\ InForce(i)
    BY Zenon DEF CallbackStep
  <2>1. Signal(i) /\ signalled'[i] = Append(signalled[i], current[i])
    <3>1. PICK j \in Instances : Handle(j) \/ Publish(j) \/ Stop(j) \/ ConnectTimesOut(j) \/ LateConnect(j)
      BY Zenon DEF SidecarNext
    <3>2. CASE Signal(j)
      BY <3>2, Zenon DEF Signal, SidecarInv, FrameInv
    <3>3. CASE ~Signal(j)
      BY <3>1, <3>3, Zenon
         DEF Handle, Publish, Stop, ConnectTimesOut, LateConnect, Initialize, Routing, Links,
             Connect, Shape,
                        CountReady, AllReady, Take, Leave
    <3> QED BY <3>2, <3>3, Zenon
  <2>2. handler[i] = "signal" /\ current[i] > 0 /\ OrderInv(i) /\ ForceInv(i)
    BY <2>1, Zenon DEF Signal, SidecarInv
  <2>3. current[i] = Len(signalled[i]) + 1 /\ Len(signalled'[i]) = Len(signalled[i]) + 1
    <3>1. signalled[i] \in Seq(Nat) /\ current[i] \in Nat /\ current[i] = Len(signalled[i]) + 1
      BY <2>2 DEF OrderInv
    <3>2. Len(Append(signalled[i], current[i])) = Len(signalled[i]) + 1
      BY <3>1
    <3> QED BY <2>1, <3>1, <3>2, Zenon
  <2>4. InForce(i)
    BY <2>2, CfgEnable, Zenon DEF InForce, ForceInv, Connects, Wanted, RoutesOf, SidecarInv, FrameInv
  <2> QED BY <2>1, <2>3, <2>4, Zenon
<1> QED BY <1>1, SidecarStarts, SidecarStep, PTL DEF SidecarSpec, CallbackInForce
-----------------------------------------------------------------------------
\* A number of signals is at most the size of the set of those that have signalled.
Counts(n, S) == IsFiniteSet(S) /\ n \in Nat /\ n <= Cardinality(S)

\* A count goes up with the set it counts.
LEMMA CountKept ==
  ASSUME NEW n, NEW A, NEW B, IsFiniteSet(B), A \subseteq B, Counts(n, A) PROVE Counts(n, B)
<1>1. Cardinality(A) <= Cardinality(B) /\ Cardinality(A) \in Nat /\ Cardinality(B) \in Nat
  BY FS_Subset, FS_CardinalityType
<1> QED BY <1>1 DEF Counts

\* A count that goes up by one, for a member that was not counted, stays within the set.
LEMMA CountUp ==
  ASSUME NEW n, NEW A, NEW B, IsFiniteSet(B), A \subseteq B, Counts(n, A), NEW x \in B, x \notin A
  PROVE  Counts(n + 1, B)
<1>1. IsFiniteSet(A) /\ Cardinality(A) \in Nat /\ Cardinality(B) \in Nat
  BY FS_Subset, FS_CardinalityType
<1>2. Cardinality(A \union {x}) = Cardinality(A) + 1
  BY <1>1, FS_AddElement
<1>3. Cardinality(A \union {x}) <= Cardinality(B)
  BY FS_Subset
<1> QED BY <1>1, <1>2, <1>3 DEF Counts

\* A count that reaches the size of the whole has counted all.
LEMMA CountAll ==
  ASSUME NEW n, NEW A, NEW T, IsFiniteSet(T), A \subseteq T, Counts(n, A), n >= Cardinality(T)
  PROVE  A = T
<1>1. /\ Cardinality(A) <= Cardinality(T) /\ (Cardinality(T) = Cardinality(A) => T = A)
      /\ Cardinality(A) \in Nat /\ Cardinality(T) \in Nat
  BY FS_Subset, FS_CardinalityType
<1> QED BY <1>1 DEF Counts

-----------------------------------------------------------------------------
(* Storm.  Dials are the connections whose dial succeeded, and Written the  *)
(* instances that have signalled the end of their writes.                   *)

\* A connection whose dial succeeded.
Made(c) ==
  /\ conn[c] \notin {"none", "delayed", "dialing", "gone"}
  /\ ~(conn[c] = "done" /\ left[c] = Chunks)
Dials == {c \in Conns : Made(c)}
Written ==
  {i \in StormInstances :
     \/ stormPc[i] \in {"written", "returned"}
     \/ stormPc[i] = "failed" /\ \A c \in Conns : c[1] = i => conn[c] = "done"}
\* A connection that writes, or has written.
Writes(c) == conn[c] \in {"writing", "between"} \/ left[c] < Chunks
\* The places of the main goroutine and of a connection.
MainPlaces == {"listen", "listening", "sharing", "shared", "dialing", "written", "returned", "failed"}
ConnPlaces ==
  {"none", "delayed", "dialing", "dialed", "writing", "between", "done", "cut", "gone"}

StormTypes ==
  /\ stormPc \in [StormInstances -> MainPlaces] /\ stormCounts \in [Barriers -> Nat]
  /\ conn \in [Conns -> ConnPlaces] /\ left \in [Conns -> 0 .. Chunks]

\* How far a connection is, by the place of its instance.
ConnInv(c) ==
  /\ conn[c] = "writing" => left[c] > 0
  /\ stormPc[c[1]] \in {"listen", "listening", "sharing", "shared"} => conn[c] = "none"
  /\ stormPc[c[1]] \in {"written", "returned"} => conn[c] = "done"
  /\ conn[c] \in {"cut", "gone"} => stormPc[c[1]] = "failed"

\* Who writes has found the barrier of the dials open, and who returns that of the writes.
StormInv ==
  /\ StormTypes
  /\ \A c \in Conns : ConnInv(c)
  /\ Counts(stormCounts["outgoing_dials_done"], Dials)
  /\ Counts(stormCounts["done_writing"], Written)
  /\ \A c \in Conns : Writes(c) => Dials = Conns
  /\ ListensToTheEnd

\* The connections are the pairs of an instance and an outgoing index.
LEMMA ConnFacts ==
  /\ IsFiniteSet(Conns) /\ Cardinality(Conns) = StormN * Cardinality(Outgoing)
  /\ \A c \in Conns : c[1] \in StormInstances /\ c[2] \in Outgoing /\ c = <<c[1], c[2]>>
  /\ \A i \in StormInstances, k \in Outgoing : <<i, k>> \in Conns
<1>1. IsFiniteSet(Conns) /\ Cardinality(Conns) = StormN * Cardinality(Outgoing)
  BY StormAssumption, FS_Product, Zenon DEF Conns, StormN
<1> QED BY <1>1 DEF Conns

\* The counted sets of Storm are finite.
LEMMA StormSetsFinite == IsFiniteSet(Dials) /\ IsFiniteSet(Dials') /\ IsFiniteSet(Written) /\ IsFiniteSet(Written')
<1>1. Dials \in SUBSET Conns /\ Dials' \in SUBSET Conns
  BY Zenon DEF Dials
<1>2. Written \in SUBSET StormInstances /\ Written' \in SUBSET StormInstances
  BY Zenon DEF Written
<1> QED BY <1>1, <1>2, ConnFacts, StormAssumption, FS_Subset, Zenon

\* What a step has to show of the connections, the dials and the writes.
LEMMA StormStep ==
  ASSUME StormInv, StormTypes', \A c \in Conns : ConnInv(c)',
         Dials \subseteq Dials', Written \subseteq Written',
         \/ UNCHANGED stormCounts["outgoing_dials_done"]
         \/ /\ stormCounts'["outgoing_dials_done"] = stormCounts["outgoing_dials_done"] + 1
            /\ \E c \in Dials' : c \notin Dials,
         \/ UNCHANGED stormCounts["done_writing"]
         \/ /\ stormCounts'["done_writing"] = stormCounts["done_writing"] + 1
            /\ \E i \in Written' : i \notin Written,
         \A c \in Conns : Writes(c)' => Writes(c) \/ AllDialed,
         \A i \in StormInstances : 
           stormPc'[i] = "returned" => stormPc[i] = "returned" \/ stormCounts["done_writing"] >= StormN,
         \A c \in Conns : conn[c] = "done" => conn'[c] = "done"
  PROVE  StormInv'
<1>1. Counts(stormCounts["outgoing_dials_done"], Dials)'
  BY CountKept, CountUp, StormSetsFinite DEF StormInv
<1>2. Counts(stormCounts["done_writing"], Written)'
  BY CountKept, CountUp, StormSetsFinite DEF StormInv
<1>3. AllDialed => Dials = Conns
  BY CountAll, ConnFacts DEF StormInv, AllDialed, Dials
<1>4. \A c \in Conns : Writes(c)' => (Dials = Conns)'
  <2>1. Dials = Conns => Dials' = Conns
    BY Zenon DEF Dials
  <2> QED BY <1>3, <2>1, Zenon DEF StormInv
<1>5. ListensToTheEnd'
  <2> SUFFICES ASSUME NEW i \in StormInstances, stormPc'[i] = "returned", NEW c \in Conns
               PROVE  conn'[c] = "done"
    BY Zenon DEF ListensToTheEnd
  <2>1. CASE stormPc[i] = "returned"
    BY <2>1, Zenon DEF StormInv, ListensToTheEnd
  <2>2. CASE stormCounts["done_writing"] >= StormN
    <3>1. Written = StormInstances
      BY <2>2, CountAll, StormAssumption DEF StormInv, Written, StormN
    <3>2. conn[c] = "done"
      BY <3>1, ConnFacts, Zenon DEF StormInv, ConnInv, Written
    <3> QED BY <3>2, Zenon
  <2> QED BY <2>1, <2>2, Zenon
<1> QED BY <1>1, <1>2, <1>4, <1>5, Zenon DEF StormInv

\* An instance ends: nothing that was done is undone.
LEMMA StormEndsStep ==
  ASSUME StormInv, NEW i \in StormInstances, Running(i),
         \/ Ends(i, "failed")
         \/ Ends(i, "returned") /\ stormPc[i] = "written" /\ stormCounts["done_writing"] >= StormN,
         left' = left, stormCounts' = stormCounts
  PROVE  StormInv'
<1>1. StormTypes'
  BY ConnFacts, Zenon DEF StormInv, StormTypes, Ends, MainPlaces, ConnPlaces
<1>2. \A c \in Conns : ConnInv(c)'
  BY ConnFacts DEF StormInv, StormTypes, ConnInv, Ends, Running
<1>3. Dials \subseteq Dials'
  <2> SUFFICES ASSUME NEW c \in Conns, Made(c) PROVE Made(c)'
    BY Zenon DEF Dials
  <2>1. conn[c] \in {"dialed", "writing", "between", "done", "cut"} /\ (c[1] = i => conn[c] # "cut")
    BY Zenon DEF StormInv, StormTypes, ConnInv, Running, ConnPlaces, Made
  <2>2. conn'[c] = IF c[1] # i \/ conn[c] = "done" THEN conn[c]
                   ELSE IF conn[c] \in {"dialed", "writing", "between"} THEN "cut" ELSE "gone"
    BY Zenon DEF Ends
  <2> QED BY <2>1, <2>2, Zenon DEF Made
<1>4. \A c \in Conns : conn[c] = "done" => conn'[c] = "done"
  BY Zenon DEF Ends
<1>5. Written \subseteq Written'
  BY <1>4 DEF StormInv, StormTypes, ConnInv, Ends, Written
<1>6. \A c \in Conns : Writes(c)' => Writes(c)
  BY ConnFacts, Zenon DEF StormInv, StormTypes, Ends, Writes
<1>7. \A j \in StormInstances :
        stormPc'[j] = "returned" => stormPc[j] = "returned" \/ stormCounts["done_writing"] >= StormN
  BY Zenon DEF StormInv, StormTypes, Ends
<1> QED BY <1>1, <1>2, <1>3, <1>4, <1>5, <1>6, <1>7, StormStep, Zenon

\* The main goroutine, up to the goroutines that dial.
LEMMA StormMainStep ==
  ASSUME StormInv, NEW i \in StormInstances,
         Listen(i) \/ StormPublish(i) \/ GotAddresses(i) \/ StartDials(i), stormPc'[i] # "failed"
  PROVE  StormInv'
<1>0. Listen(i) => /\ stormPc' = [stormPc EXCEPT ![i] = "listening"] /\ StormSignal("listening")
                   /\ stormPc[i] = "listen" /\ UNCHANGED <<conn, left>>
  BY Zenon DEF StormInv, StormTypes, Listen, Ends
<1>1. StormTypes'
  BY <1>0, ConnFacts
     DEF StormInv, StormTypes, StormPublish, GotAddresses, StartDials, StormSignal,
                   MainPlaces, ConnPlaces, Barriers
<1>2. \A c \in Conns : ConnInv(c)'
  BY <1>0, ConnFacts
     DEF StormInv, StormTypes, ConnInv, StormPublish, GotAddresses, StartDials, StormSignal
<1>3. Dials \subseteq Dials' /\ \A c \in Conns : conn[c] = "done" => conn'[c] = "done"
  BY <1>0, ConnFacts
     DEF StormInv, StormTypes, ConnInv, StormPublish, GotAddresses, StartDials, Dials, Made
<1>4. Written \subseteq Written'
  BY <1>0, <1>3, Zenon DEF StormInv, StormTypes, StormPublish, GotAddresses, StartDials, Written
<1>5. \A c \in Conns : Writes(c)' => Writes(c)
  BY <1>0, ConnFacts, Zenon
     DEF StormInv, StormTypes, StormPublish, GotAddresses, StartDials, Writes
<1>6. /\ stormCounts'["outgoing_dials_done"] = stormCounts["outgoing_dials_done"]
      /\ stormCounts'["done_writing"] = stormCounts["done_writing"]
  BY <1>0, Zenon
     DEF StormInv, StormTypes, StormPublish, GotAddresses, StartDials, StormSignal, Barriers
<1>7. \A j \in StormInstances : stormPc'[j] = "returned" => stormPc[j] = "returned"
  BY <1>0, Zenon DEF StormInv, StormTypes, StormPublish, GotAddresses, StartDials
<1> QED BY <1>1, <1>2, <1>3, <1>4, <1>5, <1>6, <1>7, StormStep, Zenon

\* An instance whose connections are all done signals the end of its writes.
LEMMA DoneWritingStep ==
  ASSUME StormInv, NEW i \in StormInstances, DoneWriting(i) PROVE StormInv'
<1>1. StormTypes'
  BY DEF StormInv, StormTypes, DoneWriting, StormSignal, MainPlaces, Barriers
<1>2. \A c \in Conns : ConnInv(c)'
  BY ConnFacts DEF StormInv, StormTypes, ConnInv, DoneWriting
<1>3. Dials' = Dials /\ conn' = conn /\ \A c \in Conns : Writes(c)' <=> Writes(c)
  BY Zenon DEF DoneWriting, Dials, Made, Writes
<1>4. Written \subseteq Written' /\ i \in Written' /\ i \notin Written
  BY <1>3, Zenon DEF StormInv, StormTypes, DoneWriting, Written
<1>5. /\ stormCounts'["outgoing_dials_done"] = stormCounts["outgoing_dials_done"]
      /\ stormCounts'["done_writing"] = stormCounts["done_writing"] + 1
  BY Zenon DEF StormInv, StormTypes, DoneWriting, StormSignal, Barriers
<1>6. \A j \in StormInstances : stormPc'[j] = "returned" => stormPc[j] = "returned"
  BY Zenon DEF StormInv, StormTypes, DoneWriting
<1> QED BY <1>1, <1>2, <1>3, <1>4, <1>5, <1>6, StormStep, Zenon

\* The goroutine of a connection.
LEMMA ConnStepKeeps ==
  ASSUME StormInv, NEW c \in Conns, ConnStep(c) PROVE StormInv'
<1>1. StormTypes'
  BY StormAssumption
     DEF StormInv, StormTypes, ConnInv, ConnStep, BeginDial, EndDial, BeginWrite, EndWrite, StormSignal,
         ConnPlaces, Barriers
<1>2. \A d \in Conns : ConnInv(d)'
  BY ConnFacts
     DEF StormInv, StormTypes, ConnInv, ConnStep, BeginDial, EndDial, BeginWrite, EndWrite
<1>3. Dials \subseteq Dials' /\ \A d \in Conns : conn[d] = "done" => conn'[d] = "done"
  BY StormAssumption
     DEF StormInv, StormTypes, ConnInv, ConnStep, BeginDial, EndDial, BeginWrite, EndWrite, Dials, Made
<1>4. Written \subseteq Written'
  BY <1>3, Zenon
     DEF StormInv, StormTypes, ConnStep, BeginDial, EndDial, BeginWrite, EndWrite, Written
<1>5. \A d \in Conns : Writes(d)' => Writes(d) \/ AllDialed
  BY StormAssumption
     DEF StormInv, StormTypes, ConnInv, ConnStep, BeginDial, EndDial, BeginWrite, EndWrite, Writes
<1>6. \/ UNCHANGED stormCounts["outgoing_dials_done"]
      \/ /\ stormCounts'["outgoing_dials_done"] = stormCounts["outgoing_dials_done"] + 1
         /\ c \in Dials' /\ c \notin Dials
  BY Zenon
     DEF StormInv, StormTypes, ConnStep, BeginDial, EndDial, BeginWrite, EndWrite, Dials, Made,
         StormSignal, Barriers
<1>7. /\ UNCHANGED stormCounts["done_writing"]
      /\ \A j \in StormInstances : stormPc'[j] = "returned" => stormPc[j] = "returned"
  BY Zenon
     DEF StormInv, StormTypes, ConnStep, BeginDial, EndDial, BeginWrite, EndWrite, StormSignal,
         Barriers
<1> QED BY <1>1, <1>2, <1>3, <1>4, <1>5, <1>6, <1>7, StormStep, Zenon

\* Every step of Storm keeps the invariant.
LEMMA StormInductive == StormInv /\ [StormNext]_stormVars => StormInv'
<1> SUFFICES ASSUME StormInv, [StormNext]_stormVars PROVE StormInv'
  BY Zenon
<1>1. ASSUME NEW i \in StormInstances, MainStep(i) PROVE StormInv'
  <2>1. CASE stormPc'[i] = "failed"
    <3>1. Listen(i) \/ TimesOut(i)
      BY <1>1, <2>1, Zenon
         DEF StormInv, StormTypes, MainStep, StormPublish, GotAddresses, StartDials, DoneWriting, StormReturn, Ends
    <3>2. Ends(i, "failed") /\ left' = left /\ stormCounts' = stormCounts /\ Running(i)
      BY <2>1, <3>1, Zenon DEF StormInv, StormTypes, Listen, TimesOut, Running
    <3> QED BY <3>2, StormEndsStep, Zenon
  <2>2. CASE StormReturn(i)
    BY <2>2, StormEndsStep, Zenon DEF StormReturn, Running
  <2>3. CASE TimesOut(i)
    BY <2>1, <2>3, Zenon DEF StormInv, StormTypes, TimesOut, Ends
  <2> QED BY <1>1, <2>1, <2>2, <2>3, StormMainStep, DoneWritingStep, Zenon DEF MainStep
<1>2. CASE UNCHANGED stormVars
  BY <1>2
     DEF StormInv, StormTypes, ConnInv, Counts, Dials, Made, Written, Writes, ListensToTheEnd,
         stormVars
<1> QED BY <1>1, <1>2, ConnStepKeeps, Zenon DEF StormNext

\* No connection exists when Storm starts.
LEMMA StormInitially == StormInit => StormInv
<1> SUFFICES ASSUME StormInit PROVE StormInv
  BY Zenon
<1>1. StormTypes /\ \A c \in Conns : ConnInv(c) /\ ~Writes(c)
  BY StormAssumption, ConnFacts
     DEF StormInit, StormTypes, ConnInv, Writes, MainPlaces, ConnPlaces, Barriers
<1>2. Counts(0, Dials) /\ Counts(0, Written)
  BY StormSetsFinite, FS_CardinalityType DEF Counts
<1> QED BY <1>1, <1>2, Zenon DEF StormInit, StormInv, Barriers, ListensToTheEnd

\* Storm (plans/benchmarks/storm.go) keeps its invariant, for any number of instances,
\* connections and chunks.
THEOREM StormInvariant == StormSpec => []StormInv
BY StormInitially, StormInductive, PTL DEF StormSpec

\* What the invariant says of the barriers of Storm.
LEMMA StormBarriers == StormInv => WritesAfterDials /\ ListensToTheEnd
BY Zenon DEF StormInv, Writes, WritesAfterDials, Dials, Made

-----------------------------------------------------------------------------
(* Benchmarks.  AtReady(r) are the instances that have signalled the ready  *)
(* barrier of round r, and EndedOnes those that count as ended.             *)

AtReady(r) ==
  {i \in BenchInstances : \/ step[i] > r
                          \/ step[i] = r /\ benchPc[i] \in {"ready", "timing", "returned"}}
EndedOnes ==
  {i \in BenchInstances : \/ benchSeq[i] = 1 /\ benchPc[i] \in {"keepalive", "returned"}
                          \/ benchSeq[i] # 1 /\ benchPc[i] \in {"returned", "failed"}}
\* An instance has passed the ready barrier of a round.
Passed(i, r) == r < step[i] \/ (r = step[i] /\ benchPc[i] \in {"timing", "returned"})

\* BarrierBench: who has passed a barrier has found everyone at it.
BarrierInv ==
  /\ \A i \in BenchInstances : benchPc[i] \in {"start", "ready", "timing", "returned"} /\ benchSeq[i] = 0
  /\ \A r \in 1 .. Rounds : Counts(benchReady[r], AtReady(r))
  /\ \A r \in 1 .. Rounds : \A i \in BenchInstances : Passed(i, r) => AtReady(r) = BenchInstances

\* SubtreeBench: the place of an instance by its number, and one publisher alone.
SubtreePlaces(i) ==
  /\ benchPc[i] \in {"start", "publish", "receive", "keepalive", "returned", "failed"}
  /\ benchPc[i] = "start" => benchSeq[i] = 0
  /\ benchPc[i] \in {"publish", "keepalive"} => benchSeq[i] = 1
  /\ benchPc[i] = "receive" => benchSeq[i] # 1

SubtreeInv ==
  /\ \A i \in BenchInstances : SubtreePlaces(i)
  /\ \A i, j \in BenchInstances : benchSeq[i] = 1 /\ benchSeq[j] = 1 => i = j
  /\ Counts(benchEnded, EndedOnes)
  /\ OneGroup => PublisherLeavesLast

BenchTypes ==
  /\ benchCase \in {"barrier", "subtree"}
  /\ benchPc \in [BenchInstances -> {"start", "ready", "timing", "publish", "receive", "keepalive",
                                     "returned", "failed"}]
  /\ step \in [BenchInstances -> 1 .. Rounds] /\ benchReady \in [1 .. Rounds -> Nat]
  /\ benchSeq \in [BenchInstances -> Nat]

\* A round is passed when all are ready for it, and the publisher leaves when all have ended.
BenchInv ==
  /\ BenchTypes
  /\ benchCase = "barrier" => BarrierInv
  /\ benchCase = "subtree" => SubtreeInv

\* The instances at a barrier of BarrierBench are finitely many.
LEMMA ReadyFinite == \A r : IsFiniteSet(AtReady(r)) /\ IsFiniteSet(AtReady(r)')
<1>1. \A r : AtReady(r) \in SUBSET BenchInstances /\ AtReady(r)' \in SUBSET BenchInstances
  BY Zenon DEF AtReady
<1> QED BY <1>1, FS_Subset, BenchAssumption, Zenon

\* The instances that have ended SubtreeBench are finitely many.
LEMMA EndedFinite == IsFiniteSet(EndedOnes) /\ IsFiniteSet(EndedOnes')
<1>1. EndedOnes \in SUBSET BenchInstances /\ EndedOnes' \in SUBSET BenchInstances
  BY Zenon DEF EndedOnes
<1> QED BY <1>1, FS_Subset, BenchAssumption, Zenon

\* A round of BarrierBench: who goes on does not leave a barrier it has reached.
LEMMA BarrierStep ==
  ASSUME BenchInv, benchCase = "barrier", UNCHANGED benchCase, NEW i \in BenchInstances, BenchStep(i)
  PROVE  BenchInv'
<1>0. BarrierReady(i) \/ SignalTest(i) \/ BarrierTimed(i)
  BY Zenon
     DEF BenchInv, BarrierInv, BenchStep, SubtreeEnroll, PublishItem, HandOff, PublisherReturns,
         TakeItem,
         ReceiverReturns, ReceiverPanics
<1>1. BenchTypes' /\ \A j \in BenchInstances :
                        benchPc'[j] \in {"start", "ready", "timing", "returned"} /\ benchSeq'[j] = 0
  <2>1. CASE BarrierReady(i)
    BY <2>1, BenchAssumption
       DEF BenchInv, BenchTypes, BarrierInv, BarrierReady, BenchGoto, subtreeVars
  <2>2. CASE SignalTest(i)
    BY <2>2, BenchAssumption, Zenon
       DEF BenchInv, BenchTypes, BarrierInv, SignalTest, BenchGoto, subtreeVars
  <2>3. CASE BarrierTimed(i)
    <3>1. CASE step[i] = Rounds
      BY <2>3, <3>1, BenchAssumption, Zenon
         DEF BenchInv, BenchTypes, BarrierInv, BarrierTimed, BenchGoto, subtreeVars
    <3>2. CASE step[i] # Rounds
      <4>1. step[i] \in Nat /\ step[i] + 1 \in 1 .. Rounds /\ step' = [step EXCEPT ![i] = step[i] + 1]
        BY <2>3, <3>2, BenchAssumption DEF BenchInv, BenchTypes, BarrierTimed
      <4> QED BY <2>3, <3>2, <4>1, BenchAssumption, Zenon
                 DEF BenchInv, BenchTypes, BarrierInv, BarrierTimed, BenchGoto, subtreeVars
    <3> QED BY <3>1, <3>2, Zenon
  <2> QED BY <1>0, <2>1, <2>2, <2>3, Zenon
<1>2. ASSUME NEW r \in 1 .. Rounds PROVE AtReady(r) \subseteq AtReady(r)'
  <2>1. CASE BarrierReady(i)
    BY <2>1, BenchAssumption, Zenon DEF BenchInv, BenchTypes, BarrierReady, BenchGoto, AtReady
  <2>2. CASE SignalTest(i)
    BY <2>2, BenchAssumption, Zenon DEF BenchInv, BenchTypes, SignalTest, BenchGoto, AtReady
  <2>3. CASE BarrierTimed(i)
    <3>1. CASE step[i] = Rounds
      BY <2>3, <3>1, BenchAssumption, Zenon
         DEF BenchInv, BenchTypes, BarrierTimed, BenchGoto, AtReady
    <3>2. CASE step[i] # Rounds
      <4>1. step[i] \in Nat /\ step[i] + 1 \in 1 .. Rounds /\ step' = [step EXCEPT ![i] = step[i] + 1]
        BY <2>3, <3>2, BenchAssumption DEF BenchInv, BenchTypes, BarrierTimed
      <4> QED BY <2>3, <3>2, <4>1, BenchAssumption
                 DEF BenchInv, BenchTypes, BarrierTimed, BenchGoto, AtReady
    <3> QED BY <3>1, <3>2, Zenon
  <2> QED BY <1>0, <2>1, <2>2, <2>3, Zenon
<1>3. ASSUME NEW r \in 1 .. Rounds PROVE Counts(benchReady[r], AtReady(r))'
  <2>1. CASE benchReady'[r] = benchReady[r]
    BY <1>2, <2>1, CountKept, ReadyFinite, Zenon DEF BenchInv, BarrierInv
  <2>2. CASE BarrierReady(i) /\ r = step[i]
    <3>1. benchReady'[r] = benchReady[r] + 1 /\ i \in AtReady(r)' /\ i \notin AtReady(r)
      BY <2>2 DEF BenchInv, BenchTypes, BarrierReady, BenchGoto, AtReady
    <3> QED BY <1>2, <3>1, CountUp, ReadyFinite DEF BenchInv, BarrierInv
  <2> QED BY <1>0, <2>1, <2>2, Zenon
             DEF BenchInv, BenchTypes, BarrierReady, SignalTest, BarrierTimed
<1>4. ASSUME NEW r \in 1 .. Rounds, NEW j \in BenchInstances, Passed(j, r)'
      PROVE  AtReady(r)' = BenchInstances
  <2>1. Passed(j, r) \/ (SignalTest(i) /\ j = i /\ r = step[i])
    BY <1>0, <1>4, BenchAssumption
       DEF BenchInv, BenchTypes, BarrierReady, SignalTest, BarrierTimed, BenchGoto, Passed
  <2>2. AtReady(r) = BenchInstances
    <3>1. CASE SignalTest(i) /\ r = step[i]
      <4>1. Counts(benchReady[r], AtReady(r)) /\ benchReady[r] >= Cardinality(BenchInstances)
        BY <3>1, Zenon DEF BenchInv, BarrierInv, SignalTest, BenchN
      <4> QED BY <4>1, CountAll, BenchAssumption, Zenon DEF AtReady
    <3> QED BY <2>1, <3>1, Zenon DEF BenchInv, BarrierInv
  <2>3. AtReady(r) \subseteq AtReady(r)'
    BY <1>2, Zenon
  <2> QED BY <2>2, <2>3, Zenon DEF AtReady
<1> QED BY <1>1, <1>3, <1>4, Zenon DEF BenchInv, BarrierInv

\* An instance of SubtreeBench ends, enrolls or goes on.
LEMMA SubtreeStep ==
  ASSUME BenchInv, benchCase = "subtree", UNCHANGED benchCase, NEW i \in BenchInstances, BenchStep(i)
  PROVE  BenchInv'
<1>0. \/ SubtreeEnroll(i) \/ PublishItem(i) \/ HandOff(i) \/ PublisherReturns(i)
      \/ TakeItem(i) \/ ReceiverReturns(i) \/ ReceiverPanics(i)
  BY Zenon
     DEF BenchInv, SubtreeInv, SubtreePlaces, BenchStep, BarrierReady, SignalTest, BarrierTimed
<1> DEFINE Seated == {j \in BenchInstances : benchSeq[j] # 0}
<1>1. IsFiniteSet(Seated) /\ Cardinality(Seated) \in Nat /\ (Cardinality(Seated) = 0 <=> Seated = {})
  <2>1. Seated \in SUBSET BenchInstances
    BY Zenon
  <2>2. IsFiniteSet(Seated)
    BY <2>1, FS_Subset, BenchAssumption, Zenon
  <2> QED BY <2>2, FS_EmptySet, FS_CardinalityType, Zenon
<1>2. SubtreeEnroll(i) => /\ benchSeq' = [benchSeq EXCEPT ![i] = Cardinality(Seated) + 1]
                          /\ BenchGoto(i, IF Cardinality(Seated) + 1 = 1 THEN "publish" ELSE "receive")
                          /\ benchPc[i] = "start" /\ benchEnded' = benchEnded /\ UNCHANGED barrierVars
  BY Zenon DEF SubtreeEnroll
<1> HIDE DEF Seated
<1>3. BenchTypes'
  <2>1. CASE SubtreeEnroll(i)
    <3>1. UNCHANGED <<step, benchReady>> /\ Cardinality(Seated) + 1 \in Nat
      BY <1>1, <1>2, <2>1 DEF barrierVars
    <3>2. benchSeq' \in [BenchInstances -> Nat]
      BY <1>2, <2>1, <3>1, Zenon DEF BenchInv, BenchTypes
    <3>3. benchPc' = [benchPc EXCEPT ![i] = "publish"] \/ benchPc' = [benchPc EXCEPT ![i] = "receive"]
      BY <1>2, <2>1, Zenon DEF BenchGoto
    <3> QED BY <3>1, <3>2, <3>3, Zenon DEF BenchInv, BenchTypes
  <2>2. CASE ~SubtreeEnroll(i)
    BY <1>0, <2>2, Zenon
       DEF BenchInv, BenchTypes, PublishItem, HandOff, PublisherReturns, TakeItem,
           ReceiverReturns,
       ReceiverPanics, BenchGoto, barrierVars, subtreeVars
  <2> QED BY <2>1, <2>2, Zenon
<1>4. ASSUME NEW j \in BenchInstances PROVE SubtreePlaces(j)'
  <2>1. CASE SubtreeEnroll(i)
    BY <1>0, <1>1, <1>2, <2>1
       DEF BenchInv, BenchTypes, SubtreeInv, SubtreePlaces, BenchGoto, subtreeVars
  <2>2. CASE ~SubtreeEnroll(i)
    BY <1>0, <1>2, <2>2, Zenon
       DEF BenchInv, BenchTypes, SubtreeInv, SubtreePlaces, PublishItem, HandOff,
       PublisherReturns, TakeItem, ReceiverReturns, ReceiverPanics, BenchGoto, subtreeVars
  <2> QED BY <2>1, <2>2, Zenon
<1>5. ASSUME NEW j \in BenchInstances, NEW k \in BenchInstances, benchSeq'[j] = 1, benchSeq'[k] = 1 PROVE j = k
  <2>1. CASE SubtreeEnroll(i)
    <3>1. Cardinality(Seated) = 0 => \A x \in BenchInstances : benchSeq[x] = 0
      BY <1>1, Zenon DEF Seated
    <3>2. (\E x \in BenchInstances : benchSeq[x] = 1) => Cardinality(Seated) # 0
      BY <1>1 DEF Seated
    <3> QED BY <1>1, <1>2, <1>5, <2>1, <3>1, <3>2 DEF BenchInv, BenchTypes, SubtreeInv
  <2>2. CASE benchSeq' = benchSeq
    BY <1>5, <2>2, Zenon DEF BenchInv, SubtreeInv
  <2> QED BY <1>0, <2>1, <2>2, Zenon
             DEF PublishItem, HandOff, PublisherReturns, TakeItem, ReceiverReturns,
                 ReceiverPanics,
     subtreeVars
<1>6. EndedOnes \subseteq EndedOnes'
  BY <1>0, <1>2, Zenon
     DEF BenchInv, BenchTypes, SubtreeInv, SubtreePlaces, PublishItem, HandOff, PublisherReturns,
     TakeItem, ReceiverReturns, ReceiverPanics, BenchGoto, subtreeVars, EndedOnes
<1>7. Counts(benchEnded, EndedOnes)'
  <2>1. CASE benchEnded' = benchEnded
    BY <1>6, <2>1, CountKept, EndedFinite, Zenon DEF BenchInv, SubtreeInv
  <2>2. CASE benchEnded' = benchEnded + 1 /\ (HandOff(i) \/ ReceiverReturns(i))
    <3>1. i \in EndedOnes' /\ i \notin EndedOnes
      <4>1. CASE HandOff(i)
        BY <2>2, <4>1
           DEF BenchInv, BenchTypes, SubtreeInv, SubtreePlaces, HandOff, BenchGoto, EndedOnes
      <4>2. CASE ReceiverReturns(i)
        BY <2>2, <4>2
           DEF BenchInv, BenchTypes, SubtreeInv, SubtreePlaces, ReceiverReturns, BenchGoto,
               EndedOnes
      <4> QED BY <2>2, <4>1, <4>2, Zenon
    <3> QED BY <1>6, <2>2, <3>1, CountUp, EndedFinite, Zenon DEF BenchInv, SubtreeInv
  <2> QED BY <1>0, <1>2, <2>1, <2>2, Zenon
             DEF PublishItem, HandOff, PublisherReturns, TakeItem, ReceiverReturns,
                 ReceiverPanics,
     subtreeVars
<1>8. ASSUME OneGroup PROVE PublisherLeavesLast'
  <2> SUFFICES ASSUME NEW j \in BenchInstances, benchSeq'[j] = 1, benchPc'[j] = "returned",
                      NEW k \in BenchInstances \ {j}
               PROVE  benchPc'[k] \in {"returned", "failed"}
    BY Zenon DEF PublisherLeavesLast
  <2>1. CASE PublisherReturns(i)
    <3>1. benchSeq[i] = 1 /\ benchSeq' = benchSeq /\ j = i /\ benchPc'[k] = benchPc[k]
      BY <1>5, <2>1, Zenon
         DEF BenchInv, BenchTypes, SubtreeInv, SubtreePlaces, PublisherReturns, BenchGoto,
             subtreeVars
    <3>2. GroupCount(i) = Cardinality(BenchInstances)
      <4>1. {x \in BenchInstances : GroupOf[x] = GroupOf[i]} = BenchInstances
        BY <1>8, Zenon DEF OneGroup
      <4> QED BY <4>1, Zenon DEF GroupCount
    <3>3. EndedOnes = BenchInstances
      BY <2>1, <3>2, CountAll, BenchAssumption, Zenon
         DEF BenchInv, SubtreeInv, PublisherReturns, KeepaliveTarget, EndedOnes
    <3>4. benchSeq[k] # 1
      BY <1>5, <3>1, Zenon
    <3> QED BY <3>1, <3>3, <3>4, Zenon DEF EndedOnes
  <2>2. CASE ~PublisherReturns(i)
    <3>1. benchSeq[j] = 1 /\ benchPc[j] = "returned"
      BY <1>0, <1>2, <2>2, Zenon
         DEF BenchInv, BenchTypes, SubtreeInv, SubtreePlaces, PublishItem, HandOff, TakeItem,
         ReceiverReturns, ReceiverPanics, BenchGoto, subtreeVars
    <3>2. benchPc[k] \in {"returned", "failed"}
      BY <1>8, <3>1, Zenon DEF BenchInv, SubtreeInv, PublisherLeavesLast
    <3> QED BY <1>0, <1>2, <2>2, <3>2, Zenon
               DEF BenchInv, BenchTypes, PublishItem, HandOff, TakeItem,
         ReceiverReturns, ReceiverPanics, BenchGoto
  <2> QED BY <2>1, <2>2, Zenon
<1> QED BY <1>3, <1>4, <1>5, <1>7, <1>8, Zenon DEF BenchInv, SubtreeInv, OneGroup

\* Every step of the benchmarks keeps the invariant.
LEMMA BenchInductive == BenchInv /\ [BenchNext]_benchVars => BenchInv'
<1> SUFFICES ASSUME BenchInv, [BenchNext]_benchVars PROVE BenchInv'
  BY Zenon
<1>1. CASE BenchNext
  <2>1. benchCase = "barrier" \/ benchCase = "subtree"
    BY Zenon DEF BenchInv, BenchTypes
  <2> QED BY <1>1, <2>1, BarrierStep, SubtreeStep, Zenon DEF BenchNext
<1>2. CASE UNCHANGED benchVars
  BY <1>2
     DEF BenchInv, BenchTypes, BarrierInv, SubtreeInv, SubtreePlaces, Counts, AtReady, Passed,
         EndedOnes,
     PublisherLeavesLast, OneGroup, benchVars, barrierVars, subtreeVars
<1> QED BY <1>1, <1>2, Zenon

\* No instance has signalled when the benchmarks start.
LEMMA BenchInitially == BenchInit => BenchInv
<1> SUFFICES ASSUME BenchInit PROVE BenchInv
  BY Zenon
<1>1. BenchTypes /\ \A i \in BenchInstances : SubtreePlaces(i)
  BY BenchAssumption DEF BenchInit, BenchTypes, SubtreePlaces
<1>2. \A r \in 1 .. Rounds : Counts(benchReady[r], AtReady(r)) 
  BY ReadyFinite, FS_CardinalityType DEF BenchInit, Counts
<1>3. Counts(benchEnded, EndedOnes)
  BY EndedFinite, FS_CardinalityType DEF BenchInit, Counts
<1> QED BY <1>1, <1>2, <1>3
           DEF BenchInit, BenchInv, BarrierInv, SubtreeInv, Passed, PublisherLeavesLast

\* BarrierBench and SubtreeBench (plans/benchmarks/benchmarks.go) keep their invariant, for
\* any number of instances, rounds and groups.
THEOREM BenchInvariant == BenchSpec => []BenchInv
BY BenchInitially, BenchInductive, PTL DEF BenchSpec

\* What the invariant says of the rounds, and of the publisher of a run of one group.
LEMMA BenchBarriers == BenchInv => RoundsApart /\ (OneGroup => PublisherLeavesLast)
<1> SUFFICES ASSUME BenchInv PROVE RoundsApart /\ (OneGroup => PublisherLeavesLast)
  BY Zenon
<1>1. CASE benchCase = "barrier"
  <2>1. ASSUME NEW i \in BenchInstances, NEW j \in BenchInstances, benchPc[i] = "timing"
        PROVE  step[j] \in {step[i], step[i] + 1} /\ (step[j] = step[i] + 1 => benchPc[j] \in {"start", "ready"})
    <3>1. j \in AtReady(step[i])
      BY <1>1, <2>1, Zenon DEF BenchInv, BenchTypes, BarrierInv, Passed
    <3>2. step[i] + 1 <= Rounds /\ Passed(j, step[i] + 1) => i \in AtReady(step[i] + 1)
      BY <1>1 DEF BenchInv, BenchTypes, BarrierInv
    <3>3. ~(step[i] + 1 <= Rounds /\ Passed(j, step[i] + 1))
      BY <3>2 DEF AtReady, BenchInv, BenchTypes
    <3>4. step[i] \in 1 .. Rounds /\ step[j] \in 1 .. Rounds /\ step[i] <= step[j] /\ step[j] <= step[i] + 1
      BY <3>1, <3>3, BenchAssumption DEF AtReady, Passed, BenchInv, BenchTypes
    <3> QED BY <1>1, <3>3, <3>4, BenchAssumption DEF Passed, BenchInv, BarrierInv
  <2> QED BY <1>1, <2>1 DEF BenchInv, BarrierInv, RoundsApart, PublisherLeavesLast
<1>2. CASE benchCase = "subtree"
  BY <1>2, Zenon DEF BenchInv, SubtreeInv, SubtreePlaces, RoundsApart
<1> QED BY <1>1, <1>2, Zenon DEF BenchInv, BenchTypes

-----------------------------------------------------------------------------
(* SyncPlans. *)

Followers == {i \in SyncInstances : syncSeq[i] # 1 /\ syncPc[i] \in {"held", "returned"}}
Through == {i \in SyncInstances : syncPc[i] \in {"finished", "returned"} \/ (syncPc[i] = "failed" /\ syncSeq[i] # 1)}

SyncTypes ==
  /\ syncCase \in {"sync", "verify"} /\ isolated \in BOOLEAN
  /\ syncPc \in [SyncInstances -> {"start", "leader", "follower", "held", "ready", "target", "published",
                                   "ping", "finished", "returned", "failed"}]
  /\ syncSeq \in [SyncInstances -> Nat] /\ syncCounts \in [States -> Nat]

\* ExampleSync: the place of an instance by its number, and who may be released.
ExamplePlaces(i) ==
  /\ syncPc[i] \in {"start", "leader", "follower", "held", "returned"}
  /\ syncPc[i] = "start" => syncSeq[i] = 0
  /\ syncPc[i] = "leader" => syncSeq[i] = 1
  /\ syncPc[i] \in {"follower", "held"} => syncSeq[i] # 1
  /\ syncCounts["enrolled"] = 0 => syncSeq[i] = 0
  /\ syncPc[i] = "returned" => syncCounts["released"] > 0
  /\ syncCounts["released"] > 0 => syncPc[i] \in {"held", "returned"}

ExampleInv ==
  /\ \A i \in SyncInstances : ExamplePlaces(i)
  /\ \A i, j \in SyncInstances : syncSeq[i] = 1 /\ syncSeq[j] = 1 => i = j
  /\ Counts(syncCounts["ready"], Followers)

\* UsesDataNetwork: the place of an instance by its number.
VerifyPlaces(i) ==
  /\ syncPc[i] \in {"start", "ready", "target", "published", "ping", "finished", "returned", "failed"}
  /\ syncSeq[i] <= syncCounts["ready"]
  /\ syncPc[i] = "start" => syncSeq[i] = 0
  /\ syncPc[i] # "start" => syncSeq[i] > 0
  /\ syncPc[i] \notin {"start", "ready"} => syncCounts["ready"] >= SyncN
  /\ syncPc[i] = "target" => syncSeq[i] = 1 /\ Len(nets) <= 2
  /\ syncPc[i] = "published" => syncSeq[i] = 1
  /\ syncPc[i] = "ping" => syncSeq[i] = 2 /\ read <= 2
  /\ syncPc[i] \in {"finished", "returned"} /\ syncSeq[i] = 2 => read = 3
  /\ syncPc[i] = "returned" => Through = SyncInstances

\* The numbers are given out once each and from 1.
NumbersInv ==
  /\ \A i, j \in SyncInstances : syncSeq[i] = syncSeq[j] /\ syncSeq[i] # 0 => i = j
  /\ \A n \in 1 .. syncCounts["ready"] : \E i \in SyncInstances : syncSeq[i] = n

\* What is on the topic of the networks, how far it was read, and what was found so far.
TopicInv ==
  /\ nets \in Seq({"control", "data", "endOfNetworks"}) /\ Len(nets) <= 3
  /\ Len(nets) >= 1 => nets[1] = "control"
  /\ Len(nets) >= 2 => nets[2] = "data"
  /\ Len(nets) >= 3 => nets[3] = "endOfNetworks"
  /\ read \in Nat /\ read <= Len(nets)
  /\ Len(nets) > 0 => \E i \in SyncInstances : syncSeq[i] = 1 /\ syncPc[i] \notin {"start", "ready"}
  /\ read > 0 => \E i \in SyncInstances : syncSeq[i] = 2 /\ syncPc[i] \notin {"start", "ready"}
  /\ failures = IF read > 0 /\ ~isolated THEN {"control"} ELSE {}

\* Nobody fails before the target, and the target does not once it is ready.
FailInv ==
  /\ \A j \in SyncInstances : syncPc[j] = "failed" =>
       /\ syncCounts["target_ready"] = 0
       /\ \E k \in SyncInstances : syncSeq[k] = 1 /\ syncPc[k] = "failed"
  /\ syncCounts["target_ready"] # 0 =>
       \E k \in SyncInstances : syncSeq[k] = 1 /\ syncPc[k] \in {"published", "finished", "returned"}

VerifyInv ==
  /\ \A i \in SyncInstances : VerifyPlaces(i)
  /\ NumbersInv
  /\ TopicInv
  /\ FailInv
  /\ Counts(syncCounts["finished"], Through)

SyncInv ==
  /\ SyncTypes
  /\ syncCase = "sync" => ExampleInv
  /\ syncCase = "verify" => VerifyInv

\* The counted sets of the sync plans are finite.
LEMMA SyncFinite == /\ IsFiniteSet(Followers) /\ IsFiniteSet(Followers')
                    /\ IsFiniteSet(Through) /\ IsFiniteSet(Through') /\ SyncN \in Nat
<1>1. /\ Followers \in SUBSET SyncInstances /\ Followers' \in SUBSET SyncInstances
      /\ Through \in SUBSET SyncInstances /\ Through' \in SUBSET SyncInstances
  BY Zenon DEF Followers, Through
<1> QED BY <1>1, FS_Subset, FS_CardinalityType, SyncAssumption, Zenon DEF SyncN

\* A step of ExampleSync.
LEMMA ExampleStep ==
  ASSUME SyncInv, syncCase = "sync", UNCHANGED <<syncCase, isolated>>, NEW i \in SyncInstances, SyncStep(i)
  PROVE  SyncInv'
<1> USE DEF States
<1>0. SyncEnroll(i) \/ ReleaseFollowers(i) \/ FollowerReady(i) \/ FollowerReleased(i)
  BY Zenon
     DEF SyncInv, ExampleInv, ExamplePlaces, SyncStep, VerifyReady, ChooseMode, PublishNetwork,
         TargetFails, TargetFinishes, PingNetwork, AllFinished, VerifyTimesOut
<1>1. SyncTypes'
  BY <1>0
     DEF SyncInv, SyncTypes, SyncEnroll, ReleaseFollowers, FollowerReady, FollowerReleased,
         SyncGoto, SyncSignal, Number
<1>2. \A j, k \in SyncInstances : syncSeq'[j] = 1 /\ syncSeq'[k] = 1 => j = k
  BY <1>0
     DEF SyncInv, SyncTypes, ExampleInv, ExamplePlaces, SyncEnroll, ReleaseFollowers,
         FollowerReady,
     FollowerReleased, SyncGoto, SyncSignal, Number
<1>3. Followers \subseteq Followers'
  BY <1>0
     DEF SyncInv, SyncTypes, ExampleInv, ExamplePlaces, SyncEnroll, ReleaseFollowers,
         FollowerReady,
     FollowerReleased, SyncGoto, SyncSignal, Number, Followers
<1>4. Counts(syncCounts["ready"], Followers)'
  <2>1. CASE FollowerReady(i)
    <3>1. syncCounts'["ready"] = syncCounts["ready"] + 1 /\ i \in Followers' /\ i \notin Followers
      BY <2>1, Zenon
         DEF SyncInv, SyncTypes, ExampleInv, ExamplePlaces, FollowerReady, SyncGoto, SyncSignal,
             Followers
    <3> QED BY <1>3, <3>1, CountUp, SyncFinite DEF SyncInv, ExampleInv
  <2>2. CASE syncCounts'["ready"] = syncCounts["ready"]
    BY <1>3, <2>2, CountKept, SyncFinite, Zenon DEF SyncInv, ExampleInv
  <2> QED BY <1>0, <2>1, <2>2, Zenon
             DEF SyncInv, SyncTypes, SyncEnroll, ReleaseFollowers, FollowerReleased, SyncSignal
<1>5. ASSUME NEW j \in SyncInstances PROVE ExamplePlaces(j)'
  <2>1. CASE SyncEnroll(i)
    BY <2>1
       DEF SyncInv, SyncTypes, ExampleInv, ExamplePlaces, SyncEnroll, SyncGoto, SyncSignal, Number
  <2>2. CASE ReleaseFollowers(i)
    <3>1. SyncInstances \ {i} \subseteq Followers
      <4>1. IsFiniteSet(SyncInstances \ {i}) /\ Cardinality(SyncInstances \ {i}) = SyncN - 1
        BY FS_RemoveElement, SyncAssumption, Zenon DEF SyncN
      <4>2. Followers \subseteq SyncInstances \ {i} /\ Counts(syncCounts["ready"], Followers)
        BY <2>2, Zenon DEF SyncInv, ExampleInv, ExamplePlaces, Followers, ReleaseFollowers
      <4> QED BY <2>2, <4>1, <4>2, CountAll, Zenon DEF ReleaseFollowers, Reached
    <3>2. \A k \in SyncInstances \ {i} : syncPc[k] \in {"held", "returned"}
      BY <3>1, Zenon DEF Followers
    <3> QED BY <2>2, <3>2
               DEF SyncInv, SyncTypes, ExampleInv, ExamplePlaces, ReleaseFollowers, SyncGoto,
                   SyncSignal
  <2>3. CASE FollowerReady(i)
    BY <2>3, Zenon
       DEF SyncInv, SyncTypes, ExampleInv, ExamplePlaces, FollowerReady, SyncGoto, SyncSignal
  <2>4. CASE FollowerReleased(i)
    BY <2>4 DEF SyncInv, SyncTypes, ExampleInv, ExamplePlaces, FollowerReleased, SyncGoto, Reached
  <2> QED BY <1>0, <2>1, <2>2, <2>3, <2>4, Zenon
<1> QED BY <1>1, <1>2, <1>4, <1>5, Zenon DEF SyncInv, ExampleInv

\* The target of UsesDataNetwork fails, or an instance that waits for it.
LEMMA VerifyFails ==
  ASSUME SyncInv, syncCase = "verify", UNCHANGED <<syncCase, isolated>>, NEW i \in SyncInstances,
         TargetFails(i) \/ VerifyTimesOut(i)
  PROVE  SyncInv'
<1>0. /\ UNCHANGED <<syncSeq, syncCounts, nets, read, failures>> /\ SyncGoto(i, "failed")
      /\ \/ syncPc[i] = "target"
         \/ syncPc[i] \in {"ping", "finished"} /\ \E j \in SyncInstances : syncPc[j] = "failed"
  BY Zenon DEF TargetFails, VerifyTimesOut
<1>1. /\ SyncTypes' /\ syncPc'[i] = "failed" /\ \A j \in SyncInstances \ {i} : syncPc'[j] = syncPc[j]
  BY <1>0, Zenon DEF SyncInv, SyncTypes, SyncGoto
<1>2. syncCounts["target_ready"] = 0 /\ \E k \in SyncInstances : syncSeq[k] = 1 /\ syncPc'[k] = "failed"
  <2>1. CASE syncPc[i] = "target"
    <3>1. syncSeq[i] = 1
      BY <2>1, Zenon DEF SyncInv, VerifyInv, VerifyPlaces
    <3>2. \A k \in SyncInstances : syncSeq[k] = 1 => k = i
      BY <3>1 DEF SyncInv, VerifyInv, NumbersInv
    <3> QED BY <1>1, <2>1, <3>1, <3>2, Zenon DEF SyncInv, VerifyInv, FailInv
  <2>2. CASE \E j \in SyncInstances : syncPc[j] = "failed"
    BY <1>1, <2>2, Zenon DEF SyncInv, VerifyInv, FailInv
  <2> QED BY <1>0, <2>1, <2>2, Zenon
<1>3. FailInv'
  BY <1>0, <1>2, Zenon DEF FailInv
<1>4. Through \subseteq Through'
  <2>1. syncSeq[i] = 1 => syncPc[i] = "target"
    <3>1. ASSUME syncSeq[i] = 1, syncPc[i] \in {"ping", "finished"}, NEW j \in SyncInstances, syncPc[j] = "failed"
          PROVE  FALSE
      <4>1. PICK k \in SyncInstances : syncSeq[k] = 1 /\ syncPc[k] = "failed"
        BY <3>1, Zenon DEF SyncInv, VerifyInv, FailInv
      <4>2. k = i
        BY <3>1, <4>1 DEF SyncInv, VerifyInv, NumbersInv
      <4> QED BY <3>1, <4>1, <4>2, Zenon
    <3> QED BY <1>0, <3>1, Zenon
  <2> QED BY <1>0, <1>1, <2>1, Zenon DEF Through
<1>5. Counts(syncCounts["finished"], Through)'
  BY <1>0, <1>4, CountKept, SyncFinite, Zenon DEF SyncInv, VerifyInv
<1>6. ASSUME NEW j \in SyncInstances PROVE VerifyPlaces(j)'
  <2>1. Through = SyncInstances => Through' = SyncInstances
    BY <1>4, Zenon DEF Through
  <2>2. CASE j = i
    BY <1>0, <1>1, <2>2, Zenon DEF SyncInv, VerifyInv, VerifyPlaces
  <2>3. CASE j # i
    BY <1>0, <1>1, <2>1, <2>3, Zenon DEF SyncInv, VerifyInv, VerifyPlaces
  <2> QED BY <2>2, <2>3, Zenon
<1>7. NumbersInv' /\ TopicInv'
  <2>1. \A j \in SyncInstances : syncPc[j] \notin {"start", "ready"} => syncPc'[j] \notin {"start", "ready"}
    BY <1>1, Zenon
  <2>2. NumbersInv'
    BY <1>0, Zenon DEF SyncInv, VerifyInv, NumbersInv
  <2>3. TopicInv'
    BY <1>0, <2>1, Zenon DEF SyncInv, VerifyInv, TopicInv
  <2> QED BY <2>2, <2>3
<1> QED BY <1>1, <1>3, <1>5, <1>6, <1>7, Zenon DEF SyncInv, VerifyInv

\* Any other step of UsesDataNetwork.
LEMMA VerifyStep ==
  ASSUME SyncInv, syncCase = "verify", UNCHANGED <<syncCase, isolated>>, NEW i \in SyncInstances, SyncStep(i),
         ~TargetFails(i) /\ ~VerifyTimesOut(i)
  PROVE  SyncInv'
<1> USE DEF States
<1>0. \/ VerifyReady(i) \/ ChooseMode(i) \/ PublishNetwork(i)
      \/ TargetFinishes(i) \/ PingNetwork(i) \/ AllFinished(i)
  BY Zenon
     DEF SyncInv, VerifyInv, VerifyPlaces, SyncStep, SyncEnroll, ReleaseFollowers, FollowerReady,
         FollowerReleased
<1>c. ChooseMode(i) =>
        /\ syncPc[i] = "ready" /\ Reached("ready", SyncN) /\ UNCHANGED <<syncSeq, nets, read, failures>>
        /\ \/ syncSeq[i] = 1 /\ SyncGoto(i, "target") /\ UNCHANGED syncCounts
           \/ syncSeq[i] = 2 /\ SyncGoto(i, "ping") /\ UNCHANGED syncCounts
           \/ syncSeq[i] > 2 /\ Finish(i)
  <2>1. syncPc[i] = "ready" => syncSeq[i] \in Nat /\ syncSeq[i] > 0
    BY Zenon DEF SyncInv, SyncTypes, VerifyInv, VerifyPlaces
  <2> QED BY <2>1 DEF ChooseMode
<1>t. SyncTypes'
  <2>1. CASE ChooseMode(i)
    BY <1>c, <2>1 DEF SyncInv, SyncTypes, SyncGoto, SyncSignal, Finish
  <2>2. CASE ~ChooseMode(i)
    <3>1. CASE VerifyReady(i)
      BY <3>1 DEF SyncInv, SyncTypes, VerifyReady, SyncGoto, SyncSignal, Number
    <3>2. CASE PublishNetwork(i)
      <4>1. /\ UNCHANGED <<syncPc, syncCounts>> \/ (SyncSignal("target_ready") /\ SyncGoto(i, "published"))
            /\ UNCHANGED syncSeq
        BY <3>2, Zenon DEF PublishNetwork
      <4> QED BY <4>1 DEF SyncInv, SyncTypes, SyncGoto, SyncSignal
    <3>3. CASE TargetFinishes(i) \/ PingNetwork(i) \/ AllFinished(i)
      <4>1. /\ UNCHANGED <<syncPc, syncCounts>> \/ Finish(i) \/ (SyncGoto(i, "returned") /\ UNCHANGED syncCounts)
            /\ UNCHANGED syncSeq
        BY <3>3, Zenon DEF TargetFinishes, PingNetwork, AllFinished
      <4> QED BY <4>1 DEF SyncInv, SyncTypes, SyncGoto, SyncSignal, Finish
    <3> QED BY <1>0, <2>2, <3>1, <3>2, <3>3, Zenon
  <2> QED BY <2>1, <2>2, Zenon
<1>1. NumbersInv'
  <2>1. CASE VerifyReady(i)
    <3>1. /\ syncSeq[i] = 0 /\ syncCounts["ready"] \in Nat /\ syncCounts'["ready"] = syncCounts["ready"] + 1
          /\ syncSeq' = [syncSeq EXCEPT ![i] = syncCounts["ready"] + 1]
          /\ \A j \in SyncInstances : syncSeq[j] \in Nat /\ syncSeq[j] <= syncCounts["ready"]
      BY <2>1, Zenon
         DEF SyncInv, SyncTypes, VerifyInv, VerifyPlaces, VerifyReady, SyncSignal, Number
    <3>2. ASSUME NEW j \in SyncInstances, NEW k \in SyncInstances, syncSeq'[j] = syncSeq'[k], syncSeq'[j] # 0
          PROVE  j = k
      BY <3>1, <3>2 DEF SyncInv, SyncTypes, VerifyInv, NumbersInv
    <3>3. ASSUME NEW n \in 1 .. syncCounts'["ready"] PROVE \E j \in SyncInstances : syncSeq'[j] = n
      <4>1. CASE n = syncCounts["ready"] + 1
        BY <3>1, <4>1, Zenon DEF SyncInv, SyncTypes
      <4>2. CASE n # syncCounts["ready"] + 1
        <5>1. n \in 1 .. syncCounts["ready"]
          BY <3>1, <4>2
        <5>2. PICK j \in SyncInstances : syncSeq[j] = n
          BY <5>1, Zenon DEF SyncInv, VerifyInv, NumbersInv
        <5>3. j # i /\ syncSeq'[j] = n
          BY <3>1, <5>1, <5>2 DEF SyncInv, SyncTypes
        <5> QED BY <5>3, Zenon
      <4> QED BY <4>1, <4>2, Zenon
    <3> QED BY <3>2, <3>3, Zenon DEF NumbersInv
  <2>2. CASE ~VerifyReady(i)
    <3>1. syncSeq' = syncSeq /\ syncCounts'["ready"] = syncCounts["ready"]
      BY <1>0, <1>c, <2>2, Zenon
         DEF SyncInv, SyncTypes, PublishNetwork, TargetFinishes, PingNetwork, AllFinished,
         SyncSignal, Finish
    <3> QED BY <3>1, Zenon DEF SyncInv, VerifyInv, NumbersInv
  <2> QED BY <2>1, <2>2, Zenon
<1>2. Through \subseteq Through'
  <2>1. CASE ChooseMode(i)
    BY <1>c, <2>1, Zenon DEF SyncInv, SyncTypes, SyncGoto, Finish, Through
  <2>2. CASE VerifyReady(i)
    BY <2>2 DEF SyncInv, SyncTypes, VerifyReady, SyncGoto, Number, Through
  <2>3. CASE PublishNetwork(i) \/ TargetFinishes(i) \/ PingNetwork(i) \/ AllFinished(i)
    BY <2>3, Zenon
       DEF SyncInv, SyncTypes, PublishNetwork, TargetFinishes, PingNetwork, AllFinished, SyncGoto, Finish, Through
  <2> QED BY <1>0, <2>1, <2>2, <2>3, Zenon
<1>3. Counts(syncCounts["finished"], Through)'
  <2>1. CASE syncCounts'["finished"] = syncCounts["finished"]
    BY <1>2, <2>1, CountKept, SyncFinite, Zenon DEF SyncInv, VerifyInv
  <2>2. CASE Finish(i) /\ syncPc[i] \in {"ready", "published", "ping"}
    <3>1. syncCounts'["finished"] = syncCounts["finished"] + 1 /\ i \in Through' /\ i \notin Through
      BY <2>2, Zenon DEF SyncInv, SyncTypes, Finish, SyncGoto, SyncSignal, Through
    <3> QED BY <1>2, <3>1, CountUp, SyncFinite DEF SyncInv, VerifyInv
  <2> QED BY <1>0, <1>c, <2>1, <2>2, Zenon
             DEF SyncInv, SyncTypes, VerifyReady, PublishNetwork, TargetFinishes, PingNetwork,
     AllFinished, SyncSignal
<1>p. PublishNetwork(i) => \/ Len(nets) = 0 /\ nets' = Append(nets, "control") /\ UNCHANGED <<syncPc, syncCounts>>
                           \/ Len(nets) = 1 /\ nets' = Append(nets, "data") /\ UNCHANGED <<syncPc, syncCounts>>
                           \/ /\ Len(nets) = 2 /\ nets' = Append(nets, "endOfNetworks")
                              /\ SyncSignal("target_ready") /\ SyncGoto(i, "published")
  <2>1. syncPc[i] = "target" => Len(nets) <= 2 /\ Len(nets) \in Nat
    BY DEF SyncInv, VerifyInv, VerifyPlaces, TopicInv
  <2>2. Len(Networks) = 2 /\ Networks[1] = "control" /\ Networks[2] = "data"
    BY Zenon DEF Networks
  <2>3. PublishNetwork(i) => Len(nets) = 0 \/ Len(nets) = 1 \/ Len(nets) = 2
    <3>1. PublishNetwork(i) => syncPc[i] = "target"
      BY Zenon DEF PublishNetwork
    <3>2. \A n \in Nat : n <= 2 => n = 0 \/ n = 1 \/ n = 2
      OBVIOUS
    <3> QED BY <2>1, <3>1, <3>2, Zenon
  <2>4. PublishNetwork(i) /\ Len(nets) = 0 => nets' = Append(nets, "control") /\ UNCHANGED <<syncPc, syncCounts>>
    BY <2>2 DEF PublishNetwork
  <2>5. PublishNetwork(i) /\ Len(nets) = 1 => nets' = Append(nets, "data") /\ UNCHANGED <<syncPc, syncCounts>>
    BY <2>2 DEF PublishNetwork
  <2>6. PublishNetwork(i) /\ Len(nets) = 2 => /\ nets' = Append(nets, "endOfNetworks")
                                             /\ SyncSignal("target_ready") /\ SyncGoto(i, "published")
    BY <2>2 DEF PublishNetwork, endOfNetworks
  <2> QED BY <2>3, <2>4, <2>5, <2>6, Zenon
<1>q. PublishNetwork(i) => (syncPc' = syncPc /\ Len(nets') <= 2) \/ SyncGoto(i, "published")
  <2>1. nets \in Seq({"control", "data", "endOfNetworks"})
    BY Zenon DEF SyncInv, VerifyInv, TopicInv
  <2> QED BY <1>p, <2>1
\* The pinged networks, in their order.
<1>r. PingNetwork(i) =>
        \/ read = 0 /\ read' = 1 /\ failures' = (IF isolated THEN {} ELSE {"control"}) /\ UNCHANGED <<syncPc, syncCounts>>
        \/ read = 1 /\ read' = 2 /\ failures' = failures /\ UNCHANGED <<syncPc, syncCounts>>
        \/ read = 2 /\ read' = 3 /\ failures' = failures /\ Finish(i)
  <2> SUFFICES ASSUME PingNetwork(i)
               PROVE \/ /\ read = 0 /\ read' = 1 /\ failures' = (IF isolated THEN {} ELSE {"control"})
                        /\ UNCHANGED <<syncPc, syncCounts>>
                     \/ read = 1 /\ read' = 2 /\ failures' = failures /\ UNCHANGED <<syncPc, syncCounts>>
                     \/ read = 2 /\ read' = 3 /\ failures' = failures /\ Finish(i)
    BY Zenon
  <2>1. read \in {0, 1, 2} /\ read' = read + 1 /\ read < Len(nets) /\ Len(nets) \in Nat /\ syncPc[i] = "ping"
    BY DEF SyncInv, VerifyInv, VerifyPlaces, TopicInv, PingNetwork
  <2>2. \E j \in SyncInstances : syncSeq[j] = 1 /\ syncPc[j] \notin {"returned", "failed"}
    <3>1. i \notin Through
      BY <2>1, Zenon DEF Through
    <3>2. syncCounts["ready"] >= 1
      BY <2>1 DEF SyncInv, SyncTypes, VerifyInv, VerifyPlaces
    <3>3. \E j \in SyncInstances : syncSeq[j] = 1
      BY <3>2 DEF SyncInv, SyncTypes, VerifyInv, NumbersInv
    <3>4. \A j \in SyncInstances : syncPc[j] # "failed"
      <4>1. syncCounts["target_ready"] >= 1
        BY Zenon DEF PingNetwork, Reached
      <4>2. syncCounts["target_ready"] # 0
        BY <4>1
      <4> QED BY <4>2, Zenon DEF SyncInv, VerifyInv, FailInv
    <3> QED BY <3>1, <3>3, <3>4, Zenon DEF SyncInv, VerifyInv, VerifyPlaces
  <2>3. CASE read = 0
    <3>0. read' = 1 /\ Len(nets) >= 1 /\ ~(read > 0)
      BY <2>1, <2>3
    <3>1. nets[read'] = "control" /\ read' = 1 /\ failures = {}
      BY <3>0, Zenon DEF SyncInv, VerifyInv, TopicInv
    <3>2. Answers("control") <=> ~isolated
      BY <2>2, Zenon DEF Answers
    <3>3. UNCHANGED <<syncPc, syncCounts>>
      BY <3>1, Zenon DEF PingNetwork, endOfNetworks
    <3>4. CASE isolated
      <4>1. ~(Answers(nets[read']) = (nets[read'] = "control"))
        BY <3>1, <3>2, <3>4, Zenon
      <4>2. failures' = failures
        BY <3>1, <4>1, Zenon DEF PingNetwork, endOfNetworks
      <4> QED BY <2>3, <3>1, <3>3, <3>4, <4>2, Zenon
    <3>5. CASE ~isolated
      <4>1. Answers(nets[read']) = (nets[read'] = "control")
        BY <3>1, <3>2, <3>5, Zenon DEF Answers
      <4>2. failures' = failures \union {nets[read']}
        BY <3>1, <4>1, Zenon DEF PingNetwork, endOfNetworks
      <4> QED BY <2>3, <3>1, <3>3, <3>5, <4>2, Zenon
    <3> QED BY <3>4, <3>5, Zenon
  <2>4. CASE read = 1
    <3>0. read' = 2 /\ Len(nets) >= 2
      BY <2>1, <2>4
    <3>1. nets[read'] = "data" /\ read' = 2
      BY <3>0, Zenon DEF SyncInv, VerifyInv, TopicInv
    <3>2. Answers("data")
      BY <2>2, Zenon DEF Answers
    <3>a. "data" # "control"
      BY Zenon
    <3>3. ~(Answers(nets[read']) = (nets[read'] = "control"))
      BY <3>1, <3>2, <3>a, Zenon
    <3> QED BY <2>4, <3>1, <3>3, Zenon DEF PingNetwork, endOfNetworks
  <2>5. CASE read = 2
    <3>0. read' = 3 /\ Len(nets) >= 3
      BY <2>1, <2>5
    <3>1. nets[read'] = "endOfNetworks" /\ read' = 3
      BY <3>0, Zenon DEF SyncInv, VerifyInv, TopicInv
    <3> QED BY <2>5, <3>1, Zenon DEF PingNetwork, endOfNetworks
  <2> QED BY <2>1, <2>3, <2>4, <2>5, Zenon
<1>4. TopicInv'
  <2>0. /\ (\E j \in SyncInstances : syncSeq[j] = 1 /\ syncPc[j] \notin {"start", "ready"})
             => \E j \in SyncInstances : syncSeq'[j] = 1 /\ syncPc'[j] \notin {"start", "ready"}
        /\ (\E j \in SyncInstances : syncSeq[j] = 2 /\ syncPc[j] \notin {"start", "ready"})
             => \E j \in SyncInstances : syncSeq'[j] = 2 /\ syncPc'[j] \notin {"start", "ready"}
        /\ PublishNetwork(i) => \E j \in SyncInstances : syncSeq'[j] = 1 /\ syncPc'[j] \notin {"start", "ready"}
        /\ PingNetwork(i) => \E j \in SyncInstances : syncSeq'[j] = 2 /\ syncPc'[j] \notin {"start", "ready"}
    <3>1. ASSUME NEW j \in SyncInstances, syncPc[j] \notin {"start", "ready"}
          PROVE  syncSeq'[j] = syncSeq[j] /\ syncPc'[j] \notin {"start", "ready"}
      <4>1. CASE ChooseMode(i)
        BY <1>c, <3>1, <4>1, Zenon DEF SyncInv, SyncTypes, SyncGoto, Finish
      <4>2. CASE VerifyReady(i)
        BY <3>1, <4>2, Zenon DEF SyncInv, SyncTypes, VerifyReady, SyncGoto, Number
      <4>3. CASE PublishNetwork(i)
        BY <1>p, <3>1, <4>3, Zenon DEF SyncInv, SyncTypes, PublishNetwork, SyncGoto
      <4>4. CASE PingNetwork(i)
        BY <1>r, <3>1, <4>4, Zenon DEF SyncInv, SyncTypes, PingNetwork, SyncGoto, Finish
      <4>5. CASE TargetFinishes(i) \/ AllFinished(i)
        BY <3>1, <4>5, Zenon DEF SyncInv, SyncTypes, TargetFinishes, AllFinished, SyncGoto, Finish
      <4> QED BY <1>0, <4>1, <4>2, <4>3, <4>4, <4>5, Zenon
    <3>2. /\ PublishNetwork(i) => syncPc[i] = "target" /\ syncSeq[i] = 1
          /\ PingNetwork(i) => syncPc[i] = "ping" /\ syncSeq[i] = 2
      BY Zenon DEF PublishNetwork, PingNetwork, SyncInv, VerifyInv, VerifyPlaces
    <3> QED BY <3>1, <3>2, Zenon
  <2>1. CASE PublishNetwork(i)
    <3>1. nets \in Seq({"control", "data", "endOfNetworks"}) /\ UNCHANGED <<read, failures, isolated>>
      BY <2>1, Zenon DEF SyncInv, VerifyInv, TopicInv, PublishNetwork
    <3>2. /\ nets' \in Seq({"control", "data", "endOfNetworks"}) /\ Len(nets') = Len(nets) + 1 /\ Len(nets') <= 3
          /\ \A k \in 1 .. Len(nets) : nets'[k] = nets[k]
          /\ nets'[Len(nets')] = <<"control", "data", "endOfNetworks">>[Len(nets')]
      BY <1>p, <2>1, <3>1
    <3> QED BY <2>0, <2>1, <3>1, <3>2 DEF SyncInv, VerifyInv, TopicInv
  <2>2. CASE PingNetwork(i)
    <3>1. nets' = nets /\ isolated' = isolated /\ read < Len(nets) /\ TopicInv
      BY <2>2, Zenon DEF PingNetwork, SyncInv, VerifyInv
    <3>2. Len(nets) \in Nat
      BY <3>1 DEF TopicInv
    <3>3. read' \in Nat /\ read' <= Len(nets) /\ read' > 0 /\ (read = 0 \/ read > 0)
      BY <1>r, <2>2, <3>1, <3>2
    <3>4. failures' = IF ~isolated THEN {"control"} ELSE {}
      <4>1. CASE read > 0
        <5>1. failures' = failures /\ failures = IF ~isolated THEN {"control"} ELSE {}
          <6>1. read # 0
            BY <4>1
          <6> QED BY <1>r, <2>2, <3>1, <4>1, <6>1, Zenon DEF TopicInv
        <5> QED BY <5>1, Zenon
      <4>2. CASE read = 0
        <5>1. read # 1 /\ read # 2
          BY <4>2
        <5> QED BY <1>r, <2>2, <4>2, <5>1, Zenon
      <4> QED BY <3>3, <4>1, <4>2, Zenon
    <3>5. failures' = IF read' > 0 /\ ~isolated' THEN {"control"} ELSE {}
      <4>1. isolated' <=> isolated
        BY <3>1 DEF SyncInv, SyncTypes
      <4>2. CASE isolated
        BY <3>4, <4>1, <4>2, Zenon
      <4>3. CASE ~isolated
        BY <3>3, <3>4, <4>1, <4>3, Zenon
      <4> QED BY <4>2, <4>3, Zenon
    <3>6. /\ nets' \in Seq({"control", "data", "endOfNetworks"}) /\ Len(nets') <= 3
          /\ Len(nets') >= 1 => nets'[1] = "control"
          /\ Len(nets') >= 2 => nets'[2] = "data"
          /\ Len(nets') >= 3 => nets'[3] = "endOfNetworks"
          /\ read' <= Len(nets')
      BY <3>1, <3>3, Zenon DEF TopicInv
    <3>7. /\ Len(nets') > 0 => \E k \in SyncInstances : syncSeq'[k] = 1 /\ syncPc'[k] \notin {"start", "ready"}
          /\ \E k \in SyncInstances : syncSeq'[k] = 2 /\ syncPc'[k] \notin {"start", "ready"}
      BY <2>0, <2>2, <3>1, Zenon DEF TopicInv
    <3> QED BY <3>3, <3>5, <3>6, <3>7, Zenon DEF TopicInv
  <2>3. CASE UNCHANGED <<nets, read, failures>>
    BY <2>0, <2>3, Zenon DEF SyncInv, VerifyInv, TopicInv
  <2> QED BY <1>0, <2>1, <2>2, <2>3, Zenon
             DEF VerifyReady, ChooseMode, TargetFinishes, AllFinished
<1>5. ASSUME NEW j \in SyncInstances PROVE VerifyPlaces(j)'
  <2>0. (\E k \in SyncInstances : syncPc[k] = "returned") => Through' = SyncInstances
    BY <1>2, Zenon DEF SyncInv, VerifyInv, VerifyPlaces, Through
  <2> USE <2>0, SyncFinite DEF SyncInv, SyncTypes, VerifyInv, VerifyPlaces, SyncGoto, SyncSignal, Reached, Finish, SyncN
  <2>1. CASE VerifyReady(i)
    BY <2>1 DEF VerifyReady, Number
  <2>2. CASE ChooseMode(i)
    <3>1. UNCHANGED <<syncSeq, nets, read>> /\ syncPc[i] = "ready" /\ syncCounts["ready"] >= SyncN
      BY <1>c, <2>2, Zenon
    <3>2. CASE j # i
      <4>1. syncPc'[j] = syncPc[j] /\ syncCounts'["ready"] = syncCounts["ready"]
        BY <1>c, <2>2, <3>2, Zenon
      <4> QED BY <2>0, <3>1, <4>1, Zenon
    <3>3. CASE j = i
      <4>1. syncCounts'["ready"] = syncCounts["ready"]
        BY <1>c, <2>2, Zenon
      <4>2. \/ syncSeq[i] = 1 /\ syncPc'[i] = "target"
            \/ syncSeq[i] = 2 /\ syncPc'[i] = "ping"
            \/ syncSeq[i] > 2 /\ syncPc'[i] = "finished"
        BY <1>c, <2>2, Zenon
      <4>3. (syncSeq[i] = 1 => Len(nets) <= 2) /\ (syncSeq[i] = 2 => read <= 2)
        <5>1. ASSUME syncSeq[i] = 1, Len(nets) > 0 PROVE FALSE
          <6>1. PICK k \in SyncInstances : syncSeq[k] = 1 /\ syncPc[k] \notin {"start", "ready"}
            BY <5>1, Zenon DEF TopicInv
          <6>2. k = i
            BY <5>1, <6>1 DEF NumbersInv
          <6> QED BY <3>1, <6>1, <6>2, Zenon
        <5>2. ASSUME syncSeq[i] = 2, read > 0 PROVE FALSE
          <6>1. PICK k \in SyncInstances : syncSeq[k] = 2 /\ syncPc[k] \notin {"start", "ready"}
            BY <5>2, Zenon DEF TopicInv
          <6>2. k = i
            BY <5>2, <6>1 DEF NumbersInv
          <6> QED BY <3>1, <6>1, <6>2, Zenon
        <5>3. Len(nets) \in Nat /\ read \in Nat
          BY DEF TopicInv
        <5> QED BY <5>1, <5>2, <5>3
      <4> QED BY <3>1, <3>3, <4>1, <4>2, <4>3
    <3> QED BY <3>2, <3>3, Zenon
  <2>3. CASE PublishNetwork(i)
    <3>1. syncPc[i] = "target" /\ UNCHANGED <<syncSeq, read>> /\ nets \in Seq({"control", "data", "endOfNetworks"})
      BY <2>3, Zenon DEF PublishNetwork, TopicInv
    <3>2. j # i => syncPc[j] # "target"
      BY <3>1 DEF NumbersInv
    <3>3. syncCounts'["ready"] = syncCounts["ready"]
      BY <1>p, <2>3, Zenon
    <3>4. CASE j = i
      <4>1. (syncPc'[i] = "target" /\ Len(nets') <= 2) \/ syncPc'[i] = "published"
        BY <1>q, <2>3, <3>1, Zenon
      <4> QED BY <3>1, <3>3, <3>4, <4>1, Zenon
    <3>5. CASE j # i
      <4>1. syncPc'[j] = syncPc[j]
        BY <1>p, <2>3, <3>5, Zenon
      <4> QED BY <2>0, <3>1, <3>2, <3>3, <3>5, <4>1, Zenon
    <3> QED BY <3>4, <3>5, Zenon
  <2>4. CASE TargetFinishes(i)
    BY <2>4 DEF TargetFinishes
  <2>5. CASE PingNetwork(i)
    <3>1. syncPc[i] = "ping" /\ UNCHANGED <<syncSeq, nets>> /\ syncSeq[i] = 2
      BY <2>5, Zenon DEF PingNetwork
    <3>2. j # i => syncSeq[j] # 2
      BY <3>1 DEF NumbersInv
    <3>3. \/ read' <= 2 /\ UNCHANGED <<syncPc, syncCounts>>
          \/ read' = 3 /\ Finish(i)
      BY <1>r, <2>5
    <3>4. syncCounts'["ready"] = syncCounts["ready"]
      BY <3>3, Zenon
    <3>5. CASE j = i
      <4>1. (syncPc'[i] = "ping" /\ read' <= 2) \/ (syncPc'[i] = "finished" /\ read' = 3)
        BY <3>1, <3>3, Zenon
      <4> QED BY <3>1, <3>4, <3>5, <4>1, Zenon
    <3>6. CASE j # i
      <4>1. syncPc'[j] = syncPc[j]
        BY <3>3, <3>6, Zenon
      <4> QED BY <2>0, <3>1, <3>2, <3>4, <3>6, <4>1, Zenon
    <3> QED BY <3>5, <3>6, Zenon
  <2>6. CASE AllFinished(i)
    <3>1. Through = SyncInstances
      BY <2>6, CountAll, SyncAssumption, Zenon DEF AllFinished, Through
    <3>2. Through' = SyncInstances
      BY <3>1, <1>2, Zenon DEF Through
    <3> QED BY <2>6, <3>2, Zenon DEF AllFinished
  <2> QED BY <1>0, <2>1, <2>2, <2>3, <2>4, <2>5, <2>6, Zenon
<1>6. FailInv'
  <2>1. /\ \A j \in SyncInstances : syncPc'[j] = "failed" <=> syncPc[j] = "failed"
        /\ \A j \in SyncInstances : syncSeq[j] = 1 => syncSeq'[j] = 1
        /\ \A j \in SyncInstances : syncPc[j] \in {"published", "finished", "returned"}
              => syncPc'[j] \in {"published", "finished", "returned"}
    <3>1. CASE VerifyReady(i)
      <4>1. syncSeq[i] = 0
        BY <3>1, Zenon DEF VerifyReady, SyncInv, VerifyInv, VerifyPlaces
      <4> QED BY <3>1, <4>1 DEF SyncInv, SyncTypes, VerifyReady, SyncGoto, Number
    <3>2. CASE ChooseMode(i)
      BY <1>c, <3>2, Zenon DEF SyncInv, SyncTypes, SyncGoto, Finish
    <3>3. CASE PublishNetwork(i)
      BY <3>3, Zenon DEF SyncInv, SyncTypes, PublishNetwork, SyncGoto
    <3>4. CASE PingNetwork(i)
      BY <3>4, Zenon DEF SyncInv, SyncTypes, PingNetwork, SyncGoto, Finish
    <3>5. CASE TargetFinishes(i) \/ AllFinished(i)
      BY <3>5, Zenon DEF SyncInv, SyncTypes, TargetFinishes, AllFinished, SyncGoto, Finish
    <3> QED BY <1>0, <3>1, <3>2, <3>3, <3>4, <3>5, Zenon
  <2>2. \/ syncCounts'["target_ready"] = syncCounts["target_ready"]
        \/ syncSeq[i] = 1 /\ syncPc[i] = "target" /\ syncPc'[i] = "published"
    <3>1. CASE PublishNetwork(i)
      BY <1>p, <3>1, Zenon DEF SyncInv, SyncTypes, VerifyInv, VerifyPlaces, PublishNetwork, SyncGoto
    <3>2. CASE ~PublishNetwork(i)
      BY <1>0, <1>c, <3>2, Zenon
         DEF SyncInv, SyncTypes, VerifyReady, TargetFinishes, PingNetwork, AllFinished, SyncSignal, Finish
    <3> QED BY <3>1, <3>2, Zenon
  <2>3. CASE syncCounts'["target_ready"] = syncCounts["target_ready"]
    BY <2>1, <2>3, Zenon DEF SyncInv, VerifyInv, FailInv
  <2>4. CASE syncSeq[i] = 1 /\ syncPc[i] = "target" /\ syncPc'[i] = "published"
    <3>1. \A k \in SyncInstances : syncSeq[k] = 1 => k = i
      <4>1. \A k \in SyncInstances : syncSeq[k] = syncSeq[i] /\ syncSeq[k] # 0 => k = i
        BY Zenon DEF SyncInv, VerifyInv, NumbersInv
      <4> QED BY <2>4, <4>1
    <3>2. \A j \in SyncInstances : syncPc[j] # "failed"
      BY <2>4, <3>1, Zenon DEF SyncInv, VerifyInv, FailInv
    <3> QED BY <2>1, <2>4, <3>2, Zenon DEF FailInv
  <2> QED BY <2>2, <2>3, <2>4, Zenon
<1> QED BY <1>t, <1>1, <1>3, <1>4, <1>5, <1>6, Zenon DEF SyncInv, VerifyInv

\* Every step of the sync plans keeps the invariant.
LEMMA SyncInductive == SyncInv /\ [SyncNext]_syncVars => SyncInv'
<1> SUFFICES ASSUME SyncInv, [SyncNext]_syncVars PROVE SyncInv'
  BY Zenon
<1>1. CASE SyncNext
  <2>1. syncCase = "sync" \/ syncCase = "verify"
    BY Zenon DEF SyncInv, SyncTypes
  <2> QED BY <1>1, <2>1, ExampleStep, VerifyFails, VerifyStep, Zenon DEF SyncNext
<1>2. CASE UNCHANGED syncVars
  <2>0. UNCHANGED <<syncCase, isolated, syncPc, syncSeq, syncCounts, nets, read, failures>>
    BY <1>2, Zenon DEF syncVars
  <2>1. Followers' = Followers /\ Through' = Through
    BY <2>0, Zenon DEF Followers, Through
  <2>2. SyncTypes'
    BY <2>0 DEF SyncInv, SyncTypes
  <2>3. ExampleInv => ExampleInv'
    BY <2>0, <2>1 DEF ExampleInv, ExamplePlaces, Counts
  <2>4. (\A i \in SyncInstances : VerifyPlaces(i)) => \A i \in SyncInstances : VerifyPlaces(i)'
    BY <2>0, <2>1 DEF VerifyPlaces
  <2>5. /\ NumbersInv => NumbersInv'
        /\ FailInv => FailInv'
    BY <2>0 DEF NumbersInv, FailInv
  <2>6. TopicInv => TopicInv'
    BY <2>0 DEF TopicInv
  <2>7. VerifyInv => VerifyInv'
    BY <2>0, <2>1, <2>4, <2>5, <2>6 DEF VerifyInv, Counts
  <2> QED BY <2>0, <2>2, <2>3, <2>7, Zenon DEF SyncInv
<1> QED BY <1>1, <1>2, Zenon

\* Nobody has enrolled when the sync plans start.
LEMMA SyncInitially == SyncInit => SyncInv
<1> SUFFICES ASSUME SyncInit PROVE SyncInv
  BY Zenon
<1>1. /\ SyncTypes /\ syncCounts["ready"] = 0 /\ syncCounts["finished"] = 0 /\ syncCounts["released"] = 0
      /\ syncCounts["target_ready"] = 0
  BY Zenon DEF SyncInit, SyncTypes, States
<1>2. Counts(0, Followers) /\ Counts(0, Through)
  BY SyncFinite, FS_CardinalityType DEF Counts
<1>3. TopicInv
  BY DEF SyncInit, TopicInv
<1> QED BY <1>1, <1>2, <1>3
           DEF SyncInit, SyncInv, ExampleInv, ExamplePlaces, VerifyInv, VerifyPlaces, NumbersInv,
               FailInv

\* ExampleSync (plans/example) and UsesDataNetwork (plans/verify) keep their invariant, for any
\* number of instances.
THEOREM SyncInvariant == SyncSpec => []SyncInv
BY SyncInitially, SyncInductive, PTL DEF SyncSpec

\* What the invariant says of the release of the followers and of the judged networks.
LEMMA SyncBarriers == SyncInv => ReleasedTogether /\ JudgesNetworks
<1> SUFFICES ASSUME SyncInv PROVE ReleasedTogether /\ JudgesNetworks
  BY Zenon
<1>1. ReleasedTogether
  BY Zenon DEF SyncInv, SyncTypes, ExampleInv, ExamplePlaces, ReleasedTogether
<1>2. ASSUME syncCase = "verify", SyncN >= 2, NEW i \in SyncInstances, syncPc[i] = "returned"
      PROVE  failures = IF isolated THEN {} ELSE {"control"}
  <2>1. Through = SyncInstances /\ syncCounts["ready"] >= SyncN /\ syncCounts["ready"] \in Nat
    BY <1>2, Zenon DEF SyncInv, SyncTypes, States, VerifyInv, VerifyPlaces
  <2>2. PICK j \in SyncInstances : syncSeq[j] = 2
    BY <1>2, <2>1, SyncFinite DEF SyncInv, VerifyInv, NumbersInv
  <2>3. read = 3
    <3>1. PICK k \in SyncInstances : syncSeq[k] = 1
      <4>1. 1 \in 1 .. syncCounts["ready"]
        BY <1>2, <2>1, SyncFinite
      <4> QED BY <1>2, <4>1, Zenon DEF SyncInv, VerifyInv, NumbersInv
    <3>2. \A x \in SyncInstances : syncSeq[x] = 1 => x = k
      BY <1>2, <3>1 DEF SyncInv, VerifyInv, NumbersInv
    <3>3. syncPc[j] # "failed"
      BY <1>2, <2>1, <3>1, <3>2, Zenon DEF SyncInv, VerifyInv, FailInv, Through
    <3> QED BY <1>2, <2>1, <2>2, <3>3, Zenon DEF SyncInv, VerifyInv, VerifyPlaces, Through
  <2> QED BY <1>2, <2>3 DEF SyncInv, VerifyInv, TopicInv
<1> QED BY <1>1, <1>2, Zenon DEF JudgesNetworks

-----------------------------------------------------------------------------
\* No barrier of Storm, BarrierBench, SubtreeBench or ExampleSync lets anyone pass before
\* all that it counts (SignalAndWait, Barrier), and UsesDataNetwork fails just when the
\* control network answers, whatever the order of the steps.
THEOREM PlansKeepStep == StormSpec /\ BenchSpec /\ SyncSpec => []BarriersHold
<1>1. StormInv /\ BenchInv /\ SyncInv => BarriersHold
  BY StormBarriers, BenchBarriers, SyncBarriers, Zenon DEF BarriersHold
<1> QED BY <1>1, StormInvariant, BenchInvariant, SyncInvariant, PTL
=============================================================================
