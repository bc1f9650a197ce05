------------------------- MODULE LocalDockerShared -------------------------
(***************************************************************************)
(* What concurrent runs of local:docker share: the runner's read-write     *)
(* lock, its sync client and the subnets of the data networks.  A run is   *)
(* preceded by a health check, which locks for writing, and so does the    *)
(* set-up of the sync client at its start; the run itself locks for        *)
(* reading, and so does the collection of outputs.                         *)
(*                                                                         *)
(* The lock is Go's sync.RWMutex: a writer that waits keeps new readers    *)
(* out, and a writer that unlocks lets the readers that wait in first.     *)
(***************************************************************************)
EXTENDS Naturals, FiniteSets

CONSTANTS Runs, Collections, NoOne,
          MaxNetworks     \* bound: the data networks, 4096 in the code

ASSUME SharedAssumption == NoOne \notin Runs /\ Runs \cap Collections = {}

VARIABLES
  place,       \* where each run and each collection is
  readers,     \* who holds the lock for reading
  waiting,     \* who waits to lock for reading
  writer,      \* who holds the lock for writing, or is first in line for it
  client,      \* the sync clients that were connected
  missing,     \* the runs that saw no sync client
  net,         \* the data network of each run, or None
  count        \* the number of networks each run listed

lockVars == <<readers, waiting, writer>>
sharedVars == <<place, lockVars, client, missing, net, count>>

Procs == Runs \cup Collections
None == MaxNetworks
Networks == {net[r] : r \in Runs} \ {None}
Goto(p, label) == place' = [place EXCEPT ![p] = label]

SharedInit ==
  /\ place = [p \in Procs |-> "idle"]
  /\ readers = {} /\ waiting = {} /\ writer = NoOne
  /\ client = 0 /\ missing = {} /\ net = [r \in Runs |-> None] /\ count = [r \in Runs |-> 0]

-----------------------------------------------------------------------------
(* sync.RWMutex.                                                            *)

Lock(p) == writer = NoOne /\ writer' = p /\ UNCHANGED <<readers, waiting>>
Locked(p) == writer = p /\ readers = {}
Unlock(p) == writer' = NoOne /\ readers' = readers \cup waiting /\ waiting' = {}

RLock(p) ==
  /\ IF writer = NoOne THEN readers' = readers \cup {p} /\ UNCHANGED waiting
                       ELSE waiting' = waiting \cup {p} /\ UNCHANGED readers
  /\ UNCHANGED writer
RUnlock(p) == readers' = readers \ {p} /\ UNCHANGED <<waiting, writer>>

-----------------------------------------------------------------------------
(* A run.                                                                   *)

Request(r) ==
  /\ place[r] = "idle" /\ Goto(r, "healthcheck") /\ UNCHANGED <<lockVars, client, missing, net, count>>

LockHealthcheck(r) ==
  /\ place[r] = "healthcheck" /\ Lock(r) /\ Goto(r, "lock_healthcheck")
  /\ UNCHANGED <<client, missing, net, count>>

Healthcheck(r) ==
  /\ place[r] = "lock_healthcheck" /\ Locked(r) /\ Goto(r, "checking")
  /\ UNCHANGED <<lockVars, client, missing, net, count>>

\* The task is over when the checks or the fixes failed.
Checked(r) ==
  /\ place[r] = "checking" /\ Unlock(r)
  /\ Goto(r, "sync_client") \/ Goto(r, "done")
  /\ UNCHANGED <<client, missing, net, count>>

LockSyncClient(r) ==
  /\ place[r] = "sync_client" /\ Lock(r) /\ Goto(r, "lock_sync_client")
  /\ UNCHANGED <<client, missing, net, count>>

CheckClient(r) ==
  /\ place[r] = "lock_sync_client" /\ Locked(r) /\ Goto(r, "connecting")
  /\ missing' = IF client = 0 THEN missing \cup {r} ELSE missing
  /\ UNCHANGED <<lockVars, client, net, count>>

\* Mutant: a connection that fails returns without the deferred unlock.
ConnectKeepsLock(r) ==
  /\ place[r] = "connecting" /\ missing' = missing \ {r}
  /\ \/ Goto(r, "run") /\ client' = (IF r \in missing THEN client + 1 ELSE client) /\ Unlock(r)
     \/ r \in missing /\ Goto(r, "done") /\ UNCHANGED <<client, lockVars>>
  /\ UNCHANGED <<net, count>>

Connect(r) ==
  /\ place[r] = "connecting" /\ missing' = missing \ {r} /\ Unlock(r)
  /\ \/ Goto(r, "run") /\ client' = IF r \in missing THEN client + 1 ELSE client
     \/ r \in missing /\ Goto(r, "done") /\ UNCHANGED client
  /\ UNCHANGED <<net, count>>

LockRun(r) ==
  /\ place[r] = "run" /\ RLock(r) /\ Goto(r, "list") /\ UNCHANGED <<client, missing, net, count>>

\* newDataNetwork: the networks are counted, and the count is the new index.
ListNetworks(r) ==
  /\ place[r] = "list" /\ r \in readers
  /\ \/ count' = [count EXCEPT ![r] = Cardinality(Networks)] /\ Goto(r, "create") /\ UNCHANGED lockVars
     \/ Goto(r, "done") /\ RUnlock(r) /\ UNCHANGED count
  /\ UNCHANGED <<client, missing, net>>

\* nextDataNetwork: the n-th network is 16.0.0.0/16, 16.1.0.0/16, ...
Subnet(n) == <<16 + n \div 256, n % 256>>

\* Docker refuses a network whose subnet another one has.
CreateDataNetwork(r) ==
  /\ place[r] = "create"
  /\ IF count[r] < MaxNetworks /\ \A n \in Networks : Subnet(n) # Subnet(count[r])
     THEN net' = [net EXCEPT ![r] = count[r]] /\ Goto(r, "running") /\ UNCHANGED lockVars
     ELSE Goto(r, "refused") /\ RUnlock(r) /\ UNCHANGED net
  /\ UNCHANGED <<client, missing, count>>

\* The network goes with the containers, unless they are kept.
FinishRun(r) ==
  /\ place[r] = "running" /\ Goto(r, "done") /\ RUnlock(r)
  /\ net' \in {net, [net EXCEPT ![r] = None]}
  /\ UNCHANGED <<client, missing, count>>

-----------------------------------------------------------------------------
(* CollectOutputs reads the output directory.                               *)

LockCollect(c) ==
  /\ place[c] = "idle" /\ RLock(c) /\ Goto(c, "collect") /\ UNCHANGED <<client, missing, net, count>>

Collect(c) ==
  /\ place[c] = "collect" /\ c \in readers /\ RUnlock(c) /\ Goto(c, "done")
  /\ UNCHANGED <<client, missing, net, count>>

-----------------------------------------------------------------------------
RunStep(r) ==
  \/ LockHealthcheck(r) \/ Healthcheck(r) \/ Checked(r) \/ LockSyncClient(r)
  \/ CheckClient(r) \/ Connect(r) \/ LockRun(r) \/ ListNetworks(r) \/ CreateDataNetwork(r)

SharedNext ==
  \/ \E r \in Runs : Request(r) \/ RunStep(r) \/ FinishRun(r)
  \/ \E c \in Collections : LockCollect(c) \/ Collect(c)

SharedSpec == SharedInit /\ [][SharedNext]_sharedVars

\* Goroutines are scheduled and RWMutex serves those who wait for it; that a
\* run's instances come to an end is an assumption of FairSpec only.  Lock is
\* strongly fair: Go's mutex passes to one that has starved.
Served ==
  /\ \A r \in Runs : /\ WF_sharedVars(RunStep(r))
                     /\ SF_sharedVars(LockHealthcheck(r)) /\ SF_sharedVars(LockSyncClient(r))
  /\ \A c \in Collections : WF_sharedVars(Collect(c))

LongRunsSpec == SharedSpec /\ Served
SharedFairness == Served /\ \A r \in Runs : WF_sharedVars(FinishRun(r))
SharedFairSpec == SharedSpec /\ SharedFairness

-----------------------------------------------------------------------------
InRun(r) == place[r] \in {"list", "create", "running"} /\ r \in readers

(* The state stays in its types, and only who asked for the lock has it.    *)
SharedTypeOK ==
  /\ place \in [Procs -> {"idle", "healthcheck", "lock_healthcheck", "checking", "sync_client", "lock_sync_client",
                       "connecting", "run", "list", "create", "running", "refused", "collect", "done"}]
  /\ readers \subseteq Procs /\ waiting \subseteq Procs /\ readers \cap waiting = {}
  /\ writer \in Runs \cup {NoOne} /\ client \in Nat /\ missing \subseteq Runs
  /\ net \in [Runs -> 0..MaxNetworks] /\ count \in [Runs -> 0..MaxNetworks]
  /\ \A p \in Procs : place[p] \in {"idle", "healthcheck", "done", "refused"} => p \notin readers /\ p # writer

(* Runs "will be exclusive of state-altering healthchecks": while a health  *)
(* check runs there is no other one, no run between its networks and its    *)
(* end, and no collection reading the output directory.                     *)
HealthExclusive ==
  \A r \in Runs : place[r] = "checking" => /\ readers = {}
                                        /\ \A q \in Runs \ {r} : place[q] # "checking" /\ ~InRun(q)

(* setupSyncClient sets up the sync client "if it is not set up already":   *)
(* however runs interleave, one client is connected at most.                *)
OneClient == client <= 1

(* Every run that was requested comes to its end, and so does every         *)
(* collection that began, although both wait for one lock.                  *)
AllRunsEnd ==
  /\ \A r \in Runs : place[r] = "healthcheck" ~> place[r] \in {"done", "refused"}
  /\ \A c \in Collections : place[c] = "collect" ~> place[c] = "done"

(* "Find a free network": a run is refused its network only when every      *)
(* subnet is taken.                                                         *)
FindsFree == [][\A r \in Runs : place[r] = "create" /\ place'[r] = "refused" => Cardinality(Networks) = MaxNetworks]_sharedVars

(* "This will allow many runs to run simultaneously": a requested run gets  *)
(* as far as its own network, however long the others run.                  *)
ManyRuns == \A r \in Runs : place[r] = "healthcheck" ~> place[r] \in {"running", "refused", "done"}
=============================================================================
