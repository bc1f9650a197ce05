---------------------------- MODULE DockerProofs ----------------------------
(***************************************************************************)
(* The parts that work with a Docker daemon, for any builds, containers,   *)
(* runs and instances: the Go proxy that builds of docker:go share, the    *)
(* watch of the containers, what concurrent runs of local:docker share,    *)
(* and what one such run stores and leaves behind.                         *)
(***************************************************************************)
EXTENDS DockerGoBuild, DockerWatch, LocalDockerShared, LocalDockerRun, FiniteSetTheorems, TLAPS

-----------------------------------------------------------------------------
(* The Go proxy of docker:go.                                               *)

\* A step of a build that neither has the lock nor takes it leaves the proxy alone.
LEMMA BuildKeepsProxy ==
  ASSUME ProxyInv, NEW b \in Builds, BuildStep(b)
  PROVE  ProxyInv'
<1>1. UNCHANGED <<networks, volume, container, lock, proxyURL>>
  BY Zenon
     DEF BuildStep, Prepare, FindCache, BuildImage, Untag, Tag, Finish, FailBuild, dockerVars
<1>2. \E to \in {"findCache", "build", "failed", "untag", "finish", "noBase", "tag", "done"} :
        at' = [at EXCEPT ![b] = to]
  BY Zenon DEF BuildStep, Prepare, FindCache, BuildImage, Untag, Tag, Finish, FailBuild, At, Go
<1> QED BY <1>1, <1>2, Zenon DEF ProxyInv, ProxyIsUp, Holding, WithNetwork, WithVolume

\* setupGoProxy ends: the lock is free, and the local proxy is only chosen when it is up.
LEMMA ProxyChosen ==
  ASSUME ProxyInv, NEW b \in Builds, NEW url, NEW warn, Proxy(b, url, warn), UNCHANGED dockerVars,
         at[b] \in Holding \/ lock = NoBuild,
         url = "local" => container = "running" /\ networks > 0 /\ volume
  PROVE  ProxyInv'
<1>1. \A c \in Builds : c # b => at[c] \notin Holding
  BY BuildsAssumption, Zenon DEF ProxyInv
<1>2. \A c \in Builds : at'[c] \notin Holding
  BY <1>1, Zenon DEF Proxy, Go, ProxyInv, Holding, WithNetwork
<1>3. \A c \in Builds : proxyURL'[c] = IF c = b THEN url ELSE proxyURL[c]
  BY Zenon DEF Proxy, ProxyInv
<1>4. DOMAIN at' = Builds /\ DOMAIN proxyURL' = Builds
  BY Zenon DEF Proxy, Go, ProxyInv
<1> QED BY <1>2, <1>3, <1>4, Zenon
           DEF ProxyInv, ProxyIsUp, dockerVars, Holding, WithNetwork, WithVolume

\* A step under the lock, to a place where what it found or created is there.
LEMMA ProxyMoves ==
  ASSUME ProxyInv, NEW b \in Builds, NEW to \in Holding, Go(b, to), UNCHANGED proxyURL,
         (at[b] \in Holding /\ UNCHANGED lock) \/ (lock = NoBuild /\ lock' = b),
         networks' \in {0, 1}, networks <= networks', volume => volume',
         container = "running" => container' = "running",
         to = "createNetwork" => networks' = 0, to \in WithNetwork => networks' > 0,
         to \in WithVolume => volume', to = "inspect" => container' = "running"
  PROVE  ProxyInv'
<1>1. \A c \in Builds : c # b => at[c] \notin Holding /\ at'[c] = at[c]
  BY BuildsAssumption DEF ProxyInv, Go
<1>2. at'[b] = to /\ lock' = b
  BY BuildsAssumption, Zenon DEF ProxyInv, Go
<1>3. DOMAIN at' = Builds
  BY Zenon DEF Go, ProxyInv
<1> QED BY <1>1, <1>2, <1>3 DEF ProxyInv, ProxyIsUp, Holding, WithNetwork, WithVolume

\* Each step of setupGoProxy.
LEMMA SetUpKeepsProxy ==
  ASSUME ProxyInv, NEW b \in Builds, SetUpProxy(b)
  PROVE  ProxyInv'
<1> USE DEF Holding, WithNetwork, WithVolume
<1>0. networks \in {0, 1}
  BY DEF ProxyInv, ProxyIsUp
<1>1. CASE Enter(b)
  <2>1. CASE lock' = b /\ Go(b, "findNetwork") /\ UNCHANGED proxyURL
    BY <1>0, <1>1, <2>1, ProxyMoves DEF Enter, dockerVars
  <2> QED BY <1>1, <2>1, ProxyChosen, Zenon DEF Enter
<1>2. CASE FindNetwork(b)
  <2>1. CASE At(b, "findNetwork", IF networks > 0 THEN "findVolume" ELSE "createNetwork")
             /\ UNCHANGED <<dockerVars, lock, proxyURL>>
    BY <1>0, <2>1, ProxyMoves DEF At, dockerVars
  <2> QED BY <1>2, <2>1, ProxyChosen, Zenon DEF FindNetwork
<1>3. CASE CreateNetwork(b)
  <2>1. CASE At(b, "createNetwork", "findVolume") /\ networks' = networks + 1
             /\ UNCHANGED <<volume, container, lock, proxyURL>>
    <3>1. networks = 0 /\ networks' = 1
      BY <2>1 DEF At, ProxyInv
    <3> QED BY <2>1, <3>1, ProxyMoves DEF At
  <2> QED BY <1>3, <2>1, ProxyChosen, Zenon DEF CreateNetwork
<1>4. CASE FindVolume(b)
  <2>1. CASE At(b, "findVolume", IF volume THEN "check" ELSE "createVolume")
             /\ UNCHANGED <<dockerVars, lock, proxyURL>>
    BY <1>0, <2>1, ProxyMoves DEF At, ProxyInv, dockerVars
  <2> QED BY <1>4, <2>1, ProxyChosen, Zenon DEF FindVolume, Warn
<1>5. CASE CreateVolume(b)
  <2>1. CASE At(b, "createVolume", "check") /\ volume' = TRUE
             /\ UNCHANGED <<networks, container, lock, proxyURL>>
    BY <1>0, <2>1, ProxyMoves DEF At, ProxyInv
  <2> QED BY <1>5, <2>1, ProxyChosen, Zenon DEF CreateVolume, Warn
<1>6. CASE CheckContainer(b)
  <2>1. CASE At(b, "check", IF container = "absent" THEN "pull" ELSE "startContainer")
             /\ UNCHANGED <<dockerVars, lock, proxyURL>>
    BY <1>0, <2>1, ProxyMoves DEF At, ProxyInv, dockerVars
  <2>2. CASE at[b] = "check" /\ container = "running" /\ Proxy(b, "local", FALSE) /\ UNCHANGED dockerVars
    BY <2>2, ProxyChosen, Zenon DEF ProxyInv
  <2> QED BY <1>6, <2>1, <2>2, ProxyChosen, Zenon DEF CheckContainer, Warn
<1>7. CASE Pull(b)
  <2>1. CASE At(b, "pull", "createContainer") /\ UNCHANGED <<dockerVars, lock, proxyURL>>
    BY <1>0, <2>1, ProxyMoves DEF At, ProxyInv, dockerVars
  <2> QED BY <1>7, <2>1, ProxyChosen, Zenon DEF Pull, Warn
<1>8. CASE CreateContainer(b)
  <2>1. CASE At(b, "createContainer", "startContainer") /\ container = "absent"
             /\ UNCHANGED <<networks, volume, lock, proxyURL>>
    BY <1>0, <2>1, ProxyMoves DEF At, ProxyInv
  <2> QED BY <1>8, <2>1, ProxyChosen, Zenon DEF CreateContainer, Warn
<1>9. CASE StartContainer(b)
  <2>1. CASE At(b, "startContainer", "inspect") /\ container' = "running"
             /\ UNCHANGED <<networks, volume, lock, proxyURL>>
    BY <1>0, <2>1, ProxyMoves DEF At, ProxyInv
  <2> QED BY <1>9, <2>1, ProxyChosen, Zenon DEF StartContainer, Warn
<1>10. CASE Inspect(b)
  <2>1. CASE at[b] = "inspect" /\ Proxy(b, "local", FALSE) /\ UNCHANGED dockerVars
    BY <2>1, ProxyChosen, Zenon DEF ProxyInv
  <2> QED BY <1>10, <2>1, ProxyChosen, Zenon DEF Inspect, Warn
<1> QED BY <1>1, <1>2, <1>3, <1>4, <1>5, <1>6, <1>7, <1>8, <1>9, <1>10, Zenon DEF SetUpProxy

\* For any number of concurrent builds and any failing calls there is one build network, and
\* a build that was told to use the local proxy finds it up (setupGoProxy).
THEOREM LocalProxyIsUp == GoSpec => []ProxyIsUp
<1>1. GoInit => ProxyInv
  BY BuildsAssumption DEF GoInit, ProxyInv, ProxyIsUp, Holding, WithNetwork, WithVolume
<1>2. ProxyInv /\ [GoNext]_goVars => ProxyInv'
  <2> SUFFICES ASSUME ProxyInv, [GoNext]_goVars PROVE ProxyInv'
    BY Zenon
  <2>1. CASE Purge
    BY <2>1, Zenon DEF Purge, ProxyInv, ProxyIsUp, buildVars
  <2>2. CASE UNCHANGED goVars
    BY <2>2, Zenon DEF goVars, ProxyInv, ProxyIsUp, buildVars, dockerVars
  <2> QED BY <2>1, <2>2, BuildKeepsProxy, SetUpKeepsProxy, Zenon DEF GoNext
<1>3. ProxyInv => ProxyIsUp
  BY Zenon DEF ProxyInv
<1> QED BY <1>1, <1>2, <1>3, PTL DEF GoSpec
-----------------------------------------------------------------------------
(* Manager.Watch.                                                           *)

DaemonEvents == [status : {"start", "die", "stop"}, id : Containers]

\* Position k holds the last event of its container.
LastEvent(k) == \A j \in DOMAIN log : j > k => log[j].id # log[k].id

\* No event of c is left to handle.
Quiet(c) == \A j \in DOMAIN log : j >= next => log[j].id # c

WatchTypes ==
  /\ up \subseteq Containers /\ listed \subseteq Containers /\ managers \subseteq Containers
  /\ log \in Seq(DaemonEvents)
  /\ next \in 1..(Len(log) + 1)
  /\ worker \in [Containers -> {"none", "running", "cancelled", "exited"}]
  /\ pc \in {"now", "list", "existing", "loop", "stopping", "returning", "returned"}

\* A worker that is alive has an entry, or is the one that stop waits for.  Once stop has
\* timed out no worker is started any more.
EntryInv ==
  /\ orphans = {}
  /\ pc \in {"now", "list", "existing", "loop"} => \A c \in Containers \ managers : ~Alive(c)
  /\ pc = "stopping" => \A c \in Containers \ managers : Alive(c) => c = stopping

\* The last event of a container tells whether it is up, whether or not it was handled.
LogInv == \A k \in DOMAIN log : LastEvent(k) => (log[k].status = "start" <=> log[k].id \in up)

\* A container without an event to come is up exactly if it has an entry or gets one from
\* the listing.
ListInv ==
  /\ pc \in {"now", "list"} => managers = {}
  /\ pc \in {"loop", "stopping"} => listed = {}
  /\ pc \in {"existing", "loop", "stopping"} =>
       \A c \in Containers : Quiet(c) => (c \in listed \cup managers <=> c \in up)

WatchInv == WatchTypes /\ EntryInv /\ LogInv /\ ListInv
-----------------------------------------------------------------------------
LEMMA WatchStarts == WatchInit => WatchInv
BY DEF WatchInit, WatchInv, WatchTypes, DaemonEvents, EntryInv, LogInv, ListInv, LastEvent,
       Quiet, Alive

\* The daemon starts or stops c: it logs one or more events, all of c.
Logs(c) ==
  /\ up' \subseteq Containers /\ \A d \in Containers \ {c} : d \in up' <=> d \in up
  /\ log' \in Seq(DaemonEvents) /\ Len(log') \in Nat /\ Len(log') > Len(log)
  /\ \A k \in 1..Len(log) : log'[k] = log[k]
  /\ \A k \in Len(log) + 1 .. Len(log') : log'[k].id = c /\ (log'[k].status = "start" <=> c \in up')
  /\ UNCHANGED <<next, pc, listed, managers, stopping, worker, orphans, ended>>

LEMMA StartLogs == ASSUME WatchTypes, NEW c \in Containers, Start(c) PROVE Logs(c)
<1>1. [status |-> "start", id |-> c] \in DaemonEvents
  BY Zenon DEF DaemonEvents
<1> QED BY <1>1 DEF WatchTypes, Start, Logs, loopVars

LEMMA DieLogs == ASSUME WatchTypes, NEW c \in Containers, Die(c) PROVE Logs(c)
<1> DEFINE die == [status |-> "die", id |-> c]
           stop == [status |-> "stop", id |-> c]
<1>1. die \in DaemonEvents /\ stop \in DaemonEvents /\ log \in Seq(DaemonEvents)
  BY Zenon DEF DaemonEvents, WatchTypes
<1>2. /\ log' \in Seq(DaemonEvents) /\ Len(log') \in Nat /\ Len(log') > Len(log)
      /\ \A k \in 1..Len(log) : log'[k] = log[k]
      /\ \A k \in Len(log) + 1 .. Len(log') : log'[k].id = c /\ log'[k].status # "start"
  <2>1. CASE log' = Append(log, die)
    BY <1>1, <2>1
  <2>2. CASE log' = log \o <<die, stop>>
    <3>1. log' = Append(Append(log, die), stop)
      BY <1>1, <2>2
    <3> QED BY <1>1, <3>1
  <2> QED BY <2>1, <2>2, Zenon DEF Die
<1> QED BY <1>2, Zenon DEF WatchTypes, Die, Logs, loopVars

LEMMA IdOfEvent == ASSUME WatchTypes, NEW k \in 1..Len(log) PROVE log[k].id \in Containers
<1>1. log[k] \in DaemonEvents
  BY DEF WatchTypes
<1> QED BY <1>1, Zenon DEF DaemonEvents

LEMMA LogsInv == ASSUME WatchInv, NEW c \in Containers, Logs(c) PROVE WatchInv'
<1>1. /\ Len(log) \in Nat /\ DOMAIN log = 1..Len(log) /\ DOMAIN log' = 1..Len(log')
      /\ next \in Nat /\ next <= Len(log) + 1
  BY DEF WatchInv, WatchTypes, Logs
<1>2. WatchTypes'
  <2>1. next \in 1..(Len(log') + 1)
    BY <1>1 DEF WatchInv, WatchTypes, Logs
  <2> QED BY <2>1, Zenon DEF WatchInv, WatchTypes, Logs
<1>3. EntryInv'
  BY Zenon DEF WatchInv, WatchTypes, EntryInv, Alive, Logs
<1>4. LogInv'
  <2> SUFFICES ASSUME NEW k \in DOMAIN log', LastEvent(k)'
               PROVE  log'[k].status = "start" <=> log'[k].id \in up'
    BY Zenon DEF LogInv
  <2>1. CASE k \in 1..Len(log)
    <3>1. Len(log) + 1 \in DOMAIN log' /\ Len(log) + 1 > k /\ log'[Len(log) + 1].id = c
      BY <1>1, <2>1 DEF Logs
    <3>2. log[k].id # c /\ log[k].id \in Containers
      BY <1>1, <2>1, <3>1, IdOfEvent, Zenon DEF LastEvent, Logs, WatchInv
    <3>3. LastEvent(k)
      BY <1>1, <2>1 DEF LastEvent, Logs
    <3> QED BY <1>1, <2>1, <3>2, <3>3, Zenon DEF WatchInv, LogInv, Logs
  <2>2. CASE k \in Len(log) + 1 .. Len(log')
    BY <2>2, Zenon DEF Logs
  <2> QED BY <1>1, <2>1, <2>2 DEF Logs
<1>5. ListInv'
  <2> SUFFICES ASSUME NEW d \in Containers, Quiet(d)', pc \in {"existing", "loop", "stopping"}
               PROVE  d \in listed \cup managers <=> d \in up'
    BY Zenon DEF WatchInv, ListInv, Logs
  <2>1. d # c
    BY <1>1 DEF Quiet, Logs
  <2>2. Quiet(d)
    BY <1>1 DEF Quiet, Logs
  <2> QED BY <2>1, <2>2, Zenon DEF WatchInv, ListInv, Logs
<1> QED BY <1>2, <1>3, <1>4, <1>5, Zenon DEF WatchInv

\* Steps that leave the daemon alone keep what the log says about it.
LEMMA LogKept == ASSUME LogInv, UNCHANGED <<up, log>> PROVE LogInv'
BY Zenon DEF LogInv, LastEvent

\* Those that also leave the position alone keep which containers are quiet.
LEMMA QuietKept == ASSUME UNCHANGED <<log, next>>, NEW c PROVE Quiet(c)' <=> Quiet(c)
BY Zenon DEF Quiet
-----------------------------------------------------------------------------
LEMMA NowInv == ASSUME WatchInv, Now PROVE WatchInv'
<1>1. WatchTypes' /\ EntryInv'
  BY DEF WatchInv, WatchTypes, EntryInv, Now, Alive
<1>2. LogInv'
  BY LogKept, Zenon DEF WatchInv, Now
<1> QED BY <1>1, <1>2, Zenon DEF WatchInv, ListInv, Now

LEMMA ListStepInv == ASSUME WatchInv, ListContainers PROVE WatchInv'
<1>1. WatchTypes' /\ EntryInv'
  BY Zenon DEF WatchInv, WatchTypes, EntryInv, ListContainers, Alive
<1>2. LogInv'
  BY LogKept, Zenon DEF WatchInv, ListContainers
<1> QED BY <1>1, <1>2, Zenon DEF WatchInv, ListInv, ListContainers

\* start creates a worker only for a container whose last one is gone.
LEMMA StartWorkerKeeps ==
  ASSUME WatchTypes, NEW c \in Containers, orphans = {},
         \A d \in Containers \ managers : ~Alive(d), StartWorker(c)
  PROVE  /\ managers' = managers \cup {c} /\ orphans' = {}
         /\ worker' \in [Containers -> {"none", "running", "cancelled", "exited"}]
         /\ \A d \in Containers \ managers' : ~Alive(d)'
BY Zenon DEF WatchTypes, StartWorker, Alive

LEMMA ExistingInv == ASSUME WatchInv, Existing PROVE WatchInv'
<1>1. CASE listed = {} /\ pc' = "loop" /\ UNCHANGED <<listed, managers, worker, orphans>>
  <2>1. WatchTypes' /\ EntryInv'
    BY <1>1, Zenon DEF WatchInv, WatchTypes, EntryInv, Existing, Alive
  <2>2. LogInv'
    BY LogKept, Zenon DEF WatchInv, Existing
  <2>3. ListInv'
    BY <1>1, QuietKept, Zenon DEF WatchInv, ListInv, Existing
  <2> QED BY <2>1, <2>2, <2>3, Zenon DEF WatchInv
<1>2. ASSUME NEW c \in listed, listed' = listed \ {c}, StartWorker(c), UNCHANGED pc
      PROVE  WatchInv'
  <2>1. /\ managers' = managers \cup {c} /\ orphans' = {}
        /\ worker' \in [Containers -> {"none", "running", "cancelled", "exited"}]
        /\ \A d \in Containers \ managers' : ~Alive(d)'
    BY <1>2, StartWorkerKeeps, Zenon DEF WatchInv, WatchTypes, EntryInv, Existing
  <2>2. WatchTypes' /\ EntryInv'
    BY <1>2, <2>1, Zenon DEF WatchInv, WatchTypes, EntryInv, Existing
  <2>3. LogInv'
    BY LogKept, Zenon DEF WatchInv, Existing
  <2>4. ListInv'
    BY <1>2, <2>1, QuietKept, Zenon DEF WatchInv, ListInv, Existing
  <2> QED BY <2>2, <2>3, <2>4, Zenon DEF WatchInv
<1> QED BY <1>1, <1>2, Zenon DEF Existing

\* After an event is handled its container has an entry exactly if the event was a start.
LEMMA HandledInv == ASSUME WatchInv, Handle PROVE WatchInv'
<1> DEFINE c == log[next].id
<1>1. /\ next \in DOMAIN log /\ next' = next + 1 /\ next \in Nat /\ c \in Containers
      /\ Len(log) \in Nat /\ DOMAIN log = 1..Len(log)
  BY IdOfEvent DEF WatchInv, WatchTypes, Handle
<1>2. /\ WatchTypes' /\ EntryInv'
      /\ c \in managers' <=> log[next].status = "start"
      /\ \A d \in Containers \ {c} : d \in managers' <=> d \in managers
  <2>1. CASE log[next].status = "start"
    <3>1. /\ managers' = managers \cup {c} /\ orphans' = {}
          /\ worker' \in [Containers -> {"none", "running", "cancelled", "exited"}]
          /\ \A d \in Containers \ managers' : ~Alive(d)'
      BY <1>1, <2>1, StartWorkerKeeps, Zenon DEF WatchInv, WatchTypes, EntryInv, Handle
    <3> QED BY <1>1, <2>1, <3>1 DEF WatchInv, WatchTypes, EntryInv, Handle
  <2>2. CASE log[next].status # "start" /\ c \notin managers
    BY <1>1, <2>2 DEF WatchInv, WatchTypes, EntryInv, Handle, Alive
  <2>3. CASE log[next].status # "start" /\ c \in managers
    BY <1>1, <2>3 DEF WatchInv, WatchTypes, EntryInv, Handle, Alive
  <2> QED BY <2>1, <2>2, <2>3, Zenon
<1>3. LogInv'
  BY LogKept, Zenon DEF WatchInv, Handle
<1>4. ListInv'
  <2>1. listed' = {} /\ listed = {} /\ pc = "loop" /\ pc' \in {"loop", "stopping"} /\ UNCHANGED <<up, log>>
    BY Zenon DEF WatchInv, ListInv, Handle, StartWorker
  <2>2. ASSUME NEW d \in Containers, Quiet(d)' PROVE d \in managers' <=> d \in up
    <3>1. CASE d = c
      <4>1. LastEvent(next)
        BY <1>1, <2>1, <2>2, <3>1 DEF Quiet, LastEvent
      <4> QED BY <1>1, <1>2, <3>1, <4>1, Zenon DEF WatchInv, LogInv
    <3>2. CASE d # c
      <4>1. Quiet(d)
        BY <1>1, <2>1, <2>2, <3>2 DEF Quiet
      <4> QED BY <1>2, <2>1, <3>2, <4>1, Zenon DEF WatchInv, ListInv
    <3> QED BY <3>1, <3>2, Zenon
  <2> QED BY <2>1, <2>2, Zenon DEF ListInv
<1> QED BY <1>2, <1>3, <1>4, Zenon DEF WatchInv
-----------------------------------------------------------------------------
LEMMA OtherWatchSteps ==
  ASSUME WatchInv,
         Stopped \/ StopTimesOut \/ StreamFails \/ WatchEnds \/ CallerEnds \/ \E c \in Containers : WorkerExits(c)
  PROVE  WatchInv'
<1>1. /\ UNCHANGED <<up, log, next, listed, managers>>
      /\ WatchTypes' /\ EntryInv'
      /\ pc' = pc \/ (pc = "stopping" /\ pc' = "loop") \/ pc' \in {"returning", "returned"}
  BY Zenon DEF WatchInv, WatchTypes, EntryInv, Alive, loopVars,
         Stopped, StopTimesOut, StreamFails, WatchEnds, CallerEnds, WorkerExits
<1>2. LogInv'
  BY <1>1, LogKept, Zenon DEF WatchInv
<1>3. ListInv'
  BY <1>1, QuietKept, Zenon DEF WatchInv, ListInv
<1> QED BY <1>1, <1>2, <1>3, Zenon DEF WatchInv

LEMMA WatchStepInv == ASSUME WatchInv, [WatchNext]_watchVars PROVE WatchInv'
<1>1. ASSUME NEW c \in Containers, Start(c) \/ Die(c) PROVE WatchInv'
  BY <1>1, StartLogs, DieLogs, LogsInv, Zenon DEF WatchInv
<1>2. CASE UNCHANGED watchVars
  BY <1>2, Zenon
     DEF watchVars, loopVars, WatchInv, WatchTypes, EntryInv, LogInv, ListInv, LastEvent, Quiet,
         Alive
<1> QED BY <1>1, <1>2, NowInv, ListStepInv, ExistingInv, HandledInv, OtherWatchSteps, Zenon
        DEF WatchNext, WatchStep, OwnStep

\* WatchInv holds in every state of Watch.
THEOREM WatchInvariant == WatchSpec => []WatchInv
BY WatchStarts, WatchStepInv, PTL DEF WatchSpec

\* A container never has two workers at the same time (Manager.Watch).
THEOREM OneWorkerAlways == WatchSpec => []OneWorker
<1>1. WatchInv => OneWorker
  BY Zenon DEF WatchInv, EntryInv, OneWorker
<1> QED BY <1>1, WatchInvariant, PTL

\* When the listing and all events are handled, exactly the running containers have an
\* entry (Manager.Watch).
THEOREM WatchesTheRunning == WatchSpec => []WatchedAreUp
<1>1. WatchInv => WatchedAreUp
  <2> SUFFICES ASSUME WatchInv, pc = "loop", next > Len(log) PROVE managers = up
    BY Zenon DEF WatchedAreUp
  <2>1. \A c \in Containers : Quiet(c)
    BY DEF WatchInv, WatchTypes, Quiet
  <2> QED BY <2>1, Zenon DEF WatchInv, ListInv, WatchTypes
<1> QED BY <1>1, WatchInvariant, PTL
-----------------------------------------------------------------------------
(* What the runs of local:docker share.                                     *)

Writing(r) == place[r] \in {"lock_healthcheck", "checking", "lock_sync_client", "connecting"}

\* The lock has one writer, who is where its label says, and a writer that got in is
\* alone: who comes meanwhile waits.  A run that misses the client is in that section.
SharedInv ==
  /\ place = [p \in Procs |-> place[p]]
  /\ writer \in Runs \cup {NoOne} /\ \A r \in Runs : Writing(r) <=> writer = r
  /\ \A r \in Runs : place[r] \in {"checking", "connecting"} => readers = {}
  /\ missing \subseteq Runs /\ \A r \in missing : place[r] = "connecting" /\ client = 0
  /\ client \in {0, 1}

LEMMA SharedStarts == SharedInit => SharedInv
BY SharedAssumption, Zenon DEF SharedInit, SharedInv, Writing, Procs

\* The writer's own steps.
LEMMA WriterStep ==
  ASSUME SharedInv, NEW r \in Runs,
         LockHealthcheck(r) \/ Healthcheck(r) \/ Checked(r) \/ LockSyncClient(r) \/ CheckClient(r) \/ Connect(r)
  PROVE  SharedInv'
<1> USE SharedAssumption DEF SharedInv, Goto, Procs
<1>1. CASE LockHealthcheck(r) \/ LockSyncClient(r)
  BY <1>1, Zenon DEF LockHealthcheck, LockSyncClient, Lock, Writing
<1>2. CASE Healthcheck(r)
  BY <1>2, Zenon DEF Healthcheck, Locked, lockVars, Writing
<1>3. CASE Checked(r)
  BY <1>3 DEF Checked, Unlock, Writing
<1>4. CASE CheckClient(r)
  BY <1>4, Zenon DEF CheckClient, Locked, lockVars, Writing
<1>5. CASE Connect(r)
  BY <1>5 DEF Connect, Unlock, Writing
<1> QED BY <1>1, <1>2, <1>3, <1>4, <1>5, Zenon

\* The steps of a run that is no writer: it locks for reading, waits or leaves.
LEMMA ReaderStep ==
  ASSUME SharedInv, NEW r \in Runs,
         Request(r) \/ LockRun(r) \/ ListNetworks(r) \/ CreateDataNetwork(r) \/ FinishRun(r)
  PROVE  SharedInv'
<1> USE SharedAssumption DEF SharedInv, Goto, Procs, Writing
<1>1. CASE Request(r)
  BY <1>1, Zenon DEF Request, lockVars
<1>2. CASE LockRun(r)
  BY <1>2, Zenon DEF LockRun, RLock
<1>3. CASE ListNetworks(r)
  BY <1>3, Zenon DEF ListNetworks, RUnlock, lockVars
<1>4. CASE CreateDataNetwork(r)
  BY <1>4, Zenon DEF CreateDataNetwork, RUnlock, lockVars
<1>5. CASE FinishRun(r)
  BY <1>5, Zenon DEF FinishRun, RUnlock
<1> QED BY <1>1, <1>2, <1>3, <1>4, <1>5, Zenon

LEMMA SharedStep == SharedInv /\ [SharedNext]_sharedVars => SharedInv'
<1> SUFFICES ASSUME SharedInv, [SharedNext]_sharedVars PROVE SharedInv'
  BY Zenon
<1>1. ASSUME NEW c \in Collections, LockCollect(c) \/ Collect(c) PROVE SharedInv'
  BY <1>1, SharedAssumption, Zenon
     DEF SharedInv, Goto, Procs, Writing, LockCollect, Collect, RLock, RUnlock
<1>2. CASE UNCHANGED sharedVars
  BY <1>2, Zenon DEF SharedInv, Writing, sharedVars, lockVars
<1> QED BY <1>1, <1>2, WriterStep, ReaderStep, Zenon DEF SharedNext, RunStep

\* While a health check runs there is no other one, no run and no collection, however the
\* runs and collections queue for the runner's lock (local_docker.go, Healthcheck, Run).
THEOREM ChecksAreExclusive == SharedSpec => []HealthExclusive
<1>1. SharedInv => HealthExclusive
  BY Zenon DEF SharedInv, HealthExclusive, Writing, InRun
<1> QED BY <1>1, SharedStarts, SharedStep, PTL DEF SharedSpec

\* Concurrent runs connect one sync client at most (local_docker.go, setupSyncClient).
THEOREM ClientIsShared == SharedSpec => []OneClient
<1>1. SharedInv => OneClient
  BY DEF SharedInv, OneClient
<1> QED BY <1>1, SharedStarts, SharedStep, PTL DEF SharedSpec
-----------------------------------------------------------------------------
(* One run of local:docker.                                                 *)

Succeeded(g) == {i \in delivered : GroupOf[i] = g /\ published[i] = "success"}
Unanimous == \A i \in Instances : published[i] = "success"

\* The collector counted the successes among the outcomes it received.
CountInv ==
  /\ published \in [Instances -> {"none", "success", "failure", "crash"}]
  /\ delivered \subseteq Instances /\ \A i \in delivered : published[i] # "none"
  /\ ok \in [Groups -> Nat] /\ \A g \in Groups : ok[g] = Cardinality(Succeeded(g))

\* What is shared, and what the engine stored, says success of unanimous runs only; once
\* Run returned after its deadline, what it says of the others is failure.
OutcomeInv ==
  /\ ctx \in {"ok", "canceled", "deadline"}
  /\ phase # "returned" => result = "none"
  /\ "success" \in {outcome, result} => Unanimous
  /\ phase = "returned" /\ ctx = "deadline" /\ ~Unanimous =>
       outcome = "failure" /\ result \in {"none", "nil", "failure"}

\* Run leaves its last deferred call with everything removed once it had created all.
CleanInv ==
  /\ containers = [i \in Instances |-> containers[i]]
  /\ phase \in {"network", "config"} => created = {}
  /\ phase \in {"outcome", "returned"} /\ created = Instances /\ ~cfg.keep /\ ~refused =>
       ~network /\ \A i \in Instances : containers[i] = "absent"
-----------------------------------------------------------------------------
LEMMA InitRun == RunInit => CountInv /\ OutcomeInv /\ CleanInv
<1> SUFFICES ASSUME RunInit PROVE CountInv /\ OutcomeInv /\ CleanInv
  BY Zenon
<1>1. \A g \in Groups : Succeeded(g) = {}
  BY Zenon DEF RunInit, Succeeded
<1>2. CountInv
  BY <1>1, FS_EmptySet, Zenon DEF RunInit, CountInv
<1>3. OutcomeInv
  BY Zenon DEF RunInit, OutcomeInv
<1>4. CleanInv
  BY Zenon DEF RunInit, CleanInv
<1> QED BY <1>2, <1>3, <1>4, Zenon

\* A count that equals the size of every group is a unanimous run.
LEMMA FullCount == ASSUME CountInv, UpdateOutcome = "success" PROVE Unanimous
<1> SUFFICES ASSUME NEW i \in Instances PROVE published[i] = "success"
  BY Zenon DEF Unanimous
<1> DEFINE g == GroupOf[i]
<1>1. g \in Groups /\ ok[g] = Cardinality(InGroup(g)) /\ ok[g] = Cardinality(Succeeded(g))
  BY RunAssumption, Zenon DEF UpdateOutcome, CountInv
<1>2. Succeeded(g) \subseteq InGroup(g) /\ InGroup(g) \subseteq Instances
  BY Zenon DEF Succeeded, InGroup, CountInv
<1>3. IsFiniteSet(InGroup(g))
  BY RunAssumption, <1>2, FS_Subset, Zenon
<1>4. Succeeded(g) = InGroup(g)
  BY <1>1, <1>2, <1>3, FS_Subset, Zenon
<1> QED BY <1>4, Zenon DEF InGroup, Succeeded

\* Steps that neither publish nor deliver leave the count.
LEMMA CountFixed ==
  ASSUME UNCHANGED <<published, delivered, ok>>, CountInv
  PROVE  CountInv' /\ (Unanimous' <=> Unanimous)
BY Zenon DEF CountInv, Succeeded, Unanimous

LEMMA PublishCount ==
  ASSUME CountInv, NEW i \in Instances, Publish(i)
  PROVE  CountInv' /\ (Unanimous => Unanimous')
<1>1. i \notin delivered /\ UNCHANGED <<delivered, ok>>
  BY Zenon DEF CountInv, Publish, collectVars
<1>2. \A j \in delivered : published'[j] = published[j]
  BY <1>1, Zenon DEF Publish, CountInv
<1>3. \A g \in Groups : Succeeded(g)' = Succeeded(g)
  BY <1>1, <1>2, Zenon DEF Succeeded
<1>4. published' \in [Instances -> {"none", "success", "failure", "crash"}]
  BY Zenon DEF Publish, CountInv
<1>5. Unanimous => Unanimous'
  BY Zenon DEF Publish, Unanimous
<1> QED BY <1>1, <1>2, <1>3, <1>4, <1>5, Zenon DEF CountInv

LEMMA ReceiveCount ==
  ASSUME CountInv, NEW i \in Instances, Receive(i)
  PROVE  CountInv' /\ (Unanimous' <=> Unanimous)
<1>1. UNCHANGED published /\ i \notin delivered /\ delivered' = delivered \cup {i} /\ published[i] # "none"
  BY Zenon DEF Receive, daemonVars
<1>2. \A g \in Groups : IsFiniteSet(Succeeded(g))
  <2>1. \A g \in Groups : Succeeded(g) \subseteq Instances
    BY Zenon DEF Succeeded, CountInv
  <2> QED BY RunAssumption, <2>1, FS_Subset, Zenon
<1>3. CASE published[i] = "success"
  <2>1. ok' = [ok EXCEPT ![GroupOf[i]] = @ + 1] /\ GroupOf[i] \in Groups
    BY <1>3, RunAssumption, Zenon DEF Receive
  <2>2. Succeeded(GroupOf[i])' = Succeeded(GroupOf[i]) \cup {i} /\ i \notin Succeeded(GroupOf[i])
    BY <1>1, <1>3, Zenon DEF Succeeded
  <2>3. Cardinality(Succeeded(GroupOf[i])') = Cardinality(Succeeded(GroupOf[i])) + 1
    BY <1>2, <2>1, <2>2, FS_AddElement, Zenon
  <2>4. \A g \in Groups \ {GroupOf[i]} : Succeeded(g)' = Succeeded(g)
    BY <1>1, Zenon DEF Succeeded
  <2>5. ok' \in [Groups -> Nat] /\ \A g \in Groups : ok'[g] = Cardinality(Succeeded(g)')
    BY <2>1, <2>3, <2>4 DEF CountInv
  <2> QED BY <1>1, <2>5, Zenon DEF CountInv, Unanimous
<1>4. CASE published[i] # "success"
  <2>1. UNCHANGED ok
    BY <1>4, Zenon DEF Receive
  <2>2. \A g \in Groups : Succeeded(g)' = Succeeded(g)
    BY <1>1, <1>4, Zenon DEF Succeeded
  <2> QED BY <1>1, <2>1, <2>2, Zenon DEF CountInv, Unanimous
<1> QED BY <1>3, <1>4, Zenon
-----------------------------------------------------------------------------
\* The steps that leave what was published, counted and concluded, and do not return.
RunQuiet == UNCHANGED <<ctx, published, delivered, ok, outcome, result>> /\ (phase' = "returned" <=> phase = "returned")

LEMMA QuietRunSteps ==
  /\ NewDataNetwork \/ MergeConfig \/ Created \/ Started \/ ContainersComplete \/ OutcomesComplete => RunQuiet
  /\ OutcomesTimeout \/ Leave \/ CancelRun \/ Delete \/ RunGroupDone \/ AttachFails => RunQuiet
  /\ \A i \in Instances : ContainerCreate(i) \/ Goroutine(i) \/ WaitFails(i) \/ Exit(i) => RunQuiet
<1> USE DEF RunQuiet, daemonVars, mainVars, groupVars, collectVars
<1>1. NewDataNetwork \/ MergeConfig \/ Created \/ Started => RunQuiet
  BY Zenon DEF NewDataNetwork, MergeConfig, Created, Started
<1>2. ContainersComplete \/ OutcomesComplete \/ OutcomesTimeout \/ Leave => RunQuiet
  BY Zenon DEF ContainersComplete, OutcomesComplete, OutcomesTimeout, Leave
<1>3. CancelRun \/ Delete \/ RunGroupDone \/ AttachFails => RunQuiet
  BY Zenon DEF CancelRun, Delete, RunGroupDone, AttachFails
<1>4. \A i \in Instances : ContainerCreate(i) \/ ContainerStart(i) => RunQuiet
  BY Zenon DEF ContainerCreate, ContainerStart
<1>5. \A i \in Instances : Waited(i) \/ WaitFails(i) \/ Exit(i) => RunQuiet
  BY Zenon DEF Waited, WaitFails, Exit
<1> QED BY <1>1, <1>2, <1>3, <1>4, <1>5, Zenon DEF Goroutine

LEMMA StepOutcome ==
  ASSUME CountInv, OutcomeInv, [RunNext]_runVars
  PROVE  CountInv' /\ OutcomeInv'
<1>1. CASE RunQuiet
  BY <1>1, CountFixed, Zenon DEF RunQuiet, OutcomeInv
<1>2. CASE ReturnResult
  <2>1. UNCHANGED <<published, delivered, ok, ctx, result>>
    BY <1>2, Zenon DEF ReturnResult, daemonVars, collectVars
  <2>2. phase = "outcome" /\ phase' = "returned"
    BY <1>2, Zenon DEF ReturnResult
  <2>3. outcome' = "success" => outcome = "success"
    BY <1>2, Zenon DEF ReturnResult, OutcomeInv
  <2>4. ctx = "deadline" => outcome' = "failure"
    BY <1>2, Zenon DEF ReturnResult
  <2> QED BY <2>1, <2>2, <2>3, <2>4, CountFixed, Zenon DEF OutcomeInv
<1>3. CASE Store
  <2>1. UNCHANGED <<published, delivered, ok, ctx, outcome, phase>> /\ phase = "returned"
    BY <1>3, Zenon DEF Store, daemonVars, collectVars
  <2>2. result' \in {"nil", outcome}
    BY <1>3, Zenon DEF Store
  <2> QED BY <2>1, <2>2, CountFixed, Zenon DEF OutcomeInv
<1>4. CASE CollectorEnds
  <2>1. UNCHANGED <<published, delivered, ok, ctx, result, phase>>
    BY <1>4, Zenon DEF CollectorEnds, daemonVars, mainVars
  <2>2. outcome' = UpdateOutcome /\ UpdateOutcome \in {"failure", "success"}
    BY <1>4, Zenon DEF CollectorEnds, UpdateOutcome
  <2> QED BY <2>1, <2>2, CountFixed, FullCount, Zenon DEF OutcomeInv
<1>5. CASE ContextEnds
  <2>1. UNCHANGED <<published, delivered, ok, outcome, result, phase>> /\ phase # "returned" /\ ctx' \in {"canceled", "deadline"}
    BY <1>5, Zenon DEF ContextEnds, daemonVars, mainVars, collectVars
  <2> QED BY <2>1, CountFixed, Zenon DEF OutcomeInv
<1>6. ASSUME NEW i \in Instances, Publish(i) PROVE CountInv' /\ OutcomeInv'
  <2>1. UNCHANGED <<ctx, outcome, result, phase>>
    BY <1>6, Zenon DEF Publish, mainVars
  <2> QED BY <1>6, <2>1, PublishCount, Zenon DEF OutcomeInv
<1>7. ASSUME NEW i \in Instances, Receive(i) PROVE CountInv' /\ OutcomeInv'
  <2>1. UNCHANGED <<ctx, outcome, result, phase>>
    BY <1>7, Zenon DEF Receive, mainVars
  <2> QED BY <1>7, <2>1, ReceiveCount, Zenon DEF OutcomeInv
<1>8. CASE UNCHANGED runVars
  BY <1>1, <1>8, Zenon DEF runVars, RunQuiet, daemonVars, mainVars, collectVars
<1> QED BY <1>1, <1>2, <1>3, <1>4, <1>5, <1>6, <1>7, <1>8, QuietRunSteps, Zenon DEF RunNext, Main

\* Nothing comes back once Run is in its last deferred call.
LEMMA StepClean ==
  ASSUME CleanInv, [RunNext]_runVars
  PROVE  CleanInv'
<1> USE DEF CleanInv, daemonVars, mainVars
<1>1. CASE NewDataNetwork \/ MergeConfig
  BY <1>1, RunAssumption, Zenon DEF NewDataNetwork, MergeConfig
<1>2. ASSUME NEW i \in Instances, ContainerCreate(i) PROVE CleanInv'
  BY <1>2, Zenon DEF ContainerCreate
<1>3. CASE Created \/ Started \/ Leave \/ CancelRun
  BY <1>3, Zenon DEF Created, Started, Leave, CancelRun
<1>4. CASE Delete
  BY <1>4, Zenon DEF Delete
<1>5. CASE ReturnResult \/ Store \/ RunGroupDone
  <2>1. UNCHANGED <<network, containers, created, cfg, refused>>
    BY <1>5, Zenon DEF ReturnResult, Store, RunGroupDone
  <2>2. UNCHANGED phase \/ (phase = "outcome" /\ phase' = "returned")
    BY <1>5, Zenon DEF ReturnResult, Store, RunGroupDone
  <2> QED BY <2>1, <2>2, Zenon
<1>6. CASE ContainersComplete \/ OutcomesComplete \/ OutcomesTimeout \/ AttachFails
  BY <1>6, Zenon DEF ContainersComplete, OutcomesComplete, OutcomesTimeout, AttachFails
<1>7. CASE ContextEnds \/ CollectorEnds \/ UNCHANGED runVars
  BY <1>7 DEF ContextEnds, CollectorEnds, runVars
<1>8. ASSUME NEW i \in Instances, ContainerStart(i) \/ Exit(i) PROVE CleanInv'
  BY <1>8, Zenon DEF ContainerStart, Exit
<1>9. ASSUME NEW i \in Instances, Waited(i) \/ WaitFails(i) \/ Publish(i) \/ Receive(i) PROVE CleanInv'
  BY <1>9 DEF Waited, WaitFails, Publish, Receive
<1> QED BY <1>1, <1>2, <1>3, <1>4, <1>5, <1>6, <1>7, <1>8, <1>9, Zenon
           DEF RunNext, Main, Goroutine
-----------------------------------------------------------------------------
\* A run is stored as a success only if every instance published one, although the
\* collector, Run and the engine share result.Outcome without a lock (local_docker.go).
THEOREM StoredSuccess == RunSpec => []SuccessIsUnanimous
<1>1. CountInv /\ OutcomeInv /\ [RunNext]_runVars => CountInv' /\ OutcomeInv'
  BY StepOutcome, Zenon
<1>2. OutcomeInv => SuccessIsUnanimous
  BY Zenon DEF OutcomeInv, SuccessIsUnanimous, Unanimous
<1> QED BY <1>1, <1>2, InitRun, PTL DEF RunSpec

\* A run that the task timeout stopped is stored as a failure unless every instance had
\* succeeded, also when the collector ends after Run returned.
THEOREM StoredFailure == RunSpec => []StalledIsFailure
<1>1. CountInv /\ OutcomeInv /\ [RunNext]_runVars => CountInv' /\ OutcomeInv'
  BY StepOutcome, Zenon
<1>2. OutcomeInv => StalledIsFailure
  BY Zenon DEF OutcomeInv, StalledIsFailure, Unanimous
<1> QED BY <1>1, <1>2, InitRun, PTL DEF RunSpec

\* Run leaves no container and no network once it had created all its containers, unless
\* it was told to or Docker refused to remove one.
THEOREM NothingLeft == RunSpec => []LeavesNothing
<1>1. CleanInv /\ [RunNext]_runVars => CleanInv'
  BY StepClean, Zenon
<1>2. CleanInv => LeavesNothing
  BY Zenon DEF CleanInv, LeavesNothing
<1> QED BY <1>1, <1>2, InitRun, PTL DEF RunSpec
=============================================================================
