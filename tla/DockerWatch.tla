---------------------------- MODULE DockerWatch ----------------------------
(***************************************************************************)
(* docker.Manager.Watch: one worker goroutine for every running container. *)
(* The containers that run already are listed, and the events since just   *)
(* before the listing are followed.  The sidecar runs a reactor as the     *)
(* worker of each container.                                               *)
(*                                                                         *)
(* The Docker daemon is external: containers start and die, each time with *)
(* an event in the log; a listing is a snapshot, and the event stream is   *)
(* the log from a position on.                                             *)
(***************************************************************************)
EXTENDS Naturals, Sequences

CONSTANTS Containers,
          MaxEvents,      \* bound: the events the daemon logs
          WorkersStop     \* whether a cancelled worker ends within workerShutdownTimeout

VARIABLES
  up,        \* the containers that run
  log,       \* the daemon's events, oldest first
  next,      \* the position in the log of the next event to handle
  pc,        \* where Watch is
  listed,    \* the containers of the listing that were not started yet
  managers,  \* the containers with an entry in the managers map
  stopping,  \* the container that stop waits for
  worker,    \* the newest worker of each container: none, running, cancelled or exited
  orphans,   \* containers with an older worker that is still alive
  ended      \* whether the caller's context was cancelled

loopVars == <<next, pc, listed, managers, stopping>>
watchVars == <<up, log, loopVars, worker, orphans, ended>>

NoContainer == "no_container"
Alive(c) == worker[c] \in {"running", "cancelled"}

-----------------------------------------------------------------------------
(* The Docker daemon.                                                       *)

Start(c) ==
  /\ c \notin up /\ Len(log) < MaxEvents
  /\ up' = up \cup {c} /\ log' = Append(log, [status |-> "start", id |-> c])
  /\ UNCHANGED <<loopVars, worker, orphans, ended>>

\* A container that dies is logged as died, and as stopped when it was told to.
Die(c) ==
  /\ c \in up /\ Len(log) < MaxEvents
  /\ up' = up \ {c}
  /\ log' \in {Append(log, [status |-> "die", id |-> c]),
               log \o <<[status |-> "die", id |-> c], [status |-> "stop", id |-> c]>>}
  /\ UNCHANGED <<loopVars, worker, orphans, ended>>

-----------------------------------------------------------------------------
(* Watch.                                                                   *)

\* now := time.Now(), the start of the event stream.
Now ==
  /\ pc = "now" /\ pc' = "list" /\ next' = Len(log) + 1
  /\ UNCHANGED <<up, log, listed, managers, stopping, worker, orphans, ended>>

ListContainers ==
  /\ pc = "list"
  /\ \/ listed' = up /\ pc' = "existing"
     \/ pc' = "returning" /\ UNCHANGED listed
  /\ UNCHANGED <<up, log, next, managers, stopping, worker, orphans, ended>>

\* Mutant: start does not look whether the container has a worker.
StartWorkerAgain(c) ==
  /\ managers' = managers \cup {c}
  /\ orphans' = IF Alive(c) THEN orphans \cup {c} ELSE orphans
  /\ worker' = [worker EXCEPT ![c] = IF ended THEN "cancelled" ELSE "running"]

\* start: a container with an entry, even of a worker that exited, is left alone.
StartWorker(c) ==
  IF c \in managers THEN UNCHANGED <<managers, worker, orphans>>
  ELSE /\ managers' = managers \cup {c}
       /\ orphans' = IF Alive(c) THEN orphans \cup {c} ELSE orphans
       /\ worker' = [worker EXCEPT ![c] = IF ended THEN "cancelled" ELSE "running"]

Existing ==
  /\ pc = "existing"
  /\ \/ \E c \in listed :
          /\ listed' = listed \ {c} /\ StartWorker(c)
          /\ UNCHANGED pc
     \/ listed = {} /\ pc' = "loop" /\ UNCHANGED <<listed, managers, worker, orphans>>
  /\ UNCHANGED <<up, log, next, stopping, ended>>

\* Mutant: only the event "stop" stops a worker.
HandleStopOnly ==
  /\ pc = "loop" /\ next <= Len(log) /\ next' = next + 1
  /\ LET c == log[next].id IN
       IF log[next].status = "start"
       THEN StartWorker(c) /\ UNCHANGED <<pc, stopping>>
       ELSE IF log[next].status = "die" \/ c \notin managers
       THEN UNCHANGED <<pc, managers, stopping, worker, orphans>>
       ELSE /\ managers' = managers \ {c} /\ stopping' = c /\ pc' = "stopping"
            /\ worker' = [worker EXCEPT ![c] = IF @ = "running" THEN "cancelled" ELSE @]
            /\ UNCHANGED orphans
  /\ UNCHANGED <<up, log, listed, ended>>

\* Handle the next event.  stop cancels the worker, removes the entry and waits.
Handle ==
  /\ pc = "loop" /\ next <= Len(log) /\ next' = next + 1
  /\ LET c == log[next].id IN
       IF log[next].status = "start"
       THEN StartWorker(c) /\ UNCHANGED <<pc, stopping>>
       ELSE IF c \notin managers
       THEN UNCHANGED <<pc, managers, stopping, worker, orphans>>
       ELSE /\ managers' = managers \ {c} /\ stopping' = c /\ pc' = "stopping"
            /\ worker' = [worker EXCEPT ![c] = IF @ = "running" THEN "cancelled" ELSE @]
            /\ UNCHANGED orphans
  /\ UNCHANGED <<up, log, listed, ended>>

Stopped ==
  /\ pc = "stopping" /\ ~Alive(stopping)
  /\ pc' = "loop" /\ stopping' = NoContainer
  /\ UNCHANGED <<up, log, next, listed, managers, worker, orphans, ended>>

\* workerShutdownTimeout: stop panics, and the deferred calls run.
StopTimesOut ==
  /\ pc = "stopping" /\ Alive(stopping) /\ ~WorkersStop
  /\ pc' = "returning"
  /\ worker' = [c \in Containers |-> IF worker[c] = "running" THEN "cancelled" ELSE worker[c]]
  /\ UNCHANGED <<up, log, next, listed, managers, stopping, orphans, ended>>

\* The stream fails, or the context is done: cancel runs first.
StreamFails ==
  /\ pc = "loop" /\ pc' = "returning"
  /\ worker' = [c \in Containers |-> IF worker[c] = "running" THEN "cancelled" ELSE worker[c]]
  /\ UNCHANGED <<up, log, next, listed, managers, stopping, orphans, ended>>

\* ... and then Watch waits for the workers of the map.
WatchEnds ==
  /\ pc = "returning" /\ \A c \in managers : ~Alive(c)
  /\ pc' = "returned"
  /\ UNCHANGED <<up, log, next, listed, managers, stopping, worker, orphans, ended>>

\* A worker ends when it is cancelled, or by itself.
WorkerExits(c) ==
  /\ Alive(c) /\ worker' = [worker EXCEPT ![c] = "exited"]
  /\ UNCHANGED <<up, log, loopVars, orphans, ended>>

\* The caller's context, which the workers' contexts descend from, is cancelled.
CallerEnds ==
  /\ ~ended /\ ended' = TRUE
  /\ worker' = [c \in Containers |-> IF worker[c] = "running" THEN "cancelled" ELSE worker[c]]
  /\ UNCHANGED <<up, log, loopVars, orphans>>

-----------------------------------------------------------------------------
WatchInit ==
  /\ up \in SUBSET Containers /\ log = << >> /\ next = 1
  /\ pc = "now" /\ listed = {} /\ managers = {} /\ stopping = NoContainer
  /\ worker = [c \in Containers |-> "none"] /\ orphans = {} /\ ended = FALSE

OwnStep == Now \/ ListContainers \/ Existing \/ Handle \/ Stopped \/ WatchEnds
WatchStep == OwnStep \/ StopTimesOut \/ StreamFails

WatchNext ==
  \/ WatchStep \/ CallerEnds
  \/ \E c \in Containers : Start(c) \/ Die(c) \/ WorkerExits(c)

WatchSpec == WatchInit /\ [][WatchNext]_watchVars

\* Watch's own steps are fair; a worker that is cancelled ends (it selects on its
\* context), one that is not need not; and the stream fails once the context ended.
WatchFairSpec ==
  /\ WatchSpec /\ WF_watchVars(OwnStep)
  /\ WF_watchVars(ended /\ StreamFails)
  /\ \A c \in Containers : WF_watchVars(worker[c] = "cancelled" /\ WorkerExits(c))

-----------------------------------------------------------------------------
\* Variables have their types.
WatchTypeOK ==
  /\ up \subseteq Containers /\ listed \subseteq Containers /\ managers \subseteq Containers
  /\ next \in 1..(Len(log) + 1) /\ stopping \in Containers \cup {NoContainer}
  /\ worker \in [Containers -> {"none", "running", "cancelled", "exited"}]
  /\ pc \in {"now", "list", "existing", "loop", "stopping", "returning", "returned"}

\* A container never has two workers at the same time: stop waits for the old one.
OneWorker == orphans = {}

\* Once the listing and all events are handled, exactly the running containers have
\* an entry, however starts and deaths fell around now and the listing ("runs the
\* provider worker for each container that starts").
WatchedAreUp == pc = "loop" /\ next > Len(log) => managers = up

\* No worker outlives Watch, unless one did not stop in time.
NoWorkerAfterReturn ==
  pc = "returned" /\ stopping = NoContainer => \A c \in Containers : ~Alive(c)

\* The worker of a container that died is cancelled or gone before long.
DeadAreLeft ==
  \A c \in Containers : (pc = "loop" /\ c \notin up /\ worker[c] = "running") ~>
                        (worker[c] # "running" \/ c \in up)

\* When the context ends or the event stream fails, Watch returns.
WatchReturns == (ended \/ pc = "returning") ~> pc = "returned"
=============================================================================
