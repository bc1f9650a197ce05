---------------------------- MODULE EngineProofs ----------------------------
(***************************************************************************)
(* Every step of Engine preserves its inductive invariant, so that it      *)
(* always holds, for any tasks, workers, clients and bounds; what follows  *)
(* from it.                                                                *)
(***************************************************************************)
EXTENDS Engine, TLAPS

-----------------------------------------------------------------------------
(* What the two database writes do, key by key.                             *)

DBType == [Prefixes -> [Tasks -> States \cup {"none"}]]

\* put changes one key and no other.
LEMMA PutFacts ==
  ASSUME db \in DBType,
         NEW p \in Prefixes, NEW t \in Tasks, NEW v \in States \cup {"none"},
         Put(p, t, v)
  PROVE  /\ db' \in DBType
         /\ \A q \in Prefixes, x \in Tasks :
              db'[q][x] = IF q = p /\ x = t THEN v ELSE db[q][x]
BY Zenon DEF DBType, Put

\* changePrefix moves the value of one task from src to dst.
LEMMA ChangePrefixFacts ==
  ASSUME db \in DBType,
         NEW dst \in Prefixes, NEW src \in Prefixes, src # dst, NEW t \in Tasks,
         ChangePrefix(dst, src, t)
  PROVE  /\ db' \in DBType
         /\ \A q \in Prefixes, x \in Tasks :
              db'[q][x] = IF x # t THEN db[q][x]
                          ELSE IF q = dst THEN db[src][t]
                          ELSE IF q = src THEN "none" ELSE db[q][x]
BY Zenon DEF DBType, ChangePrefix

-----------------------------------------------------------------------------
(* Each action preserves EngineInv.                                         *)

\* The worker stores its task as processing; an error is ignored.
LEMMA PersistStartInv ==
  ASSUME EngineInv, NEW w \in Workers, PersistStart(w)
  PROVE  EngineInv'
<1> USE EngineAssumption DEF EngineInv
<1>1. wtask[w] \in Tasks /\ db \in DBType
  BY DEF TypeOK, WorkerKnows, PersistStart, DBType
<1>2. /\ db' \in DBType
      /\ \A q \in Prefixes, x \in Tasks :
           db'[q][x] = IF q = "current" /\ x = wtask[w] /\ db' # db THEN "processing" ELSE db[q][x]
  BY <1>1, PutFacts DEF PersistStart, Prefixes, States
<1>3. TypeOK'
  BY <1>2, Zenon DEF PersistStart, TypeOK, WGoto, WorkerPCs, DBType, clientVars, signalVars
<1>4. PrefixExclusive'
  BY <1>1, <1>2 DEF PersistStart, PrefixExclusive, Has, WorkerKnows, Prefixes
<1>5. SingleOwner' /\ ArchiveTerminal'
  BY <1>1, <1>2
     DEF PersistStart, TypeOK, WGoto, SingleOwner, ArchiveTerminal, Has, clientVars, Prefixes
<1>6. RunningIsKillable'
  BY Zenon DEF PersistStart, TypeOK, WGoto, RunningIsKillable, signalVars
<1>7. UnusedNowhere'
  BY <1>1, <1>2 DEF PersistStart, TypeOK, UnusedNowhere, Has, clientVars
<1>8. WorkerKnows'
  BY <1>1, <1>2 DEF PersistStart, TypeOK, WGoto, WorkerKnows, SingleOwner, Has, Prefixes
<1>9. PusherKnows'
  BY <1>1, <1>2
     DEF PersistStart, TypeOK, PusherKnows, SingleOwner, Has, Prefixes, clientVars, InRemove,
         Canceling
<1> QED BY <1>3, <1>4, <1>5, <1>6, <1>7, <1>8, <1>9, Zenon

\* The part of EngineInv that does not read the signals.
StoreInv == PrefixExclusive /\ SingleOwner /\ ArchiveTerminal
            /\ UnusedNowhere /\ WorkerKnows /\ PusherKnows

\* A step on the signals alone preserves it.
LEMMA SignalStepInv ==
  ASSUME StoreInv, UNCHANGED <<queueVars, workerVars, clientVars>>
  PROVE  StoreInv'
<1> USE DEF StoreInv, queueVars, workerVars, clientVars, Has
<1>1. PrefixExclusive' /\ ArchiveTerminal'
  BY Zenon DEF PrefixExclusive, ArchiveTerminal
<1>2. SingleOwner' /\ UnusedNowhere'
  BY Zenon DEF SingleOwner, UnusedNowhere
<1>3. WorkerKnows'
  BY Zenon DEF WorkerKnows
<1>4. PusherKnows'
  BY DEF PusherKnows, InRemove, Canceling
<1> QED BY <1>1, <1>2, <1>3, <1>4, Zenon

\* The goroutine that waits on a signal channel.
LEMMA WatcherInv ==
  ASSUME EngineInv, NEW t \in Tasks, WatcherStep(t)
  PROVE  EngineInv'
<1>1. /\ UNCHANGED <<queueVars, workerVars, clientVars, closed, rleak, crashes>>
      /\ signals' \subseteq signals
      /\ ctxDone' \in {ctxDone, ctxDone \cup {t}}
      /\ \E pc \in {"none", "deleting", "canceling"} : watcher' = [watcher EXCEPT ![t] = pc]
  BY Zenon DEF WatcherStep, WatcherSignalled, WatcherDeletes, WatcherCancels, WatcherDone
<1>2. StoreInv'
  BY <1>1, SignalStepInv, Zenon DEF EngineInv, StoreInv
<1>3. TypeOK'
  BY <1>1, Zenon DEF EngineInv, TypeOK, queueVars, workerVars, clientVars
<1>4. \A w \in Workers : wpc[w] # "idle" => wtask[w] \in Tasks
  BY DEF EngineInv, TypeOK, WorkerKnows
<1>5. RunningIsKillable'
  BY <1>4 DEF EngineInv, TypeOK, RunningIsKillable, workerVars,
         WatcherStep, WatcherSignalled, WatcherDeletes, WatcherCancels, WatcherDone
<1> QED BY <1>2, <1>3, <1>5, Zenon DEF EngineInv, StoreInv

\* The timeout of a task ends its context.
LEMMA TimeoutInv ==
  ASSUME EngineInv, NEW w \in Workers, Timeout(w)
  PROVE  EngineInv'
<1> USE DEF EngineInv, Timeout
<1>1. StoreInv'
  BY SignalStepInv, Zenon DEF StoreInv
<1>2. TypeOK'
  BY DEF TypeOK, WorkerKnows, queueVars, workerVars, clientVars
<1>3. RunningIsKillable'
  BY Zenon DEF TypeOK, RunningIsKillable, workerVars
<1> QED BY <1>1, <1>2, <1>3, Zenon DEF StoreInv

\* The error path of Tasks leaves the read lock behind.
LEMMA TasksFailsInv ==
  ASSUME EngineInv, TasksFails
  PROVE  EngineInv'
<1> USE DEF EngineInv, TasksFails
<1>1. StoreInv'
  BY SignalStepInv, Zenon DEF StoreInv
<1>2. TypeOK'
  BY Zenon DEF TypeOK, queueVars, workerVars, clientVars
<1>3. RunningIsKillable'
  BY Zenon DEF TypeOK, RunningIsKillable, workerVars
<1> QED BY <1>1, <1>2, <1>3, Zenon DEF StoreInv

\* /kill closes a channel, or panics with the read lock.
LEMMA KillTaskInv ==
  ASSUME EngineInv, NEW t \in Tasks, KillTask(t)
  PROVE  EngineInv'
<1> USE DEF EngineInv, KillTask, Kill
<1>1. StoreInv'
  BY SignalStepInv, Zenon DEF StoreInv
<1>2. TypeOK'
  BY Zenon DEF TypeOK, queueVars, workerVars, clientVars
<1>3. RunningIsKillable'
  BY Zenon DEF TypeOK, RunningIsKillable, workerVars
<1> QED BY <1>1, <1>2, <1>3, Zenon DEF StoreInv

\* A worker returns without touching the database: it knows nothing any more.
LEMMA WorkerReturnInv ==
  ASSUME EngineInv, NEW w \in Workers, wpc[w] # "idle", WorkerReturn(w),
         signals' \in {signals, signals \ {wtask[w]}},
         UNCHANGED <<queueVars, clientVars, crashes>>
  PROVE  EngineInv'
<1> USE EngineAssumption DEF EngineInv, WorkerReturn, WGoto
<1>1. TypeOK'
  BY DEF TypeOK, WorkerKnows, WorkerPCs, queueVars, clientVars
<1>2. PrefixExclusive' /\ ArchiveTerminal'
  BY Zenon DEF PrefixExclusive, ArchiveTerminal, Has, queueVars
<1>3. SingleOwner' /\ RunningIsKillable'
  BY DEF TypeOK, SingleOwner, RunningIsKillable, WorkerKnows, clientVars
<1>4. UnusedNowhere'
  BY DEF TypeOK, UnusedNowhere, Has, queueVars, clientVars
<1>5. WorkerKnows'
  BY DEF TypeOK, WorkerKnows, Has, queueVars
<1>6. PusherKnows'
  BY DEF TypeOK, PusherKnows, Has, InRemove, Canceling, queueVars, clientVars
<1> QED BY <1>1, <1>2, <1>3, <1>4, <1>5, <1>6, Zenon

\* The worker registers a signal and starts the goroutine that waits on it.
LEMMA AddSignalInv ==
  ASSUME EngineInv, NEW w \in Workers, AddSignal(w)
  PROVE  EngineInv'
<1> USE EngineAssumption DEF EngineInv, AddSignal, WGoto
<1>1. TypeOK'
  BY DEF TypeOK, WorkerKnows, WorkerPCs, queueVars, clientVars
<1>2. PrefixExclusive' /\ ArchiveTerminal'
  BY Zenon DEF PrefixExclusive, ArchiveTerminal, Has, queueVars
<1>3. SingleOwner' /\ RunningIsKillable'
  BY DEF TypeOK, SingleOwner, RunningIsKillable, WorkerKnows, clientVars
<1>4. UnusedNowhere' /\ WorkerKnows'
  BY DEF TypeOK, UnusedNowhere, WorkerKnows, Has, queueVars, clientVars
<1>5. PusherKnows'
  BY DEF TypeOK, PusherKnows, Has, InRemove, Canceling, queueVars, clientVars
<1> QED BY <1>1, <1>2, <1>3, <1>4, <1>5, Zenon

\* OpenLog and Execute move the worker on, or make it return.
LEMMA OpenLogInv ==
  ASSUME EngineInv, NEW w \in Workers, OpenLog(w)
  PROVE  EngineInv'
<1>1. CASE WorkerReturn(w) /\ UNCHANGED signals
  BY <1>1, WorkerReturnInv, Zenon DEF OpenLog
<1>2. CASE WGoto(w, "execute") /\ UNCHANGED <<wtask, wres, signalVars>>
  <2> USE <1>2 DEF EngineInv, OpenLog, WGoto, signalVars
  <2>1. TypeOK'
    BY Zenon DEF TypeOK, WorkerPCs, queueVars, clientVars
  <2>2. PrefixExclusive' /\ ArchiveTerminal' /\ SingleOwner' /\ RunningIsKillable'
    BY DEF TypeOK, PrefixExclusive, ArchiveTerminal, SingleOwner, RunningIsKillable,
           Has, queueVars, clientVars
  <2>3. UnusedNowhere' /\ WorkerKnows' /\ PusherKnows'
    BY DEF TypeOK, UnusedNowhere, WorkerKnows, PusherKnows, Has, InRemove, Canceling,
           queueVars, clientVars
  <2> QED BY <2>1, <2>2, <2>3, Zenon
<1> QED BY <1>1, <1>2, Zenon DEF OpenLog

\* The runner or builder returns: the result is complete or canceled.
LEMMA ExecuteInv ==
  ASSUME EngineInv, NEW w \in Workers, Execute(w)
  PROVE  EngineInv'
<1> USE DEF EngineInv, Execute, WGoto, signalVars
<1>1. TypeOK'
  BY Zenon DEF TypeOK, WorkerPCs, Terminal, queueVars, clientVars
<1>2. PrefixExclusive' /\ ArchiveTerminal' /\ SingleOwner' /\ RunningIsKillable'
  BY DEF TypeOK, PrefixExclusive, ArchiveTerminal, SingleOwner, RunningIsKillable,
         Has, queueVars, clientVars
<1>3. UnusedNowhere' /\ WorkerKnows' /\ PusherKnows'
  BY DEF TypeOK, UnusedNowhere, WorkerKnows, PusherKnows, Has, InRemove, Canceling,
         queueVars, clientVars
<1> QED BY <1>1, <1>2, <1>3, Zenon

\* Pop moves the first task to current, or drops it from the heap.
LEMMA PopInv ==
  ASSUME EngineInv, NEW w \in Workers, Pop(w)
  PROVE  EngineInv'
<1>1. PICK t \in heap :
        /\ heap' = heap \ {t}
        /\ \/ /\ Has("queue", t)
              /\ ChangePrefix("current", "queue", t)
              /\ WGoto(w, "addSignal")
              /\ wtask' = [wtask EXCEPT ![w] = t]
           \/ UNCHANGED <<db, wpc, wtask>>
  BY Zenon DEF Pop
<1>2. CASE UNCHANGED <<db, wpc, wtask>>
  <2>1. TypeOK'
    BY <1>1, <1>2, Zenon DEF Pop, EngineInv, TypeOK, clientVars, signalVars
  <2>2. PrefixExclusive' /\ ArchiveTerminal' /\ SingleOwner' /\ RunningIsKillable'
    BY <1>2 DEF Pop, EngineInv, PrefixExclusive, SingleOwner, ArchiveTerminal,
       RunningIsKillable, Has, clientVars, signalVars
  <2>3. UnusedNowhere' /\ WorkerKnows'
    BY <1>1, <1>2 DEF Pop, EngineInv, UnusedNowhere, WorkerKnows, Has, clientVars
  <2>4. PusherKnows'
    BY <1>2 DEF Pop, EngineInv, PusherKnows, Has, InRemove, Canceling, clientVars
  <2> QED BY <2>1, <2>2, <2>3, <2>4, Zenon DEF EngineInv
<1>3. CASE /\ Has("queue", t)
           /\ ChangePrefix("current", "queue", t)
           /\ WGoto(w, "addSignal")
           /\ wtask' = [wtask EXCEPT ![w] = t]
  <2> USE EngineAssumption DEF EngineInv
  <2>1. t \in Tasks /\ t # NoTask /\ db \in DBType /\ wpc[w] = "idle" /\ QFree
    BY <1>1, Zenon DEF TypeOK, DBType, Pop
  <2>2. /\ db' \in DBType
        /\ \A q \in Prefixes, x \in Tasks :
             db'[q][x] = IF x # t THEN db[q][x]
                         ELSE IF q = "current" THEN db["queue"][t]
                         ELSE IF q = "queue" THEN "none" ELSE db[q][x]
    BY <1>3, <2>1, ChangePrefixFacts DEF Prefixes
  <2>3. ~Has("archive", t) /\ ~Has("current", t)
    BY <1>3, <2>1, Zenon DEF PrefixExclusive, Prefixes
  <2>4. \A v \in Workers : wtask[v] # t
    BY <1>3, <2>1, Zenon DEF WorkerKnows
  <2>5. \A c \in Clients : ~InRemove(c) /\ ccancel[c] = NoTask
    BY <2>1, Zenon DEF QFree, PusherKnows, InRemove, Canceling
  <2>6. TypeOK'
    BY <1>1, <1>3, <2>1, <2>2, Zenon
       DEF TypeOK, Pop, WGoto, WorkerPCs, DBType, clientVars, signalVars
  <2>7. PrefixExclusive'
    BY <2>1, <2>2, <2>3 DEF PrefixExclusive, Has, Prefixes
  <2>8. SingleOwner' /\ ArchiveTerminal'
    BY <1>3, <2>1, <2>2, <2>4, <2>5
       DEF Pop, TypeOK, WGoto, SingleOwner, ArchiveTerminal, Has, clientVars, Prefixes
  <2>9. RunningIsKillable'
    BY <1>3, <2>1, Zenon DEF Pop, TypeOK, WGoto, RunningIsKillable, signalVars
  <2>10. UnusedNowhere'
    BY <1>1, <1>3, <2>1, <2>2 DEF Pop, TypeOK, UnusedNowhere, Has, clientVars, Prefixes
  <2>11. WorkerKnows'
    BY <1>3, <2>1, <2>2, <2>3, <2>4 DEF Pop, TypeOK, WGoto, WorkerKnows, Has, Prefixes
  <2>12. PusherKnows'
    BY <2>1, <2>5, Zenon DEF Pop, TypeOK, PusherKnows, InRemove, Canceling, clientVars
  <2> QED BY <2>6, <2>7, <2>8, <2>9, <2>10, <2>11, <2>12, Zenon
<1> QED BY <1>1, <1>2, <1>3, Zenon

\* The worker stores the last state of its task, or returns.
LEMMA PersistEndInv ==
  ASSUME EngineInv, NEW w \in Workers, PersistEnd(w)
  PROVE  EngineInv'
<1>1. CASE WorkerReturn(w) /\ UNCHANGED <<db, signals>>
  BY <1>1, WorkerReturnInv, Zenon DEF PersistEnd, queueVars
<1>2. CASE /\ Put("current", wtask[w], wres[w])
           /\ WGoto(w, "archive")
           /\ UNCHANGED <<wtask, wres, signalVars>>
  <2> USE EngineAssumption DEF EngineInv
  <2>1. /\ wtask[w] \in Tasks /\ db \in DBType /\ wres[w] \in Terminal
        /\ wpc[w] = "persistEnd"
    BY DEF TypeOK, WorkerKnows, PersistEnd, DBType
  <2>2. /\ db' \in DBType
        /\ \A q \in Prefixes, x \in Tasks :
             db'[q][x] = IF q = "current" /\ x = wtask[w] THEN wres[w] ELSE db[q][x]
    BY <1>2, <2>1, PutFacts DEF Prefixes, States, Terminal
  <2>3. TypeOK'
    BY <1>2, <2>2, Zenon DEF PersistEnd, TypeOK, WGoto, WorkerPCs, DBType, clientVars, signalVars
  <2>4. PrefixExclusive'
    BY <2>1, <2>2 DEF PrefixExclusive, Has, WorkerKnows, Prefixes
  <2>5. SingleOwner' /\ ArchiveTerminal'
    BY <1>2, <2>1, <2>2 DEF PersistEnd, TypeOK, WGoto, SingleOwner, ArchiveTerminal,
                          Has, clientVars, Prefixes
  <2>6. RunningIsKillable'
    BY <1>2, <2>1, Zenon DEF TypeOK, WGoto, RunningIsKillable, signalVars
  <2>7. UnusedNowhere'
    BY <1>2, <2>1, <2>2 DEF PersistEnd, TypeOK, UnusedNowhere, Has, clientVars
  <2>8. WorkerKnows'
    BY <1>2, <2>1, <2>2 DEF PersistEnd, TypeOK, WGoto, WorkerKnows, SingleOwner, Has, Prefixes
  <2>9. PusherKnows'
    BY <1>2, <2>1, <2>2 DEF PersistEnd, TypeOK, PusherKnows, SingleOwner, Has, Prefixes,
                          clientVars, InRemove, Canceling
  <2> QED BY <2>3, <2>4, <2>5, <2>6, <2>7, <2>8, <2>9, Zenon
<1> QED BY <1>1, <1>2, Zenon DEF PersistEnd

\* The worker archives its task, or returns.
LEMMA ArchiveInv ==
  ASSUME EngineInv, NEW w \in Workers, Archive(w)
  PROVE  EngineInv'
<1>1. CASE WorkerReturn(w) /\ UNCHANGED <<db, signals>>
  BY <1>1, WorkerReturnInv, Zenon DEF Archive, queueVars
<1>2. CASE /\ Has("current", wtask[w])
           /\ ChangePrefix("archive", "current", wtask[w])
           /\ WGoto(w, "deleteSignal")
           /\ UNCHANGED <<wtask, wres, signalVars>>
  <2> USE EngineAssumption DEF EngineInv
  <2>1. /\ wtask[w] \in Tasks /\ db \in DBType /\ wpc[w] = "archive"
        /\ db["current"][wtask[w]] \in Terminal
    BY <1>2 DEF TypeOK, WorkerKnows, Archive, DBType, Has
  <2>2. /\ db' \in DBType
        /\ \A q \in Prefixes, x \in Tasks :
             db'[q][x] = IF x # wtask[w] THEN db[q][x]
                         ELSE IF q = "archive" THEN db["current"][wtask[w]]
                         ELSE IF q = "current" THEN "none" ELSE db[q][x]
    BY <1>2, <2>1, ChangePrefixFacts DEF Prefixes
  <2>3. TypeOK'
    BY <1>2, <2>2, Zenon DEF Archive, TypeOK, WGoto, WorkerPCs, DBType, clientVars, signalVars
  <2>4. PrefixExclusive'
    BY <2>1, <2>2 DEF PrefixExclusive, Has, WorkerKnows, Prefixes
  <2>5. SingleOwner' /\ ArchiveTerminal'
    BY <1>2, <2>1, <2>2 DEF Archive, TypeOK, WGoto, SingleOwner, ArchiveTerminal,
                          Has, clientVars, Prefixes
  <2>6. RunningIsKillable'
    BY <1>2, <2>1, Zenon DEF TypeOK, WGoto, RunningIsKillable, signalVars
  <2>7. UnusedNowhere'
    BY <1>2, <2>1, <2>2 DEF Archive, TypeOK, UnusedNowhere, Has, clientVars
  <2>8. WorkerKnows'
    BY <1>2, <2>1, <2>2 DEF Archive, TypeOK, WGoto, WorkerKnows, SingleOwner, Has, Prefixes
  <2>9. PusherKnows'
    BY <1>2, <2>1, <2>2 DEF Archive, TypeOK, PusherKnows, SingleOwner, Has, Prefixes,
                          clientVars, InRemove, Canceling
  <2> QED BY <2>3, <2>4, <2>5, <2>6, <2>7, <2>8, <2>9, Zenon
<1> QED BY <1>1, <1>2, Zenon DEF Archive

\* The worker removes its signal and returns.
LEMMA DeleteSignalInv ==
  ASSUME EngineInv, NEW w \in Workers, DeleteSignal(w)
  PROVE  EngineInv'
BY WorkerReturnInv, Zenon DEF DeleteSignal

\* Every step of a worker preserves EngineInv.
LEMMA WorkerStepInv ==
  ASSUME EngineInv, NEW w \in Workers, WorkerStep(w)
  PROVE  EngineInv'
BY PopInv, AddSignalInv, PersistStartInv, OpenLogInv, ExecuteInv, PersistEndInv,
   ArchiveInv, DeleteSignalInv, Zenon DEF WorkerStep
-----------------------------------------------------------------------------
(* Requests: /run and the return of a request.                              *)

\* pushUnsafe of a task that is nowhere, while no one else is in the mutex.
LEMMA PushUnsafeFacts ==
  ASSUME db \in DBType, NEW t \in Tasks, NEW kept, PushUnsafe(t, kept)
  PROVE  /\ db' \in DBType
         /\ heap' = kept \/ heap' = kept \cup {t}
         /\ \A q \in Prefixes, x \in Tasks :
              \/ db'[q][x] = db[q][x]
              \/ q = "queue" /\ x = t /\ db'[q][x] = "scheduled"
BY PutFacts DEF PushUnsafe, Prefixes, States

\* queue.Push hands out a new id and stores it (QueueBuild, QueueRun).
LEMMA QueuePushInv ==
  ASSUME EngineInv, NEW t \in Tasks, QueuePush(t)
  PROVE  EngineInv'
<1> USE EngineAssumption DEF EngineInv
<1>1. /\ db \in DBType
      /\ \A p \in Prefixes : ~Has(p, t)
      /\ \A w \in Workers : wtask[w] # t
      /\ \A c \in Clients : ctask[c] # t /\ ccancel[c] # t /\ t \notin cleft[c]
      /\ QFree
  BY Zenon DEF TypeOK, DBType, QueuePush, UnusedNowhere
<1>2. /\ db' \in DBType
      /\ heap' = heap \/ heap' = heap \cup {t}
      /\ \A q \in Prefixes, x \in Tasks :
           \/ db'[q][x] = db[q][x]
           \/ q = "queue" /\ x = t /\ db'[q][x] = "scheduled"
  BY <1>1, PushUnsafeFacts, Zenon DEF QueuePush
<1>3. TypeOK'
  BY <1>2 DEF QueuePush, TypeOK, DBType, workerVars, clientVars, signalVars
<1>4. PrefixExclusive' /\ ArchiveTerminal'
  BY <1>1, <1>2 DEF PrefixExclusive, ArchiveTerminal, Has, Prefixes
<1>5. SingleOwner' /\ RunningIsKillable'
  BY Zenon DEF QueuePush, SingleOwner, RunningIsKillable, workerVars, clientVars, signalVars
<1>6. UnusedNowhere'
  BY <1>1, <1>2 DEF QueuePush, TypeOK, UnusedNowhere, Has, workerVars, clientVars
<1>7. WorkerKnows'
  BY <1>1, <1>2 DEF QueuePush, TypeOK, WorkerKnows, Has, Prefixes, workerVars
<1>8. PusherKnows'
  BY <1>1, <1>2, Zenon
     DEF QueuePush, QFree, TypeOK, PusherKnows, Has, Prefixes, InRemove, Canceling, clientVars
<1> QED BY <1>3, <1>4, <1>5, <1>6, <1>7, <1>8, Zenon

\* A run with a branch enters PushUniqueByBranch with the mutex.
LEMMA QueueRunInv ==
  ASSUME EngineInv, NEW c \in Clients, NEW t \in Tasks, QueueRun(c, t)
  PROVE  EngineInv'
<1> USE EngineAssumption DEF EngineInv, QueueRun, CGoto
<1>1. TypeOK'
  BY Zenon DEF TypeOK, Matching, ClientPCs, workerVars, signalVars
<1>2. PrefixExclusive' /\ ArchiveTerminal'
  BY Zenon DEF PrefixExclusive, ArchiveTerminal, Has
<1>3. SingleOwner' /\ RunningIsKillable'
  BY Zenon DEF SingleOwner, RunningIsKillable, workerVars, signalVars
<1>4. UnusedNowhere'
  BY Zenon DEF TypeOK, UnusedNowhere, Matching, Has, workerVars
<1>5. WorkerKnows'
  BY Zenon DEF WorkerKnows, Has, workerVars
<1>6. PusherKnows'
  <2>1. /\ \A p \in Prefixes : ~Has(p, t)
        /\ \A w \in Workers : wtask[w] # t
        /\ \A d \in Clients : ccancel[d] # t /\ ~InRemove(d)
    BY Zenon DEF UnusedNowhere, QFree
  <2> QED BY <2>1 DEF TypeOK, PusherKnows, Has, InRemove, Canceling, workerVars
<1> QED BY <1>1, <1>2, <1>3, <1>4, <1>5, <1>6, Zenon

\* A handler returns without touching the database.
LEMMA ClientReturnInv ==
  ASSUME EngineInv, NEW c \in Clients, ClientReturn(c),
         UNCHANGED <<queueVars, workerVars, signalVars, crashes>>
  PROVE  EngineInv'
<1> USE EngineAssumption DEF EngineInv, ClientReturn, CGoto
<1>1. TypeOK'
  BY Zenon DEF TypeOK, ClientPCs, Prefixes, queueVars, workerVars, signalVars
<1>2. PrefixExclusive' /\ ArchiveTerminal'
  BY Zenon DEF PrefixExclusive, ArchiveTerminal, Has, queueVars
<1>3. SingleOwner' /\ RunningIsKillable'
  <2>1. SingleOwner'
    BY DEF TypeOK, SingleOwner, WorkerKnows, workerVars
  <2>2. RunningIsKillable'
    BY Zenon DEF RunningIsKillable, workerVars, signalVars
  <2> QED BY <2>1, <2>2, Zenon
<1>4. UnusedNowhere'
  BY DEF TypeOK, UnusedNowhere, Has, queueVars, workerVars
<1>5. WorkerKnows'
  BY Zenon DEF WorkerKnows, Has, queueVars, workerVars
<1>6. PusherKnows'
  BY DEF TypeOK, PusherKnows, Has, InRemove, Canceling, queueVars, workerVars
<1> QED BY <1>1, <1>2, <1>3, <1>4, <1>5, <1>6, Zenon


-----------------------------------------------------------------------------
(* Requests: PushUniqueByBranch and /delete.                                *)

\* cancelTask moves a queued task to current, or fails.
LEMMA CancelProcessInv ==
  ASSUME EngineInv, NEW c \in Clients, CancelProcess(c)
  PROVE  EngineInv'
<1>1. CASE ClientReturn(c) /\ UNCHANGED db
  BY <1>1, ClientReturnInv, Zenon DEF CancelProcess, queueVars
<1>2. ASSUME NEW x \in cleft[c], Has("queue", x),
             ChangePrefix("current", "queue", x),
             CGoto(c, "cancelPersist"),
             ccancel' = [ccancel EXCEPT ![c] = x],
             cleft' = [cleft EXCEPT ![c] = @ \ {x}],
             UNCHANGED <<ctask, cpref>>
      PROVE  EngineInv'
  <2> USE EngineAssumption, <1>2 DEF EngineInv
  <2>1. /\ x \in Tasks /\ x # NoTask /\ db \in DBType
        /\ cpc[c] = "remove" /\ InRemove(c)
    BY Zenon DEF TypeOK, DBType, CancelProcess, InRemove
  <2>2. /\ db' \in DBType
        /\ \A q \in Prefixes, y \in Tasks :
             db'[q][y] = IF y # x THEN db[q][y]
                         ELSE IF q = "current" THEN db["queue"][x]
                         ELSE IF q = "queue" THEN "none" ELSE db[q][y]
    BY <2>1, ChangePrefixFacts DEF Prefixes
  <2>3. ~Has("archive", x) /\ ~Has("current", x)
    BY <2>1, Zenon DEF PrefixExclusive, Prefixes
  <2>4. /\ \A v \in Workers : wtask[v] # x
        /\ \A d \in Clients : InRemove(d) => d = c /\ ctask[d] # x
    BY <2>1 DEF WorkerKnows, PusherKnows, Prefixes
  <2>5. TypeOK'
    BY <2>1, <2>2, Zenon
       DEF TypeOK, CancelProcess, CGoto, ClientPCs, DBType, workerVars, signalVars
  <2>6. PrefixExclusive' /\ ArchiveTerminal'
    BY <2>1, <2>2, <2>3 DEF PrefixExclusive, ArchiveTerminal, Has, Prefixes
  <2>7. SingleOwner' /\ RunningIsKillable'
    BY <2>4, Zenon
       DEF CancelProcess, TypeOK, SingleOwner, RunningIsKillable, workerVars, signalVars
  <2>8. UnusedNowhere'
    BY <2>1, <2>2 DEF CancelProcess, TypeOK, UnusedNowhere, Has, Prefixes, workerVars
  <2>9. WorkerKnows'
    BY <2>1, <2>2, <2>4 DEF CancelProcess, TypeOK, WorkerKnows, Has, Prefixes, workerVars
  <2>10. PusherKnows'
    BY <2>1, <2>2, <2>3, <2>4 DEF CancelProcess, CGoto, TypeOK, PusherKnows, Has, Prefixes,
                                  InRemove, Canceling, workerVars
  <2> QED BY <2>5, <2>6, <2>7, <2>8, <2>9, <2>10, Zenon
<1> QED BY <1>1, <1>2, Zenon DEF CancelProcess

\* cancelTask writes the state canceled, or fails.
LEMMA CancelPersistInv ==
  ASSUME EngineInv, NEW c \in Clients, CancelPersist(c)
  PROVE  EngineInv'
<1>1. CASE ClientReturn(c) /\ UNCHANGED db
  BY <1>1, ClientReturnInv, Zenon DEF CancelPersist, queueVars
<1>2. CASE /\ Put("current", ccancel[c], "canceled")
           /\ CGoto(c, "cancelArchive")
           /\ UNCHANGED <<ctask, ccancel, cleft, cpref>>
  <2> USE EngineAssumption, <1>2 DEF EngineInv
  <2>0. cpc[c] = "cancelPersist" /\ InRemove(c) /\ Canceling(c) /\ db \in DBType
    BY Zenon DEF TypeOK, DBType, CancelPersist, InRemove, Canceling
  <2>1. /\ ccancel[c] \in Tasks /\ db \in DBType
        /\ cpc[c] = "cancelPersist" /\ InRemove(c) /\ Canceling(c)
    BY <2>0, Zenon DEF TypeOK, PusherKnows
  <2>2. /\ db' \in DBType
        /\ \A q \in Prefixes, y \in Tasks :
             db'[q][y] = IF q = "current" /\ y = ccancel[c] THEN "canceled" ELSE db[q][y]
    BY <2>1, PutFacts DEF Prefixes, States
  <2>3. TypeOK'
    BY <2>2, Zenon DEF TypeOK, CancelPersist, CGoto, ClientPCs, DBType, workerVars, signalVars
  <2>4. PrefixExclusive' /\ ArchiveTerminal'
    BY <2>1, <2>2 DEF PusherKnows, PrefixExclusive, ArchiveTerminal, Has, Prefixes
  <2>5. SingleOwner' /\ RunningIsKillable'
    BY Zenon DEF CancelPersist, SingleOwner, RunningIsKillable, workerVars, signalVars
  <2>6. UnusedNowhere'
    BY <2>1, <2>2 DEF CancelPersist, TypeOK, UnusedNowhere, Has, Prefixes, workerVars
  <2>7. WorkerKnows'
    BY <2>1, <2>2 DEF CancelPersist, TypeOK, WorkerKnows, SingleOwner, Has, Prefixes, workerVars
  <2>8. PusherKnows'
    BY <2>1, <2>2 DEF CancelPersist, CGoto, TypeOK, PusherKnows, Has, Prefixes, Terminal,
                      InRemove, Canceling, workerVars
  <2> QED BY <2>3, <2>4, <2>5, <2>6, <2>7, <2>8, Zenon
<1> QED BY <1>1, <1>2, Zenon DEF CancelPersist

\* cancelTask archives the canceled task, or fails.
LEMMA CancelArchiveInv ==
  ASSUME EngineInv, NEW c \in Clients, CancelArchive(c)
  PROVE  EngineInv'
<1>1. CASE ClientReturn(c) /\ UNCHANGED db
  BY <1>1, ClientReturnInv, Zenon DEF CancelArchive, queueVars
<1>2. CASE /\ Has("current", ccancel[c])
           /\ ChangePrefix("archive", "current", ccancel[c])
           /\ CGoto(c, "remove")
           /\ ccancel' = [ccancel EXCEPT ![c] = NoTask]
           /\ UNCHANGED <<ctask, cleft, cpref>>
  <2> USE EngineAssumption, <1>2 DEF EngineInv
  <2> DEFINE x == ccancel[c]
  <2>1. /\ x \in Tasks /\ db \in DBType
        /\ cpc[c] = "cancelArchive" /\ InRemove(c) /\ Canceling(c)
        /\ db["current"][x] \in Terminal
    BY DEF TypeOK, DBType, CancelArchive, InRemove, Canceling, PusherKnows, Has
  <2>2. /\ db' \in DBType
        /\ \A q \in Prefixes, y \in Tasks :
             db'[q][y] = IF y # x THEN db[q][y]
                         ELSE IF q = "archive" THEN db["current"][x]
                         ELSE IF q = "current" THEN "none" ELSE db[q][y]
    BY <2>1, ChangePrefixFacts DEF Prefixes
  <2>3. TypeOK'
    BY <2>2, Zenon DEF TypeOK, CancelArchive, CGoto, ClientPCs, DBType, workerVars, signalVars
  <2>4. PrefixExclusive' /\ ArchiveTerminal'
    BY <2>1, <2>2 DEF PusherKnows, PrefixExclusive, ArchiveTerminal, Has, Prefixes
  <2>5. SingleOwner' /\ RunningIsKillable'
    BY DEF CancelArchive, TypeOK, WorkerKnows, SingleOwner, RunningIsKillable, workerVars,
           signalVars
  <2>6. UnusedNowhere'
    BY <2>1, <2>2 DEF CancelArchive, TypeOK, UnusedNowhere, Has, Prefixes, workerVars
  <2>7. WorkerKnows'
    BY <2>1, <2>2 DEF CancelArchive, TypeOK, WorkerKnows, SingleOwner, Has, Prefixes, workerVars
  <2>8. PusherKnows'
    BY <2>1, <2>2 DEF CancelArchive, CGoto, TypeOK, PusherKnows, Has, Prefixes,
                      InRemove, Canceling, workerVars
  <2> QED BY <2>3, <2>4, <2>5, <2>6, <2>7, <2>8, Zenon
<1> QED BY <1>1, <1>2, Zenon DEF CancelArchive

\* PushUniqueByBranch pushes its task and releases the mutex.
LEMMA RemoveDoneInv ==
  ASSUME EngineInv, NEW c \in Clients, RemoveDone(c)
  PROVE  EngineInv'
<1> USE EngineAssumption DEF EngineInv
<1> DEFINE t == ctask[c]
<1>1. /\ db \in DBType /\ InRemove(c) /\ t \in Tasks
      /\ \A p \in Prefixes : ~Has(p, t)
      /\ \A w \in Workers : wtask[w] # t
      /\ \A d \in Clients : ccancel[d] # t /\ (InRemove(d) => d = c)
      /\ t \notin unused
  BY DEF TypeOK, DBType, RemoveDone, InRemove, Canceling, PusherKnows, UnusedNowhere
<1>2. /\ db' \in DBType
      /\ heap' \subseteq heap \cup {t}
      /\ \A q \in Prefixes, x \in Tasks :
           \/ db'[q][x] = db[q][x]
           \/ q = "queue" /\ x = t /\ db'[q][x] = "scheduled"
  <2> DEFINE kept == heap \ Matching(t)
  <2>1. PushUnsafe(t, kept)
    BY Zenon DEF RemoveDone
  <2> HIDE DEF kept
  <2>2. /\ db' \in DBType
        /\ heap' = kept \/ heap' = kept \cup {t}
        /\ \A q \in Prefixes, x \in Tasks :
             \/ db'[q][x] = db[q][x]
             \/ q = "queue" /\ x = t /\ db'[q][x] = "scheduled"
    BY <1>1, <2>1, PushUnsafeFacts, Zenon
  <2> QED BY <2>2, Zenon DEF kept
<1>3. TypeOK'
  BY <1>1, <1>2 DEF RemoveDone, ClientReturn, CGoto, ClientPCs, Prefixes, TypeOK, DBType,
                    workerVars, signalVars
<1>4. PrefixExclusive'
  <2>1. ASSUME NEW x \in Tasks, NEW p \in Prefixes, NEW q \in Prefixes, Has(p, x)', Has(q, x)'
        PROVE  p = q
    <3>1. CASE x = t
      <4>1. p = "queue" /\ q = "queue"
        BY <1>1, <1>2, <2>1, <3>1, Zenon DEF Has
      <4> QED BY <4>1, Zenon
    <3>2. CASE x # t
      <4>1. Has(p, x) /\ Has(q, x)
        BY <1>2, <2>1, <3>2, Zenon DEF Has
      <4> QED BY <4>1, Zenon DEF PrefixExclusive
    <3> QED BY <3>1, <3>2, Zenon
  <2> QED BY <2>1, Zenon DEF PrefixExclusive
<1>9. ArchiveTerminal'
  BY <1>2, Zenon DEF ArchiveTerminal, Has, Prefixes
<1>5. SingleOwner' /\ RunningIsKillable'
  BY DEF RemoveDone, ClientReturn, TypeOK, WorkerKnows, SingleOwner, RunningIsKillable,
         workerVars, signalVars
<1>6. UnusedNowhere'
  BY <1>1, <1>2 DEF RemoveDone, ClientReturn, TypeOK, UnusedNowhere, Has, workerVars
<1>7. WorkerKnows'
  BY <1>1, <1>2 DEF RemoveDone, TypeOK, WorkerKnows, Has, Prefixes, workerVars
<1>8. PusherKnows'
  BY <1>1, <1>2 DEF RemoveDone, ClientReturn, CGoto, TypeOK, PusherKnows, Has, Prefixes,
                    InRemove, Canceling, workerVars
<1> QED BY <1>3, <1>4, <1>5, <1>6, <1>7, <1>8, <1>9, Zenon

\* /delete: the kill that precedes the deletion only closes a channel.
LEMMA DeleteKillInv ==
  ASSUME EngineInv, NEW c \in Clients, NEW t \in Tasks, DeleteKill(c, t)
  PROVE  EngineInv'
<1> USE EngineAssumption DEF EngineInv, DeleteKill, Kill
<1>0. UNCHANGED <<db, heap, unused, wpc, wtask, wres, crashes>>
  BY Zenon DEF queueVars, workerVars
<1>1. TypeOK'
  <2>1. /\ closed' \subseteq Tasks /\ rleak' \in BOOLEAN
        /\ UNCHANGED <<signals, watcher, ctxDone>>
    BY DEF TypeOK
  <2>2. CASE KillPanics(t)
    BY <1>0, <2>1, <2>2, Zenon DEF TypeOK, clientVars
  <2>3. CASE ~KillPanics(t)
    <3>1. /\ cpc' \in [Clients -> ClientPCs] /\ ctask' \in [Clients -> Tasks \cup {NoTask}]
          /\ cpref' \in [Clients -> Prefixes] /\ UNCHANGED <<ccancel, cleft>>
      BY <2>3 DEF TypeOK, CGoto, ClientPCs, Prefixes
    <3> QED BY <1>0, <2>1, <3>1, Zenon DEF TypeOK
  <2> QED BY <2>2, <2>3, Zenon
<1>2. PrefixExclusive' /\ ArchiveTerminal' /\ WorkerKnows'
  <2>1. PrefixExclusive' /\ ArchiveTerminal'
    BY <1>0, Zenon DEF PrefixExclusive, ArchiveTerminal, Has
  <2>2. WorkerKnows'
    BY <1>0, Zenon DEF WorkerKnows, Has
  <2> QED BY <2>1, <2>2, Zenon
<1>3. SingleOwner' /\ RunningIsKillable'
  BY Zenon DEF TypeOK, SingleOwner, RunningIsKillable, workerVars, clientVars
<1>4. UnusedNowhere'
  BY DEF TypeOK, UnusedNowhere, Has, queueVars, workerVars, clientVars
<1>5. PusherKnows'
  BY DEF TypeOK, PusherKnows, CGoto, Has, InRemove, Canceling, queueVars, workerVars, clientVars
<1> QED BY <1>1, <1>2, <1>3, <1>4, <1>5, Zenon

\* /delete: looking for the task under the next prefix changes no task.
LEMMA DeleteLookupInv ==
  ASSUME EngineInv, NEW c \in Clients, DeleteLookup(c)
  PROVE  EngineInv'
<1>1. CASE ClientReturn(c)
  BY <1>1, ClientReturnInv, Zenon DEF DeleteLookup
<1>2. CASE \/ CGoto(c, "delete") /\ UNCHANGED <<ctask, ccancel, cleft, cpref>>
           \/ /\ cpref' = [cpref EXCEPT ![c] = NextPrefix(@)]
              /\ UNCHANGED <<cpc, ctask, ccancel, cleft>>
  <2>1. /\ UNCHANGED <<queueVars, workerVars, signalVars, crashes, ctask, ccancel, cleft>>
        /\ cpref' \in [Clients -> Prefixes]
        /\ cpc' \in {cpc, [cpc EXCEPT ![c] = "delete"]}
        /\ cpc[c] = "lookup"
    BY <1>2, Zenon DEF DeleteLookup, CGoto, EngineInv, TypeOK, NextPrefix, Prefixes
  <2>2. TypeOK'
    BY <2>1, Zenon DEF EngineInv, TypeOK, ClientPCs, queueVars, workerVars, signalVars
  <2>3. PrefixExclusive' /\ ArchiveTerminal' /\ WorkerKnows'
    <3>1. UNCHANGED <<db, wpc, wtask, wres>>
      BY <2>1, Zenon DEF queueVars, workerVars
    <3>2. PrefixExclusive'
      BY <3>1, Zenon DEF EngineInv, PrefixExclusive, Has
    <3>3. ArchiveTerminal'
      BY <3>1, Zenon DEF EngineInv, ArchiveTerminal, Has
    <3>4. WorkerKnows'
      BY <3>1, Zenon DEF EngineInv, WorkerKnows, Has
    <3> QED BY <3>2, <3>3, <3>4, Zenon
  <2>4. SingleOwner' /\ RunningIsKillable' /\ UnusedNowhere'
    BY <2>1 DEF EngineInv, SingleOwner, RunningIsKillable, UnusedNowhere, Has, queueVars,
                workerVars, signalVars
  <2>5. PusherKnows'
    BY <2>1 DEF EngineInv, TypeOK, PusherKnows, Has, InRemove, Canceling, queueVars, workerVars
  <2> QED BY <2>2, <2>3, <2>4, <2>5, Zenon DEF EngineInv
<1> QED BY <1>1, <1>2, Zenon DEF DeleteLookup

\* delete only takes a key away, and the handler returns.
LEMMA DeleteKeyInv ==
  ASSUME EngineInv, NEW c \in Clients, DeleteKey(c)
  PROVE  EngineInv'
<1> USE EngineAssumption
<1>1. /\ db' \in DBType
      /\ \A q \in Prefixes, x \in Tasks : db'[q][x] \in {db[q][x], "none"}
  <2>1. CASE UNCHANGED db
    BY <2>1, Zenon DEF EngineInv, TypeOK, DBType
  <2>2. CASE Put(cpref[c], ctask[c], "none")
    BY <2>2, Zenon DEF EngineInv, TypeOK, DBType, Put
  <2> QED BY <2>1, <2>2, Zenon DEF DeleteKey
<1>2. TypeOK'
  BY <1>1, Zenon
     DEF EngineInv, DeleteKey, ClientReturn, CGoto, TypeOK, DBType, ClientPCs, Prefixes,
         workerVars, signalVars
<1>3. PrefixExclusive' /\ ArchiveTerminal'
  BY <1>1 DEF EngineInv, PrefixExclusive, ArchiveTerminal, Has, Prefixes
<1>4. SingleOwner' /\ RunningIsKillable'
  BY DEF EngineInv, DeleteKey, ClientReturn, TypeOK, WorkerKnows, SingleOwner, RunningIsKillable,
         workerVars, signalVars
<1>5. UnusedNowhere'
  BY <1>1 DEF EngineInv, DeleteKey, ClientReturn, TypeOK, UnusedNowhere, Has, workerVars
<1>6. WorkerKnows'
  BY <1>1 DEF EngineInv, DeleteKey, TypeOK, WorkerKnows, Has, Prefixes, workerVars
<1>7. PusherKnows'
  BY <1>1
     DEF EngineInv, DeleteKey, ClientReturn, CGoto, TypeOK, PusherKnows, Has, Prefixes, InRemove,
              Canceling, workerVars
<1> QED BY <1>2, <1>3, <1>4, <1>5, <1>6, <1>7, Zenon DEF EngineInv

\* A restart leaves the database and forgets everything in memory (NewQueue).
LEMMA RestartInv ==
  ASSUME EngineInv, Restart
  PROVE  EngineInv'
<1> USE EngineAssumption
<1>1. TypeOK'
  <2>1. /\ wpc' \in [Workers -> WorkerPCs] /\ wtask' \in [Workers -> Tasks \cup {NoTask}]
        /\ wres' \in [Workers -> Terminal \cup {"none"}] /\ cpc' \in [Clients -> ClientPCs]
        /\ ctask' \in [Clients -> Tasks \cup {NoTask}]
        /\ ccancel' \in [Clients -> Tasks \cup {NoTask}]
        /\ cleft' \in [Clients -> SUBSET Tasks] /\ cpref' \in [Clients -> Prefixes]
        /\ watcher' \in [Tasks -> {"none", "waiting", "deleting"}]
    BY Zenon DEF Restart, WorkerPCs, ClientPCs, Prefixes
  <2>2. crashes' \in 0..MaxCrashes
    BY DEF Restart, EngineInv, TypeOK
  <2>3. /\ heap' \subseteq Tasks /\ UNCHANGED <<db, unused>>
        /\ signals' = {} /\ closed' = {} /\ ctxDone' = {}
    BY Zenon DEF Restart
  <2>4. rleak' \in BOOLEAN
    BY Zenon DEF Restart
  <2> QED BY <2>1, <2>2, <2>3, <2>4 DEF EngineInv, TypeOK
<1>2. PrefixExclusive' /\ ArchiveTerminal' /\ SingleOwner' /\ RunningIsKillable'
  BY DEF Restart, EngineInv, PrefixExclusive, ArchiveTerminal, SingleOwner, RunningIsKillable, Has
<1>3. UnusedNowhere'
  BY DEF Restart, EngineInv, TypeOK, UnusedNowhere, Has, Prefixes
<1>4. WorkerKnows' /\ PusherKnows'
  BY Zenon DEF Restart, WorkerKnows, PusherKnows, InRemove, Canceling
<1> QED BY <1>1, <1>2, <1>3, <1>4, Zenon DEF EngineInv

\* Every step of the engine preserves EngineInv.
LEMMA NextInv ==
  ASSUME EngineInv, [Next]_vars
  PROVE  EngineInv'
<1>1. CASE UNCHANGED vars
  <2>1. StoreInv'
    BY <1>1, SignalStepInv, Zenon DEF EngineInv, StoreInv, vars
  <2>2. TypeOK'
    BY <1>1, Zenon DEF EngineInv, TypeOK, vars, queueVars, workerVars, clientVars, signalVars
  <2>3. RunningIsKillable'
    BY <1>1, Zenon DEF EngineInv, RunningIsKillable, vars, workerVars, signalVars
  <2> QED BY <2>1, <2>2, <2>3, Zenon DEF EngineInv, StoreInv
<1>2. CASE \E w \in Workers : PopEmpty(w)
  BY <1>1, <1>2, Zenon DEF PopEmpty
<1>3. ASSUME NEW c \in Clients, RequestStep(c)
      PROVE  EngineInv'
  BY <1>3, CancelProcessInv, CancelPersistInv, CancelArchiveInv, RemoveDoneInv,
     DeleteLookupInv, DeleteKeyInv, Zenon DEF RequestStep
<1> QED
  BY <1>1, <1>2, <1>3, WorkerStepInv, TimeoutInv, WatcherInv, QueuePushInv, KillTaskInv,
     TasksFailsInv,
     QueueRunInv, DeleteKillInv, RestartInv, Zenon DEF Next

-----------------------------------------------------------------------------
(* Theorems.                                                                *)

\* Whatever workers, requests, deletions, restarts and storage errors do, handed-out
\* ids, workers, PushUniqueByBranch and database agree (Engine.worker, Queue, Storage).
THEOREM EngineInvariant == Spec => []EngineInv
<1>1. Init => EngineInv
  <2> SUFFICES ASSUME Init PROVE EngineInv
    BY Zenon
  <2> USE EngineAssumption DEF Init
  <2>1. TypeOK
    <3>1. db \in [Prefixes -> [Tasks -> States \cup {"none"}]]
      BY Zenon
    <3>2. /\ wpc \in [Workers -> WorkerPCs] /\ wtask \in [Workers -> Tasks \cup {NoTask}]
          /\ wres \in [Workers -> Terminal \cup {"none"}] /\ cpc \in [Clients -> ClientPCs]
          /\ ctask \in [Clients -> Tasks \cup {NoTask}]
          /\ ccancel \in [Clients -> Tasks \cup {NoTask}]
          /\ cleft \in [Clients -> SUBSET Tasks] /\ cpref \in [Clients -> Prefixes]
          /\ watcher \in [Tasks -> {"none", "waiting", "deleting"}]
      BY Zenon DEF WorkerPCs, ClientPCs, Prefixes
    <3>3. /\ heap \subseteq Tasks /\ unused \subseteq Tasks /\ signals \subseteq Tasks
          /\ closed \subseteq Tasks /\ ctxDone \subseteq Tasks
      BY Zenon
    <3>4. crashes = 0 /\ rleak = FALSE
      BY Zenon
    <3> HIDE DEF Init
    <3>5. crashes \in 0..MaxCrashes
      BY <3>4
    <3>6. rleak \in BOOLEAN
      BY <3>4, Zenon
    <3> QED BY <3>1, <3>2, <3>3, <3>5, <3>6, Zenon DEF TypeOK
  <2>2. PrefixExclusive /\ ArchiveTerminal /\ SingleOwner /\ RunningIsKillable
    BY Zenon DEF PrefixExclusive, ArchiveTerminal, SingleOwner, RunningIsKillable, Has, Prefixes
  <2>3. UnusedNowhere /\ WorkerKnows /\ PusherKnows
    BY Zenon DEF UnusedNowhere, WorkerKnows, PusherKnows, InRemove, Canceling, Has, Prefixes
  <2> QED BY <2>1, <2>2, <2>3, Zenon DEF EngineInv
<1>2. EngineInv /\ [Next]_vars => EngineInv'
  BY NextInv, Zenon
<1> QED BY <1>1, <1>2, PTL DEF Spec

\* Every variable of the engine keeps its type.
THEOREM TypeCorrect == Spec => []TypeOK
<1>1. EngineInv => TypeOK
  BY Zenon DEF EngineInv
<1> QED BY <1>1, EngineInvariant, PTL

\* A task is never stored under two prefixes (Storage.put, changePrefix, delete).
THEOREM StoredOnce == Spec => []PrefixExclusive
<1>1. EngineInv => PrefixExclusive
  BY Zenon DEF EngineInv
<1> QED BY <1>1, EngineInvariant, PTL

\* A popped task belongs to one worker and to no cancellation (Queue.Pop, cancelTask).
THEOREM OwnedOnce == Spec => []SingleOwner
<1>1. EngineInv => SingleOwner
  BY Zenon DEF EngineInv
<1> QED BY <1>1, EngineInvariant, PTL

\* Only finished tasks reach the archive (Engine.worker, Queue.cancelTask).
THEOREM ArchivedFinished == Spec => []ArchiveTerminal
<1>1. EngineInv => ArchiveTerminal
  BY Zenon DEF EngineInv
<1> QED BY <1>1, EngineInvariant, PTL

\* A running task whose context is alive can be killed (Engine.worker, Engine.Kill).
THEOREM KillableWhileRunning == Spec => []RunningIsKillable
<1>1. EngineInv => RunningIsKillable
  BY Zenon DEF EngineInv
<1> QED BY <1>1, EngineInvariant, PTL
=============================================================================
