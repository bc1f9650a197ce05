-------------------------- MODULE EngineRefinement --------------------------
(***************************************************************************)
(* What becomes of a stored task, for any tasks, workers, clients and      *)
(* bounds.  Without deletions Engine implements TaskLifecycle, storage      *)
(* errors and restarts included.  Until a storage error or a restart       *)
(* nothing Engine has stored is forgotten.                                 *)
(***************************************************************************)
EXTENDS EngineProofs

-----------------------------------------------------------------------------
(* What a worker or PushUniqueByBranch has in hand is stored under current.  *)

ReadyInv == EngineInv /\ InHandStored

\* A worker's step keeps the tasks in hand under current.
LEMMA WorkerInHand ==
  ASSUME ReadyInv, NEW w \in Workers, WorkerStep(w)
  PROVE  InHandStored'
<1> USE EngineAssumption DEF ReadyInv, EngineInv
<1>0. db \in DBType
  BY Zenon DEF TypeOK, DBType
<1>1. CASE AddSignal(w) \/ OpenLog(w) \/ Execute(w) \/ DeleteSignal(w)
  <2>1. UNCHANGED <<db, clientVars>>
    BY <1>1, Zenon DEF AddSignal, OpenLog, Execute, DeleteSignal, queueVars
  <2>2. \A v \in Workers :
          wpc'[v] \notin {"idle", "deleteSignal"} =>
            wpc[v] \notin {"idle", "deleteSignal"} /\ wtask'[v] = wtask[v]
    <3>1. CASE AddSignal(w)
      BY <3>1, Zenon DEF AddSignal, WGoto, TypeOK
    <3>2. CASE OpenLog(w)
      BY <3>2, Zenon DEF OpenLog, WorkerReturn, WGoto, TypeOK
    <3>3. CASE Execute(w)
      BY <3>3, Zenon DEF Execute, WGoto, TypeOK
    <3>4. CASE DeleteSignal(w)
      BY <3>4, Zenon DEF DeleteSignal, WorkerReturn, WGoto, TypeOK
    <3> QED BY <1>1, <3>1, <3>2, <3>3, <3>4, Zenon
  <2> QED BY <2>1, <2>2, Zenon DEF InHandStored, Has, Canceling, clientVars
<1>2. CASE PersistStart(w) \/ PersistEnd(w)
  <2>1. wtask[w] \in Tasks /\ wpc[w] \notin {"idle", "deleteSignal"}
    BY <1>2 DEF TypeOK, WorkerKnows, PersistStart, PersistEnd
  <2>2. \A q \in Prefixes, x \in Tasks :
          db'[q][x] = db[q][x] \/ (q = "current" /\ db'[q][x] # "none")
    <3>1. ASSUME NEW v \in States, Put("current", wtask[w], v)
          PROVE  \A q \in Prefixes, x \in Tasks :
                   db'[q][x] = IF q = "current" /\ x = wtask[w] THEN v ELSE db[q][x]
      BY <1>0, <2>1, <3>1, PutFacts DEF Prefixes
    <3>2. wpc[w] = "persistEnd" => wres[w] \in States
      BY Zenon DEF WorkerKnows, Terminal, States
    <3> QED BY <1>2, <3>1, <3>2 DEF PersistStart, PersistEnd, States
  <2>3. \A c \in Clients : Canceling(c) => ccancel[c] \in Tasks
    BY Zenon DEF TypeOK, PusherKnows
  <2> QED BY <1>2, <2>1, <2>2, <2>3 DEF PersistStart, PersistEnd, WorkerReturn, WGoto, TypeOK,
             InHandStored, Has, Canceling, Prefixes, WorkerKnows, clientVars
<1>3. CASE Pop(w)
  <2>1. PICK t \in heap :
          \/ /\ Has("queue", t)
             /\ ChangePrefix("current", "queue", t)
             /\ WGoto(w, "addSignal")
             /\ wtask' = [wtask EXCEPT ![w] = t]
          \/ UNCHANGED <<db, wpc, wtask>>
    BY <1>3, Zenon DEF Pop
  <2>2. CASE UNCHANGED <<db, wpc, wtask>>
    BY <1>3, <2>2, Zenon DEF Pop, InHandStored, Has, Canceling, clientVars
  <2>3. CASE /\ Has("queue", t)
             /\ ChangePrefix("current", "queue", t)
             /\ WGoto(w, "addSignal")
             /\ wtask' = [wtask EXCEPT ![w] = t]
    <3>1. t \in Tasks
      BY DEF TypeOK
    <3>2. \A q \in Prefixes, x \in Tasks :
            db'[q][x] = IF x # t THEN db[q][x]
                        ELSE IF q = "current" THEN db["queue"][t]
                        ELSE IF q = "queue" THEN "none" ELSE db[q][x]
      BY <1>0, <2>3, <3>1, ChangePrefixFacts DEF Prefixes
    <3>3. \A c \in Clients : ~Canceling(c)
      BY <1>3, Zenon DEF Pop, QFree, InRemove, Canceling
    <3> QED BY <1>3, <2>3, <3>1, <3>2, <3>3 DEF Pop, WGoto, TypeOK, InHandStored, Has,
               Canceling, Prefixes, WorkerKnows, clientVars
  <2> QED BY <2>1, <2>2, <2>3, Zenon
<1>4. CASE Archive(w)
  <2>1. CASE WorkerReturn(w) /\ UNCHANGED <<db, signals>>
    BY <1>4, <2>1, Zenon
       DEF Archive, WorkerReturn, WGoto, TypeOK, InHandStored, Has, Canceling, clientVars
  <2>2. CASE /\ ChangePrefix("archive", "current", wtask[w])
             /\ WGoto(w, "deleteSignal")
             /\ UNCHANGED <<wtask, wres, signalVars>>
    <3>1. wtask[w] \in Tasks
      BY <1>4 DEF TypeOK, WorkerKnows, Archive
    <3>2. \A q \in Prefixes, x \in Tasks : x # wtask[w] => db'[q][x] = db[q][x]
      BY <1>0, <2>2, <3>1, ChangePrefixFacts DEF Prefixes
    <3>3. \A c \in Clients : Canceling(c) => ccancel[c] \in Tasks /\ ccancel[c] # wtask[w]
      BY <1>4 DEF Archive, TypeOK, PusherKnows, SingleOwner
    <3>4. \A v \in Workers : v # w /\ wpc[v] # "idle" => wtask[v] \in Tasks /\ wtask[v] # wtask[w]
      BY <1>4 DEF Archive, TypeOK, WorkerKnows, SingleOwner
    <3> QED BY <1>4, <2>2, <3>2, <3>3, <3>4 DEF Archive, WGoto, TypeOK, InHandStored, Has,
               Canceling, Prefixes, clientVars
  <2> QED BY <1>4, <2>1, <2>2, Zenon DEF Archive
<1> QED BY <1>1, <1>2, <1>3, <1>4, Zenon DEF WorkerStep

\* A cancellation's step keeps the tasks in hand under current.
LEMMA CancelInHand ==
  ASSUME ReadyInv, NEW c \in Clients,
         CancelProcess(c) \/ CancelPersist(c) \/ CancelArchive(c)
  PROVE  InHandStored'
<1> USE EngineAssumption DEF ReadyInv, EngineInv
<1> USE DEF CancelProcess, CancelPersist, CancelArchive
<1>0. /\ db \in DBType /\ InRemove(c)
      /\ \A d \in Clients : Canceling(d) => d = c /\ ccancel[d] \in Tasks
      /\ \A w \in Workers : wpc[w] # "idle" => wtask[w] \in Tasks
  BY DEF TypeOK, DBType, PusherKnows, WorkerKnows, InRemove, Canceling
<1>1. CASE ClientReturn(c) /\ UNCHANGED db
  BY <1>1, Zenon DEF ClientReturn, CGoto, TypeOK, InHandStored, Has, Canceling, workerVars
<1>2. ASSUME NEW x \in cleft[c], cpc[c] = "remove", Has("queue", x),
             ChangePrefix("current", "queue", x),
             CGoto(c, "cancelPersist"),
             ccancel' = [ccancel EXCEPT ![c] = x]
      PROVE  InHandStored'
  <2>1. x \in Tasks
    BY Zenon DEF TypeOK
  <2>2. \A q \in Prefixes, y \in Tasks :
          db'[q][y] = IF y # x THEN db[q][y]
                      ELSE IF q = "current" THEN db["queue"][x]
                      ELSE IF q = "queue" THEN "none" ELSE db[q][y]
    BY <1>0, <1>2, <2>1, ChangePrefixFacts DEF Prefixes
  <2> QED BY <1>0, <1>2, <2>1, <2>2 DEF CGoto, TypeOK, InHandStored, Has, Canceling,
             Prefixes, WorkerKnows, workerVars
<1>3. CASE /\ cpc[c] = "cancelPersist"
           /\ Put("current", ccancel[c], "canceled")
           /\ CGoto(c, "cancelArchive")
           /\ UNCHANGED <<ctask, ccancel, cleft, cpref>>
  <2>1. \A q \in Prefixes, y \in Tasks :
          db'[q][y] = IF q = "current" /\ y = ccancel[c] THEN "canceled" ELSE db[q][y]
    BY <1>0, <1>3, PutFacts DEF Prefixes, States, Canceling
  <2> QED BY <1>0, <1>3, <2>1 DEF CGoto, TypeOK, InHandStored, Has, Canceling,
             Prefixes, workerVars
<1>4. CASE /\ cpc[c] = "cancelArchive"
           /\ ChangePrefix("archive", "current", ccancel[c])
           /\ CGoto(c, "remove")
           /\ ccancel' = [ccancel EXCEPT ![c] = NoTask]
  <2>1. \A q \in Prefixes, y \in Tasks : y # ccancel[c] => db'[q][y] = db[q][y]
    BY <1>0, <1>4, ChangePrefixFacts DEF Prefixes, Canceling
  <2>2. \A w \in Workers : wpc[w] # "idle" => wtask[w] # ccancel[c]
    BY Zenon DEF SingleOwner
  <2> QED BY <1>0, <1>4, <2>1, <2>2 DEF CGoto, TypeOK, InHandStored, Has, Canceling,
             Prefixes, workerVars
<1> QED BY <1>1, <1>2, <1>3, <1>4, Zenon

\* A push touches no task in hand.
LEMMA PushInHand ==
  ASSUME ReadyInv,
         \/ \E t \in Tasks : QueuePush(t)
         \/ \E c \in Clients : RemoveDone(c)
  PROVE  InHandStored'
<1> USE EngineAssumption DEF ReadyInv, EngineInv
<1>1. /\ db \in DBType
      /\ \A w \in Workers : wpc[w] # "idle" => wtask[w] \in Tasks
      /\ \A d \in Clients : Canceling(d) => ccancel[d] \in Tasks
  BY DEF TypeOK, DBType, PusherKnows, WorkerKnows
<1>2. ASSUME NEW t \in Tasks, QueuePush(t) PROVE InHandStored'
  <2>1. \A x \in Tasks : Has("current", x) => Has("current", x)'
    BY <1>1, <1>2, PushUnsafeFacts, Zenon DEF QueuePush, Has, Prefixes
  <2> QED BY <1>1, <1>2, <2>1, Zenon
             DEF QueuePush, InHandStored, Canceling, workerVars, clientVars
<1>3. ASSUME NEW c \in Clients, RemoveDone(c) PROVE InHandStored'
  <2>1. ctask[c] \in Tasks
    BY <1>3, Zenon DEF RemoveDone, PusherKnows, InRemove
  <2>2. \A x \in Tasks : Has("current", x) => Has("current", x)'
    BY <1>1, <1>3, <2>1, PushUnsafeFacts, Zenon DEF RemoveDone, Has, Prefixes
  <2> QED BY <1>1, <1>3, <2>2, Zenon DEF RemoveDone, ClientReturn, CGoto, TypeOK, InHandStored,
             Canceling, workerVars
<1> QED BY <1>2, <1>3, Zenon

\* Every step keeps the tasks in hand under current, without deletions.
LEMMA NextInHand ==
  ASSUME ReadyInv, [Next]_vars
  PROVE  InHandStored'
<1>1. CASE UNCHANGED <<db, workerVars, clientVars>>
  BY <1>1, Zenon DEF ReadyInv, InHandStored, Has, Canceling, workerVars, clientVars
<1>2. CASE UNCHANGED vars \/ \E w \in Workers : PopEmpty(w) \/ Timeout(w)
  BY <1>1, <1>2, Zenon DEF PopEmpty, Timeout, vars, queueVars
<1>3. CASE TasksFails \/ \E t \in Tasks : WatcherStep(t) \/ KillTask(t)
  BY <1>1, <1>3, Zenon
     DEF WatcherStep, WatcherSignalled, WatcherDeletes, WatcherCancels, WatcherDone, KillTask,
         TasksFails, queueVars
<1>4. CASE \E c \in Clients, t \in Tasks : QueueRun(c, t)
  BY <1>4 DEF QueueRun, CGoto, ReadyInv, EngineInv, TypeOK, PusherKnows, InHandStored, Has,
              Canceling, workerVars
<1>5. CASE \E c \in Clients : DeleteLookup(c) \/ DeleteKey(c) \/ \E t \in Tasks : DeleteKill(c, t)
  BY <1>5, Zenon DEF DeleteLookup, DeleteKey, DeleteKill, ReadyInv, InHandStored
<1>6. CASE Restart
  BY <1>6, Zenon DEF Restart, InHandStored, Canceling
<1> QED
  BY <1>2, <1>3, <1>4, <1>5, <1>6, WorkerInHand, CancelInHand, PushInHand, Zenon
     DEF Next, RequestStep

\* InHandStored holds in every reachable state.
THEOREM ReadyInvariant == Spec => []ReadyInv
<1>1. Init => InHandStored
  BY Zenon DEF Init, InHandStored, Canceling
<1>2. EngineInv /\ InHandStored /\ [Next]_vars => InHandStored'
  BY NextInHand, Zenon DEF ReadyInv
<1> QED BY <1>1, <1>2, EngineInvariant, PTL DEF Spec, ReadyInv

-----------------------------------------------------------------------------
(* Each step of Engine is a step of TaskLifecycle or leaves it alone.       *)

\* The stages after a write, from the stage of each task.
LEMMA StageExcept ==
  ASSUME NEW t \in Tasks, NEW v, \A x \in Tasks : Stage(x)' = IF x = t THEN v ELSE Stage(x)
  PROVE  stageBar' = [stageBar EXCEPT ![t] = v]
BY Zenon DEF stageBar

\* Moving one task between two prefixes is a Move of the lifecycle.
LEMMA MoveStage ==
  ASSUME EngineInv, NEW t \in Tasks, Has("queue", t), ChangePrefix("current", "queue", t)
  PROVE  stageBar[t] = "queue" /\ stageBar' = [stageBar EXCEPT ![t] = "current"]
<1>1. /\ db \in DBType /\ ~Has("archive", t) /\ ~Has("current", t)
  BY Zenon DEF EngineInv, TypeOK, DBType, PrefixExclusive, Prefixes
<1>2. \A q \in Prefixes, x \in Tasks :
        db'[q][x] = IF x # t THEN db[q][x]
                    ELSE IF q = "current" THEN db["queue"][t]
                    ELSE IF q = "queue" THEN "none" ELSE db[q][x]
  BY <1>1, ChangePrefixFacts DEF Prefixes
<1>3. Stage(t) = "queue" /\ \A x \in Tasks : Stage(x)' = IF x = t THEN "current" ELSE Stage(x)
  BY <1>1, <1>2, Zenon DEF Stage, Has, Prefixes
<1> QED BY <1>3, StageExcept, Zenon DEF stageBar

\* Archiving a task is a Finish of the lifecycle.
LEMMA FinishStage ==
  ASSUME EngineInv, NEW t \in Tasks, Has("current", t), ChangePrefix("archive", "current", t)
  PROVE  stageBar[t] = "current" /\ stageBar' = [stageBar EXCEPT ![t] = "archive"]
<1>1. /\ db \in DBType /\ ~Has("archive", t)
  BY Zenon DEF EngineInv, TypeOK, DBType, PrefixExclusive, Prefixes
<1>2. \A q \in Prefixes, x \in Tasks :
        db'[q][x] = IF x # t THEN db[q][x]
                    ELSE IF q = "archive" THEN db["current"][t]
                    ELSE IF q = "current" THEN "none" ELSE db[q][x]
  BY <1>1, ChangePrefixFacts, Zenon DEF Prefixes
<1>3. Stage(t) = "current" /\ \A x \in Tasks : Stage(x)' = IF x = t THEN "archive" ELSE Stage(x)
  BY <1>1, <1>2, Zenon DEF Stage, Has, Prefixes
<1> QED BY <1>3, StageExcept, Zenon DEF stageBar

\* Overwriting a task under current leaves its stage alone.
LEMMA PutStage ==
  ASSUME EngineInv, NEW t \in Tasks, Has("current", t),
         NEW v \in States, Put("current", t, v)
  PROVE  stageBar' = stageBar
<1>1. db \in DBType
  BY Zenon DEF EngineInv, TypeOK, DBType
<1>2. \A q \in Prefixes, x \in Tasks :
        db'[q][x] = IF q = "current" /\ x = t THEN v ELSE db[q][x]
  BY <1>1, PutFacts DEF Prefixes
<1>3. v # "none"
  BY Zenon DEF States
<1> QED BY <1>1, <1>2, <1>3 DEF stageBar, Stage, Has, Prefixes

\* pushUnsafe is an Accept or a Refuse of the lifecycle.
LEMMA PushStage ==
  ASSUME EngineInv, NEW t \in Tasks, NEW kept, PushUnsafe(t, kept),
         \A p \in Prefixes : ~Has(p, t)
  PROVE  /\ stageBar[t] = "none"
         /\ stageBar' = stageBar \/ stageBar' = [stageBar EXCEPT ![t] = "queue"]
<1>1. db \in DBType
  BY Zenon DEF EngineInv, TypeOK, DBType
<1>2. CASE UNCHANGED db
  BY <1>2, Zenon DEF stageBar, Stage, Has, Prefixes
<1>3. CASE Put("queue", t, "scheduled")
  <2>1. \A q \in Prefixes, x \in Tasks :
          db'[q][x] = IF q = "queue" /\ x = t THEN "scheduled" ELSE db[q][x]
    BY <1>1, <1>3, PutFacts DEF Prefixes, States
  <2>2. Stage(t) = "none" /\ \A x \in Tasks : Stage(x)' = IF x = t THEN "queue" ELSE Stage(x)
    BY <1>1, <2>1, Zenon DEF Stage, Has, Prefixes
  <2> QED BY <2>2, StageExcept, Zenon DEF stageBar
<1> QED BY <1>2, <1>3, Zenon DEF PushUnsafe

\* A client that leaves PushUniqueByBranch takes its task out of the fresh ones.
LEMMA LeaveFresh ==
  ASSUME EngineInv, NEW c \in Clients, InRemove(c), ClientReturn(c), UNCHANGED unused
  PROVE  /\ ctask[c] \in Tasks /\ ctask[c] \in freshBar
         /\ freshBar' = freshBar \ {ctask[c]}
<1>1. /\ ctask[c] \in Tasks /\ ctask[c] \notin unused
      /\ \A d \in Clients : InRemove(d) => d = c
  BY Zenon DEF EngineInv, PusherKnows, UnusedNowhere
<1>2. \A d \in Clients : ~InRemove(d)'
  BY <1>1, Zenon DEF EngineInv, TypeOK, ClientReturn, CGoto, InRemove
<1> QED BY <1>1, <1>2, Zenon DEF freshBar

\* A worker's step is a step of the lifecycle, or leaves it alone.
LEMMA WorkerSimulates ==
  ASSUME ReadyInv, Deletable = {}, NEW w \in Workers, WorkerStep(w)
  PROVE  [Lifecycle!LifecycleNext]_Lifecycle!lifecycleVars
<1> USE DEF Lifecycle!LifecycleNext, Lifecycle!lifecycleVars
<1>0. UNCHANGED freshBar
  BY Zenon DEF WorkerStep, Pop, AddSignal, PersistStart, OpenLog, Execute, PersistEnd, Archive,
         DeleteSignal, freshBar, InRemove, queueVars, clientVars
<1>1. CASE UNCHANGED db
  BY <1>0, <1>1, Zenon DEF stageBar, Stage, Has
<1>2. CASE AddSignal(w) \/ OpenLog(w) \/ Execute(w) \/ DeleteSignal(w)
  BY <1>1, <1>2, Zenon DEF AddSignal, OpenLog, Execute, DeleteSignal, queueVars
<1>3. CASE Pop(w)
  <2>1. CASE \E t \in heap : Has("queue", t) /\ ChangePrefix("current", "queue", t)
    BY <1>0, <2>1, MoveStage, Zenon
       DEF ReadyInv, EngineInv, TypeOK, Lifecycle!Claim, Lifecycle!Move
  <2> QED BY <1>1, <1>3, <2>1, Zenon DEF Pop
<1>4. CASE PersistStart(w) \/ PersistEnd(w)
  <2>1. /\ wtask[w] \in Tasks /\ Has("current", wtask[w])
        /\ wpc[w] = "persistEnd" => wres[w] \in States
    BY <1>4, EngineAssumption
       DEF ReadyInv, EngineInv, InHandStored, TypeOK, WorkerKnows, PersistStart,
       PersistEnd, Terminal, States
  <2>2. CASE \E v \in States : Put("current", wtask[w], v)
    BY <1>0, <2>1, <2>2, PutStage, Zenon DEF ReadyInv
  <2> QED BY <1>1, <1>4, <2>1, <2>2, Zenon DEF PersistStart, PersistEnd, States
<1>5. CASE Archive(w)
  <2>1. wtask[w] \in Tasks
    BY <1>5, EngineAssumption DEF ReadyInv, EngineInv, TypeOK, WorkerKnows, Archive
  <2>2. CASE Has("current", wtask[w]) /\ ChangePrefix("archive", "current", wtask[w])
    BY <1>0, <2>1, <2>2, FinishStage, Zenon DEF ReadyInv, Lifecycle!Finish, Lifecycle!Move
  <2> QED BY <1>1, <1>5, <2>2, Zenon DEF Archive
<1> QED BY <1>2, <1>3, <1>4, <1>5, Zenon DEF WorkerStep

\* A cancellation's step is a step of the lifecycle, or leaves it alone.
LEMMA CancelSimulates ==
  ASSUME ReadyInv, Deletable = {}, NEW c \in Clients,
         CancelProcess(c) \/ CancelPersist(c) \/ CancelArchive(c)
  PROVE  [Lifecycle!LifecycleNext]_Lifecycle!lifecycleVars
<1> USE DEF Lifecycle!LifecycleNext, Lifecycle!lifecycleVars
<1>0. InRemove(c) /\ UNCHANGED unused
  BY Zenon DEF CancelProcess, CancelPersist, CancelArchive, InRemove
<1>1. CASE ClientReturn(c) /\ UNCHANGED db
  <2>1. UNCHANGED stageBar
    BY <1>1, Zenon DEF stageBar, Stage, Has
  <2> QED BY <1>0, <1>1, <2>1, LeaveFresh, Zenon DEF ReadyInv, Lifecycle!Refuse
<1>2. CASE ~ClientReturn(c)
  <2>1. /\ UNCHANGED ctask /\ InRemove(c)'
        /\ \A d \in Clients : d # c => cpc'[d] = cpc[d]
    BY <1>2, Zenon DEF ReadyInv, EngineInv, TypeOK, CancelProcess, CancelPersist, CancelArchive,
       CGoto, InRemove
  <2>2. UNCHANGED freshBar
    <3>1. \A d \in Clients : InRemove(d)' <=> InRemove(d)
      BY <1>0, <2>1, Zenon DEF InRemove
    <3> QED BY <1>0, <2>1, <3>1, Zenon DEF freshBar
  <2>3. CASE \E x \in cleft[c] : Has("queue", x) /\ ChangePrefix("current", "queue", x)
    BY <2>2, <2>3, MoveStage, Zenon
       DEF ReadyInv, EngineInv, TypeOK, Lifecycle!Claim, Lifecycle!Move
  <2>4. Canceling(c) => ccancel[c] \in Tasks /\ Has("current", ccancel[c])
    BY Zenon DEF ReadyInv, EngineInv, TypeOK, PusherKnows, InHandStored
  <2>5. CASE CancelPersist(c) /\ Put("current", ccancel[c], "canceled")
    BY <2>2, <2>4, <2>5, PutStage, Zenon DEF ReadyInv, States, CancelPersist, Canceling
  <2>6. CASE CancelArchive(c) /\ ChangePrefix("archive", "current", ccancel[c])
    BY <2>2, <2>4, <2>6, FinishStage, Zenon DEF ReadyInv, CancelArchive, Canceling,
       Lifecycle!Finish, Lifecycle!Move
  <2> QED BY <1>2, <2>3, <2>5, <2>6, Zenon DEF CancelProcess, CancelPersist, CancelArchive
<1>3. ASSUME ClientReturn(c) PROVE UNCHANGED db
  <2>1. cpc'[c] = "idle"
    BY <1>3, Zenon DEF ReadyInv, EngineInv, TypeOK, ClientReturn, CGoto
  <2>2. \A pc : CGoto(c, pc) => cpc'[c] = pc
    BY Zenon DEF ReadyInv, EngineInv, TypeOK, CGoto
  <2> QED BY <2>1, <2>2, Zenon DEF CancelProcess, CancelPersist, CancelArchive
<1> QED BY <1>1, <1>2, <1>3, Zenon

\* A push is a step of the lifecycle, or leaves it alone.
LEMMA PushSimulates ==
  ASSUME ReadyInv,
         \/ \E t \in Tasks : QueuePush(t)
         \/ \E c \in Clients : RemoveDone(c)
  PROVE  [Lifecycle!LifecycleNext]_Lifecycle!lifecycleVars
<1> USE DEF Lifecycle!LifecycleNext, Lifecycle!lifecycleVars
<1>1. ASSUME NEW t \in Tasks, t \in freshBar, freshBar' = freshBar \ {t},
             NEW kept, PushUnsafe(t, kept), \A p \in Prefixes : ~Has(p, t)
      PROVE  Lifecycle!LifecycleNext
  BY <1>1, PushStage, Zenon DEF ReadyInv, Lifecycle!Accept, Lifecycle!Refuse, Lifecycle!Move
<1>2. ASSUME NEW t \in Tasks, QueuePush(t)
      PROVE  Lifecycle!LifecycleNext
  <2>1. /\ t \in unused /\ \A p \in Prefixes : ~Has(p, t)
        /\ \A c \in Clients : ctask[c] # t
    BY <1>2, Zenon DEF QueuePush, ReadyInv, EngineInv, UnusedNowhere
  <2>2. t \in freshBar /\ freshBar' = freshBar \ {t}
    BY <1>2, <2>1, Zenon DEF QueuePush, freshBar, InRemove, clientVars
  <2> QED BY <1>1, <1>2, <2>1, <2>2, Zenon DEF QueuePush
<1>3. ASSUME NEW c \in Clients, RemoveDone(c)
      PROVE  Lifecycle!LifecycleNext
  <2>1. InRemove(c) /\ \A p \in Prefixes : ~Has(p, ctask[c])
    BY <1>3, Zenon DEF RemoveDone, InRemove, ReadyInv, EngineInv, PusherKnows
  <2>2. /\ ctask[c] \in Tasks /\ ctask[c] \in freshBar
        /\ freshBar' = freshBar \ {ctask[c]}
    BY <1>3, <2>1, LeaveFresh, Zenon DEF RemoveDone, ReadyInv
  <2>3. PICK kept : PushUnsafe(ctask[c], kept)
    BY <1>3, Zenon DEF RemoveDone
  <2> QED BY <1>1, <2>1, <2>2, <2>3, Zenon
<1> QED BY <1>2, <1>3, Zenon

\* Every step of the engine is a step of the lifecycle, or leaves it alone.
LEMMA NextSimulates ==
  ASSUME ReadyInv, Deletable = {}, [Next]_vars
  PROVE  [Lifecycle!LifecycleNext]_Lifecycle!lifecycleVars
<1> USE DEF Lifecycle!lifecycleVars
<1>1. CASE UNCHANGED <<queueVars, clientVars>>
  BY <1>1, Zenon DEF stageBar, freshBar, Stage, Has, InRemove, queueVars, clientVars
<1>2. CASE UNCHANGED vars \/ \E w \in Workers : PopEmpty(w) \/ Timeout(w)
  BY <1>1, <1>2, Zenon DEF PopEmpty, Timeout, vars
<1>3. CASE TasksFails \/ \E t \in Tasks : WatcherStep(t) \/ KillTask(t)
  BY <1>1, <1>3, Zenon
     DEF WatcherStep, WatcherSignalled, WatcherDeletes, WatcherCancels, WatcherDone, KillTask,
         TasksFails
<1>4. ASSUME NEW c \in Clients, NEW t \in Tasks, QueueRun(c, t)
      PROVE  UNCHANGED <<stageBar, freshBar>>
  <2>1. UNCHANGED stageBar
    BY <1>4, Zenon DEF QueueRun, stageBar, Stage, Has
  <2>2. \A d \in Clients : ~InRemove(d) /\ (InRemove(d)' <=> d = c)
    BY <1>4, Zenon DEF QueueRun, QFree, CGoto, InRemove, ReadyInv, EngineInv, TypeOK
  <2>3. ctask'[c] = t /\ t \in unused /\ unused' = unused \ {t}
    BY <1>4, Zenon DEF QueueRun, ReadyInv, EngineInv, TypeOK
  <2> QED BY <2>1, <2>2, <2>3, Zenon DEF freshBar
<1>5. CASE \E c \in Clients : DeleteLookup(c) \/ DeleteKey(c) \/ \E t \in Tasks : DeleteKill(c, t)
  BY <1>5, Zenon DEF DeleteLookup, DeleteKey, DeleteKill, ReadyInv, InHandStored
<1>6. CASE Restart
  <2>1. UNCHANGED stageBar
    BY <1>6, Zenon DEF Restart, stageBar, Stage, Has
  <2>2. freshBar' \subseteq freshBar
    BY <1>6, Zenon DEF Restart, freshBar, InRemove
  <2> QED BY <2>1, <2>2, Zenon DEF Lifecycle!LifecycleNext, Lifecycle!Forget
<1> QED
  BY <1>2, <1>3, <1>4, <1>5, <1>6, WorkerSimulates, CancelSimulates, PushSimulates, Zenon
     DEF Next, RequestStep

\* Without deletions, tasks only move forward through the prefixes, whatever workers,
\* requests, storage errors and restarts do (Storage, Queue, Engine.worker).
THEOREM Refinement == Deletable = {} /\ Spec => ImplementsLifecycle
<1> SUFFICES ASSUME Deletable = {} PROVE Spec => ImplementsLifecycle
  BY Zenon
<1>1. Init => Lifecycle!LifecycleInit
  BY DEF Init, Lifecycle!LifecycleInit, stageBar, freshBar, Stage, Has, InRemove, Prefixes
<1>2. ReadyInv /\ [Next]_vars => [Lifecycle!LifecycleNext]_Lifecycle!lifecycleVars
  BY NextSimulates, Zenon
<1> QED BY <1>1, <1>2, ReadyInvariant, PTL
           DEF Spec, ImplementsLifecycle, Lifecycle!LifecycleSpec
-----------------------------------------------------------------------------
(* Until a storage error or a restart every stored task has someone to end it. *)

\* A worker's step: it holds on to its task until the task is out of current.
LEMMA WorkerTracked ==
  ASSUME EngineInv, TrackedInv, ~StoreFails, crashes = 0, NEW w \in Workers, WorkerStep(w)
  PROVE  TrackedInv'
<1> USE EngineAssumption DEF EngineInv
<1>0. /\ db \in DBType
      /\ wpc[w] # "idle" => wtask[w] \in Tasks
      /\ UNCHANGED clientVars
  BY DEF TypeOK, DBType, WorkerKnows, WorkerStep, Pop, AddSignal, PersistStart, OpenLog,
         Execute, PersistEnd, Archive, DeleteSignal
<1>1. CASE AddSignal(w) \/ OpenLog(w) \/ Execute(w)
  <2>1. UNCHANGED <<queueVars, wtask>> /\ \E pc : pc # "deleteSignal" /\ WGoto(w, pc)
    BY <1>1, Zenon DEF AddSignal, OpenLog, Execute
  <2> QED BY <1>0, <2>1
             DEF TypeOK, WGoto, TrackedInv, Has, InRemove, Matching, queueVars, clientVars
<1>2. CASE PersistStart(w) \/ PersistEnd(w)
  <2>1. /\ wpc[w] # "idle" /\ UNCHANGED <<heap, wtask>>
        /\ \E pc : pc # "deleteSignal" /\ WGoto(w, pc)
    BY <1>2, Zenon DEF PersistStart, PersistEnd
  <2>2. \A q \in Prefixes, x \in Tasks :
          q # "current" \/ x # wtask[w] => db'[q][x] = db[q][x]
    <3>1. ASSUME NEW v \in States, Put("current", wtask[w], v)
          PROVE  \A q \in Prefixes, x \in Tasks :
                   q # "current" \/ x # wtask[w] => db'[q][x] = db[q][x]
      BY <1>0, <2>1, <3>1, PutFacts DEF Prefixes
    <3>2. wpc[w] = "persistEnd" => wres[w] \in States
      BY Zenon DEF WorkerKnows, Terminal, States
    <3> QED BY <1>2, <3>1, <3>2, Zenon DEF PersistStart, PersistEnd, States
  <2>3. \A t \in Tasks :
          /\ Has("queue", t)' <=> Has("queue", t)
          /\ t # wtask[w] => (Has("current", t)' <=> Has("current", t))
    BY <2>2, Zenon DEF Has, Prefixes
  <2>4. \A v \in Workers : wpc'[v] = "deleteSignal" =>
           wpc[v] = "deleteSignal" /\ wtask[v] \in Tasks /\ wtask[v] # wtask[w]
    BY <2>1 DEF TypeOK, WGoto, WorkerKnows, SingleOwner
  <2> QED BY <1>0, <2>1, <2>3, <2>4, Zenon DEF TypeOK, TrackedInv, InRemove, Matching, clientVars
<1>3. CASE Pop(w)
  <2>1. PICK t \in heap :
          /\ heap' = heap \ {t}
          /\ \/ /\ Has("queue", t)
                /\ ChangePrefix("current", "queue", t)
                /\ WGoto(w, "addSignal")
                /\ wtask' = [wtask EXCEPT ![w] = t]
             \/ ~Has("queue", t) /\ UNCHANGED <<db, wpc, wtask>>
    BY <1>3, Zenon DEF Pop
  <2>2. \A c \in Clients : ~InRemove(c)'
    BY <1>0, <1>3, Zenon DEF Pop, QFree, InRemove, clientVars
  <2>3. CASE ~Has("queue", t) /\ UNCHANGED <<db, wpc, wtask>>
    BY <1>0, <2>1, <2>2, <2>3, Zenon DEF TrackedInv, Has, clientVars
  <2>4. CASE /\ Has("queue", t)
             /\ ChangePrefix("current", "queue", t)
             /\ WGoto(w, "addSignal")
             /\ wtask' = [wtask EXCEPT ![w] = t]
    <3>1. t \in Tasks /\ wtask[w] = NoTask
      BY <1>3, Zenon DEF TypeOK, Pop, WorkerKnows
    <3>2. \A q \in Prefixes, x \in Tasks :
            db'[q][x] = IF x # t THEN db[q][x]
                        ELSE IF q = "current" THEN db["queue"][t]
                        ELSE IF q = "queue" THEN "none" ELSE db[q][x]
      BY <1>0, <2>4, <3>1, ChangePrefixFacts DEF Prefixes
    <3>3. /\ ~Has("queue", t)'
          /\ \A x \in Tasks \ {t} : /\ Has("queue", x)' <=> Has("queue", x)
                                    /\ Has("current", x)' <=> Has("current", x)
      BY <3>1, <3>2, Zenon DEF Has, Prefixes
    <3>4. \A v \in Workers : v # w => wtask'[v] = wtask[v] /\ wpc'[v] = wpc[v]
      BY <2>4, Zenon DEF TypeOK, WGoto
    <3>5. wtask'[w] = t /\ wpc'[w] = "addSignal"
      BY <2>4, Zenon DEF TypeOK, WGoto
    <3>6. \A v \in Workers : wpc[v] = "deleteSignal" => wtask[v] \in Tasks \ {t}
      BY <2>4 DEF TypeOK, WorkerKnows
    <3>7. \A x \in Tasks : Has("queue", x)' => x \in heap'
      BY <2>1, <3>3, Zenon DEF TrackedInv
    <3>8. \A x \in Tasks : Has("current", x)' =>
             (\E v \in Workers : wtask'[v] = x) \/ (\E c \in Clients : ccancel'[c] = x)
      BY <1>0, <3>1, <3>3, <3>4, <3>5 DEF TrackedInv, clientVars
    <3>9. \A v \in Workers : wpc'[v] = "deleteSignal" => db'["current"][wtask'[v]] = "none"
      BY <3>3, <3>4, <3>5, <3>6 DEF TrackedInv, Has
    <3> QED BY <2>2, <3>7, <3>8, <3>9, Zenon DEF TrackedInv, Has
  <2> QED BY <2>1, <2>3, <2>4, Zenon
<1>4. CASE Archive(w) \/ DeleteSignal(w)
  <2>1. /\ UNCHANGED heap /\ wpc[w] \in {"archive", "deleteSignal"}
        /\ \A x \in Tasks : Has("queue", x)' <=> Has("queue", x)
        /\ \A x \in Tasks : x # wtask[w] => (Has("current", x)' <=> Has("current", x))
        /\ db'["current"][wtask[w]] = "none"
    <3>1. CASE ChangePrefix("archive", "current", wtask[w]) /\ Archive(w)
      <4>1. wtask[w] \in Tasks
        BY <1>0, <3>1, Zenon DEF Archive
      <4>2. \A q \in Prefixes, x \in Tasks :
              db'[q][x] = IF x # wtask[w] THEN db[q][x]
                          ELSE IF q = "archive" THEN db["current"][wtask[w]]
                          ELSE IF q = "current" THEN "none" ELSE db[q][x]
        BY <1>0, <3>1, <4>1, ChangePrefixFacts DEF Prefixes
      <4> QED BY <3>1, <4>1, <4>2, Zenon DEF Archive, Has, Prefixes
    <3>2. CASE ~Has("current", wtask[w]) /\ UNCHANGED db
      BY <1>4, <3>2, Zenon DEF Archive, DeleteSignal, Has, queueVars
    <3> QED BY <1>4, <3>1, <3>2, Zenon DEF Archive, DeleteSignal, TrackedInv, queueVars
  <2>2. \A v \in Workers : v # w => wtask'[v] = wtask[v] /\ wpc'[v] = wpc[v]
    BY <1>4, Zenon DEF Archive, DeleteSignal, WorkerReturn, WGoto, TypeOK
  <2>3. wpc'[w] = "deleteSignal" => wtask'[w] = wtask[w]
    BY <1>4, Zenon DEF Archive, DeleteSignal, WorkerReturn, WGoto, TypeOK
  <2>4. \A v \in Workers : v # w /\ wpc[v] = "deleteSignal" =>
           wtask[v] \in Tasks /\ wtask[v] # wtask[w]
    BY <2>1 DEF TypeOK, WorkerKnows, SingleOwner
  <2>5. \A x \in Tasks : Has("queue", x)' => x \in heap'
    BY <2>1, Zenon DEF TrackedInv
  <2>6. \A x \in Tasks : Has("current", x)' =>
           (\E v \in Workers : wtask'[v] = x) \/ (\E c \in Clients : ccancel'[c] = x)
    BY <1>0, <2>1, <2>2 DEF TrackedInv, Has, clientVars
  <2>7. \A v \in Workers : wpc'[v] = "deleteSignal" => db'["current"][wtask'[v]] = "none"
    BY <2>1, <2>2, <2>3, <2>4 DEF TrackedInv, Has
  <2>8. \A c \in Clients :
          InRemove(c)' => \A x \in Matching(ctask[c])' : x \in cleft'[c] \/ ~Has("queue", x)'
    BY <1>0, <2>1, Zenon DEF TypeOK, TrackedInv, InRemove, Matching, clientVars
  <2> QED BY <2>5, <2>6, <2>7, <2>8, Zenon DEF TrackedInv, Has, InRemove, Matching
<1> QED BY <1>1, <1>2, <1>3, <1>4, Zenon DEF WorkerStep

\* A cancellation holds on to its task until the task is out of current.
LEMMA CancelTracked ==
  ASSUME EngineInv, TrackedInv, ~StoreFails, crashes = 0, NEW c \in Clients,
         CancelProcess(c) \/ CancelPersist(c) \/ CancelArchive(c)
  PROVE  TrackedInv'
<1> USE EngineAssumption DEF EngineInv
<1> USE DEF CancelProcess, CancelPersist, CancelArchive
<1>0. /\ db \in DBType /\ InRemove(c) /\ UNCHANGED <<heap, workerVars>>
      /\ \A d \in Clients : InRemove(d) => d = c
      /\ \A d \in Clients : ccancel[d] # NoTask => d = c
      /\ \A w \in Workers : wpc[w] = "deleteSignal" => wtask[w] \in Tasks
      /\ \A w \in Workers, d \in Clients : wpc[w] = "deleteSignal" => ccancel[d] # wtask[w]
  BY DEF TypeOK, DBType, InRemove, Canceling, PusherKnows, WorkerKnows, SingleOwner
<1>1. ASSUME ClientReturn(c), UNCHANGED db, ccancel[c] # NoTask => ~Has("current", ccancel[c])
      PROVE  TrackedInv'
  <2>1. \A d \in Clients : ~InRemove(d)'
    BY <1>0, <1>1, Zenon DEF ClientReturn, CGoto, TypeOK, InRemove
  <2>2. \A x \in Tasks, d \in Clients : Has("current", x) /\ ccancel[d] = x => ccancel'[d] = x
    BY <1>0, <1>1, Zenon DEF ClientReturn, TypeOK
  <2> QED BY <1>0, <1>1, <2>1, <2>2, Zenon DEF TrackedInv, Has, workerVars
<1>2. ASSUME NEW x \in cleft[c], cpc[c] = "remove", Has("queue", x),
             ChangePrefix("current", "queue", x),
             CGoto(c, "cancelPersist"),
             ccancel' = [ccancel EXCEPT ![c] = x],
             cleft' = [cleft EXCEPT ![c] = @ \ {x}],
             UNCHANGED ctask
      PROVE  TrackedInv'
  <2>1. x \in Tasks /\ ccancel[c] = NoTask /\ ccancel'[c] = x
    BY <1>2 DEF TypeOK, PusherKnows, Canceling
  <2>2. \A q \in Prefixes, y \in Tasks :
          db'[q][y] = IF y # x THEN db[q][y]
                      ELSE IF q = "current" THEN db["queue"][x]
                      ELSE IF q = "queue" THEN "none" ELSE db[q][y]
    BY <1>0, <1>2, <2>1, ChangePrefixFacts DEF Prefixes
  <2>3. /\ ~Has("queue", x)'
        /\ \A y \in Tasks \ {x} : /\ Has("queue", y)' <=> Has("queue", y)
                                  /\ Has("current", y)' <=> Has("current", y)
    BY <2>1, <2>2, Zenon DEF Has, Prefixes
  <2>4. \A y \in Tasks : Has("queue", y)' => y \in heap'
    BY <1>0, <2>3, Zenon DEF TrackedInv
  <2>5. \A y \in Tasks : Has("current", y)' =>
           (\E v \in Workers : wtask'[v] = y) \/ (\E d \in Clients : ccancel'[d] = y)
    <3>1. \A y \in Tasks, d \in Clients : ccancel[d] = y => ccancel'[d] = y
      BY <1>2, <2>1, Zenon DEF TypeOK
    <3> QED BY <1>0, <2>1, <2>3, <3>1, Zenon DEF TrackedInv, workerVars
  <2>6. \A v \in Workers : wpc'[v] = "deleteSignal" => db'["current"][wtask'[v]] = "none"
    <3>1. \A v \in Workers : wpc[v] = "deleteSignal" => wtask[v] # x
      BY <1>2, Zenon DEF WorkerKnows
    <3> QED BY <1>0, <2>3, <3>1, Zenon DEF TrackedInv, Has, workerVars
  <2>7. \A d \in Clients :
          InRemove(d)' => \A y \in Matching(ctask[d])' : y \in cleft'[d] \/ ~Has("queue", y)'
    <3> SUFFICES ASSUME NEW d \in Clients, InRemove(d)',
                        NEW y \in Tasks, y \in Matching(ctask[d])
                 PROVE  y \in cleft'[d] \/ ~Has("queue", y)'
      BY <1>0, <1>2, Zenon DEF Matching, TypeOK
    <3>1. d = c /\ InRemove(d)
      BY <1>0, <1>2, Zenon DEF CGoto, TypeOK, InRemove
    <3>2. cleft'[c] = cleft[c] \ {x}
      BY <1>2, Zenon DEF TypeOK
    <3> QED BY <2>3, <3>1, <3>2, Zenon DEF TrackedInv
  <2> QED BY <2>4, <2>5, <2>6, <2>7, Zenon DEF TrackedInv, Has, InRemove, Matching
<1>3. ASSUME cpc[c] = "cancelPersist", Put("current", ccancel[c], "canceled"),
             CGoto(c, "cancelArchive"), UNCHANGED <<ctask, ccancel, cleft, cpref>>
      PROVE  TrackedInv'
  <2>0. ccancel[c] # NoTask
    BY <1>3, Zenon DEF PusherKnows, Canceling
  <2>1. ccancel[c] \in Tasks
    BY <2>0, Zenon DEF TypeOK
  <2>2. \A q \in Prefixes, y \in Tasks :
          db'[q][y] = IF q = "current" /\ y = ccancel[c] THEN "canceled" ELSE db[q][y]
    BY <1>0, <1>3, <2>1, PutFacts DEF Prefixes, States
  <2>3. \A y \in Tasks : /\ Has("queue", y)' <=> Has("queue", y)
                         /\ y # ccancel[c] => (Has("current", y)' <=> Has("current", y))
    BY <2>2, Zenon DEF Has, Prefixes
  <2>4. \A v \in Workers : wpc'[v] = "deleteSignal" => db'["current"][wtask'[v]] = "none"
    BY <1>0, <2>3 DEF TrackedInv, Has, workerVars
  <2>5. \A d \in Clients : InRemove(d)' => InRemove(d)
    BY <1>0, <1>3, Zenon DEF CGoto, TypeOK, InRemove
  <2>6. \A y \in Tasks : Has("queue", y)' => y \in heap'
    BY <1>0, <2>3, Zenon DEF TrackedInv
  <2>7. \A y \in Tasks : Has("current", y)' =>
           (\E v \in Workers : wtask'[v] = y) \/ (\E d \in Clients : ccancel'[d] = y)
    BY <1>0, <1>3, <2>3, Zenon DEF TrackedInv, workerVars
  <2>8. \A d \in Clients :
          InRemove(d)' => \A y \in Matching(ctask[d])' : y \in cleft'[d] \/ ~Has("queue", y)'
    BY <1>0, <1>3, <2>3, <2>5, Zenon DEF TrackedInv, TypeOK, Matching
  <2> QED BY <2>4, <2>6, <2>7, <2>8, Zenon DEF TrackedInv, Has, InRemove, Matching
<1>4. ASSUME cpc[c] = "cancelArchive", ChangePrefix("archive", "current", ccancel[c]),
             CGoto(c, "remove"), ccancel' = [ccancel EXCEPT ![c] = NoTask],
             UNCHANGED <<ctask, cleft, cpref>>
      PROVE  TrackedInv'
  <2>1. ccancel[c] \in Tasks
    BY <1>4 DEF TypeOK, PusherKnows, Canceling
  <2>2. \A q \in Prefixes, y \in Tasks :
          db'[q][y] = IF y # ccancel[c] THEN db[q][y]
                      ELSE IF q = "archive" THEN db["current"][ccancel[c]]
                      ELSE IF q = "current" THEN "none" ELSE db[q][y]
    BY <1>0, <1>4, <2>1, ChangePrefixFacts DEF Prefixes
  <2>3. /\ \A y \in Tasks : /\ Has("queue", y)' <=> Has("queue", y)
                            /\ y # ccancel[c] => (Has("current", y)' <=> Has("current", y))
        /\ db'["current"][ccancel[c]] = "none"
    BY <2>1, <2>2, Zenon DEF Has, Prefixes
  <2>4. \A v \in Workers : wpc'[v] = "deleteSignal" => db'["current"][wtask'[v]] = "none"
    BY <1>0, <2>3, Zenon DEF TrackedInv, Has, workerVars
  <2>5. \A d \in Clients : InRemove(d)' => InRemove(d)
    BY <1>0, <1>4, Zenon DEF CGoto, TypeOK, InRemove
  <2>6. \A y \in Tasks : Has("queue", y)' => y \in heap'
    BY <1>0, <2>3, Zenon DEF TrackedInv
  <2>7. \A y \in Tasks : Has("current", y)' =>
           (\E v \in Workers : wtask'[v] = y) \/ (\E d \in Clients : ccancel'[d] = y)
    <3>1. \A y \in Tasks, d \in Clients : y # ccancel[c] /\ ccancel[d] = y => ccancel'[d] = y
      BY <1>4, Zenon DEF TypeOK
    <3>2. \A y \in Tasks : Has("current", y)' => y # ccancel[c] /\ Has("current", y)
      BY <2>3, Zenon DEF Has
    <3> QED BY <1>0, <3>1, <3>2, Zenon DEF TrackedInv, workerVars
  <2>8. \A d \in Clients :
          InRemove(d)' => \A y \in Matching(ctask[d])' : y \in cleft'[d] \/ ~Has("queue", y)'
    BY <1>0, <1>4, <2>3, <2>5, Zenon DEF TrackedInv, TypeOK, Matching
  <2> QED BY <2>4, <2>6, <2>7, <2>8, Zenon DEF TrackedInv, Has, InRemove, Matching
<1>5. CASE CancelProcess(c)
  <2>1. ccancel[c] = NoTask
    BY <1>5, Zenon DEF PusherKnows, Canceling
  <2> QED BY <1>1, <1>2, <1>5, <2>1, Zenon
<1>6. CASE CancelPersist(c)
  BY <1>3, <1>6, Zenon
<1>7. CASE CancelArchive(c)
  BY <1>1, <1>4, <1>7, Zenon
<1> QED BY <1>5, <1>6, <1>7, Zenon

\* A push stores the task and puts it into the heap, or does neither.
LEMMA PushTracked ==
  ASSUME EngineInv, TrackedInv, ~StoreFails, crashes = 0,
         \/ \E t \in Tasks : QueuePush(t)
         \/ \E c \in Clients : RemoveDone(c)
  PROVE  TrackedInv'
<1> USE EngineAssumption DEF EngineInv
<1>1. /\ db \in DBType /\ UNCHANGED workerVars
      /\ \A w \in Workers : wpc[w] = "deleteSignal" => wtask[w] \in Tasks
  <2>1. UNCHANGED workerVars
    BY Zenon DEF QueuePush, RemoveDone
  <2> QED BY <2>1 DEF TypeOK, DBType, WorkerKnows
<1>2. ASSUME NEW t \in Tasks, NEW kept, PushUnsafe(t, kept),
             \A y \in Tasks : Has("queue", y) => y \in kept,
             \A d \in Clients : ~InRemove(d)',
             \A d \in Clients : ccancel[d] # NoTask => ccancel'[d] = ccancel[d]
      PROVE  TrackedInv'
  <2>1. /\ \A y \in Tasks : Has("current", y)' <=> Has("current", y)
        /\ \A y \in Tasks : Has("queue", y)' => y \in heap'
    <3>1. CASE Put("queue", t, "scheduled") /\ heap' = kept \cup {t}
      <4>1. \A q \in Prefixes, y \in Tasks :
              db'[q][y] = IF q = "queue" /\ y = t THEN "scheduled" ELSE db[q][y]
        BY <1>1, <3>1, PutFacts DEF Prefixes, States
      <4> QED BY <1>2, <3>1, <4>1, Zenon DEF Has, Prefixes
    <3>2. CASE UNCHANGED db /\ heap' = kept
      BY <1>2, <3>2, Zenon DEF Has
    <3> QED BY <1>2, <3>1, <3>2, Zenon DEF PushUnsafe
  <2>2. \A v \in Workers : wpc'[v] = "deleteSignal" => db'["current"][wtask'[v]] = "none"
    BY <1>1, <2>1, Zenon DEF TrackedInv, Has, workerVars
  <2>3. \A y \in Tasks : Has("current", y)' =>
           (\E v \in Workers : wtask'[v] = y) \/ (\E d \in Clients : ccancel'[d] = y)
    BY <1>1, <1>2, <2>1, Zenon DEF TrackedInv, workerVars
  <2> QED BY <1>2, <2>1, <2>2, <2>3, Zenon DEF TrackedInv, Has
<1>3. ASSUME NEW t \in Tasks, QueuePush(t) PROVE TrackedInv'
  <2>1. /\ \A d \in Clients : ~InRemove(d)'
        /\ \A d \in Clients : ccancel[d] # NoTask => ccancel'[d] = ccancel[d]
    BY <1>3, Zenon DEF QueuePush, QFree, InRemove, clientVars
  <2> QED BY <1>2, <1>3, <2>1, Zenon DEF QueuePush, TrackedInv
<1>4. ASSUME NEW c \in Clients, RemoveDone(c) PROVE TrackedInv'
  <2>1. /\ ctask[c] \in Tasks /\ InRemove(c) /\ ccancel[c] = NoTask
        /\ \A d \in Clients : InRemove(d) => d = c
    BY <1>4, Zenon DEF RemoveDone, InRemove, Canceling, PusherKnows
  <2>2. /\ \A d \in Clients : ~InRemove(d)'
        /\ \A d \in Clients : ccancel[d] # NoTask => ccancel'[d] = ccancel[d]
    BY <1>4, <2>1 DEF RemoveDone, ClientReturn, CGoto, TypeOK, InRemove
  <2> DEFINE kept == heap \ Matching(ctask[c])
  <2>3. \A y \in Tasks : Has("queue", y) => y \in kept
    BY <1>4, <2>1, Zenon DEF RemoveDone, TrackedInv
  <2>4. PushUnsafe(ctask[c], kept)
    BY <1>4, Zenon DEF RemoveDone
  <2> HIDE DEF kept
  <2> QED BY <1>2, <2>1, <2>2, <2>3, <2>4, Zenon
<1> QED BY <1>3, <1>4, Zenon

\* A run enters PushUniqueByBranch with every task of its branch still to cancel,
\* and a deletion only takes keys away.
LEMMA RequestTracked ==
  ASSUME EngineInv, TrackedInv, ~StoreFails, crashes = 0,
         \E c \in Clients : \/ DeleteLookup(c) \/ DeleteKey(c)
                            \/ \E t \in Tasks : QueueRun(c, t) \/ DeleteKill(c, t)
  PROVE  TrackedInv'
<1> USE EngineAssumption DEF EngineInv
<1>1. PICK c \in Clients : \/ DeleteLookup(c) \/ DeleteKey(c)
                           \/ \E t \in Tasks : QueueRun(c, t) \/ DeleteKill(c, t)
  BY Zenon
<1>2. /\ UNCHANGED <<heap, workerVars>>
      /\ \A q \in Prefixes, x \in Tasks : db'[q][x] \in {db[q][x], "none"}
  <2>1. CASE DeleteKey(c)
    BY <2>1 DEF DeleteKey, Put, TypeOK
  <2>2. CASE ~DeleteKey(c)
    BY <1>1, <2>2, Zenon DEF DeleteLookup, DeleteKill, QueueRun, queueVars
  <2> QED BY <2>1, <2>2, Zenon
<1>3. ~InRemove(c) /\ ccancel[c] = NoTask /\ (ccancel'[c] = NoTask)
  <2>1. /\ cpc[c] \in {"idle", "lookup", "delete"}
        /\ ccancel' \in {ccancel, [ccancel EXCEPT ![c] = NoTask]}
    BY <1>1, Zenon DEF DeleteLookup, DeleteKey, DeleteKill, QueueRun, ClientReturn, clientVars
  <2>2. ~InRemove(c) /\ ~Canceling(c)
    BY <2>1, Zenon DEF InRemove, Canceling
  <2>3. ccancel[c] = NoTask
    BY <2>2, Zenon DEF PusherKnows
  <2> QED BY <2>1, <2>2, <2>3, Zenon DEF TypeOK
<1>4. \A d \in Clients \ {c} :
        cpc'[d] = cpc[d] /\ ctask'[d] = ctask[d] /\ ccancel'[d] = ccancel[d] /\ cleft'[d] = cleft[d]
  <2>1. CASE DeleteLookup(c) \/ DeleteKey(c)
    BY <2>1, Zenon DEF DeleteLookup, DeleteKey, ClientReturn, CGoto, TypeOK
  <2>2. CASE \E t \in Tasks : QueueRun(c, t) \/ DeleteKill(c, t)
    <3>1. ASSUME NEW t \in Tasks, QueueRun(c, t)
          PROVE  \A d \in Clients \ {c} : /\ cpc'[d] = cpc[d] /\ ctask'[d] = ctask[d]
                                         /\ ccancel'[d] = ccancel[d] /\ cleft'[d] = cleft[d]
      BY <3>1, Zenon DEF QueueRun, CGoto, TypeOK
    <3>2. ASSUME NEW t \in Tasks, DeleteKill(c, t)
          PROVE  \A d \in Clients \ {c} : /\ cpc'[d] = cpc[d] /\ ctask'[d] = ctask[d]
                                         /\ ccancel'[d] = ccancel[d] /\ cleft'[d] = cleft[d]
      BY <3>2 DEF DeleteKill, CGoto, TypeOK, clientVars
    <3> QED BY <2>2, <3>1, <3>2, Zenon
  <2> QED BY <1>1, <2>1, <2>2, Zenon
<1>5. InRemove(c)' => Matching(ctask[c])' \subseteq cleft'[c]
  <2>1. ASSUME NEW t \in Tasks, QueueRun(c, t)
        PROVE  Matching(ctask[c])' \subseteq cleft'[c]
    BY <2>1, Zenon DEF QueueRun, TypeOK, Matching
  <2>2. CASE DeleteLookup(c) \/ DeleteKey(c)
    BY <2>2, Zenon DEF DeleteLookup, DeleteKey, ClientReturn, CGoto, TypeOK, InRemove
  <2>3. ASSUME NEW t \in Tasks, DeleteKill(c, t)
        PROVE  ~InRemove(c)'
    BY <2>3 DEF DeleteKill, CGoto, TypeOK, InRemove, clientVars
  <2> QED BY <1>1, <2>1, <2>2, <2>3, Zenon
<1>6. \A x \in Tasks : /\ Has("queue", x)' => Has("queue", x)
                       /\ Has("current", x)' => Has("current", x)
  BY <1>2, Zenon DEF Has, Prefixes
<1>7. \A x \in Tasks : Has("queue", x)' => x \in heap'
  BY <1>2, <1>6, Zenon DEF TrackedInv
<1>8. \A x \in Tasks : Has("current", x)' =>
         (\E v \in Workers : wtask'[v] = x) \/ (\E d \in Clients : ccancel'[d] = x)
  BY <1>2, <1>3, <1>4, <1>6 DEF TrackedInv, workerVars
<1>9. \A v \in Workers : wpc'[v] = "deleteSignal" => db'["current"][wtask'[v]] = "none"
  <2>1. \A v \in Workers : wpc[v] = "deleteSignal" => wtask[v] \in Tasks
    BY DEF TypeOK, WorkerKnows
  <2> QED BY <1>2, <1>6, <2>1, Zenon DEF TrackedInv, Has, workerVars
<1>10. \A d \in Clients :
         InRemove(d)' => \A x \in Matching(ctask[d])' : x \in cleft'[d] \/ ~Has("queue", x)'
  <2>1. ASSUME NEW d \in Clients \ {c}, InRemove(d)', NEW x \in Matching(ctask[d])'
        PROVE  x \in cleft'[d] \/ ~Has("queue", x)'
    <3>1. x \in Tasks /\ InRemove(d) /\ x \in Matching(ctask[d])
      BY <1>2, <1>4, <2>1, Zenon DEF TypeOK, InRemove, Matching
    <3> QED BY <1>4, <1>6, <3>1, Zenon DEF TrackedInv
  <2> QED BY <1>5, <2>1, Zenon
<1> QED BY <1>7, <1>8, <1>9, <1>10, Zenon DEF TrackedInv, Has, InRemove, Matching

\* Every step of the engine preserves TrackedInv.
LEMMA NextTracked ==
  ASSUME EngineInv, TrackedInv, [Next]_vars
  PROVE  TrackedInv'
<1>1. CASE StoreFails \/ crashes' # 0
  BY <1>1, Zenon DEF TrackedInv
<1>2. CASE ~StoreFails /\ crashes' = 0
  <2>1. crashes \in Nat /\ ~Restart
    <3>1. crashes \in Nat
      BY EngineAssumption DEF EngineInv, TypeOK
    <3> QED BY <1>2, <3>1 DEF Restart
  <2>2. crashes = 0
    BY <1>2, <2>1, Zenon
       DEF Next, WorkerStep, Pop, AddSignal, PersistStart, OpenLog, Execute, PersistEnd,
       Archive, DeleteSignal, PopEmpty, Timeout, WatcherStep, WatcherSignalled, WatcherDeletes,
       WatcherCancels, WatcherDone, QueuePush, KillTask, RequestStep, CancelProcess,
       CancelPersist, CancelArchive, RemoveDone, DeleteLookup, DeleteKey, QueueRun, DeleteKill,
       TasksFails, vars
  <2>3. CASE UNCHANGED <<queueVars, workerVars, clientVars>>
    BY <1>2, <2>2, <2>3, Zenon
       DEF TrackedInv, Has, InRemove, Matching, queueVars, workerVars, clientVars
  <2>4. CASE UNCHANGED vars \/ \E w \in Workers : PopEmpty(w) \/ Timeout(w)
    BY <2>3, <2>4, Zenon DEF PopEmpty, Timeout, vars
  <2>5. CASE TasksFails \/ \E t \in Tasks : WatcherStep(t) \/ KillTask(t)
    BY <2>3, <2>5, Zenon
       DEF WatcherStep, WatcherSignalled, WatcherDeletes, WatcherCancels, WatcherDone,
       KillTask, TasksFails
  <2> QED BY <1>2, <2>1, <2>2, <2>4, <2>5, WorkerTracked, CancelTracked, PushTracked,
             RequestTracked, Zenon
             DEF Next, RequestStep
<1> QED BY <1>1, <1>2, Zenon

\* While leveldb returns no error and the daemon is not restarted, no stored task is
\* lost sight of: a queued one is in the heap, one under current has its worker or its
\* cancellation (Queue, Engine.worker, deleteHandler), for any number of deletions.
THEOREM StoredIsTracked == ~StoreFails /\ Spec => [](crashes = 0 => ActiveTracked)
<1> SUFFICES ASSUME ~StoreFails PROVE Spec => [](crashes = 0 => ActiveTracked)
  BY Zenon
<1>1. Init => TrackedInv
  BY DEF Init, TrackedInv, Has, InRemove, Prefixes
<1>2. EngineInv /\ TrackedInv /\ [Next]_vars => TrackedInv'
  BY NextTracked, Zenon
<1>3. EngineInv /\ TrackedInv => (crashes = 0 => ActiveTracked)
  BY EngineAssumption, Zenon DEF EngineInv, WorkerKnows, TrackedInv, ActiveTracked
<1> QED BY <1>1, <1>2, <1>3, EngineInvariant, PTL DEF Spec
=============================================================================
