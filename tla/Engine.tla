------------------------------- MODULE Engine -------------------------------
(***************************************************************************)
(* The task engine of the daemon: the leveldb task storage and the queue   *)
(* in front of it (pkg/task), the supervisor's workers and the handlers    *)
(* that queue, kill and delete tasks (pkg/engine, pkg/daemon).             *)
(*                                                                         *)
(* A stored task is abstracted to the last entry of its States; the heap   *)
(* of the queue is abstracted to the set of its elements (their order is   *)
(* the subject of TaskHeap).  A critical section of q.Mutex is one step    *)
(* unless it performs several database writes, which DeleteTask, that does *)
(* not take the mutex, and a crash can separate.                           *)
(***************************************************************************)
EXTENDS Naturals, FiniteSets

CONSTANTS Tasks,        \* task ids; an id is handed out once (xid.New)
          Workers,      \* the supervisor's workers
          Clients,      \* goroutines serving HTTP requests
          BranchOf,     \* [Tasks -> Branches or NoBranch]: CreatedBy repo and branch
          NoBranch,     \* a task without repo or without branch
          NoTask,       \* no task
          QueueMax,     \* Scheduler.QueueSize
          Deletable,    \* the tasks for which /delete is requested
          KillTwice,    \* whether a request kills a task that was killed already
          MaxCrashes,   \* bound: how many times the daemon is restarted
          StoreFails    \* whether leveldb and the file system may return errors

ASSUME EngineAssumption ==
  /\ NoTask \notin Tasks
  /\ Deletable \subseteq Tasks
  /\ QueueMax \in Nat /\ MaxCrashes \in Nat
  /\ KillTwice \in BOOLEAN /\ StoreFails \in BOOLEAN

Prefixes == {"queue", "current", "archive"}
States == {"scheduled", "processing", "complete", "canceled"}
Terminal == {"complete", "canceled"}

VARIABLES
  db,        \* the database: prefix -> task id -> last stored state, or "none"
  heap,      \* the tasks in the in-memory queue
  unused,    \* task ids not handed out yet
  wpc,       \* where each worker is in its loop
  wtask,     \* the task each worker is on
  wres,      \* the final state the worker computed for it
  cpc,       \* where each client is in its request
  ctask,     \* the task the request is about
  ccancel,   \* PushUniqueByBranch: the task cancelTask is at
  cleft,     \* PushUniqueByBranch: the matching tasks still to cancel
  cpref,     \* Delete: the prefix being looked up
  signals,   \* the tasks with an entry in e.signals
  closed,    \* the tasks whose signal channel is closed
  watcher,   \* the goroutine that waits on a task's signal channel
  ctxDone,   \* the tasks whose context is done
  rleak,     \* a handler ended between signalsLk.RLock and RUnlock
  crashes    \* restarts so far

queueVars  == <<db, heap, unused>>
workerVars == <<wpc, wtask, wres>>
clientVars == <<cpc, ctask, ccancel, cleft, cpref>>
signalVars == <<signals, closed, watcher, ctxDone, rleak>>
vars == <<queueVars, workerVars, clientVars, signalVars, crashes>>

Has(p, t) == db[p][t] # "none"

-----------------------------------------------------------------------------
(* Storage: put overwrites blindly, changePrefix is one transaction and     *)
(* fails when the source key is missing.                                    *)

Put(p, t, v) == db' = [db EXCEPT ![p][t] = v]

ChangePrefix(dst, src, t) ==
  db' = [q \in Prefixes |->
           IF q = dst THEN [db[q] EXCEPT ![t] = db[src][t]]
           ELSE IF q = src THEN [db[q] EXCEPT ![t] = "none"]
           ELSE db[q]]

-----------------------------------------------------------------------------
(* The signals map and its RWMutex.  A leaked read lock blocks writers for  *)
(* ever, and a waiting writer blocks every new reader.                      *)

WriterWaiting ==
  \/ \E w \in Workers : wpc[w] \in {"addSignal", "deleteSignal"}
  \/ \E t \in Tasks : watcher[t] = "deleting"

CanRLock == ~(rleak /\ WriterWaiting)

\* Engine.Kill: close(ch) if the task has a signal.  Closing twice panics; the
\* HTTP server recovers the handler, but the read lock is never released.
KillPanics(t) == t \in signals \cap closed

Kill(t) ==
  /\ CanRLock
  /\ KillPanics(t) => KillTwice
  /\ closed' = closed \cup ({t} \cap signals)
  /\ rleak' = (rleak \/ KillPanics(t))
  /\ UNCHANGED <<signals, watcher, ctxDone>>

-----------------------------------------------------------------------------
(* q.Mutex is held by the client that is inside PushUniqueByBranch.         *)

InRemove(c) == cpc[c] \in {"remove", "cancelPersist", "cancelArchive"}

QFree == \A c \in Clients : ~InRemove(c)

-----------------------------------------------------------------------------
(* Worker loop.                                                             *)

WGoto(w, pc) == wpc' = [wpc EXCEPT ![w] = pc]

\* The worker's func() returns: the deferred cancel() ends the context.
WorkerReturn(w) ==
  /\ WGoto(w, "idle")
  /\ wtask' = [wtask EXCEPT ![w] = NoTask]
  /\ wres' = [wres EXCEPT ![w] = "none"]
  /\ ctxDone' = ctxDone \cup {wtask[w]}
  /\ UNCHANGED <<closed, watcher, rleak>>

\* Mutant: Pop looks at the top of the heap and leaves it there.
PopPeeks(w) ==
  /\ wpc[w] = "idle"
  /\ QFree
  /\ \E t \in heap : WGoto(w, "addSignal") /\ wtask' = [wtask EXCEPT ![w] = t]
  /\ UNCHANGED <<queueVars, wres, clientVars, signalVars, crashes>>

\* Mutant: Pop hands the task out though ProcessTask failed.
PopUnchecked(w) ==
  /\ wpc[w] = "idle"
  /\ QFree
  /\ \E t \in heap :
       /\ heap' = heap \ {t}
       /\ ChangePrefix("current", "queue", t) \/ (StoreFails /\ UNCHANGED db)
       /\ WGoto(w, "addSignal")
       /\ wtask' = [wtask EXCEPT ![w] = t]
  /\ UNCHANGED <<unused, wres, clientVars, signalVars, crashes>>

\* queue.Pop: the task leaves the heap whether or not ProcessTask succeeds.
Pop(w) ==
  /\ wpc[w] = "idle"
  /\ QFree
  /\ \E t \in heap :
       /\ heap' = heap \ {t}
       /\ \/ /\ Has("queue", t)
             /\ ChangePrefix("current", "queue", t)
             /\ WGoto(w, "addSignal")
             /\ wtask' = [wtask EXCEPT ![w] = t]
          \/ /\ ~Has("queue", t) \/ StoreFails
             /\ UNCHANGED <<db, wpc, wtask>>
  /\ UNCHANGED <<unused, wres, clientVars, signalVars, crashes>>

\* Pop returned ErrQueueEmpty: the worker sleeps and tries again.
PopEmpty(w) ==
  /\ wpc[w] = "idle"
  /\ QFree
  /\ heap = {}
  /\ UNCHANGED vars

AddSignal(w) ==
  /\ wpc[w] = "addSignal"
  /\ ~rleak
  /\ signals' = signals \cup {wtask[w]}
  /\ watcher' = [watcher EXCEPT ![wtask[w]] = "waiting"]
  /\ WGoto(w, "persistStart")
  /\ UNCHANGED <<queueVars, wtask, wres, clientVars, closed, ctxDone, rleak, crashes>>

\* An error of this PersistProcessing is logged and ignored.
PersistStart(w) ==
  /\ wpc[w] = "persistStart"
  /\ \/ Put("current", wtask[w], "processing")
     \/ StoreFails /\ UNCHANGED db
  /\ WGoto(w, "openLog")
  /\ UNCHANGED <<heap, unused, wtask, wres, clientVars, signalVars, crashes>>

\* Without the task's output file the worker returns, keeping the signal.
OpenLog(w) ==
  /\ wpc[w] = "openLog"
  /\ \/ WGoto(w, "execute") /\ UNCHANGED <<wtask, wres, signalVars>>
     \/ StoreFails /\ WorkerReturn(w) /\ UNCHANGED signals
  /\ UNCHANGED <<queueVars, clientVars, crashes>>

\* doRun or doBuild: any error makes the task canceled, otherwise it is complete.
Execute(w) ==
  /\ wpc[w] = "execute"
  /\ \E r \in Terminal : wres' = [wres EXCEPT ![w] = r]
  /\ WGoto(w, "persistEnd")
  /\ UNCHANGED <<queueVars, wtask, clientVars, signalVars, crashes>>

PersistEnd(w) ==
  /\ wpc[w] = "persistEnd"
  /\ \/ /\ Put("current", wtask[w], wres[w])
        /\ WGoto(w, "archive")
        /\ UNCHANGED <<wtask, wres, signalVars>>
     \/ StoreFails /\ WorkerReturn(w) /\ UNCHANGED <<db, signals>>
  /\ UNCHANGED <<heap, unused, clientVars, crashes>>

Archive(w) ==
  /\ wpc[w] = "archive"
  /\ \/ /\ Has("current", wtask[w])
        /\ ChangePrefix("archive", "current", wtask[w])
        /\ WGoto(w, "deleteSignal")
        /\ UNCHANGED <<wtask, wres, signalVars>>
     \/ /\ ~Has("current", wtask[w]) \/ StoreFails
        /\ WorkerReturn(w)
        /\ UNCHANGED <<db, signals>>
  /\ UNCHANGED <<heap, unused, clientVars, crashes>>

DeleteSignal(w) ==
  /\ wpc[w] = "deleteSignal"
  /\ ~rleak
  /\ signals' = signals \ {wtask[w]}
  /\ WorkerReturn(w)
  /\ UNCHANGED <<queueVars, clientVars, crashes>>

-----------------------------------------------------------------------------
(* The goroutine the worker starts for the task: select on the signal       *)
(* channel and on the context.                                              *)

WatcherSignalled(t) ==
  /\ watcher[t] = "waiting"
  /\ t \in closed
  /\ watcher' = [watcher EXCEPT ![t] = "deleting"]
  /\ UNCHANGED <<queueVars, workerVars, clientVars, signals, closed, ctxDone, rleak, crashes>>

WatcherDeletes(t) ==
  /\ watcher[t] = "deleting"
  /\ ~rleak
  /\ signals' = signals \ {t}
  /\ watcher' = [watcher EXCEPT ![t] = "canceling"]
  /\ UNCHANGED <<queueVars, workerVars, clientVars, closed, ctxDone, rleak, crashes>>

\* Mutant: the goroutine forgets cancel().
WatcherForgets(t) ==
  /\ watcher[t] = "canceling"
  /\ watcher' = [watcher EXCEPT ![t] = "none"]
  /\ UNCHANGED <<queueVars, workerVars, clientVars, signals, closed, ctxDone, rleak, crashes>>

WatcherCancels(t) ==
  /\ watcher[t] = "canceling"
  /\ ctxDone' = ctxDone \cup {t}
  /\ watcher' = [watcher EXCEPT ![t] = "none"]
  /\ UNCHANGED <<queueVars, workerVars, clientVars, signals, closed, rleak, crashes>>

WatcherDone(t) ==
  /\ watcher[t] = "waiting"
  /\ t \in ctxDone
  /\ watcher' = [watcher EXCEPT ![t] = "none"]
  /\ UNCHANGED <<queueVars, workerVars, clientVars, signals, closed, ctxDone, rleak, crashes>>

\* The task's context.WithTimeout expires.
Timeout(w) ==
  /\ wpc[w] # "idle"
  /\ wtask[w] \notin ctxDone
  /\ ctxDone' = ctxDone \cup {wtask[w]}
  /\ UNCHANGED <<queueVars, workerVars, clientVars, signals, closed, watcher, rleak, crashes>>

-----------------------------------------------------------------------------
(* Requests.                                                                *)

CGoto(c, pc) == cpc' = [cpc EXCEPT ![c] = pc]

\* Mutant: the task is persisted before the size of the queue is checked.
PushPersistsFirst(t, kept) ==
  /\ Put("queue", t, "scheduled")
  /\ heap' = IF Cardinality(kept) < QueueMax THEN kept \cup {t} ELSE kept

\* pushUnsafe, entered with the heap `kept`.
PushUnsafe(t, kept) ==
  \/ /\ Cardinality(kept) < QueueMax
     /\ Put("queue", t, "scheduled")
     /\ heap' = kept \cup {t}
  \/ /\ Cardinality(kept) >= QueueMax \/ StoreFails
     /\ heap' = kept
     /\ UNCHANGED db

\* Engine.QueueBuild, and Engine.QueueRun for a task without repo or branch.
QueuePush(t) ==
  /\ QFree
  /\ t \in unused
  /\ unused' = unused \ {t}
  /\ PushUnsafe(t, heap)
  /\ UNCHANGED <<workerVars, clientVars, signalVars, crashes>>

Matching(t) == {x \in heap : BranchOf[x] = BranchOf[t]}

\* Engine.QueueRun for a task with repo and branch: PushUniqueByBranch takes the
\* mutex and removeExisting starts its loop over the heap.
QueueRun(c, t) ==
  /\ cpc[c] = "idle"
  /\ QFree
  /\ t \in unused
  /\ BranchOf[t] # NoBranch
  /\ unused' = unused \ {t}
  /\ CGoto(c, "remove")
  /\ ctask' = [ctask EXCEPT ![c] = t]
  /\ cleft' = [cleft EXCEPT ![c] = Matching(t)]
  /\ UNCHANGED <<db, heap, ccancel, cpref, workerVars, signalVars, crashes>>

\* The handler returns.
ClientReturn(c) ==
  /\ CGoto(c, "idle")
  /\ ctask' = [ctask EXCEPT ![c] = NoTask]
  /\ ccancel' = [ccancel EXCEPT ![c] = NoTask]
  /\ cleft' = [cleft EXCEPT ![c] = {}]
  /\ cpref' = [cpref EXCEPT ![c] = "archive"]

\* Mutant: cancelTask skips ProcessTask and archives the queued task directly.
CancelSkipsProcess(c) ==
  /\ cpc[c] = "remove"
  /\ \E x \in cleft[c] :
       /\ Has("queue", x)
       /\ ChangePrefix("archive", "queue", x)
       /\ cleft' = [cleft EXCEPT ![c] = @ \ {x}]
  /\ UNCHANGED <<heap, unused, cpc, ctask, ccancel, cpref, workerVars, signalVars, crashes>>

\* cancelTask, first write: ProcessTask.  An error here or in the two writes that
\* follow makes PushUniqueByBranch return it, the heap left as it was.
CancelProcess(c) ==
  /\ cpc[c] = "remove"
  /\ \E x \in cleft[c] :
       \/ /\ Has("queue", x)
          /\ ChangePrefix("current", "queue", x)
          /\ CGoto(c, "cancelPersist")
          /\ ccancel' = [ccancel EXCEPT ![c] = x]
          /\ cleft' = [cleft EXCEPT ![c] = @ \ {x}]
          /\ UNCHANGED <<ctask, cpref>>
       \/ /\ ~Has("queue", x) \/ StoreFails
          /\ ClientReturn(c)
          /\ UNCHANGED db
  /\ UNCHANGED <<heap, unused, workerVars, signalVars, crashes>>

CancelPersist(c) ==
  /\ cpc[c] = "cancelPersist"
  /\ \/ /\ Put("current", ccancel[c], "canceled")
        /\ CGoto(c, "cancelArchive")
        /\ UNCHANGED <<ctask, ccancel, cleft, cpref>>
     \/ StoreFails /\ ClientReturn(c) /\ UNCHANGED db
  /\ UNCHANGED <<heap, unused, workerVars, signalVars, crashes>>

CancelArchive(c) ==
  /\ cpc[c] = "cancelArchive"
  /\ \/ /\ Has("current", ccancel[c])
        /\ ChangePrefix("archive", "current", ccancel[c])
        /\ CGoto(c, "remove")
        /\ ccancel' = [ccancel EXCEPT ![c] = NoTask]
        /\ UNCHANGED <<ctask, cleft, cpref>>
     \/ /\ ~Has("current", ccancel[c]) \/ StoreFails
        /\ ClientReturn(c)
        /\ UNCHANGED db
  /\ UNCHANGED <<heap, unused, workerVars, signalVars, crashes>>

\* removeExisting is over: the tasks it kept are the heap, then pushUnsafe.
RemoveDone(c) ==
  /\ cpc[c] = "remove"
  /\ cleft[c] = {}
  /\ PushUnsafe(ctask[c], heap \ Matching(ctask[c]))
  /\ ClientReturn(c)
  /\ UNCHANGED <<unused, workerVars, signalVars, crashes>>

\* killTaskHandler, and Logs when its request is cancelled.
KillTask(t) ==
  /\ t \notin unused
  /\ Kill(t)
  /\ UNCHANGED <<queueVars, workerVars, clientVars, crashes>>

\* Engine.Tasks lists the stored tasks under the read lock.  It changes nothing, but
\* returns without RUnlock when a stored value cannot be read.
TasksFails ==
  /\ StoreFails
  /\ CanRLock
  /\ \E p \in Prefixes, t \in Tasks : Has(p, t)
  /\ rleak' = TRUE
  /\ UNCHANGED <<queueVars, workerVars, clientVars, signals, closed, watcher, ctxDone, crashes>>

\* deleteHandler: Kill, then Storage.Delete, which looks the task up under
\* archive, current and queue, one read each.
DeleteKill(c, t) ==
  /\ cpc[c] = "idle"
  /\ t \in Deletable \ unused
  /\ Kill(t)
  /\ IF KillPanics(t) THEN UNCHANGED clientVars
     ELSE /\ CGoto(c, "lookup")
          /\ ctask' = [ctask EXCEPT ![c] = t]
          /\ cpref' = [cpref EXCEPT ![c] = "archive"]
          /\ UNCHANGED <<ccancel, cleft>>
  /\ UNCHANGED <<queueVars, workerVars, crashes>>

NextPrefix(p) == IF p = "archive" THEN "current" ELSE "queue"

DeleteLookup(c) ==
  /\ cpc[c] = "lookup"
  /\ \/ /\ Has(cpref[c], ctask[c])
        /\ CGoto(c, "delete")
        /\ UNCHANGED <<ctask, ccancel, cleft, cpref>>
     \/ /\ ~Has(cpref[c], ctask[c]) /\ cpref[c] # "queue"
        /\ cpref' = [cpref EXCEPT ![c] = NextPrefix(@)]
        /\ UNCHANGED <<cpc, ctask, ccancel, cleft>>
     \/ /\ (~Has(cpref[c], ctask[c]) /\ cpref[c] = "queue") \/ StoreFails
        /\ ClientReturn(c)
  /\ UNCHANGED <<queueVars, workerVars, signalVars, crashes>>

DeleteKey(c) ==
  /\ cpc[c] = "delete"
  /\ Put(cpref[c], ctask[c], "none") \/ (StoreFails /\ UNCHANGED db)
  /\ ClientReturn(c)
  /\ UNCHANGED <<heap, unused, workerVars, signalVars, crashes>>

-----------------------------------------------------------------------------
\* The daemon dies and starts again: NewQueue reads the tasks under the prefixes
\* queue and current into the heap, whatever their number; the rest is lost.
Restart ==
  /\ crashes < MaxCrashes
  /\ crashes' = crashes + 1
  /\ heap' = {t \in Tasks : Has("queue", t) \/ Has("current", t)}
  /\ wpc' = [w \in Workers |-> "idle"]
  /\ wtask' = [w \in Workers |-> NoTask]
  /\ wres' = [w \in Workers |-> "none"]
  /\ cpc' = [c \in Clients |-> "idle"]
  /\ ctask' = [c \in Clients |-> NoTask]
  /\ ccancel' = [c \in Clients |-> NoTask]
  /\ cleft' = [c \in Clients |-> {}]
  /\ cpref' = [c \in Clients |-> "archive"]
  /\ signals' = {} /\ closed' = {} /\ ctxDone' = {} /\ rleak' = FALSE
  /\ watcher' = [t \in Tasks |-> "none"]
  /\ UNCHANGED <<db, unused>>

Init ==
  /\ db = [p \in Prefixes |-> [t \in Tasks |-> "none"]]
  /\ heap = {} /\ unused = Tasks
  /\ wpc = [w \in Workers |-> "idle"]
  /\ wtask = [w \in Workers |-> NoTask]
  /\ wres = [w \in Workers |-> "none"]
  /\ cpc = [c \in Clients |-> "idle"]
  /\ ctask = [c \in Clients |-> NoTask]
  /\ ccancel = [c \in Clients |-> NoTask]
  /\ cleft = [c \in Clients |-> {}]
  /\ cpref = [c \in Clients |-> "archive"]
  /\ signals = {} /\ closed = {} /\ ctxDone = {} /\ rleak = FALSE
  /\ watcher = [t \in Tasks |-> "none"]
  /\ crashes = 0

WorkerStep(w) ==
  \/ Pop(w) \/ AddSignal(w) \/ PersistStart(w) \/ OpenLog(w) \/ Execute(w)
  \/ PersistEnd(w) \/ Archive(w) \/ DeleteSignal(w)

WatcherStep(t) ==
  WatcherSignalled(t) \/ WatcherDeletes(t) \/ WatcherCancels(t) \/ WatcherDone(t)

RequestStep(c) ==
  \/ CancelProcess(c) \/ CancelPersist(c) \/ CancelArchive(c) \/ RemoveDone(c)
  \/ DeleteLookup(c) \/ DeleteKey(c)

Next ==
  \/ \E w \in Workers : WorkerStep(w) \/ PopEmpty(w) \/ Timeout(w)
  \/ \E t \in Tasks : WatcherStep(t) \/ QueuePush(t) \/ KillTask(t)
  \/ \E c \in Clients : RequestStep(c)
  \/ \E c \in Clients, t \in Tasks : QueueRun(c, t) \/ DeleteKill(c, t)
  \/ TasksFails
  \/ Restart

Spec == Init /\ [][Next]_vars

\* The steps the Go scheduler eventually runs.  A runner is not assumed to end on
\* its own: only a runner whose context is done returns.
Fairness ==
  /\ \A w \in Workers :
       /\ WF_vars(Pop(w) \/ AddSignal(w) \/ PersistStart(w) \/ OpenLog(w))
       /\ WF_vars(wtask[w] \in ctxDone /\ Execute(w))
       /\ WF_vars(PersistEnd(w) \/ Archive(w) \/ DeleteSignal(w))
  /\ \A t \in Tasks : WF_vars(WatcherStep(t))
  /\ \A c \in Clients : WF_vars(RequestStep(c))

FairSpec == Spec /\ Fairness

-----------------------------------------------------------------------------
(* Properties.                                                              *)

WorkerPCs == {"idle", "addSignal", "persistStart", "openLog", "execute",
              "persistEnd", "archive", "deleteSignal"}
ClientPCs == {"idle", "remove", "cancelPersist", "cancelArchive", "lookup", "delete"}

TypeOK ==
  /\ db \in [Prefixes -> [Tasks -> States \cup {"none"}]]
  /\ heap \subseteq Tasks
  /\ unused \subseteq Tasks
  /\ wpc \in [Workers -> WorkerPCs]
  /\ wtask \in [Workers -> Tasks \cup {NoTask}]
  /\ wres \in [Workers -> Terminal \cup {"none"}]
  /\ cpc \in [Clients -> ClientPCs]
  /\ ctask \in [Clients -> Tasks \cup {NoTask}]
  /\ ccancel \in [Clients -> Tasks \cup {NoTask}]
  /\ cleft \in [Clients -> SUBSET Tasks]
  /\ cpref \in [Clients -> Prefixes]
  /\ signals \subseteq Tasks
  /\ closed \subseteq Tasks
  /\ watcher \in [Tasks -> {"none", "waiting", "deleting", "canceling"}]
  /\ ctxDone \subseteq Tasks
  /\ rleak \in BOOLEAN
  /\ crashes \in 0..MaxCrashes

\* A task is stored under at most one of the three prefixes, whatever handlers,
\* workers, deletions and restarts interleave: Get and Filter never see two
\* versions of one task (Storage.changePrefix, put and delete).
PrefixExclusive ==
  \A t \in Tasks, p, q \in Prefixes : Has(p, t) /\ Has(q, t) => p = q

\* Between Pop and the end of its iteration a task belongs to one worker, and no
\* other worker, nor PushUniqueByBranch, can get hold of it.
SingleOwner ==
  /\ \A v, w \in Workers : wpc[v] # "idle" /\ wtask[v] = wtask[w] => v = w
  /\ \A w \in Workers, c \in Clients : wpc[w] # "idle" => ccancel[c] # wtask[w]

\* What is archived is finished: the archive holds only tasks whose last state is
\* complete or canceled (worker and cancelTask persist it before ArchiveTask).
ArchiveTerminal ==
  \A t \in Tasks : Has("archive", t) => db["archive"][t] \in Terminal

\* A task a worker has started can still be stopped by Kill, until its context
\* ends: it has an entry in e.signals, whose watcher waits on the channel, or a Kill
\* took the entry away and its watcher is about to cancel the context.
RunningIsKillable ==
  \A w \in Workers :
    wpc[w] \in {"persistStart", "openLog", "execute", "persistEnd", "archive"} =>
      \/ wtask[w] \in ctxDone
      \/ wtask[w] \in signals /\ watcher[wtask[w]] # "none"
      \/ watcher[wtask[w]] = "canceling"

\* A signal left in e.signals belongs to a task a worker is on; otherwise Logs
\* would follow the task for ever, and Kill would report success for nothing.
NoStaleSignal ==
  \A t \in signals : \E w \in Workers : wpc[w] # "idle" /\ wtask[w] = t

\* Every stored task that is not archived is on its way: a queued one is in the
\* heap, one under "current" is with a worker or is being cancelled.
ActiveTracked ==
  \A t \in Tasks :
    /\ Has("queue", t) => t \in heap
    /\ Has("current", t) =>
         \/ t \in heap
         \/ \E w \in Workers : wpc[w] # "idle" /\ wtask[w] = t
         \/ \E c \in Clients : ccancel[c] = t

\* Queue.max bounds the queue: pushUnsafe refuses a task when the heap is full.
HeapBounded == Cardinality(heap) <= QueueMax

\* If no task runs for ever, for its runner returns or its timeout expires (the
\* worker's context.WithTimeout), every queued task eventually leaves the queue and
\* the workers: it is archived, or deleted.
QueuedFinishes ==
  (\A w \in Workers : []<>(wtask[w] = NoTask \/ wtask[w] \in ctxDone)) =>
    \A t \in Tasks : Has("queue", t) ~> ~Has("queue", t) /\ ~Has("current", t)

\* A killed task is stopped: once its channel is closed its context gets done
\* (Kill, and the worker's goroutine on the channel).
KillStops == \A t \in Tasks : t \in closed ~> t \in ctxDone

\* The comment on Queue.max: "the maximum number of tasks to keep in the database".
DatabaseBounded ==
  Cardinality({t \in Tasks : \E p \in Prefixes : Has(p, t)}) <= QueueMax

-----------------------------------------------------------------------------
(* The invariant that makes the ones above inductive.                       *)

Canceling(c) == cpc[c] \in {"cancelPersist", "cancelArchive"}

\* An id that was not handed out is nowhere.
UnusedNowhere ==
  \A t \in unused :
    /\ \A p \in Prefixes : ~Has(p, t)
    /\ t \notin heap
    /\ \A w \in Workers : wtask[w] # t
    /\ \A c \in Clients : ctask[c] # t /\ ccancel[c] # t /\ t \notin cleft[c]

\* What a worker knows of its task: it left the queue, is not archived yet, and
\* its last state is terminal when it is about to be archived.
WorkerKnows ==
  \A w \in Workers :
    /\ wpc[w] = "idle" <=> wtask[w] = NoTask
    /\ wpc[w] # "idle" => ~Has("queue", wtask[w])
    /\ wpc[w] \notin {"idle", "deleteSignal"} => ~Has("archive", wtask[w])
    /\ wpc[w] = "persistEnd" => wres[w] \in Terminal
    /\ wpc[w] = "archive" => db["current"][wtask[w]] \in Terminal \cup {"none"}

\* What PushUniqueByBranch knows of the task it pushes and the one it cancels.
PusherKnows ==
  \A c \in Clients :
    /\ InRemove(c) =>
         /\ ctask[c] \in Tasks
         /\ \A p \in Prefixes : ~Has(p, ctask[c])
         /\ \A w \in Workers : wtask[w] # ctask[c]
         /\ ccancel[c] # ctask[c]
         /\ \A d \in Clients : InRemove(d) => d = c
    /\ Canceling(c) <=> ccancel[c] # NoTask
    /\ Canceling(c) => ~Has("queue", ccancel[c]) /\ ~Has("archive", ccancel[c])
    /\ cpc[c] = "cancelArchive" => db["current"][ccancel[c]] \in Terminal \cup {"none"}

\* Handed-out ids, workers, PushUniqueByBranch and database agree on where each
\* task is, at every point of Engine.worker and Queue.cancelTask.
EngineInv ==
  /\ TypeOK /\ PrefixExclusive /\ SingleOwner /\ ArchiveTerminal
  /\ RunningIsKillable /\ UnusedNowhere /\ WorkerKnows /\ PusherKnows

\* Without deletions a task in hand is under current: the storage's writes never
\* bring back a task that is gone.
InHandStored ==
  Deletable = {} =>
    /\ \A w \in Workers :
         wpc[w] \notin {"idle", "deleteSignal"} => Has("current", wtask[w])
    /\ \A c \in Clients :
         /\ cpc[c] \notin {"lookup", "delete"}
         /\ Canceling(c) => Has("current", ccancel[c])

\* Until a storage error or a restart, nothing stored is forgotten: a task under
\* current has a worker or a cancellation, which takes it on to the archive before it
\* lets go of it, and removeExisting drops no task from the heap before cancelTask
\* has taken it out of the queue prefix.
TrackedInv ==
  ~StoreFails /\ crashes = 0 =>
    /\ \A t \in Tasks :
         /\ Has("queue", t) => t \in heap
         /\ Has("current", t) =>
              \/ \E w \in Workers : wtask[w] = t
              \/ \E c \in Clients : ccancel[c] = t
    /\ \A w \in Workers : wpc[w] = "deleteSignal" => ~Has("current", wtask[w])
    /\ \A c \in Clients :
         InRemove(c) =>
           \A x \in Matching(ctask[c]) : x \in cleft[c] \/ ~Has("queue", x)

-----------------------------------------------------------------------------
(* Refinement: the prefix a task is stored under is its stage; a task in    *)
(* the hands of PushUniqueByBranch is still fresh.                          *)

Stage(t) ==
  IF Has("archive", t) THEN "archive"
  ELSE IF Has("current", t) THEN "current"
  ELSE IF Has("queue", t) THEN "queue" ELSE "none"

stageBar == [t \in Tasks |-> Stage(t)]
freshBar == unused \cup {t \in Tasks : \E c \in Clients : InRemove(c) /\ ctask[c] = t}

Lifecycle == INSTANCE TaskLifecycle WITH stage <- stageBar, fresh <- freshBar

\* Storage keeps its promise: tasks only move forward through the prefixes and a
\* deleted task stays deleted ("DeleteTask removes a task from the database").
ImplementsLifecycle == Lifecycle!LifecycleSpec
=============================================================================
