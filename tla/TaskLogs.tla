------------------------------ MODULE TaskLogs ------------------------------
(***************************************************************************)
(* Following the logs of one task (Engine.Logs, tailReader) while a worker *)
(* moves the task through the storage and writes its output file.          *)
(*                                                                         *)
(* The task is stored under one prefix at a time (Engine, PrefixExclusive) *)
(* and nobody deletes it.  The output file is abstracted to the number of  *)
(* chunks in it, and a request to what it has delivered so far.            *)
(***************************************************************************)
EXTENDS Naturals

CONSTANTS MaxOutput,   \* bound: the chunks a task writes
          StoreFails   \* whether the worker's early returns happen

VARIABLES
  follow,    \* the request's follow flag
  cancel,    \* and its cancel_with_context flag
  prefix,    \* where the task is stored
  state,     \* its last stored state
  wpc,       \* the worker (or, while it is queued, PushUniqueByBranch)
  exists,    \* whether the output file was created
  written,   \* the chunks in it
  signal,    \* whether e.signals has an entry for the task
  closed,    \* whether its channel is closed
  fpc,       \* where the Logs request is
  fprefix,   \* GetTask: the prefix to be read next
  delivered, \* the chunks written to the response
  poller,    \* the goroutine that waits for the signal to go
  behind,    \* history: whether the reader was still behind when stop was closed
  ctxDone,   \* whether the request was cancelled by its client
  result     \* what Logs returned: a task state, or the kind of error

taskVars == <<prefix, state, wpc, exists, written>>
signalVars == <<signal, closed>>
followVars == <<follow, cancel, fpc, fprefix, delivered, poller, behind, ctxDone, result>>
logsVars == <<taskVars, signalVars, followVars>>

Terminal == {"complete", "canceled"}

-----------------------------------------------------------------------------
(* The worker, and cancelTask on the queued task.                           *)

WStep(from, to) == wpc = from /\ wpc' = to

Pop == WStep("queued", "popped") /\ prefix' = "current"
       /\ UNCHANGED <<state, exists, written, signalVars, followVars>>

\* Mutant: the worker persists the state first and registers its signal after.
AddSignalLate ==
  /\ WStep("popped", "signalled")
  /\ state' = "processing"
  /\ UNCHANGED <<prefix, exists, written, signalVars, followVars>>

AddSignal ==
  /\ WStep("popped", "signalled")
  /\ signal' = TRUE
  /\ UNCHANGED <<prefix, state, exists, written, closed, followVars>>

PersistStart ==
  /\ WStep("signalled", "persisted")
  /\ state' = "processing" \/ (StoreFails /\ UNCHANGED state)
  /\ UNCHANGED <<prefix, exists, written, signalVars, followVars>>

\* os.OpenFile creates the output file; without it the worker returns.
OpenLog ==
  /\ \/ WStep("persisted", "running") /\ exists' = TRUE
     \/ StoreFails /\ WStep("persisted", "returned") /\ UNCHANGED exists
  /\ UNCHANGED <<prefix, state, written, signalVars, followVars>>

WriteChunk ==
  /\ wpc = "running" /\ written < MaxOutput
  /\ written' = written + 1
  /\ UNCHANGED <<prefix, state, wpc, exists, signalVars, followVars>>

\* PersistProcessing with the final state.
PersistEnd ==
  /\ \/ WStep("running", "finished") /\ \E s \in Terminal : state' = s
     \/ StoreFails /\ WStep("running", "returned") /\ UNCHANGED state
  /\ UNCHANGED <<prefix, exists, written, signalVars, followVars>>

Archive ==
  /\ \/ WStep("finished", "archived") /\ prefix' = "archive"
     \/ StoreFails /\ WStep("finished", "returned") /\ UNCHANGED prefix
  /\ UNCHANGED <<state, exists, written, signalVars, followVars>>

\* Mutant: the worker forgets deleteSignal.
SignalKept ==
  /\ WStep("archived", "returned")
  /\ UNCHANGED <<prefix, state, exists, written, signalVars, followVars>>

DeleteSignal ==
  /\ WStep("archived", "returned")
  /\ signal' = FALSE
  /\ UNCHANGED <<prefix, state, exists, written, closed, followVars>>

\* cancelTask: ProcessTask, PersistProcessing and ArchiveTask of a queued task.
CancelQueued ==
  /\ \/ WStep("queued", "canceling") /\ prefix' = "current" /\ UNCHANGED state
     \/ WStep("canceling", "canceled") /\ state' = "canceled" /\ UNCHANGED prefix
     \/ WStep("canceled", "returned") /\ prefix' = "archive" /\ UNCHANGED state
  /\ UNCHANGED <<exists, written, signalVars, followVars>>

\* Engine.Kill by another request, and the goroutine it wakes, which removes the
\* signal while the worker is still running.
Kill ==
  /\ signal /\ ~closed /\ ~(cancel /\ ctxDone) /\ closed' = TRUE
  /\ UNCHANGED <<taskVars, signal, followVars>>

WatcherSignalled ==
  /\ signal /\ closed /\ signal' = FALSE
  /\ UNCHANGED <<taskVars, closed, followVars>>

-----------------------------------------------------------------------------
(* The request.                                                             *)

Return(r) == fpc' = "returned" /\ result' = r

\* Storage.Get, where Logs calls it: one read per prefix, then what Logs does.
Lookup(pc, found) ==
  /\ fpc = pc
  /\ IF prefix = fprefix
     THEN found /\ fprefix' = "archive"
     ELSE IF fprefix # "queue"
     THEN /\ fprefix' = (IF fprefix = "archive" THEN "current" ELSE "queue")
          /\ UNCHANGED <<fpc, result>>
     ELSE Return("not_found") /\ UNCHANGED fprefix
  /\ UNCHANGED <<taskVars, signalVars, follow, cancel, behind, delivered, poller, ctxDone>>

\* Without follow: copy the file as it is.
Dump ==
  /\ fpc = "start" /\ ~follow
  /\ IF exists THEN fpc' = "final" /\ delivered' = written /\ UNCHANGED result
     ELSE Return("no_file") /\ UNCHANGED delivered
  /\ UNCHANGED <<taskVars, signalVars, follow, cancel, behind, fprefix, poller, ctxDone>>

\* With follow: wait until the task is not scheduled any more.
WaitForStart ==
  /\ follow
  /\ Lookup("start", /\ fpc' = IF state = "scheduled" THEN "start" ELSE "open"
                     /\ UNCHANGED result)

\* newTailReader, and the start of the goroutine that polls e.signals.
OpenTail ==
  /\ fpc = "open"
  /\ IF exists THEN fpc' = "tail" /\ poller' = "polling" /\ UNCHANGED result
     ELSE Return("no_file") /\ UNCHANGED poller
  /\ UNCHANGED <<taskVars, signalVars, follow, cancel, behind, fprefix, delivered, ctxDone>>

Poll ==
  /\ poller = "polling" /\ ~signal
  /\ poller' = "sleeping"
  /\ UNCHANGED <<taskVars, signalVars, follow, cancel, behind, fpc, fprefix, delivered, ctxDone, result>>

\* Two seconds later it closes stop.
Stop ==
  /\ poller = "sleeping"
  /\ poller' = "stopped"
  /\ behind' = (fpc \in {"tail", "decode"} /\ delivered # written)
  /\ UNCHANGED <<taskVars, signalVars, follow, cancel, fpc, fprefix, delivered, ctxDone, result>>

\* The head of the loop is the only place that looks at the context.
TailHead ==
  /\ fpc = "tail" /\ ~ctxDone
  /\ fpc' = "decode"
  /\ UNCHANGED <<taskVars, signalVars, follow, cancel, behind, fprefix, delivered, poller, ctxDone, result>>

TailCancelled ==
  /\ fpc = "tail" /\ ctxDone
  /\ fpc' = "final"
  /\ closed' = (closed \/ (cancel /\ signal))
  /\ UNCHANGED <<taskVars, signal, follow, cancel, behind, fprefix, delivered, poller, ctxDone, result>>

\* tailReader.Read looks at stop before it looks at the file, and waits for output.
\* Writing a chunk to a client that left may fail.
TailChunk ==
  /\ fpc = "decode" /\ poller # "stopped" /\ delivered < written
  /\ \/ delivered' = delivered + 1 /\ fpc' = "tail" /\ UNCHANGED result
     \/ ctxDone /\ Return("write_error") /\ UNCHANGED delivered
  /\ UNCHANGED <<taskVars, signalVars, follow, cancel, behind, fprefix, poller, ctxDone>>

\* Mutant: the end of the file ends the stream, whether stop is closed or not.
TailEOF ==
  /\ fpc = "decode" /\ delivered = written
  /\ fpc' = "final"
  /\ UNCHANGED <<taskVars, signalVars, follow, cancel, behind, fprefix, delivered, poller, ctxDone, result>>

\* Between two chunks the decoder sees EOF, inside of one it is unexpected.
TailStopped ==
  /\ fpc = "decode" /\ poller = "stopped"
  /\ \/ fpc' = "final" /\ UNCHANGED result
     \/ delivered < written /\ Return("bad_chunk")
  /\ UNCHANGED <<taskVars, signalVars, follow, cancel, behind, fprefix, delivered, poller, ctxDone>>

\* The client goes away; the request is not cancelled by a task killed before
\* (that close would panic: Engine, KillTwice).
ClientLeaves ==
  /\ fpc # "returned" /\ ~ctxDone /\ (cancel => ~closed)
  /\ ctxDone' = TRUE
  /\ UNCHANGED <<taskVars, signalVars, follow, cancel, behind, fpc, fprefix, delivered, poller, result>>

Final == Lookup("final", Return(state))

-----------------------------------------------------------------------------
LogsInit ==
  /\ prefix = "queue" /\ state = "scheduled" /\ wpc = "queued"
  /\ exists = FALSE /\ written = 0 /\ signal = FALSE /\ closed = FALSE
  /\ follow \in BOOLEAN /\ cancel \in BOOLEAN
  /\ fpc = "start" /\ fprefix = "archive" /\ delivered = 0
  /\ poller = "off" /\ behind = FALSE /\ ctxDone = FALSE /\ result = "none"

WorkerStep ==
  \/ Pop \/ AddSignal \/ PersistStart \/ OpenLog \/ WriteChunk \/ PersistEnd
  \/ Archive \/ DeleteSignal \/ CancelQueued

RequestStep ==
  Dump \/ WaitForStart \/ OpenTail \/ TailHead \/ TailChunk \/ TailStopped \/ TailCancelled \/ Final

LogsNext ==
  \/ WorkerStep \/ Kill \/ WatcherSignalled
  \/ RequestStep \/ Poll \/ Stop \/ ClientLeaves

LogsSpec == LogsInit /\ [][LogsNext]_logsVars

\* The worker's steps are fair: its task has a timeout.
LogsFairness ==
  /\ WF_logsVars(WorkerStep) /\ WF_logsVars(WatcherSignalled)
  /\ WF_logsVars(RequestStep) /\ WF_logsVars(Poll) /\ WF_logsVars(Stop)

LogsFairSpec == LogsSpec /\ LogsFairness

-----------------------------------------------------------------------------
TaskSteps == {"queued", "popped", "signalled", "persisted", "running", "finished", "archived",
              "canceling", "canceled", "returned"}
RequestSteps == {"start", "open", "tail", "decode", "final", "returned"}
Results == Terminal \cup {"none", "scheduled", "processing", "not_found", "no_file",
                         "write_error", "bad_chunk"}

CountsOK == written \in Nat /\ delivered \in Nat

FlagsOK ==
  /\ follow \in BOOLEAN /\ cancel \in BOOLEAN /\ exists \in BOOLEAN /\ signal \in BOOLEAN
  /\ closed \in BOOLEAN /\ behind \in BOOLEAN /\ ctxDone \in BOOLEAN

\* Every variable has its type.
LogsTypeOK ==
  /\ prefix \in {"queue", "current", "archive"}
  /\ state \in Terminal \cup {"scheduled", "processing"}
  /\ wpc \in TaskSteps
  /\ fpc \in RequestSteps
  /\ fprefix \in {"queue", "current", "archive"}
  /\ poller \in {"off", "polling", "sleeping", "stopped"}
  /\ result \in Results
  /\ CountsOK /\ FlagsOK

\* A followed task that was not killed is finished when Logs returns it: the
\* goroutine of Logs takes a missing signal for the end of the task, so the signal
\* must be there from before the task can be seen started until it is archived.
FollowedToTheEnd ==
  fpc = "returned" /\ ~closed /\ ~ctxDone /\ follow =>
    result \in Terminal \cup {"not_found", "no_file", "bad_chunk"}

\* A request that follows a task ends: the task ends, its signal goes, the poller
\* closes stop.
FollowEnds == <>(fpc = "returned")

\* Storage.Delete and Get find a task that is stored ("should have found task").
StoredIsFound == result # "not_found"

\* "Logs writes the Testground daemon logs for a given task to the passed writer":
\* a follower that was told the task is finished has got all of its output.
LogsComplete ==
  fpc = "returned" /\ follow /\ result \in Terminal /\ ~ctxDone => delivered = written

\* ... and it has while nobody kills the task, if the two seconds before Logs closes
\* stop were enough to catch up: the worker removes the signal after the last write.
LogsCompleteUnlessKilled == LogsComplete \/ closed \/ behind

\* "CancelWithContext indicates if the task should be cancelled": when the client of
\* such a request has left and the request is over, the task was signalled or is over.
CancelledWithContext ==
  fpc = "returned" /\ ctxDone /\ cancel => closed \/ ~signal

-----------------------------------------------------------------------------
(* The invariant that makes the two that follow a task inductive.           *)

Over == wpc = "returned" /\ state \in Terminal

\* The signal of a task nobody killed is there from before its state and its output
\* can be seen until the task is over; so a poller that misses it knows the task is
\* over, and nothing is written any more.
SignalCovers ==
  /\ exists => wpc \in {"running", "finished", "archived", "returned"}
  /\ wpc \in {"finished", "archived"} => state \in Terminal
  /\ ~closed /\ wpc \in {"signalled", "persisted", "running", "finished", "archived"} => signal
  /\ ~closed /\ ~signal /\ exists => Over
  /\ poller \in {"sleeping", "stopped"} => closed \/ Over

\* What the request knows: it tails an open file, it stops because the poller says so
\* or because its client left, and it has caught up unless it was behind at that time.
FollowerKnows ==
  /\ poller # "off" => exists /\ follow /\ fpc \in {"tail", "decode", "final", "returned"}
  /\ fpc \in {"tail", "decode"} => poller # "off"
  /\ fpc = "open" => follow
  /\ follow /\ fpc = "final" => ctxDone \/ poller = "stopped"
  /\ follow /\ result \in Terminal /\ fpc = "returned" => ctxDone \/ poller = "stopped"
  /\ poller = "stopped" /\ ~closed /\ ~behind =>
       \/ ctxDone /\ fpc \notin {"tail", "decode"}
       \/ fpc = "returned" /\ result \notin Terminal
       \/ delivered = written

LogsInv ==
  /\ LogsTypeOK /\ SignalCovers /\ FollowerKnows
  /\ FollowedToTheEnd /\ LogsCompleteUnlessKilled
=============================================================================
