---------------------------- MODULE ClientProofs ----------------------------
(***************************************************************************)
(* What a command waits for, for any number of runs and any output: the    *)
(* logs of a task it follows (TaskLogs) and the results of the runs of a   *)
(* composition (MultiRun).                                                 *)
(***************************************************************************)
EXTENDS TaskLogs, MultiRun, SequenceTheorems, TLAPS

-----------------------------------------------------------------------------
(* Following the logs of a task.                                            *)

\* The worker's steps: the signal outlives everything a follower can see.
LEMMA WorkerLogs ==
  ASSUME LogsInv, WorkerStep
  PROVE  LogsInv'
<1> USE DEF LogsInv
<1> CountsOK /\ FlagsOK
  BY Zenon DEF LogsTypeOK
<1>0. UNCHANGED <<followVars, closed>>
  BY Zenon DEF WorkerStep, Pop, AddSignal, PersistStart, OpenLog, WriteChunk, PersistEnd, Archive,
         DeleteSignal, CancelQueued, signalVars
<1>1. SignalCovers'
  <2> USE <1>0 DEF WStep, Terminal, SignalCovers, Over, signalVars, followVars
  <2>1. CASE Pop
    BY <2>1 DEF Pop
  <2>2. CASE AddSignal
    BY <2>2 DEF AddSignal
  <2>3. CASE PersistStart
    BY <2>3 DEF PersistStart
  <2>4. CASE OpenLog
    BY <2>4 DEF OpenLog
  <2>5. CASE WriteChunk
    BY <2>5 DEF WriteChunk
  <2>6. CASE PersistEnd
    BY <2>6 DEF PersistEnd
  <2>7. CASE Archive
    BY <2>7 DEF Archive
  <2>8. CASE DeleteSignal
    BY <2>8, Zenon DEF DeleteSignal
  <2>9. CASE CancelQueued
    BY <2>9 DEF CancelQueued
  <2> QED BY <2>1, <2>2, <2>3, <2>4, <2>5, <2>6, <2>7, <2>8, <2>9, Zenon DEF WorkerStep
<1>2. /\ exists => exists'
      /\ wpc = "returned" => UNCHANGED written
  BY DEF WorkerStep, Pop, AddSignal, PersistStart, OpenLog, WriteChunk, PersistEnd, Archive,
         DeleteSignal, CancelQueued, WStep
<1>3. FollowerKnows' /\ FollowedToTheEnd' /\ LogsCompleteUnlessKilled'
  BY <1>0, <1>2, Zenon
     DEF followVars, SignalCovers, Over, FollowerKnows, FollowedToTheEnd, LogsComplete,
     LogsCompleteUnlessKilled
<1>4. LogsTypeOK'
  <2> USE DEF WorkerStep, Pop, AddSignal, PersistStart, OpenLog, WriteChunk, PersistEnd, Archive,
              DeleteSignal, CancelQueued, WStep
  <2>1. /\ prefix' \in {prefix, "current", "archive"}
        /\ state' \in Terminal \cup {state, "processing", "canceled"}
    BY Zenon
  <2>4. wpc' \in TaskSteps
    BY Zenon DEF LogsTypeOK, TaskSteps
  <2>2. CountsOK'
    BY <1>0 DEF CountsOK, followVars
  <2>3. FlagsOK'
    BY <1>0, Zenon DEF FlagsOK, signalVars, followVars
  <2> QED BY <1>0, <2>1, <2>2, <2>3, <2>4, Zenon DEF LogsTypeOK, Terminal, followVars
<1> QED BY <1>1, <1>3, <1>4, Zenon

\* Another request's Kill, and the goroutine that removes the signal.
LEMMA SignalLogs ==
  ASSUME LogsInv, Kill \/ WatcherSignalled
  PROVE  LogsInv'
<1> USE DEF LogsInv, Kill, WatcherSignalled
<1> CountsOK /\ FlagsOK
  BY Zenon DEF LogsTypeOK
<1>1. UNCHANGED <<taskVars, followVars>>
  BY Zenon
<1>2. FlagsOK' /\ CountsOK'
  BY <1>1, Zenon DEF FlagsOK, CountsOK, taskVars, followVars
<1>3. LogsTypeOK'
  BY <1>1, <1>2, Zenon DEF LogsTypeOK, taskVars, followVars
<1>4. SignalCovers' /\ FollowerKnows' /\ FollowedToTheEnd' /\ LogsCompleteUnlessKilled'
  BY <1>1, Zenon
     DEF taskVars, followVars, SignalCovers, FollowerKnows, FollowedToTheEnd, LogsComplete,
     LogsCompleteUnlessKilled, Over
<1> QED BY <1>3, <1>4, Zenon

\* The goroutine that waits for the signal to go, and the client that leaves.
LEMMA PollerLogs ==
  ASSUME LogsInv, Poll \/ Stop \/ ClientLeaves
  PROVE  LogsInv'
<1> USE DEF LogsInv, Poll, Stop, ClientLeaves
<1> CountsOK /\ FlagsOK
  BY Zenon DEF LogsTypeOK
<1>1. /\ UNCHANGED <<taskVars, signalVars, follow, cancel, fpc, fprefix, delivered, result>>
      /\ poller' \in {poller, "sleeping", "stopped"}
  BY Zenon
<1>2. FlagsOK' /\ CountsOK'
  BY <1>1, Zenon DEF FlagsOK, CountsOK, taskVars, signalVars
<1>3. LogsTypeOK'
  BY <1>1, <1>2, Zenon DEF LogsTypeOK, taskVars
<1>4. SignalCovers'
  BY DEF taskVars, signalVars, SignalCovers, FollowerKnows, Over
<1>5. FollowerKnows'
  <2>1. CASE Poll
    BY <2>1, Zenon DEF taskVars, signalVars, FollowerKnows
  <2>2. CASE Stop
    BY <2>2, Zenon DEF taskVars, signalVars, FollowerKnows
  <2>3. CASE ClientLeaves
    BY <2>3, Zenon DEF taskVars, signalVars, FollowerKnows
  <2> QED BY <2>1, <2>2, <2>3, Zenon
<1>6. FollowedToTheEnd' /\ LogsCompleteUnlessKilled'
  BY <1>1, <1>4, <1>5, Zenon
     DEF taskVars, signalVars, FollowerKnows, SignalCovers, FollowedToTheEnd,
     LogsComplete, LogsCompleteUnlessKilled
<1> QED BY <1>3, <1>4, <1>5, <1>6, Zenon

\* The steps of the request itself.
LEMMA RequestLogs ==
  ASSUME LogsInv, RequestStep
  PROVE  LogsInv'
<1> USE DEF LogsInv
<1> CountsOK /\ FlagsOK
  BY Zenon DEF LogsTypeOK
<1>1. UNCHANGED <<taskVars, signal, follow, cancel, behind, ctxDone>>
  BY Zenon DEF RequestStep, Dump, WaitForStart, OpenTail, TailHead, TailChunk, TailStopped,
         TailCancelled, Final, Lookup, signalVars
<1>2. /\ closed' \in BOOLEAN
      /\ closed => closed'
  <2>1. CASE closed' = closed
    BY <2>1, Zenon DEF FlagsOK
  <2>2. CASE TailCancelled
    BY <2>2, Zenon DEF FlagsOK, TailCancelled
  <2> QED BY <2>1, <2>2, Zenon DEF RequestStep, Dump, WaitForStart, OpenTail, TailHead, TailChunk,
             TailStopped, Final, Lookup, signalVars
<1>3. LogsTypeOK'
  <2> USE DEF RequestStep, Dump, WaitForStart, OpenTail, TailHead, TailChunk, TailStopped,
              TailCancelled, Final, Lookup, Return
  <2>1. FlagsOK'
    BY <1>1, <1>2, Zenon DEF FlagsOK, taskVars
  <2>2. /\ fprefix' \in {fprefix, "archive", "current", "queue"}
        /\ poller' \in {poller, "polling"}
    BY Zenon
  <2>3. CountsOK'
    <3>1. delivered' \in {delivered, delivered + 1, written}
      BY Zenon
    <3> HIDE DEF RequestStep
    <3> QED BY <1>1, <3>1 DEF CountsOK, taskVars
  <2>4. fpc' \in RequestSteps
    BY Zenon DEF LogsTypeOK, RequestSteps
  <2>5. result' \in Results
    <3>1. result \in Results /\ state \in Results
      BY Zenon DEF LogsTypeOK, Results
    <3>2. result' \in {result, state, "not_found", "no_file", "write_error", "bad_chunk"}
      BY Zenon
    <3> QED BY <3>1, <3>2, Zenon DEF Results
  <2> QED BY <1>1, <2>1, <2>2, <2>3, <2>4, <2>5, Zenon DEF LogsTypeOK, taskVars
<1>4. SignalCovers'
  <2>1. poller' \in {"sleeping", "stopped"} => poller' = poller
    BY Zenon DEF RequestStep, Dump, WaitForStart, OpenTail, TailHead, TailChunk, TailStopped,
           TailCancelled, Final, Lookup
  <2> QED BY <1>1, <1>2, <2>1, Zenon DEF taskVars, SignalCovers, Over
<1>5. FollowerKnows' /\ FollowedToTheEnd' /\ LogsCompleteUnlessKilled'
  <2>0. UNCHANGED <<state, exists, written, signal, follow, behind, ctxDone>>
    BY <1>1, Zenon DEF taskVars
  <2> HIDE DEF LogsInv
  <2> FollowerKnows /\ FollowedToTheEnd /\ LogsCompleteUnlessKilled
    BY Zenon DEF LogsInv
  <2> USE <1>2, <2>0 DEF FollowerKnows, FollowedToTheEnd, LogsComplete,
                         LogsCompleteUnlessKilled, Terminal
  <2>1. CASE Dump
    BY <2>1 DEF Dump, signalVars, Return
  <2>2. CASE WaitForStart
    BY <2>2 DEF WaitForStart, Lookup, signalVars, Return
  <2>3. CASE OpenTail
    BY <2>3 DEF OpenTail, signalVars, Return
  <2>4. CASE TailHead \/ TailCancelled
    BY <2>4, Zenon DEF TailHead, TailCancelled, signalVars
  <2>5. CASE TailChunk
    BY <2>5 DEF TailChunk, signalVars, Return
  <2>6. CASE TailStopped
    BY <2>6 DEF TailStopped, signalVars, Return
  <2>7. CASE Final
    <3>1. /\ fpc = "final" /\ poller' = poller /\ closed' = closed /\ delivered' = delivered
          /\ \/ fpc' = "returned" /\ result' \in {state, "not_found"}
             \/ fpc' = fpc /\ result' = result
      BY <2>7, Zenon DEF Final, Lookup, signalVars, Return
    <3>2. poller = "stopped" => closed \/ state \in Terminal
      BY Zenon DEF LogsInv, SignalCovers, Over
    <3> QED BY <3>1, <3>2, Zenon
  <2> QED BY <2>1, <2>2, <2>3, <2>4, <2>5, <2>6, <2>7, Zenon DEF RequestStep
<1> QED BY <1>3, <1>4, <1>5, Zenon

-----------------------------------------------------------------------------
\* Worker, signals and follower agree at every step of a log request (Engine.Logs,
\* tailReader.Read, Engine.worker).
THEOREM LogsInvariant == LogsSpec => []LogsInv
<1>1. LogsInit => LogsInv
  <2> SUFFICES ASSUME LogsInit PROVE LogsInv
    BY Zenon
  <2>1. FlagsOK
    BY Zenon DEF LogsInit, FlagsOK
  <2>2. CountsOK
    BY Zenon DEF LogsInit, CountsOK
  <2>3. LogsTypeOK
    BY <2>1, <2>2, Zenon DEF LogsInit, LogsTypeOK, TaskSteps, RequestSteps, Results
  <2> QED BY <2>3, Zenon
             DEF LogsInit, LogsInv, SignalCovers, FollowerKnows, Over, FollowedToTheEnd,
             LogsComplete, LogsCompleteUnlessKilled, Terminal
<1>2. LogsInv /\ [LogsNext]_logsVars => LogsInv'
  <2> SUFFICES ASSUME LogsInv, [LogsNext]_logsVars PROVE LogsInv'
    BY Zenon
  <2>1. CASE UNCHANGED logsVars
    <3> USE <2>1 DEF LogsInv, logsVars, taskVars, signalVars, followVars
    <3>1. LogsTypeOK'
      BY DEF LogsTypeOK, CountsOK, FlagsOK
    <3> QED BY <3>1, Zenon DEF SignalCovers, FollowerKnows, Over, FollowedToTheEnd, LogsComplete,
               LogsCompleteUnlessKilled
  <2> QED BY <2>1, WorkerLogs, SignalLogs, PollerLogs, RequestLogs, Zenon DEF LogsNext
<1> QED BY <1>1, <1>2, PTL DEF LogsSpec

\* Logs reports a followed task that nobody killed only once it is finished: the
\* missing signal its goroutine looks for is never missing earlier.
THEOREM FollowsToTheEnd == LogsSpec => []FollowedToTheEnd
<1>1. LogsInv => FollowedToTheEnd
  BY Zenon DEF LogsInv
<1> QED BY <1>1, LogsInvariant, PTL

\* A follower that was not behind when stop was closed has all of the output of a
\* finished task that nobody killed.
THEOREM FollowerHasAll == LogsSpec => []LogsCompleteUnlessKilled
<1>1. LogsInv => LogsCompleteUnlessKilled
  BY Zenon DEF LogsInv
<1> QED BY <1>1, LogsInvariant, PTL

-----------------------------------------------------------------------------
(* The runs of a composition.                                               *)

\* CancelEveryOtherRun completes the results: each run that was not settled gets a
\* canceled one, in order, after those that are.
LEMMA AbortCovers ==
  ASSUME RunsInv, pc # "done", index <= flags.runs, NEW status \in {1, 3}, Abort(status),
         UNCHANGED flags, truth' \in [Runs -> {"unsent", "queued"} \union Ends],
         \A k \in 1 .. Settled : truth'[k] = truth[k],
         \A k \in Runs : k > Settled => truth'[k] \notin {"success", "failure"}
  PROVE  /\ results' \in Seq([run: Nat, outcome: Outcomes])
         /\ ResultsCoverRuns' /\ ExitZeroIsSuccess'
<1> DEFINE n == flags.runs - index + 1
           R == [run: Nat, outcome: Outcomes]
<1>1. /\ n \in Nat /\ Settled \in Nat /\ Settled \in {index - 1, index}
      /\ Len(results) = Settled /\ flags.runs \in Nat /\ index \in Nat /\ results \in Seq(R)
  BY DEF RunsInv, InOrder, Settled
<1>2. /\ CanceledFrom(index) \in Seq(R) /\ Len(CanceledFrom(index)) = n
      /\ \A j \in 1 .. n : CanceledFrom(index)[j] = [run |-> index + j - 1, outcome |-> "canceled"]
  <2> DEFINE e(j) == [run |-> index + j - 1, outcome |-> "canceled"]
  <2>1. \A j \in 1 .. n : e(j) \in R
    BY <1>1 DEF Outcomes
  <2> HIDE DEF R
  <2>2. [j \in 1 .. n |-> e(j)] \in [1 .. n -> R]
    BY <2>1, Zenon
  <2>3. CanceledFrom(index) = [j \in 1 .. n |-> e(j)]
    BY Zenon DEF CanceledFrom, Canceled
  <2> HIDE DEF n, e
  <2>4. [j \in 1 .. n |-> e(j)] \in Seq(R)
    BY <1>1, <2>2, SeqDef, Zenon
  <2>5. Len([j \in 1 .. n |-> e(j)]) = n
    BY <1>1
  <2>6. \A j \in 1 .. n : [i \in 1 .. n |-> e(i)][j] = e(j)
    BY Zenon
  <2> QED BY <2>3, <2>4, <2>5, <2>6, Zenon DEF e
<1>3. /\ results' \in Seq(R) /\ Len(results') = Settled + n
      /\ \A i \in 1 .. Settled + n :
           results'[i] = IF i <= Settled THEN results[i] ELSE CanceledFrom(index)[i - Settled]
  <2>1. results' = results \o CanceledFrom(index)
    BY Zenon DEF Abort, CancelEveryOtherRun
  <2> DEFINE c == CanceledFrom(index)
  <2>2. results \in Seq(R) /\ c \in Seq(R) /\ Len(results) = Settled /\ Len(c) = n
    BY <1>1, <1>2, Zenon
  <2> HIDE DEF R, n, c
  <2>3. /\ results \o c \in Seq(R)
        /\ Len(results \o c) = Len(results) + Len(c)
        /\ \A i \in 1 .. Len(results) + Len(c) :
             (results \o c)[i] = IF i <= Len(results) THEN results[i] ELSE c[i - Len(results)]
    <3>1. results \in Seq(R) /\ c \in Seq(R)
      BY <2>2, Zenon
    <3>2. results \o c \in Seq(R) /\ Len(results \o c) = Len(results) + Len(c)
      BY <3>1, ConcatProperties, Zenon
    <3>3. \A i \in 1 .. Len(results) + Len(c) :
            (results \o c)[i] = IF i <= Len(results) THEN results[i] ELSE c[i - Len(results)]
      BY <3>1
    <3> QED BY <3>2, <3>3, Zenon
  <2> QED BY <2>1, <2>2, <2>3, Zenon DEF c
<1>4. /\ \A i \in 1 .. Settled : /\ results'[i].run = i /\ results'[i].outcome = truth'[i]
                                 /\ truth'[i] \in {"success", "failure"}
      /\ \A i \in Settled + 1 .. Settled + n : /\ results'[i].run = index + i - Settled - 1
                                               /\ results'[i].outcome = "canceled"
  <2>1. ASSUME NEW i \in Settled + 1 .. Settled + n
        PROVE  /\ results'[i].run = index + i - Settled - 1
               /\ results'[i].outcome = "canceled"
    <3> HIDE DEF n
    <3>1. i - Settled \in 1 .. n /\ i \in 1 .. Settled + n /\ ~(i <= Settled)
      BY <1>1
    <3>2. results'[i] = [run |-> index + (i - Settled) - 1, outcome |-> "canceled"]
      BY <1>2, <1>3, <3>1, Zenon
    <3> QED BY <1>1, <3>1, <3>2
  <2>2. ASSUME NEW i \in 1 .. Settled
        PROVE  /\ results'[i].run = i /\ results'[i].outcome = truth'[i]
               /\ truth'[i] \in {"success", "failure"}
    <3> HIDE DEF n
    <3>0. i \in 1 .. Settled + n /\ i <= Settled
      BY <1>1
    <3>1. results'[i] = results[i] /\ truth'[i] = truth[i]
      BY <1>3, <3>0, Zenon
    <3> QED BY <3>1 DEF RunsInv, InOrder
  <2> QED BY <2>1, <2>2, Zenon
<1>5. ResultsCoverRuns'
  <2>1. \A i \in 1 .. Len(results') - 1 : results'[i].run <= results'[i + 1].run
    <3> HIDE DEF n
    <3> SUFFICES ASSUME NEW i \in 1 .. Settled + n - 1
                 PROVE  results'[i].run <= results'[i + 1].run
      BY <1>1, <1>3
    <3>1. CASE i <= Settled - 1
      BY <1>1, <1>4, <3>1
    <3>2. CASE i = Settled
      BY <1>1, <1>4, <3>2
    <3>3. CASE i > Settled
      BY <1>1, <1>4, <3>3
    <3> QED BY <1>1, <3>1, <3>2, <3>3
  <2>2. ASSUME NEW k \in Runs
        PROVE  \E i \in DOMAIN results' :
                 /\ results'[i].run = k
                 /\ \A j \in 1 .. i - 1 : results'[j].run # k
                 /\ results'[i].outcome =
                      IF truth'[k] \in {"success", "failure"} THEN truth'[k] ELSE "canceled"
    <3> DEFINE i == IF k <= Settled THEN k ELSE Settled + k - index + 1
    <3>0. k \in Nat /\ 1 <= k /\ k <= flags.runs
      BY <1>1 DEF Runs
    <3>1. i \in 1 .. Settled + n
      BY <1>1, <3>0
    <3>2. /\ results'[i].run = k
          /\ \A j \in 1 .. i - 1 : results'[j].run # k
      <4>1. CASE k <= Settled
        <5>1. i = k /\ k \in 1 .. Settled /\ \A j \in 1 .. k - 1 : j \in 1 .. Settled /\ j # k
          BY <1>1, <3>0, <4>1
        <5> HIDE DEF i
        <5> QED BY <1>4, <5>1
      <4>2. CASE k > Settled
        <5>1. i \in Settled + 1 .. Settled + n /\ k = index + i - Settled - 1
          BY <1>1, <3>0, <3>1, <4>2
        <5>2. ASSUME NEW j \in 1 .. i - 1 PROVE results'[j].run # k
          <6> HIDE DEF i, n
          <6>1. CASE j <= Settled
            BY <1>1, <1>4, <4>2, <5>1, <6>1
          <6>2. CASE j > Settled
            BY <1>1, <1>4, <5>1, <6>2
          <6> QED BY <1>1, <6>1, <6>2
        <5> HIDE DEF i
        <5> QED BY <1>4, <5>1, <5>2, Zenon
      <4> QED BY <1>1, <3>0, <4>1, <4>2
    <3>3. results'[i].outcome =
                      IF truth'[k] \in {"success", "failure"} THEN truth'[k] ELSE "canceled"
      <4>1. CASE k <= Settled
        BY <1>1, <1>4, <3>0, <4>1
      <4>2. CASE k > Settled
        BY <1>1, <1>4, <3>0, <3>1, <4>2
      <4> QED BY <1>1, <3>0, <4>1, <4>2
    <3> QED BY <1>3, <3>1, <3>2, <3>3
  <2> QED BY <2>1, <2>2, Zenon DEF ResultsCoverRuns, Runs
<1>6. ExitZeroIsSuccess'
  BY DEF Abort, ExitZeroIsSuccess
<1> QED BY <1>3, <1>5, <1>6, Zenon

\* Only the request for the first run asks for a build.
LEMMA RequestReuses ==
  ASSUME RunsInv, pc = "next", requests' = Append(requests, CurrentRequest)
  PROVE  /\ requests' \in Seq([run: Nat, build: BOOLEAN, composition: {"given", "built"}])
         /\ ArtifactsReused'
<1> DEFINE Q == [run: Nat, build: BOOLEAN, composition: {"given", "built"}]
           r == CurrentRequest
<1>1. r \in Q /\ r.run = index /\ r.build = (index = 1) /\ r.composition = effective
  BY Zenon DEF RunsInv, CurrentRequest
<1>2. requests \in Seq(Q) /\ index \in Nat /\ (index # 1 => effective = "built")
  BY DEF RunsInv, InOrder
<1> HIDE DEF Q, r
<1>3. /\ requests' \in Seq(Q) /\ Len(requests') = Len(requests) + 1
      /\ \A i \in 1 .. Len(requests) : requests'[i] = requests[i]
      /\ requests'[Len(requests) + 1] = r
  BY <1>1, <1>2, AppendProperties DEF r
<1>4. /\ Len(requests) \in Nat /\ DOMAIN requests = 1 .. Len(requests)
      /\ DOMAIN requests' = 1 .. Len(requests) + 1
  BY <1>2, <1>3, LenProperties, Zenon
<1>5. ASSUME NEW i \in DOMAIN requests', requests'[i].run # 1
      PROVE  ~requests'[i].build /\ requests'[i].composition = "built"
  <2>1. CASE i \in 1 .. Len(requests)
    BY <1>3, <1>4, <1>5, <2>1, Zenon DEF RunsInv, ArtifactsReused
  <2>2. CASE i = Len(requests) + 1
    BY <1>1, <1>2, <1>3, <1>5, <2>2, Zenon
  <2> QED BY <1>4, <2>1, <2>2
<1> QED BY <1>3, <1>5, Zenon DEF Q, ArtifactsReused

\* The error path of the command.
LEMMA AbortInv ==
  ASSUME RunsInv, pc # "done", index <= flags.runs, NEW status \in {1, 3}, Abort(status),
         UNCHANGED flags, truth' \in [Runs -> {"unsent", "queued"} \union Ends],
         \A k \in 1 .. Settled : truth'[k] = truth[k],
         \A k \in Runs : k > Settled => truth'[k] \notin {"success", "failure"},
         \A k \in Runs : k > index => truth'[k] = "unsent",
         requests' \in Seq([run: Nat, build: BOOLEAN, composition: {"given", "built"}]),
         effective' \in {"given", "built"}, ArtifactsReused'
  PROVE  RunsInv'
<1>1. /\ results' \in Seq([run: Nat, outcome: Outcomes])
      /\ ResultsCoverRuns' /\ ExitZeroIsSuccess'
  BY AbortCovers, Zenon
<1>2. index' = flags.runs + 1 /\ pc' = "done" /\ flags.runs \in Nat /\ index \in Nat
  BY Zenon DEF Abort, CancelEveryOtherRun, RunsInv
<1>3. ErrorStopsLater'
  <2>1. \A k \in 1 .. Settled : truth'[k] # "error"
    BY Zenon DEF RunsInv, InOrder
  <2>2. ASSUME NEW k \in Runs, truth'[k] = "error", NEW j \in Runs, j > k
        PROVE  truth'[j] = "unsent"
    <3>1. k > Settled /\ k \in Nat /\ j \in Nat
      BY <1>2, <2>1, <2>2 DEF Settled, Runs
    <3>2. j > index
      BY <1>2, <2>2, <3>1 DEF Settled
    <3> QED BY <3>2, Zenon
  <2> QED BY <2>2, Zenon DEF ErrorStopsLater, Runs
<1> QED BY <1>1, <1>2, <1>3 DEF RunsInv, Steps, Runs

\* Each step of Next keeps the runs in order, or completes the results and ends.
LEMMA RunsStep ==
  ASSUME ~Kills, RunsInv, RunsNext
  PROVE  RunsInv'
<1>1. flags' = flags /\ Runs' = Runs /\ IsWaiting' = IsWaiting /\ pc # "done"
  BY Zenon DEF RunsNext, CallDaemonRun, CallDaemonRunFails, WaitForTaskCompletion, WaitFails,
         ProcessComposition, Collect, Finish, Runs, IsWaiting, IsMultiple
<1>0. /\ flags.runs \in Nat /\ index \in Nat /\ 1 <= index /\ index <= flags.runs + 1
      /\ Settled \in Nat /\ Settled <= flags.runs
      /\ truth \in [Runs -> {"unsent", "queued"} \union Ends]
      /\ Ends = {"success", "failure", "error"}
  BY <1>1 DEF RunsInv, InOrder, Settled, Ends
<1>9. \A k \in Runs : /\ k \in Nat /\ truth[k] # "error"
                      /\ k <= Settled \/ truth[k] \notin {"success", "failure"}
  <2> SUFFICES ASSUME NEW k \in Runs
               PROVE  /\ k \in Nat /\ truth[k] # "error"
                      /\ k <= Settled \/ truth[k] \notin {"success", "failure"}
    BY Zenon
  <2>1. k \in Nat /\ 1 <= k
    BY <1>0 DEF Runs
  <2>2. CASE k <= Settled
    BY <1>0, <1>1, <2>1, <2>2 DEF RunsInv, InOrder
  <2>3. CASE k > Settled
    BY <1>0, <1>1, <2>1, <2>3 DEF RunsInv, InOrder, Settled, Steps
  <2> QED BY <1>0, <2>1, <2>2, <2>3
<1>2. CASE CallDaemonRun
  <2>1. /\ requests' \in Seq([run: Nat, build: BOOLEAN, composition: {"given", "built"}])
        /\ ArtifactsReused'
    BY <1>2, RequestReuses, Zenon DEF CallDaemonRun
  <2>2. /\ truth' = [truth EXCEPT ![index] = "queued"] /\ index \in Runs
        /\ UNCHANGED <<index, effective, results>> /\ pc = "next"
    BY <1>0, <1>2 DEF CallDaemonRun, Runs
  <2>3. truth' \in [Runs -> {"unsent", "queued"} \union Ends]
    BY <1>0, <2>2, Zenon
  <2>4. ErrorStopsLater'
    BY <1>0, <1>1, <1>9, <2>2, Zenon DEF ErrorStopsLater
  <2>5. CASE IsWaiting
    <3>1. pc' = "wait" /\ exit' = exit
      BY <1>2, <2>5, Zenon DEF CallDaemonRun
    <3>2. InOrder'
      BY <1>0, <1>1, <2>2, <2>5, <3>1 DEF RunsInv, InOrder, Settled, Runs
    <3>3. ResultsCoverRuns' /\ ExitZeroIsSuccess'
      BY <1>1, <3>1, <3>2 DEF ResultsCoverRuns, ExitZeroIsSuccess, InOrder, Running
    <3> QED BY <1>0, <1>1, <2>1, <2>2, <2>3, <2>4, <3>1, <3>2, <3>3, Zenon DEF RunsInv, Steps
  <2>6. CASE ~IsWaiting
    <3>1. pc' = "done"
      BY <1>2, <2>6, Zenon DEF CallDaemonRun
    <3>2. ResultsCoverRuns' /\ ExitZeroIsSuccess'
      BY <1>1, <2>6, Zenon DEF ResultsCoverRuns, ExitZeroIsSuccess
    <3> QED BY <1>0, <1>1, <2>1, <2>2, <2>3, <2>4, <3>1, <3>2, Zenon DEF RunsInv, Steps
  <2> QED BY <2>5, <2>6, Zenon
<1>3. CASE CallDaemonRunFails
  <2>1. /\ requests' \in Seq([run: Nat, build: BOOLEAN, composition: {"given", "built"}])
        /\ ArtifactsReused'
    BY <1>3, RequestReuses, Zenon DEF CallDaemonRunFails
  <2>2. /\ index <= flags.runs /\ Abort(1) /\ UNCHANGED <<effective, truth>> /\ pc = "next"
    BY <1>3, Zenon DEF CallDaemonRunFails
  <2>3. \A k \in Runs : k > Settled => truth[k] \notin {"success", "failure"}
    BY <1>0, <1>9
  <2>4. \A k \in Runs : k > index => truth[k] = "unsent"
    BY <2>2, Zenon DEF RunsInv, InOrder
  <2> QED BY <1>0, <1>1, <2>1, <2>2, <2>3, <2>4, AbortInv, Zenon DEF RunsInv
<1>4. CASE WaitForTaskCompletion
  <2>1. PICK end \in {"success", "failure"} :
          /\ truth' = [truth EXCEPT ![index] = end]
          /\ results' = Append(results, [run |-> index, outcome |-> DecodeRunnerResult(end)])
    BY <1>0, <1>4, Zenon DEF WaitForTaskCompletion
  <2>2. /\ pc = "wait" /\ pc' = "process" /\ UNCHANGED <<index, effective, requests, exit>>
        /\ index \in Runs /\ InOrder /\ Settled = index - 1 /\ Settled' = index
    BY <1>0, <1>1, <1>4 DEF WaitForTaskCompletion, RunsInv, InOrder, Runs, Settled
  <2> DEFINE R == [run: Nat, outcome: Outcomes]
             r == [run |-> index, outcome |-> end]
  <2>3. results \in Seq(R) /\ r \in R /\ results' = Append(results, r) /\ Len(results) = index - 1
    BY <1>0, <2>1, <2>2, Zenon DEF RunsInv, InOrder, DecodeRunnerResult, Outcomes
  <2>4. r.run = index /\ r.outcome = end
    BY Zenon
  <2> HIDE DEF R, r
  <2>5. /\ results' \in Seq(R) /\ Len(results') = index
        /\ \A i \in 1 .. index - 1 : results'[i] = results[i]
        /\ results'[index] = r
    BY <1>0, <2>3, AppendProperties
  <2>6. truth' \in [Runs -> {"unsent", "queued"} \union Ends]
    BY <1>0, <2>1, Zenon
  <2>7. ErrorStopsLater'
    BY <1>0, <1>1, <1>9, <2>1, <2>2, Zenon DEF ErrorStopsLater
  <2>8. \A k \in 1 .. index : /\ truth'[k] \in {"success", "failure"}
                              /\ results'[k].run = k /\ results'[k].outcome = truth'[k]
    <3> SUFFICES ASSUME NEW k \in 1 .. index
                 PROVE  /\ truth'[k] \in {"success", "failure"}
                        /\ results'[k].run = k /\ results'[k].outcome = truth'[k]
      BY Zenon
    <3>1. CASE k = index
      BY <1>0, <2>1, <2>2, <2>4, <2>5, <3>1, Zenon
    <3>2. CASE k \in 1 .. Settled
      BY <1>0, <2>1, <2>2, <2>5, <3>2 DEF InOrder, Runs
    <3> QED BY <1>0, <2>2, <3>1, <3>2
  <2>9. InOrder'
    BY <1>0, <1>1, <2>1, <2>2, <2>5, <2>8 DEF InOrder, Runs
  <2>10. ResultsCoverRuns' /\ ExitZeroIsSuccess' /\ ArtifactsReused'
    BY <1>1, <2>2, <2>9, Zenon
       DEF RunsInv, ResultsCoverRuns, ExitZeroIsSuccess, ArtifactsReused, InOrder,
                            Running
  <2> QED BY <1>0, <1>1, <2>2, <2>5, <2>6, <2>7, <2>9, <2>10, Zenon DEF RunsInv, Steps, R
<1>5. CASE WaitFails
  <2>1. /\ pc = "wait" /\ Abort(1) /\ UNCHANGED <<effective, requests>>
        /\ truth' \in {truth, [truth EXCEPT ![index] = "error"]}
    BY <1>5, Zenon DEF WaitFails
  <2>2. index \in Runs /\ index <= flags.runs /\ Settled = index - 1 /\ InOrder
    BY <1>0, <2>1 DEF RunsInv, InOrder, Runs, Settled
  <2>3. /\ truth' \in [Runs -> {"unsent", "queued"} \union Ends]
        /\ \A k \in 1 .. Settled : truth'[k] = truth[k]
        /\ \A k \in Runs : k > Settled => truth'[k] \notin {"success", "failure"}
        /\ \A k \in Runs : k > index => truth'[k] = "unsent"
    <3>1. \A k \in Runs : /\ k # index => truth'[k] = truth[k]
                          /\ truth'[k] \in {truth[k], "error"}
      BY <1>0, <2>1, <2>2, Zenon
    <3>2. truth' \in [Runs -> {"unsent", "queued"} \union Ends]
      BY <1>0, <2>1, <2>2, Zenon
    <3> QED BY <1>0, <1>9, <2>2, <3>1, <3>2 DEF InOrder, Runs
  <2>4. ArtifactsReused'
    BY <2>1, Zenon DEF RunsInv, ArtifactsReused
  <2> QED BY <1>1, <2>1, <2>2, <2>3, <2>4, AbortInv, Zenon DEF RunsInv
<1>6. CASE ProcessComposition
  <2>1. /\ pc = "process" /\ UNCHANGED <<requests, truth>> /\ InOrder /\ Settled = index
        /\ index <= flags.runs
    BY <1>6, Zenon DEF ProcessComposition, RunsInv, InOrder, Settled
  <2>2. effective' = "built"
    BY <1>0, <1>6, <2>1 DEF ProcessComposition, InOrder
  <2>3. ArtifactsReused' /\ ErrorStopsLater'
    BY <1>1, <2>1, Zenon DEF RunsInv, ArtifactsReused, ErrorStopsLater
  <2>4. CASE Abort(1)
    <3>1. \A k \in Runs : k > index => truth[k] = "unsent"
      BY <2>1, Zenon DEF InOrder
    <3>2. \A k \in Runs : k > Settled => truth[k] \notin {"success", "failure"}
      BY <1>0, <1>9
    <3> QED BY <1>0, <1>1, <2>1, <2>2, <2>3, <2>4, <3>1, <3>2, AbortInv, Zenon DEF RunsInv
  <2>5. CASE pc' = "collect" /\ UNCHANGED <<index, results, exit>>
    <3>1. InOrder'
      BY <1>0, <1>1, <2>1, <2>2, <2>5, Zenon DEF InOrder, Settled
    <3>2. ResultsCoverRuns' /\ ExitZeroIsSuccess'
      BY <2>5, <3>1 DEF ResultsCoverRuns, ExitZeroIsSuccess, InOrder, Running
    <3> QED BY <1>1, <2>1, <2>2, <2>3, <2>5, <3>1, <3>2, Zenon DEF RunsInv, Steps
  <2> QED BY <1>6, <2>4, <2>5, Zenon DEF ProcessComposition
<1>7. CASE Collect
  <2>1. /\ pc = "collect" /\ UNCHANGED <<effective, requests, truth>> /\ InOrder /\ Settled = index
        /\ index <= flags.runs
    BY <1>7, Zenon DEF Collect, RunsInv, InOrder, Settled
  <2>3. ArtifactsReused' /\ ErrorStopsLater'
    BY <1>1, <2>1, Zenon DEF RunsInv, ArtifactsReused, ErrorStopsLater
  <2>4. CASE Abort(3)
    <3>1. \A k \in Runs : k > index => truth[k] = "unsent"
      BY <2>1, Zenon DEF InOrder
    <3>2. \A k \in Runs : k > Settled => truth[k] \notin {"success", "failure"}
      BY <1>0, <1>9
    <3> QED BY <1>0, <1>1, <2>1, <2>3, <2>4, <3>1, <3>2, AbortInv, Zenon DEF RunsInv
  <2>5. CASE pc' = "next" /\ index' = index + 1 /\ UNCHANGED <<results, exit>>
    <3>1. InOrder'
      BY <1>0, <1>1, <2>1, <2>5 DEF InOrder, Settled, Runs
    <3>2. ResultsCoverRuns' /\ ExitZeroIsSuccess'
      BY <2>5, <3>1 DEF ResultsCoverRuns, ExitZeroIsSuccess, InOrder, Running
    <3> QED BY <1>0, <1>1, <2>1, <2>3, <2>5, <3>1, <3>2 DEF RunsInv, Steps
  <2> QED BY <1>7, <2>4, <2>5, Zenon DEF Collect
<1>8. CASE Finish
  <2>1. /\ UNCHANGED <<index, effective, requests, results, truth>> /\ pc' = "done"
        /\ index = flags.runs + 1 /\ Settled = flags.runs /\ InOrder /\ exit' \in {ExitStatus, 1}
    BY <1>0, <1>8 DEF Finish, RunsInv, Settled
  <2>2. /\ DOMAIN results = 1 .. flags.runs /\ Len(results) = flags.runs
        /\ \A k \in 1 .. flags.runs : /\ truth[k] \in {"success", "failure"}
                                      /\ results[k].run = k /\ results[k].outcome = truth[k]
    BY <1>0, <2>1 DEF InOrder, RunsInv
  <2>3. ResultsCoverRuns'
    <3>1. \A i \in 1 .. Len(results) - 1 : results[i].run <= results[i + 1].run
      BY <1>0, <2>2
    <3>2. \A k \in Runs : /\ k \in DOMAIN results /\ results[k].run = k
                          /\ \A j \in 1 .. k - 1 : results[j].run # k
                          /\ results[k].outcome =
                               IF truth[k] \in {"success", "failure"} THEN truth[k] ELSE "canceled"
      <4> SUFFICES ASSUME NEW k \in Runs
                   PROVE  /\ k \in DOMAIN results /\ results[k].run = k
                          /\ \A j \in 1 .. k - 1 : results[j].run # k
                          /\ results[k].outcome =
                               IF truth[k] \in {"success", "failure"} THEN truth[k] ELSE "canceled"
        BY Zenon
      <4>1. k \in 1 .. flags.runs /\ \A j \in 1 .. k - 1 : j \in 1 .. flags.runs /\ j # k
        BY <1>0 DEF Runs
      <4> QED BY <2>2, <4>1, Zenon
    <3>3. pc' = "done" /\ IsWaiting' =>
            \A k \in Runs : \E i \in DOMAIN results :
              /\ results[i].run = k
              /\ \A j \in 1 .. i - 1 : results[j].run # k
              /\ results[i].outcome =
                   IF truth[k] \in {"success", "failure"} THEN truth[k] ELSE "canceled"
      BY <3>2, Zenon
    <3> QED BY <1>1, <2>1, <3>1, <3>3 DEF ResultsCoverRuns
  <2>4. ExitZeroIsSuccess'
    BY <1>0, <1>1, <2>1, <2>2 DEF ExitZeroIsSuccess, ExitStatus, Runs
  <2>5. ArtifactsReused' /\ ErrorStopsLater'
    BY <1>1, <2>1, Zenon DEF RunsInv, ArtifactsReused, ErrorStopsLater
  <2> QED BY <1>0, <1>1, <2>1, <2>3, <2>4, <2>5, Zenon DEF RunsInv, Steps
<1> QED BY <1>2, <1>3, <1>4, <1>5, <1>6, <1>7, <1>8, Zenon DEF RunsNext

\* MultiRunStrategy keeps one result per settled run, in order.
THEOREM RunsInvariant == ~Kills /\ RunsSpec => []RunsInv
<1> SUFFICES ASSUME ~Kills PROVE RunsSpec => []RunsInv
  BY Zenon
<1>1. RunsInit => RunsInv
  <2> SUFFICES ASSUME RunsInit PROVE RunsInv
    BY Zenon
  <2>1. /\ flags.runs \in Nat /\ 1 <= flags.runs /\ index = 1 /\ pc = "next" /\ results = <<>>
        /\ requests = <<>> /\ exit = Running /\ truth = [k \in Runs |-> "unsent"] /\ effective = "given"
    BY RunsAssumption DEF RunsInit
  <2>2. InOrder
    BY <2>1 DEF InOrder, Settled, Runs
  <2>3. ResultsCoverRuns /\ ExitZeroIsSuccess /\ ErrorStopsLater /\ ArtifactsReused
    BY <2>1 DEF ResultsCoverRuns, ExitZeroIsSuccess, ErrorStopsLater, ArtifactsReused, Running
  <2> QED BY <2>1, <2>2, <2>3 DEF RunsInv, Steps
<1>2. RunsInv /\ [RunsNext]_runsVars => RunsInv'
  <2> SUFFICES ASSUME RunsInv, [RunsNext]_runsVars PROVE RunsInv'
    BY Zenon
  <2>1. CASE UNCHANGED runsVars
    BY <2>1
       DEF runsVars, RunsInv, InOrder, Settled, Runs, IsWaiting, IsMultiple, ResultsCoverRuns,
                ExitZeroIsSuccess, ErrorStopsLater, ArtifactsReused
  <2> QED BY <2>1, RunsStep, Zenon
<1> QED BY <1>1, <1>2, PTL DEF RunsSpec

\* Each run of a command that waits has its result in the end, its own first, in the
\* order of the run ids, however many of them failed (CancelEveryOtherRun).
THEOREM EachRunHasResult == ~Kills /\ RunsSpec => []ResultsCoverRuns
<1>1. RunsInv => ResultsCoverRuns
  BY Zenon DEF RunsInv
<1> QED BY <1>1, RunsInvariant, PTL

\* A command that waits exits with zero only when all of its runs succeeded (ExitStatus).
THEOREM ZeroMeansSuccess == ~Kills /\ RunsSpec => []ExitZeroIsSuccess
<1>1. RunsInv => ExitZeroIsSuccess
  BY Zenon DEF RunsInv
<1> QED BY <1>1, RunsInvariant, PTL

\* Later runs are sent with the composition the first one returned, and build nothing
\* (CurrentRequest, ProcessComposition).
THEOREM LaterRunsReuse == ~Kills /\ RunsSpec => []ArtifactsReused
<1>1. RunsInv => ArtifactsReused
  BY Zenon DEF RunsInv
<1> QED BY <1>1, RunsInvariant, PTL
=============================================================================
