------------------------------- MODULE MultiRun -------------------------------
(***************************************************************************)
(* `testground run`: the client queues the runs of a composition one after *)
(* the other, waits for each of them, keeps the composition the daemon     *)
(* returned for the first one (it names the artifacts that were built) and *)
(* ends with a result per run and an exit status.  cmd/run.go, type        *)
(* MultiRunStrategy.  The daemon and its task are the environment.         *)
(***************************************************************************)
EXTENDS Integers, Sequences

CONSTANTS
    MaxRuns, \* the most runs a command has
    Kills,   \* whether somebody else kills a task while the client follows it
    Faults   \* whether writing the composition and collecting may fail

ASSUME RunsAssumption == MaxRuns \in Nat

VARIABLES
    flags,      \* the command line: the number of run ids and three flags
    index,      \* CurrentRunIndex + 1
    pc,         \* the step of MultiRunStrategy.Next the client is at
    effective,  \* EffectiveComposition: as "given" or "built"
    requests,   \* the requests sent, in order
    results,    \* Results
    truth,      \* what the daemon did with each run
    exit        \* the exit status, Running before the command has ended

runsVars == <<flags, index, pc, effective, requests, results, truth, exit>>

Runs == 1 .. flags.runs

Running == -1

\* Tasks end with an outcome and no error or with an error; one that is killed
\* loses its signal at once, so its follower is answered while it still runs.
Ends == {"success", "failure", "error"} \union (IF Kills THEN {"killed"} ELSE {})

IsMultiple == flags.runs > 1
IsWaiting == flags.wait \/ flags.collect \/ IsMultiple

RunsInit ==
    /\ flags \in [runs: 1 .. MaxRuns, wait: BOOLEAN, collect: BOOLEAN, write: BOOLEAN]
    /\ index = 1
    /\ pc = "next"
    /\ effective = "given"
    /\ requests = <<>>
    /\ results = <<>>
    /\ truth = [k \in Runs |-> "unsent"]
    /\ exit = Running

CurrentRequest ==
    [run |-> index, build |-> index = 1, composition |-> effective]

\* The result is not decoded and keeps the default outcome.
DecodeDefault(end) == "success"

\* data.DecodeRunnerResult: a task without a result decodes as a success.
DecodeRunnerResult(end) == IF end = "failure" THEN "failure" ELSE "success"

Canceled(k) == [run |-> k, outcome |-> "canceled"]

CanceledFrom(k) == [j \in 1 .. flags.runs - k + 1 |-> Canceled(k + j - 1)]

\* Starts after the run that hit the error.
CanceledAfter(k) == [j \in 1 .. flags.runs - k |-> Canceled(k + j)]

CancelOnlyLater ==
    /\ results' = results \o CanceledAfter(index)
    /\ index' = flags.runs + 1

CancelEveryOtherRun ==
    /\ results' = results \o CanceledFrom(index)
    /\ index' = flags.runs + 1

\* The error path of run: the results are completed and shown, the error is
\* returned whether or not they could be written.
Abort(status) ==
    /\ CancelEveryOtherRun
    /\ pc' = "done"
    /\ exit' = status

ExitStatus ==
    IF \A i \in DOMAIN results : results[i].outcome = "success" THEN 0 ELSE 1

\* Results complete: they are shown and the exit status is computed; ShowResult
\* fails when the result file cannot be written.
Finish ==
    /\ pc = "next" /\ index > flags.runs
    /\ pc' = "done"
    /\ exit' \in {ExitStatus, 1}
    /\ UNCHANGED <<flags, index, effective, requests, results, truth>>

CallDaemonRun ==
    /\ pc = "next" /\ index <= flags.runs
    /\ requests' = Append(requests, CurrentRequest)
    /\ truth' = [truth EXCEPT ![index] = "queued"]
    /\ IF IsWaiting
       THEN pc' = "wait" /\ UNCHANGED exit
       ELSE pc' = "done" /\ exit' \in {ExitStatus, 1}
    /\ UNCHANGED <<flags, index, effective, results>>

\* The request fails, is refused by the daemon or is interrupted.
CallDaemonRunFails ==
    /\ pc = "next" /\ index <= flags.runs
    /\ requests' = Append(requests, CurrentRequest)
    /\ Abort(1)
    /\ UNCHANGED <<flags, effective, truth>>

\* The log stream ends with the task and the task has no error.
WaitForTaskCompletion ==
    /\ pc = "wait"
    /\ \E end \in Ends \ {"error"} :
         /\ truth' = [truth EXCEPT ![index] = end]
         /\ results' = Append(results, [run |-> index, outcome |-> DecodeRunnerResult(end)])
    /\ pc' = "process"
    /\ UNCHANGED <<flags, index, effective, requests, exit>>

\* The error of a run is noted and the next run is queued all the same.
AbortRun(status) ==
    /\ results' = Append(results, Canceled(index))
    /\ index' = index + 1
    /\ pc' = "next"
    /\ UNCHANGED exit

\* The task has an error, or following it failed or was interrupted.
WaitFails ==
    /\ pc = "wait"
    /\ \/ truth' = [truth EXCEPT ![index] = "error"]
       \/ UNCHANGED truth
    /\ Abort(1)
    /\ UNCHANGED <<flags, effective, requests>>

\* A task that was killed and still runs has the composition of the request.
ProcessComposition ==
    /\ pc = "process"
    /\ effective' = IF index = 1 /\ truth[index] # "killed" THEN "built" ELSE effective
    /\ \/ pc' = "collect" /\ UNCHANGED <<index, results, exit>>
       \/ /\ Faults /\ index = 1 /\ flags.write
          /\ Abort(1)
    /\ UNCHANGED <<flags, requests, truth>>

Collect ==
    /\ pc = "collect"
    /\ \/ pc' = "next" /\ index' = index + 1 /\ UNCHANGED <<results, exit>>
       \/ /\ Faults /\ flags.collect
          /\ Abort(3)
    /\ UNCHANGED <<flags, effective, requests, truth>>

RunsNext ==
    \/ CallDaemonRun \/ CallDaemonRunFails
    \/ WaitForTaskCompletion \/ WaitFails
    \/ ProcessComposition \/ Collect
    \/ Finish

RunsSpec == RunsInit /\ [][RunsNext]_runsVars
-------------------------------------------------------------------------------
MultiRunTypeOK ==
    /\ index \in 1 .. flags.runs + 1
    /\ pc \in {"next", "wait", "process", "collect", "done"}
    /\ effective \in {"given", "built"}
    /\ Len(requests) <= flags.runs
    /\ results \in Seq([run: Runs, outcome: {"success", "failure", "canceled"}])
    /\ truth \in [Runs -> {"unsent", "queued"} \union Ends]
    /\ exit \in {Running, 0, 1, 3}

\* The command's exit status is zero, after waiting, only if every run of the
\* composition succeeded: one failing run among many is enough for `failed`
\* although the later runs go on and succeed (ExitStatus, Next).
ExitZeroIsSuccess ==
    exit = 0 /\ IsWaiting => \A k \in Runs : truth[k] = "success"

\* When a command that waits has ended, each run has a result, in the order of
\* the run ids; a run that ended has its own outcome first and whatever was
\* queued or skipped is canceled (Next, CancelEveryOtherRun).
ResultsCoverRuns ==
    pc = "done" /\ IsWaiting =>
        /\ \A i \in 1 .. Len(results) - 1 : results[i].run <= results[i + 1].run
        /\ \A k \in Runs : \E i \in DOMAIN results :
             /\ results[i].run = k
             /\ \A j \in 1 .. i - 1 : results[j].run # k
             /\ results[i].outcome =
                  IF truth[k] \in {"success", "failure"} THEN truth[k] ELSE "canceled"

\* Only the first run builds; each later one is sent with the composition the
\* daemon returned for it, which has the artifacts (CurrentRequest,
\* ProcessComposition).
ArtifactsReused ==
    \A i \in DOMAIN requests :
        requests[i].run # 1 => ~requests[i].build /\ requests[i].composition = "built"

\* No run is queued once a run before it could not be run; a run that merely
\* failed does not stop the others (run, Next).
ErrorStopsLater ==
    \A k \in Runs : truth[k] = "error" => \A j \in Runs : j > k => truth[j] = "unsent"

\* A result is recorded for a run only once its task has ended, as the comment
\* of Next says ("Wait for the task to finish").
ResultsOfFinished ==
    \A i \in DOMAIN results :
        results[i].outcome # "canceled" => truth[results[i].run] # "killed"
-------------------------------------------------------------------------------
(* The invariant that makes these inductive.                                  *)

Outcomes == {"success", "failure", "canceled"}
Steps == {"next", "wait", "process", "collect", "done"}

\* The runs before index, and the current one once it was waited for.
Settled == IF pc \in {"process", "collect"} THEN index ELSE index - 1

\* While the command goes on, the runs behind it have ended and have their results, one
\* each and in order; the current one is queued if it is waited for; the others are unsent.
InOrder ==
    /\ exit = Running
    /\ index > 1 \/ pc # "next" => IsWaiting
    /\ pc # "next" => index <= flags.runs
    /\ Len(results) = Settled
    /\ \A k \in 1 .. Settled :
         /\ truth[k] \in {"success", "failure"}
         /\ results[k].run = k
         /\ results[k].outcome = truth[k]
    /\ pc = "wait" => truth[index] = "queued"
    /\ \A k \in Runs : k > index \/ (k = index /\ pc = "next") => truth[k] = "unsent"
    /\ index > 1 \/ pc = "collect" => effective = "built"

RunsInv ==
    /\ flags.runs \in Nat /\ index \in Nat /\ 1 <= index /\ index <= flags.runs + 1
    /\ pc \in Steps /\ effective \in {"given", "built"}
    /\ results \in Seq([run: Nat, outcome: Outcomes])
    /\ requests \in Seq([run: Nat, build: BOOLEAN, composition: {"given", "built"}])
    /\ truth \in [Runs -> {"unsent", "queued"} \union Ends]
    /\ pc # "done" => InOrder
    /\ ResultsCoverRuns /\ ExitZeroIsSuccess /\ ErrorStopsLater /\ ArtifactsReused
===============================================================================
