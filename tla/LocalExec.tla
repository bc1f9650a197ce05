------------------------------ MODULE LocalExec ------------------------------
(***************************************************************************)
(* A run of the local:exec runner: Run starts the instances as processes   *)
(* and hands their pipes to a PrettyPrinter, whose two readers per         *)
(* instance decide whether it passed; Run waits for all readers, then      *)
(* kills and reaps what is left.  runner/local_exec.go, runner/pretty.go.  *)
(***************************************************************************)
EXTENDS Integers, Sequences, FiniteSets

CONSTANTS
    Processes,  \* 1 .. the instances of the run, in the order they start
    MaxWrites   \* an instance writes at most this many events

ASSUME ExecAssumption == Processes \in Nat

VARIABLES
    where,    \* Run: "start", "wait", "kill", "reap" or "returned"
    started,  \* the instance Run starts next
    proc,     \* instance -> "none", "running", "dead" or "reaped"
    said,     \* instance -> the events it wrote to stdout, in order
    pos,      \* instance -> how many of them its reader has processed
    stdout,   \* instance -> processStdout: "none", "reading" or "done"
    stderr,   \* instance -> processStderr: likewise
    passed,   \* instance -> processStdout has seen a success event
    bad,      \* instance -> processStdout has seen a failure or a crash
    failed,   \* PrettyPrinter.failed
    context,  \* "live" or "cancelled"
    returned    \* what Run returns: "none", "ok" or "error"

execVars == <<where, started, proc, said, pos, stdout, stderr, passed, bad, failed, context, returned>>

Procs == 1 .. Processes

\* "unknown" is an event of no known kind, "long" a line longer than the scanner
\* takes.  Output that is no event, and the message, start and stage events,
\* change nothing and are left out.
Events == {"success", "failure", "unknown", "long"}

ExecInit ==
    /\ where = "start" /\ started = 1
    /\ proc = [i \in Procs |-> "none"]
    /\ said = [i \in Procs |-> <<>>]
    /\ pos = [i \in Procs |-> 0]
    /\ stdout = [i \in Procs |-> "none"] /\ stderr = [i \in Procs |-> "none"]
    /\ passed = [i \in Procs |-> FALSE] /\ bad = [i \in Procs |-> FALSE]
    /\ failed = 0
    /\ context = "live"
    /\ returned = "none"

\* cmd.Start succeeds and pretty.Manage starts the two readers.
StartInstance ==
    /\ where = "start" /\ started <= Processes
    /\ proc' = [proc EXCEPT ![started] = "running"]
    /\ stdout' = [stdout EXCEPT ![started] = "reading"]
    /\ stderr' = [stderr EXCEPT ![started] = "reading"]
    /\ started' = started + 1
    /\ UNCHANGED <<where, said, pos, passed, bad, failed, context, returned>>

\* A directory cannot be made or cmd.Start fails, as it does when the context
\* is done: pretty.FailStart counts the instance and the loop continues.
FailStart ==
    /\ where = "start" /\ started <= Processes
    /\ failed' = failed + 1
    /\ started' = started + 1
    /\ UNCHANGED <<where, proc, said, pos, stdout, stderr, passed, bad, context, returned>>

Started ==
    /\ where = "start" /\ started > Processes
    /\ where' = "wait"
    /\ UNCHANGED <<started, proc, said, pos, stdout, stderr, passed, bad, failed, context, returned>>

\* The instance writes an event; once its reader has closed the pipe the write
\* fails and the event is lost with the process.
Write(i) ==
    /\ proc[i] = "running" /\ Len(said[i]) < MaxWrites
    /\ \E e \in Events : said' = [said EXCEPT ![i] = Append(@, e)]
    /\ proc' = IF stdout[i] = "done" THEN [proc EXCEPT ![i] = "dead"] ELSE proc
    /\ UNCHANGED <<where, started, pos, stdout, stderr, passed, bad, failed, context, returned>>

Exit(i) ==
    /\ proc[i] = "running"
    /\ proc' = [proc EXCEPT ![i] = "dead"]
    /\ UNCHANGED <<where, started, said, pos, stdout, stderr, passed, bad, failed, context, returned>>

\* Counts only the instances that said they failed.
CountFailing(i, pass, fails) ==
    failed' = IF fails THEN failed + 1 ELSE failed

\* The reader ends and counts the instance unless it passed.
CountUnlessPassed(i, pass, fails) ==
    failed' = IF ~pass \/ fails THEN failed + 1 ELSE failed

\* processStdout ends: its deferred function counts the instance.
EndStdout(i, pass, fails) ==
    /\ stdout' = [stdout EXCEPT ![i] = "done"]
    /\ CountUnlessPassed(i, pass, fails)

ReadEvent(i) ==
    /\ stdout[i] = "reading" /\ pos[i] < Len(said[i])
    /\ LET e == said[i][pos[i] + 1] IN
         /\ e # "long"
         /\ pos' = [pos EXCEPT ![i] = @ + 1]
         /\ passed' = [passed EXCEPT ![i] = @ \/ e = "success"]
         /\ bad' = [bad EXCEPT ![i] = @ \/ e = "failure"]
         /\ IF e = "unknown"
            THEN EndStdout(i, passed[i], bad[i])
            ELSE UNCHANGED <<stdout, failed>>
    /\ UNCHANGED <<where, started, proc, said, stderr, context, returned>>

\* The pipe is drained and the process has closed its end; or the line is too
\* long, which ends the loop as well.
ReadEOF(i) ==
    /\ stdout[i] = "reading"
    /\ \/ pos[i] = Len(said[i]) /\ proc[i] \notin {"none", "running"}
       \/ pos[i] < Len(said[i]) /\ said[i][pos[i] + 1] = "long"
    /\ EndStdout(i, passed[i], bad[i])
    /\ UNCHANGED <<where, started, proc, said, pos, stderr, passed, bad, context, returned>>

\* processStderr ends with the process.
StderrEOF(i) ==
    /\ stderr[i] = "reading" /\ proc[i] # "running"
    /\ stderr' = [stderr EXCEPT ![i] = "done"]
    /\ UNCHANGED <<where, started, proc, said, pos, stdout, passed, bad, failed, context, returned>>

\* processStderr ends because a line is too long, and closes the pipe.
StderrTooLong(i) ==
    /\ stderr[i] = "reading" /\ proc[i] = "running"
    /\ stderr' = [stderr EXCEPT ![i] = "done"]
    /\ UNCHANGED <<where, started, proc, said, pos, stdout, passed, bad, failed, context, returned>>

\* The request's context ends; exec.CommandContext kills the processes.
Cancel ==
    /\ context = "live"
    /\ context' = "cancelled"
    /\ UNCHANGED <<where, started, proc, said, pos, stdout, stderr, passed, bad, failed, returned>>

ContextKills(i) ==
    /\ context = "cancelled" /\ proc[i] = "running"
    /\ proc' = [proc EXCEPT ![i] = "dead"]
    /\ UNCHANGED <<where, started, said, pos, stdout, stderr, passed, bad, failed, context, returned>>

\* <-pretty.Wait(): both readers of every instance are done.
WaitDone ==
    /\ where = "wait"
    /\ \A i \in Procs : stdout[i] # "reading" /\ stderr[i] # "reading"
    /\ returned' = IF failed > 0 THEN "error" ELSE "ok"
    /\ where' = "kill"
    /\ UNCHANGED <<started, proc, said, pos, stdout, stderr, passed, bad, failed, context>>

\* The deferred function: every process is killed, then every one awaited.
Kill ==
    /\ where = "kill"
    /\ proc' = [i \in Procs |-> IF proc[i] = "running" THEN "dead" ELSE proc[i]]
    /\ where' = "reap"
    /\ UNCHANGED <<started, said, pos, stdout, stderr, passed, bad, failed, context, returned>>

Reap ==
    /\ where = "reap"
    /\ \A i \in Procs : proc[i] # "running"
    /\ proc' = [i \in Procs |-> IF proc[i] = "dead" THEN "reaped" ELSE proc[i]]
    /\ where' = "returned"
    /\ UNCHANGED <<started, said, pos, stdout, stderr, passed, bad, failed, context, returned>>

ExecSteps == Started \/ WaitDone \/ Kill \/ Reap

ExecNext ==
    \/ StartInstance \/ FailStart \/ ExecSteps
    \/ Cancel
    \/ \E i \in Procs :
         \/ Write(i) \/ Exit(i) \/ ReadEvent(i) \/ ReadEOF(i)
         \/ StderrEOF(i) \/ StderrTooLong(i) \/ ContextKills(i)

ExecSpec == ExecInit /\ [][ExecNext]_execVars

\* Every goroutine runs, and a killed process dies; nothing makes a test plan
\* write or exit, or a request be cancelled.
ExecFairSpec ==
    /\ ExecSpec
    /\ WF_execVars(StartInstance \/ FailStart) /\ WF_execVars(ExecSteps)
    /\ \A i \in Procs :
         WF_execVars(ReadEvent(i)) /\ WF_execVars(ReadEOF(i)) /\ WF_execVars(StderrEOF(i)) /\ WF_execVars(ContextKills(i))
------------------------------------------------------------------------------
ExecTypeOK ==
    /\ where \in {"start", "wait", "kill", "reap", "returned"}
    /\ started \in 1 .. Processes + 1
    /\ proc \in [Procs -> {"none", "running", "dead", "reaped"}]
    /\ \A i \in Procs : pos[i] \in 0 .. Len(said[i])
    /\ stdout \in [Procs -> {"none", "reading", "done"}]
    /\ stderr \in [Procs -> {"none", "reading", "done"}]
    /\ passed \in [Procs -> BOOLEAN] /\ bad \in [Procs -> BOOLEAN]
    /\ failed \in 0 .. Processes
    /\ context \in {"live", "cancelled"} /\ returned \in {"none", "ok", "error"}

\* The instance reported success, and a failure, if it reported one, only after
\* an event the reader does not know or a line it cannot read.
Passed(i) ==
    /\ \E j \in DOMAIN said[i] : said[i][j] = "success"
    /\ \A j \in DOMAIN said[i] :
         said[i][j] = "failure" => \E k \in 1 .. j - 1 : said[i][k] \in {"unknown", "long"}

\* The number of failures Run reports ("%d nodes failed") is the number of
\* instances that did not pass, once the readers are done.
CountsFailures ==
    where \in {"kill", "reap", "returned"} =>
        failed = Cardinality({i \in Procs : proc[i] = "none" \/ ~passed[i] \/ bad[i]})

\* Cancelling the request ends the run, even if a test plan would never exit:
\* "assuming the user has cancelled the request context, those processes should
\* die consequently" (TerminateAll).
CancelledReturns == context = "cancelled" ~> where = "returned"
==============================================================================
