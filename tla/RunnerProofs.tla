---------------------------- MODULE RunnerProofs ----------------------------
(***************************************************************************)
(* What the runners local:exec, cluster:swarm and cluster:k8s report and   *)
(* leave behind, and the pool of clients of the collection of outputs, for *)
(* any numbers of instances, replicas, requests and workers: each from an  *)
(* inductive invariant of its component.                                   *)
(***************************************************************************)
EXTENDS Runners, FiniteSetTheorems, TLAPS

\* What the readers of an instance know of its output, and what the count of the
\* failed ones says of it.
ReaderInv(i) ==
  /\ said[i] \in Seq(Events) /\ pos[i] \in 0 .. Len(said[i])
  /\ stdout[i] # "none" => proc[i] # "none"
  /\ passed[i] => \E j \in 1 .. pos[i] : said[i][j] = "success"
  /\ ~bad[i] => \A j \in 1 .. pos[i] : said[i][j] # "failure"
  /\ stdout[i] = "done" =>
       \/ pos[i] = Len(said[i]) /\ proc[i] \in {"dead", "reaped"}
       \/ \E k \in 1 .. Len(said[i]) : k <= pos[i] + 1 /\ said[i][k] \in {"unknown", "long"}

CountedInv(i) ==
  failed = 0 => /\ i < started => stdout[i] # "none"
                /\ stdout[i] = "done" => passed[i] /\ ~bad[i]

ExecInv ==
  /\ started \in Nat \ {0} /\ failed \in Nat
  /\ proc \in [Procs -> {"none", "running", "dead", "reaped"}]
  /\ said = [i \in Procs |-> said[i]] /\ pos = [i \in Procs |-> pos[i]]
  /\ stdout \in [Procs -> {"none", "reading", "done"}]
  /\ passed \in [Procs -> BOOLEAN] /\ bad \in [Procs -> BOOLEAN]
  /\ \A i \in Procs : ReaderInv(i) /\ CountedInv(i)
  /\ where # "start" => started > Processes
  /\ where \in {"start", "wait"} => returned = "none"
  /\ where \notin {"start", "wait"} => \A i \in Procs : stdout[i] # "reading"
  /\ returned = "ok" => failed = 0
  /\ where = "reap" => \A i \in Procs : proc[i] # "running"
  /\ where = "returned" => \A i \in Procs : proc[i] \in {"none", "reaped"}

\* Removing the network is tried again until it is gone or was tried five times.
SwarmInv ==
  /\ step = "network" => network = "absent"
  /\ step # "returned" => attempt \in 0 .. Attempts - 1
  /\ ~cfg.keep /\ ~cfg.background =>
       /\ step \in {"unlink", "returned"} /\ ~error => service \in {"removed", "refused"}
       /\ step = "returned" /\ network = "up" => attempt = Attempts

\* The states of a request in which it holds a client, and a second one.
Holding == {"list", "acquire_create", "create", "acquire_wait", "wait", "stream"}
Doubly == {"create", "wait"}
In(S) == {r \in Requests : at[r] \in S}

PoolInv ==
  /\ at = [r \in Requests |-> at[r]] /\ available \in Nat
  /\ available + Cardinality(In(Holding)) + Cardinality(In(Doubly)) = Workers

EndedAs(phase) == {i \in I : finished[i] = phase}
Received(g) == {i \in delivered : GroupOf[i] = g}

\* The collector has counted no more than the successes it received.
OutcomeInv ==
  /\ delivered \subseteq published /\ published \subseteq I
  /\ ok \in [Groups -> Nat] /\ \A g \in Groups : ok[g] <= Cardinality(Received(g))
  /\ "success" \in {outcome, result} => published = I

\* The watcher has seen no more pods in a final phase than ended there.
WatchedInv ==
  /\ pod \in [I -> {"absent", "active", "succeeded", "failed", "deleted"}]
  /\ finished \in [I -> {"none", "succeeded", "failed"}]
  /\ \A i \in I : /\ pod[i] \in {"absent", "active"} => finished[i] = "none"
                  /\ pod[i] \in {"succeeded", "failed"} => finished[i] = pod[i]
                  /\ pod[i] # "absent" => creator[i] # "none"
                  /\ creator[i] = "running" => pod[i] = "absent"
  /\ seen \in [succeeded : Int, failed : Int]
  /\ seen.succeeded <= Cardinality(EndedAs("succeeded"))
  /\ seen.failed <= Cardinality(EndedAs("failed"))
  /\ watcher \in {"await", "done"} => \A i \in I : finished[i] # "none"
  /\ stage \in {"delete", "outcome", "returned"} /\ err = "none" => \A i \in I : finished[i] # "none"

\* The pods Run has deleted stay deleted, since no pod is created any more.
Swept == ~keep /\ ctx = "live" /\ err # "early" /\ ~refused
DeletedInv ==
  /\ turn \in 0 .. Instances + 1
  /\ creator = [i \in I |-> creator[i]]
  /\ stage = "setup" => turn = 1 /\ \A i \in I : creator[i] = "none"
  /\ stage = "launch" => turn >= 1 /\ \A i \in I : i >= turn => creator[i] = "none"
  /\ stage = "delete" => turn <= Instances
  /\ stage \in {"delete", "outcome", "returned"} /\ err # "early" => \A i \in I : creator[i] # "running"
  /\ stage = "delete" /\ Swept => \A i \in I : i > turn => pod[i] \in {"absent", "deleted"}
  /\ stage \in {"outcome", "returned"} /\ Swept => \A i \in I : pod[i] \in {"absent", "deleted"}

-------------------------------------------------------------------------------
(* local:exec.                                                                *)

LEMMA ExecStarts == ExecInit => ExecInv
BY ExecAssumption DEF ExecInit, ExecInv, ReaderInv, CountedInv, Procs

\* The steps that read and write nothing leave what is known of an instance.
LEMMA ReadersKept ==
  ASSUME ExecInv, UNCHANGED <<said, pos, stdout, passed, bad, failed, started>>,
         \A i \in Procs : /\ proc'[i] = proc[i] \/ proc'[i] \in {"dead", "reaped"}
  PROVE  \A i \in Procs : ReaderInv(i)' /\ CountedInv(i)'
BY DEF ExecInv, ReaderInv, CountedInv

LEMMA StartStep ==
  ASSUME ExecInv, StartInstance \/ FailStart PROVE ExecInv'
<1>1. CASE StartInstance
  <2>1. /\ UNCHANGED <<where, said, pos, passed, bad, failed, returned>> /\ where = "start"
        /\ started \in Procs /\ started \in Nat /\ started' = started + 1
        /\ \A i \in Procs : i < started' => i < started \/ i = started
    BY <1>1, ExecAssumption DEF StartInstance, ExecInv, Procs
  <2>2. /\ proc' \in [Procs -> {"none", "running", "dead", "reaped"}] /\ proc'[started] = "running"
        /\ stdout' \in [Procs -> {"none", "reading", "done"}] /\ stdout'[started] = "reading"
        /\ \A i \in Procs \ {started} : proc'[i] = proc[i] /\ stdout'[i] = stdout[i]
    BY <1>1, <2>1, Zenon DEF StartInstance, ExecInv
  <2>3. \A i \in Procs : ReaderInv(i)'
    <3> SUFFICES ASSUME NEW i \in Procs PROVE ReaderInv(i)'
      BY Zenon
    <3>1. ReaderInv(i)
      BY Zenon DEF ExecInv
    <3> QED BY <2>1, <2>2, <3>1, Zenon DEF ReaderInv
  <2>4. \A i \in Procs : CountedInv(i)'
    BY <2>1, <2>2, Zenon DEF CountedInv, ExecInv
  <2> QED BY <2>1, <2>2, <2>3, <2>4 DEF ExecInv
<1>2. CASE FailStart
  BY <1>2, ExecAssumption DEF FailStart, ExecInv, ReaderInv, CountedInv, Procs
<1> QED BY <1>1, <1>2, Zenon

LEMMA ProcessStep ==
  ASSUME ExecInv, NEW i \in Procs, Exit(i) \/ ContextKills(i) \/ StderrEOF(i) \/ StderrTooLong(i) \/ Cancel PROVE ExecInv'
<1>1. UNCHANGED <<where, started, said, pos, stdout, passed, bad, failed, returned>>
  BY Zenon DEF Exit, ContextKills, StderrEOF, StderrTooLong, Cancel
<1>2. proc' = proc \/ (proc[i] = "running" /\ proc' = [proc EXCEPT ![i] = "dead"])
  BY Zenon DEF Exit, ContextKills, StderrEOF, StderrTooLong, Cancel
<1>3. proc' \in [Procs -> {"none", "running", "dead", "reaped"}] /\ \A j \in Procs : proc'[j] = proc[j] \/ (proc'[j] = "dead" /\ proc[j] = "running")
  BY <1>2, Zenon DEF ExecInv
<1>4. \A j \in Procs : ReaderInv(j)' /\ CountedInv(j)'
  BY <1>1, <1>3, ReadersKept, Zenon
<1> QED BY <1>1, <1>3, <1>4, Zenon DEF ExecInv

LEMMA WriteStep ==
  ASSUME ExecInv, NEW i \in Procs, Write(i) PROVE ExecInv'
<1> PICK e \in Events : said' = [said EXCEPT ![i] = Append(@, e)]
  BY Zenon DEF Write
<1>1. UNCHANGED <<where, started, pos, stdout, passed, bad, failed, returned>> /\ proc[i] = "running"
  BY Zenon DEF Write
<1>2. proc' = proc \/ proc' = [proc EXCEPT ![i] = "dead"]
  BY Zenon DEF Write
<1>3. /\ said'[i] = Append(said[i], e) /\ \A j \in Procs \ {i} : said'[j] = said[j]
      /\ said' = [j \in Procs |-> said'[j]]
  BY Zenon DEF ExecInv
<1>4. ReaderInv(i)
  BY Zenon DEF ExecInv
<1>5. /\ said'[i] \in Seq(Events) /\ Len(said'[i]) = Len(said[i]) + 1 /\ Len(said[i]) \in Nat
      /\ \A k \in 1 .. Len(said[i]) : said'[i][k] = said[i][k]
  BY <1>3, <1>4 DEF ReaderInv
<1>6. ReaderInv(i)'
  <2>1. pos[i] \in 0 .. Len(said[i]) /\ \A k \in 1 .. pos[i] : said'[i][k] = said[i][k]
    BY <1>4, <1>5 DEF ReaderInv
  <2>2. stdout[i] = "done" =>
          \E k \in 1 .. Len(said'[i]) : k <= pos[i] + 1 /\ said'[i][k] \in {"unknown", "long"}
    BY <1>1, <1>4, <1>5 DEF ReaderInv
  <2>3. pos[i] \in 0 .. Len(said'[i])
    BY <1>5, <2>1
  <2>4. proc'[i] # "none"
    BY <1>1, <1>2, Zenon DEF ExecInv
  <2> QED BY <1>1, <1>4, <1>5, <2>1, <2>2, <2>3, <2>4 DEF ReaderInv
<1>7. \A j \in Procs \ {i} : ReaderInv(j)'
  <2> SUFFICES ASSUME NEW j \in Procs \ {i} PROVE ReaderInv(j)'
    BY Zenon
  <2>1. ReaderInv(j) /\ proc'[j] = proc[j]
    BY <1>2, Zenon DEF ExecInv
  <2> QED BY <1>1, <1>3, <2>1, Zenon DEF ReaderInv
<1>8. \A j \in Procs : CountedInv(j)'
  BY <1>1, Zenon DEF CountedInv, ExecInv
<1>9. proc' \in [Procs -> {"none", "running", "dead", "reaped"}] /\ \A j \in Procs : proc'[j] = proc[j] \/ (proc'[j] = "dead" /\ proc[j] = "running")
  BY <1>1, <1>2, Zenon DEF ExecInv
<1> QED BY <1>1, <1>3, <1>6, <1>7, <1>8, <1>9, Zenon DEF ExecInv

LEMMA ReadStep ==
  ASSUME ExecInv, NEW i \in Procs, ReadEvent(i) PROVE ExecInv'
<1> DEFINE e == said[i][pos[i] + 1]
<1>1. /\ UNCHANGED <<where, started, proc, said, returned>>
      /\ stdout[i] = "reading" /\ pos[i] < Len(said[i]) /\ e # "long"
  BY Zenon DEF ReadEvent
<1>2. ReaderInv(i) /\ CountedInv(i)
  BY Zenon DEF ExecInv
<1>3. pos[i] \in Nat /\ Len(said[i]) \in Nat /\ pos[i] + 1 \in 1 .. Len(said[i])
  BY <1>1, <1>2 DEF ReaderInv
<1>4. /\ pos' = [j \in Procs |-> pos'[j]] /\ pos'[i] = pos[i] + 1
      /\ passed' \in [Procs -> BOOLEAN] /\ (passed'[i] <=> passed[i] \/ e = "success")
      /\ bad' \in [Procs -> BOOLEAN] /\ (bad'[i] <=> bad[i] \/ e = "failure")
      /\ \A j \in Procs \ {i} : pos'[j] = pos[j] /\ passed'[j] = passed[j] /\ bad'[j] = bad[j]
  BY Zenon DEF ReadEvent, ExecInv
<1>5. /\ stdout' \in [Procs -> {"none", "reading", "done"}] /\ failed' \in Nat /\ failed' >= failed
      /\ stdout'[i] \in {"reading", "done"} /\ \A j \in Procs \ {i} : stdout'[j] = stdout[j]
      /\ stdout'[i] = "done" => e = "unknown" /\ (failed' = 0 => passed[i] /\ ~bad[i])
  BY <1>1 DEF ReadEvent, EndStdout, CountUnlessPassed, ExecInv
<1>6. where \in {"start", "wait"}
  BY <1>1, Zenon DEF ExecInv
<1>7. ReaderInv(i)'
  <2>1. pos'[i] \in 0 .. Len(said[i]) /\ \A k \in 1 .. pos'[i] : k \in 1 .. pos[i] \/ k = pos'[i]
    BY <1>3, <1>4
  <2>2. passed'[i] => \E k \in 1 .. pos'[i] : said[i][k] = "success"
    BY <1>2, <1>3, <1>4 DEF ReaderInv
  <2>3. ~bad'[i] => \A k \in 1 .. pos'[i] : said[i][k] # "failure"
    BY <1>2, <1>4, <2>1, Zenon DEF ReaderInv
  <2>4. stdout'[i] = "done" => \E k \in 1 .. Len(said[i]) : k <= pos'[i] + 1 /\ said[i][k] = "unknown"
    BY <1>3, <1>4, <1>5
  <2> QED BY <1>1, <1>2, <1>5, <2>1, <2>2, <2>3, <2>4, Zenon DEF ReaderInv
<1>8. \A j \in Procs \ {i} : ReaderInv(j)'
  <2> SUFFICES ASSUME NEW j \in Procs \ {i} PROVE ReaderInv(j)'
    BY Zenon
  <2>1. ReaderInv(j)
    BY Zenon DEF ExecInv
  <2> QED BY <1>1, <1>4, <1>5, <2>1, Zenon DEF ReaderInv
<1>9. \A j \in Procs : CountedInv(j)'
  <2>1. CountedInv(i)'
    BY <1>1, <1>4, <1>5, Zenon DEF CountedInv
  <2>2. failed' = 0 => failed = 0
    BY <1>5 DEF ExecInv
  <2> QED BY <1>1, <1>4, <1>5, <2>1, <2>2 DEF CountedInv, ExecInv
<1>10. returned = "none"
  BY <1>6, Zenon DEF ExecInv
<1> QED BY <1>1, <1>4, <1>5, <1>6, <1>7, <1>8, <1>9, <1>10, Zenon DEF ExecInv

LEMMA ReadEndStep ==
  ASSUME ExecInv, NEW i \in Procs, ReadEOF(i) PROVE ExecInv'
<1>1. /\ UNCHANGED <<where, started, proc, said, pos, passed, bad, returned>>
      /\ stdout[i] = "reading"
      /\ \/ pos[i] = Len(said[i]) /\ proc[i] \notin {"none", "running"}
         \/ pos[i] < Len(said[i]) /\ said[i][pos[i] + 1] = "long"
  BY Zenon DEF ReadEOF
<1>2. ReaderInv(i)
  BY Zenon DEF ExecInv
<1>3. /\ stdout' \in [Procs -> {"none", "reading", "done"}] /\ failed' \in Nat /\ failed' >= failed
      /\ stdout'[i] = "done" /\ \A j \in Procs \ {i} : stdout'[j] = stdout[j]
      /\ failed' = 0 => passed[i] /\ ~bad[i]
  BY <1>1 DEF ReadEOF, EndStdout, CountUnlessPassed, ExecInv
<1>4. ReaderInv(i)'
  <2>1. \/ pos[i] = Len(said[i]) /\ proc[i] \in {"dead", "reaped"}
        \/ \E k \in 1 .. Len(said[i]) : k <= pos[i] + 1 /\ said[i][k] = "long"
    <3>1. proc[i] \in {"none", "running", "dead", "reaped"}
      BY Zenon DEF ExecInv
    <3>2. pos[i] \in Nat /\ Len(said[i]) \in Nat
      BY <1>2 DEF ReaderInv
    <3>3. pos[i] < Len(said[i]) => pos[i] + 1 \in 1 .. Len(said[i])
      BY <3>2
    <3> QED BY <1>1, <3>1, <3>2, <3>3
  <2> QED BY <1>1, <1>2, <1>3, <2>1, Zenon DEF ReaderInv
<1>5. \A j \in Procs \ {i} : ReaderInv(j)'
  BY <1>1, <1>3 DEF ReaderInv, ExecInv
<1>6. \A j \in Procs : CountedInv(j)'
  BY <1>1, <1>3 DEF CountedInv, ExecInv
<1>7. returned = "none" /\ where \in {"start", "wait"}
  BY <1>1, Zenon DEF ExecInv
<1> QED BY <1>1, <1>3, <1>4, <1>5, <1>6, <1>7, Zenon DEF ExecInv

LEMMA RunStep ==
  ASSUME ExecInv, ExecSteps PROVE ExecInv'
<1>1. UNCHANGED <<started, said, pos, stdout, passed, bad, failed>>
  BY Zenon DEF ExecSteps, Started, WaitDone, Kill, Reap
<1>2. /\ proc' \in [Procs -> {"none", "running", "dead", "reaped"}]
      /\ \A i \in Procs : proc'[i] = proc[i] \/ proc'[i] \in {"dead", "reaped"}
  BY DEF ExecSteps, Started, WaitDone, Kill, Reap, ExecInv
<1>3. \A i \in Procs : ReaderInv(i)' /\ CountedInv(i)'
  BY <1>1, <1>2, ReadersKept, Zenon
<1>4. CASE Started
  BY <1>1, <1>2, <1>3, <1>4, Zenon DEF Started, ExecInv
<1>5. CASE WaitDone
  BY <1>1, <1>2, <1>3, <1>5 DEF WaitDone, ExecInv
<1>6. CASE Kill
  BY <1>1, <1>2, <1>3, <1>6, Zenon DEF Kill, ExecInv
<1>7. CASE Reap
  BY <1>1, <1>2, <1>3, <1>7, Zenon DEF Reap, ExecInv
<1> QED BY <1>4, <1>5, <1>6, <1>7, Zenon DEF ExecSteps

LEMMA ExecStep == ExecInv /\ [ExecNext]_execVars => ExecInv'
<1> SUFFICES ASSUME ExecInv, [ExecNext]_execVars PROVE ExecInv'
  BY Zenon
<1>1. CASE UNCHANGED execVars
  BY <1>1 DEF execVars, ExecInv, ReaderInv, CountedInv
<1>2. CASE Cancel
  <2>1. UNCHANGED <<where, started, proc, said, pos, stdout, passed, bad, failed, returned>>
    BY <1>2, Zenon DEF Cancel
  <2> QED BY <2>1 DEF ExecInv, ReaderInv, CountedInv
<1>3. ASSUME NEW i \in Procs, StderrEOF(i) \/ StderrTooLong(i) \/ Exit(i) \/ ContextKills(i) PROVE ExecInv'
  BY <1>3, ProcessStep, Zenon
<1> QED BY <1>1, <1>2, <1>3, StartStep, RunStep, WriteStep, ReadStep, ReadEndStep, Zenon
           DEF ExecNext

\* A run without an error had no failed instance, so each of its readers saw a success and
\* no failure up to where it stopped.
LEMMA ExecUnanimous ==
  ASSUME ExecInv, returned = "ok" PROVE \A i \in Procs : proc[i] # "none" /\ Passed(i)
<1> SUFFICES ASSUME NEW i \in Procs PROVE proc[i] # "none" /\ Passed(i)
  BY Zenon
<1>1. ReaderInv(i) /\ CountedInv(i) /\ failed = 0
  BY Zenon DEF ExecInv
<1>2. stdout[i] = "done"
  <2>1. i < started /\ where \notin {"start", "wait"}
    BY ExecAssumption DEF ExecInv, Procs
  <2> QED BY <1>1, <2>1, Zenon DEF ExecInv, CountedInv
<1>3. passed[i] /\ ~bad[i] /\ proc[i] # "none"
  BY <1>1, <1>2, Zenon DEF CountedInv, ReaderInv
<1>4. said[i] \in Seq(Events) /\ pos[i] \in 0 .. Len(said[i]) /\ DOMAIN said[i] = 1 .. Len(said[i])
  BY <1>1 DEF ReaderInv
<1>5. \E j \in DOMAIN said[i] : said[i][j] = "success"
  BY <1>1, <1>3, <1>4 DEF ReaderInv
<1>6. ASSUME NEW j \in DOMAIN said[i], said[i][j] = "failure"
      PROVE  \E k \in 1 .. j - 1 : said[i][k] \in {"unknown", "long"}
  <2>1. j > pos[i] /\ j \in 1 .. Len(said[i])
    BY <1>1, <1>3, <1>4, <1>6 DEF ReaderInv
  <2>2. PICK k \in 1 .. Len(said[i]) : k <= pos[i] + 1 /\ said[i][k] \in {"unknown", "long"}
    BY <1>1, <1>2, <2>1 DEF ReaderInv
  <2>3. k # j
    BY <1>6, <2>2, Zenon
  <2> QED BY <1>4, <2>1, <2>2, <2>3
<1> QED BY <1>3, <1>5, <1>6, Zenon DEF Passed
-------------------------------------------------------------------------------
(* cluster:swarm.                                                             *)

LEMMA SwarmStep == SwarmInv /\ [SwarmNext]_swarmVars => SwarmInv'
<1> SUFFICES ASSUME SwarmInv, [SwarmNext]_swarmVars PROVE SwarmInv'
  BY Zenon
<1>1. CASE CreateNetwork \/ CreateService \/ CreateFails \/ TailLogs
  BY <1>1, Zenon DEF CreateNetwork, CreateService, CreateFails, TailLogs, SwarmInv
<1>2. CASE MonitorDone \/ MonitorTimesOut \/ MonitorFails \/ TailEnds \/ TailBreaks
  BY <1>2, Zenon DEF MonitorDone, MonitorTimesOut, MonitorFails, TailEnds, TailBreaks, SwarmInv
<1>3. CASE ScanEnds \/ ScanTooLong \/ RemoveService
  BY <1>3, Zenon DEF ScanEnds, ScanTooLong, RemoveService, SwarmInv
<1>6. CASE RemoveNetwork
  <2>1. /\ step = "unlink" /\ attempt \in 0 .. Attempts - 1 /\ UNCHANGED <<cfg, service, error>>
        /\ attempt' = IF cfg.keep \/ cfg.background THEN attempt ELSE attempt + 1
        /\ step' = IF network' = "up" /\ attempt' \in 1 .. Attempts - 1 THEN "unlink" ELSE "returned"
    BY <1>6, Zenon DEF RemoveNetwork, SwarmInv
  <2> QED BY <2>1 DEF SwarmInv, Attempts
<1>4. CASE MinutePasses \/ UNCHANGED swarmVars
  BY <1>4, Zenon DEF MinutePasses, swarmVars, SwarmInv
<1>5. ASSUME NEW t \in Tasks, TaskFinishes(t) \/ TaskGoes(t) PROVE SwarmInv'
  BY <1>5, Zenon DEF TaskFinishes, TaskGoes, SwarmInv
<1> QED BY <1>1, <1>2, <1>3, <1>4, <1>5, <1>6, Zenon DEF SwarmNext, SwarmSteps
-------------------------------------------------------------------------------
(* The pool of clients.                                                       *)

\* The number of clients a request holds in a state.
Held(s) == (IF s \in Holding THEN 1 ELSE 0) + (IF s \in Doubly THEN 1 ELSE 0)

\* A request that goes to another state enters or leaves the set of those in S.
LEMMA CountMoves ==
  ASSUME NEW S, NEW r \in Requests, NEW to, at = [q \in Requests |-> at[q]], Goto(r, to)
  PROVE  /\ Cardinality(In(S)) \in Nat /\ Cardinality(In(S)') \in Nat
         /\ Cardinality(In(S)') + (IF at[r] \in S THEN 1 ELSE 0) = Cardinality(In(S)) + (IF to \in S THEN 1 ELSE 0)
<1>1. IsFiniteSet(In(S)) /\ IsFiniteSet(In(S)') /\ Cardinality(In(S)) \in Nat /\ Cardinality(In(S)') \in Nat
  BY PoolAssumption, FS_Subset, FS_CardinalityType, Zenon DEF In
<1>2. at'[r] = to /\ \A q \in Requests \ {r} : at'[q] = at[q]
  BY Zenon DEF Goto
<1>3. CASE at[r] \in S /\ to \in S
  <2>1. In(S)' = In(S)
    BY <1>2, <1>3, Zenon DEF In
  <2> QED BY <1>1, <1>3, <2>1, Zenon
<1>4. CASE at[r] \in S /\ to \notin S
  <2>1. In(S)' = In(S) \ {r} /\ r \in In(S)
    BY <1>2, <1>4 DEF In
  <2>2. Cardinality(In(S)') = Cardinality(In(S)) - 1
    BY <1>1, <2>1, FS_RemoveElement, Zenon
  <2> QED BY <1>1, <1>4, <2>2
<1>5. CASE at[r] \notin S /\ to \in S
  <2>1. In(S)' = In(S) \cup {r} /\ r \notin In(S)
    BY <1>2, <1>5 DEF In
  <2>2. Cardinality(In(S)') = Cardinality(In(S)) + 1
    BY <1>1, <2>1, FS_AddElement, Zenon
  <2> QED BY <1>1, <1>5, <2>2
<1>6. CASE at[r] \notin S /\ to \notin S
  <2>1. In(S)' = In(S)
    BY <1>2, <1>6, Zenon DEF In
  <2> QED BY <1>1, <1>6, <2>1, Zenon
<1> QED BY <1>3, <1>4, <1>5, <1>6, Zenon

\* A step that takes or gives back the clients of its states keeps the pool whole.
LEMMA PoolBalanced ==
  ASSUME PoolInv, NEW r \in Requests, NEW to, Goto(r, to),
         available' \in Nat, available' + Held(to) = available + Held(at[r])
  PROVE  PoolInv'
<1>1. at' = [q \in Requests |-> at'[q]]
  BY Zenon DEF Goto, PoolInv
<1>2. /\ Cardinality(In(Holding)) \in Nat /\ Cardinality(In(Holding)') \in Nat
      /\ Cardinality(In(Holding)') + (IF at[r] \in Holding THEN 1 ELSE 0)
           = Cardinality(In(Holding)) + (IF to \in Holding THEN 1 ELSE 0)
  BY CountMoves, Zenon DEF PoolInv
<1>3. /\ Cardinality(In(Doubly)) \in Nat /\ Cardinality(In(Doubly)') \in Nat
      /\ Cardinality(In(Doubly)') + (IF at[r] \in Doubly THEN 1 ELSE 0)
           = Cardinality(In(Doubly)) + (IF to \in Doubly THEN 1 ELSE 0)
  BY CountMoves, Zenon DEF PoolInv
<1>4. available' + Cardinality(In(Holding)') + Cardinality(In(Doubly)') = Workers
  BY <1>2, <1>3, PoolAssumption DEF PoolInv, Held
<1> QED BY <1>1, <1>4, Zenon DEF PoolInv

LEMMA PoolStarts == CollectInit => PoolInv
<1> SUFFICES ASSUME CollectInit PROVE PoolInv
  BY Zenon
<1>1. In(Holding) = {} /\ In(Doubly) = {}
  BY Zenon DEF CollectInit, In, Holding, Doubly
<1> QED BY <1>1, FS_EmptySet, PoolAssumption DEF CollectInit, PoolInv

LEMMA PoolStep == PoolInv /\ [CollectNext]_collectVars => PoolInv'
<1> SUFFICES ASSUME PoolInv, [CollectNext]_collectVars PROVE PoolInv'
  BY Zenon
<1> USE DEF Held, Holding, Doubly
<1>1. CASE PodStarts \/ UNCHANGED collectVars \/ \E r \in Requests : Leave(r)
  BY <1>1, Zenon DEF PodStarts, collectVars, Leave, PoolInv, In
<1>2. ASSUME NEW r \in Requests, Ensure(r) PROVE PoolInv'
  <2>1. Goto(r, "list") /\ available' + Held("list") = available + Held(at[r]) /\ available' \in Nat
    BY <1>2 DEF Ensure, Acquire, PoolInv
  <2> QED BY <2>1, PoolBalanced, Zenon
<1>3. ASSUME NEW r \in Requests, ListFound(r) PROVE PoolInv'
  <2>1. Goto(r, "ensured") /\ available' + Held("ensured") = available + Held(at[r]) /\ available' \in Nat
    BY <1>3 DEF ListFound, Release, PoolInv
  <2> QED BY <2>1, PoolBalanced, Zenon
<1>4. ASSUME NEW r \in Requests, ListEmpty(r) PROVE PoolInv'
  <2>1. Goto(r, "acquire_create") /\ available' + Held("acquire_create") = available + Held(at[r]) /\ available' \in Nat
    BY <1>4, Zenon DEF ListEmpty, PoolInv
  <2> QED BY <2>1, PoolBalanced, Zenon
<1>5. ASSUME NEW r \in Requests, ListFails(r) \/ CreateCollectFails(r) \/ WaitCancelled(r) \/ WaitListFails(r) PROVE PoolInv'
  <2>1. Goto(r, "failed") /\ available' + Held("failed") = available + Held(at[r]) /\ available' \in Nat
    BY <1>5 DEF ListFails, CreateCollectFails, WaitCancelled, WaitListFails, Release, PoolInv
  <2> QED BY <2>1, PoolBalanced, Zenon
<1>6. ASSUME NEW r \in Requests, AcquireCreate(r) PROVE PoolInv'
  <2>1. Goto(r, "create") /\ available' + Held("create") = available + Held(at[r]) /\ available' \in Nat
    BY <1>6 DEF AcquireCreate, Acquire, PoolInv
  <2> QED BY <2>1, PoolBalanced, Zenon
<1>7. ASSUME NEW r \in Requests, CreateCollectPod(r) PROVE PoolInv'
  <2>1. Goto(r, "acquire_wait") /\ available' + Held("acquire_wait") = available + Held(at[r]) /\ available' \in Nat
    BY <1>7 DEF CreateCollectPod, Release, PoolInv
  <2> QED BY <2>1, PoolBalanced, Zenon
<1>8. ASSUME NEW r \in Requests, AcquireWait(r) PROVE PoolInv'
  <2>1. Goto(r, "wait") /\ available' + Held("wait") = available + Held(at[r]) /\ available' \in Nat
    BY <1>8 DEF AcquireWait, Acquire, PoolInv
  <2> QED BY <2>1, PoolBalanced, Zenon
<1>9. ASSUME NEW r \in Requests, WaitForPod(r) PROVE PoolInv'
  <2>1. Goto(r, "ensured") /\ available' + Held("ensured") = available + Held(at[r]) /\ available' \in Nat
    BY <1>9 DEF WaitForPod, Release, PoolInv
  <2> QED BY <2>1, PoolBalanced, Zenon
<1>10. ASSUME NEW r \in Requests, Collect(r) PROVE PoolInv'
  <2>1. Goto(r, "stream") /\ available' + Held("stream") = available + Held(at[r]) /\ available' \in Nat
    BY <1>10 DEF Collect, Acquire, PoolInv
  <2> QED BY <2>1, PoolBalanced, Zenon
<1>11. ASSUME NEW r \in Requests, Stream(r) PROVE PoolInv'
  <2>1. PICK to \in {"done", "failed"} : Goto(r, to)
    BY <1>11, Zenon DEF Stream
  <2>2. available' + Held(to) = available + Held(at[r]) /\ available' \in Nat
    BY <1>11, <2>1 DEF Stream, Release, PoolInv
  <2> QED BY <2>1, <2>2, PoolBalanced, Zenon
<1> QED BY <1>1, <1>2, <1>3, <1>4, <1>5, <1>6, <1>7, <1>8, <1>9, <1>10, <1>11
           DEF CollectNext, CollectSteps

\* Collections that have ended, with or without an error, have given back every client they
\* took in the nested functions of the runner (the deferred calls of pool.Release).
THEOREM PoolIsWhole == CollectSpec => []ClientsReturned
<1>1. PoolInv => ClientsReturned
  <2> SUFFICES ASSUME PoolInv, \A r \in Requests : at[r] \in {"start", "done", "failed"} PROVE available = Workers
    BY Zenon DEF ClientsReturned
  <2>1. In(Holding) = {} /\ In(Doubly) = {}
    BY Zenon DEF In, Holding, Doubly
  <2> QED BY <2>1, FS_EmptySet, PoolAssumption DEF PoolInv
<1> QED BY <1>1, PoolStarts, PoolStep, PTL DEF CollectSpec
-------------------------------------------------------------------------------
(* cluster:k8s: what is stored.                                               *)

LEMMA OutcomeStarts == K8sInit => OutcomeInv
<1> SUFFICES ASSUME K8sInit PROVE OutcomeInv
  BY Zenon
<1>1. \A g \in Groups : Received(g) = {}
  BY Zenon DEF K8sInit, Received
<1> QED BY <1>1, FS_EmptySet DEF K8sInit, OutcomeInv

LEMMA ReceivedFinite ==
  ASSUME OutcomeInv PROVE \A g : IsFiniteSet(Received(g)) /\ Cardinality(Received(g)) \in Nat
<1>1. IsFiniteSet(I)
  BY PodsAssumption, FS_Interval DEF I
<1>2. \A g : Received(g) \subseteq I
  BY Zenon DEF Received, OutcomeInv
<1> QED BY <1>1, <1>2, FS_Subset, FS_CardinalityType, Zenon

\* A count that equals the size of every group is a success of every instance.
LEMMA AllReceived ==
  ASSUME OutcomeInv, \A g \in Groups : ok[g] = Total(g) PROVE published = I
<1> SUFFICES ASSUME NEW i \in I PROVE i \in published
  BY Zenon DEF OutcomeInv
<1> DEFINE g == GroupOf[i]
           Group == {j \in I : GroupOf[j] = g}
<1>1. IsFiniteSet(Group)
  <2>1. IsFiniteSet(I) /\ Group \subseteq I
    BY PodsAssumption, FS_Interval DEF I
  <2> QED BY <2>1, FS_Subset, Zenon
<1>2. Received(g) \subseteq Group /\ i \in Group
  BY Zenon DEF Received, OutcomeInv
<1>3. g \in Groups /\ Cardinality(Group) <= Cardinality(Received(g))
  BY Zenon DEF Groups, OutcomeInv, Total
<1>4. Received(g) = Group
  <2>1. Cardinality(Received(g)) \in Nat /\ Cardinality(Group) \in Nat
    BY <1>1, ReceivedFinite, FS_CardinalityType, Zenon
  <2>2. Cardinality(Received(g)) <= Cardinality(Group)
    BY <1>1, <1>2, FS_Subset, Zenon
  <2> QED BY <1>1, <1>2, <1>3, <2>1, <2>2, FS_Subset
<1> QED BY <1>2, <1>4, Zenon DEF Received, OutcomeInv

\* What the steps of Run, the watcher and the cluster leave to the collector.
Uncounted == UNCHANGED <<published, delivered, ok, outcome, result>>

LEMMA UncountedSteps ==
  /\ TaskEnds \/ TimePasses \/ Terminate \/ Setup \/ Launched \/ Wait \/ DeletePod \/ Deleted => Uncounted
  /\ Subscribe \/ WatchEvents \/ Poll \/ ListPods("succeeded") \/ ListPods("failed") \/ Counted \/ AwaitOutcomes => Uncounted
  /\ \A i \in I : End(i) \/ CreatePod(i) => Uncounted
  /\ UNCHANGED k8sVars => Uncounted
<1> USE DEF Uncounted, mainVars, clusterVars, watcherVars, outcomeVars
<1>1. TaskEnds \/ TimePasses \/ Terminate \/ Setup \/ Launched => Uncounted
  BY Zenon DEF TaskEnds, TimePasses, Terminate, Setup, Launched
<1>2. Wait \/ DeletePod \/ Deleted \/ UNCHANGED k8sVars => Uncounted
  BY Zenon DEF Wait, DeletePod, Deleted, k8sVars
<1>3. Subscribe \/ WatchEvents \/ Poll \/ Counted \/ AwaitOutcomes => Uncounted
  BY Zenon DEF Subscribe, WatchEvents, Poll, Counted, AwaitOutcomes
<1>4. ListPods("succeeded") \/ ListPods("failed") => Uncounted
  BY Zenon DEF ListPods
<1>5. \A i \in I : End(i) \/ CreatePod(i) => Uncounted
  BY Zenon DEF End, CreatePod
<1> QED BY <1>1, <1>2, <1>3, <1>4, <1>5, Zenon

LEMMA OutcomeStep == OutcomeInv /\ [K8sNext]_k8sVars => OutcomeInv'
<1> SUFFICES ASSUME OutcomeInv, [K8sNext]_k8sVars PROVE OutcomeInv'
  BY Zenon
<1>1. CASE Uncounted
  BY <1>1, Zenon DEF Uncounted, OutcomeInv, Received
<1>2. CASE Launch \/ LaunchFails
  <2>1. UNCHANGED <<published, delivered, outcome, result>>
    BY <1>2, Zenon DEF Launch, LaunchFails, clusterVars
  <2>2. RegisterGroup(turn)
    BY <1>2, Zenon DEF Launch, LaunchFails
  <2>3. ok' \in [Groups -> Nat] /\ \A g \in Groups : ok'[g] \in {0, ok[g]}
    BY <2>2, Zenon DEF RegisterGroup, OutcomeInv
  <2>4. \A g \in Groups : Received(g)' = Received(g)
    BY <2>1, Zenon DEF Received
  <2>5. \A g \in Groups : ok'[g] <= Cardinality(Received(g)')
    BY <2>3, <2>4, ReceivedFinite DEF OutcomeInv
  <2> QED BY <2>1, <2>3, <2>5, Zenon DEF OutcomeInv
<1>3. CASE CollectorEnds
  <2>1. UNCHANGED <<published, delivered, ok, result>>
    BY <1>3, Zenon DEF CollectorEnds, mainVars, clusterVars
  <2>2. outcome' = "success" => \A g \in Groups : ok[g] = Total(g)
    BY <1>3, Zenon DEF CollectorEnds
  <2> QED BY <2>1, <2>2, AllReceived, Zenon DEF OutcomeInv, Received
<1>4. CASE ReturnOutcome \/ Store
  <2>1. UNCHANGED <<published, delivered, ok>>
    BY <1>4, Zenon DEF ReturnOutcome, Store, clusterVars, outcomeVars
  <2>2. outcome' \in {outcome, "canceled"} /\ result' \in {result, outcome, "nil"}
    BY <1>4, Zenon DEF ReturnOutcome, Store
  <2> QED BY <2>1, <2>2, Zenon DEF OutcomeInv, Received
<1>5. ASSUME NEW i \in I, Publish(i) PROVE OutcomeInv'
  <2>1. UNCHANGED <<delivered, ok, outcome, result>> /\ published' = published \cup {i}
    BY <1>5, Zenon DEF Publish, mainVars, outcomeVars
  <2> QED BY <2>1, Zenon DEF OutcomeInv, Received
<1>6. ASSUME NEW i \in I, Receive(i) PROVE OutcomeInv'
  <2>1. /\ UNCHANGED <<published, outcome, result>> /\ i \in published /\ i \notin delivered
        /\ delivered' = delivered \cup {i} /\ ok' = [ok EXCEPT ![GroupOf[i]] = @ + 1]
    BY <1>6, Zenon DEF Receive, mainVars, clusterVars
  <2>2. GroupOf[i] \in Groups
    BY Zenon DEF Groups
  <2>3. Received(GroupOf[i])' = Received(GroupOf[i]) \cup {i} /\ i \notin Received(GroupOf[i])
    BY <2>1, Zenon DEF Received
  <2>4. Cardinality(Received(GroupOf[i])') = Cardinality(Received(GroupOf[i])) + 1
    BY <2>3, ReceivedFinite, FS_AddElement, Zenon
  <2>5. \A g \in Groups \ {GroupOf[i]} : Received(g)' = Received(g)
    BY <2>1, Zenon DEF Received
  <2>6. ok' \in [Groups -> Nat] /\ \A g \in Groups : ok'[g] <= Cardinality(Received(g)')
    BY <2>1, <2>2, <2>4, <2>5, ReceivedFinite DEF OutcomeInv
  <2> QED BY <2>1, <2>6, Zenon DEF OutcomeInv
<1> QED BY <1>1, <1>2, <1>3, <1>4, <1>5, <1>6, UncountedSteps, Zenon
           DEF K8sNext, K8sSteps, WatchSteps
-------------------------------------------------------------------------------
(* cluster:k8s: what the watcher saw, and what is deleted.                    *)

LEMMA IFinite == IsFiniteSet(I) /\ Cardinality(I) = Instances
BY PodsAssumption, FS_Interval DEF I

LEMMA EndedFinite ==
  \A p : IsFiniteSet(EndedAs(p)) /\ Cardinality(EndedAs(p)) \in Nat /\ Cardinality(EndedAs(p)) <= Instances
<1>1. \A p : EndedAs(p) \subseteq I
  BY Zenon DEF EndedAs
<1> QED BY <1>1, IFinite, FS_Subset, FS_CardinalityType, Zenon

\* Counters that add up to the number of instances, though read at different moments, count
\* different instances, so all have ended.
LEMMA AllEnded ==
  ASSUME WatchedInv, AllFinal PROVE \A i \in I : finished[i] # "none"
<1> DEFINE S == EndedAs("succeeded")
           F == EndedAs("failed")
<1>1. /\ IsFiniteSet(S) /\ Cardinality(S) \in Nat /\ Cardinality(S) <= Instances
      /\ IsFiniteSet(F) /\ Cardinality(F) \in Nat /\ Cardinality(F) <= Instances
  BY EndedFinite, Zenon
<1>2. S \cap F = {} /\ S \cup F \subseteq I
  BY Zenon DEF EndedAs
<1>3. Cardinality(S \cup F) = Cardinality(S) + Cardinality(F)
  <2>1. Cardinality(S \cup F) = Cardinality(S) + Cardinality(F) - Cardinality(S \cap F)
    BY <1>1, FS_Union, Zenon
  <2>2. Cardinality(S \cap F) = 0
    BY <1>2, FS_EmptySet, Zenon
  <2> QED BY <1>1, <2>1, <2>2
<1>4. seen.succeeded \in Int /\ seen.failed \in Int
  BY Zenon DEF WatchedInv
<1>5. Cardinality(S) + Cardinality(F) >= Instances
  BY <1>1, <1>4, PodsAssumption DEF WatchedInv, AllFinal
<1>6. Cardinality(S \cup F) <= Instances
  BY <1>2, IFinite, FS_Subset, Zenon
<1>7. S \cup F = I
  <2>1. Cardinality(S \cup F) = Cardinality(I)
    BY <1>1, <1>3, <1>5, <1>6, IFinite, PodsAssumption
  <2> QED BY <1>2, <2>1, IFinite, FS_Subset, Zenon
<1> QED BY <1>7, Zenon DEF EndedAs

PodsInv == WatchedInv /\ DeletedInv

LEMMA PodsStart == K8sInit => PodsInv
<1> SUFFICES ASSUME K8sInit PROVE PodsInv
  BY Zenon
<1>1. WatchedInv
  BY EndedFinite DEF K8sInit, WatchedInv, Unread
<1>2. DeletedInv
  BY PodsAssumption DEF K8sInit, DeletedInv, I
<1> QED BY <1>1, <1>2, Zenon DEF PodsInv

\* The steps that leave the pods and the watcher's counters.
LEMMA WatchKept ==
  ASSUME WatchedInv, UNCHANGED <<pod, finished, seen>>,
         \A i \in I : creator'[i] = creator[i] \/ (pod[i] = "absent" /\ creator[i] = "none"),
         watcher' \in {"await", "done"} => watcher \in {"await", "done"},
         stage' \in {"delete", "outcome", "returned"} /\ err' = "none" =>
           \/ stage \in {"delete", "outcome", "returned"} /\ err = "none"
           \/ watcher = "done"
  PROVE  WatchedInv'
BY Zenon DEF WatchedInv, EndedAs

LEMMA EndStep == ASSUME PodsInv, NEW i \in I, End(i) PROVE PodsInv'
<1> PICK phase \in {"succeeded", "failed"} :
      pod' = [pod EXCEPT ![i] = phase] /\ finished' = [finished EXCEPT ![i] = phase]
  BY Zenon DEF End
<1>1. UNCHANGED <<keep, ctx, refused, stage, turn, err, creator, watcher, seen>> /\ pod[i] = "active"
  BY Zenon DEF End, mainVars, watcherVars
<1>2. /\ pod' \in [I -> {"absent", "active", "succeeded", "failed", "deleted"}] /\ pod'[i] = phase
      /\ finished' \in [I -> {"none", "succeeded", "failed"}] /\ finished'[i] = phase
      /\ finished[i] = "none"
      /\ \A j \in I \ {i} : pod'[j] = pod[j] /\ finished'[j] = finished[j]
  BY <1>1, Zenon DEF PodsInv, WatchedInv
<1>3. \A p \in {"succeeded", "failed"} : EndedAs(p) \subseteq EndedAs(p)'
  BY <1>2, Zenon DEF EndedAs
<1>4. \A p \in {"succeeded", "failed"} :
        Cardinality(EndedAs(p)) <= Cardinality(EndedAs(p)') /\ Cardinality(EndedAs(p)) \in Nat /\ Cardinality(EndedAs(p)') \in Nat
  <2>1. \A p \in {"succeeded", "failed"} : EndedAs(p)' \subseteq I
    BY Zenon DEF EndedAs
  <2> QED BY <1>3, <2>1, IFinite, FS_Subset, FS_CardinalityType, EndedFinite, Zenon
<1>5. WatchedInv'
  <2>1. \A j \in I : finished[j] # "none" => finished'[j] # "none"
    BY <1>2, Zenon
  <2>2. \A j \in I : /\ pod'[j] \in {"absent", "active"} => finished'[j] = "none"
                     /\ pod'[j] \in {"succeeded", "failed"} => finished'[j] = pod'[j]
                     /\ pod'[j] # "absent" => creator[j] # "none"
                     /\ creator[j] = "running" => pod'[j] = "absent"
    BY <1>1, <1>2, Zenon DEF PodsInv, WatchedInv
  <2>3. seen.succeeded <= Cardinality(EndedAs("succeeded")') /\ seen.failed <= Cardinality(EndedAs("failed")')
    BY <1>4 DEF PodsInv, WatchedInv
  <2> QED BY <1>1, <1>2, <2>1, <2>2, <2>3, Zenon DEF PodsInv, WatchedInv
<1>6. DeletedInv'
  BY <1>1, <1>2 DEF PodsInv, DeletedInv, Swept
<1> QED BY <1>5, <1>6, Zenon DEF PodsInv

\* The pods are terminated or deleted, one or all of them; no pod comes back.
LEMMA SweepStep ==
  ASSUME PodsInv, Terminate \/ DeletePod PROVE PodsInv'
<1>1. UNCHANGED <<keep, ctx, stage, err, creator, watcher, seen, finished>>
  BY Zenon DEF Terminate, DeletePod, mainVars, watcherVars
<1>2. /\ pod' \in [I -> {"absent", "active", "succeeded", "failed", "deleted"}]
      /\ \A i \in I : pod'[i] = pod[i] \/ (pod'[i] = "deleted" /\ pod[i] # "absent")
  BY Zenon DEF Terminate, DeletePod, PodsInv, WatchedInv
<1>3. WatchedInv'
  BY <1>1, <1>2, Zenon DEF PodsInv, WatchedInv, EndedAs
<1>4. CASE Terminate
  <2>1. UNCHANGED <<turn, refused>>
    BY <1>4, Zenon DEF Terminate, mainVars
  <2> QED BY <1>1, <1>2, <1>3, <2>1, Zenon DEF PodsInv, DeletedInv, Swept
<1>5. CASE DeletePod
  <2>1. /\ stage = "delete" /\ turn \in I /\ turn' = turn - 1 /\ turn' \in 0 .. Instances /\ turn \in Nat
        /\ refused => refused'
        /\ \A i \in I : i > turn' => i > turn \/ i = turn
    BY <1>5, PodsAssumption DEF DeletePod, PodsInv, DeletedInv, I
  <2>2. Swept' => Swept /\ pod'[turn] \in {"absent", "deleted"}
    BY <1>1, <1>5, <2>1 DEF DeletePod, Swept, PodsInv, WatchedInv
  <2>3. DeletedInv'
    BY <1>1, <1>2, <2>1, <2>2, PodsAssumption DEF PodsInv, DeletedInv, I
  <2> QED BY <1>3, <2>3, Zenon DEF PodsInv
<1> QED BY <1>4, <1>5, Zenon

LEMMA CreateStep == ASSUME PodsInv, NEW i \in I, CreatePod(i) PROVE PodsInv'
<1>1. UNCHANGED <<keep, ctx, refused, stage, turn, err, watcher, seen, finished>> /\ creator[i] = "running" /\ pod[i] = "absent"
  BY Zenon DEF CreatePod, mainVars, watcherVars, PodsInv, WatchedInv
<1>2. /\ pod' \in [I -> {"absent", "active", "succeeded", "failed", "deleted"}]
      /\ creator' = [j \in I |-> creator'[j]]
      /\ pod'[i] \in {"absent", "active"} /\ creator'[i] \in {"done", "failed"}
      /\ \A j \in I \ {i} : pod'[j] = pod[j] /\ creator'[j] = creator[j]
  BY <1>1, Zenon DEF CreatePod, PodsInv, WatchedInv, DeletedInv
<1>3. WatchedInv'
  BY <1>1, <1>2 DEF PodsInv, WatchedInv, EndedAs
<1>4. DeletedInv'
  BY <1>1, <1>2, Zenon DEF PodsInv, DeletedInv, Swept
<1> QED BY <1>3, <1>4, Zenon DEF PodsInv

LEMMA ListStep == ASSUME PodsInv, NEW phase \in {"succeeded", "failed"}, ListPods(phase) PROVE PodsInv'
<1> DEFINE count == Cardinality({i \in I : pod[i] = phase})
<1>1. UNCHANGED <<keep, ctx, refused, stage, turn, err, watcher, creator, pod, finished>>
  BY Zenon DEF ListPods, mainVars, clusterVars
<1>2. PICK n \in {Failure, count} : seen' = [seen EXCEPT ![phase] = n]
  BY Zenon DEF ListPods
<1>3. count \in Nat /\ count <= Cardinality(EndedAs(phase))
  <2>1. {i \in I : pod[i] = phase} \subseteq EndedAs(phase)
    BY Zenon DEF EndedAs, PodsInv, WatchedInv
  <2> QED BY <2>1, EndedFinite, FS_Subset, FS_CardinalityType, Zenon
<1>4. n \in Int /\ n <= Cardinality(EndedAs(phase))
  BY <1>3, EndedFinite DEF Failure
<1>5. /\ seen' \in [succeeded : Int, failed : Int]
      /\ seen'.succeeded <= Cardinality(EndedAs("succeeded")) /\ seen'.failed <= Cardinality(EndedAs("failed"))
  BY <1>2, <1>4, Zenon DEF PodsInv, WatchedInv
<1>6. WatchedInv'
  BY <1>1, <1>5, Zenon DEF PodsInv, WatchedInv, EndedAs
<1> QED BY <1>1, <1>6, Zenon DEF PodsInv, DeletedInv, Swept

LEMMA CountedStep == ASSUME PodsInv, Counted PROVE PodsInv'
<1>1. UNCHANGED <<keep, ctx, refused, stage, turn, err, creator, pod, finished>>
  BY Zenon DEF Counted, mainVars, clusterVars
<1>2. seen' \in [succeeded : Int, failed : Int] /\ seen'.succeeded <= 0 /\ seen'.failed <= 0
  BY DEF Counted, Unread
<1>3. watcher' \in {"await", "done"} => \A i \in I : finished[i] # "none"
  BY AllEnded, Zenon DEF Counted, PodsInv
<1>4. \A p : EndedAs(p)' = EndedAs(p)
  BY <1>1, Zenon DEF EndedAs
<1>5. seen'.succeeded <= Cardinality(EndedAs("succeeded")') /\ seen'.failed <= Cardinality(EndedAs("failed")')
  BY <1>2, <1>4, EndedFinite
<1>6. WatchedInv'
  BY <1>1, <1>2, <1>3, <1>5, Zenon DEF PodsInv, WatchedInv
<1> QED BY <1>1, <1>6, Zenon DEF PodsInv, DeletedInv, Swept

LEMMA LaunchStep ==
  ASSUME PodsInv, Setup \/ Launch \/ LaunchFails \/ Launched PROVE PodsInv'
<1> USE DEF mainVars, clusterVars, watcherVars
<1>1. UNCHANGED <<keep, ctx, refused, pod, finished, seen>>
  BY Zenon DEF Setup, Launch, LaunchFails, Launched
<1>2. CASE Setup
  <2>1. UNCHANGED <<turn, creator>> /\ stage = "setup"
    BY <1>2, Zenon DEF Setup
  <2>2. \/ stage' = "launch" /\ watcher' = "subscribe" /\ err' = err
        \/ stage' = "outcome" /\ err' # "none" /\ watcher' = watcher
    BY <1>2, Zenon DEF Setup
  <2>3. WatchedInv'
    BY <1>1, <2>1, <2>2, WatchKept, Zenon DEF PodsInv
  <2>4. \A i \in I : creator[i] = "none" /\ pod[i] = "absent"
    BY <2>1, Zenon DEF PodsInv, DeletedInv, WatchedInv
  <2> QED BY <1>1, <2>1, <2>2, <2>3, <2>4 DEF PodsInv, DeletedInv
<1>3. CASE Launch
  <2>1. /\ UNCHANGED <<stage, watcher, err>> /\ stage = "launch" /\ turn' = turn + 1
        /\ turn \in I /\ turn \in Nat /\ turn <= Instances /\ turn' \in 1 .. Instances + 1
        /\ \A i \in I : i >= turn' => i >= turn /\ i # turn
    BY <1>3, PodsAssumption DEF Launch, PodsInv, DeletedInv, I
  <2>2. creator' = [i \in I |-> creator'[i]] /\ \A i \in I \ {turn} : creator'[i] = creator[i]
    BY <1>3, Zenon DEF Launch, PodsInv, DeletedInv
  <2>3. creator[turn] = "none" /\ pod[turn] = "absent"
    BY <2>1 DEF PodsInv, DeletedInv, WatchedInv
  <2>4. \A i \in I : creator'[i] = creator[i] \/ (pod[i] = "absent" /\ creator[i] = "none")
    BY <2>2, <2>3, Zenon
  <2>5. WatchedInv'
    BY <1>1, <1>3, <2>1, <2>4, WatchKept, Zenon DEF PodsInv
  <2>6. DeletedInv'
    BY <1>1, <2>1, <2>2 DEF PodsInv, DeletedInv
  <2> QED BY <2>5, <2>6, Zenon DEF PodsInv
<1>4. CASE LaunchFails \/ Launched
  <2>1. UNCHANGED <<creator, watcher>> /\ stage = "launch"
    BY <1>4, Zenon DEF LaunchFails, Launched
  <2>2. \/ stage' = "delete" /\ err' = "early" /\ turn' = turn - 1 /\ turn <= Instances
        \/ stage' = "wait" /\ UNCHANGED <<err, turn>>
    BY <1>4, Zenon DEF LaunchFails, Launched
  <2>3. WatchedInv'
    BY <1>1, <2>1, <2>2, WatchKept, Zenon DEF PodsInv
  <2>4. turn' \in 0 .. Instances + 1 /\ (stage' = "delete" => turn' <= Instances)
    BY <2>1, <2>2, PodsAssumption DEF PodsInv, DeletedInv
  <2> QED BY <1>1, <2>1, <2>2, <2>3, <2>4, Zenon DEF PodsInv, DeletedInv, Swept
<1> QED BY <1>2, <1>3, <1>4, Zenon

LEMMA ReturnStep ==
  ASSUME PodsInv, Wait \/ Deleted \/ ReturnOutcome PROVE PodsInv'
<1> USE DEF mainVars, clusterVars, watcherVars
<1>1. UNCHANGED <<keep, ctx, refused, creator, pod, finished, watcher, seen>>
  BY Zenon DEF Wait, Deleted, ReturnOutcome
<1>2. CASE Wait
  <2>1. /\ stage' = "delete" /\ turn' = Instances /\ watcher \in {"done", "failed"}
        /\ \A i \in I : creator[i] # "running"
        /\ err' = "none" => watcher = "done"
    BY <1>2, Zenon DEF Wait
  <2>2. WatchedInv'
    BY <1>1, <2>1, WatchKept, Zenon DEF PodsInv
  <2>3. turn' \in 0 .. Instances + 1 /\ turn' <= Instances /\ \A i \in I : ~(i > turn')
    BY <2>1, PodsAssumption DEF I
  <2> QED BY <1>1, <2>1, <2>2, <2>3, Zenon DEF PodsInv, DeletedInv
<1>3. CASE Deleted
  <2>1. UNCHANGED <<turn, err>> /\ stage = "delete" /\ turn = 0 /\ stage' = "outcome" /\ \A i \in I : i > turn
    BY <1>3 DEF Deleted, I
  <2>2. WatchedInv'
    BY <1>1, <2>1, WatchKept, Zenon DEF PodsInv
  <2> QED BY <1>1, <2>1, <2>2, Zenon DEF PodsInv, DeletedInv, Swept
<1>4. CASE ReturnOutcome
  <2>1. UNCHANGED <<turn, err>> /\ stage = "outcome" /\ stage' = "returned"
    BY <1>4, Zenon DEF ReturnOutcome
  <2>2. WatchedInv'
    BY <1>1, <2>1, WatchKept, Zenon DEF PodsInv
  <2> QED BY <1>1, <2>1, <2>2, Zenon DEF PodsInv, DeletedInv, Swept
<1> QED BY <1>2, <1>3, <1>4, Zenon

\* The steps that leave Run and its pods alone.
LEMMA AsideStep ==
  ASSUME PodsInv, UNCHANGED <<stage, turn, err, creator, pod, finished, seen, keep, refused>>,
         ctx' = "live" => ctx = "live",
         watcher' \in {"await", "done"} => watcher \in {"await", "done"}
  PROVE  PodsInv'
<1>1. WatchedInv'
  BY WatchKept, Zenon DEF PodsInv
<1> QED BY <1>1, Zenon DEF PodsInv, DeletedInv, Swept

LEMMA PodsStep == PodsInv /\ [K8sNext]_k8sVars => PodsInv'
<1> SUFFICES ASSUME PodsInv, [K8sNext]_k8sVars PROVE PodsInv'
  BY Zenon
<1>1. CASE TaskEnds \/ TimePasses \/ Store \/ CollectorEnds \/ UNCHANGED k8sVars
  BY <1>1, AsideStep, Zenon
     DEF TaskEnds, TimePasses, Store, CollectorEnds, k8sVars, mainVars, clusterVars, watcherVars
<1>2. CASE Subscribe \/ WatchEvents \/ Poll \/ AwaitOutcomes
  BY <1>2, AsideStep, Zenon DEF Subscribe, WatchEvents, Poll, AwaitOutcomes, mainVars, clusterVars
<1>3. ASSUME NEW i \in I, Publish(i) \/ Receive(i) PROVE PodsInv'
  BY <1>3, AsideStep, Zenon DEF Publish, Receive, mainVars, clusterVars, watcherVars
<1>4. CASE ListPods("succeeded") \/ ListPods("failed")
  BY <1>4, ListStep, Zenon
<1> QED BY <1>1, <1>2, <1>3, <1>4, LaunchStep, ReturnStep, SweepStep, CountedStep, EndStep,
           CreateStep
        DEF K8sNext, K8sSteps, WatchSteps
-------------------------------------------------------------------------------
\* No run of local:exec returns without an error, and none of cluster:k8s is stored as a
\* success, unless every instance reported its success (local_exec.go, pretty.go,
\* cluster_k8s.go).
THEOREM SuccessIsReported == ExecSpec /\ K8sSpec => []SuccessIsUnanimous
<1>1. ExecInv /\ OutcomeInv => SuccessIsUnanimous
  BY ExecUnanimous, Zenon DEF OutcomeInv, SuccessIsUnanimous
<1> QED BY <1>1, ExecStarts, ExecStep, OutcomeStarts, OutcomeStep, PTL DEF ExecSpec, K8sSpec

\* A run of cluster:k8s that returns without an error has seen every pod end, although the
\* phases are listed by separate calls (watchRunPods).
THEOREM PodsWatched == K8sSpec => []WatchedToTheEnd
<1>1. PodsInv => WatchedToTheEnd
  BY Zenon DEF PodsInv, WatchedInv, WatchedToTheEnd
<1> QED BY <1>1, PodsStart, PodsStep, PTL DEF K8sSpec

\* What a runner started is gone when Run returns: processes, pods and services, within
\* the exceptions CleanedUp names.
THEOREM RunnersCleanUp == ExecSpec /\ K8sSpec /\ SwarmSpec => []CleanedUp
<1>1. ExecInv /\ PodsInv /\ SwarmInv => CleanedUp
  BY Zenon DEF ExecInv, PodsInv, DeletedInv, Swept, SwarmInv, CleanedUp
<1>2. SwarmInit => SwarmInv
  BY DEF SwarmInit, SwarmInv, Attempts
<1> QED BY <1>1, <1>2, ExecStarts, ExecStep, PodsStart, PodsStep, SwarmStep, PTL
           DEF ExecSpec, K8sSpec, SwarmSpec
==============================================================================
