----------------------------- MODULE SplitBrain -----------------------------
(***************************************************************************)
(* The plan splitbrain: instances number themselves into three regions,    *)
(* those of region A let their sidecars filter region B, and then every    *)
(* instance tries to reach every other over HTTP                           *)
(* (plans/splitbrain/main.go).                                             *)
(*                                                                         *)
(* splitCase is the test case.  nodes are the instances that have          *)
(* published their region and address, up those whose server runs, rules   *)
(* the instances that the link of an instance filters, reached the pairs   *)
(* of a client and a server between which a request succeeded.  spent is   *)
(* the time in seconds since an instance met all the others.               *)
(***************************************************************************)
EXTENDS Integers, FiniteSets

CONSTANTS
    SplitInstances,  \* the instances of the run
    RequestTimeout,  \* the timeout of a request, which a dropped one takes
    Deadline,        \* the timeout of the test case
    ServersLate      \* a server may come up late, or not at all

ASSUME SplitAssumption ==
    IsFiniteSet(SplitInstances) /\ RequestTimeout \in Nat /\ Deadline \in Nat /\ ServersLate \in BOOLEAN

VARIABLES splitCase, splitPc, splitSeq, nodes, up, splitPending, rules, roundup, todo, reached, unexpected, spent, complete

splitVars == <<splitCase, splitPc, splitSeq, nodes, up, splitPending, rules, roundup, todo, reached, unexpected, spent, complete>>
-----------------------------------------------------------------------------
SplitN == Cardinality(SplitInstances)
Region(i) == <<"A", "B", "C">>[(splitSeq[i] % 3) + 1]
Regions(i, j) == {Region(i), Region(j)}

expectErrors(i, j) == splitCase # "accept" /\ Regions(i, j) = {"A", "B"}

\* A filter on either side stops a request or its answer.
Filtered(i, j) == splitCase # "accept" /\ (j \in rules[i] \/ i \in rules[j])

SplitInit ==
    /\ splitCase \in {"drop", "reject", "accept"}
    /\ splitPc = [i \in SplitInstances |-> "start"]
    /\ splitSeq = [i \in SplitInstances |-> 0]
    /\ nodes = {} /\ up = {} /\ splitPending = {}
    /\ rules = [i \in SplitInstances |-> {}]
    /\ roundup = 0 /\ complete = 0
    /\ todo = [i \in SplitInstances |-> {}]
    /\ reached = {} /\ unexpected = {}
    /\ spent = [i \in SplitInstances |-> 0]

SplitGoto(i, p) == splitPc' = [splitPc EXCEPT ![i] = p]

\* The server is started in a goroutine; the order of the signals makes the regions.
SelectRegion(i) ==
    /\ splitPc[i] = "start"
    /\ splitSeq' = [splitSeq EXCEPT ![i] = Cardinality({j \in SplitInstances : splitSeq[j] # 0}) + 1]
    /\ nodes' = nodes \union {i}
    /\ SplitGoto(i, "finding")
    /\ UNCHANGED <<up, splitPending, rules, roundup, todo, reached, unexpected, spent, complete>>

ServerUp(i) ==
    /\ splitPc[i] \notin {"start", "returned", "failed"} /\ i \notin up
    /\ up' = up \union {i}
    /\ UNCHANGED <<splitPc, splitSeq, nodes, splitPending, rules, roundup, todo, reached, unexpected, spent, complete>>

SignalRoundup(i) == roundup' = roundup + 1 /\ SplitGoto(i, "roundup")

\* Mutant: an instance signals without waiting for its sidecar.
FoundAllUnconfigured(i) ==
    /\ splitPc[i] = "finding" /\ nodes = SplitInstances
    /\ todo' = [todo EXCEPT ![i] = nodes \ {i}]
    /\ splitPending' = IF Region(i) = "A" THEN splitPending \union {i} ELSE splitPending
    /\ SignalRoundup(i)
    /\ UNCHANGED <<splitSeq, nodes, up, rules, reached, unexpected, spent, complete>>

\* All addresses have been received.  An instance of region A waits for its sidecar to
\* apply the filter before it signals.
FoundAll(i) ==
    /\ splitPc[i] = "finding" /\ nodes = SplitInstances
    /\ todo' = [todo EXCEPT ![i] = nodes \ {i}]
    /\ IF Region(i) = "A" THEN splitPending' = splitPending \union {i} /\ SplitGoto(i, "configuring") /\ UNCHANGED roundup
                          ELSE SignalRoundup(i) /\ UNCHANGED splitPending
    /\ UNCHANGED <<splitSeq, nodes, up, rules, reached, unexpected, spent, complete>>

SplitConfigures(i) ==
    /\ i \in splitPending
    /\ splitPending' = splitPending \ {i}
    /\ rules' = [rules EXCEPT ![i] = {j \in SplitInstances \ {i} : Region(j) = "B"}]
    /\ UNCHANGED <<splitPc, splitSeq, nodes, up, roundup, todo, reached, unexpected, spent, complete>>

Configured(i) ==
    /\ splitPc[i] = "configuring" /\ i \notin splitPending
    /\ SignalRoundup(i)
    /\ UNCHANGED <<splitSeq, nodes, up, splitPending, rules, todo, reached, unexpected, spent, complete>>

\* Ten seconds are enough for all servers to come up, unless one is late; nobody looks at
\* the error of ListenAndServe.
Sleep(i) ==
    /\ splitPc[i] = "roundup" /\ roundup >= SplitN
    /\ ServersLate \/ \A j \in SplitInstances : j \in up \/ splitPc[j] = "failed"
    /\ spent' = [spent EXCEPT ![i] = 10]
    /\ SplitGoto(i, "contacting")
    /\ UNCHANGED <<splitSeq, nodes, up, splitPending, rules, roundup, todo, reached, unexpected, complete>>

\* How long a request may take to fail: a dropped one takes its whole timeout, one that
\* the own link rejects fails at once.
FailsAfter(i, j) ==
    IF splitCase = "drop" /\ Filtered(i, j) THEN {RequestTimeout}
    ELSE IF splitCase = "reject" /\ j \in rules[i] THEN {0}
    ELSE {0, RequestTimeout}

Contact(i) ==
    /\ splitPc[i] = "contacting"
    /\ \E j \in todo[i] :
           /\ todo' = [todo EXCEPT ![i] = @ \ {j}]
           /\ IF Filtered(i, j) \/ j \notin up
              THEN /\ unexpected' = IF expectErrors(i, j) THEN unexpected ELSE unexpected \union {i}
                   /\ \E t \in FailsAfter(i, j) : spent' = [spent EXCEPT ![i] = @ + t]
                   /\ UNCHANGED reached
              ELSE /\ reached' = reached \union {<<i, j>>}
                   /\ UNCHANGED <<unexpected, spent>>
    /\ UNCHANGED <<splitPc, splitSeq, nodes, up, splitPending, rules, roundup, complete>>

\* The last signal panics if the deadline has passed, and the server ends with it.
Complete(i) ==
    /\ splitPc[i] = "contacting" /\ todo[i] = {}
    /\ IF spent[i] < Deadline THEN complete' = complete + 1 /\ SplitGoto(i, "complete") /\ UNCHANGED up
                              ELSE up' = up \ {i} /\ SplitGoto(i, "failed") /\ UNCHANGED complete
    /\ UNCHANGED <<splitSeq, nodes, splitPending, rules, roundup, todo, reached, unexpected, spent>>

\* An instance keeps its server up until all have completed.
SplitReturn(i) ==
    /\ splitPc[i] = "complete" /\ complete >= SplitN
    /\ SplitGoto(i, IF i \in unexpected THEN "failed" ELSE "returned")
    /\ up' = up \ {i}
    /\ UNCHANGED <<splitSeq, nodes, splitPending, rules, roundup, todo, reached, unexpected, spent, complete>>

\* So does the wait for the others, when one of them has not signalled.
CompleteTimesOut(i) ==
    /\ splitPc[i] = "complete" /\ complete < SplitN
    /\ \E j \in SplitInstances : splitPc[j] = "failed"
    /\ up' = up \ {i} /\ SplitGoto(i, "failed")
    /\ UNCHANGED <<splitSeq, nodes, splitPending, rules, roundup, todo, reached, unexpected, spent, complete>>

SplitStep(i) ==
    \/ SelectRegion(i) \/ FoundAll(i) \/ Configured(i) \/ Sleep(i) \/ Contact(i) \/ Complete(i)
    \/ SplitReturn(i) \/ CompleteTimesOut(i)

SplitNext ==
    /\ UNCHANGED splitCase
    /\ \E i \in SplitInstances : SplitStep(i) \/ ServerUp(i) \/ SplitConfigures(i)

\* Instances run, servers come up, and a sidecar serves what is published for it.
\* Behaviours are finite, so it is enough that some step is taken while there is one.
SplitFairness == WF_splitVars(SplitNext)

SplitSpec == SplitInit /\ [][SplitNext]_splitVars /\ SplitFairness
-----------------------------------------------------------------------------
\* The network is split as the plan describes it: an instance that is done has reached
\* exactly the others that its region may reach, whatever the order of the steps, and so
\* A never reaches B nor B A, and C reaches all.  An instance that missed another one,
\* which ran out of time and was gone or whose server was late, does not return without
\* an error (routeFilter).
NetworkSplit ==
    \A i \in SplitInstances :
        splitPc[i] \in {"complete", "returned"} =>
            \A j \in SplitInstances \ {i} :
                /\ <<i, j>> \in reached => ~expectErrors(i, j)
                /\ ~expectErrors(i, j) =>
                       \/ <<i, j>> \in reached
                       \/ splitPc[i] # "returned" /\ i \in unexpected /\ (ServersLate \/ splitPc[j] = "failed")

SplitFinished ==
    ~ServersLate /\ 10 + RequestTimeout * ((SplitN + 2) \div 3) < Deadline
        => \A i \in SplitInstances : splitPc[i] = "returned"

\* If the requests that are dropped fit into the deadline and the servers come up in time,
\* every instance returns without an error (routeFilter).
SplitBrainEnds == <>SplitFinished
=============================================================================
