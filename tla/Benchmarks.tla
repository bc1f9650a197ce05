----------------------------- MODULE Benchmarks -----------------------------
(***************************************************************************)
(* The test cases barrier and subtree of the plan benchmarks               *)
(* (plans/benchmarks/benchmarks.go).                                       *)
(*                                                                         *)
(* barrier: for a growing share of the instances, all meet at a ready      *)
(* barrier and then time a barrier that opens when that share has          *)
(* signalled.  subtree: the first instance publishes to every topic and    *)
(* the others then read them; the topics live as long as the publisher.    *)
(*                                                                         *)
(* benchCase is the test case.  step counts the barriers that an instance  *)
(* has passed, benchReady and benchTest the signals of each.  benchSeq is  *)
(* the number of an instance, taken what a receiver has read of the        *)
(* topics, and benchEnded the signals of those that have ended.            *)
(***************************************************************************)
EXTENDS Integers, FiniteSets

CONSTANTS
    BenchInstances,  \* the instances of the run
    GroupOf,         \* the group of each instance
    Rounds,          \* iterations times shares (barrier), topics times iterations (subtree)
    BenchFaults      \* a publication or a subscription may fail, or an item be unexpected

ASSUME BenchAssumption ==
    IsFiniteSet(BenchInstances) /\ Rounds \in Nat \ {0} /\ BenchFaults \in BOOLEAN

VARIABLES benchCase, benchPc, step, benchReady, benchTest, benchSeq, published, taken, handoff, benchEnded

barrierVars == <<step, benchReady, benchTest>>
subtreeVars == <<benchSeq, published, taken, handoff, benchEnded>>
benchVars == <<benchCase, benchPc, barrierVars, subtreeVars>>
-----------------------------------------------------------------------------
BenchN == Cardinality(BenchInstances)
GroupCount(i) == Cardinality({j \in BenchInstances : GroupOf[j] = GroupOf[i]})

\* The shares are 20, 40, 60, 80 and 100 percent; a share of none counts as one.
TestInstanceNum(r) == LET n == (BenchN * (((r - 1) % 5) + 1)) \div 5 IN IF n = 0 THEN 1 ELSE n

BenchInit ==
    /\ benchCase \in {"barrier", "subtree"}
    /\ benchPc = [i \in BenchInstances |-> "start"]
    /\ step = [i \in BenchInstances |-> 1]
    /\ benchReady = [r \in 1..Rounds |-> 0]
    /\ benchTest = [r \in 1..Rounds |-> 0]
    /\ benchSeq = [i \in BenchInstances |-> 0]
    /\ published = 0
    /\ taken = [i \in BenchInstances |-> 0]
    /\ handoff = FALSE
    /\ benchEnded = 0

BenchGoto(i, p) == benchPc' = [benchPc EXCEPT ![i] = p]
-----------------------------------------------------------------------------
(* BarrierBench *)

BarrierReady(i) ==
    /\ benchCase = "barrier" /\ benchPc[i] = "start"
    /\ benchReady' = [benchReady EXCEPT ![step[i]] = @ + 1]
    /\ BenchGoto(i, "ready")
    /\ UNCHANGED <<step, benchTest, subtreeVars>>

\* The time runs from here to the next step.
SignalTest(i) ==
    /\ benchPc[i] = "ready" /\ benchReady[step[i]] >= BenchN
    /\ benchTest' = [benchTest EXCEPT ![step[i]] = @ + 1]
    /\ BenchGoto(i, "timing")
    /\ UNCHANGED <<step, benchReady, subtreeVars>>

BarrierTimed(i) ==
    /\ benchPc[i] = "timing" /\ benchTest[step[i]] >= TestInstanceNum(step[i])
    /\ IF step[i] = Rounds THEN BenchGoto(i, "returned") /\ UNCHANGED step
                           ELSE BenchGoto(i, "start") /\ step' = [step EXCEPT ![i] = @ + 1]
    /\ UNCHANGED <<benchReady, benchTest, subtreeVars>>
-----------------------------------------------------------------------------
(* SubtreeBench *)

\* The number of an instance is the place of its message on the topic instances.
SubtreeEnroll(i) ==
    /\ benchCase = "subtree" /\ benchPc[i] = "start"
    /\ LET s == Cardinality({j \in BenchInstances : benchSeq[j] # 0}) + 1
       IN  /\ benchSeq' = [benchSeq EXCEPT ![i] = s]
           /\ BenchGoto(i, IF s = 1 THEN "publish" ELSE "receive")
    /\ UNCHANGED <<barrierVars, published, taken, handoff, benchEnded>>

PublishItem(i) ==
    /\ benchPc[i] = "publish" /\ published < Rounds
    /\ \/ published' = published + 1 /\ UNCHANGED benchPc
       \/ BenchFaults /\ BenchGoto(i, "failed") /\ UNCHANGED published
    /\ UNCHANGED <<barrierVars, benchSeq, taken, handoff, benchEnded>>

\* The publisher hands off, signals its own end and waits for the ends of its group.
HandOff(i) ==
    /\ benchPc[i] = "publish" /\ published = Rounds
    /\ \/ handoff' = TRUE /\ benchEnded' = benchEnded + 1 /\ BenchGoto(i, "keepalive")
       \/ BenchFaults /\ BenchGoto(i, "failed") /\ UNCHANGED <<handoff, benchEnded>>
    /\ UNCHANGED <<barrierVars, benchSeq, published, taken>>

KeepaliveTarget(i) == GroupCount(i)

PublisherReturns(i) ==
    /\ benchPc[i] = "keepalive" /\ benchEnded >= KeepaliveTarget(i)
    /\ BenchGoto(i, "returned")
    /\ UNCHANGED <<barrierVars, subtreeVars>>

\* A receiver starts after the handoff.  It gets an item as long as the publisher keeps
\* the topics alive.
TakeItem(i) ==
    /\ benchPc[i] = "receive" /\ handoff /\ taken[i] < published
    /\ \A j \in BenchInstances : benchSeq[j] = 1 => benchPc[j] # "returned"
    /\ taken' = [taken EXCEPT ![i] = @ + 1]
    /\ UNCHANGED <<benchPc, barrierVars, benchSeq, published, handoff, benchEnded>>

\* Mutant: the end is signalled after the last item, and not after an error.
ReceiverReturnsUndeferred(i) ==
    /\ benchPc[i] = "receive" /\ handoff
    /\ \/ taken[i] = Rounds /\ BenchGoto(i, "returned") /\ benchEnded' = benchEnded + 1
       \/ BenchFaults /\ taken[i] < Rounds /\ BenchGoto(i, "failed") /\ UNCHANGED benchEnded
    /\ UNCHANGED <<barrierVars, benchSeq, published, taken, handoff>>

\* The deferred signal of the end, after the last item or after an error.
ReceiverReturns(i) ==
    /\ benchPc[i] = "receive" /\ handoff
    /\ \/ taken[i] = Rounds /\ BenchGoto(i, "returned")
       \/ BenchFaults /\ taken[i] < Rounds /\ BenchGoto(i, "failed")
    /\ benchEnded' = benchEnded + 1
    /\ UNCHANGED <<barrierVars, benchSeq, published, taken, handoff>>

\* A receiver that waits for the handoff of a failed publisher goes on when its context
\* ends, cannot subscribe, and panics as it cannot signal either.
ReceiverPanics(i) ==
    /\ benchPc[i] = "receive" /\ ~handoff
    /\ \E j \in BenchInstances : benchSeq[j] = 1 /\ benchPc[j] = "failed"
    /\ BenchGoto(i, "failed")
    /\ UNCHANGED <<barrierVars, subtreeVars>>
-----------------------------------------------------------------------------
BenchStep(i) ==
    \/ BarrierReady(i) \/ SignalTest(i) \/ BarrierTimed(i)
    \/ SubtreeEnroll(i) \/ PublishItem(i) \/ HandOff(i) \/ PublisherReturns(i)
    \/ TakeItem(i) \/ ReceiverReturns(i) \/ ReceiverPanics(i)

BenchNext == UNCHANGED benchCase /\ \E i \in BenchInstances : BenchStep(i)

\* Instances run.  Behaviours are finite, so it is enough that some step is taken while
\* there is one.
BenchFairness == WF_benchVars(BenchNext)

BenchSpec == BenchInit /\ [][BenchNext]_benchVars /\ BenchFairness
-----------------------------------------------------------------------------
\* While an instance times a barrier, the others are at the same one or wait to begin
\* the next: signals of different rounds never mix (BarrierBench).
RoundsApart ==
    \A i, j \in BenchInstances :
        benchPc[i] = "timing" =>
            /\ step[j] \in {step[i], step[i] + 1}
            /\ step[j] = step[i] + 1 => benchPc[j] \in {"start", "ready"}

\* The publisher returns only when every receiver has read all items or has given up:
\* "wait for everyone to be done" (SubtreeBench).
PublisherLeavesLast ==
    \A i \in BenchInstances :
        benchSeq[i] = 1 /\ benchPc[i] = "returned" =>
            \A j \in BenchInstances \ {i} : benchPc[j] \in {"returned", "failed"}

BenchFinished == \A i \in BenchInstances : benchPc[i] \in IF BenchFaults THEN {"returned", "failed"} ELSE {"returned"}

\* Every instance ends, without an error if nothing fails (BarrierBench, SubtreeBench).
BenchmarkEnds == <>BenchFinished
=============================================================================
