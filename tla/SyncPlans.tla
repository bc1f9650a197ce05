------------------------------ MODULE SyncPlans ------------------------------
(***************************************************************************)
(* Two small plans that are all synchronization: the test case sync of the *)
(* plan example, in which a leader releases its followers                  *)
(* (plans/example/sync.go), and the plan verify, in which one instance     *)
(* publishes its addresses and another one pings them                      *)
(* (plans/verify/main.go).                                                 *)
(*                                                                         *)
(* syncCase is the plan, and isolated says whether the sidecars keep the   *)
(* control network from the instances.  syncSeq is the place of an         *)
(* instance's first signal and syncCounts has the signals of each state.   *)
(* nets are the networks on the topic addrs, read how many of them have    *)
(* been pinged, and failures those for which a failure has been recorded.  *)
(***************************************************************************)
EXTENDS Integers, Sequences, FiniteSets

CONSTANTS
    SyncInstances,  \* the instances of the run
    SyncFaults      \* the target may fail to find its addresses

ASSUME SyncAssumption == IsFiniteSet(SyncInstances) /\ SyncFaults \in BOOLEAN

VARIABLES syncCase, isolated, syncPc, syncSeq, syncCounts, nets, read, failures

syncVars == <<syncCase, isolated, syncPc, syncSeq, syncCounts, nets, read, failures>>
-----------------------------------------------------------------------------
SyncN == Cardinality(SyncInstances)
States == {"enrolled", "ready", "released", "target_ready", "finished"}

\* The addresses of eth0 and eth1, and the mark that ends them.
Networks == <<"control", "data">>
endOfNetworks == "endOfNetworks"

SyncInit ==
    /\ syncCase \in {"sync", "verify"} /\ isolated \in BOOLEAN
    /\ syncPc = [i \in SyncInstances |-> "start"]
    /\ syncSeq = [i \in SyncInstances |-> 0]
    /\ syncCounts = [s \in States |-> 0]
    /\ nets = <<>>
    /\ read = 0
    /\ failures = {}

SyncGoto(i, p) == syncPc' = [syncPc EXCEPT ![i] = p]
SyncSignal(s) == syncCounts' = [syncCounts EXCEPT ![s] = @ + 1]
Number(i, s) == syncSeq' = [syncSeq EXCEPT ![i] = syncCounts[s] + 1]
Reached(s, n) == syncCounts[s] >= n
-----------------------------------------------------------------------------
(* ExampleSync *)

SyncEnroll(i) ==
    /\ syncCase = "sync" /\ syncPc[i] = "start"
    /\ SyncSignal("enrolled") /\ Number(i, "enrolled")
    /\ SyncGoto(i, IF syncCounts["enrolled"] = 0 THEN "leader" ELSE "follower")
    /\ UNCHANGED <<nets, read, failures>>

\* The leader waits for its followers and releases them.
ReleaseFollowers(i) ==
    /\ syncPc[i] = "leader" /\ Reached("ready", SyncN - 1)
    /\ SyncSignal("released") /\ SyncGoto(i, "returned")
    /\ UNCHANGED <<syncSeq, nets, read, failures>>

FollowerReady(i) ==
    /\ syncPc[i] = "follower"
    /\ SyncSignal("ready") /\ SyncGoto(i, "held")
    /\ UNCHANGED <<syncSeq, nets, read, failures>>

FollowerReleased(i) ==
    /\ syncPc[i] = "held" /\ Reached("released", 1)
    /\ SyncGoto(i, "returned")
    /\ UNCHANGED <<syncSeq, syncCounts, nets, read, failures>>
-----------------------------------------------------------------------------
(* UsesDataNetwork *)

VerifyReady(i) ==
    /\ syncCase = "verify" /\ syncPc[i] = "start"
    /\ SyncSignal("ready") /\ Number(i, "ready") /\ SyncGoto(i, "ready")
    /\ UNCHANGED <<nets, read, failures>>

Finish(i) == SyncSignal("finished") /\ SyncGoto(i, "finished")

\* The first instance is the target and the second pings it; others only wait.
ChooseMode(i) ==
    /\ syncPc[i] = "ready" /\ Reached("ready", SyncN)
    /\ IF syncSeq[i] <= 2 THEN SyncGoto(i, <<"target", "ping">>[syncSeq[i]]) /\ UNCHANGED syncCounts
                      ELSE Finish(i)
    /\ UNCHANGED <<syncSeq, nets, read, failures>>

PublishNetwork(i) ==
    /\ syncPc[i] = "target"
    /\ IF Len(nets) < Len(Networks)
       THEN nets' = Append(nets, Networks[Len(nets) + 1]) /\ UNCHANGED <<syncPc, syncCounts>>
       ELSE nets' = Append(nets, endOfNetworks) /\ SyncSignal("target_ready") /\ SyncGoto(i, "published")
    /\ UNCHANGED <<syncSeq, read, failures>>

\* An interface or its addresses are not found: the target returns the error.
TargetFails(i) ==
    /\ SyncFaults /\ syncPc[i] = "target" /\ Len(nets) < Len(Networks)
    /\ SyncGoto(i, "failed")
    /\ UNCHANGED <<syncSeq, syncCounts, nets, read, failures>>

\* The context of 300 seconds ends for those that wait for an instance that has failed, and
\* the next call panics.
VerifyTimesOut(i) ==
    /\ \E j \in SyncInstances : syncPc[j] = "failed"
    /\ \/ syncPc[i] = "ping" /\ ~Reached("target_ready", 1)
       \/ syncPc[i] = "finished" /\ ~Reached("finished", SyncN)
    /\ SyncGoto(i, "failed")
    /\ UNCHANGED <<syncSeq, syncCounts, nets, read, failures>>

\* A target that has published goes to the last barrier.
TargetFinishes(i) ==
    /\ syncPc[i] = "published"
    /\ Finish(i)
    /\ UNCHANGED <<syncSeq, nets, read, failures>>

\* The data network answers while the target is there, the control network only if it
\* is not kept from the instances.
Answers(net) == (\E j \in SyncInstances : syncSeq[j] = 1 /\ syncPc[j] \notin {"returned", "failed"}) /\ (net = "data" \/ ~isolated)

\* The next network of the topic is pinged, up to the mark; an answer of the control
\* network and no answer of another one are failures.
PingNetwork(i) ==
    /\ syncPc[i] = "ping" /\ Reached("target_ready", 1) /\ read < Len(nets)
    /\ read' = read + 1
    /\ IF nets[read'] = endOfNetworks
       THEN Finish(i) /\ UNCHANGED failures
       ELSE /\ failures' = IF Answers(nets[read']) = (nets[read'] = "control")
                           THEN failures \union {nets[read']} ELSE failures
            /\ UNCHANGED <<syncPc, syncCounts>>
    /\ UNCHANGED <<syncSeq, nets>>

AllFinished(i) ==
    /\ syncPc[i] = "finished" /\ Reached("finished", SyncN)
    /\ SyncGoto(i, "returned")
    /\ UNCHANGED <<syncSeq, syncCounts, nets, read, failures>>
-----------------------------------------------------------------------------
SyncStep(i) ==
    \/ SyncEnroll(i) \/ ReleaseFollowers(i) \/ FollowerReady(i) \/ FollowerReleased(i)
    \/ VerifyReady(i) \/ ChooseMode(i) \/ PublishNetwork(i) \/ TargetFails(i) \/ TargetFinishes(i)
    \/ PingNetwork(i) \/ AllFinished(i) \/ VerifyTimesOut(i)

SyncNext == UNCHANGED <<syncCase, isolated>> /\ \E i \in SyncInstances : SyncStep(i)

\* Instances run.  Behaviours are finite, so it is enough that some step is taken while
\* there is one.
SyncFairness == WF_syncVars(SyncNext)

SyncSpec == SyncInit /\ [][SyncNext]_syncVars /\ SyncFairness
-----------------------------------------------------------------------------
\* No follower is released before every other follower is ready, whichever instance
\* became the leader (ExampleSync).
ReleasedTogether ==
    syncCase = "sync" =>
        \A i, j \in SyncInstances : syncPc[i] = "returned" => syncPc[j] \in {"held", "returned"}

\* An instance of the plan verify returns only when the control network was judged: a
\* failure is recorded exactly if it can be reached, and the data network is never
\* found unreachable because the target left too early, or failed (UsesDataNetwork).
JudgesNetworks ==
    syncCase = "verify" /\ SyncN >= 2 =>
        \A i \in SyncInstances : syncPc[i] = "returned" => failures = IF isolated THEN {} ELSE {"control"}

SyncFinished ==
    \/ \A i \in SyncInstances : syncPc[i] = "returned"
    \/ SyncFaults /\ \A i \in SyncInstances : syncPc[i] = "failed"

\* Every instance returns; if the target fails, none does (ExampleSync, UsesDataNetwork).
SyncPlanEnds == <>SyncFinished
=============================================================================
