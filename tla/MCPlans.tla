------------------------------ MODULE MCPlans ------------------------------
(***************************************************************************)
(* The test plans that synchronize, for TLC (MCSidecars has the            *)
(* specification).  A behaviour is one of PingPong, Storm, Benchmarks,     *)
(* SplitBrain or SyncPlans, with the constants of the configuration, or of *)
(* an instance of one of them, chosen by the initial value of plan:        *)
(*   pingfail, pingpong   two instances, with and without failures;        *)
(*   stormfail, storm     two instances with two connections each, one     *)
(*                        dial or write at a time, two chunks to write,    *)
(*                        likewise;                                        *)
(*   benchfail, bench     three instances, of BarrierBench with the five   *)
(*                        shares or of SubtreeBench, likewise;             *)
(*   split, late          three instances, one of each region, with the    *)
(*                        deadline of the plan and servers that are in     *)
(*                        time, and with a deadline that is too short for  *)
(*                        a dropped request and servers that may be late;  *)
(*   sync                 four instances of ExampleSync or of              *)
(*                        UsesDataNetwork, whose target may fail;          *)
(*   none                 no plan.                                         *)
(***************************************************************************)
EXTENDS PingPong, SplitBrain, Plans

VARIABLE plan

planVars == <<pingVars, stormVars, benchVars, splitVars, syncVars>>
-----------------------------------------------------------------------------
Three == {"p1", "p2", "p3"}
MCOneGroup == [p \in Three |-> "g"]
MCTwoGroups == [p \in Three |-> IF p = "p1" THEN "h" ELSE "g"]

Ping == INSTANCE PingPong WITH PingFaults <- FALSE
Storming == INSTANCE Storm WITH StormFaults <- FALSE
Bench == INSTANCE Benchmarks WITH BenchFaults <- FALSE
Split == INSTANCE SplitBrain WITH Deadline <- 300, ServersLate <- FALSE

PlansInit ==
    /\ PingInit /\ StormInit /\ BenchInit /\ SplitInit /\ SyncInit
    /\ plan \notin {"bench", "benchfail"} => benchCase = "barrier"
    /\ plan \notin {"split", "late"} => splitCase = "drop"
    /\ plan # "sync" => syncCase = "sync"
    /\ syncCase = "sync" => isolated

PlansNext ==
    \/ /\ \/ plan = "pingfail" /\ PingNext
          \/ plan = "pingpong" /\ Ping!PingNext
       /\ UNCHANGED <<stormVars, benchVars, splitVars, syncVars>>
    \/ /\ \/ plan = "stormfail" /\ StormNext
          \/ plan = "storm" /\ Storming!StormNext
       /\ UNCHANGED <<pingVars, benchVars, splitVars, syncVars>>
    \/ /\ \/ plan = "benchfail" /\ BenchNext
          \/ plan = "bench" /\ Bench!BenchNext
       /\ UNCHANGED <<pingVars, stormVars, splitVars, syncVars>>
    \/ /\ \/ plan = "late" /\ SplitNext
          \/ plan = "split" /\ Split!SplitNext
       /\ UNCHANGED <<pingVars, stormVars, benchVars, syncVars>>
    \/ /\ plan = "sync" /\ SyncNext
       /\ UNCHANGED <<pingVars, stormVars, benchVars, splitVars>>
-----------------------------------------------------------------------------
\* "wait for everyone to be done": the publisher returns after all receivers, however the
\* instances are grouped (SubtreeBench).
EveryoneDone == PublisherLeavesLast

\* The plan is over, without an error if nothing fails.  The instances of pingfail may wait
\* for a peer that is gone (Accept).
PlanOver ==
    CASE plan = "pingpong" -> Ping!PingFinished
      [] plan = "storm" -> Storming!StormFinished
      [] plan = "stormfail" -> StormFinished
      [] plan = "bench" -> Bench!BenchFinished
      [] plan = "benchfail" -> BenchFinished
      [] plan = "split" -> Split!SplitFinished
      [] plan = "late" -> \A i \in SplitInstances : splitPc[i] \in {"returned", "failed"}
      [] plan = "sync" -> SyncFinished
      [] OTHER -> TRUE
=============================================================================
