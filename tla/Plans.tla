------------------------------- MODULE Plans -------------------------------
(***************************************************************************)
(* The test plans that do nothing but synchronize, side by side, and what  *)
(* their barriers owe them.                                                *)
(***************************************************************************)
EXTENDS Storm, Benchmarks, SyncPlans

OneGroup == \A i, j \in BenchInstances : GroupOf[i] = GroupOf[j]

\* A barrier lets nobody pass before all that it counts: no byte is written before every
\* dial has succeeded and no listener closes before all are done (Storm), the rounds of
\* BarrierBench never mix, followers are released together (ExampleSync), and in a run of
\* one group the publisher returns after all receivers (SubtreeBench).  Nor does it keep
\* anyone from judging all that was published: a control network that can be reached is a
\* failure, a data network is none (UsesDataNetwork).
BarriersHold ==
    /\ WritesAfterDials /\ ListensToTheEnd
    /\ RoundsApart
    /\ ReleasedTogether
    /\ OneGroup => PublisherLeavesLast
    /\ JudgesNetworks
=============================================================================
