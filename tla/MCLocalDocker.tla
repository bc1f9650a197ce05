--------------------------- MODULE MCLocalDocker ---------------------------
(***************************************************************************)
(* The runner local:docker, for TLC.  A behaviour is one of LocalDockerRun *)
(* or LocalDockerShared or of an instance of one of them, chosen by the    *)
(* initial value of scenario:                                              *)
(*   together  a run of one group of two instances (the constants of the   *)
(*             configuration);                                             *)
(*   apart     a run of two groups of one instance;                        *)
(*   shared    three runs and a collection of outputs, two networks at     *)
(*             most;                                                       *)
(*   ends      two runs and a collection, three networks at most.          *)
(***************************************************************************)
EXTENDS LocalDockerRun, LocalDockerShared, TLC

VARIABLE scenario

mcVars == <<scenario, runVars, sharedVars>>
-----------------------------------------------------------------------------
Attached == [keep |-> FALSE, unstarted |-> FALSE, background |-> FALSE]
Unstarted == [keep |-> TRUE, unstarted |-> TRUE, background |-> FALSE]
Background == [keep |-> FALSE, unstarted |-> FALSE, background |-> TRUE]
MCConfigs == {Unstarted, Background}
MCGroupOf == "i1" :> "g1" @@ "i2" :> "g1"

Apart == INSTANCE LocalDockerRun WITH
    Groups <- {"g1", "g2"}, GroupOf <- "i1" :> "g1" @@ "i2" :> "g2",
    Configs <- {Attached, Unstarted}
Ends == INSTANCE LocalDockerShared WITH Runs <- {"r1", "r2"}, MaxNetworks <- 3

MCInit ==
    /\ scenario \in {"apart", "together", "shared", "ends"}
    /\ IF scenario = "together" THEN RunInit ELSE Apart!RunInit
    /\ scenario \in {"shared", "ends"} => cfg = Attached
    /\ IF scenario = "shared" THEN SharedInit ELSE Ends!SharedInit

MCNext ==
    \/ scenario = "apart" /\ Apart!RunNext /\ UNCHANGED <<scenario, sharedVars>>
    \/ scenario = "together" /\ RunNext /\ UNCHANGED <<scenario, sharedVars>>
    \/ scenario = "shared" /\ SharedNext /\ UNCHANGED <<scenario, runVars>>
    \/ scenario = "ends" /\ Ends!SharedNext /\ UNCHANGED <<scenario, runVars>>

\* The fairness of the modules, each in its scenario.
MCSpec ==
    /\ MCInit /\ [][MCNext]_mcVars
    /\ WF_runVars(scenario = "together" /\ Main)
    /\ WF_runVars(scenario = "together" /\ RunGroupDone)
    /\ WF_runVars(scenario = "together" /\ CollectorEnds)
    /\ \A i \in {"i1", "i2"} : WF_runVars(scenario = "together" /\ Goroutine(i))
    /\ \A r \in {"r1", "r2"} :
         /\ WF_sharedVars(scenario = "ends" /\ (Ends!RunStep(r) \/ Ends!FinishRun(r)))
         /\ SF_sharedVars(scenario = "ends" /\ Ends!LockHealthcheck(r))
         /\ SF_sharedVars(scenario = "ends" /\ Ends!LockSyncClient(r))
    /\ WF_sharedVars(scenario = "ends" /\ Ends!Collect("c1"))
-----------------------------------------------------------------------------
\* Run returns when its instances exit or its context ends; and every requested run and
\* every collection gets through the runner's lock and ends.
RunsEnd ==
    /\ scenario = "together" => RunReturns
    /\ scenario = "ends" => Ends!AllRunsEnd
=============================================================================
