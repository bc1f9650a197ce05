------------------------------ MODULE MCHealth ------------------------------
(***************************************************************************)
(* Health checks, for TLC (MCBuilds has the specification).  A behaviour   *)
(* is one of HealthChecks or Checkers, chosen by the initial value of      *)
(* scenario:                                                               *)
(*   health    the checks of one of the runners;                           *)
(*   checkers  the combinators.                                            *)
(***************************************************************************)
EXTENDS HealthChecks

VARIABLES
    scenario

healthCheckVars == <<healthVars, combineVars>>
HealthScenarios == {"health", "checkers"}

MCHealthInit ==
    /\ HealthInit
    /\ scenario # "health" => runner = "local_exec" /\ ~fix /\ \A r \in Resources : world[r] = "up"
    /\ CombineInit
    /\ scenario # "checkers" => kind = "Not" /\ given = <<"ok">>

MCHealthNext ==
    \/ scenario = "health" /\ HealthNext /\ UNCHANGED combineVars
    \/ scenario = "checkers" /\ CombineNext /\ UNCHANGED healthVars
=============================================================================
