------------------------------ MODULE MCBuilds ------------------------------
(***************************************************************************)
(* Builds and health checks, for TLC.  A behaviour is one of those of      *)
(* MCHealth, of GroupBuilds or DockerGoBuild, or of an instance of these,  *)
(* chosen by the initial value of scenario:                                *)
(*   limited    a composition's groups, at most two builds at a time (the  *)
(*              constants of the configuration);                           *)
(*   unlimited  the same groups without a limit;                           *)
(*   cached     two docker:go builds set up the proxy and update the       *)
(*              cache; calls fail and images are purged (the constants of  *)
(*              the configuration);                                        *)
(*   plain      the same without a cache.                                  *)
(* The groups: two equal up to the order of selectors, one with another    *)
(* version of a dependency, one with another builder and one with a        *)
(* builder that the engine does not have.  In MCBuilds_targets the first   *)
(* two differ in the module that replaces a dependency.                    *)
(***************************************************************************)
EXTENDS MCHealth, GroupBuilds, DockerGoBuild

mcVars == <<scenario, buildsVars, goVars, healthCheckVars>>
-----------------------------------------------------------------------------
Dep(m, v, t) == [module |-> m, version |-> v, target |-> t]
Group(b, s, d) == [builder |-> b, config |-> "c", selectors |-> s, dependencies |-> d]
GroupsWith(target) ==
    << Group("go", <<"x", "y">>, <<Dep("m", 1, "m")>>),
       Group("go", <<"y", "x">>, <<Dep("m", 1, target)>>),
       Group("go", <<"x", "y">>, <<Dep("m", 2, "m")>>),
       Group("exec", <<>>, <<>>),
       Group("other", <<>>, <<>>) >>
SameTarget == GroupsWith("m")
OtherTarget == GroupsWith("fork")
MCChoices == {<<>>, <<5>>, <<1, 3, 4>>, <<4, 1, 2, 3>>}

Unlimited == INSTANCE GroupBuilds WITH ConcurrentBuilds <- 0
Plain == INSTANCE DockerGoBuild WITH CacheEnabled <- FALSE, Purges <- FALSE

InGroups == scenario \in {"limited", "unlimited"}
InDocker == scenario \in {"cached", "plain"}

MCInit ==
    /\ scenario \in {"limited", "unlimited", "cached", "plain"} \union HealthScenarios
    /\ BuildsInit
    /\ ~InGroups => buildGroups = <<>>
    /\ IF scenario = "cached" THEN GoInit ELSE Plain!GoInit
    /\ ~InDocker => networks = 0 /\ ~volume /\ container = "absent"
    /\ MCHealthInit

MCNext ==
    /\ \/ scenario = "limited" /\ BuildsNext /\ UNCHANGED <<goVars, healthCheckVars>>
       \/ scenario = "unlimited" /\ Unlimited!BuildsNext /\ UNCHANGED <<goVars, healthCheckVars>>
       \/ scenario = "cached" /\ GoNext /\ UNCHANGED <<buildsVars, healthCheckVars>>
       \/ scenario = "plain" /\ Plain!GoNext /\ UNCHANGED <<buildsVars, healthCheckVars>>
       \/ MCHealthNext /\ UNCHANGED <<buildsVars, goVars>>
    /\ UNCHANGED scenario

\* The fairness of the two modules, each in its scenarios.
MCSpec ==
    /\ MCInit /\ [][MCNext]_mcVars
    /\ WF_buildsVars(scenario = "limited" /\ BuildsNext)
    /\ WF_buildsVars(scenario = "unlimited" /\ Unlimited!BuildsNext)
    /\ \A b \in Builds : WF_goVars(scenario = "cached" /\ (SetUpProxy(b) \/ BuildStep(b)))
-----------------------------------------------------------------------------
\* doRun returns, with a limit and without one, and so does every docker:go build: no
\* path leaves the builder locked (doBuild, Build).
AllBuildsEnd ==
    /\ scenario \in {"limited", "unlimited"} => BuildEnds
    /\ scenario = "cached" => BuildsEnd
=============================================================================
