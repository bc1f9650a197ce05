----------------------------- MODULE MCSidecars -----------------------------
(***************************************************************************)
(* The sidecar, and the plans that run with it, for TLC.  A behaviour is   *)
(* one of Reactor or Sidecar, of an instance of one of them, or one of     *)
(* MCPlans, chosen by the initial value of scenario:                       *)
(*   sidecar  two instances of local:docker or of cluster:k8s that ask for *)
(*            two configurations each, calls may fail (the constants of    *)
(*            the configuration);                                          *)
(*   served   the same with local:docker, no call fails;                   *)
(*   reactor  three containers of two runs, calls fail, services move (the *)
(*            constants of the configuration);                             *)
(*   pods     two pods of a run and one without a sidecar, likewise;       *)
(*   plans    a plan of MCPlans.                                           *)
(* The configurations connect with an address and allow external traffic,  *)
(* connect without an address, and disconnect.                             *)
(***************************************************************************)
EXTENDS MCPlans, Reactor, Sidecar

VARIABLE scenario

reactorVars == vars
mcVars == <<scenario, plan, planVars, sidecarVars, reactorVars>>
-----------------------------------------------------------------------------
Allowed == [enable |-> TRUE, ip |-> "a", policy |-> "allow"]
Connected == [enable |-> TRUE, ip |-> "none", policy |-> "deny"]
Disconnected == [enable |-> FALSE, ip |-> "none", policy |-> "deny"]
MCConfigs == {Allowed, Connected, Disconnected}
MCRunOf == [c \in Three |-> IF c = "p1" THEN "r1" ELSE "r2"]

Served == INSTANCE Sidecar WITH Configs <- {Allowed, Disconnected}, CallsFail <- FALSE
Pods == INSTANCE Reactor WITH
    Plain <- {"p3"}, Kind <- "k8s", CacheSize <- 1, MaxMoves <- 1

MCInit ==
    /\ scenario \in {"sidecar", "served", "reactor", "pods", "plans"}
    /\ plan \in IF scenario = "plans"
                THEN {"pingfail", "pingpong", "stormfail", "storm", "benchfail", "bench", "late", "split", "sync"}
                ELSE {"none"}
    /\ PlansInit
    /\ SidecarInit /\ (scenario # "sidecar" => kind = "docker")
    /\ Init /\ (scenario # "reactor" => resolved = 0)

MCNext ==
    /\ \/ scenario = "sidecar" /\ SidecarNext /\ UNCHANGED <<reactorVars, planVars>>
       \/ scenario = "served" /\ Served!SidecarNext /\ UNCHANGED <<reactorVars, planVars>>
       \/ scenario = "reactor" /\ Next /\ UNCHANGED <<sidecarVars, planVars>>
       \/ scenario = "pods" /\ Pods!Next /\ UNCHANGED <<sidecarVars, planVars>>
       \/ scenario = "plans" /\ PlansNext /\ UNCHANGED <<sidecarVars, reactorVars>>
    /\ UNCHANGED <<scenario, plan>>

\* The fairness of the modules whose end is claimed, each in its scenario.
MCSpec ==
    /\ MCInit /\ [][MCNext]_mcVars
    /\ WF_planVars(scenario = "plans" /\ PlansNext)
    /\ \A x \in Instances : WF_sidecarVars(scenario = "served" /\ UNCHANGED kind /\ Served!Handle(x))
    /\ WF_reactorVars(scenario = "reactor" /\ \E c \in Containers : WorkerStep(c))
-----------------------------------------------------------------------------
\* A plan ends; the sidecar serves what was published, unless the instance ended (handler);
\* and the worker of every container that came is over in the end.
WorkEnds ==
    []<>CASE scenario = "plans" -> PlanOver
          [] scenario = "served" -> \A x \in Instances : Len(signalled[x]) = Len(topic[x]) \/ ended[x]
          [] scenario = "reactor" -> AllOver
          [] OTHER -> TRUE
=============================================================================
