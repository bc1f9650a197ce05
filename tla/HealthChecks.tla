--------------------------- MODULE HealthChecks ---------------------------
(***************************************************************************)
(* Helper.RunChecks on the checks that a runner enlists, and what doRun    *)
(* makes of the report.  A check looks at a resource of the environment    *)
(* (a directory, the control network, a container, a set of pods), and a   *)
(* fixer sets it up; a container needs the network it joins.  Checkers has  *)
(* the combinators that checks and fixers are made with.                   *)
(*                                                                         *)
(* The environment is external: a resource is up, down, or in a state in   *)
(* which looking at it fails, and it may fail at any time.                 *)
(***************************************************************************)
EXTENDS Checkers

CONSTANTS MaxFaults     \* bound: resources that fail while the checks run

VARIABLES
  runner,     \* local:docker, local:exec or cluster:k8s, which enlists the checks
  world,      \* each resource: up, down or error
  fix,        \* whether fixes are requested
  pos,        \* the item that is looked at
  fixing,     \* whether its fixer runs
  checks,     \* the statuses in report.Checks
  fixes,      \* the statuses in report.Fixes
  faults,     \* the faults that happened
  refused,    \* whether a fixer failed for a reason of its own
  decision    \* what doRun did with the report: none, abort, warn or ok

healthVars == <<runner, world, fix, pos, fixing, checks, fixes, faults, refused, decision>>

-----------------------------------------------------------------------------
(* The checks of the runners, in the order they are enlisted.               *)

Runners == {"local_docker", "local_exec", "cluster_k8s"}
Containers == {"grafana", "redis", "sync_service", "influxdb", "sidecar"}

\* Mutant: the control network is enlisted after the containers that join it.
CommonItemsNetworkLast == <<"outputs", "grafana", "redis", "sync_service", "influxdb", "network">>

CommonItems == <<"outputs", "network", "grafana", "redis", "sync_service", "influxdb">>
K8sItems == <<"efs", "redis", "sync_service", "prometheus", "grafana", "sidecar">>

Items == CASE runner = "local_docker" -> Append(CommonItems, "sidecar")
           [] runner = "local_exec"   -> <<"port">> \o CommonItems
           [] runner = "cluster_k8s"  -> K8sItems

\* Each of them has a fixer: one that sets the resource up, one that is not implemented
\* and succeeds, or one that asks for manual fixing.
Fixer(name) == IF runner = "cluster_k8s" THEN "unimplemented" ELSE IF name = "port" THEN "manual" ELSE "setup"

Resources == {Items[i] : i \in DOMAIN Items}
Needs(name) == IF runner # "cluster_k8s" /\ name \in Containers THEN {"network"} ELSE {}

\* Docker keeps a network that a running container is attached to; the check of the
\* port has no errors of its own.
Consistent(w) ==
  /\ \A r \in Resources : w[r] = "up" => \A n \in Needs(r) : w[n] # "down"
  /\ "port" \in Resources => w["port"] # "error"

HealthInit ==
  /\ runner \in Runners
  /\ world \in {w \in [Resources -> {"up", "down", "error"}] : Consistent(w)} /\ fix \in BOOLEAN
  /\ pos = 1 /\ fixing = FALSE /\ checks = <<>> /\ fixes = <<>> /\ faults = 0
  /\ refused = FALSE /\ decision = "none"

ResourceFails(r) ==
  /\ faults < MaxFaults /\ decision = "none" /\ faults' = faults + 1
  /\ world' \in {[world EXCEPT ![r] = w] : w \in {"down", "error"}} /\ Consistent(world')
  /\ UNCHANGED <<runner, fix, pos, fixing, checks, fixes, refused, decision>>

-----------------------------------------------------------------------------
(* RunChecks.                                                               *)

\* The port counts as free when the container of redis has it.
Holds(name) == IF name = "port" THEN world["redis"] = "up" \/ world["port"] = "up" ELSE world[name] = "up"
CheckErrs(name) == world[name] = "error"

Report(status) == fixes' = Append(fixes, status)

RunCheck ==
  /\ pos <= Len(Items) /\ ~fixing
  /\ LET it == Items[pos] IN
     \/ /\ CheckErrs(it) /\ checks' = Append(checks, "aborted")
        /\ IF fix THEN Report("omitted") ELSE UNCHANGED fixes
        /\ pos' = pos + 1 /\ UNCHANGED fixing
     \/ /\ ~CheckErrs(it) /\ Holds(it) /\ checks' = Append(checks, "ok")
        /\ IF fix THEN Report("unnecessary") ELSE UNCHANGED fixes
        /\ pos' = pos + 1 /\ UNCHANGED fixing
     \/ /\ ~CheckErrs(it) /\ ~Holds(it) /\ checks' = Append(checks, "failed")
        /\ fixing' = fix
        /\ IF fix THEN UNCHANGED <<pos, fixes>> ELSE Report("omitted") /\ pos' = pos + 1
  /\ UNCHANGED <<runner, world, fix, faults, refused, decision>>

\* Whether the fixer has all it needs to do its work.
Fixable(it) == Fixer(it) = "setup" /\ world[it] # "error" /\ \A n \in Needs(it) : world[n] = "up"

RunFix ==
  /\ fixing /\ fixing' = FALSE /\ pos' = pos + 1
  /\ LET it == Items[pos] IN
     \/ /\ Fixer(it) = "setup" /\ world' = [world EXCEPT ![it] = "up"] /\ Consistent(world')
        /\ world[it] # "error" /\ Report("ok") /\ UNCHANGED refused
     \/ Fixer(it) = "unimplemented" /\ Report("ok") /\ UNCHANGED <<world, refused>>
     \/ Fixer(it) = "manual" /\ Report("failed") /\ UNCHANGED <<world, refused>>
     \/ /\ Fixer(it) = "setup" /\ Report("failed") /\ UNCHANGED world
        /\ refused' = (refused \/ Fixable(it))
  /\ UNCHANGED <<runner, fix, checks, faults, decision>>

-----------------------------------------------------------------------------
(* The report, and doRun.                                                   *)

\* Mutant: only an internal error counts.
SucceededUnlessAborted(status) == status # "aborted"

Succeeded(status) == status \in {"ok", "omitted", "unnecessary"}
ChecksSucceeded == \A i \in DOMAIN checks : Succeeded(checks[i])
FixesSucceeded == \A i \in DOMAIN fixes : Succeeded(fixes[i])

\* doRun asks for the fixes; the healthcheck of a client may not.
Decide ==
  /\ pos > Len(Items) /\ ~fixing /\ decision = "none"
  /\ decision' = IF ~FixesSucceeded THEN "abort" ELSE IF ~ChecksSucceeded THEN "warn" ELSE "ok"
  /\ UNCHANGED <<runner, world, fix, pos, fixing, checks, fixes, faults, refused>>

HealthNext == RunCheck \/ RunFix \/ Decide \/ \E r \in Resources : ResourceFails(r)
HealthSpec == HealthInit /\ [][HealthNext]_healthVars

-----------------------------------------------------------------------------
Statuses == {"ok", "failed", "aborted", "omitted", "unnecessary"}

\* When nothing failed meanwhile, every resource is there if the report has no failed
\* check ("healthcheck: ok").  If a local runner goes on with a warning, because every
\* fix that was tried succeeded, every resource is there as well, although fixers run one
\* by one and depend on each other, save those whose check was aborted: their fix is
\* omitted, which counts as success (RunChecks, doRun).  Below that, a combined fixer
\* applies the fixers it should (And, Or).
OkIsHealthy ==
  /\ faults = 0 /\ decision = "ok" => \A r \in Resources : Holds(r)
  /\ faults = 0 /\ decision = "warn" /\ fix /\ runner # "cluster_k8s" =>
       \A n \in 1 .. Len(Items) : Holds(Items[n]) \/ checks[n] = "aborted"
  /\ ret # "running" => Applied

Visible == \A r \in Resources : world[r] # "error"

\* The checks are enlisted in an order in which every fix finds what it needs: from any
\* state of its environment that the checks can tell, a run of local:docker starts, if
\* nothing else fails and no fixer fails by itself (localCommonHealthcheck,
\* LocalDockerRunner.Healthcheck).
Recovers ==
  fix /\ ~refused /\ faults = 0 /\ Visible /\ runner = "local_docker" => decision # "abort"

(* "Fixes enumerates the outcomes of the fixes applied during fix, if a fix *)
(* was requested": otherwise the report has no fixes.                       *)
FixesOnRequest == ~fix => fixes = <<>>
-----------------------------------------------------------------------------
(* The invariants that make OkIsHealthy and Recovers inductive. *)

\* One status for every item looked at and, when fixes are requested, one fix; doRun
\* decides at the end.
ReportShape ==
  /\ runner \in Runners /\ DOMAIN world = Resources
  /\ pos \in 1 .. Len(Items) + 1 /\ (fixing => fix /\ pos <= Len(Items))
  /\ checks \in Seq({"ok", "failed", "aborted"}) /\ Len(checks) = (IF fixing THEN pos ELSE pos - 1)
  /\ fixes \in Seq(Statuses)
  /\ fix => Len(fixes) = pos - 1
  /\ decision # "none" => pos = Len(Items) + 1 /\ ~fixing

\* As long as nothing failed, what was found or fixed is still there, and what could not
\* be looked at still cannot.
ReportTrue ==
  faults = 0 =>
    /\ \A i \in 1 .. Len(checks) : /\ checks[i] = "ok" => Holds(Items[i])
                                   /\ checks[i] = "aborted" => CheckErrs(Items[i])
    /\ fix /\ runner # "cluster_k8s" =>
         \A i \in 1 .. Len(fixes) : Succeeded(fixes[i]) => Holds(Items[i]) \/ checks[i] = "aborted"

\* The decision is the one of the report, and without refusals every fix of local:docker
\* has succeeded so far.
DecisionTrue ==
  /\ faults \in Nat
  /\ decision = "ok" => \A i \in 1 .. Len(checks) : checks[i] = "ok"
  /\ decision = "warn" => \A i \in 1 .. Len(fixes) : Succeeded(fixes[i])
  /\ fix /\ ~refused /\ faults = 0 /\ Visible /\ runner = "local_docker" =>
       /\ \A i \in 1 .. Len(fixes) : Succeeded(fixes[i])
       /\ decision # "abort"

=============================================================================
