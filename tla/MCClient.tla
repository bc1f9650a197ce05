------------------------------ MODULE MCClient ------------------------------
(***************************************************************************)
(* Compositions, the run and build commands and their requests to the      *)
(* daemon, for TLC (MCTasks has the specification).  A behaviour is one of *)
(* MultiRun or Rpc, or of an instance of Composition or BuildCommand,      *)
(* chosen by the initial value of scenario:                                *)
(*   composition  a composition file of CountFiles or ParamFiles, sent for *)
(*                two runs;                                                *)
(*   runs         a command with up to three runs, and failing writes;     *)
(*   building     a build of one of BuildFiles, with any flags;            *)
(*   requests     a request to any endpoint, with failures of every kind.  *)
(***************************************************************************)
EXTENDS MultiRun, Rpc, Integers, TLC

VARIABLES
    scenario,
    given, stage, comp, composed, prepared, started, requested,
    bgiven, bfile, bflags, bstage, bcomp, bprepared, btask, built, artifacts

compositionVars == <<given, stage, comp, composed, prepared, started, requested>>
buildVars == <<bgiven, bfile, bflags, bstage, bcomp, bprepared, btask, built, artifacts>>
clientVars == <<compositionVars, runsVars, buildVars, rpcVars>>
-----------------------------------------------------------------------------
(* Small composition files.  CountFiles vary the instances, totals and      *)
(* references, ParamFiles the test parameters and the configuration.        *)

Unset == [count |-> 0, quarters |-> 0]
Count(n) == [count |-> n, quarters |-> 0]
Quarters(n) == [count |-> 0, quarters |-> n]
InstanceChoices == {Unset, Count(1), Count(2), Quarters(2), Quarters(3)}

Group(id, inst, params) == [id |-> id, inst |-> inst, params |-> params]
RunGroup(id, group, inst, params) ==
    [id |-> id, group |-> group, inst |-> inst, params |-> params, cnt |-> 0]

File(total, params, groups, runs, supported, defaults, config) ==
    [total |-> total, params |-> params, groups |-> groups, runs |-> runs,
     supported |-> supported, minimum |-> 1, maximum |-> 4, defaults |-> defaults,
     config |-> config, runner |-> [r |-> "manifest"]]

Default == {[k |-> "default"]}

\* One group or two, in a run that is left out or has one or two run groups,
\* which name their build group or not, and perhaps one that does not exist.
CountRuns(total, i, j) ==
    {<<>>} \union
    {<<[id |-> "one", total |-> total, params |-> {}, groups |-> gs]>> :
        gs \in {<<RunGroup("a", "", i, {})>>,
               <<RunGroup("a", "", i, {}), RunGroup("b", "", j, {})>>,
               <<RunGroup("x", "a", i, {}), RunGroup("y", "a", j, {})>>,
               <<RunGroup("a", "", i, {}), RunGroup("a", "b", j, {})>>,
               <<RunGroup("a", "c", i, {})>>,
               <<>>}}

CountFiles ==
    {File(global, {}, <<Group("a", h, {}), Group("b", Count(1), {})>>, runs, TRUE, Default, {}) :
        global \in {0, 3}, h \in InstanceChoices,
        runs \in UNION {CountRuns(t, i, j) : t \in {0, 2, 3}, i \in InstanceChoices, j \in InstanceChoices}}

Layer(v) == {{}, {<<>>}, {[k |-> ""]}, {[k |-> v]}}

\* Two runs whose first run group has parameters of its own, and the default run.
ParamFiles ==
    {File(0, global, <<Group("a", Count(1), grp)>>, runs, supported, Default, config) :
        global \in Layer("global"), grp \in Layer("group"), supported \in BOOLEAN,
        config \in {{}, {[s |-> "file"]}},
        runs \in {<<>>} \union
            {<<[id |-> "one", total |-> 0, params |-> run, groups |-> <<RunGroup("a", "", Unset, own)>>],
               [id |-> two, total |-> 0, params |-> {}, groups |-> <<RunGroup("x", "a", Count(2), {})>>]>> :
                own \in Layer("own"), run \in Layer("run"), two \in {"one", "two"}}}

\* Two groups, the first of which may have a builder, a configuration and dependencies of
\* its own; the plan does not support exec.
BuildGroup(id, builder, config, deps) ==
    [id |-> id, builder |-> builder, config |-> config, deps |-> deps, artifact |-> ""]

BuildFiles ==
    {[builder |-> all, config |-> config, deps |-> deps,
      groups |-> <<BuildGroup("a", own, gconfig, gdeps), BuildGroup("b", "", {}, <<>>)>>] :
        all \in {"", "go", "exec"}, config \in {<<>>, [k |-> "global"]}, deps \in {<<>>, [m |-> "global"]},
        own \in {"", "go"}, gconfig \in {{}, {[k |-> "group"]}}, gdeps \in {<<>>, [m |-> "group"]}}
-----------------------------------------------------------------------------
AllEndpoints ==
    {"build", "run", "purge", "outputs", "terminate", "healthcheck", "tasks", "status", "logs"}

Comp == INSTANCE Composition WITH
    Compositions <- CountFiles \union ParamFiles, MaxRequests <- 2,
    sent <- composed, requests <- requested
Building == INSTANCE BuildCommand WITH
    Files <- BuildFiles, Manifest <- [go |-> [k |-> "manifest", l |-> "go"]], Artifacts <- {"x", "y"},
    given <- bgiven, file <- bfile, flags <- bflags, stage <- bstage, comp <- bcomp,
    prepared <- bprepared, task <- btask, result <- artifacts
ClientScenarios == {"composition", "runs", "building", "requests"}

ClientInit ==
    /\ Comp!Init
    /\ scenario # "composition" => given = CHOOSE f \in ParamFiles : TRUE
    /\ RunsInit
    /\ scenario # "runs" => flags = [runs |-> 1, wait |-> FALSE, collect |-> FALSE, write |-> FALSE]
    /\ Building!Init
    /\ scenario # "building" => bflags = {} /\ bgiven = CHOOSE f \in BuildFiles : TRUE
    /\ RpcInit
    /\ scenario # "requests" => endpoint = "status"

ClientNext ==
    \/ scenario = "composition" /\ Comp!Next /\ UNCHANGED <<runsVars, buildVars, rpcVars>>
    \/ scenario = "runs" /\ RunsNext /\ UNCHANGED <<compositionVars, buildVars, rpcVars>>
    \/ scenario = "building" /\ Building!Next /\ UNCHANGED <<compositionVars, runsVars, rpcVars>>
    \/ scenario = "requests" /\ RpcNext /\ UNCHANGED <<compositionVars, runsVars, buildVars>>
-----------------------------------------------------------------------------
\* The total the runner is told is the sum of its groups' instances, as given and
\* as the test case allows (ValidateForRun, PrepareForRun, doRun).
InstancesAddUp == Comp!InstancesAddUp

\* Preparing again changes nothing: a composition sent back for the next run is accepted
\* as it is (PrepareForRun), and a builder gets what the file says, else what the manifest
\* says, although client and daemon both fill in defaults (Group.PrepareForBuild).
PreparedAgain == Comp!PreparedAgain /\ []Building!BuiltAsGiven

\* "write the resulting build artifacts to the composition file" (write-artifacts,
\* buildCompositionCmd).
ArtifactsWritten == Building!ArtifactsWritten
=============================================================================
