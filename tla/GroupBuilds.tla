---------------------------- MODULE GroupBuilds ----------------------------
(***************************************************************************)
(* Engine.doRun and Engine.doBuild: the groups of a composition that have  *)
(* no artifact are built, one job per build key and at most                *)
(* Global.ConcurrentBuilds jobs at a time, the artifacts are written into  *)
(* the composition, and the runner is called.                              *)
(*                                                                         *)
(* A group is a record of what its build depends on: its builder, build    *)
(* configuration, selectors (a sequence), and dependencies (a sequence of  *)
(* records with module, version and target).  An artifact is identified    *)
(* with the inputs it was built from.                                      *)
(***************************************************************************)
EXTENDS Naturals, Sequences, FiniteSets, Functions

CONSTANTS Groups,           \* the composition's groups, a sequence
          BuildChoices,     \* the requests: sequences of the indices to build
          ConcurrentBuilds, \* Global.ConcurrentBuilds
          UnknownBuilders   \* builders the engine does not have

VARIABLES
  buildGroups, \* RunInput.BuildGroups
  pc,        \* where doRun is
  pending,   \* the build keys the loop has not started
  job,       \* the errgroup's goroutines, by build key
  source,    \* the source directory of each of them
  cancelled, \* whether errGroupCtx is cancelled
  ress,      \* the results, by position in BuildGroups
  artifact,  \* Run.Artifact of the composition's groups
  failed     \* whether doRun returned an error

buildsVars == <<buildGroups, pc, pending, job, source, cancelled, ress, artifact, failed>>

None == <<>>
Supplied(i) == <<"supplied", i>>
Picked(p) == Groups[buildGroups[p]]
Positions == DOMAIN buildGroups

\* Mutant: the key leaves the versions of the dependencies out.
KeyWithoutVersions(g) ==
  <<g.builder, g.config, Range(g.selectors), {d.module : d \in Range(g.dependencies)}>>

Modules(g) == {g.dependencies[i].module : i \in DOMAIN g.dependencies}
DependenciesOn(g, m) == SelectSeq(g.dependencies, LAMBDA d : d.module = m)

\* Group.BuildKey: the selectors are sorted, and the dependencies, stably, by module.
BuildKey(g) ==
  LET count(v) == Cardinality({i \in DOMAIN g.selectors : g.selectors[i] = v})
      versions(m) == [i \in DOMAIN DependenciesOn(g, m) |-> DependenciesOn(g, m)[i].version]
  IN <<g.builder, g.config,
       {<<v, count(v)>> : v \in Range(g.selectors)},
       {<<m, versions(m)>> : m \in Modules(g)}>>

LastOn(g, m) == DependenciesOn(g, m)[Len(DependenciesOn(g, m))]

\* What the builder is given: of several dependencies on a module, the last one.
Inputs(g) ==
  <<g.builder, g.config, Range(g.selectors),
    {LastOn(g, m) : m \in Modules(g)}>>

Keys == {BuildKey(Picked(p)) : p \in Positions}
Same(k) == {p \in Positions : BuildKey(Picked(p)) = k}
First(k) == CHOOSE p \in Same(k) : \A q \in Same(k) : p <= q
Running == {k \in Keys : job[k] = "running"}

\* Mutant: no limit stays the limit zero of errgroup.SetLimit.
LimitVerbatim == ConcurrentBuilds

\* Zero means that there is no limit.
Limit == IF ConcurrentBuilds = 0 THEN Cardinality(Keys) ELSE ConcurrentBuilds

Fail == pc' = "returned" /\ failed' = TRUE
        /\ UNCHANGED <<buildGroups, pending, job, source, cancelled, ress, artifact>>

Step(from, to) ==
  /\ pc = from /\ pc' = to
  /\ UNCHANGED <<buildGroups, pending, job, source, cancelled, ress, artifact, failed>>

-----------------------------------------------------------------------------
\* Preparing, validating, an unknown builder, a failed health check or a source
\* directory that cannot be copied end doBuild, and doRun with it.
PrepareBuild ==
  \/ Step("start", "spawn") /\ Positions # {}
     /\ \A p \in Positions : Picked(p).builder \notin UnknownBuilders
  \/ Step("start", "prepare") /\ Positions = {}
  \/ pc = "start" /\ Positions # {} /\ Fail

\* The loop over the map, in any order: errGroup.Go waits for a free slot.
Spawn ==
  /\ pc = "spawn" /\ Cardinality(Running) < Limit
  /\ \E k \in pending :
       /\ pending' = pending \ {k} /\ job' = [job EXCEPT ![k] = "running"]
       /\ source' = [source EXCEPT ![k] = Cardinality(Keys \ pending) + 1]
  /\ UNCHANGED <<buildGroups, pc, cancelled, ress, artifact, failed>>

\* bm.Build ends with an artifact, of the first of its groups.
BuildDone(k) ==
  /\ job[k] = "running" /\ job' = [job EXCEPT ![k] = "done"]
  /\ ress' = [p \in Positions |-> IF p \in Same(k) THEN Inputs(Picked(First(k))) ELSE ress[p]]
  /\ UNCHANGED <<buildGroups, pc, pending, source, cancelled, artifact, failed>>

\* bm.Build, or merging the configuration before it, ends with an error, which
\* cancels the others.
BuildFails(k) ==
  /\ job[k] = "running" /\ job' = [job EXCEPT ![k] = "failed"]
  /\ cancelled' = TRUE
  /\ UNCHANGED <<buildGroups, pc, pending, source, ress, artifact, failed>>

\* Mutant: doRun takes the results there are, errors or not.
WaitIgnoresErrors ==
  /\ pc = "spawn" /\ pending = {} /\ Running = {}
  /\ pc' = "prepare"
  /\ artifact' = [i \in DOMAIN Groups |->
       IF \E p \in Positions : buildGroups[p] = i
       THEN ress[CHOOSE p \in Positions : buildGroups[p] = i] ELSE artifact[i]]
  /\ UNCHANGED <<buildGroups, pending, job, source, cancelled, ress, failed>>

\* errGroup.Wait; without an error, the artifacts go into the composition.
Wait ==
  /\ pc = "spawn" /\ pending = {} /\ Running = {}
  /\ IF \E k \in Keys : job[k] = "failed" THEN Fail
     ELSE /\ pc' = "prepare"
          /\ artifact' = [i \in DOMAIN Groups |->
               IF \E p \in Positions : buildGroups[p] = i
               THEN ress[CHOOSE p \in Positions : buildGroups[p] = i] ELSE artifact[i]]
          /\ UNCHANGED <<buildGroups, pending, job, source, cancelled, ress, failed>>

\* PrepareForRun, ValidateForRun, the runner's health check, the disabled flag,
\* merging the configuration and framing the run.
PrepareRun == Step("prepare", "run") \/ (pc = "prepare" /\ Fail)

\* run.Run; its error is doRun's.
Run == Step("run", "returned") \/ (pc = "run" /\ Fail)

BuildsInit ==
  /\ buildGroups \in BuildChoices
  /\ pc = "start" /\ pending = Keys /\ job = [k \in Keys |-> "none"]
  /\ source = [k \in Keys |-> 0] /\ cancelled = FALSE
  /\ ress = [p \in Positions |-> None]
  /\ artifact = [i \in DOMAIN Groups |-> IF i \in Range(buildGroups) THEN None ELSE Supplied(i)]
  /\ failed = FALSE

BuildsNext ==
  \/ PrepareBuild \/ Spawn \/ Wait \/ PrepareRun \/ Run
  \/ \E k \in Keys : BuildDone(k) \/ BuildFails(k)

BuildsSpec == BuildsInit /\ [][BuildsNext]_buildsVars

\* Every build ends: it is under the task's timeout.
BuildsFairSpec == BuildsSpec /\ WF_buildsVars(BuildsNext)

-----------------------------------------------------------------------------
\* The runner is given the artifact a group was supplied with, or one that was
\* built from that very group's inputs ("Every Group in `idxs`` have the same build
\* key. They are identitical when it comes to build").
OwnArtifact ==
  pc = "run" => \A i \in DOMAIN Groups :
    artifact[i] = IF i \in Range(buildGroups) THEN Inputs(Groups[i]) ELSE Supplied(i)

\* At most ConcurrentBuilds builds run at a time (errGroup.SetLimit).
BuildLimit == ConcurrentBuilds > 0 => Cardinality(Running) <= ConcurrentBuilds

\* Builds that run at the same time work in directories of their own.
SeparateSources == \A k, l \in Running : source[k] = source[l] => k = l

\* No build is running any more when doBuild has returned ("Wait until all
\* goroutines are done").
NoBuildAfterReturn == pc \in {"prepare", "run", "returned"} => Running = {}

\* A task whose build failed leaves the composition without artifacts of the others.
AllOrNothing ==
  failed /\ (\E k \in Keys : job[k] = "failed") => \A i \in Range(buildGroups) : artifact[i] = None

\* doRun returns once its builds do, whatever the limit.
BuildEnds == <>(pc = "returned")
=============================================================================
