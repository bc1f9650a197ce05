---------------------------- MODULE BuildCommand ----------------------------
(***************************************************************************)
(* testground build composition: the client loads a composition file,      *)
(* prepares it for a build, sends it, and may wait for the task and write  *)
(* the composition back (pkg/cmd/build.go).  The daemon prepares what it   *)
(* is sent once more before it builds (pkg/engine/supervisor.go).          *)
(*                                                                         *)
(* A group is a record of its builder, its build configuration, its        *)
(* dependencies and its artifact.  A map that may be nil is the set {} or  *)
(* {m}.  The dependencies stand for the selectors as well.                 *)
(***************************************************************************)
EXTENDS Naturals, Sequences, FiniteSets, TLC

CONSTANTS
    Files,      \* the compositions of the files considered
    Manifest,   \* the build configuration of each builder that the plan supports
    Artifacts   \* what a build may produce

VARIABLES
    given,     \* the composition as it was in the file
    file,      \* the composition that is in the file
    flags,     \* the flags of the command: wait and write-artifacts
    stage,     \* how far the client has got
    comp,      \* the composition that buildCompositionCmd loaded
    prepared,  \* the composition of build
    task,      \* the state of the daemon's task
    built,     \* the configuration each group was built with
    result     \* the artifacts of the task

vars == <<given, file, flags, stage, comp, prepared, task, built, result>>
-----------------------------------------------------------------------------
Get(map) == IF map = {} THEN <<>> ELSE CHOOSE m \in map : TRUE

GroupBuilder(c, g) == IF g.builder = "" THEN c.builder ELSE g.builder

\* A dependency that the group has is not replaced.
ApplyDefaults(deps, defaults) == IF deps = <<>> THEN defaults ELSE deps @@ defaults

\* Group.PrepareForBuild: what a group leaves open comes from the composition, and what
\* that leaves open from the manifest.
PrepareGroup(c, g) ==
    LET b == GroupBuilder(c, g)
    IN  [g EXCEPT !.builder = b,
                  !.config = {Get(@) @@ c.config @@ Manifest[b]},
                  !.deps = ApplyDefaults(@, c.deps)]

Prepares(c) == \A k \in DOMAIN c.groups : GroupBuilder(c, c.groups[k]) \in DOMAIN Manifest

PrepareForBuild(c) == [c EXCEPT !.groups = [k \in DOMAIN @ |-> PrepareGroup(c, @[k])]]

\* The composition PrepareForBuild was called on, after the call: the configuration of a
\* group that has one is the same map in both.
Written(c) ==
    [c EXCEPT !.groups = [k \in DOMAIN @ |->
        [@[k] EXCEPT !.config = IF @ = {} THEN {} ELSE PrepareGroup(c, c.groups[k]).config]]]

Valid(c) ==
    /\ c.groups # <<>>
    /\ \A k \in DOMAIN c.groups : GroupBuilder(c, c.groups[k]) # ""
    /\ \A k, l \in DOMAIN c.groups : c.groups[k].id = c.groups[l].id => k = l
-----------------------------------------------------------------------------
Init ==
    /\ given \in Files
    /\ file = given /\ comp = given /\ prepared = given
    /\ flags \in SUBSET {"wait", "write-artifacts"}
    /\ stage = "start" /\ task = "none"
    /\ built = <<>> /\ result = <<>>

\* buildCompositionCmd, up to the request that build sends.
SendBuild ==
    /\ stage = "start"
    /\ IF Valid(comp) /\ Prepares(comp)
       THEN prepared' = PrepareForBuild(comp) /\ comp' = Written(comp) /\ stage' = "sent" /\ task' = "queued"
       ELSE stage' = "failed" /\ UNCHANGED <<comp, prepared, task>>
    /\ UNCHANGED <<given, file, flags, built, result>>

\* doBuild prepares and validates what was sent, and builds every group, or fails.
DoBuild ==
    /\ task = "queued"
    /\ \/ LET c == PrepareForBuild(prepared)
          IN  /\ Prepares(prepared) /\ Valid(c)
              /\ built' = [k \in DOMAIN c.groups |-> [config |-> Get(c.groups[k].config), deps |-> c.groups[k].deps]]
              /\ \E a \in [DOMAIN c.groups -> Artifacts] : result' = a
              /\ task' = "complete"
       \/ task' = "failed" /\ UNCHANGED <<built, result>>
    /\ UNCHANGED <<given, file, flags, stage, comp, prepared>>

WithArtifacts(c, a) == [c EXCEPT !.groups = [k \in DOMAIN @ |-> [@[k] EXCEPT !.artifact = a[k]]]]

\* build returns at once, or with the outcome of the task.  The artifacts go to the
\* groups of the composition that was prepared.
BuildReturns ==
    /\ stage = "sent"
    /\ \/ "wait" \notin flags /\ stage' = "returned" /\ UNCHANGED prepared
       \/ "wait" \in flags /\ task = "complete" /\ stage' = "returned" /\ prepared' = WithArtifacts(prepared, result)
       \/ "wait" \in flags /\ task = "failed" /\ stage' = "failed" /\ UNCHANGED prepared
    /\ UNCHANGED <<given, file, flags, comp, task, built, result>>

\* WriteCompositionToFile writes the composition that the command loaded.
WriteFile ==
    /\ stage = "returned"
    /\ file' = IF "write-artifacts" \in flags THEN comp ELSE file
    /\ stage' = "done"
    /\ UNCHANGED <<given, flags, comp, prepared, task, built, result>>

Next == SendBuild \/ DoBuild \/ BuildReturns \/ WriteFile

Spec == Init /\ [][Next]_vars
-----------------------------------------------------------------------------
\* A builder gets what the group of the file says, else what the file says for all
\* groups, else what the manifest says for the group's builder, although client and
\* daemon both fill in the defaults (Group.PrepareForBuild, doBuild).
BuiltAsGiven ==
    \A k \in DOMAIN built :
        LET g == given.groups[k]
        IN  /\ built[k].config = Get(g.config) @@ given.config @@ Manifest[GroupBuilder(given, g)]
            /\ built[k].deps = g.deps @@ given.deps

\* "write the resulting build artifacts to the composition file" (write-artifacts): when a
\* build with that flag was waited for and ended well, the file has its artifacts.
ArtifactsWritten ==
    stage = "done" /\ flags = {"wait", "write-artifacts"} =>
        \A k \in DOMAIN result : file.groups[k].artifact = result[k]
=============================================================================
