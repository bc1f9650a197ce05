----------------------------- MODULE Composition -----------------------------
(***************************************************************************)
(* A composition on its way to the runner: the client loads it, generates  *)
(* the default run and validates it; the daemon fills in the defaults of   *)
(* each run, validates it again, and hands one run to the runner.  For the *)
(* later runs the client sends what it decodes of the composition the      *)
(* daemon prepared for the first one.                                      *)
(*                                                                         *)
(* A map that may be nil is the set {} (nil) or {m}.  A percentage is      *)
(* counted in quarters, which a float64 holds exactly.  Test parameters    *)
(* stand for the profiles and the resources as well: they are merged in    *)
(* the same way and the same order, and decoding loses fewer of those.     *)
(***************************************************************************)
EXTENDS Naturals, Sequences, SequencesExt, FiniteSets, Functions, FiniteSetsExt

CONSTANTS
    Compositions, \* the composition files considered, with their manifests
    MaxRequests   \* how many runs the client requests

VARIABLES
    given,     \* the composition as it is in the file
    stage,     \* how far the request has got
    comp,      \* the client's composition, *api.Composition
    sent,      \* the composition of the daemon's task
    prepared,  \* the composition PrepareForRun returned
    started,   \* the RunInputs handed to the runner
    requests   \* how many runs the client has requested

vars == <<given, stage, comp, sent, prepared, started, requests>>

Get(map) == IF map = {} THEN <<>> ELSE CHOOSE m \in map : TRUE

\* mergo.Merge on maps: the keys that are missing or empty are taken from src.
Merge(dst, src) ==
    LET filled == {k \in DOMAIN Get(dst) : Get(dst)[k] # ""}
    IN  IF src = {} THEN dst
        ELSE {Restrict(Get(dst), filled) @@ Get(src) @@ Get(dst)}

\* The counts of the two are added.
InheritSum(i, j) ==
    [count |-> i.count + j.count,
     quarters |-> IF i.quarters = 0 THEN j.quarters ELSE i.quarters]

\* mergo.Merge on Instances: each of the two fields on its own.
Inherit(i, j) ==
    [count |-> IF i.count = 0 THEN j.count ELSE i.count,
     quarters |-> IF i.quarters = 0 THEN j.quarters ELSE i.quarters]

EffectiveGroupId(g) == IF g.group = "" THEN g.id ELSE g.group

Ids(s) == {s[i].id : i \in DOMAIN s}
Unique(s) == Cardinality(Ids(s)) = Len(s)

GetGroup(c, g) ==
    c.groups[Min({i \in DOMAIN c.groups : c.groups[i].id = EffectiveGroupId(g)})]

DefaultRunGroup(g) ==
    [id |-> g.id, group |-> g.id, inst |-> g.inst, params |-> g.params, cnt |-> 0]

GenerateDefaultRun(c) ==
    IF c.runs # <<>> THEN c
    ELSE [c EXCEPT !.runs =
            <<[id |-> "default", total |-> c.total, params |-> {},
               groups |-> [i \in DOMAIN c.groups |-> DefaultRunGroup(c.groups[i])]]>>]

\* math.Round of a number of quarters.
RoundQuarters(n) == (n + 2) \div 4

InstanceCount(g, total) ==
    IF g.inst.count # 0 THEN g.inst.count ELSE RoundQuarters(g.inst.quarters * total)

Computed(r) == FoldFunction(+, 0, [i \in DOMAIN r.groups |-> InstanceCount(r.groups[i], r.total)])

\* Only a total that is exceeded is refused.
CountsWithin(r) ==
    /\ r.total = 0 => \A i \in DOMAIN r.groups : r.groups[i].inst.quarters = 0
    /\ r.total # 0 => Computed(r) <= r.total

\* recalculateInstanceCounts returns no error.
CountsAgree(r) ==
    /\ r.total = 0 => \A i \in DOMAIN r.groups : r.groups[i].inst.quarters = 0
    /\ r.total # 0 => Computed(r) = r.total

\* What it leaves in the run.
Recalculated(r) ==
    [r EXCEPT !.total = Computed(r),
              !.groups = [i \in DOMAIN @ |-> [@[i] EXCEPT !.cnt = InstanceCount(r.groups[i], r.total)]]]

AllRuns(c, Op(_)) == [c EXCEPT !.runs = [i \in DOMAIN @ |-> Op(@[i])]]

\* The structural validation and the checks of Groups.Validate and
\* Runs.Validate.  It does not look into the groups and the runs it lists.
Valid(c) ==
    /\ c.groups # <<>> /\ c.runs # <<>>
    /\ Unique(c.groups) /\ Unique(c.runs)
    /\ \A k \in DOMAIN c.runs :
         LET r == c.runs[k]
         IN  /\ \A i \in DOMAIN r.groups : EffectiveGroupId(r.groups[i]) \in Ids(c.groups)
             /\ Unique(r.groups)
             /\ CountsAgree(r)

\* CompositionRunGroup.PrepareForRun
PrepareRunGroup(c, r, g) ==
    LET b == GetGroup(c, g)
    IN  [g EXCEPT !.inst = Inherit(@, b.inst),
                  !.params = Merge(Merge(Merge(Merge(@, r.params), b.params), c.params), c.defaults)]

WithDefaults(c, r) ==
    [r EXCEPT !.groups = [i \in DOMAIN @ |-> PrepareRunGroup(c, r, @[i])]]

\* Run.PrepareForRun returns no error.
RunPrepares(c, r) ==
    /\ \A i \in DOMAIN r.groups : EffectiveGroupId(r.groups[i]) \in Ids(c.groups)
    /\ CountsAgree(WithDefaults(c, r))
    /\ Computed(WithDefaults(c, r)) \in c.minimum .. c.maximum

\* Composition.PrepareForRun returns no error.
Prepares(c) ==
    LET d == GenerateDefaultRun(c)
    IN  /\ d.supported   \* the manifest has the test case and the runner
        /\ \A k \in DOMAIN d.runs : RunPrepares(d, d.runs[k])

\* The runner configuration: the keys that are set are kept.
RunConfigured(c) == [c EXCEPT !.config = {Get(@) @@ c.runner}]

PrepareForRun(c) ==
    LET d == GenerateDefaultRun(c)
    IN  AllRuns(RunConfigured(d), LAMBDA r : Recalculated(WithDefaults(d, r)))

\* A map that is not nil is the same map in both, and is written in place.
Shared(map, new) == IF map = {} THEN {} ELSE new

\* The composition PrepareForRun was called on, after the call.
Written(c, p) ==
    [c EXCEPT !.config = Shared(@, p.config),
              !.runs = [k \in DOMAIN @ |->
                  [@[k] EXCEPT !.groups = [i \in DOMAIN @ |->
                      [@[i] EXCEPT !.params = Shared(@, p.runs[k].groups[i].params)]]]]]

\* The counts that are cached are not part of the JSON the client sends.
Marshalled(c) ==
    AllRuns(c, LAMBDA r : [r EXCEPT !.groups = [i \in DOMAIN @ |-> [@[i] EXCEPT !.cnt = 0]]])

\* mapstructure.Decode of the composition of a task: it leaves out what is cached and the
\* TestParams of a RunParams, the field of the groups and of the global part without a tag.
Decoded(c) ==
    [Marshalled(c) EXCEPT !.params = {},
                          !.groups = [i \in DOMAIN @ |-> [@[i] EXCEPT !.params = {}]]]

GroupInput(g) == [id |-> g.id, instances |-> g.cnt, params |-> Get(g.params)]

RunOf(c, id) == c.runs[Min({k \in DOMAIN c.runs : c.runs[k].id = id})]

\* FrameForRuns, and the RunInput built from the framed composition.
RunInput(c, id) ==
    [run |-> id, total |-> RunOf(c, id).total,
     groups |-> [i \in DOMAIN RunOf(c, id).groups |-> GroupInput(RunOf(c, id).groups[i])]]
-----------------------------------------------------------------------------
Init ==
    /\ given \in Compositions
    /\ stage = "loaded"
    /\ comp = GenerateDefaultRun(given)
    /\ sent = comp
    /\ prepared = comp
    /\ started = <<>>
    /\ requests = 0

Reject ==
    /\ stage' = "rejected"
    /\ UNCHANGED <<given, comp, sent, prepared, started, requests>>

\* runCompositionCmd: ValidateForRun writes the counts into the runs it checks.
ClientValidate ==
    /\ stage = "loaded"
    /\ IF Valid(comp)
       THEN /\ comp' = AllRuns(comp, Recalculated)
            /\ stage' = "idle"
            /\ UNCHANGED <<given, sent, prepared, started, requests>>
       ELSE Reject

\* The client sends its composition with the id of a run.
CallDaemonRun ==
    /\ stage = "idle"
    /\ requests < MaxRequests
    /\ sent' = Marshalled(comp)
    /\ requests' = requests + 1
    /\ stage' = "sent"
    /\ UNCHANGED <<given, comp, prepared, started>>

DaemonPrepare ==
    /\ stage = "sent"
    /\ IF Prepares(sent)
       THEN /\ prepared' = PrepareForRun(sent)
            /\ sent' = Written(sent, prepared')
            /\ stage' = "prepared"
            /\ UNCHANGED <<given, comp, started, requests>>
       ELSE Reject

DaemonValidate ==
    /\ stage = "prepared"
    /\ IF Valid(prepared)
       THEN /\ prepared' = AllRuns(prepared, Recalculated)
            /\ stage' = "validated"
            /\ UNCHANGED <<given, comp, sent, started, requests>>
       ELSE Reject

\* The ids of --run-ids are looked up only here.  Of the first run the client keeps the
\* composition (ProcessComposition).
StartRun(id) ==
    /\ stage = "validated"
    /\ IF id \in Ids(prepared.runs)
       THEN /\ started' = Append(started, RunInput(prepared, id))
            /\ comp' = IF requests = 1 THEN Decoded(prepared) ELSE comp
            /\ stage' = "idle"
            /\ UNCHANGED <<given, sent, prepared, requests>>
       ELSE Reject

Finish ==
    /\ stage = "rejected" \/ (stage = "idle" /\ requests = MaxRequests)
    /\ UNCHANGED vars

Next ==
    \/ ClientValidate
    \/ CallDaemonRun
    \/ DaemonPrepare
    \/ DaemonValidate
    \/ \E id \in Ids(comp.runs) \union {"unknown"} : StartRun(id)
    \/ Finish

Spec == Init /\ [][Next]_vars
-----------------------------------------------------------------------------
Params == [{"k"} -> {"", "own", "run", "group", "global", "default"}]

IsInstances(i) == i.count \in Nat /\ i.quarters \in Nat

IsComposition(c) ==
    /\ \A i \in DOMAIN c.groups : IsInstances(c.groups[i].inst)
    /\ c.config = {} \/ Cardinality(c.config) = 1
    /\ \A k \in DOMAIN c.runs :
         /\ c.runs[k].total \in Nat
         /\ \A i \in DOMAIN c.runs[k].groups :
              LET g == c.runs[k].groups[i]
              IN  /\ IsInstances(g.inst) /\ g.cnt \in Nat
                  /\ g.params \in {{}, {<<>>}} \union {{m} : m \in Params}

\* Type invariant.  After the daemon's validation every run group carries the
\* number of instances it was given.
CompositionTypeOK ==
    /\ stage \in {"loaded", "idle", "sent", "prepared", "validated", "rejected"}
    /\ IsComposition(comp) /\ IsComposition(sent) /\ IsComposition(prepared)
    /\ requests \in 0 .. MaxRequests
    /\ Len(started) <= requests
    /\ stage = "validated" =>
         \A k \in DOMAIN prepared.runs : \A i \in DOMAIN prepared.runs[k].groups :
            prepared.runs[k].groups[i].cnt =
                InstanceCount(prepared.runs[k].groups[i], prepared.runs[k].total)

Asked(id) == RunOf(GenerateDefaultRun(given), id)

\* The runner is told a total that is the sum of the instances of the groups it
\* is told, that the test case allows, and that is the total the file gives if it
\* gives one: TotalInstances is computed by the client's validation, sent, and
\* checked against a new computation by the daemon, twice.
InstancesAddUp ==
    \A n \in DOMAIN started :
        LET s == started[n]
        IN  /\ s.total = FoldFunction(+, 0, [i \in DOMAIN s.groups |-> s.groups[i].instances])
            /\ s.total \in given.minimum .. given.maximum
            /\ Asked(s.run).total # 0 => s.total = Asked(s.run).total

\* A group runs as many instances as its run group says by a count, else as its
\* build group says by a count, else as the percentage of the total says.
InstancesAsGiven ==
    \A n \in DOMAIN started : \A i \in DOMAIN started[n].groups :
        LET g == Asked(started[n].run).groups[i]
            b == GetGroup(given, g)
            share == IF g.inst.quarters > 0 THEN g.inst.quarters ELSE b.inst.quarters
            exact == share * started[n].total
            k == started[n].groups[i].instances
        IN  IF g.inst.count > 0 THEN k = g.inst.count
            ELSE IF b.inst.count > 0 THEN k = b.inst.count
            ELSE 4 * k <= exact + 2 /\ exact < 4 * k + 2

\* The value an instance gets for a test parameter is the first one that is not
\* empty among the run group's, the run's, the build group's, the global one and
\* the test case's default; a later run of the same composition, which the daemon
\* prepares a second time, gets the same.
Precedence ==
    \A n \in DOMAIN started : \A i \in DOMAIN started[n].groups :
        LET r == Asked(started[n].run)
            g == r.groups[i]
            layers == <<g.params, r.params, GetGroup(given, g).params, given.params, given.defaults>>
            sets == SelectSeq(layers, LAMBDA m : \E k \in DOMAIN Get(m) : Get(m)[k] # "")
        IN  sets # <<>> => started[n].groups[i].params = Get(Head(sets))

\* A composition the daemon has prepared is accepted when the client sends it back
\* for its next run, and preparing it again changes nothing.
PreparedAgain ==
    [][stage = "sent" /\ requests > 1 =>
         stage' = "prepared" /\ Marshalled(prepared') = sent]_vars

\* "This method doesn't modify the composition, it returns a new one." (PrepareForRun)
InputUnmodified ==
    [][stage = "sent" /\ stage' = "prepared" => sent' = sent]_vars

\* "Specifying a percentage is mutually exclusive with specifying a count.": no run
\* group of a composition that passed ValidateForRun has both.
ExclusiveInstances ==
    stage = "validated" =>
        \A k \in DOMAIN prepared.runs : \A i \in DOMAIN prepared.runs[k].groups :
            LET g == prepared.runs[k].groups[i] IN g.inst.count = 0 \/ g.inst.quarters = 0

Absolute(c) ==
    /\ \A i \in DOMAIN c.groups : c.groups[i].inst.quarters = 0
    /\ \A k \in DOMAIN c.runs : \A i \in DOMAIN c.runs[k].groups :
         c.runs[k].groups[i].inst.quarters = 0

Skippable(c) ==
    /\ Absolute(c)
    /\ \A k \in DOMAIN c.runs : c.runs[k].total = 0
    /\ Prepares(c)
    /\ Valid(PrepareForRun(c))

\* "If all your instance counts are absolute values (and not percentages), you may
\* skip this value. It will be calculated automatically.": a composition with
\* absolute counts and no totals that can be prepared is not refused for its counts.
TotalMayBeSkipped ==
    [][(stage = "loaded" \/ stage = "sent") /\ stage' = "rejected" =>
         ~Skippable(GenerateDefaultRun(given))]_vars

\* "TotalInstances defines the default total number of instances that participate in
\* runs of this composition": a run without a total of its own has the global one.
GlobalTotalIsDefault ==
    \A n \in DOMAIN started :
        given.total # 0 /\ Asked(started[n].run).total = 0 => started[n].total = given.total
=============================================================================
