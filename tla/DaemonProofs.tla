---------------------------- MODULE DaemonProofs ----------------------------
(***************************************************************************)
(* The daemon behind its API: the builds of a task's groups, what a client *)
(* is told about its request, and the health checks of the runners, for    *)
(* any groups, chunks and checks.                                          *)
(***************************************************************************)
EXTENDS Rpc, GroupBuilds, HealthChecks, SequenceTheorems, FiniteSetTheorems, TLAPS

-----------------------------------------------------------------------------
(* The builds of a task.                                                    *)

\* A request names groups of the composition.
RequestsInRange == BuildChoices \subseteq Seq(DOMAIN Groups)

\* The build key tells apart what the builder is given: groups of one key have the same
\* inputs.  It is not so for groups that differ in the target of a dependency.
KeyDecides ==
  \A i, j \in DOMAIN Groups : BuildKey(Groups[i]) = BuildKey(Groups[j]) => Inputs(Groups[i]) = Inputs(Groups[j])

Before(i) == IF i \in Range(buildGroups) THEN None ELSE Supplied(i)
After(i) == IF i \in Range(buildGroups) THEN Inputs(Groups[i]) ELSE Supplied(i)

\* Jobs run while doBuild waits for them only, and artifacts are written when none failed.
JobInv ==
  /\ buildGroups \in BuildChoices
  /\ pc \in {"start", "spawn", "prepare", "run", "returned"}
  /\ pending \subseteq Keys /\ job \in [Keys -> {"none", "running", "done", "failed"}]
  /\ \A k \in Keys : k \in pending <=> job[k] = "none"
  /\ pc # "spawn" => \A k \in Keys : job[k] # "running"
  /\ pc \in {"prepare", "run"} => \A k \in Keys : job[k] # "failed"
  /\ artifact = [i \in DOMAIN Groups |-> artifact[i]]
  /\ pc \in {"start", "spawn"} \/ (\E k \in Keys : job[k] = "failed") =>
       \A i \in DOMAIN Groups : artifact[i] = Before(i)

\* The result of a job that is done is what each of its groups would have got.
ResultInv ==
  /\ \A p \in Positions : job[BuildKey(Picked(p))] = "done" => ress[p] = Inputs(Picked(p))
  /\ pc \in {"prepare", "run"} => \A i \in DOMAIN Groups : artifact[i] = After(i)
-----------------------------------------------------------------------------
Less == {p \in Nat \X Nat : p[1] < p[2]}

\* A nonempty set of positions has a first one.
LEMMA FirstExists == ASSUME NEW T, T \subseteq Nat, T # {} PROVE \E x \in T : \A y \in T : x <= y
<1>1. IsWellFoundedOn(Less, Nat)
  BY NatLessThanWellFounded, Zenon DEF OpToRel, Less
<1>2. PICK x \in T : \A y \in T : ~(<<y, x>> \in Less)
  BY <1>1, WFMin, Zenon
<1>3. \A y \in T : ~(y < x)
  BY <1>2, Zenon DEF Less
<1> QED BY <1>3

LEMMA RequestFixed ==
  ASSUME UNCHANGED buildGroups
  PROVE  /\ Keys' = Keys /\ Positions' = Positions
         /\ \A p : Picked(p)' = Picked(p) /\ \A k : Same(k)' = Same(k) /\ First(k)' = First(k)
         /\ \A i : Before(i)' = Before(i) /\ After(i)' = After(i)
BY Zenon DEF Keys, Positions, Picked, Same, First, Before, After

LEMMA InitJob == BuildsInit => JobInv
BY Zenon DEF BuildsInit, JobInv, Before, None, Supplied

LEMMA InitResult == BuildsInit => ResultInv
BY Zenon DEF BuildsInit, ResultInv, Keys, Positions, Picked
-----------------------------------------------------------------------------
\* One conjunct per step of doRun: the jobs and the artifacts stay in step.
LEMMA StepJob == JobInv /\ [BuildsNext]_buildsVars => JobInv'
<1> SUFFICES ASSUME JobInv, [BuildsNext]_buildsVars PROVE JobInv'
  BY Zenon
<1>0. UNCHANGED buildGroups
  BY Zenon
     DEF BuildsNext, buildsVars, PrepareBuild, Spawn, BuildDone, BuildFails, Wait, PrepareRun,
         Run, Fail, Step
<1> USE <1>0, RequestFixed
<1>1. CASE PrepareBuild
  BY <1>1, Zenon DEF PrepareBuild, JobInv, Fail, Step, Keys
<1>2. CASE Spawn
  BY <1>2 DEF Spawn, JobInv
<1>3. ASSUME NEW k \in Keys, BuildDone(k) PROVE JobInv'
  BY <1>3, Zenon DEF BuildDone, JobInv
<1>4. ASSUME NEW k \in Keys, BuildFails(k) PROVE JobInv'
  BY <1>4, Zenon DEF BuildFails, JobInv
<1>5. CASE Wait
  BY <1>5, Zenon DEF Wait, Fail, JobInv, Running
<1>6. CASE PrepareRun \/ Run
  BY <1>6, Zenon DEF PrepareRun, Run, JobInv, Fail, Step
<1>7. CASE UNCHANGED buildsVars
  BY <1>7, Zenon DEF buildsVars, JobInv
<1> QED BY <1>1, <1>2, <1>3, <1>4, <1>5, <1>6, <1>7, Zenon DEF BuildsNext

\* The group a job builds has the inputs of all the groups of its key.
LEMMA FirstSpeaks ==
  ASSUME RequestsInRange, KeyDecides, JobInv, NEW k, NEW p \in Same(k)
  PROVE  Inputs(Picked(First(k))) = Inputs(Picked(p))
<1>1. buildGroups \in Seq(DOMAIN Groups)
  BY Zenon DEF RequestsInRange, JobInv
<1>2. Same(k) \subseteq Nat
  BY <1>1 DEF Same, Positions
<1>3. First(k) \in Same(k)
  BY <1>2, FirstExists, Zenon DEF First
<1>4. \A q \in Same(k) : buildGroups[q] \in DOMAIN Groups /\ BuildKey(Groups[buildGroups[q]]) = k
  BY <1>1 DEF Same, Positions, Picked
<1> QED BY <1>3, <1>4, Zenon DEF KeyDecides, Picked

LEMMA StepResult ==
  ASSUME RequestsInRange, KeyDecides, JobInv, ResultInv, [BuildsNext]_buildsVars
  PROVE  ResultInv'
<1>0. UNCHANGED buildGroups
  BY Zenon
     DEF BuildsNext, buildsVars, PrepareBuild, Spawn, BuildDone, BuildFails, Wait, PrepareRun,
         Run, Fail, Step
<1> USE <1>0, RequestFixed
<1>k. \A p \in Positions : BuildKey(Picked(p)) \in Keys
  BY Zenon DEF Keys
<1>1. CASE PrepareBuild
  <2>1. ASSUME Positions = {} PROVE \A i \in DOMAIN Groups : Before(i) = After(i)
    BY <2>1, <1>1, Zenon DEF Before, After, Positions, Range
  <2> QED BY <1>1, <2>1 DEF PrepareBuild, JobInv, ResultInv, Fail, Step
<1>2. CASE Spawn
  BY <1>2, <1>k DEF Spawn, JobInv, ResultInv
<1>3. ASSUME NEW k \in Keys, BuildDone(k) PROVE ResultInv'
  <2>1. \A p \in Same(k) : Inputs(Picked(First(k))) = Inputs(Picked(p))
    BY FirstSpeaks, Zenon
  <2>2. pc = "spawn" /\ pc' = pc
    BY <1>3, Zenon DEF BuildDone, JobInv
  <2>3. ASSUME NEW p \in Positions, job'[BuildKey(Picked(p))] = "done" PROVE ress'[p] = Inputs(Picked(p))
    <3>1. CASE p \in Same(k)
      BY <1>3, <2>1, <3>1, Zenon DEF BuildDone
    <3>2. CASE p \notin Same(k)
      BY <1>3, <1>k, <2>3, <3>2, Zenon DEF BuildDone, Same, JobInv, ResultInv
    <3> QED BY <3>1, <3>2, Zenon
  <2> QED BY <2>2, <2>3, Zenon DEF ResultInv
<1>4. ASSUME NEW k \in Keys, BuildFails(k) PROVE ResultInv'
  BY <1>4, <1>k, Zenon DEF BuildFails, JobInv, ResultInv
<1>5. CASE Wait
  <2>1. CASE \E k \in Keys : job[k] = "failed"
    BY <1>5, <2>1, Zenon DEF Wait, Fail, ResultInv
  <2>2. CASE ~ \E k \in Keys : job[k] = "failed"
    <3>1. \A k \in Keys : job[k] = "done"
      BY <1>5, <2>2, Zenon DEF Wait, JobInv, Running
    <3>2. \A p \in Positions : ress[p] = Inputs(Groups[buildGroups[p]])
      BY <1>k, <3>1, Zenon DEF ResultInv, Picked
    <3>3. \A i : i \in Range(buildGroups) <=> \E p \in Positions : buildGroups[p] = i
      BY Zenon DEF Range, Positions
    <3>4. \A i \in DOMAIN Groups : artifact'[i] = After(i)
      BY <1>5, <2>2, <3>2, <3>3 DEF Wait, JobInv, Before, After
    <3>5. UNCHANGED <<job, ress>>
      BY <1>5, <2>2, Zenon DEF Wait
    <3> QED BY <3>4, <3>5, Zenon DEF ResultInv
  <2> QED BY <2>1, <2>2, Zenon
<1>6. CASE PrepareRun \/ Run
  BY <1>6, Zenon DEF PrepareRun, Run, ResultInv, Fail, Step
<1>7. CASE UNCHANGED buildsVars
  BY <1>7, Zenon DEF buildsVars, ResultInv
<1> QED BY <1>1, <1>2, <1>3, <1>4, <1>5, <1>6, <1>7, Zenon DEF BuildsNext
-----------------------------------------------------------------------------
\* A task one of whose builds failed leaves the composition without an artifact of the
\* builds that did not, whatever the keys are (supervisor.go, doBuild and doRun).
THEOREM FailureLeavesNone == ASSUME RequestsInRange PROVE BuildsSpec => []AllOrNothing
<1>1. JobInv => AllOrNothing
  BY DEF JobInv, RequestsInRange, AllOrNothing, Before, Range
<1> QED BY <1>1, InitJob, StepJob, PTL DEF BuildsSpec

\* The runner gets, for each group that was to be built, the artifact of that group's
\* own inputs, for any requests, limit and order of builds, provided that groups with
\* one build key have the same inputs.
THEOREM ArtifactsAreOwn == ASSUME RequestsInRange, KeyDecides PROVE BuildsSpec => []OwnArtifact
<1>1. JobInv /\ ResultInv /\ [BuildsNext]_buildsVars => JobInv' /\ ResultInv'
  BY StepJob, StepResult, Zenon
<1>2. ResultInv => OwnArtifact
  BY Zenon DEF ResultInv, OwnArtifact, After
<1> QED BY <1>1, <1>2, InitJob, InitResult, PTL DEF BuildsSpec
-----------------------------------------------------------------------------
(* The requests of the client.                                              *)

\* A progress or binary chunk while the handler works.
LEMMA WriteChunkKeeps ==
  ASSUME StreamEnds, handler # "done", UNCHANGED call, NEW c \in {"progress", "binary"},
         stream' = Append(stream, c)
  PROVE  /\ StreamEnds' /\ Len(stream) <= Len(stream')
         /\ \A i \in 1 .. Len(stream) : stream'[i] = stream[i]
<1>1. stream \in Seq(Chunks) /\ c \in Chunks
  BY Zenon DEF StreamEnds, Chunks
<1> HIDE DEF Chunks
<1>2. /\ stream' \in Seq(Chunks) /\ Len(stream') = Len(stream) + 1 /\ Len(stream) \in Nat
      /\ \A i \in 1 .. Len(stream) : stream'[i] = stream[i]
      /\ stream'[Len(stream) + 1] = c
      /\ DOMAIN stream = 1 .. Len(stream) /\ DOMAIN stream' = 1 .. Len(stream) + 1
  BY <1>1, AppendProperties, LenProperties
<1>3. \A i \in DOMAIN stream : stream[i] \notin Finals
  BY Zenon DEF StreamEnds
<1>4. \A i \in DOMAIN stream' : stream'[i] \notin Finals
  BY <1>2, <1>3 DEF Finals
<1> QED BY <1>2, <1>4 DEF StreamEnds, Finals

\* The chunk that ends a response says what the engine's call returned.
LEMMA WriteFinalKeeps ==
  ASSUME StreamEnds, handler # "done", UNCHANGED call, handler' = "done",
         NEW c \in {"progress"} \union Finals,
         c = "result" => call = "ok", c = "absent" => call = "error",
         stream' = Append(stream, c)
  PROVE  /\ StreamEnds' /\ Len(stream) <= Len(stream')
         /\ \A i \in 1 .. Len(stream) : stream'[i] = stream[i]
<1>1. stream \in Seq(Chunks) /\ c \in Chunks
  BY Zenon DEF StreamEnds, Chunks
<1> HIDE DEF Chunks
<1>2. /\ stream' \in Seq(Chunks) /\ Len(stream') = Len(stream) + 1 /\ Len(stream) \in Nat
      /\ \A i \in 1 .. Len(stream) : stream'[i] = stream[i]
      /\ stream'[Len(stream) + 1] = c
      /\ DOMAIN stream = 1 .. Len(stream) /\ DOMAIN stream' = 1 .. Len(stream) + 1
  BY <1>1, AppendProperties, LenProperties
<1>3. \A i \in DOMAIN stream : stream[i] \notin Finals
  BY Zenon DEF StreamEnds
<1>4. \A i \in DOMAIN stream' : stream'[i] \in Finals => i = Len(stream) + 1
  BY <1>2, <1>3
<1>5. \A i \in DOMAIN stream' : stream'[i] \in {"result", "absent"} => stream'[i] = c
  BY <1>2, <1>4, Zenon DEF Finals
<1> QED BY <1>2, <1>4, <1>5 DEF StreamEnds

\* WriteError writes two chunks, the error last.
LEMMA WriteErrorKeeps ==
  ASSUME StreamEnds, handler # "done", UNCHANGED call, WriteError
  PROVE  /\ StreamEnds' /\ handler' = "done" /\ Len(stream) <= Len(stream')
         /\ \A i \in 1 .. Len(stream) : stream'[i] = stream[i]
<1> DEFINE e == <<"progress", "error">>
<1>1. /\ stream \in Seq(Chunks) /\ e \in Seq(Chunks) /\ Len(e) = 2
      /\ e[1] = "progress" /\ e[2] = "error" /\ stream' = stream \o e /\ handler' = "done"
  BY DEF StreamEnds, Chunks, Finals, WriteError
<1> HIDE DEF Chunks, e
<1>2. /\ stream \o e \in Seq(Chunks)
      /\ Len(stream \o e) = Len(stream) + Len(e)
      /\ \A i \in 1 .. Len(stream) + Len(e) :
           (stream \o e)[i] = IF i <= Len(stream) THEN stream[i] ELSE e[i - Len(stream)]
  BY <1>1, ConcatProperties, Zenon
<1>3. /\ Len(stream) \in Nat /\ DOMAIN stream = 1 .. Len(stream)
      /\ DOMAIN stream' = 1 .. Len(stream) + 2 /\ Len(stream') = Len(stream) + 2
  BY <1>1, <1>2, LenProperties, Zenon
<1>4. /\ \A i \in 1 .. Len(stream) : stream'[i] = stream[i]
      /\ stream'[Len(stream) + 1] = "progress" /\ stream'[Len(stream) + 2] = "error"
  <2>1. Len(stream) + 1 - Len(stream) = 1 /\ Len(stream) + 2 - Len(stream) = 2
    BY <1>3
  <2> QED BY <1>1, <1>2, <1>3, <2>1
<1>5. \A i \in DOMAIN stream : stream[i] \notin Finals
  BY Zenon DEF StreamEnds
<1>6. \A i \in DOMAIN stream' : /\ stream'[i] \in Finals => i = Len(stream')
                               /\ stream'[i] \notin {"result", "absent"}
  BY <1>3, <1>4, <1>5 DEF Finals
<1> QED BY <1>1, <1>2, <1>3, <1>4, <1>6 DEF StreamEnds

\* Steps of the body and the handler leave the reader as it is.
LEMMA ReaderApart ==
  ASSUME ReaderKeepsUp, OutcomeTrue, StreamEnds, UNCHANGED readerVars, call # "none" => UNCHANGED call,
         handler = "done" => UNCHANGED <<handler, stream>>,
         Len(stream) <= Len(stream'), Len(stream') \in Nat,
         \A i \in 1 .. Len(stream) : stream'[i] = stream[i]
  PROVE  ReaderKeepsUp' /\ OutcomeTrue'
<1>1. Len(stream) \in Nat /\ read \in Nat /\ read <= Len(stream)
  BY DEF StreamEnds, ReaderKeepsUp
<1>2. Binary(read)' = Binary(read)
  BY <1>1 DEF Binary, readerVars
<1>3. ReaderKeepsUp'
  BY <1>1, <1>2 DEF ReaderKeepsUp, readerVars
<1>4. OutcomeTrue'
  BY Zenon DEF OutcomeTrue, ReaderKeepsUp, readerVars
<1> QED BY <1>3, <1>4, Zenon

\* The body, the handler and the client each keep the parts in order.
LEMMA UploadStep ==
  ASSUME UploadInOrder, RpcNext
  PROVE  UploadInOrder'
<1>0. /\ want \in Seq(Parts) /\ got \in Seq(Parts) /\ sent \in Nat /\ Len(want) \in Nat
      /\ Len(got) \in Nat
  BY DEF UploadInOrder
<1>1. CASE Body
  BY <1>0, <1>1
     DEF Body, SendPart, SendFails, FilterPlanFails, CloseUpload, UploadInOrder, handlerVars
<1>2. CASE ConsumePart
  <2>1. CASE UNCHANGED got
    BY <1>2, <2>1, Zenon DEF ConsumePart, WriteError, UploadInOrder, uploadVars
  <2>2. CASE got' = Append(got, want[Len(got) + 1])
    <3>1. want[Len(got) + 1] \in Parts /\ Len(got) < sent /\ sent <= Len(want)
      BY <1>0, <1>2 DEF ConsumePart, UploadInOrder, Parts
    <3>2. /\ got' \in Seq(Parts) /\ Len(got') = Len(got) + 1
          /\ \A i \in 1 .. Len(got) : got'[i] = got[i]
          /\ got'[Len(got) + 1] = want[Len(got) + 1]
      BY <1>0, <2>2, <3>1, AppendProperties
    <3>3. UNCHANGED <<want, sent, endpoint, upload, call>> /\ handler = "consume"
      BY <1>2, Zenon DEF ConsumePart, uploadVars
    <3>4. handler' \in {"consume", "done"}
      BY <1>2, Zenon DEF ConsumePart, WriteError
    <3>5. \A i \in 1 .. Len(got') : got'[i] = want[i]
      BY <1>0, <3>2 DEF UploadInOrder
    <3>6. endpoint \in Uploads => call = "none" \/ got = want
      BY Zenon DEF UploadInOrder
    <3>7. got # want
      BY <1>0, <3>1
    <3> QED BY <1>0, <3>1, <3>2, <3>3, <3>4, <3>5, <3>6, <3>7 DEF UploadInOrder
  <2> QED BY <1>2, <2>1, <2>2, Zenon DEF ConsumePart
<1>3. CASE ConsumeEnd
  <2>1. UNCHANGED <<want, got, sent, endpoint, upload, call>>
    BY <1>3, Zenon DEF ConsumeEnd, uploadVars
  <2>2. CASE handler' = "check" /\ upload = "closed" /\ Len(got) = sent
    <3>1. endpoint \in Uploads => Len(got) = Len(want)
      BY <2>2, Zenon DEF UploadInOrder
    <3>2. endpoint \in Uploads => got = want
      BY <1>0, <3>1, SeqEqual, Zenon DEF UploadInOrder
    <3> QED BY <2>1, <2>2, <3>2, Zenon DEF UploadInOrder
  <2>3. CASE handler' = "done"
    BY <2>1, <2>3, Zenon DEF UploadInOrder
  <2> QED BY <1>3, <2>2, <2>3, Zenon DEF ConsumeEnd, WriteError
<1>4. CASE Mkdir \/ CheckSources \/ Decode \/ Engine \/ EngineReturns \/ Answer
  <2>1. UNCHANGED <<want, got, sent, endpoint, upload>>
    BY <1>4, Zenon DEF Mkdir, CheckSources, Decode, Engine, EngineReturns, Answer, uploadVars
  <2>2. /\ handler' # "decode" \/ handler = "decode"
        /\ endpoint \in Uploads /\ (handler' \in {"check", "engine"} \/ call' # "none") =>
             handler \in {"check", "engine", "decode"} \/ call # "none"
    BY <1>4, Zenon DEF Mkdir, CheckSources, Decode, Engine, EngineReturns, Answer, WriteError
  <2> QED BY <2>1, <2>2, Zenon DEF UploadInOrder
<1>5. CASE Cut \/ RequestFails \/ ParseChunk \/ ParseEnd \/ Finished
  <2>1. UNCHANGED <<want, got, sent, endpoint, upload, call, handler>>
    BY <1>5, Zenon
       DEF Cut, RequestFails, ParseChunk, ParseEnd, Finished, uploadVars, handlerVars, rpcVars
  <2> QED BY <2>1, Zenon DEF UploadInOrder
<1> QED BY <1>1, <1>2, <1>3, <1>4, <1>5, Zenon DEF RpcNext, Body

\* The handler's writes: it stops when it is done, and writes what the call returned.
LEMMA HandlerStep ==
  ASSUME StreamEnds, Handler
  PROVE  /\ StreamEnds' /\ Len(stream) <= Len(stream')
         /\ \A i \in 1 .. Len(stream) : stream'[i] = stream[i]
         /\ handler # "done" /\ (call # "none" => UNCHANGED call)
<1>0. Len(stream) \in Nat
  BY DEF StreamEnds
<1>1. CASE UNCHANGED <<stream, call>> /\ handler # "done"
  BY <1>0, <1>1 DEF StreamEnds
<1>2. CASE WriteError /\ UNCHANGED call /\ handler # "done"
  BY <1>2, WriteErrorKeeps, Zenon
<1>3. CASE Engine
  <2>1. PICK c \in {"progress", "binary"} : stream' = Append(stream, c)
    BY <1>3, Zenon DEF Engine
  <2> QED BY <1>3, <2>1, WriteChunkKeeps, Zenon DEF Engine
<1>4. CASE EngineReturns
  <2>1. UNCHANGED <<stream, handler>> /\ call = "none" /\ handler = "engine"
    BY <1>4, Zenon DEF EngineReturns
  <2>2. \A i \in DOMAIN stream : stream[i] \notin Finals
    BY <2>1, Zenon DEF StreamEnds
  <2> QED BY <1>0, <2>1, <2>2 DEF StreamEnds, Finals
<1>5. CASE Answer
  <2>1. handler # "done" /\ UNCHANGED call
    BY <1>5, Zenon DEF Answer
  <2>2. CASE WriteError
    BY <2>1, <2>2, WriteErrorKeeps, Zenon
  <2>3. CASE call = "ok" /\ stream' = Append(stream, "result") /\ handler' = "done"
    BY <2>1, <2>3, WriteFinalKeeps, Zenon DEF Finals
  <2>4. CASE call = "error" /\ stream' = Append(stream, "absent") /\ handler' = "done"
    BY <2>1, <2>4, WriteFinalKeeps, Zenon DEF Finals
  <2>5. CASE stream' = Append(stream, "progress") /\ handler' = "done"
    BY <2>1, <2>5, WriteFinalKeeps, Zenon
  <2> QED BY <1>5, <2>2, <2>3, <2>4, <2>5, Zenon DEF Answer
<1> QED BY <1>1, <1>2, <1>3, <1>4, <1>5, Zenon
        DEF Handler, Mkdir, ConsumePart, ConsumeEnd, CheckSources, Decode

\* parseGeneric counts the binary chunks as it comes to them.
LEMMA ParseStep ==
  ASSUME StreamEnds, ReaderKeepsUp, ParseChunk
  PROVE  ReaderKeepsUp' /\ OutcomeTrue'
<1> DEFINE n == read + 1
<1>1. /\ read \in Nat /\ read < Len(stream) /\ Len(stream) \in Nat /\ read' = n /\ n \in DOMAIN stream
      /\ UNCHANGED <<stream, handler, call>> /\ outcome = "pending" /\ file \in Nat
      /\ file = Cardinality(Binary(read)) /\ DOMAIN stream = 1 .. Len(stream)
  BY DEF ParseChunk, StreamEnds, ReaderKeepsUp, handlerVars
<1>2. /\ file' = IF stream[n] = "binary" THEN file + 1 ELSE IF stream[n] = "absent" THEN 0 ELSE file
      /\ outcome' = IF stream[n] = "result" THEN "ok" ELSE IF stream[n] = "absent" THEN "none"
                    ELSE IF stream[n] = "error" THEN "error" ELSE "pending"
  BY Zenon DEF ParseChunk
<1>3. IsFiniteSet(Binary(read)) /\ n \notin Binary(read)
  <2>1. IsFiniteSet(1 .. read)
    BY <1>1, FS_Interval
  <2> QED BY <1>1, <2>1, FS_Subset DEF Binary
<1>4. Cardinality(Binary(n)) = IF stream[n] = "binary" THEN file + 1 ELSE file
  <2>1. CASE stream[n] = "binary"
    <3>1. Binary(n) = Binary(read) \union {n}
      BY <1>1, <2>1 DEF Binary
    <3> QED BY <1>1, <1>3, <2>1, <3>1, FS_AddElement, Zenon
  <2>2. CASE stream[n] # "binary"
    <3>1. Binary(n) = Binary(read)
      BY <1>1, <2>2 DEF Binary
    <3> QED BY <1>1, <2>2, <3>1, Zenon
  <2> QED BY <2>1, <2>2, Zenon
<1>5. Binary(read)' = Binary(n)
  BY <1>1, Zenon DEF Binary
<1>6. stream[n] \in Finals => n = Len(stream) /\ handler = "done"
  BY <1>1, Zenon DEF StreamEnds
<1>7. ReaderKeepsUp'
  <2>1. read' \in Nat /\ read' <= Len(stream') /\ file' \in Nat
    BY <1>1, <1>2
  <2>2. outcome' = "pending" => file' = Cardinality(Binary(n))
    BY <1>2, <1>4, Zenon
  <2>3. outcome' \in {"ok", "none"} => handler' = "done"
    BY <1>1, <1>2, <1>6, Zenon DEF Finals
  <2> QED BY <1>5, <2>1, <2>2, <2>3, Zenon DEF ReaderKeepsUp
<1>8. stream[n] = "result" =>
        /\ call = "ok"
        /\ file = Cardinality({i \in DOMAIN stream : stream[i] = "binary"})
  BY <1>1, <1>4, <1>6, Zenon DEF StreamEnds, Finals, Binary
<1>9. stream[n] = "absent" => call = "error" /\ file' = 0
  BY <1>1, <1>2, Zenon DEF StreamEnds
<1>10. OutcomeTrue'
  BY <1>1, <1>2, <1>8, <1>9, Zenon DEF OutcomeTrue
<1> QED BY <1>7, <1>10, Zenon

\* Each step of a request keeps its invariant.
LEMMA RpcStep ==
  ASSUME RpcInv, RpcNext
  PROVE  RpcInv'
<1>0. Len(stream) \in Nat
  BY DEF RpcInv, StreamEnds
<1>1. UploadInOrder'
  BY UploadStep, Zenon DEF RpcInv
<1>2. CASE Handler
  <2>1. UNCHANGED readerVars
    BY <1>2, Zenon
       DEF Handler, Mkdir, ConsumePart, ConsumeEnd, CheckSources, Decode, Engine, EngineReturns,
                Answer
  <2>2. Len(stream') \in Nat
    BY <1>2, HandlerStep DEF RpcInv, StreamEnds
  <2> QED BY <1>1, <1>2, <2>1, <2>2, HandlerStep, ReaderApart, Zenon DEF RpcInv
<1>3. CASE Body \/ Cut \/ Finished
  <2>1. UNCHANGED <<stream, handler, call, readerVars>>
    BY <1>3, Zenon
       DEF Body, SendPart, SendFails, FilterPlanFails, CloseUpload, Cut, Finished, handlerVars,
                rpcVars, readerVars
  <2>2. StreamEnds'
    BY <2>1, Zenon DEF RpcInv, StreamEnds
  <2> QED BY <1>0, <1>1, <2>1, <2>2, ReaderApart DEF RpcInv
<1>4. CASE RequestFails \/ ParseEnd
  <2>1. UNCHANGED <<stream, handler, call, read, file>> /\ outcome' = "error"
    BY <1>4, Zenon DEF RequestFails, ParseEnd, handlerVars
  <2> QED BY <1>1, <2>1, Zenon DEF RpcInv, StreamEnds, ReaderKeepsUp, OutcomeTrue
<1>5. CASE ParseChunk
  <2>1. StreamEnds'
    BY <1>5, Zenon DEF RpcInv, StreamEnds, ParseChunk, handlerVars
  <2> QED BY <1>1, <1>5, <2>1, ParseStep, Zenon DEF RpcInv
<1> QED BY <1>2, <1>3, <1>4, <1>5, Zenon DEF RpcNext, Handler, Body

\* Upload, response and reader agree at every step of a request (runBuild,
\* consumeRunBuildRequest, parseGeneric).
THEOREM RpcInvariant == RpcSpec => []RpcInv
<1>1. RpcInit => RpcInv
  <2> SUFFICES ASSUME RpcInit PROVE RpcInv
    BY Zenon
  <2>1. /\ sent = 0 /\ got = <<>> /\ stream = <<>> /\ read = 0 /\ file = 0 /\ outcome = "pending"
        /\ call = "none"
    BY Zenon DEF RpcInit
  <2>2. want \in Seq(Parts)
    <3>1. want \in WithSources \union {<<"composition">>, <<>>}
      BY Zenon DEF RpcInit
    <3>2. WithSources \subseteq Seq(Parts)
      <4> DEFINE head == <<"composition", "plan">>
                 Rests == {<<>>, <<"sdk">>, <<"extra">>, <<"sdk", "extra">>}
      <4>1. head \in Seq(Parts) /\ \A rest \in Rests : rest \in Seq(Parts)
        BY DEF Parts
      <4>2. WithSources = {head \o rest : rest \in Rests}
        BY Zenon DEF WithSources
      <4> HIDE DEF head, Rests
      <4>3. \A rest \in Rests : head \o rest \in Seq(Parts)
        BY <4>1, ConcatProperties, Zenon
      <4> QED BY <4>2, <4>3, Zenon
    <3>3. {<<"composition">>, <<>>} \subseteq Seq(Parts)
      BY DEF Parts
    <3> QED BY <3>1, <3>2, <3>3, Zenon
  <2>3. UploadInOrder
    BY <2>1, <2>2 DEF RpcInit, UploadInOrder, Uploads
  <2>4. StreamEnds
    BY <2>1 DEF StreamEnds
  <2>5. Binary(0) = {}
    BY DEF Binary
  <2>6. ReaderKeepsUp /\ OutcomeTrue
    BY <2>1, <2>5, FS_EmptySet DEF ReaderKeepsUp, OutcomeTrue
  <2> QED BY <2>3, <2>4, <2>6, Zenon DEF RpcInv
<1>2. RpcInv /\ [RpcNext]_rpcVars => RpcInv'
  <2> SUFFICES ASSUME RpcInv, [RpcNext]_rpcVars PROVE RpcInv'
    BY Zenon
  <2>1. CASE UNCHANGED rpcVars
    BY <2>1, Zenon
       DEF rpcVars, RpcInv, UploadInOrder, StreamEnds, ReaderKeepsUp, OutcomeTrue, Binary
  <2> QED BY <2>1, RpcStep, Zenon
<1> QED BY <1>1, <1>2, PTL DEF RpcSpec

\* The client reports success only when the engine's call succeeded, with every chunk that
\* was collected, and no outputs only when there was an error, without a file (parseGeneric).
THEOREM ReportsTruth == RpcSpec => []OutcomeTrue
<1>1. RpcInv => OutcomeTrue
  BY Zenon DEF RpcInv
<1> QED BY <1>1, RpcInvariant, PTL

\* A build or run is never queued from a body that was cut short (consumeRunBuildRequest).
THEOREM QueuesWholeUploads == RpcSpec => []QueuedWhole
<1>1. RpcInv => QueuedWhole
  BY Zenon DEF RpcInv, UploadInOrder, QueuedWhole
<1> QED BY <1>1, RpcInvariant, PTL
-----------------------------------------------------------------------------
(* The health checks.                                                       *)

\* What the proofs need of the checks that the runners enlist: the control network, the
\* second, comes before all that need it.
LEMMA ItemsEnlisted ==
  ASSUME runner \in Runners
  PROVE  /\ Len(Items) \in {6, 7} /\ DOMAIN Items = 1 .. Len(Items)
         /\ \A i \in 1 .. Len(Items) : Items[i] \in Resources
         /\ \A r \in Resources : \E i \in 1 .. Len(Items) : r = Items[i]
         /\ runner = "local_exec" => {"redis", "port"} \subseteq Resources
         /\ runner # "local_exec" => \A i \in 1 .. Len(Items) : Items[i] # "port"
         /\ runner = "local_docker" =>
              Items[1] \notin Containers /\ Items[2] \notin Containers /\ Items[2] = "network"
<1> DEFINE Named == {"outputs", "network", "grafana", "redis", "sync_service", "influxdb", "sidecar", "port"}
<1>1. /\ CommonItems \in Seq(Named) /\ Len(CommonItems) = 6
      /\ CommonItems[1] = "outputs" /\ CommonItems[2] = "network" /\ CommonItems[3] = "grafana"
      /\ CommonItems[4] = "redis" /\ CommonItems[5] = "sync_service" /\ CommonItems[6] = "influxdb"
  BY DEF CommonItems
<1> HIDE DEF Named
<1>2. ASSUME NEW x \in Named
      PROVE  /\ Append(CommonItems, x) \in Seq(Named) /\ Len(Append(CommonItems, x)) = 7
             /\ \A i \in 1 .. 6 : Append(CommonItems, x)[i] = CommonItems[i]
             /\ Append(CommonItems, x)[7] = x
  <2> DEFINE seq == CommonItems
  <2> HIDE DEF seq
  <2>0. seq \in Seq(Named)
    BY <1>1, Zenon DEF seq
  <2>1. /\ Append(seq, x) \in Seq(Named) /\ Len(Append(seq, x)) = Len(seq) + 1
        /\ \A i \in 1 .. Len(seq) : Append(seq, x)[i] = seq[i]
        /\ Append(seq, x)[Len(seq) + 1] = x
    BY <2>0, AppendProperties
  <2> QED BY <1>1, <2>1 DEF seq
<1>3. \A x \in Named : DOMAIN Append(CommonItems, x) = 1 .. 7
  BY <1>2, LenProperties
<1>4. \A i \in 1 .. 7 : i = 1 \/ i = 2 \/ i = 3 \/ i = 4 \/ i = 5 \/ i = 6 \/ i = 7
  OBVIOUS
<1> USE DEF Named
<1>5. CASE runner = "local_docker"
  BY <1>1, <1>2, <1>3, <1>4, <1>5 DEF Items, Resources, Containers
<1>6. CASE runner = "local_exec"
  <2> DEFINE seq == CommonItems
             one == <<"port">>
  <2>1. one \in Seq(Named) /\ Len(one) = 1 /\ one[1] = "port"
    OBVIOUS
  <2>2. seq \in Seq(Named) /\ Len(seq) = 6
    BY <1>1, Zenon
  <2> HIDE DEF seq, one, Named
  <2>7. /\ one \o seq \in Seq(Named) /\ Len(one \o seq) = Len(one) + Len(seq)
        /\ \A i \in 1 .. Len(one) + Len(seq) :
             (one \o seq)[i] = IF i <= Len(one) THEN one[i] ELSE seq[i - Len(one)]
    BY <2>1, <2>2, ConcatProperties, Zenon
  <2>3. /\ one \o seq \in Seq(Named) /\ Len(one \o seq) = 7 /\ (one \o seq)[1] = "port"
        /\ \A i \in 2 .. 7 : (one \o seq)[i] = seq[i - 1]
    BY <2>1, <2>2, <2>7
  <2>4. Items = one \o seq
    BY <1>6, Zenon DEF Items, one, seq
  <2>5. Len(Items) = 7 /\ DOMAIN Items = 1 .. 7
    BY <2>3, <2>4, LenProperties
  <2>6. Items[1] = "port" /\ Items[5] = "redis"
    BY <1>1, <2>3, <2>4 DEF seq
  <2> QED BY <1>6, <2>5, <2>6 DEF Resources
<1>7. CASE runner = "cluster_k8s"
  BY <1>7 DEF Items, K8sItems, Resources
<1> QED BY <1>5, <1>6, <1>7, Zenon DEF Runners

\* The runner stays the same, and with it the checks.
LEMMA RunnerFixed ==
  ASSUME HealthNext \/ UNCHANGED healthVars
  PROVE  UNCHANGED <<runner, fix>> /\ Items' = Items /\ Resources' = Resources
<1>1. UNCHANGED <<runner, fix>>
  BY Zenon DEF HealthNext, RunCheck, RunFix, Decide, ResourceFails, healthVars
<1> QED BY <1>1, Zenon DEF Items, Resources

\* One status for each item, whatever the checks find.
LEMMA ShapeStep ==
  ASSUME ReportShape, HealthNext
  PROVE  ReportShape'
<1> DEFINE CS == {"ok", "failed", "aborted"}
<1>0. /\ UNCHANGED <<runner, fix>> /\ Items' = Items /\ Resources' = Resources
      /\ runner \in Runners /\ checks \in Seq(CS) /\ fixes \in Seq(Statuses) /\ pos \in Nat
      /\ Len(Items) \in Nat /\ Len(checks) \in Nat /\ Len(fixes) \in Nat
  BY RunnerFixed, ItemsEnlisted DEF ReportShape
<1>2. \A c \in CS : Append(checks, c) \in Seq(CS) /\ Len(Append(checks, c)) = Len(checks) + 1
  BY <1>0, AppendProperties
<1>3. \A s \in Statuses : Report(s) => fixes' \in Seq(Statuses) /\ Len(fixes') = Len(fixes) + 1
  BY <1>0, AppendProperties DEF Report
<1> HIDE DEF CS
<1>4. CASE RunCheck
  <2>1. /\ pos \in 1 .. Len(Items) /\ ~fixing /\ UNCHANGED <<world, decision>>
        /\ Len(checks) = pos - 1 /\ decision = "none"
    BY <1>0, <1>4 DEF RunCheck, ReportShape
  <2>2. /\ \E c \in CS : checks' = Append(checks, c)
        /\ \/ fixing' = FALSE /\ pos' = pos + 1
           \/ fixing' = fix /\ fix /\ pos' = pos
        /\ \/ UNCHANGED fixes /\ (~fix \/ pos' = pos)
           \/ \E s \in Statuses : Report(s) /\ pos' = pos + 1
    BY <1>4, <2>1 DEF RunCheck, CS, Statuses
  <2>3. checks' \in Seq(CS) /\ Len(checks') = Len(checks) + 1
    BY <1>2, <2>2, Zenon
  <2>4. fixes' \in Seq(Statuses) /\ (fix => Len(fixes') = pos' - 1)
    BY <1>0, <1>3, <2>1, <2>2 DEF ReportShape
  <2> QED BY <1>0, <2>1, <2>2, <2>3, <2>4 DEF ReportShape, CS
<1>5. CASE RunFix
  <2>1. /\ fixing /\ fixing' = FALSE /\ pos' = pos + 1 /\ UNCHANGED <<checks, decision>>
        /\ pos \in 1 .. Len(Items) /\ decision = "none" /\ Len(checks) = pos /\ fix
    BY <1>0, <1>5 DEF RunFix, ReportShape
  <2>2. \E s \in Statuses : Report(s)
    BY <1>5, Zenon DEF RunFix, Statuses
  <2>3. DOMAIN world' = DOMAIN world
    BY <1>5, Zenon DEF RunFix
  <2>4. fixes' \in Seq(Statuses) /\ Len(fixes') = Len(fixes) + 1
    BY <1>3, <2>2, Zenon
  <2> QED BY <1>0, <2>1, <2>3, <2>4 DEF ReportShape
<1>6. CASE Decide
  BY <1>0, <1>6 DEF Decide, ReportShape
<1>7. ASSUME NEW r \in Resources, ResourceFails(r) PROVE ReportShape'
  <2>1. DOMAIN world' = DOMAIN world
    BY <1>7, Zenon DEF ResourceFails
  <2> QED BY <1>0, <1>7, <2>1 DEF ResourceFails, ReportShape
<1> QED BY <1>4, <1>5, <1>6, <1>7, Zenon DEF HealthNext

\* A fixer takes nothing away: what is there, or counts as there, stays.
LEMMA HoldsKept ==
  ASSUME ReportShape, UNCHANGED runner, NEW x \in Resources,
         UNCHANGED world \/ world' = [world EXCEPT ![x] = "up"]
  PROVE  \A i \in 1 .. Len(Items) : Holds(Items[i]) => Holds(Items[i])'
<1>1. \A r \in Resources : world'[r] = world[r] \/ world'[r] = "up"
  BY Zenon DEF ReportShape
<1>2. \A i \in 1 .. Len(Items) : Items[i] \in Resources /\ (Items[i] = "port" => {"redis", "port"} \subseteq Resources)
  BY ItemsEnlisted, Zenon DEF ReportShape
<1>3. ASSUME NEW i \in 1 .. Len(Items), Holds(Items[i]) PROVE Holds(Items[i])'
  <2>1. Items' = Items
    BY Zenon DEF Items
  <2> QED BY <1>1, <1>2, <1>3, <2>1, Zenon DEF Holds
<1> QED BY <1>3, Zenon

\* Every check and fix is recorded as it came out, and stays true until something fails.
LEMMA TrueStep ==
  ASSUME ReportShape, ReportTrue, faults \in Nat, HealthNext
  PROVE  ReportTrue'
<1>0. /\ UNCHANGED <<runner, fix>> /\ Items' = Items /\ Resources' = Resources
      /\ checks \in Seq({"ok", "failed", "aborted"}) /\ fixes \in Seq(Statuses)
      /\ Len(Items) \in Nat /\ Len(checks) \in Nat /\ Len(fixes) \in Nat /\ pos \in Nat
  BY RunnerFixed, ItemsEnlisted DEF ReportShape
<1>1. CASE \E r \in Resources : ResourceFails(r)
  BY <1>1 DEF ResourceFails, ReportTrue
<1>2. CASE Decide
  BY <1>0, <1>2 DEF Decide, ReportTrue, Holds, CheckErrs
<1>3. CASE RunCheck
  <2>1. pos \in 1 .. Len(Items) /\ ~fixing /\ Len(checks) = pos - 1 /\ UNCHANGED <<world, faults>>
    BY <1>0, <1>3 DEF RunCheck, ReportShape
  <2>2. \A i \in 1 .. Len(Items) : Holds(Items[i])' = Holds(Items[i]) /\ CheckErrs(Items[i])' = CheckErrs(Items[i])
    BY <1>0, <2>1, Zenon DEF Holds, CheckErrs
  <2> SUFFICES ASSUME faults = 0
               PROVE  /\ \A i \in 1 .. Len(checks') : /\ checks'[i] = "ok" => Holds(Items[i])'
                                                      /\ checks'[i] = "aborted" => CheckErrs(Items[i])'
                      /\ fix /\ runner # "cluster_k8s" =>
                           \A i \in 1 .. Len(fixes') :
                             Succeeded(fixes'[i]) => Holds(Items[i])' \/ checks'[i] = "aborted"
    BY <1>0, <2>1, Zenon DEF ReportTrue
  <2>5. \/ CheckErrs(Items[pos]) /\ checks' = Append(checks, "aborted") /\ (fix => Report("omitted"))
        \/ Holds(Items[pos]) /\ checks' = Append(checks, "ok") /\ (fix => Report("unnecessary"))
        \/ checks' = Append(checks, "failed") /\ (fix => UNCHANGED fixes)
    BY <1>3, Zenon DEF RunCheck
  <2>10. \A c \in {"ok", "failed", "aborted"} :
           /\ Len(Append(checks, c)) = Len(checks) + 1 /\ Append(checks, c)[Len(checks) + 1] = c
           /\ \A i \in 1 .. Len(checks) : Append(checks, c)[i] = checks[i]
    BY <1>0, AppendProperties
  <2>11. Len(checks) + 1 = pos
    BY <1>0, <2>1
  <2>9. /\ Len(checks') = Len(checks) + 1 /\ \A i \in 1 .. Len(checks) : checks'[i] = checks[i]
        /\ \/ checks'[pos] = "aborted" /\ CheckErrs(Items[pos]) /\ (fix => Report("omitted"))
           \/ checks'[pos] = "ok" /\ Holds(Items[pos]) /\ (fix => Report("unnecessary"))
           \/ checks'[pos] = "failed" /\ (fix => UNCHANGED fixes)
    BY <2>5, <2>10, <2>11, Zenon
  <2>6. \A i \in 1 .. Len(checks') : /\ checks'[i] = "ok" => Holds(Items[i])
                                     /\ checks'[i] = "aborted" => CheckErrs(Items[i])
    BY <1>0, <2>1, <2>9 DEF ReportTrue
  <2>7. ASSUME fix, runner # "cluster_k8s"
        PROVE  \A i \in 1 .. Len(fixes') : Succeeded(fixes'[i]) => Holds(Items[i]) \/ checks'[i] = "aborted"
    <3>1. \/ UNCHANGED fixes
          \/ /\ Holds(Items[pos]) \/ checks'[pos] = "aborted"
             /\ Report("unnecessary") \/ Report("omitted")
      BY <2>7, <2>9, Zenon
    <3>4. Len(fixes) = Len(checks)
      BY <2>1, <2>7, Zenon DEF ReportShape
    <3>5. \A i \in 1 .. Len(fixes) : Succeeded(fixes[i]) => Holds(Items[i]) \/ checks'[i] = "aborted"
      BY <2>7, <2>9, <3>4, Zenon DEF ReportTrue
    <3>2. CASE UNCHANGED fixes
      BY <3>2, <3>5, Zenon
    <3>3. CASE /\ Holds(Items[pos]) \/ checks'[pos] = "aborted"
               /\ Report("unnecessary") \/ Report("omitted")
      <4>1. /\ Len(fixes') = Len(fixes) + 1 /\ \A i \in 1 .. Len(fixes) : fixes'[i] = fixes[i]
        <5>1. \A c \in Statuses : /\ Len(Append(fixes, c)) = Len(fixes) + 1
                                  /\ \A i \in 1 .. Len(fixes) : Append(fixes, c)[i] = fixes[i]
          BY <1>0, AppendProperties
        <5> QED BY <3>3, <5>1, Zenon DEF Report, Statuses
      <4> QED BY <1>0, <2>1, <3>3, <3>4, <3>5, <4>1
    <3> QED BY <3>1, <3>2, <3>3, Zenon
  <2>8. Len(checks') <= Len(Items) /\ (fix => Len(fixes') <= Len(Items))
    <3>1. ReportShape'
      BY ShapeStep, Zenon
    <3>2. Len(checks') = Len(checks) + 1
      BY <2>9, Zenon
    <3>3. fix => Len(fixes') = pos' - 1 /\ pos' \in 1 .. Len(Items) + 1
      BY <1>0, <3>1, Zenon DEF ReportShape
    <3> QED BY <1>0, <2>1, <3>2, <3>3
  <2> QED BY <1>0, <2>2, <2>6, <2>7, <2>8
<1>4. CASE RunFix
  <2>1. /\ pos \in 1 .. Len(Items) /\ fix /\ Len(fixes) = pos - 1 /\ Len(checks) = pos
        /\ UNCHANGED <<checks, faults>>
    BY <1>0, <1>4 DEF RunFix, ReportShape
  <2>2. /\ Items[pos] \in Resources
        /\ UNCHANGED world \/ (world' = [world EXCEPT ![Items[pos]] = "up"] /\ world[Items[pos]] # "error")
    BY <1>4, <2>1, ItemsEnlisted, Zenon DEF RunFix, ReportShape
  <2>3. \A i \in 1 .. Len(Items) : Holds(Items[i]) => Holds(Items[i])'
    BY <1>0, <2>2, HoldsKept, Zenon
  <2>5. \A i \in 1 .. Len(Items) : CheckErrs(Items[i]) => CheckErrs(Items[i])'
    <3>1. \A i \in 1 .. Len(Items) : Items[i] \in DOMAIN world
      BY ItemsEnlisted, Zenon DEF ReportShape
    <3> QED BY <1>0, <2>2, <3>1, Zenon DEF CheckErrs
  <2>6. Len(checks) <= Len(Items)
    BY <1>0, <2>1
  <2> SUFFICES ASSUME faults = 0
               PROVE  /\ \A i \in 1 .. Len(checks) : /\ checks[i] = "ok" => Holds(Items[i])'
                                                     /\ checks[i] = "aborted" => CheckErrs(Items[i])'
                      /\ runner # "cluster_k8s" =>
                           \A i \in 1 .. Len(fixes') :
                             Succeeded(fixes'[i]) => Holds(Items[i])' \/ checks[i] = "aborted"
    BY <1>0, <2>1, Zenon DEF ReportTrue
  <2>4. ASSUME runner # "cluster_k8s"
        PROVE  \A i \in 1 .. Len(fixes') : Succeeded(fixes'[i]) => Holds(Items[i])' \/ checks[i] = "aborted"
    <3>1. PICK s \in Statuses : /\ Report(s)
                                /\ Succeeded(s) => world' = [world EXCEPT ![Items[pos]] = "up"]
      BY <1>4, <2>4, Zenon DEF RunFix, Statuses, Succeeded, Fixer
    <3>2. /\ Len(fixes') = Len(fixes) + 1 /\ \A i \in 1 .. Len(fixes) : fixes'[i] = fixes[i]
          /\ fixes'[Len(fixes) + 1] = s
      BY <1>0, <3>1, AppendProperties DEF Report
    <3>3. \A i : i = pos /\ Succeeded(s) => Holds(Items[i])'
      <4>1. Succeeded(s) => world'[Items[pos]] = "up"
        BY <2>2, <3>1, Zenon DEF ReportShape
      <4> QED BY <1>0, <4>1, Zenon DEF Holds
    <3> QED BY <1>0, <2>1, <2>3, <2>4, <3>2, <3>3 DEF ReportTrue
  <2>7. \A i \in 1 .. Len(checks) : i \in 1 .. Len(Items)
    BY <1>0, <2>6
  <2> QED BY <2>3, <2>4, <2>5, <2>7, Zenon DEF ReportTrue
<1> QED BY <1>1, <1>2, <1>3, <1>4, Zenon DEF HealthNext

\* The decision follows the report, and each fix of local:docker finds what it needs.
LEMMA DecisionStep ==
  ASSUME ReportShape, ReportTrue, DecisionTrue, HealthNext
  PROVE  DecisionTrue'
<1>0. /\ UNCHANGED <<runner, fix>> /\ Items' = Items /\ faults \in Nat
      /\ checks \in Seq({"ok", "failed", "aborted"}) /\ fixes \in Seq(Statuses)
      /\ Len(Items) \in Nat /\ Len(checks) \in Nat /\ Len(fixes) \in Nat /\ pos \in Nat
  BY RunnerFixed, ItemsEnlisted DEF ReportShape, DecisionTrue
<1>1. CASE \E r \in Resources : ResourceFails(r)
  BY <1>0, <1>1 DEF ResourceFails, DecisionTrue
<1>5. UNCHANGED world => Visible' = Visible
  BY RunnerFixed, Zenon DEF Visible
<1>2. CASE Decide
  <2>1. UNCHANGED <<checks, fixes, faults, refused>> /\ Visible' = Visible
    BY <1>2, <1>5, Zenon DEF Decide
  <2>2. FixesSucceeded <=> \A i \in 1 .. Len(fixes) : Succeeded(fixes[i])
    BY <1>0, LenProperties, Zenon DEF FixesSucceeded
  <2>3. ChecksSucceeded => \A i \in 1 .. Len(checks) : checks[i] = "ok"
    <3>1. \A i \in 1 .. Len(checks) : checks[i] \in {"ok", "failed", "aborted"}
      BY <1>0, ElementOfSeq, Zenon
    <3>2. DOMAIN checks = 1 .. Len(checks)
      BY <1>0, LenProperties, Zenon
    <3> QED BY <3>1, <3>2, Zenon DEF ChecksSucceeded, Succeeded
  <2>4. decision' = IF ~FixesSucceeded THEN "abort" ELSE IF ~ChecksSucceeded THEN "warn" ELSE "ok"
    BY <1>2, Zenon DEF Decide
  <2> QED BY <1>0, <2>1, <2>2, <2>3, <2>4, Zenon DEF DecisionTrue
<1>3. CASE RunCheck
  <2>1. pos \in 1 .. Len(Items) /\ decision = "none" /\ UNCHANGED <<world, faults, refused, decision>>
    BY <1>0, <1>3 DEF RunCheck, ReportShape
  <2>5. Visible' = Visible
    BY <1>5, <2>1, Zenon
  <2>2. fix => UNCHANGED fixes \/ Report("unnecessary") \/ Report("omitted")
    BY <1>3, Zenon DEF RunCheck
  <2>3. ASSUME NEW s \in Statuses, Report(s), Succeeded(s), \A i \in 1 .. Len(fixes) : Succeeded(fixes[i])
        PROVE  \A i \in 1 .. Len(fixes') : Succeeded(fixes'[i])
    <3>1. /\ Len(fixes') = Len(fixes) + 1 /\ \A i \in 1 .. Len(fixes) : fixes'[i] = fixes[i]
          /\ fixes'[Len(fixes) + 1] = s
      BY <1>0, <2>3, AppendProperties DEF Report
    <3> QED BY <1>0, <2>3, <3>1
  <2>4. {"unnecessary", "omitted"} \subseteq Statuses /\ Succeeded("unnecessary") /\ Succeeded("omitted")
    BY Zenon DEF Succeeded, Statuses
  <2> QED BY <1>0, <2>1, <2>2, <2>3, <2>4, <2>5, Zenon DEF DecisionTrue
<1>4. CASE RunFix
  <2>1. /\ pos \in 1 .. Len(Items) /\ decision = "none" /\ UNCHANGED <<faults, decision>>
        /\ Len(fixes) = pos - 1
    BY <1>0, <1>4 DEF RunFix, ReportShape
  <2>3. Visible' => Visible
    <3>1. UNCHANGED world \/ (world' = [world EXCEPT ![Items[pos]] = "up"] /\ world[Items[pos]] # "error")
      BY <1>4, Zenon DEF RunFix
    <3>2. DOMAIN world = Resources /\ Resources' = Resources
      BY RunnerFixed, Zenon DEF ReportShape
    <3> QED BY <3>1, <3>2, Zenon DEF Visible
  <2>2. ASSUME fix, ~refused', faults = 0, Visible', runner = "local_docker"
        PROVE  \A i \in 1 .. Len(fixes') : Succeeded(fixes'[i])
    <3>1. ~refused
      BY <1>4, <2>2, Zenon DEF RunFix
    <3>8. \A i \in 1 .. Len(Items) : ~CheckErrs(Items[i])
      BY <2>2, <2>3, ItemsEnlisted, Zenon DEF Visible, CheckErrs, ReportShape
    <3>9. \A i \in 1 .. Len(fixes) : i \in 1 .. Len(checks) /\ i \in 1 .. Len(Items)
      BY <1>0, <1>4, <2>1 DEF ReportShape, RunFix
    <3>2. \A i \in 1 .. Len(fixes) : Succeeded(fixes[i]) /\ Holds(Items[i])
      BY <2>2, <2>3, <3>1, <3>8, <3>9, Zenon DEF DecisionTrue, ReportTrue
    <3>3. /\ \A i \in 1 .. Len(Items) : Items[i] # "port" /\ Items[i] \in Resources
          /\ Items[1] \notin Containers /\ Items[2] \notin Containers /\ Items[2] = "network"
      BY <2>2, ItemsEnlisted, Zenon DEF ReportShape
    <3>4. Items[pos] \in Containers => world["network"] = "up"
      <4>1. pos # 1 /\ pos # 2 => 2 \in 1 .. Len(fixes)
        BY <2>1
      <4>2. pos # 1 /\ pos # 2 => Holds("network")
        BY <3>2, <3>3, <4>1, Zenon
      <4> QED BY <3>3, <4>2, Zenon DEF Holds
    <3>5. Fixable(Items[pos])
      BY <2>1, <2>2, <2>3, <3>3, <3>4, Zenon DEF Fixable, Fixer, Needs, Visible
    <3>6. Report("ok")
      BY <1>4, <2>2, <3>3, <3>5, <2>1, Zenon DEF RunFix, Fixer
    <3>7. /\ Len(fixes') = Len(fixes) + 1 /\ \A i \in 1 .. Len(fixes) : fixes'[i] = fixes[i]
          /\ fixes'[Len(fixes) + 1] = "ok"
      BY <1>0, <3>6, AppendProperties DEF Report, Statuses
    <3> QED BY <1>0, <3>2, <3>7 DEF Succeeded
  <2> QED BY <1>0, <2>1, <2>2, Zenon DEF DecisionTrue
<1> QED BY <1>1, <1>2, <1>3, <1>4, Zenon DEF HealthNext

\* And and Or go on until a fixer decides, and then return what it decides.
LEMMA CombineStep ==
  ASSUME CombineInv, CombineNext
  PROVE  CombineInv'
<1>0. /\ given \in Seq(Results) /\ called \in Nat /\ called <= Len(given) /\ Len(given) \in Nat
      /\ DOMAIN given = 1 .. Len(given) /\ ret = "running" /\ UNCHANGED <<kind, given>>
  BY LenProperties DEF CombineInv, CombineNext, All, Any, Not, And, Or, Call, End
<1>1. called' \in 0 .. Len(given)
  BY <1>0 DEF CombineNext, All, Any, Not, And, Or, Call, End
<1>2. CASE kind \notin FixerKinds
  BY <1>0, <1>1, <1>2, Zenon DEF CombineInv, Applied, FixerKinds
<1>3. CASE kind \in FixerKinds
  <2>1. given \in Seq({"ok", "error"})
    BY <1>3, Zenon DEF CombineInv
  <2>2. \A i \in 1 .. Len(given) : given[i] \in {"ok", "error"}
    BY <2>1, ElementOfSeq, Zenon
  <2>3. CASE And
    <3>1. /\ kind = "And" /\ \A i \in 1 .. called : given[i] = "ok"
          /\ Call(Result = "error", Result) \/ End("ok")
      BY <1>0, <2>3, Zenon DEF And, CombineInv
    <3>2. /\ ret' # "running" => Applied'
          /\ ret' = "running" => \A i \in 1 .. called' : given[i] = "ok"
      <4>1. CASE Call(Result = "error", Result)
        <5>1. /\ called' = called + 1 /\ called + 1 \in DOMAIN given
              /\ ret' = IF given[called + 1] = "error" THEN "error" ELSE "running"
          BY <1>0, <4>1 DEF Call, Result
        <5>2. CASE given[called + 1] = "error"
          BY <1>0, <3>1, <5>1, <5>2 DEF Applied
        <5>3. CASE given[called + 1] = "ok"
          BY <1>0, <3>1, <5>1, <5>3
        <5> QED BY <1>0, <2>2, <5>1, <5>2, <5>3, Zenon
      <4>2. CASE End("ok")
        BY <1>0, <3>1, <4>2 DEF End, Applied
      <4> QED BY <3>1, <4>1, <4>2, Zenon
    <3> QED BY <1>0, <1>1, <2>1, <3>1, <3>2, Zenon DEF CombineInv
  <2>4. CASE Or
    <3>1. /\ kind = "Or" /\ \A i \in 1 .. called : given[i] = "error"
          /\ Call(Result = "ok", Result) \/ End("error")
      BY <1>0, <2>4, Zenon DEF Or, CombineInv
    <3>2. /\ ret' # "running" => Applied'
          /\ ret' = "running" => \A i \in 1 .. called' : given[i] = "error"
      <4>1. CASE Call(Result = "ok", Result)
        <5>1. /\ called' = called + 1 /\ called + 1 \in DOMAIN given
              /\ ret' = IF given[called + 1] = "ok" THEN "ok" ELSE "running"
          BY <1>0, <4>1 DEF Call, Result
        <5>2. CASE given[called + 1] = "ok"
          BY <1>0, <3>1, <5>1, <5>2 DEF Applied
        <5>3. CASE given[called + 1] = "error"
          BY <1>0, <3>1, <5>1, <5>3
        <5> QED BY <1>0, <2>2, <5>1, <5>2, <5>3, Zenon
      <4>2. CASE End("error")
        BY <1>0, <3>1, <4>2 DEF End, Applied
      <4> QED BY <3>1, <4>1, <4>2, Zenon
    <3> QED BY <1>0, <1>1, <2>1, <3>1, <3>2, Zenon DEF CombineInv
  <2> QED BY <1>3, <2>3, <2>4, Zenon DEF CombineNext, FixerKinds, All, Any, Not
<1> QED BY <1>2, <1>3, Zenon

LEMMA CombineStarts == CombineInit => CombineInv
<1> SUFFICES ASSUME CombineInit PROVE CombineInv
  BY Zenon
<1>1. \A n, S : UpTo(n, S) \subseteq Seq(S)
  BY SeqDef DEF UpTo
<1>2. \A r \in Results : <<r>> \in Seq(Results)
  OBVIOUS
<1>3. Seq({"ok", "error"}) \subseteq Seq(Results)
  BY SeqDef DEF Results
<1>4. given \in Seq(Results) /\ (kind \in FixerKinds => given \in Seq({"ok", "error"}))
  BY <1>1, <1>2, <1>3, Zenon DEF CombineInit, FixerKinds, CheckerKinds
<1>5. called = 0 /\ ret = "running" /\ Len(given) \in Nat
  BY <1>4 DEF CombineInit
<1> QED BY <1>4, <1>5 DEF CombineInv

\* A report tells the state of the environment as long as nothing fails meanwhile, whatever
\* the runner, and however many faults and refusals there are.
THEOREM HealthInvariant == HealthSpec => [](ReportShape /\ ReportTrue /\ DecisionTrue)
<1> DEFINE Inv == ReportShape /\ ReportTrue /\ DecisionTrue
<1>1. HealthInit => Inv
  <2> SUFFICES ASSUME HealthInit PROVE Inv
    BY Zenon
  <2>1. /\ runner \in Runners /\ world \in [Resources -> {"up", "down", "error"}] /\ fix \in BOOLEAN /\ pos = 1
        /\ ~fixing /\ checks = <<>> /\ fixes = <<>> /\ faults = 0 /\ decision = "none"
    BY Zenon DEF HealthInit
  <2>2. Len(Items) \in {6, 7}
    BY <2>1, ItemsEnlisted, Zenon
  <2>3. ReportShape
    BY <2>1, <2>2 DEF ReportShape
  <2> QED BY <2>1, <2>3 DEF ReportTrue, DecisionTrue
<1>2. Inv /\ [HealthNext]_healthVars => Inv'
  <2> SUFFICES ASSUME Inv, [HealthNext]_healthVars PROVE Inv'
    BY Zenon
  <2>1. CASE UNCHANGED healthVars
    BY <2>1, RunnerFixed DEF healthVars, ReportShape, ReportTrue, DecisionTrue, Holds, CheckErrs, Visible
  <2>2. CASE HealthNext
    BY <2>2, ShapeStep, TrueStep, DecisionStep, Zenon DEF DecisionTrue
  <2> QED BY <2>1, <2>2, Zenon
<1> QED BY <1>1, <1>2, PTL DEF HealthSpec

\* A run that goes on after its health check has every resource it needs, save those whose
\* check was aborted, if nothing failed meanwhile, and combined fixers apply what they
\* should (RunChecks, doRun, And, Or).
THEOREM ReportIsTrue == HealthSpec /\ CombineSpec => []OkIsHealthy
<1>1. CombineSpec => []CombineInv
  <2>1. CombineInv /\ [CombineNext]_combineVars => CombineInv'
    <3>1. CombineInv /\ UNCHANGED combineVars => CombineInv'
      BY Zenon DEF combineVars, CombineInv, Applied
    <3> QED BY <3>1, CombineStep, Zenon
  <2> QED BY <2>1, CombineStarts, PTL DEF CombineSpec
<1>2. ReportShape /\ ReportTrue /\ DecisionTrue /\ CombineInv => OkIsHealthy
  <2> SUFFICES ASSUME ReportShape, ReportTrue, DecisionTrue, CombineInv PROVE OkIsHealthy
    BY Zenon
  <2>1. /\ Len(Items) \in Nat /\ \A r \in Resources : \E i \in 1 .. Len(Items) : r = Items[i]
    BY ItemsEnlisted DEF ReportShape
  <2>2. ASSUME faults = 0, decision = "ok" \/ (decision = "warn" /\ fix /\ runner # "cluster_k8s")
        PROVE  \A i \in 1 .. Len(Items) : Holds(Items[i]) \/ (decision = "warn" /\ checks[i] = "aborted")
    <3>1. Len(checks) = Len(Items) /\ (fix => Len(fixes) = Len(Items))
      BY <2>1, <2>2 DEF ReportShape
    <3>2. CASE decision = "ok"
      <4>1. \A i \in 1 .. Len(Items) : checks[i] = "ok"
        BY <3>1, <3>2, Zenon DEF DecisionTrue
      <4>2. \A i \in 1 .. Len(Items) : checks[i] = "ok" => Holds(Items[i])
        BY <2>2, <3>1 DEF ReportTrue
      <4> QED BY <4>1, <4>2, Zenon
    <3>3. CASE decision = "warn" /\ fix /\ runner # "cluster_k8s"
      BY <2>2, <3>1, <3>3, Zenon DEF ReportTrue, DecisionTrue
    <3> QED BY <2>2, <3>2, <3>3, Zenon
  <2> QED BY <2>1, <2>2, Zenon DEF OkIsHealthy, CombineInv
<1> QED BY <1>1, <1>2, HealthInvariant, PTL

\* local:docker recovers from any state that its checks can tell, since the fixes come in an order
\* in which each finds what it needs (localCommonHealthcheck).
THEOREM LocalDockerRecovers == HealthSpec => []Recovers
<1>1. DecisionTrue => Recovers
  BY Zenon DEF DecisionTrue, Recovers
<1> QED BY <1>1, HealthInvariant, PTL
=============================================================================
