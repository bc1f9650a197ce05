--------------------------------- MODULE Rpc ---------------------------------
(***************************************************************************)
(* One request of the client to the daemon.  The client uploads a request, *)
(* for builds and runs a composition followed by archives that it produces *)
(* while it sends; the handler answers with a stream of chunks, which the  *)
(* client reads until a result, an error, or the end of the stream.        *)
(*                                                                         *)
(* The engine's part of a request is one call that writes progress, and    *)
(* binary chunks when it collects outputs, and succeeds or fails.          *)
(***************************************************************************)
EXTENDS Naturals, Sequences, FiniteSets, Functions

CONSTANTS
    Endpoints,     \* the endpoints requested
    MaxChunks,     \* the most chunks the engine's call writes
    FilterFails,   \* whether copying the plan directory may fail
    Interrupts     \* whether client and connection may go away

Uploads == {"build", "run"}
VARIABLES
    endpoint,  \* the endpoint of the request
    want,      \* the parts the client has to send
    upload,    \* the body: "open", "closed", "aborted", or "stuck"
    sent,      \* how many parts were written to the body
    got,       \* the parts the daemon has decoded or unpacked
    handler,   \* where the handler is
    call,      \* the engine's call: "none", "ok" or "error"
    stream,    \* the chunks of the response
    read,      \* how many of them the client has read
    cut,       \* whether the connection is gone
    file,      \* the binary chunks in the output file
    outcome    \* what the client's command made of it

rpcVars == <<endpoint, want, upload, sent, got, handler, call, stream, read, cut, file, outcome>>
uploadVars == <<endpoint, want, upload, sent>>
handlerVars == <<got, handler, call, stream>>
readerVars == <<read, file, outcome>>

Finals == {"result", "absent", "error"}

\* The parts of a build, and of a run some of whose groups have to be built: the
\* composition, the plan, and what the manifest and the command line add.
WithSources ==
    {<<"composition", "plan">> \o rest :
       rest \in {<<>>, <<"sdk">>, <<"extra">>, <<"sdk", "extra">>}}

RpcInit ==
    /\ endpoint \in Endpoints
    /\ want \in CASE endpoint = "build" -> WithSources
                  [] endpoint = "run" -> WithSources \union {<<"composition">>}
                  [] OTHER -> {<<>>}
    /\ upload = IF endpoint \in Uploads THEN "open" ELSE "closed"
    /\ sent = 0
    /\ got = <<>>
    /\ handler = IF endpoint \in Uploads THEN "mkdir" ELSE "decode"
    /\ call = "none"
    /\ stream = <<>>
    /\ read = 0
    /\ cut = FALSE
    /\ file = 0
    /\ outcome = "pending"
-----------------------------------------------------------------------------
(* The goroutine of runBuild that writes the body. *)

\* The next part was encoded or zipped, and copied.
SendPart ==
    /\ upload = "open" /\ ~cut
    /\ sent < Len(want)
    /\ sent' = sent + 1
    /\ UNCHANGED <<endpoint, want, upload, handlerVars, cut, readerVars>>

\* It was not: the pipe is closed with the error, which ends the request.
SendFails ==
    /\ upload = "open" /\ ~cut
    /\ sent < Len(want)
    /\ upload' = "aborted"
    /\ UNCHANGED <<endpoint, want, sent, handlerVars, cut, readerVars>>

\* getFilteredDirectory failed: the goroutine returns and leaves the pipe open.
FilterPlanFails ==
    /\ FilterFails
    /\ upload = "open" /\ sent = 1 /\ Len(want) > 1
    /\ upload' = "stuck"
    /\ UNCHANGED <<endpoint, want, sent, handlerVars, cut, readerVars>>

CloseUpload ==
    /\ upload = "open" /\ ~cut
    /\ sent = Len(want)
    /\ upload' = "closed"
    /\ UNCHANGED <<endpoint, want, sent, handlerVars, cut, readerVars>>
-----------------------------------------------------------------------------
(* The handler. *)

\* WriteError logs a warning, which is a progress chunk, and writes the error.
WriteError ==
    /\ stream' = stream \o <<"progress", "error">>
    /\ handler' = "done"

\* The request's directory under the work directory.
Mkdir ==
    /\ handler = "mkdir"
    /\ \/ handler' = "consume" /\ UNCHANGED stream
       \/ WriteError
    /\ UNCHANGED <<uploadVars, got, call, cut, readerVars>>

\* consumeRunBuildRequest: a part is unpacked, or something about it fails.
ConsumePart ==
    /\ handler = "consume"
    /\ Len(got) < sent
    /\ \/ got' = Append(got, want[Len(got) + 1]) /\ UNCHANGED <<handler, stream>>
       \/ WriteError /\ UNCHANGED got
    /\ UNCHANGED <<uploadVars, call, cut, readerVars>>

\* NextPart returns io.EOF after the closing boundary, and an error if the body
\* ends before it.
ConsumeEnd ==
    /\ handler = "consume"
    /\ Len(got) = sent
    /\ \/ upload = "closed" /\ handler' = "check" /\ UNCHANGED stream
       \/ (upload = "aborted" \/ (cut /\ upload # "closed")) /\ WriteError
    /\ UNCHANGED <<uploadVars, got, call, cut, readerVars>>

\* A build needs the plan; a run with groups to build needs some archive.
CheckSources ==
    LET present == IF endpoint = "build" THEN "plan" \in Range(got)
                   ELSE "plan" \in Range(want) => Len(got) > 1
    IN  /\ handler = "check"
        /\ \/ present /\ handler' = "engine" /\ UNCHANGED stream
           \/ ~present /\ WriteError
        /\ UNCHANGED <<uploadVars, got, call, cut, readerVars>>

\* A request that cannot be decoded or is not valid.  Only outputsHandler sets the status before
\* anything was written.
Decode ==
    /\ handler = "decode"
    /\ \/ handler' = "engine" /\ UNCHANGED stream
       \/ endpoint = "outputs" /\ handler' = "refused" /\ UNCHANGED stream
       \/ endpoint # "outputs" /\ WriteError
    /\ UNCHANGED <<uploadVars, got, call, cut, readerVars>>

\* The engine writes while it works.
Engine ==
    /\ handler = "engine" /\ call = "none"
    /\ endpoint \in {"purge", "outputs", "terminate", "healthcheck", "logs"}
    /\ Len(stream) < MaxChunks
    /\ \E c \in {"progress"} \union (IF endpoint = "outputs" THEN {"binary"} ELSE {}) :
         stream' = Append(stream, c)
    /\ UNCHANGED <<uploadVars, got, handler, call, cut, readerVars>>

EngineReturns ==
    /\ handler = "engine" /\ call = "none"
    /\ call' \in {"ok", "error"}
    /\ UNCHANGED <<uploadVars, got, handler, stream, cut, readerVars>>

\* outputsHandler answers in a deferred call, with false unless all went well;
\* statusHandler logs an error and answers nothing.
Answer ==
    /\ handler = "engine" /\ call # "none"
    /\ CASE call = "ok" -> stream' = Append(stream, "result") /\ handler' = "done"
         [] call = "error" /\ endpoint = "outputs" ->
              stream' = Append(stream, "absent") /\ handler' = "done"
         [] call = "error" /\ endpoint = "status" ->
              stream' = Append(stream, "progress") /\ handler' = "done"
         [] OTHER -> WriteError
    /\ UNCHANGED <<uploadVars, got, call, cut, readerVars>>
-----------------------------------------------------------------------------
(* The client. *)

\* The client is interrupted or the connection breaks.
Cut ==
    /\ Interrupts /\ ~cut /\ outcome = "pending"
    /\ cut' = TRUE
    /\ UNCHANGED <<uploadVars, handlerVars, readerVars>>

\* request returns an error: the upload was aborted, the connection is gone, or
\* the status is an error.
RequestFails ==
    /\ outcome = "pending"
    /\ (upload = "aborted" /\ read = 0) \/ cut \/ handler = "refused"
    /\ outcome' = "error"
    /\ UNCHANGED <<uploadVars, handlerVars, cut, read, file>>

\* The file is kept whatever the result says.
ParseKeepingFile ==
    /\ outcome = "pending" /\ ~cut
    /\ read < Len(stream)
    /\ read' = read + 1
    /\ LET c == stream[read + 1]
       IN  /\ file' = IF c = "binary" THEN file + 1 ELSE file
           /\ outcome' = IF c \in {"result", "absent"} THEN "ok"
                         ELSE IF c = "error" THEN "error" ELSE "pending"
    /\ UNCHANGED <<uploadVars, handlerVars, cut>>

\* parseGeneric, and collect, which removes the file when there are no outputs.
ParseChunk ==
    /\ outcome = "pending" /\ ~cut
    /\ read < Len(stream)
    /\ read' = read + 1
    /\ LET c == stream[read + 1]
       IN  /\ file' = IF c = "binary" THEN file + 1 ELSE IF c = "absent" THEN 0 ELSE file
           /\ outcome' = IF c = "result" THEN "ok" ELSE IF c = "absent" THEN "none"
                         ELSE IF c = "error" THEN "error" ELSE "pending"
    /\ UNCHANGED <<uploadVars, handlerVars, cut>>

\* Decode returns io.EOF.
ParseEnd ==
    /\ outcome = "pending" /\ ~cut
    /\ handler = "done" /\ read = Len(stream)
    /\ outcome' = "error"
    /\ UNCHANGED <<uploadVars, handlerVars, cut, read, file>>

Finished ==
    /\ outcome # "pending" /\ handler \in {"done", "refused"}
    /\ UNCHANGED rpcVars

Body == SendPart \/ SendFails \/ FilterPlanFails \/ CloseUpload
Handler ==
    \/ Mkdir \/ ConsumePart \/ ConsumeEnd \/ CheckSources
    \/ Decode \/ Engine \/ EngineReturns \/ Answer
Client == RequestFails \/ ParseChunk \/ ParseEnd

RpcNext ==
    \/ SendPart \/ SendFails \/ FilterPlanFails \/ CloseUpload
    \/ Mkdir \/ ConsumePart \/ ConsumeEnd \/ CheckSources
    \/ Decode \/ Engine \/ EngineReturns \/ Answer
    \/ Cut \/ RequestFails \/ ParseChunk \/ ParseEnd
    \/ Finished

RpcSpec == RpcInit /\ [][RpcNext]_rpcVars

\* The goroutine that writes the body, the handler and the client are run by
\* their schedulers, and the engine's call returns.
RpcFairness == WF_rpcVars(Body) /\ WF_rpcVars(Handler) /\ WF_rpcVars(Client)
-----------------------------------------------------------------------------
RpcTypeOK ==
    /\ endpoint \in Endpoints
    /\ want \in WithSources \union {<<"composition">>, <<>>}
    /\ upload \in {"open", "closed", "aborted", "stuck"}
    /\ sent \in 0..Len(want)
    /\ got = SubSeq(want, 1, Len(got))
    /\ handler \in {"mkdir", "consume", "check", "decode", "engine", "done", "refused"}
    /\ call \in {"none", "ok", "error"}
    /\ stream \in Seq({"progress", "binary"} \union Finals)
    /\ read \in 0..Len(stream)
    /\ cut \in BOOLEAN
    /\ file \in 0..MaxChunks
    /\ outcome \in {"pending", "ok", "none", "error"}

\* What rpc/chunk.go promises of a response: any number of progress chunks and
\* exactly one result or error chunk, the last, before the end of the stream.
\* Every path of every handler has to see to it by itself.
OneFinalChunk ==
    handler = "done" =>
      {i \in DOMAIN stream : stream[i] \in Finals} = {Len(stream)}

\* A build or run is queued only with all of the parts that the client set out
\* to send: however the upload is interrupted while its archives are produced,
\* consumeRunBuildRequest does not take the end of the body for its end.
QueuedWhole ==
    endpoint \in Uploads /\ call # "none" => got = want

\* The client reports what happened: success only if the engine's call
\* succeeded, and then the output file has every chunk that was collected; that
\* there are no outputs only if there was an error, and then no file is left.
OutcomeTrue ==
    /\ outcome = "ok" =>
         /\ call = "ok"
         /\ file = Cardinality({i \in DOMAIN stream : stream[i] = "binary"})
    /\ outcome = "none" => call = "error" /\ file = 0

\* A request that is not interrupted comes to an end at the client, also when an
\* archive cannot be produced, for then the pipe is closed with the error.
Answered == <>(outcome # "pending")
-----------------------------------------------------------------------------
(* The invariant that makes QueuedWhole and OutcomeTrue inductive. *)

Parts == {"composition", "plan", "sdk", "extra"}
Chunks == {"progress", "binary"} \union Finals
Binary(n) == {i \in 1..n : stream[i] = "binary"}

\* The daemon unpacks the parts in order, no more than were sent; a body that was
\* closed is whole, and only a whole one gets past consumeRunBuildRequest.
UploadInOrder ==
    /\ want \in Seq(Parts) /\ got \in Seq(Parts) /\ sent \in Nat
    /\ Len(got) <= sent /\ sent <= Len(want)
    /\ \A i \in 1..Len(got) : got[i] = want[i]
    /\ endpoint \in Uploads =>
         /\ upload = "closed" => sent = Len(want)
         /\ handler # "decode"
         /\ handler \in {"check", "engine"} \/ call # "none" => got = want

\* A final chunk is the last one, written when the handler is done, and a result or the
\* absence of outputs is what the engine's call returned.
StreamEnds ==
    /\ stream \in Seq(Chunks)
    /\ \A i \in DOMAIN stream :
         /\ stream[i] \in Finals => i = Len(stream) /\ handler = "done"
         /\ stream[i] = "result" => call = "ok"
         /\ stream[i] = "absent" => call = "error"

\* The client's file has the binary chunks it has read.
ReaderKeepsUp ==
    /\ read \in Nat /\ read <= Len(stream) /\ file \in Nat
    /\ outcome = "pending" => file = Cardinality(Binary(read))
    /\ outcome \in {"ok", "none"} => handler = "done"

RpcInv == UploadInOrder /\ StreamEnds /\ ReaderKeepsUp /\ OutcomeTrue
=============================================================================
