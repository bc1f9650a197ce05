------------------------------- MODULE Storm -------------------------------
(***************************************************************************)
(* The test case storm of the plan benchmarks: every instance opens its    *)
(* listeners, shares their addresses, dials others with a bounded number   *)
(* of dials at a time, and writes to its connections once all dials of all *)
(* instances are done (plans/benchmarks/storm.go).                         *)
(*                                                                         *)
(* stormPc has the main goroutine of an instance, conn and left its        *)
(* outgoing connections: where the goroutine of each is, and the chunks it *)
(* still has to write.  stormCounts has the signals of the sync service,   *)
(* shared the instances that have published their addresses, and target    *)
(* the instance that a connection was dialed to.                           *)
(***************************************************************************)
EXTENDS Integers, FiniteSets

CONSTANTS
    StormInstances,   \* the instances of the run
    Outgoing,         \* the outgoing connections of an instance (conn_outgoing)
    ConcurrentDials,  \* the capacity of sem and of writesem (concurrent_dials)
    Chunks,           \* the chunks written to a connection (data_size_kb)
    StormFaults       \* a listen, a dial or a write may fail

ASSUME StormAssumption ==
    IsFiniteSet(StormInstances) /\ IsFiniteSet(Outgoing) /\ Chunks \in Nat \ {0} /\ StormFaults \in BOOLEAN

VARIABLES stormPc, conn, left, target, stormCounts, shared

stormVars == <<stormPc, conn, left, target, stormCounts, shared>>
-----------------------------------------------------------------------------
StormN == Cardinality(StormInstances)
Conns == StormInstances \X Outgoing

Barriers == {"listening", "got_other_addrs", "outgoing_dials_done", "done_writing"}

StormInit ==
    /\ stormPc = [i \in StormInstances |-> "listen"]
    /\ conn = [c \in Conns |-> "none"]
    /\ left = [c \in Conns |-> Chunks]
    /\ target = [c \in Conns |-> c[1]]
    /\ stormCounts = [s \in Barriers |-> 0]
    /\ shared = {}

Running(i) == stormPc[i] \notin {"returned", "failed"}
StormSignal(s) == stormCounts' = [stormCounts EXCEPT ![s] = @ + 1]

\* An instance that returns closes its listeners; one that panics ends, with all its
\* goroutines: a connection is cut, or was never made.
Ends(i, how) ==
    /\ stormPc' = [stormPc EXCEPT ![i] = how]
    /\ conn' = [c \in Conns |->
                   IF c[1] # i \/ conn[c] = "done" THEN conn[c]
                   ELSE IF conn[c] \in {"dialed", "writing", "between"} THEN "cut" ELSE "gone"]

\* The listeners are open when the instance signals that it listens.
Listen(i) ==
    /\ stormPc[i] = "listen"
    /\ \/ stormPc' = [stormPc EXCEPT ![i] = "listening"] /\ StormSignal("listening") /\ UNCHANGED conn
       \/ StormFaults /\ Ends(i, "failed") /\ UNCHANGED stormCounts
    /\ UNCHANGED <<left, target, shared>>

\* shareAddresses, between its two barriers.
StormPublish(i) ==
    /\ stormPc[i] = "listening" /\ stormCounts["listening"] >= StormN
    /\ shared' = shared \union {i}
    /\ stormPc' = [stormPc EXCEPT ![i] = "sharing"]
    /\ UNCHANGED <<conn, left, target, stormCounts>>

GotAddresses(i) ==
    /\ stormPc[i] = "sharing" /\ shared = StormInstances
    /\ StormSignal("got_other_addrs")
    /\ stormPc' = [stormPc EXCEPT ![i] = "shared"]
    /\ UNCHANGED <<conn, left, target, shared>>

\* Every outgoing connection gets a goroutine and an address of another instance.
StartDials(i) ==
    /\ stormPc[i] = "shared" /\ stormCounts["got_other_addrs"] >= StormN
    /\ stormPc' = [stormPc EXCEPT ![i] = "dialing"]
    /\ \E to \in [Outgoing -> StormInstances \ {i}] :
           target' = [c \in Conns |-> IF c[1] = i THEN to[c[2]] ELSE target[c]]
    /\ conn' = [c \in Conns |-> IF c[1] = i THEN "delayed" ELSE conn[c]]
    /\ UNCHANGED <<left, stormCounts, shared>>

Holders(i, p) == Cardinality({k \in Outgoing : conn[<<i, k>>] = p})

\* The goroutine has slept and takes a place in sem.
BeginDial(c) ==
    /\ conn[c] = "delayed" /\ Holders(c[1], "dialing") < ConcurrentDials
    /\ conn' = [conn EXCEPT ![c] = "dialing"]
    /\ UNCHANGED <<stormPc, left, target, stormCounts, shared>>

\* The place is given back either way; only a goroutine that has its connection signals.
EndDial(c) ==
    /\ conn[c] = "dialing"
    /\ \/ Running(target[c]) /\ conn' = [conn EXCEPT ![c] = "dialed"] /\ StormSignal("outgoing_dials_done")
       \/ (StormFaults \/ ~Running(target[c])) /\ conn' = [conn EXCEPT ![c] = "done"] /\ UNCHANGED stormCounts
    /\ UNCHANGED <<stormPc, left, target, shared>>

\* Mutant: the barrier counts the connections of one instance.
AllDialedByOne == stormCounts["outgoing_dials_done"] >= Cardinality(Outgoing)

\* The barrier counts the connections of all instances.
AllDialed == stormCounts["outgoing_dials_done"] >= StormN * Cardinality(Outgoing)

\* One chunk at a time, with a place in writesem; a write that fails uses its chunk up.
BeginWrite(c) ==
    /\ \/ conn[c] = "dialed" /\ AllDialed
       \/ conn[c] = "between"
    /\ left[c] > 0 /\ Holders(c[1], "writing") < ConcurrentDials
    /\ conn' = [conn EXCEPT ![c] = "writing"]
    /\ UNCHANGED <<stormPc, left, target, stormCounts, shared>>

EndWrite(c) ==
    /\ conn[c] = "writing"
    /\ left' = [left EXCEPT ![c] = @ - 1]
    /\ conn' = [conn EXCEPT ![c] = IF left[c] > 1 THEN "between" ELSE "done"]
    /\ UNCHANGED <<stormPc, target, stormCounts, shared>>

\* wg.Wait, the last barrier, and the return.
DoneWriting(i) ==
    /\ stormPc[i] = "dialing" /\ \A k \in Outgoing : conn[<<i, k>>] = "done"
    /\ StormSignal("done_writing")
    /\ stormPc' = [stormPc EXCEPT ![i] = "written"]
    /\ UNCHANGED <<conn, left, target, shared>>

StormReturn(i) ==
    /\ stormPc[i] = "written" /\ stormCounts["done_writing"] >= StormN
    /\ Ends(i, "returned")
    /\ UNCHANGED <<left, target, stormCounts, shared>>

\* The context of 3000 seconds ends while a goroutine of the instance waits, and its
\* panic ends the instance.  It takes that long only if something has failed.
TimesOut(i) ==
    /\ StormFaults
    /\ \/ stormPc[i] = "listening" /\ stormCounts["listening"] < StormN
       \/ stormPc[i] = "sharing" /\ shared # StormInstances
       \/ stormPc[i] = "shared" /\ stormCounts["got_other_addrs"] < StormN
       \/ stormPc[i] = "dialing" /\ ~AllDialed /\ \E k \in Outgoing : conn[<<i, k>>] = "dialed"
       \/ stormPc[i] = "written" /\ stormCounts["done_writing"] < StormN
    /\ Ends(i, "failed")
    /\ UNCHANGED <<left, target, stormCounts, shared>>

MainStep(i) == Listen(i) \/ StormPublish(i) \/ GotAddresses(i) \/ StartDials(i) \/ DoneWriting(i) \/ StormReturn(i) \/ TimesOut(i)
ConnStep(c) == BeginDial(c) \/ EndDial(c) \/ BeginWrite(c) \/ EndWrite(c)

StormNext == (\E i \in StormInstances : MainStep(i)) \/ (\E c \in Conns : ConnStep(c))

\* Goroutines run.  Behaviours are finite, so it is enough that some step is taken while
\* there is one.
StormFairness == WF_stormVars(StormNext)

StormSpec == StormInit /\ [][StormNext]_stormVars /\ StormFairness
-----------------------------------------------------------------------------
\* No byte is written while a dial of any instance is still to be made or has failed:
\* the storm begins everywhere at once, or nowhere (Storm).
WritesAfterDials ==
    (\E c \in Conns : conn[c] \in {"writing", "between"} \/ left[c] < Chunks)
        => \A c \in Conns : conn[c] \notin {"none", "delayed", "dialing", "gone"} /\ ~(conn[c] = "done" /\ left[c] = Chunks)

\* An instance closes its listeners only when nothing is written to it any more.
ListensToTheEnd ==
    \A i \in StormInstances : stormPc[i] = "returned" => \A c \in Conns : conn[c] = "done"

StormFinished ==
    \A i \in StormInstances :
        /\ ~Running(i)
        /\ ~StormFaults => stormPc[i] = "returned" /\ \A k \in Outgoing : left[<<i, k>>] = 0

\* Every instance ends, also when dials fail; without a failure it returns after all
\* its chunks are written (Storm).
StormEnds == <>StormFinished
=============================================================================
