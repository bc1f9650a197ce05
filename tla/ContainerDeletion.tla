------------------------- MODULE ContainerDeletion -------------------------
(***************************************************************************)
(* docker.DeleteContainers: one goroutine per container, a buffered        *)
(* channel that limits the concurrent requests, and an unbuffered channel  *)
(* for their errors.                                                       *)
(***************************************************************************)
EXTENDS Naturals, FiniteSets

CONSTANTS Ids,        \* the containers to delete
          RateLimit,  \* the capacity of ratelimit
          Undeletable \* the containers whose removal fails

VARIABLES
  gpc,       \* the goroutines: start, request, send, exit, done
  removed,   \* the containers Docker has removed
  pc,        \* the caller: at the first or the second receive of an iteration, or returned
  i,         \* its loop variable
  merr       \* the errors it has accumulated

vars == <<gpc, removed, pc, i, merr>>

Slots == {x \in Ids : gpc[x] \in {"request", "send", "exit"}}
GStep(x, from, to) == gpc[x] = from /\ gpc' = [gpc EXCEPT ![x] = to]

Acquire(x) ==
  /\ Cardinality(Slots) < RateLimit
  /\ GStep(x, "start", "request")
  /\ UNCHANGED <<removed, pc, i, merr>>

Remove(x) ==
  /\ GStep(x, "request", "send")
  /\ removed' = IF x \in Undeletable THEN removed ELSE removed \cup {x}
  /\ UNCHANGED <<pc, i, merr>>

\* The rendezvous of a goroutine with the loop.
Receive(x) ==
  /\ pc = "first" /\ i < Cardinality(Ids)
  /\ GStep(x, "send", "exit")
  /\ IF x \in Undeletable THEN pc' = "second" /\ UNCHANGED i
     ELSE i' = i + 1 /\ UNCHANGED pc
  /\ UNCHANGED <<removed, merr>>

\* After an error, what is appended to merr is received in its turn.
ReceiveAgain(x) ==
  /\ pc = "second"
  /\ GStep(x, "send", "exit")
  /\ merr' = IF x \in Undeletable THEN merr \cup {x} ELSE merr
  /\ pc' = "first" /\ i' = i + 1
  /\ UNCHANGED removed

\* Mutant: the slot is not given back.
ReleaseForgotten(x) == GStep(x, "exit", "exit") /\ UNCHANGED <<removed, pc, i, merr>>

Release(x) == GStep(x, "exit", "done") /\ UNCHANGED <<removed, pc, i, merr>>

Return ==
  /\ pc = "first" /\ i = Cardinality(Ids) /\ pc' = "returned"
  /\ UNCHANGED <<gpc, removed, i, merr>>

Init ==
  /\ gpc = [x \in Ids |-> "start"] /\ removed = {} /\ pc = "first" /\ i = 0 /\ merr = {}

Next ==
  \/ Return
  \/ \E x \in Ids : Acquire(x) \/ Remove(x) \/ Receive(x) \/ ReceiveAgain(x) \/ Release(x)

Spec == Init /\ [][Next]_vars
FairSpec == Spec /\ WF_vars(Next)

\* At most RateLimit deletions are in flight ("using a ratelimit of 16 concurrent
\* delete requests").
RateLimited == Cardinality({x \in Ids : gpc[x] = "request"}) <= RateLimit

\* When DeleteContainers returns, every container was removed or is in the error.
AllAccountedFor == pc = "returned" => removed \cup merr = Ids

\* DeleteContainers returns ("If a deletion fails, it does not short-circuit.
\* Instead, it accumulates errors and returns an multierror").
DeletionReturns == <>(pc = "returned")
=============================================================================
