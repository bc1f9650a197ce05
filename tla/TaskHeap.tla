------------------------------ MODULE TaskHeap ------------------------------
(***************************************************************************)
(* The order of the task queue (pkg/task/queue.go): taskQueue is the slice *)
(* that container/heap keeps as a binary heap; removeExisting rewrites the *)
(* slice in place.  Engine abstracts the slice to the set of its elements. *)
(***************************************************************************)
EXTENDS Naturals, FiniteSets, Sequences, SequencesExt

CONSTANTS Tasks,      \* a set of naturals: a task is the time it was created
          Priority,   \* [Tasks -> Nat]
          BranchOf,   \* [Tasks -> branches or NoBranch]
          NoBranch,
          QueueMax

VARIABLES tq,       \* the slice
          stored,   \* the tasks under the prefix queue
          current,  \* the tasks under the prefix current
          unused,   \* tasks not created yet
          op,       \* the last operation: "push", "pop", "drop" or "restart"
          popped    \* the task the last Pop returned, 0 before the first

vars == <<tq, stored, current, unused, op, popped>>

\* Mutant: newer first among equals.
LessNewest(a, b) == IF Priority[a] # Priority[b] THEN Priority[a] > Priority[b] ELSE a > b

Less(a, b) == IF Priority[a] # Priority[b] THEN Priority[a] > Priority[b] ELSE a < b

Swap(s, i, j) == [s EXCEPT ![i] = s[j], ![j] = s[i]]

\* container/heap, with indices from 1.
RECURSIVE Up(_, _)
Up(s, j) ==
  LET i == j \div 2
  IN IF j = 1 \/ ~Less(s[j], s[i]) THEN s ELSE Up(Swap(s, i, j), i)

RECURSIVE Down(_, _)
Down(s, i) ==
  LET l == 2 * i
      j == IF l + 1 <= Len(s) /\ Less(s[l + 1], s[l]) THEN l + 1 ELSE l
  IN IF l > Len(s) \/ ~Less(s[j], s[i]) THEN s ELSE Down(Swap(s, i, j), j)

HeapPush(s, t) == Up(Append(s, t), Len(s) + 1)
HeapPop(s) == IF Len(s) = 1 THEN <<>> ELSE Down(Front([s EXCEPT ![1] = Last(s)]), 1)

\* Queue.Push; a full queue refuses the task.
Push(t) ==
  /\ t \in unused /\ BranchOf[t] = NoBranch
  /\ IF Len(tq) < QueueMax
     THEN tq' = HeapPush(tq, t) /\ stored' = stored \cup {t}
     ELSE UNCHANGED <<tq, stored>>
  /\ unused' = {u \in unused : u > t}
  /\ op' = "push"
  /\ UNCHANGED <<current, popped>>

\* Mutant: keep_tasks[index] = (*q.tq)[index].
KeptByIndex(t) == SubSeq(tq, 1, Cardinality({i \in DOMAIN tq : BranchOf[tq[i]] # BranchOf[t]}))

\* removeExisting keeps the others at their place in the slice, closing the gaps.
Kept(t) == SelectSeq(tq, LAMBDA x : BranchOf[x] # BranchOf[t])

\* Queue.PushUniqueByBranch; cancelTask of a task that is not under queue fails, and
\* the error ends the request with the slice as it was and the tasks in front of
\* it canceled.
PushUniqueByBranch(t) ==
  LET matching == SelectSeq(tq, LAMBDA x : BranchOf[x] = BranchOf[t])
      canceled == {matching[i] : i \in
                     {j \in DOMAIN matching : \A k \in 1..j : matching[k] \in stored}}
      fails == canceled # ToSet(matching)
      pushed == ~fails /\ Len(Kept(t)) < QueueMax
  IN /\ t \in unused /\ BranchOf[t] # NoBranch
     /\ tq' = IF fails THEN tq ELSE IF pushed THEN HeapPush(Kept(t), t) ELSE Kept(t)
     /\ stored' = (stored \ canceled) \cup (IF pushed THEN {t} ELSE {})
     /\ unused' = {u \in unused : u > t}
     /\ op' = "push"
     /\ UNCHANGED <<current, popped>>

\* Queue.Pop; a task that is not under the prefix queue is dropped with an error.
Pop ==
  /\ tq # <<>>
  /\ tq' = HeapPop(tq)
  /\ IF Head(tq) \in stored
     THEN /\ popped' = Head(tq) /\ op' = "pop"
          /\ stored' = stored \ {Head(tq)}
          /\ current' = current \cup {Head(tq)}
     ELSE op' = "drop" /\ UNCHANGED <<popped, stored, current>>
  /\ UNCHANGED unused

\* A worker archives a task.
Archive ==
  /\ \E t \in current : current' = current \ {t}
  /\ UNCHANGED <<tq, stored, unused, op, popped>>

\* NewQueue pushes the tasks under queue, then those under current, each in the
\* order of their keys, which start with the time of creation.
Restart ==
  /\ stored # {} \/ current # {}
  /\ tq' = FoldLeft(HeapPush, <<>>, SetToSortSeq(stored, <) \o SetToSortSeq(current, <))
  /\ op' = "restart"
  /\ UNCHANGED <<stored, current, unused, popped>>

Init ==
  tq = <<>> /\ stored = {} /\ current = {} /\ unused = Tasks /\ op = "push" /\ popped = 0

Next == (\E t \in Tasks : Push(t) \/ PushUniqueByBranch(t)) \/ Pop \/ Archive \/ Restart

Spec == Init /\ [][Next]_vars

-----------------------------------------------------------------------------
\* Every stored task is in the slice, once; the slice holds nothing else but tasks
\* a restart read from the prefix current, or canceled before an error.
SliceIsStored ==
  /\ stored \subseteq ToSet(tq) /\ IsInjective(tq)
  /\ ToSet(tq) \cap unused = {} /\ stored \cap current = {}

\* The documented order: by priority and then timestamp.
Before(a, b) == Priority[a] > Priority[b] \/ (Priority[a] = Priority[b] /\ a < b)

\* Pop returns a task no other queued task is before ("Queue is a priority queue for
\* tasks", "Tasks are sorted by priority and then timestamp").
PopsFirstStep == op' = "pop" /\ tq' # tq => \A x \in ToSet(tq) : ~Before(x, popped')
PopsFirst == [][PopsFirstStep]_vars

\* After a restart the first task is in front, whatever the slice was before.
RestartOrders ==
  [][op' = "restart" /\ tq' # tq => \A x \in ToSet(tq') : ~Before(x, Head(tq'))]_vars
=============================================================================
