------------------------------ MODULE MCTasks ------------------------------
(***************************************************************************)
(* Clients, the order of the task queue and the logs of a task, for TLC.   *)
(* A behaviour is one of those of MCClient, or of an instance of TaskHeap  *)
(* or TaskLogs, chosen by the initial value of scenario:                   *)
(*   order    seven tasks of three priorities, without branches;           *)
(*   branch   the same, three of them pushed by one branch;                *)
(*   logs     a task whose worker may return early (TaskLogs itself);      *)
(*   ends     a task whose worker does not fail, under fairness.           *)
(***************************************************************************)
EXTENDS MCClient, TaskLogs

VARIABLES
    tq, stored, current, unused, op, popped

QueuedTasks == 1..7
Priorities == <<2, 1, 3, 1, 2, 3, 1>>

Order == INSTANCE TaskHeap WITH
    Tasks <- QueuedTasks, Priority <- Priorities, NoBranch <- "none", QueueMax <- 5,
    BranchOf <- [t \in QueuedTasks |-> "none"]
Branch == INSTANCE TaskHeap WITH
    Tasks <- QueuedTasks, Priority <- Priorities, NoBranch <- "none", QueueMax <- 5,
    BranchOf <- [t \in QueuedTasks |-> IF t \in {2, 3, 6} THEN "branch" ELSE "none"]
Reliable == INSTANCE TaskLogs WITH StoreFails <- FALSE

heapVars == <<tq, stored, current, unused, op, popped>>
vars == <<scenario, heapVars, logsVars, clientVars>>

Init ==
    /\ scenario \in {"order", "branch", "logs", "ends"} \union ClientScenarios
    /\ Order!Init
    /\ LogsInit
    /\ scenario \notin {"logs", "ends"} => ~follow /\ ~cancel
    /\ ClientInit

Next ==
    /\ \/ scenario = "order" /\ Order!Next /\ UNCHANGED <<logsVars, clientVars>>
       \/ scenario = "branch" /\ Branch!Next /\ UNCHANGED <<logsVars, clientVars>>
       \/ scenario = "logs" /\ LogsNext /\ UNCHANGED <<heapVars, clientVars>>
       \/ scenario = "ends" /\ Reliable!LogsNext /\ UNCHANGED <<heapVars, clientVars>>
       \/ ClientNext /\ UNCHANGED <<heapVars, logsVars>>
    /\ UNCHANGED scenario

Spec == Init /\ [][Next]_vars /\ (scenario = "ends" => Reliable!LogsFairness)
-----------------------------------------------------------------------------
\* Pop returns the first task by priority and age (Queue.Pop), unless tasks were removed
\* by branch; and the slice has every stored task once (removeExisting).
PopsFirst == [][(scenario = "order" => Order!PopsFirstStep) /\ (Branch!SliceIsStored)']_vars

\* A log request ends, slow readers included.
RequestEnds == scenario = "ends" => FollowEnds
=============================================================================
