---------------------------- MODULE TaskLifecycle ----------------------------
(***************************************************************************)
(* What the task storage promises its users, one task at a time: a task is *)
(* stored when it is accepted, moves from "queue" to "current" to          *)
(* "archive" and never back, and once it is removed it stays removed.      *)
(* Engine is shown to implement this specification.                        *)
(***************************************************************************)
CONSTANT Tasks

VARIABLES stage,   \* the prefix each task is stored under, or "none"
          fresh    \* the tasks not yet accepted or refused

lifecycleVars == <<stage, fresh>>

LifecycleTypeOK ==
  /\ stage \in [Tasks -> {"none", "queue", "current", "archive"}]
  /\ fresh \subseteq Tasks

Move(t, from, to) == stage[t] = from /\ stage' = [stage EXCEPT ![t] = to]

Accept(t) == t \in fresh /\ Move(t, "none", "queue") /\ fresh' = fresh \ {t}
Refuse(t) == t \in fresh /\ fresh' = fresh \ {t} /\ UNCHANGED stage
Claim(t) == Move(t, "queue", "current") /\ UNCHANGED fresh
Finish(t) == Move(t, "current", "archive") /\ UNCHANGED fresh
Remove(t) == Move(t, stage[t], "none") /\ UNCHANGED fresh

\* A restart forgets the requests in flight.
Forget == fresh' \subseteq fresh /\ UNCHANGED stage

LifecycleInit == stage = [t \in Tasks |-> "none"] /\ fresh = Tasks

LifecycleNext ==
  \/ \E t \in Tasks : Accept(t) \/ Refuse(t) \/ Claim(t) \/ Finish(t) \/ Remove(t)
  \/ Forget

LifecycleSpec == LifecycleInit /\ [][LifecycleNext]_lifecycleVars
=============================================================================
