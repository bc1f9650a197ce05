------------------------------ MODULE Checkers ------------------------------
(***************************************************************************)
(* The combinators of health checks, All and Any, and of fixes, And and    *)
(* Or: loops that call one after the other and return early.  A checker    *)
(* succeeds, fails or errors, a fixer succeeds or errors.                  *)
(***************************************************************************)
EXTENDS Naturals, Sequences

CONSTANTS MaxCalls      \* bound: the checkers or fixers that are combined

VARIABLES
  kind,      \* All, Any, Not, And or Or
  given,     \* what each of the checkers or fixers would return
  called,    \* how many were called
  ret        \* what the combinator returned, or running

combineVars == <<kind, given, called, ret>>

Results == {"ok", "failed", "error"}
UpTo(n, S) == UNION {[1 .. m -> S] : m \in 0 .. n}

CheckerKinds == {"All", "Any"}
FixerKinds == {"And", "Or"}

CombineInit ==
  /\ \/ kind \in CheckerKinds /\ given \in UpTo(MaxCalls, Results)
     \/ kind = "Not" /\ given \in {<<r>> : r \in Results}
     \/ kind \in FixerKinds /\ given \in UpTo(MaxCalls, {"ok", "error"})
  /\ called = 0 /\ ret = "running"

Call(stops, result) ==
  /\ ret = "running" /\ called < Len(given) /\ called' = called + 1
  /\ ret' = IF stops THEN result ELSE "running"
  /\ UNCHANGED <<kind, given>>

End(result) ==
  /\ ret = "running" /\ called = Len(given) /\ ret' = result
  /\ UNCHANGED <<kind, given, called>>

Result == given[called + 1]

\* All looks at the error only: a check that failed without one is passed over.
All ==
  /\ kind = "All"
  /\ Call(Result = "error", Result) \/ End("ok")

\* Any returns the first check without an error, whether it succeeded or not.
Any ==
  /\ kind = "Any"
  /\ Call(Result # "error", Result) \/ End("error")

\* Not keeps the error and turns ok round, which the error outweighs.
Not ==
  /\ kind = "Not"
  /\ Call(TRUE, CASE Result = "ok" -> "failed" [] Result = "failed" -> "ok" [] OTHER -> "error")

And ==
  /\ kind = "And"
  /\ Call(Result = "error", Result) \/ End("ok")

\* Mutant: Or returns the result of the first fixer.
OrFirst ==
  /\ kind = "Or"
  /\ Call(TRUE, Result) \/ End("error")

Or ==
  /\ kind = "Or"
  /\ Call(Result = "ok", Result) \/ End("error")

CombineNext == All \/ Any \/ Not \/ And \/ Or
CombineSpec == CombineInit /\ [][CombineNext]_combineVars

-----------------------------------------------------------------------------
\* And "executes all fixes sequentially, short-circuiting at the first error", and Or
\* "short-circuits on the first success, or errors if all fixes failed": what they
\* return is what all or one of the fixers made of it, and none is called after the
\* one that decided it.
Applied ==
  /\ kind = "And" =>
       /\ ret = "ok" <=> \A i \in DOMAIN given : given[i] = "ok"
       /\ \A i \in 1 .. called - 1 : given[i] = "ok"
  /\ kind = "Or" =>
       /\ ret = "ok" <=> \E i \in DOMAIN given : given[i] = "ok"
       /\ \A i \in 1 .. called - 1 : given[i] = "error"

(* All "succeeds when all provided Checkers succeed.  If a Checker fails,   *)
(* it short-circuits and returns the first failure".                        *)
AllChecks == kind = "All" /\ ret = "ok" => \A i \in DOMAIN given : given[i] = "ok"

(* Any "succeeds if any of the provided Checkers succeed".                  *)
AnyChecks == kind = "Any" /\ ret # "running" /\ (\E i \in DOMAIN given : given[i] = "ok") => ret = "ok"
-----------------------------------------------------------------------------
\* The invariant of And and Or: as long as they run, no fixer that was called has decided.
CombineInv ==
  /\ given \in Seq(Results) /\ called \in 0 .. Len(given)
  /\ kind \in FixerKinds => given \in Seq({"ok", "error"})
  /\ ret = "running" =>
       /\ kind = "And" => \A i \in 1 .. called : given[i] = "ok"
       /\ kind = "Or" => \A i \in 1 .. called : given[i] = "error"
  /\ ret # "running" => Applied

=============================================================================
