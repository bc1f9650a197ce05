------------------------------ MODULE MCEngine ------------------------------
(***************************************************************************)
(* Instances of Engine for TLC.                                            *)
(***************************************************************************)
EXTENDS Engine, TLC

CONSTANTS t1, t2, t3, w1, w2, c1, c2, b1

\* t1 and t2 come from the same branch, t3 from a user without one.
MCBranchOf == [t \in Tasks |-> IF t \in {t1, t2} THEN b1 ELSE NoBranch]

\* Workers are interchangeable, and so are request goroutines.
MCSymmetry == Permutations(Workers) \cup Permutations(Clients)
=============================================================================
