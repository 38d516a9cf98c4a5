---------------------------- MODULE MCDecision ----------------------------
(* Instances of Decision for TLC.                                          *)
EXTENDS Decision, TLC

CONSTANTS r1, r2, r3, l1

\* A position that exists, and a choice that matches nothing.  (A position out of
\* range ends the process: nothing is left to be live.)
GoodOrUnmatched == {q \in Request : (q.by = "pos") = Valid(q)}

\* The calls are interchangeable (safety runs only).
ResolverSymmetry == Permutations(Resolvers)
=============================================================================
