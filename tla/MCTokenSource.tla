----------------------------- MODULE MCTokenSource -----------------------------
(* Instances of TokenSource for TLC.  One clock unit is 5 seconds in         *)
(* MCTokenSourceShort.cfg; the other configurations use small numbers of the *)
(* same shape.                                                               *)
EXTENDS TokenSource, TLC

\* Callers differ in nothing but their name.
CallerSymmetry == Permutations(Callers)
================================================================================
