---------------------------- MODULE MCInvocation ------------------------------
(***************************************************************************)
(* Invocation for TLC: commits are interchangeable, and so are labels; the *)
(* reasons of the two prepares hold one piece and two pieces that look     *)
(* like a secret.  The one with one piece is read first, which makes a     *)
(* difference to punches only, for employees have no reason.  Only safety  *)
(* is checked.                                                             *)
(***************************************************************************)
EXTENDS Invocation, TLC

CONSTANTS n1, n2

MCReasonOf == [n \in {n1, n2} |-> IF n = n1 THEN 1 ELSE 2]

Used(n) == shown[n] # NotShown \/ other[n] # None

FirstPrepareFirst == Used(n2) => Used(n1)

Symmetry == Permutations(Commits) \cup Permutations(Labels)
=============================================================================
