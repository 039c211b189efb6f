------------------------------ MODULE MCJobReads -------------------------------
(***************************************************************************)
(* Instances of JobReads for TLC; the .cfg files choose the bounds.        *)
(***************************************************************************)
EXTENDS JobReads, TLC

CONSTANTS j1, j2, f1, f2, f3

\* Jobs and feeds are told apart by nothing but their identity.
Symmetry == Permutations(Jobs) \cup Permutations(Feeds)
===============================================================================
