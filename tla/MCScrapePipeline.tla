--------------------------- MODULE MCScrapePipeline ----------------------------
(***************************************************************************)
(* Instances of ScrapePipeline for TLC; the .cfg files choose the bounds.  *)
(***************************************************************************)
EXTENDS ScrapeInvariants, TLC

CONSTANTS j1, j2, f1, f2, f3

\* Jobs and feeds are told apart by nothing but their identity.
Symmetry == Permutations(Jobs) \cup Permutations(Feeds)
===============================================================================
