----------------------------- MODULE MCFetchLimiter -----------------------------
(***************************************************************************)
(* Instances of FetchLimiter for TLC: feeds of one company and of none, in *)
(* two messages that share one of them.                                    *)
(***************************************************************************)
EXTENDS FetchLimiter

CONSTANTS a, n

feed(id, company, protection) ==
  [feed |-> id, company |-> company, fetchprotection |-> protection]

\* Feed 1 is in both messages and blocked in the first, as is feed 2; feed 3
\* has no company.
MCMessages ==
  <<<<feed(1, a, 0), feed(2, a, 0)>>, <<feed(3, n, 1), feed(1, a, 2)>>>>
===============================================================================
