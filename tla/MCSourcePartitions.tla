-------------------------- MODULE MCSourcePartitions ---------------------------
(***************************************************************************)
(* Instances of SourcePartitions for TLC: two undated sources, which share *)
(* the fallback date, and two sources of different weeks.                  *)
(***************************************************************************)
EXTENDS SourcePartitions, TLC

CONSTANTS undated1, undated2, dated1, dated2

MCWeek == undated1 :> 0 @@ undated2 :> 0 @@ dated1 :> 1 @@ dated2 :> 2
===============================================================================
