------------------------------- MODULE MCJobLock -------------------------------
(***************************************************************************)
(* Instances of JobLock for TLC: three threads in two processes.           *)
(***************************************************************************)
EXTENDS JobLock, TLC

CONSTANTS t1, t2, t3

MCProcessOf == t1 :> 1 @@ t2 :> 1 @@ t3 :> 2
===============================================================================
