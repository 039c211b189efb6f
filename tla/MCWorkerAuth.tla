------------------------------ MODULE MCWorkerAuth ------------------------------
(***************************************************************************)
(* Instances of WorkerAuth for TLC.                                        *)
(***************************************************************************)
EXTENDS WorkerAuth
===============================================================================
