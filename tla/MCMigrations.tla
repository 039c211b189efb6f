------------------------------ MODULE MCMigrations ------------------------------
(***************************************************************************)
(* Instances of Migrations for TLC.                                        *)
(***************************************************************************)
EXTENDS Migrations

CONSTANTS u1, u2
===============================================================================
