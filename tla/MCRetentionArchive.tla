-------------------------- MODULE MCRetentionArchive --------------------------
(* A small instance of RetentionArchive for TLC: the processes are model   *)
(* values, which are not interchanged, since a temporal property is checked. *)
EXTENDS RetentionArchive
===============================================================================
