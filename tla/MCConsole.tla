------------------------------- MODULE MCConsole -------------------------------
(* Console with the bounds its configurations give. *)
EXTENDS Console
===============================================================================
