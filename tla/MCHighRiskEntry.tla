---------------------------- MODULE MCHighRiskEntry ----------------------------
(* HighRiskEntry with the bounds its configurations give. *)
EXTENDS HighRiskEntry
===============================================================================
