----------------------------- MODULE MCReadyChange -----------------------------
(* ReadyChange with the bounds its configurations give. *)
EXTENDS ReadyChange
===============================================================================
