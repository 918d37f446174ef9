---------------------------- MODULE MCSshSession -----------------------------
(* The instances of SshSession that TLC checks. *)
EXTENDS SshSession
===============================================================================
