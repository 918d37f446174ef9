---------------------------- MODULE MCRegistration ----------------------------
(* The instances of Registration that TLC checks.                            *)
EXTENDS Registration
===============================================================================
