------------------------- MODULE MCRunbookDefinitions -------------------------
(* The instances of RunbookDefinitions that TLC checks.                      *)
EXTENDS RunbookDefinitions
===============================================================================
