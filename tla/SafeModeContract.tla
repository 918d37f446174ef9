---------------------------- MODULE SafeModeContract ----------------------------
(***************************************************************************)
(* What a HIGH RISK session promises its operator, with no terminal, no     *)
(* timing and no lost messages in it (docs/high-risk-mode.md): every change *)
(* is made while RouterOS can still unroll it, it becomes permanent only    *)
(* after the operator asked for that, and the operator is told that it is   *)
(* permanent only once it is.                                               *)
(***************************************************************************)

VARIABLES
  protected,  \* RouterOS holds Safe Mode for the session
  ledger,     \* what became of the changes of the session
  asked,      \* the operator asked to keep them
  told        \* the operator was told that they are kept

vars == <<protected, ledger, asked, told>>

Init == protected = FALSE /\ ledger = "none" /\ asked = FALSE /\ told = FALSE

Protect ==
  /\ ~protected /\ ledger = "none" /\ ~told /\ protected' = TRUE
  /\ UNCHANGED <<ledger, asked, told>>

Change ==
  /\ protected /\ ledger = "none" /\ ledger' = "floating"
  /\ UNCHANGED <<protected, asked, told>>

Ask == asked' = TRUE /\ UNCHANGED <<protected, ledger, told>>

Keep ==
  /\ protected /\ asked /\ protected' = FALSE
  /\ ledger' = IF ledger = "floating" THEN "kept" ELSE ledger
  /\ UNCHANGED <<asked, told>>

\* An abort, a lost link or a reboot: RouterOS unrolls what is still floating.
Unroll ==
  /\ protected /\ protected' = FALSE
  /\ ledger' = IF ledger = "floating" THEN "undone" ELSE ledger
  /\ UNCHANGED <<asked, told>>

Tell ==
  /\ asked /\ ~protected /\ ledger \in {"none", "kept"} /\ told' = TRUE
  /\ UNCHANGED <<protected, ledger, asked>>

Next == Protect \/ Change \/ Ask \/ Keep \/ Unroll \/ Tell
Spec == Init /\ [][Next]_vars
===============================================================================
