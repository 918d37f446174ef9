---------------------------- MODULE AgentLoopProofs ----------------------------
(***************************************************************************)
(* For any number of rounds and of calls in a reply: a run sends MikroMCP   *)
(* only what its mode allows, and at most one change after a loss.          *)
(***************************************************************************)
EXTENDS AgentLoop, TLAPS

\* Where a run may be after it has begun a change without a channel: still at that call,
\* at the recount that follows it, or at its end.
AtLateCall == {"backend", "confirming", "counting", "stopped", "failed", "cancelled"}

\* While the session is attached, the one late change is the call the run is at, so the
\* recount follows it; only a run in HIGH RISK has a channel to lose.
GuardInv ==
  /\ mode \in {"PLAN", "READY", "HIGH RISK"} /\ late \in Nat
  /\ ~channel => mode = "HIGH RISK"
  /\ late # 0 => ~channel
  /\ executor /\ late # 0 =>
       /\ late = 1 /\ at \in AtLateCall
       /\ at \in {"backend", "confirming"} => Risk(Tool) # "read"
  /\ ~strayed /\ (mode = "PLAN" => at # "proposed")

--------------------------------------------------------------------------------

\* What PLAN offers is router-bound reads; READY adds proposals, no other live tool.
LEMMA OfferedOutsideHighRisk ==
  ASSUME mode \in {"PLAN", "READY"}, NEW call \in Offered
  PROVE  /\ call[1] = "tool" => IsRead(call[2])
         /\ mode = "PLAN" => call[1] = "tool"
BY DEF Offered, PlanTools, ReadyTools

\* A count that grows by at most one.
LEMMA OneMore ==
  ASSUME NEW n \in Nat, NEW m, m = n \/ m = n + 1
  PROVE  m \in Nat /\ (n = 0 => m \in {0, 1})
OBVIOUS

\* A run begins with its channel open and nothing sent.
LEMMA GuardInit == Init => GuardInv
<1> SUFFICES ASSUME Init PROVE GuardInv
  OBVIOUS
<1>1. channel /\ ~strayed
  BY DEF Init
<1>2. mode \in {"PLAN", "READY", "HIGH RISK"} /\ late = 0 /\ at = "listing"
  BY DEF Init
<1>3. late \in Nat
  BY <1>2
<1> QED
  BY <1>1, <1>2, <1>3 DEF GuardInv

\* AfterCall goes from a change in HIGH RISK to the recount, when the session is attached.
LEMMA GuardStep == GuardInv /\ [Next]_vars => GuardInv'
<1> SUFFICES ASSUME GuardInv, [Next]_vars PROVE GuardInv'
  OBVIOUS
<1> USE DEF GuardInv, AtLateCall
<1>1. CASE Listed
  BY <1>1 DEF Listed, NextRound, given, ssh, ghost, stream, Risk, Tool, This
<1>2. CASE Completed
  BY <1>2 DEF Completed, Replied, given, ssh, ghost, stream, Risk, Tool, This
<1>3. CASE ReadQueue
  BY <1>3 DEF ReadQueue, Replied, given, ssh, ghost, Risk, Tool, This
<1>4. CASE RoundDone
  BY <1>4 DEF RoundDone, NextRound, given, ssh, ghost, Risk, Tool, This
<1>5. CASE Blocked
  BY <1>5 DEF Blocked, Calling, given, ssh, ghost, stream, Risk, Tool, This
<1>6. CASE Search
  BY <1>6 DEF Search, Calling, Answered, given, ssh, ghost, stream, Risk, Tool, This
<1>7. CASE Propose
  <2>1. This \in Offered /\ This[1] # "tool"
    <3>1. This[1] = "propose" \/ This = <<"local", "scenario">>
      BY <1>7 DEF Propose
    <3>2. <<"local", "scenario">>[1] = "local"
      OBVIOUS
    <3> QED
      BY <1>7, <3>1, <3>2 DEF Propose
  <2>2. mode # "PLAN"
    BY <2>1, OfferedOutsideHighRisk
  <2> QED
    BY <1>7, <2>2 DEF Propose, Calling, given, ssh, ghost, stream, Risk, Tool, This
<1>8. CASE SshExec
  BY <1>8 DEF SshExec, Calling, Answered, given, ssh, ghost, stream, Risk, Tool, This
<1>9. CASE SshAnswers
  BY <1>9 DEF SshAnswers, Answered, given, ssh, ghost, stream, Risk, Tool, This
<1>10. CASE CallBackend
  <2>0. /\ This \in Offered /\ This[1] = "tool" /\ UNCHANGED <<mode, executor, channel, calls>>
        /\ at' = "backend" /\ at = "calling"
    BY <1>10 DEF CallBackend, Calling, given, ssh
  <2>1. mode # "HIGH RISK" => IsRead(Tool)
    BY <2>0, OfferedOutsideHighRisk DEF Tool
  <2>2. executor => late = 0
    BY <2>0
  <2>3. Risk(Tool)' = Risk(Tool)
    BY <2>0 DEF Risk, Tool, This
  <2>4. ~strayed'
    BY <1>10, <2>1 DEF CallBackend
  <2>5. late' = late \/ late' = late + 1
    BY <1>10 DEF CallBackend
  <2>6. late' \in Nat /\ (late = 0 => late' \in {0, 1})
    <3>1. late \in Nat
      OBVIOUS
    <3> QED
      BY ONLY <2>5, <3>1, OneMore
  <2>7. late' # late => ~channel /\ Risk(Tool) # "read"
    BY <1>10 DEF CallBackend
  <2>8. executor /\ late' # 0 => late' = 1 /\ ~channel /\ Risk(Tool) # "read"
    BY <2>2, <2>6, <2>7
  <2> QED
    BY <2>0, <2>3, <2>4, <2>6, <2>7, <2>8
<1>11. CASE BackendAnswers
  <2>1. UNCHANGED <<given, ssh, ghost>> /\ at = "backend"
    BY <1>11 DEF BackendAnswers
  <2>2. CASE AfterCall
    BY <2>1, <2>2 DEF AfterCall, Answered, given, ssh, ghost
  <2>3. CASE at' = "confirming" /\ UNCHANGED calls
    BY <2>1, <2>3 DEF given, ssh, ghost, Risk, Tool, This
  <2> QED
    BY <1>11, <2>2, <2>3 DEF BackendAnswers
<1>12. CASE Confirmed
  BY <1>12 DEF Confirmed, AfterCall, Answered, given, ssh, ghost
<1>13. CASE Counted
  BY <1>13 DEF Counted, Answered, given, ssh, ghost
<1>14. CASE Fails
  BY <1>14 DEF Fails, given, ssh, ghost, Risk, Tool, This
<1>15. CASE ThreadReads
  BY <1>15 DEF ThreadReads, given, ssh, ghost, Risk, Tool, This
<1>16. CASE ThreadReadsText \/ ThreadDone \/ ThreadFails \/ ThreadCloses
  <2>1. UNCHANGED <<given, ssh, at, calls, ghost>>
    BY <1>16 DEF ThreadReadsText, ThreadDone, ThreadFails, ThreadCloses
  <2> QED
    BY <2>1 DEF given, ssh, ghost, Risk, Tool, This
<1>17. CASE Cancel
  BY <1>17 DEF Cancel, given, ssh, ghost, Risk, Tool, This
<1>18. CASE Detach
  BY <1>18 DEF Detach, given, ghost, Risk, Tool, This
<1>19. CASE Lose
  BY <1>19 DEF Lose, given, ghost, Risk, Tool, This
<1>20. CASE UNCHANGED vars
  BY <1>20 DEF vars, given, ssh, ghost, Risk, Tool, This
<1> QED
  BY <1>1, <1>2, <1>3, <1>4, <1>5, <1>6, <1>7, <1>8, <1>9, <1>10, <1>11, <1>12, <1>13,
     <1>14, <1>15, <1>16, <1>17, <1>18, <1>19, <1>20 DEF Next, RunStep, AnswerArrives

\* Whatever tools a model calls and however often: outside HIGH RISK only router-bound
\* reads go out and PLAN ends in no proposal; in HIGH RISK at most one change follows the
\* loss of the channel of the session attached.
THEOREM Guarded == Spec => []ChangesGuarded
<1>1. ASSUME GuardInv PROVE ChangesGuarded
  <2>1. executor => late = 0 \/ late = 1
    BY <1>1 DEF GuardInv
  <2>2. late = 0 \/ late = 1 => late <= 1
    OBVIOUS
  <2> QED
    BY <1>1, <2>1, <2>2 DEF GuardInv, ChangesGuarded
<1> QED
  BY <1>1, GuardInit, GuardStep, PTL DEF Spec

================================================================================
