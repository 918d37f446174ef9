--------------------------- MODULE SshSessionProofs ---------------------------
(***************************************************************************)
(* Theorems about SshSession, for any number of calls and decisions: types, *)
(* and what is kept, whether or not the callers may be cancelled; and what  *)
(* SafeModeContract promises, as long as the operator's own worker is not   *)
(* cancelled inside a call; and whose output a reply holds, as long as the  *)
(* agent's is not.                                                          *)
(***************************************************************************)
EXTENDS SshSession, SequenceTheorems, WellFoundedInduction, TLAPS

\* What may be on its way to the router.
Key == {"mark", "cmd", "ctrlX", "ctrlC", "ctrlCD", "load", "yes"} \X Nat

\* TypeOK with what its proof needs: the callers' bookkeeping, and that the lock
\* is held by a task that is inside a call.
TypeInv ==
  /\ TypeOK
  /\ call = [t \in Task |-> call[t]] /\ result = [t \in Task |-> result[t]]
  /\ decisions \in Seq(OpCalls) /\ fresh \in Nat /\ rin \in Seq(Key)
  /\ held \in Task => call[held] # "none"
  /\ held = "free" => at = "idle"

LEMMA TypeInit == Init => TypeInv
<1> SUFFICES ASSUME Init PROVE TypeInv
  OBVIOUS
<1>1. TypeOK
  <2>1. \A t \in Task : result[t].status \in Status
    BY DEF Init, NoResult, Status
  <2>2. calls \in 0..MaxCalls /\ Len(decisions) <= MaxDecisions
    BY BoundsAssumption DEF Init
  <2>3. call["agent"] = "none" /\ call["op"] = "none"
    BY DEF Init, Task
  <2> QED BY <2>1, <2>2, <2>3 DEF Init, TypeOK
<1>2. /\ call = [t \in Task |-> call[t]] /\ result = [t \in Task |-> result[t]]
      /\ held \notin Task /\ at = "idle"
  BY DEF Init, Task
<1> QED BY <1>1, <1>2 DEF Init, TypeInv

\* The part of TypeInv that the router's and the reader's variables make up.
FlagsOK == {alive, safe, closed} \subseteq BOOLEAN
RouterOK ==
  /\ {rsafe, exposed} \subseteq BOOLEAN /\ link \in {"up", "down"} /\ busy \in {0, 1}
  /\ change \in {"none", "floating", "kept", "undone"} /\ rin \in Seq(Key)

LEMMA TypeParts ==
  ASSUME TypeInv, FlagsOK', RouterOK', at' = at \/ (held \in Task /\ at' \in Reading \cup Unlimited),
         fresh' \in Nat, UNCHANGED <<held, callers>>
  PROVE  TypeInv'
BY DEF TypeInv, TypeOK, FlagsOK, RouterOK, callers, Task

\* A call returns, or is about to.
Leaves(status, text) == Return(status, text) \/ Closes(status, text)

\* A call that returns leaves the lock free and a known status behind.
LEMMA TypeReturn ==
  ASSUME TypeInv, held \in Task, FlagsOK', RouterOK',
         NEW status \in Status, NEW text, Leaves(status, text)
  PROVE  TypeInv'
<1>0. CASE Closes(status, text)
  <2>1. \A t \in Task : result'[t].status \in Status
    BY <1>0 DEF Closes, TypeInv, TypeOK
  <2>2. result' = [t \in Task |-> result'[t]]
    BY <1>0 DEF Closes, TypeInv
  <2> QED
    BY <1>0, <2>1, <2>2 DEF Closes, TypeInv, TypeOK, FlagsOK, RouterOK, Task, Unlimited
<1> SUFFICES ASSUME Return(status, text) PROVE TypeInv'
  BY <1>0 DEF Leaves
<1>1. \A t \in Task : result'[t].status \in Status /\ call'[t] \in {call[t], "none"}
  BY DEF Return, TypeInv, TypeOK
<1>2. stage' \in {"connected", "entering", "unlocked", "failed", "left"}
  BY DEF Return, StageAfter, TypeInv, TypeOK
<1>3. call' = [t \in Task |-> call'[t]] /\ result' = [t \in Task |-> result'[t]]
  BY DEF Return, TypeInv
<1> QED
  BY <1>1, <1>2, <1>3 DEF Return, TypeInv, TypeOK, FlagsOK, RouterOK, Task

LEMMA TypeSend ==
  ASSUME TypeInv, NEW keys \in Seq(Key), Send(keys)
  PROVE  RouterOK'
BY DEF Send, TypeInv, TypeOK, RouterOK

LEMMA TypeFramed ==
  ASSUME TypeInv, held \in Task,
         NEW keys \in Seq(Key), NEW where \in Reading, NEW leftover,
         SendFramed(keys, where, leftover), FlagsOK'
  PROVE  TypeInv'
<1>1. keys \o <<Mark(fresh + 1)>> \in Seq(Key)
  <2>1. Mark(fresh + 1) \in Key
    BY DEF Mark, Key, TypeInv
  <2>2. <<Mark(fresh + 1)>> \in Seq(Key)
    BY <2>1
  <2> QED BY <2>2, ConcatProperties
<1>2. RouterOK'
  BY <1>1, TypeSend DEF SendFramed
<1> QED BY <1>2, TypeParts DEF SendFramed, TypeInv

LEMMA TypeUnchanged ==
  ASSUME TypeInv
  PROVE  /\ UNCHANGED router => RouterOK'
         /\ UNCHANGED client => FlagsOK'
         /\ MarkLost \/ CloseOnly \/ CloseUnsafe \/ KeepRest => FlagsOK'
         /\ at # "idle" \/ Waiting => held \in Task
BY DEF TypeInv, TypeOK, RouterOK, FlagsOK, router, client, MarkLost, CloseOnly,
       CloseUnsafe, KeepRest, Running, Waiting

LEMMA TypeTokens ==
  ASSUME TypeInv
  PROVE  /\ <<>> \in Seq(Key) /\ <<CtrlX>> \in Seq(Key) /\ <<CtrlC>> \in Seq(Key)
         /\ <<CtrlCD>> \in Seq(Key) /\ <<Load>> \in Seq(Key) /\ <<Yes>> \in Seq(Key)
         /\ <<Cmd(0)>> \in Seq(Key) /\ <<Cmd(calls)>> \in Seq(Key)
<1>1. calls \in Nat
  BY BoundsAssumption DEF TypeInv, TypeOK
<1>2. /\ CtrlX \in Key /\ CtrlC \in Key /\ CtrlCD \in Key /\ Load \in Key /\ Yes \in Key
      /\ Cmd(0) \in Key /\ Cmd(calls) \in Key
  BY <1>1 DEF CtrlX, CtrlC, CtrlCD, Load, Yes, Cmd, Key
<1> QED BY <1>2

LEMMA TypeCallers ==
  ASSUME TypeInv,
         \/ CallEnter
         \/ \E c \in AgentCalls : CallAgent(c)
         \/ \E c \in OpCalls : CallOp(c)
         \/ RestoreRefused
         \/ \E t \in Task : Acquire(t) \/ CancelWaiter(t)
  PROVE  TypeInv'
<1> USE DEF client, frame, router
<1>1. CASE CallEnter
  BY <1>1 DEF CallEnter, Enter, TypeInv, TypeOK, Task, OpCalls
<1>2. ASSUME NEW c \in AgentCalls, CallAgent(c) PROVE TypeInv'
  <2>1. calls' \in 0..MaxCalls
    BY <1>2, BoundsAssumption DEF CallAgent, TypeInv, TypeOK
  <2> QED BY <1>2, <2>1 DEF CallAgent, Enter, TypeInv, TypeOK, Task, AgentCalls
<1>3. ASSUME NEW c \in OpCalls, CallOp(c) PROVE TypeInv'
  <2>1. decisions' \in Seq(OpCalls) /\ Len(decisions') <= MaxDecisions
    <3>1. decisions \in Seq(OpCalls) /\ Len(decisions) <= MaxDecisions
      BY DEF TypeInv, TypeOK
    <3>2. CASE UNCHANGED decisions
      BY <3>1, <3>2
    <3>3. CASE decisions' = Append(decisions, c) /\ Len(decisions) < MaxDecisions
      <4>1. Append(decisions, c) \in Seq(OpCalls)
        BY <3>1
      <4>2. Len(Append(decisions, c)) = Len(decisions) + 1
        BY <3>1
      <4>3. Len(decisions) \in Nat
        BY <3>1
      <4> QED BY <3>3, <4>1, <4>2, <4>3, BoundsAssumption
    <3> QED BY <1>3, <3>2, <3>3 DEF CallOp
  <2> QED BY <1>3, <2>1 DEF CallOp, Enter, TypeInv, TypeOK, Task, OpCalls
<1>4. ASSUME NEW t \in Task, Acquire(t) PROVE TypeInv'
  BY <1>4 DEF Acquire, callers, TypeInv, TypeOK, Task
<1>5. ASSUME NEW t \in Task, CancelWaiter(t) PROVE TypeInv'
  <2>1. stage' \in {"connected", "entering", "unlocked", "failed", "left"}
    BY <1>5 DEF CancelWaiter, StageAfter, TypeInv, TypeOK
  <2>2. \A u \in Task : result'[u].status \in Status /\ call'[u] \in {call[u], "none"}
    BY <1>5 DEF CancelWaiter, NoResult, Status, TypeInv, TypeOK
  <2>3. call' = [u \in Task |-> call'[u]] /\ result' = [u \in Task |-> result'[u]]
    BY <1>5 DEF CancelWaiter, TypeInv
  <2>4. held \in Task => call'[held] # "none"
    BY <1>5 DEF CancelWaiter, TypeInv
  <2> QED BY <1>5, <2>1, <2>2, <2>3, <2>4 DEF CancelWaiter, TypeInv, TypeOK, Task
<1>6. CASE RestoreRefused
  <2>1. decisions' \in Seq(OpCalls) /\ Len(decisions') <= MaxDecisions
    <3>1. decisions \in Seq(OpCalls) /\ Len(decisions) \in Nat /\ "restore" \in OpCalls
      BY DEF TypeInv, OpCalls
    <3>2. /\ Append(decisions, "restore") \in Seq(OpCalls)
          /\ Len(Append(decisions, "restore")) = Len(decisions) + 1
      BY <3>1
    <3> QED BY <1>6, <3>1, <3>2, BoundsAssumption DEF RestoreRefused
  <2>2. \A u \in Task : result'[u].status \in Status
    BY <1>6 DEF RestoreRefused, NoResult, Status, TypeInv, TypeOK
  <2>3. result' = [u \in Task |-> result'[u]]
    BY <1>6 DEF RestoreRefused, TypeInv
  <2> QED BY <1>6, <2>1, <2>2, <2>3 DEF RestoreRefused, TypeInv, TypeOK, Task
<1> QED BY <1>1, <1>2, <1>3, <1>4, <1>5, <1>6

LEMMA TypeEnter == ASSUME TypeInv, EnterStep PROVE TypeInv'
<1> USE DEF Status, Reading, Leaves
<1>1. CASE EnterBegin
  <2>1. CASE /\ Send(<<CtrlX>>) /\ at' = "taking"
             /\ UNCHANGED <<alive, safe, closed, held, want, raw, fresh, callers>>
    <3>1. FlagsOK' /\ fresh' \in Nat
      BY <2>1 DEF FlagsOK, TypeInv, TypeOK
    <3>2. RouterOK'
      BY <2>1, TypeSend, TypeTokens
    <3> QED BY <1>1, <2>1, <3>1, <3>2, TypeParts, TypeUnchanged DEF EnterBegin
  <2>2. CASE /\ \E status \in {"refused", "raised"} : Leaves(status, {})
             /\ UNCHANGED router /\ (CloseOnly \/ UNCHANGED client)
    BY <1>1, <2>2, TypeUnchanged, TypeReturn DEF EnterBegin
  <2> QED BY <1>1, <2>1, <2>2 DEF EnterBegin
<1>2. CASE EnterTaken
  <2>1. CASE Return("hijacked", {}) /\ UNCHANGED <<client, router>>
    BY <1>2, <2>1, TypeUnchanged, TypeReturn DEF EnterTaken
  <2>2. CASE SendFramed(<<>>, "settle", pending) /\ UNCHANGED <<alive, safe, closed>>
    BY <1>2, <2>2, TypeFramed, TypeTokens, TypeUnchanged DEF EnterTaken, FlagsOK, TypeInv, TypeOK
  <2> QED BY <1>2, <2>1, <2>2 DEF EnterTaken
<1>3. CASE EnterSettled
  <2>1. FlagsOK' /\ RouterOK' /\ held \in Task
    BY <1>3, TypeUnchanged DEF EnterSettled, FlagsOK, TypeInv, TypeOK
  <2> QED BY <1>3, <2>1, TypeReturn DEF EnterSettled
<1>4. CASE EnterFails
  BY <1>4, TypeUnchanged, TypeReturn DEF EnterFails
<1> QED BY <1>1, <1>2, <1>3, <1>4 DEF EnterStep

LEMMA TypeExecute == ASSUME TypeInv, ExecuteStep PROVE TypeInv'
<1> USE DEF Status, Reading, Leaves
<1>1. CASE ExecuteBegin
  <2>1. CASE /\ SendFramed(<<Cmd(calls)>>, "reply", pending)
             /\ UNCHANGED <<alive, safe, closed>>
    <3>1. FlagsOK'
      BY <2>1 DEF FlagsOK, TypeInv, TypeOK
    <3> QED BY <1>1, <2>1, <3>1, TypeFramed, TypeTokens, TypeUnchanged DEF ExecuteBegin
  <2>2. CASE MarkLost /\ Return("connection_lost", {}) /\ UNCHANGED router
    BY <1>1, <2>2, TypeUnchanged, TypeReturn DEF ExecuteBegin
  <2>3. CASE /\ ~alive /\ safe' = FALSE /\ UNCHANGED <<alive, closed, router>>
             /\ Return("connection_lost", {})
    <3>1. FlagsOK'
      BY <2>3 DEF FlagsOK, TypeInv, TypeOK
    <3> QED BY <1>1, <2>3, <3>1, TypeUnchanged, TypeReturn DEF ExecuteBegin
  <2> QED BY <1>1, <2>1, <2>2, <2>3 DEF ExecuteBegin
<1>2. CASE ExecuteReply
  <2>1. CASE /\ \E text : Leaves("ok", text)
             /\ (KeepRest \/ CloseUnsafe) /\ UNCHANGED router
    BY <1>2, <2>1, TypeUnchanged, TypeReturn DEF ExecuteReply
  <2>2. CASE UNCHANGED client /\ \E t : SendFramed(<<Cmd(0)>>, "recount", t)
    BY <1>2, <2>2, TypeFramed, TypeTokens, TypeUnchanged DEF ExecuteReply
  <2> QED BY <1>2, <2>1, <2>2 DEF ExecuteReply
<1>3. CASE ExecuteLost
  BY <1>3, TypeUnchanged, TypeReturn DEF ExecuteLost
<1>4. CASE ExecuteTimeout
  <2>1. CASE UNCHANGED client /\ \E t : SendFramed(<<CtrlC>>, "resync", t)
    BY <1>4, <2>1, TypeFramed, TypeTokens, TypeUnchanged DEF ExecuteTimeout
  <2>2. CASE CloseOnly /\ Closes("desynchronized", {}) /\ UNCHANGED router
    BY <1>4, <2>2, TypeUnchanged, TypeReturn DEF ExecuteTimeout
  <2> QED BY <1>4, <2>1, <2>2 DEF ExecuteTimeout
<1> QED BY <1>1, <1>2, <1>3, <1>4 DEF ExecuteStep

LEMMA TypeFrames == ASSUME TypeInv, RecountStep \/ ResyncStep PROVE TypeInv'
<1> USE DEF Status, Reading, Leaves
<1>1. CASE ResyncDone
  BY <1>1, TypeUnchanged, TypeReturn DEF ResyncDone
<1>2. CASE ResyncFails
  BY <1>2, TypeUnchanged, TypeReturn DEF ResyncFails
<1>3. CASE RefreshBegin
  <2>1. CASE /\ SendFramed(<<Cmd(0)>>, "recount", pending)
             /\ UNCHANGED <<alive, safe, closed>>
    <3>1. FlagsOK'
      BY <2>1 DEF FlagsOK, TypeInv, TypeOK
    <3> QED BY <1>3, <2>1, <3>1, TypeFramed, TypeTokens, TypeUnchanged DEF RefreshBegin
  <2>2. CASE Leaves("uncounted", {}) /\ UNCHANGED router /\ (CloseUnsafe \/ UNCHANGED client)
    BY <1>3, <2>2, TypeUnchanged, TypeReturn DEF RefreshBegin
  <2> QED BY <1>3, <2>1, <2>2 DEF RefreshBegin
<1>4. CASE RecountDone
  BY <1>4, TypeUnchanged, TypeReturn DEF RecountDone
<1>5. CASE RecountFails
  BY <1>5, TypeUnchanged, TypeReturn DEF RecountFails
<1> QED BY <1>1, <1>2, <1>3, <1>4, <1>5 DEF RecountStep, ResyncStep

LEMMA TypeCommit == ASSUME TypeInv, CommitStep \/ Abort PROVE TypeInv'
<1> USE DEF Status, Reading, Leaves
<1>1. CASE CommitBegin
  <2>1. CASE /\ Send(<<CtrlX>>) /\ at' = "release"
             /\ UNCHANGED <<alive, safe, closed, held, fresh, callers>>
    <3>1. FlagsOK'
      BY <2>1 DEF FlagsOK, TypeInv, TypeOK
    <3>2. RouterOK' /\ fresh' \in Nat
      BY <2>1, TypeSend, TypeTokens DEF TypeInv
    <3> QED BY <1>1, <2>1, <3>1, <3>2, TypeParts, TypeUnchanged DEF CommitBegin
  <2>2. CASE Return("lost", {}) /\ UNCHANGED router /\ (MarkLost \/ UNCHANGED client)
    BY <1>1, <2>2, TypeUnchanged, TypeReturn DEF CommitBegin
  <2> QED BY <1>1, <2>1, <2>2 DEF CommitBegin
<1>2. CASE CommitReleased
  <2>1. CASE SendFramed(<<>>, "confirm", <<>>) /\ UNCHANGED client
    BY <1>2, <2>1, TypeFramed, TypeTokens, TypeUnchanged DEF CommitReleased
  <2>2. CASE MarkLost /\ Return("lost", {}) /\ UNCHANGED router
    BY <1>2, <2>2, TypeUnchanged, TypeReturn DEF CommitReleased
  <2> QED BY <1>2, <2>1, <2>2 DEF CommitReleased
<1>3. CASE CommitConfirmed
  <2>1. CommitVerdict \in Status
    BY DEF CommitVerdict
  <2> QED BY <1>3, <2>1, TypeUnchanged, TypeReturn DEF CommitConfirmed
<1>4. CASE CommitFails
  BY <1>4, TypeUnchanged, TypeReturn DEF CommitFails
<1>5. CASE Abort
  <2>1. RouterOK'
    BY <1>5, TypeSend, TypeTokens, TypeUnchanged DEF Abort
  <2> QED BY <1>5, <2>1, TypeUnchanged, TypeReturn DEF Abort
<1> QED BY <1>1, <1>2, <1>3, <1>4, <1>5 DEF CommitStep

LEMMA TypeRestore == ASSUME TypeInv, RestoreStep PROVE TypeInv'
<1> USE DEF Status, Reading, Leaves
<1>1. CASE RestoreBegin
  <2>1. CASE at' = "sftp" /\ UNCHANGED <<held, fresh, callers>>
    BY <1>1, <2>1, TypeParts, TypeUnchanged DEF RestoreBegin, TypeInv, Unlimited
  <2>2. CASE Return("failed", {})
    BY <1>1, <2>2, TypeUnchanged, TypeReturn DEF RestoreBegin
  <2> QED BY <1>1, <2>1, <2>2 DEF RestoreBegin
<1>2. CASE RestorePut
  <2>1. FlagsOK' /\ fresh' \in Nat
    BY <1>2 DEF RestorePut, FlagsOK, TypeInv, TypeOK
  <2>2. RouterOK'
    BY <1>2, TypeSend, TypeTokens DEF RestorePut
  <2> QED BY <1>2, <2>1, <2>2, TypeParts, TypeUnchanged DEF RestorePut
<1>3. CASE RestoreAnswer
  <2>1. RouterOK' /\ CloseOnly
    BY <1>3, TypeSend, TypeTokens, TypeUnchanged DEF RestoreAnswer
  <2> QED BY <1>3, <2>1, TypeUnchanged, TypeReturn DEF RestoreAnswer
<1>4. CASE RestoreFails
  BY <1>4, TypeUnchanged, TypeReturn DEF RestoreFails
<1> QED BY <1>1, <1>2, <1>3, <1>4 DEF RestoreStep

LEMMA TypeEnds == ASSUME TypeInv, CloseEnds PROVE TypeInv'
<1>1. held \in Task /\ result[held].status \in Status
  BY DEF CloseEnds, TypeInv, TypeOK
<1>2. FlagsOK' /\ RouterOK'
  BY TypeUnchanged DEF CloseEnds, FlagsOK, TypeInv, TypeOK
<1> QED BY <1>1, <1>2, TypeReturn DEF CloseEnds, Leaves

\* What a router step may do to the keystrokes and the rest of the router's state.
LEMMA TypeRouter ==
  ASSUME TypeInv, RouterStep \/ LinkDrops \/ RouterNotices
  PROVE  TypeInv'
<1> USE DEF Reading
<1>1. RouterOK'
  <2>1. CASE RouterTakes
    <3>1. rin' \in Seq(Key)
      BY <2>1 DEF RouterTakes, TypeInv
    <3>2. link' = link /\ {rsafe, exposed} \subseteq BOOLEAN
      BY <2>1 DEF RouterTakes, TypeInv, TypeOK
    <3>3. ASSUME NEW c, RouterCommand(c) PROVE RouterOK'
      BY <3>1, <3>2, <3>3 DEF RouterCommand, Effect, RouterOK, TypeInv, TypeOK
    <3>4. ASSUME NEW foreign, RouterToggle(foreign) PROVE RouterOK'
      BY <3>1, <3>2, <3>4 DEF RouterToggle, RouterOK, TypeInv, TypeOK
    <3>5. CASE RouterEcho
      BY <3>1, <3>2, <3>5 DEF RouterEcho, RouterOK, TypeInv, TypeOK
    <3> QED BY <2>1, <3>3, <3>4, <3>5 DEF RouterTakes
  <2>2. CASE RouterInterrupted
    <3>1. rin' \in Seq(Key)
      <4>1. PICK i \in 1..Len(rin) :
              \/ rin' = SubSeq(rin, i + 1, Len(rin))
              \/ rin' = SubSeq(rin, 1, i - 1) \o SubSeq(rin, i + 1, Len(rin))
        BY <2>2 DEF RouterInterrupted
      <4>2. /\ SubSeq(rin, i + 1, Len(rin)) \in Seq(Key)
            /\ SubSeq(rin, 1, i - 1) \in Seq(Key)
        BY SubSeqProperties DEF TypeInv
      <4> QED BY <4>1, <4>2, ConcatProperties
    <3> QED BY <2>2, <3>1 DEF RouterInterrupted, RouterOK, TypeInv, TypeOK
  <2>3. CASE RouterFinishes \/ LinkDrops
    BY <2>3 DEF RouterFinishes, LinkDrops, RouterOK, TypeInv, TypeOK
  <2>4. CASE RouterEnds \/ RouterNotices
    <3>1. Undone \in {"none", "floating", "kept", "undone"} /\ <<>> \in Seq(Key)
      BY DEF Undone, TypeInv, TypeOK
    <3>2. /\ link' = "down" /\ rin' = <<>> /\ busy' = 0 /\ rsafe' = FALSE
          /\ change' = Undone /\ exposed' = exposed
      BY <2>4 DEF RouterEnds, RouterNotices
    <3> QED BY <3>1, <3>2 DEF RouterOK, TypeInv, TypeOK
  <2> QED BY <2>1, <2>2, <2>3, <2>4 DEF RouterStep
<1>2. UNCHANGED <<client, frame, callers>>
  BY DEF RouterStep, RouterTakes, RouterFinishes, RouterInterrupted, RouterEnds,
         LinkDrops, RouterNotices
<1> QED BY <1>1, <1>2, TypeParts, TypeUnchanged DEF frame, TypeInv

LEMMA TypeNext == TypeInv /\ [Next]_vars => TypeInv'
<1> SUFFICES ASSUME TypeInv, [Next]_vars PROVE TypeInv'
  OBVIOUS
<1>1. CASE Receive
  <2>1. FlagsOK' /\ RouterOK' /\ fresh' \in Nat
    BY <1>1 DEF Receive, client, FlagsOK, RouterOK, TypeInv, TypeOK
  <2> QED BY <1>1, <2>1, TypeParts DEF Receive
<1>2. CASE CancelHolder
  <2>1. held \in Task
    BY <1>2, TypeUnchanged DEF CancelHolder
  <2> QED BY <1>2, <2>1, TypeUnchanged, TypeReturn DEF CancelHolder, Leaves, Status
<1>3. CASE UNCHANGED vars
  BY <1>3 DEF vars, client, frame, callers, router, TypeInv, TypeOK
<1> QED BY <1>1, <1>2, <1>3, TypeCallers, TypeEnter, TypeExecute, TypeFrames, TypeCommit,
          TypeRestore, TypeEnds, TypeRouter DEF Next, HolderStep

\* Every variable of the session, its callers and the router keeps its type.
THEOREM TypeCorrect == Spec => []TypeOK
<1>1. TypeInv => TypeOK
  BY DEF TypeInv
<1> QED BY TypeInit, TypeNext, <1>1, PTL DEF Spec

-------------------------------------------------------------------------------
(* Changes are kept only by a commit.  Safe Mode is released by a Ctrl+X that   *)
(* reaches a PTY which owns it.  Without a commit the harness sends one Ctrl+X  *)
(* only, in enter_safe_mode, and that one takes Safe Mode.                      *)

Sole(s) == \A i, j \in 1..Len(s) : s[i] = CtrlX /\ s[j] = CtrlX => i = j

\* No Ctrl+X was sent so far: enter_safe_mode has not come to its write.
Early == \/ stage = "connected"
         \/ call["op"] = "enter" /\ ~(held = "op" /\ at # "begin")
Untouched == ~rsafe /\ ~Has(rin, CtrlX)

Unasked ==
  /\ change # "kept" /\ Sole(rin)
  /\ rsafe => ~Has(rin, CtrlX)
  /\ Early => Untouched

KeepInv ==
  /\ call["op"] = "commit" => Has(decisions, "commit")
  /\ stage = "connected" => call["op"] = "none"
  /\ Has(decisions, "commit") \/ Unasked

LEMMA KeepInit == Init => KeepInv
BY DEF Init, KeepInv, Unasked, Sole, Early, Untouched, Has, Task

\* t holds no Ctrl+X that s does not hold.
Quieter(s, t) == /\ Has(t, CtrlX) => Has(s, CtrlX)
                 /\ Sole(s) => Sole(t)

LEMMA QuietSubSeq ==
  ASSUME NEW s \in Seq(Key), NEW m \in 1..(Len(s) + 1)
  PROVE  /\ Quieter(s, SubSeq(s, m, Len(s)))
         /\ s # <<>> /\ s[1] = CtrlX /\ Sole(s) => ~Has(SubSeq(s, 2, Len(s)), CtrlX)
<1>1. /\ Len(SubSeq(s, m, Len(s))) = Len(s) - m + 1
      /\ \A i \in 1..(Len(s) - m + 1) : SubSeq(s, m, Len(s))[i] = s[m + i - 1]
  BY SubSeqProperties
<1>2. \A i \in 1..(Len(s) - m + 1) : m + i - 1 \in 1..Len(s)
  OBVIOUS
<1>3. s # <<>> => /\ Len(SubSeq(s, 2, Len(s))) = Len(s) - 1
                  /\ \A i \in 1..(Len(s) - 1) : SubSeq(s, 2, Len(s))[i] = s[i + 1]
  <2> SUFFICES ASSUME s # <<>>
               PROVE  /\ Len(SubSeq(s, 2, Len(s))) = Len(s) - 1
                      /\ \A i \in 1..(Len(s) - 1) : SubSeq(s, 2, Len(s))[i] = s[i + 1]
    OBVIOUS
  <2>1. Len(s) \in Nat /\ Len(s) # 0
    OBVIOUS
  <2>2. 2 \in 1..(Len(s) + 1) /\ Len(s) \in 1..Len(s)
    BY <2>1
  <2>3. Len(s) - 2 + 1 = Len(s) - 1 /\ \A i \in 1..(Len(s) - 1) : 2 + i - 1 = i + 1
    BY <2>1
  <2> QED BY <2>2, <2>3, SubSeqProperties
<1>4. Quieter(s, SubSeq(s, m, Len(s)))
  BY <1>1, <1>2 DEF Quieter, Has, Sole
<1>5. s # <<>> /\ s[1] = CtrlX /\ Sole(s) => ~Has(SubSeq(s, 2, Len(s)), CtrlX)
  BY <1>3 DEF Has, Sole
<1> QED BY <1>4, <1>5

LEMMA QuietConcat ==
  ASSUME NEW s \in Seq(Key), NEW keys \in Seq(Key), ~Has(keys, CtrlX)
  PROVE  Quieter(s, s \o keys)
<1>1. /\ Len(s \o keys) = Len(s) + Len(keys)
      /\ \A i \in 1..(Len(s) + Len(keys)) :
           (s \o keys)[i] = IF i <= Len(s) THEN s[i] ELSE keys[i - Len(s)]
  BY ConcatProperties
<1>2. \A i \in 1..(Len(s) + Len(keys)) : (s \o keys)[i] = CtrlX => i \in 1..Len(s)
  BY <1>1 DEF Has
<1> QED BY <1>1, <1>2 DEF Quieter, Has, Sole

LEMMA QuietDrop ==
  ASSUME NEW s \in Seq(Key), NEW i \in 1..Len(s)
  PROVE  Quieter(s, SubSeq(s, 1, i - 1) \o SubSeq(s, i + 1, Len(s)))
<1> DEFINE a == SubSeq(s, 1, i - 1)
           b == SubSeq(s, i + 1, Len(s))
<1>1. /\ a \in Seq(Key) /\ Len(a) = i - 1 /\ \A j \in 1..(i - 1) : a[j] = s[j]
      /\ b \in Seq(Key) /\ Len(b) = Len(s) - i
      /\ \A j \in 1..(Len(s) - i) : b[j] = s[i + j]
  BY SubSeqProperties
<1>2. /\ Len(a \o b) = Len(s) - 1
      /\ \A j \in 1..(Len(s) - 1) : (a \o b)[j] = IF j <= i - 1 THEN s[j] ELSE s[j + 1]
  <2>1. /\ Len(a \o b) = Len(a) + Len(b)
        /\ \A j \in 1..(Len(a) + Len(b)) :
             (a \o b)[j] = IF j <= Len(a) THEN a[j] ELSE b[j - Len(a)]
    BY <1>1, ConcatProperties
  <2> HIDE DEF a, b
  <2> QED BY <1>1, <2>1
<1> HIDE DEF a, b
<1>3. Len(s) \in Nat
  OBVIOUS
<1>4. Has(a \o b, CtrlX) => Has(s, CtrlX)
  BY <1>2, <1>3 DEF Has
<1>5. Sole(s) => Sole(a \o b)
  <2> DEFINE From(n) == IF n <= i - 1 THEN n ELSE n + 1
  <2>1. \A n \in 1..(Len(s) - 1) : From(n) \in 1..Len(s) /\ (a \o b)[n] = s[From(n)]
    <3> SUFFICES ASSUME NEW n \in 1..(Len(s) - 1)
                 PROVE  From(n) \in 1..Len(s) /\ (a \o b)[n] = s[From(n)]
      OBVIOUS
    <3>1. From(n) \in 1..Len(s)
      BY <1>3
    <3>2. (a \o b)[n] = s[From(n)]
      BY <1>2
    <3> QED BY <3>1, <3>2
  <2> SUFFICES ASSUME Sole(s), NEW j \in 1..(Len(s) - 1), NEW k \in 1..(Len(s) - 1),
                      (a \o b)[j] = CtrlX, (a \o b)[k] = CtrlX
               PROVE  j = k
    BY <1>2 DEF Sole
  <2>2. From(j) \in 1..Len(s) /\ From(k) \in 1..Len(s) /\ s[From(j)] = CtrlX /\ s[From(k)] = CtrlX
    BY <2>1
  <2>3. From(j) = From(k)
    <3> HIDE DEF From
    <3> QED BY <2>2 DEF Sole
  <2> QED BY <2>3, <1>3
<1> QED BY <1>4, <1>5 DEF a, b, Quieter

\* Steps that send no Ctrl+X and leave Safe Mode and the changes alone.
Harmless == /\ Quieter(rin, rin') /\ UNCHANGED <<rsafe, change, decisions>>

LEMMA KeepHarmless ==
  ASSUME KeepInv, Harmless, Early' => Early,
         call'["op"] \in {call["op"], "none"},
         stage' = "connected" => stage = "connected"
  PROVE  KeepInv'
BY DEF KeepInv, Harmless, Unasked, Untouched, Quieter

\* Once a commit was asked for, only the callers' bookkeeping is left to check.
LEMMA KeepAsked ==
  ASSUME KeepInv, Has(decisions', "commit"), stage' = "connected" => call'["op"] = "none"
  PROVE  KeepInv'
BY DEF KeepInv

\* A call of the agent's is none of the operator's.
LEMMA HolderCall ==
  ASSUME TypeInv, NEW c, Running(c)
  PROVE  /\ held \in Task /\ call[held] = c
         /\ c \in OpCalls => held = "op"
BY DEF Running, TypeInv, TypeOK, OpCalls, AgentCalls, Task

LEMMA ReturnBooks ==
  ASSUME TypeInv, KeepInv, held \in Task, NEW status, NEW text, Leaves(status, text)
  PROVE  /\ Early' => Early
         /\ call'["op"] \in {call["op"], "none"}
         /\ stage' = "connected" => stage = "connected" /\ call'["op"] = "none"
         /\ UNCHANGED decisions
<1>0. CASE Closes(status, text)
  BY <1>0 DEF Closes, Early, KeepInv
<1> SUFFICES ASSUME Return(status, text)
             PROVE  /\ Early' => Early
                    /\ call'["op"] \in {call["op"], "none"}
                    /\ stage' = "connected" => stage = "connected" /\ call'["op"] = "none"
                    /\ UNCHANGED decisions
  BY <1>0 DEF Leaves
<1>1. /\ call'["op"] = IF held = "op" THEN "none" ELSE call["op"]
      /\ held' = "free"
  BY DEF Return, TypeInv, TypeOK, Task
<1>2. stage' = "connected" => stage = "connected"
  BY DEF Return, StageAfter
<1> QED BY <1>1, <1>2 DEF Early, KeepInv, Return, Task

LEMMA KeepReturn ==
  ASSUME TypeInv, KeepInv, held \in Task, NEW status, NEW text, Leaves(status, text),
         Quieter(rin, rin'), UNCHANGED <<rsafe, change>>
  PROVE  KeepInv'
BY ReturnBooks, KeepHarmless DEF Harmless

LEMMA KeepStay ==
  ASSUME TypeInv, KeepInv, Quieter(rin, rin'), UNCHANGED <<rsafe, change, held, callers>>,
         at' = at \/ at' # "begin"
  PROVE  KeepInv'
<1>1. Early' => Early
  BY DEF Early, callers
<1> QED BY <1>1, KeepHarmless DEF Harmless, callers

LEMMA QuietSend ==
  ASSUME TypeInv, NEW keys \in Seq(Key), ~Has(keys, CtrlX), Send(keys)
  PROVE  Quieter(rin, rin') /\ UNCHANGED <<rsafe, change>>
<1>1. Quieter(rin, rin) /\ Quieter(rin, rin \o keys)
  BY QuietConcat DEF Quieter, TypeInv
<1> QED BY <1>1 DEF Send

LEMMA QuietTokens ==
  ASSUME TypeInv
  PROVE  /\ \A x \in {CtrlC, CtrlCD, Load, Yes, Cmd(0), Cmd(calls)} : ~Has(<<x>>, CtrlX)
         /\ ~Has(<<>>, CtrlX) /\ Quieter(rin, rin)
BY DEF Has, CtrlX, CtrlC, CtrlCD, Load, Yes, Cmd, Quieter

LEMMA KeepFramed ==
  ASSUME TypeInv, KeepInv, held \in Task, NEW keys \in Seq(Key), ~Has(keys, CtrlX),
         NEW where \in Reading, NEW leftover, SendFramed(keys, where, leftover)
  PROVE  KeepInv'
<1> DEFINE m == <<Mark(fresh + 1)>>
<1>1. m \in Seq(Key) /\ Len(m) = 1 /\ m[1] # CtrlX
  BY DEF Mark, CtrlX, Key, TypeInv
<1>2. keys \o m \in Seq(Key)
  BY <1>1, ConcatProperties
<1>3. ~Has(keys \o m, CtrlX)
  <2> HIDE DEF m
  <2>1. /\ Len(keys \o m) = Len(keys) + 1
        /\ \A i \in 1..(Len(keys) + 1) :
             (keys \o m)[i] = IF i <= Len(keys) THEN keys[i] ELSE m[i - Len(keys)]
    <3>1. /\ Len(keys \o m) = Len(keys) + Len(m)
          /\ \A i \in 1..(Len(keys) + Len(m)) :
               (keys \o m)[i] = IF i <= Len(keys) THEN keys[i] ELSE m[i - Len(keys)]
      BY <1>1, ConcatProperties
    <3> QED BY <1>1, <3>1
  <2>2. SUFFICES ASSUME NEW i \in 1..(Len(keys) + 1), (keys \o m)[i] = CtrlX PROVE FALSE
    BY <2>1 DEF Has
  <2>3. CASE i <= Len(keys)
    BY <2>1, <2>2, <2>3 DEF Has
  <2>4. CASE ~(i <= Len(keys))
    <3>1. i - Len(keys) = 1
      BY <2>4
    <3> QED BY <1>1, <2>1, <2>2, <2>4, <3>1
  <2> QED BY <2>3, <2>4
<1>4. Quieter(rin, rin') /\ UNCHANGED <<rsafe, change>>
  BY <1>2, <1>3, QuietSend DEF SendFramed
<1> QED BY <1>4, KeepStay DEF SendFramed, Reading

LEMMA RouterKept == UNCHANGED router => UNCHANGED <<rin, rsafe, change>>
BY DEF router

LEMMA KeepCallers ==
  ASSUME TypeInv, KeepInv,
         \/ CallEnter
         \/ \E c \in AgentCalls : CallAgent(c)
         \/ \E c \in OpCalls : CallOp(c)
         \/ RestoreRefused
         \/ \E t \in Task : Acquire(t) \/ CancelWaiter(t)
  PROVE  KeepInv'
<1> USE DEF frame
<1>0. UNCHANGED <<rin, rsafe, change>> /\ Quieter(rin, rin)
  BY QuietTokens DEF CallEnter, CallAgent, CallOp, RestoreRefused, Acquire, CancelWaiter, router
<1>1. CASE CallEnter
  <2>1. Early
    BY <1>1 DEF CallEnter, Early
  <2>2. call'["op"] = "enter" /\ stage' = "entering" /\ UNCHANGED decisions
    BY <1>1 DEF CallEnter, Enter, TypeInv, Task
  <2> QED BY <1>0, <2>1, <2>2 DEF KeepInv, Unasked, Untouched, Sole, Has
<1>2. ASSUME NEW c \in AgentCalls, CallAgent(c) PROVE KeepInv'
  <2>1. call'["op"] = call["op"] /\ UNCHANGED <<stage, held, at, decisions>>
    BY <1>2 DEF CallAgent, Enter, TypeInv, Task
  <2> QED BY <1>0, <2>1, KeepHarmless DEF Harmless, Early
<1>3. ASSUME NEW c \in OpCalls, CallOp(c) PROVE KeepInv'
  <2>1. call["op"] = "none" /\ call'["op"] = c /\ UNCHANGED <<stage, held, at>>
    BY <1>3 DEF CallOp, Enter, TypeInv, Task
  <2>2. stage # "connected" /\ c # "enter"
    BY <1>3 DEF CallOp
  <2>3. ~Early'
    BY <2>1, <2>2 DEF Early
  <2>4. \/ UNCHANGED decisions /\ c = "abort"
        \/ decisions' = Append(decisions, c)
    BY <1>3 DEF CallOp
  <2>5. /\ Has(decisions, "commit") => Has(decisions', "commit")
        /\ c = "commit" => Has(decisions', "commit")
    BY <2>4 DEF Has, TypeInv
  <2> QED BY <1>0, <2>1, <2>2, <2>3, <2>5 DEF KeepInv, Unasked, Sole, Has
<1>4. ASSUME NEW t \in Task, Acquire(t) PROVE KeepInv'
  <2>1. Early' => Early
    BY <1>4 DEF Acquire, Early, callers, Task
  <2> QED BY <1>0, <1>4, <2>1, KeepHarmless DEF Acquire, Harmless, callers
<1>5. ASSUME NEW t \in Task, CancelWaiter(t) PROVE KeepInv'
  <2>1. call'["op"] = IF t = "op" THEN "none" ELSE call["op"]
    BY <1>5 DEF CancelWaiter, TypeInv, Task
  <2>2. stage' = "connected" => stage = "connected"
    BY <1>5 DEF CancelWaiter, StageAfter
  <2>3. Early' => Early
    BY <1>5, <2>1, <2>2 DEF CancelWaiter, Early
  <2> QED BY <1>0, <1>5, <2>1, <2>2, <2>3, KeepHarmless DEF CancelWaiter, Harmless
<1>6. CASE RestoreRefused
  <2>1. UNCHANGED <<call, stage, held, at>> /\ (Early' => Early)
    BY <1>6 DEF RestoreRefused, Early
  <2>2. Has(decisions, "commit") => Has(decisions', "commit")
    BY <1>6 DEF RestoreRefused, Has, TypeInv
  <2> QED BY <1>0, <2>1, <2>2 DEF KeepInv, Unasked, Untouched, Sole, Has
<1> QED BY <1>1, <1>2, <1>3, <1>4, <1>5, <1>6

\* The one Ctrl+X that is sent without a commit.
LEMMA KeepEnterBegin == ASSUME TypeInv, KeepInv, EnterBegin PROVE KeepInv'
<1>1. held = "op" /\ call["op"] = "enter" /\ Early
  BY HolderCall DEF EnterBegin, OpCalls, Early
<1>2. CASE Send(<<CtrlX>>) /\ at' = "taking" /\ UNCHANGED <<held, callers>>
  <2>1. stage' # "connected" /\ ~Early'
    BY <1>1, <1>2 DEF KeepInv, Early, callers
  <2>2. ASSUME Untouched PROVE Sole(rin')
    <3>1. \A i \in 1..Len(rin) : rin[i] # CtrlX
      BY <2>2 DEF Untouched, Has
    <3>2. <<CtrlX>> \in Seq(Key)
      BY TypeTokens
    <3>3. /\ Len(rin \o <<CtrlX>>) = Len(rin) + 1
          /\ \A i \in 1..Len(rin) : (rin \o <<CtrlX>>)[i] = rin[i]
      BY <3>2, ConcatProperties DEF TypeInv
    <3>4. Len(rin) \in Nat /\ (rin' = rin \/ rin' = rin \o <<CtrlX>>)
      BY <1>2 DEF Send, TypeInv
    <3>5. CASE rin' = rin \o <<CtrlX>>
      <4>1. \A i \in 1..Len(rin') : rin'[i] = CtrlX => i = Len(rin) + 1
        BY <3>1, <3>3, <3>4, <3>5
      <4> QED BY <4>1 DEF Sole
    <3> QED BY <3>1, <3>4, <3>5 DEF Sole
  <2>3. UNCHANGED <<rsafe, change, decisions, call>>
    BY <1>2 DEF Send, callers
  <2> QED BY <1>1, <2>1, <2>2, <2>3 DEF KeepInv, Unasked, Untouched
<1>3. CASE UNCHANGED router /\ \E status, text : Leaves(status, text)
  BY <1>1, <1>3, RouterKept, QuietTokens, KeepReturn DEF Task
<1> QED BY <1>2, <1>3 DEF EnterBegin, Leaves

\* The other actions of the callers return or send, and send no Ctrl+X.
LEMMA KeepSteps ==
  ASSUME TypeInv, KeepInv,
         \/ EnterTaken \/ EnterSettled \/ EnterFails \/ ExecuteStep
         \/ RecountStep \/ ResyncStep
  PROVE  KeepInv'
<1>1. held \in Task
  BY TypeUnchanged DEF EnterTaken, EnterSettled, EnterFails, ExecuteStep, ExecuteBegin,
     ExecuteReply, ExecuteLost, ExecuteTimeout, RecountStep, RefreshBegin, RecountDone,
     RecountFails, ResyncStep, ResyncDone, ResyncFails
<1>2. CASE UNCHANGED router /\ \E status, text : Leaves(status, text)
  BY <1>1, <1>2, RouterKept, QuietTokens, KeepReturn
<1>3. CASE \E leftover : \/ SendFramed(<<>>, "settle", leftover)
                         \/ SendFramed(<<Cmd(calls)>>, "reply", leftover)
                         \/ SendFramed(<<Cmd(0)>>, "recount", leftover)
                         \/ SendFramed(<<CtrlC>>, "resync", leftover)
  BY <1>1, <1>3, KeepFramed, QuietTokens, TypeTokens DEF Reading
<1> QED BY <1>2, <1>3 DEF Leaves, EnterTaken, EnterSettled, EnterFails, ExecuteStep, ExecuteBegin,
     ExecuteReply, ExecuteLost, ExecuteTimeout, RecountStep, RefreshBegin, RecountDone,
     RecountFails, ResyncStep, ResyncDone, ResyncFails

LEMMA KeepCommit == ASSUME TypeInv, KeepInv, CommitStep PROVE KeepInv'
<1>1. held = "op" /\ call["op"] = "commit" /\ Has(decisions, "commit")
  BY HolderCall DEF CommitStep, CommitBegin, CommitReleased, CommitConfirmed, CommitFails,
     OpCalls, KeepInv
<1>2. CASE \E status, text : Leaves(status, text)
  BY <1>1, <1>2, ReturnBooks, KeepAsked DEF Task
<1>3. CASE UNCHANGED callers
  BY <1>1, <1>3, KeepAsked DEF callers, KeepInv
<1> QED BY <1>2, <1>3 DEF CommitStep, CommitBegin, CommitReleased, CommitConfirmed,
     CommitFails, SendFramed, Leaves

LEMMA KeepClosing == ASSUME TypeInv, KeepInv, Abort \/ RestoreStep \/ CloseEnds PROVE KeepInv'
<1>1. held \in Task
  BY TypeUnchanged DEF Abort, RestoreStep, RestoreBegin, RestorePut, RestoreAnswer,
     RestoreFails, CloseEnds
<1>2. CASE RestoreBegin /\ at' = "sftp" /\ UNCHANGED <<held, callers>>
  BY <1>2, QuietTokens, RouterKept, KeepStay DEF RestoreBegin
<1>3. CASE RestorePut
  <2>1. Quieter(rin, rin') /\ UNCHANGED <<rsafe, change>>
    BY <1>3, QuietTokens, TypeTokens, QuietSend DEF RestorePut
  <2>2. at' # "begin" /\ UNCHANGED <<held, callers>>
    BY <1>3 DEF RestorePut
  <2> QED BY <2>1, <2>2, KeepStay
<1>4. CASE /\ Send(<<CtrlCD>>) \/ Send(<<Yes>>) \/ UNCHANGED router
           /\ \E status, text : Leaves(status, text)
  <2>1. Quieter(rin, rin') /\ UNCHANGED <<rsafe, change>>
    BY <1>4, QuietTokens, TypeTokens, QuietSend, RouterKept
  <2> QED BY <1>1, <1>4, <2>1, KeepReturn
<1> QED BY <1>2, <1>3, <1>4 DEF Leaves, Abort, RestoreStep, RestoreBegin, RestoreAnswer,
     RestoreFails, CloseEnds, router

LEMMA KeepRouter ==
  ASSUME TypeInv, KeepInv, RouterStep \/ LinkDrops \/ RouterNotices
  PROVE  KeepInv'
<1>1. UNCHANGED <<client, frame, callers>>
  BY DEF RouterStep, RouterTakes, RouterFinishes, RouterInterrupted, RouterEnds,
         LinkDrops, RouterNotices
<1>2. Early' = Early /\ UNCHANGED <<call, stage, decisions>>
  BY <1>1 DEF Early, frame, callers
<1>3. CASE Harmless
  BY <1>2, <1>3, KeepHarmless
<1>4. CASE RouterTakes
  <2>1. /\ rin \in Seq(Key) /\ rin # <<>> /\ rin' = SubSeq(rin, 2, Len(rin))
        /\ 2 \in 1..(Len(rin) + 1)
    BY <1>4 DEF RouterTakes, TypeInv
  <2>2. Quieter(rin, rin') /\ (rin[1] = CtrlX /\ Sole(rin) => ~Has(rin', CtrlX))
    BY <2>1, QuietSubSeq
  <2>3. ASSUME NEW c, RouterCommand(c) PROVE KeepInv'
    <3>1. rsafe' = rsafe /\ (change' = "kept" => change = "kept")
      BY <2>3 DEF RouterCommand, Effect
    <3> QED BY <1>2, <2>2, <3>1 DEF KeepInv, Unasked, Untouched, Quieter
  <2>4. ASSUME NEW foreign, RouterToggle(foreign) PROVE KeepInv'
    <3>1. rin[1] = CtrlX /\ Has(rin, CtrlX)
      BY <2>1, <2>4 DEF RouterToggle, Has
    <3>2. Has(decisions, "commit") \/ (~rsafe /\ ~Early)
      BY <3>1 DEF KeepInv, Unasked, Untouched
    <3>3. ~rsafe => change' = change
      BY <2>4 DEF RouterToggle
    <3> QED BY <1>2, <2>2, <3>1, <3>2, <3>3 DEF KeepInv, Unasked, Quieter
  <2>5. CASE RouterEcho
    BY <1>2, <1>3, <2>2, <2>5 DEF RouterEcho, Harmless
  <2> QED BY <1>4, <2>3, <2>4, <2>5 DEF RouterTakes
<1>5. CASE RouterFinishes \/ LinkDrops
  BY <1>2, <1>3, <1>5, QuietTokens DEF RouterFinishes, LinkDrops, Harmless
<1>6. CASE RouterInterrupted
  <2>1. PICK i \in 1..Len(rin) :
          \/ rin' = SubSeq(rin, i + 1, Len(rin))
          \/ rin' = SubSeq(rin, 1, i - 1) \o SubSeq(rin, i + 1, Len(rin))
    BY <1>6 DEF RouterInterrupted
  <2>2. rin \in Seq(Key) /\ i + 1 \in 1..(Len(rin) + 1)
    BY DEF TypeInv
  <2>3. Quieter(rin, rin')
    BY <2>1, <2>2, QuietSubSeq, QuietDrop
  <2> QED BY <1>2, <1>3, <1>6, <2>3 DEF RouterInterrupted, Harmless
<1>7. CASE RouterEnds \/ RouterNotices
  <2>1. rin' = <<>> /\ rsafe' = FALSE /\ change' = Undone
    BY <1>7 DEF RouterEnds, RouterNotices
  <2>2. ~Has(rin', CtrlX) /\ Sole(rin') /\ (change' = "kept" => change = "kept")
    BY <2>1 DEF Has, Sole, Undone
  <2> QED BY <1>2, <2>1, <2>2 DEF KeepInv, Unasked, Untouched
<1> QED BY <1>4, <1>5, <1>6, <1>7 DEF RouterStep

LEMMA KeepNext == TypeInv /\ KeepInv /\ [Next]_vars => KeepInv'
<1> SUFFICES ASSUME TypeInv, KeepInv, [Next]_vars PROVE KeepInv'
  OBVIOUS
<1>1. CASE Receive
  <2>1. at' = at /\ UNCHANGED <<held, callers, rin, rsafe, change>>
    BY <1>1 DEF Receive
  <2> QED BY <2>1, QuietTokens, KeepStay
<1>2. CASE CancelHolder
  <2>1. held \in Task
    BY <1>2, TypeUnchanged DEF CancelHolder
  <2> QED BY <1>2, <2>1, RouterKept, QuietTokens, KeepReturn DEF CancelHolder, Leaves
<1>3. CASE UNCHANGED vars
  BY <1>3, QuietTokens, KeepStay DEF vars, frame, router
<1> QED BY <1>1, <1>2, <1>3, KeepCallers, KeepEnterBegin, KeepSteps, KeepCommit, KeepClosing,
          KeepRouter DEF Next, HolderStep, EnterStep

\* RouterOS keeps the changes made under Safe Mode only if the operator asked for
\* a commit, however the calls of the two tasks interleave, time out, are
\* cancelled or lose the link, and for any number of calls and decisions.
THEOREM KeptByCommit == Spec => []KeptOnlyByCommit
<1>1. KeepInv => KeptOnlyByCommit
  BY DEF KeepInv, Unasked, KeptOnlyByCommit
<1> QED BY TypeInit, TypeNext, KeepInit, KeepNext, <1>1, PTL DEF Spec

-------------------------------------------------------------------------------
(* Sequences of tokens.                                                       *)

\* t is what is left of s when some of its elements are taken out.
Thins(t, s) ==
  \E f \in [1..Len(t) -> 1..Len(s)] :
    /\ \A i \in 1..Len(t) : t[i] = s[f[i]]
    /\ \A i, j \in 1..Len(t) : i < j => f[i] < f[j]

LEMMA ThinTail ==
  ASSUME NEW S, NEW s \in Seq(S), NEW m \in 1..(Len(s) + 1)
  PROVE  Thins(SubSeq(s, m, Len(s)), s)
<1> DEFINE t == SubSeq(s, m, Len(s))
           f == [i \in 1..Len(t) |-> m + i - 1]
<1>1. Len(t) = Len(s) - m + 1 /\ \A i \in 1..(Len(s) - m + 1) : t[i] = s[m + i - 1]
  BY SubSeqProperties
<1>2. \A i \in 1..(Len(s) - m + 1) : m + i - 1 \in 1..Len(s)
  OBVIOUS
<1> HIDE DEF t
<1>3. f \in [1..Len(t) -> 1..Len(s)]
  BY <1>1, <1>2
<1>4. \A i \in 1..Len(t) : t[i] = s[f[i]]
  BY <1>1
<1>5. \A i, j \in 1..Len(t) : i < j => f[i] < f[j]
  BY <1>1
<1> HIDE DEF f
<1>6. Thins(t, s)
  BY <1>3, <1>4, <1>5 DEF Thins
<1> QED
  BY <1>6 DEF t

LEMMA ThinDrop ==
  ASSUME NEW S, NEW s \in Seq(S), NEW i \in 1..Len(s)
  PROVE  Thins(SubSeq(s, 1, i - 1) \o SubSeq(s, i + 1, Len(s)), s)
<1> DEFINE a == SubSeq(s, 1, i - 1)
           b == SubSeq(s, i + 1, Len(s))
           f == [j \in 1..(Len(s) - 1) |-> IF j <= i - 1 THEN j ELSE j + 1]
<1>1. /\ a \in Seq(S) /\ Len(a) = i - 1 /\ \A j \in 1..(i - 1) : a[j] = s[j]
      /\ b \in Seq(S) /\ Len(b) = Len(s) - i
      /\ \A j \in 1..(Len(s) - i) : b[j] = s[i + j]
  BY SubSeqProperties
<1>2. /\ Len(a \o b) = Len(s) - 1
      /\ \A j \in 1..(Len(s) - 1) : (a \o b)[j] = IF j <= i - 1 THEN s[j] ELSE s[j + 1]
  <2>1. /\ Len(a \o b) = Len(a) + Len(b)
        /\ \A j \in 1..(Len(a) + Len(b)) :
             (a \o b)[j] = IF j <= Len(a) THEN a[j] ELSE b[j - Len(a)]
    BY <1>1, ConcatProperties
  <2> HIDE DEF a, b
  <2>2. Len(a) \in Nat /\ Len(b) \in Nat /\ Len(a) + Len(b) = Len(s) - 1
    BY <1>1
  <2>3. ASSUME NEW j \in 1..(Len(s) - 1), j <= i - 1 PROVE (a \o b)[j] = s[j]
    BY <1>1, <2>1, <2>2, <2>3
  <2>4. ASSUME NEW j \in 1..(Len(s) - 1), ~(j <= i - 1) PROVE (a \o b)[j] = s[j + 1]
    <3>1. (a \o b)[j] = b[j - Len(a)]
      BY <1>1, <2>1, <2>2, <2>4
    <3>2. j - Len(a) \in 1..(Len(s) - i) /\ i + (j - Len(a)) = j + 1
      BY <1>1, <2>4
    <3> QED
      BY <1>1, <3>1, <3>2
  <2> QED
    BY <2>1, <2>2, <2>3, <2>4
<1> HIDE DEF a, b
<1>3. f \in [1..Len(a \o b) -> 1..Len(s)]
  BY <1>2
<1>4. \A j \in 1..Len(a \o b) : (a \o b)[j] = s[f[j]]
  BY <1>2
<1>5. \A j, k \in 1..Len(a \o b) : j < k => f[j] < f[k]
  BY <1>2
<1> HIDE DEF f
<1>6. Thins(a \o b, s)
  BY <1>3, <1>4, <1>5 DEF Thins
<1> QED
  BY <1>6 DEF a, b

LEMMA HasConcat ==
  ASSUME NEW S, NEW s \in Seq(S), NEW t \in Seq(S), NEW x
  PROVE  Has(s \o t, x) <=> Has(s, x) \/ Has(t, x)
<1>1. /\ Len(s \o t) = Len(s) + Len(t)
      /\ \A i \in 1..(Len(s) + Len(t)) :
           (s \o t)[i] = IF i <= Len(s) THEN s[i] ELSE t[i - Len(s)]
  BY ConcatProperties
<1>2. ASSUME NEW i \in 1..Len(t) PROVE (s \o t)[Len(s) + i] = t[i]
  BY <1>1
<1>3. Has(s, x) => Has(s \o t, x)
  BY <1>1 DEF Has
<1>4. Has(t, x) => Has(s \o t, x)
  BY <1>1, <1>2 DEF Has
<1>5. Has(s \o t, x) => Has(s, x) \/ Has(t, x)
  BY <1>1 DEF Has
<1> QED
  BY <1>3, <1>4, <1>5

LEMMA HasThin ==
  ASSUME NEW s, NEW t, Thins(t, s), NEW x, Has(t, x)
  PROVE  Has(s, x)
BY DEF Thins, Has

LEMMA HasOne == \A x, y : Has(<<x>>, y) <=> x = y
BY DEF Has

-------------------------------------------------------------------------------
(* The inductive invariant.                                                   *)

Text == {"head", "safe", "taken", "hijack", "ask", "out", "mark"} \X Nat
Committing == at \in {"release", "confirm"}

\* Who reads the PTY, and for whom the session is open.
OwnerInv ==
  /\ at \in Reading => alive /\ held \in Task
  /\ at = "closing" => ~alive
  /\ Committing => call["op"] = "commit" /\ held = "op"
  /\ at \in {"taking", "settle"} => call["op"] = "enter" /\ held = "op"
  /\ at = "ask" => call["op"] = "restore" /\ held = "op"
  /\ at = "sftp" => call["op"] = "restore" /\ held = "op" /\ alive
  /\ at \in {"reply", "resync", "recount"} => held = "agent"
  /\ call["op"] = "enter" <=> stage = "entering"
  /\ call["op"] \in {"commit", "restore"} => stage = "unlocked"
  /\ call["agent"] # "none" /\ alive => stage = "unlocked"
  /\ stage \in {"connected", "entering"} => call["agent"] = "none" /\ pending = <<>>
  /\ stage = "left" => ~alive
  /\ alive /\ safe => stage = "unlocked"
  /\ at \in {"idle", "begin", "release"} => raw = <<>>

\* The markers in a piece of text were handed out.
Known(s) == \A i \in 1..Len(s) : s[i][1] = "mark" => s[i][2] <= fresh

\* The router owns Safe Mode while a command is on its way, and only markers follow a
\* Ctrl+X that is on its way.
KeysInv ==
  /\ ~exposed /\ Known(rin)
  /\ \A i \in 1..Len(rin) : rin[i][1] = "cmd" /\ rin[i][2] # 0 => rsafe
  /\ \A i, j \in 1..Len(rin) : i < j /\ rin[i] = CtrlX => rin[j][1] = "mark"
  /\ rsafe => change \in {"none", "floating"}
  /\ ~rsafe => change # "floating"
  /\ Has(rin, CtrlX) => rsafe \/ change = "none"

\* RouterOS owns Safe Mode for the session, unless the link is down, and nothing on its way
\* ends that.
Protected == /\ link = "up" => rsafe
             /\ ~Has(rin, CtrlX)

\* What enter_safe_mode saw is so, and stays so until commit_and_close writes.
ProtectInv ==
  /\ stage = "unlocked" /\ alive /\ ~Committing => Protected
  /\ at = "settle" => Protected
  /\ stage \in {"connected", "entering"} /\ Has(out, Taken) => Protected
  /\ at = "taking" /\ Has(buf, Taken) => Protected

\* Text has its type and carries no marker that was not handed out.
TextInv ==
  /\ out \in Seq(Text) /\ Known(out)
  /\ at = "taking" \/ Committing => buf \in Seq(Text) /\ Known(buf)
  /\ at = "confirm" => raw \in Seq(Text) /\ Known(raw)

\* The text of the read in progress, the part that has not arrived included.
Stream == buf \o out

\* The last prompt of a text carries no <SAFE>.
BareAt(s) ==
  \E i \in 1..Len(s) : /\ s[i] = Head0
                       /\ \A j \in (i + 1)..Len(s) : s[j] # Head0
                       /\ i < Len(s) => s[i + 1] # SafeTail

\* The marker of commit_and_close is in the text; its first one is behind a bare prompt.
Answered == at = "confirm" /\ Has(Stream, Mark(want))
FencedIn(s) ==
  \E m \in 1..Len(s) : /\ s[m] = Mark(want) /\ \A k \in 1..(m - 1) : s[k] # Mark(want)
                       /\ BareAt(raw \o SubSeq(s, 1, m - 1))

\* The evidence for a release that a text holds.
Evidence(s) == /\ BareAt(raw \o s)
               /\ at = "confirm" /\ Has(s, Mark(want)) => FencedIn(s)

\* Where the Ctrl+X of commit_and_close is: before its marker on the way to the router;
\* never sent, and the marker neither; or taken, with a bare prompt for it.
Underway ==
  /\ Has(rin, CtrlX) /\ rsafe /\ ~Answered
  /\ at = "confirm" => \A i, j \in 1..Len(rin) : i < j /\ rin[j] = CtrlX => rin[i] # Mark(want)
Unsent ==
  /\ link = "down" /\ ~Has(rin, CtrlX) /\ ~Answered
  /\ at = "confirm" => ~Has(rin, Mark(want))
Released ==
  /\ ~Has(rin, CtrlX) /\ ~rsafe /\ change \in {"none", "kept"}
  /\ Evidence(Stream)
ReleaseInv == Committing => Underway \/ Unsent \/ Released

\* The operator was told that the changes are kept, or is to be when the transport is closed.
ToldInv ==
  result["op"].status = "committed" =>
    /\ ~rsafe /\ ~Has(rin, CtrlX) /\ change \in {"none", "kept"}
    /\ Has(decisions, "commit")
    /\ \/ stage = "left" /\ call["op"] = "none"
       \/ at = "closing" /\ held = "op" /\ call["op"] = "commit"

\* Before Safe Mode is entered no command was sent and nothing decided.
FreshInv ==
  stage \in {"connected", "entering"} =>
    /\ change = "none" /\ ~Has(decisions, "commit")
    /\ \A i \in 1..Len(rin) : rin[i][1] # "cmd"

SafeInv ==
  /\ TypeInv /\ KeepInv /\ FreshInv
  /\ OwnerInv /\ KeysInv /\ TextInv /\ ProtectInv /\ ReleaseInv /\ ToldInv

LEMMA SafeInit == Init => SafeInv
<1> SUFFICES ASSUME Init PROVE SafeInv
  OBVIOUS
<1>1. OwnerInv /\ ReleaseInv
  BY DEF Init, OwnerInv, ReleaseInv, Committing, Reading, Task
<1>2. KeysInv /\ TextInv /\ ProtectInv
  BY DEF Init, KeysInv, TextInv, ProtectInv, Known, Has, Committing
<1>3. ToldInv /\ FreshInv
  BY DEF Init, ToldInv, FreshInv, NoResult, Task, Has
<1> QED
  BY <1>1, <1>2, <1>3, TypeInit, KeepInit DEF SafeInv

-------------------------------------------------------------------------------
(* Keystrokes.                                                                *)

LEMMA KeysThin ==
  ASSUME KeysInv, Thins(rin', rin), UNCHANGED <<rsafe, exposed, fresh>>,
         change' = change \/ (rsafe /\ change' \in {"none", "floating"})
  PROVE  KeysInv'
<1> PICK f \in [1..Len(rin') -> 1..Len(rin)] :
         /\ \A i \in 1..Len(rin') : rin'[i] = rin[f[i]]
         /\ \A i, j \in 1..Len(rin') : i < j => f[i] < f[j]
  BY DEF Thins
<1>0. UNCHANGED fresh /\ \A i \in 1..Len(rin') : f[i] \in 1..Len(rin)
  OBVIOUS
<1>1. /\ \A i \in 1..Len(rin') : rin'[i][1] = "mark" => rin'[i][2] <= fresh'
      /\ \A i \in 1..Len(rin') : rin'[i][1] = "cmd" /\ rin'[i][2] # 0 => rsafe'
  <2>1. ASSUME NEW i \in 1..Len(rin'), rin'[i][1] = "mark" PROVE rin'[i][2] <= fresh'
    BY <1>0, <2>1 DEF KeysInv, Known
  <2>2. ASSUME NEW i \in 1..Len(rin'), rin'[i][1] = "cmd", rin'[i][2] # 0 PROVE rsafe'
    BY <1>0, <2>2 DEF KeysInv
  <2> QED
    BY <2>1, <2>2
<1>2. \A i, j \in 1..Len(rin') : i < j /\ rin'[i] = CtrlX => rin'[j][1] = "mark"
  BY DEF KeysInv
<1>3. Has(rin', CtrlX) => rsafe' \/ change' = "none"
  BY DEF KeysInv, Has
<1> QED
  BY <1>1, <1>2, <1>3 DEF KeysInv, Known

\* Keys the harness may write: a command or another key when no Ctrl+X is under way, a
\* marker at any time.
LEMMA KeysSend ==
  ASSUME TypeInv, KeysInv, NEW keys \in Seq(Key), Send(keys),
         fresh' \in Nat, fresh <= fresh',
         \A i \in 1..Len(keys) : keys[i][1] = "mark" => keys[i][2] <= fresh',
         \A i \in 1..Len(keys) : keys[i][1] = "cmd" /\ keys[i][2] # 0 => rsafe \/ link = "down",
         Has(rin, CtrlX) => \A i \in 1..Len(keys) : keys[i][1] = "mark",
         \A i, j \in 1..Len(keys) : i < j /\ keys[i] = CtrlX => keys[j][1] = "mark",
         Has(keys, CtrlX) => rsafe \/ change = "none" \/ link = "down"
  PROVE  KeysInv'
<1>1. UNCHANGED <<link, rsafe, change, exposed>> /\ rin \in Seq(Key) /\ fresh \in Nat
  BY DEF Send, TypeInv
<1>2. \A i \in 1..Len(rin) : rin[i][1] = "mark" => rin[i][2] <= fresh'
  <2>1. \A i \in 1..Len(rin) : rin[i][2] \in Nat
    BY <1>1, ElementOfSeq DEF Key
  <2> QED
    BY <1>1, <2>1 DEF KeysInv, Known
<1>3. CASE rin' = rin
  BY <1>1, <1>2, <1>3 DEF KeysInv, Known
<1>4. CASE rin' = rin \o keys /\ link = "up"
  <2>1. /\ Len(rin') = Len(rin) + Len(keys) /\ Len(rin) \in Nat /\ Len(keys) \in Nat
        /\ \A i \in 1..Len(rin') : rin'[i] = IF i <= Len(rin) THEN rin[i] ELSE keys[i - Len(rin)]
    BY <1>1, <1>4, ConcatProperties
  <2>2. \A i \in 1..Len(rin') : \/ i \in 1..Len(rin) /\ rin'[i] = rin[i]
                                \/ i > Len(rin) /\ i - Len(rin) \in 1..Len(keys)
                                   /\ rin'[i] = keys[i - Len(rin)]
    BY <2>1
  <2>3. ASSUME NEW i \in 1..Len(rin'), rin'[i][1] = "mark" PROVE rin'[i][2] <= fresh'
    BY <1>2, <2>2, <2>3
  <2>4. \A i \in 1..Len(rin') : rin'[i][1] = "cmd" /\ rin'[i][2] # 0 => rsafe'
    BY <1>1, <1>4, <2>2 DEF KeysInv
  <2>5. ASSUME NEW i \in 1..Len(rin'), NEW j \in 1..Len(rin'), i < j, rin'[i] = CtrlX
        PROVE  rin'[j][1] = "mark"
    <3>1. CASE j <= Len(rin)
      BY <2>1, <2>2, <2>5, <3>1 DEF KeysInv
    <3>2. CASE i <= Len(rin) /\ ~(j <= Len(rin))
      BY <2>1, <2>2, <2>5, <3>2 DEF Has
    <3>3. CASE ~(i <= Len(rin)) /\ ~(j <= Len(rin))
      <4>1. i - Len(rin) \in 1..Len(keys) /\ j - Len(rin) \in 1..Len(keys)
            /\ i - Len(rin) < j - Len(rin)
        BY <2>1, <2>5, <3>3
      <4> QED
        BY <2>1, <2>5, <3>3, <4>1
    <3> QED
      BY <2>1, <2>5, <3>1, <3>2, <3>3
  <2>6. Has(rin', CtrlX) => rsafe' \/ change' = "none"
    BY <1>1, <1>4, HasConcat DEF KeysInv
  <2> QED
    BY <1>1, <2>3, <2>4, <2>5, <2>6 DEF KeysInv, Known
<1> QED
  BY <1>3, <1>4, <1>1 DEF Send, TypeInv, TypeOK

-------------------------------------------------------------------------------
(* Text.                                                                      *)

LEMMA TextTokens ==
  /\ {Head0, SafeTail, Taken, Hijack, Ask} \subseteq Text
  /\ \A n \in Nat : Out(n) \in Text /\ Mark(n) \in Text
  /\ \A s \in BOOLEAN : Prompt(s) \in Seq(Text)
<1>1. {Head0, SafeTail, Taken, Hijack, Ask} \subseteq Text
  BY DEF Head0, SafeTail, Taken, Hijack, Ask, Text
<1>2. \A n \in Nat : Out(n) \in Text /\ Mark(n) \in Text
  BY DEF Out, Mark, Text
<1>3. ASSUME NEW s \in BOOLEAN PROVE Prompt(s) \in Seq(Text)
  <2>1. <<Head0, SafeTail>> \in Seq(Text) /\ <<Head0>> \in Seq(Text)
    BY <1>1
  <2> QED
    BY <2>1 DEF Prompt
<1> QED
  BY <1>1, <1>2, <1>3

LEMMA OneMore ==
  ASSUME NEW S, NEW s \in Seq(S), NEW t \in S
  PROVE  /\ s \o <<t>> \in Seq(S) /\ Len(s \o <<t>>) = Len(s) + 1 /\ Len(s) \in Nat
         /\ (s \o <<t>>)[Len(s) + 1] = t
         /\ \A i \in 1..Len(s) : (s \o <<t>>)[i] = s[i]
<1>1. <<t>> \in Seq(S) /\ Len(<<t>>) = 1 /\ <<t>>[1] = t
  OBVIOUS
<1>2. /\ s \o <<t>> \in Seq(S) /\ Len(s \o <<t>>) = Len(s) + 1
      /\ \A i \in 1..(Len(s) + 1) : (s \o <<t>>)[i] = IF i <= Len(s) THEN s[i] ELSE <<t>>[i - Len(s)]
  BY <1>1, ConcatProperties
<1> QED
  BY <1>1, <1>2

LEMMA BareGrow ==
  ASSUME NEW s \in Seq(Text), NEW t \in Text, t # SafeTail, BareAt(s)
  PROVE  BareAt(s \o <<t>>)
<1>1. /\ Len(s \o <<t>>) = Len(s) + 1 /\ Len(s) \in Nat /\ (s \o <<t>>)[Len(s) + 1] = t
      /\ \A i \in 1..Len(s) : (s \o <<t>>)[i] = s[i]
  BY OneMore
<1> DEFINE u == s \o <<t>>
<1> HIDE DEF u
<1>2. CASE t = Head0
  <2>1. /\ Len(s) + 1 \in 1..Len(u) /\ u[Len(s) + 1] = Head0
        /\ \A j \in (Len(s) + 2)..Len(u) : u[j] # Head0
        /\ ~(Len(s) + 1 < Len(u))
    BY <1>1, <1>2 DEF u
  <2>2. BareAt(u)
    BY <2>1 DEF BareAt
  <2> QED
    BY <2>2 DEF u
<1>3. CASE t # Head0
  <2>1. PICK i \in 1..Len(s) : /\ s[i] = Head0
                               /\ \A j \in (i + 1)..Len(s) : s[j] # Head0
                               /\ i < Len(s) => s[i + 1] # SafeTail
    BY DEF BareAt
  <2>2. /\ i \in 1..Len(u) /\ u[i] = Head0
        /\ \A j \in (i + 1)..Len(u) : u[j] # Head0
        /\ i < Len(u) => u[i + 1] # SafeTail
    <3>1. \A j \in (i + 1)..Len(u) : u[j] # Head0
      BY <1>1, <1>3, <2>1 DEF u
    <3>2. i < Len(u) => u[i + 1] # SafeTail
      BY <1>1, <2>1 DEF u
    <3> QED
      BY <1>1, <2>1, <3>1, <3>2 DEF u
  <2>3. BareAt(u)
    BY <2>2 DEF BareAt
  <2> QED
    BY <2>3 DEF u
<1> QED
  BY <1>2, <1>3

LEMMA BareHead ==
  ASSUME NEW s \in Seq(Text)
  PROVE  BareAt(s \o <<Head0>>)
<1>1. /\ Len(s \o <<Head0>>) = Len(s) + 1 /\ Len(s) \in Nat
      /\ (s \o <<Head0>>)[Len(s) + 1] = Head0
  BY OneMore, TextTokens
<1> DEFINE u == s \o <<Head0>>
<1> HIDE DEF u
<1>2. /\ Len(s) + 1 \in 1..Len(u) /\ u[Len(s) + 1] = Head0
      /\ \A j \in ((Len(s) + 1) + 1)..Len(u) : u[j] # Head0
      /\ ~(Len(s) + 1 < Len(u))
  BY <1>1 DEF u
<1>3. BareAt(u)
  BY <1>2 DEF BareAt
<1> QED
  BY <1>3 DEF u

\* What commit_and_close asks of its text, _prompt_is_safe, is what BareAt says.
LEMMA BareIsBare ==
  ASSUME NEW s \in Seq(Text), BareAt(s)
  PROVE  PromptState(s) = "bare"
<1> DEFINE heads == {i \in 1..Len(s) : s[i] = Head0}
<1>1. PICK i \in 1..Len(s) : /\ s[i] = Head0
                             /\ \A j \in (i + 1)..Len(s) : s[j] # Head0
                             /\ i < Len(s) => s[i + 1] # SafeTail
  BY DEF BareAt
<1>2. i \in heads /\ \A j \in heads : j <= i
  BY <1>1
<1>3. \A k \in heads : (\A j \in heads : j <= k) => k = i
  BY <1>2
<1>4. (CHOOSE k \in heads : \A j \in heads : j <= k) = i
  BY <1>2, <1>3
<1> QED
  BY <1>1, <1>2, <1>4 DEF PromptState

LEMMA FencedGrow ==
  ASSUME NEW s \in Seq(Text), NEW t \in Text, FencedIn(s)
  PROVE  FencedIn(s \o <<t>>)
<1>1. /\ s \o <<t>> \in Seq(Text) /\ Len(s \o <<t>>) = Len(s) + 1 /\ Len(s) \in Nat
      /\ \A i \in 1..Len(s) : (s \o <<t>>)[i] = s[i]
  BY OneMore
<1>2. PICK m \in 1..Len(s) : /\ s[m] = Mark(want) /\ \A k \in 1..(m - 1) : s[k] # Mark(want)
                             /\ BareAt(raw \o SubSeq(s, 1, m - 1))
  BY DEF FencedIn
<1> DEFINE u == s \o <<t>>
<1> HIDE DEF u
<1>3. SubSeq(u, 1, m - 1) = SubSeq(s, 1, m - 1)
  <2>1. /\ SubSeq(s, 1, m - 1) \in Seq(Text) /\ Len(SubSeq(s, 1, m - 1)) = m - 1
        /\ \A i \in 1..(m - 1) : SubSeq(s, 1, m - 1)[i] = s[i]
    BY SubSeqProperties
  <2>2. u \in Seq(Text) /\ m \in 1..Len(u)
    BY <1>1 DEF u
  <2>3. /\ SubSeq(u, 1, m - 1) \in Seq(Text) /\ Len(SubSeq(u, 1, m - 1)) = m - 1
        /\ \A i \in 1..(m - 1) : SubSeq(u, 1, m - 1)[i] = u[i]
    BY <2>2, SubSeqProperties
  <2>4. \A i \in 1..(m - 1) : u[i] = s[i]
    BY <1>1 DEF u
  <2> QED
    BY <2>1, <2>3, <2>4, SeqEqual
<1>4. m \in 1..Len(u) /\ u[m] = Mark(want) /\ \A k \in 1..(m - 1) : u[k] # Mark(want)
  BY <1>1, <1>2 DEF u
<1>5. FencedIn(u)
  BY <1>2, <1>3, <1>4 DEF FencedIn
<1> QED
  BY <1>5 DEF u

LEMMA FencedEcho ==
  ASSUME NEW s \in Seq(Text), ~Has(s, Mark(want)), BareAt(raw \o s), Mark(want) \in Text
  PROVE  FencedIn(s \o <<Mark(want)>>)
<1>1. /\ s \o <<Mark(want)>> \in Seq(Text) /\ Len(s \o <<Mark(want)>>) = Len(s) + 1
      /\ Len(s) \in Nat /\ (s \o <<Mark(want)>>)[Len(s) + 1] = Mark(want)
      /\ \A i \in 1..Len(s) : (s \o <<Mark(want)>>)[i] = s[i]
  BY OneMore
<1> DEFINE u == s \o <<Mark(want)>>
<1> HIDE DEF u
<1>2. SubSeq(u, 1, (Len(s) + 1) - 1) = s
  <2>1. /\ SubSeq(u, 1, Len(s)) \in Seq(Text) /\ Len(SubSeq(u, 1, Len(s))) = Len(s)
        /\ \A i \in 1..Len(s) : SubSeq(u, 1, Len(s))[i] = u[i]
    <3>1. \A i \in 1..Len(s) : u[i] \in Text
      BY <1>1 DEF u
    <3> QED
      BY <1>1, <3>1, SubSeqProperties
  <2>2. SubSeq(u, 1, Len(s)) = s
    BY <1>1, <2>1, SeqEqual DEF u
  <2>3. (Len(s) + 1) - 1 = Len(s)
    BY <1>1
  <2> QED
    BY <2>2, <2>3
<1>3. /\ Len(s) + 1 \in 1..Len(u) /\ u[Len(s) + 1] = Mark(want)
      /\ \A k \in 1..((Len(s) + 1) - 1) : u[k] # Mark(want)
  BY <1>1 DEF u, Has
<1>4. FencedIn(u)
  BY <1>2, <1>3 DEF FencedIn
<1> QED
  BY <1>4 DEF u

\* No token but <SAFE> takes the evidence away, and it is there when the marker comes.
LEMMA EvidenceGrow ==
  ASSUME NEW s \in Seq(Text), NEW t \in Text, t # SafeTail, raw \in Seq(Text), Evidence(s)
  PROVE  Evidence(s \o <<t>>)
<1>1. BareAt(raw \o (s \o <<t>>))
  <2>1. raw \o s \in Seq(Text) /\ <<t>> \in Seq(Text) /\ BareAt(raw \o s)
    BY ConcatProperties DEF Evidence
  <2>2. BareAt((raw \o s) \o <<t>>)
    BY <2>1, BareGrow
  <2>3. (raw \o s) \o <<t>> = raw \o (s \o <<t>>)
    BY <2>1, ConcatAssociative
  <2> QED
    BY <2>2, <2>3
<1>2. ASSUME at = "confirm", Has(s \o <<t>>, Mark(want)) PROVE FencedIn(s \o <<t>>)
  <2>1. CASE Has(s, Mark(want))
    BY <1>2, <2>1, FencedGrow DEF Evidence
  <2>2. CASE ~Has(s, Mark(want))
    <3>1. t = Mark(want)
      <4>1. <<t>> \in Seq(Text)
        OBVIOUS
      <4>2. Has(<<t>>, Mark(want))
        BY <1>2, <2>2, <4>1, HasConcat
      <4> QED
        BY <4>2, HasOne
    <3> QED
      BY <2>2, <3>1, FencedEcho DEF Evidence
  <2> QED
    BY <2>1, <2>2
<1> QED
  BY <1>1, <1>2 DEF Evidence

-------------------------------------------------------------------------------
(* The router.                                                                *)

\* What out may become by an answer that takes and releases nothing: no "taken" of its
\* own, no marker but the one on top of the keystrokes, and the evidence stays.
Goes(o) ==
  /\ o \in Seq(Text) /\ Known(o) /\ (Has(o, Taken) => Has(out, Taken))
  /\ Committing /\ Released => Evidence(buf \o o)
  /\ at = "confirm" /\ Has(buf \o o, Mark(want)) =>
       Answered \/ (rin # <<>> /\ rin[1] = Mark(want))

LEMMA GoesStart == SafeInv => Goes(out)
BY DEF SafeInv, TextInv, Goes, Released, Answered, Stream

LEMMA GoesToken ==
  ASSUME SafeInv, NEW o, Goes(o), NEW t \in Text, t # Taken, t # SafeTail \/ rsafe,
         t[1] = "mark" => t[2] <= fresh /\ rin # <<>> /\ rin[1] = t
  PROVE  Goes(o \o <<t>>)
<1>1. o \in Seq(Text) /\ <<t>> \in Seq(Text)
  BY DEF Goes
<1>2. /\ o \o <<t>> \in Seq(Text) /\ Len(o \o <<t>>) = Len(o) + 1 /\ Len(o) \in Nat
      /\ (o \o <<t>>)[Len(o) + 1] = t /\ \A i \in 1..Len(o) : (o \o <<t>>)[i] = o[i]
  BY <1>1, OneMore
<1>3. Known(o \o <<t>>)
  <2>1. ASSUME NEW i \in 1..(Len(o) + 1), (o \o <<t>>)[i][1] = "mark"
        PROVE  (o \o <<t>>)[i][2] <= fresh
    <3>1. CASE i = Len(o) + 1
      BY <1>2, <2>1, <3>1
    <3>2. CASE i \in 1..Len(o)
      BY <1>2, <2>1, <3>2 DEF Goes, Known
    <3> QED
      BY <1>2, <3>1, <3>2
  <2> QED
    BY <1>2, <2>1 DEF Known
<1>4. Has(o \o <<t>>, Taken) => Has(out, Taken)
  <2>1. ~Has(<<t>>, Taken)
    BY HasOne
  <2> QED
    BY <1>1, <2>1, HasConcat DEF Goes
<1>5. Committing => /\ buf \in Seq(Text) /\ raw \in Seq(Text)
                    /\ buf \o (o \o <<t>>) = (buf \o o) \o <<t>> /\ buf \o o \in Seq(Text)
  <2>1. Committing => buf \in Seq(Text) /\ raw \in Seq(Text)
    <3>1. <<>> \in Seq(Text)
      OBVIOUS
    <3> QED
      BY <3>1 DEF SafeInv, TextInv, OwnerInv, Committing
  <2>2. ASSUME Committing PROVE (buf \o o) \o <<t>> = buf \o (o \o <<t>>) /\ buf \o o \in Seq(Text)
    BY <1>1, <2>1, <2>2, ConcatAssociative, ConcatProperties
  <2> QED
    BY <2>1, <2>2
<1>6. ASSUME Committing, Released PROVE Evidence(buf \o (o \o <<t>>))
  <2>1. t # SafeTail /\ Evidence(buf \o o)
    BY <1>6 DEF Goes, Released
  <2>2. Evidence((buf \o o) \o <<t>>)
    BY <1>5, <1>6, <2>1, EvidenceGrow
  <2> QED
    BY <1>5, <1>6, <2>2
<1>7. ASSUME at = "confirm", Has(buf \o (o \o <<t>>), Mark(want))
      PROVE  Answered \/ (rin # <<>> /\ rin[1] = Mark(want))
  <2>1. Has(buf \o o, Mark(want)) \/ Has(<<t>>, Mark(want))
    BY <1>1, <1>5, <1>7, HasConcat DEF Committing
  <2>2. CASE Has(<<t>>, Mark(want))
    <3>1. t = Mark(want)
      BY <2>2, HasOne
    <3> QED
      BY <3>1 DEF Mark
  <2> QED
    BY <1>7, <2>1, <2>2 DEF Goes
<1> QED
  BY <1>2, <1>3, <1>4, <1>6, <1>7 DEF Goes

LEMMA GoesPrompt ==
  ASSUME SafeInv, NEW o, Goes(o)
  PROVE  Goes(o \o Prompt(rsafe))
<1>1. /\ Head0 \in Text /\ SafeTail \in Text /\ Head0 # Taken /\ SafeTail # Taken
      /\ Head0 # SafeTail /\ Head0[1] # "mark" /\ SafeTail[1] # "mark"
  BY TextTokens DEF Head0, SafeTail, Taken
<1>2. Goes(o \o <<Head0>>)
  BY <1>1, GoesToken
<1>3. CASE rsafe = FALSE
  BY <1>2, <1>3 DEF Prompt
<1>4. CASE rsafe = TRUE
  <2>1. Goes((o \o <<Head0>>) \o <<SafeTail>>)
    BY <1>1, <1>2, <1>4, GoesToken
  <2>2. o \in Seq(Text) /\ <<Head0>> \in Seq(Text) /\ <<SafeTail>> \in Seq(Text)
    BY <1>1 DEF Goes
  <2>3. (o \o <<Head0>>) \o <<SafeTail>> = o \o (<<Head0>> \o <<SafeTail>>)
    BY <2>2, ConcatAssociative
  <2>4. <<Head0>> \o <<SafeTail>> = <<Head0, SafeTail>>
    <3>1. <<Head0, SafeTail>> \in Seq(Text) /\ Len(<<Head0, SafeTail>>) = 2
      BY <1>1
    <3>2. /\ <<Head0>> \o <<SafeTail>> \in Seq(Text) /\ Len(<<Head0>> \o <<SafeTail>>) = 2
          /\ (<<Head0>> \o <<SafeTail>>)[1] = Head0 /\ (<<Head0>> \o <<SafeTail>>)[2] = SafeTail
      <4>1. Len(<<Head0>>) = 1 /\ <<Head0>>[1] = Head0
        OBVIOUS
      <4> QED
        BY <1>1, <2>2, <4>1, OneMore
    <3>3. \A i \in 1..2 : (<<Head0>> \o <<SafeTail>>)[i] = <<Head0, SafeTail>>[i]
      BY <3>2
    <3> QED
      BY <3>1, <3>2, <3>3, SeqEqual
  <2> QED
    BY <1>4, <2>1, <2>3, <2>4 DEF Prompt
<1>5. rsafe \in BOOLEAN
  BY DEF SafeInv, TypeInv, TypeOK
<1> QED
  BY <1>3, <1>4, <1>5

\* The steps of the router that answer and leave Safe Mode as it is.
LEMMA SafeAnswer ==
  ASSUME SafeInv, TypeInv', KeepInv', FreshInv', UNCHANGED <<client, frame, callers, link, rsafe, exposed>>,
         Goes(out'), Thins(rin', rin), Has(rin, CtrlX) => Has(rin', CtrlX),
         change' = change \/ (rsafe /\ change' \in {"none", "floating"})
  PROVE  SafeInv'
<1> USE DEF client, frame, callers
<1>1. OwnerInv' /\ KeysInv'
  BY KeysThin DEF SafeInv, OwnerInv, Reading, Committing
<1>2. TextInv'
  BY DEF SafeInv, TextInv, Goes, Known, Committing
<1>3. \A x : Has(rin', x) => Has(rin, x)
  BY HasThin
<1>4. Protected => Protected'
  BY <1>3 DEF Protected
<1>5. ProtectInv'
  BY <1>4 DEF SafeInv, ProtectInv, Goes, Committing
<1>6. ToldInv'
  BY <1>3 DEF SafeInv, ToldInv
<1>7. ASSUME Committing PROVE Underway' \/ Unsent' \/ Released'
  <2>1. Answered' => Answered \/ (rin # <<>> /\ rin[1] = Mark(want))
    BY DEF Answered, Stream, Goes
  <2>2. Len(rin) \in Nat /\ (rin # <<>> => 1 \in 1..Len(rin))
    BY DEF SafeInv, TypeInv
  <2>3. CASE Underway
    <3>1. ~Answered'
      <4>1. SUFFICES ASSUME at = "confirm", rin # <<>>, rin[1] = Mark(want) PROVE FALSE
        BY <2>1, <2>3 DEF Underway, Answered
      <4>2. PICK j \in 1..Len(rin) : rin[j] = CtrlX
        BY <2>3 DEF Underway, Has
      <4>3. j # 1
        BY <4>1, <4>2 DEF Mark, CtrlX
      <4> QED
        BY <2>2, <2>3, <4>1, <4>2, <4>3 DEF Underway
    <3>2. ASSUME at = "confirm", NEW i \in 1..Len(rin'), NEW j \in 1..Len(rin'),
                 i < j, rin'[j] = CtrlX
          PROVE  rin'[i] # Mark(want)
      BY <2>3, <3>2 DEF Underway, Thins
    <3> QED
      BY <2>3, <3>1, <3>2 DEF Underway
  <2>4. CASE Unsent
    <3>1. ~Answered' /\ (at = "confirm" => ~Has(rin', Mark(want)))
      BY <1>3, <2>1, <2>2, <2>4 DEF Unsent, Has, Answered
    <3> QED
      BY <1>3, <2>4, <3>1 DEF Unsent
  <2>5. CASE Released
    <3>1. Evidence(Stream)'
      BY <1>7, <2>5 DEF Goes, Stream, Evidence, FencedIn
    <3> QED
      BY <1>3, <2>5, <3>1 DEF Released
  <2> QED
    BY <1>7, <2>3, <2>4, <2>5 DEF SafeInv, ReleaseInv
<1>8. ReleaseInv'
  BY <1>7 DEF ReleaseInv, Committing
<1> QED
  BY <1>1, <1>2, <1>5, <1>6, <1>8 DEF SafeInv

\* RouterOS takes the first key.
LEMMA TakesFirst ==
  ASSUME SafeInv, rin # <<>>, rin' = SubSeq(rin, 2, Len(rin))
  PROVE  /\ Thins(rin', rin) /\ 1 \in 1..Len(rin) /\ Len(rin) \in Nat
         /\ Len(rin') = Len(rin) - 1 /\ \A i \in 1..(Len(rin) - 1) : rin'[i] = rin[i + 1]
         /\ rin[1] # CtrlX /\ Has(rin, CtrlX) => Has(rin', CtrlX)
<1>1. rin \in Seq(Key) /\ Len(rin) \in Nat /\ Len(rin) # 0
  BY EmptySeq DEF SafeInv, TypeInv
<1>2. 2 \in 1..(Len(rin) + 1) /\ \A i \in 2..Len(rin) : rin[i] \in Key
  BY <1>1
<1>3. /\ Len(rin') = Len(rin) - 1
      /\ \A i \in 1..(Len(rin) - 1) : rin'[i] = rin[i + 1]
  <2>1. /\ Len(SubSeq(rin, 2, Len(rin))) = IF 2 <= Len(rin) THEN Len(rin) - 2 + 1 ELSE 0
        /\ \A i \in 1..(Len(rin) - 2 + 1) : SubSeq(rin, 2, Len(rin))[i] = rin[2 + i - 1]
    BY <1>1, <1>2, SubSeqProperties
  <2>2. \A n \in Nat : n # 0 => (IF 2 <= n THEN n - 2 + 1 ELSE 0) = n - 1
    OBVIOUS
  <2>3. Len(rin') = Len(rin) - 1
    BY <1>1, <2>1, <2>2
  <2>4. ASSUME NEW i \in 1..(Len(rin) - 1) PROVE rin'[i] = rin[i + 1]
    <3>1. i \in 1..(Len(rin) - 2 + 1) /\ 2 + i - 1 = i + 1
      BY <1>1
    <3> QED
      BY <2>1, <3>1
  <2> QED
    BY <2>3, <2>4
<1>4. ASSUME rin[1] # CtrlX, Has(rin, CtrlX) PROVE Has(rin', CtrlX)
  <2>1. PICK j \in 1..Len(rin) : rin[j] = CtrlX
    BY <1>4 DEF Has
  <2>2. j - 1 \in 1..(Len(rin) - 1) /\ (j - 1) + 1 = j
    BY <1>1, <1>4, <2>1
  <2>3. j - 1 \in 1..Len(rin') /\ rin'[j - 1] = CtrlX
    BY <1>1, <1>3, <2>1, <2>2
  <2> QED
    BY <2>3 DEF Has
<1>5. Thins(rin', rin)
  BY <1>1, <1>2, ThinTail
<1> QED
  BY <1>1, <1>3, <1>4, <1>5

LEMMA SafeCommand ==
  ASSUME SafeInv, TypeInv', KeepInv', FreshInv', RouterTakes, NEW c \in 0..MaxCalls, RouterCommand(c)
  PROVE  SafeInv'
<1>1. /\ rin # <<>> /\ rin' = SubSeq(rin, 2, Len(rin)) /\ rin[1] = Cmd(c)
      /\ UNCHANGED <<client, frame, callers, link, rsafe>>
  BY DEF RouterTakes, RouterCommand
<1>2. c \in Nat /\ Out(c) \in Text /\ Out(c) # Taken /\ Out(c) # SafeTail /\ Out(c)[1] # "mark"
  <2>1. c \in Nat
    BY BoundsAssumption
  <2> QED
    BY <2>1, TextTokens DEF Out, Taken, SafeTail
<1>3. rin[1] # CtrlX /\ rin[1][1] = "cmd" /\ rin[1][2] = c
  BY <1>1 DEF Cmd, CtrlX
<1>4. Goes(out')
  <2>1. Goes(out \o <<Out(c)>>)
    BY <1>2, GoesStart, GoesToken
  <2>2. Goes((out \o <<Out(c)>>) \o Prompt(rsafe))
    BY <2>1, GoesPrompt
  <2> QED
    BY <2>1, <2>2 DEF RouterCommand
<1>5. c # 0 => rsafe
  BY <1>1, <1>3, TakesFirst DEF SafeInv, KeysInv
<1>6. exposed' = exposed
  <2>1. exposed' = (exposed \/ (c # 0 /\ ~rsafe)) /\ exposed \in BOOLEAN
    BY DEF RouterCommand, Effect, SafeInv, TypeInv, TypeOK
  <2> QED
    BY <1>5, <2>1
<1>7. change' = change \/ (rsafe /\ change' \in {"none", "floating"})
  BY DEF RouterCommand, Effect
<1> QED
  BY <1>1, <1>3, <1>4, <1>6, <1>7, TakesFirst, SafeAnswer

LEMMA SafeEcho ==
  ASSUME SafeInv, TypeInv', KeepInv', FreshInv', RouterTakes, RouterEcho
  PROVE  SafeInv'
<1>1. /\ rin # <<>> /\ rin' = SubSeq(rin, 2, Len(rin))
      /\ UNCHANGED <<client, frame, callers, link, rsafe, change, exposed>>
  BY DEF RouterTakes, RouterEcho
<1>2. rin[1] # CtrlX
  BY DEF RouterEcho, CtrlX, CtrlC, Load
<1>3. Goes(out')
  <2>1. CASE rin[1][1] = "mark" /\ out' = out \o <<rin[1]>> \o Prompt(rsafe)
    <3>1. rin[1] \in Key /\ rin[1][2] <= fresh
      <4>1. 1 \in 1..Len(rin) /\ rin \in Seq(Key)
        BY <1>1, TakesFirst DEF SafeInv, TypeInv
      <4> QED
        BY <2>1, <4>1, ElementOfSeq DEF SafeInv, KeysInv, Known
    <3>2. rin[1] \in Text /\ rin[1] # Taken /\ rin[1] # SafeTail
      BY <2>1, <3>1 DEF Key, Text, Taken, SafeTail
    <3>3. Goes(out \o <<rin[1]>>)
      BY <1>1, <3>1, <3>2, GoesStart, GoesToken
    <3> QED
      BY <2>1, <3>3, GoesPrompt
  <2>2. CASE out' = out \o Prompt(rsafe)
    BY <2>2, GoesStart, GoesPrompt
  <2>3. CASE out' = out \o <<Ask>>
    <3>1. Ask \in Text /\ Ask # Taken /\ Ask # SafeTail /\ Ask[1] # "mark"
      BY TextTokens DEF Ask, Taken, SafeTail
    <3> QED
      BY <2>3, <3>1, GoesStart, GoesToken
  <2> QED
    BY <2>1, <2>2, <2>3 DEF RouterEcho
<1> QED
  BY <1>1, <1>2, <1>3, TakesFirst, SafeAnswer

LEMMA SafeFinishes ==
  ASSUME SafeInv, TypeInv', KeepInv', FreshInv', RouterFinishes \/ RouterInterrupted
  PROVE  SafeInv'
<1>1. /\ UNCHANGED <<client, frame, callers, link, rsafe, change, exposed>>
      /\ out' = out \o Prompt(rsafe)
  BY DEF RouterFinishes, RouterInterrupted
<1>2. Goes(out')
  BY <1>1, GoesStart, GoesPrompt
<1>3. rin \in Seq(Key) /\ Len(rin) \in Nat
  BY DEF SafeInv, TypeInv
<1>4. CASE RouterFinishes
  <2>1. rin' = rin /\ 1 \in 1..(Len(rin) + 1)
    BY <1>3, <1>4 DEF RouterFinishes
  <2>2. Thins(rin', rin)
    <3>1. SubSeq(rin, 1, Len(rin)) = rin
      BY <1>3, SubSeqFull
    <3> QED
      BY <1>3, <2>1, <3>1, ThinTail
  <2> QED
    BY <1>1, <1>2, <2>1, <2>2, SafeAnswer
<1>5. CASE RouterInterrupted
  <2>1. PICK i \in 1..Len(rin) :
          /\ rin[i] = CtrlC
          /\ \/ rin' = SubSeq(rin, i + 1, Len(rin))
             \/ rin' = SubSeq(rin, 1, i - 1) \o SubSeq(rin, i + 1, Len(rin))
    BY <1>5 DEF RouterInterrupted
  <2>2. i + 1 \in 1..(Len(rin) + 1)
    BY <1>3
  <2>3. Thins(rin', rin)
    BY <1>3, <2>1, <2>2, ThinTail, ThinDrop
  <2>4. ASSUME Has(rin, CtrlX) PROVE Has(rin', CtrlX)
    <3>1. PICK j \in 1..Len(rin) : rin[j] = CtrlX
      BY <2>4 DEF Has
    <3>2. CtrlC # CtrlX /\ CtrlC[1] # "mark"
      BY DEF CtrlC, CtrlX
    <3>3. i < j
      BY <1>3, <2>1, <3>1, <3>2 DEF SafeInv, KeysInv
    <3>4. /\ SubSeq(rin, i + 1, Len(rin)) \in Seq(Key)
          /\ SubSeq(rin, 1, i - 1) \in Seq(Key)
          /\ Len(SubSeq(rin, i + 1, Len(rin))) = Len(rin) - i
          /\ \A k \in 1..(Len(rin) - i) : SubSeq(rin, i + 1, Len(rin))[k] = rin[i + k]
      BY <1>3, SubSeqProperties
    <3>5. j - i \in 1..(Len(rin) - i) /\ i + (j - i) = j
      BY <1>3, <3>3
    <3>6. Has(SubSeq(rin, i + 1, Len(rin)), CtrlX)
      BY <3>1, <3>4, <3>5 DEF Has
    <3>7. ASSUME NEW a \in Seq(Key), NEW b \in Seq(Key), Has(b, CtrlX) PROVE Has(a \o b, CtrlX)
      BY <3>7, HasConcat
    <3> QED
      BY <2>1, <3>4, <3>6, <3>7
  <2> QED
    BY <1>1, <1>2, <2>3, <2>4, SafeAnswer
<1> QED
  BY <1>4, <1>5

\* The Ctrl+X of enter_safe_mode takes Safe Mode, the one of commit_and_close releases it.
LEMMA SafeToggle ==
  ASSUME SafeInv, TypeInv', KeepInv', FreshInv', RouterTakes, NEW foreign \in BOOLEAN, RouterToggle(foreign)
  PROVE  SafeInv'
<1> USE DEF client, frame, callers
<1>1. /\ rin # <<>> /\ rin' = SubSeq(rin, 2, Len(rin)) /\ rin[1] = CtrlX
      /\ UNCHANGED <<client, frame, callers, link, exposed>>
  BY DEF RouterTakes, RouterToggle
<1>2. /\ 1 \in 1..Len(rin) /\ Len(rin) \in Nat /\ Len(rin') = Len(rin) - 1
      /\ \A i \in 1..(Len(rin) - 1) : rin'[i] = rin[i + 1]
  BY <1>1, TakesFirst
<1>3. \A i \in 1..Len(rin') : rin'[i] = rin[i + 1] /\ i + 1 \in 1..Len(rin) /\ rin'[i][1] = "mark"
  <2>1. \A i \in 1..Len(rin') : rin'[i] = rin[i + 1] /\ i + 1 \in 1..Len(rin) /\ 1 < i + 1
    BY <1>2
  <2> QED
    BY <1>1, <1>2, <2>1 DEF SafeInv, KeysInv
<1>4. ~Has(rin', CtrlX) /\ Has(rin, CtrlX) /\ ~Protected
  <2>1. CtrlX[1] # "mark"
    BY DEF CtrlX
  <2>2. Has(rin, CtrlX)
    BY <1>1, <1>2 DEF Has
  <2> QED
    BY <1>3, <2>1, <2>2 DEF Has, Protected
<1>5. /\ rsafe \in BOOLEAN /\ out \in Seq(Text)
      /\ rsafe => rsafe' = FALSE /\ change' \in {"none", "kept"} /\ out' = out \o Prompt(FALSE)
      /\ ~rsafe => /\ change' = "none"
                   /\ \/ rsafe' = FALSE /\ out' = out \o <<Hijack>>
                      \/ rsafe' = TRUE /\ out' = out \o <<Taken>> \o Prompt(TRUE)
  <2>1. rsafe \in BOOLEAN /\ out \in Seq(Text)
    BY DEF SafeInv, TypeInv, TypeOK, TextInv
  <2>2. /\ rsafe => change \in {"none", "floating"}
        /\ ~rsafe => change = "none"
    BY <1>4 DEF SafeInv, KeysInv
  <2> QED
    BY <2>1, <2>2 DEF RouterToggle
<1>6. OwnerInv'
  BY <1>1 DEF SafeInv, OwnerInv, Reading, Committing
<1>7. KeysInv'
  <2>1. \A i \in 1..Len(rin') : rin'[i][1] = "mark" => rin'[i][2] <= fresh'
    BY <1>1, <1>3 DEF SafeInv, KeysInv, Known
  <2>2. ~exposed'
    BY <1>1 DEF SafeInv, KeysInv
  <2> QED
    BY <1>3, <1>4, <1>5, <2>1, <2>2 DEF KeysInv, Known
<1>8. ToldInv'
  BY <1>1, <1>4 DEF SafeInv, ToldInv
<1>9. \E x \in Seq(Text) : /\ out' = out \o x /\ \A i \in 1..Len(x) : x[i][1] # "mark"
                           /\ rsafe' = FALSE => ~Has(x, Taken)
                           /\ rsafe => x = <<Head0>>
  <2>1. CASE rsafe
    <3>1. <<Head0>> \in Seq(Text) /\ Head0[1] # "mark" /\ Head0 # Taken
      BY TextTokens DEF Head0, Taken
    <3>2. ~Has(<<Head0>>, Taken) /\ \A i \in 1..Len(<<Head0>>) : <<Head0>>[i][1] # "mark"
      BY <3>1, HasOne
    <3> QED
      BY <1>5, <2>1, <3>1, <3>2 DEF Prompt
  <2>2. CASE out' = out \o <<Hijack>>
    <3>1. <<Hijack>> \in Seq(Text) /\ Hijack[1] # "mark" /\ Hijack # Taken
      BY TextTokens DEF Hijack, Taken
    <3>2. ~Has(<<Hijack>>, Taken) /\ \A i \in 1..Len(<<Hijack>>) : <<Hijack>>[i][1] # "mark"
      BY <3>1, HasOne
    <3> QED
      BY <1>5, <2>1, <2>2, <3>1, <3>2
  <2>3. CASE rsafe' = TRUE /\ out' = out \o <<Taken>> \o Prompt(TRUE)
    <3>1. <<Taken>> \in Seq(Text) /\ <<Head0, SafeTail>> \in Seq(Text)
      BY TextTokens
    <3>2. (out \o <<Taken>>) \o <<Head0, SafeTail>> = out \o (<<Taken>> \o <<Head0, SafeTail>>)
      BY <1>5, <3>1, ConcatAssociative
    <3>3. <<Taken>> \o <<Head0, SafeTail>> \in Seq(Text)
      BY <3>1, ConcatProperties
    <3>4. \A i \in 1..Len(<<Taken>> \o <<Head0, SafeTail>>) :
             (<<Taken>> \o <<Head0, SafeTail>>)[i] \in {Taken, Head0, SafeTail}
      BY <3>1, ConcatProperties
    <3>5. Taken[1] # "mark" /\ Head0[1] # "mark" /\ SafeTail[1] # "mark"
      BY DEF Taken, Head0, SafeTail
    <3> QED
      BY <2>1, <2>3, <3>2, <3>3, <3>4, <3>5 DEF Prompt
  <2> QED
    BY <1>5, <2>1, <2>2, <2>3
<1>10. PICK x \in Seq(Text) : /\ out' = out \o x /\ \A i \in 1..Len(x) : x[i][1] # "mark"
                              /\ rsafe' = FALSE => ~Has(x, Taken)
                              /\ rsafe => x = <<Head0>>
  BY <1>9
<1>11. TextInv'
  <2>1. out' \in Seq(Text) /\ Len(out') = Len(out) + Len(x)
        /\ \A i \in 1..(Len(out) + Len(x)) :
             out'[i] = IF i <= Len(out) THEN out[i] ELSE x[i - Len(out)]
    BY <1>5, <1>10, ConcatProperties
  <2>2. Len(out) \in Nat /\ Len(x) \in Nat
    BY <1>5
  <2>3. ASSUME NEW i \in 1..Len(out'), out'[i][1] = "mark" PROVE out'[i][2] <= fresh
    <3>1. CASE i \in 1..Len(out) /\ out'[i] = out[i]
      BY <2>3, <3>1 DEF SafeInv, TextInv, Known
    <3>2. CASE i - Len(out) \in 1..Len(x) /\ out'[i] = x[i - Len(out)]
      BY <1>10, <2>3, <3>2
    <3> QED
      BY <2>1, <2>2, <3>1, <3>2
  <2> QED
    BY <1>1, <2>1, <2>3 DEF SafeInv, TextInv, Known, Committing
<1>12. ProtectInv'
  <2>1. ~(stage = "unlocked" /\ alive /\ ~Committing) /\ at # "settle"
        /\ ~(stage \in {"connected", "entering"} /\ Has(out, Taken))
        /\ ~(at = "taking" /\ Has(buf, Taken))
    BY <1>4 DEF SafeInv, ProtectInv
  <2>2. stage \in {"connected", "entering"} /\ Has(out', Taken) => rsafe' = TRUE
    <3>1. Has(out', Taken) => Has(out, Taken) \/ Has(x, Taken)
      BY <1>5, <1>10, HasConcat
    <3> QED
      BY <1>5, <1>10, <2>1, <3>1
  <2> QED
    BY <1>1, <1>4, <2>1, <2>2 DEF ProtectInv, Protected, Committing
<1>13. ASSUME Committing PROVE Released'
  <2>1. Underway
    BY <1>4, <1>13 DEF SafeInv, ReleaseInv, Unsent, Released
  <2>2. rsafe /\ ~Answered
    BY <2>1 DEF Underway
  <2>3. <<>> \in Seq(Text) /\ <<Head0>> \in Seq(Text)
    BY TextTokens
  <2>4. buf \in Seq(Text) /\ raw \in Seq(Text)
    BY <1>13, <2>3 DEF SafeInv, TextInv, OwnerInv, Committing
  <2>5. Stream' = (buf \o out) \o <<Head0>> /\ buf \o out \in Seq(Text)
    <3>1. buf \o (out \o <<Head0>>) = (buf \o out) \o <<Head0>>
      BY <1>5, <2>3, <2>4, ConcatAssociative
    <3> QED
      BY <1>1, <1>5, <1>10, <2>2, <2>4, <3>1, ConcatProperties DEF Stream
  <2>6. BareAt(raw \o Stream')
    <3>1. raw \o (buf \o out) \in Seq(Text)
      BY <2>4, <2>5, ConcatProperties
    <3>2. (raw \o (buf \o out)) \o <<Head0>> = raw \o ((buf \o out) \o <<Head0>>)
      <4>1. ASSUME NEW a \in Seq(Text), NEW b \in Seq(Text), NEW c \in Seq(Text)
            PROVE  (a \o b) \o c = a \o (b \o c)
        BY ConcatAssociative
      <4> QED
        BY <2>3, <2>4, <2>5, <4>1
    <3>3. BareAt((raw \o (buf \o out)) \o <<Head0>>)
      BY <3>1, BareHead
    <3> QED
      BY <2>5, <3>2, <3>3
  <2>7. ~(at = "confirm" /\ Has(Stream', Mark(want)))
    <3>1. Head0 # Mark(want)
      BY DEF Head0, Mark
    <3>2. ~Has(<<Head0>>, Mark(want))
      BY <3>1, HasOne
    <3>3. Has(Stream', Mark(want)) => Has(buf \o out, Mark(want))
      BY <2>3, <2>5, <3>2, HasConcat
    <3> QED
      BY <2>2, <3>3 DEF Answered, Stream
  <2>8. Evidence(Stream)'
    BY <1>1, <2>6, <2>7 DEF Evidence
  <2> QED
    BY <1>4, <1>5, <2>2, <2>8 DEF Released
<1>14. ReleaseInv'
  BY <1>1, <1>13 DEF ReleaseInv, Committing
<1> QED
  BY <1>6, <1>7, <1>8, <1>11, <1>12, <1>14 DEF SafeInv

\* The link goes down: RouterOS notices at once, later, or takes what was sent before.
LEMMA SafeDown ==
  ASSUME SafeInv, TypeInv', KeepInv', FreshInv', RouterEnds \/ LinkDrops \/ RouterNotices
  PROVE  SafeInv'
<1> USE DEF client, frame, callers
<1>1. UNCHANGED <<client, frame, callers, exposed, out>> /\ link' = "down"
  BY DEF RouterEnds, LinkDrops, RouterNotices
<1>2. \/ UNCHANGED <<rin, rsafe, change>>
      \/ rin' = <<>> /\ rsafe' = FALSE /\ change' = Undone
  BY DEF RouterEnds, LinkDrops, RouterNotices
<1>3. \A k : Has(rin', k) => Has(rin, k)
  BY <1>2 DEF Has
<1>4. OwnerInv' /\ TextInv'
  BY <1>1 DEF SafeInv, OwnerInv, TextInv, Known, Reading, Committing
<1>5. KeysInv'
  <2>1. CASE UNCHANGED <<rin, rsafe, change>>
    BY <1>1, <2>1 DEF SafeInv, KeysInv, Known
  <2>2. CASE rin' = <<>> /\ rsafe' = FALSE /\ change' = Undone
    BY <1>1, <2>2 DEF SafeInv, KeysInv, Known, Has, Undone
  <2> QED
    BY <1>2, <2>1, <2>2
<1>6. ProtectInv'
  BY <1>1, <1>3 DEF SafeInv, ProtectInv, Protected, Committing
<1>7. ToldInv'
  BY <1>1, <1>2, <1>3 DEF SafeInv, ToldInv, Undone
<1>8. ASSUME Committing PROVE Underway' \/ Unsent' \/ Released'
  <2>1. Answered' = Answered /\ Evidence(Stream)' = Evidence(Stream)
    BY <1>1 DEF Answered, Evidence, Stream, FencedIn
  <2>2. CASE UNCHANGED <<rin, rsafe, change>>
    BY <1>1, <1>8, <2>1, <2>2 DEF SafeInv, ReleaseInv, Underway, Unsent, Released
  <2>3. CASE rin' = <<>> /\ rsafe' = FALSE /\ change' = Undone
    <3>1. \A k : ~Has(rin', k)
      BY <2>3 DEF Has
    <3>2. CASE Underway \/ Unsent
      BY <1>1, <2>1, <3>1, <3>2 DEF Underway, Unsent
    <3>3. CASE Released
      BY <1>1, <2>1, <2>3, <3>1, <3>3 DEF Released, Undone
    <3> QED
      BY <1>8, <3>2, <3>3 DEF SafeInv, ReleaseInv
  <2> QED
    BY <1>2, <2>2, <2>3
<1>9. ReleaseInv'
  BY <1>1, <1>8 DEF ReleaseInv, Committing
<1> QED
  BY <1>4, <1>5, <1>6, <1>7, <1>9 DEF SafeInv

LEMMA FreshRouter ==
  ASSUME SafeInv, RouterStep \/ LinkDrops \/ RouterNotices
  PROVE  FreshInv'
<1> SUFFICES ASSUME stage' \in {"connected", "entering"}
             PROVE  /\ change' = "none" /\ ~Has(decisions', "commit")
                    /\ \A i \in 1..Len(rin') : rin'[i][1] # "cmd"
  BY DEF FreshInv
<1>1. UNCHANGED <<stage, decisions>>
  BY DEF RouterStep, RouterTakes, RouterFinishes, RouterInterrupted, RouterEnds,
         LinkDrops, RouterNotices, callers
<1>2. /\ change = "none" /\ ~Has(decisions, "commit")
      /\ \A i \in 1..Len(rin) : rin[i][1] # "cmd"
  BY <1>1 DEF SafeInv, FreshInv
<1>3. CASE RouterTakes
  <2>1. rin # <<>> /\ rin' = SubSeq(rin, 2, Len(rin))
    BY <1>3 DEF RouterTakes
  <2>2. \A i \in 1..Len(rin') : rin'[i][1] # "cmd"
    BY <1>2, <2>1, TakesFirst DEF Thins
  <2>3. rin[1][1] # "cmd"
    BY <1>2, <2>1, TakesFirst
  <2>4. change' = "none"
    <3>1. ASSUME NEW c, RouterCommand(c) PROVE FALSE
      BY <2>3, <3>1 DEF RouterCommand, Cmd
    <3> QED
      BY <1>2, <1>3, <3>1 DEF RouterTakes, RouterToggle, RouterEcho
  <2> QED
    BY <1>1, <1>2, <2>2, <2>4
<1>4. CASE RouterInterrupted
  <2>1. PICK i \in 1..Len(rin) :
          \/ rin' = SubSeq(rin, i + 1, Len(rin))
          \/ rin' = SubSeq(rin, 1, i - 1) \o SubSeq(rin, i + 1, Len(rin))
    BY <1>4 DEF RouterInterrupted
  <2>2. rin \in Seq(Key) /\ i + 1 \in 1..(Len(rin) + 1)
    BY DEF SafeInv, TypeInv
  <2>3. Thins(rin', rin)
    BY <2>1, <2>2, ThinTail, ThinDrop
  <2> QED
    BY <1>1, <1>2, <1>4, <2>3 DEF RouterInterrupted, Thins
<1>5. CASE RouterFinishes \/ LinkDrops
  BY <1>1, <1>2, <1>5 DEF RouterFinishes, LinkDrops
<1>6. CASE RouterEnds \/ RouterNotices
  BY <1>1, <1>2, <1>6 DEF RouterEnds, RouterNotices, Undone
<1> QED
  BY <1>3, <1>4, <1>5, <1>6 DEF RouterStep

LEMMA SafeRouter ==
  ASSUME SafeInv, TypeInv', KeepInv', RouterStep \/ LinkDrops \/ RouterNotices
  PROVE  SafeInv'
BY FreshRouter, SafeCommand, SafeEcho, SafeToggle, SafeFinishes, SafeDown
   DEF RouterStep, RouterTakes

-------------------------------------------------------------------------------
(* The callers.                                                               *)

\* A call begins, takes the lock or is given up while it waits for the lock.
LEMMA SafeCallers ==
  ASSUME CancelOp = FALSE, SafeInv, TypeInv', KeepInv',
         \/ CallEnter
         \/ \E c \in AgentCalls : CallAgent(c)
         \/ \E c \in OpCalls : CallOp(c)
         \/ RestoreRefused
         \/ \E t \in Task : Acquire(t) \/ CancelWaiter(t)
  PROVE  SafeInv'
<1> USE DEF client, frame, router, callers
<1>1. /\ UNCHANGED <<client, want, buf, raw, fresh, router>>
      /\ call = [t \in Task |-> call[t]] /\ result = [t \in Task |-> result[t]]
  BY DEF CallEnter, CallAgent, CallOp, RestoreRefused, Acquire, CancelWaiter, SafeInv, TypeInv
<1>2. KeysInv'
  BY <1>1 DEF SafeInv, KeysInv, Known
<1>3. \/ UNCHANGED <<at, held>>
      \/ at = "idle" /\ at' = "begin" /\ raw = <<>>
  BY DEF CallEnter, CallAgent, CallOp, RestoreRefused, Acquire, CancelWaiter, SafeInv, TypeInv, OwnerInv
<1>4. TextInv' /\ Protected' = Protected
  BY <1>1, <1>3 DEF SafeInv, TextInv, Known, Committing, Protected
<1>5. CASE CallEnter
  <2>1. /\ call["op"] = "none" /\ call'["op"] = "enter" /\ call'["agent"] = call["agent"]
        /\ stage = "connected" /\ stage' = "entering" /\ UNCHANGED <<at, held, result, decisions>>
    BY <1>1, <1>5 DEF CallEnter, Enter, Task
  <2>2. OwnerInv'
    BY <1>1, <2>1 DEF SafeInv, OwnerInv, Reading, Committing
  <2>3. ProtectInv' /\ ReleaseInv'
    BY <1>1, <1>4, <2>1 DEF SafeInv, OwnerInv, ProtectInv, ReleaseInv, Committing
  <2>4. ToldInv' /\ FreshInv'
    BY <1>1, <2>1 DEF SafeInv, ToldInv, FreshInv
  <2> QED
    BY <1>2, <1>4, <2>2, <2>3, <2>4 DEF SafeInv
<1>6. ASSUME NEW c \in AgentCalls, CallAgent(c) PROVE SafeInv'
  <2>1. /\ call'["op"] = call["op"] /\ stage = "unlocked"
        /\ UNCHANGED <<at, held, result, stage, decisions>>
    BY <1>1, <1>6 DEF CallAgent, Enter, Task
  <2>2. OwnerInv'
    BY <1>1, <2>1 DEF SafeInv, OwnerInv, Reading, Committing
  <2>3. ProtectInv'
    BY <1>1, <1>4, <2>1 DEF SafeInv, ProtectInv, Committing
  <2>4. ReleaseInv'
    BY <1>1, <2>1 DEF SafeInv, ReleaseInv, Committing, Underway, Unsent, Released,
                      Answered, Stream, Evidence, FencedIn
  <2>5. ToldInv' /\ FreshInv'
    BY <1>1, <2>1 DEF SafeInv, ToldInv, FreshInv
  <2> QED
    BY <1>2, <1>4, <2>2, <2>3, <2>4, <2>5 DEF SafeInv
<1>7. ASSUME NEW c \in OpCalls, CallOp(c) PROVE SafeInv'
  <2>1. /\ call["op"] = "none" /\ call'["op"] = c /\ call'["agent"] = call["agent"]
        /\ c # "enter" /\ (stage = "unlocked" \/ (stage = "failed" /\ c = "abort"))
        /\ UNCHANGED <<at, held, result, stage>>
    BY <1>1, <1>7 DEF CallOp, Enter, Task
  <2>2. OwnerInv'
    BY <1>1, <2>1 DEF SafeInv, OwnerInv, Reading, Committing
  <2>3. ProtectInv' /\ ReleaseInv'
    BY <1>1, <1>4, <2>1 DEF SafeInv, OwnerInv, ProtectInv, ReleaseInv, Committing
  <2>4. ToldInv' /\ FreshInv'
    BY <1>1, <2>1 DEF SafeInv, ToldInv, FreshInv
  <2> QED
    BY <1>2, <1>4, <2>2, <2>3, <2>4 DEF SafeInv
<1>8. ASSUME NEW t \in Task, Acquire(t) PROVE SafeInv'
  <2>1. /\ at = "idle" /\ at' = "begin" /\ raw = <<>>
        /\ UNCHANGED <<call, stage, result, decisions>>
    BY <1>8 DEF Acquire, SafeInv, TypeInv, OwnerInv
  <2>2. OwnerInv'
    BY <1>1, <2>1 DEF SafeInv, OwnerInv, Reading, Committing
  <2>3. ProtectInv' /\ ReleaseInv'
    BY <1>1, <1>4, <2>1 DEF SafeInv, OwnerInv, ProtectInv, ReleaseInv, Committing
  <2>4. ToldInv' /\ FreshInv'
    BY <1>1, <2>1 DEF SafeInv, ToldInv, FreshInv
  <2> QED
    BY <1>2, <1>4, <2>2, <2>3, <2>4 DEF SafeInv
<1>9. ASSUME NEW t \in Task, CancelWaiter(t) PROVE SafeInv'
  <2>1. t = "agent" /\ held # "agent" /\ call["agent"] \in AgentCalls
    BY <1>9 DEF CancelWaiter, MayCancel, Task, SafeInv, TypeInv, TypeOK
  <2>2. /\ call'["op"] = call["op"] /\ call'["agent"] = "none" /\ result'["op"] = result["op"]
        /\ UNCHANGED <<at, held, stage, decisions>>
    BY <1>1, <1>9, <2>1 DEF CancelWaiter, StageAfter, AgentCalls, Task
  <2>3. OwnerInv'
    BY <1>1, <2>2 DEF SafeInv, OwnerInv, Reading, Committing
  <2>4. ProtectInv'
    BY <1>1, <1>4, <2>2 DEF SafeInv, ProtectInv, Committing
  <2>5. ReleaseInv'
    BY <1>1, <2>2 DEF SafeInv, ReleaseInv, Committing, Underway, Unsent, Released,
                      Answered, Stream, Evidence, FencedIn
  <2>6. ToldInv' /\ FreshInv'
    BY <1>1, <2>2 DEF SafeInv, ToldInv, FreshInv
  <2> QED
    BY <1>2, <1>4, <2>3, <2>4, <2>5, <2>6 DEF SafeInv
<1>10. CASE RestoreRefused
  <2>1. /\ call["op"] = "none" /\ stage = "unlocked" /\ result'["op"].status = "raised"
        /\ UNCHANGED <<at, held, call, stage>>
    BY <1>1, <1>10 DEF RestoreRefused, NoResult, Task
  <2>2. OwnerInv'
    BY <1>1, <2>1 DEF SafeInv, OwnerInv, Reading, Committing
  <2>3. ProtectInv' /\ ReleaseInv'
    BY <1>1, <1>4, <2>1 DEF SafeInv, OwnerInv, ProtectInv, ReleaseInv, Committing
  <2>4. ToldInv' /\ FreshInv'
    BY <1>1, <2>1 DEF SafeInv, ToldInv, FreshInv
  <2> QED
    BY <1>2, <1>4, <2>2, <2>3, <2>4 DEF SafeInv
<1> QED
  BY <1>5, <1>6, <1>7, <1>8, <1>9, <1>10

\* A call of the agent's returns.
LEMMA SafeReturnAgent ==
  ASSUME SafeInv, TypeInv', KeepInv', held = "agent", UNCHANGED router,
         NEW status, NEW text, Leaves(status, text), alive' => alive, alive' /\ safe' => safe,
         Closes(status, text) => ~alive'
  PROVE  SafeInv'
<1> USE DEF router
<1>1. call["agent"] \in AgentCalls /\ call["agent"] # "none"
  BY DEF SafeInv, TypeInv, TypeOK, Task
<1>2. /\ call'["op"] = call["op"] /\ call'["agent"] \in {"none", call["agent"]}
      /\ result'["op"] = result["op"] /\ UNCHANGED <<stage, fresh, decisions>> /\ raw' = <<>>
      /\ at' = "idle" \/ (at' = "closing" /\ ~alive')
  BY <1>1 DEF Leaves, Return, Closes, StageAfter, AgentCalls, OpCalls, Task, SafeInv, TypeInv
<1>3. ~Committing /\ ~Committing'
  BY <1>2 DEF SafeInv, OwnerInv, Committing
<1>4. OwnerInv'
  BY <1>1, <1>2, <1>3 DEF SafeInv, OwnerInv, Reading, TypeInv
<1>5. KeysInv' /\ TextInv' /\ Protected' = Protected
  BY <1>2, <1>3 DEF SafeInv, KeysInv, TextInv, Known, Protected, Committing
<1>6. ProtectInv' /\ ReleaseInv'
  BY <1>2, <1>3, <1>5 DEF SafeInv, ProtectInv, ReleaseInv
<1>7. ToldInv' /\ FreshInv'
  BY <1>2 DEF SafeInv, ToldInv, FreshInv
<1> QED
  BY <1>4, <1>5, <1>6, <1>7 DEF SafeInv

\* A call of the operator's returns and leaves the session closed, or is about to.
LEMMA SafeReturnOp ==
  ASSUME SafeInv, TypeInv', KeepInv', KeysInv', held = "op", ~alive', UNCHANGED <<out, pending>>,
         NEW status \in Status, NEW text, Leaves(status, text),
         stage = "entering" => UNCHANGED router,
         status = "committed" => /\ ~rsafe' /\ ~Has(rin', CtrlX) /\ change' \in {"none", "kept"}
                                 /\ call["op"] = "commit"
  PROVE  SafeInv'
<1>1. call["op"] \in OpCalls /\ call["op"] # "none"
  BY DEF SafeInv, TypeInv, TypeOK, Task
<1>2. /\ call'["agent"] = call["agent"] /\ result'["op"].status = status
      /\ UNCHANGED <<fresh, decisions>> /\ at' \in {"idle", "closing"} /\ raw' = <<>>
  BY DEF Leaves, Return, Closes, Task, SafeInv, TypeInv
<1>3. CASE Return(status, text)
  <2>1. call'["op"] = "none" /\ stage' = StageAfter(call["op"], status)
    BY <1>3 DEF Return, Task, SafeInv, TypeInv
  <2>2. stage' \notin {"connected", "entering"}
    BY <1>1, <2>1 DEF StageAfter, SafeInv, KeepInv, OwnerInv
  <2>3. OwnerInv'
    BY <1>2, <2>1, <2>2 DEF OwnerInv, Reading, Committing
  <2>4. TextInv'
    BY <1>2 DEF SafeInv, TextInv, Known, Committing
  <2>5. ProtectInv' /\ ReleaseInv' /\ FreshInv'
    BY <1>2, <2>2 DEF ProtectInv, ReleaseInv, FreshInv, Committing
  <2>6. ToldInv'
    BY <1>1, <1>2, <2>1 DEF ToldInv, StageAfter, SafeInv, KeepInv
  <2> QED
    BY <2>3, <2>4, <2>5, <2>6 DEF SafeInv
<1>4. CASE Closes(status, text)
  <2>1. /\ UNCHANGED <<call, stage, held>> /\ at' = "closing"
        /\ stage \in {"connected", "entering"} => stage = "entering"
    BY <1>1, <1>4 DEF Closes, SafeInv, KeepInv
  <2>2. OwnerInv'
    BY <1>2, <2>1 DEF SafeInv, OwnerInv, Reading, Committing
  <2>3. TextInv'
    BY <1>2, <2>1 DEF SafeInv, TextInv, Known, Committing
  <2>4. ProtectInv' /\ ReleaseInv' /\ FreshInv'
    BY <1>2, <2>1 DEF SafeInv, ProtectInv, Protected, ReleaseInv, FreshInv, Committing, router
  <2>5. ToldInv'
    BY <1>2, <2>1 DEF ToldInv, SafeInv, KeepInv
  <2> QED
    BY <2>2, <2>3, <2>4, <2>5 DEF SafeInv
<1> QED
  BY <1>3, <1>4 DEF Leaves

\* What is written while RouterOS owns Safe Mode, and no Ctrl+X, leaves it owned.
LEMMA SendOther ==
  ASSUME SafeInv, Protected, NEW keys \in Seq(Key), Send(keys), fresh' \in Nat, fresh <= fresh',
         \A i \in 1..Len(keys) : keys[i] # CtrlX,
         \A i \in 1..Len(keys) : keys[i][1] = "mark" => keys[i][2] <= fresh'
  PROVE  KeysInv' /\ Protected'
<1>1. ~Has(keys, CtrlX)
  BY DEF Has
<1>2. rin \in Seq(Key) /\ UNCHANGED <<link, rsafe>> /\ (link = "up" => rsafe) /\ link \in {"up", "down"}
  BY DEF Send, SafeInv, TypeInv, TypeOK, Protected
<1>3. ~Has(rin', CtrlX)
  BY <1>1, <1>2, HasConcat DEF Send, Protected
<1>4. Protected'
  BY <1>2, <1>3 DEF Protected
<1>5. \A i \in 1..Len(keys) : keys[i][1] = "cmd" /\ keys[i][2] # 0 => rsafe \/ link = "down"
  BY <1>2
<1>6. KeysInv'
  BY <1>1, <1>5, KeysSend DEF SafeInv, Protected
<1> QED
  BY <1>4, <1>6

\* Keys with the fresh marker that frames the reply.
LEMMA FramedKeys ==
  ASSUME SafeInv, NEW keys \in Seq(Key),
         \A i \in 1..Len(keys) : keys[i] # CtrlX /\ keys[i][1] # "mark"
  PROVE  /\ keys \o <<Mark(fresh + 1)>> \in Seq(Key)
         /\ \A i \in 1..Len(keys \o <<Mark(fresh + 1)>>) :
              /\ (keys \o <<Mark(fresh + 1)>>)[i] # CtrlX
              /\ (keys \o <<Mark(fresh + 1)>>)[i][1] = "mark"
                   => (keys \o <<Mark(fresh + 1)>>)[i][2] <= fresh + 1
<1> DEFINE m == Mark(fresh + 1)
           long == keys \o <<m>>
<1>1. m \in Key /\ m # CtrlX /\ m[1] = "mark" /\ m[2] = fresh + 1 /\ fresh \in Nat
  BY DEF Mark, Key, CtrlX, SafeInv, TypeInv
<1> HIDE DEF m
<1>2. /\ long \in Seq(Key) /\ Len(long) = Len(keys) + 1 /\ Len(keys) \in Nat
      /\ long[Len(keys) + 1] = m /\ \A i \in 1..Len(keys) : long[i] = keys[i]
  BY <1>1, OneMore
<1> HIDE DEF long
<1>3. ASSUME NEW i \in 1..Len(long)
      PROVE  long[i] # CtrlX /\ (long[i][1] = "mark" => long[i][2] <= fresh + 1)
  <2>1. CASE i = Len(keys) + 1
    BY <1>1, <1>2, <2>1
  <2>2. CASE i \in 1..Len(keys)
    BY <1>2, <2>2
  <2> QED
    BY <1>2, <2>1, <2>2
<1>4. long \in Seq(Key) /\ \A i \in 1..Len(long) :
        long[i] # CtrlX /\ (long[i][1] = "mark" => long[i][2] <= fresh + 1)
  BY <1>2, <1>3
<1> QED
  BY <1>4 DEF long, m

\* The agent writes a command, or Ctrl+C, and a marker.
LEMMA SafeFramed ==
  ASSUME SafeInv, TypeInv', KeepInv', held = "agent", alive, UNCHANGED <<alive, safe>>,
         NEW keys \in {<<Cmd(calls)>>, <<Cmd(0)>>, <<CtrlC>>},
         NEW where \in {"reply", "resync", "recount"}, NEW leftover, SendFramed(keys, where, leftover)
  PROVE  SafeInv'
<1>1. stage = "unlocked" /\ ~Committing /\ Protected
  BY DEF SafeInv, TypeInv, OwnerInv, ProtectInv, Committing, Task
<1>2. keys \in Seq(Key) /\ Len(keys) = 1 /\ keys[1] # CtrlX /\ keys[1][1] # "mark"
  <2>1. <<Cmd(calls)>> \in Seq(Key) /\ <<Cmd(0)>> \in Seq(Key) /\ <<CtrlC>> \in Seq(Key)
    BY TypeTokens DEF SafeInv
  <2>2. \A k \in {Cmd(calls), Cmd(0), CtrlC} : k # CtrlX /\ k[1] # "mark"
    BY DEF Cmd, CtrlC, CtrlX
  <2>3. PICK k \in {Cmd(calls), Cmd(0), CtrlC} : keys = <<k>>
    OBVIOUS
  <2>4. Len(<<k>>) = 1 /\ <<k>>[1] = k
    OBVIOUS
  <2> QED
    BY <2>1, <2>2, <2>3, <2>4
<1>3. /\ UNCHANGED <<held, callers, out>> /\ fresh' = fresh + 1 /\ fresh \in Nat
      /\ at' = where /\ Send(keys \o <<Mark(fresh + 1)>>)
  BY DEF SendFramed, Send, SafeInv, TypeInv
<1>4. KeysInv' /\ Protected'
  <2>1. \A i \in 1..Len(keys) : keys[i] # CtrlX /\ keys[i][1] # "mark"
    BY <1>2
  <2>2. fresh' \in Nat /\ fresh <= fresh'
    BY <1>3
  <2> DEFINE long == keys \o <<Mark(fresh + 1)>>
  <2>3. /\ long \in Seq(Key)
        /\ \A i \in 1..Len(long) : long[i] # CtrlX /\ (long[i][1] = "mark" => long[i][2] <= fresh')
    BY <1>2, <1>3, <2>1, FramedKeys
  <2>4. Send(long)
    BY <1>3
  <2> HIDE DEF long
  <2> QED
    BY <1>1, <2>2, <2>3, <2>4, SendOther
<1>5. OwnerInv'
  BY <1>1, <1>3 DEF SafeInv, OwnerInv, Reading, Committing, callers, Task
<1>6. \A s \in Seq(Text) : Known(s) => Known(s)'
  <2>1. ASSUME NEW s \in Seq(Text), Known(s), NEW i \in 1..Len(s), s[i][1] = "mark"
        PROVE  s[i][2] <= fresh'
    <3>1. s[i][2] \in Nat /\ s[i][2] <= fresh
      BY <2>1, ElementOfSeq DEF Text, Known
    <3> QED
      BY <1>3, <3>1
  <2> QED
    BY <2>1 DEF Known
<1>7. TextInv' /\ ProtectInv' /\ ReleaseInv'
  BY <1>1, <1>3, <1>4, <1>6 DEF SafeInv, TextInv, ProtectInv, ReleaseInv, Committing, Known, callers
<1>8. ToldInv' /\ FreshInv'
  BY <1>1, <1>3 DEF SafeInv, ToldInv, FreshInv, callers
<1> QED
  BY <1>4, <1>5, <1>7, <1>8 DEF SafeInv

\* Every step of a call of the agent's returns or writes a framed command.
LEMMA SafeAgent ==
  ASSUME CancelOp = FALSE, SafeInv, TypeInv', KeepInv',
         ExecuteStep \/ RecountStep \/ ResyncStep \/ CancelHolder
  PROVE  SafeInv'
<1> DEFINE Returns == \E status, text : Return(status, text) \/ (Closes(status, text) /\ ~alive')
           Quiet == UNCHANGED router /\ (alive' => alive) /\ (alive' /\ safe' => safe)
           Writes == \E keys \in {<<Cmd(calls)>>, <<Cmd(0)>>, <<CtrlC>>} :
                     \E where \in {"reply", "resync", "recount"} : \E leftover :
                       SendFramed(keys, where, leftover)
<1>1. held = "agent" /\ call["agent"] \in AgentCalls
  <2>1. held \in Task
    BY TypeUnchanged DEF SafeInv, ExecuteStep, ExecuteBegin, ExecuteReply, ExecuteLost,
       ExecuteTimeout, RecountStep, RefreshBegin, RecountDone, RecountFails, ResyncStep,
       ResyncDone, ResyncFails, CancelHolder
  <2>2. held # "op"
    BY DEF SafeInv, TypeInv, TypeOK, OwnerInv, OpCalls, Running, Waiting, MayCancel, ExecuteStep,
       ExecuteBegin, ExecuteReply, ExecuteLost, ExecuteTimeout, RecountStep, RefreshBegin,
       RecountDone, RecountFails, ResyncStep, ResyncDone, ResyncFails, CancelHolder
  <2> QED
    BY <2>1, <2>2 DEF Task, SafeInv, TypeInv, TypeOK
<1>2. at \in Reading => alive
  BY DEF SafeInv, OwnerInv
<1> USE DEF client, MarkLost, CloseOnly, CloseUnsafe, KeepRest
<1>3. CASE Returns /\ Quiet
  <2>1. PICK status, text : Return(status, text) \/ (Closes(status, text) /\ ~alive')
    BY <1>3
  <2>2. Leaves(status, text) /\ (Closes(status, text) => ~alive')
    BY <2>1 DEF Leaves, Return, Closes
  <2> QED
    BY <1>1, <1>3, <2>2, SafeReturnAgent
<1>4. CASE Writes /\ alive /\ UNCHANGED <<alive, safe>>
  BY <1>1, <1>4, SafeFramed
<1>5. CASE ExecuteBegin
  <2>1. \/ Returns /\ Quiet
        \/ Writes /\ alive /\ UNCHANGED <<alive, safe>>
    BY <1>5 DEF ExecuteBegin
  <2> QED
    BY <1>3, <1>4, <2>1
<1>6. CASE ExecuteReply
  <2>1. \/ Returns /\ Quiet
        \/ Writes /\ alive /\ UNCHANGED <<alive, safe>>
    BY <1>2, <1>6 DEF ExecuteReply, Reading
  <2> QED
    BY <1>3, <1>4, <2>1
<1>7. CASE ExecuteTimeout
  <2>1. \/ Returns /\ Quiet
        \/ Writes /\ alive /\ UNCHANGED <<alive, safe>>
    BY <1>2, <1>7 DEF ExecuteTimeout, Reading
  <2> QED
    BY <1>3, <1>4, <2>1
<1>8. CASE RefreshBegin
  <2>1. \/ Returns /\ Quiet
        \/ Writes /\ alive /\ UNCHANGED <<alive, safe>>
    BY <1>8 DEF RefreshBegin
  <2> QED
    BY <1>3, <1>4, <2>1
<1>9. CASE ExecuteLost \/ RecountDone \/ RecountFails \/ ResyncStep \/ CancelHolder
  <2>1. Returns /\ Quiet
    BY <1>1, <1>9 DEF ExecuteLost, RecountDone, RecountFails, ResyncStep, ResyncDone, ResyncFails,
                      CancelHolder, AgentCalls
  <2> QED
    BY <1>3, <2>1
<1> QED
  BY <1>5, <1>6, <1>7, <1>8, <1>9 DEF ExecuteStep, RecountStep

\* The holder of the lock whose call is one of the operator's.
LEMMA OpHolds ==
  ASSUME SafeInv, NEW c \in OpCalls, Running(c)
  PROVE  /\ held = "op" /\ call["op"] = c
         /\ c = "enter" => stage = "entering" /\ call["agent"] = "none" /\ ~(alive /\ safe)
         /\ c \in {"commit", "restore"} => stage = "unlocked"
         /\ at # "closing" => result["op"].status # "committed"
BY HolderCall DEF SafeInv, OwnerInv, ToldInv, OpCalls

\* enter_safe_mode writes the Ctrl+X that takes Safe Mode.
LEMMA SafeEnterBegin ==
  ASSUME SafeInv, TypeInv', KeepInv', EnterBegin
  PROVE  SafeInv'
<1>1. /\ held = "op" /\ call["op"] = "enter" /\ stage = "entering" /\ at = "begin"
      /\ call["agent"] = "none" /\ ~(alive /\ safe) /\ result["op"].status # "committed"
  BY OpHolds DEF EnterBegin, OpCalls
<1>2. CASE /\ alive /\ Send(<<CtrlX>>) /\ at' = "taking" /\ buf' = pending /\ pending' = <<>>
           /\ UNCHANGED <<alive, safe, closed, held, want, raw, fresh, callers>>
  <2>1. /\ change = "none" /\ ~Has(decisions, "commit") /\ pending = <<>>
        /\ \A i \in 1..Len(rin) : rin[i][1] # "cmd"
    BY <1>1 DEF SafeInv, FreshInv, OwnerInv
  <2>2. ~rsafe /\ ~Has(rin, CtrlX)
    BY <1>1, <2>1 DEF SafeInv, KeepInv, Unasked, Early, Untouched
  <2>3. /\ UNCHANGED <<link, out, rsafe, change, exposed>>
        /\ rin' = IF link = "up" THEN rin \o <<CtrlX>> ELSE rin
    BY <1>2 DEF Send
  <2>4. <<CtrlX>> \in Seq(Key) /\ Len(<<CtrlX>>) = 1 /\ <<CtrlX>>[1] = CtrlX
        /\ CtrlX[1] # "mark" /\ CtrlX[1] # "cmd" /\ CtrlX \in Key
    BY DEF CtrlX, Key
  <2>5. KeysInv'
    <3>1. fresh' \in Nat /\ fresh <= fresh'
      BY <1>2 DEF SafeInv, TypeInv
    <3>2. \A i \in 1..Len(<<CtrlX>>) : <<CtrlX>>[i][1] # "mark" /\ <<CtrlX>>[i][1] # "cmd"
      BY <2>4
    <3>3. \A i, j \in 1..Len(<<CtrlX>>) : ~(i < j)
      BY <2>4
    <3> QED
      BY <1>2, <2>1, <2>2, <2>4, <3>1, <3>2, <3>3, KeysSend DEF SafeInv
  <2>6. \A i \in 1..Len(rin') : rin'[i][1] # "cmd"
    <3>1. rin \in Seq(Key)
      BY DEF SafeInv, TypeInv
    <3>2. /\ Len(rin \o <<CtrlX>>) = Len(rin) + 1 /\ Len(rin) \in Nat
          /\ (rin \o <<CtrlX>>)[Len(rin) + 1] = CtrlX
          /\ \A i \in 1..Len(rin) : (rin \o <<CtrlX>>)[i] = rin[i]
      BY <2>4, <3>1, OneMore
    <3>3. \A i \in 1..(Len(rin) + 1) : i \in 1..Len(rin) \/ i = Len(rin) + 1
      BY <3>2
    <3> QED
      BY <2>1, <2>3, <2>4, <3>2, <3>3
  <2>7. OwnerInv'
    BY <1>1, <1>2 DEF SafeInv, OwnerInv, Reading, Committing, callers, Task
  <2>8. TextInv'
    BY <1>2, <2>1, <2>3 DEF SafeInv, TextInv, Known, Committing
  <2>9. ProtectInv'
    <3>1. link = "down" => Protected'
      BY <2>2, <2>3 DEF Protected
    <3>2. Has(out, Taken) => link # "up"
      BY <1>1, <2>2 DEF SafeInv, ProtectInv, Protected
    <3>3. link \in {"up", "down"} /\ ~Has(buf', Taken)
      BY <1>2, <2>1 DEF SafeInv, TypeInv, TypeOK, Has
    <3> QED
      BY <1>1, <1>2, <2>3, <3>1, <3>2, <3>3 DEF ProtectInv, callers
  <2>10. ReleaseInv' /\ ToldInv' /\ FreshInv'
    BY <1>1, <1>2, <2>1, <2>3, <2>6 DEF ReleaseInv, ToldInv, FreshInv, Committing, callers
  <2> QED
    BY <2>5, <2>7, <2>8, <2>9, <2>10 DEF SafeInv
<1>3. CASE /\ ~alive' /\ UNCHANGED <<pending, router>>
           /\ \E status \in {"refused", "raised"} : Leaves(status, {})
  <2>1. KeysInv' /\ UNCHANGED out
    BY <1>3 DEF SafeInv, KeysInv, Known, router, Leaves, Return, Closes
  <2> QED
    BY <1>1, <1>3, <2>1, SafeReturnOp DEF Status
<1> QED
  BY <1>2, <1>3 DEF EnterBegin, CloseOnly, Leaves, client

\* enter_safe_mode has seen that Safe Mode was taken, or that it is another user's.
LEMMA SafeEnterTaken ==
  ASSUME SafeInv, TypeInv', KeepInv', EnterTaken
  PROVE  SafeInv'
<1>1. /\ held = "op" /\ call["op"] = "enter" /\ stage = "entering" /\ at = "taking"
      /\ call["agent"] = "none" /\ ~(alive /\ safe) /\ result["op"].status # "committed"
  BY OpHolds DEF EnterTaken, OpCalls
<1>2. CASE UNCHANGED <<client, router>> /\ Return("hijacked", {})
  <2>1. /\ call'["op"] = "none" /\ call'["agent"] = "none" /\ stage' = "failed" /\ at' = "idle"
        /\ raw' = <<>> /\ result'["op"].status = "hijacked" /\ fresh' = fresh
    BY <1>1, <1>2 DEF Return, StageAfter, Task, SafeInv, TypeInv
  <2>2. OwnerInv' /\ KeysInv' /\ TextInv'
    BY <1>1, <1>2, <2>1 DEF SafeInv, OwnerInv, KeysInv, TextInv, Known, Reading, Committing,
                            client, router
  <2>3. ProtectInv' /\ ReleaseInv' /\ ToldInv' /\ FreshInv'
    BY <2>1 DEF ProtectInv, ReleaseInv, ToldInv, FreshInv, Committing
  <2> QED
    BY <2>2, <2>3 DEF SafeInv
<1>3. CASE /\ ~Has(buf, Hijack) /\ SendFramed(<<>>, "settle", pending)
           /\ pending' = <<>> /\ UNCHANGED <<alive, safe, closed, raw>>
  <2>1. Protected
    BY <1>1, <1>3 DEF EnterTaken, Satisfied, SafeInv, ProtectInv
  <2>2. /\ UNCHANGED <<held, callers, out, change>> /\ fresh' = fresh + 1 /\ fresh \in Nat
        /\ at' = "settle" /\ Send(<<>> \o <<Mark(fresh + 1)>>)
    BY <1>3 DEF SendFramed, Send, SafeInv, TypeInv
  <2>3. Mark(fresh + 1) \in Key /\ <<Mark(fresh + 1)>> \in Seq(Key)
    BY <2>2 DEF Mark, Key
  <2>4. <<>> \o <<Mark(fresh + 1)>> = <<Mark(fresh + 1)>>
    BY <2>3, ConcatEmptySeq
  <2> DEFINE keys == <<Mark(fresh + 1)>>
  <2>5. /\ keys \in Seq(Key) /\ Send(keys) /\ Len(keys) = 1
        /\ \A i \in 1..Len(keys) : /\ keys[i] # CtrlX /\ keys[i][1] = "mark"
                                   /\ keys[i][2] = fresh + 1
    BY <2>2, <2>3, <2>4 DEF Mark, CtrlX
  <2> HIDE DEF keys
  <2>6. KeysInv' /\ Protected'
    BY <2>1, <2>2, <2>5, SendOther
  <2>7. \A i \in 1..Len(rin') : rin'[i][1] # "cmd"
    <3>1. rin \in Seq(Key) /\ \A i \in 1..Len(rin) : rin[i][1] # "cmd"
      BY <1>1 DEF SafeInv, TypeInv, FreshInv
    <3>2. /\ Len(rin \o keys) = Len(rin) + Len(keys) /\ Len(rin) \in Nat
          /\ \A i \in 1..(Len(rin) + Len(keys)) :
               (rin \o keys)[i] = IF i <= Len(rin) THEN rin[i] ELSE keys[i - Len(rin)]
      <4>1. rin \in Seq(Key) /\ keys \in Seq(Key)
        BY <2>5, <3>1
      <4> QED
        BY <4>1, ConcatProperties, LenProperties
    <3>3. \A i \in 1..(Len(rin) + 1) : \/ i \in 1..Len(rin) /\ i <= Len(rin)
                                       \/ ~(i <= Len(rin)) /\ i - Len(rin) = 1
      BY <3>2
    <3>4. \A i \in 1..(Len(rin) + 1) : (rin \o keys)[i][1] # "cmd"
      BY <2>5, <3>1, <3>2, <3>3
    <3> QED
      BY <2>5, <3>1, <3>2, <3>4 DEF Send
  <2>8. OwnerInv'
    BY <1>1, <1>3, <2>2 DEF SafeInv, OwnerInv, Reading, Committing, callers, Task
  <2>9. Known(out)'
    <3>1. ASSUME NEW i \in 1..Len(out), out[i][1] = "mark" PROVE out[i][2] <= fresh'
      <4>1. out[i][2] \in Nat /\ out[i][2] <= fresh
        BY <3>1, ElementOfSeq DEF SafeInv, TextInv, Text, Known
      <4> QED
        BY <2>2, <4>1
    <3> QED
      BY <2>2, <3>1 DEF Known
  <2>10. TextInv' /\ ProtectInv' /\ ReleaseInv'
    BY <2>2, <2>6, <2>9 DEF SafeInv, TextInv, ProtectInv, ReleaseInv, Committing
  <2>11. ToldInv' /\ FreshInv'
    BY <1>1, <2>2, <2>7 DEF SafeInv, ToldInv, FreshInv, callers
  <2> QED
    BY <2>6, <2>8, <2>10, <2>11 DEF SafeInv
<1> QED
  BY <1>2, <1>3 DEF EnterTaken

\* enter_safe_mode returns: the session is open to the agent, or closed.
LEMMA SafeEnterEnds ==
  ASSUME SafeInv, TypeInv', KeepInv', EnterSettled \/ EnterFails
  PROVE  SafeInv'
<1>1. /\ held = "op" /\ call["op"] = "enter" /\ stage = "entering"
      /\ call["agent"] = "none" /\ ~(alive /\ safe) /\ result["op"].status # "committed"
  BY OpHolds DEF EnterSettled, EnterFails, OpCalls, Waiting, Reading
<1>2. CASE EnterSettled
  <2>1. Protected
    BY <1>2 DEF EnterSettled, SafeInv, ProtectInv
  <2>2. /\ call'["op"] = "none" /\ call'["agent"] = "none" /\ stage' = "unlocked" /\ at' = "idle"
        /\ raw' = <<>> /\ result'["op"].status = "entered" /\ UNCHANGED <<fresh, router>>
    BY <1>1, <1>2 DEF EnterSettled, Return, StageAfter, Task, SafeInv, TypeInv
  <2>3. OwnerInv' /\ KeysInv' /\ TextInv'
    BY <2>2 DEF SafeInv, OwnerInv, KeysInv, TextInv, Known, Reading, Committing, router
  <2>4. ProtectInv' /\ ReleaseInv' /\ ToldInv' /\ FreshInv'
    BY <2>1, <2>2 DEF ProtectInv, Protected, ReleaseInv, ToldInv, FreshInv, Committing, router
  <2> QED
    BY <2>3, <2>4 DEF SafeInv
<1>3. CASE EnterFails
  <2>1. KeysInv' /\ UNCHANGED <<out, pending>> /\ ~alive' /\ Leaves("refused", {})
    BY <1>3 DEF EnterFails, CloseOnly, SafeInv, KeysInv, Known, router, Leaves, Closes
  <2> QED
    BY <1>1, <1>3, <2>1, SafeReturnOp DEF EnterFails, Status
<1> QED
  BY <1>2, <1>3

\* commit_and_close writes its Ctrl+X.
LEMMA SafeCommitBegin ==
  ASSUME SafeInv, TypeInv', KeepInv', CommitBegin
  PROVE  SafeInv'
<1>1. /\ held = "op" /\ call["op"] = "commit" /\ stage = "unlocked" /\ at = "begin"
      /\ result["op"].status # "committed"
  BY OpHolds DEF CommitBegin, OpCalls
<1>2. CASE /\ alive /\ Send(<<CtrlX>>) /\ at' = "release" /\ buf' = <<>> /\ pending' = <<>>
           /\ UNCHANGED <<alive, safe, closed, held, want, raw, fresh, callers>>
  <2>1. Protected
    BY <1>1, <1>2 DEF SafeInv, ProtectInv, Committing
  <2>2. /\ UNCHANGED <<link, out, rsafe, change, exposed>>
        /\ rin' = IF link = "up" THEN rin \o <<CtrlX>> ELSE rin
    BY <1>2 DEF Send
  <2>3. /\ <<CtrlX>> \in Seq(Key) /\ CtrlX \in Key
        /\ Len(<<CtrlX>>) = 1 /\ <<CtrlX>>[1] = CtrlX
        /\ CtrlX[1] # "mark" /\ CtrlX[1] # "cmd"
    BY DEF CtrlX, Key
  <2>4. link \in {"up", "down"} /\ ~Has(rin, CtrlX) /\ (rsafe \/ link = "down")
    BY <2>1 DEF Protected, SafeInv, TypeInv, TypeOK
  <2>5. KeysInv'
    <3>1. fresh' \in Nat /\ fresh <= fresh'
      BY <1>2 DEF SafeInv, TypeInv
    <3>2. \A i \in 1..Len(<<CtrlX>>) : <<CtrlX>>[i][1] # "mark" /\ <<CtrlX>>[i][1] # "cmd"
      BY <2>3
    <3>3. \A i, j \in 1..Len(<<CtrlX>>) : ~(i < j)
      BY <2>3
    <3> QED
      BY <1>2, <2>3, <2>4, <3>1, <3>2, <3>3, KeysSend DEF SafeInv
  <2>6. Underway' \/ Unsent'
    <3>1. ~Answered' /\ at' # "confirm"
      BY <1>2 DEF Answered
    <3>2. CASE link = "down"
      BY <2>2, <2>4, <3>1, <3>2 DEF Unsent
    <3>3. CASE link = "up"
      <4>1. rin \in Seq(Key) /\ Has(<<CtrlX>>, CtrlX)
        BY HasOne DEF SafeInv, TypeInv
      <4>2. Has(rin', CtrlX)
        BY <2>2, <2>3, <3>3, <4>1, HasConcat
      <4>3. rsafe'
        BY <2>2, <2>4, <3>3
      <4> QED
        BY <3>1, <4>2, <4>3 DEF Underway
    <3> QED
      BY <2>4, <3>2, <3>3
  <2>7. OwnerInv' /\ TextInv'
    BY <1>1, <1>2, <2>2 DEF SafeInv, OwnerInv, TextInv, Known, Reading, Committing, callers, Task
  <2>8. ProtectInv' /\ ReleaseInv' /\ ToldInv' /\ FreshInv'
    BY <1>1, <1>2, <2>6 DEF ProtectInv, ReleaseInv, ToldInv, FreshInv, Committing, callers
  <2> QED
    BY <2>5, <2>7, <2>8 DEF SafeInv
<1>3. CASE ~alive' /\ UNCHANGED <<pending, router>> /\ Leaves("lost", {})
  <2>1. KeysInv' /\ UNCHANGED out
    BY <1>3 DEF SafeInv, KeysInv, Known, router, Leaves, Return, Closes
  <2> QED
    BY <1>1, <1>3, <2>1, SafeReturnOp DEF Status
<1> QED
  BY <1>2, <1>3 DEF CommitBegin, MarkLost, Leaves, client

\* A marker that was not handed out is in no text and not on its way.
LEMMA FreshMark ==
  ASSUME fresh \in Nat, NEW s, Known(s)
  PROVE  ~Has(s, Mark(fresh + 1))
<1> SUFFICES ASSUME NEW i \in 1..Len(s), s[i] = Mark(fresh + 1) PROVE FALSE
  BY DEF Has
<1>1. Mark(fresh + 1)[1] = "mark" /\ Mark(fresh + 1)[2] = fresh + 1
  BY DEF Mark
<1>2. fresh + 1 <= fresh
  BY <1>1 DEF Known
<1> QED
  BY <1>2

LEMMA KnownLater ==
  ASSUME fresh \in Nat, fresh' = fresh + 1, NEW s \in Seq(Text), Known(s)
  PROVE  Known(s)'
<1>1. ASSUME NEW i \in 1..Len(s), s[i][1] = "mark" PROVE s[i][2] <= fresh'
  <2>1. s[i][2] \in Nat /\ s[i][2] <= fresh
    BY <1>1, ElementOfSeq DEF Text, Known
  <2> QED
    BY <2>1
<1> QED
  BY <1>1 DEF Known

\* commit_and_close has seen a bare prompt and asks for a marker.
LEMMA SafeCommitReleased ==
  ASSUME SafeInv, TypeInv', KeepInv', CommitReleased
  PROVE  SafeInv'
<1>1. /\ held = "op" /\ call["op"] = "commit" /\ stage = "unlocked" /\ at = "release"
      /\ result["op"].status # "committed"
  BY OpHolds DEF CommitReleased, OpCalls
<1>2. CASE SendFramed(<<>>, "confirm", <<>>) /\ raw' = buf /\ UNCHANGED client
  <2>1. /\ UNCHANGED <<held, callers, link, out, rsafe, change>> /\ fresh' = fresh + 1
        /\ fresh \in Nat /\ rin \in Seq(Key)
        /\ at' = "confirm" /\ want' = fresh + 1 /\ buf' = <<>> /\ Send(<<>> \o <<Mark(fresh + 1)>>)
    BY <1>2 DEF SendFramed, Send, SafeInv, TypeInv
  <2>2. /\ buf \in Seq(Text) /\ Known(buf) /\ raw = <<>> /\ out \in Seq(Text) /\ Known(out)
        /\ Known(rin)
    BY <1>1 DEF SafeInv, TextInv, OwnerInv, KeysInv, Committing
  <2>3. /\ <<Mark(fresh + 1)>> \in Seq(Key) /\ Mark(fresh + 1) \in Key
        /\ Mark(fresh + 1) # CtrlX /\ Mark(fresh + 1)[1] = "mark" /\ Mark(fresh + 1)[2] = fresh + 1
    BY <2>1 DEF Mark, Key, CtrlX
  <2>4. <<>> \o <<Mark(fresh + 1)>> = <<Mark(fresh + 1)>>
    BY <2>3, ConcatEmptySeq
  <2> DEFINE m == Mark(fresh + 1)
  <2>5. Send(<<m>>) /\ m \in Key /\ m # CtrlX /\ m[1] = "mark" /\ m[2] = fresh + 1
        /\ ~Has(rin, m) /\ ~Has(out, m) /\ m = Mark(want')
    BY <2>1, <2>2, <2>3, <2>4, FreshMark
  <2> HIDE DEF m
  <2>6. rin' = rin \/ (link = "up" /\ rin' = rin \o <<m>>)
    BY <2>5 DEF Send
  <2>7. KeysInv'
    <3>1. <<m>> \in Seq(Key) /\ Len(<<m>>) = 1 /\ <<m>>[1] = m
      BY <2>5
    <3>2. fresh' \in Nat /\ fresh <= fresh'
      BY <2>1
    <3>3. \A i \in 1..Len(<<m>>) : <<m>>[i][1] = "mark" /\ <<m>>[i][2] <= fresh'
      BY <2>1, <2>5, <3>1
    <3>4. \A i \in 1..Len(<<m>>) : <<m>>[i][1] # "cmd"
      BY <2>5, <3>1
    <3>5. ~Has(<<m>>, CtrlX)
      BY <2>5, HasOne
    <3> QED
      BY <2>5, <3>1, <3>2, <3>3, <3>4, <3>5, KeysSend DEF SafeInv
  <2>8. /\ Len(rin) \in Nat /\ rin \o <<m>> \in Seq(Key) /\ Len(rin \o <<m>>) = Len(rin) + 1
        /\ (rin \o <<m>>)[Len(rin) + 1] = m /\ \A i \in 1..Len(rin) : (rin \o <<m>>)[i] = rin[i]
    BY <2>1, <2>5, OneMore
  <2>9. Has(rin', CtrlX) <=> Has(rin, CtrlX)
    <3>1. <<m>> \in Seq(Key) /\ ~Has(<<m>>, CtrlX)
      BY <2>5, HasOne
    <3>2. Has(rin \o <<m>>, CtrlX) <=> Has(rin, CtrlX) \/ Has(<<m>>, CtrlX)
      BY <2>1, <3>1, HasConcat
    <3> QED
      BY <2>6, <3>1, <3>2
  <2>10. Stream' = out /\ ~Answered'
    <3>1. Stream' = <<>> \o out
      BY <2>1 DEF Stream
    <3> QED
      BY <2>2, <2>5, <3>1, ConcatEmptySeq DEF Answered
  <2>11. Underway' \/ Unsent' \/ Released'
    <3>1. CASE Underway
      <4>1. ASSUME NEW i \in 1..Len(rin'), NEW j \in 1..Len(rin'), i < j, rin'[j] = CtrlX
            PROVE  rin'[i] # m
        <5>1. i \in 1..Len(rin) /\ rin'[i] = rin[i]
          BY <2>5, <2>6, <2>8, <4>1
        <5> QED
          BY <2>5, <5>1 DEF Has
      <4> QED
        BY <2>1, <2>5, <2>9, <2>10, <3>1, <4>1 DEF Underway
    <3>2. CASE Unsent
      <4>1. rin' = rin
        BY <2>6, <3>2 DEF Unsent
      <4> QED
        BY <2>1, <2>5, <2>10, <3>2, <4>1 DEF Unsent
    <3>3. CASE Released
      <4>1. buf \o out \in Seq(Text)
        BY <2>2, ConcatProperties
      <4>2. <<>> \o (buf \o out) = buf \o out
        BY <4>1, ConcatEmptySeq
      <4>3. BareAt(buf \o out)
        BY <2>2, <3>3, <4>2 DEF Released, Evidence, Stream
      <4>4. Evidence(Stream)'
        BY <1>2, <2>10, <4>3 DEF Evidence, Answered
      <4> QED
        BY <2>1, <2>9, <3>3, <4>4 DEF Released
    <3> QED
      BY <1>1, <3>1, <3>2, <3>3 DEF SafeInv, ReleaseInv, Committing
  <2>12. OwnerInv'
    BY <1>1, <1>2, <2>1 DEF SafeInv, OwnerInv, Reading, Committing, callers, client, Task
  <2>13. TextInv'
    <3>1. Known(out)' /\ Known(buf)
      BY <2>1, <2>2, KnownLater
    <3>2. \A i \in 1..Len(raw') : raw'[i][1] = "mark" => raw'[i][2] <= fresh'
      <4>1. ASSUME NEW i \in 1..Len(buf), buf[i][1] = "mark" PROVE buf[i][2] <= fresh'
        <5>1. buf[i][2] \in Nat /\ buf[i][2] <= fresh
          BY <2>2, <4>1, ElementOfSeq DEF Text, Known
        <5> QED
          BY <2>1, <5>1
      <4> QED
        BY <1>2, <4>1
    <3>3. \A i \in 1..Len(out') : out'[i][1] = "mark" => out'[i][2] <= fresh'
      BY <2>1, <3>1 DEF Known
    <3> QED
      BY <1>2, <2>1, <2>2, <3>2, <3>3 DEF TextInv, Known
  <2>14. ProtectInv' /\ ReleaseInv' /\ ToldInv' /\ FreshInv'
    BY <1>1, <2>1, <2>11 DEF ProtectInv, ReleaseInv, ToldInv, FreshInv, Committing, callers
  <2> QED
    BY <2>7, <2>12, <2>13, <2>14 DEF SafeInv
<1>3. CASE ~alive' /\ UNCHANGED <<pending, router>> /\ Leaves("lost", {})
  <2>1. KeysInv' /\ UNCHANGED out
    BY <1>3 DEF SafeInv, KeysInv, Known, router, Leaves, Return, Closes
  <2> QED
    BY <1>1, <1>3, <2>1, SafeReturnOp DEF Status
<1> QED
  BY <1>2, <1>3 DEF CommitReleased, MarkLost, Leaves

\* The text before a token is the same in a longer text.
LEMMA BeforeFirst ==
  ASSUME NEW S, NEW b \in Seq(S), NEW o \in Seq(S), NEW x, Has(b, x),
         NEW m \in 1..Len(b \o o), (b \o o)[m] = x, \A k \in 1..(m - 1) : (b \o o)[k] # x
  PROVE  Before(b, x) = SubSeq(b \o o, 1, m - 1)
<1> DEFINE s == b \o o
<1>1. /\ s \in Seq(S) /\ Len(s) = Len(b) + Len(o) /\ Len(b) \in Nat /\ Len(o) \in Nat
      /\ \A i \in 1..(Len(b) + Len(o)) : s[i] = IF i <= Len(b) THEN b[i] ELSE o[i - Len(b)]
  BY ConcatProperties, LenProperties
<1>2. m \in 1..Len(s) /\ s[m] = x /\ \A k \in 1..(m - 1) : s[k] # x
  OBVIOUS
<1> HIDE DEF s
<1>3. \A i \in 1..Len(b) : i \in 1..(Len(b) + Len(o)) /\ s[i] = b[i]
  BY <1>1
<1>4. PICK i \in 1..Len(b) : b[i] = x
  BY DEF Has
<1>5. m <= i
  BY <1>1, <1>2, <1>3, <1>4
<1>6. m \in 1..Len(b) /\ b[m] = x /\ \A k \in 1..(m - 1) : b[k] # x
  BY <1>1, <1>2, <1>3, <1>4, <1>5
<1>7. \A j \in 1..Len(b) : b[j] = x /\ (\A k \in 1..(j - 1) : b[k] # x) => j = m
  BY <1>6
<1>8. (CHOOSE j \in 1..Len(b) : b[j] = x /\ \A k \in 1..(j - 1) : b[k] # x) = m
  BY <1>6, <1>7
<1>9. SubSeq(b, 1, m - 1) = SubSeq(s, 1, m - 1)
  <2>1. /\ \A k \in 1..(m - 1) : b[k] \in S /\ s[k] \in S /\ s[k] = b[k]
        /\ m - 1 \in Nat
    BY <1>1, <1>3, <1>6
  <2>2. /\ SubSeq(b, 1, m - 1) \in Seq(S) /\ Len(SubSeq(b, 1, m - 1)) = m - 1
        /\ \A k \in 1..(m - 1) : SubSeq(b, 1, m - 1)[k] = b[k]
    BY <2>1, SubSeqProperties
  <2>3. /\ SubSeq(s, 1, m - 1) \in Seq(S) /\ Len(SubSeq(s, 1, m - 1)) = m - 1
        /\ \A k \in 1..(m - 1) : SubSeq(s, 1, m - 1)[k] = s[k]
    BY <2>1, SubSeqProperties
  <2> QED
    BY <2>1, <2>2, <2>3, SeqEqual
<1>10. Before(b, x) = SubSeq(b, 1, m - 1)
  BY <1>8 DEF Before
<1> QED
  BY <1>9, <1>10 DEF s

\* The marker has come: Safe Mode was released, and commit_and_close says so.
LEMMA ConfirmIsTrue ==
  ASSUME SafeInv, at = "confirm", Has(buf, Mark(want))
  PROVE  /\ ~rsafe /\ ~Has(rin, CtrlX) /\ change \in {"none", "kept"}
         /\ CommitVerdict = "committed"
<1>1. buf \in Seq(Text) /\ raw \in Seq(Text) /\ out \in Seq(Text)
  BY DEF SafeInv, TextInv, Committing
<1>2. Has(Stream, Mark(want))
  BY <1>1, HasConcat DEF Stream
<1>3. Released
  BY <1>2 DEF SafeInv, ReleaseInv, Committing, Underway, Unsent, Answered
<1>4. FencedIn(Stream)
  BY <1>2, <1>3 DEF Released, Evidence
<1>5. PICK m \in 1..Len(Stream) :
        /\ Stream[m] = Mark(want) /\ \A k \in 1..(m - 1) : Stream[k] # Mark(want)
        /\ BareAt(raw \o SubSeq(Stream, 1, m - 1))
  BY <1>4 DEF FencedIn
<1>6. Before(buf, Mark(want)) = SubSeq(Stream, 1, m - 1)
  BY <1>1, <1>5, BeforeFirst DEF Stream
<1>7. raw \o SubSeq(Stream, 1, m - 1) \in Seq(Text)
  <2>1. Stream \in Seq(Text)
    BY <1>1, ConcatProperties DEF Stream
  <2>2. \A k \in 1..(m - 1) : Stream[k] \in Text
    BY <2>1
  <2>3. SubSeq(Stream, 1, m - 1) \in Seq(Text)
    BY <2>2, SubSeqProperties
  <2> QED
    BY <1>1, <2>3, ConcatProperties
<1>8. PromptState(raw \o Before(buf, Mark(want))) = "bare"
  BY <1>5, <1>6, <1>7, BareIsBare
<1> QED
  BY <1>3, <1>8 DEF Released, CommitVerdict

\* commit_and_close ends: confirmed, or without an answer.
LEMMA SafeCommitEnds ==
  ASSUME SafeInv, TypeInv', KeepInv', CommitConfirmed \/ CommitFails
  PROVE  SafeInv'
<1>1. held = "op" /\ call["op"] = "commit"
  BY OpHolds DEF CommitConfirmed, CommitFails, OpCalls
<1>2. UNCHANGED router
  BY DEF CommitConfirmed, CommitFails
<1>3. CASE CommitConfirmed
  <2>1. /\ ~rsafe /\ ~Has(rin, CtrlX) /\ change \in {"none", "kept"}
        /\ CommitVerdict = "committed"
    BY <1>3, ConfirmIsTrue DEF CommitConfirmed, Satisfied
  <2>2. ~alive' /\ UNCHANGED pending /\ Closes("committed", {}) /\ Leaves("committed", {})
    BY <1>3, <2>1 DEF CommitConfirmed, CloseUnsafe, Leaves
  <2>3. KeysInv' /\ UNCHANGED out
    BY <1>2, <2>2 DEF SafeInv, KeysInv, Known, router, Closes
  <2> QED
    BY <1>1, <1>2, <2>1, <2>2, <2>3, SafeReturnOp DEF Status, router
<1>4. CASE CommitFails
  <2>1. KeysInv' /\ UNCHANGED <<out, pending>> /\ ~alive' /\ Leaves("lost", {})
    BY <1>2, <1>4 DEF CommitFails, MarkLost, SafeInv, KeysInv, Known, router, Leaves, Return
  <2> QED
    BY <1>1, <1>2, <2>1, SafeReturnOp DEF Status
<1> QED
  BY <1>3, <1>4

\* One key that is neither a Ctrl+X nor a marker.
LEMMA SendOneKey ==
  ASSUME SafeInv, Protected, NEW k \in {CtrlCD, Load, Yes}, Send(<<k>>), fresh' = fresh
  PROVE  KeysInv' /\ Protected'
<1>1. k \in Key /\ k # CtrlX /\ k[1] # "mark"
  BY DEF CtrlCD, Load, Yes, CtrlX, Key
<1>2. <<k>> \in Seq(Key) /\ Len(<<k>>) = 1 /\ <<k>>[1] = k
  BY <1>1
<1>3. /\ \A i \in 1..Len(<<k>>) : <<k>>[i] # CtrlX
      /\ \A i \in 1..Len(<<k>>) : <<k>>[i][1] = "mark" => <<k>>[i][2] <= fresh'
  BY <1>1, <1>2
<1>4. fresh' \in Nat /\ fresh <= fresh'
  BY DEF SafeInv, TypeInv
<1> QED
  BY <1>2, <1>3, <1>4, SendOther

\* abort_and_close and restore_backup.
LEMMA SafeClosing ==
  ASSUME SafeInv, TypeInv', KeepInv', Abort \/ RestoreStep
  PROVE  SafeInv'
<1>1. /\ held = "op" /\ call["op"] \in {"abort", "restore"} /\ stage # "entering"
      /\ call["op"] = "restore" => stage = "unlocked"
      /\ result["op"].status # "committed"
  <2>1. held = "op" /\ call["op"] \in {"abort", "restore"} /\ at # "closing"
    BY OpHolds DEF Abort, RestoreStep, RestoreBegin, RestorePut, RestoreAnswer, RestoreFails,
       OpCalls, Waiting, Reading, SafeInv, OwnerInv
  <2> QED
    BY <2>1 DEF SafeInv, OwnerInv, ToldInv
<1>2. (alive /\ safe) \/ (alive /\ call["op"] = "restore") => Protected /\ stage = "unlocked"
  BY <1>1 DEF SafeInv, OwnerInv, ProtectInv, Committing
<1>3. CASE RestorePut
  <2>1. call["op"] = "restore" /\ stage = "unlocked" /\ alive /\ Protected
    BY <1>1, <1>2, <1>3 DEF RestorePut, SafeInv, OwnerInv
  <2>2. Send(<<Load>>) /\ at' = "ask" /\ UNCHANGED <<alive, safe, held, raw, fresh, callers>>
    BY <1>3 DEF RestorePut
  <2>3. KeysInv' /\ Protected'
    BY <2>1, <2>2, SendOneKey
  <2>4. UNCHANGED out
    BY <2>2 DEF Send
  <2>5. OwnerInv' /\ TextInv'
    BY <1>1, <2>1, <2>2, <2>4 DEF SafeInv, OwnerInv, TextInv, Known, Reading, Committing, callers, Task
  <2>6. ProtectInv' /\ ReleaseInv' /\ ToldInv' /\ FreshInv'
    BY <1>1, <2>1, <2>2, <2>3 DEF ProtectInv, ReleaseInv, ToldInv, FreshInv, Committing, callers
  <2> QED
    BY <2>3, <2>5, <2>6 DEF SafeInv
<1>4. CASE /\ ~alive' /\ UNCHANGED pending
           /\ \E status \in Status \ {"committed"} : Leaves(status, {})
           /\ \/ Protected /\ \E k \in {CtrlCD, Yes} : Send(<<k>>)
              \/ UNCHANGED router
  <2>1. fresh' = fresh
    BY <1>4 DEF Leaves, Return, Closes
  <2>2. KeysInv' /\ UNCHANGED out
    <3>1. CASE Protected /\ \E k \in {CtrlCD, Yes} : Send(<<k>>)
      BY <2>1, <3>1, SendOneKey DEF Send
    <3>2. CASE UNCHANGED router
      BY <2>1, <3>2 DEF SafeInv, KeysInv, Known, router
    <3> QED
      BY <1>4, <3>1, <3>2
  <2> QED
    BY <1>1, <1>4, <2>2, SafeReturnOp
<1>5. CASE Abort
  <2>1. ~alive' /\ UNCHANGED pending /\ Leaves("aborted", {}) /\ "aborted" \in Status \ {"committed"}
    BY <1>5 DEF Abort, CloseOnly, Status, Leaves
  <2>2. CASE alive /\ safe /\ Send(<<CtrlCD>>)
    BY <1>2, <1>4, <2>1, <2>2
  <2>3. CASE UNCHANGED router
    BY <1>4, <2>1, <2>3
  <2> QED
    BY <1>5, <2>2, <2>3 DEF Abort
<1>6. CASE RestoreBegin
  <2>1. CASE alive /\ at' = "sftp" /\ UNCHANGED <<client, router, held, want, buf, raw, fresh, callers>>
    <3>1. call["op"] = "restore" /\ stage = "unlocked" /\ Protected
      BY <1>1, <1>2, <1>6, <2>1, OpHolds DEF RestoreBegin, OpCalls
    <3>2. OwnerInv' /\ KeysInv' /\ TextInv'
      BY <1>1, <2>1, <3>1 DEF SafeInv, OwnerInv, KeysInv, TextInv, Known, Reading, Committing,
                              client, router, callers, Task
    <3>3. ProtectInv' /\ ReleaseInv' /\ ToldInv' /\ FreshInv'
      BY <1>1, <2>1, <3>1 DEF ProtectInv, Protected, ReleaseInv, ToldInv, FreshInv, Committing,
                              callers, router
    <3> QED
      BY <3>2, <3>3 DEF SafeInv
  <2>2. CASE ~alive /\ UNCHANGED <<client, router>> /\ Return("failed", {})
    BY <1>4, <2>2 DEF Status, Leaves, client
  <2> QED
    BY <1>6, <2>1, <2>2 DEF RestoreBegin
<1>7. CASE RestoreAnswer
  <2>1. alive /\ call["op"] = "restore"
    BY <1>7, OpHolds DEF RestoreAnswer, SafeInv, OwnerInv, Reading, OpCalls
  <2>2. ~alive' /\ UNCHANGED pending /\ {"restored", "failed"} \subseteq Status \ {"committed"}
    BY <1>7 DEF RestoreAnswer, CloseOnly, Status
  <2>3. CASE Send(<<Yes>>) /\ Closes("restored", {})
    BY <1>2, <1>4, <2>1, <2>2, <2>3 DEF Leaves
  <2>4. CASE UNCHANGED router /\ Closes("failed", {})
    BY <1>4, <2>2, <2>4 DEF Leaves
  <2> QED
    BY <1>7, <2>3, <2>4 DEF RestoreAnswer
<1>8. CASE RestoreFails
  BY <1>4, <1>8 DEF RestoreFails, CloseOnly, Status, Leaves
<1> QED
  BY <1>3, <1>5, <1>6, <1>7, <1>8 DEF RestoreStep

\* The transport is closed, and the call returns.
LEMMA SafeEnds ==
  ASSUME SafeInv, TypeInv', KeepInv', CloseEnds
  PROVE  SafeInv'
<1> DEFINE status == result[held].status
           text == result[held].text
<1>1. held \in Task /\ ~alive /\ ~alive' /\ status \in Status
  BY DEF CloseEnds, SafeInv, OwnerInv, TypeInv, TypeOK
<1>2. Leaves(status, text) /\ Return(status, text) /\ UNCHANGED <<pending, router>> /\ at = "closing"
  BY DEF CloseEnds, Leaves
<1>3. ~Closes(status, text)
  BY <1>2 DEF Return, Closes
<1> HIDE DEF status, text
<1>4. CASE held = "agent"
  BY <1>1, <1>2, <1>3, <1>4, SafeReturnAgent
<1>5. CASE held = "op"
  <2>1. KeysInv' /\ UNCHANGED out
    BY <1>2 DEF SafeInv, KeysInv, Known, router, Return
  <2>2. status = "committed" => /\ ~rsafe' /\ ~Has(rin', CtrlX) /\ change' \in {"none", "kept"}
                                /\ call["op"] = "commit"
    <3>1. call["op"] # "none"
      BY <1>5 DEF SafeInv, TypeInv, Task
    <3> QED
      BY <1>2, <1>5, <3>1 DEF status, SafeInv, ToldInv, router
  <2> QED
    BY <1>1, <1>2, <1>5, <2>1, <2>2, SafeReturnOp
<1> QED
  BY <1>1, <1>4, <1>5 DEF Task

LEMMA SplitAt ==
  ASSUME NEW S, NEW s \in Seq(S), NEW n \in 1..Len(s)
  PROVE  /\ SubSeq(s, 1, n) \in Seq(S) /\ SubSeq(s, n + 1, Len(s)) \in Seq(S)
         /\ SubSeq(s, 1, n) \o SubSeq(s, n + 1, Len(s)) = s
<1>1. Len(s) \in Nat /\ 1 \in 1..(Len(s) + 1) /\ n \in (1 - 1)..Len(s) /\ Len(s) \in n..Len(s)
  OBVIOUS
<1>2. SubSeq(s, 1, n) \o SubSeq(s, n + 1, Len(s)) = SubSeq(s, 1, Len(s))
  BY <1>1, ConcatAdjacentSubSeq
<1>3. SubSeq(s, 1, Len(s)) = s
  BY SubSeqFull
<1>4. SubSeq(s, 1, n) \in Seq(S)
  <2>1. n \in Int /\ \A i \in 1..n : s[i] \in S
    BY <1>1
  <2> QED
    BY <2>1, SubSeqProperties
<1>5. SubSeq(s, n + 1, Len(s)) \in Seq(S)
  <2>1. n + 1 \in Int /\ Len(s) \in Int /\ \A i \in (n + 1)..Len(s) : s[i] \in S
    BY <1>1
  <2> QED
    BY <2>1, SubSeqProperties
<1> QED
  BY <1>2, <1>3, <1>4, <1>5

LEMMA KnownParts ==
  ASSUME NEW s \in Seq(Text), NEW t \in Seq(Text)
  PROVE  Known(s \o t) <=> Known(s) /\ Known(t)
<1>1. /\ Len(s) \in Nat /\ Len(t) \in Nat /\ Len(s \o t) = Len(s) + Len(t)
      /\ \A i \in 1..(Len(s) + Len(t)) :
           (s \o t)[i] = IF i <= Len(s) THEN s[i] ELSE t[i - Len(s)]
  BY ConcatProperties, LenProperties
<1> DEFINE u == s \o t
<1> HIDE DEF u
<1>2. \A i \in 1..Len(s) : i \in 1..Len(u) /\ u[i] = s[i]
  BY <1>1 DEF u
<1>3. \A i \in 1..Len(t) : Len(s) + i \in 1..Len(u) /\ u[Len(s) + i] = t[i]
  <2>1. ASSUME NEW i \in 1..Len(t) PROVE Len(s) + i \in 1..Len(u) /\ u[Len(s) + i] = t[i]
    <3>1. Len(s) + i \in 1..(Len(s) + Len(t)) /\ ~(Len(s) + i <= Len(s)) /\ Len(s) + i - Len(s) = i
      BY <1>1
    <3> QED
      BY <1>1, <3>1 DEF u
  <2> QED
    BY <2>1
<1>4. \A i \in 1..Len(u) : \/ i \in 1..Len(s) /\ u[i] = s[i]
                           \/ i - Len(s) \in 1..Len(t) /\ u[i] = t[i - Len(s)]
  BY <1>1 DEF u
<1>5. Known(u) => Known(s) /\ Known(t)
  BY <1>2, <1>3 DEF Known
<1>6. Known(s) /\ Known(t) => Known(u)
  BY <1>4 DEF Known
<1> QED
  BY <1>5, <1>6 DEF u

\* Text arrives: what the harness has and what is on its way stays the same text.
LEMMA SafeReceive ==
  ASSUME SafeInv, TypeInv', KeepInv', Receive
  PROVE  SafeInv'
<1> USE DEF client, callers
<1>1. PICK n \in 1..Len(out) : /\ buf' = buf \o SubSeq(out, 1, n)
                               /\ out' = SubSeq(out, n + 1, Len(out))
  BY DEF Receive
<1>2. UNCHANGED <<client, callers, held, at, want, raw, fresh, link, rin, busy, rsafe, change, exposed>>
  BY DEF Receive
<1> DEFINE front == SubSeq(out, 1, n)
           back == SubSeq(out, n + 1, Len(out))
<1>3. out \in Seq(Text) /\ Known(out)
  BY DEF SafeInv, TextInv
<1>4. front \in Seq(Text) /\ back \in Seq(Text) /\ front \o back = out
  BY <1>3, SplitAt
<1> HIDE DEF front, back
<1>5. Known(front) /\ Known(back)
  BY <1>3, <1>4, KnownParts
<1>6. (Has(front, Taken) => Has(out, Taken)) /\ (Has(back, Taken) => Has(out, Taken))
  BY <1>4, HasConcat
<1>7. buf' = buf \o front /\ out' = back
  BY <1>1 DEF front, back
<1>8. ASSUME buf \in Seq(Text), Known(buf) PROVE buf' \in Seq(Text) /\ Known(buf) /\ Known(buf \o front)
  BY <1>4, <1>5, <1>7, <1>8, ConcatProperties, KnownParts
<1>9. OwnerInv' /\ KeysInv'
  BY <1>2 DEF SafeInv, OwnerInv, KeysInv, Known, Reading, Committing
<1>10. TextInv'
  BY <1>2, <1>4, <1>5, <1>7, <1>8 DEF SafeInv, TextInv, Known, Committing
<1>11. ProtectInv'
  <2>1. at = "taking" => stage = "entering" /\ buf \in Seq(Text)
    BY DEF SafeInv, OwnerInv, TextInv
  <2>2. ASSUME at = "taking", Has(buf', Taken) PROVE Has(buf, Taken) \/ Has(out, Taken)
    BY <1>4, <1>6, <1>7, <2>1, <2>2, HasConcat
  <2> QED
    BY <1>2, <1>6, <1>7, <2>1, <2>2 DEF SafeInv, ProtectInv, Protected, Committing
<1>12. ASSUME Committing PROVE Stream' = Stream
  <2>1. buf \in Seq(Text)
    BY <1>12 DEF SafeInv, TextInv
  <2>2. (buf \o front) \o back = buf \o (front \o back)
    <3>1. ASSUME NEW a \in Seq(Text), NEW b \in Seq(Text), NEW c \in Seq(Text)
          PROVE  (a \o b) \o c = a \o (b \o c)
      BY ConcatAssociative
    <3>2. front \in Seq(Text) /\ back \in Seq(Text)
      BY <1>4
    <3> QED
      BY <2>1, <3>1, <3>2
  <2> QED
    BY <1>4, <1>7, <2>2 DEF Stream
<1>13. ReleaseInv'
  <2>1. ASSUME Committing PROVE Underway' \/ Unsent' \/ Released'
    <3>1. Answered' = Answered /\ Evidence(Stream)' = Evidence(Stream)
      BY <1>2, <1>12, <2>1 DEF Answered, Evidence, FencedIn
    <3> QED
      BY <1>2, <2>1, <3>1 DEF SafeInv, ReleaseInv, Underway, Unsent, Released
  <2> QED
    BY <1>2, <2>1 DEF ReleaseInv, Committing
<1>14. ToldInv' /\ FreshInv'
  BY <1>2 DEF SafeInv, ToldInv, FreshInv
<1> QED
  BY <1>9, <1>10, <1>11, <1>13, <1>14 DEF SafeInv

LEMMA SafeStutter == ASSUME SafeInv, TypeInv', KeepInv', UNCHANGED vars PROVE SafeInv'
<1> USE DEF vars, client, frame, callers, router
<1>1. OwnerInv' /\ KeysInv' /\ TextInv'
  BY DEF SafeInv, OwnerInv, KeysInv, TextInv, Known, Reading, Committing
<1>2. ProtectInv' /\ ToldInv' /\ FreshInv'
  BY DEF SafeInv, ProtectInv, Protected, ToldInv, FreshInv, Committing
<1>3. ReleaseInv'
  BY DEF SafeInv, ReleaseInv, Committing, Underway, Unsent, Released, Answered, Stream, Evidence, FencedIn
<1> QED
  BY <1>1, <1>2, <1>3 DEF SafeInv

LEMMA SafeNext == CancelOp = FALSE /\ SafeInv /\ [Next]_vars => SafeInv'
<1> SUFFICES ASSUME CancelOp = FALSE, SafeInv, [Next]_vars PROVE SafeInv'
  OBVIOUS
<1>1. TypeInv' /\ KeepInv'
  BY TypeNext, KeepNext DEF SafeInv
<1>2. CASE EnterStep
  BY <1>1, <1>2, SafeEnterBegin, SafeEnterTaken, SafeEnterEnds DEF EnterStep
<1>3. CASE CommitStep
  BY <1>1, <1>3, SafeCommitBegin, SafeCommitReleased, SafeCommitEnds DEF CommitStep
<1>4. CASE HolderStep
  BY <1>1, <1>2, <1>3, <1>4, SafeReceive, SafeAgent, SafeClosing, SafeEnds DEF HolderStep
<1>5. CASE UNCHANGED vars
  BY <1>1, <1>5, SafeStutter
<1> QED
  BY <1>1, <1>4, <1>5, SafeCallers, SafeAgent, SafeRouter DEF Next

-------------------------------------------------------------------------------
(* The theorems.                                                              *)

LEMMA SafeAlways == CancelOp = FALSE /\ Spec => []SafeInv
<1> DEFINE Inv == CancelOp = FALSE /\ SafeInv
<1>1. CancelOp = FALSE /\ Init => Inv
  BY SafeInit
<1>2. Inv /\ [Next]_vars => Inv'
  BY SafeNext
<1>3. Inv => SafeInv
  OBVIOUS
<1> QED
  BY <1>1, <1>2, <1>3, PTL DEF Spec

LEMMA SafeProperties ==
  SafeInv => NoUnprotectedCommand /\ CommitIsKept /\ BeliefMatchesRouter
<1> SUFFICES ASSUME SafeInv PROVE NoUnprotectedCommand /\ CommitIsKept /\ BeliefMatchesRouter
  OBVIOUS
<1>1. NoUnprotectedCommand
  BY DEF SafeInv, KeysInv, NoUnprotectedCommand
<1>2. CommitIsKept
  BY DEF SafeInv, ToldInv, CommitIsKept
<1>3. BeliefMatchesRouter
  <2> SUFFICES ASSUME held = "free", alive, safe, link = "up" PROVE rsafe
    BY DEF BeliefMatchesRouter
  <2>1. at = "idle" /\ stage = "unlocked"
    BY DEF SafeInv, TypeInv, OwnerInv
  <2>2. Protected
    BY <2>1 DEF SafeInv, ProtectInv, Committing
  <2> QED
    BY <2>2 DEF Protected
<1> QED
  BY <1>1, <1>2, <1>3

\* No command the agent issued ever runs on the router outside Safe Mode, whatever is late,
\* lost or interleaved, as long as the operator's worker is not cancelled inside a call.
THEOREM NeverExposed == CancelOp = FALSE /\ Spec => []NoUnprotectedCommand
BY SafeAlways, SafeProperties, PTL

\* When commit_and_close returns True, RouterOS has released Safe Mode and keeps the
\* changes: the bare prompt before the marker's line is sufficient evidence.
THEOREM CommittedIsKept == CancelOp = FALSE /\ Spec => []CommitIsKept
BY SafeAlways, SafeProperties, PTL

\* Between two calls a live session that believes to own Safe Mode owns it on the router,
\* unless the link went down.
THEOREM BeliefIsTrue == CancelOp = FALSE /\ Spec => []BeliefMatchesRouter
BY SafeAlways, SafeProperties, PTL

-------------------------------------------------------------------------------
(* The contract.                                                              *)

Told == result["op"].status = "committed"
Asked == Has(decisions, "commit")

LEMMA ContractInit == Init => Contract!Init
<1> SUFFICES ASSUME Init PROVE Contract!Init
  OBVIOUS
<1>1. rsafe = FALSE /\ change = "none" /\ Asked = FALSE /\ Told = FALSE
  BY DEF Init, Asked, Told, Has, NoResult, Task
<1> QED
  BY <1>1 DEF Contract!Init, Asked, Told

\* A step that leaves the router's Safe Mode alone asks, tells, or is none of the contract's.
LEMMA ContractTells ==
  ASSUME SafeInv, SafeInv', UNCHANGED <<rsafe, change>>, Asked => Asked', Told => Told',
         Asked' = Asked \/ Told' = Told
  PROVE  [Contract!Next]_(Contract!vars)
<1>1. Told' => Asked' /\ ~rsafe /\ change \in {"none", "kept"}
  BY DEF SafeInv, ToldInv, Told, Asked
<1>2. {Told, Told', Asked, Asked'} \subseteq BOOLEAN
  BY DEF Told, Asked, Has
<1>3. CASE Asked' = Asked /\ Told' = Told
  BY <1>3 DEF Contract!vars, Told, Asked
<1>4. CASE Asked' = Asked /\ ~Told /\ Told'
  <2>1. Contract!Tell
    BY <1>1, <1>2, <1>4 DEF Contract!Tell, Told, Asked
  <2> QED
    BY <2>1 DEF Contract!Next
<1>5. CASE Told' = Told /\ ~Asked /\ Asked'
  <2>1. Contract!Ask
    BY <1>2, <1>5 DEF Contract!Ask, Told, Asked
  <2> QED
    BY <2>1 DEF Contract!Next
<1> QED
  BY <1>2, <1>3, <1>4, <1>5

\* A step of the callers' leaves the changes of the session and Safe Mode as they are.
LEMMA CallersQuiet ==
  ASSUME HolderStep \/ CancelHolder
  PROVE  UNCHANGED <<rsafe, change, decisions>> /\ (UNCHANGED callers \/ \E s, text : Leaves(s, text))
<1> USE DEF router, callers, Leaves, Closes
<1>1. CASE EnterStep
  BY <1>1 DEF EnterStep, EnterBegin, EnterTaken, EnterSettled, EnterFails, Send, SendFramed, Return
<1>2. CASE ExecuteStep
  BY <1>2 DEF ExecuteStep, ExecuteBegin, ExecuteReply, ExecuteLost, ExecuteTimeout, Send,
              SendFramed, Return
<1>3. CASE RecountStep \/ ResyncStep
  BY <1>3 DEF RecountStep, RefreshBegin, RecountDone, RecountFails, ResyncStep, ResyncDone,
              ResyncFails, Send, SendFramed, Return
<1>4. CASE CommitStep
  BY <1>4 DEF CommitStep, CommitBegin, CommitReleased, CommitConfirmed, CommitFails, Send,
              SendFramed, Return
<1>5. CASE Abort \/ RestoreStep \/ CloseEnds
  BY <1>5 DEF Abort, RestoreStep, RestoreBegin, RestorePut, RestoreAnswer, RestoreFails, CloseEnds,
              Send, Return
<1>6. CASE Receive \/ CancelHolder
  BY <1>6 DEF Receive, CancelHolder, Return
<1> QED
  BY <1>1, <1>2, <1>3, <1>4, <1>5, <1>6 DEF HolderStep

\* While the transport is closed the holder only waits for that.
LEMMA ClosingOnly ==
  ASSUME at = "closing", HolderStep
  PROVE  CloseEnds
<1> USE DEF Waiting, Reading
<1>1. ~EnterStep /\ ~ExecuteStep
  BY DEF EnterStep, EnterBegin, EnterTaken, EnterSettled, EnterFails, ExecuteStep, ExecuteBegin,
         ExecuteReply, ExecuteLost, ExecuteTimeout
<1>2. ~RecountStep /\ ~ResyncStep /\ ~Receive
  BY DEF RecountStep, RefreshBegin, RecountDone, RecountFails, ResyncStep, ResyncDone,
         ResyncFails, Receive
<1>3. ~CommitStep /\ ~Abort /\ ~RestoreStep
  BY DEF CommitStep, CommitBegin, CommitReleased, CommitConfirmed, CommitFails, Abort,
         RestoreStep, RestoreBegin, RestorePut, RestoreAnswer, RestoreFails
<1> QED
  BY <1>1, <1>2, <1>3 DEF HolderStep

\* What was told stays told: no call of the operator's follows.
LEMMA ContractHolder ==
  ASSUME CancelOp = FALSE, SafeInv, SafeInv', HolderStep \/ CancelHolder
  PROVE  [Contract!Next]_(Contract!vars)
<1>1. CASE held = "op" /\ at = "closing"
  <2>1. ~CancelHolder
    BY <1>1 DEF CancelHolder, MayCancel
  <2>2. CloseEnds
    BY <1>1, <2>1, ClosingOnly
  <2>3. result'["op"].status = result["op"].status
    BY <1>1, <2>2 DEF CloseEnds, Return, SafeInv, TypeInv, Task
  <2> QED
    BY <2>3, CallersQuiet, ContractTells DEF Told, Asked
<1>2. CASE ~(held = "op" /\ at = "closing")
  <2>1. ASSUME Told PROVE held # "op"
    BY <1>2, <2>1 DEF SafeInv, ToldInv, Told, TypeInv, Task
  <2>2. ASSUME NEW s, NEW text, Leaves(s, text), held # "op" PROVE result'["op"] = result["op"]
    BY <2>2 DEF Leaves, Return, Closes, SafeInv, TypeInv, Task
  <2>3. Told => Told'
    BY <2>1, <2>2, CallersQuiet DEF Told, callers
  <2> QED
    BY <2>3, CallersQuiet, ContractTells DEF Asked
<1> QED
  BY <1>1, <1>2

LEMMA ContractCallers ==
  ASSUME CancelOp = FALSE, SafeInv, SafeInv',
         \/ CallEnter
         \/ \E c \in AgentCalls : CallAgent(c)
         \/ \E c \in OpCalls : CallOp(c)
         \/ RestoreRefused
         \/ \E t \in Task : Acquire(t) \/ CancelWaiter(t)
  PROVE  [Contract!Next]_(Contract!vars)
<1>1. UNCHANGED <<rsafe, change>>
  BY DEF CallEnter, CallAgent, CallOp, RestoreRefused, Acquire, CancelWaiter, router
<1>2. Told' = Told
  <2>1. ASSUME NEW t \in Task, CancelWaiter(t) PROVE t = "agent" /\ result'["op"] = result["op"]
    BY <2>1 DEF CancelWaiter, MayCancel, Task, SafeInv, TypeInv
  <2>2. CASE RestoreRefused
    <3>1. result'["op"].status = "raised"
      BY <2>2 DEF RestoreRefused, NoResult, Task, SafeInv, TypeInv
    <3> QED
      BY <2>2, <3>1 DEF RestoreRefused, SafeInv, ToldInv, Told
  <2> QED
    BY <2>1, <2>2 DEF CallEnter, CallAgent, CallOp, Acquire, callers, Told
<1>3. Asked => Asked'
  <2>1. ASSUME NEW c \in OpCalls, decisions' = Append(decisions, c), Asked PROVE Asked'
    BY <2>1, AppendProperties DEF Asked, Has, SafeInv, TypeInv
  <2>2. "restore" \in OpCalls
    BY DEF OpCalls
  <2> QED
    BY <2>1, <2>2 DEF CallEnter, CallAgent, CallOp, RestoreRefused, Acquire, CancelWaiter, callers, Asked
<1> QED
  BY <1>1, <1>2, <1>3, ContractTells DEF Told

LEMMA ContractRouter ==
  ASSUME SafeInv, SafeInv', RouterStep \/ LinkDrops \/ RouterNotices
  PROVE  [Contract!Next]_(Contract!vars)
<1>1. UNCHANGED <<Told, Asked>> /\ {Told, Asked} \subseteq BOOLEAN
  BY DEF RouterStep, RouterTakes, RouterFinishes, RouterInterrupted, RouterEnds,
         LinkDrops, RouterNotices, callers, Told, Asked, Has
<1>2. rsafe \in BOOLEAN
  BY DEF SafeInv, TypeInv, TypeOK
<1>3. CASE UNCHANGED <<rsafe, change>>
  BY <1>1, <1>3 DEF Contract!vars, Told, Asked
<1>4. ASSUME NEW c, RouterTakes, RouterCommand(c) PROVE [Contract!Next]_(Contract!vars)
  <2>1. CASE rsafe /\ change = "none" /\ change' = "floating"
    <3>1. Contract!Change
      BY <1>1, <1>4, <2>1 DEF Contract!Change, RouterCommand, Told, Asked
    <3> QED
      BY <3>1 DEF Contract!Next
  <2> QED
    BY <1>3, <1>4, <2>1 DEF RouterCommand, Effect
<1>5. ASSUME NEW foreign \in BOOLEAN, RouterTakes, RouterToggle(foreign)
      PROVE  [Contract!Next]_(Contract!vars)
  <2>1. Has(rin, CtrlX)
    <3>1. rin # <<>> /\ rin' = SubSeq(rin, 2, Len(rin)) /\ rin[1] = CtrlX
      BY <1>5 DEF RouterTakes, RouterToggle
    <3> QED
      BY <3>1, TakesFirst DEF Has
  <2>2. CASE rsafe = TRUE
    <3>1. Asked
      BY <2>1, <2>2 DEF SafeInv, KeepInv, Unasked, Asked
    <3>2. Contract!Keep
      BY <1>1, <1>5, <2>2, <3>1 DEF Contract!Keep, RouterToggle, Told, Asked
    <3> QED
      BY <3>2 DEF Contract!Next
  <2>3. CASE rsafe = FALSE /\ rsafe' = TRUE
    <3>1. change = "none" /\ ~Told /\ change' = change
      BY <1>5, <2>1, <2>3 DEF SafeInv, KeysInv, ToldInv, Told, RouterToggle
    <3>2. Contract!Protect
      BY <1>1, <2>3, <3>1 DEF Contract!Protect, Told, Asked
    <3> QED
      BY <3>2 DEF Contract!Next
  <2> QED
    BY <1>2, <1>3, <1>5, <2>2, <2>3 DEF RouterToggle
<1>6. CASE rsafe' = FALSE /\ change' = Undone
  <2>1. CASE rsafe = TRUE
    <3>1. Contract!Unroll
      BY <1>1, <1>6, <2>1 DEF Contract!Unroll, Undone, Told, Asked
    <3> QED
      BY <3>1 DEF Contract!Next
  <2>2. CASE rsafe = FALSE
    BY <1>3, <1>6, <2>2 DEF SafeInv, KeysInv, Undone
  <2> QED
    BY <1>2, <2>1, <2>2
<1>7. CASE RouterTakes /\ RouterEcho
  BY <1>3, <1>7 DEF RouterEcho
<1>8. CASE RouterFinishes \/ RouterInterrupted \/ LinkDrops
  BY <1>3, <1>8 DEF RouterFinishes, RouterInterrupted, LinkDrops
<1>9. CASE RouterEnds \/ RouterNotices
  BY <1>6, <1>9 DEF RouterEnds, RouterNotices
<1> QED
  BY <1>4, <1>5, <1>7, <1>8, <1>9 DEF RouterStep, RouterTakes

LEMMA ContractNext ==
  CancelOp = FALSE /\ SafeInv /\ SafeInv' /\ [Next]_vars => [Contract!Next]_(Contract!vars)
<1> SUFFICES ASSUME CancelOp = FALSE, SafeInv, SafeInv', [Next]_vars
             PROVE  [Contract!Next]_(Contract!vars)
  OBVIOUS
<1>1. CASE UNCHANGED vars
  BY <1>1 DEF vars, router, callers, Contract!vars
<1> QED
  BY <1>1, ContractHolder, ContractCallers, ContractRouter DEF Next

\* The session implements what the operator is promised: every change is made while RouterOS
\* can unroll it, it becomes permanent only after the operator asked, and "committed" is
\* reported only of changes that are.
THEOREM ContractHolds == CancelOp = FALSE /\ Spec => ImplementsContract
<1> DEFINE Inv == CancelOp = FALSE /\ SafeInv
<1>1. CancelOp = FALSE /\ Init => Inv
  BY SafeInit
<1>2. Inv /\ [Next]_vars => Inv'
  BY SafeNext
<1>3. Inv /\ Inv' /\ [Next]_vars => [Contract!Next]_(Contract!vars)
  BY ContractNext
<1> QED
  BY <1>1, <1>2, <1>3, ContractInit, PTL DEF Spec, ImplementsContract, Contract!Spec

-------------------------------------------------------------------------------
(* A reply holds the output of its own command.  Whatever the operator does to  *)
(* his own worker, as long as the agent's is not cancelled inside a call.       *)

Token == {"head", "safe", "taken", "hijack", "ask", "out", "mark", "cmd", "ctrlX", "ctrlC",
          "ctrlCD", "load", "yes"} \X Nat
Noisy == {"out", "cmd"}

\* Of a piece of text or a row of keystrokes: it has no output and no command; none but
\* those of c; none behind marker w; and no marker beyond the n-th.
Silent(s)     == \A i \in 1..Len(s) : s[i][1] \notin Noisy
OnlyOf(s, c)  == \A i \in 1..Len(s) : s[i][1] \in Noisy => s[i][2] = c
Clears(s, w)  == \A i, j \in 1..Len(s) : i < j /\ s[i] = Mark(w) => s[j][1] \notin Noisy
MarksTo(s, n) == \A i \in 1..Len(s) : s[i][1] = "mark" => s[i][2] <= n

\* Nothing follows marker w in text o, once the answers to keys r are added to it.
EndsAt(o, r, w) == Clears(o, w) /\ Clears(r, w) /\ (Has(o, Mark(w)) => Silent(r))

\* The agent reads up to its marker.
Answering == at \in {"reply", "resync", "recount"}

LineInv ==
  /\ pending \in Seq(Token) /\ buf \in Seq(Token) /\ out \in Seq(Token) /\ rin \in Seq(Token)
  /\ MarksTo(pending, fresh) /\ MarksTo(buf, fresh) /\ MarksTo(out, fresh) /\ MarksTo(rin, fresh)

ReaderInv ==
  /\ Answering => held = "agent"
  /\ at \in Reading /\ ~Answering => held = "op"
  /\ at = "reply" => call["agent"] = "execute"

\* No output is left over when no call of the agent's is being answered, unless its channel
\* was closed.
SilenceInv ==
  alive /\ ~Answering => Silent(pending) /\ Silent(buf) /\ Silent(out) /\ Silent(rin)

\* Nothing follows the marker that is waited for.
FenceInv ==
  Answering =>
    /\ Clears(buf, want) /\ EndsAt(out, rin, want)
    /\ Has(buf, Mark(want)) => Silent(out) /\ Silent(rin)

\* Up to it, there is only what belongs to the call.
MineInv ==
  /\ at = "reply" => OnlyOf(buf, calls) /\ OnlyOf(out, calls) /\ OnlyOf(rin, calls)
  /\ at = "recount" /\ call["agent"] = "execute" => raw \in Seq(Token) /\ OnlyOf(raw, calls)
  /\ at = "closing" /\ held = "agent" => result["agent"].cmd = calls

OwnInv == /\ TypeInv /\ LineInv /\ ReaderInv /\ SilenceInv /\ FenceInv /\ MineInv
          /\ OwnOutputOnly

LEMMA LeastNatural ==
  ASSUME NEW T, T \subseteq Nat, T # {}
  PROVE  \E n \in T : \A m \in T : ~(m < n)
<1> DEFINE Less == OpToRel(<, Nat)
<1>1. IsWellFoundedOn(Less, Nat)
  BY NatLessThanWellFounded
<1>2. \A m, n \in Nat : m < n => <<m, n>> \in Less
  BY DEF OpToRel
<1> HIDE DEF Less
<1>3. \E n \in T : \A m \in T : <<m, n>> \notin Less
  BY <1>1, WFMin
<1> QED
  BY <1>2, <1>3

LEMMA LineEmpty ==
  /\ <<>> \in Seq(Token) /\ Silent(<<>>) /\ \A x : ~Has(<<>>, x)
  /\ \A n : OnlyOf(<<>>, n) /\ Clears(<<>>, n) /\ MarksTo(<<>>, n)
BY DEF Silent, OnlyOf, Clears, MarksTo, Has

LEMMA LineOne ==
  ASSUME NEW x \in Token
  PROVE  /\ <<x>> \in Seq(Token) /\ (Silent(<<x>>) <=> x[1] \notin Noisy)
         /\ \A n : /\ OnlyOf(<<x>>, n) <=> (x[1] \in Noisy => x[2] = n)
                   /\ Clears(<<x>>, n)
                   /\ MarksTo(<<x>>, n) <=> (x[1] = "mark" => x[2] <= n)
<1>1. <<x>> \in Seq(Token) /\ Len(<<x>>) = 1 /\ <<x>>[1] = x
  OBVIOUS
<1> DEFINE s == <<x>>
<1> HIDE DEF s
<1>2. s \in Seq(Token) /\ Len(s) = 1 /\ s[1] = x
  BY <1>1 DEF s
<1>3. Silent(s) <=> x[1] \notin Noisy
  BY <1>2 DEF Silent
<1>4. \A n : OnlyOf(s, n) <=> (x[1] \in Noisy => x[2] = n)
  BY <1>2 DEF OnlyOf
<1>5. \A n : Clears(s, n)
  BY <1>2 DEF Clears
<1>6. \A n : MarksTo(s, n) <=> (x[1] = "mark" => x[2] <= n)
  BY <1>2 DEF MarksTo
<1> QED
  BY <1>2, <1>3, <1>4, <1>5, <1>6 DEF s

LEMMA LineParts ==
  ASSUME NEW s \in Seq(Token), NEW t \in Seq(Token)
  PROVE  /\ s \o t \in Seq(Token)
         /\ Silent(s \o t) <=> Silent(s) /\ Silent(t)
         /\ \A n : OnlyOf(s \o t, n) <=> OnlyOf(s, n) /\ OnlyOf(t, n)
         /\ \A n : MarksTo(s \o t, n) <=> MarksTo(s, n) /\ MarksTo(t, n)
         /\ \A n : Clears(s \o t, n) <=> /\ Clears(s, n) /\ Clears(t, n)
                                         /\ Has(s, Mark(n)) => Silent(t)
         /\ \A x : Has(s \o t, x) <=> Has(s, x) \/ Has(t, x)
<1> DEFINE u == s \o t
<1>1. /\ u \in Seq(Token) /\ Len(u) = Len(s) + Len(t) /\ Len(s) \in Nat /\ Len(t) \in Nat
      /\ \A i \in 1..(Len(s) + Len(t)) : u[i] = IF i <= Len(s) THEN s[i] ELSE t[i - Len(s)]
  BY ConcatProperties, LenProperties
<1>2. \A x : Has(u, x) <=> Has(s, x) \/ Has(t, x)
  BY HasConcat
<1> HIDE DEF u
<1>3. \A i \in 1..Len(s) : i \in 1..Len(u) /\ u[i] = s[i]
  BY <1>1
<1>4. ASSUME NEW i \in 1..Len(t)
      PROVE  Len(s) + i \in 1..Len(u) /\ u[Len(s) + i] = t[i]
  <2>1. Len(s) + i \in 1..(Len(s) + Len(t)) /\ ~(Len(s) + i <= Len(s)) /\ Len(s) + i - Len(s) = i
    BY <1>1
  <2> QED
    BY <1>1, <2>1
<1>5. ASSUME NEW i \in 1..Len(u)
      PROVE  \/ i \in 1..Len(s) /\ u[i] = s[i]
             \/ i > Len(s) /\ i - Len(s) \in 1..Len(t) /\ u[i] = t[i - Len(s)]
  BY <1>1
<1>6. Silent(u) <=> Silent(s) /\ Silent(t)
  BY <1>3, <1>4, <1>5 DEF Silent
<1>7. ASSUME NEW n PROVE OnlyOf(u, n) <=> OnlyOf(s, n) /\ OnlyOf(t, n)
  <2>1. OnlyOf(u, n) => OnlyOf(s, n) /\ OnlyOf(t, n)
    BY <1>3, <1>4 DEF OnlyOf
  <2>2. OnlyOf(s, n) /\ OnlyOf(t, n) => OnlyOf(u, n)
    BY <1>5 DEF OnlyOf
  <2> QED
    BY <2>1, <2>2
<1>8. ASSUME NEW n PROVE MarksTo(u, n) <=> MarksTo(s, n) /\ MarksTo(t, n)
  <2>1. MarksTo(u, n) => MarksTo(s, n) /\ MarksTo(t, n)
    BY <1>3, <1>4 DEF MarksTo
  <2>2. MarksTo(s, n) /\ MarksTo(t, n) => MarksTo(u, n)
    BY <1>5 DEF MarksTo
  <2> QED
    BY <2>1, <2>2
<1>9. ASSUME NEW n, Clears(u, n)
      PROVE  Clears(s, n) /\ Clears(t, n) /\ (Has(s, Mark(n)) => Silent(t))
  <2>1. Clears(s, n)
    BY <1>3, <1>9 DEF Clears
  <2>2. ASSUME NEW i \in 1..Len(t), NEW j \in 1..Len(t), i < j, t[i] = Mark(n)
        PROVE  t[j][1] \notin Noisy
    <3>1. Len(s) + i < Len(s) + j
      BY <1>1, <2>2
    <3>2. /\ Len(s) + i \in 1..Len(u) /\ u[Len(s) + i] = Mark(n)
          /\ Len(s) + j \in 1..Len(u) /\ u[Len(s) + j] = t[j]
      BY <1>4, <2>2
    <3>3. u[Len(s) + j][1] \notin Noisy
      BY <1>9, <3>1, <3>2 DEF Clears
    <3> QED
      BY <3>2, <3>3
  <2>3. ASSUME NEW i \in 1..Len(s), s[i] = Mark(n), NEW j \in 1..Len(t)
        PROVE  t[j][1] \notin Noisy
    <3>1. i < Len(s) + j
      BY <1>1, <2>3
    <3>2. /\ i \in 1..Len(u) /\ u[i] = Mark(n)
          /\ Len(s) + j \in 1..Len(u) /\ u[Len(s) + j] = t[j]
      BY <1>3, <1>4, <2>3
    <3>3. u[Len(s) + j][1] \notin Noisy
      BY <1>9, <3>1, <3>2 DEF Clears
    <3> QED
      BY <3>2, <3>3
  <2> QED
    BY <2>1, <2>2, <2>3 DEF Clears, Silent, Has
<1>10. ASSUME NEW n, Clears(s, n), Clears(t, n), Has(s, Mark(n)) => Silent(t)
       PROVE  Clears(u, n)
  <2> SUFFICES ASSUME NEW i \in 1..Len(u), NEW j \in 1..Len(u), i < j, u[i] = Mark(n)
               PROVE  u[j][1] \notin Noisy
    BY DEF Clears
  <2>1. CASE j <= Len(s)
    BY <1>1, <1>5, <1>10, <2>1 DEF Clears
  <2>2. CASE i <= Len(s) /\ j > Len(s)
    <3>1. Has(s, Mark(n)) /\ j - Len(s) \in 1..Len(t) /\ u[j] = t[j - Len(s)]
      BY <1>1, <1>5, <2>2 DEF Has
    <3> QED
      BY <1>10, <3>1 DEF Silent
  <2>3. CASE i > Len(s) /\ j > Len(s)
    <3>1. /\ i - Len(s) \in 1..Len(t) /\ u[i] = t[i - Len(s)]
          /\ j - Len(s) \in 1..Len(t) /\ u[j] = t[j - Len(s)] /\ i - Len(s) < j - Len(s)
      BY <1>1, <1>5, <2>3
    <3> QED
      BY <1>10, <3>1 DEF Clears
  <2> QED
    BY <1>1, <2>1, <2>2, <2>3
<1> QED
  BY <1>1, <1>2, <1>6, <1>7, <1>8, <1>9, <1>10 DEF u

LEMMA LineThin ==
  ASSUME NEW s \in Seq(Token), NEW t \in Seq(Token), Thins(t, s)
  PROVE  /\ Silent(s) => Silent(t)
         /\ \A n : OnlyOf(s, n) => OnlyOf(t, n)
         /\ \A n : MarksTo(s, n) => MarksTo(t, n)
         /\ \A n : Clears(s, n) => Clears(t, n)
<1> PICK f \in [1..Len(t) -> 1..Len(s)] :
         /\ \A i \in 1..Len(t) : t[i] = s[f[i]]
         /\ \A i, j \in 1..Len(t) : i < j => f[i] < f[j]
  BY DEF Thins
<1>1. \A i \in 1..Len(t) : f[i] \in 1..Len(s)
  OBVIOUS
<1>2. Silent(s) => Silent(t)
  BY <1>1 DEF Silent
<1>3. \A n : OnlyOf(s, n) => OnlyOf(t, n)
  BY <1>1 DEF OnlyOf
<1>4. \A n : MarksTo(s, n) => MarksTo(t, n)
  BY <1>1 DEF MarksTo
<1>5. \A n : Clears(s, n) => Clears(t, n)
  BY <1>1 DEF Clears
<1> QED
  BY <1>2, <1>3, <1>4, <1>5

LEMMA LinePrompt ==
  ASSUME NEW b \in BOOLEAN
  PROVE  /\ Prompt(b) \in Seq(Token) /\ Silent(Prompt(b))
         /\ \A n : OnlyOf(Prompt(b), n) /\ Clears(Prompt(b), n) /\ MarksTo(Prompt(b), n)
         /\ \A n : ~Has(Prompt(b), Mark(n))
<1> DEFINE s == Prompt(b)
<1>1. s \in Seq(Token) /\ \A i \in 1..Len(s) : s[i][1] \in {"head", "safe"}
  <2>1. Head0 \in Token /\ SafeTail \in Token /\ Head0[1] = "head" /\ SafeTail[1] = "safe"
    BY DEF Head0, SafeTail, Token
  <2>2. CASE b
    <3>1. s = <<Head0, SafeTail>>
      BY <2>2 DEF Prompt
    <3> QED
      BY <2>1, <3>1
  <2>3. CASE ~b
    <3>1. s = <<Head0>>
      BY <2>3 DEF Prompt
    <3> QED
      BY <2>1, <3>1
  <2> QED
    BY <2>2, <2>3
<1> HIDE DEF s
<1>2. Silent(s) /\ \A n : OnlyOf(s, n) /\ Clears(s, n) /\ MarksTo(s, n)
  BY <1>1 DEF Silent, OnlyOf, Clears, MarksTo, Noisy
<1>3. \A n : ~Has(s, Mark(n))
  BY <1>1 DEF Has, Mark
<1> QED
  BY <1>1, <1>2, <1>3 DEF s

\* What a frame leaves in front of its marker, and behind it.
LEMMA LineSplit ==
  ASSUME NEW s \in Seq(Token), NEW w, Has(s, Mark(w))
  PROVE  /\ Before(s, Mark(w)) \in Seq(Token) /\ After(s, Mark(w)) \in Seq(Token)
         /\ \A n : OnlyOf(s, n) => OnlyOf(Before(s, Mark(w)), n)
         /\ \A n : MarksTo(s, n) => MarksTo(After(s, Mark(w)), n)
         /\ Clears(s, w) => Silent(After(s, Mark(w)))
<1> DEFINE i == CHOOSE j \in 1..Len(s) : s[j] = Mark(w) /\ \A k \in 1..(j - 1) : s[k] # Mark(w)
<1>0. Len(s) \in Nat
  OBVIOUS
<1>1. \E j \in 1..Len(s) : s[j] = Mark(w) /\ \A k \in 1..(j - 1) : s[k] # Mark(w)
  <2> DEFINE T == {j \in 1..Len(s) : s[j] = Mark(w)}
  <2>1. T \subseteq Nat /\ T # {}
    BY <1>0 DEF Has
  <2>2. PICK j \in T : \A k \in T : ~(k < j)
    <3> HIDE DEF T
    <3> QED
      BY <2>1, LeastNatural
  <2>3. \A k \in 1..(j - 1) : s[k] # Mark(w)
    BY <1>0, <2>2
  <2> QED
    BY <2>2, <2>3
<1>2. i \in 1..Len(s) /\ s[i] = Mark(w)
  BY <1>1
<1>3. Before(s, Mark(w)) = SubSeq(s, 1, i - 1)
  BY DEF Before
<1> HIDE DEF i
<1>4. /\ SubSeq(s, 1, i - 1) \in Seq(Token) /\ Len(SubSeq(s, 1, i - 1)) = i - 1
      /\ \A j \in 1..(i - 1) : SubSeq(s, 1, i - 1)[j] = s[j]
  <2>1. i - 1 \in Nat /\ \A j \in 1..(i - 1) : s[j] \in Token
    BY <1>0, <1>2
  <2> QED
    BY <2>1, SubSeqProperties
<1>5. After(s, Mark(w)) = SubSeq(s, i + 1, Len(s))
  <2>1. i - 1 + 2 = i + 1
    BY <1>0, <1>2
  <2> QED
    BY <1>3, <1>4, <2>1 DEF After
<1> DEFINE a == SubSeq(s, i + 1, Len(s))
<1>6. a \in Seq(Token) /\ Len(a) = Len(s) - i /\ \A j \in 1..(Len(s) - i) : a[j] = s[i + j]
  BY <1>0, <1>2, SubSeqProperties
<1> HIDE DEF a
<1>7. Thins(SubSeq(s, i + 1, Len(s)), s)
  BY <1>0, <1>2, ThinTail
<1>8. \A n : MarksTo(s, n) => MarksTo(a, n)
  BY <1>6, <1>7, LineThin DEF a
<1>9. \A n : OnlyOf(s, n) => OnlyOf(SubSeq(s, 1, i - 1), n)
  <2> DEFINE b == SubSeq(s, 1, i - 1)
  <2>1. Len(b) = i - 1 /\ \A j \in 1..(i - 1) : b[j] = s[j] /\ j \in 1..Len(s)
    BY <1>0, <1>2, <1>4
  <2> HIDE DEF b
  <2>2. \A n : OnlyOf(s, n) => OnlyOf(b, n)
    BY <2>1 DEF OnlyOf
  <2> QED
    BY <2>2 DEF b
<1>10. Clears(s, w) => Silent(a)
  <2>1. ASSUME Clears(s, w), NEW j \in 1..Len(a)
        PROVE  a[j][1] \notin Noisy
    <3>1. i + j \in 1..Len(s) /\ i < i + j /\ a[j] = s[i + j]
      BY <1>0, <1>2, <1>6
    <3> QED
      BY <1>2, <2>1, <3>1 DEF Clears
  <2> QED
    BY <2>1 DEF Silent
<1> QED
  BY <1>3, <1>4, <1>5, <1>6, <1>8, <1>9, <1>10 DEF a

LEMMA LineTokens ==
  /\ Key \subseteq Token /\ \A s \in Seq(Key) : s \in Seq(Token)
  /\ {Head0, SafeTail, Taken, Hijack, Ask, CtrlX, CtrlC, CtrlCD, Load, Yes} \subseteq Token
  /\ \A x \in {Taken, Hijack, Ask, CtrlX, CtrlC, CtrlCD, Load, Yes} :
       x[1] \notin Noisy \cup {"mark"} /\ \A n : x # Mark(n)
  /\ \A n \in Nat : Mark(n) \in Token /\ Cmd(n) \in Token /\ Out(n) \in Token
  /\ \A n : /\ Mark(n)[1] = "mark" /\ Mark(n)[2] = n /\ Cmd(n)[1] = "cmd" /\ Cmd(n)[2] = n
            /\ Out(n)[1] = "out" /\ Out(n)[2] = n
<1>1. Key \subseteq Token
  BY DEF Key, Token
<1>2. \A s \in Seq(Key) : s \in Seq(Token)
  BY <1>1
<1>3. {Head0, SafeTail, Taken, Hijack, Ask, CtrlX, CtrlC, CtrlCD, Load, Yes} \subseteq Token
  BY DEF Head0, SafeTail, Taken, Hijack, Ask, CtrlX, CtrlC, CtrlCD, Load, Yes, Token
<1>4. \A x \in {Taken, Hijack, Ask, CtrlX, CtrlC, CtrlCD, Load, Yes} :
        x[1] \notin Noisy \cup {"mark"} /\ \A n : x # Mark(n)
  BY DEF Taken, Hijack, Ask, CtrlX, CtrlC, CtrlCD, Load, Yes, Noisy, Mark
<1>5. \A n \in Nat : Mark(n) \in Token /\ Cmd(n) \in Token /\ Out(n) \in Token
  BY DEF Mark, Cmd, Out, Token
<1>6. \A n : /\ Mark(n)[1] = "mark" /\ Mark(n)[2] = n /\ Cmd(n)[1] = "cmd" /\ Cmd(n)[2] = n
             /\ Out(n)[1] = "out" /\ Out(n)[2] = n
  BY DEF Mark, Cmd, Out
<1> QED
  BY <1>1, <1>2, <1>3, <1>4, <1>5, <1>6

LEMMA OwnInit == Init => OwnInv
<1> SUFFICES ASSUME Init PROVE OwnInv
  OBVIOUS
<1>1. pending = <<>> /\ buf = <<>> /\ out = <<>> /\ rin = <<>> /\ at = "idle" /\ held = "free"
  BY DEF Init
<1>2. LineInv /\ SilenceInv
  BY <1>1, LineEmpty DEF LineInv, SilenceInv
<1>3. ReaderInv /\ FenceInv /\ MineInv
  BY <1>1 DEF ReaderInv, FenceInv, MineInv, Answering, Reading
<1>4. OwnOutputOnly
  BY DEF Init, OwnOutputOnly, NoResult, Task
<1> QED
  BY <1>2, <1>3, <1>4, TypeInit DEF OwnInv

\* What the router does to the line: what it takes from rin, it answers in out.
LEMMA LineMoves ==
  ASSUME OwnInv, TypeInv', UNCHANGED <<client, frame, callers>>,
         out' \in Seq(Token), rin' \in Seq(Token), MarksTo(out', fresh), MarksTo(rin', fresh),
         Silent(out) /\ Silent(rin) => Silent(out') /\ Silent(rin'),
         OnlyOf(out, calls) /\ OnlyOf(rin, calls) => OnlyOf(out', calls) /\ OnlyOf(rin', calls),
         EndsAt(out, rin, want) => EndsAt(out', rin', want)
  PROVE  OwnInv'
<1>1. /\ alive' = alive /\ pending' = pending /\ held' = held /\ at' = at /\ want' = want
      /\ buf' = buf /\ raw' = raw /\ fresh' = fresh /\ call' = call /\ result' = result
      /\ calls' = calls
  BY DEF client, frame, callers
<1>2. LineInv'
  BY <1>1 DEF OwnInv, LineInv
<1>3. ReaderInv' /\ OwnOutputOnly'
  BY <1>1 DEF OwnInv, ReaderInv, OwnOutputOnly, Answering
<1>4. SilenceInv'
  BY <1>1 DEF OwnInv, SilenceInv, Answering
<1>5. FenceInv'
  BY <1>1 DEF OwnInv, FenceInv, Answering
<1>6. MineInv'
  BY <1>1 DEF OwnInv, MineInv
<1> QED
  BY <1>2, <1>3, <1>4, <1>5, <1>6 DEF OwnInv

\* The router takes key x and answers it.
LEMMA LineAnswer ==
  ASSUME OwnInv, TypeInv', UNCHANGED <<client, frame, callers>>,
         rin # <<>>, rin' = SubSeq(rin, 2, Len(rin)),
         NEW answer \in Seq(Token), out' = out \o answer,
         rin[1][1] \notin Noisy => Silent(answer),
         \A n : (rin[1][1] \in Noisy => rin[1][2] = n) => OnlyOf(answer, n),
         \A n : Clears(answer, n), \A n : Has(answer, Mark(n)) => rin[1] = Mark(n),
         \A n : (rin[1][1] = "mark" => rin[1][2] <= n) => MarksTo(answer, n)
  PROVE  OwnInv'
<1> DEFINE x == rin[1]
           rest == SubSeq(rin, 2, Len(rin))
<1>1. rin \in Seq(Token) /\ 1 \in 1..Len(rin) /\ out \in Seq(Token)
  BY EmptySeq DEF OwnInv, LineInv
<1>2. x \in Token /\ rest \in Seq(Token) /\ rin = <<x>> \o rest
  <2>1. SubSeq(rin, 1, 1) \o SubSeq(rin, 1 + 1, Len(rin)) = rin /\ SubSeq(rin, 1 + 1, Len(rin)) \in Seq(Token)
    BY <1>1, SplitAt
  <2>2. SubSeq(rin, 1, 1) = <<rin[1]>>
    <3> DEFINE a == SubSeq(rin, 1, 1)
               b == <<rin[1]>>
    <3>1. 1 \in Int /\ \A i \in 1..1 : rin[i] \in Token
      BY <1>1
    <3>2. a \in Seq(Token) /\ Len(a) = 1 /\ a[1] = rin[1]
      BY <3>1, SubSeqProperties
    <3>3. b \in Seq(Token) /\ Len(b) = 1 /\ b[1] = rin[1]
      BY <1>1
    <3> HIDE DEF a, b
    <3>4. a = b
      BY <3>2, <3>3, SeqEqual
    <3> QED
      BY <3>4 DEF a, b
  <2>3. 1 + 1 = 2
    OBVIOUS
  <2> QED
    BY <1>1, <2>1, <2>2, <2>3
<1>3. rin' = rest
  OBVIOUS
<1> HIDE DEF rest
<1>4. /\ <<x>> \in Seq(Token) /\ (Silent(<<x>>) <=> x[1] \notin Noisy)
      /\ \A n : /\ OnlyOf(<<x>>, n) <=> (x[1] \in Noisy => x[2] = n)
                /\ MarksTo(<<x>>, n) <=> (x[1] = "mark" => x[2] <= n)
      /\ \A y : Has(<<x>>, y) <=> x = y
  BY <1>2, LineOne, HasOne
<1> HIDE DEF x
<1>5. /\ Silent(rin) <=> Silent(<<x>>) /\ Silent(rest)
      /\ \A n : OnlyOf(rin, n) <=> OnlyOf(<<x>>, n) /\ OnlyOf(rest, n)
      /\ \A n : MarksTo(rin, n) <=> MarksTo(<<x>>, n) /\ MarksTo(rest, n)
      /\ \A n : Clears(rin, n) => Clears(rest, n) /\ (Has(<<x>>, Mark(n)) => Silent(rest))
  BY <1>2, <1>4, LineParts
<1>6. /\ out' \in Seq(Token)
      /\ Silent(out') <=> Silent(out) /\ Silent(answer)
      /\ \A n : OnlyOf(out', n) <=> OnlyOf(out, n) /\ OnlyOf(answer, n)
      /\ \A n : MarksTo(out', n) <=> MarksTo(out, n) /\ MarksTo(answer, n)
      /\ \A n : Clears(out', n) <=> /\ Clears(out, n) /\ Clears(answer, n)
                                    /\ Has(out, Mark(n)) => Silent(answer)
      /\ \A y : Has(out', y) <=> Has(out, y) \/ Has(answer, y)
  BY <1>1, LineParts
<1>7. /\ Silent(<<x>>) => Silent(answer)
      /\ \A n : OnlyOf(<<x>>, n) => OnlyOf(answer, n)
      /\ \A n : Has(answer, Mark(n)) => Has(<<x>>, Mark(n))
      /\ \A n : MarksTo(<<x>>, n) => MarksTo(answer, n)
  BY <1>4 DEF x
<1>8. MarksTo(out', fresh) /\ MarksTo(rin', fresh)
  BY <1>3, <1>5, <1>6, <1>7 DEF OwnInv, LineInv
<1>9. Silent(out) /\ Silent(rin) => Silent(out') /\ Silent(rin')
  BY <1>3, <1>5, <1>6, <1>7
<1>10. OnlyOf(out, calls) /\ OnlyOf(rin, calls) => OnlyOf(out', calls) /\ OnlyOf(rin', calls)
  BY <1>3, <1>5, <1>6, <1>7
<1>11. EndsAt(out, rin, want) => EndsAt(out', rin', want)
  BY <1>3, <1>5, <1>6, <1>7 DEF EndsAt
<1> QED
  BY <1>2, <1>3, <1>6, <1>8, <1>9, <1>10, <1>11, LineMoves

\* What a prompt is added to stays as it was.
LEMMA LineThenPrompt ==
  ASSUME NEW s \in Seq(Token), NEW b \in BOOLEAN
  PROVE  /\ s \o Prompt(b) \in Seq(Token)
         /\ Silent(s \o Prompt(b)) <=> Silent(s)
         /\ \A n : OnlyOf(s \o Prompt(b), n) <=> OnlyOf(s, n)
         /\ \A n : MarksTo(s \o Prompt(b), n) <=> MarksTo(s, n)
         /\ \A n : Clears(s \o Prompt(b), n) <=> Clears(s, n)
         /\ \A n : Has(s \o Prompt(b), Mark(n)) <=> Has(s, Mark(n))
<1>1. /\ Prompt(b) \in Seq(Token) /\ Silent(Prompt(b))
      /\ \A n : OnlyOf(Prompt(b), n) /\ Clears(Prompt(b), n) /\ MarksTo(Prompt(b), n)
      /\ \A n : ~Has(Prompt(b), Mark(n))
  BY LinePrompt
<1> QED
  BY <1>1, LineParts

LEMMA OwnTakes ==
  ASSUME OwnInv, TypeInv', RouterTakes
  PROVE  OwnInv'
<1>0. /\ UNCHANGED <<client, frame, callers>> /\ rin # <<>> /\ rin' = SubSeq(rin, 2, Len(rin))
      /\ out \in Seq(Token) /\ rsafe \in BOOLEAN
  BY DEF RouterTakes, OwnInv, LineInv, TypeInv, TypeOK
<1>1. ASSUME NEW c \in 0..MaxCalls, RouterCommand(c) PROVE OwnInv'
  <2>1. c \in Nat /\ rin[1] = Cmd(c) /\ rin[1][1] = "cmd" /\ rin[1][2] = c
    BY <1>1, LineTokens, BoundsAssumption DEF RouterCommand
  <2>2. Out(c) \in Token /\ Out(c)[1] = "out" /\ Out(c)[2] = c
    BY <2>1, LineTokens
  <2>3. /\ <<Out(c)>> \in Seq(Token) /\ \A n : OnlyOf(<<Out(c)>>, n) <=> c = n
        /\ \A n : Clears(<<Out(c)>>, n) /\ MarksTo(<<Out(c)>>, n) /\ ~Has(<<Out(c)>>, Mark(n))
    <3>1. \A n : Out(c) # Mark(n)
      BY DEF Out, Mark
    <3> QED
      BY <2>2, <3>1, LineOne, HasOne DEF Noisy
  <2>4. \E answer \in Seq(Token) :
          /\ out' = out \o answer
          /\ \A n : OnlyOf(answer, n) <=> c = n
          /\ \A n : Clears(answer, n) /\ MarksTo(answer, n) /\ ~Has(answer, Mark(n))
    <3>1. \/ out' = (out \o <<Out(c)>>) \o Prompt(rsafe)
          \/ out' = out \o <<Out(c)>>
      BY <1>1 DEF RouterCommand
    <3>2. CASE out' = out \o <<Out(c)>>
      BY <2>3, <3>2
    <3>3. CASE out' = (out \o <<Out(c)>>) \o Prompt(rsafe)
      <4>1. out' = out \o (<<Out(c)>> \o Prompt(rsafe))
        BY <1>0, <2>3, <3>3, LinePrompt, ConcatAssociative
      <4>2. /\ <<Out(c)>> \o Prompt(rsafe) \in Seq(Token)
            /\ \A n : OnlyOf(<<Out(c)>> \o Prompt(rsafe), n) <=> OnlyOf(<<Out(c)>>, n)
            /\ \A n : MarksTo(<<Out(c)>> \o Prompt(rsafe), n) <=> MarksTo(<<Out(c)>>, n)
            /\ \A n : Clears(<<Out(c)>> \o Prompt(rsafe), n) <=> Clears(<<Out(c)>>, n)
            /\ \A n : Has(<<Out(c)>> \o Prompt(rsafe), Mark(n)) <=> Has(<<Out(c)>>, Mark(n))
        BY <1>0, <2>3, LineThenPrompt
      <4> QED
        BY <2>3, <4>1, <4>2
    <3> QED
      BY <3>1, <3>2, <3>3
  <2>5. PICK answer \in Seq(Token) :
          /\ out' = out \o answer
          /\ \A n : OnlyOf(answer, n) <=> c = n
          /\ \A n : Clears(answer, n) /\ MarksTo(answer, n) /\ ~Has(answer, Mark(n))
    BY <2>4
  <2>6. /\ rin[1][1] \in Noisy
        /\ \A n : (rin[1][1] \in Noisy => rin[1][2] = n) => OnlyOf(answer, n)
    BY <2>1, <2>5 DEF Noisy
  <2> QED
    BY <1>0, <2>5, <2>6, LineAnswer
\* Any other key is answered without output.
<1>2. ASSUME NEW y \in Token, NEW b \in BOOLEAN,
             \/ out' = out \o <<y>>
             \/ out' = (out \o <<y>>) \o Prompt(b)
             \/ out' = out \o Prompt(b),
             y[1] \notin Noisy, y[1] = "mark" => y = rin[1]
      PROVE  OwnInv'
  <2>1. /\ <<y>> \in Seq(Token) /\ Silent(<<y>>)
        /\ \A n : OnlyOf(<<y>>, n) /\ Clears(<<y>>, n)
                  /\ (Has(<<y>>, Mark(n)) => rin[1] = Mark(n))
                  /\ ((rin[1][1] = "mark" => rin[1][2] <= n) => MarksTo(<<y>>, n))
    <3>1. \A n : y = Mark(n) => y[1] = "mark"
      BY LineTokens
    <3> QED
      BY <1>2, <3>1, LineOne, HasOne
  <2>2. /\ Prompt(b) \in Seq(Token) /\ Silent(Prompt(b))
        /\ \A n : OnlyOf(Prompt(b), n) /\ Clears(Prompt(b), n) /\ MarksTo(Prompt(b), n)
        /\ \A n : ~Has(Prompt(b), Mark(n))
    BY LinePrompt
  <2>3. \E answer \in Seq(Token) :
          /\ out' = out \o answer /\ Silent(answer)
          /\ \A n : OnlyOf(answer, n) /\ Clears(answer, n)
                    /\ (Has(answer, Mark(n)) => rin[1] = Mark(n))
                    /\ ((rin[1][1] = "mark" => rin[1][2] <= n) => MarksTo(answer, n))
    <3>1. CASE out' = out \o <<y>>
      BY <2>1, <3>1
    <3>2. CASE out' = (out \o <<y>>) \o Prompt(b)
      <4>1. out' = out \o (<<y>> \o Prompt(b))
        BY <1>0, <2>1, <2>2, <3>2, ConcatAssociative
      <4>2. /\ <<y>> \o Prompt(b) \in Seq(Token)
            /\ Silent(<<y>> \o Prompt(b)) <=> Silent(<<y>>)
            /\ \A n : OnlyOf(<<y>> \o Prompt(b), n) <=> OnlyOf(<<y>>, n)
            /\ \A n : MarksTo(<<y>> \o Prompt(b), n) <=> MarksTo(<<y>>, n)
            /\ \A n : Clears(<<y>> \o Prompt(b), n) <=> Clears(<<y>>, n)
            /\ \A n : Has(<<y>> \o Prompt(b), Mark(n)) <=> Has(<<y>>, Mark(n))
        BY <2>1, LineThenPrompt
      <4> QED
        BY <2>1, <4>1, <4>2
    <3>3. CASE out' = out \o Prompt(b)
      BY <2>2, <3>3
    <3> QED
      BY <1>2, <3>1, <3>2, <3>3
  <2>4. PICK answer \in Seq(Token) :
          /\ out' = out \o answer /\ Silent(answer)
          /\ \A n : OnlyOf(answer, n) /\ Clears(answer, n)
                    /\ (Has(answer, Mark(n)) => rin[1] = Mark(n))
                    /\ ((rin[1][1] = "mark" => rin[1][2] <= n) => MarksTo(answer, n))
    BY <2>3
  <2> QED
    BY <1>0, <2>4, LineAnswer
<1>3. ASSUME NEW foreign \in BOOLEAN, RouterToggle(foreign) PROVE OwnInv'
  <2>1. \/ out' = out \o Prompt(FALSE)
        \/ out' = out \o <<Hijack>>
        \/ out' = (out \o <<Taken>>) \o Prompt(TRUE)
    BY <1>3 DEF RouterToggle
  <2>2. \A x \in {Hijack, Taken} : x \in Token /\ x[1] \notin Noisy /\ x[1] # "mark"
    BY LineTokens
  <2> QED
    BY <1>2, <2>1, <2>2
<1>4. CASE RouterEcho
  <2>1. \/ rin[1][1] = "mark" /\ out' = (out \o <<rin[1]>>) \o Prompt(rsafe)
        \/ out' = out \o Prompt(rsafe)
        \/ out' = out \o <<Ask>>
    BY <1>4 DEF RouterEcho
  <2>2. Ask \in Token /\ Ask[1] \notin Noisy /\ Ask[1] # "mark"
    BY LineTokens
  <2>3. rin[1] \in Token
    BY <1>0, EmptySeq DEF OwnInv, LineInv
  <2>4. rin[1][1] = "mark" => rin[1][1] \notin Noisy
    BY DEF Noisy
  <2> QED
    BY <1>0, <1>2, <2>1, <2>2, <2>3, <2>4
<1> QED
  BY <1>1, <1>3, <1>4 DEF RouterTakes

LEMMA OwnRouter ==
  ASSUME OwnInv, TypeInv', RouterStep \/ LinkDrops \/ RouterNotices
  PROVE  OwnInv'
<1>0. /\ out \in Seq(Token) /\ rin \in Seq(Token) /\ rsafe \in BOOLEAN
      /\ MarksTo(out, fresh) /\ MarksTo(rin, fresh)
  BY DEF OwnInv, LineInv, TypeInv, TypeOK
<1>1. CASE RouterFinishes
  <2>1. UNCHANGED <<client, frame, callers>> /\ rin' = rin /\ out' = out \o Prompt(rsafe)
    BY <1>1 DEF RouterFinishes
  <2>2. /\ out' \in Seq(Token) /\ (Silent(out') <=> Silent(out))
        /\ \A n : /\ OnlyOf(out', n) <=> OnlyOf(out, n)
                  /\ MarksTo(out', n) <=> MarksTo(out, n)
                  /\ Clears(out', n) <=> Clears(out, n)
                  /\ Has(out', Mark(n)) <=> Has(out, Mark(n))
    BY <1>0, <2>1, LineThenPrompt
  <2>3. EndsAt(out, rin, want) => EndsAt(out', rin', want)
    BY <2>1, <2>2 DEF EndsAt
  <2> QED
    BY <1>0, <2>1, <2>2, <2>3, LineMoves
<1>2. CASE RouterInterrupted
  <2>1. UNCHANGED <<client, frame, callers>> /\ out' = out \o Prompt(rsafe)
    BY <1>2 DEF RouterInterrupted
  <2>2. /\ out' \in Seq(Token) /\ (Silent(out') <=> Silent(out))
        /\ \A n : /\ OnlyOf(out', n) <=> OnlyOf(out, n)
                  /\ MarksTo(out', n) <=> MarksTo(out, n)
                  /\ Clears(out', n) <=> Clears(out, n)
                  /\ Has(out', Mark(n)) <=> Has(out, Mark(n))
    BY <1>0, <2>1, LineThenPrompt
  <2>3. Thins(rin', rin) /\ rin' \in Seq(Token)
    <3>1. PICK i \in 1..Len(rin) :
            \/ rin' = SubSeq(rin, i + 1, Len(rin))
            \/ rin' = SubSeq(rin, 1, i - 1) \o SubSeq(rin, i + 1, Len(rin))
      BY <1>2 DEF RouterInterrupted
    <3>2. i + 1 \in 1..(Len(rin) + 1)
      BY <1>0
    <3>3. /\ Thins(SubSeq(rin, i + 1, Len(rin)), rin)
          /\ Thins(SubSeq(rin, 1, i - 1) \o SubSeq(rin, i + 1, Len(rin)), rin)
      BY <1>0, <3>2, ThinTail, ThinDrop
    <3>4. rin' \in Seq(Token)
      BY LineTokens DEF TypeInv
    <3> QED
      BY <3>1, <3>3, <3>4
  <2>4. /\ Silent(rin) => Silent(rin')
        /\ \A n : /\ OnlyOf(rin, n) => OnlyOf(rin', n)
                  /\ MarksTo(rin, n) => MarksTo(rin', n)
                  /\ Clears(rin, n) => Clears(rin', n)
    BY <1>0, <2>3, LineThin
  <2>5. EndsAt(out, rin, want) => EndsAt(out', rin', want)
    BY <2>2, <2>4 DEF EndsAt
  <2> QED
    BY <1>0, <2>1, <2>2, <2>3, <2>4, <2>5, LineMoves
<1>3. CASE RouterEnds \/ RouterNotices
  <2>1. UNCHANGED <<client, frame, callers>> /\ out' = out /\ rin' = <<>>
    BY <1>3 DEF RouterEnds, RouterNotices
  <2>2. EndsAt(out, rin, want) => EndsAt(out', rin', want)
    BY <2>1, LineEmpty DEF EndsAt
  <2> QED
    BY <1>0, <2>1, <2>2, LineEmpty, LineMoves
<1>4. CASE LinkDrops
  <2>1. UNCHANGED <<client, frame, callers>> /\ out' = out /\ rin' = rin
    BY <1>4 DEF LinkDrops
  <2> QED
    BY <1>0, <2>1, LineMoves
<1> QED
  BY <1>1, <1>2, <1>3, <1>4, OwnTakes DEF RouterStep

LEMMA MarksFresh ==
  ASSUME NEW n \in Nat, NEW s \in Seq(Token), MarksTo(s, n)
  PROVE  /\ ~Has(s, Mark(n + 1)) /\ Clears(s, n + 1) /\ MarksTo(s, n + 1)
<1>1. \A i \in 1..Len(s) : s[i][1] = "mark" => s[i][2] <= n /\ s[i][2] \in Nat
  BY ElementOfSeq DEF MarksTo, Token
<1>2. ASSUME NEW i \in 1..Len(s), s[i] = Mark(n + 1) PROVE FALSE
  <2>1. s[i][1] = "mark" /\ s[i][2] = n + 1
    BY <1>2, LineTokens
  <2> QED
    BY <1>1, <2>1
<1>3. MarksTo(s, n + 1)
  BY <1>1 DEF MarksTo
<1> QED
  BY <1>2, <1>3 DEF Has, Clears

\* Nothing noisy is noise of any call, and all of it is before any marker.
LEMMA SilentFacts ==
  ASSUME NEW s, Silent(s)
  PROVE  \A n : OnlyOf(s, n) /\ Clears(s, n)
BY DEF Silent, OnlyOf, Clears

LEMMA OutputsFacts ==
  ASSUME NEW s, NEW c, OnlyOf(s, c)
  PROVE  Outputs(s) \subseteq {c}
BY DEF OnlyOf, Outputs, Noisy

\* What is written, when it is no marker.
LEMMA LineSend ==
  ASSUME OwnInv, NEW keys \in Seq(Key), Send(keys), \A i \in 1..Len(keys) : keys[i][1] # "mark"
  PROVE  /\ out' = out /\ rin' \in Seq(Token) /\ MarksTo(rin', fresh)
         /\ Silent(rin) /\ Silent(keys) => Silent(rin')
<1>1. keys \in Seq(Token) /\ rin \in Seq(Token) /\ MarksTo(rin, fresh)
  BY LineTokens DEF OwnInv, LineInv
<1>2. MarksTo(keys, fresh)
  BY DEF MarksTo
<1>3. rin' = rin \o keys \/ rin' = rin
  BY DEF Send
<1>4. /\ rin \o keys \in Seq(Token) /\ (Silent(rin \o keys) <=> Silent(rin) /\ Silent(keys))
      /\ MarksTo(rin \o keys, fresh)
  BY <1>1, <1>2, LineParts
<1> QED
  BY <1>1, <1>3, <1>4 DEF Send

\* A frame: nothing that is on its way has the new marker, and it is the last thing written.
LEMMA LineFramed ==
  ASSUME OwnInv, NEW keys \in Seq(Key), \A i \in 1..Len(keys) : keys[i][1] # "mark",
         NEW where, NEW leftover \in Seq(Token), SendFramed(keys, where, leftover),
         MarksTo(leftover, fresh), pending' \in Seq(Token), MarksTo(pending', fresh)
  PROVE  /\ LineInv' /\ EndsAt(out', rin', want')
         /\ Clears(buf', want') /\ ~Has(buf', Mark(want'))
         /\ Silent(rin) /\ Silent(keys) => Silent(rin')
         /\ \A n : OnlyOf(rin, n) /\ OnlyOf(keys, n) => OnlyOf(rin', n)
<1> DEFINE w == fresh + 1
           m == <<Mark(w)>>
<1>1. /\ fresh \in Nat /\ w \in Nat /\ Mark(w) \in Token
      /\ rin \in Seq(Token) /\ out \in Seq(Token) /\ keys \in Seq(Token)
      /\ MarksTo(rin, fresh) /\ MarksTo(out, fresh) /\ MarksTo(keys, fresh)
  BY LineTokens DEF OwnInv, LineInv, TypeInv, MarksTo
<1>2. /\ out' = out /\ want' = w /\ fresh' = w /\ buf' = leftover
      /\ rin' = rin \o (keys \o m) \/ rin' = rin
  BY DEF SendFramed, Send
<1>3. /\ ~Has(rin, Mark(w)) /\ Clears(rin, w) /\ MarksTo(rin, w)
      /\ ~Has(out, Mark(w)) /\ Clears(out, w) /\ MarksTo(out, w)
      /\ ~Has(keys, Mark(w)) /\ Clears(keys, w) /\ MarksTo(keys, w)
      /\ ~Has(leftover, Mark(w)) /\ Clears(leftover, w) /\ MarksTo(leftover, w)
      /\ MarksTo(pending', w)
  BY <1>1, MarksFresh
<1>4. /\ m \in Seq(Token) /\ Silent(m) /\ MarksTo(m, w)
      /\ \A n : OnlyOf(m, n) /\ Clears(m, n)
  <2>1. Mark(w)[1] \notin Noisy /\ Mark(w)[2] = w
    BY LineTokens DEF Noisy
  <2> QED
    BY <1>1, <2>1, LineOne
<1> HIDE DEF w, m
<1> DEFINE all == keys \o m
<1>5. /\ all \in Seq(Token) /\ (Silent(all) <=> Silent(keys)) /\ MarksTo(all, w) /\ Clears(all, w)
      /\ \A n : OnlyOf(all, n) <=> OnlyOf(keys, n)
  BY <1>1, <1>3, <1>4, LineParts
<1> HIDE DEF all
<1>6. /\ rin \o all \in Seq(Token) /\ (Silent(rin \o all) <=> Silent(rin) /\ Silent(all))
      /\ MarksTo(rin \o all, w) /\ Clears(rin \o all, w)
      /\ \A n : OnlyOf(rin \o all, n) <=> OnlyOf(rin, n) /\ OnlyOf(all, n)
  BY <1>1, <1>3, <1>5, LineParts
<1>7. rin' = rin \o all \/ rin' = rin
  BY <1>2 DEF all
<1>8. rin' \in Seq(Token) /\ MarksTo(rin', w) /\ Clears(rin', w)
  BY <1>1, <1>3, <1>6, <1>7
<1>9. LineInv'
  BY <1>1, <1>2, <1>3, <1>8 DEF LineInv
<1>10. EndsAt(out', rin', want')
  BY <1>2, <1>3, <1>8 DEF EndsAt
<1>11. /\ Silent(rin) /\ Silent(keys) => Silent(rin')
       /\ \A n : OnlyOf(rin, n) /\ OnlyOf(keys, n) => OnlyOf(rin', n)
  BY <1>5, <1>6, <1>7
<1> QED
  BY <1>2, <1>3, <1>9, <1>10, <1>11

\* A call ends: the text that is left over is silent, or the channel is closed.
LEMMA OwnReturn ==
  ASSUME OwnInv, TypeInv', held \in Task, NEW status, NEW text, Leaves(status, text),
         pending' \in Seq(Token), MarksTo(pending', fresh),
         out' = out, rin' \in Seq(Token), MarksTo(rin', fresh),
         alive' => Silent(pending') /\ Silent(out) /\ Silent(rin'),
         held = "agent" /\ status = "ok" => text \subseteq {calls}
  PROVE  OwnInv'
<1>1. /\ at' \in {"idle", "closing"} /\ buf' = <<>> /\ fresh' = fresh /\ calls' = calls
      /\ at' = "closing" => held' = held
      /\ result' = [result EXCEPT ![held] = [status |-> status, cmd |-> calls, text |-> text]]
  BY DEF Leaves, Return, Closes
<1>2. LineInv' /\ SilenceInv'
  BY <1>1, LineEmpty DEF OwnInv, LineInv, SilenceInv
<1>3. ReaderInv' /\ FenceInv' /\ MineInv'
  <2>1. held = "agent" => result'["agent"].cmd = calls'
    BY <1>1 DEF OwnInv, TypeInv, Task
  <2> QED
    BY <1>1, <2>1 DEF ReaderInv, FenceInv, MineInv, Answering, Reading
<1>4. OwnOutputOnly'
  <2>1. result = [t \in Task |-> result[t]] /\ "agent" \in Task
    BY DEF OwnInv, TypeInv, Task
  <2>2. CASE held = "agent"
    <3>1. result'["agent"].status = status /\ result'["agent"].text = text /\ result'["agent"].cmd = calls
      BY <1>1, <2>1, <2>2
    <3> QED
      BY <2>2, <3>1 DEF OwnOutputOnly
  <2>3. CASE held # "agent"
    <3>1. result'["agent"] = result["agent"]
      BY <1>1, <2>1, <2>3
    <3> QED
      BY <3>1 DEF OwnInv, OwnOutputOnly
  <2> QED
    BY <2>2, <2>3
<1> QED
  BY <1>2, <1>3, <1>4 DEF OwnInv

\* The same when nothing was written and the rest of the text not touched.
LEMMA OwnReturnKeep ==
  ASSUME OwnInv, TypeInv', held \in Task, NEW status, NEW text, Leaves(status, text),
         UNCHANGED router, pending' = pending, alive' => alive /\ ~Answering,
         held = "agent" /\ status = "ok" => text \subseteq {calls}
  PROVE  OwnInv'
<1>1. out' = out /\ rin' = rin
  BY DEF router
<1>2. alive' => Silent(pending) /\ Silent(out) /\ Silent(rin)
  BY DEF OwnInv, SilenceInv
<1> QED
  BY <1>1, <1>2, OwnReturn DEF OwnInv, LineInv

\* A frame of the agent's has come to its marker.
LEMMA FrameEnds ==
  ASSUME OwnInv, Answering, Satisfied
  PROVE  /\ Has(buf, Mark(want)) /\ After(buf, Mark(want)) \in Seq(Token)
         /\ MarksTo(After(buf, Mark(want)), fresh)
         /\ Silent(After(buf, Mark(want))) /\ Silent(out) /\ Silent(rin)
         /\ Before(buf, Mark(want)) \in Seq(Token)
         /\ \A n : OnlyOf(buf, n) => OnlyOf(Before(buf, Mark(want)), n)
<1>1. Has(buf, Mark(want))
  BY DEF Satisfied, Answering
<1>2. /\ buf \in Seq(Token) /\ MarksTo(buf, fresh) /\ Clears(buf, want)
      /\ Silent(out) /\ Silent(rin)
  BY <1>1 DEF OwnInv, LineInv, FenceInv
<1> QED
  BY <1>1, <1>2, LineSplit

LEMMA OwnCallers ==
  ASSUME CancelAgent = FALSE, OwnInv, TypeInv',
         \/ CallEnter
         \/ \E c \in AgentCalls : CallAgent(c)
         \/ \E c \in OpCalls : CallOp(c)
         \/ RestoreRefused
         \/ \E t \in Task : Acquire(t) \/ CancelWaiter(t)
  PROVE  OwnInv'
<1> USE DEF client, frame, router
<1>1. UNCHANGED <<client, want, buf, raw, fresh, router>>
  BY DEF CallEnter, CallAgent, CallOp, RestoreRefused, Acquire, CancelWaiter
<1>2. LineInv'
  BY <1>1 DEF OwnInv, LineInv
<1>3. CASE CallEnter \/ \E c \in OpCalls : CallOp(c)
  <2>1. /\ UNCHANGED <<held, at, result, calls>> /\ call'["agent"] = call["agent"]
    BY <1>3 DEF CallEnter, CallOp, Enter, OwnInv, TypeInv, Task
  <2> QED
    BY <1>1, <1>2, <2>1 DEF OwnInv, ReaderInv, SilenceInv, FenceInv, MineInv, OwnOutputOnly, Answering
<1>4. ASSUME NEW c \in AgentCalls, CallAgent(c) PROVE OwnInv'
  <2>1. UNCHANGED <<held, at, result>> /\ call["agent"] = "none"
    BY <1>4 DEF CallAgent, Enter
  <2>2. held # "agent"
    BY <2>1 DEF OwnInv, TypeInv, Task
  <2>3. ~Answering
    BY <2>2 DEF OwnInv, ReaderInv
  <2>4. /\ at' \notin {"reply", "resync", "recount"} /\ held' # "agent"
        /\ at' \in Reading => held' = "op"
    BY <2>1, <2>2, <2>3 DEF OwnInv, ReaderInv, Answering
  <2>5. ReaderInv' /\ FenceInv' /\ MineInv'
    BY <2>4 DEF ReaderInv, FenceInv, MineInv, Answering
  <2>6. SilenceInv'
    BY <1>1, <2>1, <2>3 DEF OwnInv, SilenceInv
  <2> QED
    BY <1>1, <1>2, <2>1, <2>5, <2>6 DEF OwnInv, OwnOutputOnly
<1>5. ASSUME NEW t \in Task, Acquire(t) PROVE OwnInv'
  <2>1. /\ UNCHANGED callers /\ at' = "begin" /\ at = "idle"
    BY <1>5 DEF Acquire, OwnInv, TypeInv
  <2> QED
    BY <1>1, <1>2, <2>1
       DEF OwnInv, ReaderInv, SilenceInv, FenceInv, MineInv, OwnOutputOnly, Answering, Reading, callers
<1>6. ASSUME NEW t \in Task, CancelWaiter(t) PROVE OwnInv'
  <2>1. t = "op"
    BY <1>6 DEF CancelWaiter, MayCancel, Task
  <2>2. /\ UNCHANGED <<held, at, calls>> /\ call'["agent"] = call["agent"]
        /\ result'["agent"] = result["agent"]
    BY <1>6, <2>1 DEF CancelWaiter, OwnInv, TypeInv, Task
  <2> QED
    BY <1>1, <1>2, <2>2 DEF OwnInv, ReaderInv, SilenceInv, FenceInv, MineInv, OwnOutputOnly, Answering
<1>7. CASE RestoreRefused
  <2>1. UNCHANGED <<held, at, calls, call>> /\ result'["agent"] = result["agent"]
    BY <1>7 DEF RestoreRefused, OwnInv, TypeInv, Task
  <2> QED
    BY <1>1, <1>2, <2>1 DEF OwnInv, ReaderInv, SilenceInv, FenceInv, MineInv, OwnOutputOnly, Answering
<1> QED
  BY <1>3, <1>4, <1>5, <1>6, <1>7

LEMMA OwnReceive ==
  ASSUME OwnInv, TypeInv', Receive
  PROVE  OwnInv'
<1>1. PICK n \in 1..Len(out) : buf' = buf \o SubSeq(out, 1, n) /\ out' = SubSeq(out, n + 1, Len(out))
  BY DEF Receive
<1> DEFINE a == SubSeq(out, 1, n)
           b == SubSeq(out, n + 1, Len(out))
<1>2. /\ buf \in Seq(Token) /\ out \in Seq(Token) /\ MarksTo(buf, fresh) /\ MarksTo(out, fresh)
  BY DEF OwnInv, LineInv
<1>3. a \in Seq(Token) /\ b \in Seq(Token) /\ a \o b = out
  BY <1>2, SplitAt
<1>4. buf' = buf \o a /\ out' = b
  BY <1>1
<1> HIDE DEF a, b
<1>5. /\ Silent(out) <=> Silent(a) /\ Silent(b)
      /\ \A k : OnlyOf(out, k) <=> OnlyOf(a, k) /\ OnlyOf(b, k)
      /\ \A k : MarksTo(out, k) <=> MarksTo(a, k) /\ MarksTo(b, k)
      /\ \A k : Clears(out, k) <=> Clears(a, k) /\ Clears(b, k) /\ (Has(a, Mark(k)) => Silent(b))
      /\ \A x : Has(out, x) <=> Has(a, x) \/ Has(b, x)
  BY <1>3, LineParts
<1>6. /\ buf' \in Seq(Token)
      /\ Silent(buf') <=> Silent(buf) /\ Silent(a)
      /\ \A k : OnlyOf(buf', k) <=> OnlyOf(buf, k) /\ OnlyOf(a, k)
      /\ \A k : MarksTo(buf', k) <=> MarksTo(buf, k) /\ MarksTo(a, k)
      /\ \A k : Clears(buf', k) <=> Clears(buf, k) /\ Clears(a, k) /\ (Has(buf, Mark(k)) => Silent(a))
      /\ \A x : Has(buf', x) <=> Has(buf, x) \/ Has(a, x)
  BY <1>2, <1>3, <1>4, LineParts
<1>7. /\ UNCHANGED <<client, callers>> /\ held' = held /\ at' = at /\ want' = want /\ raw' = raw
      /\ fresh' = fresh /\ rin' = rin
  BY DEF Receive
<1>8. /\ alive' = alive /\ pending' = pending /\ call' = call /\ result' = result /\ calls' = calls
  BY <1>7 DEF client, callers
<1>9. LineInv'
  BY <1>2, <1>3, <1>4, <1>5, <1>6, <1>7, <1>8 DEF OwnInv, LineInv
<1>10. ReaderInv' /\ OwnOutputOnly'
  BY <1>7, <1>8 DEF OwnInv, ReaderInv, OwnOutputOnly, Answering
<1>11. SilenceInv'
  BY <1>4, <1>5, <1>6, <1>7, <1>8 DEF OwnInv, SilenceInv, Answering
<1>12. FenceInv'
  <2> SUFFICES ASSUME Answering
               PROVE  /\ Clears(buf', want) /\ EndsAt(b, rin, want)
                      /\ Has(buf', Mark(want)) => Silent(b) /\ Silent(rin)
    BY <1>4, <1>7 DEF FenceInv, Answering
  <2>1. /\ Clears(buf, want) /\ EndsAt(out, rin, want)
        /\ Has(buf, Mark(want)) => Silent(out) /\ Silent(rin)
    BY DEF OwnInv, FenceInv
  <2> QED
    BY <1>5, <1>6, <2>1 DEF EndsAt
<1>13. MineInv'
  BY <1>4, <1>5, <1>6, <1>7, <1>8 DEF OwnInv, MineInv
<1> QED
  BY <1>9, <1>10, <1>11, <1>12, <1>13 DEF OwnInv

\* A frame of the agent's begins, or follows another one of the same call.
LEMMA OwnFramed ==
  ASSUME OwnInv, TypeInv', held = "agent", NEW keys \in Seq(Key),
         \A i \in 1..Len(keys) : keys[i][1] # "mark",
         NEW where \in {"reply", "resync", "recount"}, NEW leftover \in Seq(Token),
         SendFramed(keys, where, leftover), MarksTo(leftover, fresh),
         pending' \in Seq(Token), MarksTo(pending', fresh),
         where = "reply" => /\ call["agent"] = "execute"
                            /\ Silent(leftover) /\ Silent(out) /\ Silent(rin)
                            /\ OnlyOf(keys, calls),
         where = "recount" /\ call["agent"] = "execute" => raw' \in Seq(Token) /\ OnlyOf(raw', calls)
  PROVE  OwnInv'
<1>1. /\ LineInv' /\ EndsAt(out', rin', want')
      /\ Clears(buf', want') /\ ~Has(buf', Mark(want'))
      /\ \A n : OnlyOf(rin, n) /\ OnlyOf(keys, n) => OnlyOf(rin', n)
  BY LineFramed
<1>2. /\ at' = where /\ held' = held /\ buf' = leftover /\ out' = out
      /\ call' = call /\ result' = result /\ calls' = calls
  BY DEF SendFramed, Send, callers
<1>3. Answering'
  BY <1>2 DEF Answering
<1>4. SilenceInv' /\ ReaderInv'
  BY <1>2, <1>3 DEF SilenceInv, ReaderInv
<1>5. FenceInv'
  BY <1>1 DEF FenceInv
<1>6. MineInv'
  <2>1. where = "reply" => OnlyOf(leftover, calls) /\ OnlyOf(out, calls) /\ OnlyOf(rin', calls)
    BY <1>1, SilentFacts
  <2> QED
    BY <1>2, <2>1 DEF MineInv
<1>7. OwnOutputOnly'
  BY <1>2 DEF OwnInv, OwnOutputOnly
<1> QED
  BY <1>1, <1>4, <1>5, <1>6, <1>7 DEF OwnInv

\* The keystrokes the agent's calls write.
LEMMA AgentKeys ==
  ASSUME TypeInv
  PROVE  \A k \in {Cmd(0), Cmd(calls), CtrlC} :
           /\ <<k>> \in Seq(Key) /\ \A i \in 1..Len(<<k>>) : <<k>>[i][1] # "mark"
           /\ OnlyOf(<<Cmd(calls)>>, calls)
<1>1. \A k \in {Cmd(0), Cmd(calls), CtrlC} : k[1] # "mark"
  BY DEF Cmd, CtrlC
<1>2. \A k \in {Cmd(0), Cmd(calls), CtrlC} : <<k>> \in Seq(Key)
  BY TypeTokens
<1>3. \A k : Len(<<k>>) = 1 /\ <<k>>[1] = k
  OBVIOUS
<1>4. OnlyOf(<<Cmd(calls)>>, calls)
  <2> DEFINE s == <<Cmd(calls)>>
  <2>1. Len(s) = 1 /\ s[1] = Cmd(calls) /\ Cmd(calls)[2] = calls
    BY LineTokens
  <2> HIDE DEF s
  <2>2. OnlyOf(s, calls)
    BY <2>1 DEF OnlyOf
  <2> QED
    BY <2>2 DEF s
<1>5. \A k : \A i \in 1..Len(<<k>>) : <<k>>[i] = k
  BY <1>3
<1> QED
  BY <1>1, <1>2, <1>4, <1>5

LEMMA AgentHolds ==
  ASSUME OwnInv, Running("execute") \/ Running("refresh")
  PROVE  held = "agent" /\ held \in Task
BY DEF Running, OwnInv, TypeInv, TypeOK, OpCalls, Task

LEMMA OwnExecuteBegin ==
  ASSUME OwnInv, TypeInv', ExecuteBegin
  PROVE  OwnInv'
<1>1. /\ held = "agent" /\ held \in Task /\ call["agent"] = "execute" /\ ~Answering
  BY AgentHolds DEF ExecuteBegin, Running, Answering
<1>2. pending \in Seq(Token) /\ MarksTo(pending, fresh)
  BY DEF OwnInv, LineInv
<1>3. CASE /\ alive /\ SendFramed(<<Cmd(calls)>>, "reply", pending) /\ pending' = <<>>
  <2>1. Silent(pending) /\ Silent(out) /\ Silent(rin)
    BY <1>1, <1>3 DEF OwnInv, SilenceInv
  <2>2. /\ <<Cmd(calls)>> \in Seq(Key) /\ OnlyOf(<<Cmd(calls)>>, calls)
        /\ \A i \in 1..Len(<<Cmd(calls)>>) : <<Cmd(calls)>>[i][1] # "mark"
    BY AgentKeys DEF OwnInv
  <2> QED
    BY <1>1, <1>2, <1>3, <2>1, <2>2, LineEmpty, OwnFramed
<1>4. CASE ~alive' /\ pending' = pending /\ Leaves("connection_lost", {}) /\ UNCHANGED router
  BY <1>1, <1>4, OwnReturnKeep
<1> QED
  BY <1>3, <1>4 DEF ExecuteBegin, MarkLost, Leaves

LEMMA OwnExecuteReply ==
  ASSUME OwnInv, TypeInv', ExecuteReply
  PROVE  OwnInv'
<1>1. /\ held = "agent" /\ held \in Task /\ call["agent"] = "execute" /\ at = "reply"
      /\ Answering /\ Satisfied
  BY AgentHolds DEF ExecuteReply, Running, Answering
<1> DEFINE b == Before(buf, Mark(want))
           a == After(buf, Mark(want))
<1>2. /\ a \in Seq(Token) /\ MarksTo(a, fresh) /\ Silent(a) /\ Silent(out) /\ Silent(rin)
      /\ b \in Seq(Token) /\ \A n : OnlyOf(buf, n) => OnlyOf(b, n)
  BY <1>1, FrameEnds
<1>3. OnlyOf(b, calls) /\ Outputs(b) \subseteq {calls}
  <2>1. OnlyOf(buf, calls)
    BY <1>1 DEF OwnInv, MineInv
  <2>2. OnlyOf(b, calls)
    BY <1>2, <2>1
  <2> QED
    BY <2>2, OutputsFacts
<1>4. CASE KeepRest /\ Leaves("ok", Outputs(b)) /\ UNCHANGED router
  <2>1. pending' = a /\ out' = out /\ rin' = rin
    BY <1>4 DEF KeepRest, router
  <2>2. rin \in Seq(Token) /\ MarksTo(rin, fresh)
    BY DEF OwnInv, LineInv
  <2> HIDE DEF a, b
  <2> QED
    BY <1>1, <1>2, <1>3, <1>4, <2>1, <2>2, OwnReturn
<1>5. CASE SendFramed(<<Cmd(0)>>, "recount", a) /\ raw' = b /\ UNCHANGED client
  <2>1. pending' \in Seq(Token) /\ MarksTo(pending', fresh)
    BY <1>5 DEF client, OwnInv, LineInv
  <2>2. /\ <<Cmd(0)>> \in Seq(Key)
        /\ \A i \in 1..Len(<<Cmd(0)>>) : <<Cmd(0)>>[i][1] # "mark"
    BY AgentKeys DEF OwnInv
  <2> HIDE DEF a, b
  <2> QED
    BY <1>1, <1>2, <1>3, <1>5, <2>1, <2>2, OwnFramed
<1>6. CASE CloseUnsafe /\ Leaves("ok", Outputs(b)) /\ UNCHANGED router
  <2>1. ~alive' /\ pending' = pending
    BY <1>6 DEF CloseUnsafe
  <2> HIDE DEF b
  <2> QED
    BY <1>1, <1>3, <1>6, <2>1, OwnReturnKeep
<1> QED
  BY <1>4, <1>5, <1>6 DEF ExecuteReply, Leaves

LEMMA OwnExecuteFails ==
  ASSUME OwnInv, TypeInv', ExecuteLost \/ ExecuteTimeout
  PROVE  OwnInv'
<1>1. held = "agent" /\ held \in Task
  BY AgentHolds DEF ExecuteLost, ExecuteTimeout
<1>2. CASE \E leftover \in {<<>>, buf} : SendFramed(<<CtrlC>>, "resync", leftover) /\ UNCHANGED client
  <2>1. PICK leftover \in {<<>>, buf} : SendFramed(<<CtrlC>>, "resync", leftover)
    BY <1>2
  <2>2. leftover \in Seq(Token) /\ MarksTo(leftover, fresh)
    BY LineEmpty DEF OwnInv, LineInv
  <2>3. pending' \in Seq(Token) /\ MarksTo(pending', fresh)
    BY <1>2 DEF client, OwnInv, LineInv
  <2>4. /\ <<CtrlC>> \in Seq(Key)
        /\ \A i \in 1..Len(<<CtrlC>>) : <<CtrlC>>[i][1] # "mark"
    BY AgentKeys DEF OwnInv
  <2> QED
    BY <1>1, <2>1, <2>2, <2>3, <2>4, OwnFramed
<1>3. CASE \E status \in {"connection_lost", "desynchronized"} :
             ~alive' /\ pending' = pending /\ Leaves(status, {}) /\ UNCHANGED router
  <2> PICK status \in {"connection_lost", "desynchronized"} :
             ~alive' /\ pending' = pending /\ Leaves(status, {}) /\ UNCHANGED router
    BY <1>3
  <2> QED
    BY <1>1, OwnReturnKeep
<1>4. CASE ExecuteLost
  BY <1>3, <1>4 DEF ExecuteLost, MarkLost, Leaves
<1>5. CASE ExecuteTimeout
  BY <1>2, <1>3, <1>5 DEF ExecuteTimeout, CloseOnly, Leaves
<1> QED
  BY <1>4, <1>5

LEMMA OwnFrames ==
  ASSUME OwnInv, TypeInv', RecountStep \/ ResyncStep
  PROVE  OwnInv'
<1>1. /\ held = "agent" /\ held \in Task
      /\ ResyncDone \/ ResyncFails \/ RecountDone \/ RecountFails => Answering
      /\ RefreshBegin => ~Answering /\ call["agent"] = "refresh"
  <2>1. CASE RefreshBegin
    BY <2>1, AgentHolds DEF RefreshBegin, Running, Answering, ResyncDone, ResyncFails,
       RecountDone, RecountFails
  <2>2. CASE ~RefreshBegin
    <3>1. Answering
      BY <2>2 DEF RecountStep, ResyncStep, ResyncDone, ResyncFails, RecountDone, RecountFails, Answering
    <3> QED
      BY <2>2, <3>1 DEF OwnInv, ReaderInv, Task
  <2> QED
    BY <2>1, <2>2
<1>2. at = "recount" /\ call["agent"] = "execute" => Outputs(raw) \subseteq {calls}
  BY OutputsFacts DEF OwnInv, MineInv
<1>3. CASE ResyncDone \/ RecountDone
  <2>1. PICK status, text : /\ Leaves(status, text) /\ UNCHANGED router
                            /\ pending' = After(buf, Mark(want))
                            /\ status = "ok" => text \subseteq {calls}
    BY <1>1, <1>2, <1>3 DEF ResyncDone, RecountDone, KeepRest, Leaves
  <2>2. /\ After(buf, Mark(want)) \in Seq(Token) /\ MarksTo(After(buf, Mark(want)), fresh)
        /\ Silent(After(buf, Mark(want))) /\ Silent(out) /\ Silent(rin)
    BY <1>1, <1>3, FrameEnds DEF ResyncDone, RecountDone
  <2>3. out' = out /\ rin' = rin /\ rin \in Seq(Token) /\ MarksTo(rin, fresh)
    BY <2>1 DEF router, OwnInv, LineInv
  <2> QED
    BY <1>1, <2>1, <2>2, <2>3, OwnReturn
<1>4. CASE ResyncFails \/ RecountFails
  <2>1. PICK status, text : /\ Leaves(status, text) /\ UNCHANGED router
                            /\ ~alive' /\ pending' = pending
                            /\ status = "ok" => text \subseteq {calls}
    BY <1>1, <1>2, <1>4 DEF ResyncFails, RecountFails, CloseOnly, CloseUnsafe, Leaves
  <2> QED
    BY <1>1, <2>1, OwnReturnKeep
<1>5. CASE RefreshBegin
  <2>1. CASE SendFramed(<<Cmd(0)>>, "recount", pending) /\ pending' = <<>>
    <3>1. /\ <<Cmd(0)>> \in Seq(Key)
          /\ \A i \in 1..Len(<<Cmd(0)>>) : <<Cmd(0)>>[i][1] # "mark"
      BY AgentKeys DEF OwnInv
    <3>2. pending \in Seq(Token) /\ MarksTo(pending, fresh)
      BY DEF OwnInv, LineInv
    <3> QED
      BY <1>1, <1>5, <2>1, <3>1, <3>2, LineEmpty, OwnFramed
  <2>2. CASE /\ Leaves("uncounted", {}) /\ UNCHANGED router /\ pending' = pending
             /\ alive' => alive
    BY <1>1, <1>5, <2>2, OwnReturnKeep
  <2> QED
    BY <1>5, <2>1, <2>2 DEF RefreshBegin, CloseUnsafe, client, Leaves
<1> QED
  BY <1>3, <1>4, <1>5 DEF RecountStep, ResyncStep

\* The operator's calls leave nothing noisy behind: none of them runs a command.
LEMMA OwnOpStay ==
  ASSUME OwnInv, TypeInv', held = "op", UNCHANGED <<held, callers>>, alive' = alive,
         at' \in Reading, ~Answering', LineInv',
         alive => Silent(pending') /\ Silent(buf') /\ Silent(out') /\ Silent(rin')
  PROVE  OwnInv'
<1>1. /\ held' = "op" /\ alive' = alive /\ call' = call /\ result' = result
      /\ at' \notin {"reply", "resync", "recount"}
  BY DEF callers, Answering
<1>2. ReaderInv' /\ FenceInv' /\ MineInv'
  BY <1>1 DEF ReaderInv, FenceInv, MineInv, Answering
<1>3. SilenceInv'
  BY <1>1 DEF SilenceInv
<1>4. OwnOutputOnly'
  BY <1>1 DEF OwnInv, OwnOutputOnly
<1> QED
  BY <1>2, <1>3, <1>4 DEF OwnInv

LEMMA OpQuiet ==
  ASSUME OwnInv, NEW c \in OpCalls, Running(c)
  PROVE  /\ held = "op" /\ held \in Task /\ ~Answering
         /\ alive => Silent(pending) /\ Silent(buf) /\ Silent(out) /\ Silent(rin)
<1>1. held = "op"
  BY HolderCall DEF OwnInv
<1>2. ~Answering
  BY <1>1 DEF OwnInv, ReaderInv
<1> QED
  BY <1>1, <1>2 DEF OwnInv, SilenceInv, Task

\* One keystroke of the operator's is on its way.
LEMMA OpSends ==
  ASSUME OwnInv, NEW k \in {CtrlX, CtrlCD, Load, Yes}, Send(<<k>>)
  PROVE  /\ out' = out /\ rin' \in Seq(Token) /\ MarksTo(rin', fresh)
         /\ Silent(rin) => Silent(rin')
<1>1. k \in Token /\ k[1] \notin Noisy \cup {"mark"}
  BY LineTokens
<1>2. Silent(<<k>>)
  BY <1>1, LineOne
<1>3. <<k>> \in Seq(Key) /\ \A i \in 1..Len(<<k>>) : <<k>>[i][1] # "mark"
  <2>1. <<k>> \in Seq(Key)
    BY TypeTokens DEF OwnInv
  <2>2. Len(<<k>>) = 1 /\ <<k>>[1] = k
    OBVIOUS
  <2>3. \A i \in 1..Len(<<k>>) : <<k>>[i] = k
    BY <2>2
  <2> QED
    BY <1>1, <2>1, <2>3
<1>4. /\ out' = out /\ rin' \in Seq(Token) /\ MarksTo(rin', fresh)
      /\ Silent(rin) /\ Silent(<<k>>) => Silent(rin')
  BY <1>3, LineSend
<1> QED
  BY <1>2, <1>4

\* Reading for one of these begins: the text left over goes to the reader, or is dropped.
LEMMA OwnOpAsks ==
  ASSUME OwnInv, TypeInv', held = "op", UNCHANGED <<held, callers, fresh>>, alive' = alive,
         at' \in Reading, ~Answering', alive => Silent(pending) /\ Silent(out) /\ Silent(rin),
         NEW k \in {CtrlX, Load}, Send(<<k>>), buf' \in {pending, <<>>}, pending' = <<>>
  PROVE  OwnInv'
<1>1. out' = out /\ rin' \in Seq(Token) /\ MarksTo(rin', fresh) /\ (Silent(rin) => Silent(rin'))
  BY OpSends
<1>2. LineInv'
  BY <1>1, LineEmpty DEF OwnInv, LineInv
<1>3. alive => Silent(pending') /\ Silent(buf') /\ Silent(out') /\ Silent(rin')
  BY <1>1, LineEmpty
<1> QED
  BY <1>2, <1>3, OwnOpStay

\* A marker of the operator's, and the text up to it.
LEMMA OwnOpFrames ==
  ASSUME OwnInv, TypeInv', held = "op", alive' = alive,
         NEW where \in {"settle", "confirm"}, NEW leftover \in {pending, <<>>},
         SendFramed(<<>>, where, leftover), pending' \in {pending, <<>>},
         alive => Silent(pending) /\ Silent(out) /\ Silent(rin)
  PROVE  OwnInv'
<1>1. /\ leftover \in Seq(Token) /\ MarksTo(leftover, fresh)
      /\ pending' \in Seq(Token) /\ MarksTo(pending', fresh)
      /\ alive => Silent(leftover) /\ Silent(pending')
  BY LineEmpty DEF OwnInv, LineInv
<1>2. <<>> \in Seq(Key) /\ Silent(<<>>) /\ \A i \in 1..Len(<<>>) : <<>>[i][1] # "mark"
  BY LineEmpty
<1>3. LineInv' /\ (Silent(rin) => Silent(rin'))
  BY <1>1, <1>2, LineFramed
<1>4. /\ UNCHANGED <<held, callers>> /\ at' = where /\ buf' = leftover /\ out' = out
      /\ at' \in Reading /\ ~Answering'
  BY DEF SendFramed, Send, Reading, Answering
<1> QED
  BY <1>1, <1>3, <1>4, OwnOpStay

LEMMA OwnOpEnds ==
  ASSUME OwnInv, TypeInv', held = "op", at \in {"settle", "confirm"}, Satisfied,
         alive' = alive, pending' = After(buf, Mark(want)), UNCHANGED router,
         NEW status, Leaves(status, {})
  PROVE  OwnInv'
<1>1. Has(buf, Mark(want)) /\ ~Answering
  BY DEF Satisfied, Answering
<1>2. buf \in Seq(Token) /\ MarksTo(buf, fresh) /\ rin \in Seq(Token) /\ MarksTo(rin, fresh)
  BY DEF OwnInv, LineInv
<1>3. alive => Silent(buf) /\ Silent(out) /\ Silent(rin)
  BY <1>1 DEF OwnInv, SilenceInv
<1>4. alive => Clears(buf, want)
  BY <1>3, SilentFacts
<1>5. /\ pending' \in Seq(Token) /\ MarksTo(pending', fresh)
      /\ alive => Silent(pending')
  BY <1>1, <1>2, <1>4, LineSplit
<1>6. out' = out /\ rin' = rin
  BY DEF router
<1> QED
  BY <1>2, <1>3, <1>5, <1>6, OwnReturn DEF Task

\* The calls that end here close the channel, or have not touched it.
LEMMA OwnOpLeaves ==
  ASSUME OwnInv, TypeInv', NEW c \in OpCalls, Running(c), NEW status, Leaves(status, {}),
         UNCHANGED router, pending' = pending, alive' => alive
  PROVE  OwnInv'
BY OpQuiet, OwnReturnKeep

LEMMA OwnOpCloses ==
  ASSUME OwnInv, TypeInv', NEW c \in OpCalls, Running(c), NEW status, Leaves(status, {}),
         NEW k \in {CtrlCD, Yes}, Send(<<k>>), pending' = pending, ~alive'
  PROVE  OwnInv'
<1>1. out' = out /\ rin' \in Seq(Token) /\ MarksTo(rin', fresh)
  BY OpSends
<1>2. pending \in Seq(Token) /\ MarksTo(pending, fresh) /\ held = "op" /\ held \in Task
  BY OpQuiet DEF OwnInv, LineInv
<1> QED
  BY <1>1, <1>2, OwnReturn

LEMMA OwnEnter ==
  ASSUME OwnInv, TypeInv', EnterStep
  PROVE  OwnInv'
<1>1. Running("enter") /\ "enter" \in OpCalls
  BY DEF EnterStep, EnterBegin, EnterTaken, EnterSettled, EnterFails, OpCalls
<1>2. /\ held = "op" /\ held \in Task
      /\ alive => Silent(pending) /\ Silent(buf) /\ Silent(out) /\ Silent(rin)
  BY <1>1, OpQuiet
<1>3. CASE EnterBegin
  <2>1. CASE /\ Send(<<CtrlX>>) /\ at' = "taking" /\ buf' = pending /\ pending' = <<>>
             /\ UNCHANGED <<alive, held, fresh, callers>>
    <3>1. at' \in Reading /\ ~Answering'
      BY <2>1 DEF Reading, Answering
    <3> QED
      BY <1>2, <2>1, <3>1, OwnOpAsks
  <2>2. CASE /\ \E status \in {"refused", "raised"} : Leaves(status, {})
             /\ pending' = pending /\ UNCHANGED router /\ (alive' => alive)
    BY <1>1, <2>2, OwnOpLeaves
  <2> QED
    BY <1>3, <2>1, <2>2 DEF EnterBegin, CloseOnly, client, Leaves
<1>4. CASE EnterTaken
  <2>1. CASE UNCHANGED <<client, router>> /\ Leaves("hijacked", {})
    BY <1>1, <2>1, OwnOpLeaves DEF client
  <2>2. CASE SendFramed(<<>>, "settle", pending) /\ pending' = <<>> /\ UNCHANGED alive
    BY <1>2, <2>2, OwnOpFrames
  <2> QED
    BY <1>4, <2>1, <2>2 DEF EnterTaken, Leaves
<1>5. CASE EnterSettled
  BY <1>2, <1>5, OwnOpEnds DEF EnterSettled, Leaves
<1>6. CASE EnterFails
  BY <1>1, <1>6, OwnOpLeaves DEF EnterFails, CloseOnly, Leaves
<1> QED
  BY <1>3, <1>4, <1>5, <1>6 DEF EnterStep

LEMMA OwnCommit ==
  ASSUME OwnInv, TypeInv', CommitStep
  PROVE  OwnInv'
<1>1. Running("commit") /\ "commit" \in OpCalls
  BY DEF CommitStep, CommitBegin, CommitReleased, CommitConfirmed, CommitFails, OpCalls
<1>2. /\ held = "op" /\ held \in Task
      /\ alive => Silent(pending) /\ Silent(buf) /\ Silent(out) /\ Silent(rin)
  BY <1>1, OpQuiet
<1>3. CASE CommitBegin
  <2>1. CASE /\ Send(<<CtrlX>>) /\ at' = "release" /\ buf' = <<>> /\ pending' = <<>>
             /\ UNCHANGED <<alive, held, fresh, callers>>
    <3>1. at' \in Reading /\ ~Answering'
      BY <2>1 DEF Reading, Answering
    <3> QED
      BY <1>2, <2>1, <3>1, OwnOpAsks
  <2>2. CASE /\ Leaves("lost", {}) /\ pending' = pending /\ UNCHANGED router /\ (alive' => alive)
    BY <1>1, <2>2, OwnOpLeaves
  <2> QED
    BY <1>3, <2>1, <2>2 DEF CommitBegin, MarkLost, client, Leaves
<1>4. CASE CommitReleased
  <2>1. CASE SendFramed(<<>>, "confirm", <<>>) /\ UNCHANGED client
    BY <1>2, <2>1, OwnOpFrames DEF client
  <2>2. CASE MarkLost /\ Leaves("lost", {}) /\ UNCHANGED router
    BY <1>1, <2>2, OwnOpLeaves DEF MarkLost
  <2> QED
    BY <1>4, <2>1, <2>2 DEF CommitReleased, Leaves
<1>5. CASE CommitConfirmed
  <2>1. CASE CommitVerdict = "committed"
    BY <1>1, <1>5, <2>1, OwnOpLeaves DEF CommitConfirmed, CloseUnsafe, Leaves
  <2>2. CASE CommitVerdict # "committed"
    BY <1>2, <1>5, <2>2, OwnOpEnds DEF CommitConfirmed, KeepRest, Leaves
  <2> QED
    BY <2>1, <2>2
<1>6. CASE CommitFails
  BY <1>1, <1>6, OwnOpLeaves DEF CommitFails, MarkLost, Leaves
<1> QED
  BY <1>3, <1>4, <1>5, <1>6 DEF CommitStep

LEMMA OwnClosing ==
  ASSUME OwnInv, TypeInv', Abort \/ RestoreStep
  PROVE  OwnInv'
<1>1. PICK c \in {"abort", "restore"} : Running(c)
  BY DEF Abort, RestoreStep, RestoreBegin, RestorePut, RestoreAnswer, RestoreFails
<1>2. c \in OpCalls
  BY DEF OpCalls
<1>3. /\ held = "op" /\ held \in Task
      /\ alive => Silent(pending) /\ Silent(buf) /\ Silent(out) /\ Silent(rin)
  BY <1>1, <1>2, OpQuiet
<1>4. CASE Abort
  <2>1. ~alive' /\ pending' = pending /\ Leaves("aborted", {})
    BY <1>4 DEF Abort, CloseOnly, Leaves
  <2>2. Send(<<CtrlCD>>) \/ UNCHANGED router
    BY <1>4 DEF Abort
  <2> QED
    BY <1>1, <1>2, <2>1, <2>2, OwnOpCloses, OwnOpLeaves
<1>5. CASE RestoreBegin
  <2>1. CASE at' = "sftp" /\ UNCHANGED <<client, router, held, want, buf, raw, fresh, callers>>
    <3>1. LineInv'
      BY <2>1 DEF OwnInv, LineInv, client, router
    <3>2. ReaderInv' /\ SilenceInv' /\ FenceInv' /\ MineInv'
      BY <1>2, <1>3, <2>1
         DEF ReaderInv, SilenceInv, FenceInv, MineInv, Answering, Reading, client, router
    <3> QED
      BY <2>1, <3>1, <3>2 DEF OwnInv, OwnOutputOnly, callers
  <2>2. CASE ~alive /\ UNCHANGED <<client, router>> /\ Leaves("failed", {})
    BY <1>1, <1>2, <2>2, OwnOpLeaves DEF client
  <2> QED
    BY <1>5, <2>1, <2>2 DEF RestoreBegin, Leaves
<1>6. CASE RestorePut
  <2>1. at' \in Reading /\ ~Answering'
    BY <1>6 DEF RestorePut, Reading, Answering
  <2> QED
    BY <1>3, <1>6, <2>1, OwnOpAsks DEF RestorePut
<1>7. CASE RestoreAnswer
  <2>1. ~alive' /\ pending' = pending
    BY <1>7 DEF RestoreAnswer, CloseOnly
  <2>2. CASE Send(<<Yes>>) /\ Leaves("restored", {})
    BY <1>1, <1>2, <2>1, <2>2, OwnOpCloses
  <2>3. CASE UNCHANGED router /\ Leaves("failed", {})
    BY <1>1, <1>2, <2>1, <2>3, OwnOpLeaves
  <2> QED
    BY <1>7, <2>2, <2>3 DEF RestoreAnswer, Leaves
<1>8. CASE RestoreFails
  BY <1>1, <1>2, <1>8, OwnOpLeaves DEF RestoreFails, CloseOnly, Leaves
<1> QED
  BY <1>4, <1>5, <1>6, <1>7, <1>8 DEF RestoreStep

\* Only the operator's worker is cancelled here.
LEMMA OwnCancel ==
  ASSUME CancelAgent = FALSE, OwnInv, TypeInv', CancelHolder
  PROVE  OwnInv'
<1>1. held = "op"
  BY TypeUnchanged DEF CancelHolder, MayCancel, OwnInv, Task
<1>2. ~Answering /\ held \in Task
  BY <1>1 DEF OwnInv, ReaderInv, Task
<1>3. pending' = pending /\ (alive' => alive) /\ UNCHANGED router /\ Leaves("cancelled", {})
  BY DEF CancelHolder, CloseOnly, client, Leaves
<1> QED
  BY <1>1, <1>2, <1>3, OwnReturnKeep

\* The transport is closed, and the call returns what it has.
LEMMA OwnEnds ==
  ASSUME OwnInv, TypeInv', CloseEnds
  PROVE  OwnInv'
<1>1. held \in Task /\ ~Answering
  BY TypeUnchanged DEF CloseEnds, OwnInv, Answering
<1>2. /\ UNCHANGED router /\ pending' = pending /\ (alive' => alive)
      /\ Leaves(result[held].status, result[held].text)
  BY DEF CloseEnds, Leaves
<1>3. held = "agent" /\ result[held].status = "ok" => result[held].text \subseteq {calls}
  BY DEF CloseEnds, OwnInv, MineInv, OwnOutputOnly
<1> HIDE DEF Leaves
<1> QED
  BY <1>1, <1>2, <1>3, OwnReturnKeep

LEMMA OwnStutter == ASSUME OwnInv, TypeInv', UNCHANGED vars PROVE OwnInv'
<1>1. UNCHANGED <<client, frame, callers>> /\ out' = out /\ rin' = rin
  BY DEF vars, router
<1>2. out \in Seq(Token) /\ rin \in Seq(Token) /\ MarksTo(out, fresh) /\ MarksTo(rin, fresh)
  BY DEF OwnInv, LineInv
<1> QED
  BY <1>1, <1>2, LineMoves

LEMMA OwnNext == CancelAgent = FALSE /\ OwnInv /\ [Next]_vars => OwnInv'
<1> SUFFICES ASSUME CancelAgent = FALSE, OwnInv, [Next]_vars PROVE OwnInv'
  OBVIOUS
<1>1. TypeInv'
  BY TypeNext DEF OwnInv
<1>2. CASE HolderStep
  <2>1. CASE ExecuteStep
    BY <1>1, <2>1, OwnExecuteBegin, OwnExecuteReply, OwnExecuteFails DEF ExecuteStep
  <2> QED
    BY <1>1, <1>2, <2>1, OwnReceive, OwnEnter, OwnFrames, OwnCommit, OwnClosing, OwnEnds
       DEF HolderStep
<1>3. CASE CancelHolder
  BY <1>1, <1>3, OwnCancel
<1>4. CASE RouterStep \/ LinkDrops \/ RouterNotices
  BY <1>1, <1>4, OwnRouter
<1>5. CASE UNCHANGED vars
  BY <1>1, <1>5, OwnStutter
<1>6. CASE \/ CallEnter
           \/ \E c \in AgentCalls : CallAgent(c)
           \/ \E c \in OpCalls : CallOp(c)
           \/ RestoreRefused
           \/ \E t \in Task : Acquire(t) \/ CancelWaiter(t)
  BY <1>1, <1>6, OwnCallers
<1> QED
  BY <1>2, <1>3, <1>4, <1>5, <1>6 DEF Next

\* A reply handed to the model holds the output of its own command and of no other, however
\* the text was cut into chunks, whatever timed out and whenever the operator's worker was
\* cancelled, as long as the agent's is not cancelled inside a call.
THEOREM AnswersAreOwn == CancelAgent = FALSE /\ Spec => []OwnOutputOnly
<1> DEFINE Inv == CancelAgent = FALSE /\ OwnInv
<1>1. CancelAgent = FALSE /\ Init => Inv
  BY OwnInit
<1>2. Inv /\ [Next]_vars => Inv'
  BY OwnNext
<1>3. Inv => OwnOutputOnly
  BY DEF OwnInv
<1> QED
  BY <1>1, <1>2, <1>3, PTL DEF Spec

===============================================================================
