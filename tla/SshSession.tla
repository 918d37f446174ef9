------------------------------ MODULE SshSession ------------------------------
(***************************************************************************)
(* core/high_risk/ssh.py: RouterOsSshSession, one SSH connection with one   *)
(* PTY, and the RouterOS end of that PTY.                                   *)
(*                                                                          *)
(* Two tasks share the session: the agent worker (execute and               *)
(* refresh_safe_mode_action_count) and the operator's worker in the         *)
(* "high-risk" group (enter_safe_mode, commit_and_close, abort_and_close,   *)
(* restore_backup).  An asyncio.Lock serialises them, but each holder       *)
(* awaits the PTY many times, and at each await the router may answer in    *)
(* any chunks, answer late or never, the link may drop, and the task may    *)
(* be cancelled.                                                            *)
(*                                                                          *)
(* A token stands for a piece of terminal text the code tells apart.  A     *)
(* prompt is two tokens, because "[admin@router] " and "<SAFE> > " may      *)
(* arrive in different chunks.                                              *)
(***************************************************************************)
EXTENDS Naturals, Sequences

CONSTANTS
  MaxCalls,      \* bound: session calls made by the agent
  MaxDecisions,  \* bound: operator decisions (commit, abort, restore)
  CancelAgent,   \* may the agent worker be cancelled inside a call?
  CancelOp       \* may the operator's worker be cancelled inside a call?

ASSUME BoundsAssumption == MaxCalls \in Nat /\ MaxDecisions \in Nat
ASSUME CancelAssumption == CancelAgent \in BOOLEAN /\ CancelOp \in BOOLEAN

VARIABLES
  \* --- RouterOsSshSession ---
  alive,      \* _alive
  safe,       \* _safe_mode_active
  closed,     \* _connection.close() was called
  pending,    \* _pending: text read beyond the last frame
  held,       \* which task holds _lock, or "free"
  at,         \* the await the lock holder is suspended at
  want,       \* the marker (or command number) the holder waits for
  buf,        \* local text of the read in progress
  raw,        \* what commit_and_close keeps of the prompt it saw
  fresh,      \* markers handed out so far
  \* --- the two callers ---
  call,       \* call[t]: the session method task t has entered, or "none"
  result,     \* result[t]: what its last call returned or raised, or is to when the
              \* transport is closed
  stage,      \* life of the session as its owner sees it
  calls,      \* agent calls made so far; also numbers the commands
  decisions,  \* operator decisions made so far, in order
  \* --- RouterOS (external) ---
  link,       \* is the transport between the two up?
  rin,        \* keystrokes on their way to the router
  busy,       \* a command that is still running, or 0
  out,        \* text on its way to the harness
  rsafe,      \* this PTY owns Safe Mode
  change,     \* fate of the changes made under Safe Mode
  exposed     \* a command ran on the router outside Safe Mode

client  == <<alive, safe, closed, pending>>
frame   == <<held, at, want, buf, raw, fresh>>
callers == <<call, result, stage, calls, decisions>>
router  == <<link, rin, busy, out, rsafe, change, exposed>>
vars    == <<client, frame, callers, router>>

Task == {"agent", "op"}
AgentCalls == {"execute", "refresh"}
OpCalls    == {"enter", "commit", "abort", "restore"}

Head0   == <<"head", 0>>        \* "[admin@router] "
SafeTail == <<"safe", 0>>       \* "<SAFE> > "
Taken   == <<"taken", 0>>       \* "[Safe Mode taken]" or "Success!"
Hijack  == <<"hijack", 0>>      \* Safe Mode belongs to another user
Ask     == <<"ask", 0>>         \* "Restore and reboot? [y/N]"
Out(c)  == <<"out", c>>         \* output of command c; 0 is the history print
Mark(m) == <<"mark", m>>        \* the line a :put of marker m prints
Cmd(c)  == <<"cmd", c>>
CtrlX   == <<"ctrlX", 0>>
CtrlC   == <<"ctrlC", 0>>
CtrlCD  == <<"ctrlCD", 0>>
Load    == <<"load", 0>>
Yes     == <<"yes", 0>>

NoResult == [status |-> "none", cmd |-> 0, text |-> {}]

-------------------------------------------------------------------------------
(* What the code reads out of the text it has gathered.                       *)

Has(s, tok) == \E i \in 1..Len(s) : s[i] = tok

\* The text before and after the first occurrence of a token.
Before(s, tok) ==
  LET i == CHOOSE j \in 1..Len(s) : s[j] = tok /\ \A k \in 1..(j - 1) : s[k] # tok
  IN  SubSeq(s, 1, i - 1)
After(s, tok) ==
  SubSeq(s, Len(Before(s, tok)) + 2, Len(s))

\* _prompt_is_safe: the last prompt in the text, if any, carries <SAFE> or not.
PromptState(s) ==
  LET heads == {i \in 1..Len(s) : s[i] = Head0}
  IN  IF heads = {} THEN "none"
      ELSE LET last == CHOOSE i \in heads : \A j \in heads : j <= i
           IN  IF last < Len(s) /\ s[last + 1] = SafeTail THEN "safe" ELSE "bare"

\* Commands whose output appears in a piece of text.
Outputs(s) == {s[i][2] : i \in {j \in 1..Len(s) : s[j][1] = "out"}}

\* The read in progress has what it waits for: one line per _read_until_*.
Satisfied ==
  CASE at = "taking"  -> Has(buf, Hijack) \/ (Has(buf, SafeTail) /\ Has(buf, Taken))
    [] at = "release" -> PromptState(buf) = "bare"
    [] at = "ask"     -> Has(buf, Ask)
    [] OTHER          -> Has(buf, Mark(want))

Reading == {"taking", "settle", "reply", "resync", "recount", "release",
            "confirm", "ask"}
Waiting == held \in Task /\ at \in Reading /\ ~Satisfied

-------------------------------------------------------------------------------
Init ==
  /\ alive = TRUE /\ safe = FALSE /\ closed = FALSE
  /\ pending = <<>>
  /\ held = "free" /\ at = "idle" /\ want = 0 /\ buf = <<>> /\ raw = <<>>
  /\ fresh = 0
  /\ call = [t \in Task |-> "none"]
  /\ result = [t \in Task |-> NoResult]
  /\ stage = "connected" /\ calls = 0 /\ decisions = <<>>
  /\ link = "up" /\ rin = <<>> /\ busy = 0 /\ out = <<>>
  /\ rsafe = FALSE /\ change = "none" /\ exposed = FALSE

-------------------------------------------------------------------------------
(* The callers.                                                               *)

Enter(t, c) == call[t] = "none" /\ call' = [call EXCEPT ![t] = c]

\* HighRiskService.enter asks for Safe Mode once, after the pre-flight.
CallEnter ==
  /\ stage = "connected" /\ Enter("op", "enter")
  /\ stage' = "entering"
  /\ UNCHANGED <<client, frame, result, calls, decisions, router>>

\* The agent holds the session only after set_high_risk_executor(session).
CallAgent(c) ==
  /\ stage = "unlocked" /\ calls < MaxCalls /\ Enter("agent", c)
  /\ calls' = calls + 1
  /\ UNCHANGED <<client, frame, result, stage, decisions, router>>

\* The operator decides; a failed entry, or a commit that lost the channel, is
\* always followed by abort_and_close.
CallOp(c) ==
  /\ \/ stage = "unlocked" /\ c \in {"commit", "abort", "restore"}
        /\ Len(decisions) < MaxDecisions /\ decisions' = Append(decisions, c)
     \/ stage = "failed" /\ c = "abort" /\ UNCHANGED decisions
  /\ Enter("op", c)
  /\ UNCHANGED <<client, frame, result, stage, calls, router>>

\* restore_backup without a backup on disk: it raises before the lock, and asks nothing.
RestoreRefused ==
  /\ stage = "unlocked" /\ call["op"] = "none"
  /\ Len(decisions) < MaxDecisions /\ decisions' = Append(decisions, "restore")
  /\ result' = [result EXCEPT !["op"] = [NoResult EXCEPT !.status = "raised"]]
  /\ UNCHANGED <<client, frame, call, stage, calls, router>>

\* async with self._lock
Acquire(t) ==
  /\ held = "free" /\ call[t] # "none"
  /\ held' = t /\ at' = "begin"
  /\ UNCHANGED <<client, want, buf, raw, fresh, callers, router>>

\* Mutant of StageAfter: a failed entry leaves its status where the stage belongs.
StageAfterRaw(c, status) ==
  IF c = "enter" THEN IF status = "entered" THEN "unlocked" ELSE status
  ELSE IF c = "commit" /\ status = "lost" THEN "failed"
  ELSE IF c \in OpCalls /\ status \in {"committed", "aborted", "restored"} THEN "left"
  ELSE stage

\* Where the session's owner stands after its call ended with this status.
StageAfter(c, status) ==
  IF c = "enter" THEN IF status = "entered" THEN "unlocked" ELSE "failed"
  ELSE IF c = "commit" /\ status = "lost" THEN "failed"
  ELSE IF c \in OpCalls /\ status \in {"committed", "aborted", "restored"} THEN "left"
  ELSE stage

\* A call returns or raises: the lock is released and the frame is gone.
Return(status, text) ==
  /\ call' = [call EXCEPT ![held] = "none"]
  /\ result' = [result EXCEPT ![held] = [status |-> status, cmd |-> calls, text |-> text]]
  /\ stage' = StageAfter(call[held], status)
  /\ held' = "free" /\ at' = "idle" /\ want' = 0 /\ buf' = <<>> /\ raw' = <<>>
  /\ UNCHANGED <<fresh, calls, decisions>>

\* A call is over but for _close_transport, which waits for the end of the connection
\* and still holds the lock.
Closes(status, text) ==
  /\ result' = [result EXCEPT ![held] = [status |-> status, cmd |-> calls, text |-> text]]
  /\ at' = "closing" /\ want' = 0 /\ buf' = <<>> /\ raw' = <<>>
  /\ UNCHANGED <<held, fresh, call, stage, calls, decisions>>

-------------------------------------------------------------------------------
(* What the methods share.                                                    *)

Running(c) == held # "free" /\ call[held] = c

\* A write or a read on a dead transport raises (a write may also be swallowed).
Broken == link = "down"

\* _write
Send(keys) ==
  /\ rin' = IF link = "up" THEN rin \o keys ELSE rin
  /\ UNCHANGED <<link, busy, out, rsafe, change, exposed>>

\* Write keys and a fresh marker, then read up to that marker.
SendFramed(keys, where, leftover) ==
  /\ Send(keys \o <<Mark(fresh + 1)>>)
  /\ at' = where /\ want' = fresh + 1 /\ fresh' = fresh + 1 /\ buf' = leftover
  /\ UNCHANGED <<held, callers>>

\* _mark_transport_lost: fail closed, but leave the connection object alone.
MarkLost ==
  /\ alive' = FALSE /\ safe' = FALSE
  /\ UNCHANGED <<closed, pending>>

\* Mutant of CloseOnly: the flag is cleared, the connection stays.
CloseOnlyFlag == alive' = FALSE /\ UNCHANGED <<safe, closed, pending>>

\* _close_transport up to its wait.
CloseOnly ==
  /\ alive' = FALSE /\ closed' = TRUE
  /\ UNCHANGED <<safe, pending>>

\* The same, when Safe Mode was written off before.
CloseUnsafe ==
  /\ alive' = FALSE /\ closed' = TRUE /\ safe' = FALSE
  /\ UNCHANGED pending

\* The connection has ended.  abort_and_close and restore_backup write Safe Mode off last.
CloseEnds ==
  /\ at = "closing"
  /\ safe' = (safe /\ call[held] \notin {"abort", "restore"})
  /\ Return(result[held].status, result[held].text)
  /\ UNCHANGED <<alive, closed, pending, router>>

\* The frame is complete: the text after it is kept for the next read.
KeepRest ==
  /\ pending' = After(buf, Mark(want))
  /\ UNCHANGED <<alive, safe, closed>>

\* _read_stdout: any nonempty prefix of what the router sent arrives.
Receive ==
  /\ Waiting /\ out # <<>>
  /\ \E n \in 1..Len(out) :
       /\ buf' = buf \o SubSeq(out, 1, n)
       /\ out' = SubSeq(out, n + 1, Len(out))
  /\ UNCHANGED <<client, callers, held, at, want, raw, fresh,
                 link, rin, busy, rsafe, change, exposed>>

-------------------------------------------------------------------------------
(* enter_safe_mode                                                            *)

EnterBegin ==
  /\ Running("enter") /\ at = "begin"
  /\ \/ /\ alive /\ Send(<<CtrlX>>)
        /\ at' = "taking" /\ buf' = pending /\ pending' = <<>>
        /\ UNCHANGED <<alive, safe, closed, held, want, raw, fresh, callers>>
     \/ /\ alive /\ Broken /\ CloseOnly /\ Closes("refused", {})
        /\ UNCHANGED router
     \/ ~alive /\ UNCHANGED <<client, router>> /\ Return("raised", {})

\* Mutant of EnterTaken: the hijack question is taken for success.
EnterTakenByAny ==
  /\ Running("enter") /\ at = "taking" /\ Satisfied
  /\ SendFramed(<<>>, "settle", pending)
  /\ pending' = <<>> /\ UNCHANGED <<alive, safe, closed, raw>>

EnterTaken ==
  /\ Running("enter") /\ at = "taking" /\ Satisfied
  /\ \/ Has(buf, Hijack) /\ UNCHANGED <<client, router>> /\ Return("hijacked", {})
     \/ /\ ~Has(buf, Hijack) /\ SendFramed(<<>>, "settle", pending)
        /\ pending' = <<>> /\ UNCHANGED <<alive, safe, closed, raw>>

EnterSettled ==
  /\ Running("enter") /\ at = "settle" /\ Satisfied
  /\ safe' = TRUE /\ pending' = After(buf, Mark(want))
  /\ UNCHANGED <<alive, closed, router>>
  /\ Return("entered", {})

\* A timeout or an error closes the transport and reports False.
EnterFails ==
  /\ Running("enter") /\ Waiting
  /\ CloseOnly /\ Closes("refused", {}) /\ UNCHANGED router

-------------------------------------------------------------------------------
(* execute, _timeout_result and _refresh_safe_mode_action_count               *)

ExecuteBegin ==
  /\ Running("execute") /\ at = "begin"
  /\ \/ /\ ~alive /\ safe' = FALSE
        /\ UNCHANGED <<alive, closed, pending, router>>
        /\ Return("connection_lost", {})
     \/ /\ alive /\ Broken /\ MarkLost /\ Return("connection_lost", {})
        /\ UNCHANGED router
     \/ /\ alive /\ SendFramed(<<Cmd(calls)>>, "reply", pending)
        /\ pending' = <<>> /\ UNCHANGED <<alive, safe, closed, raw>>

\* The reply is framed; under Safe Mode the action counter is read next.
ExecuteReply ==
  /\ Running("execute") /\ at = "reply" /\ Satisfied
  /\ \/ /\ ~safe /\ KeepRest /\ Return("ok", Outputs(Before(buf, Mark(want))))
        /\ UNCHANGED router
     \/ /\ safe /\ SendFramed(<<Cmd(0)>>, "recount", After(buf, Mark(want)))
        /\ raw' = Before(buf, Mark(want)) /\ UNCHANGED client
     \/ /\ safe /\ Broken
        /\ CloseUnsafe /\ Closes("ok", Outputs(Before(buf, Mark(want))))
        /\ UNCHANGED router

ExecuteLost ==
  /\ Running("execute") /\ at = "reply" /\ Waiting /\ Broken
  /\ MarkLost /\ Return("connection_lost", {}) /\ UNCHANGED router

\* Mutant of ExecuteTimeout: Ctrl+C without reading up to a new marker.
ExecuteTimeoutUnframed ==
  /\ Running("execute") /\ at = "reply" /\ Waiting
  /\ Send(<<CtrlC>>) /\ UNCHANGED client /\ Return("timeout", {})

\* _timeout_result: Ctrl+C, then read up to a new marker.  The text gathered so
\* far is kept in _pending when the deadline check raised, lost when wait_for did.
ExecuteTimeout ==
  /\ Running("execute") /\ at = "reply" /\ Waiting
  /\ \/ /\ \E leftover \in {<<>>, buf} : SendFramed(<<CtrlC>>, "resync", leftover)
        /\ UNCHANGED <<client, raw>>
     \/ /\ Broken /\ CloseOnly /\ Closes("desynchronized", {})
        /\ UNCHANGED router

ResyncDone ==
  /\ at = "resync" /\ Satisfied
  /\ KeepRest /\ Return("timeout", {}) /\ UNCHANGED router

ResyncFails ==
  /\ at = "resync" /\ Waiting
  /\ CloseOnly /\ Closes("desynchronized", {}) /\ UNCHANGED router

RefreshBegin ==
  /\ Running("refresh") /\ at = "begin"
  /\ \/ ~(alive /\ safe) /\ UNCHANGED <<client, router>> /\ Return("uncounted", {})
     \/ /\ alive /\ safe /\ SendFramed(<<Cmd(0)>>, "recount", pending)
        /\ pending' = <<>> /\ UNCHANGED <<alive, safe, closed, raw>>
     \/ /\ alive /\ safe /\ Broken /\ CloseUnsafe /\ Closes("uncounted", {})
        /\ UNCHANGED router

RecountDone ==
  /\ at = "recount" /\ Satisfied
  /\ KeepRest /\ UNCHANGED router
  /\ Return(IF call[held] = "execute" THEN "ok" ELSE "counted", Outputs(raw))

\* The command itself was framed: execute still reports "ok", on a dead session.
RecountFails ==
  /\ at = "recount" /\ Waiting
  /\ CloseUnsafe /\ UNCHANGED router
  /\ Closes(IF call[held] = "execute" THEN "ok" ELSE "uncounted", Outputs(raw))

-------------------------------------------------------------------------------
(* commit_and_close, abort_and_close, restore_backup                          *)

CommitBegin ==
  /\ Running("commit") /\ at = "begin"
  /\ \/ ~alive /\ UNCHANGED <<client, router>> /\ Return("lost", {})
     \/ alive /\ Broken /\ MarkLost /\ Return("lost", {}) /\ UNCHANGED router
     \/ /\ alive /\ Send(<<CtrlX>>)
        /\ at' = "release" /\ buf' = <<>> /\ pending' = <<>>
        /\ UNCHANGED <<alive, safe, closed, held, want, raw, fresh, callers>>

\* Mutant of CommitReleased: the first prompt without <SAFE> is evidence enough.
CommitReleasedUnfenced ==
  /\ Running("commit") /\ at = "release" /\ Satisfied
  /\ CloseUnsafe /\ Closes("committed", {}) /\ UNCHANGED router

CommitReleased ==
  /\ Running("commit") /\ at = "release" /\ Satisfied
  /\ \/ SendFramed(<<>>, "confirm", <<>>) /\ raw' = buf /\ UNCHANGED client
     \/ Broken /\ MarkLost /\ Return("lost", {}) /\ UNCHANGED router

\* Only the last prompt before the marker's own line counts as evidence.
CommitVerdict ==
  IF PromptState(raw \o Before(buf, Mark(want))) = "bare"
  THEN "committed" ELSE "unverified"

\* Mutant of CommitConfirmed: success without closing the transport.
CommitConfirmedOpen ==
  /\ Running("commit") /\ at = "confirm" /\ Satisfied
  /\ KeepRest /\ Return(CommitVerdict, {}) /\ UNCHANGED router

CommitConfirmed ==
  /\ Running("commit") /\ at = "confirm" /\ Satisfied
  /\ IF CommitVerdict = "committed" THEN CloseUnsafe /\ Closes("committed", {})
     ELSE KeepRest /\ Return("unverified", {})
  /\ UNCHANGED router

\* Mutant of CommitFails: the wait for the prompt has no deadline.
CommitFailsOnEof ==
  /\ Running("commit") /\ Waiting /\ Broken
  /\ MarkLost /\ Return("lost", {}) /\ UNCHANGED router

CommitFails ==
  /\ Running("commit") /\ Waiting
  /\ MarkLost /\ Return("lost", {}) /\ UNCHANGED router

\* Mutant of Abort: Ctrl+X releases Safe Mode instead of Ctrl+D ending it.
AbortByToggle ==
  /\ Running("abort") /\ at = "begin"
  /\ \/ alive /\ safe /\ Send(<<CtrlX>>)
     \/ ~(alive /\ safe /\ ~Broken) /\ UNCHANGED router
  /\ CloseOnly /\ Closes("aborted", {})

Abort ==
  /\ Running("abort") /\ at = "begin"
  /\ \/ alive /\ safe /\ Send(<<CtrlCD>>)
     \/ ~(alive /\ safe /\ ~Broken) /\ UNCHANGED router
  /\ CloseOnly /\ Closes("aborted", {})

\* The session is checked, then the SFTP client is started.
RestoreBegin ==
  /\ Running("restore") /\ at = "begin" /\ UNCHANGED <<client, router>>
  /\ \/ ~alive /\ Return("failed", {})
     \/ alive /\ at' = "sftp" /\ UNCHANGED <<held, want, buf, raw, fresh, callers>>

\* Mutant of RestorePut: Safe Mode is released before the backup is loaded.
RestorePutReleased ==
  /\ Running("restore") /\ at = "sftp" /\ Send(<<CtrlX, Load>>)
  /\ at' = "ask" /\ buf' = pending /\ pending' = <<>>
  /\ UNCHANGED <<alive, safe, closed, held, want, raw, fresh, callers>>

\* The backup is on the router, and is loaded.
RestorePut ==
  /\ Running("restore") /\ at = "sftp" /\ Send(<<Load>>)
  /\ at' = "ask" /\ buf' = pending /\ pending' = <<>>
  /\ UNCHANGED <<alive, safe, closed, held, want, raw, fresh, callers>>

RestoreAnswer ==
  /\ Running("restore") /\ at = "ask" /\ Satisfied /\ CloseOnly
  /\ \/ Send(<<Yes>>) /\ Closes("restored", {})
     \/ Broken /\ Closes("failed", {}) /\ UNCHANGED router

\* SFTP or the transport fails, or there was no question in time.
RestoreFails ==
  /\ Running("restore") /\ (Waiting \/ at = "sftp")
  /\ CloseOnly /\ Closes("failed", {}) /\ UNCHANGED router

-------------------------------------------------------------------------------
(* Task.cancel() from an exclusive worker of the same group.                  *)

MayCancel(t) == IF t = "agent" THEN CancelAgent ELSE CancelOp

\* CancelledError inside the await: the lock is released, the text read so far
\* is dropped, and only restore_backup has a finally that closes.
CancelHolder ==
  /\ MayCancel(held) /\ UNCHANGED router
  /\ \/ /\ at = "closing" \/ (Waiting /\ call[held] # "restore")
        /\ UNCHANGED client /\ Return("cancelled", {})
     \/ /\ Waiting \/ at = "sftp"
        /\ call[held] = "restore" /\ CloseOnly /\ Closes("cancelled", {})

\* CancelledError while still waiting for the lock.
CancelWaiter(t) ==
  /\ call[t] # "none" /\ held # t /\ MayCancel(t)
  /\ call' = [call EXCEPT ![t] = "none"]
  /\ result' = [result EXCEPT ![t] = [NoResult EXCEPT !.status = "cancelled"]]
  /\ stage' = StageAfter(call[t], "cancelled")
  /\ UNCHANGED <<client, frame, calls, decisions, router>>

-------------------------------------------------------------------------------
(* RouterOS (external): keystrokes are taken in order, one prompt per answer. *)

Prompt(s) == IF s THEN <<Head0, SafeTail>> ELSE <<Head0>>

\* A print has no effect; any other command changes the configuration.
Effect(c) ==
  /\ change' = IF c # 0 /\ rsafe /\ change = "none" THEN "floating" ELSE change
  /\ exposed' = (exposed \/ (c # 0 /\ ~rsafe))

RouterCommand(c) ==
  /\ rin[1] = Cmd(c) /\ Effect(c)
  /\ \/ busy' = 0 /\ out' = out \o <<Out(c)>> \o Prompt(rsafe)
     \/ busy' = 1 /\ out' = out \o <<Out(c)>>      \* it runs on for a while
  /\ UNCHANGED rsafe

RouterToggle(foreign) ==
  /\ rin[1] = CtrlX
  /\ IF rsafe
     THEN /\ rsafe' = FALSE /\ out' = out \o Prompt(FALSE)
          /\ change' = IF change = "floating" THEN "kept" ELSE change
     ELSE IF foreign
     THEN out' = out \o <<Hijack>> /\ UNCHANGED <<rsafe, change>>
     ELSE rsafe' = TRUE /\ out' = out \o <<Taken>> \o Prompt(TRUE) /\ UNCHANGED change
  /\ UNCHANGED <<busy, exposed>>

RouterEcho ==
  /\ \/ rin[1][1] = "mark" /\ out' = out \o <<rin[1]>> \o Prompt(rsafe)
     \/ rin[1] = CtrlC /\ out' = out \o Prompt(rsafe)
     \/ rin[1] = Load /\ out' = out \o <<Ask>>
  /\ UNCHANGED <<busy, rsafe, change, exposed>>

RouterTakes ==
  /\ busy = 0 /\ rin # <<>> /\ rin[1] \notin {CtrlCD, Yes}
  /\ \/ \E c \in 0..MaxCalls : RouterCommand(c)
     \/ \E foreign \in BOOLEAN : RouterToggle(foreign)
     \/ RouterEcho
  /\ rin' = SubSeq(rin, 2, Len(rin)) /\ UNCHANGED <<client, frame, callers, link>>

\* The running command ends by itself.
RouterFinishes ==
  /\ busy = 1 /\ busy' = 0 /\ out' = out \o Prompt(rsafe)
  /\ UNCHANGED <<client, frame, callers, link, rin, rsafe, change, exposed>>

\* Ctrl+C stops the running command; what was typed ahead of it may be flushed.
RouterInterrupted ==
  /\ busy = 1
  /\ \E i \in 1..Len(rin) :
       /\ rin[i] = CtrlC
       /\ \/ rin' = SubSeq(rin, i + 1, Len(rin))
          \/ rin' = SubSeq(rin, 1, i - 1) \o SubSeq(rin, i + 1, Len(rin))
  /\ busy' = 0 /\ out' = out \o Prompt(rsafe)
  /\ UNCHANGED <<client, frame, callers, link, rsafe, change, exposed>>

Undone == IF change = "floating" THEN "undone" ELSE change

\* Ctrl+D ends the shell, a confirmed restore reboots: both end the session.
RouterEnds ==
  /\ rin # <<>>
  /\ \/ \E i \in 1..Len(rin) : rin[i] = CtrlCD /\ (busy = 1 \/ i = 1)
     \/ busy = 0 /\ rin[1] = Yes
  /\ link' = "down" /\ rin' = <<>> /\ busy' = 0 /\ out' = out
  /\ rsafe' = FALSE /\ change' = Undone
  /\ UNCHANGED <<client, frame, callers, exposed>>

\* The transport fails; keystrokes already sent may still arrive.
LinkDrops ==
  /\ link = "up" /\ link' = "down"
  /\ UNCHANGED <<client, frame, callers, rin, busy, out, rsafe, change, exposed>>

\* RouterOS notices that the session is gone and unrolls Safe Mode.
RouterNotices ==
  /\ link = "down" \/ closed
  /\ rsafe \/ rin # <<>> \/ link = "up"
  /\ link' = "down" /\ rin' = <<>> /\ busy' = 0
  /\ rsafe' = FALSE /\ change' = Undone
  /\ UNCHANGED <<client, frame, callers, out, exposed>>

-------------------------------------------------------------------------------
EnterStep   == EnterBegin \/ EnterTaken \/ EnterSettled \/ EnterFails
ExecuteStep == ExecuteBegin \/ ExecuteReply \/ ExecuteLost \/ ExecuteTimeout
RecountStep == RefreshBegin \/ RecountDone \/ RecountFails
ResyncStep  == ResyncDone \/ ResyncFails
CommitStep  == CommitBegin \/ CommitReleased \/ CommitConfirmed \/ CommitFails
RestoreStep == RestoreBegin \/ RestorePut \/ RestoreAnswer \/ RestoreFails
HolderStep  == \/ Receive \/ EnterStep \/ ExecuteStep \/ RecountStep
               \/ ResyncStep \/ CommitStep \/ Abort \/ RestoreStep \/ CloseEnds
RouterStep  == RouterTakes \/ RouterFinishes \/ RouterInterrupted \/ RouterEnds

Next ==
  \/ CallEnter
  \/ \E c \in AgentCalls : CallAgent(c)
  \/ \E c \in OpCalls : CallOp(c)
  \/ RestoreRefused
  \/ \E t \in Task : Acquire(t)
  \/ HolderStep
  \/ CancelHolder
  \/ \E t \in Task : CancelWaiter(t)
  \/ RouterStep
  \/ LinkDrops
  \/ RouterNotices

\* The awaits under the lock that nothing limits: start_sftp_client and put, and
\* wait_closed (keepalive_interval is 0).
Unlimited == {"sftp", "closing"}

\* Every read of the PTY has a deadline and the event loop resumes ready tasks; an
\* asyncio.Lock goes to the task that waits longest; RouterOS notices a dead session.
\* SFTP, the end of a connection, the callers, the link and the router's answers are free.
Fairness ==
  /\ WF_vars(at \notin Unlimited /\ HolderStep)
  /\ \A t \in Task : SF_vars(Acquire(t))
  /\ WF_vars(RouterNotices)

Spec == Init /\ [][Next]_vars
FairSpec == Spec /\ Fairness

-------------------------------------------------------------------------------
(* Properties.                                                                *)

Status == {"none", "entered", "refused", "raised", "hijacked", "ok", "timeout",
           "connection_lost", "desynchronized", "counted", "uncounted",
           "committed", "unverified", "lost", "aborted", "restored", "failed",
           "cancelled"}

TypeOK ==
  /\ {alive, safe, closed, rsafe, exposed} \subseteq BOOLEAN
  /\ held \in Task \cup {"free"} /\ at \in Reading \cup Unlimited \cup {"idle", "begin"}
  /\ call["agent"] \in AgentCalls \cup {"none"}
  /\ call["op"] \in OpCalls \cup {"none"}
  /\ \A t \in Task : result[t].status \in Status
  /\ stage \in {"connected", "entering", "unlocked", "failed", "left"}
  /\ calls \in 0..MaxCalls /\ Len(decisions) <= MaxDecisions
  /\ link \in {"up", "down"} /\ busy \in {0, 1}
  /\ change \in {"none", "floating", "kept", "undone"}

\* A reply handed to the model holds the output of its own command and of no
\* other one, however the text was cut into chunks and whatever timed out.
OwnOutputOnly ==
  result["agent"].status = "ok" => result["agent"].text \subseteq {result["agent"].cmd}

\* When commit_and_close returns True, RouterOS has released Safe Mode and the
\* changes are kept: they are neither still floating nor rolled back.
CommitIsKept ==
  result["op"].status = "committed" => ~rsafe /\ change \in {"none", "kept"}

\* No command the agent issued runs on the router outside Safe Mode.
NoUnprotectedCommand == ~exposed

\* While nobody is inside a session method, a live session that reports Safe
\* Mode as active still owns it on the router, unless the link just went down.
BeliefMatchesRouter ==
  held = "free" /\ alive /\ safe /\ link = "up" => rsafe

\* Changes are kept only if the operator once asked for a commit: a failed
\* entry, an abort, a restore or a lost link never leaves them in place.
KeptOnlyByCommit == change = "kept" => Has(decisions, "commit")

\* Every call returns, unless the lock stays for ever with a call that waits for SFTP or
\* for the end of the connection: no wait for the PTY lasts for ever, and no exit of a
\* method, cancelled or not, keeps the lock.
CallsReturn == \A t \in Task : call[t] # "none" ~> (call[t] = "none" \/ [](at \in Unlimited))

\* Once the operator has left the session, by commit, abort or restore, or the harness
\* has closed it for any reason, RouterOS does not keep Safe Mode held and no change
\* stays floating, also when the wait for the end of the connection never ends.
SafeModeSettles == closed \/ stage = "left" ~> ~rsafe /\ change # "floating"

\* The session implements what is promised to the operator: no change outside
\* Safe Mode, none kept unasked, and "committed" is reported only when it is so.
Contract == INSTANCE SafeModeContract WITH
  protected <- rsafe, ledger <- change,
  asked <- Has(decisions, "commit"), told <- result["op"].status = "committed"
ImplementsContract == Contract!Spec

===============================================================================
