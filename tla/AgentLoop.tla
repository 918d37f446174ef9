----------------------------- MODULE AgentLoop -----------------------------
(***************************************************************************)
(* agent/loop.py: one call of ReadOnlyAgentLoop.run, with the tools that    *)
(* agent/tool_catalog.py offers in its mode, and the stream of              *)
(* agent/providers.py: a thread that reads the provider's lines and puts    *)
(* them into a queue the run awaits.                                        *)
(*                                                                          *)
(* The screen may cancel the run at any await and take its SSH session away *)
(* (set_high_risk_executor), and the session may lose its channel.  Names   *)
(* of local tools and of the backend's do not collide.  No mode offers      *)
(* select_router_capabilities, so the branch for it is never taken.         *)
(***************************************************************************)
EXTENDS Naturals, Sequences

CONSTANTS
  Rounds,          \* MAX_TOOL_ROUNDS (8 in the code)
  HighRiskRounds,  \* MAX_HIGH_RISK_TOOL_ROUNDS (16 in the code)
  MaxLines         \* bound: lines of one reply that carry a tool call or are malformed

ASSUME AgentLoopBounds ==
  Rounds \in Nat \ {0} /\ HighRiskRounds \in Nat \ {0} /\ MaxLines \in Nat

VARIABLES
  mode,      \* the argument of run
  streams,   \* the preset supports streaming
  packs,     \* a documentation pack or field recipes are loaded
  executor,  \* _high_risk_ssh is set
  channel,   \* its SSH channel is up
  at,        \* the await the run is suspended at, or how it ended
  round,     \* rounds begun
  calls,     \* tool calls of the reply left to do
  \* --- ProviderStream ---
  thread,    \* the worker thread: "idle", "reading", "failing", "closing"
  queue,     \* what it published and the run has not read
  lines,     \* lines it has published
  heard,     \* the tool calls put together so far
  \* --- what happened ---
  late,      \* changes begun through MikroMCP after the channel was lost
  strayed    \* a call went to MikroMCP that its mode does not allow

stream == <<thread, queue, lines, heard>>
given  == <<mode, streams, packs>>
ssh    == <<executor, channel>>
ghost  == <<late, strayed>>
vars   == <<given, ssh, at, round, calls, stream, ghost>>

\* A live tool: whether its name looks like a write, a reviewed one among them; whether
\* its schema has routerId; its hints.  A reviewed tool with a secret in its schema is a
\* "write" like any other.
Live == [name : {"plain", "write", "reviewed"}, bound : BOOLEAN,
         readOnly : BOOLEAN, destructive : BOOLEAN]

\* is_router_bound_read_tool.
IsRead(t) == t.bound /\ t.name = "plain" /\ t.readOnly /\ ~t.destructive

\* is_approval_bound_change.
NeedsApproval(t) == t.bound /\ t.name = "reviewed" /\ ~t.readOnly

\* What a model may call: a live tool, the proposal of one, or something of the harness;
\* any other name is unknown.
Local == {"scenario", "ssh_exec", "search", "unknown"}
Call  == ({"tool"} \X Live) \cup ({"propose"} \X {t \in Live : NeedsApproval(t)})
           \cup ({"local"} \X Local)

\* plan_tools, ready_tools, high_risk_tools and the local tools of run.
PlanTools  == {<<"tool", t>> : t \in {t \in Live : IsRead(t)}}
ReadyTools == PlanTools \cup {<<"propose", t>> : t \in {t \in Live : NeedsApproval(t)}}
                        \cup {<<"local", "scenario">>}
HighRiskTools ==
  ReadyTools \cup ({"tool"} \X Live) \cup {<<"local", "ssh_exec">>}
             \cup (IF packs THEN {<<"local", "search">>} ELSE {})
Offered == CASE mode = "PLAN" -> PlanTools [] mode = "READY" -> ReadyTools
             [] OTHER -> HighRiskTools

\* _risk_for_tool.
Risk(t) == IF t.destructive THEN "destructive" ELSE IF t.readOnly THEN "read" ELSE "change"

MaxRounds == IF mode = "HIGH RISK" THEN HighRiskRounds ELSE Rounds
Ended     == {"completed", "proposed", "stopped", "failed", "cancelled"}

Init ==
  /\ mode \in {"PLAN", "READY", "HIGH RISK"} /\ streams \in BOOLEAN /\ packs \in BOOLEAN
  /\ executor \in BOOLEAN /\ channel = TRUE
  /\ at = "listing" /\ round = 0 /\ calls = <<>>
  /\ thread = "idle" /\ queue = <<>> /\ lines = 0 /\ heard = <<>>
  /\ late = 0 /\ strayed = FALSE

-----------------------------------------------------------------------------
(* Rounds.                                                                   *)

\* The model is asked, by stream or by complete, with a queue of its own; after the last
\* round the run stops.
NextRound ==
  /\ calls' = <<>> /\ heard' = <<>>
  /\ IF round < MaxRounds THEN
       /\ round' = round + 1 /\ queue' = <<>> /\ lines' = 0
       /\ at' = IF streams THEN "streaming" ELSE "completing"
       /\ thread' = IF streams THEN "reading" ELSE "idle"
     ELSE at' = "stopped" /\ UNCHANGED <<round, thread, queue, lines>>

\* list_tools returned; HIGH RISK without a session has nothing to offer.
Listed ==
  /\ at = "listing"
  /\ IF mode = "HIGH RISK" /\ ~executor
     THEN at' = "stopped" /\ UNCHANGED <<round, calls, stream>> ELSE NextRound
  /\ UNCHANGED <<given, ssh, ghost>>

\* A reply without calls is the answer.
Replied(reply) ==
  /\ at' = IF reply = <<>> THEN "completed" ELSE "calling"
  /\ calls' = reply /\ UNCHANGED round

\* An exception at an await: of the provider, the backend, or ssh_exec.
Fails ==
  /\ at \in {"listing", "completing", "backend", "confirming", "ssh", "counting"}
  /\ at' = "failed" /\ UNCHANGED <<given, ssh, round, calls, stream, ghost>>

\* OpenAICompatibleClient.complete.
Completed ==
  /\ at = "completing"
  /\ \E n \in 0..MaxLines : \E reply \in [1..n -> Call] : Replied(reply)
  /\ UNCHANGED <<given, ssh, stream, ghost>>

-----------------------------------------------------------------------------
(* The stream: worker() and the loop that reads its queue.                   *)

Publish(item) == queue' = Append(queue, item)

\* Text or reasoning, which no limit ends; one line of it waits in the queue at a time.
ThreadReadsText ==
  /\ thread = "reading" /\ queue = <<>> /\ Publish(<<"text", 0>>)
  /\ UNCHANGED <<given, ssh, at, round, calls, thread, lines, heard, ghost>>

\* A line with (the end of) a tool call, or one that is not JSON.
ThreadReads ==
  /\ thread = "reading" /\ lines < MaxLines /\ lines' = lines + 1
  /\ \/ \E call \in Call : Publish(<<"call", call>>)
     \/ Publish(<<"malformed", 0>>)
  /\ UNCHANGED <<given, ssh, at, round, calls, thread, heard, ghost>>

\* The provider is done, or cut the connection: HTTPException is no OSError.
ThreadDone ==
  /\ thread = "reading" /\ thread' = "closing"
  /\ UNCHANGED <<given, ssh, at, round, calls, queue, lines, heard, ghost>>

\* An HTTP error, a timeout, a connection that is refused.
ThreadFails ==
  /\ thread = "reading" /\ thread' = "closing" /\ Publish(<<"error", 0>>)
  /\ UNCHANGED <<given, ssh, at, round, calls, lines, heard, ghost>>

\* Mutant: only a reply that ended well is closed with None.
ThreadClosesAfter ==
  /\ thread = "closing" /\ thread' = "idle"
  /\ IF lines > 0 THEN Publish(<<"none", 0>>) ELSE UNCHANGED queue
  /\ UNCHANGED <<given, ssh, at, round, calls, lines, heard, ghost>>

\* Its finally block.
ThreadCloses ==
  /\ thread = "closing" /\ thread' = "idle" /\ Publish(<<"none", 0>>)
  /\ UNCHANGED <<given, ssh, at, round, calls, lines, heard, ghost>>

\* The run takes an item; at None the reply is what was heard, unless the arguments of a
\* call are not JSON.
ReadQueue ==
  /\ at = "streaming" /\ queue # <<>> /\ queue' = Tail(queue)
  /\ LET item == Head(queue) IN
       \/ item[1] = "text" /\ UNCHANGED <<at, calls, round, heard>>
       \/ /\ item[1] = "call" /\ heard' = Append(heard, item[2])
          /\ UNCHANGED <<at, calls, round>>
       \/ /\ item[1] \in {"malformed", "error"} /\ at' = "failed"
          /\ UNCHANGED <<heard, calls, round>>
       \/ item[1] = "none" /\ Replied(heard) /\ heard' = <<>>
       \/ /\ item[1] = "none" /\ heard # <<>> /\ at' = "failed"
          /\ UNCHANGED <<heard, calls, round>>
  /\ UNCHANGED <<given, ssh, thread, lines, ghost>>

-----------------------------------------------------------------------------
(* Tool calls, in their order.                                               *)

Calling == at = "calling" /\ calls # <<>>
This    == Head(calls)
Tool    == This[2]

\* The result is appended to the messages.
Answered == at' = "calling" /\ calls' = Tail(calls)

RoundDone ==
  /\ at = "calling" /\ calls = <<>> /\ NextRound
  /\ UNCHANGED <<given, ssh, ghost>>

Blocked ==
  /\ Calling /\ This \notin Offered /\ at' = "stopped"
  /\ UNCHANGED <<given, ssh, round, calls, stream, ghost>>

\* search_routeros_docs and search_field_recipes are local.
Search ==
  /\ Calling /\ This \in Offered /\ This = <<"local", "search">> /\ Answered
  /\ UNCHANGED <<given, ssh, round, stream, ghost>>

\* A proposal ends the run: it goes to the approval workflow, or has invalid values.
Propose ==
  /\ Calling /\ This \in Offered
  /\ This[1] = "propose" \/ This = <<"local", "scenario">>
  /\ at' \in {"proposed", "stopped"}
  /\ UNCHANGED <<given, ssh, round, calls, stream, ghost>>

\* _call_high_risk_ssh: refused here, or sent.
SshExec ==
  /\ Calling /\ This \in Offered /\ This = <<"local", "ssh_exec">>
  /\ Answered \/ (executor /\ at' = "ssh" /\ UNCHANGED calls)
  /\ UNCHANGED <<given, ssh, round, stream, ghost>>

\* Whatever it reports, the run goes on.
SshAnswers ==
  /\ at = "ssh" /\ Answered
  /\ UNCHANGED <<given, ssh, round, stream, ghost>>

\* backend.call_tool, with the routerId of the harness and no confirmation of the model's.
CallBackend ==
  /\ Calling /\ This \in Offered /\ This[1] = "tool" /\ at' = "backend"
  /\ late' = IF ~channel /\ Risk(Tool) # "read" THEN late + 1 ELSE late
  /\ strayed' = (strayed \/ (mode # "HIGH RISK" /\ ~IsRead(Tool)))
  /\ UNCHANGED <<given, ssh, round, calls, stream>>

\* Mutant: the Safe Mode count is not refreshed.
AfterCallUnchecked == Answered

\* In HIGH RISK a change is followed by _refresh_high_risk_safe_mode_count.
AfterCall ==
  IF mode = "HIGH RISK" /\ Risk(Tool) # "read" /\ executor
  THEN at' = "counting" /\ UNCHANGED calls ELSE Answered

\* The result, or a request to confirm, which HIGH RISK does by itself, once.
BackendAnswers ==
  /\ at = "backend"
  /\ AfterCall \/ (mode = "HIGH RISK" /\ at' = "confirming" /\ UNCHANGED calls)
  /\ UNCHANGED <<given, ssh, round, stream, ghost>>

Confirmed ==
  /\ at = "confirming" /\ AfterCall
  /\ UNCHANGED <<given, ssh, round, stream, ghost>>

\* The recount notices a lost channel; the session in hand is the one it began with.
Counted ==
  /\ at = "counting"
  /\ IF channel THEN Answered ELSE at' = "stopped" /\ UNCHANGED calls
  /\ UNCHANGED <<given, ssh, round, stream, ghost>>

-----------------------------------------------------------------------------
(* Around the run.                                                           *)

Cancel ==
  /\ at \in {"listing", "completing", "streaming", "backend", "confirming", "ssh", "counting"}
  /\ at' = "cancelled" /\ UNCHANGED <<given, ssh, round, calls, stream, ghost>>

\* The operator leaves HIGH RISK; the link breaks.
Detach ==
  /\ executor /\ at \notin Ended /\ executor' = FALSE
  /\ UNCHANGED <<given, channel, at, round, calls, stream, ghost>>

Lose ==
  /\ mode = "HIGH RISK" /\ channel /\ at \notin Ended /\ channel' = FALSE
  /\ UNCHANGED <<given, executor, at, round, calls, stream, ghost>>

\* The run goes on by itself, or at an await with a deadline: the read timeout of the
\* MikroMCP client.
RunStep ==
  \/ Listed \/ ReadQueue \/ RoundDone \/ Blocked \/ Search \/ Propose
  \/ SshExec \/ CallBackend \/ BackendAnswers \/ Confirmed

\* The answers nothing limits: response.read() ends when the provider ends, and a call of
\* the SSH session waits for its lock.
AnswerArrives == Completed \/ SshAnswers \/ Counted

Next ==
  \/ RunStep \/ AnswerArrives \/ Fails \/ Cancel \/ Detach \/ Lose
  \/ ThreadReadsText \/ ThreadReads \/ ThreadDone \/ ThreadFails \/ ThreadCloses

Spec == Init /\ [][Next]_vars

\* The thread has a timeout for each read from its socket and none for the reply, so
\* nothing makes it stop reading.
Fairness == WF_vars(RunStep) /\ WF_vars(ThreadCloses)
FairSpec == Spec /\ Fairness

-----------------------------------------------------------------------------
\* Outside HIGH RISK a run sends MikroMCP nothing but router-bound reads and ends in no
\* proposal in PLAN; in HIGH RISK, while the SSH session it began with is attached, at
\* most one change follows the loss of the channel, however many calls the replies hold
\* (ToolCatalogRouter, _refresh_high_risk_safe_mode_count).
ChangesGuarded ==
  /\ ~strayed /\ (mode = "PLAN" => at # "proposed")
  /\ executor => late <= 1

\* The answers the run may have to wait for without a deadline.
Unanswered ==
  at \in {"completing", "ssh", "counting"} \/ (at = "streaming" /\ thread = "reading")

\* A run ends, wherever the stream breaks and whatever its lines hold, or waits for ever for
\* one answer: of a provider that keeps sending, or of the SSH session.  It never waits for
\* a stream that is over, nor goes round without end (OpenAICompatibleClient.stream,
\* MAX_TOOL_ROUNDS).
RunEnds == <>(at \in Ended) \/ <>[]Unanswered

=============================================================================
