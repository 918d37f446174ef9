-------------------------------- MODULE Console --------------------------------
(***************************************************************************)
(* ui/textual/chat.py: ChatScreen, the state the operator's keys, three     *)
(* groups of exclusive workers and the inline panel share, and the parts of *)
(* agent/loop.py that read or write that state.                             *)
(*                                                                          *)
(* The workers are asyncio tasks: between two awaits a task runs alone, at  *)
(* an await any other task and any key may come in.  Starting a worker in a *)
(* group cancels the one that runs there; the cancelled one still runs its  *)
(* finally block, possibly later (service.enter shields its cleanup).       *)
(* Tab and Escape are priority bindings: they work while the input is off.  *)
(*                                                                          *)
(* An SSH session is seen as SshSession and SafeModeContract describe it;   *)
(* ReadyChange opens up what one runbook job does.                          *)
(***************************************************************************)
EXTENDS Naturals, FiniteSets

CONSTANTS
  MaxPlans,     \* bound: runbook plans started
  MaxEntries    \* bound: HIGH RISK sessions opened

ASSUME ConsoleBounds ==
  MaxPlans \in Nat /\ MaxEntries \in Nat

VARIABLES
  \* --- ChatScreen ---
  mode,        \* _mode
  session,     \* _high_risk_session: 0 or the number of a session
  inputOn,     \* #chat-input is not disabled
  shown,       \* the question on the inline panel (_interaction and its text)
  approvalCb,  \* the question _approval_callback and _approval_amend belong to
  choiceCb,    \* the question _choice_callback belongs to
  pending,     \* _pending_runbook: 0 or the number of a plan
  pendingUndo, \* _pending_rollback is set
  \* --- its workers ---
  hr,          \* the worker of group "high-risk"
  hrOf,        \* the session it took into its local variable
  job,         \* the worker of group "runbook"
  jobOf,       \* the plan it works on
  agent,       \* the worker of group "agent"
  agentMode,   \* the mode it passed to agent.run, PLAN when no run is under way
  sawLoss,     \* its events hold a result with session_alive = False
  agentOf,     \* the session it is dropping, or 0
  unwinding,   \* what cancelled workers have left to do in their finally
  \* --- ReadOnlyAgentLoop, HighRiskService ---
  executor,    \* _high_risk_ssh: 0 or the number of a session
  trusted,     \* the SSH host key is pinned
  ssh,         \* ssh[s]: state of SSH session s
  opened,      \* sessions opened so far
  \* --- what happened, for the properties ---
  offline,     \* _router_offline
  plans,
  approved,    \* plans whose own approval was answered with yes
  applied      \* plans carried out on the router

panelVars  == <<shown, approvalCb, choiceCb, inputOn>>
modeVars   == <<mode, session, executor>>
hrVars     == <<hr, hrOf>>
jobVars    == <<job, jobOf, pending, pendingUndo, plans>>
agentVars  == <<agent, agentMode, sawLoss, agentOf, offline>>
sshVars    == <<ssh, opened, trusted>>
ghostVars  == <<approved, applied>>
vars == <<panelVars, modeVars, hrVars, jobVars, agentVars, sshVars, unwinding,
          ghostVars>>

Session == 1..MaxEntries
Plan    == 1..MaxPlans

\* A question is a kind and, for a plan approval, the plan it shows.
Q(kind)  == <<kind, 0>>
None     == Q("none")
ApprovalOf(p) == <<"plan", p>>
Undo     == Q("undo")
Choices  == {Q("trust"), Q("exit"), Q("restore1"), Q("restore2")}
Approvals == {ApprovalOf(p) : p \in Plan} \cup {Undo}
Form     == Q("form")

\* alive and in Safe Mode; alive with Safe Mode released; the link is down and
\* nobody noticed; closed by the harness, whether committed, rolled back or lost.
SshState == {"new", "open", "bare", "cut", "closed"}
Alive(s) == s # 0 /\ ssh[s] \in {"open", "bare"}

\* The high-risk worker is on its way out of the session it took.
Leaving == {"committing", "aborting", "restoring"}

Init ==
  /\ mode = "PLAN" /\ session = 0 /\ executor = 0
  /\ inputOn = TRUE /\ shown = None /\ approvalCb = None /\ choiceCb = None
  /\ pending = 0 /\ pendingUndo = FALSE
  /\ hr = "idle" /\ hrOf = 0 /\ job = "idle" /\ jobOf = 0
  /\ agent = "idle" /\ agentMode = "PLAN" /\ sawLoss = FALSE /\ agentOf = 0
  /\ unwinding = {} /\ trusted \in BOOLEAN
  /\ ssh = [s \in Session |-> "new"] /\ opened = 0
  /\ offline = FALSE /\ plans = 0
  /\ approved = {} /\ applied = {}

-------------------------------------------------------------------------------
(* The inline panel.                                                          *)

\* Mutant of ShowApproval: its callback is stored where a choice's belongs.
ShowApprovalSwapped(q) == shown' = q /\ choiceCb' = q /\ UNCHANGED approvalCb

\* _show_approval and _show_choice each set their own callback only.
ShowApproval(q) == shown' = q /\ approvalCb' = q /\ UNCHANGED choiceCb
ShowChoice(q)   == shown' = q /\ choiceCb' = q /\ UNCHANGED approvalCb
ShowForm        == shown' = Form /\ UNCHANGED <<approvalCb, choiceCb>>

\* _close_inline, but for the input, which it switches on.
Close == shown' = None /\ approvalCb' = None /\ choiceCb' = None

\* The composer is visible and accepts a line.
CanType == inputOn /\ shown = None

-------------------------------------------------------------------------------
(* Starting a worker: the running one of its group is cancelled.              *)

\* What the finally block of a worker does: to the input, _pending_runbook too, or
\* _pending_rollback.
Finally(worker) ==
  CASE worker \in {"idle", "previewing"} -> {}
    [] worker = "undoing" -> {"undo"}
    [] worker \in {"applying", "verifying", "continuing"} -> {"apply"}
    [] OTHER -> {"input"}

Cancelled(worker) == unwinding \cup Finally(worker)

\* What a cancelled high-risk worker leaves of the session it was closing: the
\* Ctrl+X of a commit or the Ctrl+D of an abort may be out already, the transport may be
\* closing, and restore_backup closes in a finally.
Abandoned ==
  {ssh[hrOf]}
    \cup (IF hr \in Leaving \cup {"dropping"} THEN {"closed"} ELSE {})
    \cup (IF hr = "committing" /\ Alive(hrOf) THEN {"open", "bare"} ELSE {})

CancelHr ==
  /\ unwinding' = Cancelled(hr)
  /\ IF hrOf = 0 THEN UNCHANGED ssh
     ELSE \E left \in Abandoned : ssh' = [ssh EXCEPT ![hrOf] = left]
  /\ UNCHANGED opened

HrIdle == hr' = "idle" /\ hrOf' = 0

StartEnter == CancelHr /\ hr' = "entering" /\ hrOf' = 0 /\ inputOn' = FALSE

\* _leave_high_risk and _restore_high_risk_backup return at once without a session.
StartLeave(kind) ==
  /\ CancelHr /\ UNCHANGED trusted
  /\ IF session = 0 THEN HrIdle /\ inputOn' = TRUE
     ELSE hr' = kind /\ hrOf' = session /\ inputOn' = FALSE

StartJob(kind, p) == job' = kind /\ jobOf' = p /\ unwinding' = Cancelled(job)
JobIdle == job' = "idle" /\ jobOf' = 0

StartPlan ==
  /\ plans < MaxPlans /\ plans' = plans + 1
  /\ StartJob("planning", plans + 1) /\ inputOn' = FALSE
  /\ UNCHANGED <<pending, pendingUndo>>

\* The finally block of a cancelled worker.
Unwind(left) ==
  /\ left \in unwinding /\ unwinding' = unwinding \ {left}
  /\ pending' = IF left = "apply" THEN 0 ELSE pending
  /\ pendingUndo' = (pendingUndo /\ left # "undo")
  /\ inputOn' = (inputOn \/ left # "undo")
  /\ UNCHANGED <<shown, approvalCb, choiceCb, modeVars, hrVars, job, jobOf, plans,
                 agentVars, sshVars, ghostVars>>

-------------------------------------------------------------------------------
(* Answering the panel.                                                       *)

\* _ssh_trust_choice, _high_risk_exit_choice, _high_risk_restore_*_choice: the
\* callback of question q is called with option i; no option is an escape.
ChoiceCallback(q, i) ==
  \/ /\ q = Q("trust") /\ i = 0
     /\ Close /\ StartEnter /\ trusted' = TRUE
  \/ /\ q = Q("exit") /\ i \in {0, 1} /\ Close
     /\ LET kind == IF i = 0 THEN "committing" ELSE "aborting"
        IN  StartLeave(kind)
  \/ /\ q = Q("restore1") /\ i = 0
     /\ shown' = Q("restore2") /\ choiceCb' = Q("restore2") /\ approvalCb' = None
     /\ inputOn' = TRUE /\ UNCHANGED <<hrVars, sshVars, unwinding>>
  \/ /\ q = Q("restore2") /\ i = 0
     /\ Close /\ StartLeave("restoring")
  \/ /\ i # 0 \/ q = Q("trust")            \* the trust record may not be saved
     /\ q = Q("exit") => i # 1
     /\ Close /\ inputOn' = TRUE /\ UNCHANGED <<hrVars, sshVars, unwinding>>

\* _choose_inline_approval looks for a choice callback first.
AnswerChoice(i) ==
  /\ choiceCb # None /\ ChoiceCallback(choiceCb, i)
  /\ UNCHANGED <<modeVars, jobVars, agentVars, ghostVars>>

\* Mutant of PlanApproved: any answer applies the plan.
PlanApprovedAnyhow(yes) ==
  /\ approvalCb[1] = "plan"
  /\ IF pending = 0
     THEN inputOn' = TRUE /\ UNCHANGED <<job, jobOf, unwinding, approved>>
     ELSE /\ StartJob("applying", pending) /\ inputOn' = FALSE
          /\ approved' = IF yes THEN approved \cup {shown[2]} ELSE approved
  /\ UNCHANGED <<pending, pendingUndo>>

\* _runbook_approved
PlanApproved(yes) ==
  /\ approvalCb[1] = "plan"
  /\ IF pending = 0 \/ ~yes
     THEN /\ pending' = 0 /\ inputOn' = TRUE
          /\ UNCHANGED <<job, jobOf, unwinding, approved>>
     ELSE /\ StartJob("applying", pending) /\ inputOn' = FALSE
          /\ approved' = approved \cup {shown[2]} /\ UNCHANGED pending
  /\ UNCHANGED pendingUndo

\* _rollback_approved; a rollback does not switch the input off.
UndoApproved(yes) ==
  /\ approvalCb = Undo /\ inputOn' = TRUE
  /\ IF ~pendingUndo \/ ~yes
     THEN pendingUndo' = FALSE /\ UNCHANGED <<job, jobOf, unwinding>>
     ELSE StartJob("undoing", 0) /\ UNCHANGED pendingUndo
  /\ UNCHANGED <<pending, approved>>

AnswerApproval(yes) ==
  /\ approvalCb # None /\ Close
  /\ PlanApproved(yes) \/ UndoApproved(yes)
  /\ UNCHANGED <<plans, modeVars, hrVars, agentVars, sshVars, applied>>

\* _amend_pending_runbook reopens the form, or drops a typed proposal; the
\* amendment of a rollback starts the preview again.
AnswerAmend ==
  /\ approvalCb # None
  /\ \/ /\ approvalCb[1] = "plan" /\ pending' = 0 /\ inputOn' = TRUE
        /\ \/ shown' = None
           \/ pending # 0 /\ shown' = Form
        /\ UNCHANGED <<job, jobOf, unwinding>>
     \/ /\ approvalCb = Undo /\ shown' = None /\ inputOn' = TRUE /\ UNCHANGED pending
        /\ \/ mode = "READY" /\ StartJob("previewing", 0)
           \/ UNCHANGED <<job, jobOf, unwinding>>
  /\ approvalCb' = None /\ choiceCb' = None
  /\ UNCHANGED <<pendingUndo, plans, modeVars, hrVars, agentVars, sshVars, ghostVars>>

OnPanel == shown \in Choices \cup Approvals

\* An option is picked with Enter.
PickOption(i) ==
  /\ OnPanel
  /\ \/ AnswerChoice(i)
     \/ choiceCb = None /\ i # 1 /\ AnswerApproval(i = 0)
     \/ choiceCb = None /\ i = 1 /\ AnswerAmend

\* action_cancel_interaction goes by the kind of panel that is open.
Escape ==
  \/ shown \in Approvals /\ AnswerApproval(FALSE)
  \/ shown \in Choices /\ AnswerChoice(3)
  \/ /\ shown \notin Choices \cup Approvals \cup {None}
     /\ Close /\ inputOn' = TRUE
     /\ UNCHANGED <<modeVars, hrVars, jobVars, agentVars, sshVars, unwinding, ghostVars>>

-------------------------------------------------------------------------------
(* Tab, and the lines typed into the composer.                                *)

\* On an approval panel Tab picks "amend".
TabOnPanel == shown \in Approvals /\ PickOption(1)

TabToReady ==
  /\ shown = None /\ mode = "PLAN" /\ mode' = "READY"
  /\ UNCHANGED <<panelVars, session, executor, hrVars, jobVars, agentVars,
                 sshVars, unwinding, ghostVars>>

TabToHighRisk ==
  /\ shown = None /\ mode = "READY" /\ StartEnter
  /\ UNCHANGED <<trusted, shown, approvalCb, choiceCb, modeVars, jobVars, agentVars, ghostVars>>

\* _show_high_risk_exit, also reached by /exit.
TabToExit ==
  /\ shown = None /\ mode = "HIGH_RISK"
  /\ IF session = 0 THEN mode' = "PLAN" /\ UNCHANGED <<shown, choiceCb>>
     ELSE ShowChoice(Q("exit")) /\ UNCHANGED mode
  /\ UNCHANGED <<approvalCb, inputOn, session, executor, hrVars, jobVars,
                 agentVars, sshVars, unwinding, ghostVars>>

\* _submit_prompt, _run_agent
Prompt ==
  /\ CanType /\ ~offline
  /\ agent' = "probing" /\ agentMode' = "PLAN" /\ sawLoss' = FALSE /\ agentOf' = 0 /\ unwinding' = Cancelled(agent)
  /\ inputOn' = FALSE
  /\ UNCHANGED <<shown, approvalCb, choiceCb, modeVars, hrVars, jobVars,
                 offline, sshVars, ghostVars>>

\* A runbook command opens its form in READY and in HIGH RISK.
TypeRunbook ==
  /\ CanType /\ mode \in {"READY", "HIGH_RISK"} /\ ShowForm
  /\ UNCHANGED <<inputOn, modeVars, hrVars, jobVars, agentVars, sshVars, unwinding,
                 ghostVars>>

\* _submit_inline_runbook, _plan_runbook
SubmitForm ==
  /\ shown = Form /\ Close /\ StartPlan
  /\ UNCHANGED <<modeVars, hrVars, agentVars, sshVars, ghostVars>>

\* _start_rollback
TypeRollback ==
  /\ CanType
  /\ \/ /\ mode = "HIGH_RISK" /\ session # 0 /\ ShowChoice(Q("restore1"))
        /\ UNCHANGED <<approvalCb, job, jobOf, unwinding>>
     \/ /\ mode = "READY" /\ StartJob("previewing", 0)
        /\ UNCHANGED <<shown, approvalCb, choiceCb>>
  /\ UNCHANGED <<inputOn, pending, pendingUndo, plans, modeVars, hrVars, agentVars,
                 sshVars, ghostVars>>

\* _high_risk_edit_blocked
EditBlocked == mode = "HIGH_RISK" /\ session # 0

\* /models: the picker is guarded when it opens and again when it is answered.
OpenModels ==
  /\ CanType /\ ~EditBlocked /\ shown' = Q("models")
  /\ UNCHANGED <<approvalCb, choiceCb, inputOn, modeVars, hrVars, jobVars, agentVars,
                 sshVars, unwinding, ghostVars>>

\* Mutant of PickModel: the guard is checked when the picker opens, not again.
PickModelUnchecked ==
  /\ shown = Q("models") /\ Close /\ inputOn' = TRUE /\ executor' = 0
  /\ UNCHANGED <<mode, session, hrVars, jobVars, agentVars, sshVars, unwinding,
                 ghostVars>>

\* _activate_preset builds a new agent, which holds no executor.
PickModel ==
  /\ shown = Q("models") /\ Close /\ inputOn' = TRUE
  /\ executor' = IF EditBlocked THEN executor ELSE 0
  /\ UNCHANGED <<mode, session, hrVars, jobVars, agentVars, sshVars, unwinding,
                 ghostVars>>

-------------------------------------------------------------------------------
(* The high-risk worker.                                                      *)

\* Mutant of EndHr: no finally block.
EndHrInputOff == HrIdle /\ UNCHANGED inputOn

EndHr == HrIdle /\ inputOn' = TRUE

EnterNeedsTrust ==
  /\ hr = "entering" /\ ~trusted /\ EndHr /\ ShowChoice(Q("trust"))
  /\ UNCHANGED <<approvalCb, modeVars, jobVars, agentVars, sshVars, unwinding, ghostVars>>

EnterFails ==
  /\ hr = "entering" /\ EndHr
  /\ UNCHANGED <<shown, approvalCb, choiceCb, modeVars, jobVars, agentVars, sshVars,
                 unwinding, ghostVars>>

\* HighRiskService.enter returned a session.
EnterSucceeds ==
  /\ hr = "entering" /\ trusted /\ opened < MaxEntries
  /\ opened' = opened + 1 /\ ssh' = [ssh EXCEPT ![opened + 1] = "open"]
  /\ executor' = opened + 1 /\ session' = opened + 1 /\ mode' = "HIGH_RISK"
  /\ EndHr
  /\ UNCHANGED <<shown, approvalCb, choiceCb, trusted, jobVars, agentVars, unwinding,
                 ghostVars>>

\* No model is selected (which the model does not track) to give it to: abort_and_close
\* is awaited.  Nobody else ever holds that session, so it has no number.
EnterUnsupported ==
  /\ hr = "entering" /\ trusted /\ hr' = "dropping"
  /\ UNCHANGED <<panelVars, hrOf, modeVars, jobVars, agentVars, sshVars, unwinding,
                 ghostVars>>

\* abort_and_close returned, here or in _invalidate_high_risk_session.
HrDrops ==
  /\ hr = "dropping" /\ EndHr
  /\ ssh' = IF hrOf = 0 THEN ssh ELSE [ssh EXCEPT ![hrOf] = "closed"]
  /\ UNCHANGED <<shown, approvalCb, choiceCb, modeVars, opened, trusted, jobVars,
                 agentVars, unwinding, ghostVars>>

LockMode == executor' = 0 /\ session' = 0 /\ mode' = "PLAN"

\* commit_and_close returned True, abort_and_close or restore_backup returned.
LeaveDone ==
  /\ \/ hr = "committing" /\ ssh[hrOf] = "open"
     \/ hr = "aborting"
     \/ hr = "restoring" /\ Alive(hrOf)
  /\ ssh' = [ssh EXCEPT ![hrOf] = "closed"] /\ LockMode /\ EndHr
  /\ UNCHANGED <<shown, approvalCb, choiceCb, opened, trusted, jobVars, agentVars,
                 unwinding, ghostVars>>

\* Mutant of CommitUnverified: the False of commit_and_close is ignored.
CommitUnverifiedLocks ==
  /\ hr = "committing" /\ ssh[hrOf] = "bare" /\ ssh' = [ssh EXCEPT ![hrOf] = "open"]
  /\ LockMode /\ EndHr
  /\ UNCHANGED <<shown, approvalCb, choiceCb, opened, trusted, jobVars, agentVars,
                 unwinding, ghostVars>>

\* Ctrl+X on a PTY without Safe Mode takes it again: the release is not verified.
CommitUnverified ==
  /\ hr = "committing" /\ ssh[hrOf] = "bare" /\ ssh' = [ssh EXCEPT ![hrOf] = "open"]
  /\ EndHr
  /\ UNCHANGED <<shown, approvalCb, choiceCb, modeVars, opened, trusted, jobVars,
                 agentVars, unwinding, ghostVars>>

\* commit_and_close lost the channel: _invalidate_high_risk_session locks the mode at
\* once and then waits to drop the session.
CommitLost ==
  /\ hr = "committing" /\ ssh' = [ssh EXCEPT ![hrOf] = "closed"]
  /\ IF session = 0 THEN EndHr /\ UNCHANGED modeVars
     ELSE LockMode /\ hr' = "dropping" /\ UNCHANGED <<hrOf, inputOn>>
  /\ UNCHANGED <<shown, approvalCb, choiceCb, opened, trusted, jobVars, agentVars,
                 unwinding, ghostVars>>

\* The error is reported; the mode stays as it is.  The session is closed unless the backup
\* or its password was missing.
RestoreFails ==
  /\ hr = "restoring" /\ EndHr
  /\ \E left \in {ssh[hrOf], "closed"} : ssh' = [ssh EXCEPT ![hrOf] = left]
  /\ UNCHANGED <<shown, approvalCb, choiceCb, modeVars, opened, trusted, jobVars,
                 agentVars, unwinding, ghostVars>>

\* The link of an open session goes down; nobody is told.
LinkDrops(s) ==
  /\ ssh[s] = "open" /\ ssh' = [ssh EXCEPT ![s] = "cut"]
  /\ UNCHANGED <<panelVars, modeVars, hrVars, jobVars, agentVars, opened, trusted,
                 unwinding, ghostVars>>

-------------------------------------------------------------------------------
(* The agent worker: _run_agent, and the parts of agent.run that act.         *)

EndAgent == agent' = "idle" /\ agentMode' = "PLAN" /\ inputOn' = TRUE

\* agent.run(prompt, self._mode): the mode is read now and kept for the run.
AgentBegins ==
  /\ agent = "probing"
  /\ IF mode = "HIGH_RISK" /\ executor = 0 THEN EndAgent
     ELSE agent' = "running" /\ agentMode' = mode /\ UNCHANGED inputOn
  /\ UNCHANGED <<shown, approvalCb, choiceCb, sawLoss, agentOf, offline, modeVars,
                 hrVars, jobVars, sshVars, unwinding, ghostVars>>

HighRiskRun == agent = "running" /\ agentMode = "HIGH_RISK"

\* ssh_exec on the executor of the moment.  The third case is a counter that
\* could not be read: "ok" is reported on a session that is now closed.
AgentSsh ==
  /\ HighRiskRun /\ executor # 0
  /\ \/ Alive(executor) /\ UNCHANGED <<ssh, sawLoss>>
     \/ /\ ~Alive(executor) /\ sawLoss' = TRUE
        /\ ssh' = [ssh EXCEPT ![executor] = "closed"]
     \/ /\ Alive(executor) /\ ssh' = [ssh EXCEPT ![executor] = "closed"]
        /\ UNCHANGED sawLoss
  /\ UNCHANGED <<panelVars, modeVars, hrVars, jobVars, agent, agentMode, agentOf,
                 offline, opened, trusted, unwinding, ghostVars>>

\* A change tool of MikroMCP, its confirmation handshake included.
AgentRest ==
  /\ HighRiskRun /\ agent' = "refreshing"
  /\ UNCHANGED <<panelVars, modeVars, hrVars, jobVars, agentMode, sawLoss, agentOf,
                 offline, sshVars, unwinding, ghostVars>>

\* _refresh_high_risk_safe_mode_count: no executor counts as no loss.
AgentRefresh ==
  /\ agent = "refreshing"
  /\ \/ (executor = 0 \/ Alive(executor)) /\ agent' = "running"
        /\ UNCHANGED <<ssh, sawLoss>>
     \/ /\ executor # 0 /\ agent' = "stopping" /\ sawLoss' = TRUE
        /\ ssh' = [ssh EXCEPT ![executor] = "closed"]
  /\ UNCHANGED <<panelVars, modeVars, hrVars, jobVars, agentMode, agentOf, offline,
                 opened, trusted, unwinding, ghostVars>>

\* The run returned its events: if they show a loss, _invalidate_high_risk_session
\* locks the mode at once and then waits to drop the session of the moment.
AfterRun ==
  /\ sawLoss' = FALSE /\ agentMode' = "PLAN"
  /\ IF sawLoss /\ session # 0
     THEN LockMode /\ agent' = "dropping" /\ agentOf' = session
     ELSE agent' = "naming" /\ UNCHANGED <<modeVars, agentOf>>

AgentReturns ==
  /\ agent \in {"running", "stopping"} /\ AfterRun
  /\ UNCHANGED <<panelVars, hrVars, jobVars, offline, sshVars,
                 unwinding, ghostVars>>

\* abort_and_close of the session taken, then the rest of _run_agent.
AgentDrops ==
  /\ agent = "dropping"
  /\ ssh' = [ssh EXCEPT ![agentOf] = "closed"]
  /\ agent' = "naming" /\ agentOf' = 0
  /\ UNCHANGED <<panelVars, modeVars, hrVars, jobVars, agentMode, sawLoss,
                 offline, opened, trusted, unwinding, ghostVars>>

\* A proposal opens the form, or plans at once when it is a typed change.
AgentProposes ==
  /\ agent = "running" /\ agentMode # "PLAN" /\ ~sawLoss /\ agent' = "naming"
  /\ agentMode' = "PLAN"
  /\ \/ ShowForm /\ UNCHANGED <<inputOn, jobVars, unwinding>>
     \/ StartPlan /\ UNCHANGED <<shown, approvalCb, choiceCb>>
  /\ UNCHANGED <<modeVars, hrVars, sawLoss, agentOf, offline,
                 sshVars, ghostVars>>

\* An exception: the events of the run are gone; some mark the router offline.
AgentFails ==
  /\ agent \in {"probing", "running", "refreshing"} /\ EndAgent /\ sawLoss' = FALSE
  /\ offline' \in {offline, TRUE}
  /\ UNCHANGED <<shown, approvalCb, choiceCb, agentOf, modeVars, hrVars,
                 jobVars, sshVars, unwinding, ghostVars>>

AgentNamed ==
  /\ agent = "naming" /\ EndAgent
  /\ UNCHANGED <<shown, approvalCb, choiceCb, sawLoss, agentOf, offline, modeVars,
                 hrVars, jobVars, sshVars, unwinding, ghostVars>>

-------------------------------------------------------------------------------
(* The runbook worker.                                                        *)

PlanDone ==
  /\ job = "planning" /\ pending' = jobOf /\ ShowApproval(ApprovalOf(jobOf))
  /\ JobIdle /\ inputOn' = TRUE
  /\ UNCHANGED <<pendingUndo, plans, modeVars, hrVars, agentVars, sshVars, unwinding,
                 ghostVars>>

PlanFails ==
  /\ job = "planning" /\ JobIdle /\ inputOn' = TRUE
  /\ UNCHANGED <<shown, approvalCb, choiceCb, pending, pendingUndo, plans, modeVars,
                 hrVars, agentVars, sshVars, unwinding, ghostVars>>

\* MikroMCP carries the plan out; what follows is the post-check.
ApplyWrites ==
  /\ job = "applying" /\ job' = "verifying" /\ applied' = applied \cup {jobOf}
  /\ UNCHANGED <<panelVars, jobOf, pending, pendingUndo, plans, modeVars, hrVars,
                 agentVars, sshVars, unwinding, approved>>

\* The outcome is in the history file and the model has reported on it.
\* _continue_agent_after_change looks at the mode, then waits for a run in READY.
ApplyContinues ==
  /\ job = "verifying" /\ mode = "READY" /\ job' = "continuing"
  /\ UNCHANGED <<panelVars, jobOf, pending, pendingUndo, plans, modeVars, hrVars,
                 agentVars, sshVars, unwinding, ghostVars>>

\* The finally of _apply_runbook.
ApplyEnds ==
  /\ job \in {"applying", "verifying", "continuing"} /\ JobIdle /\ pending' = 0 /\ inputOn' = TRUE
  /\ UNCHANGED <<shown, approvalCb, choiceCb, pendingUndo, plans, modeVars, hrVars,
                 agentVars, sshVars, unwinding, ghostVars>>

\* The run found more to do, in whatever mode the screen is by now; a typed proposal
\* starts the next plan from inside the worker, which ends first.
ApplyProposes ==
  /\ job = "continuing"
  /\ \/ ShowForm /\ JobIdle /\ pending' = 0 /\ inputOn' = TRUE
        /\ UNCHANGED <<plans, pendingUndo, unwinding>>
     \/ /\ plans < MaxPlans /\ plans' = plans + 1 /\ pending' = 0 /\ inputOn' = FALSE
        /\ job' = "planning" /\ jobOf' = plans + 1
        /\ UNCHANGED <<shown, approvalCb, choiceCb, pendingUndo, unwinding>>
  /\ UNCHANGED <<modeVars, hrVars, agentVars, sshVars, ghostVars>>

PreviewDone ==
  /\ job = "previewing" /\ JobIdle
  /\ \/ pendingUndo' = TRUE /\ ShowApproval(Undo)
     \/ UNCHANGED <<pendingUndo, shown, approvalCb, choiceCb>>
  /\ UNCHANGED <<inputOn, pending, plans, modeVars, hrVars, agentVars, sshVars,
                 unwinding, ghostVars>>

UndoEnds ==
  /\ job = "undoing" /\ JobIdle /\ pendingUndo' = FALSE
  /\ UNCHANGED <<panelVars, pending, plans, modeVars, hrVars, agentVars, sshVars,
                 unwinding, ghostVars>>

-------------------------------------------------------------------------------
Keys == \/ \E i \in 0..2 : PickOption(i)
        \/ Escape \/ TabOnPanel \/ TabToReady \/ TabToHighRisk \/ TabToExit
        \/ Prompt \/ TypeRunbook \/ SubmitForm \/ TypeRollback
        \/ OpenModels \/ PickModel
HrStep == \/ EnterNeedsTrust \/ EnterFails \/ EnterSucceeds \/ EnterUnsupported
          \/ LeaveDone \/ CommitUnverified \/ CommitLost \/ RestoreFails \/ HrDrops
AgentEnds == AgentBegins \/ AgentRefresh \/ AgentReturns \/ AgentDrops
             \/ AgentFails \/ AgentNamed
AgentActs == AgentSsh \/ AgentRest \/ AgentProposes
\* MikroMCP answers within its read timeout, or the step fails at it.
JobAnswered == PlanDone \/ PlanFails \/ ApplyWrites \/ PreviewDone \/ UndoEnds
JobStep == JobAnswered \/ ApplyContinues \/ ApplyEnds \/ ApplyProposes

Next ==
  \/ Keys \/ HrStep \/ AgentEnds \/ AgentActs \/ JobStep
  \/ \E left \in unwinding : Unwind(left)
  \/ \E s \in Session : LinkDrops(s)

Spec == Init /\ [][Next]_vars

\* Only what has a deadline is fair: the answers of MikroMCP, the TCP probe and what needs
\* no await.  Nothing limits an await of the SSH session (channel, SFTP, lock, closing) or
\* of a model that keeps sending.  Keys and the link are free.
Fairness ==
  /\ WF_vars(JobAnswered) /\ WF_vars(AgentBegins)
  /\ WF_vars(agent = "stopping" /\ AgentReturns)
  /\ WF_vars(\E left \in unwinding \ {"input"} : Unwind(left))

FairSpec == Spec /\ Fairness

-------------------------------------------------------------------------------
(* Properties.                                                                *)

Worker == {"entering", "committing", "aborting", "restoring", "planning",
           "applying", "verifying", "continuing", "previewing", "undoing",
           "probing", "running", "refreshing", "stopping", "dropping", "naming"}
Question == Choices \cup Approvals \cup {None, Form, Q("models")}

TypeOK ==
  /\ mode \in {"PLAN", "READY", "HIGH_RISK"} /\ agentMode \in {"PLAN", "READY", "HIGH_RISK"}
  /\ {session, executor, hrOf, agentOf, opened} \subseteq 0..MaxEntries
  /\ {pending, jobOf, plans} \subseteq 0..MaxPlans
  /\ {inputOn, pendingUndo, sawLoss, offline, trusted} \subseteq BOOLEAN
  /\ shown \in Question
  /\ approvalCb \in Approvals \cup {None} /\ choiceCb \in Choices \cup {None}
  /\ {hr, job, agent} \subseteq Worker \cup {"idle"}
  /\ unwinding \subseteq {"input", "apply", "undo"}
  /\ ssh \in [Session -> SshState]
  /\ (approved \cup applied) \subseteq Plan

\* The screen and the agent agree on the elevated session, and they hold one
\* exactly in HIGH RISK: no entry, exit, loss or model change takes them apart.
ExecutorMatchesSession ==
  executor = session /\ (session # 0 <=> mode = "HIGH_RISK")

\* A plan is carried out only if the operator said yes to that very plan, and
\* only once, whatever was planned, amended, opened or cancelled meanwhile.
AppliedOnlyIfApproved ==
  /\ applied \subseteq approved
  /\ job = "applying" => jobOf \in approved \ applied

\* A session leaves the screen only closed, or on its way there: no exit, loss or
\* restore leaves the operator in PLAN while changes float behind their back.
LeavesClosed ==
  [][session # 0 /\ session' # session =>
       \/ ssh'[session] = "closed"
       \/ agent' = "dropping" /\ agentOf' = session]_vars

\* A worker is at an await without a deadline: of the elevated session, or of a model;
\* or a cancelled one cleans up after such an await.
Waiting ==
  \/ hr # "idle" \/ agent \in {"running", "refreshing", "dropping", "naming"}
  \/ job \in {"verifying", "continuing"} \/ "input" \in unwinding

\* The operator is not locked out by the workers: when the input is off, it comes back on,
\* a panel asks something, or from some time on there is always a worker that waits for
\* the SSH session or a model.
InputComesBack == ~inputOn ~> (inputOn \/ shown # None \/ []Waiting)

\* An answer sets off only what the question on the panel is about: the session
\* is committed, aborted or restored, the host key trusted, a plan applied or a
\* rollback started only when the operator was shown that very question.
AnswersOwnQuestion ==
  [][ /\ hr' # hr /\ hr' \in {"committing", "aborting"} => shown = Q("exit")
      /\ hr' # hr /\ hr' = "restoring" => shown = Q("restore2")
      /\ trusted' # trusted => shown = Q("trust")
      /\ job' # job /\ job' = "applying" => shown = ApprovalOf(jobOf')
      /\ job' # job /\ job' = "undoing" => shown = Undo ]_vars

===============================================================================
