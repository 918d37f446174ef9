------------------------------ MODULE ReadyChange ------------------------------
(***************************************************************************)
(* The READY change lifecycle: core/runbooks/base.py RunbookExecutor,       *)
(* core/runbooks/history.py RunbookHistoryStore and the runbook workers of  *)
(* ui/textual/chat.py that drive them, against MikroMCP (external).         *)
(*                                                                          *)
(* One worker runs at a time.  Each call opens a MikroMCP process of its    *)
(* own; when the worker is cancelled, or the connection is lost, or the     *)
(* harness is restarted, a process may go on for a while by itself.         *)
(*                                                                          *)
(* All plans write the same setting, the hardest case for a rollback.  A    *)
(* value is <<p, k>>, written by step k of plan p; <<0, 0>> was there       *)
(* before.  The journal of a step is the value it overwrote.                *)
(***************************************************************************)
EXTENDS Naturals, Sequences, SequencesExt

CONSTANTS
  MaxPlans,     \* bound: plans built
  MaxSteps,     \* steps of a plan
  MaxUndos      \* bound: rollbacks started

ASSUME ReadyBounds ==
  /\ MaxPlans \in Nat /\ MaxUndos \in Nat /\ MaxSteps \in Nat \ {0}

VARIABLES
  at,        \* the await the runbook worker is suspended at
  plan,      \* the plan it works on
  todo,      \* rollback: the journals still to be undone, in order
  seen,      \* rollback: the value its check read from the router
  pending,   \* _pending_runbook while its approval is on the panel, or 0
  undo,      \* _pending_rollback while its approval is on the panel, or 0
  plans, undos,  \* plans built and rollbacks started so far
  baseline,  \* baseline[p]: RunbookPlan.baseline
  history,   \* the records of the history file; nothing depends on their order
  servers,   \* the plans a MikroMCP process is carrying out
  journal,   \* journal[p]: what MikroMCP journaled for the steps of p done so far
  setting,   \* the value on the router
  faulty     \* what goes wrong in this behaviour: nothing when it is empty

worker == <<at, plan, todo, seen>>
panel  == <<pending, undo>>
bounds == <<plans, undos>>
router == <<servers, journal, setting>>
vars   == <<worker, panel, bounds, baseline, history, router, faulty>>

Unreliable == "unreliable" \in faulty  \* answers are lost or incomplete, the disk fails
Interrupts == "interrupts" \in faulty  \* workers are cancelled, the harness restarts

Plan  == 1..MaxPlans
Step  == 1..MaxSteps
Value == (Plan \X Step) \cup {<<0, 0>>}

Init ==
  /\ at = "idle" /\ plan = 0 /\ todo = <<>> /\ seen = <<0, 0>>
  /\ pending = 0 /\ undo = 0 /\ plans = 0 /\ undos = 0
  /\ baseline = [p \in Plan |-> <<0, 0>>] /\ history = {}
  /\ servers = {} /\ journal = [p \in Plan |-> <<>>] /\ setting = <<0, 0>>
  /\ faulty \in SUBSET {"unreliable", "interrupts"}

\* A worker of the group is free to start: an exclusive one cancels the other.
MayStart == at = "idle" \/ Interrupts
Start(where, p) == at' = where /\ plan' = p /\ todo' = <<>> /\ seen' = <<0, 0>>
End == Start("idle", 0)

-------------------------------------------------------------------------------
(* The history file.                                                          *)

\* The journals of the steps carried out, in that order.
Steps(p) == [k \in 1..Len(journal[p]) |-> k]

\* RunbookHistoryStore.record: a record of the same execution is replaced.
Recorded(p, steps, status) ==
  {r \in history : r.plan # p} \cup {[plan |-> p, steps |-> steps, status |-> status]}

\* mark_rolled_back
MarkedUndone(p) ==
  {IF r.plan = p THEN [r EXCEPT !.status = "rolled_back"] ELSE r : r \in history}

Write(records) == history' = records \/ (Unreliable /\ UNCHANGED history)

\* find: with no token the newest active record, else the one with that ID; a
\* record that was rolled back is reported as not active.
Active == {r \in history : r.status # "rolled_back"}

-------------------------------------------------------------------------------
(* RunbookExecutor.plan                                                       *)

PlanBegin ==
  /\ MayStart /\ plans < MaxPlans /\ plans' = plans + 1
  /\ Start("baseline", plans + 1)
  /\ UNCHANGED <<panel, undos, baseline, history, router>>

PlanBaseline ==
  /\ at = "baseline" /\ at' = "dryrun"
  /\ baseline' = [baseline EXCEPT ![plan] = setting]
  /\ UNCHANGED <<plan, todo, seen, panel, bounds, history, router>>

\* The dry run is viable: the approval replaces what the panel showed.
PlanViable ==
  /\ at = "dryrun" /\ pending' = plan /\ undo' = 0 /\ End
  /\ UNCHANGED <<bounds, baseline, history, router>>

PlanFails ==
  /\ at \in {"baseline", "dryrun"} /\ End
  /\ UNCHANGED <<panel, bounds, baseline, history, router>>

-------------------------------------------------------------------------------
(* RunbookExecutor.apply_approved and _apply_runbook                          *)

\* The plan on the panel is refused or amended.
Refuse ==
  /\ pending # 0 /\ pending' = 0
  /\ UNCHANGED <<worker, undo, bounds, baseline, history, router>>

\* It may be approved while another plan is being built, which is cancelled.
Approve ==
  /\ pending # 0 /\ at \in {"idle", "baseline", "dryrun"}
  /\ Start("challenge", pending) /\ pending' = 0
  /\ UNCHANGED <<undo, bounds, baseline, history, router>>

\* MikroMCP carries the plan out without asking: CONFIRMATION_GATE_BYPASSED tells, too late.
ServerBypasses ==
  /\ Unreliable /\ at = "challenge" /\ servers' = servers \cup {plan}
  /\ UNCHANGED <<worker, panel, bounds, baseline, history, journal, setting>>

\* The secrets changed the plan, or the answer was no CONFIRMATION_REQUIRED: nothing is
\* recorded, whatever MikroMCP has done.
ApplyStopped ==
  /\ at = "challenge" /\ End
  /\ UNCHANGED <<panel, bounds, baseline, history, router>>

ApplyConfirmed ==
  /\ at = "challenge" /\ plan \notin servers /\ journal[plan] = <<>>
  /\ at' = "applying" /\ servers' = servers \cup {plan}
  /\ UNCHANGED <<plan, todo, seen, panel, bounds, baseline, history, journal, setting>>

\* apply_plan succeeded with one journal per step.
ApplyAnswered ==
  /\ at = "applying" /\ Len(journal[plan]) = MaxSteps
  /\ at' = "checking" /\ servers' = servers \ {plan}
  /\ UNCHANGED <<plan, todo, seen, panel, bounds, baseline, history, journal, setting>>

\* Mutant of ApplyFailed: the journals the error carries are dropped.
ApplyFailedForgotten ==
  /\ at = "applying" /\ Len(journal[plan]) < MaxSteps
  /\ servers' = servers \ {plan} /\ End
  /\ UNCHANGED <<panel, bounds, baseline, history, journal, setting>>

\* It stopped at a step: the journals of completedSteps are recorded, if any.
ApplyFailed ==
  /\ at = "applying" /\ Len(journal[plan]) < MaxSteps
  /\ IF journal[plan] = <<>> THEN UNCHANGED history
     ELSE Write(Recorded(plan, Steps(plan), "partial_failure"))
  /\ servers' = servers \ {plan} /\ End
  /\ UNCHANGED <<panel, bounds, baseline, journal, setting>>

\* RUNBOOK_JOURNAL_MISSING: only some of the journals came back.
ApplyIncomplete ==
  /\ Unreliable /\ at = "applying" /\ Len(journal[plan]) = MaxSteps
  /\ \E steps \in SUBSET Step \ {Step} :
       IF steps = {} THEN UNCHANGED history
       ELSE Write(Recorded(plan, SetToSortSeq(steps, <), "partial_failure"))
  /\ servers' = servers \ {plan} /\ End
  /\ UNCHANGED <<panel, bounds, baseline, journal, setting>>

\* Any other exception: reported, nothing recorded; MikroMCP may go on.
ApplyLost ==
  /\ Unreliable /\ at = "applying" /\ End
  /\ UNCHANGED <<panel, bounds, baseline, history, router>>

\* A failed or raising post-check is recorded as unverified.
ApplyChecked ==
  /\ at = "checking"
  /\ \E status \in {"applied_verified", "applied_unverified"} :
       Write(Recorded(plan, Steps(plan), status))
  /\ End /\ UNCHANGED <<panel, bounds, baseline, router>>

-------------------------------------------------------------------------------
(* preview_rollback, rollback_approved and their workers                      *)

\* /rollback is typed: no approval is on the panel.
UndoBegin ==
  /\ MayStart /\ pending = 0 /\ undo = 0
  /\ undos < MaxUndos /\ undos' = undos + 1
  /\ \E r \in Active : Start("preview", r.plan)
  /\ UNCHANGED <<panel, plans, baseline, history, router>>

UndoPreviewed ==
  /\ at = "preview" /\ undo' = plan /\ pending' = 0 /\ End
  /\ UNCHANGED <<bounds, baseline, history, router>>

UndoRefuse ==
  /\ undo # 0 /\ undo' = 0
  /\ UNCHANGED <<worker, pending, bounds, baseline, history, router>>

Journals(p) == (CHOOSE r \in history : r.plan = p).steps

\* Mutant of UndoOrder: the journals are undone in the order they were written.
UndoOrderForward(p) == Journals(p)

UndoOrder(p) == Reverse(Journals(p))

UndoApprove ==
  /\ undo # 0 /\ at \in {"idle", "baseline", "dryrun"}
  /\ at' = "undoing" /\ plan' = undo /\ todo' = UndoOrder(undo) /\ undo' = 0
  /\ UNCHANGED <<seen, pending, bounds, baseline, history, router>>

\* rollback_change with its challenge restores what the journal saved.
UndoStep ==
  /\ at = "undoing" /\ todo # <<>>
  /\ setting' = journal[plan][Head(todo)] /\ todo' = Tail(todo)
  /\ UNCHANGED <<at, plan, seen, panel, bounds, baseline, history, servers, journal>>

\* A journal, the check or the end of the session fails: the record stays as it was.
UndoFails ==
  /\ at \in {"preview", "undoing", "leaving"} /\ End
  /\ UNCHANGED <<panel, bounds, baseline, history, router>>

\* Mutant of UndoChecked: the session is left whatever the router says.
UndoCheckedAnyhow ==
  /\ at = "undoing" /\ todo = <<>> /\ at' = "leaving" /\ seen' = setting
  /\ UNCHANGED <<plan, todo, panel, bounds, baseline, history, router>>

\* verify_rollback reads the router and found the baseline; the session is left.  With
\* anything else there, RUNBOOK_ROLLBACK_POST_CHECK_FAILED ends it as UndoFails does.
UndoChecked ==
  /\ at = "undoing" /\ todo = <<>> /\ at' = "leaving" /\ seen' = setting
  /\ seen' = baseline[plan]
  /\ UNCHANGED <<plan, todo, panel, bounds, baseline, history, router>>

\* The session is closed: mark_rolled_back, without another look at the router.
UndoMarked ==
  /\ at = "leaving" /\ Write(MarkedUndone(plan)) /\ End
  /\ UNCHANGED <<panel, bounds, baseline, router>>

-------------------------------------------------------------------------------
(* MikroMCP (external), and a restart of the harness.                         *)

\* The next step of a plan: its snapshot is journaled, then the value written.
ServerStep(p) ==
  /\ p \in servers /\ Len(journal[p]) < MaxSteps
  /\ journal' = [journal EXCEPT ![p] = Append(@, setting)]
  /\ setting' = <<p, Len(journal[p]) + 1>>
  /\ UNCHANGED <<worker, panel, bounds, baseline, history, servers>>

\* A process nobody waits for any more ends.
ServerStops(p) ==
  /\ p \in servers /\ ~(at = "applying" /\ plan = p) /\ servers' = servers \ {p}
  /\ UNCHANGED <<worker, panel, bounds, baseline, history, journal, setting>>

Restart ==
  /\ Interrupts /\ End /\ pending' = 0 /\ undo' = 0
  /\ UNCHANGED <<bounds, baseline, history, router>>

Act ==
  \/ PlanBegin \/ PlanBaseline \/ PlanViable \/ PlanFails
  \/ Refuse \/ Approve \/ ServerBypasses \/ ApplyStopped \/ ApplyConfirmed \/ ApplyAnswered
  \/ ApplyFailed \/ ApplyIncomplete \/ ApplyLost \/ ApplyChecked
  \/ UndoBegin \/ UndoPreviewed \/ UndoRefuse \/ UndoApprove \/ UndoStep \/ UndoFails
  \/ UndoChecked \/ UndoMarked
  \/ \E p \in Plan : ServerStep(p) \/ ServerStops(p)
  \/ Restart

Next == Act /\ UNCHANGED faulty

Spec == Init /\ [][Next]_vars

-------------------------------------------------------------------------------
(* Properties.                                                                *)

\* When nothing is running, every step that was carried out has its journal in
\* the history, so /rollback can reach it (history.py:38: the history makes
\* rollback restart-safe).
AllAccounted ==
  at = "idle" /\ servers = {} =>
    \A p \in Plan : journal[p] # <<>> =>
      \E r \in history : r.plan = p /\ r.steps = Steps(p)

\* So it is as long as every answer arrives and no worker is cut short: also the
\* steps of a plan that failed on the router, and of one whose post-check failed.
Accounted == faulty = {} => AllAccounted

\* A rollback that ran through its journals has put back what was there when the change
\* was planned: after a failed apply, after a rollback that stopped half-way and was tried
\* again, with other plans dropped, applied or rolled back meanwhile.
UndoRestores ==
  faulty = {} /\ at = "undoing" /\ todo = <<>> => setting = baseline[plan]

\* The history forgets nothing: a record stays with its journals, and its status changes
\* only to rolled_back, only by a rollback of that plan whose check read its baseline from
\* the router (chat.py:2156).  While nothing goes wrong the router still has it; otherwise a
\* MikroMCP process that nobody waits for may have written after the check.
HistoryKeeps ==
  [][\A r \in history : \E q \in history' :
       /\ q.plan = r.plan /\ q.steps = r.steps
       /\ q.status # r.status =>
            /\ q.status = "rolled_back" /\ plan = r.plan /\ seen = baseline[plan]
            /\ faulty = {} => setting = baseline[plan]]_vars

===============================================================================
