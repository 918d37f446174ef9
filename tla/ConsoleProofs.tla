----------------------------- MODULE ConsoleProofs -----------------------------
(***************************************************************************)
(* Theorems about Console, for any number of plans and sessions.            *)
(***************************************************************************)
EXTENDS Console, TLAPS

\* The inductive invariant: sessions are numbered from 1, so an entered one is
\* never the 0 that stands for "none".
ModeInv == ExecutorMatchesSession /\ opened \in Nat

LEMMA ModeInit == Init => ModeInv
BY DEF Init, ModeInv, ExecutorMatchesSession

\* The steps that leave mode, session and executor alone.
LEMMA ModeKept ==
  ASSUME ModeInv, UNCHANGED modeVars, opened' = opened
  PROVE  ModeInv'
BY DEF ModeInv, ExecutorMatchesSession, modeVars

\* The steps that lock the mode.
LEMMA ModeLocked ==
  ASSUME ModeInv, LockMode, opened' = opened
  PROVE  ModeInv'
BY DEF ModeInv, ExecutorMatchesSession, LockMode

LEMMA ModeKeys == ASSUME ModeInv, Keys PROVE ModeInv'
<1> USE DEF sshVars, modeVars
<1>1. ASSUME NEW i \in 0..3, AnswerChoice(i) PROVE ModeInv'
  <2>1. opened' = opened
    BY <1>1 DEF AnswerChoice, ChoiceCallback, StartEnter, StartLeave, CancelHr
  <2> QED BY <1>1, <2>1, ModeKept DEF AnswerChoice
<1>2. ASSUME NEW yes \in BOOLEAN, AnswerApproval(yes) PROVE ModeInv'
  BY <1>2, ModeKept DEF AnswerApproval
<1>3. ASSUME AnswerAmend PROVE ModeInv'
  BY <1>3, ModeKept DEF AnswerAmend
<1>4. ASSUME NEW i \in 0..2, PickOption(i) PROVE ModeInv'
  <2>1. i \in 0..3 /\ (i = 0) \in BOOLEAN
    BY <1>4
  <2> QED BY <1>1, <1>2, <1>3, <1>4, <2>1 DEF PickOption
<1>5. CASE Escape
  <2>1. 3 \in 0..3 /\ FALSE \in BOOLEAN
    OBVIOUS
  <2> QED BY <1>1, <1>2, <1>5, <2>1, ModeKept DEF Escape
<1>6. CASE TabOnPanel
  BY <1>4, <1>6 DEF TabOnPanel
<1>7. CASE TabToReady
  BY <1>7 DEF TabToReady, ModeInv, ExecutorMatchesSession
<1>8. CASE TabToHighRisk
  <2>1. opened' = opened
    BY <1>8 DEF TabToHighRisk, StartEnter, CancelHr
  <2> QED BY <1>8, <2>1, ModeKept DEF TabToHighRisk
<1>9. CASE TabToExit
  BY <1>9 DEF TabToExit, ModeInv, ExecutorMatchesSession
<1>10. CASE PickModel
  BY <1>10 DEF PickModel, EditBlocked, ModeInv, ExecutorMatchesSession
<1>11. CASE Prompt \/ TypeRunbook \/ SubmitForm \/ TypeRollback \/ OpenModels
  BY <1>11, ModeKept DEF Prompt, TypeRunbook, SubmitForm, TypeRollback, OpenModels
<1> QED BY <1>4, <1>5, <1>6, <1>7, <1>8, <1>9, <1>10, <1>11 DEF Keys

LEMMA ModeHr == ASSUME ModeInv, HrStep PROVE ModeInv'
<1> USE DEF sshVars, modeVars
<1>1. CASE EnterNeedsTrust \/ EnterFails \/ CommitUnverified \/ RestoreFails
           \/ EnterUnsupported \/ HrDrops
  BY <1>1, ModeKept DEF EnterNeedsTrust, EnterFails, CommitUnverified, RestoreFails,
     EnterUnsupported, HrDrops
<1>2. CASE EnterSucceeds
  BY <1>2 DEF EnterSucceeds, ModeInv, ExecutorMatchesSession
<1>3. CASE LeaveDone
  BY <1>3, ModeLocked DEF LeaveDone
<1>4. CASE CommitLost
  BY <1>4, ModeKept, ModeLocked DEF CommitLost
<1> QED BY <1>1, <1>2, <1>3, <1>4 DEF HrStep

LEMMA ModeAgent == ASSUME ModeInv, AgentEnds \/ AgentActs PROVE ModeInv'
<1> USE DEF sshVars, modeVars
<1>1. CASE AgentReturns
  BY <1>1, ModeKept, ModeLocked DEF AgentReturns, AfterRun
<1>2. CASE AgentBegins \/ AgentRefresh \/ AgentDrops \/ AgentFails \/ AgentNamed
  BY <1>2, ModeKept DEF AgentBegins, AgentRefresh, AgentDrops, AgentFails, AgentNamed
<1>3. CASE AgentActs
  BY <1>3, ModeKept DEF AgentActs, AgentSsh, AgentRest, AgentProposes
<1> QED BY <1>1, <1>2, <1>3 DEF AgentEnds

LEMMA ModeJob == ASSUME ModeInv, JobStep PROVE ModeInv'
BY ModeKept DEF JobStep, JobAnswered, PlanDone, PlanFails, ApplyWrites, ApplyContinues, ApplyEnds,
  ApplyProposes, PreviewDone, UndoEnds, sshVars

LEMMA ModeNext == ModeInv /\ [Next]_vars => ModeInv'
<1> SUFFICES ASSUME ModeInv, [Next]_vars PROVE ModeInv'
  OBVIOUS
<1>1. ASSUME NEW left, Unwind(left) PROVE ModeInv'
  BY <1>1, ModeKept DEF Unwind, sshVars
<1>2. ASSUME NEW s \in Session, LinkDrops(s) PROVE ModeInv'
  BY <1>2, ModeKept DEF LinkDrops
<1>3. CASE UNCHANGED vars
  BY <1>3, ModeKept DEF vars, sshVars
<1> QED BY <1>1, <1>2, <1>3, ModeKeys, ModeHr, ModeAgent, ModeJob DEF Next

\* The screen and the agent loop never disagree on the elevated session, and the
\* screen says HIGH RISK exactly while they hold one: _enter_high_risk,
\* _leave_high_risk, _invalidate_high_risk_session and _activate_preset keep the
\* three assignments together however the workers interleave.
THEOREM ExecutorMatches == Spec => []ExecutorMatchesSession
<1>1. ModeInv => ExecutorMatchesSession
  BY DEF ModeInv
<1> QED BY ModeInit, ModeNext, <1>1, PTL DEF Spec

-------------------------------------------------------------------------------
(* What the panel shows, the plan that waits and the session a worker closes. *)

\* The workers that carry a plan.
PlanWorker == {"planning", "applying", "verifying", "continuing"}

\* The callback of what is shown is the one set last; the other may be stale.
PanelInv ==
  /\ shown \in Choices => choiceCb = shown
  /\ shown \in Approvals => approvalCb = shown
  /\ shown = None => choiceCb = None

\* A plan is on the panel only between its making and its approval: what is shown is
\* pending or was dropped, and was never begun.
PlanInv ==
  /\ job \in PlanWorker => jobOf \in 1..plans
  /\ job = "planning" => jobOf \notin applied /\ shown # ApprovalOf(jobOf)
  /\ \A p \in Plan : shown = ApprovalOf(p) =>
       /\ p <= plans /\ pending \in {0, p} /\ p \notin applied
       /\ ~(job = "applying" /\ jobOf = p)
  /\ applied \subseteq approved \cap (1..plans)
  /\ job = "applying" => jobOf \in approved \ applied

\* A worker closes the session of the screen, or one the screen has already left; none is
\* held while the next is opened.
LeaveInv ==
  /\ hr \in Leaving => hrOf # 0 /\ session \in {0, hrOf}
  /\ hr \in {"entering", "dropping"} => session = 0
  /\ choiceCb = Q("trust") => session = 0 /\ hr = "idle"

ConsoleInv == TypeOK /\ ModeInv /\ PanelInv /\ PlanInv /\ LeaveInv

\* The kinds of questions are different.
LEMMA QuestionKinds ==
  /\ \A p \in Plan : ApprovalOf(p) \in Approvals /\ ApprovalOf(p)[1] = "plan"
                     /\ ApprovalOf(p)[2] = p
  /\ Undo \in Approvals /\ Undo[1] = "undo"
  /\ \A q \in Approvals : q = Undo \/ \E p \in Plan : q = ApprovalOf(p)
  /\ \A q \in Choices : q \notin Approvals
  /\ None \notin Choices \cup Approvals /\ Form \notin Choices \cup Approvals \cup {None}
  /\ Q("models") \notin Choices \cup Approvals \cup {None, Form}
  /\ \A q \in Choices \cup Approvals \cup {None, Form, Q("models")} : q \in Question
BY DEF ApprovalOf, Approvals, Undo, Choices, None, Form, Question, Q

LEMMA ConsoleInit == Init => ConsoleInv
<1> SUFFICES ASSUME Init PROVE ConsoleInv
  OBVIOUS
<1>1. TypeOK
  <2>1. /\ {inputOn, pendingUndo, sawLoss, offline, trusted} \subseteq BOOLEAN
        /\ {hr, job, agent} \subseteq Worker \cup {"idle"}
        /\ unwinding \subseteq {"input", "apply", "undo"}
    BY DEF Init
  <2>2. /\ {session, executor, hrOf, agentOf, opened} \subseteq 0..MaxEntries
        /\ {pending, jobOf, plans} \subseteq 0..MaxPlans
    BY ConsoleBounds DEF Init
  <2>3. shown \in Question /\ approvalCb = None /\ choiceCb = None
    BY DEF Init, Question
  <2> QED
    BY <2>1, <2>2, <2>3 DEF Init, TypeOK, SshState
<1>2. PanelInv /\ LeaveInv
  BY DEF Init, PanelInv, LeaveInv, Choices, Approvals, ApprovalOf, Undo, None, Q, Leaving
<1>3. PlanInv
  BY DEF Init, PlanInv, PlanWorker, None, Q, ApprovalOf
<1> QED
  BY <1>1, <1>2, <1>3, ModeInit DEF ConsoleInv

\* What is on the panel, with its callbacks.
LEMMA PanelStep ==
  ASSUME ConsoleInv, [Next]_vars
  PROVE  PanelInv' /\ shown' \in Question
         /\ approvalCb' \in Approvals \cup {None} /\ choiceCb' \in Choices \cup {None}
<1> DEFINE Goal == PanelInv' /\ shown' \in Question
                   /\ approvalCb' \in Approvals \cup {None} /\ choiceCb' \in Choices \cup {None}
<1>1. /\ PanelInv /\ shown \in Question
      /\ approvalCb \in Approvals \cup {None} /\ choiceCb \in Choices \cup {None}
  BY DEF ConsoleInv, TypeOK
<1>2. CASE UNCHANGED <<shown, approvalCb, choiceCb>>
  BY <1>1, <1>2 DEF PanelInv
<1>3. CASE Close
  BY <1>3, QuestionKinds DEF Close, PanelInv
<1>4. ASSUME NEW q \in Choices, ShowChoice(q) PROVE Goal
  BY <1>1, <1>4, QuestionKinds DEF ShowChoice, PanelInv
<1>5. ASSUME NEW q \in Approvals, ShowApproval(q) PROVE Goal
  BY <1>1, <1>5, QuestionKinds DEF ShowApproval, PanelInv
<1>6. CASE ShowForm
  BY <1>1, <1>6, QuestionKinds DEF ShowForm, PanelInv
<1>7. ASSUME NEW i, AnswerChoice(i) PROVE Goal
  <2>1. CASE Close
    BY <1>3, <2>1
  <2>2. CASE shown' = Q("restore2") /\ choiceCb' = Q("restore2") /\ approvalCb' = None
    BY <1>1, <2>2, QuestionKinds DEF PanelInv, Choices
  <2> QED
    BY <1>7, <2>1, <2>2 DEF AnswerChoice, ChoiceCallback
<1>8. ASSUME NEW yes, AnswerApproval(yes) PROVE Goal
  BY <1>3, <1>8 DEF AnswerApproval
<1>9. CASE AnswerAmend
  <2>1. shown' \in {None, Form} /\ approvalCb' = None /\ choiceCb' = None
    BY <1>9 DEF AnswerAmend
  <2> QED
    BY <2>1, QuestionKinds DEF PanelInv
<1>10. CASE Keys
  <2>1. CASE \E i \in 0..2 : PickOption(i)
    BY <1>7, <1>8, <1>9, <2>1 DEF PickOption
  <2>2. CASE Escape
    BY <1>3, <1>7, <1>8, <2>2 DEF Escape
  <2>3. CASE TabOnPanel
    BY <1>7, <1>8, <1>9, <2>3 DEF TabOnPanel, PickOption
  <2>4. CASE TabToReady \/ TabToHighRisk \/ Prompt
    BY <1>2, <2>4 DEF TabToReady, TabToHighRisk, Prompt, panelVars
  <2>5. CASE TabToExit
    BY <1>2, <1>4, <2>5 DEF TabToExit, Choices
  <2>6. CASE TypeRunbook
    BY <1>6, <2>6 DEF TypeRunbook
  <2>7. CASE SubmitForm \/ PickModel
    BY <1>3, <2>7 DEF SubmitForm, PickModel
  <2>8. CASE TypeRollback
    BY <1>2, <1>4, <2>8 DEF TypeRollback, Choices
  <2>9. CASE OpenModels
    BY <1>1, <2>9, QuestionKinds DEF OpenModels, PanelInv
  <2> QED
    BY <1>10, <2>1, <2>2, <2>3, <2>4, <2>5, <2>6, <2>7, <2>8, <2>9 DEF Keys
<1>11. CASE HrStep
  BY <1>2, <1>4, <1>11 DEF HrStep, EnterNeedsTrust, EnterFails, EnterSucceeds, LeaveDone,
     CommitUnverified, CommitLost, RestoreFails, EnterUnsupported, HrDrops, panelVars, Choices
<1>12. CASE AgentEnds \/ AgentActs
  BY <1>2, <1>6, <1>12 DEF AgentEnds, AgentBegins, AgentRefresh, AgentReturns, AgentDrops,
     AgentFails, AgentNamed, AgentActs, AgentSsh, AgentRest, AgentProposes, panelVars
<1>13. CASE JobStep
  <2>1. CASE PlanDone
    <3>1. jobOf \in Plan
      BY <2>1 DEF PlanDone, ConsoleInv, TypeOK, PlanInv, PlanWorker, Plan
    <3> QED
      BY <1>5, <2>1, <3>1, QuestionKinds DEF PlanDone
  <2>2. CASE PreviewDone
    BY <1>2, <1>5, <2>2, QuestionKinds DEF PreviewDone
  <2>3. CASE ApplyProposes
    BY <1>2, <1>6, <2>3 DEF ApplyProposes
  <2>4. CASE PlanFails \/ ApplyWrites \/ ApplyContinues \/ ApplyEnds \/ UndoEnds
    BY <1>2, <2>4 DEF PlanFails, ApplyWrites, ApplyContinues, ApplyEnds, UndoEnds, panelVars
  <2> QED
    BY <1>13, <2>1, <2>2, <2>3, <2>4 DEF JobStep, JobAnswered
<1>14. CASE UNCHANGED vars
  BY <1>2, <1>14 DEF vars, panelVars
<1>15. ASSUME NEW left, Unwind(left) PROVE Goal
  BY <1>2, <1>15 DEF Unwind
<1>16. ASSUME NEW s \in Session, LinkDrops(s) PROVE Goal
  BY <1>2, <1>16 DEF LinkDrops, panelVars
<1> QED
  BY <1>10, <1>11, <1>12, <1>13, <1>14, <1>15, <1>16 DEF Next

\* The keys that neither answer nor dismiss what the panel asks.
OtherKeys == \/ TabToReady \/ TabToHighRisk \/ TabToExit \/ Prompt \/ TypeRunbook
             \/ SubmitForm \/ TypeRollback \/ OpenModels \/ PickModel

\* The escape of a form or of the model picker.
Dismiss ==
  /\ Close /\ inputOn' = TRUE
  /\ UNCHANGED <<modeVars, hrVars, jobVars, agentVars, sshVars, unwinding, ghostVars>>

\* A key answers the open question, dismisses it, or is one of the others.
LEMMA KeyCases ==
  ASSUME Keys
  PROVE  \/ \E i \in 0..3 : AnswerChoice(i)
         \/ \E yes \in BOOLEAN : /\ yes = FALSE \/ choiceCb = None
                                 /\ OnPanel /\ AnswerApproval(yes)
         \/ AnswerAmend \/ Dismiss \/ OtherKeys
<1>1. ASSUME NEW i \in 0..2, PickOption(i)
      PROVE  \/ \E j \in 0..3 : AnswerChoice(j)
             \/ choiceCb = None /\ OnPanel /\ AnswerApproval(i = 0)
             \/ AnswerAmend
  BY <1>1 DEF PickOption
<1>2. \A i \in 0..2 : (i = 0) \in BOOLEAN
  OBVIOUS
<1>3. CASE Escape
  <2>1. CASE shown \in Approvals /\ AnswerApproval(FALSE)
    BY <2>1 DEF OnPanel
  <2>2. CASE shown \in Choices /\ AnswerChoice(3)
    BY <2>2
  <2> QED
    BY <1>3, <2>1, <2>2 DEF Escape, Dismiss
<1>4. CASE TabOnPanel
  <2>1. 1 \in 0..2
    OBVIOUS
  <2> QED
    BY <1>1, <1>2, <1>4, <2>1 DEF TabOnPanel
<1> QED
  BY <1>1, <1>2, <1>3, <1>4 DEF Keys, OtherKeys

\* The steps that keep the plans as they are: the worker goes on, ends, or starts a new
\* plan, and nothing but what is pending is on the panel.
LEMMA PlanFrame ==
  ASSUME ConsoleInv, UNCHANGED <<approved, applied>>,
         \/ plans' = plans /\ (job' \notin PlanWorker \/ (job' = job /\ jobOf' = jobOf))
         \/ /\ plans < MaxPlans /\ plans' = plans + 1
            /\ job' = "planning" /\ jobOf' = plans + 1,
         shown' = shown \/ \A p \in Plan : shown' # ApprovalOf(p),
         pending' \in {pending, 0}
  PROVE  PlanInv'
<1>1. PlanInv /\ plans \in 0..MaxPlans
  BY DEF ConsoleInv, TypeOK
<1> USE DEF PlanInv, PlanWorker
<1>2. plans' \in Nat /\ plans <= plans'
  BY <1>1
<1>3. (job' \in PlanWorker => jobOf' \in 1..plans') /\ applied' \subseteq approved' \cap (1..plans')
  BY <1>1, <1>2
<1>4. job' = "applying" => jobOf' \in approved' \ applied'
  BY <1>1
<1>5. CASE plans' = plans /\ (job' \notin PlanWorker \/ (job' = job /\ jobOf' = jobOf))
  <2>1. job' = "planning" => jobOf' \notin applied' /\ shown' # ApprovalOf(jobOf')
    BY <1>1, <1>5, ConsoleBounds DEF Plan
  <2>2. ASSUME NEW p \in Plan, shown' = ApprovalOf(p)
        PROVE  /\ p <= plans' /\ pending' \in {0, p} /\ p \notin applied'
               /\ ~(job' = "applying" /\ jobOf' = p)
    BY <1>1, <1>5, <2>2
  <2> QED
    BY <1>3, <1>4, <2>1, <2>2
<1>6. CASE plans < MaxPlans /\ plans' = plans + 1 /\ job' = "planning" /\ jobOf' = plans + 1
  <2>1. jobOf' \notin applied'
    BY <1>1, <1>6
  <2>2. shown' # ApprovalOf(jobOf')
    <3>1. plans + 1 \in Plan /\ ~(plans + 1 <= plans)
      BY <1>1, <1>6, ConsoleBounds DEF Plan
    <3> QED
      BY <1>1, <1>6, <3>1
  <2>3. ASSUME NEW p \in Plan, shown' = ApprovalOf(p)
        PROVE  /\ p <= plans' /\ pending' \in {0, p} /\ p \notin applied'
               /\ ~(job' = "applying" /\ jobOf' = p)
    BY <1>1, <1>2, <1>6, <2>3 DEF Plan
  <2> QED
    BY <1>3, <1>4, <2>1, <2>2, <2>3
<1> QED
  BY <1>5, <1>6

\* A plan is approved on the panel that shows it, and begun once.
LEMMA PlanApproval ==
  ASSUME ConsoleInv, NEW yes \in BOOLEAN, OnPanel, AnswerApproval(yes),
         yes = FALSE \/ choiceCb = None
  PROVE  PlanInv'
<1>1. shown' = None /\ approvalCb # None /\ UNCHANGED <<plans, applied>>
  BY DEF AnswerApproval, Close
<1>2. /\ PanelInv /\ PlanInv /\ plans \in 0..MaxPlans /\ pending \in 0..MaxPlans
      /\ approvalCb \in Approvals \cup {None} /\ approved \subseteq Plan
  BY DEF ConsoleInv, TypeOK
<1>3. \A p \in Plan : shown' # ApprovalOf(p)
  BY <1>1, QuestionKinds
<1>4. CASE UndoApproved(yes)
  <2>1. job' \notin PlanWorker \/ (job' = job /\ jobOf' = jobOf)
    BY <1>4 DEF UndoApproved, StartJob, PlanWorker
  <2>2. pending' = pending /\ approved' = approved
    BY <1>4 DEF UndoApproved
  <2> QED
    BY <1>1, <1>3, <2>1, <2>2, PlanFrame
<1>5. CASE PlanApproved(yes) /\ (pending = 0 \/ ~yes)
  BY <1>1, <1>3, <1>5, PlanFrame DEF PlanApproved
<1>6. CASE PlanApproved(yes) /\ ~(pending = 0 \/ ~yes)
  <2>1. /\ approvalCb[1] = "plan" /\ job' = "applying" /\ jobOf' = pending
        /\ approved' = approved \cup {shown[2]}
    BY <1>6 DEF PlanApproved, StartJob
  <2>2. approvalCb \in Approvals /\ approvalCb # Undo
    BY <1>1, <1>2, <2>1, QuestionKinds
  <2>3. PICK p \in Plan : approvalCb = ApprovalOf(p)
    BY <2>2, QuestionKinds
  <2>4. shown \in Approvals /\ shown = approvalCb
    <3>1. shown \in Choices \cup Approvals /\ choiceCb = None
      BY <1>6 DEF OnPanel
    <3> QED
      BY <1>2, <3>1, QuestionKinds DEF PanelInv
  <2>5. shown = ApprovalOf(p) /\ shown[2] = p
    BY <2>3, <2>4, QuestionKinds
  <2>6. p <= plans /\ pending = p /\ p \notin applied
    BY <1>2, <1>6, <2>5 DEF PlanInv
  <2>7. p \in 1..plans
    BY <1>2, <2>6, ConsoleBounds DEF Plan
  <2> QED
    BY <1>1, <1>2, <1>3, <2>1, <2>5, <2>6, <2>7 DEF PlanInv, PlanWorker
<1> QED
  BY <1>4, <1>5, <1>6 DEF AnswerApproval

LEMMA PlanStep == ASSUME ConsoleInv, [Next]_vars PROVE PlanInv'
<1> USE DEF jobVars, ghostVars, panelVars
<1>1. PlanInv /\ plans \in 0..MaxPlans /\ applied \subseteq Plan
  BY DEF ConsoleInv, TypeOK
<1>2. \A p \in Plan : ApprovalOf(p) \notin Choices \cup {None, Form, Q("models")}
  BY QuestionKinds
<1>3. CASE Keys
  <2>1. ASSUME NEW i \in 0..3, AnswerChoice(i) PROVE PlanInv'
    <3>1. UNCHANGED <<plans, job, jobOf, pending, approved, applied>>
      BY <2>1 DEF AnswerChoice
    <3>2. shown' \in {None, Q("restore2")}
      BY <2>1 DEF AnswerChoice, ChoiceCallback, Close
    <3> QED
      BY <1>2, <3>1, <3>2, PlanFrame DEF Choices
  <2>2. CASE AnswerAmend
    <3>1. UNCHANGED <<plans, approved, applied>> /\ shown' \in {None, Form}
          /\ pending' \in {pending, 0}
      BY <2>2 DEF AnswerAmend
    <3>2. job' \notin PlanWorker \/ (job' = job /\ jobOf' = jobOf)
      BY <2>2 DEF AnswerAmend, StartJob, PlanWorker
    <3> QED
      BY <1>2, <3>1, <3>2, PlanFrame
  <2>3. CASE Dismiss
    BY <1>2, <2>3, PlanFrame DEF Dismiss, Close
  <2>4. CASE TabToReady \/ TabToHighRisk \/ Prompt
    BY <2>4, PlanFrame DEF TabToReady, TabToHighRisk, Prompt
  <2>5. CASE TabToExit \/ TypeRunbook \/ OpenModels \/ PickModel
    BY <1>2, <2>5, PlanFrame DEF TabToExit, TypeRunbook, OpenModels, PickModel,
       ShowChoice, ShowForm, Close, Choices
  <2>6. CASE SubmitForm
    BY <1>2, <2>6, PlanFrame DEF SubmitForm, StartPlan, StartJob, Close
  <2>7. CASE TypeRollback
    BY <1>2, <2>7, PlanFrame DEF TypeRollback, StartJob, ShowChoice, Choices, PlanWorker
  <2> QED
    BY <1>3, <2>1, <2>2, <2>3, <2>4, <2>5, <2>6, <2>7, KeyCases, PlanApproval DEF OtherKeys
<1>4. CASE HrStep
  BY <1>2, <1>4, PlanFrame DEF HrStep, EnterNeedsTrust, EnterFails, EnterSucceeds, LeaveDone,
     CommitUnverified, CommitLost, RestoreFails, EnterUnsupported, HrDrops, ShowChoice, Choices
<1>5. CASE AgentEnds
  BY <1>5, PlanFrame DEF AgentEnds, AgentBegins, AgentRefresh, AgentReturns, AgentDrops,
     AgentFails, AgentNamed
<1>6. CASE AgentActs
  BY <1>2, <1>6, PlanFrame DEF AgentActs, AgentSsh, AgentRest, AgentProposes, StartPlan,
     StartJob, ShowForm
<1>7. CASE JobStep
  <2>1. CASE PlanDone
    <3>1. /\ job = "planning" /\ pending' = jobOf /\ shown' = ApprovalOf(jobOf)
          /\ job' = "idle" /\ UNCHANGED <<plans, approved, applied>>
      BY <2>1 DEF PlanDone, ShowApproval, JobIdle
    <3>2. jobOf \in 1..plans /\ jobOf \notin applied
      BY <1>1, <3>1 DEF PlanInv, PlanWorker
    <3>3. \A p \in Plan : shown' = ApprovalOf(p) => p = jobOf
      BY <3>1 DEF ApprovalOf
    <3> QED
      BY <1>1, <3>1, <3>2, <3>3 DEF PlanInv, PlanWorker
  <2>2. CASE ApplyWrites
    <3>1. /\ job = "applying" /\ job' = "verifying" /\ applied' = applied \cup {jobOf}
          /\ UNCHANGED <<shown, jobOf, pending, plans, approved>>
      BY <2>2 DEF ApplyWrites
    <3> QED
      BY <1>1, <3>1 DEF PlanInv, PlanWorker
  <2>3. CASE ApplyContinues
    <3>1. /\ job = "verifying" /\ job' = "continuing"
          /\ UNCHANGED <<shown, jobOf, pending, plans, approved, applied>>
      BY <2>3 DEF ApplyContinues
    <3> QED
      BY <1>1, <3>1 DEF PlanInv, PlanWorker
  <2>4. CASE ApplyProposes
    BY <1>2, <2>4, PlanFrame DEF ApplyProposes, JobIdle, ShowForm, PlanWorker
  <2>5. CASE PlanFails \/ ApplyEnds \/ UndoEnds
    BY <2>5, PlanFrame DEF PlanFails, ApplyEnds, UndoEnds, JobIdle, PlanWorker
  <2>6. CASE PreviewDone
    BY <2>6, PlanFrame, QuestionKinds DEF PreviewDone, JobIdle, ShowApproval, PlanWorker
  <2> QED
    BY <1>7, <2>1, <2>2, <2>3, <2>4, <2>5, <2>6 DEF JobStep, JobAnswered
<1>8. ASSUME NEW left, Unwind(left) PROVE PlanInv'
  BY <1>8, PlanFrame DEF Unwind
<1>9. ASSUME NEW s \in Session, LinkDrops(s) PROVE PlanInv'
  BY <1>9, PlanFrame DEF LinkDrops
<1>10. CASE UNCHANGED vars
  BY <1>10, PlanFrame DEF vars
<1> QED
  BY <1>3, <1>4, <1>5, <1>6, <1>7, <1>8, <1>9, <1>10 DEF Next

\* The steps that leave the high-risk worker alone; the screen may lock.
LEMMA LeaveFrame ==
  ASSUME LeaveInv, UNCHANGED hrVars, session' \in {session, 0},
         choiceCb' = choiceCb \/ choiceCb' # Q("trust")
  PROVE  LeaveInv'
BY DEF LeaveInv, hrVars, Leaving

LEMMA LeaveStep == ASSUME ConsoleInv, [Next]_vars PROVE LeaveInv'
<1> USE DEF panelVars, modeVars
<1>1. LeaveInv /\ PanelInv /\ ExecutorMatchesSession
  BY DEF ConsoleInv, ModeInv
<1>2. /\ None # Q("trust") /\ Undo # Q("trust") /\ Q("exit") # Q("trust")
      /\ Q("restore1") # Q("trust") /\ Q("restore2") # Q("trust")
  BY DEF None, Undo, Q
<1>3. CASE Keys
  <2>1. ASSUME NEW i \in 0..3, AnswerChoice(i) PROVE LeaveInv'
    <3>1. session' = session /\ choiceCb # None
      BY <2>1 DEF AnswerChoice
    <3>2. CASE choiceCb = Q("trust") /\ Close /\ StartEnter
      BY <1>1, <1>2, <3>1, <3>2 DEF LeaveInv, Close, StartEnter, Leaving
    <3>3. ASSUME NEW kind \in Leaving, Close, StartLeave(kind) PROVE LeaveInv'
      BY <1>1, <1>2, <3>1, <3>3 DEF LeaveInv, Close, StartLeave, HrIdle, Leaving
    <3>4. CASE choiceCb' \in {None, Q("restore2")} /\ UNCHANGED hrVars
      BY <1>1, <1>2, <3>1, <3>4, LeaveFrame
    <3>5. ChoiceCallback(choiceCb, i)
      BY <2>1 DEF AnswerChoice
    <3> QED
      BY <3>2, <3>3, <3>4, <3>5 DEF ChoiceCallback, Leaving, Close
  <2>2. ASSUME NEW yes \in BOOLEAN, AnswerApproval(yes) PROVE LeaveInv'
    BY <1>1, <1>2, <2>2, LeaveFrame DEF AnswerApproval, Close
  <2>3. CASE AnswerAmend \/ Dismiss
    BY <1>1, <1>2, <2>3, LeaveFrame DEF AnswerAmend, Dismiss, Close
  <2>4. CASE TabToHighRisk
    BY <1>1, <1>2, <2>4 DEF TabToHighRisk, StartEnter, LeaveInv, PanelInv, Leaving,
       ExecutorMatchesSession
  <2>5. CASE TabToReady \/ TabToExit \/ TypeRunbook \/ OpenModels \/ PickModel
    BY <1>1, <1>2, <2>5, LeaveFrame DEF TabToReady, TabToExit, TypeRunbook, OpenModels,
       PickModel, ShowChoice, ShowForm, Close
  <2>6. CASE Prompt \/ SubmitForm \/ TypeRollback
    BY <1>1, <1>2, <2>6, LeaveFrame DEF Prompt, SubmitForm, TypeRollback, ShowChoice, Close
  <2> QED
    BY <1>3, <2>1, <2>2, <2>3, <2>4, <2>5, <2>6, KeyCases DEF OtherKeys
<1>4. CASE HrStep
  <2>1. CASE EnterUnsupported
    BY <1>1, <2>1 DEF EnterUnsupported, LeaveInv, Leaving
  <2>2. CASE EnterNeedsTrust
    BY <1>1, <2>2 DEF EnterNeedsTrust, EndHr, HrIdle, ShowChoice, LeaveInv, Leaving
  <2>3. CASE CommitLost
    BY <1>1, <2>3 DEF CommitLost, LockMode, EndHr, HrIdle, LeaveInv, Leaving
  <2>4. CASE EnterFails \/ EnterSucceeds \/ LeaveDone \/ CommitUnverified \/ RestoreFails \/ HrDrops
    <3>1. hr' = "idle" /\ hr # "idle" /\ choiceCb' = choiceCb
      BY <2>4 DEF EnterFails, EnterSucceeds, LeaveDone, CommitUnverified, RestoreFails,
         HrDrops, EndHr, HrIdle
    <3> QED
      BY <1>1, <3>1 DEF LeaveInv, Leaving
  <2> QED
    BY <1>4, <2>1, <2>2, <2>3, <2>4 DEF HrStep
<1>5. CASE AgentEnds
  BY <1>1, <1>5, LeaveFrame DEF AgentEnds, AgentBegins, AgentRefresh, AgentReturns,
     AfterRun, LockMode, AgentDrops, AgentFails, AgentNamed
<1>6. CASE AgentActs
  BY <1>1, <1>6, LeaveFrame DEF AgentActs, AgentSsh, AgentRest, AgentProposes, ShowForm
<1>7. CASE JobStep
  BY <1>1, <1>7, LeaveFrame DEF JobStep, JobAnswered, PlanDone, PlanFails, ApplyWrites, ApplyContinues,
     ApplyEnds, ApplyProposes, PreviewDone, UndoEnds, ShowApproval, ShowForm
<1>8. ASSUME NEW left, Unwind(left) PROVE LeaveInv'
  BY <1>1, <1>8, LeaveFrame DEF Unwind
<1>9. ASSUME NEW s \in Session, LinkDrops(s) PROVE LeaveInv'
  BY <1>1, <1>9, LeaveFrame DEF LinkDrops
<1>10. CASE UNCHANGED vars
  BY <1>1, <1>10, LeaveFrame DEF vars
<1> QED
  BY <1>3, <1>4, <1>5, <1>6, <1>7, <1>8, <1>9, <1>10 DEF Next

-------------------------------------------------------------------------------
(* Types.                                                                     *)

\* What the workers leave to unwind, and of a session they were closing.
LEMMA CancelTypes ==
  ASSUME TypeOK
  PROVE  /\ \A w : Finally(w) \subseteq {"input", "apply", "undo"}
         /\ \A w : Cancelled(w) \subseteq {"input", "apply", "undo"}
         /\ hrOf # 0 => Abandoned \subseteq SshState
<1>1. \A w : Finally(w) \subseteq {"input", "apply", "undo"}
  BY DEF Finally
<1>3. hrOf # 0 => ssh[hrOf] \in SshState
  BY ConsoleBounds DEF TypeOK, Session
<1>4. hrOf # 0 => Abandoned \subseteq SshState
  BY <1>3 DEF Abandoned, SshState
<1> QED
  BY <1>1, <1>4 DEF Cancelled, TypeOK

\* The steps that start and stop the high-risk worker.
LEMMA CancelHrTypes ==
  ASSUME TypeOK, CancelHr
  PROVE  /\ ssh' \in [Session -> SshState] /\ opened' = opened
         /\ unwinding' \subseteq {"input", "apply", "undo"}
<1>1. ssh \in [Session -> SshState]
  BY DEF TypeOK
<1>2. CASE hrOf = 0
  BY <1>1, <1>2, CancelTypes DEF CancelHr
<1>3. CASE hrOf # 0
  BY <1>1, <1>3, CancelTypes DEF CancelHr
<1> QED
  BY <1>2, <1>3, CancelTypes DEF CancelHr

\* The mode and the sessions.
LEMMA ScreenTypes ==
  ASSUME ConsoleInv, [Next]_vars
  PROVE  /\ {mode', agentMode'} \subseteq {"PLAN", "READY", "HIGH_RISK"}
         /\ {session', executor', hrOf', agentOf', opened'} \subseteq 0..MaxEntries
<1> USE DEF panelVars, modeVars, hrVars, jobVars, agentVars, sshVars, ghostVars
<1>1. TypeOK
  BY DEF ConsoleInv
<1>2. /\ MaxEntries \in Nat /\ MaxPlans \in Nat
      /\ {mode, agentMode} \subseteq {"PLAN", "READY", "HIGH_RISK"}
      /\ {session, executor, hrOf, agentOf, opened} \subseteq 0..MaxEntries
     
  BY <1>1, ConsoleBounds DEF TypeOK
<1>3. ASSUME NEW i \in 0..3, AnswerChoice(i)
      PROVE  /\ {mode', agentMode'} \subseteq {"PLAN", "READY", "HIGH_RISK"}
         /\ {session', executor', hrOf', agentOf', opened'} \subseteq 0..MaxEntries
  BY <1>2, <1>3 DEF AnswerChoice, ChoiceCallback, StartEnter, StartLeave, HrIdle, Close, CancelHr
<1>4. ASSUME NEW yes \in BOOLEAN, AnswerApproval(yes)
      PROVE  /\ {mode', agentMode'} \subseteq {"PLAN", "READY", "HIGH_RISK"}
         /\ {session', executor', hrOf', agentOf', opened'} \subseteq 0..MaxEntries
  BY <1>2, <1>4 DEF AnswerApproval, PlanApproved, UndoApproved, StartJob, Close, CancelHr
<1>5. CASE AnswerAmend \/ Dismiss
  BY <1>2, <1>5 DEF AnswerAmend, Dismiss, StartJob, Close, CancelHr
<1>6. CASE OtherKeys
  BY <1>2, <1>6 DEF OtherKeys, TabToReady, TabToHighRisk, TabToExit, Prompt, TypeRunbook, SubmitForm,
     TypeRollback, OpenModels, PickModel, StartEnter, StartPlan, StartJob, CancelHr
<1>7. CASE HrStep
  BY <1>2, <1>7 DEF HrStep, EnterNeedsTrust, EnterFails, EnterSucceeds, LeaveDone,
     CommitUnverified, CommitLost, RestoreFails, EnterUnsupported, HrDrops, EndHr, HrIdle, LockMode, CancelHr
<1>8. CASE AgentEnds
  <2>1. CASE AgentReturns
    <3>1. \/ LockMode /\ agentOf' = session
          \/ UNCHANGED <<mode, session, executor, agentOf>>
      BY <2>1 DEF AgentReturns, AfterRun
    <3>2. agentMode' = "PLAN" /\ UNCHANGED <<hrOf, opened>>
      BY <2>1 DEF AgentReturns, AfterRun
    <3> QED
      BY <1>2, <3>1, <3>2 DEF LockMode
  <2>2. CASE AgentBegins
    BY <1>2, <2>2 DEF AgentBegins, EndAgent
  <2>3. CASE AgentRefresh \/ AgentDrops \/ AgentFails \/ AgentNamed
    <3>1. agentMode' \in {agentMode, "PLAN"} /\ agentOf' \in {agentOf, 0}
      BY <2>3 DEF AgentRefresh, AgentDrops, AgentFails, AgentNamed, EndAgent
    <3>2. UNCHANGED <<mode, session, executor, hrOf, opened>>
      BY <2>3 DEF AgentRefresh, AgentDrops, AgentFails, AgentNamed
    <3> QED
      BY <1>2, <3>1, <3>2
  <2> QED
    BY <1>8, <2>1, <2>2, <2>3 DEF AgentEnds
<1>9. CASE AgentActs
  BY <1>2, <1>9 DEF AgentActs, AgentSsh, AgentRest, AgentProposes, StartPlan, StartJob, CancelHr
<1>10. CASE JobStep
  BY <1>2, <1>10 DEF JobStep, JobAnswered, PlanDone, PlanFails, ApplyWrites, ApplyContinues, ApplyEnds,
     ApplyProposes, PreviewDone, UndoEnds, JobIdle, CancelHr
<1>11. ASSUME NEW left, Unwind(left)
       PROVE  /\ {mode', agentMode'} \subseteq {"PLAN", "READY", "HIGH_RISK"}
         /\ {session', executor', hrOf', agentOf', opened'} \subseteq 0..MaxEntries
  BY <1>2, <1>11 DEF Unwind, CancelHr
<1>12. ASSUME NEW s \in Session, LinkDrops(s)
       PROVE  /\ {mode', agentMode'} \subseteq {"PLAN", "READY", "HIGH_RISK"}
         /\ {session', executor', hrOf', agentOf', opened'} \subseteq 0..MaxEntries
  BY <1>2, <1>12 DEF LinkDrops, CancelHr
<1>13. CASE UNCHANGED vars
  BY <1>2, <1>13 DEF vars, CancelHr
<1> QED
  BY <1>3, <1>4, <1>5, <1>6, <1>7, <1>8, <1>9, <1>10, <1>11, <1>12, <1>13, KeyCases DEF Next

\* The plans.
LEMMA PlanTypes ==
  ASSUME ConsoleInv, [Next]_vars
  PROVE  {pending', jobOf', plans'} \subseteq 0..MaxPlans
<1> USE DEF panelVars, modeVars, hrVars, jobVars, agentVars, sshVars, ghostVars
<1>1. TypeOK
  BY DEF ConsoleInv
<1>2. MaxPlans \in Nat /\ {pending, jobOf, plans} \subseteq 0..MaxPlans
  BY <1>1, ConsoleBounds DEF TypeOK
<1>3. ASSUME NEW i \in 0..3, AnswerChoice(i)
      PROVE  {pending', jobOf', plans'} \subseteq 0..MaxPlans
  BY <1>2, <1>3 DEF AnswerChoice, ChoiceCallback, StartEnter, StartLeave, HrIdle, Close
<1>4. ASSUME NEW yes \in BOOLEAN, AnswerApproval(yes)
      PROVE  {pending', jobOf', plans'} \subseteq 0..MaxPlans
  BY <1>2, <1>4 DEF AnswerApproval, PlanApproved, UndoApproved, StartJob, Close
<1>5. CASE AnswerAmend \/ Dismiss
  BY <1>2, <1>5 DEF AnswerAmend, Dismiss, StartJob, Close
<1>6. CASE OtherKeys
  BY <1>2, <1>6 DEF OtherKeys, TabToReady, TabToHighRisk, TabToExit, Prompt, TypeRunbook, SubmitForm,
     TypeRollback, OpenModels, PickModel, StartEnter, StartPlan, StartJob
<1>7. CASE HrStep
  BY <1>2, <1>7 DEF HrStep, EnterNeedsTrust, EnterFails, EnterSucceeds, LeaveDone,
     CommitUnverified, CommitLost, RestoreFails, EnterUnsupported, HrDrops, EndHr, HrIdle, LockMode
<1>8. CASE AgentEnds
  BY <1>2, <1>8 DEF AgentEnds, AgentBegins, AgentRefresh, AgentReturns, AfterRun,
     AgentDrops, AgentFails, AgentNamed, EndAgent, LockMode
<1>9. CASE AgentActs
  BY <1>2, <1>9 DEF AgentActs, AgentSsh, AgentRest, AgentProposes, StartPlan, StartJob
<1>10. CASE JobStep
  BY <1>2, <1>10 DEF JobStep, JobAnswered, PlanDone, PlanFails, ApplyWrites, ApplyContinues, ApplyEnds,
     ApplyProposes, PreviewDone, UndoEnds, JobIdle
<1>11. ASSUME NEW left, Unwind(left)
       PROVE  {pending', jobOf', plans'} \subseteq 0..MaxPlans
  BY <1>2, <1>11 DEF Unwind
<1>12. ASSUME NEW s \in Session, LinkDrops(s)
       PROVE  {pending', jobOf', plans'} \subseteq 0..MaxPlans
  BY <1>2, <1>12 DEF LinkDrops
<1>13. CASE UNCHANGED vars
  BY <1>2, <1>13 DEF vars
<1> QED
  BY <1>3, <1>4, <1>5, <1>6, <1>7, <1>8, <1>9, <1>10, <1>11, <1>12, <1>13, KeyCases DEF Next

\* The flags.
LEMMA FlagTypes ==
  ASSUME ConsoleInv, [Next]_vars
  PROVE  {inputOn', pendingUndo', sawLoss', offline', trusted'} \subseteq BOOLEAN
<1> USE DEF panelVars, modeVars, hrVars, jobVars, agentVars, sshVars, ghostVars
<1>1. TypeOK
  BY DEF ConsoleInv
<1>2. {inputOn, pendingUndo, sawLoss, offline, trusted} \subseteq BOOLEAN
  BY <1>1 DEF TypeOK
<1>3. ASSUME NEW i \in 0..3, AnswerChoice(i)
      PROVE  {inputOn', pendingUndo', sawLoss', offline', trusted'} \subseteq BOOLEAN
  BY <1>2, <1>3 DEF AnswerChoice, ChoiceCallback, StartEnter, StartLeave, HrIdle, Close, CancelHr, EndAgent, EndHr
<1>4. ASSUME NEW yes \in BOOLEAN, AnswerApproval(yes)
      PROVE  {inputOn', pendingUndo', sawLoss', offline', trusted'} \subseteq BOOLEAN
  BY <1>2, <1>4 DEF AnswerApproval, PlanApproved, UndoApproved, StartJob, Close, CancelHr, EndAgent, EndHr
<1>5. CASE AnswerAmend \/ Dismiss
  BY <1>2, <1>5 DEF AnswerAmend, Dismiss, StartJob, Close, CancelHr, EndAgent, EndHr
<1>6. CASE OtherKeys
  BY <1>2, <1>6 DEF OtherKeys, TabToReady, TabToHighRisk, TabToExit, Prompt, TypeRunbook, SubmitForm,
     TypeRollback, OpenModels, PickModel, StartEnter, StartPlan, StartJob, CancelHr, EndAgent, EndHr
<1>7. CASE HrStep
  BY <1>2, <1>7 DEF HrStep, EnterNeedsTrust, EnterFails, EnterSucceeds, LeaveDone,
     CommitUnverified, CommitLost, RestoreFails, EnterUnsupported, HrDrops, EndHr, HrIdle, LockMode, CancelHr, EndAgent, EndHr
<1>8. CASE AgentEnds
  BY <1>2, <1>8 DEF AgentEnds, AgentBegins, AgentRefresh, AgentReturns, AfterRun,
     AgentDrops, AgentFails, AgentNamed, EndAgent, LockMode, CancelHr, EndAgent, EndHr
<1>9. CASE AgentActs
  BY <1>2, <1>9 DEF AgentActs, AgentSsh, AgentRest, AgentProposes, StartPlan, StartJob, CancelHr, EndAgent, EndHr
<1>10. CASE JobStep
  BY <1>2, <1>10 DEF JobStep, JobAnswered, PlanDone, PlanFails, ApplyWrites, ApplyContinues, ApplyEnds,
     ApplyProposes, PreviewDone, UndoEnds, JobIdle, CancelHr, EndAgent, EndHr
<1>11. ASSUME NEW left, Unwind(left)
       PROVE  {inputOn', pendingUndo', sawLoss', offline', trusted'} \subseteq BOOLEAN
  BY <1>2, <1>11 DEF Unwind, CancelHr, EndAgent, EndHr
<1>12. ASSUME NEW s \in Session, LinkDrops(s)
       PROVE  {inputOn', pendingUndo', sawLoss', offline', trusted'} \subseteq BOOLEAN
  BY <1>2, <1>12 DEF LinkDrops, CancelHr, EndAgent, EndHr
<1>13. CASE UNCHANGED vars
  BY <1>2, <1>13 DEF vars, CancelHr, EndAgent, EndHr
<1> QED
  BY <1>3, <1>4, <1>5, <1>6, <1>7, <1>8, <1>9, <1>10, <1>11, <1>12, <1>13, KeyCases DEF Next

\* The workers and what they leave to unwind.
LEMMA WorkerTypes ==
  ASSUME ConsoleInv, [Next]_vars
  PROVE  /\ {hr', job', agent'} \subseteq Worker \cup {"idle"}
         /\ unwinding' \subseteq {"input", "apply", "undo"}
<1> USE DEF panelVars, modeVars, hrVars, jobVars, agentVars, sshVars, ghostVars
<1>1. TypeOK
  BY DEF ConsoleInv
<1>2. /\ {hr, job, agent} \subseteq Worker \cup {"idle"}
      /\ unwinding \subseteq {"input", "apply", "undo"}
      /\ \A w : Cancelled(w) \subseteq {"input", "apply", "undo"}
  BY <1>1, CancelTypes DEF TypeOK
<1>3. ASSUME NEW i \in 0..3, AnswerChoice(i)
      PROVE  /\ {hr', job', agent'} \subseteq Worker \cup {"idle"}
         /\ unwinding' \subseteq {"input", "apply", "undo"}
  BY <1>2, <1>3 DEF AnswerChoice, ChoiceCallback, StartEnter, StartLeave, HrIdle, Close, CancelHr, Worker
<1>4. ASSUME NEW yes \in BOOLEAN, AnswerApproval(yes)
      PROVE  /\ {hr', job', agent'} \subseteq Worker \cup {"idle"}
         /\ unwinding' \subseteq {"input", "apply", "undo"}
  BY <1>2, <1>4 DEF AnswerApproval, PlanApproved, UndoApproved, StartJob, Close, CancelHr, Worker
<1>5. CASE AnswerAmend \/ Dismiss
  BY <1>2, <1>5 DEF AnswerAmend, Dismiss, StartJob, Close, CancelHr, Worker
<1>6. CASE OtherKeys
  BY <1>2, <1>6 DEF OtherKeys, TabToReady, TabToHighRisk, TabToExit, Prompt, TypeRunbook, SubmitForm,
     TypeRollback, OpenModels, PickModel, StartEnter, StartPlan, StartJob, CancelHr, Worker
<1>7. CASE HrStep
  BY <1>2, <1>7 DEF HrStep, EnterNeedsTrust, EnterFails, EnterSucceeds, LeaveDone,
     CommitUnverified, CommitLost, RestoreFails, EnterUnsupported, HrDrops, EndHr, HrIdle, LockMode, CancelHr, Worker
<1>8. CASE AgentEnds
  BY <1>2, <1>8 DEF AgentEnds, AgentBegins, AgentRefresh, AgentReturns, AfterRun,
     AgentDrops, AgentFails, AgentNamed, EndAgent, LockMode, CancelHr, Worker
<1>9. CASE AgentActs
  BY <1>2, <1>9 DEF AgentActs, AgentSsh, AgentRest, AgentProposes, StartPlan, StartJob, CancelHr, Worker
<1>10. CASE JobStep
  BY <1>2, <1>10 DEF JobStep, JobAnswered, PlanDone, PlanFails, ApplyWrites, ApplyContinues, ApplyEnds,
     ApplyProposes, PreviewDone, UndoEnds, JobIdle, CancelHr, Worker
<1>11. ASSUME NEW left, Unwind(left)
       PROVE  /\ {hr', job', agent'} \subseteq Worker \cup {"idle"}
         /\ unwinding' \subseteq {"input", "apply", "undo"}
  BY <1>2, <1>11 DEF Unwind, CancelHr, Worker
<1>12. ASSUME NEW s \in Session, LinkDrops(s)
       PROVE  /\ {hr', job', agent'} \subseteq Worker \cup {"idle"}
         /\ unwinding' \subseteq {"input", "apply", "undo"}
  BY <1>2, <1>12 DEF LinkDrops, CancelHr, Worker
<1>13. CASE UNCHANGED vars
  BY <1>2, <1>13 DEF vars, CancelHr, Worker
<1> QED
  BY <1>3, <1>4, <1>5, <1>6, <1>7, <1>8, <1>9, <1>10, <1>11, <1>12, <1>13, KeyCases DEF Next

\* The sessions of the router.
LEMMA SshTypes ==
  ASSUME ConsoleInv, [Next]_vars
  PROVE  ssh' \in [Session -> SshState]
<1> USE DEF panelVars, modeVars, hrVars, jobVars, agentVars, sshVars, ghostVars
<1>1. TypeOK
  BY DEF ConsoleInv
<1>2. /\ ssh \in [Session -> SshState]
      /\ CancelHr => ssh' \in [Session -> SshState]
      /\ {"new", "open", "bare", "cut", "closed"} \subseteq SshState
      /\ 0 \notin Session /\ {hrOf, executor, agentOf} \subseteq {0} \cup Session
  BY <1>1, CancelTypes, CancelHrTypes, ConsoleBounds DEF TypeOK, SshState, Session
<1>3. ASSUME NEW i \in 0..3, AnswerChoice(i)
      PROVE  ssh' \in [Session -> SshState]
  BY <1>2, <1>3 DEF AnswerChoice, ChoiceCallback, StartEnter, StartLeave, HrIdle, Close
<1>4. ASSUME NEW yes \in BOOLEAN, AnswerApproval(yes)
      PROVE  ssh' \in [Session -> SshState]
  BY <1>2, <1>4 DEF AnswerApproval, PlanApproved, UndoApproved, StartJob, Close
<1>5. CASE AnswerAmend \/ Dismiss
  BY <1>2, <1>5 DEF AnswerAmend, Dismiss, StartJob, Close
<1>6. CASE OtherKeys
  BY <1>2, <1>6 DEF OtherKeys, TabToReady, TabToHighRisk, TabToExit, Prompt, TypeRunbook, SubmitForm,
     TypeRollback, OpenModels, PickModel, StartEnter, StartPlan, StartJob
<1>7. CASE HrStep
  BY <1>2, <1>7 DEF HrStep, EnterNeedsTrust, EnterFails, EnterSucceeds, LeaveDone,
     CommitUnverified, CommitLost, RestoreFails, EnterUnsupported, HrDrops, EndHr, HrIdle, LockMode
<1>8. CASE AgentEnds
  BY <1>2, <1>8 DEF AgentEnds, AgentBegins, AgentRefresh, AgentReturns, AfterRun,
     AgentDrops, AgentFails, AgentNamed, EndAgent, LockMode
<1>9. CASE AgentActs
  BY <1>2, <1>9 DEF AgentActs, AgentSsh, AgentRest, AgentProposes, StartPlan, StartJob
<1>10. CASE JobStep
  BY <1>2, <1>10 DEF JobStep, JobAnswered, PlanDone, PlanFails, ApplyWrites, ApplyContinues, ApplyEnds,
     ApplyProposes, PreviewDone, UndoEnds, JobIdle
<1>11. ASSUME NEW left, Unwind(left)
       PROVE  ssh' \in [Session -> SshState]
  BY <1>2, <1>11 DEF Unwind
<1>12. ASSUME NEW s \in Session, LinkDrops(s)
       PROVE  ssh' \in [Session -> SshState]
  BY <1>2, <1>12 DEF LinkDrops
<1>13. CASE UNCHANGED vars
  BY <1>2, <1>13 DEF vars
<1> QED
  BY <1>3, <1>4, <1>5, <1>6, <1>7, <1>8, <1>9, <1>10, <1>11, <1>12, <1>13, KeyCases DEF Next

\* The plans approved and applied exist.
LEMMA ApprovedTypes ==
  ASSUME ConsoleInv, [Next]_vars
  PROVE  (approved' \cup applied') \subseteq Plan
<1> USE DEF ghostVars
<1>1. (approved \cup applied) \subseteq Plan /\ jobOf \in 0..MaxPlans /\ PanelInv
      /\ approvalCb \in Approvals \cup {None}
  BY DEF ConsoleInv, TypeOK
<1>2. ASSUME NEW yes \in BOOLEAN, OnPanel, AnswerApproval(yes), yes = FALSE \/ choiceCb = None
      PROVE  approved' \subseteq Plan
  <2>1. CASE approved' = approved
    BY <1>1, <2>1
  <2>2. CASE approved' # approved
    <3>1. approvalCb[1] = "plan" /\ approvalCb # None /\ yes # FALSE /\ choiceCb = None
          /\ approved' = approved \cup {shown[2]}
      BY <1>2, <2>2 DEF AnswerApproval, PlanApproved, UndoApproved
    <3>2. approvalCb \in Approvals /\ approvalCb # Undo
      BY <1>1, <3>1, QuestionKinds
    <3>3. PICK p \in Plan : approvalCb = ApprovalOf(p)
      BY <3>2, QuestionKinds
    <3>4. shown = approvalCb
      BY <1>1, <1>2, <3>1, QuestionKinds DEF OnPanel, PanelInv
    <3> QED
      BY <1>1, <3>1, <3>3, <3>4, QuestionKinds
  <2> QED
    BY <2>1, <2>2
<1>3. approved' \subseteq Plan
  <2>1. CASE Keys
    BY <1>1, <1>2, <2>1, KeyCases DEF AnswerChoice, AnswerAmend, Dismiss, OtherKeys, TabToReady,
       TabToHighRisk, TabToExit, Prompt, TypeRunbook, SubmitForm, TypeRollback, OpenModels,
       PickModel
  <2>2. CASE ~Keys
    BY <1>1, <2>2 DEF Next, vars, HrStep, EnterNeedsTrust, EnterFails, EnterSucceeds, LeaveDone,
       CommitUnverified, CommitLost, RestoreFails, EnterUnsupported, HrDrops, AgentEnds, AgentBegins, AgentRefresh,
       AgentReturns, AgentDrops, AgentFails, AgentNamed, AgentActs, AgentSsh, AgentRest,
       AgentProposes, JobStep, JobAnswered, PlanDone, PlanFails, ApplyWrites, ApplyContinues, ApplyEnds,
       ApplyProposes, PreviewDone, UndoEnds, Unwind, LinkDrops
  <2> QED
    BY <2>1, <2>2
<1>4. applied' \subseteq approved'
  BY PlanStep DEF PlanInv
<1> QED
  BY <1>3, <1>4

LEMMA ConsoleNext == ConsoleInv /\ [Next]_vars => ConsoleInv'
<1> SUFFICES ASSUME ConsoleInv, [Next]_vars PROVE ConsoleInv'
  OBVIOUS
<1>1. TypeOK'
  BY PanelStep, ScreenTypes, PlanTypes, FlagTypes, WorkerTypes, SshTypes, ApprovedTypes
     DEF TypeOK, Question, Session
<1>2. ModeInv'
  BY ModeNext DEF ConsoleInv
<1> QED
  BY <1>1, <1>2, PanelStep, PlanStep, LeaveStep DEF ConsoleInv

\* Every variable stays in its type, whatever the three groups of workers, the panel and
\* the link do: the panel holds a question and its callback, a worker a state of its own,
\* and nobody holds a plan or a session that was not made.
THEOREM TypeCorrect == Spec => []TypeOK
<1>1. ConsoleInv => TypeOK
  BY DEF ConsoleInv
<1> QED
  BY ConsoleInit, ConsoleNext, <1>1, PTL DEF Spec

\* A plan reaches the router only by the operator's yes to that very plan, and once:
\* _runbook_approved applies what the panel showed, though _pending_runbook, the panel and
\* the worker group may each be replaced between the question and the answer.
THEOREM AppliedWasApproved == Spec => []AppliedOnlyIfApproved
<1>1. ConsoleInv => AppliedOnlyIfApproved
  BY DEF ConsoleInv, PlanInv, AppliedOnlyIfApproved
<1> QED
  BY ConsoleInit, ConsoleNext, <1>1, PTL DEF Spec

\* The screen lets go of a session only when it is closed, or as the agent worker closes
\* it: _leave_high_risk, _restore_high_risk_backup and _invalidate_high_risk_session close
\* the session they took before they waited, and it is still the one of the screen.
THEOREM LeftIsClosed == Spec => LeavesClosed
<1> DEFINE Let == session # 0 /\ session' # session =>
                    \/ ssh'[session] = "closed"
                    \/ agent' = "dropping" /\ agentOf' = session
<1>1. ASSUME ConsoleInv, Next, session # 0, session' # session
      PROVE  \/ ssh'[session] = "closed"
             \/ agent' = "dropping" /\ agentOf' = session
  <2>1. LeaveInv /\ ssh \in [Session -> SshState] /\ session \in Session
    BY <1>1, ConsoleBounds DEF ConsoleInv, TypeOK, Session
  <2>2. CASE EnterSucceeds
    BY <1>1, <2>1, <2>2 DEF EnterSucceeds, LeaveInv
  <2>3. CASE LeaveDone
    <3>1. hrOf = session
      BY <1>1, <2>1, <2>3 DEF LeaveDone, LeaveInv, Leaving
    <3> QED
      BY <2>1, <2>3, <3>1 DEF LeaveDone
  <2>4. CASE CommitLost
    <3>1. hrOf = session
      BY <1>1, <2>1, <2>4 DEF CommitLost, LeaveInv, Leaving
    <3> QED
      BY <2>1, <2>4, <3>1 DEF CommitLost
  <2>5. CASE AgentReturns
    BY <1>1, <2>5 DEF AgentReturns, AfterRun, modeVars
  <2>6. CASE Keys
    BY <1>1, <2>6, KeyCases DEF modeVars, AnswerChoice, AnswerApproval, AnswerAmend, Dismiss,
       OtherKeys, TabToReady, TabToHighRisk, TabToExit, Prompt, TypeRunbook, SubmitForm,
       TypeRollback, OpenModels, PickModel
  <2> QED
    BY <1>1, <2>2, <2>3, <2>4, <2>5, <2>6 DEF Next, modeVars, HrStep, EnterNeedsTrust, EnterFails,
       CommitUnverified, RestoreFails, EnterUnsupported, HrDrops, AgentEnds, AgentBegins, AgentRefresh, AgentDrops,
       AgentFails, AgentNamed, AgentActs, AgentSsh, AgentRest, AgentProposes, JobStep, JobAnswered, PlanDone,
       PlanFails, ApplyWrites, ApplyContinues, ApplyEnds, ApplyProposes, PreviewDone, UndoEnds,
       Unwind, LinkDrops
<1>2. ConsoleInv /\ [Next]_vars => [Let]_vars
  BY <1>1
<1> QED
  BY ConsoleInit, ConsoleNext, <1>2, PTL DEF Spec, LeavesClosed

===============================================================================
