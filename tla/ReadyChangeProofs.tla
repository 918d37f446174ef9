--------------------------- MODULE ReadyChangeProofs ---------------------------
(***************************************************************************)
(* For any number of plans, steps and rollbacks: the history forgets        *)
(* nothing, whatever goes wrong; and when nothing does, every step that was *)
(* carried out can be undone, and undoing it gives back what was there.     *)
(***************************************************************************)
EXTENDS ReadyChange, TLAPS

Await == {"idle", "baseline", "dryrun", "challenge", "applying", "checking", "preview",
          "undoing", "leaving"}

\* A plan was recorded.
Noted(p) == \E r \in history : r.plan = p

\* The plans that are spoken of were built.
PlansInv ==
  /\ at \in Await
  /\ plans \in 0..MaxPlans /\ plan \in 0..plans /\ pending \in 0..plans /\ undo \in 0..plans
  /\ at # "idle" => plan # 0
  /\ servers \subseteq 1..plans
  /\ \A r \in history : /\ r = [plan |-> r.plan, steps |-> r.steps, status |-> r.status]
                        /\ r.plan \in 1..plans

\* A plan is approved once: while it is built, on the panel or carried out, the history has
\* no record of it, and the two questions exclude each other.
OnceInv ==
  /\ pending = 0 \/ undo = 0
  /\ at \in {"challenge", "applying", "checking", "preview", "undoing", "leaving"} => pending = 0
  /\ at \in {"baseline", "dryrun", "challenge", "applying", "checking"} => ~Noted(plan)
  /\ pending # 0 => ~Noted(pending)

\* A session is left to mark its record once the check has read the baseline.
SeenInv == at = "leaving" => seen = baseline[plan]

HistoryInv == PlansInv /\ OnceInv /\ SeenInv

LEMMA HistoryInit == Init => HistoryInv
<1> SUFFICES ASSUME Init PROVE HistoryInv
  OBVIOUS
<1>1. plans \in 0..MaxPlans
  BY ReadyBounds DEF Init
<1> QED
  BY <1>1 DEF Init, HistoryInv, PlansInv, OnceInv, SeenInv, Await

\* What record and mark_rolled_back make of the records.
LEMMA RecordedFacts ==
  ASSUME PlansInv, NEW p \in 1..plans, NEW steps, NEW status
  PROVE  /\ \A r \in Recorded(p, steps, status) :
              \/ r \in history /\ r.plan # p
              \/ r = [plan |-> p, steps |-> steps, status |-> status]
         /\ \A r \in history : r.plan # p => r \in Recorded(p, steps, status)
         /\ [plan |-> p, steps |-> steps, status |-> status] \in Recorded(p, steps, status)
BY DEF Recorded

LEMMA MarkedFacts ==
  ASSUME PlansInv, NEW p
  PROVE  /\ \A q \in MarkedUndone(p) :
              \E r \in history : /\ q.plan = r.plan /\ q.steps = r.steps
                                 /\ q = [plan |-> q.plan, steps |-> q.steps, status |-> q.status]
         /\ \A r \in history :
              \E q \in MarkedUndone(p) :
                 /\ q.plan = r.plan /\ q.steps = r.steps
                 /\ q.status # r.status => q.status = "rolled_back" /\ r.plan = p
<1> DEFINE Undone(r) == IF r.plan = p THEN [r EXCEPT !.status = "rolled_back"] ELSE r
<1>1. MarkedUndone(p) = {Undone(r) : r \in history}
  BY DEF MarkedUndone
<1>2. ASSUME NEW r \in history
      PROVE  /\ Undone(r).plan = r.plan /\ Undone(r).steps = r.steps
             /\ Undone(r) = [plan |-> Undone(r).plan, steps |-> Undone(r).steps,
                             status |-> Undone(r).status]
             /\ Undone(r).status # r.status => Undone(r).status = "rolled_back" /\ r.plan = p
  <2>1. r = [plan |-> r.plan, steps |-> r.steps, status |-> r.status]
    BY DEF PlansInv
  <2>2. CASE r.plan = p
    <3>1. Undone(r) = [plan |-> r.plan, steps |-> r.steps, status |-> "rolled_back"]
      BY <2>1, <2>2
    <3> HIDE DEF Undone
    <3> QED
      BY <2>2, <3>1
  <2>3. CASE r.plan # p
    BY <2>1, <2>3
  <2> QED
    BY <2>2, <2>3
<1> HIDE DEF Undone
<1> QED
  BY <1>1, <1>2

\* Planning, the panel, and what MikroMCP does.
LEMMA HistoryKept ==
  ASSUME HistoryInv,
         \/ PlanBegin \/ PlanBaseline \/ PlanViable \/ PlanFails
         \/ Refuse \/ Approve \/ ServerBypasses \/ ApplyStopped \/ ApplyConfirmed
         \/ ApplyAnswered \/ ApplyLost
         \/ UndoBegin \/ UndoPreviewed \/ UndoRefuse \/ UndoApprove \/ UndoStep \/ UndoFails
         \/ UndoChecked
         \/ \E p \in Plan : ServerStep(p) \/ ServerStops(p)
         \/ Restart
  PROVE  HistoryInv' /\ history' = history
<1> USE DEF Start, End, worker, panel, bounds, router
<1>0. /\ MaxPlans \in Nat /\ plans \in Nat /\ plans <= MaxPlans /\ at \in Await
      /\ plan \in 0..plans /\ pending \in 0..plans /\ undo \in 0..plans
      /\ \A r \in history : r.plan \in 1..plans
  BY ReadyBounds DEF HistoryInv, PlansInv
<1>1. history' = history
  BY DEF PlanBegin, PlanBaseline, PlanViable, PlanFails, Refuse, Approve, ServerBypasses,
     ApplyStopped, ApplyConfirmed, ApplyAnswered, ApplyLost, UndoBegin, UndoPreviewed,
     UndoRefuse, UndoApprove, UndoStep, UndoFails, UndoChecked, ServerStep, ServerStops, Restart
<1>8. SeenInv'
  <2>1. CASE PlanBegin \/ PlanBaseline \/ PlanViable \/ PlanFails \/ Approve \/ ApplyStopped
             \/ ApplyConfirmed \/ ApplyAnswered \/ ApplyLost \/ UndoBegin \/ UndoPreviewed
             \/ UndoApprove \/ UndoStep \/ UndoFails \/ Restart
    <3>1. at' # "leaving"
      BY <2>1 DEF PlanBegin, PlanBaseline, PlanViable, PlanFails, Approve, ApplyStopped,
         ApplyConfirmed, ApplyAnswered, ApplyLost, UndoBegin, UndoPreviewed, UndoApprove,
         UndoStep, UndoFails, Restart
    <3> QED
      BY <3>1 DEF SeenInv
  <2>2. CASE Refuse \/ UndoRefuse \/ ServerBypasses \/ \E p \in Plan : ServerStep(p) \/ ServerStops(p)
    <3>1. UNCHANGED <<at, plan, seen, baseline>>
      BY <2>2 DEF Refuse, UndoRefuse, ServerBypasses, ServerStep, ServerStops
    <3> QED
      BY <3>1 DEF SeenInv, HistoryInv
  <2>3. CASE UndoChecked
    BY <2>3 DEF UndoChecked, SeenInv
  <2> QED
    BY <2>1, <2>2, <2>3
<1>2. CASE PlanBegin
  <2>1. ~Noted(plans + 1)
    BY <1>0 DEF Noted
  <2>2. PlansInv'
    BY <1>0, <1>1, <1>2 DEF PlanBegin, HistoryInv, PlansInv, Await
  <2> QED
    BY <1>1, <1>2, <1>8, <2>1, <2>2 DEF PlanBegin, HistoryInv, OnceInv, Noted
<1>3. CASE PlanBaseline \/ PlanViable \/ PlanFails
  <2>1. PlansInv'
    BY <1>0, <1>1, <1>3 DEF PlanBaseline, PlanViable, PlanFails, HistoryInv, PlansInv, Await
  <2> QED
    BY <1>1, <1>3, <1>8, <2>1 DEF PlanBaseline, PlanViable, PlanFails, HistoryInv, OnceInv, Noted
<1>4. CASE Refuse \/ Approve \/ ServerBypasses \/ ApplyStopped \/ ApplyConfirmed \/ ApplyAnswered
           \/ ApplyLost
  <2>1. PlansInv'
    BY <1>0, <1>1, <1>4 DEF Refuse, Approve, ServerBypasses, ApplyStopped, ApplyConfirmed, ApplyAnswered,
       ApplyLost, HistoryInv, PlansInv, Await
  <2> QED
    BY <1>1, <1>4, <1>8, <2>1 DEF Refuse, Approve, ServerBypasses, ApplyStopped, ApplyConfirmed, ApplyAnswered,
       ApplyLost, HistoryInv, OnceInv, Noted
<1>5. CASE UndoBegin
  <2>1. plan' \in 1..plans /\ at' = "preview"
    BY <1>0, <1>5 DEF UndoBegin, Active
  <2>2. PlansInv'
    BY <1>0, <1>1, <1>5, <2>1 DEF UndoBegin, HistoryInv, PlansInv, Await
  <2> QED
    BY <1>1, <1>5, <1>8, <2>1, <2>2 DEF UndoBegin, HistoryInv, OnceInv, Noted
<1>6. CASE UndoPreviewed \/ UndoRefuse \/ UndoApprove \/ UndoStep \/ UndoFails \/ UndoChecked
  <2>1. PlansInv'
    BY <1>0, <1>1, <1>6 DEF UndoPreviewed, UndoRefuse, UndoApprove, UndoStep, UndoFails,
       UndoChecked, HistoryInv, PlansInv, Await
  <2> QED
    BY <1>1, <1>6, <1>8, <2>1 DEF UndoPreviewed, UndoRefuse, UndoApprove, UndoStep, UndoFails,
       UndoChecked, HistoryInv, OnceInv, Noted
<1>7. CASE Restart \/ \E p \in Plan : ServerStep(p) \/ ServerStops(p)
  <2>1. PlansInv'
    BY <1>0, <1>1, <1>7 DEF Restart, ServerStep, ServerStops, HistoryInv, PlansInv, Await
  <2> QED
    BY <1>1, <1>7, <1>8, <2>1 DEF Restart, ServerStep, ServerStops, HistoryInv, OnceInv, Noted
<1> QED
  BY <1>1, <1>2, <1>3, <1>4, <1>5, <1>6, <1>7

\* The outcomes that are recorded, of a plan the history did not know.
LEMMA HistoryGrows ==
  ASSUME HistoryInv, ApplyFailed \/ ApplyIncomplete \/ ApplyChecked
  PROVE  HistoryInv' /\ \A r \in history : r \in history'
<1> USE DEF Start, End, panel, bounds
<1>1. /\ ~Noted(plan) /\ plan \in 1..plans /\ pending = 0
      /\ UNCHANGED <<plans, pending, undo>> /\ at' = "idle" /\ plan' = 0
      /\ servers' \subseteq servers
  <2>1. at \in {"applying", "checking"}
    BY DEF ApplyFailed, ApplyIncomplete, ApplyChecked
  <2>2. ~Noted(plan) /\ pending = 0
    BY <2>1 DEF HistoryInv, OnceInv
  <2>3. plan \in 0..plans /\ plan # 0 /\ plans \in Nat
    BY <2>1, ReadyBounds DEF HistoryInv, PlansInv
  <2>4. /\ UNCHANGED <<plans, pending, undo>> /\ at' = "idle" /\ plan' = 0
        /\ servers' \subseteq servers
    BY DEF ApplyFailed, ApplyIncomplete, ApplyChecked, router
  <2> QED
    BY <2>2, <2>3, <2>4
<1>2. history' = history \/ \E steps, status : history' = Recorded(plan, steps, status)
  BY DEF ApplyFailed, ApplyIncomplete, ApplyChecked, Write
<1>3. \A r \in history : r \in history'
  <2>1. \A r \in history : r.plan # plan
    BY <1>1 DEF Noted
  <2>2. ASSUME NEW steps, NEW status
        PROVE  \A r \in history : r \in Recorded(plan, steps, status)
    BY <1>1, <2>1, RecordedFacts DEF HistoryInv
  <2> QED
    BY <1>2, <2>2
<1>4. \A r \in history' : /\ r = [plan |-> r.plan, steps |-> r.steps, status |-> r.status]
                         /\ r.plan \in 1..plans
  <2>1. CASE history' = history
    BY <2>1 DEF HistoryInv, PlansInv
  <2>2. ASSUME NEW steps, NEW status, history' = Recorded(plan, steps, status),
               NEW r \in history'
        PROVE  /\ r = [plan |-> r.plan, steps |-> r.steps, status |-> r.status]
               /\ r.plan \in 1..plans
    <3>1. r \in history \/ r = [plan |-> plan, steps |-> steps, status |-> status]
      BY <1>1, <2>2, RecordedFacts DEF HistoryInv
    <3> QED
      BY <1>1, <3>1 DEF HistoryInv, PlansInv
  <2> QED
    BY <1>2, <2>1, <2>2
<1>5. PlansInv' /\ OnceInv' /\ SeenInv'
  BY <1>1, <1>4 DEF HistoryInv, PlansInv, OnceInv, SeenInv, Await
<1> QED
  BY <1>3, <1>5 DEF HistoryInv

\* The record of a rollback that was verified.
LEMMA HistoryMarked ==
  ASSUME HistoryInv, UndoMarked
  PROVE  HistoryInv' /\ seen = baseline[plan] /\ history' \in {history, MarkedUndone(plan)}
<1> USE DEF Start, End, panel, bounds, router
<1>1. seen = baseline[plan] /\ history' \in {history, MarkedUndone(plan)}
  BY DEF UndoMarked, Write, HistoryInv, SeenInv
<1>2. /\ pending = 0 /\ UNCHANGED <<plans, pending, undo, servers>> /\ at' = "idle" /\ plan' = 0
  BY DEF UndoMarked, HistoryInv, OnceInv
<1>3. \A r \in history' : /\ r = [plan |-> r.plan, steps |-> r.steps, status |-> r.status]
                         /\ r.plan \in 1..plans
  BY <1>1, MarkedFacts DEF HistoryInv, PlansInv
<1> QED
  BY <1>1, <1>2, <1>3 DEF HistoryInv, PlansInv, OnceInv, SeenInv, Await

LEMMA HistoryStep == HistoryInv /\ [Next]_vars => HistoryInv'
<1> SUFFICES ASSUME HistoryInv, [Next]_vars PROVE HistoryInv'
  OBVIOUS
<1>1. CASE UNCHANGED vars
  BY <1>1 DEF vars, worker, panel, bounds, router, HistoryInv, PlansInv, OnceInv, SeenInv, Noted
<1> QED
  BY <1>1, HistoryKept, HistoryGrows, HistoryMarked DEF Next, Act

-------------------------------------------------------------------------------
(* When nothing goes wrong.                                                   *)

Calm == faulty = {}

\* Nothing was written for p yet, and the router is as it was planned.
Untouched(p) == journal[p] = <<>> /\ setting = baseline[p]

\* The journals are values the router had, the first one what the plan found.
JournalInv ==
  /\ baseline \in [Plan -> Value] /\ setting \in Value /\ journal \in [Plan -> Seq(Value)]
  /\ \A p \in Plan : p > plans => journal[p] = <<>>
  /\ \A p \in Plan : journal[p] # <<>> => journal[p][1] = baseline[p]

\* MikroMCP works only for the plan that is applied; from the look at the router to the
\* first write nothing changes there.
ApplyInv ==
  /\ servers = IF at = "applying" THEN {plan} ELSE {}
  /\ at = "baseline" => journal[plan] = <<>>
  /\ at \in {"dryrun", "challenge"} => Untouched(plan)
  /\ pending # 0 => Untouched(pending)
  /\ at = "applying" /\ journal[plan] = <<>> => setting = baseline[plan]
  /\ at = "checking" => journal[plan] # <<>>

\* The history has a record with all steps of each plan that wrote something, but of the
\* one that is being applied.
RecordInv ==
  /\ \A p \in Plan : journal[p] # <<>> =>
       Noted(p) \/ (at \in {"applying", "checking"} /\ plan = p)
  /\ \A r \in history : r.steps = Steps(r.plan) /\ journal[r.plan] # <<>>

\* A rollback goes down the steps one by one, and the router has the value from before the
\* last one undone; what its check read is still there.
UndoInv ==
  /\ undo # 0 => Noted(undo)
  /\ at \in {"preview", "undoing", "leaving"} => Noted(plan)
  /\ at = "leaving" => setting = seen
  /\ at = "undoing" =>
       /\ todo \in Seq(Nat) /\ Len(todo) <= Len(journal[plan])
       /\ \A i \in 1..Len(todo) : todo[i] = Len(todo) - i + 1
       /\ Len(todo) < Len(journal[plan]) => setting = journal[plan][Len(todo) + 1]

CalmInv == Calm => JournalInv /\ ApplyInv /\ RecordInv /\ UndoInv

LEMMA CalmInit == Init => CalmInv
<1> SUFFICES ASSUME Init PROVE JournalInv /\ ApplyInv /\ RecordInv /\ UndoInv
  BY DEF CalmInv
<1>1. JournalInv
  BY DEF Init, JournalInv, Value
<1> QED
  BY <1>1 DEF Init, ApplyInv, RecordInv, UndoInv

\* Steps that change neither the router, its journals nor the history.
LEMMA CalmQuiet ==
  ASSUME HistoryInv, Calm, JournalInv, ApplyInv, RecordInv, UndoInv,
         \/ PlanBegin \/ PlanBaseline \/ PlanViable \/ PlanFails
         \/ Refuse \/ Approve \/ ApplyStopped \/ ApplyConfirmed \/ ApplyAnswered
         \/ UndoBegin \/ UndoPreviewed \/ UndoRefuse \/ UndoFails
  PROVE  JournalInv' /\ ApplyInv' /\ RecordInv' /\ UndoInv'
<1> USE DEF Start, End, MayStart, Interrupts, Calm, worker, panel, bounds, router
<1>0. /\ MaxPlans \in Nat /\ plans \in Nat /\ plans <= MaxPlans /\ at \in Await
      /\ plan \in 0..plans /\ pending \in 0..plans /\ undo \in 0..plans
      /\ at # "idle" => plan # 0
      /\ \A p \in 1..plans : p \in Plan
  BY ReadyBounds DEF HistoryInv, PlansInv, Plan
<1>1. UNCHANGED <<history, journal, setting>>
  BY DEF PlanBegin, PlanBaseline, PlanViable, PlanFails, Refuse, Approve, ApplyStopped,
     ApplyConfirmed, ApplyAnswered, UndoBegin, UndoPreviewed, UndoRefuse, UndoFails
<1>2. CASE PlanBegin
  <2>1. /\ at = "idle" /\ at' = "baseline" /\ plan' = plans + 1 /\ plans' = plans + 1
        /\ plans + 1 \in Plan /\ UNCHANGED <<pending, undo, servers, baseline>>
    BY <1>0, <1>2 DEF PlanBegin, Plan
  <2>2. journal[plans + 1] = <<>>
    BY <1>0, <2>1 DEF JournalInv
  <2>3. JournalInv'
    BY <1>0, <1>1, <2>1 DEF JournalInv, Plan
  <2>4. ApplyInv'
    BY <1>1, <2>1, <2>2 DEF ApplyInv, Untouched
  <2> QED
    BY <1>1, <2>1, <2>3, <2>4 DEF RecordInv, UndoInv, Steps, Noted
<1>3. CASE PlanBaseline
  <2>1. /\ at = "baseline" /\ at' = "dryrun" /\ plan' = plan /\ plan \in Plan
        /\ baseline' = [baseline EXCEPT ![plan] = setting] /\ journal[plan] = <<>>
        /\ UNCHANGED <<plans, pending, undo, servers>>
    BY <1>0, <1>3 DEF PlanBaseline, ApplyInv
  <2>2. /\ baseline'[plan] = setting
        /\ \A p \in Plan : p # plan => baseline'[p] = baseline[p]
        /\ baseline' \in [Plan -> Value]
    BY <2>1 DEF JournalInv
  <2>3. JournalInv'
    BY <1>1, <2>1, <2>2 DEF JournalInv
  <2>4. ApplyInv'
    BY <1>0, <1>1, <2>1, <2>2 DEF ApplyInv, Untouched
  <2> QED
    BY <1>1, <2>1, <2>3, <2>4 DEF RecordInv, UndoInv, Steps, Noted
<1>4. CASE ~PlanBegin /\ ~PlanBaseline
  <2>1. UNCHANGED <<plans, baseline>>
    BY <1>4 DEF PlanViable, PlanFails, Refuse, Approve, ApplyStopped, ApplyConfirmed,
       ApplyAnswered, UndoBegin, UndoPreviewed, UndoRefuse, UndoFails
  <2>2. JournalInv'
    BY <1>1, <2>1 DEF JournalInv
  <2>3. CASE PlanViable \/ PlanFails \/ Refuse \/ ApplyStopped
    <3>1. ApplyInv'
      BY <1>1, <2>1, <2>3 DEF PlanViable, PlanFails, Refuse, ApplyStopped, ApplyInv, Untouched
    <3> QED
      BY <1>1, <2>1, <2>2, <2>3, <3>1 DEF PlanViable, PlanFails, Refuse, ApplyStopped,
         RecordInv, UndoInv, Steps, Noted
  <2>4. CASE Approve
    <3>1. ApplyInv'
      BY <1>1, <2>1, <2>4 DEF Approve, ApplyInv, Untouched
    <3> QED
      BY <1>1, <2>1, <2>2, <2>4, <3>1 DEF Approve, RecordInv, UndoInv, Steps, Noted
  <2>5. CASE ApplyConfirmed \/ ApplyAnswered
    <3>0. MaxSteps # 0
      BY ReadyBounds
    <3>1. ApplyInv'
      <4>1. CASE ApplyConfirmed
        BY <1>1, <2>1, <4>1 DEF ApplyConfirmed, ApplyInv, Untouched
      <4>2. CASE ApplyAnswered
        <5>1. journal[plan] # <<>>
          BY <3>0, <4>2 DEF ApplyAnswered
        <5> QED
          BY <1>1, <2>1, <4>2, <5>1 DEF ApplyAnswered, ApplyInv, Untouched
      <4> QED
        BY <2>5, <4>1, <4>2
    <3> QED
      BY <1>1, <2>1, <2>2, <2>5, <3>1 DEF ApplyConfirmed, ApplyAnswered, RecordInv, UndoInv,
         Steps, Noted
  <2>6. CASE UndoBegin
    <3>1. PICK r \in history : plan' = r.plan /\ at' = "preview"
      BY <2>6 DEF UndoBegin, Active
    <3>2. ApplyInv'
      BY <1>1, <2>1, <2>6, <3>1 DEF UndoBegin, ApplyInv, Untouched
    <3> QED
      BY <1>1, <2>1, <2>2, <2>6, <3>1, <3>2 DEF UndoBegin, RecordInv, UndoInv, Steps, Noted
  <2>7. CASE UndoPreviewed \/ UndoRefuse \/ UndoFails
    <3>1. ApplyInv'
      BY <1>1, <2>1, <2>7 DEF UndoPreviewed, UndoRefuse, UndoFails, ApplyInv, Untouched
    <3> QED
      BY <1>1, <2>1, <2>2, <2>7, <3>1 DEF UndoPreviewed, UndoRefuse, UndoFails, RecordInv,
         UndoInv, Steps, Noted
  <2> QED
    BY <1>4, <2>3, <2>4, <2>5, <2>6, <2>7
<1> QED
  BY <1>2, <1>3, <1>4

\* MikroMCP carries out a step of the plan that is applied.
LEMMA CalmServer ==
  ASSUME HistoryInv, JournalInv, ApplyInv, RecordInv, UndoInv, NEW p \in Plan, ServerStep(p)
  PROVE  JournalInv' /\ ApplyInv' /\ RecordInv' /\ UndoInv'
<1> USE DEF worker, panel, bounds
<1>1. /\ at = "applying" /\ plan = p /\ pending = 0 /\ ~Noted(p) /\ p <= plans
      /\ journal[p] \in Seq(Value) /\ setting \in Value /\ plans \in Nat
  BY ReadyBounds DEF ServerStep, ApplyInv, HistoryInv, OnceInv, PlansInv, JournalInv, Plan
<1>2. /\ journal' = [journal EXCEPT ![p] = Append(journal[p], setting)]
      /\ setting' = <<p, Len(journal[p]) + 1>>
      /\ UNCHANGED <<at, plan, todo, seen, pending, undo, plans, undos, baseline, history,
                     servers>>
  BY DEF ServerStep
<1>3. /\ journal'[p] = Append(journal[p], setting) /\ journal'[p] # <<>>
      /\ \A q \in Plan : q # p => journal'[q] = journal[q]
  <2>1. Append(journal[p], setting) # <<>>
    BY <1>1
  <2>2. \A q \in Plan : journal'[q] = IF q = p THEN Append(journal[p], setting) ELSE journal[q]
    BY <1>2 DEF JournalInv
  <2> QED
    BY <2>1, <2>2
<1>4. journal'[p][1] = baseline[p]
  <2>1. CASE journal[p] = <<>>
    <3>1. setting = baseline[p] /\ journal'[p][1] = setting
      BY <1>1, <1>3, <2>1 DEF ApplyInv
    <3> QED
      BY <3>1
  <2>2. CASE journal[p] # <<>>
    <3>1. journal[p][1] = baseline[p] /\ Len(journal[p]) >= 1
      BY <1>1, <2>2 DEF JournalInv
    <3> QED
      BY <1>1, <1>3, <3>1
  <2> QED
    BY <2>1, <2>2
<1>5. JournalInv'
  <2>1. Append(journal[p], setting) \in Seq(Value)
    BY <1>1
  <2>2. journal' \in [Plan -> Seq(Value)]
    BY <1>2, <2>1 DEF JournalInv
  <2>3. setting' \in Value
    <3>1. Len(journal[p]) + 1 \in Step
      BY <1>1, ReadyBounds DEF ServerStep, Step
    <3> QED
      BY <1>2, <3>1 DEF Value
  <2>4. \A q \in Plan : q > plans => journal'[q] = <<>>
    BY <1>1, <1>3 DEF JournalInv, Plan
  <2>5. \A q \in Plan : journal'[q] # <<>> => journal'[q][1] = baseline[q]
    BY <1>3, <1>4 DEF JournalInv
  <2> QED
    BY <1>2, <2>2, <2>3, <2>4, <2>5 DEF JournalInv
<1>6. ApplyInv'
  BY <1>1, <1>2, <1>3 DEF ApplyInv
<1>7. RecordInv'
  <2>1. \A q \in Plan : journal'[q] # <<>> => Noted(q) \/ q = p
    BY <1>1, <1>3 DEF RecordInv
  <2>2. \A r \in history : r.plan # p /\ r.plan \in Plan
    <3>1. \A q \in 1..plans : q \in Plan
      BY ReadyBounds DEF HistoryInv, PlansInv, Plan
    <3> QED
      BY <1>1, <3>1 DEF Noted, HistoryInv, PlansInv
  <2>3. \A r \in history : journal'[r.plan] = journal[r.plan]
    BY <1>3, <2>2
  <2> QED
    BY <1>1, <1>2, <2>1, <2>3 DEF RecordInv, Steps, Noted
<1>8. UndoInv'
  BY <1>1, <1>2 DEF UndoInv, Noted
<1> QED
  BY <1>5, <1>6, <1>7, <1>8

\* The outcome of an apply is recorded, with all its steps.
LEMMA CalmRecorded ==
  ASSUME HistoryInv, Calm, JournalInv, ApplyInv, RecordInv, UndoInv,
         ApplyFailed \/ ApplyChecked
  PROVE  JournalInv' /\ ApplyInv' /\ RecordInv' /\ UndoInv'
<1> USE DEF Start, End, Unreliable, Calm, panel, bounds, router
<1>1. /\ at \in {"applying", "checking"} /\ at' = "idle" /\ plan' = 0
      /\ UNCHANGED <<pending, undo, plans, baseline, journal, setting>> /\ servers' = {}
  BY DEF ApplyFailed, ApplyChecked, ApplyInv
<1>2. /\ plan \in 1..plans /\ plan \in Plan /\ pending = 0 /\ ~Noted(plan)
      /\ \A r \in history : r.plan \in Plan
  BY <1>1, ReadyBounds DEF HistoryInv, OnceInv, PlansInv, Plan
<1>3. \/ history' = history /\ journal[plan] = <<>>
      \/ /\ \E status : history' = Recorded(plan, Steps(plan), status)
         /\ journal[plan] # <<>>
  BY <1>1 DEF ApplyFailed, ApplyChecked, ApplyInv, Write
<1>4. JournalInv' /\ ApplyInv'
  BY <1>1, <1>2 DEF JournalInv, ApplyInv, Untouched
<1>5. RecordInv'
  <2>1. CASE history' = history /\ journal[plan] = <<>>
    BY <1>1, <2>1 DEF RecordInv, Steps, Noted
  <2>2. ASSUME NEW status, history' = Recorded(plan, Steps(plan), status), journal[plan] # <<>>
        PROVE  RecordInv'
    <3> DEFINE new == [plan |-> plan, steps |-> Steps(plan), status |-> status]
    <3>1. /\ \A r \in history' : r \in history \/ r = new
          /\ \A r \in history : r.plan # plan => r \in history'
          /\ new \in history'
      BY <1>2, <2>2, RecordedFacts DEF HistoryInv
    <3>2. new.plan = plan /\ new.steps = Steps(plan)
      OBVIOUS
    <3> HIDE DEF new
    <3>3. \A q \in Plan : journal[q] # <<>> => \E r \in history' : r.plan = q
      BY <1>2, <3>1, <3>2 DEF RecordInv, Noted
    <3>4. \A r \in history' : r.steps = Steps(r.plan) /\ journal[r.plan] # <<>>
      BY <2>2, <3>1, <3>2 DEF RecordInv
    <3> QED
      BY <1>1, <3>3, <3>4 DEF RecordInv, Steps, Noted
  <2> QED
    BY <1>3, <2>1, <2>2
<1>6. UndoInv'
  <2>1. undo # 0 => \E r \in history' : r.plan = undo
    BY HistoryGrows DEF UndoInv, Noted
  <2> QED
    BY <1>1, <2>1 DEF UndoInv, Noted
<1> QED
  BY <1>4, <1>5, <1>6

\* The steps in the order they are undone.
LEMMA UndoOrderFacts ==
  ASSUME JournalInv, RecordInv, NEW p \in Plan, Noted(p)
  PROVE  /\ UndoOrder(p) \in Seq(Nat) /\ Len(UndoOrder(p)) = Len(journal[p])
         /\ \A i \in 1..Len(journal[p]) : UndoOrder(p)[i] = Len(journal[p]) - i + 1
<1> DEFINE n == Len(journal[p])
<1>1. n \in Nat
  BY DEF JournalInv
<1>2. (CHOOSE r \in history : r.plan = p) \in {r \in history : r.plan = p}
  BY DEF Noted
<1>3. Journals(p) = Steps(p)
  BY <1>2 DEF Journals, RecordInv
<1>4. Steps(p) = [k \in 1..n |-> k]
  BY DEF Steps
<1> HIDE DEF n
<1>5. Steps(p) \in Seq(Nat) /\ Len(Steps(p)) = n
  BY <1>1, <1>4
<1>6. UndoOrder(p) = [i \in 1..n |-> Steps(p)[(n - i) + 1]]
  BY <1>3, <1>5 DEF UndoOrder, Reverse
<1>7. UndoOrder(p) = [i \in 1..n |-> n - i + 1]
  <2>1. \A i \in 1..n : Steps(p)[(n - i) + 1] = n - i + 1
    BY <1>1, <1>4
  <2> QED
    BY <1>6, <2>1
<1>8. UndoOrder(p) \in Seq(Nat) /\ Len(UndoOrder(p)) = n
  <2>1. \A i \in 1..n : n - i + 1 \in Nat
    BY <1>1
  <2> QED
    BY <1>1, <1>7, <2>1
<1> QED
  BY <1>7, <1>8 DEF n

\* A rollback begins, goes one step down, is verified, and is marked.
LEMMA CalmUndo ==
  ASSUME HistoryInv, Calm, JournalInv, ApplyInv, RecordInv, UndoInv,
         UndoApprove \/ UndoStep \/ UndoChecked \/ UndoMarked
  PROVE  JournalInv' /\ ApplyInv' /\ RecordInv' /\ UndoInv'
<1> USE DEF Start, End, Calm, worker, panel, bounds, router
<1>0. \A q \in 1..plans : q \in Plan
  BY ReadyBounds DEF HistoryInv, PlansInv, Plan
<1>1. CASE UndoApprove
  <2>1. /\ undo # 0 /\ Noted(undo) /\ pending = 0 /\ undo \in Plan
        /\ at \in {"idle", "baseline", "dryrun"} /\ at' = "undoing" /\ plan' = undo
        /\ todo' = UndoOrder(undo) /\ undo' = 0
        /\ UNCHANGED <<pending, plans, baseline, history, servers, journal, setting>>
    BY <1>0, <1>1 DEF UndoApprove, UndoInv, HistoryInv, OnceInv, PlansInv
  <2>2. /\ UndoOrder(undo) \in Seq(Nat) /\ Len(UndoOrder(undo)) = Len(journal[undo])
        /\ \A i \in 1..Len(journal[undo]) : UndoOrder(undo)[i] = Len(journal[undo]) - i + 1
    BY <2>1, UndoOrderFacts
  <2>3. Len(journal[undo]) \in Nat
    BY <2>1 DEF JournalInv
  <2>4. JournalInv' /\ ApplyInv'
    BY <2>1 DEF JournalInv, ApplyInv
  <2>5. RecordInv'
    BY <2>1 DEF RecordInv, Steps, Noted
  <2>6. UndoInv'
    BY <2>1, <2>2, <2>3 DEF UndoInv, Noted
  <2> QED
    BY <2>4, <2>5, <2>6
<1>2. CASE UndoStep
  <2> DEFINE n == Len(todo)
  <2>1. /\ at = "undoing" /\ pending = 0 /\ plan \in Plan /\ todo # <<>> /\ todo \in Seq(Nat)
        /\ setting' = journal[plan][Head(todo)] /\ todo' = Tail(todo)
        /\ UNCHANGED <<at, plan, pending, undo, plans, baseline, history, servers, journal>>
    BY <1>0, <1>2 DEF UndoStep, UndoInv, HistoryInv, OnceInv, PlansInv
  <2>2. /\ n \in Nat /\ n >= 1 /\ n <= Len(journal[plan]) /\ Len(journal[plan]) \in Nat
        /\ journal[plan] \in Seq(Value)
    <3>1. journal[plan] \in Seq(Value)
      BY <2>1 DEF JournalInv
    <3>2. Len(journal[plan]) \in Nat /\ n \in Nat
      BY <2>1, <3>1
    <3>3. n <= Len(journal[plan])
      BY <2>1 DEF UndoInv
    <3>4. n # 0
      BY <2>1
    <3> HIDE DEF n
    <3> QED
      BY <3>1, <3>2, <3>3, <3>4
  <2>3. Head(todo) = n
    BY <2>1, <2>2 DEF UndoInv
  <2>4. /\ todo' \in Seq(Nat) /\ Len(todo') = n - 1
        /\ \A i \in 1..(n - 1) : todo'[i] = todo[i + 1]
    BY <2>1, <2>2
  <2>5. \A i \in 1..(n - 1) : todo'[i] = (n - 1) - i + 1
    <3>1. \A i \in 1..n : todo[i] = n - i + 1
      BY <2>1 DEF UndoInv
    <3> HIDE DEF n
    <3> QED
      BY <2>2, <2>4, <3>1
  <2>6. setting' = journal[plan][n] /\ setting' \in Value
    BY <2>1, <2>2, <2>3
  <2> HIDE DEF n
  <2>7. JournalInv'
    BY <2>1, <2>6 DEF JournalInv
  <2>8. ApplyInv'
    BY <2>1 DEF ApplyInv
  <2>9. RecordInv'
    BY <2>1 DEF RecordInv, Steps, Noted
  <2>10. UndoInv'
    <3>1. /\ Len(todo') <= Len(journal[plan])
          /\ \A i \in 1..Len(todo') : todo'[i] = Len(todo') - i + 1
          /\ setting' = journal[plan][Len(todo') + 1]
      BY <2>2, <2>4, <2>5, <2>6
    <3> QED
      BY <2>1, <2>4, <3>1 DEF UndoInv, Noted
  <2> QED
    BY <2>7, <2>8, <2>9, <2>10
<1>4. CASE UndoChecked
  <2>1. /\ at = "undoing" /\ at' = "leaving" /\ seen' = setting /\ pending = 0
        /\ UNCHANGED <<plan, pending, undo, plans, baseline, history, servers, journal, setting>>
    BY <1>4 DEF UndoChecked, HistoryInv, OnceInv
  <2>2. JournalInv' /\ ApplyInv'
    BY <2>1 DEF JournalInv, ApplyInv
  <2>3. RecordInv'
    BY <2>1 DEF RecordInv, Steps, Noted
  <2>4. UndoInv'
    BY <2>1 DEF UndoInv, Noted
  <2> QED
    BY <2>2, <2>3, <2>4
<1>3. CASE UndoMarked
  <2>1. /\ at = "leaving" /\ at' = "idle" /\ plan' = 0 /\ pending = 0
        /\ UNCHANGED <<pending, undo, plans, baseline, servers, journal, setting>>
    BY <1>3 DEF UndoMarked, HistoryInv, OnceInv
  <2>2. /\ \A q \in history' : \E r \in history : q.plan = r.plan /\ q.steps = r.steps
        /\ \A r \in history : \E q \in history' : q.plan = r.plan
    <3>1. CASE history' = history
      BY <3>1
    <3>2. CASE history' = MarkedUndone(plan)
      BY <3>2, MarkedFacts DEF HistoryInv
    <3> QED
      BY <1>3, <3>1, <3>2, HistoryMarked
  <2>3. JournalInv' /\ ApplyInv'
    BY <2>1 DEF JournalInv, ApplyInv
  <2>4. RecordInv'
    BY <2>1, <2>2 DEF RecordInv, Steps, Noted
  <2>5. UndoInv'
    BY <2>1, <2>2 DEF UndoInv, Noted
  <2> QED
    BY <2>3, <2>4, <2>5
<1> QED
  BY <1>1, <1>2, <1>3, <1>4

LEMMA CalmStep == HistoryInv /\ CalmInv /\ [Next]_vars => CalmInv'
<1> SUFFICES ASSUME HistoryInv, CalmInv, [Next]_vars PROVE CalmInv'
  OBVIOUS
<1>0. faulty' = faulty
  BY DEF Next, vars
<1> SUFFICES ASSUME Calm PROVE JournalInv' /\ ApplyInv' /\ RecordInv' /\ UndoInv'
  BY <1>0 DEF CalmInv, Calm
<1>1. JournalInv /\ ApplyInv /\ RecordInv /\ UndoInv
  BY DEF CalmInv
<1>2. CASE UNCHANGED vars
  <2>1. UNCHANGED <<at, plan, todo, seen, pending, undo, plans, baseline, history, servers, journal,
                    setting>>
    BY <1>2 DEF vars, worker, panel, bounds, router
  <2> QED
    BY <1>1, <2>1 DEF JournalInv, ApplyInv, Untouched, RecordInv, UndoInv, Steps, Noted
<1>3. ~ServerBypasses /\ ~ApplyIncomplete /\ ~ApplyLost /\ ~Restart
  BY DEF ServerBypasses, ApplyIncomplete, ApplyLost, Restart, Unreliable, Interrupts, Calm
<1>4. ASSUME NEW p \in Plan, ServerStops(p) PROVE FALSE
  BY <1>1, <1>4 DEF ServerStops, ApplyInv
<1> QED
  BY <1>1, <1>2, <1>3, <1>4, CalmQuiet, CalmServer, CalmRecorded, CalmUndo DEF Next, Act

\* For any number of plans, steps and rollbacks in which nothing goes wrong: once nothing
\* runs, every step that was carried out is in the history, that of failed plans included.
THEOREM EverythingAccounted == Spec => []Accounted
<1>1. HistoryInv /\ CalmInv => Accounted
  <2> SUFFICES ASSUME HistoryInv, CalmInv, Calm, at = "idle", NEW p \in Plan, journal[p] # <<>>
               PROVE  \E r \in history : r.plan = p /\ r.steps = Steps(p)
    BY DEF Accounted, AllAccounted, Calm
  <2>1. RecordInv
    BY DEF CalmInv
  <2> QED
    BY <2>1 DEF RecordInv, Noted
<1> QED
  BY <1>1, HistoryInit, HistoryStep, CalmInit, CalmStep, PTL DEF Spec

\* For any number of plans, steps and rollbacks in which nothing goes wrong: a rollback that
\* ran through its journals has put back what was there when the change was planned.
THEOREM RollbackRestores == Spec => []UndoRestores
<1>1. HistoryInv /\ CalmInv => UndoRestores
  <2> SUFFICES ASSUME HistoryInv, CalmInv, Calm, at = "undoing", todo = <<>>
               PROVE  setting = baseline[plan]
    BY DEF UndoRestores, Calm
  <2>1. JournalInv /\ RecordInv /\ UndoInv
    BY DEF CalmInv
  <2>2. plan \in Plan
    BY ReadyBounds DEF HistoryInv, PlansInv, Plan
  <2>3. journal[plan] # <<>> /\ journal[plan] \in Seq(Value)
    BY <2>1, <2>2 DEF UndoInv, RecordInv, JournalInv, Noted
  <2>4. Len(todo) = 0 /\ Len(todo) < Len(journal[plan])
    BY <2>3
  <2>5. setting = journal[plan][1]
    BY <2>1, <2>4 DEF UndoInv
  <2> QED
    BY <2>1, <2>2, <2>3, <2>5 DEF JournalInv
<1> QED
  BY <1>1, HistoryInit, HistoryStep, CalmInit, CalmStep, PTL DEF Spec

\* For any plans, steps and rollbacks, and whatever is lost, cancelled or restarted: no
\* record is dropped, none loses its journals, and a record is closed only by a rollback of
\* its plan whose check read the baseline; that it is still there when nothing goes wrong.
THEOREM HistoryForgetsNothing == Spec => HistoryKeeps
<1> DEFINE Kept == \A r \in history : \E q \in history' :
                     /\ q.plan = r.plan /\ q.steps = r.steps
                     /\ q.status # r.status =>
                          /\ q.status = "rolled_back" /\ plan = r.plan /\ seen = baseline[plan]
                          /\ faulty = {} => setting = baseline[plan]
<1>1. HistoryInv /\ CalmInv /\ Next => Kept
  <2> SUFFICES ASSUME HistoryInv, CalmInv, Next PROVE Kept
    OBVIOUS
  <2>1. CASE \A r \in history : r \in history'
    BY <2>1
  <2>2. CASE UndoMarked
    <3>1. seen = baseline[plan] /\ history' \in {history, MarkedUndone(plan)}
      BY <2>2, HistoryMarked
    <3>2. faulty = {} => setting = baseline[plan]
      BY <2>2, <3>1 DEF UndoMarked, CalmInv, Calm, UndoInv
    <3>3. CASE history' = MarkedUndone(plan)
      <4>1. PlansInv
        BY DEF HistoryInv
      <4>2. ASSUME NEW r \in history
            PROVE  \E q \in MarkedUndone(plan) :
                      /\ q.plan = r.plan /\ q.steps = r.steps
                      /\ q.status # r.status => q.status = "rolled_back" /\ r.plan = plan
        BY <4>1, MarkedFacts
      <4> QED
        BY <3>1, <3>2, <3>3, <4>2
    <3> QED
      BY <2>1, <3>1, <3>3
  <2> QED
    BY <2>1, <2>2, HistoryKept, HistoryGrows DEF Next, Act
<1>2. HistoryInv /\ CalmInv /\ [Next]_vars => [Kept]_vars
  BY <1>1
<1> QED
  BY <1>2, HistoryInit, HistoryStep, CalmInit, CalmStep, PTL DEF Spec, HistoryKeeps

================================================================================
