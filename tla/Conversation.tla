---------------------------- MODULE Conversation ----------------------------
(***************************************************************************)
(* ui/textual/sessions.py, the part of ui/textual/chat.py that saves,       *)
(* lists, resumes and deletes sessions, and what agent/loop.py remembers of *)
(* a conversation: ChatScreen._session says where the next turn is saved,   *)
(* _turns what the model is told of earlier ones.                           *)
(*                                                                          *)
(* A step is the code between two awaits: of _run_agent (agent.run, the     *)
(* title), of _apply_runbook (apply, report, continuation) or of a key.     *)
(* Ctrl+L works at any time.  Commands need the composer, which is off      *)
(* while a request runs, but any panel that closes, and any worker that     *)
(* ends, switches it on.                                                    *)
(*                                                                          *)
(* The modes PLAN and READY.  Which plan an approval belongs to is the      *)
(* subject of Console: here it is the one on the panel.                     *)
(***************************************************************************)
EXTENDS Naturals, Sequences, SequencesExt, FiniteSets

CONSTANTS
  MaxAsks,     \* bound: prompts typed
  MaxChanges,  \* bound: changes proposed or begun
  MaxWork,     \* bound: prompts and changes together
  MaxChats,    \* bound: chats begun: the first and one per reset
  MaxHistory,  \* turns the agent keeps (100 in the code)
  DiskFails    \* whether writing sessions.json may fail

ASSUME ConversationBounds ==
  /\ MaxAsks \in Nat /\ MaxChanges \in Nat /\ MaxWork \in Nat /\ MaxChats \in Nat \ {0}
  /\ MaxHistory \in Nat \ {0} /\ DiskFails \in BOOLEAN

VARIABLES
  \* --- sessions.json ---
  store,     \* store[id]: the turns of a session of this router; nothing depends on its place
  \* --- ChatScreen ---
  session,   \* _session.session_id, or 0
  inputOn,   \* #chat-input is not disabled
  shown,     \* the panel: a kind and, for a form or an approval, the change it is about
  picker,    \* _session_picker_sessions while it is shown, a copy of store
  agent,     \* the worker _run_agent: "idle", at agent.run, at name_session
  asked,     \* its prompt, or 0
  job,       \* the worker of group "runbook": "idle" or the await it is at
  jobOf,     \* the change it works on
  leaving,   \* a cancelled worker has yet to run its finally block
  \* --- ReadOnlyAgentLoop ---
  turns,     \* _turns of the current agent
  replaced,  \* workers whose agent is no longer the current one
  \* --- what happened ---
  asks, changes, created, chats,
  chat,      \* the conversation on the screen
  chatOf,    \* chatOf[q]: the one prompt q was typed in
  changeOf,  \* changeOf[c]: the one change c came up in
  answered,  \* prompts whose run gave a response
  lost,      \* those not saved for a reason the screen reports, or deleted
  unaware,   \* saved prompts the model was not told of, by design or by a stale copy
  crossed,   \* the conversation was changed under a request or a change
  deleted    \* sessions the operator deleted

panel  == <<inputOn, shown, picker>>
worker == <<agent, asked, job, jobOf, leaving>>
memory == <<turns, replaced>>
ghost  == <<asks, changes, chats, chat, chatOf, changeOf, crossed>>
fate   == <<answered, lost, unaware>>
files  == <<store, session, created, deleted>>
vars   == <<files, panel, worker, memory, ghost, fate>>

Ask     == 1..MaxAsks
Change  == 1..MaxChanges
Chat    == 1..MaxChats
Session == 1..MaxAsks

\* What was said: the answer to a prompt, the report of a change, its continuation.
Said == ({"ask"} \X Ask) \cup ({"report", "continue"} \X Change)

\* A saved turn: its prompt and what append_response added to the answer.
Turn(q) == [ask |-> q, more |-> {}]

ChatOf(said) == IF said[1] = "ask" THEN chatOf[said[2]] ELSE changeOf[said[2]]
AsksOf(saved) == {saved[i].ask : i \in DOMAIN saved}
SaidIn(saved) ==
  {<<"ask", q>> : q \in AsksOf(saved)} \cup UNION {saved[i].more : i \in DOMAIN saved}
IDs   == DOMAIN store
Saved == UNION {AsksOf(store[id]) : id \in IDs}

Nothing  == <<"none", 0>>
Sessions == <<"sessions", 0>>
NoSessions == [id \in {} |-> <<>>]

Init ==
  /\ store = NoSessions /\ session = 0 /\ created = 0 /\ deleted = {}
  /\ inputOn = TRUE /\ shown = Nothing /\ picker = NoSessions
  /\ agent = "idle" /\ asked = 0 /\ job = "idle" /\ jobOf = 0 /\ leaving = FALSE
  /\ turns = <<>> /\ replaced = {}
  /\ asks = 0 /\ changes = 0 /\ chats = 1 /\ chat = 1 /\ crossed = FALSE
  /\ chatOf = [q \in Ask |-> 0] /\ changeOf = [c \in Change |-> 0]
  /\ answered = {} /\ lost = {} /\ unaware = {}

CanType == inputOn /\ shown = Nothing
Busy    == agent # "idle" \/ job # "idle" \/ shown[1] \in {"form", "approval"}

-----------------------------------------------------------------------------
(* ChatSessionStore and the memory of the agent.                             *)

Without(id) == [old \in IDs \ {id} |-> store[old]]

\* create and _replace.
Put(id, saved) ==
  store' = [other \in IDs \cup {id} |-> IF other = id THEN saved ELSE store[other]]

\* append_turn: to the session found now, not to the copy the screen holds.
AppendTurn(id, q) == Put(id, Append(store[id], Turn(q)))

\* Mutant: the response takes the place of what was added before.
AppendResponseOnly(id, said) ==
  Put(id, [store[id] EXCEPT ![Len(store[id])].more = {said}])

\* append_response: to the last turn.
AppendResponse(id, said) ==
  Put(id, [store[id] EXCEPT ![Len(store[id])].more = @ \cup {said}])

Newest(all) == IF Len(all) <= MaxHistory THEN all
               ELSE SubSeq(all, Len(all) - MaxHistory + 1, Len(all))

\* _remember, in the agent the worker runs.
Remember(who, said) ==
  turns' = IF who \in replaced THEN turns ELSE Newest(Append(turns, said))

\* load_history: a turn and all that was added to its response.
Told(saved) == Newest([i \in DOMAIN saved |-> <<"ask", saved[i].ask>>])

-----------------------------------------------------------------------------
(* A prompt: _submit_prompt, _run_agent and _record_session_turn.            *)

\* Starting a worker cancels the one of its group; a title being generated is given up.
TypePrompt ==
  /\ CanType /\ asks < MaxAsks /\ asks + changes < MaxWork
  /\ asks' = asks + 1 /\ chatOf' = [chatOf EXCEPT ![asks'] = chat]
  /\ agent' = "running" /\ asked' = asks' /\ inputOn' = FALSE
  /\ leaving' = (leaving \/ agent # "idle")
  /\ lost' = lost \cup (IF agent = "naming" THEN {asked} ELSE {})
  /\ replaced' = replaced \ {"agent"}
  /\ UNCHANGED <<files, shown, picker, job, jobOf, turns, changes, chats, chat, changeOf,
                 crossed, answered, unaware>>

\* The finally block of a cancelled worker.
Leave ==
  /\ leaving /\ leaving' = FALSE /\ inputOn' = TRUE
  /\ UNCHANGED <<files, shown, picker, agent, asked, job, jobOf, memory, ghost, fate>>

\* The worker ends: input is where it leaves #chat-input.
AgentEnds(input) == agent' = "idle" /\ asked' = 0 /\ inputOn' = input

\* The answer is saved: in the session of this moment, or once it has a title.
Record(input) ==
  /\ answered' = answered \cup {asked}
  /\ IF session = 0 THEN
       /\ agent' = "naming" /\ inputOn' = (inputOn /\ input)
       /\ UNCHANGED <<asked, store, lost>>
     ELSE
       /\ AgentEnds(input)
       /\ \/ session \in IDs /\ AppendTurn(session, asked) /\ UNCHANGED lost
          \/ session \notin IDs /\ UNCHANGED <<store, lost>>
          \/ DiskFails /\ lost' = lost \cup {asked} /\ UNCHANGED store
  /\ UNCHANGED <<session, created, deleted>>

\* agent.run returns a final answer.
Answered ==
  /\ agent = "running" /\ Remember("agent", <<"ask", asked>>) /\ Record(TRUE)
  /\ unaware' = unaware \cup (IF "agent" \in replaced THEN {asked} ELSE {})
  /\ UNCHANGED <<shown, picker, job, jobOf, leaving, replaced, ghost>>

\* A change comes up in the conversation on the screen.
NewChange ==
  /\ changes < MaxChanges /\ asks + changes < MaxWork /\ changes' = changes + 1
  /\ changeOf' = [changeOf EXCEPT ![changes'] = chat]

\* _show_runbook_form; _plan_runbook for a typed change.
ShowForm == shown' = <<"form", changes'>> /\ UNCHANGED <<job, jobOf, leaving>>
Plan(c)  == job' = "planning" /\ jobOf' = c /\ leaving' = (leaving \/ job # "idle")

\* It returns a proposal, which is opened before the turn is recorded.
Proposed ==
  /\ agent = "running" /\ Remember("agent", <<"ask", asked>>) /\ NewChange
  /\ \/ ShowForm /\ Record(TRUE)
     \/ Plan(changes') /\ UNCHANGED shown /\ Record(FALSE)
  /\ unaware' = unaware \cup (IF "agent" \in replaced THEN {asked} ELSE {})
  /\ UNCHANGED <<picker, replaced, asks, chats, chat, chatOf, crossed>>

\* It stops after saying something: saved, and not remembered.
Stopped ==
  /\ agent = "running" /\ Record(TRUE) /\ unaware' = unaware \cup {asked}
  /\ UNCHANGED <<shown, picker, job, jobOf, leaving, memory, ghost>>

\* It stops without a word, or fails.
NoAnswer ==
  /\ agent = "running" /\ AgentEnds(TRUE)
  /\ UNCHANGED <<files, shown, picker, job, jobOf, leaving, memory, ghost, fate>>

\* name_session returned or failed; whatever the screen shows by now, the new session is
\* its session.
Named ==
  /\ agent = "naming" /\ AgentEnds(TRUE)
  /\ \/ /\ created' = created + 1 /\ session' = created'
        /\ Put(created', <<Turn(asked)>>) /\ UNCHANGED lost
     \/ DiskFails /\ lost' = lost \cup {asked} /\ UNCHANGED <<store, session, created>>
  /\ UNCHANGED <<deleted, shown, picker, job, jobOf, leaving, memory, ghost, answered, unaware>>

-----------------------------------------------------------------------------
(* A change: the form, _plan_runbook, _apply_runbook.                        *)

BeginChange ==
  /\ CanType /\ NewChange /\ ShowForm
  /\ UNCHANGED <<files, inputOn, picker, agent, asked, memory, asks, chats, chat, chatOf, crossed,
                 fate>>

\* _submit_inline_runbook.
SubmitForm ==
  /\ shown[1] = "form" /\ Plan(shown[2]) /\ shown' = Nothing /\ inputOn' = FALSE
  /\ UNCHANGED <<files, picker, agent, asked, memory, ghost, fate>>

\* A worker of the group ends by itself.
JobEnds == job' = "idle" /\ jobOf' = 0 /\ inputOn' = TRUE

Planned ==
  /\ job = "planning" /\ JobEnds
  /\ \/ shown' = <<"approval", jobOf>> /\ picker' = NoSessions
     \/ UNCHANGED <<shown, picker>>
  /\ UNCHANGED <<files, agent, asked, leaving, memory, ghost, fate>>

Approve ==
  /\ shown[1] = "approval" /\ shown' = Nothing /\ inputOn' = FALSE
  /\ job' = "applying" /\ jobOf' = shown[2] /\ leaving' = (leaving \/ job # "idle")
  /\ UNCHANGED <<files, picker, agent, asked, memory, ghost, fate>>

\* The change is made, or it is not.
Applied ==
  /\ job = "applying"
  /\ \/ job' = "reporting" /\ replaced' = replaced \ {"job"} /\ UNCHANGED <<jobOf, inputOn>>
     \/ JobEnds /\ UNCHANGED replaced
  /\ UNCHANGED <<files, shown, picker, agent, asked, leaving, turns, ghost, fate>>

\* A text of the agent is added to the session of this moment, if there is one.
Respond(said) ==
  \/ session \in IDs /\ AppendResponse(session, said)
  \/ (session \notin IDs \/ DiskFails) /\ UNCHANGED store

\* report_change, in READY followed by the continuation.
Reported ==
  /\ job = "reporting"
  /\ \/ Remember("job", <<"report", jobOf>>) /\ Respond(<<"report", jobOf>>)
     \/ UNCHANGED <<turns, store>>
  /\ \/ job' = "continuing" /\ replaced' = replaced \ {"job"} /\ UNCHANGED <<jobOf, inputOn>>
     \/ JobEnds /\ UNCHANGED replaced
  /\ UNCHANGED <<session, created, deleted, shown, picker, agent, asked, leaving, ghost, fate>>

\* The continuation answers; stops after saying something, which is saved and not
\* remembered; or stops without a word or fails.
Continued ==
  /\ job = "continuing" /\ JobEnds
  /\ \/ Remember("job", <<"continue", jobOf>>) /\ Respond(<<"continue", jobOf>>)
     \/ Respond(<<"continue", jobOf>>) /\ UNCHANGED turns
     \/ UNCHANGED <<turns, store>>
  /\ UNCHANGED <<session, created, deleted, shown, picker, agent, asked, leaving, replaced,
                 ghost, fate>>

\* It proposes the next change.
ProposedNext ==
  /\ job = "continuing" /\ Remember("job", <<"continue", jobOf>>) /\ NewChange
  /\ \/ shown' = <<"form", changes'>> /\ JobEnds
     \/ job' = "planning" /\ jobOf' = changes' /\ inputOn' = FALSE /\ UNCHANGED shown
  /\ UNCHANGED <<files, picker, agent, asked, leaving, replaced, asks, chats, chat, chatOf, crossed,
                 fate>>

-----------------------------------------------------------------------------
(* The chat on the screen.                                                   *)

Close == shown' = Nothing /\ picker' = NoSessions /\ inputOn' = TRUE

Escape ==
  /\ shown # Nothing /\ Close
  /\ UNCHANGED <<files, worker, memory, ghost, fate>>

\* Mutant: the session stays.
ResetKeepsSession ==
  /\ chats < MaxChats /\ chats' = chats + 1 /\ chat' = chats' /\ crossed' = (crossed \/ Busy)
  /\ turns' = <<>>
  /\ UNCHANGED <<files, panel, worker, replaced, asks, changes, chatOf, changeOf, fate>>

\* _reset_chat: Ctrl+L, /clear and /new.
Reset ==
  /\ chats < MaxChats /\ chats' = chats + 1 /\ chat' = chats' /\ crossed' = (crossed \/ Busy)
  /\ session' = 0 /\ turns' = <<>>
  /\ UNCHANGED <<store, created, deleted, panel, worker, replaced, asks, changes, chatOf,
                 changeOf, fate>>

\* _activate_preset: another agent, the same session.
SwitchModel ==
  /\ CanType /\ turns' = <<>> /\ unaware' = answered
  /\ replaced' = replaced \cup (IF agent = "running" THEN {"agent"} ELSE {})
                          \cup (IF job \in {"reporting", "continuing"} THEN {"job"} ELSE {})
  /\ UNCHANGED <<files, panel, worker, ghost, answered, lost>>

ShowSessions ==
  /\ CanType /\ store # NoSessions /\ shown' = Sessions /\ picker' = store
  /\ UNCHANGED <<files, inputOn, worker, memory, ghost, fate>>

\* Mutant: the agent keeps what it remembers.
ResumeUntold(id, copy) ==
  /\ session' = id /\ Close
  /\ turns' = turns /\ unaware' = answered \ AsksOf(copy)
  /\ chat' = chatOf[copy[1].ask]
  /\ crossed' = (crossed \/ (Busy /\ chat' # chat))
  /\ UNCHANGED <<store, created, deleted, worker, replaced, asks, changes, chats, chatOf,
                 changeOf, answered, lost>>

\* _resume_session: the turns are those of the copy at hand.
Resume(id, copy) ==
  /\ session' = id /\ Close
  /\ turns' = Told(copy) /\ unaware' = answered \ AsksOf(copy)
  /\ chat' = chatOf[copy[1].ask]
  /\ crossed' = (crossed \/ (Busy /\ chat' # chat))
  /\ UNCHANGED <<store, created, deleted, worker, replaced, asks, changes, chats, chatOf,
                 changeOf, answered, lost>>

\* /resume, of the latest session or of one by its id.
ResumeRequested == CanType /\ \E id \in IDs : Resume(id, store[id])

ResumePicked == shown = Sessions /\ \E id \in DOMAIN picker : Resume(id, picker[id])

\* Mutant: the session on the screen stays.
DeletedKeepsSession(id) ==
  /\ store' = Without(id) /\ deleted' = deleted \cup {id} /\ Close
  /\ lost' = lost \cup AsksOf(store[id])
  /\ UNCHANGED session

\* The session goes, from the file and from the screen.
Deleted(id) ==
  /\ store' = Without(id) /\ deleted' = deleted \cup {id} /\ Close
  /\ lost' = lost \cup AsksOf(store[id])
  /\ session' = IF session = id THEN 0 ELSE session

\* _delete_inline_session; an error leaves everything, the panel too.
DeletePicked ==
  /\ shown = Sessions
  /\ \E id \in DOMAIN picker \cap IDs : Deleted(id)
  /\ UNCHANGED <<created, worker, memory, ghost, answered, unaware>>

-----------------------------------------------------------------------------
Next ==
  \/ TypePrompt \/ Leave \/ Answered \/ Proposed \/ Stopped \/ NoAnswer \/ Named
  \/ BeginChange \/ SubmitForm \/ Planned \/ Approve \/ Applied
  \/ Reported \/ Continued \/ ProposedNext
  \/ Escape \/ Reset \/ SwitchModel \/ ShowSessions \/ ResumeRequested \/ ResumePicked
  \/ DeletePicked

Spec == Init /\ [][Next]_vars

-----------------------------------------------------------------------------
\* As long as no chat was begun or resumed under a request or a change, what a session
\* holds was said in one conversation, and the model is told of the one on the screen
\* only: answers, reports and continuations go to the session of the moment they come
\* (_record_session_turn, _report_applied_change, _continue_agent_after_change).
ConversationsApart ==
  ~crossed =>
    /\ \A id \in IDs : \A x, y \in SaidIn(store[id]) : ChatOf(x) = ChatOf(y)
    /\ session \in IDs => \A x \in SaidIn(store[session]) : ChatOf(x) = chat
    /\ \A i \in DOMAIN turns : ChatOf(turns[i]) = chat

\* Every prompt that was answered is saved, whatever was resumed, deleted or begun
\* meanwhile, unless the write failed, the session was deleted, or a later prompt
\* cancelled the generation of its title (_record_session_turn).
NothingForgotten == answered \subseteq Saved \cup lost \cup {asked}

\* The model is told of every prompt of the session on the screen, but for those whose
\* run was stopped, those of an earlier model and those a stale list of sessions lacks
\* (_resume_session, _remember).
ModelKnowsTheChat ==
  ~crossed /\ session \in IDs /\ Len(turns) < MaxHistory =>
    \A q \in AsksOf(store[session]) : q \in unaware \/ <<"ask", q>> \in ToSet(turns)

Extends(old, new) ==
  /\ Len(old) <= Len(new)
  /\ \A k \in DOMAIN old : new[k].ask = old[k].ask /\ old[k].more \subseteq new[k].more

\* What is saved stays, in its order, until the operator deletes the session: neither a
\* stale copy nor a late answer overwrites a turn (ChatSessionStore._replace).
SavedTurnsKept ==
  [][\A id \in IDs :
       id \in deleted' \/ (id \in IDs' /\ Extends(store[id], store'[id]))]_vars

=============================================================================
