-------------------------- MODULE ConversationProofs --------------------------
(***************************************************************************)
(* For any number of prompts, changes and chats: what was said is saved     *)
(* where it belongs and stays there, and the model is told of it.           *)
(***************************************************************************)
EXTENDS Conversation, TLAPS

\* What has been said so far, and turns that hold nothing else.
Asked   == 1..asks
Come    == 1..changes
Spoken  == ({"ask"} \X Asked) \cup ({"report", "continue"} \X Come)
Turns   == [ask : Asked, more : SUBSET ({"report", "continue"} \X Come)]
IsSaved(saved) == saved \in Seq(Turns) /\ saved # <<>>

Open == {"form", "approval"}

\* Who speaks was asked, what is at work has come up.
SpeakerInv ==
  /\ asks \in 0..MaxAsks /\ changes \in 0..MaxChanges
  /\ chatOf \in [Ask -> Nat] /\ changeOf \in [Change -> Nat] /\ chats \in Nat /\ chat \in Nat
  /\ agent \in {"idle", "running", "naming"} /\ (agent # "idle" => asked \in Asked)
  /\ job \in {"idle", "planning", "applying", "reporting", "continuing"}
  /\ job # "idle" => jobOf \in Come
  /\ shown \in {Nothing, Sessions} \cup (Open \X Come)
  /\ turns \in Seq(Spoken)

\* A session has an ID of its own and at least one turn; the screen and the picker know
\* only sessions there are, the picker maybe fewer of their turns.
FilesInv ==
  /\ created \in Nat /\ IDs \subseteq 1..created
  /\ store = [id \in IDs |-> store[id]]
  /\ \A id \in IDs : IsSaved(store[id])
  /\ session = 0 \/ session \in IDs
  /\ shown = Sessions =>
       /\ DOMAIN picker \subseteq IDs
       /\ \A id \in DOMAIN picker : IsSaved(picker[id]) /\ Extends(picker[id], store[id])

\* What is answered is saved or lost, but for the prompt whose title is made.
AnswerInv ==
  /\ Saved \subseteq answered /\ answered \subseteq Asked
  /\ answered \subseteq Saved \cup lost \cup (IF agent = "naming" THEN {asked} ELSE {})
  /\ agent = "running" => asked = asks /\ asks \notin answered
  /\ agent = "naming" => asked \in answered

\* What is said, at work or on the panel belongs to the conversation on the screen.
ApartInv ==
  ~crossed =>
    /\ \A id \in IDs : \A x, y \in SaidIn(store[id]) : ChatOf(x) = ChatOf(y)
    /\ session # 0 => \A x \in SaidIn(store[session]) : ChatOf(x) = chat
    /\ \A i \in DOMAIN turns : ChatOf(turns[i]) = chat
    /\ agent # "idle" => chatOf[asked] = chat
    /\ job # "idle" => changeOf[jobOf] = chat
    /\ shown[1] \in Open => changeOf[shown[2]] = chat

\* The model is told of a prompt, or is known not to be.
Known(q) == q \in unaware \/ \E i \in DOMAIN turns : turns[i] = <<"ask", q>>

KnownInv ==
  ~crossed /\ Len(turns) < MaxHistory =>
    /\ session # 0 => \A q \in AsksOf(store[session]) : Known(q)
    /\ agent = "naming" => Known(asked)

ConvInv == SpeakerInv /\ FilesInv /\ AnswerInv /\ ApartInv /\ KnownInv

LEMMA ConvInit == Init => ConvInv
<1> SUFFICES ASSUME Init PROVE ConvInv
  OBVIOUS
<1>1. SpeakerInv
  BY ConversationBounds DEF Init, SpeakerInv, Nothing, Ask, Change
<1>2. FilesInv
  BY DEF Init, FilesInv, IDs, NoSessions, Sessions, Nothing
<1>3. AnswerInv
  BY DEF Init, AnswerInv, Saved, IDs, NoSessions
<1>4. ApartInv
  BY DEF Init, ApartInv, IDs, NoSessions, Nothing, Open
<1>5. KnownInv
  BY DEF Init, KnownInv
<1> QED
  BY <1>1, <1>2, <1>3, <1>4, <1>5 DEF ConvInv

-------------------------------------------------------------------------------
(* What a saved session says, and what becomes of it.                         *)

LEMMA SaidFacts ==
  ASSUME NEW saved, IsSaved(saved)
  PROVE  /\ \A x : x \in SaidIn(saved) <=>
              \E i \in DOMAIN saved : x = <<"ask", saved[i].ask>> \/ x \in saved[i].more
         /\ SaidIn(saved) \subseteq Spoken
         /\ \A q : q \in AsksOf(saved) <=> <<"ask", q>> \in SaidIn(saved)
<1>1. \A x : x \in SaidIn(saved) <=>
        \E i \in DOMAIN saved : x = <<"ask", saved[i].ask>> \/ x \in saved[i].more
  BY DEF SaidIn, AsksOf
<1>2. ASSUME NEW i \in DOMAIN saved
      PROVE  /\ saved[i].ask \in Asked
             /\ saved[i].more \subseteq {"report", "continue"} \X Come
  <2>1. saved[i] \in Turns
    BY DEF IsSaved
  <2> QED
    BY <2>1 DEF Turns
<1>3. SaidIn(saved) \subseteq Spoken
  BY <1>1, <1>2 DEF Spoken
<1>4. ASSUME NEW q PROVE q \in AsksOf(saved) <=> <<"ask", q>> \in SaidIn(saved)
  <2>1. \A i \in DOMAIN saved : <<"ask", q>> \notin saved[i].more
    BY <1>2
  <2> QED
    BY <1>1, <2>1 DEF AsksOf
<1> QED
  BY <1>1, <1>3, <1>4

\* append_turn adds one turn, append_response something to the last one.
LEMMA AppendTurnFacts ==
  ASSUME NEW saved, IsSaved(saved), NEW q \in Asked
  PROVE  LET longer == Append(saved, Turn(q)) IN
         /\ IsSaved(longer) /\ Extends(saved, longer)
         /\ SaidIn(longer) = SaidIn(saved) \cup {<<"ask", q>>}
<1> DEFINE longer == Append(saved, Turn(q))
<1>1. Turn(q) \in Turns /\ Turn(q).ask = q /\ Turn(q).more = {}
  BY DEF Turn, Turns
<1>2. /\ saved \in Seq(Turns) /\ longer \in Seq(Turns) /\ longer # <<>>
      /\ Len(saved) \in Nat /\ Len(longer) = Len(saved) + 1
      /\ DOMAIN saved = 1..Len(saved) /\ DOMAIN longer = 1..(Len(saved) + 1)
      /\ \A i \in DOMAIN saved : longer[i] = saved[i]
      /\ longer[Len(saved) + 1] = Turn(q)
  BY <1>1 DEF IsSaved
<1> HIDE DEF longer
<1>3. IsSaved(longer)
  BY <1>2 DEF IsSaved
<1>4. Extends(saved, longer)
  BY <1>2 DEF Extends
<1>5. ASSUME NEW x PROVE x \in SaidIn(longer) <=> x \in SaidIn(saved) \cup {<<"ask", q>>}
  <2>1. DOMAIN longer = DOMAIN saved \cup {Len(saved) + 1}
    BY <1>2
  <2> QED
    BY <1>1, <1>2, <1>3, <2>1, SaidFacts
<1> QED
  BY <1>3, <1>4, <1>5 DEF longer

LEMMA AppendResponseFacts ==
  ASSUME NEW saved, IsSaved(saved), NEW said \in {"report", "continue"} \X Come
  PROVE  LET fuller == [saved EXCEPT ![Len(saved)].more = @ \cup {said}] IN
         /\ IsSaved(fuller) /\ Extends(saved, fuller)
         /\ SaidIn(fuller) = SaidIn(saved) \cup {said}
<1> DEFINE n == Len(saved)
           fuller == [saved EXCEPT ![n].more = @ \cup {said}]
<1>1. saved \in Seq(Turns) /\ n \in Nat /\ DOMAIN saved = 1..n /\ n \in DOMAIN saved
  BY DEF IsSaved
<1>2. \A i \in DOMAIN saved : /\ saved[i] = [ask |-> saved[i].ask, more |-> saved[i].more]
                              /\ saved[i] \in Turns
  <2>1. \A i \in DOMAIN saved : saved[i] \in Turns
    BY <1>1
  <2> QED
    BY <2>1 DEF Turns
<1>3. fuller[n] = [ask |-> saved[n].ask, more |-> saved[n].more \cup {said}]
  <2>1. fuller[n] = [saved[n] EXCEPT !.more = saved[n].more \cup {said}]
    BY <1>1
  <2> DEFINE last == saved[n]
             more == saved[n].more \cup {said}
  <2>2. last = [ask |-> last.ask, more |-> last.more]
    BY <1>1, <1>2
  <2> HIDE DEF more, last
  <2>3. [last EXCEPT !.more = more] = [ask |-> last.ask, more |-> more]
    BY <2>2
  <2> QED
    BY <2>1, <2>3 DEF last, more
<1>4. /\ DOMAIN fuller = 1..n
      /\ \A i \in DOMAIN saved : i # n => fuller[i] = saved[i]
  BY <1>1
<1>5. /\ fuller[n].ask = saved[n].ask /\ fuller[n].more = saved[n].more \cup {said}
      /\ fuller[n] \in Turns
  BY <1>1, <1>2, <1>3 DEF Turns
<1>6. fuller \in Seq(Turns) /\ Len(fuller) = n /\ fuller # <<>>
  <2>1. fuller \in [1..n -> Turns]
    BY <1>1, <1>2, <1>4, <1>5
  <2> QED
    BY <1>1, <2>1
<1> HIDE DEF fuller, n
<1>7. IsSaved(fuller)
  BY <1>6 DEF IsSaved
<1>8. Extends(saved, fuller)
  BY <1>1, <1>4, <1>5, <1>6 DEF Extends, n
<1>9. ASSUME NEW x PROVE x \in SaidIn(fuller) <=> x \in SaidIn(saved) \cup {said}
  <2>1. \A i \in DOMAIN saved : fuller[i].ask = saved[i].ask
    BY <1>4, <1>5
  <2>2. \A i \in DOMAIN saved :
          fuller[i].more = saved[i].more \cup (IF i = n THEN {said} ELSE {})
    BY <1>4, <1>5
  <2>3. x \in SaidIn(fuller) <=>
          \E i \in DOMAIN saved :
             x = <<"ask", saved[i].ask>> \/ x \in saved[i].more \/ (i = n /\ x = said)
    <3>1. x \in SaidIn(fuller) <=>
            \E i \in DOMAIN fuller : x = <<"ask", fuller[i].ask>> \/ x \in fuller[i].more
      BY <1>7, SaidFacts
    <3>2. DOMAIN fuller = DOMAIN saved
      BY <1>1, <1>4
    <3>3. ASSUME NEW i \in DOMAIN saved
          PROVE  (x = <<"ask", fuller[i].ask>> \/ x \in fuller[i].more) <=>
                 (x = <<"ask", saved[i].ask>> \/ x \in saved[i].more \/ (i = n /\ x = said))
      BY <2>1, <2>2
    <3> QED
      BY <3>1, <3>2, <3>3
  <2> QED
    BY <1>1, <2>3, SaidFacts
<1> QED
  BY <1>7, <1>8, <1>9 DEF fuller, n
-------------------------------------------------------------------------------
(* What the agent remembers.                                                  *)

\* The newest turns are some of them, or all.
LEMMA NewestFacts ==
  ASSUME NEW S, NEW all \in Seq(S)
  PROVE  /\ Newest(all) \in Seq(S)
         /\ \A i \in DOMAIN Newest(all) : \E j \in DOMAIN all : Newest(all)[i] = all[j]
         /\ Len(Newest(all)) < MaxHistory => Newest(all) = all
<1> DEFINE n == Len(all)
<1>1. n \in Nat /\ DOMAIN all = 1..n /\ MaxHistory \in Nat \ {0}
  BY ConversationBounds
<1>2. CASE n <= MaxHistory
  BY <1>1, <1>2 DEF Newest
<1>3. CASE n > MaxHistory
  <2> DEFINE first == n - MaxHistory + 1
  <2>1. Newest(all) = SubSeq(all, first, n) /\ first \in 1..n
    BY <1>1, <1>3 DEF Newest
  <2>2. /\ Newest(all) \in Seq(S) /\ Len(Newest(all)) = MaxHistory
        /\ \A i \in 1..MaxHistory : Newest(all)[i] = all[first + i - 1]
    BY <1>1, <2>1
  <2>3. DOMAIN Newest(all) = 1..MaxHistory
    BY <1>1, <2>2
  <2>4. \A i \in 1..MaxHistory : first + i - 1 \in DOMAIN all
    BY <1>1, <1>3
  <2>5. ASSUME NEW i \in DOMAIN Newest(all)
        PROVE  \E j \in DOMAIN all : Newest(all)[i] = all[j]
    BY <2>2, <2>3, <2>4
  <2>6. ~(Len(Newest(all)) < MaxHistory)
    BY <1>1, <2>2
  <2> QED
    BY <2>2, <2>5, <2>6
<1> QED
  BY <1>1, <1>2, <1>3

LEMMA RememberFacts ==
  ASSUME SpeakerInv, NEW who, NEW said, Remember(who, said), NEW S, turns \in Seq(S), said \in S
  PROVE  /\ turns' \in Seq(S)
         /\ \A i \in DOMAIN turns' :
              turns'[i] = said \/ \E j \in DOMAIN turns : turns'[i] = turns[j]
         /\ Len(turns') < MaxHistory =>
              /\ Len(turns) < MaxHistory
              /\ \A j \in DOMAIN turns : \E i \in DOMAIN turns' : turns'[i] = turns[j]
              /\ who \in replaced \/ \E i \in DOMAIN turns' : turns'[i] = said
<1>1. CASE who \in replaced
  BY <1>1 DEF Remember
<1>2. CASE who \notin replaced
  <2> DEFINE n == Len(turns)
             all == Append(turns, said)
  <2>1. turns' = Newest(all)
    BY <1>2 DEF Remember
  <2>2. /\ n \in Nat /\ DOMAIN turns = 1..n /\ all \in Seq(S) /\ Len(all) = n + 1
        /\ DOMAIN all = 1..(n + 1) /\ all[n + 1] = said /\ \A j \in 1..n : all[j] = turns[j]
    OBVIOUS
  <2> HIDE DEF all
  <2>3. \A j \in DOMAIN all : all[j] = said \/ \E k \in DOMAIN turns : all[j] = turns[k]
    <3>1. \A j \in DOMAIN all : j = n + 1 \/ j \in 1..n
      BY <2>2
    <3> QED
      BY <2>2, <3>1
  <2>4. MaxHistory \in Nat
    BY ConversationBounds
  <2>5. /\ turns' \in Seq(S)
        /\ \A i \in DOMAIN turns' : \E j \in DOMAIN all : turns'[i] = all[j]
        /\ Len(turns') < MaxHistory => turns' = all
    BY <2>1, <2>2, NewestFacts
  <2>6. ASSUME Len(turns') < MaxHistory
        PROVE  /\ Len(turns) < MaxHistory
               /\ \A j \in DOMAIN turns : \E i \in DOMAIN turns' : turns'[i] = turns[j]
               /\ \E i \in DOMAIN turns' : turns'[i] = said
    BY <2>2, <2>4, <2>5, <2>6
  <2> QED
    BY <2>3, <2>5, <2>6
<1> QED
  BY <1>1, <1>2

\* load_history tells of the prompts of a session, of all of them if they fit.
LEMMA ToldFacts ==
  ASSUME NEW saved, IsSaved(saved)
  PROVE  /\ Told(saved) \in Seq(Spoken)
         /\ \A i \in DOMAIN Told(saved) : Told(saved)[i] \in SaidIn(saved)
         /\ Len(Told(saved)) < MaxHistory =>
              \A q \in AsksOf(saved) : \E i \in DOMAIN Told(saved) : Told(saved)[i] = <<"ask", q>>
<1> DEFINE all == [i \in DOMAIN saved |-> <<"ask", saved[i].ask>>]
<1>1. /\ saved \in Seq(Turns) /\ Len(saved) \in Nat /\ DOMAIN saved = 1..Len(saved)
  BY DEF IsSaved
<1>2. \A i \in DOMAIN saved : all[i] \in SaidIn(saved) /\ all[i] \in Spoken
  BY SaidFacts
<1>3. all \in Seq(Spoken) /\ DOMAIN all = DOMAIN saved
  <2>1. all \in [1..Len(saved) -> Spoken]
    BY <1>1, <1>2
  <2> QED
    BY <1>1, <2>1
<1>4. \A q \in AsksOf(saved) : \E i \in DOMAIN all : all[i] = <<"ask", q>>
  BY DEF AsksOf
<1>5. Told(saved) = Newest(all)
  BY DEF Told
<1> HIDE DEF all
<1>6. /\ Newest(all) \in Seq(Spoken)
      /\ \A i \in DOMAIN Newest(all) : \E j \in DOMAIN all : Newest(all)[i] = all[j]
      /\ Len(Newest(all)) < MaxHistory => Newest(all) = all
  BY <1>3, NewestFacts
<1> QED
  BY <1>2, <1>3, <1>4, <1>5, <1>6
-------------------------------------------------------------------------------
(* What a step does to the file.                                              *)

\* A session says one thing more, or there is a new one that says it.
Adds(id, new) ==
  /\ IDs' = IDs \cup {id} /\ store' = [other \in IDs' |-> store'[other]]
  /\ \A other \in IDs \ {id} : store'[other] = store[other]
  /\ IsSaved(store'[id])
  /\ SaidIn(store'[id]) = (IF id \in IDs THEN SaidIn(store[id]) ELSE {}) \cup {new}
  /\ id \in IDs => Extends(store[id], store'[id])

LEMMA PutFacts ==
  ASSUME NEW id, NEW saved, Put(id, saved)
  PROVE  /\ IDs' = IDs \cup {id} /\ store' = [other \in IDs' |-> store'[other]]
         /\ store'[id] = saved /\ \A other \in IDs \ {id} : store'[other] = store[other]
BY DEF Put, IDs

LEMMA TurnAdded ==
  ASSUME FilesInv, NEW id \in IDs, NEW q \in Asked, AppendTurn(id, q)
  PROVE  Adds(id, <<"ask", q>>)
<1>1. IsSaved(store[id])
  BY DEF FilesInv
<1>2. Put(id, Append(store[id], Turn(q)))
  BY DEF AppendTurn
<1> QED
  BY <1>1, <1>2, PutFacts, AppendTurnFacts DEF Adds

LEMMA ResponseAdded ==
  ASSUME FilesInv, NEW id \in IDs, NEW said \in {"report", "continue"} \X Come,
         AppendResponse(id, said)
  PROVE  Adds(id, said)
<1>1. IsSaved(store[id])
  BY DEF FilesInv
<1>2. Put(id, [store[id] EXCEPT ![Len(store[id])].more = @ \cup {said}])
  BY DEF AppendResponse
<1> QED
  BY <1>1, <1>2, PutFacts, AppendResponseFacts DEF Adds

LEMMA SessionAdded ==
  ASSUME NEW id, id \notin IDs, NEW q \in Asked, Put(id, <<Turn(q)>>)
  PROVE  Adds(id, <<"ask", q>>)
<1>1. Turn(q) \in Turns /\ Turn(q).ask = q /\ Turn(q).more = {}
  BY DEF Turn, Turns
<1>2. IsSaved(<<Turn(q)>>)
  BY <1>1 DEF IsSaved
<1>3. SaidIn(<<Turn(q)>>) = {<<"ask", q>>}
  BY <1>1, <1>2, SaidFacts
<1> QED
  BY <1>2, <1>3, PutFacts DEF Adds

\* _record_session_turn: saved in the session of the moment, or kept for a new one, or lost.
LEMMA RecordFacts ==
  ASSUME ConvInv, agent = "running", NEW input, Record(input)
  PROVE  /\ asked \in Asked /\ answered' = answered \cup {asked}
         /\ UNCHANGED <<session, created, deleted>>
         /\ \/ agent' = "naming" /\ session = 0 /\ UNCHANGED <<asked, store, lost>>
            \/ agent' = "idle" /\ session # 0 /\ UNCHANGED lost /\ Adds(session, <<"ask", asked>>)
            \/ agent' = "idle" /\ lost' = lost \cup {asked} /\ UNCHANGED store
<1>1. asked \in Asked /\ (session = 0 \/ session \in IDs) /\ FilesInv
  BY DEF ConvInv, SpeakerInv, FilesInv
<1>2. CASE session = 0
  BY <1>1, <1>2 DEF Record
<1>3. CASE session \in IDs /\ session # 0
  BY <1>1, <1>3, TurnAdded DEF Record, AgentEnds
<1> QED
  BY <1>1, <1>2, <1>3

LEMMA RespondFacts ==
  ASSUME FilesInv, NEW said \in {"report", "continue"} \X Come, Respond(said)
  PROVE  UNCHANGED store \/ (session \in IDs /\ Adds(session, said))
BY ResponseAdded DEF Respond

LEMMA NamedFacts ==
  ASSUME ConvInv, Named
  PROVE  /\ agent = "naming" /\ agent' = "idle" /\ asked \in Asked
         /\ \/ /\ created' = created + 1 /\ session' = created' /\ UNCHANGED lost
               /\ created' \notin IDs /\ Adds(created', <<"ask", asked>>)
            \/ lost' = lost \cup {asked} /\ UNCHANGED <<store, session, created>>
<1>1. asked \in Asked
  BY DEF Named, ConvInv, SpeakerInv
<1>2. CASE created' = created + 1 /\ session' = created' /\ Put(created', <<Turn(asked)>>)
           /\ UNCHANGED lost
  <2>1. created' \notin IDs
    BY <1>2 DEF ConvInv, FilesInv
  <2> QED
    BY <1>1, <1>2, <2>1, SessionAdded DEF Named, AgentEnds
<1>3. CASE lost' = lost \cup {asked} /\ UNCHANGED <<store, session, created>>
  BY <1>1, <1>3 DEF Named, AgentEnds
<1> QED
  BY <1>2, <1>3 DEF Named

LEMMA DeletedFacts ==
  ASSUME NEW id \in IDs, Deleted(id)
  PROVE  /\ IDs' = IDs \ {id} /\ store' = [other \in IDs' |-> store'[other]]
         /\ \A other \in IDs' : store'[other] = store[other]
         /\ deleted' = deleted \cup {id} /\ lost' = lost \cup AsksOf(store[id])
         /\ session' = IF session = id THEN 0 ELSE session
         /\ shown' = Nothing
BY DEF Deleted, Without, IDs, Close

-------------------------------------------------------------------------------
(* Who speaks.                                                                *)

LEMMA SeqWider ==
  ASSUME NEW A, NEW B, A \subseteq B
  PROVE  Seq(A) \subseteq Seq(B)
<1> SUFFICES ASSUME NEW s \in Seq(A) PROVE s \in Seq(B)
  OBVIOUS
<1>1. s \in [1..Len(s) -> B] /\ Len(s) \in Nat
  OBVIOUS
<1> QED
  BY <1>1

\* What was said and saved stays so when more is asked.
LEMMA LaterFacts ==
  ASSUME SpeakerInv, asks' \in {asks, asks + 1}, changes' \in {changes, changes + 1}
  PROVE  /\ Asked \subseteq Asked' /\ Come \subseteq Come' /\ Spoken \subseteq Spoken'
         /\ Seq(Turns) \subseteq Seq(Turns') /\ Seq(Spoken) \subseteq Seq(Spoken')
<1>1. Asked \subseteq Asked' /\ Come \subseteq Come'
  BY DEF SpeakerInv, Asked, Come
<1>2. Spoken \subseteq Spoken'
  BY <1>1 DEF Spoken
<1>3. Turns \subseteq Turns'
  BY <1>1 DEF Turns
<1> QED
  BY <1>1, <1>2, <1>3, SeqWider

\* Where a change comes up.
LEMMA NewChangeFacts ==
  ASSUME SpeakerInv, NewChange
  PROVE  /\ changes' = changes + 1 /\ changes' \in 0..MaxChanges /\ changes' \in Come'
         /\ changes' \notin Come
         /\ changeOf' \in [Change -> Nat] /\ changeOf'[changes'] = chat
         /\ \A c \in Come : changeOf'[c] = changeOf[c]
BY ConversationBounds DEF SpeakerInv, NewChange, Change, Come

LEMMA TypePromptFacts ==
  ASSUME SpeakerInv, TypePrompt
  PROVE  /\ asks' = asks + 1 /\ asks' \in 0..MaxAsks /\ asks' \in Asked' /\ asks' \notin Asked
         /\ chatOf' \in [Ask -> Nat] /\ chatOf'[asks'] = chat
         /\ \A q \in Asked : chatOf'[q] = chatOf[q]
BY ConversationBounds DEF SpeakerInv, TypePrompt, Ask, Asked

\* How far a step may go.
LEMMA SpeakerBounds ==
  ASSUME SpeakerInv, Next
  PROVE  /\ asks' \in {asks, asks + 1} /\ asks' \in 0..MaxAsks /\ chatOf' \in [Ask -> Nat]
         /\ changes' \in {changes, changes + 1} /\ changes' \in 0..MaxChanges
         /\ changeOf' \in [Change -> Nat] /\ chats' \in Nat
<1> USE DEF SpeakerInv, ghost
<1>1. CASE TypePrompt
  BY <1>1, TypePromptFacts DEF TypePrompt
<1>2. CASE Proposed \/ BeginChange \/ ProposedNext
  BY <1>2, NewChangeFacts DEF Proposed, BeginChange, ProposedNext
<1>3. CASE Reset
  BY <1>3 DEF Reset
<1>4. CASE ResumeRequested \/ ResumePicked
  BY <1>4 DEF ResumeRequested, ResumePicked, Resume
<1>5. CASE \/ Leave \/ Answered \/ Stopped \/ NoAnswer \/ Named \/ SubmitForm \/ Planned
           \/ Approve \/ Applied \/ Reported \/ Continued \/ Escape \/ SwitchModel
           \/ ShowSessions \/ DeletePicked
  BY <1>5 DEF Leave, Answered, Stopped, NoAnswer, Named, SubmitForm, Planned, Approve, Applied,
     Reported, Continued, Escape, SwitchModel, ShowSessions, DeletePicked
<1> QED
  BY <1>1, <1>2, <1>3, <1>4, <1>5 DEF Next

LEMMA SpeakerStep ==
  ASSUME ConvInv, Next
  PROVE  SpeakerInv'
<1> USE DEF panel, worker, memory, ghost, files
<1>0. /\ SpeakerInv /\ chat \in Nat /\ turns \in Seq(Spoken) /\ turns \in Seq(Spoken')
      /\ Asked \subseteq Asked' /\ Come \subseteq Come' /\ Spoken \subseteq Spoken'
      /\ asks' \in {asks, asks + 1} /\ asks' \in 0..MaxAsks /\ chatOf' \in [Ask -> Nat]
      /\ changes' \in {changes, changes + 1} /\ changes' \in 0..MaxChanges
      /\ changeOf' \in [Change -> Nat] /\ chats' \in Nat
  BY SpeakerBounds, LaterFacts DEF ConvInv, SpeakerInv
<1> DEFINE
      AgentOk == agent' \in {"idle", "running", "naming"} /\ (agent' # "idle" => asked' \in Asked')
      JobOk   == /\ job' \in {"idle", "planning", "applying", "reporting", "continuing"}
                 /\ job' # "idle" => jobOf' \in Come'
      ShownOk == shown' \in {Nothing, Sessions} \cup (Open \X Come')
<1> SUFFICES /\ chat' \in Nat /\ AgentOk /\ JobOk /\ ShownOk /\ turns' \in Seq(Spoken')
  BY <1>0 DEF SpeakerInv
<1>1. /\ agent' = agent /\ asked' = asked => AgentOk
      /\ job' = job /\ jobOf' = jobOf => JobOk
      /\ shown' = shown \/ shown' = Nothing => ShownOk
  <2>1. agent' = agent /\ asked' = asked => AgentOk
    BY <1>0 DEF SpeakerInv
  <2>2. job' = job /\ jobOf' = jobOf => JobOk
    BY <1>0 DEF SpeakerInv
  <2>3. shown' = shown \/ shown' = Nothing => ShownOk
    BY <1>0 DEF SpeakerInv
  <2> QED
    BY <2>1, <2>2, <2>3
<1>2. ASSUME NEW p \in Open, NEW c \in Come', shown' = <<p, c>> PROVE ShownOk
  BY <1>2
<1>3. ASSUME NEW who, NEW said \in Spoken, Remember(who, said) PROVE turns' \in Seq(Spoken')
  BY <1>0, <1>3, RememberFacts
<1>4. CASE TypePrompt
  <2>1. AgentOk
    BY <1>4, <1>0, TypePromptFacts DEF TypePrompt
  <2> QED
    BY <1>0, <1>1, <1>4, <2>1 DEF TypePrompt
<1>5. ASSUME agent = "running", NEW input, Record(input)
      PROVE  AgentOk /\ <<"ask", asked>> \in Spoken
  <2>1. AgentOk
    BY <1>0, <1>5, RecordFacts
  <2> QED
    BY <1>5, <2>1, RecordFacts DEF Spoken
<1>6. CASE Leave \/ Escape
  BY <1>0, <1>1, <1>6 DEF Leave, Escape, Close
<1>7. CASE Answered
  BY <1>0, <1>1, <1>3, <1>5, <1>7 DEF Answered
<1>8. CASE Stopped
  BY <1>0, <1>1, <1>5, <1>8 DEF Stopped
<1>9. CASE NoAnswer
  <2>1. AgentOk
    BY <1>9 DEF NoAnswer, AgentEnds
  <2> QED
    BY <1>0, <1>1, <1>9, <2>1 DEF NoAnswer
<1>10. CASE Proposed
  <2>1. AgentOk /\ turns' \in Seq(Spoken') /\ chat' \in Nat /\ changes' \in Come'
    BY <1>0, <1>3, <1>5, <1>10, NewChangeFacts DEF Proposed
  <2>2. CASE ShowForm
    BY <1>1, <1>2, <2>1, <2>2 DEF ShowForm, Open
  <2>3. CASE Plan(changes') /\ UNCHANGED shown
    <3>1. JobOk
      BY <2>1, <2>3 DEF Plan
    <3> QED
      BY <1>1, <2>1, <2>3, <3>1
  <2> QED
    BY <1>10, <2>2, <2>3 DEF Proposed
<1>11. CASE Named
  <2>1. AgentOk
    BY <1>11, NamedFacts
  <2> QED
    BY <1>0, <1>1, <1>11, <2>1 DEF Named
<1>12. CASE BeginChange
  BY <1>0, <1>1, <1>2, <1>12, NewChangeFacts DEF BeginChange, ShowForm, Open
<1>13. CASE SubmitForm \/ Approve
  <2>1. shown[1] \in Open /\ shown[2] = jobOf' /\ job' \in {"planning", "applying"}
    BY <1>13 DEF SubmitForm, Approve, Plan, Open
  <2>2. shown[2] \in Come
    BY <1>0, <2>1 DEF SpeakerInv, Nothing, Sessions, Open
  <2>3. JobOk
    BY <1>0, <2>1, <2>2
  <2> QED
    BY <1>0, <1>1, <1>13, <2>3 DEF SubmitForm, Approve
<1>14. CASE Planned
  <2>1. JobOk /\ jobOf \in Come'
    BY <1>0, <1>14 DEF Planned, JobEnds, SpeakerInv
  <2>2. ShownOk
    BY <1>1, <1>2, <1>14, <2>1 DEF Planned, Open
  <2> QED
    BY <1>0, <1>1, <1>14, <2>1, <2>2 DEF Planned
<1>15. CASE Applied
  <2>1. JobOk
    BY <1>0, <1>15 DEF Applied, JobEnds, SpeakerInv
  <2> QED
    BY <1>0, <1>1, <1>15, <2>1 DEF Applied
<1>16. CASE Reported \/ Continued
  <2>1. JobOk /\ jobOf \in Come
    BY <1>0, <1>16 DEF Reported, Continued, JobEnds, SpeakerInv
  <2>2. <<"report", jobOf>> \in Spoken /\ <<"continue", jobOf>> \in Spoken
    BY <2>1 DEF Spoken
  <2>3. turns' \in Seq(Spoken')
    BY <1>0, <1>3, <1>16, <2>2 DEF Reported, Continued
  <2> QED
    BY <1>0, <1>1, <1>16, <2>1, <2>3 DEF Reported, Continued
<1>17. CASE ProposedNext
  <2>1. changes' \in Come' /\ jobOf \in Come
    BY <1>0, <1>17, NewChangeFacts DEF ProposedNext, SpeakerInv
  <2>2. <<"continue", jobOf>> \in Spoken
    BY <2>1 DEF Spoken
  <2>3. turns' \in Seq(Spoken') /\ chat' = chat /\ AgentOk
    BY <1>0, <1>1, <1>3, <1>17, <2>2 DEF ProposedNext
  <2>4. JobOk
    BY <1>17, <2>1 DEF ProposedNext, JobEnds
  <2>5. ShownOk
    BY <1>1, <1>2, <1>17, <2>1 DEF ProposedNext, Open
  <2> QED
    BY <1>0, <2>3, <2>4, <2>5
<1>18. CASE Reset \/ SwitchModel
  <2>1. chat' \in Nat /\ turns' = <<>>
    BY <1>0, <1>18 DEF Reset, SwitchModel
  <2>2. AgentOk /\ JobOk /\ ShownOk
    BY <1>1, <1>18 DEF Reset, SwitchModel
  <2> QED
    BY <2>1, <2>2
<1>19. CASE ShowSessions
  BY <1>0, <1>1, <1>19 DEF ShowSessions
<1>20. ASSUME NEW id, NEW copy, IsSaved(copy), Resume(id, copy)
       PROVE  chat' \in Nat /\ AgentOk /\ JobOk /\ ShownOk /\ turns' \in Seq(Spoken')
  <2>1. copy \in Seq(Turns) /\ Len(copy) \in Nat /\ Len(copy) # 0
    BY <1>20 DEF IsSaved
  <2>2. copy[1] \in Turns
    BY <2>1
  <2>3. chatOf[copy[1].ask] \in Nat
    <3>1. copy[1].ask \in Asked
      BY <2>2 DEF Turns
    <3>2. Asked \subseteq Ask /\ chatOf \in [Ask -> Nat]
      BY <1>0, ConversationBounds DEF SpeakerInv, Asked, Ask
    <3> QED
      BY <3>1, <3>2
  <2>4. turns' \in Seq(Spoken')
    BY <1>0, <1>20, ToldFacts DEF Resume
  <2> QED
    BY <1>1, <1>20, <2>3, <2>4 DEF Resume, Close
<1>21. CASE ResumeRequested \/ ResumePicked
  BY <1>20, <1>21 DEF ResumeRequested, ResumePicked, ConvInv, FilesInv
<1>22. CASE DeletePicked
  BY <1>0, <1>1, <1>22, DeletedFacts DEF DeletePicked
<1> QED
  BY <1>4, <1>6, <1>7, <1>8, <1>9, <1>10, <1>11, <1>12, <1>13, <1>14, <1>15, <1>16, <1>17, <1>18,
     <1>19, <1>21, <1>22 DEF Next

-------------------------------------------------------------------------------
(* What is saved.                                                             *)

LEMMA ExtendsFacts ==
  ASSUME NEW old, IsSaved(old)
  PROVE  /\ Extends(old, old)
         /\ \A mid, new : IsSaved(mid) /\ IsSaved(new) /\ Extends(old, mid) /\ Extends(mid, new)
              => Extends(old, new)
<1>1. old \in Seq(Turns) /\ Len(old) \in Nat /\ DOMAIN old = 1..Len(old)
  BY DEF IsSaved
<1>2. ASSUME NEW mid, NEW new, IsSaved(mid), IsSaved(new), Extends(old, mid), Extends(mid, new)
      PROVE  Extends(old, new)
  <2>1. /\ Len(mid) \in Nat /\ DOMAIN mid = 1..Len(mid)
        /\ Len(new) \in Nat /\ DOMAIN new = 1..Len(new)
    BY <1>2 DEF IsSaved
  <2>2. Len(old) <= Len(new) /\ DOMAIN old \subseteq DOMAIN mid
    BY <1>1, <1>2, <2>1 DEF Extends
  <2>3. ASSUME NEW k \in DOMAIN old
        PROVE  new[k].ask = old[k].ask /\ old[k].more \subseteq new[k].more
    <3>1. k \in DOMAIN mid
      BY <2>2
    <3> QED
      BY <1>2, <3>1 DEF Extends
  <2> QED
    BY <2>2, <2>3 DEF Extends
<1> QED
  BY <1>1, <1>2 DEF Extends

\* What a step may do to the file, and to the session of the screen.
StoreKept    == UNCHANGED <<store, created>> /\ session' \in {session, 0} \cup IDs
StoreAdded   == UNCHANGED <<session, created>> /\ session \in IDs /\ \E new : Adds(session, new)
StoreBegun   == created' = created + 1 /\ session' = created' /\ \E new : Adds(created', new)
StoreDeleted == created' = created /\ \E id \in IDs : Deleted(id)

LEMMA StoreKinds ==
  ASSUME ConvInv, Next
  PROVE  StoreKept \/ StoreAdded \/ StoreBegun \/ StoreDeleted
<1> USE DEF files
<1>0. FilesInv /\ (session = 0 \/ session \in IDs)
  BY DEF ConvInv, FilesInv
<1>1. CASE \/ TypePrompt \/ Leave \/ NoAnswer \/ BeginChange \/ SubmitForm \/ Planned \/ Approve
           \/ Applied \/ ProposedNext \/ Escape \/ SwitchModel \/ ShowSessions
  BY <1>1 DEF TypePrompt, Leave, NoAnswer, BeginChange, SubmitForm, Planned, Approve, Applied,
     ProposedNext, Escape, SwitchModel, ShowSessions, StoreKept
<1>2. CASE Reset
  BY <1>2 DEF Reset, StoreKept
<1>3. CASE Answered \/ Proposed \/ Stopped
  <2>1. ASSUME NEW input, agent = "running", Record(input)
        PROVE  StoreKept \/ StoreAdded
    BY <1>0, <2>1, RecordFacts DEF StoreKept, StoreAdded
  <2> QED
    BY <1>3, <2>1 DEF Answered, Proposed, Stopped
<1>4. CASE Named
  BY <1>4, NamedFacts DEF StoreKept, StoreBegun
<1>5. CASE Reported \/ Continued
  <2>1. jobOf \in Come
    BY <1>5 DEF Reported, Continued, ConvInv, SpeakerInv
  <2>2. UNCHANGED <<session, created>>
    BY <1>5 DEF Reported, Continued
  <2>3. ASSUME NEW said \in {"report", "continue"} \X Come, Respond(said)
        PROVE  UNCHANGED store \/ (session \in IDs /\ Adds(session, said))
    BY <1>0, <2>3, RespondFacts
  <2>4. UNCHANGED store \/ (session \in IDs /\ \E new : Adds(session, new))
    BY <1>5, <2>1, <2>3 DEF Reported, Continued
  <2> QED
    BY <2>2, <2>4 DEF StoreKept, StoreAdded
<1>6. CASE ResumeRequested \/ ResumePicked
  BY <1>6 DEF ResumeRequested, ResumePicked, Resume, StoreKept, ConvInv, FilesInv
<1>7. CASE DeletePicked
  BY <1>7 DEF DeletePicked, StoreDeleted
<1> QED
  BY <1>1, <1>2, <1>3, <1>4, <1>5, <1>6, <1>7 DEF Next

\* No step shortens a session, or takes one away that the operator does not delete.
LEMMA StoreGrows ==
  ASSUME ConvInv, Next
  PROVE  /\ store' = [id \in IDs' |-> store'[id]]
         /\ created' \in Nat /\ IDs' \subseteq 1..created'
         /\ session' = 0 \/ session' \in IDs'
         /\ \A id \in IDs' : IsSaved(store'[id])
         /\ \A id \in IDs \cap IDs' : Extends(store[id], store'[id])
         /\ \A id \in IDs \ IDs' : id \in deleted' /\ shown' = Nothing
<1>0. /\ created \in Nat /\ IDs \subseteq 1..created /\ (session = 0 \/ session \in IDs)
      /\ store = [id \in IDs |-> store[id]]
      /\ \A id \in IDs : IsSaved(store[id]) /\ Extends(store[id], store[id])
  BY ExtendsFacts DEF ConvInv, FilesInv
<1>1. CASE StoreKept
  <2>1. store' = store /\ IDs' = IDs
    BY <1>1 DEF StoreKept, IDs
  <2> QED
    BY <1>0, <1>1, <2>1 DEF StoreKept
<1>2. CASE StoreAdded
  <2>1. PICK new : Adds(session, new)
    BY <1>2 DEF StoreAdded
  <2> QED
    BY <1>0, <1>2, <2>1 DEF StoreAdded, Adds
<1>3. CASE StoreBegun
  <2>1. PICK new : Adds(created', new)
    BY <1>3 DEF StoreBegun
  <2> QED
    BY <1>0, <1>3, <2>1 DEF StoreBegun, Adds
<1>4. CASE StoreDeleted
  <2>1. PICK id \in IDs : Deleted(id)
    BY <1>4 DEF StoreDeleted
  <2> QED
    BY <1>0, <1>4, <2>1, DeletedFacts DEF StoreDeleted
<1> QED
  BY <1>1, <1>2, <1>3, <1>4, StoreKinds

\* The picker is the file, or was.
LEMMA PickerKept ==
  ASSUME Next, shown' = Sessions
  PROVE  \/ picker' = store /\ UNCHANGED store
         \/ shown = Sessions /\ picker' = picker
<1> USE DEF panel, files, Nothing, Sessions, Close
<1>1. CASE \/ TypePrompt \/ Leave \/ Answered \/ Stopped \/ NoAnswer \/ Named \/ Applied
           \/ Reported \/ Continued \/ Reset \/ SwitchModel
  BY <1>1 DEF TypePrompt, Leave, Answered, Stopped, NoAnswer, Named, Applied, Reported,
     Continued, Reset, SwitchModel
<1>2. CASE \/ BeginChange \/ SubmitForm \/ Planned \/ Approve \/ Escape
           \/ ProposedNext \/ Proposed
  BY <1>2 DEF BeginChange, SubmitForm, Planned, Approve, Escape, ProposedNext, Proposed, ShowForm
<1>3. CASE ShowSessions
  BY <1>3 DEF ShowSessions
<1>4. CASE ResumeRequested \/ ResumePicked
  BY <1>4 DEF ResumeRequested, ResumePicked, Resume
<1>5. CASE DeletePicked
  BY <1>5 DEF DeletePicked, Deleted
<1> QED
  BY <1>1, <1>2, <1>3, <1>4, <1>5 DEF Next

LEMMA FilesStep ==
  ASSUME ConvInv, Next
  PROVE  FilesInv'
<1>1. Seq(Turns) \subseteq Seq(Turns')
  BY SpeakerBounds, LaterFacts DEF ConvInv
<1>2. ASSUME NEW saved, IsSaved(saved)
      PROVE  saved \in Seq(Turns') /\ saved # <<>>
  BY <1>1, <1>2 DEF IsSaved
<1>3. \A id \in IDs' : store'[id] \in Seq(Turns') /\ store'[id] # <<>>
  BY <1>2, StoreGrows
<1>4. ASSUME shown' = Sessions
      PROVE  /\ DOMAIN picker' \subseteq IDs'
             /\ \A id \in DOMAIN picker' :
                  IsSaved(picker'[id]) /\ Extends(picker'[id], store'[id])
  <2>1. CASE picker' = store /\ UNCHANGED store
    BY <2>1, ExtendsFacts DEF ConvInv, FilesInv, IDs
  <2>2. CASE shown = Sessions /\ picker' = picker
    <3>1. IDs \subseteq IDs'
      BY <1>4, StoreGrows DEF Sessions, Nothing
    <3>2. DOMAIN picker \subseteq IDs
      BY <2>2 DEF ConvInv, FilesInv
    <3>3. ASSUME NEW id \in DOMAIN picker
          PROVE  IsSaved(picker[id]) /\ Extends(picker[id], store'[id])
      <4>1. /\ id \in IDs /\ id \in IDs' /\ IsSaved(picker[id]) /\ IsSaved(store[id])
            /\ Extends(picker[id], store[id])
        BY <2>2, <3>1, <3>2 DEF ConvInv, FilesInv
      <4>2. Extends(store[id], store'[id]) /\ IsSaved(store'[id])
        BY <4>1, StoreGrows
      <4> QED
        BY <4>1, <4>2, ExtendsFacts
    <3> QED
      BY <2>2, <3>1, <3>2, <3>3
  <2> QED
    BY <1>4, <2>1, <2>2, PickerKept
<1>5. shown' = Sessions =>
        /\ DOMAIN picker' \subseteq IDs'
        /\ \A id \in DOMAIN picker' : /\ picker'[id] \in Seq(Turns') /\ picker'[id] # <<>>
                                      /\ Extends(picker'[id], store'[id])
  BY <1>2, <1>4
<1>6. /\ store' = [id \in IDs' |-> store'[id]] /\ created' \in Nat /\ IDs' \subseteq 1..created'
      /\ session' = 0 \/ session' \in IDs'
  BY StoreGrows
<1> QED
  BY <1>3, <1>5, <1>6 DEF FilesInv, IsSaved

-------------------------------------------------------------------------------
(* What is answered.                                                          *)

LEMMA AddedFacts ==
  ASSUME FilesInv, NEW id, NEW new, Adds(id, new)
  PROVE  /\ \A q \in Saved' : q \in Saved \/ <<"ask", q>> = new
         /\ Saved \subseteq Saved'
         /\ \A q : new = <<"ask", q>> => q \in Saved'
         /\ \A q : q \in AsksOf(store'[id]) <=>
              (id \in IDs /\ q \in AsksOf(store[id])) \/ new = <<"ask", q>>
<1>1. \A other \in IDs : IsSaved(store[other])
  BY DEF FilesInv
<1>2. ASSUME NEW q
      PROVE  q \in AsksOf(store'[id]) <=>
               (id \in IDs /\ q \in AsksOf(store[id])) \/ new = <<"ask", q>>
  <2>1. q \in AsksOf(store'[id]) <=> <<"ask", q>> \in SaidIn(store'[id])
    BY SaidFacts DEF Adds
  <2>2. id \in IDs => (q \in AsksOf(store[id]) <=> <<"ask", q>> \in SaidIn(store[id]))
    BY <1>1, SaidFacts
  <2> QED
    BY <2>1, <2>2 DEF Adds
<1>3. /\ \A q : q \in Saved <=> \E other \in IDs : q \in AsksOf(store[other])
      /\ \A q : q \in Saved' <=> \E other \in IDs' : q \in AsksOf(store'[other])
  BY DEF Saved
<1>4. /\ IDs' = IDs \cup {id}
      /\ \A other \in IDs \ {id} : store'[other] = store[other]
  BY DEF Adds
<1> HIDE DEF Adds
<1> QED
  BY <1>2, <1>3, <1>4

LEMMA DroppedFacts ==
  ASSUME NEW id \in IDs, Deleted(id)
  PROVE  /\ Saved' \subseteq Saved
         /\ Saved \subseteq Saved' \cup AsksOf(store[id])
<1>1. /\ \A q : q \in Saved <=> \E other \in IDs : q \in AsksOf(store[other])
      /\ \A q : q \in Saved' <=> \E other \in IDs' : q \in AsksOf(store'[other])
  BY DEF Saved
<1>2. IDs' = IDs \ {id} /\ \A other \in IDs' : store'[other] = store[other]
  BY DeletedFacts
<1> QED
  BY <1>1, <1>2

LEMMA AnswerStep ==
  ASSUME ConvInv, Next
  PROVE  AnswerInv'
<1> USE DEF panel, worker, memory, ghost, files, fate
<1>0. /\ FilesInv /\ Saved \subseteq answered /\ answered \subseteq Asked
      /\ answered \subseteq Saved \cup lost \cup (IF agent = "naming" THEN {asked} ELSE {})
      /\ agent = "running" => asked = asks /\ asks \notin answered
      /\ agent = "naming" => asked \in answered
      /\ Asked \subseteq Asked'
  BY SpeakerBounds, LaterFacts DEF ConvInv, AnswerInv
<1>1. store' = store => Saved' = Saved
  BY DEF Saved, IDs
<1>2. CASE TypePrompt
  <2>1. /\ asks' \notin Asked /\ asks' = asks + 1 /\ store' = store /\ answered' = answered
        /\ agent' = "running" /\ asked' = asks'
        /\ lost' = lost \cup (IF agent = "naming" THEN {asked} ELSE {})
    BY <1>2, TypePromptFacts DEF TypePrompt, ConvInv
  <2> QED
    BY <1>0, <1>1, <2>1 DEF AnswerInv
<1>3. CASE \/ Leave \/ BeginChange \/ SubmitForm \/ Planned \/ Approve \/ Applied
           \/ ProposedNext \/ Escape \/ Reset \/ SwitchModel \/ ShowSessions
           \/ ResumeRequested \/ ResumePicked
  <2>1. /\ UNCHANGED <<store, agent, asked, answered, lost, asks>>
    BY <1>3 DEF Leave, BeginChange, SubmitForm, Planned, Approve, Applied,
       ProposedNext, Escape, Reset, SwitchModel, ShowSessions, ResumeRequested, ResumePicked,
       Resume
  <2> QED
    BY <1>0, <1>1, <2>1 DEF AnswerInv
<1>4. CASE NoAnswer
  <2>1. /\ UNCHANGED <<store, answered, lost>> /\ agent = "running" /\ agent' = "idle"
    BY <1>4 DEF NoAnswer, AgentEnds
  <2> QED
    BY <1>0, <1>1, <2>1 DEF AnswerInv
<1>5. CASE Answered \/ Proposed \/ Stopped
  <2>1. PICK input : agent = "running" /\ Record(input)
    BY <1>5 DEF Answered, Proposed, Stopped
  <2>2. /\ asked \in Asked /\ answered' = answered \cup {asked}
        /\ \/ agent' = "naming" /\ session = 0 /\ UNCHANGED <<asked, store, lost>>
           \/ agent' = "idle" /\ session # 0 /\ UNCHANGED lost /\ Adds(session, <<"ask", asked>>)
           \/ agent' = "idle" /\ lost' = lost \cup {asked} /\ UNCHANGED store
    BY <2>1, RecordFacts
  <2>3. answered' \subseteq Asked'
    BY <1>0, <2>2
  <2>4. CASE agent' = "naming" /\ UNCHANGED <<asked, store, lost>>
    BY <1>0, <1>1, <2>1, <2>2, <2>3, <2>4 DEF AnswerInv
  <2>5. CASE agent' = "idle" /\ UNCHANGED lost /\ Adds(session, <<"ask", asked>>)
    <3>1. /\ \A q \in Saved' : q \in Saved \/ q = asked
          /\ Saved \subseteq Saved' /\ asked \in Saved'
      BY <1>0, <2>5, AddedFacts
    <3> QED
      BY <1>0, <2>1, <2>2, <2>3, <2>5, <3>1 DEF AnswerInv
  <2>6. CASE agent' = "idle" /\ lost' = lost \cup {asked} /\ UNCHANGED store
    BY <1>0, <1>1, <2>1, <2>2, <2>3, <2>6 DEF AnswerInv
  <2> QED
    BY <2>2, <2>4, <2>5, <2>6
<1>6. CASE Named
  <2>1. /\ agent = "naming" /\ agent' = "idle" /\ answered' = answered
        /\ \/ UNCHANGED lost /\ Adds(created', <<"ask", asked>>)
           \/ lost' = lost \cup {asked} /\ UNCHANGED store
    BY <1>6, NamedFacts DEF Named
  <2>2. CASE UNCHANGED lost /\ Adds(created', <<"ask", asked>>)
    <3>1. /\ \A q \in Saved' : q \in Saved \/ q = asked
          /\ Saved \subseteq Saved' /\ asked \in Saved'
      BY <1>0, <2>2, AddedFacts
    <3> QED
      BY <1>0, <2>1, <2>2, <3>1 DEF AnswerInv
  <2>3. CASE lost' = lost \cup {asked} /\ UNCHANGED store
    BY <1>0, <1>1, <2>1, <2>3 DEF AnswerInv
  <2> QED
    BY <2>1, <2>2, <2>3
<1>7. CASE Reported \/ Continued
  <2>1. UNCHANGED <<agent, asked, answered, lost, asks>>
    BY <1>7 DEF Reported, Continued
  <2>2. jobOf \in Come
    BY <1>7 DEF Reported, Continued, ConvInv, SpeakerInv
  <2>3. \/ UNCHANGED store
        \/ \E said \in {"report", "continue"} \X Come : Adds(session, said)
    <3>1. ASSUME NEW said \in {"report", "continue"} \X Come, Respond(said)
          PROVE  UNCHANGED store \/ Adds(session, said)
      BY <1>0, <3>1, RespondFacts
    <3> QED
      BY <1>7, <2>2, <3>1 DEF Reported, Continued
  <2>4. Saved' = Saved
    <3>1. ASSUME NEW said \in {"report", "continue"} \X Come, Adds(session, said)
          PROVE  Saved' = Saved
      <4>1. \A q : <<"ask", q>> # said
        OBVIOUS
      <4> QED
        BY <1>0, <3>1, <4>1, AddedFacts
    <3> QED
      BY <1>1, <2>3, <3>1
  <2> QED
    BY <1>0, <2>1, <2>4 DEF AnswerInv
<1>8. CASE DeletePicked
  <2>1. UNCHANGED <<agent, asked, answered, asks>>
    BY <1>8 DEF DeletePicked
  <2>2. PICK id \in IDs : Deleted(id)
    BY <1>8 DEF DeletePicked
  <2>3. lost' = lost \cup AsksOf(store[id])
    BY <2>2, DeletedFacts
  <2> QED
    BY <1>0, <2>1, <2>2, <2>3, DroppedFacts DEF AnswerInv
<1> QED
  BY <1>2, <1>3, <1>4, <1>5, <1>6, <1>7, <1>8 DEF Next

-------------------------------------------------------------------------------
(* Which conversation a thing belongs to.                                     *)

\* Where something was said does not change.
LEMMA ChatKept ==
  ASSUME SpeakerInv, Next
  PROVE  /\ \A q \in Asked : chatOf'[q] = chatOf[q]
         /\ \A c \in Come : changeOf'[c] = changeOf[c]
         /\ \A x \in Spoken : ChatOf(x)' = ChatOf(x)
<1> USE DEF ghost
<1>1. /\ \A q \in Asked : chatOf'[q] = chatOf[q]
      /\ \A c \in Come : changeOf'[c] = changeOf[c]
  <2>1. CASE TypePrompt
    BY <2>1, TypePromptFacts DEF TypePrompt
  <2>2. CASE Proposed \/ BeginChange \/ ProposedNext
    BY <2>2, NewChangeFacts DEF Proposed, BeginChange, ProposedNext
  <2>3. CASE Reset \/ ResumeRequested \/ ResumePicked
    BY <2>3 DEF Reset, ResumeRequested, ResumePicked, Resume
  <2>4. CASE \/ Leave \/ Answered \/ Stopped \/ NoAnswer \/ Named \/ SubmitForm \/ Planned
             \/ Approve \/ Applied \/ Reported \/ Continued \/ Escape \/ SwitchModel
             \/ ShowSessions \/ DeletePicked
    BY <2>4 DEF Leave, Answered, Stopped, NoAnswer, Named, SubmitForm, Planned, Approve,
       Applied, Reported, Continued, Escape, SwitchModel, ShowSessions, DeletePicked
  <2> QED
    BY <2>1, <2>2, <2>3, <2>4 DEF Next
<1>2. ASSUME NEW x \in Spoken PROVE ChatOf(x)' = ChatOf(x)
  <2>1. CASE x[1] = "ask"
    <3>1. x[2] \in Asked
      BY <2>1 DEF Spoken
    <3> QED
      BY <1>1, <2>1, <3>1 DEF ChatOf
  <2>2. CASE x[1] # "ask"
    <3>1. x[2] \in Come
      BY <2>2 DEF Spoken
    <3> QED
      BY <1>1, <2>2, <3>1 DEF ChatOf
  <2> QED
    BY <2>1, <2>2
<1> QED
  BY <1>1, <1>2

\* One more thing said in the conversation on the screen.
LEMMA ApartAdded ==
  ASSUME NEW id, NEW new, Adds(id, new), ChatOf(new) = chat,
         \A other \in IDs : \A x, y \in SaidIn(store[other]) : ChatOf(x) = ChatOf(y),
         id \in IDs => \A x \in SaidIn(store[id]) : ChatOf(x) = chat
  PROVE  /\ \A other \in IDs' : \A x, y \in SaidIn(store'[other]) : ChatOf(x) = ChatOf(y)
         /\ \A x \in SaidIn(store'[id]) : ChatOf(x) = chat
<1>1. \A x \in SaidIn(store'[id]) : ChatOf(x) = chat
  BY DEF Adds
<1>2. ASSUME NEW other \in IDs', NEW x \in SaidIn(store'[other]), NEW y \in SaidIn(store'[other])
      PROVE  ChatOf(x) = ChatOf(y)
  <2>1. CASE other = id
    BY <1>1, <1>2, <2>1
  <2>2. CASE other # id
    <3>1. other \in IDs /\ store'[other] = store[other]
      BY <2>2 DEF Adds
    <3> QED
      BY <1>2, <3>1
  <2> QED
    BY <2>1, <2>2
<1> QED
  BY <1>1, <1>2

LEMMA ExtendsSaid ==
  ASSUME NEW old, NEW new, IsSaved(old), IsSaved(new), Extends(old, new)
  PROVE  SaidIn(old) \subseteq SaidIn(new)
<1>1. DOMAIN old \subseteq DOMAIN new
  BY DEF IsSaved, Extends
<1> SUFFICES ASSUME NEW x \in SaidIn(old) PROVE x \in SaidIn(new)
  OBVIOUS
<1>2. PICK i \in DOMAIN old : x = <<"ask", old[i].ask>> \/ x \in old[i].more
  BY SaidFacts
<1>3. x = <<"ask", new[i].ask>> \/ x \in new[i].more
  BY <1>2 DEF Extends
<1> QED
  BY <1>1, <1>3, SaidFacts

LEMMA ApartStep ==
  ASSUME ConvInv, Next
  PROVE  ApartInv'
<1> USE DEF panel, worker, memory, ghost, files, fate
<1> DEFINE
      StoreOk   == \A id \in IDs' : \A x, y \in SaidIn(store'[id]) : ChatOf(x) = ChatOf(y)
      SessionOk == session' # 0 => \A x \in SaidIn(store'[session']) : ChatOf(x) = chat'
      TurnsOk   == \A i \in DOMAIN turns' : turns'[i] \in Spoken /\ ChatOf(turns'[i]) = chat'
      AgentOk   == agent' # "idle" => chatOf'[asked'] = chat'
      JobOk     == job' # "idle" => changeOf'[jobOf'] = chat'
      ShownOk   == shown'[1] \in Open => changeOf'[shown'[2]] = chat'
<1>0. /\ SpeakerInv /\ FilesInv
      /\ agent # "idle" => asked \in Asked
      /\ job # "idle" => jobOf \in Come
      /\ shown \in {Nothing, Sessions} \cup (Open \X Come)
      /\ turns \in Seq(Spoken)
      /\ session = 0 \/ session \in IDs
      /\ created \in Nat /\ IDs \subseteq 1..created
      /\ \A id \in IDs : IsSaved(store[id])
  BY DEF ConvInv, SpeakerInv, FilesInv
<1>1. /\ \A q \in Asked : chatOf'[q] = chatOf[q]
      /\ \A c \in Come : changeOf'[c] = changeOf[c]
      /\ \A x \in Spoken : ChatOf(x)' = ChatOf(x)
  BY <1>0, ChatKept
<1> SUFFICES ASSUME ~crossed'
             PROVE  StoreOk /\ SessionOk /\ TurnsOk /\ AgentOk /\ JobOk /\ ShownOk
  <2>1. \A id \in IDs' : SaidIn(store'[id]) \subseteq Spoken
    BY StoreGrows, SaidFacts
  <2>2. session' = 0 \/ session' \in IDs'
    BY StoreGrows
  <2>3. StoreOk => \A id \in IDs' : \A x, y \in SaidIn(store'[id]) : ChatOf(x)' = ChatOf(y)'
    BY <1>1, <2>1
  <2>4. SessionOk => (session' # 0 => \A x \in SaidIn(store'[session']) : ChatOf(x)' = chat')
    BY <1>1, <2>1, <2>2
  <2>5. TurnsOk => \A i \in DOMAIN turns' : ChatOf(turns[i])' = chat'
    <3>1. ASSUME NEW i \in DOMAIN turns', turns'[i] \in Spoken, ChatOf(turns'[i]) = chat'
          PROVE  ChatOf(turns[i])' = chat'
      BY <1>1, <3>1 DEF ChatOf, Spoken
    <3> QED
      BY <3>1
  <2> HIDE DEF StoreOk, SessionOk, TurnsOk
  <2> QED
    BY <2>3, <2>4, <2>5 DEF ApartInv
<1>2. ~crossed
  BY DEF Next, TypePrompt, Leave, Answered, Proposed, Stopped, NoAnswer, Named, BeginChange,
     SubmitForm, Planned, Approve, Applied, Reported, Continued, ProposedNext, Escape, Reset,
     SwitchModel, ShowSessions, ResumeRequested, ResumePicked, Resume, DeletePicked
<1>3. /\ \A id \in IDs : \A x, y \in SaidIn(store[id]) : ChatOf(x) = ChatOf(y)
      /\ session # 0 => \A x \in SaidIn(store[session]) : ChatOf(x) = chat
      /\ \A i \in DOMAIN turns : turns[i] \in Spoken /\ ChatOf(turns[i]) = chat
      /\ agent # "idle" => chatOf[asked] = chat
      /\ job # "idle" => changeOf[jobOf] = chat
      /\ shown[1] \in Open => shown[2] \in Come /\ changeOf[shown[2]] = chat
  <2>1. shown[1] \in Open => shown[2] \in Come
    BY <1>0 DEF Open, Nothing, Sessions
  <2>2. \A i \in DOMAIN turns : turns[i] \in Spoken
    BY <1>0
  <2> QED
    BY <1>2, <2>1, <2>2 DEF ConvInv, ApartInv
<1>4. /\ store' = store => StoreOk
      /\ store' = store /\ session' \in {session, 0} /\ chat' = chat => SessionOk
  BY <1>3 DEF IDs
<1>5. turns' = turns /\ chat' = chat => TurnsOk
  BY <1>3
<1>6. /\ agent # "idle" /\ asked' = asked /\ chat' = chat => AgentOk
      /\ agent' = agent /\ asked' = asked /\ chat' = chat => AgentOk
      /\ agent' = "idle" => AgentOk
  BY <1>0, <1>1, <1>3
<1>7. /\ job # "idle" /\ jobOf' = jobOf /\ chat' = chat => JobOk
      /\ job' = job /\ jobOf' = jobOf /\ chat' = chat => JobOk
      /\ job' = "idle" => JobOk
  BY <1>0, <1>1, <1>3
<1>8. /\ shown' = shown /\ chat' = chat => ShownOk
      /\ shown' = Nothing \/ shown' = Sessions => ShownOk
  <2>1. shown' = shown /\ chat' = chat => ShownOk
    BY <1>1, <1>3
  <2> QED
    BY <2>1 DEF Nothing, Sessions, Open
<1>9. ASSUME NEW who, NEW said \in Spoken, Remember(who, said), ChatOf(said) = chat, chat' = chat
      PROVE  TurnsOk
  <2>1. \A i \in DOMAIN turns' :
          turns'[i] = said \/ \E j \in DOMAIN turns : turns'[i] = turns[j]
    BY <1>0, <1>9, RememberFacts
  <2> QED
    BY <1>3, <1>9, <2>1
<1>10. agent # "idle" => <<"ask", asked>> \in Spoken /\ ChatOf(<<"ask", asked>>) = chat
  BY <1>0, <1>3 DEF ChatOf, Spoken
<1>11. job # "idle" => /\ <<"report", jobOf>> \in Spoken /\ ChatOf(<<"report", jobOf>>) = chat
                       /\ <<"continue", jobOf>> \in Spoken
                       /\ ChatOf(<<"continue", jobOf>>) = chat
  BY <1>0, <1>3 DEF ChatOf, Spoken
<1>12. ASSUME NEW new, session \in IDs, Adds(session, new), ChatOf(new) = chat,
              chat' = chat, session' = session
       PROVE  StoreOk /\ SessionOk
  <2>1. session # 0
    BY <1>0, <1>12
  <2> QED
    BY <1>3, <1>12, <2>1, ApartAdded
<1>13. ASSUME NEW input, agent = "running", Record(input), chat' = chat
       PROVE  StoreOk /\ SessionOk /\ AgentOk
  <2>1. /\ session' = session
        /\ \/ UNCHANGED <<asked, store>>
           \/ agent' = "idle" /\ session # 0 /\ Adds(session, <<"ask", asked>>)
           \/ agent' = "idle" /\ UNCHANGED store
    BY <1>13, RecordFacts
  <2>2. CASE UNCHANGED <<asked, store>> \/ (agent' = "idle" /\ UNCHANGED store)
    BY <1>4, <1>6, <1>13, <2>1, <2>2
  <2>3. CASE agent' = "idle" /\ session # 0 /\ Adds(session, <<"ask", asked>>)
    BY <1>0, <1>6, <1>10, <1>12, <1>13, <2>1, <2>3
  <2> QED
    BY <2>1, <2>2, <2>3
<1>14. ASSUME NEW said \in {<<"report", jobOf>>, <<"continue", jobOf>>}, job # "idle",
              Respond(said), chat' = chat, session' = session
       PROVE  StoreOk /\ SessionOk
  <2>1. said \in {"report", "continue"} \X Come
    BY <1>0, <1>14
  <2>2. UNCHANGED store \/ (session \in IDs /\ Adds(session, said))
    BY <1>0, <1>14, <2>1, RespondFacts
  <2>3. ChatOf(said) = chat
    BY <1>11, <1>14
  <2> QED
    BY <1>4, <1>12, <1>14, <2>2, <2>3
<1> HIDE DEF StoreOk, SessionOk, TurnsOk, AgentOk, JobOk, ShownOk
<1>15. CASE TypePrompt
  <2>1. AgentOk
    BY <1>0, <1>15, TypePromptFacts DEF AgentOk, TypePrompt
  <2> QED
    BY <1>4, <1>5, <1>7, <1>8, <1>15, <2>1 DEF TypePrompt
<1>16. CASE Leave \/ Escape \/ ShowSessions
  BY <1>4, <1>5, <1>6, <1>7, <1>8, <1>16 DEF Leave, Escape, Close, ShowSessions
<1>17. CASE Answered
  BY <1>5, <1>7, <1>8, <1>9, <1>10, <1>13, <1>17 DEF Answered
<1>18. CASE Stopped
  BY <1>5, <1>7, <1>8, <1>13, <1>18 DEF Stopped
<1>19. CASE NoAnswer
  BY <1>4, <1>5, <1>6, <1>7, <1>8, <1>19 DEF NoAnswer, AgentEnds
<1>20. CASE Named
  <2>1. /\ UNCHANGED <<shown, job, jobOf, turns, chat>> /\ agent # "idle"
    BY <1>20 DEF Named
  <2>2. agent' = "idle"
    BY <1>20, NamedFacts
  <2>3. CASE /\ session' = created' /\ created' \notin IDs
             /\ Adds(created', <<"ask", asked>>)
    <3>1. StoreOk /\ \A x \in SaidIn(store'[created']) : ChatOf(x) = chat
      BY <1>3, <1>10, <2>1, <2>3, ApartAdded DEF StoreOk
    <3>2. SessionOk
      BY <2>1, <2>3, <3>1 DEF SessionOk
    <3> QED
      BY <1>5, <1>6, <1>7, <1>8, <2>1, <2>2, <3>1, <3>2
  <2>4. CASE UNCHANGED <<store, session>>
    BY <1>4, <1>5, <1>6, <1>7, <1>8, <2>1, <2>2, <2>4
  <2> QED
    BY <1>20, <2>3, <2>4, NamedFacts
<1>21. ASSUME NewChange, chat' = chat
       PROVE  /\ changeOf'[changes'] = chat'
              /\ \A k : shown' = <<k, changes'>> => ShownOk
              /\ jobOf' = changes' => JobOk
  BY <1>0, <1>21, NewChangeFacts DEF ShownOk, JobOk
<1>22. CASE Proposed
  <2>1. /\ TurnsOk /\ NewChange /\ chat' = chat
        /\ \E input : agent = "running" /\ Record(input)
    BY <1>9, <1>10, <1>22 DEF Proposed
  <2>2. StoreOk /\ SessionOk /\ AgentOk
    BY <1>13, <2>1
  <2>3. CASE ShowForm
    BY <1>7, <1>21, <2>1, <2>2, <2>3 DEF ShowForm
  <2>4. CASE Plan(changes') /\ UNCHANGED shown
    BY <1>8, <1>21, <2>1, <2>2, <2>4 DEF Plan
  <2> QED
    BY <1>22, <2>3, <2>4 DEF Proposed
<1>23. CASE BeginChange
  BY <1>4, <1>5, <1>6, <1>7, <1>21, <1>23 DEF BeginChange, ShowForm
<1>24. CASE SubmitForm \/ Approve
  <2>1. /\ UNCHANGED <<store, session, agent, asked, turns, chat>> /\ shown' = Nothing
        /\ shown[1] \in Open /\ jobOf' = shown[2]
    BY <1>24 DEF SubmitForm, Approve, Plan, Open
  <2>2. JobOk
    BY <1>1, <1>3, <2>1 DEF JobOk
  <2> QED
    BY <1>4, <1>5, <1>6, <1>8, <2>1, <2>2
<1>25. CASE Planned
  <2>1. /\ UNCHANGED <<store, session, agent, asked, turns, chat>> /\ job # "idle"
        /\ job' = "idle"
        /\ shown' = <<"approval", jobOf>> \/ shown' = shown
    BY <1>25 DEF Planned, JobEnds
  <2>2. shown' = <<"approval", jobOf>> => ShownOk
    BY <1>0, <1>1, <1>3, <2>1 DEF ShownOk
  <2> QED
    BY <1>4, <1>5, <1>6, <1>7, <1>8, <2>1, <2>2
<1>26. CASE Applied
  BY <1>4, <1>5, <1>6, <1>7, <1>8, <1>26 DEF Applied, JobEnds
<1>27. CASE Reported \/ Continued
  <2>1. /\ UNCHANGED <<session, agent, asked, shown, chat>> /\ job # "idle"
        /\ job' = "idle" \/ jobOf' = jobOf
    BY <1>27 DEF Reported, Continued, JobEnds
  <2>2. TurnsOk
    BY <1>5, <1>9, <1>11, <1>27, <2>1 DEF Reported, Continued
  <2>3. StoreOk /\ SessionOk
    BY <1>4, <1>14, <1>27, <2>1 DEF Reported, Continued
  <2> QED
    BY <1>6, <1>7, <1>8, <2>1, <2>2, <2>3
<1>28. CASE ProposedNext
  <2>1. /\ UNCHANGED <<store, session, agent, asked, chat>> /\ NewChange /\ TurnsOk
    BY <1>9, <1>11, <1>28 DEF ProposedNext
  <2>2. \/ shown' = <<"form", changes'>> /\ job' = "idle"
        \/ jobOf' = changes' /\ UNCHANGED shown
    BY <1>28 DEF ProposedNext, JobEnds
  <2> QED
    BY <1>4, <1>6, <1>7, <1>8, <1>21, <2>1, <2>2
<1>29. CASE Reset
  <2>1. /\ UNCHANGED <<store, agent, job, shown>> /\ session' = 0 /\ turns' = <<>>
        /\ agent = "idle" /\ job = "idle" /\ shown[1] \notin Open
    BY <1>29 DEF Reset, Busy, Open
  <2>2. SessionOk /\ TurnsOk /\ ShownOk
    BY <2>1 DEF SessionOk, TurnsOk, ShownOk
  <2> QED
    BY <1>4, <1>6, <1>7, <2>1, <2>2
<1>30. CASE SwitchModel
  <2>1. turns' = <<>> /\ UNCHANGED <<store, session, agent, asked, job, jobOf, shown, chat>>
    BY <1>30 DEF SwitchModel
  <2>2. TurnsOk
    BY <2>1 DEF TurnsOk
  <2> QED
    BY <1>4, <1>6, <1>7, <1>8, <2>1, <2>2
<1>31. ASSUME NEW id \in IDs, NEW copy, IsSaved(copy), Extends(copy, store[id]), Resume(id, copy)
       PROVE  StoreOk /\ SessionOk /\ TurnsOk /\ AgentOk /\ JobOk /\ ShownOk
  <2>1. SaidIn(copy) \subseteq SaidIn(store[id]) /\ SaidIn(copy) \subseteq Spoken
    BY <1>0, <1>31, ExtendsSaid, SaidFacts
  <2>2. <<"ask", copy[1].ask>> \in SaidIn(copy) /\ ChatOf(<<"ask", copy[1].ask>>) = chat'
    <3>1. 1 \in DOMAIN copy
      BY <1>31 DEF IsSaved
    <3> QED
      BY <1>31, <3>1, SaidFacts DEF ChatOf, Resume
  <2>3. \A x \in SaidIn(store[id]) : ChatOf(x) = chat'
    BY <1>3, <2>1, <2>2
  <2>4. SessionOk
    BY <1>31, <2>3 DEF SessionOk, Resume
  <2>5. TurnsOk
    <3>1. turns' = Told(copy) /\ \A i \in DOMAIN Told(copy) : Told(copy)[i] \in SaidIn(copy)
      BY <1>31, ToldFacts DEF Resume
    <3> QED
      BY <2>1, <2>3, <3>1 DEF TurnsOk
  <2>6. /\ UNCHANGED <<store, agent, asked, job, jobOf>> /\ shown' = Nothing
        /\ chat' = chat \/ (agent = "idle" /\ job = "idle")
    BY <1>31 DEF Resume, Close, Busy
  <2> QED
    BY <1>4, <1>6, <1>7, <1>8, <2>4, <2>5, <2>6
<1>32. CASE ResumeRequested
  BY <1>0, <1>31, <1>32, ExtendsFacts DEF ResumeRequested
<1>33. CASE ResumePicked
  BY <1>31, <1>33 DEF ResumePicked, ConvInv, FilesInv
<1>34. CASE DeletePicked
  <2>1. /\ UNCHANGED <<agent, asked, job, jobOf, turns, chat>> /\ shown' = Nothing
        /\ \E id \in IDs : Deleted(id)
    BY <1>34 DEF DeletePicked, Deleted, Close
  <2>2. PICK id \in IDs : Deleted(id)
    BY <2>1
  <2>3. StoreOk
    BY <1>3, <2>2, DeletedFacts DEF StoreOk
  <2>4. SessionOk
    <3>1. session' # 0 => session' = session /\ session \in IDs'
      BY <1>0, <2>2, DeletedFacts
    <3>2. session' # 0 => store'[session'] = store[session]
      BY <2>2, <3>1, DeletedFacts
    <3> QED
      BY <1>3, <2>1, <3>1, <3>2 DEF SessionOk
  <2> QED
    BY <1>5, <1>6, <1>7, <1>8, <2>1, <2>3, <2>4
<1> QED
  BY <1>15, <1>16, <1>17, <1>18, <1>19, <1>20, <1>22, <1>23, <1>24, <1>25, <1>26, <1>27, <1>28,
     <1>29, <1>30, <1>32, <1>33, <1>34 DEF Next

-------------------------------------------------------------------------------
(* What the model knows.                                                      *)

LEMMA KnownStep ==
  ASSUME ConvInv, Next
  PROVE  KnownInv'
<1> USE DEF panel, worker, memory, ghost, files, fate
<1> DEFINE
      KnownNow(q) == q \in unaware' \/ \E i \in DOMAIN turns' : turns'[i] = <<"ask", q>>
      SessionOk   == session' # 0 => \A q \in AsksOf(store'[session']) : KnownNow(q)
      NamingOk    == agent' = "naming" => KnownNow(asked')
<1> SUFFICES ASSUME ~crossed', Len(turns') < MaxHistory
             PROVE  SessionOk /\ NamingOk
  BY DEF KnownInv, Known
<1>0. /\ SpeakerInv /\ FilesInv /\ turns \in Seq(Spoken)
      /\ agent # "idle" => asked \in Asked
      /\ job # "idle" => jobOf \in Come
      /\ session = 0 \/ session \in IDs
      /\ \A id \in IDs : IsSaved(store[id])
      /\ Saved \subseteq answered /\ (agent = "naming" => asked \in answered)
  BY DEF ConvInv, SpeakerInv, FilesInv, AnswerInv
<1>1. ~crossed
  BY DEF Next, TypePrompt, Leave, Answered, Proposed, Stopped, NoAnswer, Named, BeginChange,
     SubmitForm, Planned, Approve, Applied, Reported, Continued, ProposedNext, Escape, Reset,
     SwitchModel, ShowSessions, ResumeRequested, ResumePicked, Resume, DeletePicked
<1>2. Len(turns) < MaxHistory =>
        /\ session # 0 => \A q \in AsksOf(store[session]) : Known(q)
        /\ agent = "naming" => Known(asked)
  BY <1>1 DEF ConvInv, KnownInv
\* Nothing is forgotten, so what was known is known.
<1> DEFINE Kept == Len(turns) < MaxHistory /\ \A q : Known(q) => KnownNow(q)
<1>3. turns' = turns /\ unaware' = unaware => Kept
  BY DEF Known
<1>4. ASSUME NEW who, NEW said \in Spoken, Remember(who, said), unaware \subseteq unaware'
      PROVE  /\ Kept
             /\ who \in replaced \/ \E i \in DOMAIN turns' : turns'[i] = said
  <2>1. /\ Len(turns) < MaxHistory
        /\ \A j \in DOMAIN turns : \E i \in DOMAIN turns' : turns'[i] = turns[j]
        /\ who \in replaced \/ \E i \in DOMAIN turns' : turns'[i] = said
    BY <1>0, <1>4, RememberFacts
  <2> QED
    BY <1>4, <2>1 DEF Known
<1>5. ASSUME Kept, store' = store, session' \in {session, 0} PROVE SessionOk
  BY <1>2, <1>5
<1>6. ASSUME Kept, agent' = agent, asked' = asked PROVE NamingOk
  BY <1>2, <1>6
<1>7. agent' # "naming" => NamingOk
  OBVIOUS
<1>8. ASSUME Kept, session' = session, session \in IDs,
             NEW said \in {"report", "continue"} \X Come, Adds(session, said)
      PROVE  SessionOk
  <2>1. \A q : <<"ask", q>> # said
    OBVIOUS
  <2>2. \A q : q \in AsksOf(store'[session]) => q \in AsksOf(store[session])
    BY <1>0, <1>8, <2>1, AddedFacts
  <2> QED
    BY <1>2, <1>8, <2>2
<1>9. ASSUME NEW input, agent = "running", Record(input), Kept, KnownNow(asked)
      PROVE  SessionOk /\ NamingOk
  <2>1. /\ session' = session
        /\ \/ agent' = "naming" /\ UNCHANGED <<asked, store>>
           \/ agent' = "idle" /\ session # 0 /\ Adds(session, <<"ask", asked>>)
           \/ agent' = "idle" /\ UNCHANGED store
    BY <1>9, RecordFacts
  <2>2. NamingOk
    BY <1>9, <2>1
  <2>3. CASE UNCHANGED store
    BY <1>5, <1>9, <2>1, <2>2, <2>3
  <2>4. CASE session # 0 /\ Adds(session, <<"ask", asked>>)
    <3>1. \A q : q \in AsksOf(store'[session]) => q \in AsksOf(store[session]) \/ q = asked
      BY <1>0, <2>4, AddedFacts
    <3> QED
      BY <1>2, <1>9, <2>1, <2>2, <2>4, <3>1
  <2> QED
    BY <2>1, <2>3, <2>4
<1>10. agent # "idle" => <<"ask", asked>> \in Spoken
  BY <1>0 DEF Spoken
<1>11. job # "idle" => /\ <<"report", jobOf>> \in Spoken /\ <<"continue", jobOf>> \in Spoken
                       /\ <<"report", jobOf>> \in {"report", "continue"} \X Come
                       /\ <<"continue", jobOf>> \in {"report", "continue"} \X Come
  BY <1>0 DEF Spoken
<1> HIDE DEF SessionOk, NamingOk, Kept, KnownNow
<1>12. CASE \/ Leave \/ BeginChange \/ SubmitForm \/ Planned \/ Approve \/ Applied \/ Escape
            \/ ShowSessions
  <2>1. UNCHANGED <<store, session, agent, asked, turns, unaware>>
    BY <1>12 DEF Leave, BeginChange, SubmitForm, Planned, Approve, Applied, Escape, ShowSessions
  <2> QED
    BY <1>3, <1>5, <1>6, <2>1
<1>13. CASE TypePrompt \/ NoAnswer
  <2>1. UNCHANGED <<store, session, turns, unaware>> /\ agent' # "naming"
    BY <1>13 DEF TypePrompt, NoAnswer, AgentEnds
  <2> QED
    BY <1>3, <1>5, <1>7, <2>1
<1>14. CASE Answered \/ Proposed
  <2>1. /\ agent = "running" /\ Remember("agent", <<"ask", asked>>)
        /\ unaware' = unaware \cup (IF "agent" \in replaced THEN {asked} ELSE {})
        /\ \E input : Record(input)
    BY <1>14 DEF Answered, Proposed
  <2>2. Kept /\ KnownNow(asked)
    BY <1>4, <1>10, <2>1 DEF KnownNow
  <2> QED
    BY <1>9, <2>1, <2>2
<1>15. CASE Stopped
  <2>1. /\ agent = "running" /\ turns' = turns /\ unaware' = unaware \cup {asked}
        /\ Record(TRUE)
    BY <1>15 DEF Stopped
  <2>2. Kept /\ KnownNow(asked)
    BY <2>1 DEF Kept, Known, KnownNow
  <2> QED
    BY <1>9, <2>1, <2>2
<1>16. CASE Named
  <2>1. /\ turns' = turns /\ unaware' = unaware /\ agent = "naming" /\ agent' = "idle"
        /\ \/ /\ session' = created' /\ created' \notin IDs
              /\ Adds(created', <<"ask", asked>>)
           \/ UNCHANGED <<store, session>>
    BY <1>16, NamedFacts DEF Named
  <2>2. Kept
    BY <1>3, <2>1
  <2>3. CASE session' = created' /\ created' \notin IDs /\ Adds(created', <<"ask", asked>>)
    <3>1. \A q \in AsksOf(store'[created']) : q = asked
      <4>1. \A q : q \in AsksOf(store'[created']) => <<"ask", asked>> = <<"ask", q>>
        BY <1>0, <2>3, AddedFacts
      <4> QED
        BY <4>1
    <3>2. KnownNow(asked)
      BY <1>2, <2>1, <2>2 DEF Kept
    <3> QED
      BY <1>7, <2>1, <2>3, <3>1, <3>2 DEF SessionOk
  <2>4. CASE UNCHANGED <<store, session>>
    BY <1>5, <1>7, <2>1, <2>2, <2>4
  <2> QED
    BY <2>1, <2>3, <2>4
<1>17. CASE Reported \/ Continued
  <2>1. /\ UNCHANGED <<session, agent, asked, unaware>> /\ job # "idle"
    BY <1>17 DEF Reported, Continued
  <2>2. Kept
    BY <1>3, <1>4, <1>11, <1>17, <2>1 DEF Reported, Continued
  <2>3. CASE UNCHANGED store
    BY <1>5, <1>6, <2>1, <2>2, <2>3
  <2>4. ASSUME NEW said \in {"report", "continue"} \X Come, Respond(said)
        PROVE  SessionOk
    BY <1>0, <1>5, <1>8, <2>1, <2>2, <2>4, RespondFacts
  <2> QED
    BY <1>6, <1>11, <1>17, <2>1, <2>2, <2>3, <2>4 DEF Reported, Continued
<1>18. CASE ProposedNext
  <2>1. /\ UNCHANGED <<store, session, agent, asked, unaware>>
        /\ Remember("job", <<"continue", jobOf>>) /\ job # "idle"
    BY <1>18 DEF ProposedNext
  <2>2. Kept
    BY <1>4, <1>11, <2>1
  <2> QED
    BY <1>5, <1>6, <2>1, <2>2
<1>19. CASE Reset
  BY <1>7, <1>19 DEF Reset, Busy, SessionOk
<1>20. \A id \in IDs : AsksOf(store[id]) \subseteq answered
  BY <1>0 DEF Saved
<1>21. CASE SwitchModel
  <2>1. UNCHANGED <<store, session, agent, asked>> /\ unaware' = answered
    BY <1>21 DEF SwitchModel
  <2> QED
    BY <1>0, <1>20, <2>1 DEF SessionOk, NamingOk, KnownNow
<1>22. ASSUME NEW id \in IDs, NEW copy, IsSaved(copy), Resume(id, copy)
       PROVE  SessionOk /\ NamingOk
  <2>1. /\ UNCHANGED <<store, agent, asked>> /\ session' = id /\ turns' = Told(copy)
        /\ unaware' = answered \ AsksOf(copy)
    BY <1>22 DEF Resume
  <2>2. \A q \in answered : KnownNow(q)
    <3>1. \A q \in AsksOf(copy) : \E i \in DOMAIN turns' : turns'[i] = <<"ask", q>>
      BY <1>22, <2>1, ToldFacts
    <3> QED
      BY <2>1, <3>1 DEF KnownNow
  <2> QED
    BY <1>0, <1>20, <2>1, <2>2 DEF SessionOk, NamingOk
<1>23. CASE ResumeRequested \/ ResumePicked
  BY <1>0, <1>22, <1>23 DEF ResumeRequested, ResumePicked, ConvInv, FilesInv
<1>24. CASE DeletePicked
  <2>1. /\ UNCHANGED <<agent, asked, turns, unaware>>
        /\ \E id \in IDs : Deleted(id)
    BY <1>24 DEF DeletePicked
  <2>2. PICK id \in IDs : Deleted(id)
    BY <2>1
  <2>3. session' # 0 => session' = session /\ store'[session'] = store[session]
    BY <1>0, <2>2, DeletedFacts
  <2>4. Kept
    BY <1>3, <2>1
  <2>5. SessionOk
    BY <1>2, <2>3, <2>4 DEF SessionOk, Kept
  <2> QED
    BY <1>6, <2>1, <2>4, <2>5
<1> QED
  BY <1>12, <1>13, <1>14, <1>15, <1>16, <1>17, <1>18, <1>19, <1>21, <1>23, <1>24 DEF Next

-------------------------------------------------------------------------------
(* Together.                                                                  *)

LEMMA ConvStutter == ConvInv /\ UNCHANGED vars => ConvInv'
<1> SUFFICES ASSUME ConvInv, UNCHANGED vars PROVE ConvInv'
  OBVIOUS
<1> USE DEF vars, files, panel, worker, memory, ghost, fate
<1>1. SpeakerInv'
  BY DEF ConvInv, SpeakerInv, Asked, Come, Spoken
<1>2. FilesInv'
  BY DEF ConvInv, FilesInv, IDs, IsSaved, Turns, Asked, Come
<1>3. AnswerInv'
  BY DEF ConvInv, AnswerInv, Saved, IDs, Asked
<1>4. ApartInv'
  BY DEF ConvInv, ApartInv, IDs, ChatOf
<1>5. KnownInv'
  BY DEF ConvInv, KnownInv, Known
<1> QED
  BY <1>1, <1>2, <1>3, <1>4, <1>5 DEF ConvInv

LEMMA ConvAlways == Spec => []ConvInv
<1>1. ConvInv /\ [Next]_vars => ConvInv'
  BY ConvStutter, SpeakerStep, FilesStep, AnswerStep, ApartStep, KnownStep DEF ConvInv
<1> QED
  BY <1>1, ConvInit, PTL DEF Spec

\* For any number of prompts, changes, chats and failing writes: as long as no chat is begun
\* or resumed under a request or a change, what a session holds was said in one conversation,
\* and the model is told of the one on the screen only.
THEOREM SessionsApart == Spec => []ConversationsApart
<1>1. ConvInv => ConversationsApart
  BY DEF ConvInv, FilesInv, ApartInv, ConversationsApart
<1> QED
  BY <1>1, ConvAlways, PTL

\* Every prompt that was answered is saved, unless the write failed, the session was deleted
\* or a later prompt cancelled the generation of its title.
THEOREM AnswersSaved == Spec => []NothingForgotten
<1>1. ConvInv => NothingForgotten
  BY DEF ConvInv, AnswerInv, NothingForgotten
<1> QED
  BY <1>1, ConvAlways, PTL

\* The model is told of every prompt of the session on the screen that it is not known to
\* lack, after any resumes, resets, switches and deletions.
THEOREM ModelIsTold == Spec => []ModelKnowsTheChat
<1>1. ConvInv => ModelKnowsTheChat
  <2> SUFFICES ASSUME ConvInv, ~crossed, session \in IDs, Len(turns) < MaxHistory,
                      NEW q \in AsksOf(store[session])
               PROVE  q \in unaware \/ <<"ask", q>> \in ToSet(turns)
    BY DEF ModelKnowsTheChat
  <2>1. session # 0
    BY DEF ConvInv, FilesInv
  <2> QED
    BY <2>1 DEF ConvInv, KnownInv, Known, ToSet
<1> QED
  BY <1>1, ConvAlways, PTL

\* What is saved stays, in its order, until the operator deletes the session.
THEOREM TurnsStay == Spec => SavedTurnsKept
<1>1. ConvInv /\ [Next]_vars =>
        [\A id \in IDs : id \in deleted' \/ (id \in IDs' /\ Extends(store[id], store'[id]))]_vars
  BY StoreGrows
<1> QED
  BY <1>1, ConvAlways, PTL DEF Spec, SavedTurnsKept

===============================================================================
