----------------------- MODULE ProviderSessionsProofs -----------------------
(***************************************************************************)
(* Proofs about ProviderSessions: types, the one answer of an approval,    *)
(* the conversation a thread's turns go to, that a session shown as usable *)
(* can be routed to, and that the thread shows the turn its app-server     *)
(* runs, for any number of turns, app-servers, requests and restarts.      *)
(***************************************************************************)
EXTENDS ProviderSessions, TLAPS

SomeTurn == Turns \cup {None}
Conversations == Processes \cup {None}
Kinds == {"turn", "mode", "interrupt", "answer", "stop", "takeover"}
Requesting == Startup \cup {"turn/start", "turn/interrupt"}
Steps == Requesting \cup
  {"idle", "start", "route", "stop", "stopped", "failed", "remove", "bound", "show",
   "operate", "record"}

Intents == {i \in [kind : Kinds, turn : SomeTurn] :
              i.kind \in {"turn", "answer"} => i.turn \in Turns}

Jobs == [kind : Kinds \cup {"none"}, turn : SomeTurn, at : Steps, process : Conversations,
         cursor : Conversations, mode : Modes, recovering : BOOLEAN]

Asks == {r \in [method : Requesting, argument : SomeTurn \cup Conversations] :
           /\ r.method = "turn/start" => r.argument \in Turns
           /\ r.method \in {"thread/start", "thread/resume"} => r.argument \in Conversations}

Children == [life : {"unborn", "running", "dead", "exited", "killed", "left"},
             conversation : Conversations, turn : SomeTurn,
             asking : BOOLEAN, mayAsk : BOOLEAN, asked : Seq(Asks)]

Contexts == [turn : SomeTurn, cursor : Conversations, mode : Modes, waits : BOOLEAN,
             approvals : SUBSET Turns]

Answers == {"ok", "error", "not found"}

Lines == {l \in [type : {"response", "turnStarted", "turnCompleted", "approval"},
                 turn : SomeTurn, result : Answers \cup {"none"}] :
            IF l.type = "response" THEN l.result \in Answers
            ELSE l.turn \in Turns /\ l.result = "none"}

TurnEventTypes == {"turnStarted", "turnCompleted", "approval"}

Events == {e \in [type : TurnEventTypes \cup {"starting", "ready", "exited", "error"},
                  turn : SomeTurn] :
             e.type \in TurnEventTypes => e.turn \in Turns}

Bindings == [cursor : Conversations, mode : Modes \cup {None}]

(***************************************************************************)
(* Types, and what the reactor's request is to the process it went to.     *)
(***************************************************************************)
UserTypes == wanted \in Modes /\ intents \in Seq(Intents)

ThreadTypes ==
  /\ session \in Sessions /\ writing \in Sessions \cup {None}
  /\ ingestion \in Seq(Events) /\ shown \subseteq Turns

JobTypes ==
  /\ job \in Jobs
  /\ job.kind \in {"turn", "answer"} => job.turn \in Turns
  /\ job.at \in {"turn/start", "record"} => job.kind = "turn"
  /\ job.at \in Requesting \cup {"bound", "record"} => job.process \in Processes
  /\ job.at = "idle" => job = Idle

AnswerTypes ==
  /\ answer \in Answers \cup {None}
  /\ answer # None => job.at \in Requesting

ManagerTypes ==
  /\ child \in [Processes -> Children] /\ context \in [Processes -> Contexts]
  /\ stdout \in [Processes -> Seq(Lines)] /\ current \in Conversations

BindingTypes == binding \in Bindings /\ (binding = NoBinding \/ binding.mode \in Modes)

RuntimeTypes == runtime \in Seq(Events)

GhostTypes ==
  /\ outcome \in [Turns -> {"none", "requested", "sent", "failed", "lost"}]
  /\ answered \in [Turns -> Nat] /\ memory \in Conversations /\ untold \subseteq Turns

\* At most one request waits, and it is the reactor's.
Waiting ==
  \A p \in Processes :
    context[p].waits => job.process = p /\ answer = None /\ job.at \in Requesting

\* It gets one response at most, after which nothing is asked any more.
OneResponse(p) ==
  /\ \A i \in DOMAIN stdout[p] : stdout[p][i].type = "response" =>
       context[p].waits /\ child[p].asked = <<>>
  /\ \A i, j \in DOMAIN stdout[p] :
       stdout[p][i].type = "response" /\ stdout[p][j].type = "response" => i = j

Responses == \A p \in Processes : OneResponse(p)

\* The session's process is one that lives, and the one the reactor deals with.
Serving ==
  /\ current # None => child[current].life \in {"running", "dead"}
  /\ job.at \in Requesting \cup {"bound", "record"} => current \in {None, job.process}

ProviderTypes ==
  /\ UserTypes /\ ThreadTypes /\ JobTypes /\ AnswerTypes /\ ManagerTypes
  /\ BindingTypes /\ RuntimeTypes /\ GhostTypes
  /\ Waiting /\ Responses /\ Serving

(***************************************************************************)
(* Sequences.                                                              *)
(***************************************************************************)
LEMMA TailTyped ==
  ASSUME NEW S, NEW s \in Seq(S), s # <<>>
  PROVE  /\ Head(s) \in S /\ Tail(s) \in Seq(S) /\ Len(Tail(s)) = Len(s) - 1 /\ Len(s) \in Nat \ {0}
         /\ Head(s) = s[1] /\ \A i \in DOMAIN Tail(s) : i + 1 \in DOMAIN s /\ Tail(s)[i] = s[i + 1]
  OBVIOUS

LEMMA OneLeft ==
  ASSUME NEW S, NEW s \in Seq(S), Len(s) = 1
  PROVE  s # <<>> /\ Tail(s) = <<>>
<1>1. s # <<>>
  <2> SUFFICES ASSUME s = <<>> PROVE FALSE
    OBVIOUS
  <2> QED
    OBVIOUS
<1>2. Tail(s) \in Seq(S) /\ Len(Tail(s)) = 0
  BY <1>1
<1>3. \A u \in Seq(S) : Len(u) = 0 => u = <<>>
  OBVIOUS
<1>4. Tail(s) = <<>>
  BY <1>2, <1>3
<1> QED
  BY <1>1, <1>4

LEMMA ConcatTyped ==
  ASSUME NEW S, NEW s \in Seq(S), NEW t \in Seq(S)
  PROVE  /\ s \o t \in Seq(S)
         /\ DOMAIN s \subseteq DOMAIN (s \o t) /\ \A i \in DOMAIN s : (s \o t)[i] = s[i]
         /\ \A i \in DOMAIN (s \o t) :
              \/ i \in DOMAIN s /\ (s \o t)[i] = s[i]
              \/ i \notin DOMAIN s /\ i - Len(s) \in DOMAIN t /\ (s \o t)[i] = t[i - Len(s)]
  OBVIOUS

LEMMA ConcatIndex ==
  ASSUME NEW S, NEW s \in Seq(S), NEW t \in Seq(S)
  PROVE  \A i \in 1..(Len(s) + Len(t)) :
           (s \o t)[i] = IF i <= Len(s) THEN s[i] ELSE t[i - Len(s)]
  OBVIOUS

LEMMA RemoveAtTyped ==
  ASSUME NEW S, NEW s \in Seq(S), NEW k \in DOMAIN s
  PROVE  /\ RemoveAt(s, k) \in Seq(S)
         /\ Len(RemoveAt(s, k)) = Len(s) - 1
         /\ \A i \in DOMAIN RemoveAt(s, k) :
              LET j == IF i < k THEN i ELSE i + 1 IN
              j \in DOMAIN s /\ j # k /\ RemoveAt(s, k)[i] = s[j]
<1> DEFINE front == SubSeq(s, 1, k - 1)
           back  == SubSeq(s, k + 1, Len(s))
<1>1. k \in 1..Len(s) /\ Len(s) \in Nat
  OBVIOUS
<1>2. front \in Seq(S) /\ Len(front) = k - 1 /\ \A i \in 1..(k - 1) : front[i] = s[i]
  BY <1>1
<1>3. back \in Seq(S) /\ Len(back) = Len(s) - k /\ \A i \in 1..(Len(s) - k) : back[i] = s[k + i]
  BY <1>1
<1>4. RemoveAt(s, k) = front \o back
  BY DEF RemoveAt
<1> HIDE DEF front, back
<1>5. front \o back \in Seq(S) /\ Len(front \o back) = Len(s) - 1
  BY <1>1, <1>2, <1>3
<1>6. \A i \in 1..(Len(front) + Len(back)) :
        (front \o back)[i] = IF i <= Len(front) THEN front[i] ELSE back[i - Len(front)]
  <2>1. front \in Seq(S) /\ back \in Seq(S)
    BY <1>2, <1>3
  <2> QED
    BY <2>1, ConcatIndex
<1>7. ASSUME NEW i \in 1..(Len(s) - 1)
      PROVE  (front \o back)[i] = s[IF i < k THEN i ELSE i + 1]
  <2>0. i \in 1..(Len(front) + Len(back))
    BY <1>1, <1>2, <1>3
  <2>1. CASE i < k
    BY <1>1, <1>2, <1>6, <2>0, <2>1
  <2>2. CASE ~(i < k)
    <3>1. i - (k - 1) \in 1..(Len(s) - k) /\ k + (i - (k - 1)) = i + 1
      BY <1>1, <2>2
    <3>2. ~(i <= k - 1)
      BY <1>1, <2>2
    <3>3. (front \o back)[i] = back[i - (k - 1)]
      BY <1>2, <1>6, <2>0, <3>2
    <3>4. back[i - (k - 1)] = s[i + 1]
      BY <1>3, <3>1
    <3> QED
      BY <2>2, <3>3, <3>4
  <2> QED
    BY <2>1, <2>2
<1>8. \A i \in 1..(Len(s) - 1) :
        LET j == IF i < k THEN i ELSE i + 1 IN j \in 1..Len(s) /\ j # k
  BY <1>1
<1>9. DOMAIN (front \o back) = 1..(Len(s) - 1) /\ DOMAIN s = 1..Len(s)
  BY <1>5
<1> QED
  BY <1>4, <1>5, <1>7, <1>8, <1>9

(* The lines without the response are the others in their order.           *)
LEMMA WithoutResponseTyped ==
  ASSUME NEW lines \in Seq(Lines),
         \A i, j \in DOMAIN lines :
           lines[i].type = "response" /\ lines[j].type = "response" => i = j
  PROVE  /\ WithoutResponse(lines) \in Seq(Lines)
         /\ \A i \in DOMAIN WithoutResponse(lines) :
              /\ WithoutResponse(lines)[i].type # "response"
              /\ \E j \in DOMAIN lines : WithoutResponse(lines)[i] = lines[j]
         /\ \A j \in DOMAIN lines : lines[j].type # "response" =>
              \E i \in DOMAIN WithoutResponse(lines) : WithoutResponse(lines)[i] = lines[j]
         /\ \A i, j \in DOMAIN WithoutResponse(lines) : i # j =>
              \E k, l \in DOMAIN lines : /\ k # l /\ WithoutResponse(lines)[i] = lines[k]
                                        /\ WithoutResponse(lines)[j] = lines[l]
<1>1. CASE \E i \in DOMAIN lines : lines[i].type = "response"
  <2> DEFINE c == CHOOSE i \in DOMAIN lines : lines[i].type = "response"
             left == RemoveAt(lines, c)
  <2>1. c \in DOMAIN lines /\ lines[c].type = "response"
    BY <1>1
  <2>2. WithoutResponse(lines) = left
    BY <1>1 DEF WithoutResponse
  <2> HIDE DEF c
  <2>3. /\ left \in Seq(Lines) /\ Len(left) = Len(lines) - 1
        /\ \A i \in DOMAIN left :
             LET j == IF i < c THEN i ELSE i + 1 IN j \in DOMAIN lines /\ j # c /\ left[i] = lines[j]
    BY <2>1, RemoveAtTyped
  <2> HIDE DEF left
  <2>4. Len(lines) \in Nat /\ DOMAIN lines = 1..Len(lines) /\ DOMAIN left = 1..(Len(lines) - 1)
    BY <2>3
  <2>5. \A j \in DOMAIN lines : j # c =>
          LET i == IF j < c THEN j ELSE j - 1 IN i \in DOMAIN left /\ (IF i < c THEN i ELSE i + 1) = j
    BY <2>1, <2>4
  <2>6. \A i \in DOMAIN left : left[i].type # "response" /\ \E j \in DOMAIN lines : left[i] = lines[j]
    BY <2>1, <2>3
  <2>7. \A j \in DOMAIN lines : lines[j].type # "response" => \E i \in DOMAIN left : left[i] = lines[j]
    BY <2>1, <2>3, <2>5
  <2>8. ASSUME NEW i \in DOMAIN left, NEW j \in DOMAIN left, i # j
        PROVE  \E k, l \in DOMAIN lines : k # l /\ left[i] = lines[k] /\ left[j] = lines[l]
    <3> DEFINE k == IF i < c THEN i ELSE i + 1
               l == IF j < c THEN j ELSE j + 1
    <3>1. k \in DOMAIN lines /\ l \in DOMAIN lines /\ left[i] = lines[k] /\ left[j] = lines[l]
      BY <2>3
    <3>2. k # l
      BY <2>1, <2>4, <2>8
    <3> HIDE DEF k, l
    <3> QED
      BY <3>1, <3>2
  <2> QED
    BY <2>2, <2>3, <2>6, <2>7, <2>8
<1>2. CASE ~(\E i \in DOMAIN lines : lines[i].type = "response")
  <2>1. WithoutResponse(lines) = lines
    BY <1>2 DEF WithoutResponse
  <2> QED
    BY <1>2, <2>1
<1> QED
  BY <1>1, <1>2

(* Lines that are appended and are no responses, or a line that is read.   *)
LEMMA NoneIsNone ==
  /\ None \notin Turns /\ None \notin Processes /\ None \notin Modes /\ None \notin Answers
  /\ Idle \in Jobs /\ Unborn \in Children /\ Killed \in Children /\ Left \in Children /\ NoContext \in Contexts
  /\ NoSession \in Sessions /\ NoBinding \in Bindings
<1>1. None \notin Turns /\ None \notin Processes /\ None \notin Modes /\ None \notin Answers
  BY NoneAssumption DEF Answers
<1>2. "full-access" \in Modes
  BY DEF Modes
<1>3. <<>> \in Seq(Asks)
  OBVIOUS
<1>4. Idle \in Jobs
  BY <1>2 DEF Idle, Jobs, Kinds, SomeTurn, Steps, Conversations
<1>5. Unborn \in Children
  BY <1>3 DEF Unborn, Children, Conversations, SomeTurn
<1>6. Killed \in Children
  BY <1>5 DEF Killed, Children, Unborn
<1>9. Left \in Children
  BY <1>5 DEF Left, Children, Unborn
<1>7. NoContext \in Contexts
  BY <1>2 DEF NoContext, Contexts, SomeTurn, Conversations
<1>8. NoSession \in Sessions /\ NoBinding \in Bindings
  BY <1>2 DEF NoSession, Sessions, NoBinding, Bindings, SomeTurn, Conversations
<1> QED
  BY <1>1, <1>4, <1>5, <1>6, <1>7, <1>8, <1>9

(***************************************************************************)
(* What the steps find.                                                    *)
(***************************************************************************)
\* Nothing waits unless the reactor awaits an answer that has not come.
LEMMA NothingWaits ==
  ASSUME ProviderTypes, job.at \notin Requesting \/ answer # None
  PROVE  /\ job.at \notin Requesting => answer = None
         /\ \A p \in Processes : ~context[p].waits
         /\ \A p \in Processes : \A i \in DOMAIN stdout[p] : stdout[p][i].type # "response"
  BY DEF ProviderTypes, AnswerTypes, Waiting, Responses, OneResponse

LEMMA JobMoves ==
  ASSUME NEW j \in Jobs, NEW a \in Steps
  PROVE  /\ [j EXCEPT !.at = a] \in Jobs
         /\ [j EXCEPT !.at = a].kind = j.kind /\ [j EXCEPT !.at = a].turn = j.turn
         /\ [j EXCEPT !.at = a].at = a /\ [j EXCEPT !.at = a].process = j.process
         /\ [j EXCEPT !.at = a].cursor = j.cursor /\ [j EXCEPT !.at = a].mode = j.mode
  BY DEF Jobs

LEMMA InitTypes ==
  ASSUME Init PROVE ProviderTypes
<1>1. UserTypes /\ ThreadTypes /\ RuntimeTypes
  BY NoneIsNone, BoundsAssumption DEF Init, UserTypes, ThreadTypes, RuntimeTypes
<1>2. JobTypes /\ AnswerTypes
  BY NoneIsNone DEF Init, JobTypes, AnswerTypes, Idle, Requesting, Startup
<1>3. ManagerTypes /\ BindingTypes
  BY NoneIsNone DEF Init, ManagerTypes, BindingTypes, Conversations
<1>4. GhostTypes
  BY DEF Init, GhostTypes, Conversations
<1>5. Waiting /\ Responses /\ Serving
  BY DEF Init, Waiting, NoContext, Responses, OneResponse, Serving, Idle, Requesting, Startup
<1> QED
  BY <1>1, <1>2, <1>3, <1>4, <1>5 DEF ProviderTypes

(***************************************************************************)
(* Every action keeps the types.                                           *)
(***************************************************************************)
LEMMA UsersTyped ==
  ASSUME ProviderTypes, Users
  PROVE  ProviderTypes'
<1>1. PICK k \in Kinds, t \in SomeTurn :
        /\ Ask(k, t) /\ (k \in {"turn", "answer"} => t \in Turns)
        /\ wanted' \in Modes /\ outcome' \in [Turns -> {"none", "requested", "sent", "failed", "lost"}]
  <2>0. wanted \in Modes /\ outcome \in [Turns -> {"none", "requested", "sent", "failed", "lost"}]
        /\ shown \subseteq Turns
    BY DEF ProviderTypes, UserTypes, GhostTypes, ThreadTypes
  <2>1. CASE \E t \in Turns : AskForTurn(t)
    BY <2>0, <2>1 DEF AskForTurn, Kinds, SomeTurn
  <2>2. CASE \E t \in Turns : AnswerApproval(t)
    BY <2>0, <2>2 DEF AnswerApproval, Kinds, SomeTurn
  <2>3. CASE ChangeMode
    BY <2>0, <2>3 DEF ChangeMode, Kinds, SomeTurn
  <2>4. CASE \E kind \in {"interrupt", "stop", "takeover"} : AskOther(kind)
    BY <2>0, <2>4 DEF AskOther, Kinds, SomeTurn
  <2> QED
    BY <2>1, <2>2, <2>3, <2>4 DEF Users
<1>2. [kind |-> k, turn |-> t] \in Intents
  BY <1>1 DEF Intents
<1>3. UserTypes'
  BY <1>1, <1>2 DEF ProviderTypes, UserTypes, Ask
<1>4. GhostTypes'
  BY <1>1 DEF ProviderTypes, GhostTypes, Ask
<1>5. UNCHANGED <<session, writing, ingestion, shown, job, answer, child, context, stdout,
                  current, binding, runtime>>
  BY <1>1 DEF Ask, reactor, manager
<1> QED
  BY <1>3, <1>4, <1>5 DEF ProviderTypes, ThreadTypes, JobTypes, AnswerTypes, ManagerTypes, BindingTypes,
     RuntimeTypes, Waiting, Responses, OneResponse, Serving

Calm == {"start", "route", "stop", "stopped", "failed", "remove", "show", "operate"}

\* A job whose step awaits no answer and holds no process.
LEMMA JobGoesOn ==
  ASSUME JobTypes, NEW a \in Calm, job' = [job EXCEPT !.at = a]
  PROVE  /\ JobTypes' /\ job'.at = a /\ job'.kind = job.kind /\ job'.turn = job.turn
         /\ job'.process = job.process /\ job'.cursor = job.cursor /\ job'.mode = job.mode
         /\ job'.at \notin Requesting /\ job'.at \notin {"bound", "record", "idle"}
<1>1. job \in Jobs /\ a \in Steps
  BY DEF JobTypes, Calm, Steps
<1>2. /\ job' \in Jobs /\ job'.at = a /\ job'.kind = job.kind /\ job'.turn = job.turn
      /\ job'.process = job.process /\ job'.cursor = job.cursor /\ job'.mode = job.mode
  BY <1>1, JobMoves
<1>3. a \notin Requesting \cup {"turn/start", "bound", "record", "idle"}
  BY DEF Calm, Requesting, Startup
<1> QED
  BY <1>2, <1>3 DEF JobTypes

(* A step of the reactor that leaves manager and answer alone.             *)
LEMMA QuietStep ==
  ASSUME ProviderTypes, job.at \notin Requesting, UNCHANGED <<answer, manager>>,
         JobTypes', job'.at \notin Requesting,
         job'.at \in {"bound", "record"} => current \in {None, job'.process}
  PROVE  JobTypes' /\ AnswerTypes' /\ ManagerTypes' /\ Waiting' /\ Responses' /\ Serving'
<1>1. UNCHANGED <<answer, child, context, stdout, current>>
  BY DEF manager
<1>2. answer = None /\ \A p \in Processes : ~context[p].waits
  BY NothingWaits
<1> QED
  BY <1>1, <1>2 DEF ProviderTypes, AnswerTypes, ManagerTypes, Waiting, Responses, OneResponse, Serving

LEMMA TakeIntentTyped ==
  ASSUME ProviderTypes, TakeIntent
  PROVE  ProviderTypes'
<1> DEFINE i == Head(intents)
<1>1. intents \in Seq(Intents) /\ wanted \in Modes /\ session \in Sessions /\ binding \in Bindings
      /\ context \in [Processes -> Contexts] /\ current \in Conversations
  BY DEF ProviderTypes, UserTypes, ThreadTypes, BindingTypes, ManagerTypes
<1>2. i \in Intents /\ intents' \in Seq(Intents) /\ wanted' = wanted
  BY <1>1, TailTyped DEF TakeIntent
<1>3. ActiveCursor \in Conversations
  BY <1>1 DEF ActiveCursor, Conversations, Contexts, Bindings
<1>4. i.kind \in Kinds /\ i.turn \in SomeTurn /\ (i.kind \in {"turn", "answer"} => i.turn \in Turns)
  BY <1>2 DEF Intents
<1>5. FirstStep(i.kind) \in {"start", "route", "idle", "stop", "stopped"}
  BY <1>4 DEF FirstStep, Kinds
<1>6. PICK m \in Modes, c \in Conversations :
        /\ job' = IF FirstStep(i.kind) = "idle" THEN Idle
                  ELSE [Idle EXCEPT !.kind = i.kind, !.turn = i.turn, !.at = FirstStep(i.kind),
                                    !.mode = m, !.cursor = c]
  <2>1. session.mode \in Modes /\ None \in Conversations
    BY <1>1 DEF Sessions, Conversations
  <2> QED
    BY <1>1, <1>3, <2>1 DEF TakeIntent
<1> HIDE DEF i
<1>7. JobTypes' /\ job'.at \notin Requesting /\ job'.at \notin {"bound", "record"}
  <2>1. CASE FirstStep(i.kind) = "idle"
    BY <1>6, <2>1, NoneIsNone DEF JobTypes, Idle, Requesting, Startup
  <2>2. CASE FirstStep(i.kind) # "idle"
    <3>1. job' = [kind |-> i.kind, turn |-> i.turn, at |-> FirstStep(i.kind), process |-> None,
                  cursor |-> c, mode |-> m, recovering |-> FALSE]
      BY <1>6, <2>2 DEF Idle
    <3>2. job' \in Jobs
      BY <1>4, <1>5, <3>1 DEF Jobs, Steps, Conversations
    <3> QED
      BY <1>4, <1>5, <2>2, <3>1, <3>2 DEF JobTypes, Requesting, Startup
  <2> QED
    BY <2>1, <2>2
<1>8. session' \in Sessions
  BY <1>1 DEF TakeIntent, Sessions, SomeTurn
<1>9. /\ UNCHANGED <<writing, ingestion, shown, answer, manager, binding, runtime, outcome, answered, memory, untold>>
      /\ job.at = "idle"
  BY DEF TakeIntent, ghosts
<1>10. JobTypes' /\ AnswerTypes' /\ ManagerTypes' /\ Waiting' /\ Responses' /\ Serving'
  <2>1. job.at \notin Requesting
    BY <1>9 DEF Requesting, Startup
  <2> QED
    BY <1>7, <1>9, <2>1, QuietStep
<1> QED
  BY <1>2, <1>8, <1>9, <1>10, <1>1 DEF ProviderTypes, UserTypes, ThreadTypes, BindingTypes, RuntimeTypes, GhostTypes

LEMMA SmallStepsTyped ==
  ASSUME ProviderTypes,
         GiveUp \/ Route \/ SetStopped \/ ShowSession
  PROVE  ProviderTypes'
<1>1. job \in Jobs /\ session \in Sessions /\ binding \in Bindings /\ memory \in Conversations
      /\ JobTypes /\ BindingTypes
  BY DEF ProviderTypes, JobTypes, ThreadTypes, BindingTypes, GhostTypes
<1>2. job.at \in {"failed", "route", "stopped", "show"} /\ job.at \notin Requesting
  BY DEF GiveUp, Route, SetStopped, ShowSession, Requesting, Startup
<1>3. UNCHANGED <<users, answer, writing, ingestion, shown, child, context, stdout, current,
                  manager, binding, runtime, answered, untold>>
  BY DEF GiveUp, Route, SetStopped, ShowSession, manager, users, thread, ghosts
<1>4. session' \in Sessions
  <2>1. job.mode \in Modes
    BY <1>1 DEF Jobs
  <2>2. \A s \in {"stopped", "error", "ready"} : [status |-> s, turn |-> None, mode |-> job.mode] \in Sessions
    BY <2>1 DEF Sessions, SomeTurn
  <2> QED
    BY <1>1, <2>2 DEF GiveUp, Route, SetStopped, ShowSession, ShowStopped, thread
<1>5. GhostTypes'
  <2>1. job.kind = "turn" => job.turn \in Turns
    BY <1>1 DEF JobTypes
  <2>2. outcome' \in [Turns -> {"none", "requested", "sent", "failed", "lost"}]
    BY <2>1 DEF ProviderTypes, GhostTypes, GiveUp, Route, SetStopped, ShowSession, ghosts
  <2>3. memory' \in Conversations
    BY <1>1 DEF GiveUp, Route, SetStopped, ShowSession, ghosts, Conversations
  <2> QED
    BY <1>3, <2>2, <2>3 DEF ProviderTypes, GhostTypes
<1>6. JobTypes' /\ job'.at \notin Requesting /\ job'.at \notin {"bound", "record"}
  <2>1. CASE job' = Idle
    BY <2>1, NoneIsNone DEF JobTypes, Idle, Requesting, Startup
  <2>2. CASE \E a \in {"failed", "operate", "route"} : job' = [job EXCEPT !.at = a]
    <3>1. PICK a \in Calm : job' = [job EXCEPT !.at = a]
      BY <2>2 DEF Calm
    <3> QED
      BY <1>1, <3>1, JobGoesOn
  <2>3. CASE Route /\ binding # NoBinding /\ current = None
    <3>1. job' = [job EXCEPT !.at = "start", !.recovering = TRUE,
                             !.cursor = binding.cursor, !.mode = binding.mode]
      BY <2>3 DEF Route
    <3>2. binding.cursor \in Conversations /\ binding.mode \in Modes
      BY <1>1, <2>3 DEF BindingTypes, Bindings
    <3>3. job' \in Jobs /\ job'.kind = job.kind /\ job'.turn = job.turn /\ job'.at = "start"
      BY <1>1, <3>1, <3>2 DEF Jobs, Steps
    <3> QED
      BY <1>1, <3>3 DEF JobTypes, Requesting, Startup
  <2> QED
    BY <2>1, <2>2, <2>3 DEF GiveUp, Route, SetStopped, ShowSession
<1>7. JobTypes' /\ AnswerTypes' /\ ManagerTypes' /\ Waiting' /\ Responses' /\ Serving'
  BY <1>2, <1>3, <1>6, QuietStep
<1> QED
  BY <1>3, <1>4, <1>5, <1>7 DEF ProviderTypes, UserTypes, ThreadTypes, BindingTypes, RuntimeTypes, users

LEMMA RemoveBindingTyped ==
  ASSUME ProviderTypes, RemoveBinding
  PROVE  ProviderTypes'
<1>1. job.at = "remove" /\ job \in Jobs
      /\ \E a \in {"start", "stopped"} : job' = [job EXCEPT !.at = a]
  BY DEF RemoveBinding, GoTo, ProviderTypes, JobTypes
<1>2. UNCHANGED <<wanted, intents, answer, session, writing, ingestion, shown, manager,
                  runtime, outcome, answered>>
  BY DEF RemoveBinding, users, thread
<1>3. JobTypes' /\ job'.at \notin Requesting /\ job'.at \notin {"bound", "record"}
  <2>1. PICK a \in Calm : job' = [job EXCEPT !.at = a]
    BY <1>1 DEF Calm
  <2> QED
    BY <2>1, JobGoesOn DEF ProviderTypes
<1>4. JobTypes' /\ AnswerTypes' /\ ManagerTypes' /\ Waiting' /\ Responses' /\ Serving'
  <2>1. job.at \notin Requesting
    BY <1>1 DEF Requesting, Startup
  <2> QED
    BY <1>2, <1>3, <2>1, QuietStep
<1>5. BindingTypes'
  BY NoneIsNone DEF RemoveBinding, BindingTypes
<1>6. GhostTypes'
  BY <1>2 DEF RemoveBinding, ProviderTypes, GhostTypes, Conversations
<1> QED
  BY <1>2, <1>4, <1>5, <1>6 DEF ProviderTypes, UserTypes, ThreadTypes, RuntimeTypes

\* stopSession leaves no request waiting on the process it kills.
LEMMA StopCurrentTyped ==
  ASSUME ManagerTypes, Responses, RuntimeTypes, NEW events \in Seq(Events), StopCurrent(events),
         \A p \in Processes : ~context[p].waits
  PROVE  /\ ManagerTypes' /\ Responses' /\ RuntimeTypes' /\ current' = None
         /\ \A p \in Processes : ~context'[p].waits
<1>1. CASE current = None
  <2>1. UNCHANGED <<child, context, stdout, current>> /\ runtime' = runtime \o events
    BY <1>1 DEF StopCurrent, Emit, manager
  <2>2. RuntimeTypes'
    BY <2>1, ConcatTyped DEF RuntimeTypes
  <2> QED
    BY <1>1, <2>1, <2>2 DEF ManagerTypes, Responses, OneResponse
<1>2. CASE current # None
  <2>1. current \in Processes
    BY <1>2 DEF ManagerTypes, Conversations
  <2>2. /\ child' = [child EXCEPT ![current] = Killed]
        /\ context' = [context EXCEPT ![current] = NoContext]
        /\ stdout' = [stdout EXCEPT ![current] = <<>>]
        /\ current' = None /\ runtime' = runtime \o Append(events, Event("exited", None))
    BY <1>2 DEF StopCurrent, Emit
  <2>3. Event("exited", None) \in Events
    BY DEF Event, Events, TurnEventTypes, SomeTurn
  <2>4. RuntimeTypes'
    BY <2>2, <2>3 DEF RuntimeTypes
  <2>5. ManagerTypes'
    <3>1. <<>> \in Seq(Lines) /\ None \in Conversations
      BY DEF Conversations
    <3> QED
      BY <2>1, <2>2, <3>1, NoneIsNone DEF ManagerTypes
  <2>6. \A p \in Processes : ~context'[p].waits
    BY <2>1, <2>2 DEF ManagerTypes, NoContext
  <2>7. ASSUME NEW p \in Processes PROVE OneResponse(p)'
    <3>1. \A i \in DOMAIN stdout[p] : stdout[p][i].type # "response"
      BY DEF Responses, OneResponse
    <3>2. \A i \in DOMAIN stdout'[p] : stdout'[p][i].type # "response"
      BY <2>1, <2>2, <3>1 DEF ManagerTypes
    <3> QED
      BY <3>2 DEF OneResponse
  <2> QED
    BY <2>2, <2>4, <2>5, <2>6, <2>7 DEF Responses
<1> QED
  BY <1>1, <1>2

LEMMA StopsTyped ==
  ASSUME ProviderTypes, StopSession \/ StartFails
  PROVE  ProviderTypes'
<1>1. /\ job.at \in {"stop"} \cup Startup
      /\ answer' = None
      /\ \E a \in {"failed", "remove"} : job' = [job EXCEPT !.at = a]
      /\ \/ UNCHANGED <<manager, runtime>>
         \/ \E events \in {<<>>, <<Event("error", None)>>} : StopCurrent(events)
      /\ \A p \in Processes : ~context[p].waits
  <2>1. CASE StopSession
    <3>1. job.at = "stop" /\ job.at \notin Requesting
      BY <2>1 DEF StopSession, Requesting, Startup
    <3> QED
      BY <2>1, <3>1, NothingWaits DEF StopSession, GoTo
  <2>2. CASE StartFails
    BY <2>2, NothingWaits DEF StartFails, GoTo
  <2> QED
    BY <2>1, <2>2
<1>2. UNCHANGED <<users, thread, binding, ghosts>>
  BY DEF StopSession, StartFails
<1>3. JobTypes' /\ job'.at \in {"failed", "remove"} /\ job'.at \notin Requesting
  <2>1. PICK a \in {"failed", "remove"} : job' = [job EXCEPT !.at = a]
    BY <1>1
  <2>2. a \in Calm
    BY DEF Calm
  <2> QED
    BY <2>1, <2>2, JobGoesOn DEF ProviderTypes
<1>4. ManagerTypes' /\ Responses' /\ RuntimeTypes' /\ (current' = None \/ UNCHANGED manager)
      /\ \A p \in Processes : ~context'[p].waits
  <2>1. CASE UNCHANGED <<manager, runtime>>
    BY <1>1, <2>1 DEF ProviderTypes, manager, ManagerTypes, Responses, OneResponse, RuntimeTypes
  <2>2. CASE \E events \in {<<>>, <<Event("error", None)>>} : StopCurrent(events)
    <3>1. Event("error", None) \in Events
      BY DEF Event, Events, TurnEventTypes, SomeTurn
    <3>2. <<>> \in Seq(Events) /\ <<Event("error", None)>> \in Seq(Events)
      BY <3>1
    <3>3. PICK events \in Seq(Events) : StopCurrent(events)
      BY <2>2, <3>2
    <3> QED
      BY <1>1, <3>3, StopCurrentTyped DEF ProviderTypes
  <2> QED
    BY <1>1, <2>1, <2>2
<1>5. AnswerTypes' /\ Waiting'
  BY <1>1, <1>4 DEF AnswerTypes, Waiting
<1>6. Serving'
  BY <1>3, <1>4 DEF ProviderTypes, Serving, manager
<1> QED
  BY <1>2, <1>3, <1>4, <1>5, <1>6 DEF ProviderTypes, UserTypes, ThreadTypes, BindingTypes, GhostTypes,
     users, thread, ghosts

LEMMA ContextWaits ==
  ASSUME NEW c \in Contexts, NEW w \in BOOLEAN
  PROVE  [c EXCEPT !.waits = w] \in Contexts /\ [c EXCEPT !.waits = w].waits = w
  BY DEF Contexts

LEMMA ChildAsked ==
  ASSUME NEW c \in Children, NEW s \in Seq(Asks)
  PROVE  /\ [c EXCEPT !.asked = s] \in Children /\ [c EXCEPT !.asked = s].asked = s
         /\ [c EXCEPT !.asked = s].life = c.life
  BY DEF Children

\* The request becomes the one that waits, unless its process is known to have exited.
LEMMA SendRequestTyped ==
  ASSUME ManagerTypes, NEW p \in Processes, NEW method \in Requesting, NEW argument,
         [method |-> method, argument |-> argument] \in Asks,
         SendRequest(p, method, argument), UNCHANGED <<stdout, current>>,
         \A q \in Processes : ~context[q].waits,
         \A q \in Processes : \A i \in DOMAIN stdout[q] : stdout[q][i].type # "response"
  PROVE  /\ ManagerTypes' /\ Responses' /\ answer' \in {None, "error"}
         /\ \A q \in Processes : context'[q].waits => q = p /\ answer' = None
         /\ \A q \in Processes : child'[q].life = child[q].life
<1> DEFINE request == [method |-> method, argument |-> argument]
<1>1. CASE child[p].life = "exited"
  BY <1>1 DEF SendRequest, ManagerTypes, Responses, OneResponse
<1>2. CASE child[p].life # "exited"
  <2>1. /\ answer' = None /\ context' = [context EXCEPT ![p].waits = TRUE]
        /\ \/ child' = child
           \/ child' = [child EXCEPT ![p].asked = Append(@, request)]
    BY <1>2 DEF SendRequest
  <2>2. child[p] \in Children /\ child[p].asked \in Seq(Asks) /\ context[p] \in Contexts
    BY DEF ManagerTypes, Children
  <2>3. Append(child[p].asked, request) \in Seq(Asks)
    BY <2>2
  <2>4. child' \in [Processes -> Children] /\ \A q \in Processes : child'[q].life = child[q].life
    <3> DEFINE asked == Append(child[p].asked, request)
               after == [child[p] EXCEPT !.asked = asked]
    <3>1. child' = child \/ child' = [child EXCEPT ![p] = after]
      BY <2>1
    <3>2. after \in Children /\ after.life = child[p].life
      BY <2>2, <2>3, ChildAsked
    <3> HIDE DEF after
    <3> QED
      BY <3>1, <3>2 DEF ManagerTypes
  <2>5. context' \in [Processes -> Contexts] /\ \A q \in Processes : context'[q].waits => q = p
    BY <2>1, <2>2, ContextWaits DEF ManagerTypes
  <2> QED
    BY <2>1, <2>4, <2>5 DEF ManagerTypes, Responses, OneResponse
<1> QED
  BY <1>1, <1>2

\* The reactor goes on to await the request it sends to the process it deals with.
LEMMA RequestSent ==
  ASSUME ProviderTypes, NEW p \in Processes, NEW method \in Requesting, NEW argument,
         [method |-> method, argument |-> argument] \in Asks,
         SendRequest(p, method, argument), UNCHANGED <<stdout, current>>,
         job.at \notin Requesting \/ answer # None,
         job' \in Jobs, job'.at = method, job'.kind = job.kind, job'.turn = job.turn,
         job'.process = p, method = "turn/start" => job.kind = "turn",
         current \in {None, p}
  PROVE  JobTypes' /\ AnswerTypes' /\ ManagerTypes' /\ Waiting' /\ Responses' /\ Serving'
<1>1. /\ ManagerTypes' /\ Responses' /\ answer' \in {None, "error"}
      /\ \A q \in Processes : context'[q].waits => q = p /\ answer' = None
      /\ \A q \in Processes : child'[q].life = child[q].life
  BY NothingWaits, SendRequestTyped DEF ProviderTypes
<1>2. method \notin {"record", "idle"}
  BY DEF Requesting, Startup
<1>3. JobTypes'
  BY <1>2 DEF ProviderTypes, JobTypes
<1>4. AnswerTypes' /\ Waiting'
  BY <1>1 DEF AnswerTypes, Answers, Waiting
<1>5. Serving'
  BY <1>1 DEF ProviderTypes, Serving, ManagerTypes, Conversations
<1> QED
  BY <1>1, <1>3, <1>4, <1>5

LEMMA ContinueStartTyped ==
  ASSUME ProviderTypes, ContinueStart
  PROVE  ProviderTypes'
<1>1. /\ job.at \in Startup /\ answer # None /\ NextRequest \in Startup
      /\ job' = [job EXCEPT !.at = NextRequest]
      /\ SendRequest(job.process, NextRequest, job.cursor)
      /\ UNCHANGED <<users, thread, stdout, current, binding, runtime, outcome, answered, untold>>
      /\ memory' \in {None, memory}
  BY DEF ContinueStart, GoTo
<1>2. /\ job \in Jobs /\ job.process \in Processes /\ job.at \in Requesting
      /\ NextRequest \in Requesting /\ NextRequest \in Steps
      /\ current \in {None, job.process} /\ job.cursor \in Conversations
  BY <1>1 DEF ProviderTypes, JobTypes, Serving, Requesting, Steps, Jobs
<1>3. /\ job' \in Jobs /\ job'.at = NextRequest /\ job'.kind = job.kind /\ job'.turn = job.turn
      /\ job'.process = job.process
  BY <1>1, <1>2, JobMoves
<1>4. NextRequest # "turn/start"
  BY <1>1 DEF Startup
<1>5. [method |-> NextRequest, argument |-> job.cursor] \in Asks
  BY <1>2, <1>4 DEF Asks
<1>6. UNCHANGED <<stdout, current>>
  BY <1>1
<1>7. JobTypes' /\ AnswerTypes' /\ ManagerTypes' /\ Waiting' /\ Responses' /\ Serving'
  BY <1>1, <1>2, <1>3, <1>4, <1>5, <1>6, RequestSent
<1>8. GhostTypes'
  BY <1>1 DEF ProviderTypes, GhostTypes, Conversations
<1> QED
  BY <1>1, <1>7, <1>8 DEF ProviderTypes, UserTypes, ThreadTypes, BindingTypes, RuntimeTypes,
     users, thread

LEMMA SendsTyped ==
  ASSUME ProviderTypes, SendTurn \/ Interrupt
  PROVE  ProviderTypes'
<1>1. job.at = "operate" /\ job.at \notin Requesting /\ job \in Jobs
      /\ current \in Conversations /\ context \in [Processes -> Contexts]
      /\ (job.kind = "turn" => job.turn \in Turns)
  BY DEF SendTurn, Interrupt, Requesting, Startup, ProviderTypes, JobTypes, ManagerTypes
<1>2. UNCHANGED <<users, thread, stdout, current, binding, runtime, outcome, answered, untold>>
  BY DEF SendTurn, Interrupt, ghosts
<1> DEFINE idle == \A p \in Processes : current = p => context[p].turn = None
<1>3. CASE (SendTurn /\ current = None) \/ (Interrupt /\ idle)
  <2>1. UNCHANGED <<answer, manager, memory>> /\ (job' = [job EXCEPT !.at = "failed"] \/ job' = Idle)
    BY <1>3 DEF SendTurn, Interrupt, GoTo, manager, ghosts
  <2>2. JobTypes' /\ job'.at \notin Requesting /\ job'.at \notin {"bound", "record"}
    <3>1. "failed" \in Calm
      BY DEF Calm
    <3>2. CASE job' = [job EXCEPT !.at = "failed"]
      BY <3>1, <3>2, JobGoesOn DEF ProviderTypes
    <3>3. CASE job' = Idle
      BY <3>3, NoneIsNone DEF JobTypes, Idle, Requesting, Startup
    <3> QED
      BY <2>1, <3>2, <3>3
  <2>3. JobTypes' /\ AnswerTypes' /\ ManagerTypes' /\ Waiting' /\ Responses' /\ Serving'
    BY <1>1, <2>1, <2>2, QuietStep
  <2> QED
    BY <1>2, <2>1, <2>3 DEF ProviderTypes, UserTypes, ThreadTypes, BindingTypes, RuntimeTypes,
       GhostTypes, users, thread
<1>4. CASE (SendTurn /\ current # None) \/ (Interrupt /\ ~idle)
  <2>1. current \in Processes
    BY <1>1, <1>4 DEF SendTurn, Interrupt, Conversations
  <2>2. PICK method \in {"turn/start", "turn/interrupt"}, argument \in SomeTurn :
          /\ job' = [job EXCEPT !.at = method, !.process = current]
          /\ method = "turn/start" => job.kind = "turn" /\ argument \in Turns
          /\ SendRequest(current, method, argument)
    <3>1. CASE SendTurn /\ current # None
      <4>1. /\ job' = [job EXCEPT !.at = "turn/start", !.process = current]
            /\ job.kind = "turn" /\ SendRequest(current, "turn/start", job.turn)
        BY <3>1 DEF SendTurn
      <4>2. job.turn \in Turns /\ job.turn \in SomeTurn
        BY <1>1, <4>1 DEF SomeTurn
      <4> QED
        BY <4>1, <4>2
    <3>2. CASE Interrupt /\ ~idle
      <4>1. /\ job' = [job EXCEPT !.at = "turn/interrupt", !.process = current]
            /\ SendRequest(current, "turn/interrupt", None)
        BY <3>2 DEF Interrupt
      <4> QED
        BY <4>1 DEF SomeTurn
    <3> QED
      BY <1>4, <3>1, <3>2
  <2>3. job' \in Jobs /\ job'.at = method /\ job'.kind = job.kind /\ job'.turn = job.turn
        /\ job'.process = current
    BY <1>1, <2>1, <2>2 DEF Jobs, Steps, Requesting, Conversations
  <2>4. method \in Requesting
    BY DEF Requesting
  <2>5. [method |-> method, argument |-> argument] \in Asks
    BY <2>2, <2>4 DEF Asks
  <2>6. JobTypes' /\ AnswerTypes' /\ ManagerTypes' /\ Waiting' /\ Responses' /\ Serving'
    BY <1>1, <1>2, <2>1, <2>2, <2>3, <2>4, <2>5, RequestSent
  <2>7. memory' \in Conversations
    <3>1. context[current].cursor \in Conversations /\ memory \in Conversations
      BY <1>1, <2>1 DEF Contexts, ProviderTypes, GhostTypes
    <3> QED
      BY <3>1 DEF SendTurn, Interrupt, ghosts
  <2> QED
    BY <1>2, <2>6, <2>7 DEF ProviderTypes, UserTypes, ThreadTypes, BindingTypes, RuntimeTypes,
       GhostTypes, users, thread
<1> QED
  BY <1>3, <1>4

LEMMA SpawnTyped ==
  ASSUME ProviderTypes, Spawn
  PROVE  ProviderTypes'
<1>1. job.at = "start" /\ job.at \notin Requesting /\ job \in Jobs
  BY DEF Spawn, Requesting, Startup, ProviderTypes, JobTypes
<1>2. PICK p \in Processes :
        /\ child' = [child EXCEPT ![p] = [Unborn EXCEPT !.life = "running",
                       !.asked = <<[method |-> "initialize", argument |-> None]>>]]
        /\ context' = [context EXCEPT ![p] = [NoContext EXCEPT !.mode = job.mode, !.waits = TRUE]]
        /\ current' = p
        /\ job' = [job EXCEPT !.at = "initialize", !.process = p,
                     !.cursor = IF job.cursor # None THEN job.cursor ELSE binding.cursor]
  BY DEF Spawn
<1>3. answer' = None /\ runtime' = runtime \o <<Event("starting", None)>>
      /\ UNCHANGED <<users, thread, stdout, binding, ghosts>>
  BY DEF Spawn, Emit
<1>4. job' \in Jobs /\ job'.at = "initialize" /\ job'.process = p /\ job'.kind = job.kind
      /\ job'.turn = job.turn
  <2>1. job.cursor \in Conversations /\ binding.cursor \in Conversations
    BY <1>1 DEF Jobs, ProviderTypes, BindingTypes, Bindings
  <2> QED
    BY <1>1, <1>2, <2>1 DEF Jobs, Steps, Requesting, Startup, Conversations
<1>5. JobTypes' /\ AnswerTypes'
  BY <1>1, <1>3, <1>4 DEF ProviderTypes, JobTypes, AnswerTypes
<1>6. /\ \A q \in Processes : ~context[q].waits
      /\ \A q \in Processes : \A i \in DOMAIN stdout[q] : stdout[q][i].type # "response"
  BY <1>1, NothingWaits
<1>7. child' \in [Processes -> Children] /\ child'[p].life = "running"
  <2>1. [method |-> "initialize", argument |-> None] \in Asks
    BY DEF Asks, SomeTurn, Requesting, Startup
  <2>2. <<[method |-> "initialize", argument |-> None]>> \in Seq(Asks)
    BY <2>1
  <2>3. [Unborn EXCEPT !.life = "running", !.asked = <<[method |-> "initialize", argument |-> None]>>]
          \in {c \in Children : c.life = "running"}
    BY <2>2 DEF Unborn, Children, SomeTurn, Conversations
  <2> QED
    BY <1>2, <2>3 DEF ProviderTypes, ManagerTypes
<1>8. context' \in [Processes -> Contexts] /\ \A q \in Processes : context'[q].waits => q = p
  <2>1. job.mode \in Modes
    BY <1>1 DEF Jobs
  <2>2. [NoContext EXCEPT !.mode = job.mode, !.waits = TRUE] \in Contexts
    BY <2>1 DEF NoContext, Contexts, SomeTurn, Conversations
  <2> QED
    BY <1>2, <1>6, <2>2 DEF ProviderTypes, ManagerTypes
<1>9. ManagerTypes' /\ Responses'
  BY <1>2, <1>3, <1>6, <1>7, <1>8 DEF ProviderTypes, ManagerTypes, Responses, OneResponse, Conversations
<1>10. Waiting' /\ Serving'
  BY <1>2, <1>3, <1>4, <1>7, <1>8 DEF Waiting, Serving, Requesting, Startup
<1>11. RuntimeTypes'
  <2>1. <<Event("starting", None)>> \in Seq(Events)
    BY DEF Event, Events, TurnEventTypes, SomeTurn
  <2> QED
    BY <1>3, <2>1, ConcatTyped DEF ProviderTypes, RuntimeTypes
<1> QED
  BY <1>3, <1>5, <1>9, <1>10, <1>11 DEF ProviderTypes, UserTypes, ThreadTypes, BindingTypes, GhostTypes,
     users, thread, ghosts

LEMMA SpawnFailsTyped ==
  ASSUME ProviderTypes, SpawnFails
  PROVE  ProviderTypes'
<1>1. /\ job.at = "start" /\ job.at \notin Requesting /\ job' = [job EXCEPT !.at = "failed"]
      /\ runtime' = runtime \o <<Event("error", None)>>
      /\ UNCHANGED <<users, answer, thread, manager, binding, ghosts>>
  BY DEF SpawnFails, GoTo, Emit, Requesting, Startup
<1>2. JobTypes' /\ job'.at \notin Requesting /\ job'.at \notin {"bound", "record"}
  <2>1. "failed" \in Calm
    BY DEF Calm
  <2> QED
    BY <1>1, <2>1, JobGoesOn DEF ProviderTypes
<1>3. JobTypes' /\ AnswerTypes' /\ ManagerTypes' /\ Waiting' /\ Responses' /\ Serving'
  BY <1>1, <1>2, QuietStep
<1>4. RuntimeTypes'
  <2>1. <<Event("error", None)>> \in Seq(Events)
    BY DEF Event, Events, TurnEventTypes, SomeTurn
  <2> QED
    BY <1>1, <2>1, ConcatTyped DEF ProviderTypes, RuntimeTypes
<1> QED
  BY <1>1, <1>3, <1>4 DEF ProviderTypes, UserTypes, ThreadTypes, BindingTypes, GhostTypes,
     users, thread, ghosts

\* The answer is taken: nothing waits, and the context of the process may learn from it.
LEMMA AnswerTaken ==
  ASSUME ProviderTypes, job.at \in Requesting, answer # None, answer' = None,
         job' \in Jobs, job'.kind = job.kind, job'.turn = job.turn, job'.process = job.process,
         job'.at \in Steps \ (Requesting \cup {"idle"}),
         job'.at = "record" => job.kind = "turn",
         UNCHANGED <<child, stdout, current>>, context' \in [Processes -> Contexts],
         \A p \in Processes : context'[p].waits = context[p].waits
  PROVE  JobTypes' /\ AnswerTypes' /\ ManagerTypes' /\ Waiting' /\ Responses' /\ Serving'
<1>1. \A p \in Processes : ~context'[p].waits /\ \A i \in DOMAIN stdout[p] : stdout[p][i].type # "response"
  BY NothingWaits
<1>2. job.process \in Processes /\ current \in {None, job.process}
  BY DEF ProviderTypes, JobTypes, Serving
<1>3. JobTypes' /\ AnswerTypes'
  BY <1>2 DEF ProviderTypes, JobTypes, AnswerTypes, Requesting
<1> QED
  BY <1>1, <1>2, <1>3 DEF ProviderTypes, ManagerTypes, Waiting, Responses, OneResponse, Serving

LEMMA AnswersTyped ==
  ASSUME ProviderTypes, SessionReady \/ TurnAccepted \/ TurnRefused
  PROVE  ProviderTypes'
<1>1. /\ job.at \in Requesting /\ answer # None /\ answer' = None
      /\ UNCHANGED <<users, thread, child, stdout, current, binding, ghosts>>
      /\ \/ runtime' = runtime
         \/ runtime' = runtime \o <<Event("ready", None)>>
      /\ \/ SessionReady /\ job' = [job EXCEPT !.at = "bound"]
         \/ TurnAccepted /\ job' = [job EXCEPT !.at = "record"] /\ job.at = "turn/start"
         \/ job' = [job EXCEPT !.at = "failed"] /\ UNCHANGED manager
  <2>1. CASE SessionReady
    BY <2>1 DEF SessionReady, GoTo, Emit, Requesting
  <2>2. CASE TurnAccepted
    BY <2>2, NoneIsNone DEF TurnAccepted, GoTo, Requesting, Answers
  <2>3. CASE TurnRefused
    BY <2>3 DEF TurnRefused, GoTo, Requesting, manager
  <2> QED
    BY <2>1, <2>2, <2>3
<1>2. /\ job \in Jobs /\ job.process \in Processes /\ context \in [Processes -> Contexts]
      /\ child \in [Processes -> Children]
      /\ job.at = "turn/start" => job.kind = "turn" /\ job.turn \in Turns
  BY <1>1 DEF ProviderTypes, JobTypes, ManagerTypes
<1>3. /\ job' \in Jobs /\ job'.kind = job.kind /\ job'.turn = job.turn /\ job'.process = job.process
      /\ job'.at \in Steps \ (Requesting \cup {"idle"}) /\ (job'.at = "record" => job.kind = "turn")
  <2>1. PICK a \in {"bound", "record", "failed"} :
          job' = [job EXCEPT !.at = a] /\ (a = "record" => job.at = "turn/start")
    BY <1>1
  <2>2. a \in Steps \ (Requesting \cup {"idle"})
    BY DEF Steps, Requesting, Startup
  <2> QED
    BY <1>2, <2>1, <2>2, JobMoves
<1>4. context' \in [Processes -> Contexts] /\ \A p \in Processes : context'[p].waits = context[p].waits
  <2> DEFINE p == job.process
  <2>1. \A c \in Contexts, v \in Conversations :
          [c EXCEPT !.cursor = v] \in Contexts /\ [c EXCEPT !.cursor = v].waits = c.waits
    BY DEF Contexts
  <2>2. \A c \in Contexts, v \in SomeTurn :
          [c EXCEPT !.turn = v] \in Contexts /\ [c EXCEPT !.turn = v].waits = c.waits
    BY DEF Contexts
  <2>3. CASE SessionReady
    <3>1. child[p].conversation \in Conversations
      BY <1>2 DEF Children
    <3>2. context' = [context EXCEPT ![p] = [context[p] EXCEPT !.cursor = child[p].conversation]]
      BY <2>3 DEF SessionReady
    <3> QED
      BY <1>2, <2>1, <3>1, <3>2
  <2>4. CASE TurnAccepted
    <3>1. job.turn \in SomeTurn
      BY <1>2 DEF Jobs
    <3>2. context' = [context EXCEPT ![p] = [context[p] EXCEPT !.turn = job.turn]]
      BY <2>4 DEF TurnAccepted
    <3> QED
      BY <1>2, <2>2, <3>1, <3>2
  <2>5. CASE UNCHANGED manager
    BY <1>2, <2>5 DEF manager
  <2> QED
    BY <1>1, <2>3, <2>4, <2>5
<1>5. JobTypes' /\ AnswerTypes' /\ ManagerTypes' /\ Waiting' /\ Responses' /\ Serving'
  BY <1>1, <1>3, <1>4, AnswerTaken
<1>6. RuntimeTypes'
  <2>1. <<Event("ready", None)>> \in Seq(Events)
    BY DEF Event, Events, TurnEventTypes, SomeTurn
  <2> QED
    BY <1>1, <2>1, ConcatTyped DEF ProviderTypes, RuntimeTypes
<1> QED
  BY <1>1, <1>5, <1>6 DEF ProviderTypes, UserTypes, ThreadTypes, BindingTypes, GhostTypes,
     users, thread, ghosts

LEMMA InterruptAnsweredTyped ==
  ASSUME ProviderTypes, InterruptAnswered
  PROVE  ProviderTypes'
<1>1. /\ job.at \in Requesting /\ answer # None /\ answer' = None /\ job' = Idle
      /\ UNCHANGED <<users, thread, child, context, stdout, current, binding, runtime, ghosts>>
  BY DEF InterruptAnswered, Requesting, manager
<1>2. \A p \in Processes : ~context[p].waits
  BY <1>1, NothingWaits
<1>3. JobTypes' /\ AnswerTypes' /\ Waiting' /\ Serving'
  BY <1>1, <1>2, NoneIsNone DEF ProviderTypes, JobTypes, AnswerTypes, Waiting, Serving, Idle, Requesting, Startup
<1> QED
  BY <1>1, <1>3 DEF ProviderTypes, UserTypes, ThreadTypes, ManagerTypes, BindingTypes, RuntimeTypes,
     GhostTypes, Responses, OneResponse, users, thread, ghosts

LEMMA BindingStepsTyped ==
  ASSUME ProviderTypes, UpsertBinding \/ RecordTurn
  PROVE  ProviderTypes'
<1>1. /\ job.at \in {"bound", "record"} /\ job.at \notin Requesting
      /\ job' = Idle \/ \E a \in {"operate", "show"} : job' = [job EXCEPT !.at = a]
      /\ UNCHANGED <<users, answer, thread, manager, runtime, answered, memory>>
  BY DEF UpsertBinding, RecordTurn, GoTo, Requesting, Startup, ghosts
<1>2. /\ job \in Jobs /\ job.process \in Processes /\ context \in [Processes -> Contexts]
      /\ binding \in Bindings /\ (binding = NoBinding \/ binding.mode \in Modes)
  BY <1>1 DEF ProviderTypes, JobTypes, ManagerTypes, BindingTypes
<1>3. BindingTypes'
  <2>1. PICK m \in Modes : binding' = Upsert(context[job.process].cursor, m)
    <3>1. job.mode \in Modes /\ "full-access" \in Modes
      BY <1>2 DEF Jobs, Modes
    <3> QED
      BY <1>2, <3>1 DEF UpsertBinding, RecordTurn
  <2>2. binding' \in Bindings /\ binding'.mode = m
    BY <1>2, <2>1 DEF Upsert, Bindings, Contexts
  <2> QED
    BY <2>2 DEF BindingTypes
<1>4. GhostTypes'
  <2>1. job.at = "record" => job.turn \in Turns
    BY DEF ProviderTypes, JobTypes
  <2> QED
    BY <1>1, <2>1 DEF ProviderTypes, GhostTypes, UpsertBinding, RecordTurn, ghosts
<1>5. JobTypes' /\ job'.at \notin Requesting /\ job'.at \notin {"bound", "record"}
  <2>1. CASE job' = Idle
    BY <2>1, NoneIsNone DEF JobTypes, Idle, Requesting, Startup
  <2>2. CASE \E a \in {"operate", "show"} : job' = [job EXCEPT !.at = a]
    <3>1. PICK a \in {"operate", "show"} : job' = [job EXCEPT !.at = a]
      BY <2>2
    <3>2. a \in Calm
      BY DEF Calm
    <3> QED
      BY <3>1, <3>2, JobGoesOn DEF ProviderTypes
  <2> QED
    BY <1>1, <2>1, <2>2
<1>6. JobTypes' /\ AnswerTypes' /\ ManagerTypes' /\ Waiting' /\ Responses' /\ Serving'
  BY <1>1, <1>5, QuietStep
<1> QED
  BY <1>1, <1>3, <1>4, <1>6 DEF ProviderTypes, UserTypes, ThreadTypes, RuntimeTypes, users, thread

LEMMA RespondTyped ==
  ASSUME ProviderTypes, RespondToRequest
  PROVE  ProviderTypes'
<1>1. /\ job.at \notin Requesting /\ job' = Idle /\ (job.kind = "answer" => job.turn \in Turns) /\ job.kind = "answer"
      /\ UNCHANGED <<users, answer, thread, stdout, current, binding, runtime, outcome, memory, untold>>
  BY DEF RespondToRequest, Requesting, Startup, ProviderTypes, JobTypes
<1>2. JobTypes' /\ job'.at \notin Requesting /\ job'.at \notin {"bound", "record"}
  BY <1>1, NoneIsNone DEF JobTypes, Idle, Requesting, Startup
<1>3. CASE UNCHANGED <<context, answered, child>>
  <2>1. JobTypes' /\ AnswerTypes' /\ ManagerTypes' /\ Waiting' /\ Responses' /\ Serving'
    BY <1>1, <1>2, <1>3, QuietStep DEF manager
  <2> QED
    BY <1>1, <1>3, <2>1 DEF ProviderTypes, UserTypes, ThreadTypes, BindingTypes, RuntimeTypes, GhostTypes,
       users, thread
<1>4. CASE ~UNCHANGED <<context, answered, child>>
  <2>1. /\ current # None /\ current \in Processes
        /\ context' = Settle(current, job.turn)
        /\ answered' = [answered EXCEPT ![job.turn] = @ + 1]
        /\ child' = child \/ child' = [child EXCEPT ![current].asking = FALSE]
    BY <1>4 DEF RespondToRequest, ProviderTypes, ManagerTypes, Conversations
  <2>2. child \in [Processes -> Children] /\ context \in [Processes -> Contexts]
    BY DEF ProviderTypes, ManagerTypes
  <2>3. /\ child' \in [Processes -> Children]
        /\ \A p \in Processes : child'[p].life = child[p].life /\ child'[p].asked = child[p].asked
    <3>1. \A c \in Children : LET d == [c EXCEPT !.asking = FALSE] IN
            d \in Children /\ d.life = c.life /\ d.asked = c.asked
      BY DEF Children
    <3>2. CASE child' = child
      BY <2>2, <3>2
    <3>3. CASE child' = [child EXCEPT ![current].asking = FALSE]
      BY <2>1, <2>2, <3>1, <3>3
    <3> QED
      BY <2>1, <3>2, <3>3
  <2>4. context' \in [Processes -> Contexts] /\ \A p \in Processes : context'[p].waits = context[p].waits
    <3>1. \A c \in Contexts : LET d == [c EXCEPT !.approvals = @ \ {job.turn}] IN
            d \in Contexts /\ d.waits = c.waits
      BY DEF Contexts
    <3> QED
      BY <2>1, <2>2, <3>1 DEF Settle
  <2>5. GhostTypes'
    BY <1>1, <2>1 DEF ProviderTypes, GhostTypes
  <2>6. ManagerTypes' /\ AnswerTypes' /\ Waiting' /\ Responses' /\ Serving'
    <3>1. /\ answer = None /\ \A p \in Processes : ~context[p].waits
          /\ \A p \in Processes : \A i \in DOMAIN stdout[p] : stdout[p][i].type # "response"
      BY <1>1, NothingWaits
    <3>2. ManagerTypes' /\ AnswerTypes' /\ Waiting'
      BY <1>1, <2>3, <2>4, <3>1 DEF ProviderTypes, ManagerTypes, AnswerTypes, Waiting
    <3>3. Responses'
      BY <1>1, <3>1 DEF Responses, OneResponse
    <3>4. Serving'
      BY <1>1, <1>2, <2>1, <2>3 DEF ProviderTypes, Serving
    <3> QED
      BY <3>2, <3>3, <3>4
  <2> QED
    BY <1>1, <1>2, <2>5, <2>6 DEF ProviderTypes, UserTypes, ThreadTypes, BindingTypes, RuntimeTypes,
       users, thread
<1> QED
  BY <1>3, <1>4

LEMMA WritesTyped ==
  ASSUME ProviderTypes, NEW p \in Processes, NEW lines \in Seq(Lines), NEW after \in Children,
         Writes(p, lines, after), Runs(p), after.life \in {"running", "dead"},
         child[p].asked = <<>> => after.asked = <<>>,
         \A i \in DOMAIN lines : lines[i].type = "response" =>
           context[p].waits /\ after.asked = <<>> /\ child[p].asked # <<>>,
         \A i, j \in DOMAIN lines : lines[i].type = "response" /\ lines[j].type = "response" => i = j
  PROVE  ProviderTypes'
<1>1. /\ stdout' = [stdout EXCEPT ![p] = stdout[p] \o lines]
      /\ child' = [child EXCEPT ![p] = after]
      /\ UNCHANGED <<users, thread, job, answer, context, current, binding, runtime, ghosts>>
  BY DEF Writes, reactor
<1>2. stdout \in [Processes -> Seq(Lines)] /\ child \in [Processes -> Children]
  BY DEF ProviderTypes, ManagerTypes
<1>3. stdout[p] \o lines \in Seq(Lines)
  BY <1>2
<1>4. ManagerTypes'
  BY <1>1, <1>2, <1>3 DEF ProviderTypes, ManagerTypes
<1>5. ASSUME NEW q \in Processes PROVE OneResponse(q)'
  <2>1. CASE q # p
    BY <1>1, <1>2, <2>1 DEF ProviderTypes, Responses, OneResponse
  <2>2. CASE q = p
    <3> DEFINE all == stdout[p] \o lines
    <3>1. OneResponse(p)
      BY DEF ProviderTypes, Responses
    <3>2. \A i \in DOMAIN all :
            \/ i \in DOMAIN stdout[p] /\ all[i] = stdout[p][i]
            \/ i \notin DOMAIN stdout[p] /\ i - Len(stdout[p]) \in DOMAIN lines
               /\ all[i] = lines[i - Len(stdout[p])]
      BY <1>2, ConcatTyped
    <3>3. stdout'[p] = all /\ child'[p] = after /\ context'[p] = context[p]
      BY <1>1, <1>2
    <3>4. \A i \in DOMAIN all : i \in Nat /\ Len(stdout[p]) \in Nat
      BY <1>2, <1>3
    <3> HIDE DEF all
    <3>5. \A i \in DOMAIN all : all[i].type = "response" => context[p].waits /\ after.asked = <<>>
      BY <3>1, <3>2 DEF OneResponse
    <3>6. ASSUME NEW i \in DOMAIN all, NEW j \in DOMAIN all,
                 all[i].type = "response", all[j].type = "response"
          PROVE  i = j
      <4>1. CASE i \in DOMAIN stdout[p] /\ j \in DOMAIN stdout[p]
        BY <3>1, <3>2, <3>6, <4>1 DEF OneResponse
      <4>2. CASE i \notin DOMAIN stdout[p] /\ j \notin DOMAIN stdout[p]
        <5>1. i - Len(stdout[p]) = j - Len(stdout[p])
          BY <3>2, <3>6, <4>2
        <5> QED
          BY <3>4, <5>1
      <4>3. CASE (i \in DOMAIN stdout[p]) # (j \in DOMAIN stdout[p])
        BY <3>1, <3>2, <3>6, <4>3 DEF OneResponse
      <4> QED
        BY <4>1, <4>2, <4>3
    <3> QED
      BY <2>2, <3>3, <3>5, <3>6 DEF OneResponse
  <2> QED
    BY <2>1, <2>2
<1>6. Serving'
  BY <1>1, <1>2 DEF ProviderTypes, Serving
<1> QED
  BY <1>1, <1>4, <1>5, <1>6 DEF ProviderTypes, UserTypes, ThreadTypes, JobTypes, AnswerTypes, BindingTypes,
     RuntimeTypes, GhostTypes, Waiting, Responses, users, thread, ghosts

LEMMA ResponseTyped ==
  ASSUME NEW p, NEW result \in Answers
  PROVE  /\ Response(p, result) \in Seq(Lines)
         /\ \A i \in DOMAIN Response(p, result) :
              /\ i = 1 /\ Len(child[p].asked) = 1 /\ context[p].waits
              /\ Response(p, result)[i] = [type |-> "response", turn |-> None, result |-> result]
<1>1. [type |-> "response", turn |-> None, result |-> result] \in Lines
  BY DEF Lines, SomeTurn
<1> QED
  BY <1>1 DEF Response

LEMMA LineTyped ==
  ASSUME NEW type \in TurnEventTypes, NEW t \in Turns
  PROVE  Line(type, t) \in Lines /\ Line(type, t).type = type /\ Line(type, t).turn = t
         /\ Line(type, t).result = "none" /\ type # "response"
  BY DEF Line, Lines, SomeTurn, TurnEventTypes

\* What an app-server does in one step.
LEMMA AppServerWrites ==
  ASSUME ProviderTypes, NEW p \in Processes, AppServer(p)
  PROVE  /\ Runs(p)
         /\ \E lines \in Seq(Lines), after \in Children :
              /\ Writes(p, lines, after)
              /\ after.life \in {"running", "dead"}
              /\ after.asked \in {child[p].asked, Tail(child[p].asked), <<>>}
              /\ child[p].asked = <<>> => after.asked = <<>>
              /\ \A i \in DOMAIN lines : lines[i].type = "response" =>
                   context[p].waits /\ after.asked = <<>> /\ Len(child[p].asked) = 1
              /\ \A i, j \in DOMAIN lines :
                   lines[i].type = "response" /\ lines[j].type = "response" => i = j
<1> DEFINE c == child[p]
           Fits(lines, after) ==
             /\ after.life \in {"running", "dead"}
             /\ after.asked \in {c.asked, Tail(c.asked), <<>>}
             /\ c.asked = <<>> => after.asked = <<>>
             /\ \A i \in DOMAIN lines : lines[i].type = "response" =>
                  context[p].waits /\ after.asked = <<>> /\ Len(c.asked) = 1
             /\ \A i, j \in DOMAIN lines :
                  lines[i].type = "response" /\ lines[j].type = "response" => i = j
<1>1. c \in Children /\ c.asked \in Seq(Asks)
  BY DEF ProviderTypes, ManagerTypes, Children
<1>2. Runs(p) /\ c.life = "running"
  BY DEF AppServer, Accepts, Refuses, BeginsTurn, HeedsInterrupt, AsksForApproval, EndsTurn, Dies, Handles, Runs
<1>3. \A r \in Answers : /\ Response(p, r) \in Seq(Lines)
                         /\ \A i \in DOMAIN Response(p, r) :
                              i = 1 /\ Len(c.asked) = 1 /\ context[p].waits
  BY ResponseTyped
<1>4. c.asked # <<>> =>
        /\ Done(p) \in Children /\ Done(p).life = "running" /\ Done(p).asked = Tail(c.asked)
        /\ Head(c.asked) \in Asks /\ (Len(c.asked) = 1 => Done(p).asked = <<>>)
  BY <1>1, <1>2 DEF Done, Children
<1>5. \A lines, after : after \in Children /\ lines \in Seq(Lines) /\ Writes(p, lines, after) /\ Fits(lines, after)
        => \E l \in Seq(Lines), a \in Children : Writes(p, l, a) /\ Fits(l, a)
  OBVIOUS
<1> HIDE DEF Fits
<1>6. "ok" \in Answers /\ "error" \in Answers /\ "not found" \in Answers
  BY DEF Answers
\* an answer, and the conversation it may begin
<1>7. ASSUME c.asked # <<>>, NEW r \in Answers, NEW after \in Children, after.life = "running",
             after.asked = Tail(c.asked)
      PROVE  Fits(Response(p, r), after)
  BY <1>1, <1>3, <1>4, <1>7 DEF Fits
<1>8. CASE Accepts(p)
  <2>1. c.asked # <<>>
    BY <1>8 DEF Accepts, Handles
  <2>2. ASSUME NEW v \in Conversations
        PROVE  LET d == [Done(p) EXCEPT !.conversation = v] IN
               d \in Children /\ d.life = "running" /\ d.asked = Tail(c.asked)
    BY <1>4, <2>1 DEF Children
  <2>3. Handles(p, "thread/resume") => Argument(p) \in Conversations
    BY <1>4, <2>1 DEF Handles, Argument, Asks
  <2>4. \E after \in Children : Writes(p, Response(p, "ok"), after) /\ after.life = "running"
          /\ after.asked = Tail(c.asked)
    <3>1. CASE Writes(p, Response(p, "ok"), Done(p))
      BY <1>4, <2>1, <3>1
    <3>2. CASE Writes(p, Response(p, "ok"), [Done(p) EXCEPT !.conversation = p])
      <4>1. p \in Conversations
        BY DEF Conversations
      <4> QED
        BY <2>2, <3>2, <4>1
    <3>3. CASE Handles(p, "thread/resume")
               /\ Writes(p, Response(p, "ok"), [Done(p) EXCEPT !.conversation = Argument(p)])
      BY <2>2, <2>3, <3>3
    <3> QED
      BY <1>8, <3>1, <3>2, <3>3 DEF Accepts
  <2> QED
    BY <1>2, <1>3, <1>5, <1>6, <1>7, <2>1, <2>4 DEF Fits
<1>9. CASE Refuses(p)
  <2>1. c.asked # <<>>
    BY <1>9 DEF Refuses
  <2>2. \E r \in Answers : Writes(p, Response(p, r), Done(p))
    BY <1>6, <1>9 DEF Refuses
  <2> QED
    BY <1>2, <1>3, <1>4, <1>5, <1>7, <2>1, <2>2 DEF Fits
<1>10. CASE BeginsTurn(p)
  <2> DEFINE started == <<Line("turnStarted", Argument(p))>>
             after == [Done(p) EXCEPT !.turn = Argument(p), !.mayAsk = TRUE]
             answers == Response(p, "ok")
  <2>1. c.asked # <<>> /\ Argument(p) \in Turns
    <3>1. c.asked # <<>> /\ Head(c.asked).method = "turn/start"
      BY <1>10 DEF BeginsTurn, Handles
    <3> QED
      BY <1>4, <3>1 DEF Argument, Asks
  <2>2. after \in Children /\ after.life = "running" /\ after.asked = Tail(c.asked)
    BY <1>4, <2>1 DEF Children, SomeTurn
  <2>3. started \in Seq(Lines) /\ \A i \in DOMAIN started : started[i].type # "response"
    <3>1. Line("turnStarted", Argument(p)) \in Lines /\ Line("turnStarted", Argument(p)).type = "turnStarted"
      BY <2>1, LineTyped DEF TurnEventTypes
    <3> QED
      BY <3>1
  <2>4. answers \in Seq(Lines) /\ \A i \in DOMAIN answers : i = 1 /\ Len(c.asked) = 1 /\ context[p].waits
    BY <1>3, <1>6
  <2>5. Writes(p, started \o answers, after) \/ Writes(p, answers \o started, after)
    BY <1>10 DEF BeginsTurn
  <2> HIDE DEF started, after, answers
  <2>6. Len(c.asked) = 1 => Tail(c.asked) = <<>>
    BY <1>1, OneLeft
  <2>7. Fits(started \o answers, after)
    <3>1. started \o answers \in Seq(Lines) /\ answers \o started \in Seq(Lines)
      BY <2>3, <2>4
    <3>2. \A i \in DOMAIN (started \o answers) : (started \o answers)[i].type = "response" =>
            i = Len(started) + 1 /\ DOMAIN answers # {}
      <4>1. \A i \in DOMAIN (started \o answers) :
              \/ i \in DOMAIN started /\ (started \o answers)[i] = started[i]
              \/ i - Len(started) \in DOMAIN answers
        BY <2>3, <2>4, ConcatTyped
      <4>2. \A i \in DOMAIN (started \o answers) : i \in Nat /\ Len(started) \in Nat
        BY <2>3, <3>1
      <4> QED
        BY <2>3, <2>4, <4>1, <4>2
    <3> QED
      BY <2>1, <2>2, <2>4, <2>6, <3>2 DEF Fits
  <2>8. Fits(answers \o started, after)
    <3>1. answers \o started \in Seq(Lines)
      BY <2>3, <2>4
    <3>2. \A i \in DOMAIN (answers \o started) : (answers \o started)[i].type = "response" =>
            i = 1 /\ DOMAIN answers # {}
      <4>1. \A i \in DOMAIN (answers \o started) :
              \/ i \in DOMAIN answers /\ (answers \o started)[i] = answers[i]
              \/ i - Len(answers) \in DOMAIN started /\ (answers \o started)[i] = started[i - Len(answers)]
        BY <2>3, <2>4, ConcatTyped
      <4> QED
        BY <2>3, <2>4, <4>1
    <3> QED
      BY <2>1, <2>2, <2>4, <2>6, <3>2 DEF Fits
  <2>9. started \o answers \in Seq(Lines) /\ answers \o started \in Seq(Lines)
    BY <2>3, <2>4
  <2> QED
    BY <1>2, <2>2, <2>5, <2>7, <2>8, <2>9 DEF Fits
<1>11. CASE HeedsInterrupt(p)
  <2> DEFINE end == IF c.turn = None THEN <<>> ELSE EndOfTurn(p)
             after == [Done(p) EXCEPT !.turn = None, !.asking = FALSE]
             answers == Response(p, "ok")
  <2>1. c.asked # <<>>
    BY <1>11 DEF HeedsInterrupt, Handles
  <2>2. after \in Children /\ after.life = "running" /\ after.asked = Tail(c.asked)
    BY <1>4, <2>1 DEF Children, SomeTurn
  <2>3. end \in Seq(Lines) /\ \A i \in DOMAIN end : end[i].type # "response"
    <3>1. CASE c.turn # None
      <4>1. c.turn \in Turns
        BY <1>1, <3>1 DEF Children, SomeTurn
      <4>2. Line("turnCompleted", c.turn) \in Lines /\ Line("turnCompleted", c.turn).type = "turnCompleted"
        BY <4>1, LineTyped DEF TurnEventTypes
      <4> QED
        BY <3>1, <4>2 DEF EndOfTurn
    <3>2. CASE c.turn = None
      BY <3>2
    <3> QED
      BY <3>1, <3>2
  <2>4. answers \in Seq(Lines) /\ \A i \in DOMAIN answers : i = 1 /\ Len(c.asked) = 1 /\ context[p].waits
    BY <1>3, <1>6
  <2>5. Writes(p, answers \o end, after)
    BY <1>11 DEF HeedsInterrupt
  <2> HIDE DEF end, after, answers
  <2>6. Len(c.asked) = 1 => Tail(c.asked) = <<>>
    BY <1>1, OneLeft
  <2>7. answers \o end \in Seq(Lines)
    BY <2>3, <2>4
  <2>8. \A i \in DOMAIN (answers \o end) : (answers \o end)[i].type = "response" =>
          i = 1 /\ DOMAIN answers # {}
    <3>1. \A i \in DOMAIN (answers \o end) :
            \/ i \in DOMAIN answers /\ (answers \o end)[i] = answers[i]
            \/ i - Len(answers) \in DOMAIN end /\ (answers \o end)[i] = end[i - Len(answers)]
      BY <2>3, <2>4, ConcatTyped
    <3> QED
      BY <2>3, <2>4, <3>1
  <2>9. Fits(answers \o end, after)
    BY <2>1, <2>2, <2>4, <2>6, <2>8 DEF Fits
  <2> QED
    BY <1>2, <2>2, <2>5, <2>7, <2>9 DEF Fits
<1>12. CASE AsksForApproval(p) \/ EndsTurn(p)
  <2>1. c.turn # None /\ c.turn \in Turns
    BY <1>1, <1>12 DEF AsksForApproval, EndsTurn, Children, SomeTurn
  <2>2. PICK type \in {"approval", "turnCompleted"}, after \in Children :
          Writes(p, <<Line(type, c.turn)>>, after) /\ after.life = "running" /\ after.asked = c.asked
    <3>1. CASE AsksForApproval(p)
      <4> DEFINE after == [c EXCEPT !.asking = TRUE, !.mayAsk = FALSE]
      <4>1. after \in Children /\ after.life = "running" /\ after.asked = c.asked
        BY <1>1, <1>2 DEF Children
      <4> QED
        BY <3>1, <4>1 DEF AsksForApproval
    <3>2. CASE EndsTurn(p)
      <4> DEFINE after == [c EXCEPT !.turn = None]
      <4>1. after \in Children /\ after.life = "running" /\ after.asked = c.asked
        BY <1>1, <1>2 DEF Children, SomeTurn
      <4> QED
        BY <3>2, <4>1 DEF EndsTurn, EndOfTurn
    <3> QED
      BY <1>12, <3>1, <3>2
  <2>3. <<Line(type, c.turn)>> \in Seq(Lines)
        /\ \A i \in DOMAIN <<Line(type, c.turn)>> : <<Line(type, c.turn)>>[i].type # "response"
    <3>1. Line(type, c.turn) \in Lines /\ Line(type, c.turn).type = type
      BY <2>1, LineTyped DEF TurnEventTypes
    <3> QED
      BY <3>1
  <2>4. Fits(<<Line(type, c.turn)>>, after)
    BY <2>2, <2>3 DEF Fits
  <2> QED
    BY <1>2, <2>2, <2>3, <2>4 DEF Fits
<1>13. CASE Dies(p)
  <2> DEFINE after == [Unborn EXCEPT !.life = "dead", !.conversation = c.conversation]
  <2>1. after \in Children /\ after.life = "dead" /\ after.asked = <<>>
    <3>1. c.conversation \in Conversations /\ <<>> \in Seq(Asks)
      BY <1>1 DEF Children
    <3> QED
      BY <3>1 DEF Unborn, Children, SomeTurn
  <2>2. Writes(p, <<>>, after) /\ <<>> \in Seq(Lines)
    BY <1>13 DEF Dies
  <2> HIDE DEF after
  <2>3. Fits(<<>>, after)
    BY <2>1 DEF Fits
  <2> QED
    BY <1>2, <2>1, <2>2, <2>3 DEF Fits
<1> QED
  BY <1>8, <1>9, <1>10, <1>11, <1>12, <1>13 DEF AppServer

LEMMA AppServerTyped ==
  ASSUME ProviderTypes, NEW p \in Processes, AppServer(p)
  PROVE  ProviderTypes'
<1>1. Runs(p) /\ child[p].asked \in Seq(Asks)
  BY AppServerWrites DEF ProviderTypes, ManagerTypes, Children
<1>2. PICK lines \in Seq(Lines), after \in Children :
        /\ Writes(p, lines, after)
        /\ after.life \in {"running", "dead"}
        /\ child[p].asked = <<>> => after.asked = <<>>
        /\ \A i \in DOMAIN lines : lines[i].type = "response" =>
             context[p].waits /\ after.asked = <<>> /\ Len(child[p].asked) = 1
        /\ \A i, j \in DOMAIN lines : lines[i].type = "response" /\ lines[j].type = "response" => i = j
  BY AppServerWrites
<1>3. Len(child[p].asked) = 1 => child[p].asked # <<>>
  BY <1>1, OneLeft
<1> QED
  BY <1>1, <1>2, <1>3, WritesTyped

LEMMA TimeoutTyped ==
  ASSUME ProviderTypes, NEW p \in Processes, RequestTimesOut(p)
  PROVE  ProviderTypes'
<1>1. /\ context[p].waits /\ answer = None /\ answer' = "error"
      /\ context' = [context EXCEPT ![p].waits = FALSE]
      /\ stdout' = [stdout EXCEPT ![p] = WithoutResponse(stdout[p])]
      /\ UNCHANGED <<users, thread, job, child, current, binding, runtime, ghosts>>
  BY DEF RequestTimesOut
<1>2. /\ stdout \in [Processes -> Seq(Lines)] /\ context \in [Processes -> Contexts]
      /\ job.process = p /\ job.at \in Requesting
  BY <1>1 DEF ProviderTypes, ManagerTypes, Waiting
<1>3. WithoutResponse(stdout[p]) \in Seq(Lines)
      /\ \A i \in DOMAIN WithoutResponse(stdout[p]) : WithoutResponse(stdout[p])[i].type # "response"
  <2>1. \A i, j \in DOMAIN stdout[p] :
          stdout[p][i].type = "response" /\ stdout[p][j].type = "response" => i = j
    BY DEF ProviderTypes, Responses, OneResponse
  <2> QED
    BY <1>2, <2>1, WithoutResponseTyped
<1>4. context' \in [Processes -> Contexts] /\ \A q \in Processes : ~context'[q].waits
  <2>1. \A q \in Processes : context[q].waits => q = p
    BY <1>2 DEF ProviderTypes, Waiting
  <2> DEFINE after == [context[p] EXCEPT !.waits = FALSE]
  <2>2. after \in Contexts /\ ~after.waits
    BY <1>2, ContextWaits
  <2>3. context' = [context EXCEPT ![p] = after]
    BY <1>1
  <2> HIDE DEF after
  <2> QED
    BY <1>2, <2>1, <2>2, <2>3
<1>5. ManagerTypes' /\ Waiting'
  BY <1>1, <1>2, <1>3, <1>4 DEF ProviderTypes, ManagerTypes, Waiting
<1>6. ASSUME NEW q \in Processes PROVE OneResponse(q)'
  <2>1. \A i \in DOMAIN stdout'[q] : stdout'[q][i].type # "response"
    <3>1. CASE q = p
      BY <1>1, <1>2, <1>3, <3>1
    <3>2. CASE q # p
      BY <1>1, <1>2, <3>2 DEF ProviderTypes, Responses, OneResponse, Waiting
    <3> QED
      BY <3>1, <3>2
  <2> QED
    BY <2>1 DEF OneResponse
<1>7. AnswerTypes' /\ Serving'
  BY <1>1, <1>2 DEF ProviderTypes, AnswerTypes, Serving, Answers
<1> QED
  BY <1>1, <1>5, <1>6, <1>7 DEF ProviderTypes, UserTypes, ThreadTypes, JobTypes, BindingTypes, RuntimeTypes,
     GhostTypes, Responses, users, thread, ghosts

LEMMA ReadResponseTyped ==
  ASSUME ProviderTypes, NEW p \in Processes, ReadLine(p), Head(stdout[p]).type = "response"
  PROVE  /\ ProviderTypes'
         /\ answer' = Head(stdout[p]).result /\ answer = None
         /\ context[p].waits /\ child[p].asked = <<>>
         /\ \A q \in Processes : \A i \in DOMAIN stdout'[q] : stdout'[q][i].type # "response"
<1>1. /\ stdout[p] # <<>> /\ stdout' = [stdout EXCEPT ![p] = Tail(stdout[p])]
      /\ UNCHANGED <<users, thread, job, child, current, binding, ghosts>>
      /\ context' = [context EXCEPT ![p].waits = FALSE]
      /\ answer' = Head(stdout[p]).result /\ runtime' = runtime
  BY DEF ReadLine
<1>2. stdout \in [Processes -> Seq(Lines)] /\ context \in [Processes -> Contexts]
  BY DEF ProviderTypes, ManagerTypes
<1>3. /\ Head(stdout[p]) \in Lines /\ Tail(stdout[p]) \in Seq(Lines) /\ Head(stdout[p]) = stdout[p][1]
      /\ 1 \in DOMAIN stdout[p]
      /\ \A i \in DOMAIN Tail(stdout[p]) :
           i \in Nat /\ i + 1 # 1 /\ i + 1 \in DOMAIN stdout[p] /\ Tail(stdout[p])[i] = stdout[p][i + 1]
  BY <1>1, <1>2, TailTyped
<1>4. context[p].waits /\ child[p].asked = <<>>
  BY <1>3 DEF ProviderTypes, Responses, OneResponse
<1>5. answer = None /\ job.process = p /\ job.at \in Requesting
      /\ \A q \in Processes : context[q].waits => q = p
  BY <1>4 DEF ProviderTypes, Waiting
<1>6. context' \in [Processes -> Contexts] /\ \A q \in Processes : ~context'[q].waits
  <2> DEFINE after == [context[p] EXCEPT !.waits = FALSE]
  <2>1. after \in Contexts /\ ~after.waits
    BY <1>2, ContextWaits
  <2>2. context' = [context EXCEPT ![p] = after]
    BY <1>1
  <2> HIDE DEF after
  <2> QED
    BY <1>2, <1>5, <2>1, <2>2
<1>7. \A i \in DOMAIN Tail(stdout[p]) : Tail(stdout[p])[i].type # "response"
  BY <1>3 DEF ProviderTypes, Responses, OneResponse
<1>8. \A q \in Processes : \A i \in DOMAIN stdout'[q] : stdout'[q][i].type # "response"
  <2> TAKE q \in Processes
  <2>1. CASE q = p
    BY <1>1, <1>2, <1>7, <2>1
  <2>2. CASE q # p
    BY <1>1, <1>2, <1>5, <2>2 DEF ProviderTypes, Responses, OneResponse
  <2> QED
    BY <2>1, <2>2
<1>9. answer' \in Answers
  BY <1>1, <1>3 DEF Lines
<1>10. ManagerTypes' /\ Waiting' /\ Responses' /\ AnswerTypes' /\ Serving'
  <2>1. ManagerTypes'
    BY <1>1, <1>2, <1>3, <1>6 DEF ProviderTypes, ManagerTypes
  <2>2. Waiting' /\ Responses'
    BY <1>6, <1>8 DEF Waiting, Responses, OneResponse
  <2>3. AnswerTypes' /\ Serving'
    BY <1>1, <1>5, <1>9 DEF ProviderTypes, AnswerTypes, Serving
  <2> QED
    BY <2>1, <2>2, <2>3
<1> QED
  BY <1>1, <1>4, <1>5, <1>8, <1>10 DEF ProviderTypes, UserTypes, ThreadTypes, JobTypes, BindingTypes,
     RuntimeTypes, GhostTypes, users, thread, ghosts

LEMMA ReadTurnLineTyped ==
  ASSUME ProviderTypes, NEW p \in Processes, ReadLine(p), Head(stdout[p]).type # "response"
  PROVE  /\ ProviderTypes'
         /\ runtime' = Append(runtime, Event(Head(stdout[p]).type, Head(stdout[p]).turn))
         /\ Head(stdout[p]).type \in TurnEventTypes /\ Head(stdout[p]).turn \in Turns
         /\ \A q \in Processes : /\ context'[q].waits = context[q].waits
                                 /\ context'[q].cursor = context[q].cursor
                                 /\ context'[q].mode = context[q].mode
                                 /\ context'[q].approvals =
                                      IF q = p /\ Head(stdout[p]).type = "approval"
                                      THEN context[q].approvals \cup {Head(stdout[p]).turn}
                                      ELSE context[q].approvals
<1> DEFINE line == Head(stdout[p])
           c == context[p]
           after == CASE line.type = "turnStarted" -> [c EXCEPT !.turn = line.turn]
                      [] line.type = "turnCompleted" -> [c EXCEPT !.turn = None]
                      [] line.type = "approval" -> [c EXCEPT !.approvals = @ \cup {line.turn}]
<1>1. /\ stdout[p] # <<>> /\ stdout' = [stdout EXCEPT ![p] = Tail(stdout[p])]
      /\ UNCHANGED <<users, thread, job, child, current, binding, ghosts, answer>>
      /\ context' = [context EXCEPT ![p] = after]
      /\ runtime' = runtime \o <<Event(line.type, line.turn)>>
  <2>1. stdout[p] # <<>> /\ stdout' = [stdout EXCEPT ![p] = Tail(stdout[p])]
        /\ UNCHANGED <<users, thread, job, child, current, binding, ghosts>>
    BY DEF ReadLine
  <2>2. answer' = answer /\ runtime' = runtime \o <<Event(line.type, line.turn)>>
    BY DEF ReadLine, Emit
  <2>3. CASE line.type = "turnStarted"
    <3>1. context' = [context EXCEPT ![p] = [c EXCEPT !.turn = line.turn]]
      BY <2>3 DEF ReadLine
    <3> QED
      BY <2>1, <2>2, <2>3, <3>1
  <2>4. CASE line.type = "turnCompleted"
    <3>1. context' = [context EXCEPT ![p] = [c EXCEPT !.turn = None]]
      BY <2>4 DEF ReadLine
    <3> QED
      BY <2>1, <2>2, <2>4, <3>1
  <2>5. CASE line.type = "approval"
    <3>1. context' = [context EXCEPT ![p] = [c EXCEPT !.approvals = @ \cup {line.turn}]]
      BY <2>5 DEF ReadLine
    <3> QED
      BY <2>1, <2>2, <2>5, <3>1
  <2>6. line.type \in TurnEventTypes
    <3>1. stdout[p] \in Seq(Lines)
      BY DEF ProviderTypes, ManagerTypes
    <3>2. line \in Lines
      BY <2>1, <3>1, TailTyped
    <3> QED
      BY <3>2 DEF Lines, TurnEventTypes
  <2> QED
    BY <2>3, <2>4, <2>5, <2>6 DEF TurnEventTypes
<1>2. stdout \in [Processes -> Seq(Lines)] /\ context \in [Processes -> Contexts] /\ runtime \in Seq(Events)
  BY DEF ProviderTypes, ManagerTypes, RuntimeTypes
<1>3. /\ line \in Lines /\ Tail(stdout[p]) \in Seq(Lines)
      /\ \A i \in DOMAIN Tail(stdout[p]) :
           i \in Nat /\ i + 1 \in DOMAIN stdout[p] /\ Tail(stdout[p])[i] = stdout[p][i + 1]
  BY <1>1, <1>2, TailTyped
<1>4. line.type \in TurnEventTypes /\ line.turn \in Turns
  BY <1>3 DEF Lines, TurnEventTypes
<1>5. Event(line.type, line.turn) \in Events
  BY <1>4 DEF Event, Events, SomeTurn
<1>6. /\ after \in Contexts /\ after.waits = c.waits /\ after.cursor = c.cursor /\ after.mode = c.mode
      /\ after.approvals = IF line.type = "approval" THEN c.approvals \cup {line.turn} ELSE c.approvals
  <2> HIDE DEF line
  <2>1. c \in Contexts /\ c.approvals \subseteq Turns
    BY <1>2 DEF Contexts
  <2> HIDE DEF c
  <2>2. \A t \in SomeTurn : LET d == [c EXCEPT !.turn = t] IN
          d \in Contexts /\ d.waits = c.waits /\ d.cursor = c.cursor /\ d.mode = c.mode
            /\ d.approvals = c.approvals
    BY <2>1 DEF Contexts
  <2>3. \A a \in SUBSET Turns : LET d == [c EXCEPT !.approvals = a] IN
          d \in Contexts /\ d.waits = c.waits /\ d.cursor = c.cursor /\ d.mode = c.mode
            /\ d.approvals = a
    BY <2>1 DEF Contexts
  <2>4. line.turn \in SomeTurn /\ None \in SomeTurn /\ c.approvals \cup {line.turn} \in SUBSET Turns
    BY <1>4, <2>1 DEF SomeTurn
  <2>5. CASE line.type = "turnStarted"
    BY <2>2, <2>4, <2>5
  <2>6. CASE line.type = "turnCompleted"
    BY <2>2, <2>4, <2>6
  <2>7. CASE line.type = "approval"
    BY <2>3, <2>4, <2>7
  <2> QED
    BY <1>4, <2>5, <2>6, <2>7 DEF TurnEventTypes
<1> HIDE DEF after
<1>7. context' \in [Processes -> Contexts]
  BY <1>1, <1>2, <1>6
<1>8. \A q \in Processes : context'[q] = IF q = p THEN after ELSE context[q]
  BY <1>1, <1>2
<1>9. ManagerTypes' /\ Waiting'
  BY <1>1, <1>2, <1>3, <1>6, <1>7, <1>8 DEF ProviderTypes, ManagerTypes, Waiting
<1>10. ASSUME NEW q \in Processes PROVE OneResponse(q)'
  <2>1. OneResponse(q) /\ context'[q].waits = context[q].waits
    BY <1>6, <1>8 DEF ProviderTypes, Responses
  <2>2. CASE q # p
    BY <1>1, <1>2, <2>1, <2>2 DEF OneResponse
  <2>3. CASE q = p
    <3>1. stdout'[q] = Tail(stdout[p])
      BY <1>1, <1>2, <2>3
    <3>2. \A i, j \in DOMAIN Tail(stdout[p]) : i + 1 = j + 1 => i = j
      BY <1>3
    <3> QED
      BY <1>1, <1>3, <2>1, <2>3, <3>1, <3>2 DEF OneResponse
  <2> QED
    BY <2>2, <2>3
<1>11. RuntimeTypes' /\ runtime' = Append(runtime, Event(line.type, line.turn))
  BY <1>1, <1>2, <1>5 DEF RuntimeTypes
<1>12. ProviderTypes'
  BY <1>1, <1>9, <1>10, <1>11 DEF ProviderTypes, UserTypes, ThreadTypes, JobTypes, AnswerTypes, BindingTypes,
     GhostTypes, Responses, Serving, users, thread, ghosts
<1> QED
  BY <1>4, <1>6, <1>8, <1>11, <1>12

LEMMA ExitEventTyped ==
  ASSUME ProviderTypes, NEW p \in Processes, ExitEvent(p)
  PROVE  ProviderTypes'
<1>1. /\ child' = [child EXCEPT ![p] = [child[p] EXCEPT !.life = "exited"]]
      /\ context' = [context EXCEPT ![p] = [context[p] EXCEPT !.turn = None]]
      /\ runtime' = runtime \o <<Event("exited", None)>> /\ current' = None
      /\ UNCHANGED <<users, thread, job, answer, stdout, binding, ghosts>>
  BY DEF ExitEvent, Emit, reactor
<1>2. child \in [Processes -> Children] /\ context \in [Processes -> Contexts]
  BY DEF ProviderTypes, ManagerTypes
<1>3. /\ child' \in [Processes -> Children]
      /\ \A q \in Processes : child'[q].asked = child[q].asked
  <2>1. \A c \in Children : LET d == [c EXCEPT !.life = "exited"] IN d \in Children /\ d.asked = c.asked
    BY DEF Children
  <2> QED
    BY <1>1, <1>2, <2>1
<1>4. context' \in [Processes -> Contexts] /\ \A q \in Processes : context'[q].waits = context[q].waits
  <2>1. \A c \in Contexts : LET d == [c EXCEPT !.turn = None] IN d \in Contexts /\ d.waits = c.waits
    BY DEF Contexts, SomeTurn
  <2> QED
    BY <1>1, <1>2, <2>1
<1>5. ManagerTypes' /\ Waiting'
  BY <1>1, <1>3, <1>4 DEF ProviderTypes, ManagerTypes, Waiting, Conversations
<1>6. Responses'
  BY <1>1, <1>3, <1>4 DEF ProviderTypes, Responses, OneResponse
<1>7. RuntimeTypes'
  <2>1. <<Event("exited", None)>> \in Seq(Events)
    BY DEF Event, Events, TurnEventTypes, SomeTurn
  <2> QED
    BY <1>1, <2>1, ConcatTyped DEF ProviderTypes, RuntimeTypes
<1> QED
  BY <1>1, <1>5, <1>6, <1>7 DEF ProviderTypes, UserTypes, ThreadTypes, JobTypes, AnswerTypes, BindingTypes,
     GhostTypes, Serving, users, thread, ghosts

\* What an error line leaves alone
LEMMA HearErrorLeaves ==
  ASSUME NEW p \in Processes, HearError(p)
  PROVE  /\ UNCHANGED <<wanted, requests, intents, session, writing, ingestion, shown, job, answer>>
         /\ UNCHANGED <<child, context, stdout, current, binding, outcome, answered, memory, excuses>>
         /\ runtime' = runtime \o <<Event("error", None)>>
BY DEF HearError, Emit, users, thread, reactor, manager

LEMMA HearErrorTyped ==
  ASSUME ProviderTypes, NEW p \in Processes, HearError(p)
  PROVE  ProviderTypes'
<1>1. RuntimeTypes'
  <2>1. <<Event("error", None)>> \in Seq(Events)
    BY DEF Event, Events, TurnEventTypes, SomeTurn
  <2>2. runtime' = runtime \o <<Event("error", None)>>
    BY HearErrorLeaves
  <2>3. runtime \in Seq(Events)
    BY DEF ProviderTypes, RuntimeTypes
  <2> QED
    BY <2>1, <2>2, <2>3, ConcatTyped DEF RuntimeTypes
<1>2. untold' \subseteq Turns
  <2>1. current # None => child[current].turn \in Turns \cup {None}
    BY DEF ProviderTypes, ManagerTypes, Conversations, Children, SomeTurn
  <2> QED
    BY <2>1 DEF HearError, ProviderTypes, GhostTypes
<1> QED
  BY <1>1, <1>2, HearErrorLeaves
  DEF ProviderTypes, UserTypes, ThreadTypes, JobTypes, AnswerTypes, ManagerTypes, BindingTypes, GhostTypes,
      Waiting, Responses, OneResponse, Serving

LEMMA SyncTyped ==
  ASSUME ProviderTypes, SyncBinding
  PROVE  ProviderTypes'
<1>1. /\ runtime # <<>> /\ runtime' = Tail(runtime) /\ ingestion' = Append(ingestion, Head(runtime))
      /\ binding' = binding \/ (current # None
                                /\ binding' = Upsert(context[current].cursor, context[current].mode))
      /\ UNCHANGED <<users, session, writing, shown, job, answer, child, context, stdout, current, ghosts>>
  BY DEF SyncBinding, reactor, manager
<1>2. runtime \in Seq(Events) /\ ingestion \in Seq(Events) /\ binding \in Bindings
      /\ context \in [Processes -> Contexts] /\ (current # None => current \in Processes)
  BY DEF ProviderTypes, RuntimeTypes, ThreadTypes, BindingTypes, ManagerTypes, Conversations
<1>3. runtime' \in Seq(Events) /\ ingestion' \in Seq(Events)
  BY <1>1, <1>2, TailTyped
<1>4. BindingTypes'
  <2>1. CASE binding' = binding
    BY <2>1 DEF ProviderTypes, BindingTypes
  <2>2. CASE current # None /\ binding' = Upsert(context[current].cursor, context[current].mode)
    <3>1. context[current].cursor \in Conversations /\ context[current].mode \in Modes
      BY <1>2, <2>2 DEF Contexts
    <3> QED
      BY <1>2, <2>2, <3>1 DEF Upsert, Bindings, BindingTypes
  <2> QED
    BY <1>1, <2>1, <2>2
<1> QED
  BY <1>1, <1>3, <1>4 DEF ProviderTypes, UserTypes, ThreadTypes, JobTypes, AnswerTypes, ManagerTypes,
     RuntimeTypes, GhostTypes, Waiting, Responses, OneResponse, Serving, users, ghosts

LEMMA SessionAfterTyped ==
  ASSUME NEW e \in Events, session \in Sessions
  PROVE  SessionAfter(e) \in Sessions
<1>1. session.turn \in SomeTurn /\ session.mode \in Modes /\ e.turn \in SomeTurn /\ None \in SomeTurn
  BY DEF Sessions, Events, SomeTurn
<1>2. \A s \in {"starting", "ready", "running", "stopped", "error"}, t \in SomeTurn :
        [status |-> s, turn |-> t, mode |-> session.mode] \in Sessions
  BY <1>1 DEF Sessions, SomeTurn
<1> QED
  BY <1>1, <1>2 DEF SessionAfter, AfterExit

LEMMA IngestTyped ==
  ASSUME ProviderTypes, Ingest \/ SetSession
  PROVE  ProviderTypes'
<1>1. session \in Sessions /\ writing \in Sessions \cup {None} /\ ingestion \in Seq(Events) /\ shown \subseteq Turns
  BY DEF ProviderTypes, ThreadTypes
<1>2. UNCHANGED <<users, job, answer, child, context, stdout, current, binding, runtime, ghosts>>
  BY DEF Ingest, SetSession, reactor, manager
<1>3. ThreadTypes'
  <2>1. CASE Ingest
    <3>1. Head(ingestion) \in Events /\ ingestion' \in Seq(Events)
      BY <1>1, <2>1, TailTyped DEF Ingest
    <3>2. SessionAfter(Head(ingestion)) \in Sessions
      BY <1>1, <3>1, SessionAfterTyped
    <3>3. Head(ingestion).type = "approval" => Head(ingestion).turn \in Turns
      BY <3>1 DEF Events, TurnEventTypes
    <3>4. shown' \subseteq Turns
      BY <1>1, <2>1, <3>3 DEF Ingest
    <3>5. writing' \in Sessions \cup {None} /\ session' = session
      BY <2>1, <3>2 DEF Ingest
    <3> QED
      BY <1>1, <3>1, <3>4, <3>5 DEF ThreadTypes
  <2>2. CASE SetSession
    BY <1>1, <2>2 DEF SetSession, ThreadTypes
  <2> QED
    BY <2>1, <2>2
<1> QED
  BY <1>2, <1>3 DEF ProviderTypes, UserTypes, JobTypes, AnswerTypes, ManagerTypes, BindingTypes,
     RuntimeTypes, GhostTypes, Waiting, Responses, OneResponse, Serving, users, ghosts

LEMMA RestartTyped ==
  ASSUME ProviderTypes, RestartServer
  PROVE  ProviderTypes'
<1>1. /\ wanted' = wanted /\ intents' = <<>> /\ job' = Idle /\ answer' = None /\ writing' = None
      /\ runtime' = <<>> /\ ingestion' = <<>> /\ session' = session /\ shown' = shown
      /\ context' = [p \in Processes |-> NoContext] /\ stdout' = [p \in Processes |-> <<>>]
      /\ current' = None /\ UNCHANGED <<answered, untold>> /\ memory' \in {None, memory}
      /\ outcome' = [t \in Turns |-> IF outcome[t] = "requested" THEN "lost" ELSE outcome[t]]
      /\ child' = [p \in Processes |-> IF child[p].life = "unborn" THEN Unborn ELSE Left]
  BY DEF RestartServer
<1>2. UserTypes' /\ ThreadTypes' /\ RuntimeTypes'
  BY <1>1 DEF ProviderTypes, UserTypes, ThreadTypes, RuntimeTypes
<1>3. JobTypes' /\ AnswerTypes'
  BY <1>1, NoneIsNone DEF JobTypes, AnswerTypes, Idle, Requesting, Startup
<1>4. ManagerTypes' /\ Waiting' /\ Responses' /\ Serving'
  BY <1>1, NoneIsNone DEF ManagerTypes, Waiting, NoContext, Responses, OneResponse, Serving, Conversations,
     Idle, Requesting, Startup
<1>5. GhostTypes'
  BY <1>1 DEF ProviderTypes, GhostTypes, Conversations
<1>6. BindingTypes'
  <2>1. CASE binding' = binding
    BY <2>1 DEF ProviderTypes, BindingTypes
  <2>2. CASE current # None /\ binding' = Upsert(context[current].cursor, context[current].mode)
    <3>1. current \in Processes /\ context \in [Processes -> Contexts] /\ binding \in Bindings
      BY <2>2 DEF ProviderTypes, ManagerTypes, Conversations, BindingTypes
    <3>2. context[current].cursor \in Conversations /\ context[current].mode \in Modes
      BY <3>1 DEF Contexts
    <3> QED
      BY <2>2, <3>1, <3>2 DEF Upsert, Bindings, BindingTypes
  <2> QED
    BY <2>1, <2>2 DEF RestartServer
<1> QED
  BY <1>2, <1>3, <1>4, <1>5, <1>6 DEF ProviderTypes

\* Whatever app-servers do, time out or lose, every variable keeps its type, at most one
\* request waits, it is the reactor's, and it is answered once.
THEOREM ProviderTypesHold == Spec => []ProviderTypes
<1>1. Init => ProviderTypes
  BY InitTypes
<1>2. ProviderTypes /\ [Next]_vars => ProviderTypes'
  <2> SUFFICES ASSUME ProviderTypes, [Next]_vars PROVE ProviderTypes'
    OBVIOUS
  <2>1. CASE Users
    BY <2>1, UsersTyped
  <2>2. CASE Reactor
    BY <2>2, TakeIntentTyped, SmallStepsTyped, StopsTyped, RemoveBindingTyped, SpawnTyped, SpawnFailsTyped,
       ContinueStartTyped, AnswersTyped, BindingStepsTyped, SendsTyped, InterruptAnsweredTyped,
       RespondTyped DEF Reactor
  <2>3. ASSUME NEW p \in Processes, Manager(p) PROVE ProviderTypes'
    BY <2>3, TimeoutTyped, ReadResponseTyped, ReadTurnLineTyped, HearErrorTyped, ExitEventTyped DEF Manager
  <2>4. ASSUME NEW p \in Processes, AppServer(p) PROVE ProviderTypes'
    BY <2>4, AppServerTyped
  <2>5. CASE SyncBinding \/ Ingest \/ SetSession \/ RestartServer
    BY <2>5, SyncTyped, IngestTyped, RestartTyped
  <2>6. CASE UNCHANGED vars
    BY <2>6 DEF vars, users, thread, reactor, manager, ghosts, ProviderTypes, UserTypes, ThreadTypes, JobTypes,
       AnswerTypes, ManagerTypes, BindingTypes, RuntimeTypes, GhostTypes, Waiting, Responses, OneResponse, Serving
  <2> QED
    BY <2>1, <2>2, <2>3, <2>4, <2>5, <2>6 DEF Next
<1> QED
  BY <1>1, <1>2, PTL DEF Spec

\* The types the run checks, for every bound.
THEOREM SessionTypes == Spec => []TypeOK
<1>1. ProviderTypes => TypeOK
  <2> SUFFICES ASSUME ProviderTypes PROVE TypeOK
    OBVIOUS
  <2>1. wanted \in Modes /\ session \in Sessions /\ current \in Conversations /\ answer \in Answers \cup {None}
    BY DEF ProviderTypes, UserTypes, ThreadTypes, ManagerTypes, AnswerTypes
  <2>2. writing = None \/ writing.mode \in Modes
    BY DEF ProviderTypes, ThreadTypes, Sessions
  <2>3. \A p \in Processes : /\ child[p].life \in {"unborn", "running", "dead", "exited", "killed", "left"}
                             /\ context[p].approvals \subseteq Turns
    BY DEF ProviderTypes, ManagerTypes, Children, Contexts
  <2>4. binding \in Bindings
    BY DEF ProviderTypes, BindingTypes
  <2> QED
    BY <2>1, <2>2, <2>3, <2>4 DEF TypeOK, ProviderTypes, GhostTypes, Waiting, Serving, Sessions, SomeTurn, Conversations,
       Bindings, Answers
<1> QED
  BY <1>1, ProviderTypesHold, PTL

(***************************************************************************)
(* The question of a turn, from the wish of the users to the answer.  It   *)
(* is in one place at a time: not asked for yet, an intent, the reactor's  *)
(* job, a request to an app-server, that app-server's to ask, a line, or   *)
(* pending in the manager.                                                 *)
(***************************************************************************)
Has(s, x) == \E i \in DOMAIN s : s[i] = x
Once(s, x) == \A i, j \in DOMAIN s : s[i] = x /\ s[j] = x => i = j

TurnIntent(t) == [kind |-> "turn", turn |-> t]
TurnRequest(t) == [method |-> "turn/start", argument |-> t]
Question(t) == Line("approval", t)

\* The reactor has yet to send the turn it handles.
Sending == {"start", "route", "operate", "bound", "show"} \cup Startup

InJob(t) == job.kind = "turn" /\ job.turn = t /\ job.at \in Sending

Places == {"users", "intents", "job", "asked", "may ask", "stdout", "pending"}

Holds(t, place, p) ==
  \/ place = "users" /\ p = None /\ outcome[t] = "none"
  \/ place = "intents" /\ p = None /\ Has(intents, TurnIntent(t))
  \/ place = "job" /\ p = None /\ InJob(t)
  \/ place = "asked" /\ p \in Processes /\ Has(child[p].asked, TurnRequest(t))
  \/ place = "may ask" /\ p \in Processes /\ child[p].mayAsk /\ child[p].turn = t
  \/ place = "stdout" /\ p \in Processes /\ Has(stdout[p], Question(t))
  \/ place = "pending" /\ p \in Processes /\ t \in context[p].approvals

AllOnce(t) ==
  /\ Once(intents, TurnIntent(t))
  /\ \A p \in Processes : Once(child[p].asked, TurnRequest(t)) /\ Once(stdout[p], Question(t))

OneQuestion(t) ==
  /\ AllOnce(t)
  /\ \A k, l \in Places : \A p, q \in Conversations :
       Holds(t, k, p) /\ Holds(t, l, q) => k = l /\ p = q
  /\ \/ answered[t] = 0
     \/ answered[t] = 1 /\ \A k \in Places : \A p \in Conversations : ~Holds(t, k, p)

\* An app-server that waits for an answer runs the turn, and the question is kept.
QuestionKept(p) ==
  child[p].asking =>
    /\ child[p].turn # None
    /\ Runs(p) => child[p].turn \in context[p].approvals \/ Has(stdout[p], Question(child[p].turn))

Questions == (\A t \in Turns : OneQuestion(t)) /\ (\A p \in Processes : QuestionKept(p))

LEMMA TailHas ==
  ASSUME NEW S, NEW s \in Seq(S), s # <<>>, NEW x
  PROVE  /\ Has(Tail(s), x) => Has(s, x)
         /\ Has(s, x) => Has(Tail(s), x) \/ Head(s) = x
         /\ Head(s) = x => Has(s, x)
         /\ Once(s, x) => Once(Tail(s), x) /\ (Head(s) = x => ~Has(Tail(s), x))
<1> DEFINE u == Tail(s)
           h == Head(s)
<1>1. PICK n \in Nat : /\ DOMAIN s = 1..(n + 1) /\ DOMAIN u = 1..n
                       /\ h = s[1] /\ \A i \in 1..n : u[i] = s[i + 1]
  <2>1. /\ Len(s) \in Nat \ {0} /\ DOMAIN s = 1..Len(s) /\ DOMAIN u = 1..(Len(s) - 1)
        /\ h = s[1] /\ \A i \in 1..(Len(s) - 1) : u[i] = s[i + 1]
    BY TailTyped
  <2>2. Len(s) - 1 \in Nat /\ Len(s) = (Len(s) - 1) + 1
    BY <2>1
  <2> QED
    BY <2>1, <2>2
<1> HIDE DEF u, h
<1>2. \A i \in 1..(n + 1) : i = 1 \/ \E j \in 1..n : i = j + 1
  <2> TAKE i \in 1..(n + 1)
  <2>1. i # 1 => i - 1 \in 1..n /\ i = (i - 1) + 1
    OBVIOUS
  <2> QED
    BY <2>1
<1>3. \A i \in 1..n : i + 1 \in 1..(n + 1) /\ i + 1 # 1
  OBVIOUS
<1>4. \A i, j \in 1..n : i + 1 = j + 1 => i = j
  OBVIOUS
<1>5. 1 \in 1..(n + 1)
  OBVIOUS
<1>6. Has(u, x) => Has(s, x)
  BY <1>1, <1>3 DEF Has
<1>7. ASSUME NEW i \in 1..(n + 1), s[i] = x PROVE Has(u, x) \/ h = x
  <2>1. CASE i = 1
    BY <1>1, <1>7, <2>1
  <2>2. CASE \E j \in 1..n : i = j + 1
    <3>1. PICK j \in 1..n : i = j + 1
      BY <2>2
    <3>2. u[j] = x /\ j \in DOMAIN u
      BY <1>1, <1>7, <3>1
    <3> QED
      BY <3>2 DEF Has
  <2> QED
    BY <1>2, <2>1, <2>2
<1>12. Has(s, x) => Has(u, x) \/ h = x
  BY <1>1, <1>7 DEF Has
<1>8. h = x => Has(s, x)
  BY <1>1, <1>5 DEF Has
<1>9. ASSUME Once(s, x) PROVE Once(u, x)
  BY <1>1, <1>3, <1>4, <1>9 DEF Once
<1>10. ASSUME Once(s, x), h = x, NEW i \in 1..n, u[i] = x PROVE FALSE
  BY <1>1, <1>3, <1>5, <1>10 DEF Once
<1>11. Once(s, x) /\ h = x => ~Has(u, x)
  BY <1>1, <1>10 DEF Has
<1> QED
  BY <1>6, <1>12, <1>8, <1>9, <1>11 DEF u, h

LEMMA ConcatHas ==
  ASSUME NEW S, NEW s \in Seq(S), NEW u \in Seq(S), NEW x
  PROVE  /\ Has(s \o u, x) <=> Has(s, x) \/ Has(u, x)
         /\ Once(s, x) /\ Once(u, x) /\ ~(Has(s, x) /\ Has(u, x)) => Once(s \o u, x)
<1> DEFINE all == s \o u
<1>1. PICK m \in Nat, n \in Nat :
        /\ DOMAIN s = 1..m /\ DOMAIN u = 1..n /\ DOMAIN all = 1..(m + n)
        /\ \A i \in 1..(m + n) : all[i] = IF i <= m THEN s[i] ELSE u[i - m]
  <2>1. /\ Len(s) \in Nat /\ Len(u) \in Nat /\ DOMAIN s = 1..Len(s) /\ DOMAIN u = 1..Len(u)
        /\ DOMAIN all = 1..(Len(s) + Len(u))
    OBVIOUS
  <2>2. \A i \in 1..(Len(s) + Len(u)) : all[i] = IF i <= Len(s) THEN s[i] ELSE u[i - Len(s)]
    BY ConcatIndex
  <2> QED
    BY <2>1, <2>2
<1> HIDE DEF all
<1>2. \A i \in 1..(m + n) : i \in 1..m \/ (i \notin 1..m /\ i - m \in 1..n)
  OBVIOUS
<1>3. /\ \A i \in 1..m : i \in 1..(m + n) /\ i <= m
      /\ \A i \in 1..n : i + m \in 1..(m + n) /\ ~(i + m <= m) /\ (i + m) - m = i
      /\ \A i \in 1..(m + n) : i \notin 1..m => ~(i <= m)
  OBVIOUS
<1>4. \A i, j \in 1..(m + n) : i - m = j - m => i = j
  OBVIOUS
<1>5. \A i \in 1..m : i \in DOMAIN all /\ all[i] = s[i]
  BY <1>1, <1>3
<1>6. \A i \in 1..n : i + m \in DOMAIN all /\ all[i + m] = u[i]
  BY <1>1, <1>3
<1>7. \A i \in DOMAIN all :
        \/ i \in DOMAIN s /\ all[i] = s[i]
        \/ i \notin DOMAIN s /\ i - m \in DOMAIN u /\ all[i] = u[i - m]
  <2> TAKE i \in DOMAIN all
  <2>1. i \in 1..(m + n)
    BY <1>1
  <2>2. CASE i \in 1..m
    <3>1. i \in DOMAIN s
      BY <1>1, <2>2
    <3>2. all[i] = s[i]
      BY <1>5, <2>2
    <3> QED
      BY <3>1, <3>2
  <2>3. CASE i \notin 1..m
    <3>1. i - m \in 1..n /\ ~(i <= m)
      BY <1>2, <1>3, <2>1, <2>3
    <3>2. all[i] = u[i - m]
      BY <1>1, <2>1, <3>1
    <3> QED
      BY <1>1, <2>3, <3>1, <3>2
  <2> QED
    BY <2>2, <2>3
<1>8. Has(s, x) \/ Has(u, x) => Has(all, x)
  BY <1>1, <1>5, <1>6 DEF Has
<1>9. Has(all, x) => Has(s, x) \/ Has(u, x)
  BY <1>7 DEF Has
<1>10. ASSUME Once(s, x), Once(u, x), ~(Has(s, x) /\ Has(u, x)),
              NEW i \in DOMAIN all, NEW j \in DOMAIN all, all[i] = x, all[j] = x
       PROVE  i = j
  <2>1. CASE i \in DOMAIN s /\ j \in DOMAIN s
    BY <1>7, <1>10, <2>1 DEF Once
  <2>2. CASE i \notin DOMAIN s /\ j \notin DOMAIN s
    <3>1. i - m = j - m
      BY <1>7, <1>10, <2>2 DEF Once
    <3> QED
      BY <1>1, <1>4, <3>1
  <2>3. CASE (i \in DOMAIN s) # (j \in DOMAIN s)
    BY <1>7, <1>10, <2>3 DEF Has
  <2> QED
    BY <2>1, <2>2, <2>3
<1>11. Once(s, x) /\ Once(u, x) /\ ~(Has(s, x) /\ Has(u, x)) => Once(all, x)
  BY <1>10 DEF Once
<1> QED
  BY <1>8, <1>9, <1>11 DEF all

LEMMA AppendHas ==
  ASSUME NEW S, NEW s \in Seq(S), NEW y \in S, NEW x
  PROVE  /\ Has(Append(s, y), x) <=> Has(s, x) \/ x = y
         /\ Once(s, x) /\ ~(Has(s, x) /\ x = y) => Once(Append(s, y), x)
<1>1. /\ Len(s) \in Nat /\ DOMAIN s = 1..Len(s) /\ DOMAIN Append(s, y) = 1..(Len(s) + 1)
      /\ \A i \in 1..Len(s) : Append(s, y)[i] = s[i]
      /\ Append(s, y)[Len(s) + 1] = y
  OBVIOUS
<1>2. PICK n \in Nat : n = Len(s)
  BY <1>1
<1>3. \A i \in 1..(n + 1) : i \in 1..n \/ i = n + 1
  BY <1>2
<1>4. n + 1 \in 1..(n + 1) /\ \A i \in 1..n : i \in 1..(n + 1)
  BY <1>2
<1> QED
  BY <1>1, <1>2, <1>3, <1>4 DEF Has, Once

LEMMA EmptyHas ==
  ASSUME NEW x
  PROVE  ~Has(<<>>, x) /\ Once(<<>>, x)
  BY DEF Has, Once

(* A question that moves, or stays, or is forgotten, is in one place.      *)
LEMMA QuestionStays ==
  ASSUME NEW t \in Turns, OneQuestion(t), AllOnce(t)', answered'[t] = answered[t],
         \A k \in Places : \A p \in Conversations : Holds(t, k, p)' => Holds(t, k, p)
  PROVE  OneQuestion(t)'
  BY DEF OneQuestion

LEMMA QuestionMoves ==
  ASSUME NEW t \in Turns, OneQuestion(t), AllOnce(t)', answered'[t] = answered[t],
         NEW k1 \in Places, NEW p1 \in Conversations, NEW k2 \in Places, NEW p2 \in Conversations,
         Holds(t, k1, p1), ~Holds(t, k1, p1)',
         \A k \in Places : \A p \in Conversations :
           Holds(t, k, p)' => Holds(t, k, p) \/ (k = k2 /\ p = p2)
  PROVE  OneQuestion(t)'
  BY DEF OneQuestion

\* A sequence that holds x no more often than another.
Fewer(new, old, x) == (Has(new, x) => Has(old, x)) /\ (Once(old, x) => Once(new, x))

LEMMA FewerSame ==
  ASSUME NEW s, NEW x
  PROVE  Fewer(s, s, x) /\ Fewer(<<>>, s, x)
  BY EmptyHas DEF Fewer

LEMMA FewerTail ==
  ASSUME NEW S, NEW s \in Seq(S), s # <<>>, NEW x
  PROVE  Fewer(Tail(s), s, x)
  BY TailHas DEF Fewer

LEMMA FewerAppended ==
  ASSUME NEW S, NEW s \in Seq(S), NEW y \in S, NEW x, x # y
  PROVE  Fewer(Append(s, y), s, x)
  BY AppendHas DEF Fewer

LEMMA FewerConcat ==
  ASSUME NEW S, NEW s \in Seq(S), NEW u \in Seq(S), NEW x, ~Has(u, x)
  PROVE  Fewer(s \o u, s, x) /\ (Has(s, x) => Has(s \o u, x))
<1>1. Once(u, x)
  BY DEF Has, Once
<1> QED
  BY <1>1, ConcatHas DEF Fewer

LEMMA FewerWithoutResponse ==
  ASSUME NEW lines \in Seq(Lines), NEW t,
         \A i, j \in DOMAIN lines :
           lines[i].type = "response" /\ lines[j].type = "response" => i = j
  PROVE  /\ Fewer(WithoutResponse(lines), lines, Question(t))
         /\ Has(lines, Question(t)) => Has(WithoutResponse(lines), Question(t))
<1> DEFINE left == WithoutResponse(lines)
           q == Question(t)
<1>1. /\ \A i \in DOMAIN left : \E j \in DOMAIN lines : left[i] = lines[j]
      /\ \A j \in DOMAIN lines : lines[j].type # "response" => \E i \in DOMAIN left : left[i] = lines[j]
      /\ \A i, j \in DOMAIN left : i # j =>
           \E k, l \in DOMAIN lines : k # l /\ left[i] = lines[k] /\ left[j] = lines[l]
  BY WithoutResponseTyped
<1>2. q.type # "response"
  BY DEF Question, Line
<1> HIDE DEF left, q
<1>3. Has(left, q) => Has(lines, q)
  BY <1>1 DEF Has
<1>4. Has(lines, q) => Has(left, q)
  BY <1>1, <1>2 DEF Has
<1>5. Once(lines, q) => Once(left, q)
  BY <1>1 DEF Once
<1> QED
  BY <1>3, <1>4, <1>5 DEF Fewer, left, q

\* Nothing of the process that concerns the turn is new.
LessAt(t, p) ==
  /\ Fewer(child'[p].asked, child[p].asked, TurnRequest(t))
  /\ Fewer(stdout'[p], stdout[p], Question(t))
  /\ child'[p].mayAsk /\ child'[p].turn = t => child[p].mayAsk /\ child[p].turn = t
  /\ t \in context'[p].approvals => t \in context[p].approvals

LEMMA NothingNew ==
  ASSUME NEW t \in Turns, OneQuestion(t), answered'[t] = answered[t],
         outcome'[t] = "none" => outcome[t] = "none",
         Fewer(intents', intents, TurnIntent(t)),
         InJob(t)' => InJob(t),
         \A p \in Processes : LessAt(t, p)
  PROVE  OneQuestion(t)'
<1>1. AllOnce(t)'
  BY DEF OneQuestion, AllOnce, Fewer, LessAt
<1>2. \A k \in Places : \A p \in Conversations : Holds(t, k, p)' => Holds(t, k, p)
  BY DEF Holds, Fewer, LessAt
<1> QED
  BY <1>1, <1>2, QuestionStays

\* The question of an app-server that asks stays where it is, or becomes pending.
Keeps(p) ==
  child'[p].asking =>
    /\ child[p].asking /\ child'[p].turn = child[p].turn
    /\ child'[p].life = "running" =>
         /\ child[p].life = "running"
         /\ \A t \in Turns :
              /\ t \in context[p].approvals => t \in context'[p].approvals
              /\ Has(stdout[p], Question(t)) =>
                   Has(stdout'[p], Question(t)) \/ t \in context'[p].approvals

LEMMA StillKept ==
  ASSUME ProviderTypes, NEW p \in Processes, QuestionKept(p), Keeps(p)
  PROVE  QuestionKept(p)'
<1>1. child[p].turn # None => child[p].turn \in Turns
  BY DEF ProviderTypes, ManagerTypes, Children, SomeTurn
<1> QED
  BY <1>1 DEF QuestionKept, Keeps, Runs

LEMMA QuestionsKept ==
  ASSUME ProviderTypes, Questions,
         \A t \in Turns : /\ answered'[t] = answered[t]
                          /\ outcome'[t] = "none" => outcome[t] = "none"
                          /\ Fewer(intents', intents, TurnIntent(t))
                          /\ InJob(t)' => InJob(t),
         \A p \in Processes : Keeps(p) /\ \A t \in Turns : LessAt(t, p)
  PROVE  Questions'
  BY NothingNew, StillKept DEF Questions

\* A process nothing happens to
LEMMA SameProcess ==
  ASSUME NEW p \in Processes, child'[p] = child[p], stdout'[p] = stdout[p],
         context'[p].approvals = context[p].approvals
  PROVE  Keeps(p) /\ \A t \in Turns : LessAt(t, p)
  BY FewerSame DEF Keeps, LessAt

\* ... or that is killed
LEMMA GoneProcess ==
  ASSUME NEW p \in Processes, child'[p] \in {Unborn, Killed, Left}, stdout'[p] = <<>>,
         context'[p] = NoContext
  PROVE  Keeps(p) /\ \A t \in Turns : LessAt(t, p)
  BY FewerSame DEF Keeps, LessAt, Unborn, Killed, Left, NoContext

\* The steps of the reactor that leave the processes alone
QuietSteps ==
  \/ GiveUp \/ Route \/ RemoveBinding \/ SetStopped \/ SpawnFails \/ UpsertBinding \/ ShowSession
  \/ TurnRefused \/ RecordTurn \/ InterruptAnswered

LEMMA QuietQuestions ==
  ASSUME ProviderTypes, Questions,
         QuietSteps \/ SyncBinding \/ SetSession \/ Ingest
  PROVE  Questions'
<1>1. UNCHANGED <<intents, child, stdout, context, answered>>
  BY DEF QuietSteps, GiveUp, Route, RemoveBinding, SetStopped, SpawnFails, UpsertBinding, ShowSession,
     TurnRefused, RecordTurn, InterruptAnswered, SyncBinding, SetSession, Ingest, users, manager, reactor,
     ghosts
<1>2. ASSUME NEW t \in Turns PROVE outcome'[t] = "none" => outcome[t] = "none"
  <2>1. \/ outcome' = outcome
        \/ job.kind = "turn" /\ outcome' = [outcome EXCEPT ![job.turn] = "failed"]
        \/ outcome' = [outcome EXCEPT ![job.turn] = "sent"]
    BY DEF QuietSteps, GiveUp, Route, RemoveBinding, SetStopped, SpawnFails, UpsertBinding, ShowSession,
       TurnRefused, RecordTurn, InterruptAnswered, SyncBinding, SetSession, Ingest, ghosts
  <2> QED
    BY <2>1 DEF ProviderTypes, GhostTypes
<1>3. ASSUME NEW t \in Turns PROVE InJob(t)' => InJob(t)
  <2>1. job \in Jobs
    BY DEF ProviderTypes, JobTypes
  <2>2. CASE job' = Idle
    BY <2>2 DEF InJob, Idle
  <2>3. CASE UNCHANGED job
    BY <2>3 DEF InJob
  <2>4. CASE Route /\ job' # Idle
    BY <2>1, <2>4 DEF Route, Jobs, InJob, Sending
  <2>5. CASE RemoveBinding
    BY <2>1, <2>5 DEF RemoveBinding, GoTo, Jobs, InJob, Sending, Startup
  <2>6. CASE SpawnFails
    BY <2>1, <2>6 DEF SpawnFails, GoTo, Jobs, InJob, Sending, Startup
  <2>7. CASE UpsertBinding
    BY <2>1, <2>7 DEF UpsertBinding, GoTo, Jobs, InJob, Sending, Startup
  <2>8. CASE ShowSession
    BY <2>1, <2>8 DEF ShowSession, Jobs, InJob, Sending, Startup, Idle
  <2>9. CASE TurnRefused
    BY <2>1, <2>9 DEF TurnRefused, GoTo, Jobs, InJob, Sending, Startup
  <2> QED
    BY <2>2, <2>3, <2>4, <2>5, <2>6, <2>7, <2>8, <2>9 DEF QuietSteps, GiveUp, Route, SetStopped,
       RecordTurn, InterruptAnswered, SyncBinding, SetSession, Ingest, reactor
<1> QED
  BY <1>1, <1>2, <1>3, SameProcess, FewerSame, QuestionsKept

\* stopSession forgets what the process was asked and what it asked.
LEMMA StopsQuestions ==
  ASSUME ProviderTypes, Questions, StopSession \/ StartFails
  PROVE  Questions'
<1>1. UNCHANGED <<intents, outcome, answered>>
      /\ (\E a \in {"failed", "remove"} : job' = [job EXCEPT !.at = a])
      /\ (UNCHANGED manager \/ \E events : StopCurrent(events))
  BY DEF StopSession, StartFails, GoTo, users, ghosts
<1>2. ASSUME NEW t \in Turns PROVE ~InJob(t)'
  BY <1>1 DEF ProviderTypes, JobTypes, Jobs, InJob, Sending, Startup
<1>3. child \in [Processes -> Children] /\ context \in [Processes -> Contexts]
      /\ stdout \in [Processes -> Seq(Lines)] /\ current \in Conversations
  BY DEF ProviderTypes, ManagerTypes
<1>4. ASSUME NEW p \in Processes PROVE Keeps(p) /\ \A t \in Turns : LessAt(t, p)
  <2>1. CASE UNCHANGED <<child, context, stdout>> \/ (current # None /\ current # p /\ ~UNCHANGED manager)
    <3>1. child'[p] = child[p] /\ stdout'[p] = stdout[p] /\ context'[p] = context[p]
      BY <1>1, <1>3, <2>1 DEF StopCurrent, manager
    <3> QED
      BY <3>1, SameProcess
  <2>2. CASE current = p /\ ~UNCHANGED manager
    <3>1. current \in Processes /\ current # None
      BY <2>2, NoneIsNone
    <3>2. child'[p] = Killed /\ stdout'[p] = <<>> /\ context'[p] = NoContext
      BY <1>1, <1>3, <2>2, <3>1 DEF StopCurrent
    <3> QED
      BY <3>2, GoneProcess
  <2>3. UNCHANGED manager => UNCHANGED <<child, context, stdout>>
    BY DEF manager
  <2>4. current = None => UNCHANGED <<child, context, stdout>>
    BY <1>1 DEF StopCurrent, manager
  <2> QED
    BY <2>1, <2>2, <2>3, <2>4
<1> QED
  BY <1>1, <1>2, <1>4, FewerSame, QuestionsKept

\* A request other than for a turn asks for nothing.
LEMMA SendQuestions ==
  ASSUME ManagerTypes, NEW q \in Processes, NEW method, NEW argument,
         [method |-> method, argument |-> argument] \in Asks,
         SendRequest(q, method, argument), UNCHANGED stdout, NEW p \in Processes
  PROVE  /\ Keeps(p)
         /\ \A t \in Turns : [method |-> method, argument |-> argument] # TurnRequest(t) => LessAt(t, p)
<1> DEFINE request == [method |-> method, argument |-> argument]
           asked == Append(child[q].asked, request)
           after == [child[q] EXCEPT !.asked = asked]
<1>1. child[p] \in Children /\ context[p] \in Contexts /\ child[q] \in Children
      /\ child[q].asked \in Seq(Asks) /\ child \in [Processes -> Children]
      /\ context \in [Processes -> Contexts]
  BY DEF ManagerTypes, Children
<1>2. \A t : request # TurnRequest(t) => Fewer(asked, child[q].asked, TurnRequest(t))
  BY <1>1, FewerAppended
<1>3. child' \in {child, [child EXCEPT ![q] = after]}
      /\ context' \in {context, [context EXCEPT ![q].waits = TRUE]}
  BY DEF SendRequest
<1>4. after.mayAsk = child[q].mayAsk /\ after.turn = child[q].turn /\ after.asking = child[q].asking
      /\ after.life = child[q].life /\ after.asked = asked
  BY <1>1 DEF Children
<1> HIDE DEF after, asked, request
<1>5. context'[p].approvals = context[p].approvals /\ stdout'[p] = stdout[p]
  BY <1>1, <1>3 DEF Contexts
<1>6. child'[p] = child[p] \/ (p = q /\ child'[p] = after)
  BY <1>1, <1>3
<1>7. CASE child'[p] = child[p]
  BY <1>5, <1>7, SameProcess
<1>8. CASE p = q /\ child'[p] = after
  <2>1. Keeps(p)
    BY <1>4, <1>5, <1>8 DEF Keeps
  <2>2. \A t \in Turns : request # TurnRequest(t) => LessAt(t, p)
    BY <1>2, <1>4, <1>5, <1>8, FewerSame DEF LessAt
  <2> QED
    BY <2>1, <2>2 DEF request
<1> QED
  BY <1>6, <1>7, <1>8

\* A turn that is asked for is in the queue, where it was not; nothing else is.
LEMMA UsersQuestions ==
  ASSUME ProviderTypes, Questions, Users
  PROVE  Questions'
<1>1. PICK k \in Kinds, u \in SomeTurn :
        /\ Ask(k, u) /\ (k \in {"turn", "answer"} => u \in Turns)
        /\ \/ k = "turn" /\ outcome[u] = "none" /\ outcome' = [outcome EXCEPT ![u] = "requested"]
           \/ k # "turn" /\ outcome' = outcome
  BY DEF Users, AskForTurn, AnswerApproval, ChangeMode, AskOther, Kinds, SomeTurn
<1> DEFINE i == [kind |-> k, turn |-> u]
<1>2. intents' = Append(intents, i) /\ UNCHANGED <<job, child, context, stdout, answered>>
  BY <1>1 DEF Ask, reactor, manager
<1>3. /\ i \in Intents /\ intents \in Seq(Intents)
      /\ outcome \in [Turns -> {"none", "requested", "sent", "failed", "lost"}]
  BY <1>1 DEF Intents, ProviderTypes, UserTypes, GhostTypes
<1>4. ASSUME NEW p \in Processes PROVE Keeps(p) /\ \A t \in Turns : LessAt(t, p)
  BY <1>2, SameProcess
<1>5. ASSUME NEW t \in Turns PROVE OneQuestion(t)'
  <2>1. InJob(t)' => InJob(t)
    BY <1>2 DEF InJob
  <2>2. CASE ~(k = "turn" /\ u = t)
    <3>1. i # TurnIntent(t)
      BY <2>2 DEF TurnIntent
    <3>2. Fewer(intents', intents, TurnIntent(t))
      BY <1>2, <1>3, <3>1, FewerAppended
    <3>3. outcome'[t] = outcome[t]
      BY <1>1, <1>3, <2>2
    <3> QED
      BY <1>2, <1>4, <2>1, <3>2, <3>3, NothingNew DEF Questions
  <2>3. CASE k = "turn" /\ u = t
    <3>1. outcome[t] = "none" /\ outcome'[t] = "requested"
      BY <1>1, <1>3, <2>3
    <3>2. Holds(t, "users", None) /\ ~Holds(t, "users", None)'
      BY <3>1 DEF Holds
    <3>3. ~Has(intents, TurnIntent(t))
      <4>1. ~Holds(t, "intents", None)
        BY <3>2 DEF Questions, OneQuestion, Places, Conversations
      <4> QED
        BY <4>1 DEF Holds
    <3>4. Has(intents', TurnIntent(t)) /\ (Once(intents, TurnIntent(t)) => Once(intents', TurnIntent(t)))
      BY <1>2, <1>3, <2>3, <3>3, AppendHas DEF TurnIntent
    <3>5. AllOnce(t)'
      BY <1>2, <3>4 DEF Questions, OneQuestion, AllOnce
    <3>6. \A l \in Places : \A p \in Conversations :
            Holds(t, l, p)' => Holds(t, l, p) \/ (l = "intents" /\ p = None)
      BY <1>2, <3>1 DEF Holds, InJob, Runs
    <3> QED
      BY <1>2, <3>2, <3>5, <3>6, QuestionMoves DEF Questions, Places, Conversations
  <2> QED
    BY <2>2, <2>3
<1> QED
  BY <1>4, <1>5, StillKept DEF Questions

LEMMA TakeIntentQuestions ==
  ASSUME ProviderTypes, Questions, TakeIntent
  PROVE  Questions'
<1> DEFINE i == Head(intents)
<1>1. /\ intents \in Seq(Intents) /\ intents # <<>> /\ intents' = Tail(intents)
      /\ UNCHANGED <<child, context, stdout, answered, outcome>> /\ job.at = "idle"
      /\ job' = Idle \/ (job'.kind = i.kind /\ job'.turn = i.turn)
  BY DEF TakeIntent, ProviderTypes, UserTypes, manager, ghosts, Idle
<1>2. ASSUME NEW p \in Processes PROVE Keeps(p) /\ \A t \in Turns : LessAt(t, p)
  BY <1>1, SameProcess
<1>3. ASSUME NEW t \in Turns PROVE OneQuestion(t)'
  <2>1. Fewer(intents', intents, TurnIntent(t))
    BY <1>1, FewerTail
  <2>2. CASE ~InJob(t)'
    BY <1>1, <1>2, <2>1, <2>2, NothingNew DEF Questions
  <2>3. CASE InJob(t)'
    <3>1. i = TurnIntent(t)
      <4>1. i \in Intents
        BY <1>1, TailTyped
      <4>2. job' # Idle
        BY <2>3 DEF InJob, Idle
      <4> QED
        BY <1>1, <2>3, <4>1, <4>2 DEF InJob, Intents, TurnIntent
    <3>2. Has(intents, TurnIntent(t)) /\ (Once(intents, TurnIntent(t)) => ~Has(intents', TurnIntent(t)))
      BY <1>1, <3>1, TailHas
    <3>3. Holds(t, "intents", None) /\ ~Holds(t, "intents", None)'
      BY <3>2 DEF Holds, Questions, OneQuestion, AllOnce
    <3>4. AllOnce(t)'
      BY <1>1, <2>1 DEF Questions, OneQuestion, AllOnce, Fewer
    <3>5. \A l \in Places : \A p \in Conversations :
            Holds(t, l, p)' => Holds(t, l, p) \/ (l = "job" /\ p = None)
      BY <1>1, <2>1 DEF Holds, Fewer
    <3> QED
      BY <1>1, <3>3, <3>4, <3>5, QuestionMoves DEF Questions, Places, Conversations
  <2> QED
    BY <2>2, <2>3
<1> QED
  BY <1>2, <1>3, StillKept DEF Questions

LEMMA SendTurnQuestions ==
  ASSUME ProviderTypes, Questions, SendTurn
  PROVE  Questions'
<1>1. /\ UNCHANGED <<intents, stdout, answered, outcome>>
      /\ job.at = "operate" /\ job.kind = "turn" /\ job.turn \in Turns /\ job \in Jobs
      /\ \/ job' = [job EXCEPT !.at = "failed"]
         \/ job' = [job EXCEPT !.at = "turn/start", !.process = current]
  BY DEF SendTurn, ProviderTypes, JobTypes, users, GoTo
<1>2. \A t \in Turns : ~InJob(t)'
  BY <1>1 DEF InJob, Sending, Startup, Jobs
<1>3. CASE current = None
  <2>1. UNCHANGED <<child, context>>
    BY <1>3 DEF SendTurn
  <2> QED
    BY <1>1, <1>2, <2>1, SameProcess, FewerSame, QuestionsKept
<1>4. CASE current # None
  <2>1. PICK q \in Processes : q = current
    BY <1>4 DEF ProviderTypes, ManagerTypes, Conversations
  <2>2. SendRequest(q, "turn/start", job.turn) /\ UNCHANGED stdout
    BY <1>4, <2>1 DEF SendTurn
  <2>3. [method |-> "turn/start", argument |-> job.turn] = TurnRequest(job.turn)
        /\ TurnRequest(job.turn) \in Asks
    BY <1>1 DEF TurnRequest, Asks, Requesting, SomeTurn
  <2>4. ASSUME NEW p \in Processes
        PROVE  Keeps(p) /\ \A t \in Turns : TurnRequest(job.turn) # TurnRequest(t) => LessAt(t, p)
    BY <2>2, <2>3, SendQuestions DEF ProviderTypes
  <2>5. ASSUME NEW t \in Turns PROVE OneQuestion(t)'
    <3>1. CASE t # job.turn
      <4>1. TurnRequest(job.turn) # TurnRequest(t)
        BY <3>1 DEF TurnRequest
      <4> QED
        BY <1>1, <1>2, <2>4, <4>1, FewerSame, NothingNew DEF Questions
    <3>2. CASE t = job.turn
      <4>1. Holds(t, "job", None) /\ ~Holds(t, "job", None)'
        BY <1>1, <1>2, <3>2 DEF Holds, InJob, Sending
      <4>2. ~Has(child[q].asked, TurnRequest(t))
        <5>1. ~Holds(t, "asked", q)
          BY <4>1 DEF Questions, OneQuestion, Places, Conversations
        <5> QED
          BY <5>1 DEF Holds
      <4>3. child \in [Processes -> Children] /\ context \in [Processes -> Contexts]
            /\ child[q].asked \in Seq(Asks) /\ child[q] \in Children
        BY DEF ProviderTypes, ManagerTypes, Children
      <4>4. Once(child[q].asked, TurnRequest(t)) /\ Once(intents, TurnIntent(t))
            /\ \A p \in Processes : Once(child[p].asked, TurnRequest(t)) /\ Once(stdout[p], Question(t))
        BY DEF Questions, OneQuestion, AllOnce
      <4> DEFINE asked == Append(child[q].asked, TurnRequest(t))
                 after == [child[q] EXCEPT !.asked = asked]
      <4>5. Once(asked, TurnRequest(t))
        BY <2>3, <3>2, <4>2, <4>3, <4>4, AppendHas
      <4>6. child' \in {child, [child EXCEPT ![q] = after]}
            /\ context' \in {context, [context EXCEPT ![q].waits = TRUE]}
        BY <2>2, <2>3, <3>2 DEF SendRequest
      <4>7. after.mayAsk = child[q].mayAsk /\ after.turn = child[q].turn /\ after.asked = asked
        BY <4>3 DEF Children
      <4> HIDE DEF after, asked
      <4>8. \A p \in Processes :
              /\ context'[p].approvals = context[p].approvals
              /\ child'[p].mayAsk = child[p].mayAsk /\ child'[p].turn = child[p].turn
              /\ child'[p].asked = child[p].asked \/ (p = q /\ child'[p].asked = asked)
        BY <4>3, <4>6, <4>7 DEF Contexts
      <4>9. AllOnce(t)'
        BY <1>1, <4>4, <4>5, <4>8 DEF AllOnce
      <4>10. \A l \in Places : \A p \in Conversations :
               Holds(t, l, p)' => Holds(t, l, p) \/ (l = "asked" /\ p = q)
        BY <1>1, <1>2, <4>8 DEF Holds
      <4> QED
        BY <1>1, <4>1, <4>9, <4>10, QuestionMoves DEF Questions, Places, Conversations
    <3> QED
      BY <3>1, <3>2
  <2> QED
    BY <2>4, <2>5, StillKept DEF Questions
<1> QED
  BY <1>3, <1>4

\* The steps of a start, and an interrupt
LEMMA StartQuestions ==
  ASSUME ProviderTypes, Questions, ContinueStart \/ SessionReady \/ Interrupt \/ Spawn
  PROVE  Questions'
<1>1. UNCHANGED <<intents, stdout, answered, outcome>>
  BY DEF ContinueStart, SessionReady, Interrupt, Spawn, users, ghosts
<1>2. job \in Jobs /\ child \in [Processes -> Children] /\ context \in [Processes -> Contexts]
      /\ current \in Conversations /\ ManagerTypes
  BY DEF ProviderTypes, JobTypes, ManagerTypes
<1>3. ASSUME NEW t \in Turns PROVE InJob(t)' => InJob(t)
  <2>1. CASE ContinueStart \/ SessionReady
    BY <1>2, <2>1 DEF ContinueStart, SessionReady, GoTo, InJob, Jobs, Sending
  <2>2. CASE Interrupt
    <3>1. job' = Idle \/ job' = [job EXCEPT !.at = "turn/interrupt", !.process = current]
      BY <2>2 DEF Interrupt
    <3>2. [job EXCEPT !.at = "turn/interrupt", !.process = current].at = "turn/interrupt"
      BY <1>2 DEF Jobs
    <3>3. Idle.kind = "none"
      BY DEF Idle
    <3> QED
      BY <3>1, <3>2, <3>3 DEF InJob, Sending, Startup
  <2>3. CASE Spawn
    BY <1>2, <2>3 DEF Spawn, InJob, Jobs, Sending
  <2> QED
    BY <2>1, <2>2, <2>3
<1>4. ASSUME NEW p \in Processes PROVE Keeps(p) /\ \A t \in Turns : LessAt(t, p)
  <2>1. CASE ContinueStart
    <3>1. job.process \in Processes /\ job.cursor \in Conversations /\ NextRequest \in Startup
      BY <2>1 DEF ContinueStart, ProviderTypes, JobTypes, Jobs, Requesting
    <3>2. [method |-> NextRequest, argument |-> job.cursor] \in Asks
          /\ \A t \in Turns : [method |-> NextRequest, argument |-> job.cursor] # TurnRequest(t)
      BY <3>1 DEF Startup, Asks, TurnRequest, Requesting
    <3>3. SendRequest(job.process, NextRequest, job.cursor)
      BY <2>1 DEF ContinueStart
    <3> QED
      BY <1>1, <1>2, <3>1, <3>2, <3>3, SendQuestions
  <2>2. CASE SessionReady
    <3>1. UNCHANGED child /\ context'[p].approvals = context[p].approvals
      BY <1>2, <2>2 DEF SessionReady, Contexts
    <3> QED
      BY <1>1, <3>1, SameProcess
  <2>3. CASE Interrupt /\ UNCHANGED <<child, context>>
    BY <1>1, <2>3, SameProcess
  <2>4. CASE Interrupt /\ ~UNCHANGED <<child, context>>
    <3>1. current \in Processes /\ SendRequest(current, "turn/interrupt", None)
      BY <1>2, <2>4 DEF Interrupt, Conversations
    <3>2. [method |-> "turn/interrupt", argument |-> None] \in Asks
          /\ \A t \in Turns : [method |-> "turn/interrupt", argument |-> None] # TurnRequest(t)
      BY DEF Asks, TurnRequest, Requesting, SomeTurn
    <3> QED
      BY <1>1, <1>2, <3>1, <3>2, SendQuestions
  <2>5. CASE Spawn
    <3> DEFINE first == <<[method |-> "initialize", argument |-> None]>>
               born == [Unborn EXCEPT !.life = "running", !.asked = first]
    <3>1. PICK q \in Processes, c \in {[NoContext EXCEPT !.mode = job.mode, !.waits = TRUE]} :
            /\ child[q].life = "unborn"
            /\ child' = [child EXCEPT ![q] = born]
            /\ context' = [context EXCEPT ![q] = c]
      BY <2>5 DEF Spawn
    <3>2. ~born.asking /\ ~born.mayAsk /\ born.asked = first /\ c.approvals = {}
      BY DEF Unborn, NoContext
    <3>3. \A t \in Turns : ~Has(first, TurnRequest(t)) /\ Once(first, TurnRequest(t))
      BY DEF Has, Once, TurnRequest
    <3> HIDE DEF first, born
    <3>4. CASE p = q
      <4>1. child'[p] = born /\ context'[p] = c /\ stdout'[p] = stdout[p]
        BY <1>1, <1>2, <3>1, <3>4
      <4> QED
        BY <3>2, <3>3, <4>1, FewerSame DEF Keeps, LessAt, Fewer
    <3>5. CASE p # q
      BY <1>1, <1>2, <3>1, <3>5, SameProcess
    <3> QED
      BY <3>4, <3>5
  <2> QED
    BY <2>1, <2>2, <2>3, <2>4, <2>5
<1> QED
  BY <1>1, <1>3, <1>4, FewerSame, QuestionsKept

LEMMA AcceptedQuestions ==
  ASSUME ProviderTypes, Questions, TurnAccepted
  PROVE  Questions'
<1>1. /\ UNCHANGED <<intents, child, stdout, answered, outcome>>
      /\ \A p \in Processes : context'[p].approvals = context[p].approvals
      /\ \A t \in Turns : ~InJob(t)'
  <2>1. job \in Jobs /\ context \in [Processes -> Contexts]
    BY DEF ProviderTypes, JobTypes, ManagerTypes
  <2> QED
    BY <2>1 DEF TurnAccepted, GoTo, InJob, Sending, Startup, Jobs, Contexts, users, ghosts
<1> QED
  BY <1>1, SameProcess, FewerSame, QuestionsKept

\* The pending question becomes the answer, once.
LEMMA RespondQuestions ==
  ASSUME ProviderTypes, Questions, RespondToRequest
  PROVE  Questions'
<1>1. UNCHANGED <<intents, stdout, outcome>> /\ job' = Idle
  BY DEF RespondToRequest, users
<1>2. \A t \in Turns : ~InJob(t)'
  BY <1>1 DEF InJob, Idle
<1>3. CASE UNCHANGED <<context, answered, child>>
  BY <1>1, <1>2, <1>3, SameProcess, FewerSame, QuestionsKept
<1>4. CASE ~UNCHANGED <<context, answered, child>>
  <2>1. PICK q \in Processes, u \in Turns : q = current /\ u = job.turn
    BY <1>4 DEF RespondToRequest, ProviderTypes, ManagerTypes, Conversations, JobTypes
  <2>2. /\ u \in context[q].approvals
        /\ context' = [context EXCEPT ![q].approvals = context[q].approvals \ {u}]
        /\ answered' = [answered EXCEPT ![u] = answered[u] + 1]
        /\ child' = IF child[q].turn = u THEN [child EXCEPT ![q].asking = FALSE] ELSE child
    BY <1>4, <2>1 DEF RespondToRequest, Settle
  <2>3. child \in [Processes -> Children] /\ context \in [Processes -> Contexts] /\ answered \in [Turns -> Nat]
    BY DEF ProviderTypes, ManagerTypes, GhostTypes
  <2>4. \A p \in Processes :
          /\ child'[p].asked = child[p].asked /\ child'[p].mayAsk = child[p].mayAsk
          /\ child'[p].turn = child[p].turn /\ child'[p].life = child[p].life
          /\ child'[p].asking => child[p].asking /\ ~(p = q /\ child[p].turn = u)
    BY <2>2, <2>3 DEF Children
  <2>5. \A p \in Processes : context'[p].approvals = IF p = q THEN context[p].approvals \ {u} ELSE context[p].approvals
    BY <2>2, <2>3 DEF Contexts
  <2>6. ASSUME NEW p \in Processes PROVE \A t \in Turns : LessAt(t, p)
    BY <1>1, <2>4, <2>5, FewerSame DEF LessAt
  <2>7. ASSUME NEW p \in Processes PROVE QuestionKept(p)'
    BY <1>1, <2>4, <2>5 DEF Questions, QuestionKept, Runs
  <2>8. ASSUME NEW t \in Turns PROVE OneQuestion(t)'
    <3>1. CASE t # u
      <4>1. answered'[t] = answered[t]
        BY <2>2, <2>3, <3>1
      <4> QED
        BY <1>1, <1>2, <2>6, <4>1, FewerSame, NothingNew DEF Questions
    <3>2. CASE t = u
      <4>1. Holds(t, "pending", q)
        BY <2>2, <3>2 DEF Holds
      <4>7. OneQuestion(t) /\ "pending" \in Places /\ q \in Conversations
        BY DEF Questions, Places, Conversations
      <4>2. answered[t] = 0 /\ answered'[t] = 1
        <5>1. answered[t] = 0
          BY <4>1, <4>7 DEF OneQuestion
        <5> QED
          BY <2>2, <2>3, <3>2, <5>1
      <4>3. \A l \in Places : \A p \in Conversations : Holds(t, l, p)' => Holds(t, l, p)
        BY <1>1, <1>2, <2>6 DEF Holds, LessAt, Fewer
      <4>4. ~Holds(t, "pending", q)'
        BY <2>5, <3>2 DEF Holds
      <4>5. \A l \in Places : \A p \in Conversations : ~Holds(t, l, p)'
        BY <4>1, <4>3, <4>4, <4>7 DEF OneQuestion
      <4>6. AllOnce(t)'
        BY <1>1, <2>4 DEF Questions, OneQuestion, AllOnce
      <4> QED
        BY <4>2, <4>5, <4>6 DEF OneQuestion
    <3> QED
      BY <3>1, <3>2
  <2> QED
    BY <2>7, <2>8 DEF Questions
<1> QED
  BY <1>3, <1>4

LEMMA RestartQuestions ==
  ASSUME ProviderTypes, Questions, RestartServer
  PROVE  Questions'
<1>1. /\ intents' = <<>> /\ job' = Idle /\ UNCHANGED answered
      /\ outcome' = [t \in Turns |-> IF outcome[t] = "requested" THEN "lost" ELSE outcome[t]]
      /\ \A p \in Processes : /\ child'[p] \in {Unborn, Killed, Left} /\ stdout'[p] = <<>>
                              /\ context'[p] = NoContext
  BY DEF RestartServer
<1>2. \A t \in Turns : ~InJob(t)' /\ (outcome'[t] = "none" => outcome[t] = "none")
  BY <1>1 DEF InJob, Idle
<1> QED
  BY <1>1, <1>2, GoneProcess, FewerSame, QuestionsKept

\* The manager's steps: the question that is read becomes pending.
LEMMA ManagerQuestions ==
  ASSUME ProviderTypes, Questions, NEW q \in Processes, RequestTimesOut(q) \/ HearError(q) \/ ExitEvent(q)
  PROVE  Questions'
<1>1. UNCHANGED <<intents, job, answered, outcome>>
  BY HearErrorLeaves DEF RequestTimesOut, ExitEvent, users, ghosts, reactor
<1>2. \A t \in Turns : InJob(t)' => InJob(t)
  BY <1>1 DEF InJob
<1>3. child \in [Processes -> Children] /\ context \in [Processes -> Contexts]
      /\ stdout \in [Processes -> Seq(Lines)]
      /\ \A i, j \in DOMAIN stdout[q] :
           stdout[q][i].type = "response" /\ stdout[q][j].type = "response" => i = j
  BY DEF ProviderTypes, ManagerTypes, Responses, OneResponse
<1>4. ASSUME NEW p \in Processes PROVE Keeps(p) /\ \A t \in Turns : LessAt(t, p)
  <2>1. CASE RequestTimesOut(q)
    <3>1. /\ child' = child /\ stdout' = [stdout EXCEPT ![q] = WithoutResponse(stdout[q])]
          /\ context'[p].approvals = context[p].approvals
      BY <1>3, <2>1 DEF RequestTimesOut, Contexts
    <3>2. CASE p = q
      <4>1. \A t \in Turns : /\ Fewer(stdout'[p], stdout[p], Question(t))
                             /\ Has(stdout[p], Question(t)) => Has(stdout'[p], Question(t))
        BY <1>3, <3>1, <3>2, FewerWithoutResponse
      <4> QED
        BY <3>1, <4>1, FewerSame DEF Keeps, LessAt
    <3>3. CASE p # q
      BY <1>3, <3>1, <3>3, SameProcess
    <3> QED
      BY <3>2, <3>3
  <2>2. CASE ExitEvent(q)
    <3>1. /\ stdout' = stdout /\ context'[p].approvals = context[p].approvals
          /\ child'[p].asked = child[p].asked /\ child'[p].mayAsk = child[p].mayAsk
          /\ child'[p].turn = child[p].turn /\ child'[p].asking = child[p].asking
          /\ child'[p].life = "running" => child[p].life = "running"
      BY <1>3, <2>2 DEF ExitEvent, Contexts, Children
    <3> QED
      BY <3>1, FewerSame DEF Keeps, LessAt
  <2>3. CASE HearError(q)
    BY <2>3, HearErrorLeaves, SameProcess
  <2> QED
    BY <2>1, <2>2, <2>3
<1> QED
  BY <1>1, <1>2, <1>4, FewerSame, QuestionsKept

LEMMA ReadQuestions ==
  ASSUME ProviderTypes, Questions, NEW q \in Processes, ReadLine(q)
  PROVE  Questions'
<1> DEFINE line == Head(stdout[q])
<1>1. UNCHANGED <<intents, job, child, answered, outcome>>
      /\ stdout[q] # <<>> /\ stdout' = [stdout EXCEPT ![q] = Tail(stdout[q])]
  BY DEF ReadLine, users, ghosts
<1>2. \A t \in Turns : InJob(t)' => InJob(t)
  BY <1>1 DEF InJob
<1>3. child \in [Processes -> Children] /\ context \in [Processes -> Contexts]
      /\ stdout \in [Processes -> Seq(Lines)] /\ stdout[q] \in Seq(Lines) /\ line \in Lines
  BY <1>1, TailTyped DEF ProviderTypes, ManagerTypes
<1>4. \A p \in Processes : context'[p].approvals =
        IF p = q /\ line.type = "approval" THEN context[p].approvals \cup {line.turn}
        ELSE context[p].approvals
  <2>1. CASE line.type = "response"
    <3>1. context' = [context EXCEPT ![q].waits = FALSE]
      BY <2>1 DEF ReadLine
    <3> QED
      BY <1>3, <2>1, <3>1 DEF Contexts
  <2>2. CASE line.type # "response"
    BY <2>2, ReadTurnLineTyped
  <2> QED
    BY <2>1, <2>2
<1>5. ASSUME NEW t \in Turns, line = Question(t) PROVE line.type = "approval" /\ line.turn = t
  BY <1>5 DEF Question, Line
<1>6. \A t \in Turns : /\ Fewer(Tail(stdout[q]), stdout[q], Question(t))
                       /\ Has(stdout[q], Question(t)) => Has(Tail(stdout[q]), Question(t)) \/ line = Question(t)
                       /\ line = Question(t) => Has(stdout[q], Question(t))
                       /\ Once(stdout[q], Question(t)) /\ line = Question(t) => ~Has(Tail(stdout[q]), Question(t))
  BY <1>1, <1>3, TailHas DEF Fewer
<1>7. \A p \in Processes : stdout'[p] = IF p = q THEN Tail(stdout[q]) ELSE stdout[p]
  BY <1>1, <1>3
<1> HIDE DEF line
<1>8. ASSUME NEW p \in Processes PROVE Keeps(p)
  BY <1>1, <1>4, <1>5, <1>6, <1>7 DEF Keeps
<1>9. ASSUME NEW t \in Turns PROVE OneQuestion(t)'
  <2>1. CASE ~(line.type = "approval" /\ line.turn = t)
    <3>1. \A p \in Processes : LessAt(t, p)
      BY <1>1, <1>4, <1>6, <1>7, <2>1, FewerSame DEF LessAt
    <3> QED
      BY <1>1, <1>2, <3>1, FewerSame, NothingNew DEF Questions
  <2>2. CASE line.type = "approval" /\ line.turn = t
    <3>1. line = Question(t)
      <4>1. line = [type |-> "approval", turn |-> t, result |-> line.result] /\ line.result = "none"
        BY <1>3, <2>2 DEF Lines, Answers
      <4> QED
        BY <4>1 DEF Question, Line
    <3>2. Holds(t, "stdout", q) /\ ~Holds(t, "stdout", q)'
      BY <1>6, <1>7, <3>1 DEF Holds, Questions, OneQuestion, AllOnce
    <3>3. AllOnce(t)'
      BY <1>1, <1>6, <1>7 DEF Questions, OneQuestion, AllOnce, Fewer
    <3>4. \A l \in Places : \A p \in Conversations :
            Holds(t, l, p)' => Holds(t, l, p) \/ (l = "pending" /\ p = q)
      BY <1>1, <1>2, <1>4, <1>6, <1>7 DEF Holds, Fewer
    <3> QED
      BY <1>1, <3>2, <3>3, <3>4, QuestionMoves DEF Questions, Places, Conversations
  <2> QED
    BY <2>1, <2>2
<1> QED
  BY <1>8, <1>9, StillKept DEF Questions

\* What an app-server writes leaves the questions of the other turns alone.
LEMMA WrittenQuestions ==
  ASSUME ProviderTypes, NEW q \in Processes, NEW lines \in Seq(Lines), NEW after,
         Writes(q, lines, after), NEW p \in Processes
  PROVE  /\ (after.asking => child[q].asking /\ after.turn = child[q].turn /\ child[q].life = "running")
              => Keeps(p)
         /\ \A t \in Turns :
              /\ after.mayAsk /\ after.turn = t => child[q].mayAsk /\ child[q].turn = t
              /\ Fewer(after.asked, child[q].asked, TurnRequest(t))
              /\ ~Has(lines, Question(t))
              => LessAt(t, p)
<1>1. stdout \in [Processes -> Seq(Lines)] /\ child \in [Processes -> Children] /\ context' = context
      /\ stdout' = [stdout EXCEPT ![q] = stdout[q] \o lines] /\ child' = [child EXCEPT ![q] = after]
  BY DEF ProviderTypes, ManagerTypes, Writes
<1>2. CASE p # q
  BY <1>1, <1>2, SameProcess
<1>3. CASE p = q
  <2>1. \A t \in Turns : Has(stdout[q], Question(t)) => Has(stdout[q] \o lines, Question(t))
    BY <1>1, ConcatHas
  <2>2. \A t \in Turns : ~Has(lines, Question(t)) => Fewer(stdout[q] \o lines, stdout[q], Question(t))
    BY <1>1, FewerConcat
  <2>3. stdout'[p] = stdout[q] \o lines /\ child'[p] = after /\ context'[p] = context[p]
    BY <1>1, <1>3
  <2> QED
    BY <1>3, <2>1, <2>2, <2>3 DEF Keeps, LessAt
<1> QED
  BY <1>2, <1>3

LEMMA NoQuestionAnswers ==
  ASSUME NEW p, NEW result \in Answers, NEW t
  PROVE  ~Has(Response(p, result), Question(t))
<1>1. Question(t).type = "approval"
  BY DEF Question, Line
<1> QED
  BY <1>1, ResponseTyped DEF Has

LEMMA TurnLine ==
  ASSUME NEW type \in {"turnStarted", "turnCompleted"}, NEW u \in Turns
  PROVE  <<Line(type, u)>> \in Seq(Lines) /\ \A t : ~Has(<<Line(type, u)>>, Question(t))
<1>1. Line(type, u) \in Lines
  BY LineTyped DEF TurnEventTypes
<1>2. \A t : Line(type, u) # Question(t)
  BY DEF Question, Line
<1> QED
  BY <1>1, <1>2 DEF Has

LEMMA NoQuestions ==
  ASSUME NEW s \in Seq(Lines), NEW u \in Seq(Lines), \A t \in Turns : ~Has(s, Question(t)),
         \A t \in Turns : ~Has(u, Question(t))
  PROVE  s \o u \in Seq(Lines) /\ \A t \in Turns : ~Has(s \o u, Question(t))
  BY ConcatHas

\* What an app-server does to the questions of its turn.
LEMMA AppServerQuestions ==
  ASSUME ProviderTypes, Questions, NEW q \in Processes, AppServer(q)
  PROVE  Questions'
<1> DEFINE c == child[q]
<1>1. /\ UNCHANGED <<intents, job, context, answered, outcome>>
      /\ c.life = "running" /\ c \in Children /\ c.asked \in Seq(Asks)
      /\ child \in [Processes -> Children] /\ stdout \in [Processes -> Seq(Lines)]
  <2>1. \E lines, after : Writes(q, lines, after)
    BY AppServerWrites
  <2>2. Runs(q)
    BY AppServerWrites
  <2> QED
    BY <2>1, <2>2 DEF Writes, Runs, users, reactor, ghosts, ProviderTypes, ManagerTypes, Children
<1>2. \A t \in Turns : InJob(t)' => InJob(t)
  BY <1>1 DEF InJob
<1>3. ASSUME NEW lines \in Seq(Lines), NEW after, Writes(q, lines, after),
             after.asking => c.asking /\ after.turn = c.turn,
             \A t \in Turns : /\ after.mayAsk /\ after.turn = t => c.mayAsk /\ c.turn = t
                              /\ Fewer(after.asked, c.asked, TurnRequest(t))
                              /\ ~Has(lines, Question(t))
      PROVE  Questions'
  <2>1. ASSUME NEW p \in Processes PROVE Keeps(p) /\ \A t \in Turns : LessAt(t, p)
    BY <1>1, <1>3, WrittenQuestions
  <2> QED
    BY <1>1, <1>2, <2>1, FewerSame, QuestionsKept
<1>4. ASSUME c.asked # <<>>
      PROVE  /\ Done(q).asking = c.asking /\ Done(q).mayAsk = c.mayAsk /\ Done(q).turn = c.turn
             /\ Done(q).asked = Tail(c.asked) /\ Done(q) \in Children /\ Head(c.asked) \in Asks
             /\ \A t \in Turns : Fewer(Tail(c.asked), c.asked, TurnRequest(t))
  <2>1. Tail(c.asked) \in Seq(Asks) /\ Head(c.asked) \in Asks
    BY <1>1, <1>4, TailTyped
  <2>2. \A t \in Turns : Fewer(Tail(c.asked), c.asked, TurnRequest(t))
    BY <1>1, <1>4, FewerTail
  <2> QED
    BY <1>1, <2>1, <2>2 DEF Done, Children
<1>5. "ok" \in Answers /\ "error" \in Answers /\ "not found" \in Answers
  BY DEF Answers
<1>6. \A r \in Answers : Response(q, r) \in Seq(Lines) /\ \A t \in Turns : ~Has(Response(q, r), Question(t))
  <2>1. \A r \in Answers : Response(q, r) \in Seq(Lines)
    BY ResponseTyped
  <2>2. \A r \in Answers : \A t \in Turns : ~Has(Response(q, r), Question(t))
    BY NoQuestionAnswers
  <2> QED
    BY <2>1, <2>2
<1>7. CASE Accepts(q) \/ Refuses(q)
  <2>1. c.asked # <<>>
    BY <1>7 DEF Accepts, Refuses, Handles
  <2>2. PICK r \in Answers, after \in {Done(q), [Done(q) EXCEPT !.conversation = q],
                                       [Done(q) EXCEPT !.conversation = Argument(q)]} :
          Writes(q, Response(q, r), after)
    BY <1>5, <1>7 DEF Accepts, Refuses
  <2>3. /\ after.asking = c.asking /\ after.mayAsk = c.mayAsk /\ after.turn = c.turn
        /\ after.asked = Tail(c.asked)
    BY <1>4, <2>1 DEF Children
  <2> QED
    BY <1>3, <1>4, <1>6, <2>1, <2>2, <2>3
<1>8. CASE EndsTurn(q)
  <2>1. c.turn \in Turns /\ ~c.asking
    BY <1>1, <1>8 DEF EndsTurn, Children, SomeTurn
  <2> DEFINE after == [c EXCEPT !.turn = None]
  <2>2. Writes(q, <<Line("turnCompleted", c.turn)>>, after)
    BY <1>8 DEF EndsTurn, EndOfTurn
  <2>3. ~after.asking /\ after.asked = c.asked /\ after.turn = None
    BY <1>1, <2>1 DEF Children
  <2>4. <<Line("turnCompleted", c.turn)>> \in Seq(Lines)
        /\ \A t \in Turns : ~Has(<<Line("turnCompleted", c.turn)>>, Question(t))
    BY <2>1, TurnLine
  <2> HIDE DEF after
  <2> QED
    BY <1>3, <2>2, <2>3, <2>4, FewerSame, NoneIsNone
<1>9. CASE HeedsInterrupt(q)
  <2> DEFINE after == [Done(q) EXCEPT !.turn = None, !.asking = FALSE]
             end == IF c.turn = None THEN <<>> ELSE EndOfTurn(q)
             lines == Response(q, "ok") \o end
  <2>1. c.asked # <<>> /\ Writes(q, lines, after)
    BY <1>9 DEF HeedsInterrupt, Handles
  <2>2. ~after.asking /\ after.asked = Tail(c.asked) /\ after.turn = None
    BY <1>4, <2>1 DEF Children
  <2>3. end \in Seq(Lines) /\ \A t \in Turns : ~Has(end, Question(t))
    <3>1. CASE c.turn = None
      <4>1. end = <<>> /\ <<>> \in Seq(Lines)
        BY <3>1
      <4> QED
        BY <4>1, EmptyHas
    <3>2. CASE c.turn # None
      <4>1. c.turn \in Turns /\ end = <<Line("turnCompleted", c.turn)>>
        BY <1>1, <3>2 DEF Children, SomeTurn, EndOfTurn
      <4> QED
        BY <4>1, TurnLine
    <3> QED
      BY <3>1, <3>2
  <2> HIDE DEF after, end
  <2>4. lines \in Seq(Lines) /\ \A t \in Turns : ~Has(lines, Question(t))
    BY <1>5, <1>6, <2>3, NoQuestions
  <2> HIDE DEF lines
  <2> QED
    BY <1>3, <1>4, <2>1, <2>2, <2>4, NoneIsNone
<1>10. CASE Dies(q)
  <2> DEFINE after == [Unborn EXCEPT !.life = "dead", !.conversation = c.conversation]
  <2>1. Writes(q, <<>>, after) /\ ~after.asking /\ ~after.mayAsk /\ after.asked = <<>>
    BY <1>10 DEF Dies, Unborn
  <2>2. <<>> \in Seq(Lines) /\ \A t \in Turns : ~Has(<<>>, Question(t))
    BY EmptyHas
  <2> HIDE DEF after
  <2>3. \A t \in Turns : Fewer(after.asked, c.asked, TurnRequest(t))
    BY <2>1, FewerSame
  <2> QED
    BY <1>3, <2>1, <2>2, <2>3
\* the request has become a turn that may ask
<1>11. CASE BeginsTurn(q)
  <2>0. PICK u : u = Argument(q)
    OBVIOUS
  <2> DEFINE after == [Done(q) EXCEPT !.turn = u, !.mayAsk = TRUE]
             started == <<Line("turnStarted", u)>>
  <2>1. c.asked # <<>> /\ Head(c.asked).method = "turn/start" /\ c.turn = None /\ u = Head(c.asked).argument
    BY <1>11, <2>0 DEF BeginsTurn, Handles, Argument
  <2>2. u \in Turns /\ Head(c.asked) = TurnRequest(u)
    <3>1. Head(c.asked) \in Asks
      BY <1>4, <2>1
    <3> QED
      BY <2>1, <3>1 DEF Asks, TurnRequest
  <2>3. ~after.asking /\ after.asked = Tail(c.asked) /\ after.turn = u
    <3>1. ~c.asking
      BY <2>1 DEF Questions, QuestionKept
    <3> QED
      BY <1>4, <2>1, <3>1 DEF Children
  <2>4. started \in Seq(Lines) /\ \A t \in Turns : ~Has(started, Question(t))
    BY <2>2, TurnLine
  <2>5. PICK lines : Writes(q, lines, after) /\ lines \in {started \o Response(q, "ok"), Response(q, "ok") \o started}
    BY <1>11, <2>0 DEF BeginsTurn
  <2> HIDE DEF after, started
  <2>6. lines \in Seq(Lines) /\ \A t \in Turns : ~Has(lines, Question(t))
    <3>1. Response(q, "ok") \in Seq(Lines) /\ \A t \in Turns : ~Has(Response(q, "ok"), Question(t))
      BY <1>5, <1>6
    <3>2. CASE lines = started \o Response(q, "ok")
      BY <2>4, <3>1, <3>2, NoQuestions
    <3>3. CASE lines = Response(q, "ok") \o started
      BY <2>4, <3>1, <3>3, NoQuestions
    <3> QED
      BY <2>5, <3>2, <3>3
  <2>7. ASSUME NEW p \in Processes
        PROVE  Keeps(p) /\ \A t \in Turns : t # u => LessAt(t, p)
    BY <1>4, <2>1, <2>3, <2>5, <2>6, WrittenQuestions
  <2>8. ASSUME NEW t \in Turns PROVE OneQuestion(t)'
    <3>1. CASE t # u
      BY <1>1, <1>2, <2>7, <3>1, FewerSame, NothingNew DEF Questions
    <3>2. CASE t = u
      <4>1. OneQuestion(t) /\ AllOnce(t)
        BY DEF Questions, OneQuestion
      <4>2. Has(c.asked, TurnRequest(t)) /\ ~Has(Tail(c.asked), TurnRequest(t))
            /\ Once(Tail(c.asked), TurnRequest(t))
        BY <1>1, <2>1, <2>2, <3>2, <4>1, TailHas DEF AllOnce
      <4>3. child'[q] = after /\ \A p \in Processes : p # q => child'[p] = child[p]
        BY <1>1, <2>5 DEF Writes
      <4>4. \A p \in Processes : Fewer(stdout'[p], stdout[p], Question(t))
        <5>1. stdout' = [stdout EXCEPT ![q] = stdout[q] \o lines]
          BY <2>5 DEF Writes
        <5>2. Fewer(stdout[q] \o lines, stdout[q], Question(t))
          BY <1>1, <2>6, FewerConcat
        <5> QED
          BY <1>1, <5>1, <5>2, FewerSame
      <4>5. Holds(t, "asked", q) /\ ~Holds(t, "asked", q)'
        BY <2>3, <4>2, <4>3 DEF Holds
      <4>6. AllOnce(t)'
        BY <1>1, <2>3, <4>1, <4>2, <4>3, <4>4 DEF AllOnce, Fewer
      <4>7. \A l \in Places : \A p \in Conversations :
              Holds(t, l, p)' => Holds(t, l, p) \/ (l = "may ask" /\ p = q)
        BY <1>1, <1>2, <2>3, <4>2, <4>3, <4>4 DEF Holds, Fewer
      <4> QED
        BY <1>1, <4>1, <4>5, <4>6, <4>7, QuestionMoves DEF Places, Conversations
    <3> QED
      BY <3>1, <3>2
  <2> QED
    BY <2>7, <2>8, StillKept DEF Questions
\* the turn has asked
<1>12. CASE AsksForApproval(q)
  <2>0. PICK u \in Turns : u = c.turn
    BY <1>1, <1>12 DEF AsksForApproval, Children, SomeTurn
  <2> DEFINE after == [c EXCEPT !.asking = TRUE, !.mayAsk = FALSE]
             lines == <<Question(u)>>
  <2>1. c.turn = u /\ c.mayAsk /\ Writes(q, lines, after)
    BY <1>12, <2>0 DEF AsksForApproval, Question
  <2>2. after.asking /\ ~after.mayAsk /\ after.asked = c.asked /\ after.turn = u
    BY <1>1, <2>0 DEF Children
  <2>3. lines \in Seq(Lines) /\ Has(lines, Question(u)) /\ Once(lines, Question(u))
        /\ \A t \in Turns : t # u => ~Has(lines, Question(t))
    <3>1. Question(u) \in Lines
      BY LineTyped DEF TurnEventTypes, Question
    <3> QED
      BY <3>1 DEF Has, Once, Question, Line
  <2>4. /\ child'[q] = after /\ \A p \in Processes : p # q => child'[p] = child[p]
        /\ stdout'[q] = stdout[q] \o lines /\ \A p \in Processes : p # q => stdout'[p] = stdout[p]
    BY <1>1, <2>1 DEF Writes
  <2> HIDE DEF after, lines
  <2>5. ASSUME NEW p \in Processes PROVE \A t \in Turns : t # u => LessAt(t, p)
    BY <1>1, <2>1, <2>2, <2>3, FewerSame, WrittenQuestions
  <2>6. Holds(u, "may ask", q) /\ ~Holds(u, "may ask", q)'
    BY <2>1, <2>2, <2>4 DEF Holds
  <2>7. OneQuestion(u) /\ AllOnce(u) /\ ~Has(stdout[q], Question(u))
    <3>1. OneQuestion(u) /\ AllOnce(u)
      BY <2>1 DEF Questions, OneQuestion
    <3>2. ~Holds(u, "stdout", q)
      BY <2>6, <3>1 DEF OneQuestion, Places, Conversations
    <3> QED
      BY <3>1, <3>2 DEF Holds
  <2>8. /\ Once(stdout'[q], Question(u)) /\ Has(stdout'[q], Question(u))
        /\ Has(stdout[q] \o lines, Question(u)) <=> Has(stdout[q], Question(u)) \/ Has(lines, Question(u))
    BY <1>1, <2>3, <2>4, <2>7, ConcatHas DEF AllOnce
  <2>9. OneQuestion(u)'
    <3>1. AllOnce(u)'
      BY <1>1, <2>2, <2>4, <2>7, <2>8 DEF AllOnce
    <3>2. \A l \in Places : \A p \in Conversations :
            Holds(u, l, p)' => Holds(u, l, p) \/ (l = "stdout" /\ p = q)
      BY <1>1, <1>2, <2>1, <2>2, <2>4 DEF Holds
    <3>3. "may ask" \in Places /\ "stdout" \in Places /\ q \in Conversations /\ answered'[u] = answered[u]
      BY <1>1 DEF Places, Conversations
    <3>4. OneQuestion(u)
      BY <2>7
    <3> QED
      BY <2>6, <3>1, <3>2, <3>3, <3>4, QuestionMoves, ZenonT(40)
  <2>10. ASSUME NEW t \in Turns PROVE OneQuestion(t)'
    <3>1. CASE t # u
      BY <1>1, <1>2, <2>5, <3>1, FewerSame, NothingNew DEF Questions
    <3> QED
      BY <2>9, <3>1
  <2>11. ASSUME NEW p \in Processes PROVE QuestionKept(p)'
    <3>1. CASE p = q
      BY <2>1, <2>2, <2>4, <2>8, <3>1, NoneIsNone DEF QuestionKept
    <3>2. CASE p # q
      BY <1>1, <2>4, <3>2 DEF Questions, QuestionKept, Runs
    <3> QED
      BY <3>1, <3>2
  <2> QED
    BY <2>10, <2>11 DEF Questions
<1> QED
  BY <1>7, <1>8, <1>9, <1>10, <1>11, <1>12 DEF AppServer

LEMMA InitQuestions ==
  ASSUME Init
  PROVE  Questions
<1>1. ASSUME NEW t \in Turns PROVE OneQuestion(t)
  <2>1. AllOnce(t)
    BY EmptyHas DEF Init, AllOnce, Unborn
  <2>2. \A k \in Places : \A p \in Conversations : Holds(t, k, p) => k = "users" /\ p = None
    BY EmptyHas DEF Init, Holds, InJob, Idle, Unborn, NoContext
  <2> QED
    BY <2>1, <2>2 DEF Init, OneQuestion
<1>2. ASSUME NEW p \in Processes PROVE QuestionKept(p)
  BY DEF Init, QuestionKept, Unborn
<1> QED
  BY <1>1, <1>2 DEF Questions

(* The request for a turn, the turn that may ask, its question on the way   *)
(* and its question pending are never two at once, and no more than the     *)
(* answer is left of them when it is given (respondToRequest).              *)
THEOREM QuestionsHold == Spec => []Questions
<1>1. Init => Questions
  BY InitQuestions
<1>2. ASSUME ProviderTypes, Questions, Next PROVE Questions'
  <2>1. CASE Users
    BY <1>2, <2>1, UsersQuestions
  <2>2. CASE Reactor
    BY <1>2, <2>2, TakeIntentQuestions, QuietQuestions, StopsQuestions, StartQuestions, SendTurnQuestions,
       AcceptedQuestions, RespondQuestions DEF Reactor, QuietSteps
  <2>3. CASE \E p \in Processes : Manager(p) \/ AppServer(p)
    BY <1>2, <2>3, ManagerQuestions, ReadQuestions, AppServerQuestions DEF Manager
  <2>4. CASE SyncBinding \/ Ingest \/ SetSession
    BY <1>2, <2>4, QuietQuestions
  <2>5. CASE RestartServer
    BY <1>2, <2>5, RestartQuestions
  <2> QED
    BY <1>2, <2>1, <2>2, <2>3, <2>4, <2>5 DEF Next
<1>3. ASSUME ProviderTypes, Questions, UNCHANGED vars PROVE Questions'
  <2>1. UNCHANGED <<intents, job, child, context, stdout, outcome, answered>>
    BY <1>3 DEF vars, users, reactor, manager, ghosts
  <2>2. \A t \in Turns : InJob(t)' => InJob(t)
    BY <2>1 DEF InJob
  <2> QED
    BY <1>3, <2>1, <2>2, SameProcess, FewerSame, QuestionsKept
<1> QED
  BY <1>1, <1>2, <1>3, ProviderTypesHold, PTL DEF Spec

(* An approval is answered once at most, and an app-server that waits for   *)
(* an answer has its question in the manager's map or on the way to it      *)
(* (handleServerRequest, respondToRequest).                                 *)
THEOREM ApprovalsAnsweredOnce == Spec => []ApprovalIsAnsweredOnce
<1>1. ASSUME ProviderTypes, Questions PROVE ApprovalIsAnsweredOnce
  <2>1. ASSUME NEW t \in Turns PROVE answered[t] <= 1
    <3>1. answered[t] \in {0, 1}
      BY <1>1 DEF Questions, OneQuestion
    <3> QED
      BY <3>1
  <2>2. ASSUME NEW p \in Processes, Runs(p), child[p].asking
        PROVE  \/ child[p].turn \in context[p].approvals
               \/ \E i \in DOMAIN stdout[p] : stdout[p][i] = Line("approval", child[p].turn)
    BY <1>1, <2>2 DEF Questions, QuestionKept, Has, Question
  <2> QED
    BY <2>1, <2>2 DEF ApprovalIsAnsweredOnce
<1> QED
  BY <1>1, ProviderTypesHold, QuestionsHold, PTL

(***************************************************************************)
(* The conversation of a thread's turns.  An app-server that is waited for *)
(* has been asked last what the reactor waits for, so a good answer to     *)
(* thread/resume says that it has the conversation of the cursor, and one  *)
(* to thread/start that it has one of its own.                             *)
(***************************************************************************)
AskedRunning == \A p \in Processes : child[p].life # "running" => child[p].asked = <<>>

LastAsked(p) ==
  context[p].waits /\ child[p].asked # <<>> =>
    LET r == child[p].asked[Len(child[p].asked)] IN
    r.method = job.at /\ (job.at = "thread/resume" => r.argument = job.cursor)

SaysOk(lines) == \E i \in DOMAIN lines : lines[i].result = "ok"

OkMeans(p) ==
  job.process = p /\ (answer = "ok" \/ SaysOk(stdout[p])) =>
    /\ job.at = "thread/resume" => child[p].conversation = job.cursor
    /\ job.at = "thread/start" => child[p].conversation = p
    /\ child[p].asked = <<>>

Requested == AskedRunning /\ \A p \in Processes : LastAsked(p) /\ OkMeans(p)

\* Only a response says so, and it is waited for.
LEMMA OkIsResponse ==
  ASSUME ProviderTypes, NEW p \in Processes, SaysOk(stdout[p])
  PROVE  /\ context[p].waits /\ child[p].asked = <<>> /\ job.process = p /\ answer = None
         /\ job.at \in Requesting
<1>1. PICK i \in DOMAIN stdout[p] : stdout[p][i].result = "ok"
  BY DEF SaysOk
<1>2. stdout[p] \in Seq(Lines)
  BY DEF ProviderTypes, ManagerTypes
<1>3. stdout[p][i] \in Lines
  BY <1>2
<1>4. stdout[p][i].type = "response"
  BY <1>1, <1>3 DEF Lines
<1>5. context[p].waits /\ child[p].asked = <<>>
  BY <1>4 DEF ProviderTypes, Responses, OneResponse
<1> QED
  BY <1>5 DEF ProviderTypes, Waiting

LEMMA NothingAwaited ==
  ASSUME ProviderTypes', \A p \in Processes : ~context'[p].waits, answer' # "ok", AskedRunning'
  PROVE  Requested'
<1>1. ASSUME NEW p \in Processes PROVE ~SaysOk(stdout'[p])
  <2>1. \A i \in DOMAIN stdout'[p] : stdout'[p][i].type # "response"
    BY DEF ProviderTypes, Responses, OneResponse
  <2>2. stdout'[p] \in Seq(Lines)
    BY DEF ProviderTypes, ManagerTypes
  <2>3. \A i \in DOMAIN stdout'[p] : stdout'[p][i] \in Lines
    BY <2>2
  <2> QED
    BY <2>1, <2>3 DEF SaysOk, Lines
<1> QED
  BY <1>1 DEF Requested, LastAsked, OkMeans

LEMMA NotRequesting ==
  ASSUME ProviderTypes', job'.at \notin Requesting, AskedRunning'
  PROVE  Requested'
<1>1. answer' = None /\ \A p \in Processes : ~context'[p].waits
  BY DEF ProviderTypes, AnswerTypes, Waiting
<1> QED
  BY <1>1, NothingAwaited, NoneIsNone DEF Answers

LEMMA SameRequest ==
  ASSUME ProviderTypes, Requested, UNCHANGED <<job, answer>>,
         \A p \in Processes :
           /\ child'[p].asked = child[p].asked /\ child'[p].conversation = child[p].conversation
           /\ child'[p].life = "running" <=> child[p].life = "running"
           /\ context'[p].waits = context[p].waits
           /\ SaysOk(stdout'[p]) => SaysOk(stdout[p])
  PROVE  Requested'
  BY DEF Requested, AskedRunning, LastAsked, OkMeans

\* The steps that end with the reactor not waiting
LEMMA CalmRequests ==
  ASSUME ProviderTypes, ProviderTypes', Requested,
         \/ TakeIntent \/ GiveUp \/ Route \/ RemoveBinding \/ SetStopped \/ SpawnFails \/ UpsertBinding
         \/ ShowSession \/ TurnRefused \/ RecordTurn \/ InterruptAnswered \/ TurnAccepted \/ SessionReady
         \/ RespondToRequest
  PROVE  Requested'
<1>1. job \in Jobs /\ job' \in Jobs /\ (job'.at = "idle" <=> job' = Idle)
  BY DEF ProviderTypes, JobTypes, Idle
<1>2. job' = Idle \/ (\E a \in Steps \ Requesting : job' = [job EXCEPT !.at = a]) \/ TakeIntent \/ Route
  BY DEF GiveUp, RemoveBinding, SetStopped, SpawnFails, UpsertBinding, ShowSession, TurnRefused, RecordTurn,
     InterruptAnswered, TurnAccepted, SessionReady, RespondToRequest, GoTo, Steps, Requesting, Startup
<1>3. job'.at \notin Requesting
  <2>1. CASE job' = Idle
    BY <2>1 DEF Idle, Requesting, Startup
  <2>2. CASE \E a \in Steps \ Requesting : job' = [job EXCEPT !.at = a]
    BY <1>1, <2>2, JobMoves
  <2>3. CASE TakeIntent
    <3>1. job' = Idle \/ job'.at = FirstStep(Head(intents).kind)
      BY <2>3 DEF TakeIntent, Idle
    <3>2. intents \in Seq(Intents) /\ intents # <<>>
      BY <2>3 DEF ProviderTypes, UserTypes, TakeIntent
    <3>3. Head(intents).kind \in Kinds
      BY <3>2, TailTyped DEF Intents
    <3>4. FirstStep(Head(intents).kind) \notin Requesting
      BY <3>3 DEF FirstStep, Kinds, Requesting, Startup
    <3> QED
      BY <2>1, <3>1, <3>4
  <2>4. CASE Route
    BY <1>1, <2>4 DEF Route, Jobs, Requesting, Startup
  <2> QED
    BY <1>2, <2>1, <2>2, <2>3, <2>4
<1>4. AskedRunning'
  <2>1. CASE RespondToRequest
    <3>1. child' = child \/ (current \in Processes /\ child' = [child EXCEPT ![current].asking = FALSE])
      BY <2>1 DEF RespondToRequest, ProviderTypes, ManagerTypes, Conversations
    <3>2. child \in [Processes -> Children]
      BY DEF ProviderTypes, ManagerTypes
    <3>3. \A p \in Processes : child'[p].asked = child[p].asked /\ child'[p].life = child[p].life
      BY <3>1, <3>2 DEF Children
    <3> QED
      BY <3>3 DEF Requested, AskedRunning
  <2>2. CASE ~RespondToRequest
    <3>1. UNCHANGED child
      BY <2>2 DEF TakeIntent, GiveUp, Route, RemoveBinding, SetStopped, SpawnFails, UpsertBinding, ShowSession,
         TurnRefused, RecordTurn, InterruptAnswered, TurnAccepted, SessionReady, manager
    <3> QED
      BY <3>1 DEF Requested, AskedRunning
  <2> QED
    BY <2>1, <2>2
<1> QED
  BY <1>3, <1>4, NotRequesting

LEMMA StopRequests ==
  ASSUME ProviderTypes, ProviderTypes', Requested, StopSession \/ StartFails
  PROVE  Requested'
<1>1. (\E a \in {"failed", "remove"} : job' = [job EXCEPT !.at = a])
      /\ (UNCHANGED manager \/ \E events : StopCurrent(events))
  BY DEF StopSession, StartFails, GoTo
<1>2. job'.at \notin Requesting
  BY <1>1 DEF ProviderTypes, JobTypes, Jobs, Requesting, Startup
<1>3. child' = child \/ (current \in Processes /\ child' = [child EXCEPT ![current] = Killed])
  BY <1>1 DEF StopCurrent, manager, ProviderTypes, ManagerTypes, Conversations
<1>4. Killed.asked = <<>>
  BY DEF Killed, Unborn
<1>5. AskedRunning'
  BY <1>3, <1>4 DEF Requested, AskedRunning, ProviderTypes, ManagerTypes
<1> QED
  BY <1>2, <1>5, NotRequesting

LEMMA SendRequests ==
  ASSUME ProviderTypes, ProviderTypes', Requested, NEW p \in Processes, NEW method, NEW argument,
         [method |-> method, argument |-> argument] \in Asks,
         SendRequest(p, method, argument), UNCHANGED stdout,
         job.at \notin Requesting \/ answer # None,
         job'.at = method, job'.process = p, method = "thread/resume" => argument = job'.cursor
  PROVE  Requested'
<1> DEFINE request == [method |-> method, argument |-> argument]
<1>1. child \in [Processes -> Children] /\ context \in [Processes -> Contexts]
      /\ child[p] \in Children /\ child[p].asked \in Seq(Asks)
  BY DEF ProviderTypes, ManagerTypes, Children
<1>2. \A q \in Processes : ~context[q].waits /\ ~SaysOk(stdout[q])
  BY NothingWaits, OkIsResponse
<1>3. answer' # "ok"
  BY NoneIsNone DEF SendRequest, Answers
<1>4. PICK asked : asked = Append(child[p].asked, request)
  OBVIOUS
<1>5. asked # <<>> /\ asked[Len(asked)] = request
  BY <1>1, <1>4
<1>6. child' = child \/ (child[p].life = "running" /\ child' = [child EXCEPT ![p].asked = asked])
  BY <1>4 DEF SendRequest, Runs
<1>7. \A q \in Processes : child'[q].life = child[q].life
        /\ (child'[q].asked = child[q].asked \/ (q = p /\ child[q].life = "running" /\ child'[q].asked = asked))
  BY <1>1, <1>6 DEF Children
<1>8. AskedRunning'
  BY <1>7 DEF Requested, AskedRunning
<1>9. ASSUME NEW q \in Processes PROVE LastAsked(q)'
  <2>1. context'[q].waits => q = p
    BY DEF ProviderTypes, Waiting
  <2>2. child[p].life # "running" => child[p].asked = <<>>
    BY DEF Requested, AskedRunning
  <2>3. context'[p].waits /\ child[p].life = "running" => child'[p].asked = asked
    BY <1>1, <1>2, <1>4 DEF SendRequest, Runs, Children
  <2> QED
    BY <1>5, <1>7, <2>1, <2>2, <2>3 DEF LastAsked
<1>10. ASSUME NEW q \in Processes PROVE OkMeans(q)'
  BY <1>2, <1>3 DEF OkMeans
<1> QED
  BY <1>8, <1>9, <1>10 DEF Requested

LEMMA SendingRequests ==
  ASSUME ProviderTypes, ProviderTypes', Requested, ContinueStart \/ SendTurn \/ Interrupt
  PROVE  Requested'
<1>1. job \in Jobs /\ job.cursor \in Conversations /\ current \in Conversations
  BY DEF ProviderTypes, JobTypes, Jobs, ManagerTypes
<1>2. CASE ContinueStart
  <2>1. /\ job.at \in Startup /\ answer # None /\ NextRequest \in Startup /\ job.process \in Processes
        /\ job' = [job EXCEPT !.at = NextRequest] /\ UNCHANGED stdout
        /\ SendRequest(job.process, NextRequest, job.cursor)
    BY <1>2 DEF ContinueStart, GoTo, ProviderTypes, JobTypes, Requesting
  <2>2. [method |-> NextRequest, argument |-> job.cursor] \in Asks
    BY <1>1, <2>1 DEF Asks, Startup, Requesting
  <2>3. job'.at = NextRequest /\ job'.process = job.process /\ job'.cursor = job.cursor
    BY <1>1, <2>1 DEF Jobs
  <2> QED
    BY <2>1, <2>2, <2>3, SendRequests
<1>3. CASE (SendTurn \/ Interrupt) /\ UNCHANGED child /\ job' \in {Idle, [job EXCEPT !.at = "failed"]}
  <2>1. job'.at \notin Requesting
    BY <1>1, <1>3 DEF Idle, Jobs, Requesting, Startup
  <2> QED
    BY <1>3, <2>1, NotRequesting DEF Requested, AskedRunning
<1>4. CASE SendTurn /\ current # None
  <2>1. /\ current \in Processes /\ job.turn \in Turns /\ job.at = "operate"
        /\ job' = [job EXCEPT !.at = "turn/start", !.process = current]
        /\ SendRequest(current, "turn/start", job.turn) /\ UNCHANGED stdout
    BY <1>1, <1>4 DEF SendTurn, Conversations, ProviderTypes, JobTypes
  <2>2. [method |-> "turn/start", argument |-> job.turn] \in Asks
    BY <2>1 DEF Asks, Requesting, SomeTurn
  <2>3. job'.at = "turn/start" /\ job'.process = current /\ job.at \notin Requesting
    BY <1>1, <2>1 DEF Jobs, Requesting, Startup
  <2> QED
    BY <2>1, <2>2, <2>3, SendRequests
<1>5. CASE Interrupt /\ SendRequest(current, "turn/interrupt", None) /\ current \in Processes
           /\ job' = [job EXCEPT !.at = "turn/interrupt", !.process = current]
  <2>1. [method |-> "turn/interrupt", argument |-> None] \in Asks
    BY DEF Asks, Requesting, SomeTurn
  <2>2. job.at \notin Requesting /\ UNCHANGED stdout
    BY <1>5 DEF Interrupt, Requesting, Startup
  <2>3. job'.at = "turn/interrupt" /\ job'.process = current
    BY <1>1, <1>5 DEF Jobs
  <2> QED
    BY <1>5, <2>1, <2>2, <2>3, SendRequests
<1>6. Interrupt => \/ UNCHANGED child /\ job' = Idle
                   \/ /\ SendRequest(current, "turn/interrupt", None) /\ current \in Processes
                      /\ job' = [job EXCEPT !.at = "turn/interrupt", !.process = current]
  BY <1>1 DEF Interrupt, Conversations
<1>7. SendTurn /\ current = None => UNCHANGED child /\ job' = [job EXCEPT !.at = "failed"]
  BY DEF SendTurn, GoTo
<1> QED
  BY <1>2, <1>3, <1>4, <1>5, <1>6, <1>7

LEMMA SpawnRequests ==
  ASSUME ProviderTypes, ProviderTypes', Requested, Spawn
  PROVE  Requested'
<1> DEFINE first == <<[method |-> "initialize", argument |-> None]>>
           born == [Unborn EXCEPT !.life = "running", !.asked = first]
<1>1. PICK q \in Processes :
        /\ child' = [child EXCEPT ![q] = born] /\ UNCHANGED stdout
        /\ job'.at = "initialize" /\ job'.process = q /\ answer' = None /\ job.at = "start"
  <2>1. job \in Jobs
    BY DEF ProviderTypes, JobTypes
  <2> QED
    BY <2>1 DEF Spawn, Jobs
<1>2. child \in [Processes -> Children]
  BY DEF ProviderTypes, ManagerTypes
<1>3. born.life = "running" /\ born.asked = first
  BY DEF Unborn
<1>4. Len(first) = 1 /\ first[1].method = "initialize"
  OBVIOUS
<1> HIDE DEF first, born
<1>5. job.at \notin Requesting
  BY <1>1 DEF Requesting, Startup
<1>6. \A p \in Processes : ~SaysOk(stdout[p])
  BY <1>5, OkIsResponse
<1>7. AskedRunning'
  BY <1>1, <1>2, <1>3 DEF Requested, AskedRunning
<1>8. ASSUME NEW p \in Processes PROVE LastAsked(p)'
  <2>1. context'[p].waits => p = q
    BY <1>1 DEF ProviderTypes, Waiting
  <2>2. p = q => child'[p].asked = first
    BY <1>1, <1>2, <1>3
  <2> QED
    BY <1>1, <1>4, <2>1, <2>2 DEF LastAsked
<1>9. ASSUME NEW p \in Processes PROVE OkMeans(p)'
  BY <1>1, <1>6, NoneIsNone DEF OkMeans, Answers
<1> QED
  BY <1>7, <1>8, <1>9 DEF Requested

LEMMA OtherRequests ==
  ASSUME ProviderTypes, Requested, Users \/ SyncBinding \/ Ingest \/ SetSession
  PROVE  Requested'
<1>1. UNCHANGED <<job, answer, child, context, stdout>>
  BY DEF Users, AskForTurn, AnswerApproval, ChangeMode, AskOther, Ask, SyncBinding, Ingest, SetSession,
     reactor, manager
<1> QED
  BY <1>1, SameRequest

LEMMA ManagerRequests ==
  ASSUME ProviderTypes, ProviderTypes', Requested, NEW p \in Processes, RequestTimesOut(p) \/ HearError(p) \/ ExitEvent(p)
  PROVE  Requested'
<1>1. child \in [Processes -> Children] /\ context \in [Processes -> Contexts]
  BY DEF ProviderTypes, ManagerTypes
<1>2. CASE RequestTimesOut(p)
  <2>1. answer' = "error" /\ UNCHANGED child
    BY <1>2 DEF RequestTimesOut
  <2>2. \A q \in Processes : ~context'[q].waits
    BY <2>1, NoneIsNone DEF ProviderTypes, Waiting, Answers
  <2>3. AskedRunning'
    BY <2>1 DEF Requested, AskedRunning
  <2> QED
    BY <2>1, <2>2, <2>3, NothingAwaited
<1>3. CASE ExitEvent(p)
  <2>1. UNCHANGED <<job, answer, stdout>>
    BY <1>3 DEF ExitEvent, reactor
  <2>2. \A q \in Processes :
          /\ child'[q].asked = child[q].asked /\ child'[q].conversation = child[q].conversation
          /\ child'[q].life = "running" <=> child[q].life = "running"
          /\ context'[q].waits = context[q].waits
    BY <1>1, <1>3 DEF ExitEvent, Children, Contexts
  <2> QED
    BY <2>1, <2>2, SameRequest
<1>4. CASE HearError(p)
  BY <1>4, HearErrorLeaves, SameRequest
<1> QED
  BY <1>2, <1>3, <1>4

LEMMA ReadRequests ==
  ASSUME ProviderTypes, Requested, NEW p \in Processes, ReadLine(p)
  PROVE  Requested'
<1>1. /\ stdout[p] # <<>> /\ stdout' = [stdout EXCEPT ![p] = Tail(stdout[p])] /\ UNCHANGED <<job, child>>
      /\ stdout \in [Processes -> Seq(Lines)]
  BY DEF ReadLine, ProviderTypes, ManagerTypes
<1>2. \A q \in Processes : SaysOk(stdout'[q]) => SaysOk(stdout[q])
  <2>1. SaysOk(Tail(stdout[p])) => SaysOk(stdout[p])
    BY <1>1, TailTyped DEF SaysOk
  <2> QED
    BY <1>1, <2>1
<1>3. CASE Head(stdout[p]).type # "response"
  <2>1. \A q \in Processes : context'[q].waits = context[q].waits
    BY <1>3, ReadTurnLineTyped
  <2>2. UNCHANGED answer
    BY <1>3 DEF ReadLine
  <2> QED
    BY <1>1, <1>2, <2>1, <2>2, SameRequest
<1>4. CASE Head(stdout[p]).type = "response"
  <2>1. /\ ProviderTypes' /\ answer' = Head(stdout[p]).result /\ answer = None
        /\ \A q \in Processes : \A i \in DOMAIN stdout'[q] : stdout'[q][i].type # "response"
    BY <1>4, ReadResponseTyped
  <2>2. \A q \in Processes : ~context'[q].waits
    <3>1. answer' # None
      <4>1. Head(stdout[p]) \in Lines
        BY <1>1, TailTyped
      <4> QED
        BY <1>4, <2>1, <4>1, NoneIsNone DEF Lines
    <3> QED
      BY <2>1, <3>1 DEF ProviderTypes, Waiting
  <2>3. answer' = "ok" => SaysOk(stdout[p])
    <3>1. 1 \in DOMAIN stdout[p] /\ Head(stdout[p]) = stdout[p][1]
      BY <1>1, TailTyped
    <3> QED
      BY <2>1, <3>1 DEF SaysOk
  <2>4. ASSUME NEW q \in Processes PROVE OkMeans(q)'
    <3>1. SUFFICES ASSUME job'.process = q, answer' = "ok" \/ SaysOk(stdout'[q])
                   PROVE  job.process = q /\ SaysOk(stdout[q])
      BY <1>1 DEF Requested, OkMeans
    <3>2. job.process = q
      BY <1>1, <3>1
    <3>3. answer' = "ok" => q = p
      BY <2>3, <3>2, OkIsResponse
    <3> QED
      BY <1>2, <2>3, <3>1, <3>2, <3>3
  <2> QED
    BY <1>1, <2>2, <2>4 DEF Requested, AskedRunning, LastAsked
<1> QED
  BY <1>3, <1>4

LEMMA SaysNotOk ==
  /\ ~SaysOk(<<>>)
  /\ \A type, t : ~SaysOk(<<Line(type, t)>>)
  BY DEF SaysOk, Line

LEMMA SaysOkIn ==
  ASSUME NEW s \in Seq(Lines), NEW u \in Seq(Lines), SaysOk(s \o u)
  PROVE  SaysOk(s) \/ SaysOk(u)
  BY ConcatTyped DEF SaysOk

LEMMA ResponseSaysOk ==
  ASSUME NEW p, NEW r \in Answers, SaysOk(Response(p, r))
  PROVE  r = "ok" /\ Len(child[p].asked) = 1 /\ context[p].waits
  BY ResponseTyped DEF SaysOk

\* What an app-server is asked after a step, and what a good answer says.
StaysAsked(p, lines, after) ==
  /\ after.asked \in {child[p].asked, <<>>} /\ after.conversation = child[p].conversation
  /\ ~SaysOk(lines)

GoodAnswer(p, after) ==
  /\ Len(child[p].asked) = 1 /\ context[p].waits
  /\ Head(child[p].asked).method = "thread/resume" => after.conversation = Head(child[p].asked).argument
  /\ Head(child[p].asked).method = "thread/start" => after.conversation = p

TakesRequest(p, lines, after) ==
  /\ child[p].asked # <<>> /\ after.asked = Tail(child[p].asked)
  /\ SaysOk(lines) => GoodAnswer(p, after)

AskedAfter(p) ==
  \E lines \in Seq(Lines), after \in Children :
    /\ Writes(p, lines, after)
    /\ after.life # "running" => after.asked = <<>>
    /\ StaysAsked(p, lines, after) \/ TakesRequest(p, lines, after)

LEMMA AppServerAsked ==
  ASSUME ProviderTypes, NEW p \in Processes, AppServer(p)
  PROVE  AskedAfter(p)
<1> DEFINE c == child[p]
           d == Done(p)
<1>1. c \in Children /\ c.asked \in Seq(Asks) /\ c.life = "running"
  BY AppServerWrites DEF ProviderTypes, ManagerTypes, Children, Runs
<1>2. ASSUME c.asked # <<>>
      PROVE  d \in Children /\ d.life = "running" /\ d.asked = Tail(c.asked) /\ Head(c.asked) \in Asks
  <2>1. Tail(c.asked) \in Seq(Asks) /\ Head(c.asked) \in Asks
    BY <1>1, <1>2, TailTyped
  <2> QED
    BY <1>1, <2>1 DEF Done, Children
<1>3. "ok" \in Answers /\ "error" \in Answers /\ "not found" \in Answers
  BY DEF Answers
<1>4. \A r \in Answers : Response(p, r) \in Seq(Lines)
  BY ResponseTyped
<1>6. CASE Accepts(p)
  <2>1. c.asked # <<>> /\ Argument(p) = Head(c.asked).argument
    BY <1>6 DEF Accepts, Handles, Argument
  <2>2. \E after \in Children :
          /\ Writes(p, Response(p, "ok"), after) /\ after.life = "running" /\ after.asked = Tail(c.asked)
          /\ Head(c.asked).method = "thread/resume" => after.conversation = Head(c.asked).argument
          /\ Head(c.asked).method = "thread/start" => after.conversation = p
    <3>1. CASE Handles(p, "initialize") /\ Writes(p, Response(p, "ok"), d)
      BY <1>2, <2>1, <3>1 DEF Handles
    <3>2. CASE Handles(p, "thread/start") /\ Writes(p, Response(p, "ok"), [d EXCEPT !.conversation = p])
      <4>1. p \in Conversations
        BY DEF Conversations
      <4>2. LET a == [d EXCEPT !.conversation = p] IN
            a \in Children /\ a.life = "running" /\ a.asked = Tail(c.asked) /\ a.conversation = p
        BY <1>2, <2>1, <4>1 DEF Children
      <4> QED
        BY <3>2, <4>2 DEF Handles
    <3>3. CASE /\ Handles(p, "thread/resume")
               /\ Writes(p, Response(p, "ok"), [d EXCEPT !.conversation = Argument(p)])
      <4>1. Argument(p) \in Conversations
        BY <1>2, <2>1, <3>3 DEF Handles, Asks
      <4>2. LET a == [d EXCEPT !.conversation = Argument(p)] IN
            a \in Children /\ a.life = "running" /\ a.asked = Tail(c.asked) /\ a.conversation = Argument(p)
        BY <1>2, <2>1, <4>1 DEF Children
      <4> QED
        BY <2>1, <3>3, <4>2 DEF Handles
    <3> QED
      BY <1>6, <3>1, <3>2, <3>3 DEF Accepts
  <2>3. SaysOk(Response(p, "ok")) => Len(c.asked) = 1 /\ context[p].waits
    BY <1>3, ResponseSaysOk
  <2> QED
    BY <1>3, <1>4, <2>1, <2>2, <2>3 DEF AskedAfter, TakesRequest, GoodAnswer
<1>7. CASE Refuses(p)
  <2>1. c.asked # <<>>
    BY <1>7 DEF Refuses
  <2>2. PICK r \in Answers : r # "ok" /\ Writes(p, Response(p, r), d)
    BY <1>3, <1>7 DEF Refuses
  <2>3. ~SaysOk(Response(p, r))
    BY <2>2, ResponseSaysOk
  <2> QED
    BY <1>2, <1>4, <2>1, <2>2, <2>3 DEF AskedAfter, TakesRequest
<1>8. CASE BeginsTurn(p)
  <2> DEFINE started == <<Line("turnStarted", Argument(p))>>
             after == [d EXCEPT !.turn = Argument(p), !.mayAsk = TRUE]
             response == Response(p, "ok")
  <2>1. c.asked # <<>> /\ Head(c.asked).method = "turn/start" /\ Argument(p) = Head(c.asked).argument
    BY <1>8 DEF BeginsTurn, Handles, Argument
  <2>2. Argument(p) \in Turns
    BY <1>2, <2>1 DEF Asks
  <2>3. after \in Children /\ after.life = "running" /\ after.asked = Tail(c.asked)
    BY <1>2, <2>1, <2>2 DEF Children, SomeTurn
  <2>4. started \in Seq(Lines) /\ response \in Seq(Lines) /\ ~SaysOk(started)
    BY <1>3, <1>4, <2>2, TurnLine, SaysNotOk
  <2>5. PICK lines : Writes(p, lines, after) /\ (lines = started \o response \/ lines = response \o started)
    BY <1>8 DEF BeginsTurn
  <2>6. SaysOk(response) => Len(c.asked) = 1 /\ context[p].waits
    BY <1>3, ResponseSaysOk
  <2> HIDE DEF started, after, response
  <2>7. lines \in Seq(Lines) /\ (SaysOk(lines) => SaysOk(response))
    <3>1. CASE lines = started \o response
      BY <2>4, <3>1, SaysOkIn
    <3>2. CASE lines = response \o started
      BY <2>4, <3>2, SaysOkIn
    <3> QED
      BY <2>5, <3>1, <3>2
  <2> QED
    BY <2>1, <2>3, <2>5, <2>6, <2>7 DEF AskedAfter, TakesRequest, GoodAnswer
<1>9. CASE HeedsInterrupt(p)
  <2> DEFINE after == [d EXCEPT !.turn = None, !.asking = FALSE]
             end == IF c.turn = None THEN <<>> ELSE EndOfTurn(p)
             response == Response(p, "ok")
  <2>1. c.asked # <<>> /\ Head(c.asked).method = "turn/interrupt" /\ Writes(p, response \o end, after)
    BY <1>9 DEF HeedsInterrupt, Handles
  <2>2. after \in Children /\ after.life = "running" /\ after.asked = Tail(c.asked)
    BY <1>2, <2>1 DEF Children, SomeTurn
  <2>3. end \in Seq(Lines) /\ ~SaysOk(end)
    <3>1. CASE c.turn = None
      BY <3>1, SaysNotOk
    <3>2. CASE c.turn # None
      <4>1. c.turn \in Turns /\ end = <<Line("turnCompleted", c.turn)>>
        BY <1>1, <3>2 DEF Children, SomeTurn, EndOfTurn
      <4> QED
        BY <4>1, SaysNotOk, TurnLine
    <3> QED
      BY <3>1, <3>2
  <2>4. response \in Seq(Lines)
    BY <1>3, <1>4
  <2>5. SaysOk(response) => Len(c.asked) = 1 /\ context[p].waits
    BY <1>3, ResponseSaysOk
  <2> HIDE DEF after, end, response
  <2>6. response \o end \in Seq(Lines) /\ (SaysOk(response \o end) => SaysOk(response))
    BY <2>3, <2>4, SaysOkIn
  <2> QED
    BY <2>1, <2>2, <2>5, <2>6 DEF AskedAfter, TakesRequest, GoodAnswer
<1>10. CASE AsksForApproval(p)
  <2> DEFINE after == [c EXCEPT !.asking = TRUE, !.mayAsk = FALSE]
  <2>1. c.turn \in Turns /\ Writes(p, <<Line("approval", c.turn)>>, after)
    BY <1>1, <1>10 DEF AsksForApproval, Children, SomeTurn
  <2>2. /\ after \in Children /\ after.life = "running" /\ after.asked = c.asked
        /\ after.conversation = c.conversation
    BY <1>1 DEF Children
  <2>3. <<Line("approval", c.turn)>> \in Seq(Lines) /\ ~SaysOk(<<Line("approval", c.turn)>>)
    <3>1. Line("approval", c.turn) \in Lines
      BY <2>1, LineTyped DEF TurnEventTypes
    <3> QED
      BY <3>1, SaysNotOk
  <2> QED
    BY <2>1, <2>2, <2>3 DEF AskedAfter, StaysAsked
<1>11. CASE EndsTurn(p)
  <2> DEFINE after == [c EXCEPT !.turn = None]
  <2>1. c.turn \in Turns /\ Writes(p, <<Line("turnCompleted", c.turn)>>, after)
    BY <1>1, <1>11 DEF EndsTurn, EndOfTurn, Children, SomeTurn
  <2>2. /\ after \in Children /\ after.life = "running" /\ after.asked = c.asked
        /\ after.conversation = c.conversation
    BY <1>1 DEF Children, SomeTurn
  <2>3. <<Line("turnCompleted", c.turn)>> \in Seq(Lines) /\ ~SaysOk(<<Line("turnCompleted", c.turn)>>)
    BY <2>1, TurnLine, SaysNotOk
  <2> QED
    BY <2>1, <2>2, <2>3 DEF AskedAfter, StaysAsked
<1>12. CASE Dies(p)
  <2> DEFINE after == [Unborn EXCEPT !.life = "dead", !.conversation = c.conversation]
  <2>1. Writes(p, <<>>, after) /\ <<>> \in Seq(Lines)
    BY <1>12 DEF Dies
  <2>2. /\ after \in Children /\ after.asked = <<>> /\ after.conversation = c.conversation
    BY <1>1, NoneIsNone DEF Children, Unborn
  <2> QED
    BY <2>1, <2>2, SaysNotOk DEF AskedAfter, StaysAsked
<1> QED
  BY <1>6, <1>7, <1>8, <1>9, <1>10, <1>11, <1>12 DEF AppServer

LEMMA AppServerRequests ==
  ASSUME ProviderTypes, Requested, NEW p \in Processes, AppServer(p)
  PROVE  Requested'
<1> DEFINE c == child[p]
<1>1. PICK lines \in Seq(Lines), after \in Children :
        /\ Writes(p, lines, after)
        /\ after.life # "running" => after.asked = <<>>
        /\ StaysAsked(p, lines, after) \/ TakesRequest(p, lines, after)
  BY AppServerAsked DEF AskedAfter
<1>2. /\ stdout' = [stdout EXCEPT ![p] = stdout[p] \o lines]
      /\ child' = [child EXCEPT ![p] = after] /\ UNCHANGED <<job, answer, context>>
      /\ stdout \in [Processes -> Seq(Lines)] /\ child \in [Processes -> Children]
      /\ c.asked \in Seq(Asks) /\ c.life = "running"
  BY <1>1, AppServerWrites DEF Writes, reactor, ProviderTypes, ManagerTypes, Children, Runs
<1>3. child'[p] = after /\ stdout'[p] = stdout[p] \o lines
      /\ \A q \in Processes : q # p => child'[q] = child[q] /\ stdout'[q] = stdout[q]
  BY <1>2
<1>4. AskedRunning'
  BY <1>1, <1>2, <1>3 DEF Requested, AskedRunning
<1>5. SaysOk(stdout'[p]) => SaysOk(stdout[p]) \/ SaysOk(lines)
  BY <1>2, <1>3, SaysOkIn
<1>6. LastAsked(p)'
  <2>1. CASE after.asked = <<>>
    BY <1>3, <2>1 DEF LastAsked
  <2>2. CASE after.asked = c.asked
    BY <1>2, <1>3, <2>2 DEF LastAsked, Requested
  <2>3. CASE c.asked # <<>> /\ after.asked = Tail(c.asked) /\ after.asked # <<>>
    <3>1. after.asked[Len(after.asked)] = c.asked[Len(c.asked)]
      <4>1. /\ Len(after.asked) = Len(c.asked) - 1 /\ Len(c.asked) \in Nat /\ after.asked \in Seq(Asks)
            /\ \A i \in DOMAIN after.asked : after.asked[i] = c.asked[i + 1]
        BY <1>2, <2>3, TailTyped
      <4>2. Len(after.asked) \in DOMAIN after.asked
        BY <2>3, <4>1
      <4> QED
        BY <4>1, <4>2
    <3> QED
      BY <1>2, <1>3, <2>3, <3>1 DEF LastAsked, Requested
  <2> QED
    BY <1>1, <2>1, <2>2, <2>3 DEF StaysAsked, TakesRequest
<1>7. OkMeans(p)'
  <2>1. SUFFICES ASSUME job.process = p, answer = "ok" \/ SaysOk(stdout[p]) \/ SaysOk(lines)
                 PROVE  /\ job.at = "thread/resume" => after.conversation = job.cursor
                        /\ job.at = "thread/start" => after.conversation = p
                        /\ after.asked = <<>>
    BY <1>2, <1>3, <1>5 DEF OkMeans
  <2>2. CASE answer = "ok" \/ SaysOk(stdout[p])
    <3>1. c.asked = <<>> /\ OkMeans(p)
      BY <2>1, <2>2 DEF Requested, OkMeans
    <3>2. StaysAsked(p, lines, after)
      BY <1>1, <3>1 DEF TakesRequest
    <3> QED
      BY <2>1, <2>2, <3>1, <3>2 DEF OkMeans, StaysAsked
  <2>3. CASE SaysOk(lines)
    <3>1. c.asked # <<>> /\ after.asked = Tail(c.asked) /\ GoodAnswer(p, after)
      BY <1>1, <2>3 DEF StaysAsked, TakesRequest
    <3>2. Len(c.asked) = 1 /\ context[p].waits
      BY <3>1 DEF GoodAnswer
    <3>3. after.asked = <<>> /\ Head(c.asked) = c.asked[Len(c.asked)]
      BY <1>2, <3>1, <3>2, OneLeft, TailTyped
    <3>4. Head(c.asked).method = job.at /\ (job.at = "thread/resume" => Head(c.asked).argument = job.cursor)
      BY <3>1, <3>2, <3>3 DEF Requested, LastAsked
    <3> QED
      BY <3>1, <3>3, <3>4 DEF GoodAnswer
  <2> QED
    BY <2>1, <2>2, <2>3
<1>8. ASSUME NEW q \in Processes, q # p PROVE LastAsked(q)' /\ OkMeans(q)'
  BY <1>2, <1>3, <1>8 DEF Requested, LastAsked, OkMeans
<1> QED
  BY <1>4, <1>6, <1>7, <1>8 DEF Requested

LEMMA RestartRequests ==
  ASSUME ProviderTypes', RestartServer
  PROVE  Requested'
<1>1. job' = Idle /\ \A p \in Processes : child'[p] \in {Unborn, Killed, Left}
  BY DEF RestartServer
<1>2. job'.at \notin Requesting /\ AskedRunning'
  BY <1>1 DEF Idle, Requesting, Startup, AskedRunning, Unborn, Killed, Left
<1> QED
  BY <1>2, NotRequesting

(* The last request an app-server was asked is the one that is waited for,  *)
(* and a good answer means what was asked (sendRequest, handleResponse).    *)
THEOREM RequestsHold == Spec => []Requested
<1>1. ASSUME Init PROVE Requested
  BY <1>1, NoneIsNone DEF Init, Requested, AskedRunning, LastAsked, OkMeans, SaysOk, Unborn, NoContext, Idle,
     Answers
<1>2. ASSUME ProviderTypes, ProviderTypes', Requested, Next PROVE Requested'
  <2>1. CASE Users \/ SyncBinding \/ Ingest \/ SetSession
    BY <1>2, <2>1, OtherRequests
  <2>2. CASE Reactor
    BY <1>2, <2>2, CalmRequests, StopRequests, SendingRequests, SpawnRequests DEF Reactor
  <2>3. CASE \E p \in Processes : Manager(p) \/ AppServer(p)
    BY <1>2, <2>3, ManagerRequests, ReadRequests, AppServerRequests DEF Manager
  <2>4. CASE RestartServer
    BY <1>2, <2>4, RestartRequests
  <2> QED
    BY <1>2, <2>1, <2>2, <2>3, <2>4 DEF Next
<1>3. ASSUME ProviderTypes, Requested, UNCHANGED vars PROVE Requested'
  <2>1. UNCHANGED <<job, answer, child, context, stdout>>
    BY <1>3 DEF vars, reactor, manager
  <2> QED
    BY <1>3, <2>1, SameRequest
<1> QED
  BY <1>1, <1>2, <1>3, ProviderTypesHold, PTL DEF Spec

Starting == Startup \cup {"bound"}

\* The session's conversation is the row's, but while a start is under way.
Cursors ==
  /\ job.at = "thread/resume" => job.cursor # None
  /\ job.at = "bound" => context[job.process].cursor # None
  /\ current # None /\ job.at \notin Starting =>
       binding.cursor # None /\ context[current].cursor = binding.cursor
  /\ job.at = "remove" => current = None
  /\ job.kind = "takeover" =>
       ~job.recovering /\ job.at \in Starting \cup {"stop", "remove", "start", "failed", "show"}

\* The row has the conversation of the last turn, or the takeover that removed it has.
Kept ==
  memory # None =>
    /\ \/ binding.cursor = memory
       \/ /\ binding.cursor = None /\ job.kind = "takeover"
          /\ job.at \in Starting \cup {"start", "failed"}
    /\ current # None => context[current].cursor \in {None, memory}
    /\ job.at \in Starting \cup {"turn/start", "record"} => context[job.process].cursor \in {None, memory}
    /\ job.at \in Startup => job.cursor = memory
    /\ job.at = "start" => job.cursor = memory \/ (job.cursor = None /\ binding.cursor = memory)
    /\ job.kind = "takeover" /\ job.at \in {"stop", "remove"} => job.cursor = memory
    /\ job.at # "thread/start"

LEMMA SameCursors ==
  ASSUME ProviderTypes, Cursors, Kept, UNCHANGED <<job, binding, memory>>,
         \A p \in Processes : context'[p].cursor = context[p].cursor,
         current' \in {current, None}
  PROVE  Cursors' /\ Kept'
<1>1. job.at \in Starting \cup {"turn/start", "record"} => job.process \in Processes
  BY DEF ProviderTypes, JobTypes, Starting, Requesting
<1>2. current # None => current \in Processes
  BY DEF ProviderTypes, ManagerTypes, Conversations
<1>3. Cursors'
  BY <1>1, <1>2 DEF Cursors, Starting
<1>4. Kept'
  BY <1>1, <1>2 DEF Kept
<1> QED
  BY <1>3, <1>4

\* The steps of others than the reactor
LEMMA OtherCursors ==
  ASSUME ProviderTypes, Cursors, Kept,
         \/ Users \/ Ingest \/ SetSession \/ UNCHANGED vars
         \/ \E p \in Processes : Manager(p) \/ AppServer(p)
  PROVE  Cursors' /\ Kept'
<1>1. context \in [Processes -> Contexts]
  BY DEF ProviderTypes, ManagerTypes
<1>2. CASE Users \/ Ingest \/ SetSession \/ UNCHANGED vars
  <2>1. UNCHANGED <<job, binding, memory, context, current>>
    BY <1>2 DEF Users, AskForTurn, AnswerApproval, ChangeMode, AskOther, Ask, Ingest, SetSession, vars,
       reactor, manager, ghosts
  <2> QED
    BY <2>1, SameCursors
<1>3. ASSUME NEW p \in Processes, Manager(p) PROVE Cursors' /\ Kept'
  <2>1. UNCHANGED <<job, binding, memory>> /\ current' \in {current, None}
    BY <1>3, HearErrorLeaves DEF Manager, RequestTimesOut, ReadLine, ExitEvent, reactor, ghosts
  <2>2. \A q \in Processes : context'[q].cursor = context[q].cursor
    <3>1. CASE RequestTimesOut(p)
      BY <1>1, <3>1 DEF RequestTimesOut, Contexts
    <3>2. CASE ExitEvent(p)
      BY <1>1, <3>2 DEF ExitEvent, Contexts
    <3>3. CASE ReadLine(p) /\ Head(stdout[p]).type # "response"
      BY <3>3, ReadTurnLineTyped
    <3>4. CASE ReadLine(p) /\ Head(stdout[p]).type = "response"
      <4>1. context' = [context EXCEPT ![p].waits = FALSE]
        BY <3>4 DEF ReadLine
      <4> QED
        BY <1>1, <4>1 DEF Contexts
    <3>5. CASE HearError(p)
      BY <3>5, HearErrorLeaves
    <3> QED
      BY <1>3, <3>1, <3>2, <3>3, <3>4, <3>5 DEF Manager
  <2> QED
    BY <2>1, <2>2, SameCursors
<1>4. ASSUME NEW p \in Processes, AppServer(p) PROVE Cursors' /\ Kept'
  <2>1. UNCHANGED <<job, binding, memory, context, current>>
    BY <1>4, AppServerWrites DEF Writes, reactor, ghosts
  <2> QED
    BY <2>1, SameCursors
<1> QED
  BY <1>2, <1>3, <1>4

LEMMA SyncCursors ==
  ASSUME ProviderTypes, Cursors, Kept, SyncBinding
  PROVE  Cursors' /\ Kept'
<1>1. UNCHANGED <<job, memory, context, current>>
  BY DEF SyncBinding, reactor, manager, ghosts
<1>2. \/ binding' = binding
      \/ /\ current # None
         /\ binding'.cursor = IF context[current].cursor # None THEN context[current].cursor ELSE binding.cursor
  BY DEF SyncBinding, Upsert
<1>3. CASE binding' = binding
  BY <1>1, <1>3, SameCursors
<1>4. CASE /\ current # None
           /\ binding'.cursor = IF context[current].cursor # None THEN context[current].cursor ELSE binding.cursor
  <2>1. Cursors'
    BY <1>1, <1>4 DEF Cursors, Starting
  <2>2. Kept'
    BY <1>1, <1>4 DEF Kept
  <2> QED
    BY <2>1, <2>2
<1> QED
  BY <1>2, <1>3, <1>4

\* The reactor's steps that only move it on
LEMMA MovesCursors ==
  ASSUME ProviderTypes, Cursors, Kept,
         \/ Route \/ SetStopped \/ SpawnFails \/ ShowSession \/ GiveUp
         \/ TurnAccepted \/ TurnRefused \/ Interrupt \/ InterruptAnswered \/ RespondToRequest
  PROVE  Cursors' /\ Kept'
<1>1. job \in Jobs /\ context \in [Processes -> Contexts] /\ current \in Conversations
  BY DEF ProviderTypes, JobTypes, ManagerTypes
<1>2. UNCHANGED <<binding, current>> /\ (memory' = memory \/ GiveUp)
      /\ \A p \in Processes : context'[p].cursor = context[p].cursor
  <2>1. UNCHANGED <<binding, current>> /\ (memory' = memory \/ GiveUp)
    BY DEF Route, SetStopped, SpawnFails, ShowSession, GiveUp, TurnAccepted, TurnRefused, Interrupt,
       InterruptAnswered, RespondToRequest, manager, ghosts
  <2>2. CASE Route \/ SetStopped \/ SpawnFails \/ ShowSession \/ GiveUp \/ TurnRefused \/ InterruptAnswered
    <3>1. context' = context
      BY <2>2 DEF Route, SetStopped, SpawnFails, ShowSession, GiveUp, TurnRefused, InterruptAnswered, manager
    <3> QED
      BY <2>1, <3>1
  <2>3. CASE TurnAccepted
    <3>1. context' = [context EXCEPT ![job.process].turn = job.turn]
      BY <2>3 DEF TurnAccepted
    <3>2. \A p \in Processes : context'[p].cursor = context[p].cursor
      BY <1>1, <3>1 DEF Contexts
    <3> QED
      BY <2>1, <3>2
  <2>4. CASE Interrupt
    <3>1. context' = context \/ context' = [context EXCEPT ![current].waits = TRUE]
      BY <2>4 DEF Interrupt, SendRequest
    <3>2. \A p \in Processes : context'[p].cursor = context[p].cursor
      BY <1>1, <3>1 DEF Contexts
    <3> QED
      BY <2>1, <3>2
  <2>5. CASE RespondToRequest
    BY <1>1, <2>5 DEF RespondToRequest, Settle, Contexts
  <2> QED
    BY <2>1, <2>2, <2>3, <2>4, <2>5
<1>3. current # None => current \in Processes
  BY <1>1 DEF Conversations
<1>4. CASE Route
  <2>1. /\ job.at = "route" /\ job'.kind = job.kind
        /\ \/ job'.at \in {"failed", "operate"}
           \/ job'.at = "start" /\ job'.cursor = binding.cursor
    BY <1>1, <1>4 DEF Route, Jobs
  <2>2. memory' = memory
    BY <1>4 DEF Route, ghosts
  <2>3. job.kind # "takeover"
    BY <2>1 DEF Cursors, Starting, Startup
  <2> QED
    BY <1>2, <1>3, <2>1, <2>2, <2>3 DEF Cursors, Kept, Starting, Startup
<1>5. CASE TurnAccepted
  <2>1. job.at = "turn/start" /\ job.kind = "turn" /\ job'.kind = job.kind /\ job'.at = "record"
        /\ job'.process = job.process /\ memory' = memory
    BY <1>1, <1>5 DEF TurnAccepted, GoTo, Jobs, ghosts, ProviderTypes, JobTypes
  <2>2. job.process \in Processes
    BY <2>1 DEF ProviderTypes, JobTypes, Requesting
  <2> QED
    BY <1>2, <1>3, <2>1, <2>2 DEF Cursors, Kept, Starting, Startup
<1>6. CASE Interrupt
  <2>1. job.at = "operate" /\ memory' = memory /\ (job' = Idle \/ (job'.kind = job.kind /\ job'.at = "turn/interrupt"))
        /\ job.kind = "interrupt"
    BY <1>1, <1>6 DEF Interrupt, Jobs, ghosts
  <2> QED
    BY <1>2, <1>3, <2>1 DEF Cursors, Kept, Starting, Startup, Idle
<1>7. CASE TurnRefused \/ SpawnFails
  <2>1. job.at \in {"turn/start", "start"} /\ job'.kind = job.kind /\ job'.at = "failed" /\ memory' = memory
        /\ job'.recovering = job.recovering /\ (job.at = "turn/start" => job.kind = "turn")
    BY <1>1, <1>7 DEF TurnRefused, SpawnFails, GoTo, Jobs, ghosts, ProviderTypes, JobTypes
  <2> QED
    BY <1>2, <1>3, <2>1 DEF Cursors, Kept, Starting, Startup
<1>8. CASE SetStopped \/ ShowSession \/ InterruptAnswered \/ RespondToRequest
  <2>1. /\ job.at \in {"stopped", "show", "turn/interrupt", "operate"} /\ memory' = memory
        /\ job' = Idle \/ (job.kind = "turn" /\ job'.kind = "turn" /\ job'.at = "route")
    BY <1>1, <1>8 DEF SetStopped, ShowSession, InterruptAnswered, RespondToRequest, Jobs, ghosts
  <2> QED
    BY <1>2, <1>3, <2>1 DEF Cursors, Kept, Starting, Startup, Idle
<1>9. CASE GiveUp
  <2>1. job.at = "failed" /\ job' = Idle
        /\ memory' = IF job.kind = "takeover" /\ binding.cursor = None THEN None ELSE memory
    BY <1>9 DEF GiveUp, TakeoverLost
  <2> QED
    BY <1>2, <1>3, <2>1 DEF Cursors, Kept, Starting, Startup, Idle
<1> QED
  BY <1>4, <1>5, <1>6, <1>7, <1>8, <1>9

LEMMA TakeIntentCursors ==
  ASSUME ProviderTypes, Cursors, Kept, TakeIntent
  PROVE  Cursors' /\ Kept'
<1> DEFINE i == Head(intents)
<1>1. /\ UNCHANGED <<binding, memory, context, current>> /\ job.at = "idle" /\ job.kind = "none"
      /\ current \in Conversations
  BY DEF TakeIntent, manager, ghosts, ProviderTypes, JobTypes, Idle, ManagerTypes
<1>2. i.kind \in Kinds
  <2>1. intents \in Seq(Intents) /\ intents # <<>>
    BY DEF TakeIntent, ProviderTypes, UserTypes
  <2> QED
    BY <2>1, TailTyped DEF Intents
<1>3. \/ job' = Idle
      \/ /\ job'.kind = i.kind /\ job'.at = FirstStep(i.kind) /\ ~job'.recovering
         /\ job'.cursor = IF HasSession \/ i.kind = "takeover" THEN ActiveCursor ELSE None
  BY DEF TakeIntent, Idle
<1>4. /\ FirstStep(i.kind) \in {"start", "route", "idle", "stop", "stopped"}
      /\ i.kind = "takeover" => IF current = None THEN FirstStep(i.kind) = "start" ELSE FirstStep(i.kind) = "stop"
  BY <1>2 DEF FirstStep, Kinds
<1>5. current # None =>
        /\ current \in Processes /\ binding.cursor # None /\ context[current].cursor = binding.cursor
        /\ ActiveCursor = binding.cursor
  BY <1>1 DEF Conversations, Cursors, Starting, Startup, ActiveCursor
<1>6. current = None => ActiveCursor = None
  BY DEF ActiveCursor
<1>7. memory # None => binding.cursor = memory
  BY <1>1 DEF Kept
<1> HIDE DEF i
<1>8. Cursors'
  BY <1>1, <1>3, <1>4, <1>5 DEF Cursors, Starting, Startup, Idle
<1>9. Kept'
  <2>1. job' # Idle => job'.cursor = ActiveCursor \/ (job'.cursor = None /\ job'.kind # "takeover")
    BY <1>3
  <2> QED
    BY <1>1, <1>3, <1>4, <1>5, <1>6, <1>7, <2>1 DEF Kept, Starting, Startup, Idle
<1> QED
  BY <1>8, <1>9

LEMMA StopCursors ==
  ASSUME ProviderTypes, Cursors, Kept, StopSession \/ StartFails \/ RemoveBinding
  PROVE  Cursors' /\ Kept'
<1>1. job \in Jobs /\ current \in Conversations
  BY DEF ProviderTypes, JobTypes, ManagerTypes
<1>2. CASE StopSession
  <2>1. /\ UNCHANGED <<binding, memory>> /\ job.at = "stop" /\ job'.kind = job.kind
        /\ job'.cursor = job.cursor /\ job'.recovering = job.recovering
        /\ \/ binding = NoBinding /\ job'.at = "failed" /\ UNCHANGED <<current, context>>
           \/ current' = None /\ job'.at = "remove"
    BY <1>1, <1>2 DEF StopSession, GoTo, Jobs, ghosts, manager, StopCurrent
  <2>2. binding = NoBinding => binding.cursor = None
    BY DEF NoBinding
  <2> QED
    BY <1>1, <2>1, <2>2 DEF Cursors, Kept, Starting, Startup, Conversations
<1>3. CASE StartFails
  <2>1. /\ UNCHANGED <<binding, memory>> /\ job.at \in Startup /\ job'.kind = job.kind /\ job'.at = "failed"
        /\ job'.recovering = job.recovering /\ current' = None
    BY <1>1, <1>3 DEF StartFails, GoTo, Jobs, ghosts, StopCurrent, manager
  <2> QED
    BY <2>1 DEF Cursors, Kept, Starting, Startup
<1>4. CASE RemoveBinding
  <2>1. /\ binding' = NoBinding /\ UNCHANGED current /\ job.at = "remove" /\ job'.kind = job.kind
        /\ job'.cursor = job.cursor /\ job'.recovering = job.recovering /\ current = None
        /\ \/ job.kind = "takeover" /\ job'.at = "start" /\ memory' = memory
           \/ job.kind # "takeover" /\ job'.at = "stopped" /\ memory' = None
    BY <1>1, <1>4 DEF RemoveBinding, GoTo, Jobs, manager, Cursors
  <2> QED
    BY <2>1 DEF Cursors, Kept, Starting, Startup, NoBinding
<1> QED
  BY <1>2, <1>3, <1>4

LEMMA SpawnCursors ==
  ASSUME ProviderTypes, Cursors, Kept, Spawn
  PROVE  Cursors' /\ Kept'
<1>1. job \in Jobs /\ context \in [Processes -> Contexts]
  BY DEF ProviderTypes, JobTypes, ManagerTypes
<1>2. PICK q \in Processes :
        /\ context' = [context EXCEPT ![q] = [NoContext EXCEPT !.mode = job.mode, !.waits = TRUE]]
        /\ current' = q
        /\ job' = [job EXCEPT !.at = "initialize", !.process = q,
                     !.cursor = IF job.cursor # None THEN job.cursor ELSE binding.cursor]
  BY DEF Spawn
<1>3. /\ job.at = "start" /\ UNCHANGED <<binding, memory>>
      /\ job'.at = "initialize" /\ job'.process = q /\ job'.kind = job.kind /\ job'.recovering = job.recovering
      /\ job'.cursor = IF job.cursor # None THEN job.cursor ELSE binding.cursor
  BY <1>1, <1>2 DEF Spawn, Jobs, ghosts
<1>4. context'[q].cursor = None
  BY <1>1, <1>2 DEF NoContext
<1>5. Cursors'
  BY <1>2, <1>3, <1>4 DEF Cursors, Starting, Startup
<1>6. Kept'
  BY <1>2, <1>3, <1>4, NoneIsNone DEF Kept, Starting, Startup
<1> QED
  BY <1>5, <1>6

LEMMA StartCursors ==
  ASSUME ProviderTypes, Requested, Cursors, Kept, ContinueStart \/ SessionReady
  PROVE  Cursors' /\ Kept'
<1>1. /\ job \in Jobs /\ context \in [Processes -> Contexts] /\ job.at \in Startup /\ answer # None
      /\ job.process \in Processes /\ current \in {None, job.process}
      /\ UNCHANGED <<binding, current>>
  BY DEF ProviderTypes, JobTypes, ManagerTypes, ContinueStart, SessionReady, Requesting, Serving
<1>2. CASE ContinueStart
  <2>1. /\ NextRequest \in Startup /\ job'.at = NextRequest /\ job'.kind = job.kind
        /\ job'.recovering = job.recovering /\ job'.process = job.process /\ job'.cursor = job.cursor
        /\ memory' = IF answer = "not found" THEN None ELSE memory
    BY <1>1, <1>2 DEF ContinueStart, GoTo, Jobs
  <2>2. \A p \in Processes : context'[p].cursor = context[p].cursor
    <3>1. context' = context \/ context' = [context EXCEPT ![job.process].waits = TRUE]
      BY <1>2 DEF ContinueStart, SendRequest
    <3> QED
      BY <1>1, <3>1 DEF Contexts
  <2>3. /\ NextRequest = "thread/resume" => job.cursor # None
        /\ NextRequest = "thread/start" => job.cursor = None \/ answer = "not found"
    BY <2>1 DEF NextRequest, Startup
  <2>4. Cursors'
    BY <1>1, <2>1, <2>2, <2>3 DEF Cursors, Starting, Startup
  <2>5. Kept'
    BY <1>1, <2>1, <2>2, <2>3 DEF Kept, Starting, Startup
  <2> QED
    BY <2>4, <2>5
<1>3. CASE SessionReady
  <2>1. /\ job.at \in {"thread/resume", "thread/start"} /\ answer = "ok" /\ UNCHANGED memory
        /\ job'.at = "bound" /\ job'.kind = job.kind /\ job'.process = job.process
        /\ job'.recovering = job.recovering
        /\ context' = [context EXCEPT ![job.process].cursor = child[job.process].conversation]
    BY <1>1, <1>3 DEF SessionReady, GoTo, Jobs, NextRequest, ghosts, Startup
  <2>2. PICK v : v = child[job.process].conversation
    OBVIOUS
  <2>3. v = IF job.at = "thread/resume" THEN job.cursor ELSE job.process
    BY <1>1, <2>1, <2>2 DEF Requested, OkMeans
  <2>4. v # None /\ (memory # None => v = memory)
    BY <1>1, <2>1, <2>3, NoneIsNone DEF Cursors, Kept
  <2>5. context'[job.process].cursor = v
    BY <1>1, <2>1, <2>2 DEF Contexts
  <2>6. Cursors'
    BY <1>1, <2>1, <2>4, <2>5 DEF Cursors, Starting, Startup
  <2>7. Kept'
    BY <1>1, <2>1, <2>4, <2>5 DEF Kept, Starting, Startup
  <2> QED
    BY <2>6, <2>7
<1> QED
  BY <1>2, <1>3

\* The steps that write the row
LEMMA RowCursors ==
  ASSUME ProviderTypes, Cursors, Kept, UpsertBinding \/ RecordTurn
  PROVE  Cursors' /\ Kept'
<1>1. /\ job \in Jobs /\ UNCHANGED <<context, current, memory>> /\ job.at \in {"bound", "record"}
      /\ job.process \in Processes /\ current \in {None, job.process}
      /\ binding'.cursor = IF context[job.process].cursor # None THEN context[job.process].cursor ELSE binding.cursor
  BY DEF UpsertBinding, RecordTurn, Upsert, manager, ghosts, ProviderTypes, JobTypes, Serving
<1>2. CASE UpsertBinding
  <2>1. /\ job.at = "bound" /\ job'.kind = job.kind /\ job'.recovering = job.recovering
        /\ job'.at = IF job.recovering THEN "operate" ELSE "show"
    BY <1>1, <1>2 DEF UpsertBinding, GoTo, Jobs
  <2>2. Cursors'
    BY <1>1, <2>1 DEF Cursors, Starting, Startup
  <2>3. Kept'
    BY <1>1, <2>1 DEF Cursors, Kept, Starting, Startup
  <2> QED
    BY <2>2, <2>3
<1>3. CASE RecordTurn
  <2>1. job.at = "record" /\ job' = Idle /\ job.kind = "turn"
    BY <1>3 DEF RecordTurn, ProviderTypes, JobTypes
  <2>2. Cursors'
    BY <1>1, <2>1 DEF Cursors, Starting, Startup, Idle
  <2>3. Kept'
    BY <1>1, <2>1 DEF Kept, Starting, Startup, Idle
  <2> QED
    BY <2>2, <2>3
<1> QED
  BY <1>2, <1>3

\* A turn goes to the conversation of the row, which is the last turn's.
LEMMA SendTurnCursors ==
  ASSUME ProviderTypes, Cursors, Kept, SendTurn
  PROVE  Cursors' /\ Kept' /\ (memory # None => memory' = memory)
<1>1. /\ job \in Jobs /\ context \in [Processes -> Contexts] /\ current \in Conversations
      /\ job.at = "operate" /\ job.kind = "turn" /\ UNCHANGED <<binding, current>>
  BY DEF ProviderTypes, JobTypes, ManagerTypes, SendTurn
<1>2. CASE current = None
  <2>1. memory' = memory /\ job'.kind = "turn" /\ job'.at = "failed"
    BY <1>1, <1>2 DEF SendTurn, GoTo, Jobs
  <2> QED
    BY <1>1, <1>2, <2>1 DEF Cursors, Kept, Starting, Startup
<1>3. CASE current # None
  <2>1. /\ memory' = context[current].cursor /\ current \in Processes
        /\ job'.kind = "turn" /\ job'.at = "turn/start" /\ job'.process = current
    BY <1>1, <1>3 DEF SendTurn, Jobs, Conversations
  <2>2. \A p \in Processes : context'[p].cursor = context[p].cursor
    BY <1>1, <1>3 DEF SendTurn, SendRequest, Contexts
  <2>3. binding.cursor # None /\ context[current].cursor = binding.cursor
    BY <1>1, <1>3 DEF Cursors, Starting, Startup
  <2>4. memory # None => binding.cursor = memory
    BY <1>1 DEF Kept
  <2>5. Cursors'
    BY <1>1, <2>1, <2>2, <2>3 DEF Cursors, Starting, Startup
  <2>6. Kept'
    BY <1>1, <2>1, <2>2, <2>3 DEF Kept, Starting, Startup
  <2> QED
    BY <2>1, <2>3, <2>4, <2>5, <2>6
<1> QED
  BY <1>2, <1>3

LEMMA RestartCursors ==
  ASSUME ProviderTypes, Cursors, Kept, RestartServer
  PROVE  Cursors' /\ Kept'
<1>1. /\ job' = Idle /\ current' = None /\ current \in Conversations
      /\ memory' = IF job.kind = "takeover" /\ binding'.cursor = None THEN None ELSE memory
      /\ \/ binding' = binding
         \/ /\ current # None
            /\ binding'.cursor = IF context[current].cursor # None THEN context[current].cursor ELSE binding.cursor
  <2>1. /\ job' = Idle /\ current' = None /\ current \in Conversations
        /\ memory' = IF job.kind = "takeover" /\ binding'.cursor = None THEN None ELSE memory
    BY DEF RestartServer, TakeoverLost, ProviderTypes, ManagerTypes
  <2>2. \/ binding' = binding
        \/ current # None /\ binding' = Upsert(context[current].cursor, context[current].mode)
    BY DEF RestartServer
  <2> QED
    BY <2>1, <2>2 DEF Upsert
<1>2. Cursors'
  BY <1>1 DEF Cursors, Starting, Startup, Idle
<1>3. Kept'
  BY <1>1 DEF Kept, Starting, Startup, Idle
<1> QED
  BY <1>2, <1>3

(* While no start is under way the session's conversation is the row's, and *)
(* the row's, or a takeover's, is that of the thread's last turn.           *)
THEOREM CursorsHold == Spec => [](Cursors /\ Kept)
<1>1. ASSUME Init PROVE Cursors /\ Kept
  BY <1>1 DEF Init, Cursors, Kept, Starting, Startup, Idle
<1>2. ASSUME ProviderTypes, Requested, Cursors, Kept, Next PROVE Cursors' /\ Kept'
  <2>1. CASE Users \/ Ingest \/ SetSession \/ \E p \in Processes : Manager(p) \/ AppServer(p)
    BY <1>2, <2>1, OtherCursors
  <2>2. CASE SyncBinding
    BY <1>2, <2>2, SyncCursors
  <2>3. CASE Reactor
    BY <1>2, <2>3, MovesCursors, TakeIntentCursors, StopCursors, SpawnCursors, StartCursors, RowCursors,
       SendTurnCursors DEF Reactor
  <2>4. CASE RestartServer
    BY <1>2, <2>4, RestartCursors
  <2> QED
    BY <1>2, <2>1, <2>2, <2>3, <2>4 DEF Next
<1>3. ASSUME ProviderTypes, Cursors, Kept, UNCHANGED vars PROVE Cursors' /\ Kept'
  BY <1>3, OtherCursors
<1> QED
  BY <1>1, <1>2, <1>3, ProviderTypesHold, RequestsHold, PTL DEF Spec

(* Every turn goes to the conversation of the turn before it, unless the    *)
(* conversation was given up (resume cursors of manager and directory).     *)
THEOREM TurnsKeepTheConversation == Spec => ConversationIsKept
<1>1. ASSUME ProviderTypes, Cursors, Kept, Next
      PROVE  SendTurn /\ memory # None => memory' = memory
  BY <1>1, SendTurnCursors
<1>2. UNCHANGED vars => (SendTurn /\ memory # None => memory' = memory)
  BY DEF vars, ghosts
<1>3. ProviderTypes /\ Cursors /\ Kept /\ [Next]_vars => [SendTurn /\ memory # None => memory' = memory]_vars
  BY <1>1, <1>2
<1> QED
  BY <1>3, ProviderTypesHold, CursorsHold, PTL DEF Spec, ConversationIsKept

(***************************************************************************)
(* A session shown as usable can be routed to.  Without one of the excuses *)
(* only the session's app-server lives, so what could make the session     *)
(* usable after it is gone is followed by the event of its end.            *)
(***************************************************************************)
Usable(s) == s.status \in {"ready", "running"}

Unexcused == excuses \cap {"read after exit", "left a session", "started over a session"} = {}

MakesUsable(e) == e.type \in {"ready", "turnStarted", "turnCompleted"}

Exits(s) == \E i \in DOMAIN s : s[i].type = "exited"

\* Every event that makes a session usable is followed by one that ends it.
Covered(s) ==
  \A i \in DOMAIN s : MakesUsable(s[i]) => \E j \in DOMAIN s : j > i /\ s[j].type = "exited"

ExitComes == Exits(ingestion) \/ Exits(runtime)

OneLives ==
  \A p \in Processes :
    /\ child[p].life \in {"running", "dead"} => current = p
    /\ child[p].life \in {"unborn", "killed", "left"} => stdout[p] = <<>>

StartServes == job.at \in Startup /\ answer = "ok" => current = job.process

EventsCovered ==
  \/ current # None
  \/ Covered(runtime) /\ (Covered(ingestion) \/ Exits(runtime))

WritingCovered == writing # None /\ Usable(writing) => current # None \/ ExitComes

ShownIsBound == job.at = "show" => binding # NoBinding

\* The row is gone, or is about to be removed.
Unbound == binding = NoBinding \/ (job.kind = "takeover" /\ job.at \in {"stop", "remove"})

UsableIsServed ==
  Usable(session) /\ Unbound =>
    \/ current # None \/ ExitComes
    \/ writing # None /\ ~Usable(writing)
    \/ job.kind = "stop" /\ job.at = "stopped"
    \/ job.at = "bound"

Served == OneLives /\ StartServes /\ EventsCovered /\ WritingCovered /\ ShownIsBound /\ UsableIsServed

StopKinds ==
  /\ job.at \in {"stop", "remove"} => job.kind \in {"stop", "takeover"}
  /\ job.at = "stopped" => job.kind = "stop"

Routable == StopKinds /\ (Unexcused => Served)

LEMMA EmptyCovered == Covered(<<>>) /\ ~Exits(<<>>)
  BY DEF Covered, Exits

LEMMA CoveredAppend ==
  ASSUME NEW s \in Seq(Events), NEW e \in Events
  PROVE  /\ Exits(s) => Exits(Append(s, e))
         /\ e.type = "exited" => Exits(Append(s, e)) /\ Covered(Append(s, e))
         /\ Covered(s) /\ ~MakesUsable(e) => Covered(Append(s, e))
<1>1. PICK n \in Nat : /\ DOMAIN s = 1..n /\ DOMAIN Append(s, e) = 1..(n + 1)
                       /\ \A i \in 1..n : Append(s, e)[i] = s[i]
                       /\ Append(s, e)[n + 1] = e
  <2>1. /\ Len(s) \in Nat /\ DOMAIN s = 1..Len(s) /\ DOMAIN Append(s, e) = 1..(Len(s) + 1)
        /\ \A i \in 1..Len(s) : Append(s, e)[i] = s[i]
        /\ Append(s, e)[Len(s) + 1] = e
    OBVIOUS
  <2> QED
    BY <2>1
<1>2. /\ \A i \in 1..n : i \in 1..(n + 1) /\ n + 1 > i
      /\ n + 1 \in 1..(n + 1)
      /\ \A i \in 1..(n + 1) : i \in 1..n \/ i = n + 1
  OBVIOUS
<1> DEFINE u == Append(s, e)
<1> HIDE DEF u
<1>3. /\ DOMAIN s = 1..n /\ DOMAIN u = 1..(n + 1) /\ \A i \in 1..n : u[i] = s[i]
      /\ u[n + 1] = e
  BY <1>1 DEF u
<1>4. Exits(s) => Exits(u)
  BY <1>2, <1>3 DEF Exits
<1>5. e.type = "exited" => Exits(u) /\ Covered(u)
  <2>1. e.type = "exited" => ~MakesUsable(e)
    BY DEF MakesUsable
  <2> QED
    BY <1>2, <1>3, <2>1 DEF Exits, Covered
<1>6. Covered(s) /\ ~MakesUsable(e) => Covered(u)
  BY <1>2, <1>3 DEF Covered
<1> QED
  BY <1>4, <1>5, <1>6 DEF u

LEMMA CoveredTail ==
  ASSUME NEW s \in Seq(Events), s # <<>>
  PROVE  /\ Covered(s) => Covered(Tail(s))
         /\ Exits(s) => Exits(Tail(s)) \/ Head(s).type = "exited"
         /\ Exits(Tail(s)) => Exits(s)
         /\ Covered(s) /\ MakesUsable(Head(s)) => Exits(Tail(s))
<1> DEFINE u == Tail(s)
           h == Head(s)
<1>1. PICK n \in Nat : /\ DOMAIN s = 1..(n + 1) /\ DOMAIN u = 1..n
                       /\ h = s[1] /\ \A i \in 1..n : u[i] = s[i + 1]
  <2>1. /\ Len(s) \in Nat \ {0} /\ DOMAIN s = 1..Len(s) /\ DOMAIN u = 1..(Len(s) - 1)
        /\ h = s[1] /\ \A i \in 1..(Len(s) - 1) : u[i] = s[i + 1]
    BY TailTyped
  <2>2. Len(s) - 1 \in Nat /\ Len(s) = (Len(s) - 1) + 1
    BY <2>1
  <2> QED
    BY <2>1, <2>2
<1> HIDE DEF u, h
<1>2. \A i \in 1..n : i + 1 \in 1..(n + 1)
  OBVIOUS
<1>3. \A j \in 1..(n + 1) : j # 1 => \E k \in 1..n : j = k + 1
  <2> TAKE j \in 1..(n + 1)
  <2>1. j # 1 => j - 1 \in 1..n /\ j = (j - 1) + 1
    OBVIOUS
  <2> QED
    BY <2>1
<1>4. \A i, k \in 1..n : k + 1 > i + 1 => k > i
  OBVIOUS
<1>5. \A i \in 1..n : i + 1 > 1
  OBVIOUS
<1>6. \A j \in 1..(n + 1) : \A i \in 1..n : j > i + 1 => j # 1
  OBVIOUS
<1>7. 1 \in 1..(n + 1) /\ ~(1 > 1)
  OBVIOUS
<1>8. Exits(u) => Exits(s)
  BY <1>1, <1>2 DEF Exits
<1>9. Exits(s) => Exits(u) \/ h.type = "exited"
  <2>1. SUFFICES ASSUME NEW j \in 1..(n + 1), s[j].type = "exited" PROVE Exits(u) \/ h.type = "exited"
    BY <1>1 DEF Exits
  <2>2. CASE j = 1
    BY <1>1, <2>1, <2>2
  <2>3. CASE j # 1
    <3>1. PICK k \in 1..n : j = k + 1
      BY <1>3, <2>3
    <3>2. u[k].type = "exited" /\ k \in DOMAIN u
      BY <1>1, <2>1, <3>1
    <3> QED
      BY <3>2 DEF Exits
  <2> QED
    BY <2>2, <2>3
<1>10. ASSUME Covered(s), NEW i \in 1..n, MakesUsable(u[i])
       PROVE  \E k \in 1..n : k > i /\ u[k].type = "exited"
  <2>1. i + 1 \in DOMAIN s /\ MakesUsable(s[i + 1])
    BY <1>1, <1>2, <1>10
  <2>2. PICK j \in 1..(n + 1) : j > i + 1 /\ s[j].type = "exited"
    BY <1>1, <1>10, <2>1 DEF Covered
  <2>3. PICK k \in 1..n : j = k + 1
    BY <1>3, <1>6, <2>2
  <2>4. k > i
    BY <1>4, <2>2, <2>3
  <2>5. u[k].type = "exited"
    BY <1>1, <2>2, <2>3
  <2> QED
    BY <2>4, <2>5
<1>11. Covered(s) => Covered(u)
  BY <1>1, <1>10 DEF Covered
<1>12. ASSUME Covered(s), MakesUsable(h) PROVE Exits(u)
  <2>1. PICK j \in 1..(n + 1) : j > 1 /\ s[j].type = "exited"
    BY <1>1, <1>7, <1>12 DEF Covered
  <2>2. PICK k \in 1..n : j = k + 1
    BY <1>3, <1>7, <2>1
  <2>3. u[k].type = "exited" /\ k \in DOMAIN u
    BY <1>1, <2>1, <2>2
  <2> QED
    BY <2>3 DEF Exits
<1> QED
  BY <1>8, <1>9, <1>11, <1>12 DEF u, h

\* No process comes to life, and none that is gone writes.
Lives ==
  \A p \in Processes :
    /\ child'[p].life \in {"running", "dead"} => child[p].life \in {"running", "dead"}
    /\ child'[p].life \in {"unborn", "killed", "left"} =>
         child[p].life \in {"unborn", "killed", "left"} /\ (stdout[p] = <<>> => stdout'[p] = <<>>)

LEMMA SettledServed ==
  ASSUME Routable, UNCHANGED <<writing, ingestion, runtime, binding, current, excuses>>, Lives, StopKinds',
         job'.at \in Startup /\ answer' = "ok" =>
           job.at \in Startup /\ answer = "ok" /\ job'.process = job.process,
         job'.at = "show" => job.at = "show",
         Usable(session') => session' = session,
         Usable(session') /\ Unbound' =>
           /\ Unbound
           /\ job.kind = "stop" /\ job.at = "stopped" => job'.kind = "stop" /\ job'.at = "stopped"
           /\ job.at = "bound" => job'.at = "bound"
  PROVE  Routable'
<1>1. ASSUME Unexcused, Served PROVE Served'
  <2>1. OneLives' /\ StartServes' /\ EventsCovered'
    BY <1>1 DEF Served, OneLives, Lives, StartServes, EventsCovered
  <2>2. WritingCovered' /\ ShownIsBound'
    BY <1>1 DEF Served, WritingCovered, ExitComes, ShownIsBound
  <2>3. UsableIsServed'
    BY <1>1 DEF Served, UsableIsServed, ExitComes
  <2> QED
    BY <2>1, <2>2, <2>3 DEF Served
<1> QED
  BY <1>1 DEF Routable, Unexcused

LEMMA OtherServed ==
  ASSUME ProviderTypes, Routable,
         \/ Users \/ UNCHANGED vars
         \/ \E p \in Processes : AppServer(p) \/ RequestTimesOut(p)
  PROVE  Routable'
<1>1. child \in [Processes -> Children] /\ stdout \in [Processes -> Seq(Lines)]
  BY DEF ProviderTypes, ManagerTypes
<1>2. CASE Users \/ UNCHANGED vars
  <2>1. UNCHANGED <<job, answer, session, writing, ingestion, runtime, binding, current, excuses, child, stdout>>
    BY <1>2 DEF Users, AskForTurn, AnswerApproval, ChangeMode, AskOther, Ask, reactor, manager, vars, thread
  <2> QED
    BY <2>1, SettledServed DEF Lives, Routable, StopKinds, Unbound
<1>3. ASSUME NEW p \in Processes, AppServer(p) PROVE Routable'
  <2>1. PICK lines \in Seq(Lines), after \in Children : Writes(p, lines, after) /\ after.life \in {"running", "dead"}
    BY <1>3, AppServerWrites
  <2>2. /\ UNCHANGED <<job, answer, session, writing, ingestion, runtime, binding, current, excuses>>
        /\ stdout' = [stdout EXCEPT ![p] = stdout[p] \o lines] /\ child' = [child EXCEPT ![p] = after]
    BY <2>1 DEF Writes, reactor, thread
  <2>3. Lives
    <3>1. Runs(p)
      BY <1>3, AppServerWrites
    <3> QED
      BY <1>1, <2>1, <2>2, <3>1 DEF Lives, Runs
  <2> QED
    BY <2>2, <2>3, SettledServed DEF Routable, StopKinds, Unbound
<1>4. ASSUME NEW p \in Processes, RequestTimesOut(p) PROVE Routable'
  <2>1. /\ UNCHANGED <<job, child, session, writing, ingestion, runtime, binding, current, excuses>>
        /\ stdout' = [stdout EXCEPT ![p] = WithoutResponse(stdout[p])] /\ answer' = "error"
    BY <1>4 DEF RequestTimesOut, thread
  <2>2. WithoutResponse(<<>>) = <<>>
    BY DEF WithoutResponse
  <2>3. Lives
    BY <1>1, <2>1, <2>2 DEF Lives
  <2> QED
    BY <2>1, <2>3, SettledServed DEF Routable, StopKinds, Unbound
<1> QED
  BY <1>2, <1>3, <1>4

\* The reactor's steps that tell nothing
LEMMA MovesServed ==
  ASSUME ProviderTypes, ProviderTypes', Routable,
         \/ Route \/ TurnAccepted \/ TurnRefused \/ SendTurn \/ Interrupt \/ InterruptAnswered
         \/ RespondToRequest \/ ContinueStart \/ GiveUp \/ SetStopped
  PROVE  Routable'
<1>1. job \in Jobs /\ child \in [Processes -> Children]
  BY DEF ProviderTypes, JobTypes, ManagerTypes
<1>2. UNCHANGED <<writing, ingestion, runtime, binding, current, stdout>> /\ (excuses' = excuses \/ SetStopped)
  BY DEF Route, TurnAccepted, TurnRefused, SendTurn, Interrupt, InterruptAnswered, RespondToRequest,
     ContinueStart, GiveUp, SetStopped, thread, manager
<1>3. UNCHANGED session \/ session'.status \in {"error", "stopped"}
  <2>1. CASE GiveUp
    BY <2>1 DEF GiveUp
  <2>2. CASE SetStopped
    BY <2>2 DEF SetStopped, ShowStopped
  <2>3. CASE Route \/ TurnAccepted \/ TurnRefused \/ SendTurn \/ Interrupt \/ InterruptAnswered
             \/ RespondToRequest \/ ContinueStart
    BY <2>3 DEF Route, TurnAccepted, TurnRefused, SendTurn, Interrupt, InterruptAnswered, RespondToRequest,
       ContinueStart, thread
  <2> QED
    BY <2>1, <2>2, <2>3
<1>4. Lives
  <2>1. \A p \in Processes : child'[p].life = child[p].life
    <3>1. CASE SendTurn \/ Interrupt \/ ContinueStart
      <4>1. child' = child \/ \E p, s : child' = [child EXCEPT ![p].asked = s]
        BY <3>1 DEF SendTurn, Interrupt, ContinueStart, SendRequest
      <4>2. \A c \in Children : \A s : [c EXCEPT !.asked = s].life = c.life
        BY DEF Children
      <4>3. ASSUME NEW p, NEW s, child' = [child EXCEPT ![p].asked = s], NEW q \in Processes
            PROVE  child'[q].life = child[q].life
        BY <1>1, <4>2, <4>3
      <4> QED
        BY <4>1, <4>3
    <3>2. CASE RespondToRequest
      <4>1. child' = child \/ child' = [child EXCEPT ![current].asking = FALSE]
        BY <3>2 DEF RespondToRequest
      <4> QED
        BY <1>1, <4>1 DEF Children
    <3>3. CASE Route \/ TurnAccepted \/ TurnRefused \/ InterruptAnswered \/ GiveUp \/ SetStopped
      <4>1. UNCHANGED child
        BY <3>3 DEF Route, TurnAccepted, TurnRefused, InterruptAnswered, GiveUp, SetStopped, manager
      <4> QED
        BY <4>1
    <3> QED
      BY <3>1, <3>2, <3>3
  <2> QED
    BY <1>2, <2>1 DEF Lives
<1>5. /\ job.at \notin {"bound", "stop", "remove", "show"} /\ (job.at = "stopped" => SetStopped)
      /\ job'.at \notin {"stop", "remove", "stopped", "show"}
  <2>1. CASE job' = Idle
    BY <2>1 DEF Idle, Route, TurnAccepted, TurnRefused, SendTurn, Interrupt, InterruptAnswered, RespondToRequest,
       ContinueStart, GiveUp, SetStopped, Startup
  <2>2. CASE ContinueStart
    <3>1. job.at \in Startup /\ NextRequest \in Startup /\ job' = [job EXCEPT !.at = NextRequest]
      BY <2>2 DEF ContinueStart, GoTo
    <3>2. job'.at = NextRequest
      BY <1>1, <3>1 DEF Jobs
    <3> QED
      BY <3>1, <3>2 DEF Startup
  <2>3. CASE Route \/ TurnAccepted \/ TurnRefused
    BY <1>1, <2>3 DEF Route, TurnAccepted, TurnRefused, GoTo, Jobs
  <2>4. CASE (SendTurn \/ Interrupt) /\ job' # Idle
    BY <1>1, <2>4 DEF SendTurn, Interrupt, GoTo, Jobs
  <2> QED
    BY <2>1, <2>2, <2>3, <2>4 DEF InterruptAnswered, RespondToRequest, GiveUp, SetStopped
<1>6. answer' # "ok" \/ job'.at \notin Startup
  <2>1. CASE ContinueStart
    BY <2>1, NoneIsNone DEF ContinueStart, SendRequest, Answers
  <2>2. CASE SendTurn \/ Interrupt
    <3>1. job.at = "operate" /\ job.at \notin Requesting
      BY <2>2 DEF SendTurn, Interrupt, Requesting, Startup
    <3>2. answer = None
      BY <3>1, NothingWaits
    <3> QED
      BY <2>2, <3>2, NoneIsNone DEF SendTurn, Interrupt, SendRequest, Answers
  <2>3. CASE Route \/ TurnAccepted \/ TurnRefused
    BY <1>1, <2>3 DEF Route, TurnAccepted, TurnRefused, GoTo, Jobs, Startup
  <2>4. CASE job' = Idle
    BY <2>4 DEF Idle, Startup
  <2> QED
    BY <2>1, <2>2, <2>3, <2>4 DEF InterruptAnswered, RespondToRequest, GiveUp, SetStopped
<1>7. StopKinds'
  BY <1>5 DEF StopKinds
<1>8. Usable(session') => UNCHANGED session /\ ~SetStopped
  <2>1. ASSUME SetStopped PROVE session'.status = "stopped"
    <3>1. session' = [status |-> "stopped", turn |-> None, mode |-> job.mode]
      BY <2>1 DEF SetStopped, ShowStopped
    <3> QED
      BY <3>1
  <2> QED
    BY <1>3, <2>1 DEF Usable
<1>9. CASE ~SetStopped
  BY <1>2, <1>4, <1>5, <1>6, <1>7, <1>8, <1>9, SettledServed DEF Unbound
<1>10. CASE SetStopped
  <2>1. Unexcused' => Unexcused
    BY <1>10 DEF SetStopped, Unexcused
  <2>2. ASSUME Served PROVE Served'
    <3>1. OneLives' /\ StartServes' /\ EventsCovered'
      BY <1>2, <1>4, <1>6, <2>2 DEF Served, OneLives, Lives, StartServes, EventsCovered
    <3>2. WritingCovered' /\ ShownIsBound' /\ UsableIsServed'
      BY <1>2, <1>5, <1>8, <1>10, <2>2 DEF Served, WritingCovered, ExitComes, ShownIsBound, UsableIsServed
    <3> QED
      BY <3>1, <3>2 DEF Served
  <2> QED
    BY <1>7, <2>1, <2>2 DEF Routable
<1> QED
  BY <1>9, <1>10

\* Excuses are never taken back.
LEMMA ExcusesGrow ==
  ASSUME Next
  PROVE  excuses \subseteq excuses'
<1>1. CASE Users
  BY <1>1 DEF Users, AskForTurn, AnswerApproval, ChangeMode, AskOther, Ask
<1>2. CASE TakeIntent \/ GiveUp \/ Route \/ StopSession \/ RemoveBinding \/ SetStopped
  BY <1>2 DEF TakeIntent, GiveUp, Route, StopSession, RemoveBinding, SetStopped
<1>3. CASE SpawnFails \/ Spawn \/ ContinueStart \/ SessionReady \/ StartFails \/ UpsertBinding
  BY <1>3 DEF SpawnFails, Spawn, ExcuseReplacement, ContinueStart, SessionReady, StartFails, UpsertBinding
<1>4. CASE ShowSession \/ SendTurn \/ TurnAccepted \/ TurnRefused \/ RecordTurn
  BY <1>4 DEF ShowSession, SendTurn, TurnAccepted, TurnRefused, RecordTurn
<1>5. CASE Interrupt \/ InterruptAnswered \/ RespondToRequest
  BY <1>5 DEF Interrupt, InterruptAnswered, RespondToRequest
<1>6. ASSUME NEW p \in Processes, Manager(p) PROVE excuses \subseteq excuses'
  BY <1>6, HearErrorLeaves DEF Manager, RequestTimesOut, ReadLine, ExitEvent
<1>7. ASSUME NEW p \in Processes, AppServer(p) PROVE excuses \subseteq excuses'
  BY <1>7 DEF AppServer, Accepts, Refuses, BeginsTurn, HeedsInterrupt, AsksForApproval, EndsTurn, Dies, Writes
<1>8. CASE SyncBinding \/ Ingest \/ SetSession \/ RestartServer
  BY <1>8 DEF SyncBinding, Ingest, SetSession, RestartServer
<1> QED
  BY <1>1, <1>2, <1>3, <1>4, <1>5, <1>6, <1>7, <1>8 DEF Next, Reactor

LEMMA ExcusesStay ==
  ASSUME Next
  PROVE  Unexcused' => Unexcused
BY ExcusesGrow DEF Unexcused

LEMMA OneEvent ==
  ASSUME NEW s \in Seq(Events), NEW e \in Events
  PROVE  s \o <<e>> = Append(s, e) /\ s \o <<>> = s
  OBVIOUS

LEMMA EventsAre ==
  \A type \in {"starting", "ready", "exited", "error"} :
    Event(type, None) \in Events /\ Event(type, None).type = type
  BY DEF Event, Events, SomeTurn, TurnEventTypes

\* An end is told, and nothing that makes the session usable comes after it.
LEMMA Emitted ==
  ASSUME RuntimeTypes, NEW type \in {"starting", "ready", "exited", "error"}, Emit(<<Event(type, None)>>)
  PROVE  /\ runtime' = Append(runtime, Event(type, None))
         /\ Exits(runtime) => Exits(runtime')
         /\ type = "exited" => Exits(runtime') /\ Covered(runtime')
         /\ Covered(runtime) /\ type # "ready" => Covered(runtime')
<1> DEFINE e == Event(type, None)
<1>1. e \in Events /\ e.type = type
  BY EventsAre
<1>2. ~MakesUsable(e) <=> type # "ready"
  BY <1>1 DEF MakesUsable
<1>3. runtime' = Append(runtime, e)
  BY <1>1, OneEvent DEF Emit, RuntimeTypes
<1> HIDE DEF e
<1>4. /\ Exits(runtime) => Exits(Append(runtime, e))
      /\ e.type = "exited" => Exits(Append(runtime, e)) /\ Covered(Append(runtime, e))
      /\ Covered(runtime) /\ ~MakesUsable(e) => Covered(Append(runtime, e))
  BY <1>1, CoveredAppend DEF RuntimeTypes
<1> QED
  BY <1>1, <1>2, <1>3, <1>4 DEF e

(***************************************************************************)
(* Ingestion and the directory.                                            *)
(***************************************************************************)
LEMMA IngestServed ==
  ASSUME ProviderTypes, Routable, Ingest
  PROVE  Routable'
<1>1. /\ UNCHANGED <<session, job, answer, child, stdout, current, binding, runtime, excuses>>
      /\ writing = None /\ ingestion # <<>> /\ ingestion' = Tail(ingestion)
  BY DEF Ingest, reactor, manager
<1> DEFINE e == Head(ingestion)
<1>2. writing' = IF SessionAfter(e) = session THEN None ELSE SessionAfter(e)
  BY DEF Ingest
<1>3. e \in Events /\ session \in Sessions /\ ingestion \in Seq(Events)
  BY <1>1, TailTyped DEF ProviderTypes, ThreadTypes
<1>4. /\ Covered(ingestion) => Covered(ingestion')
      /\ Exits(ingestion) => Exits(ingestion') \/ e.type = "exited"
      /\ Covered(ingestion) /\ MakesUsable(e) => Exits(ingestion')
  BY <1>1, <1>3, CoveredTail
<1>5. SessionAfter(e) # session /\ Usable(SessionAfter(e)) => MakesUsable(e)
  BY <1>3 DEF SessionAfter, Usable, MakesUsable, AfterExit
<1>6. e.type = "exited" => SessionAfter(e) = [status |-> "stopped", turn |-> None, mode |-> session.mode]
  BY DEF SessionAfter, AfterExit
<1>7. e.type = "exited" /\ Usable(session) => writing' # None /\ ~Usable(writing')
  <2>1. ASSUME e.type = "exited", Usable(session) PROVE writing' # None /\ ~Usable(writing')
    <3>1. SessionAfter(e).status = "stopped"
      BY <1>6, <2>1
    <3>2. SessionAfter(e) # session /\ ~Usable(SessionAfter(e))
      BY <2>1, <3>1 DEF Usable
    <3>3. SessionAfter(e) \in Sessions
      BY <1>3, <1>6, <2>1 DEF Sessions, SomeTurn
    <3> QED
      BY <1>2, <3>2, <3>3, NoneAssumption
  <2> QED
    BY <2>1
<1> HIDE DEF e
<1>8. ASSUME Served PROVE Served'
  <2>1. OneLives' /\ StartServes' /\ ShownIsBound'
    BY <1>1, <1>8 DEF Served, OneLives, StartServes, ShownIsBound
  <2>2. EventsCovered'
    BY <1>1, <1>4, <1>8 DEF Served, EventsCovered
  <2>3. WritingCovered'
    BY <1>1, <1>2, <1>4, <1>5, <1>8 DEF Served, EventsCovered, WritingCovered, ExitComes
  <2>4. UsableIsServed'
    BY <1>1, <1>4, <1>7, <1>8 DEF Served, UsableIsServed, ExitComes, Unbound
  <2> QED
    BY <2>1, <2>2, <2>3, <2>4 DEF Served
<1> QED
  BY <1>1, <1>8 DEF Routable, Unexcused, StopKinds

LEMMA SetSessionServed ==
  ASSUME ProviderTypes, Routable, SetSession
  PROVE  Routable'
<1>1. /\ UNCHANGED <<job, answer, child, stdout, current, binding, runtime, ingestion, excuses>>
      /\ writing # None /\ session' = writing /\ writing' = None
  BY DEF SetSession, reactor, manager
<1>2. ASSUME Served PROVE Served'
  <2>1. OneLives' /\ StartServes' /\ ShownIsBound' /\ EventsCovered' /\ WritingCovered'
    BY <1>1, <1>2 DEF Served, OneLives, StartServes, ShownIsBound, EventsCovered, WritingCovered
  <2>2. UsableIsServed'
    BY <1>1, <1>2 DEF Served, WritingCovered, UsableIsServed, ExitComes, Unbound
  <2> QED
    BY <2>1, <2>2 DEF Served
<1> QED
  BY <1>1, <1>2 DEF Routable, Unexcused, StopKinds

\* A row that is written has a mode.
LEMMA Upserted ==
  ASSUME NEW cursor, NEW mode \in Modes
  PROVE  Upsert(cursor, mode) # NoBinding
<1>1. Upsert(cursor, mode).mode = mode /\ NoBinding.mode = None
  BY DEF Upsert, NoBinding
<1> QED
  BY <1>1, NoneAssumption

LEMMA SyncServed ==
  ASSUME ProviderTypes, Routable, SyncBinding
  PROVE  Routable'
<1> DEFINE h == Head(runtime)
<1>1. /\ UNCHANGED <<session, writing, job, answer, child, stdout, current, excuses>>
      /\ runtime # <<>> /\ runtime' = Tail(runtime) /\ ingestion' = Append(ingestion, h)
  BY DEF SyncBinding, reactor, manager
<1>2. runtime \in Seq(Events) /\ ingestion \in Seq(Events) /\ h \in Events
  BY <1>1, TailTyped DEF ProviderTypes, RuntimeTypes, ThreadTypes
<1>3. binding' = NoBinding => binding = NoBinding
  <2>1. CASE current # None
    <3>1. context[current].mode \in Modes
      BY <2>1 DEF ProviderTypes, ManagerTypes, Conversations, Contexts
    <3> QED
      BY <3>1, Upserted DEF SyncBinding
  <2>2. CASE current = None
    BY <2>2 DEF SyncBinding
  <2> QED
    BY <2>1, <2>2
<1>4. /\ Covered(runtime) => Covered(runtime')
      /\ Exits(runtime) => Exits(runtime') \/ h.type = "exited"
      /\ Covered(runtime) /\ MakesUsable(h) => Exits(runtime')
  BY <1>1, <1>2, CoveredTail
<1> HIDE DEF h
<1>5. /\ Exits(ingestion) => Exits(ingestion')
      /\ h.type = "exited" => Exits(ingestion') /\ Covered(ingestion')
      /\ Covered(ingestion) /\ ~MakesUsable(h) => Covered(ingestion')
  BY <1>1, <1>2, CoveredAppend
<1>6. ExitComes => ExitComes'
  BY <1>4, <1>5 DEF ExitComes
<1>7. ASSUME Served PROVE Served'
  <2>1. OneLives' /\ StartServes' /\ ShownIsBound'
    BY <1>1, <1>3, <1>7 DEF Served, OneLives, StartServes, ShownIsBound
  <2>2. EventsCovered'
    BY <1>1, <1>4, <1>5, <1>7 DEF Served, EventsCovered
  <2>3. WritingCovered'
    BY <1>1, <1>6, <1>7 DEF Served, WritingCovered
  <2>4. UsableIsServed'
    BY <1>1, <1>3, <1>6, <1>7 DEF Served, UsableIsServed, Unbound
  <2> QED
    BY <2>1, <2>2, <2>3, <2>4 DEF Served
<1> QED
  BY <1>1, <1>7 DEF Routable, Unexcused, StopKinds

(***************************************************************************)
(* The manager.                                                            *)
(***************************************************************************)
LEMMA ReadServed ==
  ASSUME ProviderTypes, Routable, NEW p \in Processes, ReadLine(p)
  PROVE  Routable'
<1>1. /\ UNCHANGED <<session, writing, ingestion, job, child, current, binding>>
      /\ stdout[p] # <<>> /\ stdout' = [stdout EXCEPT ![p] = Tail(stdout[p])]
      /\ answer = None \/ job.process = p
      /\ excuses' = IF child[p].life = "exited" THEN excuses \cup {"read after exit"} ELSE excuses
  BY DEF ReadLine, thread
<1>2. stdout \in [Processes -> Seq(Lines)] /\ child \in [Processes -> Children]
  BY DEF ProviderTypes, ManagerTypes
<1>3. answer' = answer \/ job.process = p
  <2>1. CASE Head(stdout[p]).type = "response"
    <3>1. stdout[p][1] = Head(stdout[p]) /\ 1 \in DOMAIN stdout[p]
      <4>1. stdout[p] \in Seq(Lines) /\ stdout[p] # <<>>
        BY <1>1, <1>2
      <4> QED
        BY <4>1
    <3>2. context[p].waits
      BY <2>1, <3>1 DEF ProviderTypes, Responses, OneResponse
    <3> QED
      BY <3>2 DEF ProviderTypes, Waiting
  <2>2. CASE Head(stdout[p]).type # "response"
    BY <2>2 DEF ReadLine
  <2> QED
    BY <2>1, <2>2
<1>4. Unexcused' => Unexcused /\ child[p].life # "exited"
  BY <1>1 DEF Unexcused
<1>5. ASSUME Served, child[p].life # "exited" PROVE Served'
  <2>1. child[p].life \in {"running", "dead"}
    BY <1>1, <1>2, <1>5 DEF Served, OneLives, Children
  <2>2. current = p
    BY <1>5, <2>1 DEF Served, OneLives
  <2>3. current # None
    BY <2>2, NoneAssumption
  <2>4. OneLives'
    <3>1. \A q \in Processes : q # p => stdout'[q] = stdout[q]
      BY <1>1, <1>2
    <3> QED
      BY <1>1, <1>5, <2>1, <3>1 DEF Served, OneLives
  <2>5. StartServes'
    BY <1>1, <1>3, <1>5, <2>2 DEF Served, StartServes
  <2>6. EventsCovered' /\ WritingCovered' /\ ShownIsBound' /\ UsableIsServed'
    BY <1>1, <1>5, <2>3 DEF Served, EventsCovered, WritingCovered, ShownIsBound, UsableIsServed
  <2> QED
    BY <2>4, <2>5, <2>6 DEF Served
<1> QED
  BY <1>1, <1>4, <1>5 DEF Routable, StopKinds

LEMMA HearErrorServed ==
  ASSUME ProviderTypes, Routable, NEW p \in Processes, HearError(p)
  PROVE  Routable'
<1>1. /\ UNCHANGED <<session, writing, ingestion, binding, child, stdout, current, job, answer, excuses>>
      /\ Emit(<<Event("error", None)>>)
  BY HearErrorLeaves DEF HearError
<1>2. (Exits(runtime) => Exits(runtime')) /\ (Covered(runtime) => Covered(runtime'))
  BY <1>1, Emitted DEF ProviderTypes
<1>3. ASSUME Served PROVE Served'
  <2>1. OneLives' /\ StartServes' /\ EventsCovered' /\ (ExitComes => ExitComes')
    BY <1>1, <1>2, <1>3 DEF Served, OneLives, StartServes, EventsCovered, ExitComes
  <2>2. WritingCovered' /\ ShownIsBound' /\ UsableIsServed'
    BY <1>1, <1>3, <2>1 DEF Served, WritingCovered, ShownIsBound, UsableIsServed, Unbound
  <2> QED
    BY <2>1, <2>2 DEF Served
<1> QED
  BY <1>1, <1>3 DEF Routable, Unexcused, StopKinds

LEMMA ExitServed ==
  ASSUME ProviderTypes, Routable, NEW p \in Processes, ExitEvent(p)
  PROVE  Routable'
<1>1. /\ UNCHANGED <<session, writing, ingestion, job, answer, stdout, binding, excuses>>
      /\ child[p].life = "dead" /\ answer = None /\ current' = None
      /\ child' = [child EXCEPT ![p].life = "exited"] /\ Emit(<<Event("exited", None)>>)
  BY DEF ExitEvent, thread, reactor
<1>2. child \in [Processes -> Children]
  BY DEF ProviderTypes, ManagerTypes
<1>3. child'[p].life = "exited" /\ \A q \in Processes : q # p => child'[q] = child[q]
  BY <1>1, <1>2 DEF Children
<1>4. Exits(runtime') /\ Covered(runtime')
  BY <1>1, Emitted DEF ProviderTypes
<1>5. ASSUME Served PROVE Served'
  <2>1. OneLives'
    <3>1. current = p
      BY <1>1, <1>5 DEF Served, OneLives
    <3> QED
      BY <1>1, <1>3, <1>5, <3>1 DEF Served, OneLives
  <2>2. StartServes' /\ EventsCovered'
    BY <1>1, <1>4, NoneAssumption DEF StartServes, EventsCovered
  <2>3. WritingCovered' /\ UsableIsServed'
    BY <1>4 DEF WritingCovered, UsableIsServed, ExitComes
  <2>4. ShownIsBound'
    BY <1>1, <1>5 DEF Served, ShownIsBound
  <2> QED
    BY <2>1, <2>2, <2>3, <2>4 DEF Served
<1> QED
  BY <1>1, <1>5 DEF Routable, Unexcused, StopKinds

LEMMA StopCurrentAlone ==
  ASSUME ProviderTypes, OneLives, NEW events, StopCurrent(events)
  PROVE  OneLives' /\ current' = None
<1>1. child \in [Processes -> Children] /\ stdout \in [Processes -> Seq(Lines)]
      /\ current \in Processes \cup {None}
  BY DEF ProviderTypes, ManagerTypes, Conversations
<1>2. CASE current = None
  <2>1. UNCHANGED <<child, stdout, current>>
    BY <1>2 DEF StopCurrent, manager
  <2> QED
    BY <1>2, <2>1 DEF OneLives
<1>3. CASE current # None
  <2>1. /\ child' = [child EXCEPT ![current] = Killed] /\ stdout' = [stdout EXCEPT ![current] = <<>>]
        /\ current' = None
    BY <1>3 DEF StopCurrent
  <2>2. child'[current].life = "killed" /\ stdout'[current] = <<>>
    BY <1>1, <1>3, <2>1 DEF Killed, Unborn
  <2>3. \A q \in Processes : q # current => child'[q] = child[q] /\ stdout'[q] = stdout[q]
    BY <1>1, <2>1
  <2> QED
    BY <2>1, <2>2, <2>3 DEF OneLives
<1> QED
  BY <1>2, <1>3

LEMMA StopCurrentServes ==
  ASSUME ProviderTypes, OneLives, EventsCovered, UNCHANGED ingestion,
         NEW events \in {<<>>, <<Event("error", None)>>}, StopCurrent(events)
  PROVE  /\ OneLives' /\ EventsCovered' /\ current' = None
         /\ current # None \/ ExitComes => ExitComes'
<1>1. child \in [Processes -> Children] /\ stdout \in [Processes -> Seq(Lines)] /\ runtime \in Seq(Events)
      /\ current \in Processes \cup {None}
  BY DEF ProviderTypes, ManagerTypes, RuntimeTypes, Conversations
<1>2. CASE current = None
  <2>1. Emit(events) /\ UNCHANGED <<child, stdout, current>>
    BY <1>2 DEF StopCurrent, manager
  <2>2. (Exits(runtime) => Exits(runtime')) /\ (Covered(runtime) => Covered(runtime'))
    <3>1. CASE events = <<>>
      BY <1>1, <2>1, <3>1, OneEvent, EventsAre DEF Emit
    <3>2. CASE events = <<Event("error", None)>>
      BY <2>1, <3>2, Emitted DEF ProviderTypes
    <3> QED
      BY <3>1, <3>2
  <2>3. OneLives'
    BY <2>1 DEF OneLives
  <2>4. EventsCovered' /\ (ExitComes => ExitComes')
    BY <1>2, <2>2 DEF EventsCovered, ExitComes
  <2> QED
    BY <1>2, <2>1, <2>3, <2>4
<1>3. CASE current # None
  <2>1. /\ child' = [child EXCEPT ![current] = Killed] /\ stdout' = [stdout EXCEPT ![current] = <<>>]
        /\ current' = None /\ runtime' = runtime \o Append(events, Event("exited", None))
    BY <1>3 DEF StopCurrent, Emit
  <2>2. OneLives'
    BY StopCurrentAlone
  <2>3. Exits(runtime') /\ Covered(runtime')
    <3>1. PICK s \in Seq(Events) : runtime' = Append(s, Event("exited", None))
      <4>1. CASE events = <<>>
        <5>1. Append(events, Event("exited", None)) = <<Event("exited", None)>>
          BY <4>1
        <5>2. runtime' = Append(runtime, Event("exited", None))
          BY <1>1, <2>1, <5>1, EventsAre, OneEvent
        <5> QED
          BY <1>1, <5>2
      <4>2. CASE events = <<Event("error", None)>>
        <5>1. runtime' = Append(Append(runtime, Event("error", None)), Event("exited", None))
          BY <1>1, <2>1, <4>2, EventsAre
        <5>2. Append(runtime, Event("error", None)) \in Seq(Events)
          BY <1>1, EventsAre
        <5> QED
          BY <5>1, <5>2
      <4> QED
        BY <4>1, <4>2
    <3>2. Event("exited", None) \in Events /\ Event("exited", None).type = "exited"
      BY EventsAre
    <3> QED
      BY <3>1, <3>2, CoveredAppend
  <2>4. EventsCovered' /\ ExitComes'
    BY <2>3 DEF EventsCovered, ExitComes
  <2> QED
    BY <2>1, <2>2, <2>4
<1> QED
  BY <1>2, <1>3

(***************************************************************************)
(* The reactor.                                                            *)
(***************************************************************************)
LEMMA TakeIntentServed ==
  ASSUME ProviderTypes, Routable, TakeIntent
  PROVE  Routable'
<1>1. /\ UNCHANGED <<answer, writing, ingestion, child, stdout, current, binding, runtime, excuses>>
      /\ job.at = "idle" /\ intents # <<>>
  BY DEF TakeIntent, manager
<1> DEFINE i == Head(intents)
<1>2. i.kind \in Kinds
  BY <1>1, TailTyped DEF ProviderTypes, UserTypes, Intents
<1>3. \/ job' = Idle
      \/ job'.kind = i.kind /\ job'.at = FirstStep(i.kind)
  BY DEF TakeIntent, Idle
<1>4. session' = session \/ (i.kind = "takeover" /\ session'.status = "starting")
  BY DEF TakeIntent
<1>5. i.kind = "takeover" => session'.status = "starting"
  BY DEF TakeIntent
<1> HIDE DEF i
<1>6. /\ job'.at \in {"idle", "start", "route", "stop", "stopped"}
      /\ job'.at = "stop" => job'.kind \in {"stop", "takeover"}
      /\ job'.at = "stopped" => job'.kind = "stop"
      /\ job'.kind = "takeover" => i.kind = "takeover"
  BY <1>2, <1>3 DEF FirstStep, Kinds, Idle
<1>7. StopKinds'
  BY <1>6 DEF StopKinds
<1>8. ASSUME Served PROVE Served'
  <2>1. OneLives' /\ StartServes' /\ EventsCovered'
    BY <1>1, <1>6, <1>8 DEF Served, OneLives, StartServes, EventsCovered, Startup
  <2>2. WritingCovered' /\ ShownIsBound'
    BY <1>1, <1>6, <1>8 DEF Served, WritingCovered, ExitComes, ShownIsBound
  <2>3. UsableIsServed'
    <3>1. ASSUME Usable(session'), Unbound' PROVE session' = session /\ binding = NoBinding
      BY <1>1, <1>4, <1>5, <1>6, <3>1 DEF Usable, Unbound
    <3>2. ~(job.at = "stopped") /\ ~(job.at = "bound")
      BY <1>1
    <3> QED
      BY <1>1, <1>8, <3>1, <3>2 DEF Served, UsableIsServed, ExitComes, Unbound
  <2> QED
    BY <2>1, <2>2, <2>3 DEF Served
<1> QED
  BY <1>1, <1>7, <1>8 DEF Routable, Unexcused

\* A step that leaves the row and the session, and the reactor elsewhere
LEMMA StepServed ==
  ASSUME Served, OneLives', EventsCovered', UNCHANGED <<session, writing, binding>>,
         current # None \/ ExitComes => current' # None \/ ExitComes',
         job'.at \notin Startup, job'.at # "show", job.at \notin {"stopped", "bound"},
         Unbound' => Unbound
  PROVE  Served'
<1>1. StartServes' /\ ShownIsBound'
  BY DEF StartServes, ShownIsBound
<1>2. WritingCovered'
  BY DEF Served, WritingCovered
<1>3. UsableIsServed'
  BY DEF Served, UsableIsServed
<1> QED
  BY <1>1, <1>2, <1>3 DEF Served

LEMMA StopSessionServed ==
  ASSUME ProviderTypes, Routable, StopSession
  PROVE  Routable'
<1>1. /\ UNCHANGED <<session, writing, ingestion, binding, excuses>> /\ job.at = "stop"
      /\ job \in Jobs
  BY DEF StopSession, thread, ProviderTypes, JobTypes
<1>2. job'.kind = job.kind /\ job'.at \in {"failed", "remove"} /\ (job'.at = "remove" => binding # NoBinding)
  BY <1>1 DEF StopSession, GoTo, Jobs
<1>3. StopKinds'
  BY <1>1, <1>2 DEF Routable, StopKinds
<1>4. job'.at \notin Startup /\ job'.at # "show" /\ job.at \notin {"stopped", "bound"}
  BY <1>1, <1>2 DEF Startup
<1>5. Unbound' => Unbound
  BY <1>1, <1>2 DEF Unbound
<1>6. ASSUME Served PROVE Served'
  <2>1. OneLives /\ EventsCovered
    BY <1>6 DEF Served
  <2>2. CASE UNCHANGED <<manager, runtime>>
    <3>1. OneLives' /\ EventsCovered' /\ (ExitComes => ExitComes') /\ current' = current
      BY <1>1, <2>1, <2>2 DEF manager, OneLives, EventsCovered, ExitComes
    <3> QED
      BY <1>1, <1>4, <1>5, <1>6, <3>1, StepServed
  <2>3. CASE StopCurrent(<<>>)
    <3>1. OneLives' /\ EventsCovered' /\ (current # None \/ ExitComes => ExitComes')
      BY <1>1, <2>1, <2>3, StopCurrentServes
    <3> QED
      BY <1>1, <1>4, <1>5, <1>6, <3>1, StepServed
  <2> QED
    BY <2>2, <2>3 DEF StopSession
<1> QED
  BY <1>1, <1>3, <1>6 DEF Routable, Unexcused

LEMMA StartFailsServed ==
  ASSUME ProviderTypes, Routable, StartFails
  PROVE  Routable'
<1>1. /\ UNCHANGED <<session, writing, ingestion, binding, excuses>> /\ job.at \in Startup /\ job \in Jobs
      /\ StopCurrent(<<Event("error", None)>>)
  BY DEF StartFails, thread, ProviderTypes, JobTypes
<1>2. job'.at = "failed" /\ job'.kind = job.kind
  BY <1>1 DEF StartFails, GoTo, Jobs
<1>3. job'.at \notin Startup /\ job'.at # "show" /\ job.at \notin {"stopped", "bound"}
  BY <1>1, <1>2 DEF Startup
<1>4. StopKinds' /\ (Unbound' => Unbound)
  BY <1>1, <1>2 DEF StopKinds, Unbound
<1>5. ASSUME Served PROVE Served'
  <2>1. OneLives /\ EventsCovered
    BY <1>5 DEF Served
  <2>2. OneLives' /\ EventsCovered' /\ (current # None \/ ExitComes => ExitComes')
    BY <1>1, <2>1, StopCurrentServes
  <2> QED
    BY <1>1, <1>3, <1>4, <1>5, <2>2, StepServed
<1> QED
  BY <1>1, <1>4, <1>5 DEF Routable, Unexcused

LEMMA SpawnFailsServed ==
  ASSUME ProviderTypes, Routable, SpawnFails
  PROVE  Routable'
<1>1. /\ UNCHANGED <<session, writing, ingestion, binding, child, stdout, current>> /\ job.at = "start"
      /\ job \in Jobs /\ Emit(<<Event("error", None)>>) /\ excuses \subseteq excuses'
  BY DEF SpawnFails, ExcuseReplacement, thread, manager, ProviderTypes, JobTypes
<1>2. job'.at = "failed" /\ job'.kind = job.kind
  BY <1>1 DEF SpawnFails, GoTo, Jobs
<1>3. job'.at \notin Startup /\ job'.at # "show" /\ job.at \notin {"stopped", "bound"}
  BY <1>1, <1>2 DEF Startup
<1>4. StopKinds' /\ (Unbound' => Unbound)
  BY <1>1, <1>2 DEF StopKinds, Unbound
<1>5. ASSUME Served PROVE Served'
  <2>1. (Exits(runtime) => Exits(runtime')) /\ (Covered(runtime) => Covered(runtime'))
    BY <1>1, Emitted DEF ProviderTypes
  <2>2. OneLives' /\ EventsCovered' /\ (ExitComes => ExitComes')
    BY <1>1, <1>5, <2>1 DEF Served, OneLives, EventsCovered, ExitComes
  <2> QED
    BY <1>1, <1>3, <1>4, <1>5, <2>2, StepServed
<1> QED
  BY <1>1, <1>4, <1>5 DEF Routable, Unexcused

LEMMA RemoveServed ==
  ASSUME ProviderTypes, Cursors, Routable, RemoveBinding
  PROVE  Routable'
<1>1. /\ UNCHANGED <<session, writing, ingestion, runtime, answer, child, stdout, current, excuses>>
      /\ job.at = "remove" /\ job \in Jobs /\ current = None
  BY DEF RemoveBinding, thread, manager, ProviderTypes, JobTypes, Cursors
<1>2. job.kind \in {"stop", "takeover"}
  BY <1>1 DEF Routable, StopKinds
<1>3. /\ job'.kind = job.kind
      /\ job'.at = IF job.kind = "takeover" THEN "start" ELSE "stopped"
  BY <1>1 DEF RemoveBinding, GoTo, Jobs
<1>4. StopKinds'
  BY <1>2, <1>3 DEF StopKinds
<1>5. job'.at \notin Startup /\ job'.at # "show"
  BY <1>3 DEF Startup
<1>6. ASSUME Served PROVE Served'
  <2>1. OneLives' /\ EventsCovered' /\ StartServes' /\ ShownIsBound'
    BY <1>1, <1>5, <1>6 DEF Served, OneLives, EventsCovered, StartServes, ShownIsBound
  <2>2. WritingCovered'
    BY <1>1, <1>6 DEF Served, WritingCovered, ExitComes
  <2>3. UsableIsServed'
    <3>1. CASE job.kind = "stop"
      BY <1>3, <3>1 DEF UsableIsServed
    <3>2. CASE job.kind = "takeover"
      <4>1. Unbound /\ job.at # "stopped" /\ job.at # "bound"
        BY <1>1, <3>2 DEF Unbound
      <4> QED
        BY <1>1, <1>6, <4>1 DEF Served, UsableIsServed, ExitComes
    <3> QED
      BY <1>2, <3>1, <3>2
  <2> QED
    BY <2>1, <2>2, <2>3 DEF Served
<1> QED
  BY <1>1, <1>4, <1>6 DEF Routable, Unexcused

\* While the session has its process nothing has to come.
LEMMA ServedWhileBound ==
  ASSUME OneLives', current' # None, answer' # "ok", job'.at # "show"
  PROVE  Served'
  BY DEF Served, StartServes, EventsCovered, WritingCovered, ShownIsBound, UsableIsServed

LEMMA SpawnServed ==
  ASSUME ProviderTypes, Routable, Spawn
  PROVE  Routable'
<1>1. PICK p \in Processes :
        /\ child[p].life = "unborn" /\ current' = p
        /\ child' = [child EXCEPT ![p] = [Unborn EXCEPT !.life = "running",
                       !.asked = <<[method |-> "initialize", argument |-> None]>>]]
        /\ job' = [job EXCEPT !.at = "initialize", !.process = p,
                     !.cursor = IF job.cursor # None THEN job.cursor ELSE binding.cursor]
  BY DEF Spawn
<1>2. UNCHANGED stdout /\ answer' = None
      /\ excuses' = IF current = None THEN excuses ELSE excuses \cup {"started over a session"}
  BY DEF Spawn, ExcuseReplacement
<1>3. job \in Jobs /\ child \in [Processes -> Children]
  BY DEF ProviderTypes, JobTypes, ManagerTypes
<1>4. job'.at = "initialize"
  BY <1>1, <1>3 DEF Jobs
<1>5. child'[p].life = "running" /\ \A q \in Processes : q # p => child'[q] = child[q]
  BY <1>1, <1>3 DEF Unborn
<1>6. Unexcused' => Unexcused /\ current = None
  BY <1>2 DEF Unexcused
<1>7. ASSUME Served, current = None PROVE Served'
  <2>1. OneLives'
    BY <1>1, <1>2, <1>5, <1>7, NoneAssumption DEF Served, OneLives
  <2> QED
    BY <1>1, <1>2, <1>4, <2>1, NoneAssumption, ServedWhileBound
<1> QED
  BY <1>4, <1>6, <1>7 DEF Routable, StopKinds

LEMMA SessionReadyServed ==
  ASSUME ProviderTypes, Routable, SessionReady
  PROVE  Routable'
<1>1. /\ UNCHANGED <<child, stdout, current, excuses>> /\ job.at \in Startup /\ job \in Jobs
      /\ answer' = None /\ NextRequest = "ready"
  BY DEF SessionReady, ProviderTypes, JobTypes
<1>2. job'.at = "bound"
  BY <1>1 DEF SessionReady, GoTo, Jobs
<1>3. answer = "ok" /\ job.process \in Processes
  BY <1>1 DEF NextRequest, Startup, ProviderTypes, JobTypes, Requesting
<1>4. ASSUME Served PROVE Served'
  <2>1. current # None
    BY <1>1, <1>3, <1>4, NoneAssumption DEF Served, StartServes
  <2>2. OneLives'
    BY <1>1, <1>4 DEF Served, OneLives
  <2> QED
    BY <1>1, <1>2, <2>1, <2>2, NoneAssumption, ServedWhileBound
<1> QED
  BY <1>1, <1>2, <1>4 DEF Routable, Unexcused, StopKinds

\* With its row written the session can be routed to.
LEMMA RowServed ==
  ASSUME ProviderTypes, Routable, UpsertBinding \/ ShowSession \/ RecordTurn
  PROVE  Routable'
<1>1. /\ UNCHANGED <<writing, ingestion, runtime, answer, child, stdout, current, excuses>> /\ job \in Jobs
      /\ job.at \in {"bound", "show", "record"}
  BY DEF UpsertBinding, ShowSession, RecordTurn, thread, manager, ProviderTypes, JobTypes
<1>2. job'.at \in {"operate", "show", "route", "idle"} /\ (job'.at = "show" => UpsertBinding)
  BY <1>1 DEF UpsertBinding, ShowSession, RecordTurn, GoTo, Jobs, Idle
<1>3. UpsertBinding => binding' # NoBinding
  <2>1. job.mode \in Modes
    BY <1>1 DEF Jobs
  <2> QED
    BY <2>1, Upserted DEF UpsertBinding
<1>4. RecordTurn => binding' # NoBinding
  <2>1. (IF binding = NoBinding THEN "full-access" ELSE binding.mode) \in Modes
    BY DEF ProviderTypes, BindingTypes, Modes
  <2> QED
    BY <2>1, Upserted DEF RecordTurn
<1>5. ASSUME Served PROVE Served'
  <2>1. OneLives' /\ EventsCovered' /\ StartServes' /\ WritingCovered'
    BY <1>1, <1>2, <1>5 DEF Served, OneLives, EventsCovered, StartServes, WritingCovered, ExitComes, Startup
  <2>2. binding' # NoBinding
    <3>1. CASE ShowSession
      BY <1>5, <3>1 DEF ShowSession, Served, ShownIsBound
    <3> QED
      BY <1>3, <1>4, <3>1
  <2>3. ShownIsBound' /\ UsableIsServed'
    BY <1>2, <2>2 DEF ShownIsBound, UsableIsServed, Unbound
  <2> QED
    BY <2>1, <2>3 DEF Served
<1> QED
  BY <1>1, <1>2, <1>5 DEF Routable, Unexcused, StopKinds

LEMMA RestartServed ==
  ASSUME ProviderTypes, Routable, RestartServer
  PROVE  Routable'
<1>1. /\ UNCHANGED session /\ job' = Idle /\ answer' = None /\ current' = None
      /\ runtime' = <<>> /\ ingestion' = <<>> /\ writing' = None
      /\ stdout' = [p \in Processes |-> <<>>]
      /\ child' = [p \in Processes |-> IF child[p].life = "unborn" THEN Unborn ELSE Left]
  BY DEF RestartServer
<1>2. Unexcused' => Unexcused /\ ~(binding' = NoBinding /\ HasSession)
  BY DEF RestartServer, Unexcused
<1>3. job'.at = "idle" /\ job'.kind = "none"
  BY <1>1 DEF Idle
<1>4. ASSUME ~(binding' = NoBinding /\ HasSession) PROVE Served'
  <2>1. OneLives'
    BY <1>1 DEF OneLives, Unborn, Left
  <2>2. StartServes' /\ WritingCovered' /\ ShownIsBound'
    BY <1>1, <1>3, NoneAssumption DEF StartServes, WritingCovered, ShownIsBound
  <2>3. EventsCovered'
    BY <1>1, EmptyCovered DEF EventsCovered
  <2>4. UsableIsServed'
    BY <1>1, <1>3, <1>4 DEF UsableIsServed, Unbound, Usable, HasSession
  <2> QED
    BY <2>1, <2>2, <2>3, <2>4 DEF Served
<1> QED
  BY <1>2, <1>3, <1>4 DEF Routable, StopKinds

LEMMA InitServed == Init => Routable
<1> SUFFICES ASSUME Init PROVE Routable
  OBVIOUS
<1>1. OneLives /\ EventsCovered
  BY EmptyCovered DEF Init, OneLives, Unborn, EventsCovered
<1>2. StartServes /\ WritingCovered /\ ShownIsBound /\ StopKinds /\ UsableIsServed
  BY DEF Init, StartServes, WritingCovered, ShownIsBound, StopKinds, UsableIsServed, Idle, Startup, Usable, NoSession
<1> QED
  BY <1>1, <1>2 DEF Routable, Served

(* Without an excuse only the session's app-server lives, and a session     *)
(* shown as usable without a row has a process, or its end is on the way    *)
(* (ProviderCommandReactor, startSession, stopSession, the exit handler).   *)
THEOREM RoutableHolds == Spec => []Routable
<1>1. ASSUME ProviderTypes, ProviderTypes', Cursors, Routable, Next PROVE Routable'
  <2>1. CASE Users
    BY <1>1, <2>1, OtherServed
  <2>2. CASE Route \/ TurnAccepted \/ TurnRefused \/ SendTurn \/ Interrupt \/ InterruptAnswered
             \/ RespondToRequest \/ ContinueStart \/ GiveUp \/ SetStopped
    BY <1>1, <2>2, MovesServed
  <2>3. CASE TakeIntent \/ StopSession \/ StartFails \/ SpawnFails \/ RemoveBinding
    BY <1>1, <2>3, TakeIntentServed, StopSessionServed, StartFailsServed, SpawnFailsServed, RemoveServed
  <2>4. CASE Spawn \/ SessionReady \/ UpsertBinding \/ ShowSession \/ RecordTurn
    BY <1>1, <2>4, SpawnServed, SessionReadyServed, RowServed
  <2>5. CASE Reactor
    BY <2>2, <2>3, <2>4, <2>5 DEF Reactor
  <2>6. ASSUME NEW p \in Processes, Manager(p) \/ AppServer(p) PROVE Routable'
    BY <1>1, <2>6, OtherServed, ReadServed, HearErrorServed, ExitServed DEF Manager
  <2>7. CASE SyncBinding \/ Ingest \/ SetSession \/ RestartServer
    BY <1>1, <2>7, SyncServed, IngestServed, SetSessionServed, RestartServed
  <2> QED
    BY <1>1, <2>1, <2>5, <2>6, <2>7 DEF Next
<1>2. ASSUME ProviderTypes, Routable, UNCHANGED vars PROVE Routable'
  BY <1>2, OtherServed
<1> QED
  BY <1>1, <1>2, InitServed, ProviderTypesHold, CursorsHold, PTL DEF Spec

(* A session the thread shows as usable has the row without which           *)
(* ProviderService routes nothing, once nothing is under way.               *)
THEOREM UsableSessionsAreRoutable == Spec => []UsableSessionIsRoutable
<1>1. ASSUME ProviderTypes, Cursors, Routable PROVE UsableSessionIsRoutable
  <2>1. SUFFICES ASSUME Quiet, Usable(session), Unexcused, binding = NoBinding PROVE FALSE
    BY DEF UsableSessionIsRoutable, Usable, Unexcused
  <2>2. job = Idle /\ runtime = <<>> /\ ingestion = <<>> /\ writing = None
    BY <2>1 DEF Quiet
  <2>3. job.at = "idle" /\ ~ExitComes
    BY <2>2, EmptyCovered DEF Idle, ExitComes
  <2>4. UsableIsServed /\ Unbound
    BY <1>1, <2>1 DEF Routable, Served, Unbound
  <2>5. current # None
    BY <2>1, <2>2, <2>3, <2>4 DEF UsableIsServed
  <2>6. binding.cursor # None
    BY <1>1, <2>3, <2>5 DEF Cursors, Starting, Startup
  <2> QED
    BY <2>1, <2>6 DEF NoBinding
<1> QED
  BY <1>1, ProviderTypesHold, CursorsHold, RoutableHolds, PTL

-----------------------------------------------------------------------------
(***************************************************************************)
(* The turn the thread shows.  Of each event on its way to the thread it   *)
(* is known what turn the thread will show before and after it, so that    *)
(* none is turned away.                                                    *)
(***************************************************************************)
Ends(e) == e.type \in {"turnCompleted", "exited", "error"}
SetsTurn(e) == e.type = "turnStarted" \/ Ends(e)

\* What does not conflict with the turn t that is shown, and the turn shown then
Applies(e, t) == e.type \in {"turnStarted", "turnCompleted"} => t \in {None, e.turn}
TurnAfter(e, t) == IF e.type = "turnStarted" THEN e.turn ELSE IF Ends(e) THEN None ELSE t

\* All of s applies, one after the other, and leads from t to u.
Leads(t, s, u) ==
  \E turn : /\ turn[0] = t /\ turn[Len(s)] = u
            /\ \A i \in 1..Len(s) :
                 Applies(s[i], turn[i - 1]) /\ turn[i] = TurnAfter(s[i], turn[i - 1])

LEMMA LeadsNowhere ==
  ASSUME NEW t
  PROVE  Leads(t, <<>>, t) /\ \A u : Leads(t, <<>>, u) => u = t
<1>1. Len(<<>>) = 0
  OBVIOUS
<1>2. Leads(t, <<>>, t)
  <2> DEFINE turn == [i \in {0} |-> t]
  <2>1. turn[0] = t
    OBVIOUS
  <2> HIDE DEF turn
  <2> QED
    BY <1>1, <2>1 DEF Leads
<1>3. \A u : Leads(t, <<>>, u) => u = t
  BY <1>1 DEF Leads
<1> QED
  BY <1>2, <1>3

LEMMA LeadsOne ==
  ASSUME NEW t, NEW e, Applies(e, t)
  PROVE  Leads(t, <<e>>, TurnAfter(e, t))
<1> DEFINE turn == [i \in 0..1 |-> IF i = 0 THEN t ELSE TurnAfter(e, t)]
<1>1. turn[0] = t /\ turn[1] = TurnAfter(e, t)
  OBVIOUS
<1> HIDE DEF turn
<1>2. PICK s : s = <<e>> /\ Len(s) = 1 /\ s[1] = e
  <2>1. Len(<<e>>) = 1 /\ <<e>>[1] = e
    OBVIOUS
  <2> QED
    BY <2>1, Zenon
<1>3. \A i \in 1..Len(s) : Applies(s[i], turn[i - 1]) /\ turn[i] = TurnAfter(s[i], turn[i - 1])
  <2> SUFFICES ASSUME NEW i \in 1..Len(s)
               PROVE  Applies(s[i], turn[i - 1]) /\ turn[i] = TurnAfter(s[i], turn[i - 1])
    OBVIOUS
  <2>1. i = 1 /\ i - 1 = 0
    BY <1>2
  <2> QED
    BY <1>1, <1>2, <2>1
<1>4. Leads(t, s, TurnAfter(e, t))
  BY <1>1, <1>2, <1>3 DEF Leads
<1> QED
  BY <1>2, <1>4

LEMMA LeadsOn ==
  ASSUME NEW S, NEW r \in Seq(S), NEW s \in Seq(S), NEW t, NEW u, NEW v,
         Leads(t, r, u), Leads(u, s, v)
  PROVE  Leads(t, r \o s, v)
<1>1. PICK n \in Nat, m \in Nat : Len(r) = n /\ Len(s) = m
  OBVIOUS
<1>2. /\ Len(r \o s) = n + m
      /\ \A i \in 1..(n + m) : (r \o s)[i] = IF i <= n THEN r[i] ELSE s[i - n]
  <2>1. Len(r \o s) = Len(r) + Len(s)
    OBVIOUS
  <2>2. \A i \in 1..(Len(r) + Len(s)) : (r \o s)[i] = IF i <= Len(r) THEN r[i] ELSE s[i - Len(r)]
    BY ConcatIndex
  <2> QED
    BY <1>1, <2>1, <2>2
<1>3. PICK f : f[0] = t /\ f[n] = u /\ \A i \in 1..n : Applies(r[i], f[i - 1]) /\ f[i] = TurnAfter(r[i], f[i - 1])
  BY <1>1 DEF Leads
<1>4. PICK g : g[0] = u /\ g[m] = v /\ \A i \in 1..m : Applies(s[i], g[i - 1]) /\ g[i] = TurnAfter(s[i], g[i - 1])
  BY <1>1 DEF Leads
<1> DEFINE turn == [i \in 0..(n + m) |-> IF i <= n THEN f[i] ELSE g[i - n]]
<1>5. turn[0] = t /\ turn[n + m] = v
  <2>1. turn[0] = f[0]
    BY <1>1
  <2>2. CASE m = 0
    <3>1. turn[n + m] = f[n]
      BY <1>1, <2>2
    <3> QED
      BY <1>3, <1>4, <2>1, <2>2, <3>1
  <2>3. CASE m # 0
    <3>1. turn[n + m] = g[m]
      BY <1>1, <2>3
    <3> QED
      BY <1>3, <1>4, <2>1, <3>1
  <2> QED
    BY <2>2, <2>3
<1>6. ASSUME NEW i \in 1..(n + m)
      PROVE  Applies((r \o s)[i], turn[i - 1]) /\ turn[i] = TurnAfter((r \o s)[i], turn[i - 1])
  <2>1. CASE i <= n
    <3>1. i \in 1..n /\ turn[i] = f[i] /\ turn[i - 1] = f[i - 1] /\ (r \o s)[i] = r[i]
      BY <1>1, <1>2, <2>1
    <3> QED
      BY <1>3, <3>1
  <2>2. CASE i > n
    <3>1. i - n \in 1..m /\ (i - 1) - n = (i - n) - 1
      BY <1>1, <2>2
    <3>2. turn[i] = g[i - n] /\ (r \o s)[i] = s[i - n]
      BY <1>1, <1>2, <2>2
    <3>3. turn[i - 1] = g[(i - n) - 1]
      <4>1. CASE i = n + 1
        <5>1. i - 1 = n /\ (i - n) - 1 = 0 /\ n \in 0..(n + m) /\ n <= n
          BY <1>1, <4>1
        <5>2. turn[i - 1] = f[n]
          BY <5>1
        <5> QED
          BY <1>3, <1>4, <5>1, <5>2
      <4>2. CASE i # n + 1
        <5>1. turn[i - 1] = g[(i - 1) - n]
          BY <1>1, <2>2, <4>2
        <5> QED
          BY <3>1, <5>1
      <4> QED
        BY <4>1, <4>2
    <3> QED
      BY <1>4, <3>1, <3>2, <3>3
  <2> QED
    BY <1>1, <2>1, <2>2
<1> HIDE DEF turn
<1> QED
  BY <1>2, <1>5, <1>6 DEF Leads

LEMMA LeadsTail ==
  ASSUME NEW S, NEW s \in Seq(S), s # <<>>, NEW t, NEW u, Leads(t, s, u)
  PROVE  Applies(Head(s), t) /\ Leads(TurnAfter(Head(s), t), Tail(s), u)
<1>1. PICK n \in Nat : Len(s) = n + 1
  <2>1. Len(s) \in Nat \ {0}
    BY TailTyped
  <2>2. Len(s) - 1 \in Nat /\ Len(s) = (Len(s) - 1) + 1
    BY <2>1
  <2> QED
    BY <2>2
<1>2. /\ Len(Tail(s)) = n /\ Head(s) = s[1] /\ \A i \in 1..n : Tail(s)[i] = s[i + 1]
  <2>1. Tail(s) \in Seq(S) /\ Len(Tail(s)) = Len(s) - 1 /\ Head(s) = s[1]
        /\ \A i \in DOMAIN Tail(s) : Tail(s)[i] = s[i + 1]
    BY TailTyped
  <2>2. DOMAIN Tail(s) = 1..Len(Tail(s))
    BY <2>1
  <2> QED
    BY <1>1, <2>1, <2>2
<1>3. PICK f : f[0] = t /\ f[n + 1] = u
               /\ \A i \in 1..(n + 1) : Applies(s[i], f[i - 1]) /\ f[i] = TurnAfter(s[i], f[i - 1])
  BY <1>1 DEF Leads
<1> DEFINE turn == [i \in 0..n |-> f[i + 1]]
<1>4. Applies(Head(s), t) /\ f[1] = TurnAfter(Head(s), t)
  <2>1. 1 \in 1..(n + 1) /\ 1 - 1 = 0
    BY <1>1
  <2> QED
    BY <1>2, <1>3, <2>1
<1>5. turn[0] = f[1] /\ turn[n] = u
  BY <1>1, <1>3
<1>6. ASSUME NEW i \in 1..n
      PROVE  Applies(Tail(s)[i], turn[i - 1]) /\ turn[i] = TurnAfter(Tail(s)[i], turn[i - 1])
  <2>1. i + 1 \in 1..(n + 1) /\ (i + 1) - 1 = i /\ turn[i] = f[i + 1] /\ turn[i - 1] = f[i]
    BY <1>1
  <2> QED
    BY <1>2, <1>3, <2>1
<1> HIDE DEF turn
<1> QED
  BY <1>2, <1>4, <1>5, <1>6 DEF Leads

\* If no turn is shown instead of t, the same turn is in the end, or none.
LEMMA LeadsFromNone ==
  ASSUME NEW S, NEW s \in Seq(S), NEW t, NEW u, Leads(t, s, u)
  PROVE  Leads(None, s, u) \/ Leads(None, s, None)
<1>1. PICK n \in Nat : Len(s) = n
  OBVIOUS
<1>2. PICK f : f[0] = t /\ f[n] = u
               /\ \A i \in 1..n : Applies(s[i], f[i - 1]) /\ f[i] = TurnAfter(s[i], f[i - 1])
  BY <1>1 DEF Leads
<1> DEFINE turn == [i \in 0..n |-> IF \E j \in 1..i : SetsTurn(s[j]) THEN f[i] ELSE None]
<1>3. \A i \in 0..n : turn[i] = IF \E j \in 1..i : SetsTurn(s[j]) THEN f[i] ELSE None
  OBVIOUS
<1> HIDE DEF turn
<1>4. turn[0] = None /\ turn[n] \in {u, None}
  BY <1>1, <1>2, <1>3
<1>5. ASSUME NEW i \in 1..n
      PROVE  Applies(s[i], turn[i - 1]) /\ turn[i] = TurnAfter(s[i], turn[i - 1])
  <2>1. i - 1 \in 0..n /\ i \in 0..n
    BY <1>1
  <2>2. turn[i - 1] \in {f[i - 1], None}
    BY <1>3, <2>1
  <2>3. Applies(s[i], turn[i - 1])
    BY <1>2, <2>2 DEF Applies
  <2>4. CASE SetsTurn(s[i])
    <3>1. turn[i] = f[i]
      BY <1>1, <1>3, <2>1, <2>4
    <3>2. f[i] = TurnAfter(s[i], f[i - 1])
      BY <1>2
    <3>3. \A x, y : TurnAfter(s[i], x) = TurnAfter(s[i], y)
      BY <2>4 DEF SetsTurn, TurnAfter
    <3> QED
      BY <2>3, <3>1, <3>2, <3>3, Zenon
  <2>5. CASE ~SetsTurn(s[i])
    <3>1. \A x : TurnAfter(s[i], x) = x
      BY <2>5 DEF SetsTurn, TurnAfter
    <3>2. f[i] = f[i - 1]
      BY <1>2, <3>1
    <3>3. (\E j \in 1..i : SetsTurn(s[j])) <=> (\E j \in 1..(i - 1) : SetsTurn(s[j]))
      <4>1. \A j \in 1..i : j = i \/ j \in 1..(i - 1)
        BY <1>1
      <4>2. \A j \in 1..(i - 1) : j \in 1..i
        BY <1>1
      <4> QED
        BY <2>5, <4>1, <4>2
    <3>4. turn[i] = turn[i - 1]
      BY <1>3, <2>1, <3>2, <3>3
    <3> QED
      BY <2>3, <3>1, <3>4, Zenon
  <2> QED
    BY <2>3, <2>4, <2>5
<1>6. Leads(None, s, turn[n])
  BY <1>1, <1>4, <1>5 DEF Leads
<1> QED
  BY <1>4, <1>6

LEMMA LeadsWithoutResponse ==
  ASSUME NEW lines \in Seq(Lines), NEW t, NEW u, Leads(t, lines, u)
  PROVE  Leads(t, WithoutResponse(lines), u)
<1>1. CASE ~\E i \in DOMAIN lines : lines[i].type = "response"
  BY <1>1 DEF WithoutResponse
<1>2. CASE \E i \in DOMAIN lines : lines[i].type = "response"
  <2> DEFINE c == CHOOSE i \in DOMAIN lines : lines[i].type = "response"
             left == RemoveAt(lines, c)
  <2>1. c \in DOMAIN lines /\ lines[c].type = "response"
    BY <1>2
  <2>2. WithoutResponse(lines) = left
    BY <1>2 DEF WithoutResponse
  <2> HIDE DEF c
  <2>3. /\ left \in Seq(Lines) /\ Len(left) = Len(lines) - 1
        /\ \A i \in DOMAIN left : left[i] = lines[IF i < c THEN i ELSE i + 1]
    BY <2>1, RemoveAtTyped
  <2> HIDE DEF left
  <2>4. PICK n \in Nat : Len(left) = n /\ Len(lines) = n + 1
    <3>1. Len(left) \in Nat /\ Len(lines) \in Nat
      BY <2>3
    <3> QED
      BY <2>3, <3>1
  <2>5. c \in 1..(n + 1) /\ \A i \in 1..n : left[i] = lines[IF i < c THEN i ELSE i + 1]
    BY <2>1, <2>3, <2>4
  <2>6. PICK f : f[0] = t /\ f[n + 1] = u
                 /\ \A i \in 1..(n + 1) : Applies(lines[i], f[i - 1]) /\ f[i] = TurnAfter(lines[i], f[i - 1])
    BY <2>4 DEF Leads
  <2>7. f[c] = f[c - 1]
    BY <2>1, <2>5, <2>6 DEF TurnAfter, Ends
  <2> DEFINE turn == [i \in 0..n |-> IF i < c THEN f[i] ELSE f[i + 1]]
  <2>8. turn[0] = t
    BY <2>4, <2>5, <2>6
  <2>9. turn[n] = u
    <3>1. CASE c = n + 1
      <4>1. turn[n] = f[n] /\ c - 1 = n
        BY <2>4, <3>1
      <4> QED
        BY <2>6, <2>7, <3>1, <4>1
    <3>2. CASE c # n + 1
      <4>1. turn[n] = f[n + 1]
        BY <2>4, <2>5, <3>2
      <4> QED
        BY <2>6, <4>1
    <3> QED
      BY <3>1, <3>2
  <2>10. ASSUME NEW i \in 1..n
         PROVE  Applies(left[i], turn[i - 1]) /\ turn[i] = TurnAfter(left[i], turn[i - 1])
    <3>1. CASE i < c
      <4>1. i \in 1..(n + 1) /\ turn[i] = f[i] /\ turn[i - 1] = f[i - 1] /\ left[i] = lines[i]
        BY <2>4, <2>5, <3>1
      <4> QED
        BY <2>6, <4>1
    <3>2. CASE i = c
      <4>1. i + 1 \in 1..(n + 1) /\ (i + 1) - 1 = i /\ turn[i] = f[i + 1] /\ turn[i - 1] = f[c - 1]
            /\ left[i] = lines[i + 1]
        BY <2>4, <2>5, <3>2
      <4> QED
        BY <2>6, <2>7, <3>2, <4>1
    <3>3. CASE i > c
      <4>1. i + 1 \in 1..(n + 1) /\ (i + 1) - 1 = i /\ turn[i] = f[i + 1] /\ turn[i - 1] = f[(i - 1) + 1]
            /\ left[i] = lines[i + 1] /\ (i - 1) + 1 = i
        BY <2>4, <2>5, <3>3
      <4> QED
        BY <2>6, <4>1
    <3> QED
      BY <2>5, <3>1, <3>2, <3>3
  <2> HIDE DEF turn
  <2>11. Leads(t, left, u)
    BY <2>4, <2>8, <2>9, <2>10 DEF Leads
  <2> QED
    BY <2>2, <2>11
<1> QED
  BY <1>1, <1>2

(***************************************************************************)
(* What is shown once the events under way are handled.                    *)
(***************************************************************************)
Plain == excuses \subseteq {"left a session"}

\* The turn the next event meets, and the lines of the session's process
Met == IF writing # None THEN writing.turn ELSE session.turn
Unread == IF current = None THEN <<>> ELSE stdout[current]

WillShow(t) == \E i, r : Leads(Met, ingestion, i) /\ Leads(i, runtime, r) /\ Leads(r, Unread, t)

\* A takeover shows no turn before it stops the process that runs one.
TakingOver == job.kind = "takeover" /\ job.at = "stop"

Agrees(t) ==
  /\ current = None => t = None
  /\ current # None /\ child[current].life = "running" =>
       \/ t = child[current].turn
       \/ t = None /\ (TakingOver \/ child[current].turn \in untold)

\* A process that is started runs no turn, and is asked for none.
NoTurn(c) == c.turn = None /\ \A i \in DOMAIN c.asked : c.asked[i].method # "turn/start"

StartsAfresh == job.at \in Starting \cup {"show"} /\ current # None => NoTurn(child[current])

TakeoverAlone == job.kind = "takeover" /\ job.at \in {"start", "failed"} => current = None

Tells == OneLives /\ StartsAfresh /\ TakeoverAlone /\ \E t : WillShow(t) /\ Agrees(t)

TellsTurn == Plain => Tells

\* Steps that leave alone what is under way, and show no other turn
LEMMA SameTurnShown ==
  ASSUME UNCHANGED <<writing, ingestion, runtime, current>>, Unread' = Unread,
         writing = None => session'.turn = session.turn,
         current # None => /\ child'[current].life = child[current].life
                           /\ child'[current].turn = child[current].turn,
         TakingOver => TakingOver', untold \subseteq untold',
         \E t : WillShow(t) /\ Agrees(t)
  PROVE  (\E t : WillShow(t) /\ Agrees(t))'
<1>1. PICK t : WillShow(t) /\ Agrees(t)
  OBVIOUS
<1>2. Met' = Met
  BY DEF Met
<1>3. WillShow(t)'
  BY <1>1, <1>2 DEF WillShow
<1>4. Agrees(t)'
  BY <1>1 DEF Agrees
<1> QED
  BY <1>3, <1>4

\* The reactor shows no turn.
LEMMA NoTurnShown ==
  ASSUME ProviderTypes, UNCHANGED <<writing, ingestion, runtime, current, child, stdout>>,
         session'.turn = None, ~TakingOver, Agrees(None)',
         \E t : WillShow(t) /\ Agrees(t)
  PROVE  (\E t : WillShow(t) /\ Agrees(t))'
<1>1. PICK t, i, r : Agrees(t) /\ Leads(Met, ingestion, i) /\ Leads(i, runtime, r) /\ Leads(r, Unread, t)
  BY DEF WillShow
<1>2. Agrees(t)'
  BY <1>1 DEF Agrees
<1>3. Unread' = Unread
  BY DEF Unread
<1>4. CASE writing # None
  <2>1. Met' = Met
    BY <1>4 DEF Met
  <2>2. WillShow(t)'
    BY <1>1, <1>3, <2>1 DEF WillShow
  <2> QED
    BY <1>2, <2>2
<1>5. CASE writing = None
  <2>1. Met' = None
    BY <1>5 DEF Met
  <2>2. ingestion \in Seq(Events) /\ runtime \in Seq(Events)
    BY DEF ProviderTypes, ThreadTypes, RuntimeTypes
  <2>3. Unread \in Seq(Lines)
    BY DEF ProviderTypes, ManagerTypes, Conversations, Unread
  <2>4. PICK j \in {i, None} : Leads(None, ingestion, j)
    BY <1>1, <2>2, LeadsFromNone
  <2>5. PICK q \in {r, None} : Leads(j, runtime, q)
    BY <1>1, <2>2, LeadsFromNone
  <2>6. PICK u \in {t, None} : Leads(q, Unread, u)
    BY <1>1, <2>3, LeadsFromNone
  <2>7. WillShow(u)'
    BY <1>3, <2>1, <2>4, <2>5, <2>6 DEF WillShow
  <2> QED
    BY <1>2, <2>6, <2>7
<1> QED
  BY <1>4, <1>5

\* An event that is emitted
LEMMA EmittedLeads ==
  ASSUME RuntimeTypes, NEW type \in {"starting", "ready", "exited", "error"},
         NEW t, NEW u, Leads(t, runtime, u)
  PROVE  /\ Leads(t, runtime \o <<Event(type, None)>>, IF type \in {"exited", "error"} THEN None ELSE u)
         /\ runtime \o <<Event(type, None)>> \in Seq(Events)
<1> DEFINE e == Event(type, None)
<1>1. e \in Events /\ e.type = type
  BY EventsAre
<1>2. Applies(e, u) /\ TurnAfter(e, u) = IF type \in {"exited", "error"} THEN None ELSE u
  BY <1>1 DEF Applies, TurnAfter, Ends
<1> HIDE DEF e
<1>3. Leads(u, <<e>>, TurnAfter(e, u))
  BY <1>2, LeadsOne
<1>4. <<e>> \in Seq(Events) /\ runtime \in Seq(Events)
  BY <1>1 DEF RuntimeTypes
<1>5. Leads(t, runtime \o <<e>>, TurnAfter(e, u))
  BY <1>3, <1>4, LeadsOn
<1>6. runtime \o <<e>> \in Seq(Events)
  BY <1>4
<1> QED
  BY <1>2, <1>5, <1>6 DEF e

\* The session's process is gone, and its end is told.
LEMMA EndShown ==
  ASSUME ProviderTypes, UNCHANGED <<session, writing, ingestion>>, current' = None,
         \/ runtime' = runtime \o <<Event("exited", None)>>
         \/ runtime' = (runtime \o <<Event("error", None)>>) \o <<Event("exited", None)>>
         \/ runtime' = runtime \o <<Event("error", None)>>
         \/ runtime' = runtime /\ current = None,
         \E t : WillShow(t) /\ Agrees(t)
  PROVE  (\E t : WillShow(t) /\ Agrees(t))'
<1>1. PICK t, i, r : Agrees(t) /\ Leads(Met, ingestion, i) /\ Leads(i, runtime, r) /\ Leads(r, Unread, t)
  BY DEF WillShow
<1>2. RuntimeTypes
  BY DEF ProviderTypes
<1>3. Leads(i, runtime', None)
  <2>1. Leads(i, runtime \o <<Event("exited", None)>>, None) /\ Leads(i, runtime \o <<Event("error", None)>>, None)
    BY <1>1, <1>2, EmittedLeads
  <2>2. CASE runtime' = (runtime \o <<Event("error", None)>>) \o <<Event("exited", None)>>
    <3> DEFINE e == Event("exited", None)
               s == runtime \o <<Event("error", None)>>
    <3>1. e \in Events /\ e.type = "exited"
      BY EventsAre
    <3>2. Applies(e, None) /\ TurnAfter(e, None) = None
      BY <3>1 DEF Applies, TurnAfter, Ends
    <3>3. s \in Seq(Events) /\ Leads(i, s, None)
      BY <1>1, <1>2, <2>1, EmittedLeads
    <3> HIDE DEF e, s
    <3>4. Leads(None, <<e>>, None) /\ <<e>> \in Seq(Events)
      BY <3>1, <3>2, LeadsOne
    <3>5. Leads(i, s \o <<e>>, None)
      BY <3>3, <3>4, LeadsOn
    <3> QED
      BY <2>2, <3>5 DEF e, s
  <2>3. CASE runtime' = runtime /\ current = None
    <3>1. t = None /\ Unread = <<>>
      BY <1>1, <2>3 DEF Agrees, Unread
    <3>2. r = None
      BY <1>1, <3>1, LeadsNowhere
    <3> QED
      BY <1>1, <2>3, <3>2
  <2> QED
    BY <2>1, <2>2, <2>3
<1>4. Unread' = <<>> /\ Met' = Met
  BY DEF Unread, Met
<1>5. WillShow(None)'
  BY <1>1, <1>3, <1>4, LeadsNowhere DEF WillShow
<1>6. Agrees(None)'
  BY DEF Agrees
<1> QED
  BY <1>5, <1>6

(***************************************************************************)
(* The reactor.                                                            *)
(***************************************************************************)
\* A step that lets no process begin or end
LEMMA AloneStill ==
  ASSUME OneLives, Lives, UNCHANGED current
  PROVE  OneLives'
BY DEF OneLives, Lives

LEMMA OtherTells ==
  ASSUME Tells, Users \/ UNCHANGED vars
  PROVE  Tells'
<1>1. UNCHANGED <<job, session, writing, ingestion, runtime, current, child, stdout, untold>>
  BY DEF Users, AskForTurn, AnswerApproval, ChangeMode, AskOther, Ask, reactor, manager, vars, thread, ghosts
<1>2. OneLives' /\ StartsAfresh' /\ TakeoverAlone'
  BY <1>1 DEF Tells, OneLives, StartsAfresh, TakeoverAlone
<1>3. (\E t : WillShow(t) /\ Agrees(t))'
  BY <1>1, SameTurnShown DEF Tells, Unread, TakingOver
<1> QED
  BY <1>2, <1>3 DEF Tells

\* The steps of the reactor that neither show a turn nor start or stop a process
Moves ==
  \/ Route \/ TurnAccepted \/ TurnRefused \/ SendTurn \/ Interrupt \/ InterruptAnswered \/ RespondToRequest
  \/ ContinueStart \/ UpsertBinding \/ RecordTurn \/ RemoveBinding

LEMMA MovesLeave ==
  ASSUME ProviderTypes, Moves
  PROVE  /\ UNCHANGED <<session, writing, ingestion, runtime, current, stdout, untold>>
         /\ \A p \in Processes : child'[p].life = child[p].life /\ child'[p].turn = child[p].turn
         /\ ~ContinueStart /\ ~SendTurn /\ ~Interrupt =>
              \A p \in Processes : child'[p].asked = child[p].asked
<1>1. child \in [Processes -> Children]
  BY DEF ProviderTypes, ManagerTypes
<1>2. CASE SendTurn \/ Interrupt \/ ContinueStart
  <2>1. UNCHANGED <<session, writing, ingestion, runtime, current, stdout, untold>>
    BY <1>2 DEF SendTurn, Interrupt, ContinueStart, thread, ghosts
  <2>2. child' = child \/ \E p, s : child' = [child EXCEPT ![p].asked = s]
    BY <1>2 DEF SendTurn, Interrupt, ContinueStart, SendRequest
  <2>3. \A p \in Processes : child'[p].life = child[p].life /\ child'[p].turn = child[p].turn
    BY <1>1, <2>2 DEF Children
  <2> QED
    BY <1>2, <2>1, <2>3
<1>3. CASE RespondToRequest
  <2>1. UNCHANGED <<session, writing, ingestion, runtime, current, stdout, untold>>
    BY <1>3 DEF RespondToRequest, thread
  <2>2. child' = child \/ \E q \in Processes : child' = [child EXCEPT ![q].asking = FALSE]
    <3>1. current # None => current \in Processes
      BY DEF ProviderTypes, ManagerTypes, Conversations
    <3> QED
      BY <1>3, <3>1 DEF RespondToRequest
  <2>3. \A p \in Processes : /\ child'[p].life = child[p].life /\ child'[p].turn = child[p].turn
                             /\ child'[p].asked = child[p].asked
    <3>1. CASE child' = child
      BY <3>1
    <3>2. ASSUME NEW q \in Processes, child' = [child EXCEPT ![q].asking = FALSE]
          PROVE  \A p \in Processes : /\ child'[p].life = child[p].life /\ child'[p].turn = child[p].turn
                                     /\ child'[p].asked = child[p].asked
      <4>1. child[q] \in Children
        BY <1>1
      <4>2. child'[q] = [child[q] EXCEPT !.asking = FALSE] /\ \A p \in Processes : p # q => child'[p] = child[p]
        BY <1>1, <3>2
      <4>3. child'[q].life = child[q].life /\ child'[q].turn = child[q].turn /\ child'[q].asked = child[q].asked
        BY <4>1, <4>2 DEF Children
      <4> QED
        BY <4>2, <4>3
    <3> QED
      BY <2>2, <3>1, <3>2
  <2> QED
    BY <2>1, <2>3
<1>4. CASE Route \/ TurnAccepted \/ TurnRefused \/ InterruptAnswered \/ UpsertBinding \/ RecordTurn \/ RemoveBinding
  BY <1>4 DEF Route, TurnAccepted, TurnRefused, InterruptAnswered, UpsertBinding, RecordTurn, RemoveBinding,
     manager, thread, ghosts
<1> QED
  BY <1>2, <1>3, <1>4 DEF Moves

LEMMA MovesTell ==
  ASSUME ProviderTypes, Cursors, Tells, Moves
  PROVE  Tells'
<1>1. /\ UNCHANGED <<session, writing, ingestion, runtime, current, stdout, untold>>
      /\ \A p \in Processes : child'[p].life = child[p].life /\ child'[p].turn = child[p].turn
  BY MovesLeave
<1>2. job \in Jobs /\ child \in [Processes -> Children] /\ current \in Processes \cup {None}
  BY DEF ProviderTypes, JobTypes, ManagerTypes, Conversations
<1>3. OneLives'
  BY <1>1, AloneStill DEF Tells, Lives
<1>4. job.at # "stop"
  BY DEF Moves, Route, TurnAccepted, TurnRefused, SendTurn, Interrupt, InterruptAnswered, RespondToRequest,
     ContinueStart, UpsertBinding, RecordTurn, RemoveBinding, Startup
<1>5. (\E t : WillShow(t) /\ Agrees(t))'
  <2>1. Unread' = Unread
    BY <1>1 DEF Unread
  <2>2. current # None => current \in Processes
    BY <1>2
  <2> QED
    BY <1>1, <1>4, <2>1, <2>2, SameTurnShown DEF Tells, TakingOver
<1>6. StartsAfresh' /\ TakeoverAlone'
  <2>1. CASE ContinueStart
    <3>1. job.at \in Startup /\ NextRequest \in Startup /\ job' = [job EXCEPT !.at = NextRequest]
          /\ SendRequest(job.process, NextRequest, job.cursor)
      BY <2>1 DEF ContinueStart, GoTo
    <3>2. job'.at = NextRequest /\ job.process \in Processes
      BY <1>2, <3>1 DEF Jobs, ProviderTypes, JobTypes, Requesting
    <3>3. ASSUME current # None PROVE NoTurn(child'[current])
      <4>1. NoTurn(child[current]) /\ current \in Processes
        BY <1>2, <3>1, <3>3 DEF Tells, StartsAfresh, Starting
      <4>2. \/ child' = child
            \/ child' = [child EXCEPT ![job.process].asked =
                           Append(@, [method |-> NextRequest, argument |-> job.cursor])]
        BY <3>1 DEF SendRequest
      <4>3. \/ child'[current].asked = child[current].asked
            \/ child'[current].asked = Append(child[current].asked,
                                              [method |-> NextRequest, argument |-> job.cursor])
        <5>1. \A c \in Children : \A s : [c EXCEPT !.asked = s].asked = s
          BY DEF Children
        <5>2. child[current] \in Children
          BY <1>2, <4>1
        <5> DEFINE s == Append(child[current].asked, [method |-> NextRequest, argument |-> job.cursor])
        <5>3. CASE child' = child
          BY <5>3
        <5>4. CASE child' # child
          <6>1. CASE current = job.process
            <7>1. child'[current] = [child[current] EXCEPT !.asked = s]
              BY <1>2, <4>1, <4>2, <5>4, <6>1
            <7> HIDE DEF s
            <7>2. child'[current].asked = s
              BY <5>1, <5>2, <7>1
            <7> QED
              BY <7>2 DEF s
          <6>2. CASE current # job.process
            BY <1>2, <4>1, <4>2, <5>4, <6>2
          <6> QED
            BY <6>1, <6>2
        <5> QED
          BY <5>3, <5>4
      <4>4. NextRequest # "turn/start"
        BY <3>1 DEF Startup
      <4>5. child[current].asked \in Seq(Asks)
        BY <1>2, <4>1 DEF Children
      <4>6. \A i \in DOMAIN child'[current].asked : child'[current].asked[i].method # "turn/start"
        <5> DEFINE request == [method |-> NextRequest, argument |-> job.cursor]
        <5>1. request.method # "turn/start"
          BY <4>4
        <5>2. child'[current].asked \in {child[current].asked, Append(child[current].asked, request)}
          BY <4>3
        <5> HIDE DEF request
        <5>3. \A i \in DOMAIN child[current].asked : child[current].asked[i].method # "turn/start"
          BY <4>1 DEF NoTurn
        <5>4. PICK s \in Seq(Asks) : s = child[current].asked
          BY <4>5
        <5>5. \A i \in DOMAIN Append(s, request) :
                (i \in DOMAIN s /\ Append(s, request)[i] = s[i]) \/ Append(s, request)[i] = request
          BY <5>4
        <5> QED
          BY <5>1, <5>2, <5>3, <5>4, <5>5
      <4> QED
        BY <1>1, <4>1, <4>6 DEF NoTurn
    <3>4. job'.at \in Startup
      BY <3>1, <3>2
    <3> QED
      BY <1>1, <3>3, <3>4 DEF StartsAfresh, TakeoverAlone, Startup
  <2>2. CASE SendTurn \/ Interrupt \/ InterruptAnswered \/ RespondToRequest \/ TurnAccepted \/ RecordTurn
    <3>1. job'.at \in {"idle", "turn/start", "turn/interrupt", "record"}
          \/ (job'.at = "failed" /\ job'.kind = job.kind /\ job.kind = "turn")
      <4>1. CASE SendTurn
        <5>1. job.kind = "turn" /\ (job' = [job EXCEPT !.at = "failed"]
                                    \/ job' = [job EXCEPT !.at = "turn/start", !.process = current])
          BY <4>1 DEF SendTurn, GoTo
        <5> QED
          BY <1>2, <5>1 DEF Jobs
      <4>2. CASE Interrupt
        <5>1. job' = Idle \/ job' = [job EXCEPT !.at = "turn/interrupt", !.process = current]
          BY <4>2 DEF Interrupt
        <5>2. Idle.at = "idle"
          BY DEF Idle
        <5>3. job' = [job EXCEPT !.at = "turn/interrupt", !.process = current] => job'.at = "turn/interrupt"
          BY <1>2 DEF Jobs
        <5> QED
          BY <5>1, <5>2, <5>3
      <4>3. CASE InterruptAnswered \/ RespondToRequest \/ RecordTurn
        BY <4>3 DEF InterruptAnswered, RespondToRequest, RecordTurn, Idle
      <4>4. CASE TurnAccepted
        BY <1>2, <4>4 DEF TurnAccepted, GoTo, Jobs
      <4> QED
        BY <2>2, <4>1, <4>2, <4>3, <4>4
    <3> QED
      BY <3>1 DEF StartsAfresh, TakeoverAlone, Starting, Startup
  <2>3. CASE Route \/ TurnRefused \/ RemoveBinding
    <3>1. job'.at \notin Starting \cup {"show"} /\ job'.kind = job.kind
      BY <1>2, <2>3 DEF Route, TurnRefused, RemoveBinding, GoTo, Jobs, Starting, Startup
    <3>2. job.kind = "takeover" => current = None
      <4>1. job.at \in {"route", "turn/start", "remove"}
        BY <2>3 DEF Route, TurnRefused, RemoveBinding
      <4> QED
        BY <4>1 DEF Cursors, Starting, Startup
    <3> QED
      BY <1>1, <3>1, <3>2 DEF StartsAfresh, TakeoverAlone
  <2>4. CASE UpsertBinding
    <3>1. job.at = "bound" /\ job'.at \in {"operate", "show"} /\ UNCHANGED child
      BY <1>2, <2>4 DEF UpsertBinding, GoTo, Jobs, manager
    <3> QED
      BY <1>1, <3>1 DEF Tells, StartsAfresh, TakeoverAlone, Starting, Startup
  <2> QED
    BY <2>1, <2>2, <2>3, <2>4 DEF Moves
<1> QED
  BY <1>3, <1>5, <1>6 DEF Tells

\* The session is shown without a turn.
LEMMA ShowsTell ==
  ASSUME ProviderTypes, Tells, Plain', GiveUp \/ SetStopped \/ ShowSession
  PROVE  Tells'
<1>1. UNCHANGED <<writing, ingestion, runtime, current, child, stdout, untold>> /\ job \in Jobs
  BY DEF GiveUp, SetStopped, ShowSession, manager, ghosts, ProviderTypes, JobTypes
<1>2. OneLives'
  BY <1>1 DEF Tells, OneLives
<1>3. job'.at \in {"idle", "route"}
  <2>1. job' = Idle \/ job' = [job EXCEPT !.at = "route"]
    BY DEF GiveUp, SetStopped, ShowSession
  <2> QED
    BY <1>1, <2>1 DEF Idle, Jobs
<1>4. StartsAfresh' /\ TakeoverAlone'
  BY <1>3 DEF StartsAfresh, TakeoverAlone, Starting, Startup
<1>5. Unread' = Unread /\ ~TakingOver
  BY <1>1 DEF Unread, TakingOver, GiveUp, SetStopped, ShowSession
<1>6. session'.turn = session.turn \/ (session'.turn = None /\ (current = None \/ child[current].turn = None))
  <2>1. CASE GiveUp
    <3>1. job.at = "failed"
          /\ session' = IF job.kind = "takeover"
                        THEN [status |-> "error", turn |-> None, mode |-> job.mode] ELSE session
      BY <2>1 DEF GiveUp
    <3> QED
      BY <3>1 DEF Tells, TakeoverAlone
  <2>2. CASE SetStopped
    <3>1. current = None
      BY <2>2 DEF SetStopped, Plain
    <3> QED
      BY <2>2, <3>1 DEF SetStopped, ShowStopped
  <2>3. CASE ShowSession
    <3>1. job.at = "show" /\ session' = [status |-> "ready", turn |-> None, mode |-> job.mode]
      BY <2>3 DEF ShowSession
    <3> QED
      BY <3>1 DEF Tells, StartsAfresh, NoTurn
  <2> QED
    BY <2>1, <2>2, <2>3
<1>7. (\E t : WillShow(t) /\ Agrees(t))'
  <2>1. CASE session'.turn = session.turn
    BY <1>1, <1>5, <2>1, SameTurnShown DEF Tells
  <2>2. CASE session'.turn = None /\ (current = None \/ child[current].turn = None)
    <3>1. Agrees(None)'
      BY <1>1, <2>2 DEF Agrees
    <3> QED
      BY <1>1, <1>5, <2>2, <3>1, NoTurnShown DEF Tells
  <2> QED
    BY <1>6, <2>1, <2>2
<1> QED
  BY <1>2, <1>4, <1>7 DEF Tells

LEMMA TakeIntentTells ==
  ASSUME ProviderTypes, Tells, TakeIntent
  PROVE  Tells'
<1>1. /\ UNCHANGED <<writing, ingestion, runtime, current, child, stdout, untold>>
      /\ job.at = "idle" /\ intents # <<>>
  BY DEF TakeIntent, manager, ghosts
<1> DEFINE i == Head(intents)
<1>2. i.kind \in Kinds
  BY <1>1, TailTyped DEF ProviderTypes, UserTypes, Intents
<1>3. \/ job' = Idle /\ FirstStep(i.kind) = "idle"
      \/ job'.kind = i.kind /\ job'.at = FirstStep(i.kind)
  BY DEF TakeIntent, Idle
<1>4. session' = IF i.kind = "takeover" THEN [status |-> "starting", turn |-> None, mode |-> wanted] ELSE session
  BY DEF TakeIntent
<1> HIDE DEF i
<1>5. OneLives'
  BY <1>1 DEF Tells, OneLives
<1>6. StartsAfresh'
  BY <1>2, <1>3 DEF StartsAfresh, Starting, Startup, FirstStep, Kinds, Idle
<1>7. TakeoverAlone'
  BY <1>1, <1>2, <1>3 DEF TakeoverAlone, FirstStep, Idle
<1>8. ~TakingOver /\ Unread' = Unread
  BY <1>1 DEF TakingOver, Unread
<1>9. CASE i.kind = "takeover"
  <2>1. session'.turn = None
    BY <1>4, <1>9
  <2>2. current = None \/ TakingOver'
    BY <1>3, <1>9 DEF FirstStep, TakingOver
  <2>3. Agrees(None)'
    BY <1>1, <2>2 DEF Agrees
  <2> QED
    BY <1>1, <1>5, <1>6, <1>7, <1>8, <2>1, <2>3, NoTurnShown DEF Tells
<1>10. CASE i.kind # "takeover"
  BY <1>1, <1>4, <1>5, <1>6, <1>7, <1>8, <1>10, SameTurnShown DEF Tells
<1> QED
  BY <1>9, <1>10

LEMMA StopCurrentTells ==
  ASSUME ProviderTypes, Tells, UNCHANGED <<session, writing, ingestion>>,
         NEW events \in {<<>>, <<Event("error", None)>>}, StopCurrent(events)
  PROVE  /\ OneLives' /\ current' = None
         /\ (\E t : WillShow(t) /\ Agrees(t))'
<1>1. runtime \in Seq(Events)
  BY DEF ProviderTypes, RuntimeTypes
<1>2. OneLives' /\ current' = None
  BY StopCurrentAlone DEF Tells
<1>3. \A e \in Events, f \in Events : /\ runtime \o Append(<<>>, e) = runtime \o <<e>>
                                      /\ runtime \o Append(<<f>>, e) = (runtime \o <<f>>) \o <<e>>
                                      /\ runtime \o <<>> = runtime
  <2> SUFFICES ASSUME NEW e \in Events, NEW f \in Events
               PROVE  /\ runtime \o Append(<<>>, e) = runtime \o <<e>>
                      /\ runtime \o Append(<<f>>, e) = (runtime \o <<f>>) \o <<e>>
                      /\ runtime \o <<>> = runtime
    OBVIOUS
  <2>1. Append(<<>>, e) = <<e>> /\ Append(<<f>>, e) = <<f>> \o <<e>> /\ <<e>> \in Seq(Events) /\ <<f>> \in Seq(Events)
    <3>1. <<e>> \in Seq(Events) /\ <<f>> \in Seq(Events)
      OBVIOUS
    <3>2. <<f>> \o <<e>> = Append(<<f>>, e)
      BY <3>1, OneEvent
    <3>3. Append(<<>>, e) = <<e>>
      OBVIOUS
    <3> QED
      BY <3>1, <3>2, <3>3
  <2>2. runtime \o (<<f>> \o <<e>>) = (runtime \o <<f>>) \o <<e>>
    BY <1>1, <2>1
  <2>3. runtime \o <<>> = runtime
    BY <1>1
  <2> QED
    BY <2>1, <2>2, <2>3
<1>4. Event("error", None) \in Events /\ Event("exited", None) \in Events
  BY EventsAre
<1>5. CASE current = None
  <2>1. runtime' = runtime \o events
    BY <1>5 DEF StopCurrent, Emit
  <2>2. runtime' = runtime \/ runtime' = runtime \o <<Event("error", None)>>
    BY <1>1, <1>3, <1>4, <2>1
  <2> QED
    BY <1>2, <1>5, <2>2, EndShown DEF Tells
<1>6. CASE current # None
  <2>1. runtime' = runtime \o Append(events, Event("exited", None))
    BY <1>6 DEF StopCurrent, Emit
  <2>2. \/ runtime' = runtime \o <<Event("exited", None)>>
        \/ runtime' = (runtime \o <<Event("error", None)>>) \o <<Event("exited", None)>>
    BY <1>3, <1>4, <2>1
  <2> QED
    BY <1>2, <2>2, EndShown DEF Tells
<1> QED
  BY <1>5, <1>6

LEMMA StopsTell ==
  ASSUME ProviderTypes, Cursors, Tells, StopSession \/ StartFails
  PROVE  Tells'
<1>1. UNCHANGED <<session, writing, ingestion>> /\ job \in Jobs
  BY DEF StopSession, StartFails, thread, ProviderTypes, JobTypes
<1>2. job'.at \in {"failed", "remove"}
  BY <1>1 DEF StopSession, StartFails, GoTo, Jobs
<1>3. OneLives' /\ current' = None /\ (\E t : WillShow(t) /\ Agrees(t))'
  <2>1. CASE StopSession /\ binding = NoBinding
    <3>1. job.at = "stop" /\ UNCHANGED <<child, context, stdout, current, runtime>>
      BY <2>1 DEF StopSession, manager
    <3>2. current = None
      <4>1. current # None => binding.cursor # None
        BY <3>1 DEF Cursors, Starting, Startup
      <4> QED
        BY <2>1, <4>1 DEF NoBinding
    <3>3. OneLives'
      BY <3>1 DEF Tells, OneLives
    <3> QED
      BY <1>1, <3>1, <3>2, <3>3, EndShown DEF Tells
  <2>2. CASE StopSession /\ binding # NoBinding
    <3>1. StopCurrent(<<>>)
      BY <2>2 DEF StopSession
    <3> QED
      BY <1>1, <3>1, StopCurrentTells
  <2>3. CASE StartFails
    <3>1. StopCurrent(<<Event("error", None)>>)
      BY <2>3 DEF StartFails
    <3> QED
      BY <1>1, <3>1, StopCurrentTells
  <2> QED
    BY <2>1, <2>2, <2>3
<1> QED
  BY <1>2, <1>3 DEF Tells, StartsAfresh, TakeoverAlone, Starting, Startup

LEMMA SpawnFailsTells ==
  ASSUME ProviderTypes, Tells, Plain', SpawnFails
  PROVE  Tells'
<1>1. /\ UNCHANGED <<session, writing, ingestion, child, stdout, current>> /\ job \in Jobs
      /\ runtime' = runtime \o <<Event("error", None)>>
  BY DEF SpawnFails, Emit, thread, manager, ProviderTypes, JobTypes
<1>2. job'.at = "failed"
  BY <1>1 DEF SpawnFails, GoTo, Jobs
<1>3. current = None
  BY DEF SpawnFails, ExcuseReplacement, Plain
<1>4. (\E t : WillShow(t) /\ Agrees(t))'
  BY <1>1, <1>3, EndShown DEF Tells
<1>5. OneLives'
  BY <1>1 DEF Tells, OneLives
<1> QED
  BY <1>1, <1>2, <1>3, <1>4, <1>5 DEF Tells, StartsAfresh, TakeoverAlone

LEMMA SpawnTells ==
  ASSUME ProviderTypes, Tells, Plain', Spawn
  PROVE  Tells'
<1>1. PICK p \in Processes :
        /\ child[p].life = "unborn" /\ current' = p
        /\ child' = [child EXCEPT ![p] = [Unborn EXCEPT !.life = "running",
                       !.asked = <<[method |-> "initialize", argument |-> None]>>]]
        /\ job' = [job EXCEPT !.at = "initialize", !.process = p,
                     !.cursor = IF job.cursor # None THEN job.cursor ELSE binding.cursor]
  BY DEF Spawn
<1>2. /\ UNCHANGED <<session, writing, ingestion, stdout>> /\ current = None
      /\ runtime' = runtime \o <<Event("starting", None)>>
  BY DEF Spawn, ExcuseReplacement, Plain, Emit, thread
<1>3. job \in Jobs /\ child \in [Processes -> Children] /\ RuntimeTypes
  BY DEF ProviderTypes, JobTypes, ManagerTypes
<1>4. job'.at = "initialize"
  BY <1>1, <1>3 DEF Jobs
<1>5. /\ child'[p].life = "running" /\ NoTurn(child'[p])
      /\ \A q \in Processes : q # p => child'[q] = child[q]
  <2>1. child'[p] = [Unborn EXCEPT !.life = "running", !.asked = <<[method |-> "initialize", argument |-> None]>>]
    BY <1>1, <1>3
  <2>2. /\ child'[p].life = "running" /\ child'[p].turn = None
        /\ child'[p].asked = <<[method |-> "initialize", argument |-> None]>>
    BY <2>1 DEF Unborn
  <2> DEFINE request == [method |-> "initialize", argument |-> None]
  <2>3. request.method = "initialize"
    OBVIOUS
  <2> HIDE DEF request
  <2>4. \A i \in DOMAIN <<request>> : <<request>>[i] = request
    OBVIOUS
  <2>5. child'[p].asked = <<request>>
    BY <2>2 DEF request
  <2> QED
    BY <1>1, <1>3, <2>2, <2>3, <2>4, <2>5 DEF NoTurn
<1>6. OneLives'
  BY <1>1, <1>2, <1>5, NoneAssumption DEF Tells, OneLives
<1>7. StartsAfresh' /\ TakeoverAlone'
  BY <1>1, <1>4, <1>5 DEF StartsAfresh, TakeoverAlone
<1>8. (\E t : WillShow(t) /\ Agrees(t))'
  <2>1. PICK t, i, r : Agrees(t) /\ Leads(Met, ingestion, i) /\ Leads(i, runtime, r) /\ Leads(r, Unread, t)
    BY DEF Tells, WillShow
  <2>2. t = None /\ Unread = <<>>
    BY <1>2, <2>1 DEF Agrees, Unread
  <2>3. r = None
    BY <2>1, <2>2, LeadsNowhere
  <2>4. Leads(i, runtime', None)
    BY <1>2, <1>3, <2>1, <2>3, EmittedLeads
  <2>5. Unread' = <<>> /\ Met' = Met
    BY <1>1, <1>2, NoneAssumption DEF Tells, OneLives, Unread, Met
  <2>6. WillShow(None)'
    BY <1>2, <2>1, <2>4, <2>5, LeadsNowhere DEF WillShow
  <2>7. Agrees(None)'
    BY <1>1, <1>5, NoneAssumption DEF Agrees, NoTurn
  <2> QED
    BY <2>6, <2>7
<1> QED
  BY <1>6, <1>7, <1>8 DEF Tells

LEMMA SessionReadyTells ==
  ASSUME ProviderTypes, Tells, SessionReady
  PROVE  Tells'
<1>1. /\ UNCHANGED <<session, writing, ingestion, child, stdout, current, untold>> /\ job.at \in Startup /\ job \in Jobs
      /\ runtime' = runtime \o <<Event("ready", None)>>
  BY DEF SessionReady, Emit, thread, ghosts, ProviderTypes, JobTypes
<1>2. job'.at = "bound"
  BY <1>1 DEF SessionReady, GoTo, Jobs
<1>3. OneLives' /\ StartsAfresh' /\ TakeoverAlone'
  BY <1>1, <1>2 DEF Tells, OneLives, StartsAfresh, TakeoverAlone, Starting
<1>4. PICK t, i, r : Agrees(t) /\ Leads(Met, ingestion, i) /\ Leads(i, runtime, r) /\ Leads(r, Unread, t)
  BY DEF Tells, WillShow
<1>5. Leads(i, runtime', r)
  BY <1>1, <1>4, EmittedLeads DEF ProviderTypes
<1>6. Met' = Met /\ Unread' = Unread
  BY <1>1 DEF Met, Unread
<1>7. WillShow(t)'
  BY <1>1, <1>4, <1>5, <1>6 DEF WillShow
<1>8. Agrees(t)'
  BY <1>1, <1>4 DEF Agrees, TakingOver, Startup
<1> QED
  BY <1>3, <1>7, <1>8 DEF Tells

(***************************************************************************)
(* The manager and the app-servers.                                        *)
(***************************************************************************)
LEMMA TimeoutTells ==
  ASSUME ProviderTypes, Tells, NEW p \in Processes, RequestTimesOut(p)
  PROVE  Tells'
<1>1. /\ UNCHANGED <<job, child, session, writing, ingestion, runtime, current, untold>>
      /\ stdout' = [stdout EXCEPT ![p] = WithoutResponse(stdout[p])]
  BY DEF RequestTimesOut, thread, ghosts
<1>2. stdout \in [Processes -> Seq(Lines)]
  BY DEF ProviderTypes, ManagerTypes
<1>3. OneLives'
  <2>1. WithoutResponse(<<>>) = <<>>
    BY DEF WithoutResponse
  <2> QED
    BY <1>1, <1>2, <2>1 DEF Tells, OneLives
<1>4. StartsAfresh' /\ TakeoverAlone'
  BY <1>1 DEF Tells, StartsAfresh, TakeoverAlone
<1>5. PICK t, i, r : Agrees(t) /\ Leads(Met, ingestion, i) /\ Leads(i, runtime, r) /\ Leads(r, Unread, t)
  BY DEF Tells, WillShow
<1>6. Leads(r, Unread', t)
  <2>1. CASE current = p
    <3>1. Unread = stdout[p] /\ Unread' = WithoutResponse(stdout[p])
      BY <1>1, <1>2, <2>1, NoneAssumption DEF Unread
    <3> QED
      BY <1>2, <1>5, <3>1, LeadsWithoutResponse
  <2>2. CASE current # p
    <3>1. Unread' = Unread
      BY <1>1, <1>2, <2>2 DEF Unread, ProviderTypes, ManagerTypes, Conversations
    <3> QED
      BY <1>5, <3>1
  <2> QED
    BY <2>1, <2>2
<1>7. Met' = Met
  BY <1>1 DEF Met
<1>8. WillShow(t)'
  BY <1>1, <1>5, <1>6, <1>7 DEF WillShow
<1>9. Agrees(t)'
  BY <1>1, <1>5 DEF Agrees, TakingOver
<1> QED
  BY <1>3, <1>4, <1>8, <1>9 DEF Tells

LEMMA ReadTells ==
  ASSUME ProviderTypes, Tells, Plain', NEW p \in Processes, ReadLine(p)
  PROVE  Tells'
<1> DEFINE line == Head(stdout[p])
<1>1. /\ UNCHANGED <<session, writing, ingestion, job, child, current, untold>>
      /\ stdout[p] # <<>> /\ stdout' = [stdout EXCEPT ![p] = Tail(stdout[p])]
      /\ IF line.type = "response" THEN runtime' = runtime
         ELSE runtime' = runtime \o <<Event(line.type, line.turn)>>
      /\ child[p].life # "exited"
  <2>1. UNCHANGED <<session, writing, ingestion, job, child, current, untold>>
    BY DEF ReadLine, thread, ghosts
  <2>2. /\ stdout[p] # <<>> /\ stdout' = [stdout EXCEPT ![p] = Tail(stdout[p])]
        /\ IF line.type = "response" THEN runtime' = runtime
           ELSE runtime' = runtime \o <<Event(line.type, line.turn)>>
    BY DEF ReadLine, Emit
  <2>3. child[p].life # "exited"
    BY DEF ReadLine, Plain
  <2> QED
    BY <2>1, <2>2, <2>3
<1>2. stdout \in [Processes -> Seq(Lines)] /\ child \in [Processes -> Children] /\ runtime \in Seq(Events)
  BY DEF ProviderTypes, ManagerTypes, RuntimeTypes
<1>3. line \in Lines /\ stdout[p] \in Seq(Lines)
  BY <1>1, <1>2, TailTyped
<1>4. current = p /\ child[p].life \in {"running", "dead"}
  BY <1>1, <1>2 DEF Tells, OneLives, Children
<1>5. OneLives'
  <2>1. \A q \in Processes : q # p => stdout'[q] = stdout[q]
    BY <1>1, <1>2
  <2> QED
    BY <1>1, <1>4, <2>1 DEF Tells, OneLives
<1>6. StartsAfresh' /\ TakeoverAlone'
  BY <1>1 DEF Tells, StartsAfresh, TakeoverAlone
<1>7. PICK t, i, r : Agrees(t) /\ Leads(Met, ingestion, i) /\ Leads(i, runtime, r) /\ Leads(r, Unread, t)
  BY DEF Tells, WillShow
<1>8. Unread = stdout[p] /\ Unread' = Tail(stdout[p]) /\ Met' = Met
  BY <1>1, <1>2, <1>4, NoneAssumption DEF Unread, Met
<1>9. Applies(line, r) /\ Leads(TurnAfter(line, r), Unread', t)
  BY <1>1, <1>3, <1>7, <1>8, LeadsTail
<1>10. Leads(i, runtime', TurnAfter(line, r))
  <2>1. CASE line.type = "response"
    BY <1>1, <1>7, <2>1 DEF TurnAfter, Ends
  <2>2. CASE line.type # "response"
    <3> DEFINE e == Event(line.type, line.turn)
    <3>1. e \in Events /\ e.type = line.type /\ e.turn = line.turn
      BY <1>3, <2>2 DEF Event, Events, Lines, TurnEventTypes, SomeTurn
    <3>2. Applies(e, r) /\ TurnAfter(e, r) = TurnAfter(line, r)
      BY <1>9, <3>1 DEF Applies, TurnAfter, Ends
    <3>3. runtime' = runtime \o <<e>>
      BY <1>1, <2>2
    <3> HIDE DEF e, line
    <3>4. Leads(r, <<e>>, TurnAfter(e, r)) /\ <<e>> \in Seq(Events)
      BY <3>1, <3>2, LeadsOne
    <3>5. Leads(i, runtime \o <<e>>, TurnAfter(e, r))
      BY <1>2, <1>7, <3>4, LeadsOn
    <3> QED
      BY <3>2, <3>3, <3>5
  <2> QED
    BY <2>1, <2>2
<1>11. WillShow(t)'
  BY <1>1, <1>7, <1>8, <1>9, <1>10 DEF WillShow
<1>12. Agrees(t)'
  BY <1>1, <1>7 DEF Agrees, TakingOver
<1> QED
  BY <1>5, <1>6, <1>11, <1>12 DEF Tells

\* An error ends the turn for the thread, which is one that ran when the error was heard.
LEMMA HearErrorTells ==
  ASSUME ProviderTypes, Tells, NEW p \in Processes, HearError(p)
  PROVE  Tells'
<1>1. /\ UNCHANGED <<session, writing, ingestion, job, child, stdout, current>>
      /\ runtime' = runtime \o <<Event("error", None)>>
  BY HearErrorLeaves
<1>2. OneLives' /\ StartsAfresh' /\ TakeoverAlone'
  BY <1>1 DEF Tells, OneLives, StartsAfresh, TakeoverAlone
<1>3. PICK t, i, r : Agrees(t) /\ Leads(Met, ingestion, i) /\ Leads(i, runtime, r) /\ Leads(r, Unread, t)
  BY DEF Tells, WillShow
<1>4. Leads(i, runtime', None)
  BY <1>1, <1>3, EmittedLeads DEF ProviderTypes
<1>5. Met' = Met /\ Unread' = Unread /\ Unread \in Seq(Lines)
  BY <1>1 DEF Met, Unread, ProviderTypes, ManagerTypes, Conversations
<1>6. PICK u \in {t, None} : Leads(None, Unread, u)
  BY <1>3, <1>5, LeadsFromNone
<1>7. WillShow(u)'
  BY <1>1, <1>3, <1>4, <1>5, <1>6 DEF WillShow
<1>8. /\ untold \subseteq untold'
      /\ current # None => child[current].turn \in untold' \cup {None}
  BY DEF HearError
<1>9. Agrees(t)' /\ Agrees(None)'
  BY <1>1, <1>3, <1>8 DEF Agrees, TakingOver
<1> QED
  BY <1>2, <1>6, <1>7, <1>9 DEF Tells

LEMMA ExitTells ==
  ASSUME ProviderTypes, Tells, NEW p \in Processes, ExitEvent(p)
  PROVE  Tells'
<1>1. /\ UNCHANGED <<session, writing, ingestion, job, stdout>>
      /\ child[p].life = "dead" /\ current' = None
      /\ child' = [child EXCEPT ![p].life = "exited"] /\ runtime' = runtime \o <<Event("exited", None)>>
  BY DEF ExitEvent, Emit, thread, reactor
<1>2. child \in [Processes -> Children]
  BY DEF ProviderTypes, ManagerTypes
<1>3. child'[p].life = "exited" /\ \A q \in Processes : q # p => child'[q] = child[q]
  BY <1>1, <1>2 DEF Children
<1>4. OneLives'
  BY <1>1, <1>3 DEF Tells, OneLives
<1>5. (\E t : WillShow(t) /\ Agrees(t))'
  BY <1>1, EndShown DEF Tells
<1> QED
  BY <1>1, <1>4, <1>5 DEF Tells, StartsAfresh, TakeoverAlone

\* The lines an app-server writes tell what becomes of its turn; no turn follows another
\* without an end.
LEMMA AppServerTurns ==
  ASSUME ProviderTypes, NEW p \in Processes, AppServer(p)
  PROVE  \E lines, after :
           /\ lines \in Seq(Lines) /\ Writes(p, lines, after)
           /\ \/ after.life = "dead" /\ lines = <<>>
              \/ after.life = "running" /\ Leads(child[p].turn, lines, after.turn)
           /\ NoTurn(child[p]) => NoTurn(after)
           /\ child[p].turn # None => after.turn \in {child[p].turn, None}
<1> DEFINE c == child[p]
           Good(lines, after) ==
             /\ \/ after.life = "dead" /\ lines = <<>>
                \/ after.life = "running" /\ Leads(c.turn, lines, after.turn)
             /\ NoTurn(c) => NoTurn(after)
             /\ c.turn # None => after.turn \in {c.turn, None}
<1>1. c.life = "running" /\ c \in Children /\ c.asked \in Seq(Asks)
  <2>1. Runs(p)
    BY AppServerWrites
  <2> QED
    BY <2>1 DEF Runs, ProviderTypes, ManagerTypes, Children
<1>2. ASSUME NEW result \in Answers, NEW t
      PROVE  Response(p, result) \in Seq(Lines) /\ Leads(t, Response(p, result), t)
  <2>1. CASE Response(p, result) = <<>>
    BY <2>1, LeadsNowhere, ResponseTyped
  <2>2. CASE Response(p, result) # <<>>
    <3> DEFINE r == [type |-> "response", turn |-> None, result |-> result]
    <3>1. Response(p, result) = <<r>>
      BY <2>2 DEF Response
    <3>2. Applies(r, t) /\ TurnAfter(r, t) = t
      BY DEF Applies, TurnAfter, Ends
    <3> HIDE DEF r
    <3>3. Leads(t, <<r>>, t)
      BY <3>2, LeadsOne
    <3> QED
      BY <3>1, <3>3, ResponseTyped
  <2> QED
    BY <2>1, <2>2
<1>3. "ok" \in Answers /\ "error" \in Answers /\ "not found" \in Answers
  BY DEF Answers
<1>4. ASSUME c.asked # <<>>
      PROVE  /\ Done(p).life = "running" /\ Done(p).turn = c.turn /\ Done(p) \in Children
             /\ Done(p).asked = Tail(c.asked) /\ Head(c.asked) \in Asks /\ (NoTurn(c) => NoTurn(Done(p)))
             /\ NoTurn(c) => Head(c.asked).method # "turn/start"
  <2>1. /\ Tail(c.asked) \in Seq(Asks) /\ Head(c.asked) \in Asks /\ Head(c.asked) = c.asked[1]
        /\ \A i \in DOMAIN Tail(c.asked) : i + 1 \in DOMAIN c.asked /\ Tail(c.asked)[i] = c.asked[i + 1]
        /\ 1 \in DOMAIN c.asked
    <3>1. Len(c.asked) \in Nat \ {0} /\ DOMAIN c.asked = 1..Len(c.asked)
      BY <1>1, <1>4, TailTyped
    <3>2. 1 \in DOMAIN c.asked
      BY <3>1
    <3> QED
      BY <1>1, <1>4, <3>2, TailTyped
  <2>2. /\ Done(p).life = "running" /\ Done(p).turn = c.turn /\ Done(p) \in Children
        /\ Done(p).asked = Tail(c.asked)
    BY <1>1, <2>1 DEF Done, Children
  <2> QED
    BY <2>1, <2>2 DEF NoTurn
<1>5. ASSUME NEW type \in {"turnStarted", "turnCompleted", "approval"}, NEW u \in Turns, NEW t \in {None, u}
      PROVE  /\ <<Line(type, u)>> \in Seq(Lines)
             /\ Leads(t, <<Line(type, u)>>,
                      CASE type = "turnStarted" -> u [] type = "turnCompleted" -> None [] type = "approval" -> t)
  <2> DEFINE l == Line(type, u)
  <2>1. l.type = type /\ l.turn = u /\ l \in Lines
    BY LineTyped DEF Line, TurnEventTypes
  <2>2. /\ Applies(l, t)
        /\ TurnAfter(l, t) = CASE type = "turnStarted" -> u [] type = "turnCompleted" -> None [] type = "approval" -> t
    BY <2>1 DEF Applies, TurnAfter, Ends
  <2> HIDE DEF l
  <2>3. Leads(t, <<l>>, TurnAfter(l, t)) /\ <<l>> \in Seq(Lines)
    BY <2>1, <2>2, LeadsOne
  <2> QED
    BY <2>2, <2>3 DEF l
<1>6. CASE Accepts(p) \/ Refuses(p)
  <2>1. c.asked # <<>>
    BY <1>6 DEF Accepts, Refuses, Handles
  <2>2. PICK r \in Answers, after \in {Done(p), [Done(p) EXCEPT !.conversation = p],
                                       [Done(p) EXCEPT !.conversation = Argument(p)]} :
          Writes(p, Response(p, r), after)
    BY <1>3, <1>6 DEF Accepts, Refuses
  <2>3. after.life = "running" /\ after.turn = c.turn /\ after.asked = Tail(c.asked)
    BY <1>4, <2>1 DEF Children
  <2>4. Leads(c.turn, Response(p, r), after.turn)
    BY <1>2, <2>3
  <2>5. NoTurn(c) => NoTurn(after)
    <3>1. NoTurn(c) => NoTurn(Done(p))
      BY <1>4, <2>1
    <3>2. after.turn = Done(p).turn /\ after.asked = Done(p).asked
      BY <1>4, <2>1, <2>3
    <3> QED
      BY <3>1, <3>2, Zenon DEF NoTurn
  <2>6. Good(Response(p, r), after)
    BY <2>3, <2>4, <2>5
  <2> QED
    BY <1>2, <2>2, <2>6
<1>7. CASE BeginsTurn(p)
  <2>1. /\ c.asked # <<>> /\ Head(c.asked).method = "turn/start" /\ c.turn = None
    BY <1>7 DEF BeginsTurn, Handles
  <2>2. Argument(p) \in Turns /\ ~NoTurn(c)
    BY <1>4, <2>1 DEF Argument, Asks
  <2> DEFINE started == <<Line("turnStarted", Argument(p))>>
             after == [Done(p) EXCEPT !.turn = Argument(p), !.mayAsk = TRUE]
  <2>3. after.life = "running" /\ after.turn = Argument(p)
    BY <1>4, <2>1 DEF Children
  <2>4. PICK lines \in {started \o Response(p, "ok"), Response(p, "ok") \o started} : Writes(p, lines, after)
    BY <1>7 DEF BeginsTurn
  <2>5. started \in Seq(Lines) /\ Leads(None, started, Argument(p))
    <3>1. "turnStarted" \in {"turnStarted", "turnCompleted", "approval"} /\ None \in {None, Argument(p)}
      OBVIOUS
    <3> QED
      BY <1>5, <2>2, <3>1
  <2>6. Response(p, "ok") \in Seq(Lines) /\ \A t : Leads(t, Response(p, "ok"), t)
    BY <1>2, <1>3
  <2> HIDE DEF started, after
  <2>7. Leads(None, started \o Response(p, "ok"), Argument(p)) /\ started \o Response(p, "ok") \in Seq(Lines)
    BY <2>5, <2>6, LeadsOn, ConcatTyped
  <2>8. Leads(None, Response(p, "ok") \o started, Argument(p)) /\ Response(p, "ok") \o started \in Seq(Lines)
    BY <2>5, <2>6, LeadsOn, ConcatTyped
  <2>9. lines \in Seq(Lines) /\ Good(lines, after)
    BY <2>1, <2>2, <2>3, <2>4, <2>7, <2>8
  <2> QED
    BY <2>4, <2>9
<1>8. CASE HeedsInterrupt(p)
  <2>1. c.asked # <<>>
    BY <1>8 DEF HeedsInterrupt, Handles
  <2> DEFINE after == [Done(p) EXCEPT !.turn = None, !.asking = FALSE]
             end == IF c.turn = None THEN <<>> ELSE EndOfTurn(p)
  <2>2. Writes(p, Response(p, "ok") \o end, after)
    BY <1>8 DEF HeedsInterrupt
  <2>3. after.life = "running" /\ after.turn = None /\ after.asked = Tail(c.asked)
    BY <1>4, <2>1 DEF Children
  <2>4. end \in Seq(Lines) /\ Leads(c.turn, end, None)
    <3>1. CASE c.turn = None
      BY <3>1, LeadsNowhere
    <3>2. CASE c.turn # None
      <4>1. c.turn \in Turns
        BY <1>1, <3>2 DEF Children, SomeTurn
      <4>2. "turnCompleted" \in {"turnStarted", "turnCompleted", "approval"} /\ c.turn \in {None, c.turn}
        OBVIOUS
      <4>3. /\ <<Line("turnCompleted", c.turn)>> \in Seq(Lines)
            /\ Leads(c.turn, <<Line("turnCompleted", c.turn)>>, None)
        BY <1>5, <4>1, <4>2
      <4> QED
        BY <3>2, <4>3 DEF EndOfTurn
    <3> QED
      BY <3>1, <3>2
  <2>5. Response(p, "ok") \in Seq(Lines) /\ Leads(c.turn, Response(p, "ok"), c.turn)
    BY <1>2, <1>3
  <2> HIDE DEF after, end
  <2>6. Leads(c.turn, Response(p, "ok") \o end, None) /\ Response(p, "ok") \o end \in Seq(Lines)
    BY <2>4, <2>5, LeadsOn, ConcatTyped
  <2>7. NoTurn(c) => NoTurn(after)
    BY <1>4, <2>1, <2>3 DEF NoTurn
  <2> QED
    BY <2>2, <2>3, <2>6, <2>7
<1>9. CASE AsksForApproval(p)
  <2> DEFINE after == [c EXCEPT !.asking = TRUE, !.mayAsk = FALSE]
  <2>1. Writes(p, <<Line("approval", c.turn)>>, after) /\ c.turn \in Turns
    BY <1>1, <1>9 DEF AsksForApproval, Children, SomeTurn
  <2>2. after.life = "running" /\ after.turn = c.turn /\ after.asked = c.asked
    BY <1>1 DEF Children
  <2>3. "approval" \in {"turnStarted", "turnCompleted", "approval"} /\ c.turn \in {None, c.turn}
    OBVIOUS
  <2>4. <<Line("approval", c.turn)>> \in Seq(Lines) /\ Leads(c.turn, <<Line("approval", c.turn)>>, c.turn)
    BY <1>5, <2>1, <2>3
  <2> HIDE DEF after
  <2> QED
    BY <2>1, <2>2, <2>4 DEF NoTurn
<1>10. CASE EndsTurn(p)
  <2> DEFINE after == [c EXCEPT !.turn = None]
  <2>1. Writes(p, <<Line("turnCompleted", c.turn)>>, after) /\ c.turn \in Turns
    BY <1>1, <1>10 DEF EndsTurn, EndOfTurn, Children, SomeTurn
  <2>2. after.life = "running" /\ after.turn = None /\ after.asked = c.asked
    BY <1>1 DEF Children
  <2>3. "turnCompleted" \in {"turnStarted", "turnCompleted", "approval"} /\ c.turn \in {None, c.turn}
    OBVIOUS
  <2>4. <<Line("turnCompleted", c.turn)>> \in Seq(Lines) /\ Leads(c.turn, <<Line("turnCompleted", c.turn)>>, None)
    BY <1>5, <2>1, <2>3
  <2> HIDE DEF after
  <2> QED
    BY <2>1, <2>2, <2>4 DEF NoTurn
<1>11. CASE Dies(p)
  <2> DEFINE after == [Unborn EXCEPT !.life = "dead", !.conversation = c.conversation]
  <2>1. Writes(p, <<>>, after)
    BY <1>11 DEF Dies
  <2>2. after.life = "dead" /\ after.turn = None /\ after.asked = <<>>
    BY DEF Unborn
  <2>3. NoTurn(after) /\ <<>> \in Seq(Lines)
    BY <2>2 DEF NoTurn
  <2> HIDE DEF after
  <2> QED
    BY <2>1, <2>2, <2>3
<1> QED
  BY <1>6, <1>7, <1>8, <1>9, <1>10, <1>11 DEF AppServer

LEMMA AppServerTells ==
  ASSUME ProviderTypes, Tells, NEW p \in Processes, AppServer(p)
  PROVE  Tells'
<1>1. PICK lines, after :
        /\ lines \in Seq(Lines) /\ Writes(p, lines, after)
        /\ \/ after.life = "dead" /\ lines = <<>>
           \/ after.life = "running" /\ Leads(child[p].turn, lines, after.turn)
        /\ NoTurn(child[p]) => NoTurn(after)
        /\ child[p].turn # None => after.turn \in {child[p].turn, None}
  BY AppServerTurns
<1>2. /\ UNCHANGED <<job, session, writing, ingestion, runtime, current, untold>>
      /\ stdout' = [stdout EXCEPT ![p] = stdout[p] \o lines] /\ child' = [child EXCEPT ![p] = after]
  BY <1>1 DEF Writes, reactor, thread, ghosts
<1>3. child \in [Processes -> Children] /\ stdout \in [Processes -> Seq(Lines)]
  BY DEF ProviderTypes, ManagerTypes
<1>4. current = p /\ child[p].life = "running"
  <2>1. Runs(p)
    BY AppServerWrites
  <2> QED
    BY <2>1 DEF Runs, Tells, OneLives
<1>5. /\ child'[p] = after /\ stdout'[p] = stdout[p] \o lines
      /\ \A q \in Processes : q # p => child'[q] = child[q] /\ stdout'[q] = stdout[q]
  BY <1>2, <1>3
<1>6. OneLives'
  BY <1>1, <1>2, <1>4, <1>5 DEF Tells, OneLives
<1>7. StartsAfresh' /\ TakeoverAlone'
  BY <1>1, <1>2, <1>4, <1>5 DEF Tells, StartsAfresh, TakeoverAlone
<1>8. PICK t, i, r : Agrees(t) /\ Leads(Met, ingestion, i) /\ Leads(i, runtime, r) /\ Leads(r, Unread, t)
  BY DEF Tells, WillShow
<1>9. Unread = stdout[p] /\ Unread' = stdout[p] \o lines /\ Met' = Met /\ stdout[p] \in Seq(Lines)
  BY <1>2, <1>3, <1>4, <1>5, NoneAssumption DEF Unread, Met
<1>10. t = child[p].turn \/ (t = None /\ (TakingOver \/ child[p].turn \in untold))
  BY <1>4, <1>8, NoneAssumption DEF Agrees
<1>11. CASE after.life = "dead" /\ lines = <<>>
  <2>1. Unread' = Unread
    BY <1>9, <1>11
  <2>2. WillShow(t)'
    BY <1>2, <1>8, <1>9, <2>1 DEF WillShow
  <2>3. Agrees(t)'
    BY <1>2, <1>4, <1>5, <1>11, NoneAssumption DEF Agrees
  <2> QED
    BY <1>6, <1>7, <2>2, <2>3 DEF Tells
<1>12. CASE after.life = "running" /\ Leads(child[p].turn, lines, after.turn)
  <2>1. PICK u : /\ Leads(t, lines, u)
                 /\ u = after.turn \/ (u = None /\ (TakingOver \/ after.turn \in untold))
    <3>1. CASE t = child[p].turn
      BY <1>12, <3>1
    <3>2. CASE t = None /\ t # child[p].turn /\ (TakingOver \/ child[p].turn \in untold)
      <4>1. Leads(None, lines, after.turn) \/ Leads(None, lines, None)
        BY <1>1, <1>12, LeadsFromNone
      <4>2. after.turn \in {child[p].turn, None}
        BY <1>1, <3>2
      <4> QED
        BY <3>2, <4>1, <4>2
    <3> QED
      BY <1>10, <3>1, <3>2
  <2>2. Leads(r, stdout[p] \o lines, u)
    BY <1>1, <1>8, <1>9, <2>1, LeadsOn
  <2>3. WillShow(u)'
    BY <1>2, <1>8, <1>9, <2>2 DEF WillShow
  <2>4. current' = p /\ child'[current'] = after /\ (TakingOver <=> TakingOver') /\ untold' = untold /\ p # None
    BY <1>2, <1>4, <1>5, NoneAssumption DEF TakingOver
  <2>5. Agrees(u)'
    BY <2>1, <2>4 DEF Agrees
  <2> QED
    BY <1>6, <1>7, <2>3, <2>5 DEF Tells
<1> QED
  BY <1>1, <1>11, <1>12

(***************************************************************************)
(* Ingestion and the directory.                                            *)
(***************************************************************************)
LEMMA SyncTells ==
  ASSUME ProviderTypes, Tells, SyncBinding
  PROVE  Tells'
<1> DEFINE h == Head(runtime)
<1>1. /\ UNCHANGED <<session, writing, job, child, stdout, current, untold>>
      /\ runtime # <<>> /\ runtime' = Tail(runtime) /\ ingestion' = Append(ingestion, h)
  BY DEF SyncBinding, reactor, manager, ghosts
<1>2. runtime \in Seq(Events) /\ ingestion \in Seq(Events) /\ h \in Events
  BY <1>1, TailTyped DEF ProviderTypes, RuntimeTypes, ThreadTypes
<1>3. OneLives' /\ StartsAfresh' /\ TakeoverAlone'
  BY <1>1 DEF Tells, OneLives, StartsAfresh, TakeoverAlone
<1>4. PICK t, i, r : Agrees(t) /\ Leads(Met, ingestion, i) /\ Leads(i, runtime, r) /\ Leads(r, Unread, t)
  BY DEF Tells, WillShow
<1>5. Applies(h, i) /\ Leads(TurnAfter(h, i), runtime', r)
  BY <1>1, <1>2, <1>4, LeadsTail
<1> HIDE DEF h
<1>6. Leads(i, <<h>>, TurnAfter(h, i)) /\ <<h>> \in Seq(Events) /\ ingestion' = ingestion \o <<h>>
  BY <1>1, <1>2, <1>5, LeadsOne, OneEvent
<1>7. Leads(Met, ingestion', TurnAfter(h, i))
  BY <1>2, <1>4, <1>6, LeadsOn
<1>8. Met' = Met /\ Unread' = Unread
  BY <1>1 DEF Met, Unread
<1>9. WillShow(t)'
  BY <1>4, <1>5, <1>7, <1>8 DEF WillShow
<1>10. Agrees(t)'
  BY <1>1, <1>4 DEF Agrees, TakingOver
<1> QED
  BY <1>3, <1>9, <1>10 DEF Tells

LEMMA IngestTells ==
  ASSUME ProviderTypes, Tells, Ingest \/ SetSession
  PROVE  Tells'
<1>1. UNCHANGED <<job, child, stdout, current, runtime, untold>>
  BY DEF Ingest, SetSession, reactor, manager, ghosts
<1>2. OneLives' /\ StartsAfresh' /\ TakeoverAlone' /\ Unread' = Unread
  BY <1>1 DEF Tells, OneLives, StartsAfresh, TakeoverAlone, Unread
<1>3. PICK t, i, r : Agrees(t) /\ Leads(Met, ingestion, i) /\ Leads(i, runtime, r) /\ Leads(r, Unread, t)
  BY DEF Tells, WillShow
<1>4. Agrees(t)'
  BY <1>1, <1>3 DEF Agrees, TakingOver
<1>5. Leads(Met', ingestion', i)
  <2>1. CASE SetSession
    <3>1. Met' = Met /\ ingestion' = ingestion
      BY <2>1 DEF SetSession, Met
    <3> QED
      BY <1>3, <3>1
  <2>2. CASE Ingest
    <3> DEFINE e == Head(ingestion)
    <3>1. /\ UNCHANGED session /\ writing = None /\ ingestion # <<>> /\ ingestion' = Tail(ingestion)
          /\ writing' = IF SessionAfter(e) = session THEN None ELSE SessionAfter(e)
      BY <2>2 DEF Ingest
    <3>2. ingestion \in Seq(Events) /\ session \in Sessions /\ e \in Events
      BY <3>1, TailTyped DEF ProviderTypes, ThreadTypes
    <3>3. Met = session.turn
      BY <3>1 DEF Met
    <3>4. Applies(e, session.turn) /\ Leads(TurnAfter(e, session.turn), ingestion', i)
      BY <1>3, <3>1, <3>2, <3>3, LeadsTail
    <3>5. SessionAfter(e) \in Sessions
      BY <3>2, SessionAfterTyped
    <3>6. Met' = SessionAfter(e).turn
      BY <3>1, <3>5, NoneAssumption DEF Met
    <3> HIDE DEF e
    <3>7. SessionAfter(e).turn = TurnAfter(e, session.turn)
      BY <3>4 DEF SessionAfter, AfterExit, TurnAfter, Ends, Applies
    <3> QED
      BY <3>4, <3>6, <3>7
  <2> QED
    BY <2>1, <2>2
<1>6. WillShow(t)'
  BY <1>1, <1>2, <1>3, <1>5 DEF WillShow
<1> QED
  BY <1>2, <1>4, <1>6 DEF Tells

LEMMA RestartTells ==
  ASSUME Plain', RestartServer
  PROVE  Tells'
<1>1. /\ UNCHANGED session /\ job' = Idle /\ current' = None
      /\ runtime' = <<>> /\ ingestion' = <<>> /\ writing' = None
      /\ stdout' = [p \in Processes |-> <<>>]
      /\ child' = [p \in Processes |-> IF child[p].life = "unborn" THEN Unborn ELSE Left]
  BY DEF RestartServer
<1>2. session.turn = None
  BY DEF RestartServer, Plain
<1>3. OneLives' /\ StartsAfresh' /\ TakeoverAlone'
  BY <1>1 DEF OneLives, StartsAfresh, TakeoverAlone, Unborn, Left
<1>4. Met' = None /\ Unread' = <<>>
  BY <1>1, <1>2 DEF Met, Unread
<1>5. WillShow(None)'
  BY <1>1, <1>4, LeadsNowhere DEF WillShow
<1>6. Agrees(None)'
  BY <1>1 DEF Agrees
<1> QED
  BY <1>3, <1>5, <1>6 DEF Tells

LEMMA InitTells == Init => Tells
<1> SUFFICES ASSUME Init PROVE Tells
  OBVIOUS
<1>1. OneLives /\ StartsAfresh /\ TakeoverAlone
  BY DEF Init, OneLives, Unborn, StartsAfresh, TakeoverAlone
<1>2. Met = None /\ Unread = <<>> /\ runtime = <<>> /\ ingestion = <<>> /\ current = None
  BY DEF Init, Met, Unread, NoSession
<1>3. WillShow(None) /\ Agrees(None)
  BY <1>2, LeadsNowhere DEF WillShow, Agrees
<1> QED
  BY <1>1, <1>3 DEF Tells

(* Without an excuse it is known what the thread will show when all that is *)
(* under way is handled: the turn its app-server runs.  No event is turned  *)
(* away, a starting app-server runs no turn, and a takeover that shows none *)
(* stops the app-server (processRuntimeEvent, setThreadSession).  An error  *)
(* line leaves no turn or the one that runs.                                *)
THEOREM TellsTurnHolds == Spec => []TellsTurn
<1>1. ASSUME ProviderTypes, Cursors, TellsTurn, Next PROVE TellsTurn'
  <2> SUFFICES ASSUME Plain' PROVE Tells'
    BY DEF TellsTurn
  <2>1. Tells
    BY <1>1, ExcusesGrow DEF TellsTurn, Plain
  <2>2. CASE Users
    BY <2>1, <2>2, OtherTells
  <2>3. CASE Moves
    BY <1>1, <2>1, <2>3, MovesTell
  <2>4. CASE GiveUp \/ SetStopped \/ ShowSession
    BY <1>1, <2>1, <2>4, ShowsTell
  <2>5. CASE TakeIntent \/ StopSession \/ StartFails
    BY <1>1, <2>1, <2>5, TakeIntentTells, StopsTell
  <2>6. CASE SpawnFails \/ Spawn \/ SessionReady
    BY <1>1, <2>1, <2>6, SpawnFailsTells, SpawnTells, SessionReadyTells
  <2>7. CASE Reactor
    BY <2>3, <2>4, <2>5, <2>6, <2>7 DEF Reactor, Moves
  <2>8. ASSUME NEW p \in Processes, Manager(p) \/ AppServer(p) PROVE Tells'
    BY <1>1, <2>1, <2>8, TimeoutTells, ReadTells, HearErrorTells, ExitTells, AppServerTells DEF Manager
  <2>9. CASE SyncBinding \/ Ingest \/ SetSession \/ RestartServer
    BY <1>1, <2>1, <2>9, SyncTells, IngestTells, RestartTells
  <2> QED
    BY <1>1, <2>2, <2>7, <2>8, <2>9 DEF Next
<1>2. ASSUME TellsTurn, UNCHANGED vars PROVE TellsTurn'
  BY <1>2, OtherTells DEF TellsTurn, Plain, vars
<1>3. Init => TellsTurn
  BY InitTells DEF TellsTurn
<1> QED
  BY <1>1, <1>2, <1>3, ProviderTypesHold, CursorsHold, PTL DEF Spec

(* Once nothing is under way the thread shows the turn that its app-server  *)
(* runs, and none when it has no app-server or an error line was heard      *)
(* while that turn ran.                                                     *)
THEOREM SessionsTellTheTurn == Spec => []SessionTellsTheTurn
<1>1. ASSUME ProviderTypes, TellsTurn PROVE SessionTellsTheTurn
  <2> DEFINE turn == IF current = None THEN None ELSE child[current].turn
  <2>1. SUFFICES ASSUME Quiet, Plain PROVE session.turn = turn \/ (session.turn = None /\ turn \in untold)
    BY DEF SessionTellsTheTurn, Plain
  <2>2. /\ job = Idle /\ runtime = <<>> /\ ingestion = <<>> /\ writing = None
        /\ \A p \in Processes : stdout[p] = <<>> /\ child[p].life # "dead"
    BY <2>1 DEF Quiet
  <2>3. PICK t, i, r : Agrees(t) /\ Leads(Met, ingestion, i) /\ Leads(i, runtime, r) /\ Leads(r, Unread, t)
    BY <1>1, <2>1 DEF TellsTurn, Tells, WillShow
  <2>4. current \in Processes \cup {None} /\ (current # None => child[current].life \in {"running", "dead"})
    BY <1>1 DEF ProviderTypes, ManagerTypes, Serving, Conversations
  <2>5. Unread = <<>>
    BY <2>2, <2>4 DEF Unread
  <2>6. t = Met
    BY <2>2, <2>3, <2>5, LeadsNowhere
  <2>7. Met = session.turn /\ ~TakingOver
    BY <2>2 DEF Met, TakingOver, Idle
  <2> QED
    BY <2>2, <2>3, <2>4, <2>6, <2>7 DEF Agrees
<1> QED
  BY <1>1, ProviderTypesHold, TellsTurnHolds, PTL

=============================================================================
