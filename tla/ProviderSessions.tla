-------------------------- MODULE ProviderSessions --------------------------
(***************************************************************************)
(* How the requests of a thread's users reach a codex app-server, and how  *)
(* what happens to it gets back into the thread: ProviderCommandReactor    *)
(* with the ProviderService and session directory it calls, the processes  *)
(* and JSON-RPC requests of CodexAppServerManager, and the life cycle part *)
(* of ProviderRuntimeIngestion.  One thread, which only Codex serves.      *)
(*                                                                         *)
(* A step of the reactor ends where its fiber awaits something another     *)
(* actor can change; the directory's statements are synchronous.  A turn   *)
(* is named after the request for it, the one approval it may ask for      *)
(* after the turn, and a conversation after the process that began it.     *)
(* How a turn fails, models, attachments and questions to the user other   *)
(* than approvals are left out; the thread keeps its provider.             *)
(***************************************************************************)
EXTENDS Naturals, Sequences, SequencesExt, FiniteSetsExt

CONSTANTS Turns,        \* the turns users ask for
          None,
          MaxProcesses, \* bound: app-servers spawned
          MaxRequests,  \* bound: requests of the users
          MaxFaults,    \* bound: ends of the server's process, and error lines
          MaxLag,       \* bound: lines and events under way while another is read
          FirstMode     \* the mode the thread is created with

Processes == 1..MaxProcesses
Modes == {"full-access", "approval-required"}

ASSUME BoundsAssumption ==
  /\ {MaxProcesses, MaxRequests, MaxFaults, MaxLag} \subseteq Nat
  /\ FirstMode \in Modes

Sessions == [status : {"none", "starting", "ready", "running", "stopped", "error"},
             turn : Turns \cup {None}, mode : Modes]

\* No value is no turn, no process, no mode, no answer and no session.
ASSUME NoneAssumption ==
  /\ None \notin Turns /\ None \notin Processes /\ None \notin Modes
  /\ None \notin {"ok", "error", "not found"}
  /\ None \notin Sessions

VARIABLES
  wanted,    \* thread.runtimeMode
  session,   \* thread.session in the read model
  intents,   \* the reactor's queue
  job,       \* what the reactor is doing, and the step it has come to
  answer,    \* the settled promise of the reactor's JSON-RPC request
  child,     \* the app-server processes
  context,   \* the manager's context of each process
  stdout,    \* lines of each process the manager has not read
  current,   \* the manager's map: the process of the thread's session
  binding,   \* the directory's row of the thread
  runtime,   \* runtime events on their way through ProviderService
  ingestion, \* ... and to ProviderRuntimeIngestion
  writing,   \* the session an event in hand is about to set
  requests,  \* history: requests made
  faults,    \* history: restarts of the server, and error lines of app-servers
  shown,     \* history: approvals the users have been asked for
  outcome,   \* history: what became of a requested turn
  answered,  \* history: answers written for a turn's approval
  memory,    \* history: the conversation the thread's last turn went to
  untold,    \* history: turns that ran when an error line was heard
  excuses    \* history: see the properties

users == <<wanted, requests, intents>>
thread == <<session, writing, ingestion, shown>>
reactor == <<job, answer>>
manager == <<child, context, stdout, current>>
ghosts == <<outcome, answered, memory, untold>>
vars == <<users, thread, reactor, manager, binding, runtime, faults, ghosts, excuses>>

NoSession == [status |-> "none", turn |-> None, mode |-> "full-access"]
NoBinding == [cursor |-> None, mode |-> None]
Idle == [kind |-> "none", turn |-> None, at |-> "idle", process |-> None,
         cursor |-> None, mode |-> "full-access", recovering |-> FALSE]
Unborn == [life |-> "unborn", conversation |-> None, turn |-> None,
           asking |-> FALSE, mayAsk |-> FALSE, asked |-> <<>>]
Killed == [Unborn EXCEPT !.life = "killed"]
\* A process of a server that has ended
Left == [Unborn EXCEPT !.life = "left"]
NoContext == [turn |-> None, cursor |-> None, mode |-> "full-access",
              waits |-> FALSE, approvals |-> {}]

Init ==
  /\ wanted = FirstMode
  /\ session = NoSession /\ writing = None
  /\ intents = <<>> /\ job = Idle /\ answer = None
  /\ child = [p \in Processes |-> Unborn]
  /\ context = [p \in Processes |-> NoContext]
  /\ stdout = [p \in Processes |-> <<>>]
  /\ current = None
  /\ binding = NoBinding
  /\ runtime = <<>> /\ ingestion = <<>>
  /\ requests = 0 /\ faults = 0
  /\ shown = {} /\ excuses = {} /\ untold = {} /\ memory = None
  /\ outcome = [t \in Turns |-> "none"]
  /\ answered = [t \in Turns |-> 0]

Event(type, turn) == [type |-> type, turn |-> turn]
Emit(events) == runtime' = runtime \o events

-----------------------------------------------------------------------------
(* The users: each request is an event of the thread that the reactor gets *)

Ask(kind, turn) ==
  /\ requests < MaxRequests
  /\ requests' = requests + 1
  /\ intents' = Append(intents, [kind |-> kind, turn |-> turn])
  /\ UNCHANGED <<reactor, session, writing, ingestion, shown, manager, binding,
                 runtime, faults, answered, memory, untold, excuses>>

AskForTurn(t) ==
  /\ outcome[t] = "none"
  /\ Ask("turn", t)
  /\ outcome' = [outcome EXCEPT ![t] = "requested"]
  /\ UNCHANGED wanted

\* thread.runtime-mode.set
ChangeMode ==
  /\ Ask("mode", None)
  /\ wanted' \in Modes \ {wanted}
  /\ UNCHANGED outcome

AnswerApproval(t) == t \in shown /\ Ask("answer", t) /\ UNCHANGED <<wanted, outcome>>

AskOther(kind) == Ask(kind, None) /\ UNCHANGED <<wanted, outcome>>

-----------------------------------------------------------------------------
(* JSON-RPC requests *)

Runs(p) == child[p].life = "running"

\* writeMessage to a process whose exit was seen throws; to a dead one it does not.
SendRequest(p, method, argument) ==
  IF child[p].life = "exited"
  THEN answer' = "error" /\ UNCHANGED <<child, context>>
  ELSE /\ answer' = None
       /\ child' = IF Runs(p)
                   THEN [child EXCEPT ![p].asked =
                          Append(@, [method |-> method, argument |-> argument])]
                   ELSE child
       /\ context' = [context EXCEPT ![p].waits = TRUE]

\* Mutant: a request waits for its answer without a timer.
WaitsForEver(p) == FALSE /\ UNCHANGED vars

\* The response among the lines, of which there is one at most, finds no request.
WithoutResponse(lines) ==
  IF \E i \in DOMAIN lines : lines[i].type = "response"
  THEN RemoveAt(lines, CHOOSE i \in DOMAIN lines : lines[i].type = "response")
  ELSE lines

\* The timer of 20 seconds; the answer may still come.
RequestTimesOut(p) ==
  /\ context[p].waits /\ answer = None
  /\ context' = [context EXCEPT ![p].waits = FALSE]
  /\ answer' = "error"
  /\ stdout' = [stdout EXCEPT ![p] = WithoutResponse(@)]
  /\ UNCHANGED <<users, thread, job, child, current, binding, runtime, faults,
                 ghosts, excuses>>

-----------------------------------------------------------------------------
(* The app-server: it may answer, refuse, be silent or end; external *)

Line(type, turn) == [type |-> type, turn |-> turn, result |-> "none"]

\* The answer to the request at the head, if the manager still waits for it.
Response(p, result) ==
  IF Len(child[p].asked) = 1 /\ context[p].waits
  THEN <<[type |-> "response", turn |-> None, result |-> result]>>
  ELSE <<>>

Handles(p, method) ==
  Runs(p) /\ child[p].asked # <<>> /\ Head(child[p].asked).method = method

Argument(p) == Head(child[p].asked).argument

\* The process writes lines and is as after.
Writes(p, lines, after) ==
  /\ stdout' = [stdout EXCEPT ![p] = @ \o lines]
  /\ child' = [child EXCEPT ![p] = after]
  /\ UNCHANGED <<users, thread, reactor, context, current, binding, runtime,
                 faults, ghosts, excuses>>

Done(p) == [child[p] EXCEPT !.asked = Tail(@)]

Accepts(p) ==
  \/ Handles(p, "initialize") /\ Writes(p, Response(p, "ok"), Done(p))
  \/ /\ Handles(p, "thread/start")
     /\ Writes(p, Response(p, "ok"), [Done(p) EXCEPT !.conversation = p])
  \/ /\ Handles(p, "thread/resume")
     /\ Writes(p, Response(p, "ok"), [Done(p) EXCEPT !.conversation = Argument(p)])

Refuses(p) ==
  /\ Runs(p) /\ child[p].asked # <<>>
  /\ \/ Writes(p, Response(p, "error"), Done(p))
     \/ Handles(p, "thread/resume") /\ Writes(p, Response(p, "not found"), Done(p))

\* The answer and the notification come in either order.
BeginsTurn(p) ==
  /\ Handles(p, "turn/start") /\ child[p].turn = None
  /\ LET started == <<Line("turnStarted", Argument(p))>> IN
     \E lines \in {started \o Response(p, "ok"), Response(p, "ok") \o started} :
       Writes(p, lines, [Done(p) EXCEPT !.turn = Argument(p), !.mayAsk = TRUE])

EndOfTurn(p) == <<Line("turnCompleted", child[p].turn)>>

HeedsInterrupt(p) ==
  /\ Handles(p, "turn/interrupt")
  /\ Writes(p, Response(p, "ok") \o (IF child[p].turn = None THEN <<>> ELSE EndOfTurn(p)),
            [Done(p) EXCEPT !.turn = None, !.asking = FALSE])

AsksForApproval(p) ==
  /\ Runs(p) /\ child[p].turn # None /\ child[p].mayAsk
  /\ context[p].mode = "approval-required"
  /\ Writes(p, <<Line("approval", child[p].turn)>>,
            [child[p] EXCEPT !.asking = TRUE, !.mayAsk = FALSE])

EndsTurn(p) ==
  /\ Runs(p) /\ child[p].turn # None /\ ~child[p].asking
  /\ Writes(p, EndOfTurn(p), [child[p] EXCEPT !.turn = None])

Dies(p) ==
  Runs(p) /\ Writes(p, <<>>, [Unborn EXCEPT !.life = "dead",
                                           !.conversation = child[p].conversation])

AppServer(p) ==
  Accepts(p) \/ Refuses(p) \/ BeginsTurn(p) \/ HeedsInterrupt(p)
    \/ AsksForApproval(p) \/ EndsTurn(p) \/ Dies(p)

-----------------------------------------------------------------------------
(* The manager: lines, exits, sessions *)

\* handleStdoutLine of a message.  A settled promise is continued before anything but the lines
\* of the same chunk.
ReadLine(p) ==
  /\ stdout[p] # <<>>
  /\ Head(stdout[p]).type = "response" \/ Len(runtime \o ingestion) < MaxLag
  /\ answer = None \/ job.process = p
  /\ stdout' = [stdout EXCEPT ![p] = Tail(@)]
  /\ LET line == Head(stdout[p]) IN
     \/ /\ line.type = "response"
        /\ context' = [context EXCEPT ![p].waits = FALSE]
        /\ answer' = line.result
        /\ UNCHANGED runtime
     \/ /\ line.type # "response"
        /\ context' = [context EXCEPT ![p] =
             CASE line.type = "turnStarted" -> [@ EXCEPT !.turn = line.turn]
               [] line.type = "turnCompleted" -> [@ EXCEPT !.turn = None]
               [] line.type = "approval" ->
                    [@ EXCEPT !.approvals = context[p].approvals \cup {line.turn}]]
        /\ Emit(<<Event(line.type, line.turn)>>)
        /\ UNCHANGED answer
  /\ excuses' = IF child[p].life = "exited" THEN excuses \cup {"read after exit"} ELSE excuses
  /\ UNCHANGED <<users, thread, job, child, current, binding, faults, ghosts>>

\* A line that is no message (handleStdoutLine's error branches), a fatal one on stderr,
\* which is read even when the process was stopped or has exited, or an error of the
\* process: an error that names no turn, whatever turn the thread's app-server runs.
\* The bound leaves out nothing new: an error heard after a line was written is one heard
\* before it was, and one heard before a pending write is one heard after it.
HearError(p) ==
  /\ child[p].life \in {"running", "dead", "exited", "killed"}
  /\ faults < MaxFaults
  /\ Len(runtime \o ingestion) + (IF writing = None THEN 0 ELSE 1) < MaxLag
  /\ \A q \in Processes : Len(stdout[q]) < MaxLag
  /\ answer = None \/ job.process = p
  /\ faults' = faults + 1
  /\ Emit(<<Event("error", None)>>)
  /\ untold' = IF current = None THEN untold
               ELSE untold \cup ({child[current].turn} \ {None})
  /\ UNCHANGED <<users, thread, reactor, manager, binding, outcome, answered, memory, excuses>>

\* The exit handler takes the thread's session from the map, whichever process's
\* it is; what waits for an answer keeps waiting, and lines may still come.
ExitEvent(p) ==
  /\ child[p].life = "dead" /\ answer = None
  /\ child' = [child EXCEPT ![p].life = "exited"]
  /\ context' = [context EXCEPT ![p].turn = None]
  /\ Emit(<<Event("exited", None)>>)
  /\ current' = None
  /\ UNCHANGED <<users, thread, reactor, stdout, binding, faults, ghosts, excuses>>

\* Mutant: a stopped session stays in the map.
StopKeepsEntry(events) ==
  /\ IF current = None THEN UNCHANGED child ELSE child' = [child EXCEPT ![current] = Killed]
  /\ Emit(events) /\ UNCHANGED <<context, stdout, current>>

\* stopSession of whatever the map holds: its output is closed and it is killed.
StopCurrent(events) ==
  IF current = None
  THEN Emit(events) /\ UNCHANGED manager
  ELSE /\ child' = [child EXCEPT ![current] = Killed]
       /\ context' = [context EXCEPT ![current] = NoContext]
       /\ stdout' = [stdout EXCEPT ![current] = <<>>]
       /\ current' = None
       /\ Emit(Append(events, Event("exited", None)))

-----------------------------------------------------------------------------
(* The directory *)

\* upsert keeps the cursor the row has when it is given none.
Upsert(cursor, mode) ==
  [cursor |-> IF cursor # None THEN cursor ELSE binding.cursor, mode |-> mode]

\* syncBindingFromRuntimeEvent, then the event is published.
SyncBinding ==
  /\ runtime # <<>>
  /\ runtime' = Tail(runtime)
  /\ ingestion' = Append(ingestion, Head(runtime))
  /\ binding' =
       IF Head(runtime).type \in {"starting", "ready", "turnCompleted"} /\ current # None
       THEN Upsert(context[current].cursor, context[current].mode)
       ELSE binding
  /\ UNCHANGED <<users, session, writing, shown, reactor, manager, faults, ghosts, excuses>>

-----------------------------------------------------------------------------
(* The reactor: intents *)

HasSession == session.status \notin {"none", "stopped"}

\* listSessions: the cursor of the live session, or the directory's.
ActiveCursor ==
  IF current = None THEN None
  ELSE IF context[current].cursor # None THEN context[current].cursor
  ELSE binding.cursor

\* ensureSessionForThread: no session, or one of another mode, means a start.
NeedsStart == ~HasSession \/ session.mode # wanted

FirstStep(kind) ==
  CASE kind = "turn" -> IF NeedsStart THEN "start" ELSE "route"
    [] kind = "mode" -> IF HasSession /\ NeedsStart THEN "start" ELSE "idle"
    [] kind \in {"interrupt", "answer"} -> IF HasSession THEN "route" ELSE "idle"
    [] kind = "stop" -> IF HasSession THEN "stop" ELSE "stopped"
    [] kind = "takeover" -> IF current = None THEN "start" ELSE "stop"

\* processDomainEvent up to its first await; a takeover first shows the session as
\* starting.  An intent that is done at once leaves the reactor idle.
TakeIntent ==
  /\ job.at = "idle" /\ intents # <<>>
  /\ intents' = Tail(intents)
  /\ LET i == Head(intents) IN
     /\ job' = IF FirstStep(i.kind) = "idle" THEN Idle
               ELSE [Idle EXCEPT !.kind = i.kind, !.turn = i.turn, !.at = FirstStep(i.kind),
                                 !.mode = IF i.kind = "stop" THEN session.mode ELSE wanted,
                                 !.cursor = IF HasSession \/ i.kind = "takeover"
                                            THEN ActiveCursor ELSE None]
     /\ session' = IF i.kind = "takeover"
                   THEN [status |-> "starting", turn |-> None, mode |-> wanted] ELSE session
  /\ UNCHANGED <<wanted, requests, answer, writing, ingestion, shown, manager, binding,
                 runtime, faults, ghosts, excuses>>

\* A takeover that does not get to its end loses the cursor with the row it removed.
TakeoverLost(row) == job.kind = "takeover" /\ row.cursor = None

\* The end of a handler whose work failed: the failure activity, or only a warning.
GiveUp ==
  /\ job.at = "failed"
  /\ job' = Idle
  /\ outcome' = IF job.kind = "turn" THEN [outcome EXCEPT ![job.turn] = "failed"] ELSE outcome
  /\ session' = IF job.kind = "takeover"
                THEN [status |-> "error", turn |-> None, mode |-> job.mode] ELSE session
  /\ memory' = IF TakeoverLost(binding) THEN None ELSE memory
  /\ UNCHANGED <<users, answer, writing, ingestion, shown, manager, binding, runtime,
                 faults, answered, untold, excuses>>

GoTo(step) == job' = [job EXCEPT !.at = step]

\* resolveRoutableSession; without a live session the bound one is recovered.
Route ==
  /\ job.at = "route"
  /\ job' = IF binding = NoBinding THEN [job EXCEPT !.at = "failed"]
            ELSE IF current # None THEN [job EXCEPT !.at = "operate"]
            ELSE [job EXCEPT !.at = "start", !.recovering = TRUE,
                             !.cursor = binding.cursor, !.mode = binding.mode]
  /\ UNCHANGED <<users, answer, thread, manager, binding, runtime, faults, ghosts, excuses>>

\* ProviderService.stopSession, which needs the row; it is removed afterwards.
StopSession ==
  /\ job.at = "stop"
  /\ IF binding = NoBinding
     THEN GoTo("failed") /\ UNCHANGED <<manager, runtime>>
     ELSE GoTo("remove") /\ StopCurrent(<<>>)
  /\ UNCHANGED <<users, answer, thread, binding, faults, ghosts, excuses>>

RemoveBinding ==
  /\ job.at = "remove"
  /\ binding' = NoBinding
  /\ IF job.kind = "takeover" THEN GoTo("start") /\ UNCHANGED memory
     ELSE GoTo("stopped") /\ memory' = None
  /\ UNCHANGED <<users, answer, thread, manager, runtime, faults, outcome, answered,
                 untold, excuses>>

\* Mutant: the session is left as it was.
ForgetToShowStopped == session

ShowStopped == [status |-> "stopped", turn |-> None, mode |-> job.mode]

SetStopped ==
  /\ job.at = "stopped"
  /\ session' = ShowStopped
  /\ job' = Idle
  /\ excuses' = IF current = None THEN excuses ELSE excuses \cup {"stopped unseen"}
  /\ UNCHANGED <<users, answer, writing, ingestion, shown, manager, binding, runtime,
                 faults, ghosts>>

-----------------------------------------------------------------------------
(* The reactor: starting a session *)

ExcuseReplacement ==
  excuses' = IF current = None THEN excuses ELSE excuses \cup {"started over a session"}

\* codex is missing or too old: an error event, and no context.
SpawnFails ==
  /\ job.at = "start"
  /\ GoTo("failed")
  /\ Emit(<<Event("error", None)>>)
  /\ ExcuseReplacement
  /\ UNCHANGED <<users, answer, thread, manager, binding, faults, ghosts>>

\* startSession puts the new context into the map; a process that was there lives on.
\* The cursor is the caller's or the directory's.
Spawn ==
  /\ job.at = "start"
  /\ \E p \in Processes :
       /\ child[p].life = "unborn"
       /\ \A q \in 1..(p - 1) : child[q].life # "unborn"
       /\ child' = [child EXCEPT ![p] = [Unborn EXCEPT !.life = "running",
                      !.asked = <<[method |-> "initialize", argument |-> None]>>]]
       /\ context' = [context EXCEPT ![p] = [NoContext EXCEPT !.mode = job.mode, !.waits = TRUE]]
       /\ current' = p
       /\ job' = [job EXCEPT !.at = "initialize", !.process = p,
                    !.cursor = IF job.cursor # None THEN job.cursor ELSE binding.cursor]
  /\ answer' = None
  /\ Emit(<<Event("starting", None)>>)
  /\ ExcuseReplacement
  /\ UNCHANGED <<users, thread, stdout, binding, faults, ghosts>>

Startup == {"initialize", "thread/resume", "thread/start"}

\* Mutant: whatever thread/resume answers, a new conversation begins.
AlwaysFallBack ==
  CASE job.at = "initialize" /\ answer = "ok"
         -> IF job.cursor = None THEN "thread/start" ELSE "thread/resume"
    [] job.at = "thread/resume" /\ answer # "ok" -> "thread/start"
    [] job.at # "initialize" /\ answer = "ok" -> "ready"
    [] OTHER -> "failed"

\* What follows in startSession, without model/list and account/read, which may fail:
\* a conversation that is not found is replaced by a new one.
NextRequest ==
  CASE job.at = "initialize" /\ answer = "ok" /\ child[job.process].life # "exited"
         -> IF job.cursor = None THEN "thread/start" ELSE "thread/resume"
    [] job.at = "thread/resume" /\ answer = "not found" -> "thread/start"
    [] job.at \in {"thread/resume", "thread/start"} /\ answer = "ok" -> "ready"
    [] OTHER -> "failed"

ContinueStart ==
  /\ job.at \in Startup /\ answer # None
  /\ NextRequest \in Startup
  /\ GoTo(NextRequest)
  /\ SendRequest(job.process, NextRequest, job.cursor)
  /\ memory' = IF answer = "not found" THEN None ELSE memory
  /\ UNCHANGED <<users, thread, stdout, current, binding, runtime, faults,
                 outcome, answered, untold, excuses>>

SessionReady ==
  /\ job.at \in Startup /\ answer # None
  /\ NextRequest = "ready"
  /\ GoTo("bound")
  /\ answer' = None
  /\ context' = [context EXCEPT ![job.process].cursor = child[job.process].conversation]
  /\ Emit(<<Event("ready", None)>>)
  /\ UNCHANGED <<users, thread, child, stdout, current, binding, faults, ghosts, excuses>>

\* The catch of startSession, which stops what the map holds now.
StartFails ==
  /\ job.at \in Startup /\ answer # None
  /\ NextRequest = "failed"
  /\ GoTo("failed")
  /\ answer' = None
  /\ StopCurrent(<<Event("error", None)>>)
  /\ UNCHANGED <<users, thread, binding, faults, ghosts, excuses>>

\* upsertSessionBinding; a recovered session is not shown in the thread.
UpsertBinding ==
  /\ job.at = "bound"
  /\ binding' = Upsert(context[job.process].cursor, job.mode)
  /\ GoTo(IF job.recovering THEN "operate" ELSE "show")
  /\ UNCHANGED <<users, answer, thread, manager, runtime, faults, ghosts, excuses>>

\* bindSessionToThread, and the last setThreadSession of a takeover
ShowSession ==
  /\ job.at = "show"
  /\ session' = [status |-> "ready", turn |-> None, mode |-> job.mode]
  /\ job' = IF job.kind = "turn" THEN [job EXCEPT !.at = "route"] ELSE Idle
  /\ UNCHANGED <<users, answer, writing, ingestion, shown, manager, binding, runtime,
                 faults, ghosts, excuses>>

-----------------------------------------------------------------------------
(* The reactor: operations on a routed session; requireSession may throw *)

SendTurn ==
  /\ job.at = "operate" /\ job.kind = "turn"
  /\ IF current = None
     THEN GoTo("failed") /\ UNCHANGED <<answer, child, context, memory>>
     ELSE /\ job' = [job EXCEPT !.at = "turn/start", !.process = current]
          /\ SendRequest(current, "turn/start", job.turn)
          /\ memory' = context[current].cursor
  /\ UNCHANGED <<users, thread, stdout, current, binding, runtime, faults,
                 outcome, answered, untold, excuses>>

\* The answer's turn becomes the active one, even if it has completed since.
TurnAccepted ==
  /\ job.at = "turn/start" /\ answer = "ok"
  /\ answer' = None
  /\ context' = [context EXCEPT ![job.process].turn = job.turn]
  /\ GoTo("record")
  /\ UNCHANGED <<users, thread, child, stdout, current, binding, runtime, faults,
                 ghosts, excuses>>

TurnRefused ==
  /\ job.at = "turn/start" /\ answer \notin {None, "ok"}
  /\ answer' = None
  /\ GoTo("failed")
  /\ UNCHANGED <<users, thread, manager, binding, runtime, faults, ghosts, excuses>>

\* The upsert after a sent turn
RecordTurn ==
  /\ job.at = "record"
  /\ binding' = Upsert(context[job.process].cursor,
                       IF binding = NoBinding THEN "full-access" ELSE binding.mode)
  /\ outcome' = [outcome EXCEPT ![job.turn] = "sent"]
  /\ job' = Idle
  /\ UNCHANGED <<users, answer, thread, manager, runtime, faults, answered, memory,
                 untold, excuses>>

\* Without an active turn there is nothing to interrupt; a failure is only logged.
Interrupt ==
  /\ job.at = "operate" /\ job.kind = "interrupt"
  /\ IF \A p \in Processes : current = p => context[p].turn = None
     THEN job' = Idle /\ UNCHANGED <<answer, child, context>>
     ELSE /\ job' = [job EXCEPT !.at = "turn/interrupt", !.process = current]
          /\ SendRequest(current, "turn/interrupt", None)
  /\ UNCHANGED <<users, thread, stdout, current, binding, runtime, faults, ghosts, excuses>>

InterruptAnswered ==
  /\ job.at = "turn/interrupt" /\ answer # None
  /\ answer' = None
  /\ job' = Idle
  /\ UNCHANGED <<users, thread, manager, binding, runtime, faults, ghosts, excuses>>

\* Mutant: the approval stays pending.
LeavePending(p, t) == context

Settle(p, t) == [context EXCEPT ![p].approvals = @ \ {t}]

RespondToRequest ==
  /\ job.at = "operate" /\ job.kind = "answer"
  /\ job' = Idle
  /\ IF current # None /\ job.turn \in context[current].approvals
     THEN /\ context' = Settle(current, job.turn)
          /\ answered' = [answered EXCEPT ![job.turn] = @ + 1]
          /\ child' = IF child[current].turn = job.turn
                      THEN [child EXCEPT ![current].asking = FALSE] ELSE child
     ELSE UNCHANGED <<context, answered, child>>
  /\ UNCHANGED <<users, answer, thread, stdout, current, binding, runtime, faults,
                 outcome, memory, untold, excuses>>

-----------------------------------------------------------------------------
(* Ingestion *)

\* Mutant: the end of a session leaves its turn active.
ExitedKeepsTurn == session.turn

AfterExit == None

\* The session a runtime event sets, or the present one if it is not accepted.
SessionAfter(e) ==
  LET Set(status, turn) == [status |-> status, turn |-> turn, mode |-> session.mode]
      conflicts == session.turn \notin {None, e.turn}
  IN CASE e.type = "starting" -> Set("starting", session.turn)
       [] e.type = "ready" -> Set("ready", session.turn)
       [] e.type = "exited" -> Set("stopped", AfterExit)
       [] e.type = "error" -> Set("error", None)
       [] e.type = "turnStarted" /\ ~conflicts -> Set("running", e.turn)
       [] e.type = "turnCompleted" /\ ~conflicts -> Set("ready", None)
       [] OTHER -> session

\* processRuntimeEvent reads the read model ...
Ingest ==
  /\ writing = None /\ ingestion # <<>>
  /\ ingestion' = Tail(ingestion)
  /\ LET e == Head(ingestion) IN
     /\ writing' = IF SessionAfter(e) = session THEN None ELSE SessionAfter(e)
     /\ shown' = IF e.type = "approval" THEN shown \cup {e.turn} ELSE shown
  /\ UNCHANGED <<users, session, reactor, manager, binding, runtime, faults, ghosts, excuses>>

\* ... and its command is applied after those that were dispatched before it.
SetSession ==
  /\ writing # None
  /\ session' = writing
  /\ writing' = None
  /\ UNCHANGED <<users, ingestion, shown, reactor, manager, binding, runtime, faults,
                 ghosts, excuses>>

-----------------------------------------------------------------------------
(* The server's process ends, in order or not, and a new one begins *)

\* What is in memory is gone; the events and the directory's row are kept, and on
\* an orderly end runStopAll writes the row of a live session first.
RestartServer ==
  /\ faults < MaxFaults
  /\ faults' = faults + 1
  /\ binding' \in {binding} \cup
       (IF current = None THEN {} ELSE {Upsert(context[current].cursor, context[current].mode)})
  /\ child' = [p \in Processes |->
       IF child[p].life = "unborn" THEN Unborn ELSE Left]
  /\ context' = [p \in Processes |-> NoContext]
  /\ stdout' = [p \in Processes |-> <<>>]
  /\ current' = None
  /\ intents' = <<>> /\ job' = Idle /\ answer' = None
  /\ runtime' = <<>> /\ ingestion' = <<>> /\ writing' = None
  /\ outcome' = [t \in Turns |-> IF outcome[t] = "requested" THEN "lost" ELSE outcome[t]]
  /\ memory' = IF TakeoverLost(binding') THEN None ELSE memory
  /\ excuses' = excuses
       \cup (IF session.turn # None THEN {"left a turn"} ELSE {})
       \cup (IF binding' = NoBinding /\ HasSession THEN {"left a session"} ELSE {})
  /\ UNCHANGED <<wanted, requests, session, shown, answered, untold>>

-----------------------------------------------------------------------------
(* The specification *)

Users ==
  \/ \E t \in Turns : AskForTurn(t) \/ AnswerApproval(t)
  \/ ChangeMode
  \/ \E kind \in {"interrupt", "stop", "takeover"} : AskOther(kind)

Reactor ==
  \/ TakeIntent \/ GiveUp \/ Route
  \/ StopSession \/ RemoveBinding \/ SetStopped
  \/ SpawnFails \/ Spawn \/ ContinueStart \/ SessionReady \/ StartFails
  \/ UpsertBinding \/ ShowSession
  \/ SendTurn \/ TurnAccepted \/ TurnRefused \/ RecordTurn
  \/ Interrupt \/ InterruptAnswered \/ RespondToRequest

Manager(p) == RequestTimesOut(p) \/ ReadLine(p) \/ HearError(p) \/ ExitEvent(p)

Next ==
  \/ Users \/ Reactor
  \/ \E p \in Processes : Manager(p) \/ AppServer(p)
  \/ SyncBinding \/ Ingest \/ SetSession
  \/ RestartServer

Spec == Init /\ [][Next]_vars

\* The reactor's fiber runs and timers fire; an app-server owes nothing.
FairSpec ==
  /\ Spec
  /\ WF_vars(Reactor)
  /\ \A p \in Processes : WF_vars(RequestTimesOut(p))

-----------------------------------------------------------------------------
(* Properties *)

TypeOK ==
  /\ wanted \in Modes
  /\ session \in Sessions
  /\ writing = None \/ writing.mode \in Modes
  /\ current \in Processes \cup {None}
  /\ answer \in {None, "ok", "error", "not found"}
  /\ binding \in [cursor : Processes \cup {None}, mode : Modes \cup {None}]
  /\ \A p \in Processes :
       /\ child[p].life \in {"unborn", "running", "dead", "exited", "killed", "left"}
       /\ context[p].approvals \subseteq Turns
       \* at most one request waits, and it is the reactor's
       /\ context[p].waits => job.process = p /\ answer = None
  /\ current # None => child[current].life \in {"running", "dead"}
  /\ untold \subseteq Turns

\* Nothing is under way between the processes and the thread.
Quiet ==
  /\ job = Idle /\ runtime = <<>> /\ ingestion = <<>> /\ writing = None
  /\ \A p \in Processes : stdout[p] = <<>> /\ child[p].life # "dead"

\* A session the thread shows as usable can be used: the directory has the row
\* without which ProviderService routes nothing (ProviderCommandReactor,
\* ProviderService.startSession, stopSession and the binding's sync), unless lines were
\* read after an exit, an app-server was replaced while it lived, or the server ended.
UsableSessionIsRoutable ==
  Quiet /\ session.status \in {"ready", "running"}
    /\ excuses \cap {"read after exit", "left a session", "started over a session"} = {}
  => binding # NoBinding

\* When nothing is under way the thread shows the turn its app-server runs, whatever
\* came in between: exits, timed-out requests, takeovers (processRuntimeEvent's
\* guards and the reactor's own writes).  It shows none, and never another, when an
\* error line was heard while that turn ran: the error names no turn, and is taken to
\* end the one that runs (ProviderRuntimeIngestion 1206-1230).
SessionTellsTheTurn ==
  Quiet /\ excuses \subseteq {"left a session"} =>
    LET turn == IF current = None THEN None ELSE child[current].turn
    IN  session.turn = turn \/ (session.turn = None /\ turn \in untold)

\* An app-server that waits for an approval has the question in the manager's map or
\* on its way there, and gets one answer however often the users decide
\* (handleServerRequest and respondToRequest).
ApprovalIsAnsweredOnce ==
  /\ \A t \in Turns : answered[t] <= 1
  /\ \A p \in Processes : Runs(p) /\ child[p].asking =>
       \/ child[p].turn \in context[p].approvals
       \/ \E i \in DOMAIN stdout[p] : stdout[p][i] = Line("approval", child[p].turn)

\* Every turn of a thread goes to the conversation of the turn before it, over stops
\* of app-servers, changes of mode, takeovers and restarts of the server, unless the
\* conversation was given up: see memory (resume cursors of manager and directory).
ConversationIsKept == [][SendTurn /\ memory # None => memory' = memory]_vars

\* Whatever an app-server does, a requested turn is sent, or its failure is told, or
\* the server ended (sendRequest's timer, processDomainEventSafely).
EveryTurnRequestIsSettled ==
  \A t \in Turns : outcome[t] = "requested" ~> outcome[t] # "requested"

=============================================================================
