--------------------------- MODULE ClaudeSessions ---------------------------
(***************************************************************************)
(* A session of the ClaudeAdapter: turns that callers send and turns that  *)
(* background answers begin by themselves, the messages of the Claude SDK  *)
(* handled one by one, tools and their permissions, and the ways a session *)
(* ends.  `active` is the turn that ProviderRuntimeIngestion shows for the *)
(* thread when it takes the adapter's events one after the other.          *)
(*                                                                         *)
(* A text of Claude is a number.  An answer has one text block, streamed   *)
(* and repeated in the assistant message that ends it, or only in that.    *)
(***************************************************************************)
EXTENDS Naturals, Sequences, FiniteSets

CONSTANTS
    Tools,          \* tool uses of the session, each with its permission request or question
    MaxPrompts,     \* bound: turns that callers send
    MaxTexts,       \* bound: texts of Claude
    None            \* no turn, no decision

ASSUME BoundsAssumption == {MaxPrompts, MaxTexts} \subseteq Nat

Blocks == [fallback : 0..MaxTexts, emitted : BOOLEAN, closed : BOOLEAN, done : BOOLEAN]
TurnStates == [id : Nat, order : Seq(Blocks), open : Nat]

ASSUME NoneAssumption == None \notin Nat \cup {"answer", "cancel"} \cup TurnStates

VARIABLES
    turn,           \* context.turnState: its id and its text blocks, or None
    turns,          \* how many turn ids were made
    sending,        \* where the caller of sendTurn waits, or "idle"
    prompts,        \* how many turns were sent
    promptQueue,    \* prompts offered to the SDK
    inFlight,       \* context.inFlightTools
    pending,        \* pendingApprovals and pendingUserInputs
    questions,      \* tools that were AskUserQuestion: their requests ask for input
    decision,       \* the Deferred of a request
    request,        \* what became of a tool's request
    stopped,        \* context.stopped
    closed,         \* query.close was called, the session is forgotten
    stream,         \* the stream fiber: running, ended, failed or over
    sdk,            \* messages of the SDK the stream has not handled
    working,        \* Claude: busy with a prompt
    interrupted,    \* Claude: was told to interrupt
    texts,          \* Claude: how many texts it produced
    used,           \* Claude: what it did with a tool
    active,         \* the thread: activeTurnId
    shown,          \* the thread: how often it got a text
    done,           \* the thread: how often a tool's item was completed
    resolved,       \* the thread: the decisions it was told of a request
    raced,          \* history: a turn began during or after the end of another
    excused         \* history: texts that were cut by a new turn, or hidden

turnVars == <<turn, turns, sending, prompts, promptQueue>>
requestVars == <<pending, questions, decision, request>>
sessionVars == <<stopped, closed, stream>>
claudeVars == <<working, interrupted, texts, used>>
threadVars == <<active, shown, done, resolved>>
historyVars == <<raced, excused>>

vars == <<turnVars, requestVars, sessionVars, sdk, inFlight, claudeVars, threadVars, historyVars>>

Init ==
    /\ turn = None /\ turns = 0 /\ sending = "idle" /\ prompts = 0 /\ promptQueue = 0
    /\ inFlight = {} /\ pending = {} /\ questions = {}
    /\ decision = [k \in Tools |-> None] /\ request = [k \in Tools |-> "none"]
    /\ stopped = FALSE /\ closed = FALSE /\ stream = "running" /\ sdk = <<>>
    /\ working = FALSE /\ interrupted = FALSE /\ texts = 0
    /\ used = [k \in Tools |-> "no"]
    /\ active = None /\ shown = [n \in 1..MaxTexts |-> 0]
    /\ done = [k \in Tools |-> 0] /\ resolved = [k \in Tools |-> {}]
    /\ raced = FALSE /\ excused = {}

----------------------------------------------------------------------------
(* What ingestion makes of the lifecycle events: a turn that is not the    *)
(* active one neither begins nor ends, and an exit ends every turn.        *)

AfterStarted(a, t) == IF a = None THEN t ELSE a
AfterCompleted(a, t) == IF a = t THEN None ELSE a
AfterError(a, t) == IF t = None \/ a = None \/ a = t THEN t ELSE a

TurnId == IF turn = None THEN None ELSE turn.id

----------------------------------------------------------------------------
(* Text blocks.  `order` lists those of a turn; `open` is the position of  *)
(* the one that the index of the stream stands for, or 0.                  *)

NewTurn == [id |-> turns + 1, order |-> <<>>, open |-> 0]

Block(fallback, closedBlock) ==
    [fallback |-> fallback, emitted |-> FALSE, closed |-> closedBlock, done |-> FALSE]

EnsureBlock(t) ==
    IF t.open # 0 THEN t
    ELSE [t EXCEPT !.order = Append(@, Block(0, FALSE)), !.open = Len(t.order) + 1]

\* Completing a block that was not streamed delivers its fallback text.
\* Mutant: the fallback text is delivered in any case.
BlockTextAlways(b) == IF b.fallback # 0 THEN {b.fallback} ELSE {}

BlockText(b) == IF ~b.emitted /\ b.fallback # 0 THEN {b.fallback} ELSE {}

CompleteBlock(t, i) ==
    [t EXCEPT !.order[i].done = TRUE, !.open = IF @ = i THEN 0 ELSE @]

Backfilled(t, n) ==
    IF t.order = <<>>
    THEN [t EXCEPT !.order = <<Block(n, TRUE)>>]
    ELSE [t EXCEPT !.order[1].fallback = IF @ = 0 THEN n ELSE @]

Show(ns) == shown' = [n \in DOMAIN shown |-> IF n \in ns THEN shown[n] + 1 ELSE shown[n]]

OpenBlocks(t) == {i \in DOMAIN t.order : ~t.order[i].done}

CompletesTools == done' = [k \in Tools |-> IF k \in inFlight THEN done[k] + 1 ELSE done[k]]

\* What completeTurn does to the turn, its items and the thread.
CompleteTurn(a) ==
    /\ turn' = None
    /\ active' = IF turn = None THEN a ELSE AfterCompleted(a, turn.id)
    /\ Show(IF turn = None THEN {} ELSE UNION {BlockText(turn.order[i]) : i \in OpenBlocks(turn)})
    /\ IF turn = None THEN UNCHANGED <<done, inFlight>>
       ELSE CompletesTools /\ inFlight' = {}

----------------------------------------------------------------------------
(* sendTurn.  Its caller is the command reactor's worker: one at a time.   *)

\* The rest of an answer that is in the middle of its text belongs to no turn.
Cut == {n \in DOMAIN shown : shown[n] > 0 /\ \E i \in DOMAIN sdk : sdk[i] = <<"assistant", n>>}

\* Mutant: the turn that is open is left to the background answer.
SendTurnOverOpen ==
    /\ ~stopped /\ sending = "idle" /\ prompts < MaxPrompts
    /\ prompts' = prompts + 1 /\ sending' = "mode"
    /\ excused' = excused \cup Cut
    /\ UNCHANGED <<turn, turns, promptQueue, inFlight, requestVars, sessionVars, sdk, claudeVars,
                   threadVars, raced>>

SendTurn ==
    /\ ~stopped /\ sending = "idle" /\ prompts < MaxPrompts
    /\ prompts' = prompts + 1 /\ sending' = "mode"
    /\ IF turn = None THEN UNCHANGED <<turn, active, shown, done, inFlight>> ELSE CompleteTurn(active)
    /\ excused' = excused \cup Cut
    /\ UNCHANGED <<turns, promptQueue, requestVars, sessionVars, sdk, claudeVars, resolved, raced>>

\* The model and the permission mode are set, or one of them cannot be.
ModeSet ==
    /\ sending = "mode"
    /\ sending' = "build"
    /\ turn' = NewTurn /\ turns' = turns + 1
    /\ active' = AfterStarted(active, turns + 1)
    /\ raced' = (raced \/ stopped) /\ excused' = excused \cup Cut
    /\ UNCHANGED <<prompts, promptQueue, inFlight, requestVars, sessionVars, sdk, claudeVars,
                   shown, done, resolved>>

ModeFails ==
    /\ sending = "mode"
    /\ sending' = "idle"
    /\ UNCHANGED <<turn, turns, prompts, promptQueue, inFlight, requestVars, sessionVars, sdk,
                   claudeVars, threadVars, historyVars>>

\* The attachments are read: an offer to a queue that was shut down is lost,
\* and a turn whose attachments cannot be read stays open without a prompt.
OfferPrompt ==
    /\ sending = "build"
    /\ sending' = "idle"
    /\ promptQueue' \in {promptQueue, IF stopped THEN promptQueue ELSE promptQueue + 1}
    /\ UNCHANGED <<turn, turns, prompts, inFlight, requestVars, sessionVars, sdk, claudeVars,
                   threadVars, historyVars>>

InterruptTurn ==
    /\ ~stopped /\ working /\ ~interrupted
    /\ interrupted' = TRUE
    /\ UNCHANGED <<turnVars, inFlight, requestVars, sessionVars, sdk, working, texts, used,
                   threadVars, historyVars>>

----------------------------------------------------------------------------
(* Permissions and questions.                                              *)

\* canUseTool is called by the SDK, whatever became of the session.
OpenRequest(k) ==
    /\ used[k] = "started" /\ request[k] = "none" /\ ~closed
    /\ request' = [request EXCEPT ![k] = "waiting"]
    /\ pending' = pending \cup {k}
    /\ questions' \in {questions, questions \cup {k}}
    /\ UNCHANGED <<turnVars, inFlight, decision, sessionVars, sdk, claudeVars, threadVars, historyVars>>

\* Deferred.succeed: only the first one counts.
Succeed(k, d) == decision' = [decision EXCEPT ![k] = IF @ = None THEN d ELSE @]

\* Mutant: an answered request stays in the map.
RespondAndKeep(k) ==
    /\ ~stopped /\ k \in pending
    /\ Succeed(k, "answer")
    /\ UNCHANGED <<turnVars, inFlight, pending, questions, request, sessionVars, sdk, claudeVars, threadVars, historyVars>>

RespondToRequest(k) ==
    /\ ~stopped /\ k \in pending
    /\ pending' = pending \ {k}
    /\ Succeed(k, "answer")
    /\ UNCHANGED <<turnVars, inFlight, questions, request, sessionVars, sdk, claudeVars, threadVars, historyVars>>

\* The signal of the callback fires when the turn is interrupted or the query closed.
\* Mutant: an aborted question waits on.
AbortApprovals(k) ==
    /\ k \in pending \ questions /\ (closed \/ interrupted)
    /\ pending' = pending \ {k}
    /\ Succeed(k, "cancel")
    /\ UNCHANGED <<turnVars, inFlight, questions, request, sessionVars, sdk, claudeVars, threadVars, historyVars>>

OnAbort(k) ==
    /\ k \in pending /\ (closed \/ interrupted)
    /\ pending' = pending \ {k}
    /\ Succeed(k, "cancel")
    /\ UNCHANGED <<turnVars, inFlight, questions, request, sessionVars, sdk, claudeVars, threadVars, historyVars>>

\* The callback goes on, tells the thread and answers the SDK.
Resolve(k) ==
    /\ request[k] = "waiting" /\ decision[k] # None
    /\ request' = [request EXCEPT ![k] = "told"]
    /\ pending' = pending \ {k}
    /\ resolved' = [resolved EXCEPT ![k] = @ \cup {decision[k]}]
    /\ UNCHANGED <<turnVars, inFlight, questions, decision, sessionVars, sdk, claudeVars, active, shown, done, historyVars>>

----------------------------------------------------------------------------
(* The stream fiber.                                                       *)

Handle(type) ==
    /\ stream # "over" /\ ~stopped /\ sdk # <<>> /\ Head(sdk)[1] = type
    /\ sdk' = Tail(sdk)
    /\ UNCHANGED <<turns, sending, prompts, promptQueue, requestVars, sessionVars, claudeVars, resolved>>

HandleBlockStart ==
    /\ Handle("start")
    /\ turn' = IF turn = None THEN None ELSE EnsureBlock(turn)
    /\ UNCHANGED <<inFlight, active, shown, done, historyVars>>

\* A delta outside of a turn is dropped.
HandleDelta ==
    /\ Handle("delta")
    /\ IF turn = None THEN UNCHANGED <<turn, shown>>
       ELSE LET t == EnsureBlock(turn)
            IN  /\ turn' = [t EXCEPT !.order[t.open].emitted = TRUE]
                /\ Show({Head(sdk)[2]})
    /\ UNCHANGED <<inFlight, active, done, historyVars>>

HandleBlockStop ==
    /\ Handle("stop")
    /\ IF turn = None THEN UNCHANGED <<turn, shown>>
       ELSE IF turn.open = 0 THEN UNCHANGED <<turn, shown>>
       ELSE /\ turn' = CompleteBlock([turn EXCEPT !.order[turn.open].closed = TRUE], turn.open)
            /\ Show(BlockText(turn.order[turn.open]))
    /\ UNCHANGED <<inFlight, active, done, historyVars>>

\* An answer outside of a turn begins one of its own.
HandleAssistant ==
    /\ stream # "over" /\ ~stopped /\ sdk # <<>> /\ Head(sdk)[1] = "assistant"
    /\ sdk' = Tail(sdk)
    /\ LET n == Head(sdk)[2]
           t == Backfilled(IF turn = None THEN NewTurn ELSE turn, n)
       IN  /\ turns' = IF turn = None THEN turns + 1 ELSE turns
           /\ active' = IF turn = None THEN AfterStarted(active, turns + 1) ELSE active
           /\ IF t.order[1].closed /\ ~t.order[1].done
              THEN turn' = CompleteBlock(t, 1) /\ Show(BlockText(t.order[1]))
              ELSE turn' = t /\ UNCHANGED shown
           /\ excused' = IF turn # None /\ turn.order # <<>> /\ turn.order[1].fallback # 0
                         THEN excused \cup ({n} \cap {m \in DOMAIN shown : shown[m] = 0})
                         ELSE excused
    /\ raced' = (raced \/ (turn = None /\ sending = "mode"))
    /\ UNCHANGED <<sending, prompts, promptQueue, inFlight, requestVars, sessionVars, claudeVars,
                   done, resolved>>

HandleToolStart ==
    /\ Handle("tool")
    /\ inFlight' = inFlight \cup {Head(sdk)[2]}
    /\ UNCHANGED <<turn, active, shown, done, historyVars>>

HandleToolResult ==
    /\ Handle("result of tool")
    /\ LET k == Head(sdk)[2]
       IN  /\ done' = IF k \in inFlight THEN [done EXCEPT ![k] = @ + 1] ELSE done
           /\ inFlight' = inFlight \ {k}
    /\ UNCHANGED <<turn, active, shown, historyVars>>

\* A result ends the turn that is open, or none; a failed one is an error first.
HandleResult ==
    /\ Handle("result")
    /\ CompleteTurn(IF Head(sdk)[2] = "failed" THEN AfterError(active, TurnId) ELSE active)
    /\ UNCHANGED historyVars

\* stopSessionInternal up to the end of the stream fiber.
Stops(a) ==
    /\ stopped' = TRUE
    /\ resolved' = [k \in Tools |-> IF k \in pending \ questions THEN resolved[k] \cup {"cancel"}
                                    ELSE resolved[k]]
    /\ decision' = [k \in Tools |-> IF k \in pending \ questions /\ decision[k] = None
                                    THEN "cancel" ELSE decision[k]]
    /\ pending' = pending \cap questions
    /\ IF turn = None THEN turn' = None /\ active' = a /\ UNCHANGED <<shown, done, inFlight>>
       ELSE CompleteTurn(a)

StopSession ==
    /\ ~stopped
    /\ Stops(active)
    /\ UNCHANGED <<turns, sending, prompts, promptQueue, questions, request, closed, stream, sdk, claudeVars,
                   historyVars>>

\* handleStreamExit: what Claude said before is handled first.
HandleStreamExit ==
    /\ stream \in {"ended", "failed"} /\ sdk = <<>> /\ ~stopped
    /\ Stops(IF stream = "failed" THEN AfterError(active, TurnId) ELSE active)
    /\ stream' = "over"
    /\ UNCHANGED <<turns, sending, prompts, promptQueue, questions, request, closed, sdk, claudeVars, historyVars>>

\* The rest of stopSessionInternal: query.close, session.exited, sessions.delete.
CloseQuery ==
    /\ stopped /\ ~closed
    /\ closed' = TRUE /\ stream' = "over" /\ sdk' = <<>>
    /\ active' = None
    /\ UNCHANGED <<turnVars, inFlight, requestVars, stopped, claudeVars, shown, done, resolved, historyVars>>

----------------------------------------------------------------------------
(* Claude, behind its SDK: what it sends is handled message by message.    *)

Alive == stream = "running" /\ ~closed

Sends(messages) ==
    /\ Alive /\ sdk = <<>>
    /\ sdk' = messages
    /\ UNCHANGED <<turnVars, inFlight, requestVars, sessionVars, threadVars, historyVars>>

TakePrompt ==
    /\ Alive /\ ~working /\ promptQueue > 0
    /\ working' = TRUE /\ interrupted' = FALSE /\ promptQueue' = promptQueue - 1
    /\ UNCHANGED <<turn, turns, sending, prompts, inFlight, requestVars, sessionVars, sdk, texts, used,
                   threadVars, historyVars>>

\* With a prompt or, from a background agent, without one.
Answer ==
    /\ texts < MaxTexts
    /\ texts' = texts + 1
    /\ \E messages \in
            {<<<<"start", 0>>, <<"delta", texts'>>, <<"stop", 0>>, <<"assistant", texts'>>>>,
             <<<<"start", 0>>, <<"delta", texts'>>, <<"assistant", texts'>>, <<"stop", 0>>>>,
             <<<<"assistant", texts'>>>>} : Sends(messages)
    /\ UNCHANGED <<working, interrupted, used>>

UseTool(k) ==
    /\ working /\ used[k] = "no"
    /\ used' = [used EXCEPT ![k] = "started"]
    /\ Sends(<<<<"tool", k>>>>)
    /\ UNCHANGED <<working, interrupted, texts>>

\* Tools that need no permission return at once; denied ones return an error.
ReturnTool(k) ==
    /\ used[k] = "started" /\ request[k] # "waiting"
    /\ used' = [used EXCEPT ![k] = "returned"]
    /\ Sends(<<<<"result of tool", k>>>>)
    /\ UNCHANGED <<working, interrupted, texts>>

FinishPrompt ==
    /\ working
    /\ interrupted \/ \A k \in Tools : used[k] # "started"
    /\ working' = FALSE /\ interrupted' = FALSE
    /\ used' = [k \in Tools |-> IF used[k] = "started" THEN "given up" ELSE used[k]]
    /\ \E status \in {"completed", "failed"} : Sends(<<<<"result", status>>>>)
    /\ UNCHANGED texts

EndStream ==
    /\ Alive
    /\ stream' \in {"ended", "failed"}
    /\ UNCHANGED <<turnVars, inFlight, requestVars, stopped, closed, sdk, claudeVars, threadVars, historyVars>>

Claude ==
    \/ TakePrompt \/ Answer \/ FinishPrompt \/ EndStream
    \/ \E k \in Tools : UseTool(k) \/ ReturnTool(k)

StreamFiber ==
    \/ HandleBlockStart \/ HandleDelta \/ HandleBlockStop \/ HandleAssistant
    \/ HandleToolStart \/ HandleToolResult \/ HandleResult \/ HandleStreamExit

Next ==
    \/ SendTurn \/ ModeSet \/ ModeFails \/ OfferPrompt \/ InterruptTurn
    \/ StopSession \/ CloseQuery
    \/ StreamFiber
    \/ \E k \in Tools : OpenRequest(k) \/ RespondToRequest(k) \/ OnAbort(k) \/ Resolve(k)
    \/ Claude

\* The steps of a stop and of a callback that can go on do; Claude and its users
\* owe nothing, but the SDK fires the signals of a query it closed.
Fairness ==
    /\ WF_vars(CloseQuery)
    /\ \A k \in Tools : WF_vars(OnAbort(k) /\ closed) /\ WF_vars(Resolve(k))

Spec == Init /\ [][Next]_vars /\ Fairness

----------------------------------------------------------------------------
(* Properties.                                                             *)

Messages == ({"start", "delta", "stop", "assistant"} \X (0..MaxTexts))
            \cup ({"tool", "result of tool"} \X Tools)
            \cup ({"result"} \X {"completed", "failed"})

TurnTyped ==
    /\ turns \in Nat /\ turn \in TurnStates \cup {None} /\ active \in {None} \cup 1..turns
    /\ turn # None => turn.id \in 1..turns /\ turn.open <= Len(turn.order)

SessionTyped ==
    /\ sending \in {"idle", "mode", "build"} /\ prompts \in 0..MaxPrompts /\ promptQueue \in Nat
    /\ stopped \in BOOLEAN /\ closed \in BOOLEAN /\ raced \in BOOLEAN
    /\ stream \in {"running", "ended", "failed", "over"}

RequestsTyped ==
    /\ pending \subseteq Tools /\ questions \subseteq Tools
    /\ decision \in [Tools -> {None, "answer", "cancel"}]
    /\ request \in [Tools -> {"none", "waiting", "told"}]
    /\ resolved \in [Tools -> SUBSET {"answer", "cancel"}]

ClaudeTyped ==
    /\ sdk \in Seq(Messages) /\ texts \in 0..MaxTexts
    /\ working \in BOOLEAN /\ interrupted \in BOOLEAN
    /\ used \in [Tools -> {"no", "started", "returned", "given up"}]

ItemsTyped ==
    /\ inFlight \subseteq Tools /\ done \in [Tools -> Nat]
    /\ shown \in [1..MaxTexts -> Nat] /\ excused \subseteq 1..MaxTexts

\* Every variable keeps its type; an open block is one of its turn's.
TypeOK == TurnTyped /\ SessionTyped /\ RequestsTyped /\ ClaudeTyped /\ ItemsTyped

\* The thread shows the turn that the adapter is in, and none when it is in none or
\* the session is over: whether results, errors, background answers, stops and the end of
\* the stream come before, between or after the steps of sendTurn.  Not so when a
\* background answer begins a turn while sendTurn waits for the permission mode (that turn is
\* then overwritten and never completed), or sendTurn goes on after the exit.
ThreadFollowsTurn == raced \/ active = TurnId

Handled == sdk = <<>> /\ ~stopped

\* What Claude says reaches the thread once: streamed, or from the assistant message,
\* or when the turn ends, inside and outside of turns; and a tool that returns is
\* completed once, by its result or with the turn.  An answer that a new turn cuts
\* in two is told twice, and one that comes unstreamed after another of its turn is hidden by it.
EverythingIsToldOnce ==
    /\ \A n \in (1..texts) \ excused :
         shown[n] <= 1 /\ (Handled /\ (turn = None \/ turn.open = 0) => shown[n] = 1)
    /\ \A k \in Tools :
         done[k] <= 1 /\ (used[k] = "returned" /\ Handled => done[k] = 1)

\* Whoever settles a request, its user, an abort or the stop of the session: the thread
\* is told no other decision than the SDK.
RequestsAgree ==
    \A k \in Tools : /\ resolved[k] \subseteq {decision[k]}
                     /\ request[k] = "told" => resolved[k] = {decision[k]}

\* Every permission or question of a stopped session is settled and told, also one that
\* is asked while the session stops.
EveryRequestIsTold ==
    \A k \in Tools : (stopped /\ request[k] = "waiting") ~> (request[k] = "told")
=============================================================================
