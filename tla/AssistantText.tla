--------------------------- MODULE AssistantText ---------------------------
(***************************************************************************)
(* How the text of an agent reaches a thread: the part of                  *)
(* ProviderRuntimeIngestion that buffers or streams the deltas of          *)
(* assistant messages and proposed plans, finishes them when the item, the *)
(* plan or the turn completes, and forgets them when the session exits.    *)
(* The deltas of a message are numbered, a text is the sequence of the     *)
(* numbers in it.  The worker takes one event at a time; `work` is what is *)
(* left to do of it, and a dispatch that fails gives up the rest.          *)
(***************************************************************************)
EXTENDS Naturals, Sequences, FiniteSets, SequencesExt

CONSTANTS
    Messages,       \* assistant messages: their ids are made of item ids
    Turns,          \* turns of one thread, taken one after the other
    TurnOf,         \* the turn of a message
    MaxDeltas,      \* bound: deltas of each message and of each turn's plan
    BufferLimit,    \* MAX_BUFFERED_ASSISTANT_CHARS, in deltas
    MaxFeed,        \* bound: events the worker has not taken yet
    MaxSwitches     \* bound: changes of enableAssistantStreaming

ASSUME MessagesAssumption == IsFiniteSet(Messages) /\ TurnOf \in [Messages -> Turns]
ASSUME BoundsAssumption ==
    /\ Turns \subseteq Nat
    /\ MaxDeltas \in [Messages \cup Turns -> Nat]
    /\ {BufferLimit, MaxFeed, MaxSwitches} \subseteq Nat

VARIABLES
    said,           \* the provider: deltas of a message so far
    planned,        \* the provider: deltas of a turn's plan so far
    ended,          \* the provider: completed items, plans and turns
    exited,         \* the provider: turns a session's exit cut off
    feed,           \* streamEvents to the worker's queue
    work,           \* the worker: what is left of the event in hand
    streaming,      \* serverSettings.enableAssistantStreaming
    switches,       \* how often it was changed
    buffer,         \* bufferedAssistantTextByMessageId
    planBuffer,     \* bufferedProposedPlanById
    remembered,     \* turnMessageIdsByTurnKey
    text, shown,    \* the thread's messages: their text, and streaming or not
    plan,           \* the thread's proposed plans
    excused         \* history: what a failure, an expiry, an exit or a switch hit

vars == <<said, planned, ended, exited, feed, work, streaming, switches,
          buffer, planBuffer, remembered, text, shown, plan, excused>>

providerVars == <<said, planned, ended, exited>>
settingVars == <<streaming, switches>>
threadVars == <<text, shown, plan>>

UpTo(n) == [i \in 1..n |-> i]

MessagesOf(t) == {m \in Messages : TurnOf[m] = t}

Over(t) == t \in exited \/ <<"turn", t>> \in ended

\* Turns follow each other; only the running one produces events.
Running(t) == ~Over(t) /\ \A u \in Turns : u < t => Over(u)

Init ==
    /\ said = [m \in Messages |-> 0] /\ planned = [t \in Turns |-> 0]
    /\ ended = {} /\ exited = {} /\ feed = <<>> /\ work = <<>>
    /\ streaming \in BOOLEAN /\ switches = 0
    /\ buffer = [m \in Messages |-> <<>>] /\ planBuffer = [t \in Turns |-> <<>>]
    /\ remembered = [t \in Turns |-> {}]
    /\ text = [m \in Messages |-> <<>>] /\ shown = [m \in Messages |-> "none"]
    /\ plan = [t \in Turns |-> <<>>] /\ excused = {}

----------------------------------------------------------------------------
(* The provider.                                                           *)

Emit(e) ==
    /\ Len(feed) < MaxFeed
    /\ feed' = Append(feed, e)
    /\ UNCHANGED <<work, settingVars, buffer, planBuffer, remembered, threadVars, excused>>

SayDelta(m) ==
    /\ Running(TurnOf[m]) /\ <<"item", m>> \notin ended /\ said[m] < MaxDeltas[m]
    /\ said' = [said EXCEPT ![m] = @ + 1]
    /\ Emit([type |-> "content.delta", m |-> m, n |-> said'[m]])
    /\ UNCHANGED <<planned, ended, exited>>

\* Some providers repeat the whole text as the detail of the completed item,
\* and some items come with their detail only.
CompleteItem(m) ==
    /\ Running(TurnOf[m]) /\ <<"item", m>> \notin ended
    /\ \E detail \in BOOLEAN :
         /\ said' = [said EXCEPT ![m] = IF detail /\ @ = 0 THEN 1 ELSE @]
         /\ Emit([type |-> "item.completed", m |-> m,
                  detail |-> IF detail THEN UpTo(said'[m]) ELSE <<>>])
    /\ ended' = ended \cup {<<"item", m>>}
    /\ UNCHANGED <<planned, exited>>

SayPlan(t) ==
    /\ Running(t) /\ <<"plan", t>> \notin ended /\ planned[t] < MaxDeltas[t]
    /\ planned' = [planned EXCEPT ![t] = @ + 1]
    /\ Emit([type |-> "turn.proposed.delta", t |-> t, n |-> planned'[t]])
    /\ UNCHANGED <<said, ended, exited>>

CompletePlan(t) ==
    /\ Running(t) /\ <<"plan", t>> \notin ended /\ planned[t] > 0
    /\ \E markdown \in {<<>>, UpTo(planned[t])} :
         Emit([type |-> "turn.proposed.completed", t |-> t, markdown |-> markdown])
    /\ ended' = ended \cup {<<"plan", t>>}
    /\ UNCHANGED <<said, planned, exited>>

CompleteTurn(t) ==
    /\ Running(t)
    /\ Emit([type |-> "turn.completed", t |-> t])
    /\ ended' = ended \cup {<<"turn", t>>}
    /\ UNCHANGED <<said, planned, exited>>

\* The event's turn is the one it cuts off.
ExitSession(t) ==
    /\ Running(t)
    /\ Emit([type |-> "session.exited", t |-> t])
    /\ exited' = exited \cup {t}
    /\ UNCHANGED <<said, planned, ended>>

----------------------------------------------------------------------------
(* The worker: the steps of processRuntimeEvent that change something.     *)

Deliver(m, delta) == [op |-> "delta", m |-> m, text |-> delta]
Complete(m) == [op |-> "complete", m |-> m]
Finalize(m, fallback) == [op |-> "finalize", m |-> m, text |-> fallback]
Forget(m) == [op |-> "forget", m |-> m]
SetSession(t) == [op |-> "session", t |-> t]
ClearIds(t) == [op |-> "clear", t |-> t]
FinalizePlan(t, fallback) == [op |-> "finalizePlan", t |-> t, text |-> fallback]
Upsert(t, markdown) == [op |-> "upsert", t |-> t, text |-> markdown]
ClearState == [op |-> "clearSession"]

Dispatches == {"delta", "complete", "session", "upsert"}

Take(type) ==
    /\ work = <<>> /\ feed # <<>> /\ Head(feed).type = type
    /\ feed' = Tail(feed)
    /\ UNCHANGED <<providerVars, settingVars, threadVars>>

RememberAssistantMessageId(m) ==
    remembered' = [remembered EXCEPT ![TurnOf[m]] = @ \cup {m}]

\* Mutant: a delta replaces what is buffered.
AppendReplacing(m, n) == <<n>>

AppendBuffered(m, n) == Append(buffer[m], n)

\* Mutant: the safety valve flushes the buffer and keeps it.
BufferDeltaKeeping(m, n) ==
    LET next == AppendBuffered(m, n)
    IN  /\ buffer' = [buffer EXCEPT ![m] = next]
        /\ work' = IF Len(next) <= BufferLimit THEN <<>> ELSE <<Deliver(m, next)>>

BufferDelta(m, n) ==
    LET next == AppendBuffered(m, n)
    IN  IF Len(next) <= BufferLimit
        THEN buffer' = [buffer EXCEPT ![m] = next] /\ work' = <<>>
        ELSE buffer' = [buffer EXCEPT ![m] = <<>>] /\ work' = <<Deliver(m, next)>>

\* The setting is read anew for each delta.
TakeDelta ==
    /\ Take("content.delta")
    /\ LET m == Head(feed).m
           n == Head(feed).n
       IN  /\ RememberAssistantMessageId(m)
           /\ IF streaming
              THEN work' = <<Deliver(m, <<n>>)>> /\ UNCHANGED buffer
              ELSE BufferDelta(m, n)
           /\ excused' = IF streaming /\ buffer[m] # <<>> THEN excused \cup {m} ELSE excused
    /\ UNCHANGED planBuffer

TakeItemCompleted ==
    /\ Take("item.completed")
    /\ LET m == Head(feed).m
       IN  /\ RememberAssistantMessageId(m)
           /\ work' = <<Finalize(m, IF text[m] = <<>> THEN Head(feed).detail ELSE <<>>), Forget(m)>>
    /\ UNCHANGED <<buffer, planBuffer, excused>>

TakePlanDelta ==
    /\ Take("turn.proposed.delta")
    /\ planBuffer' = [planBuffer EXCEPT ![Head(feed).t] = Append(@, Head(feed).n)]
    /\ UNCHANGED <<work, buffer, remembered, excused>>

TakePlanCompleted ==
    /\ Take("turn.proposed.completed")
    /\ work' = <<FinalizePlan(Head(feed).t, Head(feed).markdown)>>
    /\ UNCHANGED <<buffer, planBuffer, remembered, excused>>

\* Mutant: the plan of a turn waits for its own completion.
TurnWorkWithoutPlan(t) ==
    <<SetSession(t)>> \o SetToSeq({Finalize(m, <<>>) : m \in remembered[t]}) \o <<ClearIds(t)>>

TurnWork(t) ==
    <<SetSession(t)>> \o SetToSeq({Finalize(m, <<>>) : m \in remembered[t]})
        \o <<ClearIds(t), FinalizePlan(t, <<>>)>>

TakeTurnCompleted ==
    /\ Take("turn.completed")
    /\ work' = TurnWork(Head(feed).t)
    /\ UNCHANGED <<buffer, planBuffer, remembered, excused>>

TakeSessionExited ==
    /\ Take("session.exited")
    /\ work' = <<SetSession(Head(feed).t), ClearState>>
    /\ UNCHANGED <<buffer, planBuffer, remembered, excused>>

Do(op) ==
    /\ work # <<>> /\ Head(work).op = op
    /\ UNCHANGED <<providerVars, settingVars, feed>>

DispatchDelta ==
    /\ Do("delta")
    /\ LET m == Head(work).m
       IN  /\ text' = [text EXCEPT ![m] = @ \o Head(work).text]
           /\ shown' = [shown EXCEPT ![m] = "streaming"]
    /\ work' = Tail(work)
    /\ UNCHANGED <<plan, buffer, planBuffer, remembered, excused>>

DispatchComplete ==
    /\ Do("complete")
    /\ shown' = [shown EXCEPT ![Head(work).m] = "complete"]
    /\ work' = Tail(work)
    /\ UNCHANGED <<text, plan, buffer, planBuffer, remembered, excused>>

FinalText(buffered, fallback) == IF buffered # <<>> THEN buffered ELSE fallback

FinalizeAssistantMessage ==
    /\ Do("finalize")
    /\ LET m     == Head(work).m
           final == FinalText(buffer[m], Head(work).text)
       IN  /\ buffer' = [buffer EXCEPT ![m] = <<>>]
           /\ work' = (IF final = <<>> THEN <<>> ELSE <<Deliver(m, final)>>)
                          \o <<Complete(m)>> \o Tail(work)
    /\ UNCHANGED <<threadVars, planBuffer, remembered, excused>>

ForgetAssistantMessageId ==
    /\ Do("forget")
    /\ LET m == Head(work).m
       IN  remembered' = [remembered EXCEPT ![TurnOf[m]] = @ \ {m}]
    /\ work' = Tail(work)
    /\ UNCHANGED <<threadVars, buffer, planBuffer, excused>>

ClearAssistantMessageIdsForTurn ==
    /\ Do("clear")
    /\ remembered' = [remembered EXCEPT ![Head(work).t] = {}]
    /\ work' = Tail(work)
    /\ UNCHANGED <<threadVars, buffer, planBuffer, excused>>

FinalizeBufferedProposedPlan ==
    /\ Do("finalizePlan")
    /\ LET t     == Head(work).t
           final == FinalText(planBuffer[t], Head(work).text)
       IN  /\ planBuffer' = [planBuffer EXCEPT ![t] = <<>>]
           /\ work' = (IF final = <<>> THEN <<>> ELSE <<Upsert(t, final)>>) \o Tail(work)
    /\ UNCHANGED <<threadVars, buffer, remembered, excused>>

UpsertProposedPlan ==
    /\ Do("upsert")
    /\ plan' = [plan EXCEPT ![Head(work).t] = Head(work).text]
    /\ work' = Tail(work)
    /\ UNCHANGED <<text, shown, buffer, planBuffer, remembered, excused>>

\* thread.session.set comes before everything else of its event.
DispatchSession ==
    /\ Do("session")
    /\ work' = Tail(work)
    /\ UNCHANGED <<threadVars, buffer, planBuffer, remembered, excused>>

ClearTurnStateForSession ==
    /\ Do("clearSession")
    /\ buffer' = [m \in Messages |-> IF m \in remembered[TurnOf[m]] THEN <<>> ELSE buffer[m]]
    /\ remembered' = [t \in Turns |-> {}]
    /\ planBuffer' = [t \in Turns |-> <<>>]
    /\ work' = Tail(work)
    /\ excused' = excused \cup {t \in Turns : planBuffer[t] # <<>>}
                          \cup UNION {remembered[t] : t \in Turns}
    /\ UNCHANGED threadVars

\* What is left of an event concerns these messages and turns.
Concerned ==
    LET ops == {work[i] : i \in DOMAIN work}
        ts  == {o.t : o \in {o \in ops : "t" \in DOMAIN o}}
    IN  {o.m : o \in {o \in ops : "m" \in DOMAIN o}} \cup ts

\* processInputSafely: the failure is logged and the event is done with.
DispatchFails ==
    /\ work # <<>> /\ Head(work).op \in Dispatches
    /\ work' = <<>>
    /\ excused' = excused \cup Concerned
    /\ UNCHANGED <<providerVars, settingVars, feed, threadVars, buffer, planBuffer, remembered>>

Worker ==
    \/ TakeDelta \/ TakeItemCompleted \/ TakePlanDelta \/ TakePlanCompleted
    \/ TakeTurnCompleted \/ TakeSessionExited
    \/ DispatchDelta \/ DispatchComplete \/ FinalizeAssistantMessage
    \/ ForgetAssistantMessageId \/ ClearAssistantMessageIdsForTurn
    \/ FinalizeBufferedProposedPlan \/ UpsertProposedPlan \/ DispatchSession
    \/ ClearTurnStateForSession \/ DispatchFails

----------------------------------------------------------------------------
(* The caches drop what is too old or too much, and the user changes the   *)
(* setting whenever he likes.                                              *)

ExpireText(m) ==
    /\ buffer[m] # <<>>
    /\ buffer' = [buffer EXCEPT ![m] = <<>>]
    /\ excused' = excused \cup {m}
    /\ UNCHANGED <<providerVars, settingVars, feed, work, planBuffer, remembered, threadVars>>

ExpireIds(t) ==
    /\ remembered[t] # {}
    /\ remembered' = [remembered EXCEPT ![t] = {}]
    /\ excused' = excused \cup remembered[t]
    /\ UNCHANGED <<providerVars, settingVars, feed, work, buffer, planBuffer, threadVars>>

ExpirePlan(t) ==
    /\ planBuffer[t] # <<>>
    /\ planBuffer' = [planBuffer EXCEPT ![t] = <<>>]
    /\ excused' = excused \cup {t}
    /\ UNCHANGED <<providerVars, settingVars, feed, work, buffer, remembered, threadVars>>

SwitchStreaming ==
    /\ switches < MaxSwitches
    /\ streaming' = ~streaming /\ switches' = switches + 1
    /\ UNCHANGED <<providerVars, feed, work, buffer, planBuffer, remembered, threadVars, excused>>

Next ==
    \/ \E m \in Messages : SayDelta(m) \/ CompleteItem(m) \/ ExpireText(m)
    \/ \E t \in Turns : \/ SayPlan(t) \/ CompletePlan(t) \/ CompleteTurn(t)
                        \/ ExitSession(t) \/ ExpireIds(t) \/ ExpirePlan(t)
    \/ Worker
    \/ SwitchStreaming

Spec == Init /\ [][Next]_vars

----------------------------------------------------------------------------
(* Properties.                                                             *)

Texts == Seq(Nat \ {0})

Inputs ==
    [type : {"content.delta"}, m : Messages, n : Nat \ {0}]
    \cup [type : {"item.completed"}, m : Messages, detail : Texts]
    \cup [type : {"turn.proposed.delta"}, t : Turns, n : Nat \ {0}]
    \cup [type : {"turn.proposed.completed"}, t : Turns, markdown : Texts]
    \cup [type : {"turn.completed", "session.exited"}, t : Turns]

Steps ==
    [op : {"delta", "finalize"}, m : Messages, text : Texts]
    \cup [op : {"complete", "forget"}, m : Messages]
    \cup [op : {"finalizePlan", "upsert"}, t : Turns, text : Texts]
    \cup [op : {"session", "clear"}, t : Turns]
    \cup [op : {"clearSession"}]

\* What the worker takes and does has its type, and so have the caches.
WorkerTyped ==
    /\ feed \in Seq(Inputs) /\ work \in Seq(Steps)
    /\ buffer \in [Messages -> Texts] /\ planBuffer \in [Turns -> Texts]
    /\ remembered \in [Turns -> SUBSET Messages]

ThreadTyped ==
    /\ text \in [Messages -> Texts] /\ plan \in [Turns -> Texts]
    /\ shown \in [Messages -> {"none", "streaming", "complete"}]

ProviderTyped ==
    /\ said \in [Messages -> Nat] /\ planned \in [Turns -> Nat] /\ exited \subseteq Turns
    /\ streaming \in BOOLEAN /\ switches \in Nat

\* A buffer never holds more than its limit, and a turn is remembered to have messages of
\* its own only: whatever order deltas, completions, expiries and switches come in.
CachesBounded ==
    /\ \A m \in Messages : Len(buffer[m]) <= BufferLimit
    /\ \A t \in Turns : remembered[t] \subseteq MessagesOf(t)

TypeOK == ProviderTyped /\ WorkerTyped /\ ThreadTyped /\ CachesBounded

\* The deltas of m that are about to be delivered: a delivery is always the next
\* thing to do.
InHand(m) ==
    IF work # <<>> /\ Head(work).op = "delta" /\ Head(work).m = m THEN Head(work).text ELSE <<>>

\* No piece of a message is delivered twice, neither by the safety valve and
\* the end of the item, nor by the end of the item and the end of the turn, nor by
\* the detail that repeats the text, whatever fails or expires in between.
NothingIsSaidTwice ==
    \A m \in Messages : IsInjective(text[m] \o InHand(m) \o buffer[m])

\* What is delivered, about to be delivered and buffered of a message is what
\* the provider said of it, in its order and without a gap, unless a failing
\* dispatch, an expired buffer, an exit or a switch to streaming in the middle
\* of it took a piece out; and a message shown as complete lacks nothing.
TextIsWhole ==
    \A m \in Messages \ excused :
        /\ IsPrefix(text[m] \o InHand(m) \o buffer[m], UpTo(said[m]))
        /\ shown[m] = "complete" => text[m] = UpTo(said[m])

Handled(t) ==
    /\ <<"turn", t>> \in ended /\ work = <<>>
    /\ \A i \in DOMAIN feed : feed[i].type = "turn.completed" => feed[i].t # t

\* When the end of a turn has been handled, every message it began is shown as
\* complete, whether its item was completed or not, its plan is the whole plan,
\* and the caches hold nothing of the turn, with the same exceptions.
EndedTurnIsSettled ==
    \A t \in Turns : Handled(t) =>
        /\ t \notin excused => /\ plan[t] = UpTo(planned[t]) /\ planBuffer[t] = <<>>
                              /\ remembered[t] = {}
        /\ \A m \in MessagesOf(t) \ excused :
             /\ said[m] > 0 => shown[m] = "complete"
             /\ buffer[m] = <<>>
=============================================================================
