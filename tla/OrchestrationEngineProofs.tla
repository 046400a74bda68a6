---------------------- MODULE OrchestrationEngineProofs ----------------------
(***************************************************************************)
(* For every set of commands, calls, projects and threads: what replaying  *)
(* a log is, the inductive invariant of OrchestrationEngine and the        *)
(* properties that follow, and the command ledger it implements.           *)
(***************************************************************************)
EXTENDS OrchestrationEngine, SequenceTheorems, WellFoundedInduction, TLAPS

-----------------------------------------------------------------------------
(***************************************************************************)
(* What the decider and the projector return, and what folding the         *)
(* projector over a sequence of events gives, for every sequence.  The     *)
(* library's induction theorems take an operator as a parameter; the       *)
(* well-foundedness of < is used here over SETS of naturals instead.       *)
(***************************************************************************)

(***************************************************************************)
(* Induction over the natural numbers, for a property given as a set.      *)
(***************************************************************************)
LEMMA SetInduction ==
  ASSUME NEW T, T \subseteq Nat, 0 \in T, \A n \in T : n + 1 \in T
  PROVE  T = Nat
<1>1. SUFFICES ASSUME Nat \ T # {} PROVE FALSE
  OBVIOUS
<1>2. PICK x \in Nat \ T : \A y \in Nat \ T : ~(<<y, x>> \in OpToRel(<, Nat))
  BY <1>1, NatLessThanWellFounded, WFMin
<1>3. \A y \in Nat \ T : ~(y < x)
  BY <1>2 DEF OpToRel
<1>4. x - 1 \in Nat /\ x - 1 < x /\ (x - 1) + 1 = x
  OBVIOUS
<1> QED
  BY <1>3, <1>4

(***************************************************************************)
(* The decider yields one event, or two for thread.turn.start.             *)
(***************************************************************************)
LEMMA DecisionType ==
  ASSUME NEW c \in CommandIds
  PROVE  /\ Decision(c) \in Seq(EventTypes)
         /\ Len(Decision(c)) \in {1, 2}
<1>1. EventTypeOf(CommandOf[c].type) \in EventTypes
  BY DEF EventTypeOf, EventTypes
<1>2. "thread.message-sent" \in EventTypes /\ "thread.turn-start-requested" \in EventTypes
  BY DEF EventTypes
<1> QED
  BY <1>1, <1>2 DEF Decision

(***************************************************************************)
(* The projector maps read models to read models and records the sequence  *)
(* of the event it folded.                                                 *)
(***************************************************************************)
LEMMA ThreadAfterType ==
  ASSUME NEW old \in ThreadState \cup {NoThread}, NEW e \in Event
  PROVE  ThreadAfter(old, e) \in ThreadState \cup {NoThread}
<1>1. NewThread(CommandOf[e.commandId].project) \in ThreadState
  BY CommandOfAssumption DEF NewThread, ThreadState, Event, Command
<1>2. CASE old \in ThreadState
  <2>1. /\ [old EXCEPT !.deleted = TRUE] \in ThreadState
        /\ [old EXCEPT !.archived = TRUE] \in ThreadState
        /\ [old EXCEPT !.archived = FALSE] \in ThreadState
        /\ [old EXCEPT !.hasPlan = TRUE] \in ThreadState
        /\ [old EXCEPT !.messages = @ \cup {e.commandId}] \in ThreadState
    BY <1>2 DEF ThreadState, Event
  <2> QED
    BY <1>1, <1>2, <2>1 DEF ThreadAfter
<1>3. CASE old = NoThread
  BY <1>1, <1>3 DEF ThreadAfter
<1> QED
  BY <1>2, <1>3

LEMMA ProjectEventType ==
  ASSUME NEW model \in ReadModel, NEW e \in Event
  PROVE  /\ ProjectEvent(model, e) \in ReadModel
         /\ ProjectEvent(model, e).snapshotSequence = e.sequence
<1>1. \A p \in Projects : /\ model.projects[p] \in ProjectState
                          /\ ProjectAfter(model.projects[p], e.type) \in ProjectState
  BY DEF ReadModel, ProjectState, ProjectAfter
<1>2. \A t \in Threads : /\ model.threads[t] \in ThreadState \cup {NoThread}
                         /\ ThreadAfter(model.threads[t], e) \in ThreadState \cup {NoThread}
  BY ThreadAfterType DEF ReadModel
<1>3. e.sequence \in Nat
  BY DEF Event
<1> QED
  BY <1>1, <1>2, <1>3 DEF ProjectEvent, ReadModel

LEMMA EmptyReadModelType ==
  /\ EmptyReadModel \in ReadModel
  /\ EmptyReadModel.snapshotSequence = 0
BY DEF EmptyReadModel, ReadModel, ProjectState

-----------------------------------------------------------------------------
(***************************************************************************)
(* f lists the read models after 0, 1, ..., n events.                      *)
(***************************************************************************)
IsHistory(f, model, events, n) ==
  f = [i \in 0..n |-> IF i = 0 THEN model ELSE ProjectEvent(f[i - 1], events[i])]

LEMMA HistoryExists ==
  ASSUME NEW model, NEW events
  PROVE  \A n \in Nat : \E f : IsHistory(f, model, events, n)
<1> DEFINE T == {n \in Nat : \E f : IsHistory(f, model, events, n)}
<1>1. 0 \in T
  <2>1. IsHistory([i \in 0..0 |-> model], model, events, 0)
    BY DEF IsHistory
  <2> QED
    BY <2>1
<1>2. ASSUME NEW n \in T PROVE n + 1 \in T
  <2>1. PICK f : IsHistory(f, model, events, n)
    OBVIOUS
  <2> DEFINE g == [i \in 0..(n + 1) |->
                     IF i = n + 1 THEN ProjectEvent(f[n], events[n + 1]) ELSE f[i]]
  <2>2. \A i \in 0..n : f[i] = IF i = 0 THEN model ELSE ProjectEvent(f[i - 1], events[i])
    BY <2>1 DEF IsHistory
  <2>3. \A i \in 0..(n + 1) :
          g[i] = IF i = 0 THEN model ELSE ProjectEvent(g[i - 1], events[i])
    <3> TAKE i \in 0..(n + 1)
    <3>1. CASE i = n + 1
      <4>1. g[i] = ProjectEvent(f[n], events[n + 1]) /\ i # 0 /\ i - 1 = n /\ g[n] = f[n]
        BY <3>1
      <4> QED
        BY <4>1, <3>1
    <3>2. CASE i # n + 1
      <4>1. i \in 0..n
        BY <3>2
      <4>2. g[i] = f[i]
        BY <3>2
      <4>3. i # 0 => g[i - 1] = f[i - 1]
        BY <4>1
      <4> QED
        BY <2>2, <4>1, <4>2, <4>3
    <3> QED
      BY <3>1, <3>2
  <2>4. IsHistory(g, model, events, n + 1)
    <3> HIDE DEF g
    <3>1. g = [i \in 0..(n + 1) |-> g[i]]
      BY DEF g
    <3> QED
      BY <2>3, <3>1 DEF IsHistory
  <2> QED
    BY <2>4
<1>3. T = Nat
  <2> HIDE DEF T
  <2>1. T \subseteq Nat
    BY DEF T
  <2> QED
    BY <1>1, <1>2, <2>1, SetInduction
<1> QED
  BY <1>3

(***************************************************************************)
(* A list of read models that obeys the projector for n events; histories  *)
(* do, and two such lists agree.                                           *)
(***************************************************************************)
Follows(f, model, events, n) ==
  \A i \in 0..n : f[i] = IF i = 0 THEN model ELSE ProjectEvent(f[i - 1], events[i])

LEMMA HistoryFollows ==
  ASSUME NEW f, NEW model, NEW events, NEW n \in Nat, IsHistory(f, model, events, n)
  PROVE  Follows(f, model, events, n)
BY DEF IsHistory, Follows

LEMMA FollowsUnique ==
  ASSUME NEW model, NEW events, NEW n \in Nat,
         NEW f, Follows(f, model, events, n),
         NEW g, Follows(g, model, events, n)
  PROVE  f[n] = g[n]
<1> DEFINE T == {k \in Nat : k <= n => f[k] = g[k]}
<1>1. 0 \in T
  BY DEF Follows
<1>2. ASSUME NEW k \in T PROVE k + 1 \in T
  <2>1. SUFFICES ASSUME k + 1 <= n PROVE f[k + 1] = g[k + 1]
    OBVIOUS
  <2>2. f[k] = g[k]
    BY <2>1
  <2>3. k + 1 \in 0..n /\ k + 1 # 0 /\ (k + 1) - 1 = k
    BY <2>1
  <2>4. f[k + 1] = ProjectEvent(f[k], events[k + 1])
    BY <2>3 DEF Follows
  <2>5. g[k + 1] = ProjectEvent(g[k], events[k + 1])
    BY <2>3 DEF Follows
  <2> QED
    BY <2>2, <2>4, <2>5
<1>3. T = Nat
  <2> HIDE DEF T
  <2>1. T \subseteq Nat
    BY DEF T
  <2> QED
    BY <1>1, <1>2, <2>1, SetInduction
<1> QED
  BY <1>3

(***************************************************************************)
(* Replay is the last entry of the history.                                *)
(***************************************************************************)
LEMMA ReplayIsLast ==
  ASSUME NEW model, NEW events \in Seq(Event), NEW f,
         IsHistory(f, model, events, Len(events))
  PROVE  Replay(model, events) = f[Len(events)]
<1> DEFINE after == CHOOSE h : h = [i \in 0..Len(events) |->
                      IF i = 0 THEN model ELSE ProjectEvent(h[i - 1], events[i])]
<1>1. IsHistory(after, model, events, Len(events))
  BY DEF IsHistory
<1>2. Replay(model, events) = after[Len(events)]
  BY DEF Replay
<1> HIDE DEF after
<1>3. Len(events) \in Nat
  OBVIOUS
<1>4. after[Len(events)] = f[Len(events)]
  BY <1>1, <1>3, HistoryFollows, FollowsUnique
<1> QED
  BY <1>2, <1>3, <1>4

(***************************************************************************)
(* Replaying nothing changes nothing; replaying one more event projects it.*)
(***************************************************************************)
THEOREM ReplayEmpty ==
  ASSUME NEW model PROVE Replay(model, << >>) = model
<1>1. PICK f : IsHistory(f, model, << >>, 0)
  BY HistoryExists
<1>2. f[0] = model
  BY <1>1 DEF IsHistory
<1>3. << >> \in Seq(Event) /\ Len(<< >>) = 0
  OBVIOUS
<1> QED
  BY <1>1, <1>2, <1>3, ReplayIsLast

THEOREM ReplayAppend ==
  ASSUME NEW model, NEW events \in Seq(Event), NEW e \in Event
  PROVE  Replay(model, Append(events, e)) = ProjectEvent(Replay(model, events), e)
<1> DEFINE n == Len(events)
           longer == Append(events, e)
<1>1. n \in Nat /\ longer \in Seq(Event) /\ Len(longer) = n + 1 /\ longer[n + 1] = e
  OBVIOUS
<1>2. \A i \in 1..n : events[i] = longer[i]
  OBVIOUS
<1> HIDE DEF n, longer
<1>9. n + 1 \in Nat /\ n <= n + 1 /\ n \in 0..n
  BY <1>1
<1>3. PICK f : IsHistory(f, model, events, n)
  BY <1>1, HistoryExists
<1>4. PICK g : IsHistory(g, model, longer, n + 1)
  BY <1>9, HistoryExists
<1>5. f[n] = g[n]
  <2>1. Follows(f, model, events, n)
    BY <1>1, <1>3, HistoryFollows
  <2>2. Follows(g, model, longer, n + 1)
    BY <1>4, <1>9, HistoryFollows
  <2>3. Follows(g, model, events, n)
    BY <1>1, <1>2, <2>2 DEF Follows
  <2> QED
    BY <1>1, <2>1, <2>3, FollowsUnique
<1>6. g[n + 1] = ProjectEvent(g[n], longer[n + 1])
  BY <1>1, <1>4 DEF IsHistory
<1>7. Replay(model, events) = f[n]
  BY <1>3, ReplayIsLast DEF n
<1>8. Replay(model, longer) = g[n + 1]
  BY <1>1, <1>4, ReplayIsLast
<1> QED
  BY <1>1, <1>5, <1>6, <1>7, <1>8 DEF longer

(***************************************************************************)
(* Replaying events gives a read model.                                    *)
(***************************************************************************)
THEOREM ReplayType ==
  ASSUME NEW model \in ReadModel, NEW events \in Seq(Event)
  PROVE  Replay(model, events) \in ReadModel
<1>0. Len(events) \in Nat
  OBVIOUS
<1>1. PICK f : IsHistory(f, model, events, Len(events))
  BY <1>0, HistoryExists
<1> DEFINE T == {k \in Nat : k <= Len(events) => f[k] \in ReadModel}
<1>2. 0 \in T
  BY <1>1 DEF IsHistory
<1>3. ASSUME NEW k \in T PROVE k + 1 \in T
  <2>1. SUFFICES ASSUME k + 1 <= Len(events) PROVE f[k + 1] \in ReadModel
    OBVIOUS
  <2>2. f[k + 1] = ProjectEvent(f[k], events[k + 1])
    BY <1>1, <2>1 DEF IsHistory
  <2>3. f[k] \in ReadModel /\ events[k + 1] \in Event
    BY <2>1
  <2> QED
    BY <2>2, <2>3, ProjectEventType
<1>4. T = Nat
  <2> HIDE DEF T
  <2>1. T \subseteq Nat
    BY DEF T
  <2> QED
    BY <1>2, <1>3, <2>1, SetInduction
<1>5. Replay(model, events) = f[Len(events)]
  BY <1>1, ReplayIsLast
<1> QED
  BY <1>4, <1>5

-----------------------------------------------------------------------------
(***************************************************************************)
(* The invariant                                                           *)
(***************************************************************************)

USE NoCommandAssumption, NoCallAssumption

LEMMA InitInvariant == Init => EngineInvariant
<1> SUFFICES ASSUME Init PROVE EngineInvariant
  OBVIOUS
<1> USE DEF Init
<1>1. TypeOK
  BY EmptyReadModelType DEF TypeOK, Receipt, Call, Locations
<1>2. BootReplays
  <2>1. Replay(EmptyReadModel, << >>) = EmptyReadModel
    BY ReplayEmpty
  <2>2. readModel = EmptyReadModel /\ log = << >> /\ EmptyReadModel.snapshotSequence = 0
    BY EmptyReadModelType
  <2> HIDE DEF Init
  <2>3. SubSeq(log, 1, 0) = << >> /\ Len(log) = 0
    BY <2>2
  <2>4. readModel = Replay(EmptyReadModel, SubSeq(log, 1, readModel.snapshotSequence))
    BY <2>1, <2>2, <2>3
  <2> QED
    BY <2>2, <2>3, <2>4 DEF BootReplays
<1>3. /\ LogNumbered /\ ModelReplays /\ EnvelopeDispatched /\ TransactionFolds
      /\ RefusalHasNoReceipt /\ CommitPending /\ ReceiptsInLog /\ CallsMatchReceipts
  BY DEF LogNumbered, ModelReplays, EnvelopeDispatched, TransactionFolds, RefusalHasNoReceipt,
         CommitPending, ReceiptsInLog, CallsMatchReceipts
<1>4. StreamSegment
  BY DEF StreamSegment
<1>5. ReceiptsMatchLog
  <2>1. \A c \in CommandIds : receipts[c].status = "none"
    OBVIOUS
  <2>2. Len(log) = 0
    OBVIOUS
  <2> HIDE DEF Init
  <2>3. \A c \in CommandIds : EventsOf(c) = {}
    BY <2>2 DEF EventsOf
  <2> QED
    BY <2>1, <2>3 DEF ReceiptsMatchLog
<1> QED
  BY <1>1, <1>2, <1>3, <1>4, <1>5 DEF EngineInvariant

(***************************************************************************)
(* Booting.                                                                *)
(***************************************************************************)
LEMMA BootProjectStep == EngineInvariant /\ BootProject => EngineInvariant'
<1> SUFFICES ASSUME EngineInvariant, BootProject PROVE EngineInvariant'
  OBVIOUS
<1> USE DEF EngineInvariant, BootProject, durableVars, txVars
<1> DEFINE n == readModel.snapshotSequence
<1>1. /\ n \in Nat /\ n + 1 \in 1..Len(log) /\ n < Len(log)
      /\ log \in Seq(Event) /\ log[n + 1] \in Event /\ log[n + 1].sequence = n + 1
      /\ readModel \in ReadModel
  BY DEF TypeOK, ReadModel, LogNumbered
<1>2. readModel' \in ReadModel /\ readModel'.snapshotSequence = n + 1
  BY <1>1, ProjectEventType
<1>3. TypeOK'
  BY <1>2 DEF TypeOK
<1>4. BootReplays'
  <2>1. SubSeq(log, 1, n + 1) = Append(SubSeq(log, 1, n), log[n + 1])
    BY <1>1
  <2>2. SubSeq(log, 1, n) \in Seq(Event)
    BY <1>1
  <2>3. readModel = Replay(EmptyReadModel, SubSeq(log, 1, n))
    BY DEF BootReplays
  <2>4. readModel' = Replay(EmptyReadModel, SubSeq(log, 1, n + 1))
    BY <1>1, <2>1, <2>2, <2>3, ReplayAppend
  <2> QED
    BY <1>1, <1>2, <2>4 DEF BootReplays
<1>5. /\ LogNumbered' /\ ModelReplays' /\ EnvelopeDispatched' /\ TransactionFolds'
      /\ RefusalHasNoReceipt' /\ CommitPending' /\ ReceiptsInLog' /\ CallsMatchReceipts'
  BY DEF LogNumbered, ModelReplays, EnvelopeDispatched, TransactionFolds, RefusalHasNoReceipt,
         CommitPending, ReceiptsInLog, CallsMatchReceipts
<1>6. StreamSegment'
  BY DEF StreamSegment, LastPublished
<1>7. ReceiptsMatchLog'
  BY DEF ReceiptsMatchLog, EventsOf
<1> QED
  BY <1>3, <1>4, <1>5, <1>6, <1>7

LEMMA BootDoneStep == EngineInvariant /\ BootDone => EngineInvariant'
<1> SUFFICES ASSUME EngineInvariant, BootDone PROVE EngineInvariant'
  OBVIOUS
<1> USE DEF EngineInvariant, BootDone, durableVars, txVars
<1>1. TypeOK'
  BY DEF TypeOK, Locations, ReadModel
<1>2. ModelReplays'
  <2>1. SubSeq(log, 1, Len(log)) = log
    BY DEF TypeOK
  <2> QED
    BY <2>1 DEF BootReplays, ModelReplays
<1>3. StreamSegment'
  BY DEF StreamSegment, LastPublished, TypeOK
<1>4. /\ LogNumbered' /\ BootReplays' /\ EnvelopeDispatched' /\ TransactionFolds'
      /\ RefusalHasNoReceipt' /\ CommitPending' /\ ReceiptsInLog' /\ CallsMatchReceipts'
  BY DEF LogNumbered, BootReplays, EnvelopeDispatched, TransactionFolds, RefusalHasNoReceipt,
         CommitPending, ReceiptsInLog, CallsMatchReceipts
<1>5. ReceiptsMatchLog'
  BY DEF ReceiptsMatchLog, EventsOf
<1> QED
  BY <1>1, <1>2, <1>3, <1>4, <1>5

-----------------------------------------------------------------------------
(***************************************************************************)
(* Callers and the queue.                                                  *)
(***************************************************************************)
LEMMA DispatchStep ==
  ASSUME NEW k \in Calls, NEW c \in CommandIds, EngineInvariant, Dispatch(k, c)
  PROVE  EngineInvariant'
<1> USE DEF EngineInvariant, Dispatch, durableVars, txVars
<1>1. TypeOK'
  BY DEF TypeOK, Call
<1>2. EnvelopeDispatched'
  BY DEF EnvelopeDispatched, TypeOK, Call
<1>3. pc \notin {"boot", "idle"} => CurrentCommand' = CurrentCommand
  BY DEF EnvelopeDispatched, TypeOK, CurrentCommand
<1>4. TransactionFolds'
  BY <1>3 DEF TransactionFolds, SavedEvent
<1>5. RefusalHasNoReceipt' /\ CommitPending'
  <2>1. \A j \in Calls : calls'[j].status = "ok" => calls'[j] = calls[j]
    BY DEF TypeOK
  <2> QED
    BY <1>3, <2>1 DEF RefusalHasNoReceipt, CommitPending, LastPublished
<1>6. CallsMatchReceipts'
  BY DEF CallsMatchReceipts, TypeOK
<1>7. LogNumbered' /\ BootReplays' /\ ModelReplays' /\ ReceiptsInLog'
  BY DEF LogNumbered, BootReplays, ModelReplays, ReceiptsInLog
<1>8. StreamSegment'
  BY DEF StreamSegment, LastPublished
<1>9. ReceiptsMatchLog'
  BY DEF ReceiptsMatchLog, EventsOf
<1> QED
  BY <1>1, <1>2, <1>4, <1>5, <1>6, <1>7, <1>8, <1>9

LEMMA TakeEnvelopeStep == EngineInvariant /\ TakeEnvelope => EngineInvariant'
<1> SUFFICES ASSUME EngineInvariant, TakeEnvelope PROVE EngineInvariant'
  OBVIOUS
<1> USE DEF EngineInvariant, TakeEnvelope, durableVars, txVars
<1>1. /\ Head(commandQueue) \in Calls
      /\ Head(commandQueue) = commandQueue[1]
      /\ Tail(commandQueue) \in Seq(Calls)
      /\ Len(Tail(commandQueue)) = Len(commandQueue) - 1
      /\ Len(commandQueue) \in Nat \ {0}
      /\ \A i \in 1..Len(Tail(commandQueue)) : Tail(commandQueue)[i] = commandQueue[i + 1]
  BY DEF TypeOK
<1>2. TypeOK'
  BY <1>1 DEF TypeOK, Locations, ReadModel
<1>3. EnvelopeDispatched'
  BY <1>1 DEF EnvelopeDispatched, ModelReplays
<1>4. /\ LogNumbered' /\ BootReplays' /\ ModelReplays' /\ TransactionFolds'
      /\ RefusalHasNoReceipt' /\ CommitPending' /\ ReceiptsInLog' /\ CallsMatchReceipts'
  BY DEF LogNumbered, BootReplays, ModelReplays, TransactionFolds, RefusalHasNoReceipt,
         CommitPending, ReceiptsInLog, CallsMatchReceipts
<1>5. StreamSegment'
  BY DEF StreamSegment, LastPublished
<1>6. ReceiptsMatchLog'
  BY DEF ReceiptsMatchLog, EventsOf
<1> QED
  BY <1>2, <1>3, <1>4, <1>5, <1>6

(***************************************************************************)
(* Completing the Deferred in hand keeps the invariant wherever the worker *)
(* has reached the end of the log with its stream, and tells "ok" only     *)
(* what an accepted receipt says.                                          *)
(***************************************************************************)
LEMMA CompleteStep ==
  ASSUME EngineInvariant,
         NEW status \in {"ok", "rejected", "failed"}, NEW sequence \in Nat,
         Complete(status, sequence),
         pc \in {"lookup", "publish", "answer"},
         LastPublished = Len(log),
         status = "ok" =>
           receipts[CurrentCommand] = [status |-> "accepted", sequence |-> sequence],
         UNCHANGED <<durableVars, commandQueue, readModel, published, bootSequence>>
  PROVE  EngineInvariant'
<1> USE DEF EngineInvariant, Complete, durableVars
<1>1. envelope \in Calls /\ calls[envelope].status # "unused"
  BY DEF EnvelopeDispatched
<1>2. calls' = [calls EXCEPT ![envelope] = [calls[envelope] EXCEPT !.status = status,
                                                                  !.sequence = sequence]]
  BY <1>1 DEF TypeOK
<1>3. calls' \in [Calls -> Call]
  <2>1. [calls[envelope] EXCEPT !.status = status, !.sequence = sequence] \in Call
    BY <1>1 DEF TypeOK, Call
  <2> QED
    BY <1>1, <1>2, <2>1 DEF TypeOK
<1>4. /\ calls'[envelope].status = status
      /\ calls'[envelope].sequence = sequence
      /\ calls'[envelope].command = calls[envelope].command
      /\ \A k \in Calls : k # envelope => calls'[k] = calls[k]
  BY <1>1, <1>2 DEF TypeOK, Call
<1>5. TypeOK'
  BY <1>3, EmptyReadModelType DEF TypeOK, Locations
<1>6. EnvelopeDispatched'
  BY <1>1, <1>4, <1>5 DEF EnvelopeDispatched, TypeOK
<1>7. CallsMatchReceipts'
  BY <1>1, <1>4 DEF CallsMatchReceipts, CurrentCommand
<1>8. /\ LogNumbered' /\ BootReplays' /\ ModelReplays' /\ TransactionFolds'
      /\ RefusalHasNoReceipt' /\ CommitPending' /\ ReceiptsInLog'
  BY DEF LogNumbered, BootReplays, ModelReplays, TransactionFolds, RefusalHasNoReceipt,
         CommitPending, ReceiptsInLog
<1>9. StreamSegment'
  BY DEF StreamSegment, LastPublished
<1>10. ReceiptsMatchLog'
  BY DEF ReceiptsMatchLog, EventsOf
<1> QED
  BY <1>5, <1>6, <1>7, <1>8, <1>9, <1>10

LEMMA AnswerStep ==
  ASSUME EngineInvariant,
         \/ AnswerFromAcceptedReceipt \/ AnswerFromRejectedReceipt
         \/ AnswerCommitted \/ AnswerFailed
  PROVE  EngineInvariant'
<1> USE DEF EngineInvariant
<1>1. pc \in {"lookup", "answer"} => LastPublished = Len(log)
  BY DEF StreamSegment
<1>2. pc # "boot" /\ pc # "idle" => CurrentCommand \in CommandIds
  BY DEF EnvelopeDispatched, CurrentCommand
<1>3. CASE AnswerFromAcceptedReceipt
  <2>1. /\ receipts[CurrentCommand] \in Receipt
        /\ receipts[CurrentCommand].status = "accepted" /\ pc = "lookup"
    BY <1>2, <1>3 DEF AnswerFromAcceptedReceipt, TypeOK
  <2>2. /\ receipts[CurrentCommand].sequence \in Nat
        /\ receipts[CurrentCommand] =
             [status |-> "accepted", sequence |-> receipts[CurrentCommand].sequence]
    BY <2>1 DEF Receipt
  <2> QED
    BY <1>1, <1>3, <2>1, <2>2, CompleteStep DEF AnswerFromAcceptedReceipt
<1>4. CASE AnswerFromRejectedReceipt
  BY <1>1, <1>4, CompleteStep DEF AnswerFromRejectedReceipt
<1>5. CASE AnswerCommitted
  <2>1. /\ LastPublished = Len(log) /\ nextReadModel.snapshotSequence = Len(log)
        /\ receipts[CurrentCommand] = [status |-> "accepted", sequence |-> Len(log)]
        /\ Len(log) \in Nat
    BY <1>5 DEF AnswerCommitted, CommitPending, LastPublished, TypeOK
  <2> QED
    BY <1>5, <2>1, CompleteStep DEF AnswerCommitted
<1>6. CASE AnswerFailed
  BY <1>1, <1>6, CompleteStep DEF AnswerFailed
<1> QED
  BY <1>3, <1>4, <1>5, <1>6

-----------------------------------------------------------------------------
(***************************************************************************)
(* The transaction.                                                        *)
(***************************************************************************)
LEMMA DecideCommandStep == EngineInvariant /\ DecideCommand => EngineInvariant'
<1> SUFFICES ASSUME EngineInvariant, DecideCommand PROVE EngineInvariant'
  OBVIOUS
<1> USE DEF EngineInvariant, DecideCommand, durableVars, txVars
<1>1. TypeOK'
  BY DEF TypeOK, Locations
<1>2. EnvelopeDispatched'
  BY DEF EnvelopeDispatched
<1>3. TransactionFolds'
  <2>1. CurrentCommand \in CommandIds /\ CurrentCommand' = CurrentCommand
    BY DEF EnvelopeDispatched, CurrentCommand
  <2>2. Len(Decision(CurrentCommand)) \in {1, 2}
    BY <2>1, DecisionType
  <2>3. committedEvents = << >> /\ log \o << >> = log
    BY DEF EnvelopeDispatched, TypeOK
  <2>4. readModel.snapshotSequence = Len(log) /\ readModel = Replay(EmptyReadModel, log)
    BY DEF ModelReplays
  <2>5. receipts[CurrentCommand].status = "none"
    OBVIOUS
  <2> QED
    BY <2>1, <2>2, <2>3, <2>4, <2>5 DEF TransactionFolds, TypeOK
<1>4. /\ LogNumbered' /\ BootReplays' /\ ModelReplays'
      /\ RefusalHasNoReceipt' /\ CommitPending' /\ ReceiptsInLog' /\ CallsMatchReceipts'
  BY DEF LogNumbered, BootReplays, ModelReplays, RefusalHasNoReceipt,
         CommitPending, ReceiptsInLog, CallsMatchReceipts
<1>5. StreamSegment'
  BY DEF StreamSegment, LastPublished
<1>6. ReceiptsMatchLog'
  BY DEF ReceiptsMatchLog, EventsOf
<1> QED
  BY <1>1, <1>2, <1>3, <1>4, <1>5, <1>6

LEMMA FailStep ==
  ASSUME EngineInvariant, NEW kind \in {"invariant", "storage"}, Fail(kind),
         pc \in {"lookup", "append"},
         kind = "invariant" => receipts[CurrentCommand].status = "none"
  PROVE  EngineInvariant'
<1> USE DEF EngineInvariant, Fail, durableVars
<1>1. TypeOK'
  BY EmptyReadModelType DEF TypeOK, Locations
<1>2. EnvelopeDispatched'
  BY DEF EnvelopeDispatched
<1>3. RefusalHasNoReceipt'
  BY DEF RefusalHasNoReceipt, CurrentCommand
<1>4. /\ LogNumbered' /\ BootReplays' /\ ModelReplays' /\ TransactionFolds'
      /\ CommitPending' /\ ReceiptsInLog' /\ CallsMatchReceipts'
  BY DEF LogNumbered, BootReplays, ModelReplays, TransactionFolds,
         CommitPending, ReceiptsInLog, CallsMatchReceipts
<1>5. StreamSegment'
  BY DEF StreamSegment, LastPublished
<1>6. ReceiptsMatchLog'
  BY DEF ReceiptsMatchLog, EventsOf
<1> QED
  BY <1>1, <1>2, <1>3, <1>4, <1>5, <1>6

LEMMA RefuseOrFailStep ==
  ASSUME EngineInvariant, RefuseCommand \/ StorageFails
  PROVE  EngineInvariant'
BY FailStep DEF RefuseCommand, StorageFails

LEMMA AppendEventStep == EngineInvariant /\ AppendEvent => EngineInvariant'
<1> SUFFICES ASSUME EngineInvariant, AppendEvent PROVE EngineInvariant'
  OBVIOUS
<1> USE DEF EngineInvariant, AppendEvent, durableVars, txVars
<1> DEFINE n == Len(committedEvents)
           saved == SavedEvent(n + 1)
<1>1. CurrentCommand \in CommandIds /\ CurrentCommand' = CurrentCommand
  BY DEF EnvelopeDispatched, CurrentCommand
<1>2. saved \in Event /\ saved.sequence = Len(log) + n + 1 /\ n \in Nat
  <2>1. n \in Nat /\ Len(log) \in Nat
    BY DEF TypeOK
  <2>2. Decision(CurrentCommand)[n + 1] \in EventTypes
    BY <1>1, <2>1, DecisionType
  <2> QED
    BY <1>1, <2>1, <2>2 DEF SavedEvent, Event
<1>3. nextReadModel' \in ReadModel /\ nextReadModel'.snapshotSequence = Len(log) + n + 1
  BY <1>2, ProjectEventType DEF TypeOK
<1>4. TypeOK'
  BY <1>2, <1>3 DEF TypeOK
<1>5. TransactionFolds'
  <2>1. log \o Append(committedEvents, saved) = Append(log \o committedEvents, saved)
    BY <1>2 DEF TypeOK
  <2>2. log \o committedEvents \in Seq(Event)
    BY DEF TypeOK
  <2>3. nextReadModel' = Replay(EmptyReadModel, log \o committedEvents')
    BY <1>2, <2>1, <2>2, ReplayAppend DEF TransactionFolds
  <2>4. Len(committedEvents') = n + 1 /\ Len(committedEvents') <= Len(Decision(CurrentCommand))
    BY <1>1, <1>2, DecisionType DEF TypeOK
  <2>5. \A i \in 1..Len(committedEvents') : committedEvents'[i] = SavedEvent(i)
    BY <1>2, <2>4 DEF TransactionFolds, TypeOK
  <2>6. \A i : SavedEvent(i)' = SavedEvent(i)
    BY <1>1 DEF SavedEvent
  <2> QED
    BY <1>1, <1>2, <1>3, <2>3, <2>4, <2>5, <2>6 DEF TransactionFolds, TypeOK
<1>6. /\ LogNumbered' /\ BootReplays' /\ ModelReplays' /\ EnvelopeDispatched'
      /\ RefusalHasNoReceipt' /\ CommitPending' /\ ReceiptsInLog' /\ CallsMatchReceipts'
  BY DEF LogNumbered, BootReplays, ModelReplays, EnvelopeDispatched, RefusalHasNoReceipt,
         CommitPending, ReceiptsInLog, CallsMatchReceipts
<1>7. StreamSegment'
  BY DEF StreamSegment, LastPublished
<1>8. ReceiptsMatchLog'
  BY DEF ReceiptsMatchLog, EventsOf
<1> QED
  BY <1>4, <1>5, <1>6, <1>7, <1>8

LEMMA CommitTransactionStep == EngineInvariant /\ CommitTransaction => EngineInvariant'
<1> SUFFICES ASSUME EngineInvariant, CommitTransaction PROVE EngineInvariant'
  OBVIOUS
<1> USE DEF EngineInvariant, CommitTransaction, durableVars, txVars
<1> DEFINE c == CurrentCommand
           n == Len(committedEvents)
           receipt == [status |-> "accepted", sequence |-> Len(log) + n]
<1>1. /\ c \in CommandIds /\ c' = c
      /\ n \in {1, 2} /\ n = Len(Decision(c)) /\ Len(log) \in Nat
      /\ receipts[c].status = "none"
  BY DecisionType DEF EnvelopeDispatched, CurrentCommand, TransactionFolds, TypeOK
<1>2. /\ log' \in Seq(Event) /\ Len(log') = Len(log) + n
      /\ \A i \in 1..Len(log) : log'[i] = log[i]
      /\ \A i \in 1..n : log'[Len(log) + i] = committedEvents[i]
      /\ \A i \in (Len(log) + 1)..Len(log') :
           i - Len(log) \in 1..n /\ log'[i] = committedEvents[i - Len(log)]
  <2>1. log \in Seq(Event) /\ committedEvents \in Seq(Event) /\ log' = log \o committedEvents
    BY DEF TypeOK
  <2> QED
    BY ONLY <2>1
<1>3. \A i \in 1..n : committedEvents[i] = [sequence |-> Len(log) + i, commandId |-> c,
                                            type |-> Decision(c)[i]]
  BY DEF TransactionFolds, SavedEvent
<1> HIDE DEF c, n
<1>15. \A i \in (Len(log) + 1)..Len(log') :
         /\ log'[i].sequence = i /\ log'[i].commandId = c
         /\ log'[i].type = Decision(c)[i - Len(log)]
  <2> SUFFICES ASSUME NEW i \in (Len(log) + 1)..Len(log'), NEW j, j = i - Len(log)
               PROVE  /\ log'[i].sequence = i /\ log'[i].commandId = c
                      /\ log'[i].type = Decision(c)[j]
    OBVIOUS
  <2>1. j \in 1..n /\ log'[i] = committedEvents[j] /\ Len(log) + j = i
    BY <1>1, <1>2
  <2>2. committedEvents[j] = [sequence |-> Len(log) + j, commandId |-> c,
                              type |-> Decision(c)[j]]
    BY <1>3, <2>1
  <2> QED
    BY <1>1, <2>1, <2>2
<1>4. receipt \in Receipt /\ receipts' = [receipts EXCEPT ![c] = receipt]
  BY <1>1 DEF Receipt, c, n
<1>5. TypeOK'
  BY <1>1, <1>2, <1>4 DEF TypeOK, Locations
<1>6. receipts'[c] = receipt /\ \A d \in CommandIds \ {c} : receipts'[d] = receipts[d]
  BY <1>1, <1>4 DEF TypeOK
<1>7. LogNumbered'
  <2> SUFFICES ASSUME NEW i \in 1..Len(log') PROVE log'[i].sequence = i
    BY DEF LogNumbered
  <2>1. CASE i <= Len(log)
    BY <1>1, <1>2, <2>1 DEF LogNumbered
  <2>2. CASE i > Len(log)
    BY <1>1, <1>2, <1>15, <2>2
  <2> QED
    BY <1>1, <2>1, <2>2
<1>8. LastPublished = Len(log) /\ LastPublished' = LastPublished
  BY DEF StreamSegment, LastPublished
<1>9. CommitPending'
  <2>1. nextReadModel'.snapshotSequence = Len(log') /\ nextReadModel' = Replay(EmptyReadModel, log')
    BY <1>2 DEF TransactionFolds, n
  <2>2. readModel'.snapshotSequence = LastPublished'
    BY <1>8 DEF ModelReplays
  <2>3. receipts'[c'] = [status |-> "accepted", sequence |-> Len(log')]
    BY <1>1, <1>2, <1>6
  <2>4. LastPublished' + Len(committedEvents') = Len(log')
    BY <1>1, <1>2, <1>8 DEF n
  <2>5. \A i \in 1..Len(committedEvents') : committedEvents'[i] = log'[LastPublished' + i]
    BY <1>2, <1>8 DEF n
  <2>6. \A k \in Calls : calls'[k].status = "ok" => calls'[k].sequence <= LastPublished'
    <3> SUFFICES ASSUME NEW k \in Calls, calls[k].status = "ok"
                 PROVE  calls[k].sequence <= Len(log)
      BY <1>8
    <3>1. receipts[calls[k].command] = [status |-> "accepted", sequence |-> calls[k].sequence]
      BY DEF CallsMatchReceipts
    <3>2. calls[k].command \in CommandIds
      BY DEF EnvelopeDispatched
    <3>3. receipts[calls[k].command].sequence <= Len(log)
      BY ONLY ReceiptsInLog, <3>1, <3>2 DEF ReceiptsInLog
    <3> QED
      BY ONLY <3>1, <3>3
  <2> QED
    BY <2>1, <2>2, <2>3, <2>4, <2>5, <2>6 DEF CommitPending, c
<1>10. StreamSegment'
  <2>1. LastPublished' <= Len(log')
    BY <1>1, <1>2, <1>8
  <2>2. \A i \in 1..Len(published) : bootSequence + i \in 1..Len(log)
    BY <1>8 DEF LastPublished, TypeOK
  <2>3. \A i \in 1..Len(published) : published'[i] = log'[bootSequence' + i]
    BY <1>2, <2>2 DEF StreamSegment
  <2> QED
    BY <2>1, <2>3 DEF StreamSegment
<1>11. ReceiptsInLog'
  <2> SUFFICES ASSUME NEW d \in CommandIds, receipts'[d].status = "accepted"
               PROVE  receipts'[d].sequence <= Len(log')
    BY DEF ReceiptsInLog
  <2>1. receipts[d].sequence \in Nat
    BY DEF TypeOK, Receipt
  <2> QED
    BY <1>1, <1>2, <1>6, <2>1 DEF ReceiptsInLog
<1>12. CallsMatchReceipts'
  BY <1>1, <1>6 DEF CallsMatchReceipts, EnvelopeDispatched
<1>13. ReceiptsMatchLog'
  <2> DEFINE New(d) == {i \in 1..Len(log') : log'[i].commandId = d}
             first(d) == receipts'[d].sequence - Len(Decision(d))
  <2>2. SUFFICES ASSUME NEW d \in CommandIds
                 PROVE  IF receipts'[d].status = "accepted"
                        THEN /\ New(d) = (first(d) + 1)..receipts'[d].sequence
                             /\ \A i \in New(d) : log'[i].type = Decision(d)[i - first(d)]
                        ELSE New(d) = {}
    BY <2>2 DEF ReceiptsMatchLog, EventsOf
  <2>3. CASE d = c
    <3>1. EventsOf(c) = {}
      BY <1>1 DEF ReceiptsMatchLog
    <3>2. \A i \in 1..Len(log) : log'[i].commandId # c
      BY <1>2, <3>1 DEF EventsOf
    <3>3. New(c) = (Len(log) + 1)..Len(log')
      BY <1>1, <1>2, <1>15, <3>2
    <3>4. /\ receipts'[c].status = "accepted" /\ receipts'[c].sequence = Len(log')
          /\ first(c) = Len(log)
      BY <1>1, <1>2, <1>6
    <3> QED
      BY <1>15, <2>3, <3>3, <3>4
  <2>4. CASE d # c
    <3>1. New(d) = EventsOf(d)
      BY <1>1, <1>2, <1>15, <2>4 DEF EventsOf
    <3>2. \A i \in EventsOf(d) : log'[i] = log[i]
      BY <1>2 DEF EventsOf
    <3>3. receipts'[d] = receipts[d]
      BY <1>6, <2>4
    <3> HIDE DEF New
    <3> QED
      BY <3>1, <3>2, <3>3, ZenonT(40) DEF ReceiptsMatchLog
  <2> QED
    BY <2>3, <2>4
<1>14. /\ BootReplays' /\ ModelReplays' /\ EnvelopeDispatched' /\ TransactionFolds'
       /\ RefusalHasNoReceipt'
  BY DEF BootReplays, ModelReplays, EnvelopeDispatched, TransactionFolds, RefusalHasNoReceipt
<1> QED
  BY <1>5, <1>7, <1>9, <1>10, <1>11, <1>12, <1>13, <1>14

LEMMA AdoptReadModelStep == EngineInvariant /\ AdoptReadModel => EngineInvariant'
<1> SUFFICES ASSUME EngineInvariant, AdoptReadModel PROVE EngineInvariant'
  OBVIOUS
<1> USE DEF EngineInvariant, AdoptReadModel, durableVars, txVars
<1>1. TypeOK'
  BY DEF TypeOK, Locations
<1>2. ModelReplays'
  BY DEF ModelReplays, CommitPending
<1>3. CommitPending'
  BY DEF CommitPending, CurrentCommand, LastPublished
<1>4. /\ LogNumbered' /\ BootReplays' /\ EnvelopeDispatched' /\ TransactionFolds'
      /\ RefusalHasNoReceipt' /\ ReceiptsInLog' /\ CallsMatchReceipts'
  BY DEF LogNumbered, BootReplays, EnvelopeDispatched, TransactionFolds, RefusalHasNoReceipt,
         ReceiptsInLog, CallsMatchReceipts
<1>5. StreamSegment'
  BY DEF StreamSegment, LastPublished
<1>6. ReceiptsMatchLog'
  BY DEF ReceiptsMatchLog, EventsOf
<1> QED
  BY <1>1, <1>2, <1>3, <1>4, <1>5, <1>6

LEMMA PublishEventStep == EngineInvariant /\ PublishEvent => EngineInvariant'
<1> SUFFICES ASSUME EngineInvariant, PublishEvent PROVE EngineInvariant'
  OBVIOUS
<1> USE DEF EngineInvariant, PublishEvent, durableVars
<1>1. /\ Head(committedEvents) \in Event /\ Head(committedEvents) = committedEvents[1]
      /\ Tail(committedEvents) \in Seq(Event)
      /\ Len(committedEvents) \in Nat \ {0}
      /\ Len(Tail(committedEvents)) = Len(committedEvents) - 1
      /\ \A i \in 1..Len(Tail(committedEvents)) :
            Tail(committedEvents)[i] = committedEvents[i + 1]
      /\ Len(published) \in Nat /\ bootSequence \in Nat /\ Len(log) \in Nat
  BY DEF TypeOK
<1>2. TypeOK'
  BY <1>1 DEF TypeOK
<1>3. LastPublished' = LastPublished + 1 /\ LastPublished \in Nat
  BY <1>1 DEF LastPublished, TypeOK
<1>4. CommitPending'
  <2>1. \A i \in 1..Len(committedEvents') : committedEvents'[i] = log'[LastPublished' + i]
    <3> TAKE i \in 1..Len(committedEvents')
    <3>1. i + 1 \in 1..Len(committedEvents) /\ LastPublished + (i + 1) = LastPublished' + i
      BY <1>1, <1>3
    <3> QED
      BY <1>1, <3>1 DEF CommitPending
  <2>2. LastPublished' + Len(committedEvents') = Len(log')
    BY <1>1, <1>3 DEF CommitPending
  <2> QED
    BY <2>1, <2>2 DEF CommitPending, CurrentCommand
<1>5. StreamSegment'
  <2>1. Head(committedEvents) = log[LastPublished + 1] /\ LastPublished + 1 <= Len(log)
    BY <1>1, <1>3 DEF CommitPending
  <2>2. \A i \in 1..Len(published') : published'[i] = log'[bootSequence' + i]
    BY <1>1, <2>1 DEF StreamSegment, LastPublished, TypeOK
  <2> QED
    BY <1>3, <2>1, <2>2 DEF StreamSegment
<1>6. /\ LogNumbered' /\ BootReplays' /\ ModelReplays' /\ EnvelopeDispatched'
      /\ TransactionFolds' /\ RefusalHasNoReceipt' /\ ReceiptsInLog' /\ CallsMatchReceipts'
  BY DEF LogNumbered, BootReplays, ModelReplays, EnvelopeDispatched, TransactionFolds,
         RefusalHasNoReceipt, ReceiptsInLog, CallsMatchReceipts
<1>7. ReceiptsMatchLog'
  BY DEF ReceiptsMatchLog, EventsOf
<1> QED
  BY <1>2, <1>4, <1>5, <1>6, <1>7

-----------------------------------------------------------------------------
(***************************************************************************)
(* Failure.  The store holds nothing beyond dispatchStartSequence, so      *)
(* reconciling folds and publishes nothing.                                *)
(***************************************************************************)
LEMMA ReconcileStep == EngineInvariant /\ Reconcile => EngineInvariant'
<1> SUFFICES ASSUME EngineInvariant, Reconcile PROVE EngineInvariant'
  OBVIOUS
<1> USE DEF EngineInvariant, Reconcile, durableVars, txVars
<1>1. SubSeq(log, dispatchStartSequence + 1, Len(log)) = << >>
  BY DEF EnvelopeDispatched, TypeOK
<1>2. readModel' = Replay(readModel, << >>) /\ published' = published \o << >>
  BY <1>1
<1>3. readModel' = readModel /\ published' = published
  BY <1>2, ReplayEmpty DEF TypeOK
<1>4. TypeOK'
  BY <1>3 DEF TypeOK, Locations
<1>5. EnvelopeDispatched' /\ RefusalHasNoReceipt'
  BY DEF EnvelopeDispatched, RefusalHasNoReceipt, CurrentCommand
<1>6. /\ LogNumbered' /\ BootReplays' /\ ModelReplays' /\ TransactionFolds'
      /\ CommitPending' /\ ReceiptsInLog' /\ CallsMatchReceipts'
  BY <1>3 DEF LogNumbered, BootReplays, ModelReplays, TransactionFolds,
              CommitPending, ReceiptsInLog, CallsMatchReceipts
<1>7. StreamSegment'
  BY <1>3 DEF StreamSegment, LastPublished
<1>8. ReceiptsMatchLog'
  BY DEF ReceiptsMatchLog, EventsOf
<1> QED
  BY <1>4, <1>5, <1>6, <1>7, <1>8

LEMMA RecordRejectionStep == EngineInvariant /\ RecordRejection => EngineInvariant'
<1> SUFFICES ASSUME EngineInvariant, RecordRejection PROVE EngineInvariant'
  OBVIOUS
<1> USE DEF EngineInvariant, RecordRejection, txVars
<1> DEFINE c == CurrentCommand
           receipt == [status |-> "rejected", sequence |-> readModel.snapshotSequence]
<1>1. c \in CommandIds /\ receipts[c].status = "none" /\ receipt \in Receipt
  BY DEF EnvelopeDispatched, CurrentCommand, RefusalHasNoReceipt, TypeOK, ReadModel, Receipt
<1>2. receipts' \in [CommandIds -> Receipt]
  BY <1>1 DEF TypeOK
<1>3. \A d \in CommandIds : \/ receipts'[d] = receipts[d]
                            \/ receipts[d].status = "none" /\ receipts'[d].status = "rejected"
  BY <1>1 DEF TypeOK
<1>4. TypeOK'
  BY <1>2 DEF TypeOK, Locations
<1>5. EnvelopeDispatched'
  BY DEF EnvelopeDispatched
<1>6. ReceiptsInLog'
  BY <1>3 DEF ReceiptsInLog
<1>7. CallsMatchReceipts'
  <2> SUFFICES ASSUME NEW k \in Calls, calls[k].status = "ok"
               PROVE  receipts'[calls[k].command] = receipts[calls[k].command]
    BY DEF CallsMatchReceipts
  <2>1. calls[k].command \in CommandIds
    BY DEF EnvelopeDispatched
  <2>2. receipts[calls[k].command] = [status |-> "accepted", sequence |-> calls[k].sequence]
    BY ONLY CallsMatchReceipts, calls[k].status = "ok", k \in Calls DEF CallsMatchReceipts
  <2> QED
    BY <1>3, <2>1, <2>2
<1>8. ReceiptsMatchLog'
  <2>1. \A d \in CommandIds : EventsOf(d)' = EventsOf(d)
    BY DEF EventsOf
  <2> QED
    BY <1>3, <2>1 DEF ReceiptsMatchLog
<1>9. /\ LogNumbered' /\ BootReplays' /\ ModelReplays' /\ TransactionFolds'
      /\ RefusalHasNoReceipt' /\ CommitPending'
  BY DEF LogNumbered, BootReplays, ModelReplays, TransactionFolds, RefusalHasNoReceipt,
         CommitPending
<1>10. StreamSegment'
  BY DEF StreamSegment, LastPublished
<1> QED
  BY <1>4, <1>5, <1>6, <1>7, <1>8, <1>9, <1>10

LEMMA CrashStep == EngineInvariant /\ Crash => EngineInvariant'
<1> SUFFICES ASSUME EngineInvariant, Crash PROVE EngineInvariant'
  OBVIOUS
<1> USE DEF EngineInvariant, Crash, durableVars
<1>1. \A k \in Calls : /\ calls[k] \in Call
                       /\ [calls[k] EXCEPT !.status = "lost"] \in Call
  BY DEF TypeOK, Call
<1>2. calls' \in [Calls -> Call]
  BY <1>1
<1>3. TypeOK'
  BY <1>2, EmptyReadModelType DEF TypeOK, Locations
<1>4. BootReplays'
  <2>1. SubSeq(log, 1, 0) = << >> /\ 0 <= Len(log)
    BY DEF TypeOK
  <2>2. Replay(EmptyReadModel, << >>) = EmptyReadModel
    BY ReplayEmpty
  <2> QED
    BY <2>1, <2>2, EmptyReadModelType DEF BootReplays
<1>5. EnvelopeDispatched' /\ CallsMatchReceipts'
  BY <1>1 DEF EnvelopeDispatched, CallsMatchReceipts, TypeOK, Call
<1>6. /\ LogNumbered' /\ ModelReplays' /\ TransactionFolds' /\ RefusalHasNoReceipt'
      /\ CommitPending' /\ ReceiptsInLog'
  BY DEF LogNumbered, ModelReplays, TransactionFolds, RefusalHasNoReceipt,
         CommitPending, ReceiptsInLog
<1>7. StreamSegment'
  BY DEF StreamSegment
<1>8. ReceiptsMatchLog'
  BY DEF ReceiptsMatchLog, EventsOf
<1> QED
  BY <1>3, <1>4, <1>5, <1>6, <1>7, <1>8

LEMMA StutterStep == EngineInvariant /\ UNCHANGED vars => EngineInvariant'
BY DEF vars, EngineInvariant, TypeOK, LogNumbered, BootReplays, ModelReplays,
       EnvelopeDispatched, TransactionFolds, SavedEvent, CurrentCommand, RefusalHasNoReceipt,
       CommitPending, LastPublished, StreamSegment, ReceiptsInLog, CallsMatchReceipts,
       ReceiptsMatchLog, EventsOf

-----------------------------------------------------------------------------
LEMMA NextStep == EngineInvariant /\ [Next]_vars => EngineInvariant'
<1> SUFFICES ASSUME EngineInvariant, [Next]_vars PROVE EngineInvariant'
  OBVIOUS
<1>1. CASE BootProject \/ BootDone
  BY <1>1, BootProjectStep, BootDoneStep
<1>2. CASE \E k \in Calls, c \in CommandIds : Dispatch(k, c)
  BY <1>2, DispatchStep
<1>3. CASE Worker
  BY <1>3, TakeEnvelopeStep, AnswerStep, DecideCommandStep, RefuseOrFailStep, AppendEventStep,
     CommitTransactionStep, AdoptReadModelStep, PublishEventStep, ReconcileStep,
     RecordRejectionStep
     DEF Worker
<1>4. CASE Crash
  BY <1>4, CrashStep
<1>5. CASE UNCHANGED vars
  BY <1>5, StutterStep
<1> QED
  BY <1>1, <1>2, <1>3, <1>4, <1>5 DEF Next

(***************************************************************************)
(* The inductive invariant holds in every reachable state.                 *)
(***************************************************************************)
THEOREM EngineInvariantHolds == Spec => []EngineInvariant
<1> QED
  BY InitInvariant, NextStep, PTL DEF Spec

(***************************************************************************)
(* Every variable keeps the shape the code gives it.                       *)
(***************************************************************************)
THEOREM TypeCorrect == Spec => []TypeOK
<1>1. EngineInvariant => TypeOK
  BY DEF EngineInvariant
<1> QED
  BY <1>1, EngineInvariantHolds, PTL

(***************************************************************************)
(* The decider always decides against a replay of the durable log, after   *)
(* any failure, rollback or restart.                                       *)
(***************************************************************************)
THEOREM ReadModelReplaysLog == Spec => []ReadModelIsReplayOfLog
<1>1. EngineInvariant => ReadModelIsReplayOfLog
  BY DEF EngineInvariant, ModelReplays, ReadModelIsReplayOfLog
<1> QED
  BY <1>1, EngineInvariantHolds, PTL

(***************************************************************************)
(* Exactly once: accepted receipts and the log agree on every command,     *)
(* however often it is dispatched, fails or is interrupted.                *)
(***************************************************************************)
THEOREM ExactlyOnce == Spec => []ReceiptsMatchLog
<1>1. EngineInvariant => ReceiptsMatchLog
  BY DEF EngineInvariant
<1> QED
  BY <1>1, EngineInvariantHolds, PTL

(***************************************************************************)
(* The domain-event stream is a gapless segment of the committed log that  *)
(* the read model is never behind.                                         *)
(***************************************************************************)
THEOREM StreamInLogOrder == Spec => []StreamFollowsLog
<1>1. EngineInvariant => StreamFollowsLog
  <2> SUFFICES ASSUME EngineInvariant, pc # "boot"
               PROVE  /\ LastPublished <= Len(log)
                      /\ published = SubSeq(log, bootSequence + 1, LastPublished)
                      /\ LastPublished <= readModel.snapshotSequence
                      /\ pc = "idle" => LastPublished = Len(log)
    BY DEF StreamFollowsLog, LastPublished
  <2> USE DEF EngineInvariant
  <2>1. LastPublished <= Len(log) /\ LastPublished \in Nat
    BY DEF StreamSegment, LastPublished, TypeOK
  <2>2. published = SubSeq(log, bootSequence + 1, LastPublished)
    <3>1. /\ published \in Seq(Event) /\ log \in Seq(Event) /\ bootSequence \in Nat
          /\ LastPublished = bootSequence + Len(published)
      BY DEF TypeOK, LastPublished
    <3>2. \A i \in 1..Len(published) : published[i] = log[bootSequence + i]
      BY DEF StreamSegment
    <3> DEFINE segment == SubSeq(log, bootSequence + 1, LastPublished)
    <3>3. segment \in Seq(Event) /\ Len(segment) = Len(published)
      BY <2>1, <3>1
    <3>4. \A i \in 1..Len(published) : segment[i] = log[bootSequence + i]
      BY <2>1, <3>1
    <3> HIDE DEF segment
    <3>5. published = segment
      BY <3>1, <3>2, <3>3, <3>4, SeqEqual
    <3> QED
      BY <3>5 DEF segment
  <2>3. LastPublished <= readModel.snapshotSequence
    BY <2>1 DEF ModelReplays, CommitPending, TypeOK, ReadModel
  <2>4. pc = "idle" => LastPublished = Len(log)
    BY DEF StreamSegment
  <2> QED
    BY <2>1, <2>2, <2>3, <2>4
<1> QED
  BY <1>1, EngineInvariantHolds, PTL

(***************************************************************************)
(* What a caller was told stays true, across any number of crashes, and a  *)
(* running server shows it.                                                *)
(***************************************************************************)
THEOREM AcknowledgedStaysTrue == Spec => []AcknowledgedIsDurableAndVisible
<1>1. EngineInvariant => AcknowledgedIsDurableAndVisible
  <2> SUFFICES ASSUME EngineInvariant, NEW k \in Calls, calls[k].status = "ok"
               PROVE  /\ receipts[calls[k].command].status = "accepted"
                      /\ receipts[calls[k].command].sequence = calls[k].sequence
                      /\ calls[k].sequence <= Len(log)
                      /\ pc # "boot" => readModel.snapshotSequence >= calls[k].sequence
    BY DEF AcknowledgedIsDurableAndVisible
  <2> USE DEF EngineInvariant
  <2>1. receipts[calls[k].command] = [status |-> "accepted", sequence |-> calls[k].sequence]
    BY DEF CallsMatchReceipts
  <2>2. calls[k].command \in CommandIds /\ calls[k].sequence \in Nat
    BY DEF EnvelopeDispatched, TypeOK, Call
  <2>3. calls[k].sequence <= Len(log)
    BY <2>1, <2>2 DEF ReceiptsInLog
  <2>4. pc \notin {"boot", "adopt"} => readModel.snapshotSequence = Len(log)
    BY DEF ModelReplays
  <2>5. pc = "adopt" => readModel.snapshotSequence >= calls[k].sequence
    BY <2>2 DEF CommitPending, LastPublished, TypeOK
  <2> QED
    BY <2>1, <2>3, <2>4, <2>5, <2>2 DEF TypeOK
<1> QED
  BY <1>1, EngineInvariantHolds, PTL

(***************************************************************************)
(* The log is append-only and a receipt is never rewritten.                *)
(***************************************************************************)
THEOREM HistoryNeverRewritten == Spec => HistoryIsFinal
<1> DEFINE Final == /\ Len(log') >= Len(log)
                    /\ SubSeq(log', 1, Len(log)) = log
                    /\ \A c \in CommandIds :
                          receipts[c].status # "none" => receipts'[c] = receipts[c]
<1>1. EngineInvariant /\ [Next]_vars => [Final]_vars
  <2> SUFFICES ASSUME EngineInvariant, Next PROVE Final
    OBVIOUS
  <2> USE DEF EngineInvariant
  <2>1. log \in Seq(Event) /\ receipts \in [CommandIds -> Receipt]
    BY DEF TypeOK
  <2>2. CASE UNCHANGED log /\ UNCHANGED receipts
    BY <2>1, <2>2
  <2>3. CASE CommitTransaction
    <3>1. committedEvents \in Seq(Event) /\ log' = log \o committedEvents
      BY <2>3 DEF CommitTransaction, TypeOK
    <3>2. Len(log') >= Len(log) /\ SubSeq(log', 1, Len(log)) = log
      BY <2>1, <3>1
    <3>3. receipts[CurrentCommand].status = "none"
      BY <2>3 DEF CommitTransaction, TransactionFolds
    <3> QED
      BY <2>1, <2>3, <3>2, <3>3 DEF CommitTransaction
  <2>4. CASE RecordRejection
    <3>1. receipts[CurrentCommand].status = "none" /\ log' = log
      BY <2>4 DEF RecordRejection, RefusalHasNoReceipt
    <3>2. \A c \in CommandIds : receipts[c].status # "none" => receipts'[c] = receipts[c]
      BY <2>1, <2>4, <3>1 DEF RecordRejection
    <3> QED
      BY <2>1, <3>1, <3>2
  <2>5. CASE Next /\ ~CommitTransaction /\ ~RecordRejection
    <3>1. UNCHANGED log /\ UNCHANGED receipts
      BY <2>5 DEF Next, Worker, BootProject, BootDone, Dispatch, TakeEnvelope,
                  AnswerFromAcceptedReceipt, AnswerFromRejectedReceipt, AnswerCommitted,
                  AnswerFailed, DecideCommand, RefuseCommand, StorageFails, Fail, AppendEvent,
                  AdoptReadModel, PublishEvent, Reconcile, Crash, durableVars
    <3> QED
      BY <2>2, <3>1
  <2> QED
    BY <2>3, <2>4, <2>5
<1> QED
  BY <1>1, EngineInvariantHolds, PTL DEF Spec, HistoryIsFinal

-----------------------------------------------------------------------------
(***************************************************************************)
(* The engine implements the command ledger, for every set of calls and    *)
(* commands, projects and threads.                                         *)
(***************************************************************************)

(***************************************************************************)
(* The ledger's decider and projector are the engine's.                    *)
(***************************************************************************)
LEMMA SameProjector ==
  ASSUME NEW model, NEW e
  PROVE  Ledger!ProjectEvent(model, e) = ProjectEvent(model, e)
BY DEF Ledger!ProjectEvent, ProjectEvent, Ledger!ThreadAfter, ThreadAfter,
       Ledger!ProjectAfter, ProjectAfter, Ledger!NewThread, NewThread,
       Ledger!ProjectCommandTypes, ProjectCommandTypes

LEMMA SameVerdict ==
  ASSUME NEW c
  PROVE  Ledger!PermittedByLog(c) = Permitted(c, Replay(EmptyReadModel, log))
<1>1. \A model, events : Ledger!Replay(model, events) = Replay(model, events)
  BY SameProjector DEF Ledger!Replay, Replay
<1>2. Ledger!EmptyReadModel = EmptyReadModel
  BY DEF Ledger!EmptyReadModel, EmptyReadModel
<1>3. \A model : Ledger!Permitted(c, model) = Permitted(c, model)
  BY DEF Ledger!Permitted, Permitted, Ledger!ThreadExists, ThreadExists,
         Ledger!ProjectExists, ProjectExists
<1> QED
  BY <1>1, <1>2, <1>3 DEF Ledger!PermittedByLog

LEMMA SameDecision ==
  ASSUME NEW c
  PROVE  Ledger!Decision(c) = Decision(c)
BY DEF Ledger!Decision, Decision, Ledger!EventTypeOf, EventTypeOf

-----------------------------------------------------------------------------
(***************************************************************************)
(* A call waits while it is in the queue, once, or in the worker's hand.   *)
(***************************************************************************)
CallsPending ==
  /\ \A k \in Calls : calls[k].status = "waiting" => calls[k].sequence = 0
  /\ \A i \in 1..Len(commandQueue) : calls[commandQueue[i]].status = "waiting"
  /\ \A i, j \in 1..Len(commandQueue) : commandQueue[i] = commandQueue[j] => i = j
  /\ pc \notin {"boot", "idle"} =>
       /\ calls[envelope].status = "waiting"
       /\ \A i \in 1..Len(commandQueue) : commandQueue[i] # envelope

(***************************************************************************)
(* The decider's verdict stands until the log or a receipt says so: nobody *)
(* else writes the log between the decision and its end.                   *)
(***************************************************************************)
PermittedNow(c) == Permitted(c, Replay(EmptyReadModel, log))

VerdictStands ==
  /\ pc = "append" => PermittedNow(CurrentCommand)
  /\ pc = "reject" \/ (pc = "reconcile" /\ failure = "invariant") =>
       ~PermittedNow(CurrentCommand)
  /\ pc = "answer" /\ failure = "invariant" =>
       \/ receipts[CurrentCommand].status = "rejected"
       \/ receipts[CurrentCommand].status = "none" /\ ~PermittedNow(CurrentCommand)

RefinementInvariant == EngineInvariant /\ CallsPending /\ VerdictStands

LEMMA PermittedNowStays ==
  ASSUME NEW c, UNCHANGED log
  PROVE  PermittedNow(c)' = PermittedNow(c)
BY DEF PermittedNow

-----------------------------------------------------------------------------
(***************************************************************************)
(* Steps of the worker that neither the tables nor the callers see.        *)
(***************************************************************************)
Hidden == UNCHANGED <<log, receipts, calls>>

LEMMA HiddenFollows ==
  ASSUME Hidden
  PROVE  [Ledger!LedgerNext]_(Ledger!ledgerVars)
BY DEF Hidden, Ledger!ledgerVars

\* The queue and the envelope stay as well.
LEMMA QueueStays ==
  ASSUME RefinementInvariant, Hidden, UNCHANGED <<commandQueue, envelope>>,
         pc' \notin {"boot", "idle"} => pc \notin {"boot", "idle"}
  PROVE  CallsPending' /\ CurrentCommand' = CurrentCommand
         /\ \A c : PermittedNow(c)' = PermittedNow(c)
<1>1. CallsPending'
  BY DEF RefinementInvariant, CallsPending, Hidden
<1>2. \A c : PermittedNow(c)' = PermittedNow(c)
  BY PermittedNowStays DEF Hidden
<1> QED
  BY <1>1, <1>2 DEF Hidden, CurrentCommand

LEMMA BootHidden ==
  ASSUME RefinementInvariant, BootProject \/ BootDone
  PROVE  Hidden /\ CallsPending' /\ VerdictStands'
<1>1. /\ Hidden /\ UNCHANGED <<commandQueue, envelope>> /\ pc' \in {"boot", "idle"}
  BY DEF BootProject, BootDone, Hidden, durableVars
<1> QED
  BY <1>1, QueueStays DEF VerdictStands

LEMMA TakeEnvelopeHidden ==
  ASSUME RefinementInvariant, TakeEnvelope
  PROVE  Hidden /\ CallsPending' /\ VerdictStands'
<1>1. /\ Hidden /\ pc' = "lookup" /\ commandQueue # << >>
      /\ envelope' = Head(commandQueue) /\ commandQueue' = Tail(commandQueue)
      /\ commandQueue \in Seq(Calls) /\ CallsPending
  BY DEF TakeEnvelope, Hidden, durableVars, RefinementInvariant, EngineInvariant, TypeOK
<1>2. /\ envelope' = commandQueue[1] /\ 1 \in 1..Len(commandQueue)
      /\ Len(commandQueue') = Len(commandQueue) - 1 /\ Len(commandQueue) \in Nat
      /\ \A i \in 1..(Len(commandQueue) - 1) : commandQueue'[i] = commandQueue[i + 1]
  BY <1>1
<1>3. \A i \in 1..Len(commandQueue') :
        /\ i + 1 \in 1..Len(commandQueue) /\ i + 1 # 1
        /\ commandQueue'[i] = commandQueue[i + 1]
  BY <1>2
<1>4. calls' = calls
  BY <1>1 DEF Hidden
<1>5. CallsPending'
  <2>1. \A i \in 1..Len(commandQueue') :
          calls'[commandQueue'[i]].status = "waiting" /\ commandQueue'[i] # envelope'
    BY <1>1, <1>2, <1>3, <1>4 DEF CallsPending
  <2>2. ASSUME NEW i \in 1..Len(commandQueue'), NEW j \in 1..Len(commandQueue'),
               commandQueue'[i] = commandQueue'[j]
        PROVE  i = j
    <3>1. i + 1 = j + 1
      BY <1>1, <1>3, <2>2 DEF CallsPending
    <3> QED
      BY <1>2, <3>1
  <2>3. calls'[envelope'].status = "waiting"
    BY <1>1, <1>2, <1>4 DEF CallsPending
  <2>4. \A k \in Calls : calls'[k].status = "waiting" => calls'[k].sequence = 0
    BY <1>1, <1>4 DEF CallsPending
  <2> QED
    BY <2>1, <2>2, <2>3, <2>4 DEF CallsPending
<1> QED
  BY <1>1, <1>5 DEF VerdictStands

LEMMA DecideHidden ==
  ASSUME RefinementInvariant, DecideCommand \/ RefuseCommand \/ StorageFails
  PROVE  Hidden /\ CallsPending' /\ VerdictStands'
<1>1. /\ Hidden /\ UNCHANGED <<commandQueue, envelope>> /\ pc \in {"lookup", "append"}
  BY DEF DecideCommand, RefuseCommand, StorageFails, Fail, Hidden, durableVars
<1>2. CallsPending' /\ CurrentCommand' = CurrentCommand
      /\ \A c : PermittedNow(c)' = PermittedNow(c)
  BY <1>1, QueueStays
<1>3. pc = "lookup" => readModel = Replay(EmptyReadModel, log)
  BY DEF RefinementInvariant, EngineInvariant, ModelReplays
<1>4. CASE DecideCommand
  <2>1. PermittedNow(CurrentCommand) /\ pc' = "append"
    BY <1>3, <1>4 DEF DecideCommand, PermittedNow
  <2> QED
    BY <1>1, <1>2, <2>1 DEF VerdictStands
<1>5. CASE RefuseCommand
  <2>1. ~PermittedNow(CurrentCommand) /\ pc' = "reconcile"
    BY <1>3, <1>5 DEF RefuseCommand, Fail, PermittedNow
  <2> QED
    BY <1>1, <1>2, <2>1 DEF VerdictStands
<1>6. CASE StorageFails
  <2>1. failure' = "storage" /\ pc' = "reconcile"
    BY <1>6 DEF StorageFails, Fail
  <2> QED
    BY <1>1, <1>2, <2>1 DEF VerdictStands
<1> QED
  BY <1>4, <1>5, <1>6

LEMMA WorkHidden ==
  ASSUME RefinementInvariant, AppendEvent \/ AdoptReadModel \/ PublishEvent \/ Reconcile
  PROVE  Hidden /\ CallsPending' /\ VerdictStands'
<1>1. /\ Hidden /\ UNCHANGED <<commandQueue, envelope, failure>> /\ pc \notin {"boot", "idle"}
      /\ \/ pc = "append" /\ pc' = "append"
         \/ pc' = "publish"
         \/ pc = "reconcile" /\ pc' = IF failure = "invariant" THEN "reject" ELSE "answer"
  BY DEF AppendEvent, AdoptReadModel, PublishEvent, Reconcile, Hidden, durableVars, txVars
<1>2. CallsPending' /\ CurrentCommand' = CurrentCommand
      /\ \A c : PermittedNow(c)' = PermittedNow(c)
  BY <1>1, QueueStays
<1> QED
  BY <1>1, <1>2 DEF VerdictStands, RefinementInvariant

-----------------------------------------------------------------------------
(***************************************************************************)
(* Steps the ledger sees.                                                  *)
(***************************************************************************)
LEMMA CurrentIsAwaited ==
  ASSUME RefinementInvariant, pc \notin {"boot", "idle"}
  PROVE  /\ envelope \in Calls /\ calls[envelope].status = "waiting"
         /\ calls[envelope].sequence = 0 /\ CurrentCommand \in CommandIds
         /\ Ledger!Awaited(CurrentCommand)
BY DEF RefinementInvariant, EngineInvariant, EnvelopeDispatched, CallsPending,
       CurrentCommand, Ledger!Awaited

LEMMA DispatchFollows ==
  ASSUME RefinementInvariant, NEW k \in Calls, NEW c \in CommandIds, Dispatch(k, c)
  PROVE  Ledger!Ask(k, c) /\ CallsPending' /\ VerdictStands'
<1>1. /\ calls \in [Calls -> Call] /\ calls[k].status = "unused"
      /\ calls' = [calls EXCEPT ![k] = [status |-> "waiting", command |-> c, sequence |-> 0]]
      /\ commandQueue \in Seq(Calls) /\ commandQueue' = Append(commandQueue, k)
      /\ UNCHANGED <<log, receipts, pc, envelope, failure>> /\ CallsPending
  BY DEF Dispatch, durableVars, RefinementInvariant, EngineInvariant, TypeOK
<1>2. Ledger!Ask(k, c)
  BY <1>1 DEF Ledger!Ask
<1>3. \A i \in 1..Len(commandQueue) : commandQueue[i] # k /\ commandQueue[i] \in Calls
  BY <1>1 DEF CallsPending
<1>4. /\ Len(commandQueue) \in Nat /\ Len(commandQueue') = Len(commandQueue) + 1
      /\ \A i \in 1..Len(commandQueue) : commandQueue'[i] = commandQueue[i]
      /\ commandQueue'[Len(commandQueue) + 1] = k
  BY <1>1
<1>5. /\ \A j \in Calls : j # k => calls'[j] = calls[j]
      /\ calls'[k] = [status |-> "waiting", command |-> c, sequence |-> 0]
  BY <1>1
<1>6. pc \notin {"boot", "idle"} => envelope \in Calls /\ envelope # k
  BY <1>1, CurrentIsAwaited
<1>7. CallsPending'
  <2>1. \A j \in Calls : calls'[j].status = "waiting" => calls'[j].sequence = 0
    BY <1>1, <1>5 DEF CallsPending
  <2>2. \A i \in 1..Len(commandQueue') :
          i \in 1..Len(commandQueue) \/ i = Len(commandQueue) + 1
    BY <1>4
  <2>3. \A i \in 1..Len(commandQueue') : calls'[commandQueue'[i]].status = "waiting"
    BY <1>1, <1>3, <1>4, <1>5, <2>2 DEF CallsPending
  <2>4. \A i, j \in 1..Len(commandQueue') : commandQueue'[i] = commandQueue'[j] => i = j
    BY <1>1, <1>3, <1>4, <2>2 DEF CallsPending
  <2>5. pc' \notin {"boot", "idle"} =>
          /\ calls'[envelope'].status = "waiting"
          /\ \A i \in 1..Len(commandQueue') : commandQueue'[i] # envelope'
    BY <1>1, <1>4, <1>5, <1>6, <2>2 DEF CallsPending
  <2> QED
    BY <2>1, <2>3, <2>4, <2>5 DEF CallsPending
<1>8. VerdictStands'
  <2>1. pc \notin {"boot", "idle"} => CurrentCommand' = CurrentCommand
    BY <1>1, <1>5, <1>6 DEF CurrentCommand
  <2> QED
    BY <1>1, <2>1, PermittedNowStays DEF VerdictStands, RefinementInvariant
<1> QED
  BY <1>2, <1>7, <1>8

\* The commit is the ledger's Accept: the batch is what the decider decided.
LEMMA CommitFollows ==
  ASSUME RefinementInvariant, CommitTransaction
  PROVE  Ledger!Accept(CurrentCommand) /\ CallsPending' /\ VerdictStands'
<1> DEFINE c == CurrentCommand
           n == Len(committedEvents)
<1>1. /\ pc = "append" /\ pc' = "adopt" /\ n = Len(Decision(c))
      /\ log' = log \o committedEvents
      /\ receipts' = [receipts EXCEPT ![c] =
                        [status |-> "accepted", sequence |-> Len(log) + n]]
      /\ UNCHANGED <<calls, commandQueue, envelope>>
  BY DEF CommitTransaction
<1>2. /\ committedEvents \in Seq(Event) /\ receipts[c].status = "none" /\ PermittedNow(c)
      /\ \A i \in 1..n : committedEvents[i] = SavedEvent(i)
  BY <1>1 DEF RefinementInvariant, EngineInvariant, TypeOK, TransactionFolds, VerdictStands
<1>3. Ledger!Awaited(c)
  BY <1>1, CurrentIsAwaited
<1>4. committedEvents = Batch(c, Len(log))
  <2>1. committedEvents = [i \in 1..n |-> committedEvents[i]]
    BY <1>2
  <2>2. \A i \in 1..n : committedEvents[i] =
          [sequence |-> Len(log) + i, commandId |-> c, type |-> Decision(c)[i]]
    BY <1>2 DEF SavedEvent
  <2> HIDE DEF n, c
  <2>3. [i \in 1..n |-> committedEvents[i]] =
        [i \in 1..n |-> [sequence |-> Len(log) + i, commandId |-> c, type |-> Decision(c)[i]]]
    BY <2>2
  <2> QED
    BY <1>1, <2>1, <2>3 DEF Batch
<1>5. Ledger!Batch(c, Len(log)) = Batch(c, Len(log)) /\ Ledger!Decision(c) = Decision(c)
  BY SameDecision DEF Ledger!Batch, Batch
<1>6. Ledger!PermittedByLog(c)
  BY <1>2, SameVerdict DEF PermittedNow
<1> HIDE DEF c, n
<1>7. Ledger!Accept(c)
  BY <1>1, <1>2, <1>3, <1>4, <1>5, <1>6 DEF Ledger!Accept
<1>8. CallsPending' /\ VerdictStands'
  BY <1>1 DEF RefinementInvariant, CallsPending, VerdictStands
<1> QED
  BY <1>7, <1>8 DEF c

LEMMA RecordRejectionFollows ==
  ASSUME RefinementInvariant, RecordRejection
  PROVE  /\ Ledger!Reject(CurrentCommand) \/ Hidden
         /\ CallsPending' /\ VerdictStands'
<1> DEFINE c == CurrentCommand
<1>1. /\ pc = "reject" /\ pc' = "answer" /\ UNCHANGED <<log, calls, commandQueue, envelope>>
      /\ \/ receipts' = receipts
         \/ receipts' = [receipts EXCEPT ![c] =
                           [status |-> "rejected", sequence |-> readModel.snapshotSequence]]
  BY DEF RecordRejection
<1>2. /\ ~PermittedNow(c) /\ receipts[c].status = "none" /\ receipts \in [CommandIds -> Receipt]
      /\ readModel.snapshotSequence = Len(log)
  BY <1>1 DEF RefinementInvariant, EngineInvariant, VerdictStands, RefusalHasNoReceipt,
              ModelReplays, TypeOK
<1>3. Ledger!Awaited(c) /\ c \in CommandIds
  BY <1>1, CurrentIsAwaited
<1>4. ~Ledger!PermittedByLog(c)
  BY <1>2, SameVerdict DEF PermittedNow
<1>5. CurrentCommand' = c /\ \A d : PermittedNow(d)' = PermittedNow(d)
  BY <1>1, PermittedNowStays DEF CurrentCommand
<1> HIDE DEF c
<1>6. Ledger!Reject(c) \/ Hidden
  BY <1>1, <1>2, <1>3, <1>4 DEF Ledger!Reject, Hidden
<1>7. receipts'[c].status \in {"none", "rejected"}
  BY <1>1, <1>2, <1>3
<1>8. VerdictStands'
  BY <1>1, <1>2, <1>5, <1>7 DEF VerdictStands
<1>9. CallsPending'
  BY <1>1 DEF RefinementInvariant, CallsPending
<1> QED
  BY <1>6, <1>8, <1>9 DEF c

\* A completed call leaves the worker's hand; the others wait on.
LEMMA CompleteKeeps ==
  ASSUME RefinementInvariant, NEW status, NEW sequence, Complete(status, sequence),
         status # "waiting", pc \notin {"boot", "idle"},
         UNCHANGED <<durableVars, commandQueue>>
  PROVE  CallsPending' /\ VerdictStands'
<1>1. /\ pc' = "idle" /\ calls \in [Calls -> Call] /\ commandQueue \in Seq(Calls) /\ CallsPending
      /\ calls' = [calls EXCEPT ![envelope].status = status, ![envelope].sequence = sequence]
  BY DEF Complete, RefinementInvariant, EngineInvariant, TypeOK
<1>2. envelope \in Calls
  BY CurrentIsAwaited
<1>3. \A k \in Calls : k # envelope => calls'[k] = calls[k]
  BY <1>1, <1>2
<1>4. calls'[envelope].status # "waiting"
  BY <1>1, <1>2 DEF Call
<1>5. \A i \in 1..Len(commandQueue) : commandQueue[i] \in Calls /\ commandQueue[i] # envelope
  BY <1>1 DEF CallsPending
<1>6. CallsPending'
  BY <1>1, <1>3, <1>4, <1>5 DEF CallsPending
<1> QED
  BY <1>1, <1>6 DEF VerdictStands

\* Every answer is one the ledger allows.
LEMMA AnswerFollows ==
  ASSUME RefinementInvariant,
         \/ AnswerFromAcceptedReceipt \/ AnswerFromRejectedReceipt
         \/ AnswerCommitted \/ AnswerFailed
  PROVE  Ledger!Tell(envelope) /\ CallsPending' /\ VerdictStands'
<1> DEFINE c == CurrentCommand
<1>1. /\ pc \in {"lookup", "publish", "answer"}
      /\ UNCHANGED <<log, receipts, commandQueue>> /\ UNCHANGED durableVars
  BY DEF AnswerFromAcceptedReceipt, AnswerFromRejectedReceipt, AnswerCommitted, AnswerFailed,
         durableVars
<1>2. /\ calls[envelope].status = "waiting" /\ calls[envelope].sequence = 0
      /\ c = calls[envelope].command /\ envelope \in Calls /\ calls \in [Calls -> Call]
  BY <1>1, CurrentIsAwaited DEF CurrentCommand, RefinementInvariant, EngineInvariant, TypeOK
<1>3. \/ Complete("ok", receipts[c].sequence) /\ receipts[c].status = "accepted"
      \/ Complete("rejected", 0) /\ \/ receipts[c].status = "rejected"
                                    \/ receipts[c].status = "none" /\ ~PermittedNow(c)
      \/ Complete("failed", 0)
  <2>1. CASE AnswerFromAcceptedReceipt
    BY <2>1 DEF AnswerFromAcceptedReceipt
  <2>2. CASE AnswerFromRejectedReceipt
    BY <2>2 DEF AnswerFromRejectedReceipt
  <2>3. CASE AnswerCommitted
    BY <2>3 DEF AnswerCommitted, RefinementInvariant, EngineInvariant, CommitPending
  <2>4. CASE AnswerFailed
    BY <2>4 DEF AnswerFailed, RefinementInvariant, VerdictStands
  <2> QED
    BY <2>1, <2>2, <2>3, <2>4
<1>4. Ledger!PermittedByLog(c) = PermittedNow(c)
  BY SameVerdict DEF PermittedNow
<1> HIDE DEF c
<1>5. CASE Complete("ok", receipts[c].sequence) /\ receipts[c].status = "accepted"
  <2>1. calls' = [calls EXCEPT ![envelope].status = "ok",
                              ![envelope].sequence = receipts[c].sequence]
    BY <1>5 DEF Complete
  <2>2. Ledger!Tell(envelope)
    BY <1>1, <1>2, <1>5, <2>1 DEF Ledger!Tell
  <2> QED
    BY <1>1, <1>5, <2>2, CompleteKeeps
<1>6. CASE Complete("rejected", 0) /\ \/ receipts[c].status = "rejected"
                                      \/ receipts[c].status = "none" /\ ~PermittedNow(c)
  <2>1. calls' = [calls EXCEPT ![envelope].status = "rejected"]
    BY <1>2, <1>6 DEF Complete, Call
  <2>2. Ledger!Tell(envelope)
    BY <1>1, <1>2, <1>4, <1>6, <2>1 DEF Ledger!Tell
  <2> QED
    BY <1>1, <1>6, <2>2, CompleteKeeps
<1>7. CASE Complete("failed", 0)
  <2>1. calls' = [calls EXCEPT ![envelope].status = "failed"]
    BY <1>2, <1>7 DEF Complete, Call
  <2>2. Ledger!Tell(envelope)
    BY <1>1, <1>2, <2>1 DEF Ledger!Tell
  <2> QED
    BY <1>1, <1>7, <2>2, CompleteKeeps
<1> QED
  BY <1>3, <1>5, <1>6, <1>7

LEMMA CrashFollows ==
  ASSUME RefinementInvariant, Crash
  PROVE  Ledger!LoseCalls /\ CallsPending' /\ VerdictStands'
<1>1. /\ pc' = "boot" /\ commandQueue' = << >> /\ UNCHANGED <<log, receipts>>
      /\ calls' = [k \in Calls |-> IF calls[k].status = "waiting"
                                   THEN [calls[k] EXCEPT !.status = "lost"] ELSE calls[k]]
      /\ calls \in [Calls -> Call]
  BY DEF Crash, durableVars, RefinementInvariant, EngineInvariant, TypeOK
<1>2. Ledger!LoseCalls
  BY <1>1 DEF Ledger!LoseCalls
<1>3. \A k \in Calls : calls'[k].status # "waiting"
  BY <1>1 DEF Call
<1> QED
  BY <1>1, <1>2, <1>3 DEF CallsPending, VerdictStands

-----------------------------------------------------------------------------
(***************************************************************************)
(* The theorem.                                                            *)
(***************************************************************************)
LEMMA InitRefines == Init => RefinementInvariant /\ Ledger!LedgerInit
<1> SUFFICES ASSUME Init PROVE RefinementInvariant /\ Ledger!LedgerInit
  OBVIOUS
<1>1. EngineInvariant
  BY InitInvariant
<1>2. CallsPending /\ VerdictStands
  BY DEF Init, CallsPending, VerdictStands
<1>3. Ledger!LedgerInit
  BY DEF Init, Ledger!LedgerInit, Ledger!NoReceipt
<1> QED
  BY <1>1, <1>2, <1>3 DEF RefinementInvariant

LEMMA NextRefines ==
  RefinementInvariant /\ [Next]_vars =>
    RefinementInvariant' /\ [Ledger!LedgerNext]_(Ledger!ledgerVars)
<1> SUFFICES ASSUME RefinementInvariant, [Next]_vars
             PROVE  RefinementInvariant' /\ [Ledger!LedgerNext]_(Ledger!ledgerVars)
  OBVIOUS
<1>1. EngineInvariant'
  BY NextStep DEF RefinementInvariant
<1>2. CASE BootProject \/ BootDone
  BY <1>1, <1>2, BootHidden, HiddenFollows DEF RefinementInvariant
<1>3. CASE \E k \in Calls, c \in CommandIds : Dispatch(k, c)
  BY <1>1, <1>3, DispatchFollows DEF RefinementInvariant, Ledger!LedgerNext
<1>4. CASE TakeEnvelope
  BY <1>1, <1>4, TakeEnvelopeHidden, HiddenFollows DEF RefinementInvariant
<1>5. CASE DecideCommand \/ RefuseCommand \/ StorageFails
  BY <1>1, <1>5, DecideHidden, HiddenFollows DEF RefinementInvariant
<1>6. CASE AppendEvent \/ AdoptReadModel \/ PublishEvent \/ Reconcile
  BY <1>1, <1>6, WorkHidden, HiddenFollows DEF RefinementInvariant
<1>7. CASE CommitTransaction
  <2>1. CurrentCommand \in CommandIds
    BY <1>7, CurrentIsAwaited DEF CommitTransaction
  <2> QED
    BY <1>1, <1>7, <2>1, CommitFollows DEF RefinementInvariant, Ledger!LedgerNext
<1>8. CASE RecordRejection
  <2>1. CurrentCommand \in CommandIds
    BY <1>8, CurrentIsAwaited DEF RecordRejection
  <2>2. CASE Hidden
    BY <1>1, <1>8, <2>2, RecordRejectionFollows, HiddenFollows DEF RefinementInvariant
  <2>3. CASE Ledger!Reject(CurrentCommand)
    BY <1>1, <1>8, <2>1, <2>3, RecordRejectionFollows DEF RefinementInvariant, Ledger!LedgerNext
  <2> QED
    BY <1>8, <2>2, <2>3, RecordRejectionFollows
<1>9. CASE \/ AnswerFromAcceptedReceipt \/ AnswerFromRejectedReceipt
           \/ AnswerCommitted \/ AnswerFailed
  <2>1. envelope \in Calls
    BY <1>9, CurrentIsAwaited
       DEF AnswerFromAcceptedReceipt, AnswerFromRejectedReceipt, AnswerCommitted, AnswerFailed
  <2> QED
    BY <1>1, <1>9, <2>1, AnswerFollows DEF RefinementInvariant, Ledger!LedgerNext
<1>10. CASE Crash
  BY <1>1, <1>10, CrashFollows DEF RefinementInvariant, Ledger!LedgerNext
<1>11. CASE UNCHANGED vars
  <2>1. Hidden /\ UNCHANGED <<commandQueue, envelope, pc, failure>>
    BY <1>11 DEF vars, Hidden
  <2>2. CallsPending' /\ VerdictStands'
    BY <2>1, QueueStays DEF RefinementInvariant, VerdictStands, Hidden
  <2> QED
    BY <1>1, <2>1, <2>2, HiddenFollows DEF RefinementInvariant
<1> QED
  BY <1>2, <1>3, <1>4, <1>5, <1>6, <1>7, <1>8, <1>9, <1>10, <1>11 DEF Next, Worker

(***************************************************************************)
(* The engine implements the ledger: whatever fails, crashes or is sent    *)
(* again, a command takes effect in one step and at most once, decided     *)
(* against what the durable log says at that step, and a caller hears only *)
(* what the ledger holds.                                                  *)
(***************************************************************************)
THEOREM EngineImplementsLedger == Spec => ImplementsLedger
<1> QED
  BY InitRefines, NextRefines, PTL DEF Spec, ImplementsLedger, Ledger!LedgerSpec
=============================================================================
