------------------------- MODULE OrchestrationEngine -------------------------
(***************************************************************************)
(* The engine behind every command of the server: an unbounded queue of    *)
(* envelopes, one worker fiber that takes them one at a time, a SQLite     *)
(* transaction per command, an in-memory read model that the decider reads *)
(* and a PubSub of the events of this process.                             *)
(*                                                                         *)
(* Durable state (log, receipts) survives a crash.  Everything else is the *)
(* process: a crash drops the queue, the transaction that is open, the     *)
(* read model, the published stream and every caller that still waits.     *)
(***************************************************************************)
EXTENDS Orchestration

CONSTANTS
    Calls,          \* calls of dispatch, each used once
    NoCommand,      \* the command of a call that was not made yet
    NoCall          \* "the worker holds no envelope"

ASSUME NoCommandAssumption == NoCommand \notin CommandIds
ASSUME NoCallAssumption == NoCall \notin Calls

VARIABLES
    log,            \* table orchestration_events, in sequence order
    receipts,       \* table orchestration_command_receipts
    calls,          \* one result Deferred per call of dispatch
    commandQueue,   \* envelopes not taken yet, as the calls they answer
    readModel,      \* the read model getReadModel returns and the decider reads
    published,      \* events handed to the PubSub since this process booted
    bootSequence,   \* snapshotSequence when this process finished booting
    pc,             \* where the worker stands
    envelope,       \* the call whose command is being processed
    dispatchStartSequence,
    committedEvents,\* events appended by the open transaction, then published
    nextReadModel,  \* the read model with those events folded in
    failure         \* why the command fails

durableVars == <<log, receipts>>
txVars == <<committedEvents, nextReadModel>>
vars == <<log, receipts, calls, commandQueue, readModel, published, bootSequence, pc,
          envelope, dispatchStartSequence, committedEvents, nextReadModel, failure>>

(***************************************************************************)
(* The abstract ledger, over the variables of the same names.              *)
(***************************************************************************)
Ledger == INSTANCE CommandLedger
            WITH log <- log, receipts <- receipts, calls <- calls

Receipt == [status : {"none", "accepted", "rejected"}, sequence : Nat]
Call == [status : {"unused", "waiting", "ok", "rejected", "failed", "lost"},
         command : CommandIds \cup {NoCommand}, sequence : Nat]

Locations == {"boot", "idle", "lookup", "append", "adopt", "publish",
              "reconcile", "reject", "answer"}

\* Everything the decider and the projector read has the shape the code gives it.
TypeOK ==
    /\ log \in Seq(Event)
    /\ receipts \in [CommandIds -> Receipt]
    /\ calls \in [Calls -> Call]
    /\ commandQueue \in Seq(Calls)
    /\ readModel \in ReadModel
    /\ published \in Seq(Event)
    /\ bootSequence \in Nat
    /\ pc \in Locations
    /\ envelope \in Calls \cup {NoCall}
    /\ dispatchStartSequence \in Nat
    /\ committedEvents \in Seq(Event)
    /\ nextReadModel \in ReadModel
    /\ failure \in {"none", "invariant", "storage"}

Init ==
    /\ log = << >>
    /\ receipts = [c \in CommandIds |-> [status |-> "none", sequence |-> 0]]
    /\ calls = [k \in Calls |->
                  [status |-> "unused", command |-> NoCommand, sequence |-> 0]]
    /\ commandQueue = << >>
    /\ readModel = EmptyReadModel
    /\ published = << >>
    /\ bootSequence = 0
    /\ pc = "boot"
    /\ envelope = NoCall
    /\ dispatchStartSequence = 0
    /\ committedEvents = << >>
    /\ nextReadModel = EmptyReadModel
    /\ failure = "none"

-----------------------------------------------------------------------------
(***************************************************************************)
(* Boot: the read model is folded from readAll(), one event at a time; the *)
(* service exists, and the worker runs, only once the stream has ended.    *)
(***************************************************************************)
BootProject ==
    /\ pc = "boot"
    /\ readModel.snapshotSequence < Len(log)
    /\ readModel' = ProjectEvent(readModel, log[readModel.snapshotSequence + 1])
    /\ UNCHANGED <<durableVars, calls, commandQueue, published, bootSequence, pc, envelope,
                   dispatchStartSequence, txVars, failure>>

BootDone ==
    /\ pc = "boot"
    /\ readModel.snapshotSequence = Len(log)
    /\ pc' = "idle"
    /\ bootSequence' = readModel.snapshotSequence
    /\ UNCHANGED <<durableVars, calls, commandQueue, readModel, published, envelope,
                   dispatchStartSequence, txVars, failure>>

(***************************************************************************)
(* dispatch: a fresh Deferred, an offer to the queue, and the caller waits.*)
(* Any caller may dispatch a command id again, at any time.                *)
(***************************************************************************)
Dispatch(k, c) ==
    /\ pc # "boot"
    /\ calls[k].status = "unused"
    /\ calls' = [calls EXCEPT ![k] = [status |-> "waiting", command |-> c, sequence |-> 0]]
    /\ commandQueue' = Append(commandQueue, k)
    /\ UNCHANGED <<durableVars, readModel, published, bootSequence, pc, envelope,
                   dispatchStartSequence, txVars, failure>>

TakeEnvelope ==
    /\ pc = "idle"
    /\ commandQueue # << >>
    /\ envelope' = Head(commandQueue)
    /\ commandQueue' = Tail(commandQueue)
    /\ dispatchStartSequence' = readModel.snapshotSequence
    /\ pc' = "lookup"
    /\ UNCHANGED <<durableVars, calls, readModel, published, bootSequence, txVars, failure>>

CurrentCommand == calls[envelope].command

(***************************************************************************)
(* The worker completes the Deferred it holds and loops; its locals go out *)
(* of scope.                                                               *)
(***************************************************************************)
Complete(status, sequence) ==
    /\ calls' = [calls EXCEPT ![envelope].status = status, ![envelope].sequence = sequence]
    /\ envelope' = NoCall
    /\ dispatchStartSequence' = 0
    /\ committedEvents' = << >>
    /\ nextReadModel' = EmptyReadModel
    /\ failure' = "none"
    /\ pc' = "idle"

\* Mutant: the answer is the current sequence instead of the stored one.
AnswerWithCurrentSequence ==
    /\ pc = "lookup"
    /\ receipts[CurrentCommand].status = "accepted"
    /\ Complete("ok", readModel.snapshotSequence)
    /\ UNCHANGED <<durableVars, commandQueue, readModel, published, bootSequence>>

\* getByCommandId finds an accepted receipt: the stored sequence is the answer.
AnswerFromAcceptedReceipt ==
    /\ pc = "lookup"
    /\ receipts[CurrentCommand].status = "accepted"
    /\ Complete("ok", receipts[CurrentCommand].sequence)
    /\ UNCHANGED <<durableVars, commandQueue, readModel, published, bootSequence>>

AnswerFromRejectedReceipt ==
    /\ pc = "lookup"
    /\ receipts[CurrentCommand].status = "rejected"
    /\ Complete("rejected", 0)
    /\ UNCHANGED <<durableVars, commandQueue, readModel, published, bootSequence>>

\* Mutant: the decider's verdict is ignored.
DecideUnchecked ==
    /\ pc = "lookup"
    /\ receipts[CurrentCommand].status = "none"
    /\ nextReadModel' = readModel
    /\ pc' = "append"
    /\ UNCHANGED <<durableVars, calls, commandQueue, readModel, published, bootSequence,
                   envelope, dispatchStartSequence, committedEvents, failure>>

(***************************************************************************)
(* No receipt, and the decider accepts the command against the in-memory   *)
(* read model: the transaction begins.                                     *)
(***************************************************************************)
DecideCommand ==
    /\ pc = "lookup"
    /\ receipts[CurrentCommand].status = "none"
    /\ Permitted(CurrentCommand, readModel)
    /\ nextReadModel' = readModel
    /\ pc' = "append"
    /\ UNCHANGED <<durableVars, calls, commandQueue, readModel, published, bootSequence,
                   envelope, dispatchStartSequence, committedEvents, failure>>

Fail(kind) ==
    /\ failure' = kind
    /\ pc' = "reconcile"
    /\ committedEvents' = << >>
    /\ nextReadModel' = EmptyReadModel
    /\ UNCHANGED <<durableVars, calls, commandQueue, readModel, published, bootSequence,
                   envelope, dispatchStartSequence>>

\* The decider fails with OrchestrationCommandInvariantError.
RefuseCommand ==
    /\ pc = "lookup"
    /\ receipts[CurrentCommand].status = "none"
    /\ ~Permitted(CurrentCommand, readModel)
    /\ Fail("invariant")

SavedEvent(n) == [sequence |-> Len(log) + n, commandId |-> CurrentCommand,
                  type |-> Decision(CurrentCommand)[n]]

\* Mutant: the loop folds into the shared read model, inside the transaction.
AppendIntoReadModel ==
    LET n == Len(committedEvents)
        saved == SavedEvent(n + 1)
    IN  /\ pc = "append"
        /\ n < Len(Decision(CurrentCommand))
        /\ committedEvents' = Append(committedEvents, saved)
        /\ nextReadModel' = ProjectEvent(nextReadModel, saved)
        /\ readModel' = nextReadModel'
        /\ UNCHANGED <<durableVars, calls, commandQueue, published, bootSequence,
                       pc, envelope, dispatchStartSequence, failure>>

(***************************************************************************)
(* One turn of the loop over the decided events: insert the row, fold it   *)
(* into nextReadModel, run the SQL projectors.                             *)
(***************************************************************************)
AppendEvent ==
    LET n == Len(committedEvents)
        saved == SavedEvent(n + 1)
    IN  /\ pc = "append"
        /\ n < Len(Decision(CurrentCommand))
        /\ committedEvents' = Append(committedEvents, saved)
        /\ nextReadModel' = ProjectEvent(nextReadModel, saved)
        /\ UNCHANGED <<durableVars, calls, commandQueue, readModel, published, bootSequence,
                       pc, envelope, dispatchStartSequence, failure>>

\* Mutant: the accepted receipt does not take part in the transaction.
CommitWithoutReceipt ==
    /\ pc = "append"
    /\ Len(committedEvents) = Len(Decision(CurrentCommand))
    /\ log' = log \o committedEvents
    /\ pc' = "adopt"
    /\ UNCHANGED <<receipts, calls, commandQueue, readModel, published, bootSequence,
                   envelope, dispatchStartSequence, txVars, failure>>

(***************************************************************************)
(* The accepted receipt is written and the transaction commits: events and *)
(* receipt become durable together.                                        *)
(***************************************************************************)
CommitTransaction ==
    /\ pc = "append"
    /\ Len(committedEvents) = Len(Decision(CurrentCommand))
    /\ log' = log \o committedEvents
    /\ receipts' = [receipts EXCEPT ![CurrentCommand] =
                      [status |-> "accepted", sequence |-> Len(log) + Len(committedEvents)]]
    /\ pc' = "adopt"
    /\ UNCHANGED <<calls, commandQueue, readModel, published, bootSequence, envelope,
                   dispatchStartSequence, txVars, failure>>

(***************************************************************************)
(* The receipt lookup, an append, a projector or the receipt write fails   *)
(* with a typed error: whatever the transaction wrote is rolled back.      *)
(***************************************************************************)
StorageFails ==
    /\ pc \in {"lookup", "append"}
    /\ Fail("storage")

AdoptReadModel ==
    /\ pc = "adopt"
    /\ readModel' = nextReadModel
    /\ pc' = "publish"
    /\ UNCHANGED <<durableVars, calls, commandQueue, published, bootSequence, envelope,
                   dispatchStartSequence, txVars, failure>>

\* Mutant: the events are published last first.
PublishBackwards ==
    /\ pc = "publish"
    /\ committedEvents # << >>
    /\ published' = Append(published, committedEvents[Len(committedEvents)])
    /\ committedEvents' = SubSeq(committedEvents, 1, Len(committedEvents) - 1)
    /\ UNCHANGED <<durableVars, calls, commandQueue, readModel, bootSequence, pc, envelope,
                   dispatchStartSequence, nextReadModel, failure>>

\* The loop over committedEvents: one PubSub.publish per event, in order.
PublishEvent ==
    /\ pc = "publish"
    /\ committedEvents # << >>
    /\ published' = Append(published, Head(committedEvents))
    /\ committedEvents' = Tail(committedEvents)
    /\ UNCHANGED <<durableVars, calls, commandQueue, readModel, bootSequence, pc, envelope,
                   dispatchStartSequence, nextReadModel, failure>>

AnswerCommitted ==
    /\ pc = "publish"
    /\ committedEvents = << >>
    /\ Complete("ok", nextReadModel.snapshotSequence)
    /\ UNCHANGED <<durableVars, commandQueue, readModel, published, bootSequence>>

(***************************************************************************)
(* reconcileReadModelAfterDispatchFailure: whatever the store holds beyond *)
(* dispatchStartSequence is folded in and published.  A failing read is    *)
(* logged and skipped.  (The page limit of readFromSequence, 1000, is far  *)
(* above the two events one dispatch can leave behind.)                    *)
(***************************************************************************)
Reconcile ==
    /\ pc = "reconcile"
    /\ \E persisted \in {SubSeq(log, dispatchStartSequence + 1, Len(log)), << >>} :
         /\ readModel' = Replay(readModel, persisted)
         /\ published' = published \o persisted
    /\ pc' = IF failure = "invariant" THEN "reject" ELSE "answer"
    /\ UNCHANGED <<durableVars, calls, commandQueue, bootSequence, envelope,
                   dispatchStartSequence, txVars, failure>>

\* The rejected receipt; Effect.catch(() => Effect.void) hides a failing write.
RecordRejection ==
    /\ pc = "reject"
    /\ receipts' \in {receipts,
                      [receipts EXCEPT ![CurrentCommand] =
                         [status |-> "rejected", sequence |-> readModel.snapshotSequence]]}
    /\ pc' = "answer"
    /\ UNCHANGED <<log, calls, commandQueue, readModel, published, bootSequence, envelope,
                   dispatchStartSequence, txVars, failure>>

\* Mutant: only rejections reach the caller, storage errors are just logged.
AnswerOnlyRejections ==
    /\ pc = "answer"
    /\ IF failure = "invariant"
       THEN Complete("rejected", 0)
       ELSE /\ envelope' = NoCall
            /\ failure' = "none"
            /\ dispatchStartSequence' = 0
            /\ pc' = "idle"
            /\ UNCHANGED <<calls, txVars>>
    /\ UNCHANGED <<durableVars, commandQueue, readModel, published, bootSequence>>

AnswerFailed ==
    /\ pc = "answer"
    /\ Complete(IF failure = "invariant" THEN "rejected" ELSE "failed", 0)
    /\ UNCHANGED <<durableVars, commandQueue, readModel, published, bootSequence>>

(***************************************************************************)
(* The process stops at any point and is started again.                    *)
(***************************************************************************)
Crash ==
    /\ calls' = [k \in Calls |-> IF calls[k].status = "waiting"
                                 THEN [calls[k] EXCEPT !.status = "lost"] ELSE calls[k]]
    /\ commandQueue' = << >>
    /\ readModel' = EmptyReadModel
    /\ published' = << >>
    /\ bootSequence' = 0
    /\ pc' = "boot"
    /\ envelope' = NoCall
    /\ dispatchStartSequence' = 0
    /\ committedEvents' = << >>
    /\ nextReadModel' = EmptyReadModel
    /\ failure' = "none"
    /\ UNCHANGED durableVars

Worker ==
    \/ TakeEnvelope
    \/ AnswerFromAcceptedReceipt \/ AnswerFromRejectedReceipt
    \/ DecideCommand \/ RefuseCommand
    \/ AppendEvent \/ CommitTransaction \/ AdoptReadModel \/ PublishEvent \/ AnswerCommitted
    \/ StorageFails \/ Reconcile \/ RecordRejection \/ AnswerFailed

Next ==
    \/ BootProject \/ BootDone
    \/ \E k \in Calls, c \in CommandIds : Dispatch(k, c)
    \/ Worker
    \/ Crash

Spec == Init /\ [][Next]_vars

(***************************************************************************)
(* The worker fiber loops forever and every effect it runs either succeeds *)
(* or fails; a boot that started continues.  Callers and crashes owe       *)
(* nothing.                                                                *)
(***************************************************************************)
FairSpec == Spec /\ WF_vars(Worker) /\ WF_vars(BootProject \/ BootDone)

-----------------------------------------------------------------------------
(***************************************************************************)
(* Whenever the worker is not between a commit and the assignment of the   *)
(* new read model, the in-memory read model is exactly what a replay of    *)
(* the durable log gives: after failures, rollbacks, crashes and restarts  *)
(* the decider never decides against anything else.                        *)
(***************************************************************************)
ReadModelIsReplayOfLog ==
    pc \notin {"boot", "adopt"} => readModel = Replay(EmptyReadModel, log)

(***************************************************************************)
(* Exactly once, as a whole: the events of a command with an accepted      *)
(* receipt lie in the log once, complete, next to each other, and end at   *)
(* the receipt's resultSequence; a command without an accepted receipt has *)
(* no event in the log, whatever failed on the way and however often it    *)
(* was dispatched.                                                         *)
(***************************************************************************)
EventsOf(c) == {i \in 1..Len(log) : log[i].commandId = c}

ReceiptsMatchLog ==
    \A c \in CommandIds :
        IF receipts[c].status = "accepted"
        THEN LET first == receipts[c].sequence - Len(Decision(c)) IN
             /\ EventsOf(c) = (first + 1)..receipts[c].sequence
             /\ \A i \in EventsOf(c) : log[i].type = Decision(c)[i - first]
        ELSE EventsOf(c) = {}

(***************************************************************************)
(* The domain-event stream of a process is a segment of the committed log  *)
(* that starts where the process booted, with no gap, repetition or        *)
(* reordering; no subscriber holds an event that getReadModel does not     *)
(* reflect yet; and an idle worker owes the stream nothing.                *)
(***************************************************************************)
StreamFollowsLog ==
    pc # "boot" =>
        LET last == bootSequence + Len(published) IN
        /\ last <= Len(log)
        /\ published = SubSeq(log, bootSequence + 1, last)
        /\ last <= readModel.snapshotSequence
        /\ pc = "idle" => last = Len(log)

(***************************************************************************)
(* A caller that was told a sequence can rely on it for ever: its command  *)
(* has an accepted receipt with that sequence, which no later crash undoes,*)
(* and the read model of a running server contains its events.             *)
(***************************************************************************)
AcknowledgedIsDurableAndVisible ==
    \A k \in Calls :
        calls[k].status = "ok" =>
            /\ receipts[calls[k].command].status = "accepted"
            /\ receipts[calls[k].command].sequence = calls[k].sequence
            /\ calls[k].sequence <= Len(log)
            /\ pc # "boot" => readModel.snapshotSequence >= calls[k].sequence

(***************************************************************************)
(* History is never rewritten: the log only grows at its end, and a        *)
(* receipt, once there, is never upserted to another verdict or sequence.  *)
(***************************************************************************)
HistoryIsFinal ==
    [][/\ Len(log') >= Len(log)
       /\ SubSeq(log', 1, Len(log)) = log
       /\ \A c \in CommandIds :
             receipts[c].status # "none" => receipts'[c] = receipts[c]]_vars

(***************************************************************************)
(* Every call of dispatch comes back: with an answer, or because the       *)
(* process died.  No failure of the store leaves a caller waiting.         *)
(***************************************************************************)
EveryCallReturns ==
    \A k \in Calls : calls[k].status = "waiting" ~> calls[k].status # "waiting"

(***************************************************************************)
(* The engine implements the ledger: each command is decided against the   *)
(* durable log, takes effect in one step and at most once, and callers     *)
(* hear the truth.                                                         *)
(***************************************************************************)
ImplementsLedger == Ledger!LedgerSpec

-----------------------------------------------------------------------------
(***************************************************************************)
(* The inductive invariant behind the safety properties: what holds of the *)
(* worker's locals at each place it can stand.                             *)
(***************************************************************************)
LastPublished == bootSequence + Len(published)

\* Rows are numbered from 1 without a gap.
LogNumbered == \A i \in 1..Len(log) : log[i].sequence = i

\* A booting server has replayed the log up to its snapshotSequence.
BootReplays ==
    pc = "boot" =>
        /\ readModel.snapshotSequence <= Len(log)
        /\ readModel = Replay(EmptyReadModel, SubSeq(log, 1, readModel.snapshotSequence))

\* A running one has replayed all of it, but for the commit it has to adopt.
ModelReplays ==
    pc \notin {"boot", "adopt"} =>
        /\ readModel.snapshotSequence = Len(log)
        /\ readModel = Replay(EmptyReadModel, log)

\* The envelope the worker holds was dispatched; so was all that is queued.
EnvelopeDispatched ==
    /\ \A k \in Calls : calls[k].status # "unused" => calls[k].command \in CommandIds
    /\ \A i \in 1..Len(commandQueue) : calls[commandQueue[i]].status # "unused"
    /\ pc \notin {"boot", "idle"} => envelope \in Calls /\ calls[envelope].status # "unused"
    /\ pc \in {"lookup", "append", "reconcile", "reject"} =>
         dispatchStartSequence = Len(log)
    /\ pc \in {"boot", "idle", "lookup"} => committedEvents = << >>

\* The open transaction: a prefix of the decided events, folded.
TransactionFolds ==
    pc = "append" =>
        /\ receipts[CurrentCommand].status = "none"
        /\ Len(committedEvents) <= Len(Decision(CurrentCommand))
        /\ \A i \in 1..Len(committedEvents) : committedEvents[i] = SavedEvent(i)
        /\ nextReadModel.snapshotSequence = Len(log) + Len(committedEvents)
        /\ nextReadModel = Replay(EmptyReadModel, log \o committedEvents)

\* A command on its way to a rejected receipt has no receipt yet.
RefusalHasNoReceipt ==
    (pc = "reject" \/ (pc = "reconcile" /\ failure = "invariant")) =>
        receipts[CurrentCommand].status = "none"

\* The committed transaction: the end of the log, on its way to the stream.
CommitPending ==
    pc \in {"adopt", "publish"} =>
        /\ receipts[CurrentCommand] = [status |-> "accepted", sequence |-> Len(log)]
        /\ LastPublished + Len(committedEvents) = Len(log)
        /\ \A i \in 1..Len(committedEvents) : committedEvents[i] = log[LastPublished + i]
        /\ nextReadModel.snapshotSequence = Len(log)
        /\ nextReadModel = Replay(EmptyReadModel, log)
        /\ pc = "adopt" =>
             /\ readModel.snapshotSequence = LastPublished
             /\ \A k \in Calls : calls[k].status = "ok" => calls[k].sequence <= LastPublished

\* Outside a commit on its way, the stream has reached the end of the log.
StreamSegment ==
    /\ pc = "boot" => published = << >>
    /\ pc # "boot" =>
         /\ LastPublished <= Len(log)
         /\ \A i \in 1..Len(published) : published[i] = log[bootSequence + i]
         /\ pc \notin {"adopt", "publish"} => LastPublished = Len(log)

\* An accepted receipt points into the log, and acknowledged calls to it.
ReceiptsInLog ==
    \A c \in CommandIds : receipts[c].status = "accepted" => receipts[c].sequence <= Len(log)

CallsMatchReceipts ==
    \A k \in Calls :
        calls[k].status = "ok" =>
            receipts[calls[k].command] = [status |-> "accepted", sequence |-> calls[k].sequence]

(***************************************************************************)
(* The conjunction: inductive, and strong enough for every safety property *)
(* above (module OrchestrationEngineProofs).                               *)
(***************************************************************************)
EngineInvariant ==
    /\ TypeOK
    /\ LogNumbered
    /\ BootReplays
    /\ ModelReplays
    /\ EnvelopeDispatched
    /\ TransactionFolds
    /\ RefusalHasNoReceipt
    /\ CommitPending
    /\ StreamSegment
    /\ ReceiptsInLog
    /\ CallsMatchReceipts
    /\ ReceiptsMatchLog
=============================================================================
