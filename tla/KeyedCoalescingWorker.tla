----------------------- MODULE KeyedCoalescingWorker -----------------------
(***************************************************************************)
(* packages/shared/src/KeyedCoalescingWorker.ts: one worker fiber, one     *)
(* queue of keys, and one transactional record of the latest value per     *)
(* key, the keys queued and the keys active.  Callers of enqueue and       *)
(* drainKey run beside the worker.  A step below is one transaction of the *)
(* code: taking a key, claiming its value, and putting a failed key back   *)
(* are each two transactions, with callers in between.                     *)
(*                                                                         *)
(* The updates to a key are numbered 1, 2, ... in the order of their       *)
(* enqueues.  A value is the sequence of the updates merged into it, so    *)
(* merge is concatenation: every merge function of a caller is a function  *)
(* of that sequence.                                                       *)
(***************************************************************************)
EXTENDS Naturals, Sequences, FiniteSets

CONSTANTS Keys,        \* the keys of the worker (a terminal session each)
          Drains,      \* calls of drainKey
          MaxUpdates   \* bound: enqueues per key

ASSUME MaxUpdatesAssumption == MaxUpdates \in Nat

VARIABLES
  latestByKey,  \* state.latestByKey; <<>> where the map has no entry
  queuedKeys,   \* state.queuedKeys
  activeKeys,   \* state.activeKeys
  queue,        \* the TxQueue of keys
  worker,       \* where the worker fiber is, and what it holds
  sent,         \* history: updates enqueued so far, per key
  settled,      \* history: updates whose process call has ended, in order
  drains        \* history: the drainKey calls

state == <<latestByKey, queuedKeys, activeKeys>>
workerVars ==
  <<latestByKey, queuedKeys, activeKeys, queue, worker, sent, settled, drains>>

\* The fiber between two of its transactions: waiting in TxQueue.take; holding
\* a key it took; inside process; cleaning up after process failed; about to
\* offer a key again.
Idle           == [pc |-> "take"]
Claiming(k)    == [pc |-> "claim", key |-> k]
Processing(k, v) == [pc |-> "process", key |-> k, value |-> v]
Failed(k)      == [pc |-> "cleanup", key |-> k]
Requeueing(k)  == [pc |-> "requeue", key |-> k]

\* An update is a positive number; a value is a non-empty sequence of them.
Updates == Nat \ {0}
NoValue == <<>>

NotCalled        == [pc |-> "idle"]
Draining(k, n)   == [pc |-> "waiting", key |-> k, upTo |-> n]
Drained(k, n)    == [pc |-> "returned", key |-> k, upTo |-> n]

WorkerInit ==
  /\ latestByKey = [k \in Keys |-> NoValue]
  /\ queuedKeys = {}
  /\ activeKeys = {}
  /\ queue = <<>>
  /\ worker = Idle
  /\ sent = [k \in Keys |-> 0]
  /\ settled = [k \in Keys |-> <<>>]
  /\ drains = [d \in Drains |-> NotCalled]

-----------------------------------------------------------------------------
(* Callers *)

\* options.merge(current, next)
Merge(current, next) == current \o next

\* enqueue(k, value): the map entry and, for a key that is neither queued nor
\* active, the offer, in one transaction.
Enqueue(k) ==
  /\ sent[k] < MaxUpdates
  /\ sent' = [sent EXCEPT ![k] = @ + 1]
  /\ latestByKey' = [latestByKey EXCEPT ![k] = Merge(@, <<sent[k] + 1>>)]
  /\ IF k \in queuedKeys \/ k \in activeKeys
     THEN UNCHANGED <<queuedKeys, queue>>
     ELSE /\ queuedKeys' = queuedKeys \cup {k}
          /\ queue' = Append(queue, k)
  /\ UNCHANGED <<activeKeys, worker, settled, drains>>

\* The test of drainKey's transaction, which retries until it holds.
KeyIsIdle(k) ==
  /\ latestByKey[k] = NoValue
  /\ k \notin queuedKeys
  /\ k \notin activeKeys

DrainCall(d, k) ==
  /\ drains[d] = NotCalled
  /\ drains' = [drains EXCEPT ![d] = Draining(k, sent[k])]
  /\ UNCHANGED <<state, queue, worker, sent, settled>>

DrainReturn(d) ==
  /\ drains[d].pc = "waiting"
  /\ KeyIsIdle(drains[d].key)
  /\ drains' = [drains EXCEPT ![d] = Drained(@.key, @.upTo)]
  /\ UNCHANGED <<state, queue, worker, sent, settled>>

-----------------------------------------------------------------------------
(* The worker fiber *)

\* TxQueue.take(queue)
Take ==
  /\ worker = Idle
  /\ queue # <<>>
  /\ worker' = Claiming(Head(queue))
  /\ queue' = Tail(queue)
  /\ UNCHANGED <<state, sent, settled, drains>>

\* Mutant: The claim forgets activeKeys.add(key).
ClaimWithoutActive ==
  /\ worker.pc = "claim"
  /\ LET k == worker.key IN
     /\ queuedKeys' = queuedKeys \ {k}
     /\ IF latestByKey[k] = NoValue
        THEN worker' = Idle /\ UNCHANGED latestByKey
        ELSE /\ worker' = Processing(k, latestByKey[k])
             /\ latestByKey' = [latestByKey EXCEPT ![k] = NoValue]
  /\ UNCHANGED <<activeKeys, queue, sent, settled, drains>>

\* The transaction after take: the key leaves queuedKeys; its value, if there
\* is one, moves from the map into the fiber and the key becomes active.
Claim ==
  /\ worker.pc = "claim"
  /\ LET k == worker.key IN
     /\ queuedKeys' = queuedKeys \ {k}
     /\ IF latestByKey[k] = NoValue
        THEN /\ worker' = Idle
             /\ UNCHANGED <<latestByKey, activeKeys>>
        ELSE /\ worker' = Processing(k, latestByKey[k])
             /\ latestByKey' = [latestByKey EXCEPT ![k] = NoValue]
             /\ activeKeys' = activeKeys \cup {k}
  /\ UNCHANGED <<queue, sent, settled, drains>>

\* The process call ends, well or badly: its updates are settled.
Settle(k, v) == settled' = [settled EXCEPT ![k] = @ \o v]

\* Mutant: processKey ends without looking at the map again.
ProcessOnce ==
  /\ worker.pc = "process"
  /\ Settle(worker.key, worker.value)
  /\ activeKeys' = activeKeys \ {worker.key}
  /\ worker' = Idle
  /\ UNCHANGED <<latestByKey, queuedKeys, queue, sent, drains>>

\* process succeeded: in one transaction the fiber either takes the value that
\* arrived meanwhile and stays on the key, or leaves activeKeys.
ProcessSucceeds ==
  /\ worker.pc = "process"
  /\ LET k == worker.key IN
     /\ Settle(k, worker.value)
     /\ IF latestByKey[k] = NoValue
        THEN /\ activeKeys' = activeKeys \ {k}
             /\ worker' = Idle
             /\ UNCHANGED latestByKey
        ELSE /\ worker' = Processing(k, latestByKey[k])
             /\ latestByKey' = [latestByKey EXCEPT ![k] = NoValue]
             /\ UNCHANGED activeKeys
  /\ UNCHANGED <<queuedKeys, queue, sent, drains>>

\* process failed: catchCause runs cleanupFailedKey.
ProcessFails ==
  /\ worker.pc = "process"
  /\ Settle(worker.key, worker.value)
  /\ worker' = Failed(worker.key)
  /\ UNCHANGED <<state, queue, sent, drains>>

\* Mutant: cleanupFailedKey only clears activeKeys.
CleanupWithoutRequeue ==
  /\ worker.pc = "cleanup"
  /\ activeKeys' = activeKeys \ {worker.key}
  /\ worker' = Idle
  /\ UNCHANGED <<latestByKey, queuedKeys, queue, sent, settled, drains>>

\* cleanupFailedKey, its transaction: the key stops being active and, if a
\* value arrived meanwhile, is marked as queued; the offer comes afterwards.
CleanupFailedKey ==
  /\ worker.pc = "cleanup"
  /\ LET k == worker.key IN
     /\ activeKeys' = activeKeys \ {k}
     /\ IF latestByKey[k] # NoValue /\ k \notin queuedKeys
        THEN /\ queuedKeys' = queuedKeys \cup {k}
             /\ worker' = Requeueing(k)
        ELSE /\ worker' = Idle
             /\ UNCHANGED queuedKeys
  /\ UNCHANGED <<latestByKey, queue, sent, settled, drains>>

\* cleanupFailedKey, after its transaction: TxQueue.offer(queue, key).
OfferAgain ==
  /\ worker.pc = "requeue"
  /\ queue' = Append(queue, worker.key)
  /\ worker' = Idle
  /\ UNCHANGED <<state, sent, settled, drains>>

WorkerStep ==
  \/ Take
  \/ Claim
  \/ ProcessSucceeds
  \/ ProcessFails
  \/ CleanupFailedKey
  \/ OfferAgain

WorkerNext ==
  \/ WorkerStep
  \/ \E k \in Keys : Enqueue(k)
  \/ \E d \in Drains, k \in Keys : DrainCall(d, k)
  \/ \E d \in Drains : DrainReturn(d)

WorkerSpec == WorkerInit /\ [][WorkerNext]_workerVars

\* The worker is a forked Effect.forever, and process ends (its caller's effect
\* is a debounce and one file write); a retried transaction is re-run when what
\* it read changes.  Nobody has to call enqueue or drainKey.
FairWorkerSpec ==
  /\ WorkerSpec
  /\ WF_workerVars(WorkerStep)
  /\ \A d \in Drains : WF_workerVars(DrainReturn(d))

-----------------------------------------------------------------------------
(* Types *)

WorkerStates ==
  {Idle}
    \cup [pc : {"claim", "cleanup", "requeue"}, key : Keys]
    \cup [pc : {"process"}, key : Keys, value : Seq(Updates) \ {NoValue}]

DrainStates ==
  {NotCalled} \cup [pc : {"waiting", "returned"}, key : Keys, upTo : Nat]

\* Every variable has its type: the maps and sets of the record range over the
\* worker's keys; the fiber is at one of its five points and never processes a
\* value that is not there.
WorkerTypeOK ==
  /\ latestByKey \in [Keys -> Seq(Updates)]
  /\ queuedKeys \subseteq Keys
  /\ activeKeys \subseteq Keys
  /\ queue \in Seq(Keys)
  /\ worker \in WorkerStates
  /\ sent \in [Keys -> Nat]
  /\ settled \in [Keys -> Seq(Updates)]
  /\ drains \in [Drains -> DrainStates]

-----------------------------------------------------------------------------
(* Properties *)

InFlight(k) ==
  IF worker.pc = "process" /\ worker.key = k THEN worker.value ELSE <<>>

\* Nothing enqueued for a key is lost, doubled or reordered, whatever fails:
\* the updates settled, then those inside process, then those merged in the map
\* are exactly the updates enqueued, in order.  (enqueue, the claim and the two
\* endings of processKey each move updates between these three places.)
UpdatesAreConserved ==
  \A k \in Keys :
    (settled[k] \o InFlight(k)) \o latestByKey[k] = [i \in 1..sent[k] |-> i]

\* A key whose value waits in the map has somebody coming for it: it is in the
\* queue, in the fiber's hand, or being processed.  Otherwise its last update
\* would wait until the next enqueue, and a drainKey for ever.
HasTaker(k) ==
  \/ k \in {queue[i] : i \in DOMAIN queue}
  \/ worker # Idle /\ worker.key = k
NoValueIsStranded ==
  \A k \in Keys : latestByKey[k] # NoValue => HasTaker(k)

\* queuedKeys says what it is there to say: a key is in the set exactly while
\* one copy of it is in the queue or in the fiber's hand (taken and not yet
\* claimed, or cleaned up and not yet offered), no key is queued twice, and a
\* queued key has a value: the claim never comes back empty-handed.
InHand(k) == worker.pc \in {"claim", "requeue"} /\ worker.key = k
QueueMatchesQueuedKeys ==
  /\ \A i, j \in DOMAIN queue : queue[i] = queue[j] => i = j
  /\ \A k \in Keys :
       LET inQueue == \E i \in DOMAIN queue : queue[i] = k IN
       /\ k \in queuedKeys <=> inQueue \/ InHand(k)
       /\ ~(inQueue /\ InHand(k))
       /\ k \in queuedKeys => latestByKey[k] # NoValue

\* A drainKey that has returned kept its promise: every update enqueued for its
\* key before the call had been through process when it returned.  (The
\* terminal manager reads or deletes the history file after it.)
DrainedMeansSettled ==
  \A d \in Drains :
    drains[d].pc = "returned" => Len(settled[drains[d].key]) >= drains[d].upTo

-----------------------------------------------------------------------------
(* The abstract specification *)

Writes == INSTANCE CoalescedWrites
            WITH Merge <- Merge, Store <- Merge,
                 waiting <- latestByKey,
                 inHand <- [k \in Keys |-> InFlight(k)],
                 stored <- settled

WritesNext ==
  \/ \E k \in Keys : Writes!Begin(k) \/ Writes!End(k)
  \/ \E k \in Keys, n \in 1..MaxUpdates : Writes!Put(k, <<n>>)

\* The safety part: it starts empty, and every step of the fiber or of a caller
\* puts a value, begins one, ends one, or does not show.
WritesSafety ==
  /\ Writes!Init([k \in Keys |-> <<>>])
  /\ [][WritesNext]_(Writes!writes)

\* The worker is what its callers take it for, a place where values are merged
\* while they wait and stored one after the other: queue, queuedKeys, activeKeys
\* and the fiber's retries after a failure do not show.
ImplementsCoalescedWrites == WritesSafety /\ Writes!Progress

-----------------------------------------------------------------------------
(* The inductive invariant *)

\* The active key is the one the fiber processes or cleans up after, and it is
\* not queued as well.
ActiveKeyIsInHand ==
  \A k \in Keys :
    /\ k \in activeKeys <=> worker.pc \in {"process", "cleanup"} /\ worker.key = k
    /\ k \in activeKeys => k \notin queuedKeys

\* A value in the map belongs to a queued or an active key.
ValuesHaveMarks ==
  \A k \in Keys : latestByKey[k] # NoValue => k \in queuedKeys \/ k \in activeKeys

\* A drainKey call promises only what had been enqueued.
PromisesWereSent ==
  \A d \in Drains : drains[d] # NotCalled => drains[d].upTo <= sent[drains[d].key]

\* What every step preserves, and what the properties above follow from:
\* DrainedMeansSettled needs to know, at the return, that an idle key has
\* nothing in the map (its own test) nor in the fiber (ActiveKeyIsInHand), so
\* that all its updates are among the settled ones (UpdatesAreConserved).
WorkerInvariant ==
  /\ WorkerTypeOK
  /\ UpdatesAreConserved
  /\ QueueMatchesQueuedKeys
  /\ ActiveKeyIsInHand
  /\ ValuesHaveMarks
  /\ PromisesWereSent
  /\ DrainedMeansSettled

-----------------------------------------------------------------------------
(* Liveness *)

\* Every drainKey returns: failures and late enqueues only delay it (the
\* number of enqueues is bounded here; the code has no such bound, and a caller
\* that never stops enqueueing can keep a drainKey waiting).
EveryDrainReturns ==
  \A d \in Drains : drains[d].pc = "waiting" ~> drains[d].pc = "returned"

============================================================================
