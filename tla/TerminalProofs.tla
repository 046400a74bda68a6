--------------------------- MODULE TerminalProofs ---------------------------
(***************************************************************************)
(* The terminals: the keyed coalescing worker, and the terminal manager    *)
(* that gives it the history of every terminal to write.                   *)
(*                                                                         *)
(* The first part is the safety of the worker, for every set of keys,      *)
(* every number of enqueues and every set of drainKey calls:               *)
(* WorkerInvariant is inductive, the worker's properties follow from it,   *)
(* and the worker implements CoalescedWrites.                              *)
(*                                                                         *)
(* The second part is the safety of the manager, whose history writer is   *)
(* CoalescedWrites, for every set of threads and terminals and every       *)
(* number of sessions, processes and chunks of output.                     *)
(***************************************************************************)
EXTENDS TerminalManager, KeyedCoalescingWorker, SequenceTheorems, TLAPS

\* Sequences under \o: what conservation needs of the merges.
LEMMA ConcatIsAssociative ==
  ASSUME NEW S, NEW a \in Seq(S), NEW b \in Seq(S), NEW c \in Seq(S)
  PROVE  (a \o b) \o c = a \o (b \o c)
OBVIOUS

LEMMA ConcatWithEmpty ==
  ASSUME NEW S, NEW a \in Seq(S)
  PROVE  a \o <<>> = a /\ <<>> \o a = a
OBVIOUS

LEMMA NoValueType == NoValue \in Seq(Updates)
BY DEF NoValue

LEMMA ConcatType ==
  ASSUME NEW S, NEW a \in Seq(S), NEW b \in Seq(S)
  PROVE  a \o b \in Seq(S) /\ (a # <<>> => a \o b # <<>>) /\ (b # <<>> => a \o b # <<>>)
OBVIOUS

\* The updates 1..n followed by update n + 1 are the updates 1..n+1.
LEMMA NextUpdate ==
  ASSUME NEW n \in Nat
  PROVE  [i \in 1..n |-> i] \o <<n + 1>> = [i \in 1..(n + 1) |-> i]
OBVIOUS

\* A queue without duplicates, after an offer of a new key and after a take.
Holds(q, k) == \E i \in DOMAIN q : q[i] = k
NoDuplicates(q) == \A i, j \in DOMAIN q : q[i] = q[j] => i = j

LEMMA OfferNewKey ==
  ASSUME NEW q \in Seq(Keys), NEW k \in Keys, NoDuplicates(q), ~Holds(q, k)
  PROVE  /\ Append(q, k) \in Seq(Keys)
         /\ NoDuplicates(Append(q, k))
         /\ \A j \in Keys : Holds(Append(q, k), j) <=> j = k \/ Holds(q, j)
<1> DEFINE r == Append(q, k)
<1>1. /\ DOMAIN r = 1..(Len(q) + 1)
      /\ \A i \in DOMAIN q : i \in DOMAIN r /\ r[i] = q[i]
      /\ \A i \in DOMAIN r : i \in DOMAIN q \/ i = Len(q) + 1
      /\ Len(q) + 1 \in DOMAIN r
      /\ r[Len(q) + 1] = k
      /\ r \in Seq(Keys)
  OBVIOUS
<1> HIDE DEF r
<1>2. NoDuplicates(r)
  BY <1>1 DEF NoDuplicates, Holds
<1>3. \A j \in Keys : Holds(r, j) <=> j = k \/ Holds(q, j)
  BY <1>1 DEF Holds
<1> QED BY <1>1, <1>2, <1>3 DEF r

LEMMA TakeKey ==
  ASSUME NEW q \in Seq(Keys), q # <<>>, NoDuplicates(q)
  PROVE  /\ Head(q) \in Keys /\ Tail(q) \in Seq(Keys)
         /\ NoDuplicates(Tail(q))
         /\ Holds(q, Head(q)) /\ ~Holds(Tail(q), Head(q))
         /\ \A j \in Keys : Holds(q, j) <=> j = Head(q) \/ Holds(Tail(q), j)
<1> DEFINE r == Tail(q)  h == Head(q)
<1>1. /\ 1 \in DOMAIN q /\ h = q[1] /\ h \in Keys /\ r \in Seq(Keys)
      /\ \A i \in DOMAIN r : i \in Nat /\ i >= 1 /\ i + 1 \in DOMAIN q /\ r[i] = q[i + 1]
      /\ \A i \in DOMAIN q : i = 1 \/ (i - 1 \in DOMAIN r /\ r[i - 1] = q[i])
  OBVIOUS
<1> HIDE DEF r, h
<1>2. NoDuplicates(r)
  <2> SUFFICES ASSUME NEW i \in DOMAIN r, NEW j \in DOMAIN r, r[i] = r[j] PROVE i = j
    BY DEF NoDuplicates
  <2>1. i + 1 = j + 1
    BY <1>1 DEF NoDuplicates
  <2> QED BY <1>1, <2>1
<1>3. Holds(q, h)
  BY <1>1 DEF Holds
<1>4. ~Holds(r, h)
  <2> SUFFICES ASSUME NEW i \in DOMAIN r, r[i] = h PROVE FALSE
    BY DEF Holds
  <2>1. i + 1 = 1
    BY <1>1 DEF NoDuplicates
  <2> QED BY <1>1, <2>1
<1>5. \A j \in Keys : Holds(q, j) <=> j = h \/ Holds(r, j)
  BY <1>1 DEF Holds
<1> QED BY <1>1, <1>2, <1>3, <1>4, <1>5 DEF r, h

LEMMA WorkerInitHolds == WorkerInit => WorkerInvariant
<1> SUFFICES ASSUME WorkerInit PROVE WorkerInvariant
  OBVIOUS
<1> USE DEF WorkerInit
<1>1. WorkerTypeOK
  BY DEF WorkerTypeOK, WorkerStates, DrainStates, Idle, NotCalled, NoValue, Updates
<1>2. UpdatesAreConserved
  <2> SUFFICES ASSUME NEW k \in Keys
      PROVE (settled[k] \o InFlight(k)) \o latestByKey[k] = [i \in 1..sent[k] |-> i]
    BY DEF UpdatesAreConserved
  <2>1. settled[k] = <<>> /\ InFlight(k) = <<>> /\ latestByKey[k] = <<>> /\ sent[k] = 0
    BY DEF InFlight, NoValue, Idle
  <2>2. (<<>> \o <<>>) \o <<>> = [i \in 1..0 |-> i]
    OBVIOUS
  <2> QED BY <2>1, <2>2
<1>3. QueueMatchesQueuedKeys
  BY DEF QueueMatchesQueuedKeys, InHand, Idle
<1>4. ActiveKeyIsInHand /\ ValuesHaveMarks /\ PromisesWereSent
  BY DEF ActiveKeyIsInHand, ValuesHaveMarks, PromisesWereSent, Idle, NotCalled, NoValue
<1>5. DrainedMeansSettled
  BY DEF DrainedMeansSettled, NotCalled
<1> QED BY <1>1, <1>2, <1>3, <1>4, <1>5 DEF WorkerInvariant

-----------------------------------------------------------------------------
(* One lemma per action of a caller *)

LEMMA EnqueuePreserves ==
  ASSUME WorkerInvariant, NEW k \in Keys, Enqueue(k)
  PROVE  WorkerInvariant'
<1> USE DEF WorkerInvariant
<1>0. sent[k] \in Nat /\ latestByKey[k] \in Seq(Updates) /\ <<sent[k] + 1>> \in Seq(Updates)
  BY DEF WorkerTypeOK, Updates
<1>1. /\ latestByKey' = [latestByKey EXCEPT ![k] = @ \o <<sent[k] + 1>>]
      /\ latestByKey[k] \o <<sent[k] + 1>> \in Seq(Updates)
      /\ latestByKey[k] \o <<sent[k] + 1>> # NoValue
  BY <1>0, ConcatType DEF Enqueue, Merge, NoValue
<1>2. WorkerTypeOK'
  <2>1. latestByKey' \in [Keys -> Seq(Updates)]
    BY <1>0, <1>1 DEF WorkerTypeOK
  <2>2. queue' \in Seq(Keys) /\ queuedKeys' \subseteq Keys
    <3>1. CASE k \in queuedKeys \/ k \in activeKeys
      BY <3>1 DEF Enqueue, WorkerTypeOK
    <3>2. CASE ~(k \in queuedKeys \/ k \in activeKeys)
      <4>1. queuedKeys' = queuedKeys \cup {k} /\ queue' = Append(queue, k)
        BY <3>2 DEF Enqueue
      <4> QED BY <4>1 DEF WorkerTypeOK
    <3> QED BY <3>1, <3>2
  <2>3. sent' \in [Keys -> Nat]
    BY <1>0 DEF Enqueue, WorkerTypeOK
  <2> QED BY <2>1, <2>2, <2>3 DEF Enqueue, WorkerTypeOK
<1>3. UpdatesAreConserved'
  <2> SUFFICES ASSUME NEW j \in Keys
      PROVE ((settled[j] \o InFlight(j)) \o latestByKey[j] = [i \in 1..sent[j] |-> i])'
    BY DEF UpdatesAreConserved
  <2>1. InFlight(j)' = InFlight(j) /\ settled' = settled
    BY DEF Enqueue, InFlight
  <2>2. settled[j] \in Seq(Updates) /\ InFlight(j) \in Seq(Updates)
    BY DEF WorkerTypeOK, InFlight, WorkerStates, Idle
  <2>3. (settled[j] \o InFlight(j)) \o latestByKey[j] = [i \in 1..sent[j] |-> i]
    BY DEF UpdatesAreConserved
  <2>4. CASE j # k
    BY <1>1, <2>1, <2>3, <2>4 DEF Enqueue, WorkerTypeOK
  <2>5. CASE j = k
    <3> DEFINE before == settled[k] \o InFlight(k)
    <3>1. before \in Seq(Updates)
      BY <2>2, <2>5, ConcatType
    <3>2. before \o (latestByKey[k] \o <<sent[k] + 1>>) = [i \in 1..(sent[k] + 1) |-> i]
      <4> HIDE DEF before
      <4>1. before \o (latestByKey[k] \o <<sent[k] + 1>>)
            = (before \o latestByKey[k]) \o <<sent[k] + 1>>
        <5>1. \A b, c \in Seq(Updates) : (before \o b) \o c = before \o (b \o c)
          BY ONLY <3>1, ConcatIsAssociative
        <5> QED BY ONLY <1>0, <5>1
      <4>2. before \o latestByKey[k] = [i \in 1..sent[k] |-> i]
        BY <2>3, <2>5 DEF before
      <4> QED BY <1>0, <4>1, <4>2, NextUpdate
    <3>3. latestByKey'[k] = latestByKey[k] \o <<sent[k] + 1>> /\ sent'[k] = sent[k] + 1
      BY <1>1 DEF Enqueue, WorkerTypeOK
    <3> QED BY <2>1, <2>5, <3>2, <3>3
  <2> QED BY <2>4, <2>5
<1>4. QueueMatchesQueuedKeys' /\ ActiveKeyIsInHand' /\ ValuesHaveMarks'
  <2>1. CASE k \in queuedKeys \/ k \in activeKeys
    BY <1>1, <2>1, ZenonT(40) DEF Enqueue, QueueMatchesQueuedKeys, ActiveKeyIsInHand, ValuesHaveMarks, InHand, WorkerTypeOK
  <2>2. CASE ~(k \in queuedKeys \/ k \in activeKeys)
    <3>1. queuedKeys' = queuedKeys \cup {k} /\ queue' = Append(queue, k) /\ UNCHANGED <<activeKeys, worker>>
      BY <2>2 DEF Enqueue
    <3>2. QueueMatchesQueuedKeys'
      <4>1. ~Holds(queue, k) /\ ~InHand(k) /\ NoDuplicates(queue)
        BY <2>2 DEF QueueMatchesQueuedKeys, Holds, NoDuplicates
      <4>2. \A j \in Keys : InHand(j)' = InHand(j)
        BY <3>1 DEF InHand
      <4>3. /\ NoDuplicates(queue')
            /\ \A j \in Keys : Holds(queue', j) <=> j = k \/ Holds(queue, j)
        BY <3>1, <4>1, OfferNewKey DEF WorkerTypeOK
      <4>4. \A j \in Keys : latestByKey'[j] # NoValue \/ latestByKey'[j] = latestByKey[j]
        BY <1>1 DEF WorkerTypeOK
      <4>5. latestByKey'[k] # NoValue
        BY <1>1 DEF WorkerTypeOK
      <4> QED BY <3>1, <4>1, <4>2, <4>3, <4>4, <4>5 DEF QueueMatchesQueuedKeys, Holds, NoDuplicates
    <3>3. ActiveKeyIsInHand'
      BY <2>2, <3>1 DEF ActiveKeyIsInHand
    <3>4. ValuesHaveMarks'
      BY <1>1, <3>1 DEF ValuesHaveMarks, WorkerTypeOK
    <3> QED BY <3>2, <3>3, <3>4
  <2> QED BY <2>1, <2>2
<1>5. PromisesWereSent' /\ DrainedMeansSettled'
  BY <1>0 DEF Enqueue, PromisesWereSent, DrainedMeansSettled, WorkerTypeOK, DrainStates, NotCalled
<1> QED BY <1>2, <1>3, <1>4, <1>5

LEMMA DrainCallPreserves ==
  ASSUME WorkerInvariant, NEW d \in Drains, NEW k \in Keys, DrainCall(d, k)
  PROVE  WorkerInvariant'
<1> USE DEF WorkerInvariant, DrainCall, state
<1>1. WorkerTypeOK'
  BY DEF WorkerTypeOK, DrainStates, Draining
<1>2. UpdatesAreConserved' /\ QueueMatchesQueuedKeys' /\ ActiveKeyIsInHand' /\ ValuesHaveMarks'
  BY DEF UpdatesAreConserved, InFlight, QueueMatchesQueuedKeys, InHand, ActiveKeyIsInHand, ValuesHaveMarks
<1>3. PromisesWereSent' /\ DrainedMeansSettled'
  BY DEF PromisesWereSent, DrainedMeansSettled, Draining, NotCalled, WorkerTypeOK
<1> QED BY <1>1, <1>2, <1>3

LEMMA DrainReturnPreserves ==
  ASSUME WorkerInvariant, NEW d \in Drains, DrainReturn(d)
  PROVE  WorkerInvariant'
<1> USE DEF WorkerInvariant
<1> DEFINE k == drains[d].key
           n == drains[d].upTo
<1>1. k \in Keys /\ n \in Nat /\ drains[d] # NotCalled
  BY DEF DrainReturn, WorkerTypeOK, DrainStates, NotCalled
<1>2. drains' = [drains EXCEPT ![d] = Drained(k, n)] /\ UNCHANGED <<state, queue, worker, sent, settled>>
  BY DEF DrainReturn
<1>3. n <= Len(settled[k])
  <2>1. latestByKey[k] = <<>> /\ k \notin activeKeys
    BY DEF DrainReturn, KeyIsIdle, NoValue
  <2>2. InFlight(k) = <<>>
    BY <1>1, <2>1 DEF InFlight, ActiveKeyIsInHand
  <2>3. settled[k] \in Seq(Updates)
    BY <1>1 DEF WorkerTypeOK
  <2>4. settled[k] = [i \in 1..sent[k] |-> i]
    BY <1>1, <2>1, <2>2, <2>3, ConcatWithEmpty DEF UpdatesAreConserved
  <2>5. Len(settled[k]) = sent[k]
    BY <1>1, <2>4 DEF WorkerTypeOK
  <2> QED BY <1>1, <2>5 DEF PromisesWereSent
<1> HIDE DEF k, n
<1>4. WorkerTypeOK'
  BY <1>1, <1>2 DEF WorkerTypeOK, DrainStates, Drained, state
<1>5. UpdatesAreConserved' /\ QueueMatchesQueuedKeys' /\ ActiveKeyIsInHand' /\ ValuesHaveMarks'
  BY <1>2 DEF UpdatesAreConserved, InFlight, QueueMatchesQueuedKeys, InHand, ActiveKeyIsInHand, ValuesHaveMarks, state
<1>6. PromisesWereSent'
  BY <1>1, <1>2 DEF PromisesWereSent, Drained, WorkerTypeOK, k, n
<1>7. DrainedMeansSettled'
  BY <1>1, <1>2, <1>3 DEF DrainedMeansSettled, Drained, WorkerTypeOK
<1> QED BY <1>4, <1>5, <1>6, <1>7

-----------------------------------------------------------------------------
(* One lemma per step of the worker fiber *)

\* Shape of the fiber's record.
LEMMA WorkerShape ==
  ASSUME WorkerTypeOK
  PROVE  /\ worker # Idle <=> worker.pc # "take"
         /\ worker.pc \in {"claim", "cleanup", "requeue", "process"} => worker.key \in Keys
         /\ worker.pc = "process" => worker.value \in Seq(Updates) /\ worker.value # NoValue
BY DEF WorkerTypeOK, WorkerStates, Idle

LEMMA InFlightType ==
  ASSUME WorkerTypeOK, NEW k \in Keys
  PROVE  InFlight(k) \in Seq(Updates)
BY WorkerShape DEF InFlight

LEMMA TakePreserves ==
  ASSUME WorkerInvariant, Take
  PROVE  WorkerInvariant'
<1> USE DEF WorkerInvariant
<1> DEFINE h == Head(queue)
<1>1. worker = Idle /\ queue # <<>> /\ queue' = Tail(queue) /\ worker' = Claiming(h)
      /\ UNCHANGED <<latestByKey, queuedKeys, activeKeys, sent, settled, drains>>
  BY DEF Take, state
<1>2. /\ h \in Keys /\ queue' \in Seq(Keys)
      /\ NoDuplicates(queue')
      /\ Holds(queue, h) /\ ~Holds(queue', h)
      /\ \A j \in Keys : Holds(queue, j) <=> j = h \/ Holds(queue', j)
  <2>1. queue \in Seq(Keys) /\ NoDuplicates(queue)
    BY DEF WorkerTypeOK, QueueMatchesQueuedKeys, NoDuplicates
  <2> QED BY <1>1, <2>1, TakeKey
<1> HIDE DEF h
<1>3. WorkerTypeOK'
  BY <1>1, <1>2 DEF WorkerTypeOK, WorkerStates, Claiming
<1>4. \A k \in Keys : ~InHand(k) /\ (InHand(k)' <=> k = h)
  BY <1>1, <1>2 DEF InHand, Idle, Claiming
<1>5. QueueMatchesQueuedKeys'
  BY <1>1, <1>2, <1>4 DEF QueueMatchesQueuedKeys, Holds, NoDuplicates
<1>6. UpdatesAreConserved'
  BY <1>1 DEF UpdatesAreConserved, InFlight, Idle, Claiming
<1>7. ActiveKeyIsInHand' /\ ValuesHaveMarks' /\ PromisesWereSent' /\ DrainedMeansSettled'
  BY <1>1 DEF ActiveKeyIsInHand, ValuesHaveMarks, PromisesWereSent, DrainedMeansSettled, Idle, Claiming
<1> QED BY <1>3, <1>5, <1>6, <1>7

LEMMA ClaimPreserves ==
  ASSUME WorkerInvariant, Claim
  PROVE  WorkerInvariant'
<1> USE DEF WorkerInvariant
<1> DEFINE k == worker.key
           v == latestByKey[k]
<1>1. k \in Keys /\ v \in Seq(Updates) /\ InHand(k)
  BY WorkerShape DEF Claim, WorkerTypeOK, InHand
<1>2. k \in queuedKeys /\ v # NoValue
  BY <1>1 DEF QueueMatchesQueuedKeys
<1>3. /\ worker.pc = "claim"
      /\ worker' = Processing(k, v) /\ queuedKeys' = queuedKeys \ {k}
      /\ latestByKey' = [latestByKey EXCEPT ![k] = NoValue]
      /\ activeKeys' = activeKeys \cup {k}
      /\ UNCHANGED <<queue, sent, settled, drains>>
  BY <1>2 DEF Claim
<1>4. \A j \in Keys : InHand(j) <=> j = k
  BY <1>3 DEF InHand
<1> HIDE DEF k, v
<1>5. WorkerTypeOK'
  <2>1. worker' \in WorkerStates
    BY <1>1, <1>2, <1>3 DEF WorkerStates, Processing
  <2>2. latestByKey' \in [Keys -> Seq(Updates)]
    BY <1>3, NoValueType DEF WorkerTypeOK
  <2> QED BY <1>1, <1>3, <2>1, <2>2 DEF WorkerTypeOK
<1>6. \A j \in Keys : ~InHand(j)'
  BY <1>3 DEF InHand, Processing
<1>7. QueueMatchesQueuedKeys'
  BY <1>1, <1>3, <1>4, <1>6 DEF QueueMatchesQueuedKeys, WorkerTypeOK
<1>8. UpdatesAreConserved'
  <2> SUFFICES ASSUME NEW j \in Keys
      PROVE ((settled[j] \o InFlight(j)) \o latestByKey[j] = [i \in 1..sent[j] |-> i])'
    BY DEF UpdatesAreConserved
  <2>1. InFlight(j) = <<>> /\ settled[j] \in Seq(Updates)
    BY <1>3 DEF InFlight, WorkerTypeOK
  <2>2. CASE j # k
    BY <1>3, <2>1, <2>2 DEF InFlight, Processing, UpdatesAreConserved, WorkerTypeOK
  <2>3. CASE j = k
    <3>1. InFlight(j)' = v /\ latestByKey'[j] = <<>> /\ settled'[j] = settled[j] /\ sent'[j] = sent[j]
      BY <1>1, <1>3, <2>3 DEF InFlight, Processing, NoValue, WorkerTypeOK
    <3>2. (settled[j] \o v) \o <<>> = settled[j] \o v /\ settled[j] \o <<>> = settled[j]
      BY <1>1, <2>1, ConcatType, ConcatWithEmpty
    <3>3. (settled[j] \o InFlight(j)) \o v = [i \in 1..sent[j] |-> i]
      BY <2>3 DEF UpdatesAreConserved, v
    <3> QED BY <2>1, <3>1, <3>2, <3>3
  <2> QED BY <2>2, <2>3
<1>9. ActiveKeyIsInHand' /\ ValuesHaveMarks'
  BY <1>1, <1>3 DEF ActiveKeyIsInHand, ValuesHaveMarks, Processing, WorkerTypeOK
<1>10. PromisesWereSent' /\ DrainedMeansSettled'
  BY <1>3 DEF PromisesWereSent, DrainedMeansSettled
<1> QED BY <1>5, <1>7, <1>8, <1>9, <1>10

\* What both endings of a process call do to the history.
LEMMA SettleKeepsPromises ==
  ASSUME WorkerInvariant, worker.pc = "process", Settle(worker.key, worker.value),
         UNCHANGED <<sent, drains>>
  PROVE  /\ settled' \in [Keys -> Seq(Updates)]
         /\ \A j \in Keys : settled'[j] = settled[j] \o InFlight(j)
         /\ PromisesWereSent' /\ DrainedMeansSettled'
<1> USE DEF WorkerInvariant
<1> DEFINE k == worker.key
<1>1. k \in Keys /\ worker.value \in Seq(Updates)
  BY WorkerShape
<1>2. \A j \in Keys : settled[j] \in Seq(Updates)
  BY DEF WorkerTypeOK
<1>3. settled[k] \o worker.value \in Seq(Updates)
  BY <1>1, <1>2, ConcatType
<1>4. settled' = [settled EXCEPT ![k] = settled[k] \o worker.value]
  BY DEF Settle
<1>5. settled' \in [Keys -> Seq(Updates)]
  BY <1>3, <1>4 DEF WorkerTypeOK
<1>6. \A j \in Keys : settled'[j] = settled[j] \o InFlight(j)
  BY <1>2, <1>4, ConcatWithEmpty DEF InFlight, WorkerTypeOK
<1>7. \A j \in Keys : Len(settled'[j]) >= Len(settled[j])
  <2> SUFFICES ASSUME NEW j \in Keys PROVE Len(settled'[j]) >= Len(settled[j])
    OBVIOUS
  <2>1. settled[j] \in Seq(Updates) /\ InFlight(j) \in Seq(Updates)
    BY <1>2, InFlightType
  <2> QED BY <1>6, <2>1
<1>8. PromisesWereSent'
  BY DEF PromisesWereSent
<1>9. DrainedMeansSettled'
  <2> SUFFICES ASSUME NEW d \in Drains, drains[d].pc = "returned"
      PROVE Len(settled'[drains[d].key]) >= drains[d].upTo
    BY DEF DrainedMeansSettled
  <2>1. drains[d].key \in Keys /\ drains[d].upTo \in Nat
    BY DEF WorkerTypeOK, DrainStates, NotCalled
  <2>2. Len(settled[drains[d].key]) \in Nat /\ Len(settled'[drains[d].key]) \in Nat
    BY <1>2, <1>5, <2>1
  <2>3. Len(settled[drains[d].key]) >= drains[d].upTo
    BY DEF DrainedMeansSettled
  <2> QED BY <1>7, <2>1, <2>2, <2>3
<1> QED BY <1>5, <1>6, <1>8, <1>9

LEMMA ProcessSucceedsPreserves ==
  ASSUME WorkerInvariant, ProcessSucceeds
  PROVE  WorkerInvariant'
<1> USE DEF WorkerInvariant
<1> DEFINE k == worker.key
           v == latestByKey[k]
<1>1. worker.pc = "process" /\ UNCHANGED <<queuedKeys, queue, sent, drains>>
  BY DEF ProcessSucceeds
<1>2. k \in Keys /\ v \in Seq(Updates) /\ k \in activeKeys
  BY <1>1, WorkerShape DEF WorkerTypeOK, ActiveKeyIsInHand
<1>3. /\ settled' \in [Keys -> Seq(Updates)]
      /\ \A j \in Keys : settled'[j] = settled[j] \o InFlight(j)
      /\ PromisesWereSent' /\ DrainedMeansSettled'
  BY <1>1, SettleKeepsPromises DEF ProcessSucceeds
<1>4. \A j \in Keys : ~InHand(j) /\ (j \in activeKeys <=> j = k)
  BY <1>1 DEF InHand, ActiveKeyIsInHand
<1>5. \A j \in Keys : settled'[j] \o latestByKey[j] = [i \in 1..sent[j] |-> i]
  BY <1>3 DEF UpdatesAreConserved
<1>6. CASE v = NoValue
  <2>1. activeKeys' = activeKeys \ {k} /\ worker' = Idle /\ latestByKey' = latestByKey
    BY <1>6 DEF ProcessSucceeds
  <2>2. WorkerTypeOK'
    BY <1>1, <1>3, <2>1 DEF WorkerTypeOK, WorkerStates
  <2>3. QueueMatchesQueuedKeys'
    BY <1>1, <1>4, <2>1 DEF QueueMatchesQueuedKeys, InHand, Idle
  <2>4. UpdatesAreConserved'
    <3>1. \A j \in Keys : InFlight(j)' = <<>>
      BY <2>1 DEF InFlight, Idle
    <3>2. \A j \in Keys : settled'[j] \o <<>> = settled'[j]
      BY <1>3, ConcatWithEmpty
    <3> QED BY <1>1, <1>5, <2>1, <3>1, <3>2 DEF UpdatesAreConserved
  <2>5. ActiveKeyIsInHand' /\ ValuesHaveMarks'
    BY <1>1, <1>4, <1>6, <2>1 DEF ActiveKeyIsInHand, ValuesHaveMarks, Idle
  <2> QED BY <1>3, <2>2, <2>3, <2>4, <2>5
<1>7. CASE v # NoValue
  <2>1. worker' = Processing(k, v) /\ latestByKey' = [latestByKey EXCEPT ![k] = NoValue] /\ activeKeys' = activeKeys
    BY <1>7 DEF ProcessSucceeds
  <2> HIDE DEF k, v
  <2>2. WorkerTypeOK'
    <3>1. worker' \in WorkerStates
      BY <1>2, <1>7, <2>1 DEF WorkerStates, Processing
    <3>2. latestByKey' \in [Keys -> Seq(Updates)]
      BY <2>1, NoValueType DEF WorkerTypeOK
    <3> QED BY <1>1, <1>3, <2>1, <3>1, <3>2 DEF WorkerTypeOK
  <2>3. QueueMatchesQueuedKeys'
    <3>1. \A j \in Keys : ~InHand(j)'
      BY <2>1 DEF InHand, Processing
    <3>2. k \notin queuedKeys
      BY <1>2, <1>4 DEF ActiveKeyIsInHand
    <3> QED BY <1>1, <1>4, <2>1, <3>1, <3>2 DEF QueueMatchesQueuedKeys, WorkerTypeOK
  <2>4. UpdatesAreConserved'
    <3> SUFFICES ASSUME NEW j \in Keys
        PROVE ((settled[j] \o InFlight(j)) \o latestByKey[j] = [i \in 1..sent[j] |-> i])'
      BY DEF UpdatesAreConserved
    <3>1. CASE j # k
      <4>1. InFlight(j)' = <<>> /\ latestByKey'[j] = latestByKey[j]
        BY <2>1, <3>1 DEF InFlight, Processing, WorkerTypeOK
      <4>2. settled'[j] \o <<>> = settled'[j]
        BY <1>3, ConcatWithEmpty
      <4> QED BY <1>1, <1>5, <4>1, <4>2
    <3>2. CASE j = k
      <4>1. InFlight(j)' = v /\ latestByKey'[j] = <<>>
        BY <1>2, <2>1, <3>2 DEF InFlight, Processing, NoValue, WorkerTypeOK
      <4>2. (settled'[j] \o v) \o <<>> = settled'[j] \o v
        BY <1>2, <1>3, ConcatType, ConcatWithEmpty
      <4> QED BY <1>1, <1>5, <3>2, <4>1, <4>2 DEF v
    <3> QED BY <3>1, <3>2
  <2>5. ActiveKeyIsInHand' /\ ValuesHaveMarks'
    BY <1>1, <1>2, <1>4, <2>1 DEF ActiveKeyIsInHand, ValuesHaveMarks, Processing, WorkerTypeOK
  <2> QED BY <1>3, <2>2, <2>3, <2>4, <2>5
<1> QED BY <1>6, <1>7

LEMMA ProcessFailsPreserves ==
  ASSUME WorkerInvariant, ProcessFails
  PROVE  WorkerInvariant'
<1> USE DEF WorkerInvariant
<1>1. /\ worker.pc = "process" /\ worker' = Failed(worker.key)
      /\ UNCHANGED <<latestByKey, queuedKeys, activeKeys, queue, sent, drains>>
  BY DEF ProcessFails, state
<1>2. worker.key \in Keys
  BY <1>1, WorkerShape
<1>3. /\ settled' \in [Keys -> Seq(Updates)]
      /\ \A j \in Keys : settled'[j] = settled[j] \o InFlight(j)
      /\ PromisesWereSent' /\ DrainedMeansSettled'
  BY <1>1, SettleKeepsPromises DEF ProcessFails
<1>4. WorkerTypeOK'
  BY <1>1, <1>2, <1>3 DEF WorkerTypeOK, WorkerStates, Failed
<1>5. QueueMatchesQueuedKeys' /\ ActiveKeyIsInHand' /\ ValuesHaveMarks'
  <2>1. \A j \in Keys : ~InHand(j) /\ ~InHand(j)'
    BY <1>1 DEF InHand, Failed
  <2> QED BY <1>1, <2>1 DEF QueueMatchesQueuedKeys, ActiveKeyIsInHand, ValuesHaveMarks, Failed
<1>6. UpdatesAreConserved'
  <2>1. \A j \in Keys : InFlight(j)' = <<>>
    BY <1>1 DEF InFlight, Failed
  <2>2. \A j \in Keys : settled'[j] \o <<>> = settled'[j]
    BY <1>3, ConcatWithEmpty
  <2> QED BY <1>1, <1>3, <2>1, <2>2 DEF UpdatesAreConserved
<1> QED BY <1>3, <1>4, <1>5, <1>6

LEMMA CleanupFailedKeyPreserves ==
  ASSUME WorkerInvariant, CleanupFailedKey
  PROVE  WorkerInvariant'
<1> USE DEF WorkerInvariant
<1> DEFINE k == worker.key
<1>1. /\ worker.pc = "cleanup" /\ activeKeys' = activeKeys \ {k}
      /\ UNCHANGED <<latestByKey, queue, sent, settled, drains>>
  BY DEF CleanupFailedKey
<1>2. k \in Keys
  BY <1>1, WorkerShape
<1>3. \A j \in Keys : ~InHand(j) /\ (j \in activeKeys <=> j = k)
  BY <1>1 DEF InHand, ActiveKeyIsInHand
<1>4. \/ /\ latestByKey[k] # NoValue /\ k \notin queuedKeys
         /\ queuedKeys' = queuedKeys \cup {k} /\ worker' = Requeueing(k)
      \/ /\ latestByKey[k] = NoValue \/ k \in queuedKeys
         /\ queuedKeys' = queuedKeys /\ worker' = Idle
  BY DEF CleanupFailedKey
<1> HIDE DEF k
<1>5. WorkerTypeOK'
  BY <1>1, <1>2, <1>4 DEF WorkerTypeOK, WorkerStates, Requeueing
<1>6. QueueMatchesQueuedKeys'
  BY <1>1, <1>2, <1>3, <1>4 DEF QueueMatchesQueuedKeys, InHand, Requeueing, Idle
<1>7. UpdatesAreConserved'
  <2>1. \A j \in Keys : InFlight(j) = <<>>
    BY <1>1 DEF InFlight
  <2>2. \A j \in Keys : InFlight(j)' = <<>>
    BY <1>4 DEF InFlight, Requeueing, Idle
  <2> QED BY <1>1, <2>1, <2>2 DEF UpdatesAreConserved
<1>8. ActiveKeyIsInHand' /\ ValuesHaveMarks'
  BY <1>1, <1>3, <1>4 DEF ActiveKeyIsInHand, ValuesHaveMarks, Requeueing, Idle
<1>9. PromisesWereSent' /\ DrainedMeansSettled'
  BY <1>1 DEF PromisesWereSent, DrainedMeansSettled
<1> QED BY <1>5, <1>6, <1>7, <1>8, <1>9

LEMMA OfferAgainPreserves ==
  ASSUME WorkerInvariant, OfferAgain
  PROVE  WorkerInvariant'
<1> USE DEF WorkerInvariant
<1> DEFINE k == worker.key
<1>1. /\ worker.pc = "requeue" /\ queue' = Append(queue, k) /\ worker' = Idle
      /\ UNCHANGED <<latestByKey, queuedKeys, activeKeys, sent, settled, drains>>
  BY DEF OfferAgain, state
<1>2. k \in Keys /\ \A j \in Keys : InHand(j) <=> j = k
  BY <1>1, WorkerShape DEF InHand
<1>3. ~Holds(queue, k) /\ NoDuplicates(queue) /\ queue \in Seq(Keys)
  BY <1>2 DEF QueueMatchesQueuedKeys, Holds, NoDuplicates, WorkerTypeOK
<1>4. /\ queue' \in Seq(Keys) /\ NoDuplicates(queue')
      /\ \A j \in Keys : Holds(queue', j) <=> j = k \/ Holds(queue, j)
  BY <1>1, <1>2, <1>3, OfferNewKey
<1> HIDE DEF k
<1>5. WorkerTypeOK'
  BY <1>1, <1>4 DEF WorkerTypeOK, WorkerStates
<1>6. QueueMatchesQueuedKeys'
  BY <1>1, <1>2, <1>4 DEF QueueMatchesQueuedKeys, InHand, Idle, Holds, NoDuplicates
<1>7. UpdatesAreConserved' /\ ActiveKeyIsInHand' /\ ValuesHaveMarks'
  BY <1>1 DEF UpdatesAreConserved, InFlight, ActiveKeyIsInHand, ValuesHaveMarks, Idle
<1>8. PromisesWereSent' /\ DrainedMeansSettled'
  BY <1>1 DEF PromisesWereSent, DrainedMeansSettled
<1> QED BY <1>5, <1>6, <1>7, <1>8

-----------------------------------------------------------------------------
(* The theorems *)

\* WorkerInvariant holds in every reachable state: every step of the worker
\* fiber and of its callers preserves it.
THEOREM WorkerInvariantHolds == WorkerSpec => []WorkerInvariant
<1>1. WorkerInit => WorkerInvariant
  BY WorkerInitHolds
<1>2. WorkerInvariant /\ [WorkerNext]_workerVars => WorkerInvariant'
  <2> SUFFICES ASSUME WorkerInvariant, [WorkerNext]_workerVars PROVE WorkerInvariant'
    OBVIOUS
  <2>1. CASE UNCHANGED workerVars
    BY <2>1 DEF workerVars, WorkerInvariant, WorkerTypeOK, UpdatesAreConserved, InFlight, QueueMatchesQueuedKeys,
      InHand, ActiveKeyIsInHand, ValuesHaveMarks, PromisesWereSent, DrainedMeansSettled
  <2>2. CASE WorkerStep
    BY <2>2, TakePreserves, ClaimPreserves, ProcessSucceedsPreserves, ProcessFailsPreserves,
      CleanupFailedKeyPreserves, OfferAgainPreserves DEF WorkerStep
  <2>3. ASSUME NEW k \in Keys, Enqueue(k) PROVE WorkerInvariant'
    BY <2>3, EnqueuePreserves
  <2>4. ASSUME NEW d \in Drains, NEW k \in Keys, DrainCall(d, k) PROVE WorkerInvariant'
    BY <2>4, DrainCallPreserves
  <2>5. ASSUME NEW d \in Drains, DrainReturn(d) PROVE WorkerInvariant'
    BY <2>5, DrainReturnPreserves
  <2> QED BY <2>1, <2>2, <2>3, <2>4, <2>5 DEF WorkerNext
<1> QED BY <1>1, <1>2, PTL DEF WorkerSpec

\* Nothing enqueued is lost, doubled or reordered, through merges, failures
\* and requeues (enqueue, processKey, cleanupFailedKey).
THEOREM NoUpdateIsLost == WorkerSpec => []UpdatesAreConserved
<1>1. WorkerInvariant => UpdatesAreConserved
  BY DEF WorkerInvariant
<1> QED BY <1>1, WorkerInvariantHolds, PTL

\* A value waiting in the map always has the worker coming for it.
THEOREM NobodyIsStranded == WorkerSpec => []NoValueIsStranded
<1>1. WorkerInvariant => NoValueIsStranded
  BY DEF WorkerInvariant, NoValueIsStranded, HasTaker, ValuesHaveMarks, QueueMatchesQueuedKeys,
    ActiveKeyIsInHand, InHand, Idle
<1> QED BY <1>1, WorkerInvariantHolds, PTL

\* drainKey returns only after every update enqueued before the call has been
\* through process.
THEOREM DrainKeyIsSound == WorkerSpec => []DrainedMeansSettled
<1>1. WorkerInvariant => DrainedMeansSettled
  BY DEF WorkerInvariant
<1> QED BY <1>1, WorkerInvariantHolds, PTL

-----------------------------------------------------------------------------
(* The worker implements CoalescedWrites *)

LEMMA InitIsWrites == WorkerInit => Writes!Init([k \in Keys |-> <<>>])
BY DEF WorkerInit, Writes!Init, InFlight, Idle, NoValue

\* A step that leaves the map, the value in process and the history alone.
LEMMA HiddenStep ==
  ASSUME UNCHANGED <<latestByKey, settled>>, \A k \in Keys : InFlight(k)' = InFlight(k)
  PROVE  UNCHANGED Writes!writes
BY DEF Writes!writes

LEMMA EnqueueIsPut ==
  ASSUME WorkerInvariant, NEW k \in Keys, Enqueue(k)
  PROVE  WritesNext
<1>1. latestByKey[k] \in Seq(Updates) /\ sent[k] \in Nat /\ sent[k] < MaxUpdates /\ MaxUpdates \in Nat
  BY MaxUpdatesAssumption DEF WorkerInvariant, WorkerTypeOK, Enqueue
<1>2. sent[k] + 1 \in 1..MaxUpdates
  BY <1>1
<1>3. \A j \in Keys : InFlight(j)' = InFlight(j)
  BY DEF Enqueue, InFlight
<1>4. latestByKey' = [latestByKey EXCEPT ![k] = @ \o <<sent[k] + 1>>] /\ settled' = settled
  BY DEF Enqueue, Merge
<1>5. latestByKey[k] = NoValue => latestByKey[k] \o <<sent[k] + 1>> = <<sent[k] + 1>>
  BY <1>1 DEF NoValue
<1>6. Writes!Put(k, <<sent[k] + 1>>)
  <2>1. latestByKey' = [latestByKey EXCEPT ![k] = IF @ = NoValue THEN <<sent[k] + 1>>
                                                  ELSE Merge(@, <<sent[k] + 1>>)]
    BY <1>4, <1>5 DEF Merge
  <2> QED BY <1>3, <1>4, <2>1 DEF Writes!Put
<1> QED BY <1>2, <1>6 DEF WritesNext

LEMMA ClaimIsBegin ==
  ASSUME WorkerInvariant, Claim
  PROVE  WritesNext
<1> DEFINE k == worker.key
<1>1. worker.pc = "claim" /\ k \in Keys /\ InHand(k)
  BY WorkerShape DEF Claim, WorkerInvariant, InHand
<1>2. latestByKey[k] # NoValue
  BY <1>1 DEF WorkerInvariant, QueueMatchesQueuedKeys
<1>3. /\ worker' = Processing(k, latestByKey[k])
      /\ latestByKey' = [latestByKey EXCEPT ![k] = NoValue]
      /\ settled' = settled
  BY <1>2 DEF Claim
<1>4. \A j \in Keys : InFlight(j) = NoValue
  BY <1>1 DEF InFlight, NoValue
<1>5. \A j \in Keys : InFlight(j)' = IF j = k THEN latestByKey[k] ELSE InFlight(j)
  BY <1>3, <1>4 DEF InFlight, Processing, NoValue
<1> HIDE DEF k
<1>6. Writes!Begin(k)
  BY <1>1, <1>2, <1>3, <1>4, <1>5 DEF Writes!Begin
<1> QED BY <1>1, <1>6 DEF WritesNext

LEMMA SettlingIsEnd ==
  ASSUME WorkerInvariant, ProcessSucceeds \/ ProcessFails
  PROVE  WritesNext
<1> DEFINE k == worker.key
           v == latestByKey[k]
<1>1. worker.pc = "process" /\ k \in Keys /\ worker.value # NoValue
  BY WorkerShape DEF ProcessSucceeds, ProcessFails, WorkerInvariant
<1>2. /\ InFlight(k) = worker.value
      /\ \A j \in Keys : j # k => InFlight(j) = NoValue
  BY <1>1 DEF InFlight, NoValue
<1>3. settled' = [settled EXCEPT ![k] = Merge(@, InFlight(k))]
  BY <1>2 DEF ProcessSucceeds, ProcessFails, Settle, Merge
<1>4. \/ /\ worker'.pc # "process"
         /\ latestByKey' = latestByKey
      \/ /\ v # NoValue
         /\ worker' = Processing(k, v)
         /\ latestByKey' = [latestByKey EXCEPT ![k] = NoValue]
  BY DEF ProcessSucceeds, ProcessFails, Idle, Failed, state
<1> HIDE DEF k, v
<1>5. CASE worker'.pc # "process" /\ latestByKey' = latestByKey
  <2>1. \A j \in Keys : InFlight(j)' = IF j = k THEN NoValue ELSE InFlight(j)
    BY <1>2, <1>5 DEF InFlight, NoValue
  <2>2. Writes!End(k)
    BY <1>1, <1>2, <1>3, <1>5, <2>1 DEF Writes!End
  <2> QED BY <1>1, <2>2 DEF WritesNext
<1>6. CASE /\ v # NoValue
           /\ worker' = Processing(k, v)
           /\ latestByKey' = [latestByKey EXCEPT ![k] = NoValue]
  <2>1. \A j \in Keys : InFlight(j)' = IF j = k THEN latestByKey[k] ELSE InFlight(j)
    BY <1>2, <1>6 DEF InFlight, Processing, NoValue, v
  <2>2. Writes!End(k)
    BY <1>1, <1>2, <1>3, <1>6, <2>1 DEF Writes!End, v
  <2> QED BY <1>1, <2>2 DEF WritesNext
<1> QED BY <1>4, <1>5, <1>6

\* The worker's safety implements that of CoalescedWrites: an enqueue is a Put,
\* a claim a Begin, the end of a process call an End, and no other step of the
\* fiber, of cleanupFailedKey or of drainKey shows.
THEOREM WorkerImplementsWrites == WorkerSpec => WritesSafety
<1>1. WorkerInit => Writes!Init([k \in Keys |-> <<>>])
  BY InitIsWrites
<1>2. WorkerInvariant /\ [WorkerNext]_workerVars => [WritesNext]_(Writes!writes)
  <2> SUFFICES ASSUME WorkerInvariant, [WorkerNext]_workerVars
      PROVE WritesNext \/ UNCHANGED Writes!writes
    OBVIOUS
  <2>1. CASE UNCHANGED workerVars
    BY <2>1, HiddenStep DEF workerVars, InFlight
  <2>2. CASE Take
    BY <2>2, HiddenStep DEF Take, state, InFlight, Idle, Claiming
  <2>3. CASE Claim
    BY <2>3, ClaimIsBegin
  <2>4. CASE ProcessSucceeds \/ ProcessFails
    BY <2>4, SettlingIsEnd
  <2>5. CASE CleanupFailedKey
    BY <2>5, HiddenStep DEF CleanupFailedKey, InFlight, Idle, Requeueing
  <2>6. CASE OfferAgain
    BY <2>6, HiddenStep DEF OfferAgain, state, InFlight, Idle
  <2>7. ASSUME NEW k \in Keys, Enqueue(k) PROVE WritesNext
    BY <2>7, EnqueueIsPut
  <2>8. ASSUME NEW d \in Drains, NEW k \in Keys, DrainCall(d, k) PROVE UNCHANGED Writes!writes
    BY <2>8, HiddenStep DEF DrainCall, state, InFlight
  <2>9. ASSUME NEW d \in Drains, DrainReturn(d) PROVE UNCHANGED Writes!writes
    BY <2>9, HiddenStep DEF DrainReturn, state, InFlight
  <2> QED BY <2>1, <2>2, <2>3, <2>4, <2>5, <2>6, <2>7, <2>8, <2>9 DEF WorkerNext, WorkerStep
<1> QED BY <1>1, <1>2, WorkerInvariantHolds, PTL DEF WorkerSpec, WritesSafety

-----------------------------------------------------------------------------
(* The terminal manager: its inductive invariant                           *)
(*                                                                         *)
(* The parts are stated of a map, objects and operations and not of the    *)
(* variables, since a step first makes new ones (map, objects,             *)
(* operations) and then forgets the objects nothing refers to              *)
(* (Become), or evicts as well (BecomeAndEvict).                           *)

MapsTo(map, objects, operations) ==
  /\ map \in [Terminals -> SessionIds \cup {None}]
  /\ objects \in [SessionIds -> SessionObjects]
  /\ operations \in [Threads -> Operations]

\* An operation of thread t works on a terminal of t and on the session that this
\* terminal is mapped to, unless that session was evicted meanwhile.  Up to the
\* spawn, and once close has stopped it, the session has no process.  An open that
\* found no session, and a close that deletes, go on with none: nobody else maps a
\* terminal of the thread.  closeThread still has every mapped terminal before it.
OperationFits(op, t, map, objects, stray) ==
  /\ op.kind = "none" => op = NoOperation
  /\ op.terminal # None => ThreadOf[op.terminal] = t
  /\ op.session # None =>
       /\ op.terminal # None
       /\ objects[op.session].terminal = op.terminal
       /\ map[op.terminal] = op.session \/ op.terminal \in stray
  /\ op.kind \in {"open", "restart"} /\ op.at \in {"drain", "spawn"} =>
       op.session # None /\ objects[op.session].process = None
  /\ op.kind \in {"close", "closeThread"} /\ op.at = "flush" =>
       /\ op.terminal # None
       /\ map[op.terminal] \in {None, op.session}
       /\ op.session # None => objects[op.session].process = None
  /\ \/ op.kind = "open" /\ op.at \in {"flush", "read"}
     \/ op.kind = "close" /\ op.at = "delete"
     => /\ op.terminal # None
        /\ op.session = None
        /\ map[op.terminal] = None
  /\ op.kind = "closeThread" =>
       /\ \A k \in op.rest : ThreadOf[k] = t
       /\ op.at = "next" => op.session = None
       /\ \A k \in Terminals :
            ThreadOf[k] = t /\ map[k] # None =>
              k \in op.rest \/ (op.at = "flush" /\ k = op.terminal)

\* A terminal is mapped to a session of its own; a session with a process runs and
\* is mapped, or is astray; no two sessions share a process.
MapFits(map, objects, stray) ==
  /\ \A k \in Terminals : map[k] # None => objects[map[k]].terminal = k
  /\ \A s \in SessionIds :
       objects[s].process # None =>
         /\ objects[s].status = "running"
         /\ objects[s].terminal # None
         /\ map[objects[s].terminal] = s \/ objects[s].terminal \in stray
  /\ \A r, s \in SessionIds :
       objects[r].process # None /\ objects[r].process = objects[s].process => r = s

Fits(map, objects, operations, stray) ==
  /\ MapFits(map, objects, stray)
  /\ \A t \in Threads : OperationFits(operations[t], t, map, objects, stray)

\* The process of a session was not told to stop, and one that was told to stop is
\* not reaped yet; a live one belongs to a session or was told to stop.
Owned(objects, shells, kills, phase) ==
  /\ \A s \in SessionIds :
       objects[s].process # None =>
         /\ shells[objects[s].process] # "none"
         /\ kills[objects[s].process] = "nobody"
  /\ \A p \in Processes : kills[p] # "nobody" => shells[p] # "none"
  /\ phase # "gone" =>
       \A p \in Processes :
         shells[p] = "alive" /\ kills[p] = "nobody" =>
           \E s \in SessionIds : objects[s].process = p

\* What the file will hold once the writer has nothing left for the terminal.
Latest(w, h, f) == IF w # None THEN w ELSE IF h # None THEN h ELSE Content(f)

\* The writer was told what the terminals printed, each time they did.
Told(ws, hs, fs, texts, stray, phase) ==
  phase # "gone" =>
    \A k \in Terminals \ stray : Latest(ws[k], hs[k], fs[k]) = texts[k]

\* A mapped session shows what its terminal printed.
Shown(map, objects, texts, stray) ==
  \A k \in Terminals \ stray : map[k] # None => objects[map[k]].history = texts[k]

\* Of a deleted terminal nothing is left, and nothing is on its way.
Erased(map, ws, hs, fs, gone, stray) ==
  \A k \in gone \ stray :
    ws[k] = None /\ hs[k] = None /\ fs[k] = None /\ map[k] = None

\* An operation that drained a terminal without a session, and relies on it.
Quieted(op) ==
  \/ op.kind = "open" /\ op.at = "read"
  \/ op.kind = "close" /\ op.at = "delete"

Quiet(operations, ws, hs, stray) ==
  \A t \in Threads :
    Quieted(operations[t]) /\ operations[t].terminal \notin stray =>
      /\ ws[operations[t].terminal] = None
      /\ hs[operations[t].terminal] = None

\* What capHistory would leave as it is.
Short(texts) == \A k \in Terminals : Len(texts[k]) <= HistoryLimit

\* The variables that are no part of a map, objects and operations.
RestTypes ==
  /\ process \in [Processes -> {"none", "alive", "dead"}]
  /\ killing \in [Processes -> {"nobody", "fiber", "finalizer"}]
  /\ waiting \in [Terminals -> Seq(Nat) \cup {None}]
  /\ inHand \in [Terminals -> Seq(Nat) \cup {None}]
  /\ file \in [Terminals -> Seq(Nat) \cup {None}]
  /\ manager \in {"up", "stopping", "gone"}
  /\ outputs \in 0..MaxOutputs
  /\ transcript \in [Terminals -> Seq(Nat)]
  /\ deleted \subseteq Terminals

\* What every step preserves.  LiveProcessIsOwned needs to know of a live process
\* that it belongs to a session (Owned) and of that session that it is mapped
\* (MapFits).  HistorySurvivesEviction needs, when open reads the file of an evicted
\* terminal, that the file holds what the terminal printed: the writer was told
\* (Told) and had nothing left (Quiet) since no session of that terminal could print
\* in between (OperationFits).
ManagerInvariant ==
  /\ MapsTo(sessions, session, operation)
  /\ updatedAt \subseteq SessionIds \X SessionIds
  /\ astray \subseteq Terminals
  /\ RestTypes
  /\ Fits(sessions, session, operation, astray)
  /\ Owned(session, process, killing, manager)
  /\ Told(waiting, inHand, file, transcript, astray, manager)
  /\ Shown(sessions, session, transcript, astray)
  /\ Erased(sessions, waiting, inHand, file, deleted, astray)
  /\ Quiet(operation, waiting, inHand, astray)
  /\ Short(transcript)

\* What Become leaves of a map and objects.
Kept(map, objects) ==
  /\ \A k \in Terminals :
       sessions'[k] # None => sessions'[k] = map[k] /\ session'[map[k]] = objects[map[k]]
  /\ \A s \in SessionIds : session'[s].process = objects[s].process

\* None is no session, process, terminal or history; what the assumptions say.
LEMMA NoneIsNothing ==
  /\ None \notin SessionIds /\ None \notin Processes /\ None \notin Terminals
  /\ None \notin Seq(Nat)
  /\ HistoryLimit \in Nat /\ HistoryLimit >= 1 /\ MaxSessions \in Nat
  /\ ThreadOf \in [Terminals -> Threads]
BY TerminalAssumption DEF TerminalAssumption, SessionIds, Processes

\* capHistory leaves a history of at most HistoryLimit chunks, and a short one alone.
LEMMA CappedHistory ==
  ASSUME NEW h \in Seq(Nat)
  PROVE  /\ Capped(h) \in Seq(Nat)
         /\ Len(Capped(h)) <= HistoryLimit
         /\ Len(h) <= HistoryLimit => Capped(h) = h
<1> PICK n \in Nat : n = Len(h)
  OBVIOUS
<1> PICK m \in Nat : m = HistoryLimit /\ m >= 1
  BY NoneIsNothing
<1>1. CASE n <= m
  <2>1. Larger(1, n - m + 1) = 1
    BY <1>1 DEF Larger
  <2>2. SubSeq(h, 1, Len(h)) = h
    OBVIOUS
  <2> QED BY <1>1, <2>1, <2>2 DEF Capped
<1>2. CASE n > m
  <2>1. Larger(1, n - m + 1) = n - m + 1
    BY <1>2 DEF Larger
  <2>2. /\ SubSeq(h, n - m + 1, n) \in Seq(Nat)
        /\ Len(SubSeq(h, n - m + 1, n)) = n - (n - m + 1) + 1
    BY <1>2, SubSeqProperties
  <2> QED BY <1>2, <2>1, <2>2 DEF Capped
<1> QED BY <1>1, <1>2

\* An operation goes on fitting when others leave the terminals of its thread
\* alone, or take its session away and leave it astray.
LEMMA StillFits ==
  ASSUME NEW op \in Operations, NEW t \in Threads,
         NEW map \in [Terminals -> SessionIds \cup {None}], NEW map2,
         NEW objects, NEW objects2, NEW stray, NEW stray2,
         OperationFits(op, t, map, objects, stray),
         stray \subseteq stray2,
         \A k \in Terminals :
           ThreadOf[k] = t => \/ map2[k] = map[k]
                              \/ map2[k] = None /\ (map[k] = op.session => k \in stray2),
         op.session # None =>
           /\ objects2[op.session].terminal = objects[op.session].terminal
           /\ objects2[op.session].process \in {objects[op.session].process, None}
  PROVE  OperationFits(op, t, map2, objects2, stray2)
<1> /\ op.terminal \in Terminals \cup {None}
    /\ op.session \in SessionIds \cup {None}
  BY DEF Operations
<1> USE NoneIsNothing
<1>1. op.terminal # None => op.terminal \in Terminals /\ ThreadOf[op.terminal] = t
  BY DEF OperationFits
<1>2. op.session # None =>
       /\ op.terminal # None
       /\ objects2[op.session].terminal = op.terminal
       /\ map2[op.terminal] = op.session \/ op.terminal \in stray2
  BY <1>1 DEF OperationFits
<1>3. op.kind \in {"close", "closeThread"} /\ op.at = "flush" =>
       /\ op.terminal # None
       /\ map2[op.terminal] \in {None, op.session}
       /\ op.session # None => objects2[op.session].process = None
  BY <1>1 DEF OperationFits
<1>4. \/ op.kind = "open" /\ op.at \in {"flush", "read"}
      \/ op.kind = "close" /\ op.at = "delete"
      => /\ op.terminal # None
         /\ op.session = None
         /\ map2[op.terminal] = None
  BY <1>1 DEF OperationFits
<1>5. op.kind = "closeThread" =>
       /\ \A k \in op.rest : ThreadOf[k] = t
       /\ op.at = "next" => op.session = None
       /\ \A k \in Terminals :
            ThreadOf[k] = t /\ map2[k] # None =>
              k \in op.rest \/ (op.at = "flush" /\ k = op.terminal)
  BY DEF OperationFits
<1>6. op.kind \in {"open", "restart"} /\ op.at \in {"drain", "spawn"} =>
       op.session # None /\ objects2[op.session].process = None
  BY DEF OperationFits
<1> QED BY <1>1, <1>2, <1>3, <1>4, <1>5, <1>6 DEF OperationFits

\* Dropping the objects that nothing refers to keeps the structure.
LEMMA Becomes ==
  ASSUME NEW map, NEW objects, NEW order, NEW operations, NEW stray,
         MapsTo(map, objects, operations),
         order \subseteq SessionIds \X SessionIds,
         Fits(map, objects, operations, stray),
         Become(map, objects, order, operations)
  PROVE  /\ MapsTo(sessions', session', operation')
         /\ updatedAt' \subseteq SessionIds \X SessionIds
         /\ Fits(sessions', session', operation', stray)
         /\ Kept(map, objects)
         /\ operation' = operations
         /\ sessions' = map
<1> USE NoneIsNothing
<1> DEFINE kept == {s \in SessionIds :
                      \/ Mapped(map, s)
                      \/ objects[s].process # None
                      \/ \E t \in Threads : operations[t].session = s}
<1>1. /\ sessions' = map
      /\ session' = [s \in SessionIds |-> IF s \in kept THEN objects[s] ELSE Unused]
      /\ operation' = operations
      /\ updatedAt' \subseteq order
  BY DEF Become
<1>2. Unused \in SessionObjects /\ Unused.process = None
  BY DEF Unused, SessionObjects
<1>3. MapsTo(sessions', session', operation')
  BY <1>1, <1>2 DEF MapsTo
<1>4. \A s \in SessionIds : s \in kept => session'[s] = objects[s]
  BY <1>1
<1>5. \A s \in SessionIds : session'[s].process = objects[s].process
  BY <1>1, <1>2
<1>6. \A k \in Terminals : map[k] # None => map[k] \in SessionIds /\ map[k] \in kept
  BY DEF MapsTo, Mapped
<1>7. \A s \in SessionIds : session'[s].process # None => s \in kept
  BY <1>5
<1>8. \A t \in Threads : operations[t].session # None =>
         operations[t].session \in SessionIds /\ operations[t].session \in kept
  BY DEF MapsTo, Operations
<1> HIDE DEF kept
<1>9. Kept(map, objects)
  BY <1>1, <1>4, <1>5, <1>6 DEF Kept
<1>10. Fits(sessions', session', operation', stray)
  <2>1. \A k \in Terminals : map[k] # None => session'[map[k]].terminal = k
    BY <1>4, <1>6 DEF Fits, MapFits
  <2>2. \A s \in SessionIds :
          session'[s].process # None =>
            /\ session'[s].status = "running"
            /\ session'[s].terminal # None
            /\ map[session'[s].terminal] = s \/ session'[s].terminal \in stray
    BY <1>4, <1>7 DEF Fits, MapFits
  <2>3. \A r, s \in SessionIds :
         session'[r].process # None /\ session'[r].process = session'[s].process => r = s
    BY <1>5 DEF Fits, MapFits
  <2>4. ASSUME NEW t \in Threads
        PROVE  OperationFits(operations[t], t, map, session', stray)
    <3>1. OperationFits(operations[t], t, map, objects, stray)
      BY DEF Fits
    <3>2. operations[t] \in Operations
      BY DEF MapsTo
    <3>3. operations[t].session # None =>
            session'[operations[t].session] = objects[operations[t].session]
      BY <1>4, <1>8
    <3> QED BY <3>1, <3>2, <3>3, StillFits DEF MapsTo
  <2> QED BY <1>1, <2>1, <2>2, <2>3, <2>4 DEF Fits, MapFits
<1> QED BY <1>1, <1>3, <1>9, <1>10

\* Eviction takes sessions without a process out of the map; one that is held
\* by an operation goes astray.
LEMMA Evicts ==
  ASSUME NEW map, NEW objects, NEW order, NEW operations,
         MapsTo(map, objects, operations),
         order \subseteq SessionIds \X SessionIds,
         astray \subseteq Terminals,
         Fits(map, objects, operations, astray),
         BecomeAndEvict(map, objects, order, operations)
  PROVE  /\ MapsTo(sessions', session', operation')
         /\ updatedAt' \subseteq SessionIds \X SessionIds
         /\ Fits(sessions', session', operation', astray')
         /\ Kept(map, objects)
         /\ operation' = operations
         /\ astray' \subseteq Terminals
         /\ astray \subseteq astray'
<1> USE NoneIsNothing
<1> PICK out : out = Evicted(map, objects, order)
  OBVIOUS
<1> PICK map2 : map2 = [k \in Terminals |-> IF map[k] \in out THEN None ELSE map[k]]
  OBVIOUS
<1> DEFINE held == {s \in out : \E t \in Threads : operations[t].session = s}
<1>1. /\ Become(map2, objects, order, operations)
      /\ astray' = astray \cup {objects[s].terminal : s \in held}
  BY DEF BecomeAndEvict
<1>2. /\ out \subseteq SessionIds
      /\ \A s \in out : Mapped(map, s) /\ objects[s].status # "running"
  BY DEF Evicted
<1>3. \A s \in out : objects[s].process = None /\ objects[s].terminal \in Terminals
    BY <1>2 DEF Fits, MapFits, Mapped
<1>4. astray' \subseteq Terminals /\ astray \subseteq astray'
  BY <1>1, <1>3
<1>5. MapsTo(map2, objects, operations)
  BY DEF MapsTo
<1>6. ASSUME NEW t \in Threads
      PROVE  OperationFits(operations[t], t, map2, objects, astray')
  <2>1. OperationFits(operations[t], t, map, objects, astray)
    BY DEF Fits
  <2>2. operations[t] \in Operations
    BY DEF MapsTo
  <2>3. ASSUME NEW k \in Terminals
        PROVE  \/ map2[k] = map[k]
               \/ map2[k] = None /\ (map[k] = operations[t].session => k \in astray')
    <3>1. CASE map[k] \notin out
      BY <3>1
    <3>2. CASE map[k] \in out
      <4>1. map2[k] = None /\ map[k] # None
        BY <3>2, <1>2
      <4>2. objects[map[k]].terminal = k
        BY <4>1 DEF Fits, MapFits
      <4>3. map[k] = operations[t].session => map[k] \in held
        BY <3>2
      <4> QED BY <1>1, <4>1, <4>2, <4>3
    <3> QED BY <3>1, <3>2
  <2> HIDE DEF held
  <2> QED BY <1>4, <2>1, <2>2, <2>3, StillFits DEF MapsTo
<1> HIDE DEF held
<1>7. Fits(map2, objects, operations, astray')
  <2>1. \A k \in Terminals : map2[k] # None => map2[k] = map[k]
    OBVIOUS
  <2>2. ASSUME NEW s \in SessionIds, objects[s].process # None
        PROVE  /\ objects[s].status = "running"
               /\ objects[s].terminal # None
               /\ map2[objects[s].terminal] = s \/ objects[s].terminal \in astray'
    <3>1. /\ objects[s].status = "running"
          /\ objects[s].terminal # None
          /\ map[objects[s].terminal] = s \/ objects[s].terminal \in astray
          /\ objects[s].terminal \in Terminals
      BY <2>2 DEF Fits, MapFits, MapsTo, SessionObjects
    <3>2. s \notin out
      BY <1>2, <3>1
    <3> QED BY <1>4, <3>1, <3>2
  <2>3. \A r, s \in SessionIds :
         objects[r].process # None /\ objects[r].process = objects[s].process => r = s
    BY DEF Fits, MapFits
  <2>4. \A k \in Terminals : map2[k] # None => objects[map2[k]].terminal = k
    BY <2>1 DEF Fits, MapFits
  <2> QED BY <1>6, <2>2, <2>3, <2>4 DEF Fits, MapFits
<1>8. /\ MapsTo(sessions', session', operation')
      /\ updatedAt' \subseteq SessionIds \X SessionIds
      /\ Fits(sessions', session', operation', astray')
      /\ Kept(map2, objects)
      /\ operation' = operations
      /\ sessions' = map2
  BY <1>1, <1>5, <1>7, Becomes
<1>9. Kept(map, objects)
  BY <1>8 DEF Kept
<1> QED BY <1>4, <1>8, <1>9

\* A step that leaves these maps and objects, and the rest of the state in
\* order, keeps the invariant.
LEMMA Settles ==
  ASSUME NEW map, NEW objects, NEW order, NEW operations,
         MapsTo(map, objects, operations),
         order \subseteq SessionIds \X SessionIds,
         astray \subseteq Terminals,
         Fits(map, objects, operations, astray),
         \/ Become(map, objects, order, operations) /\ UNCHANGED astray
         \/ BecomeAndEvict(map, objects, order, operations),
         RestTypes',
         Owned(objects, process', killing', manager'),
         Told(waiting', inHand', file', transcript', astray, manager'),
         Shown(map, objects, transcript', astray),
         Erased(map, waiting', inHand', file', deleted', astray),
         Quiet(operations, waiting', inHand', astray),
         Short(transcript')
  PROVE  ManagerInvariant'
<1>1. /\ MapsTo(sessions', session', operation')
      /\ updatedAt' \subseteq SessionIds \X SessionIds
      /\ Fits(sessions', session', operation', astray')
      /\ Kept(map, objects)
      /\ operation' = operations
      /\ astray' \subseteq Terminals
      /\ astray \subseteq astray'
  <2>1. CASE Become(map, objects, order, operations) /\ UNCHANGED astray
    BY <2>1, Becomes
  <2>2. CASE BecomeAndEvict(map, objects, order, operations)
    BY <2>2, Evicts
  <2> QED BY <2>1, <2>2
<1>2. Owned(session', process', killing', manager')
  BY <1>1 DEF Owned, Kept
<1>3. Told(waiting', inHand', file', transcript', astray', manager')
  BY <1>1 DEF Told
<1>4. Shown(sessions', session', transcript', astray')
  BY <1>1 DEF Shown, Kept
<1>5. Erased(sessions', waiting', inHand', file', deleted', astray')
  BY <1>1 DEF Erased, Kept, RestTypes
<1>6. Quiet(operation', waiting', inHand', astray')
  BY <1>1 DEF Quiet
<1> QED BY <1>1, <1>2, <1>3, <1>4, <1>5, <1>6 DEF ManagerInvariant

-----------------------------------------------------------------------------
(* The pieces the operations are made of *)

\* Nothing changes but what belongs to thread t.
OnlyOf(t, map, objects, operations) ==
  /\ \A u \in Threads : u # t => operations[u] = operation[u]
  /\ \A k \in Terminals : ThreadOf[k] # t => map[k] = sessions[k]
  /\ \A s \in SessionIds :
       \/ session[s].terminal = None
       \/ ThreadOf[session[s].terminal] = t
       \/ objects[s] = session[s]

\* A change of one thread's operation, and of what belongs to its terminals, is
\* nothing to the operations of the other threads.
LEMMA OthersFit ==
  ASSUME ManagerInvariant, NEW t \in Threads, NEW map, NEW objects, NEW operations,
         OnlyOf(t, map, objects, operations),
         MapFits(map, objects, astray),
         OperationFits(operations[t], t, map, objects, astray)
  PROVE  Fits(map, objects, operations, astray)
<1> USE NoneIsNothing
<1> SUFFICES ASSUME NEW u \in Threads, u # t
             PROVE  OperationFits(operation[u], u, map, objects, astray)
  BY DEF Fits, OnlyOf
<1>1. /\ operation[u] \in Operations
      /\ OperationFits(operation[u], u, sessions, session, astray)
      /\ sessions \in [Terminals -> SessionIds \cup {None}]
  BY DEF ManagerInvariant, MapsTo, Fits
<1>2. operation[u].session # None =>
        objects[operation[u].session] = session[operation[u].session]
  <2> HAVE operation[u].session # None
  <2>1. /\ operation[u].session \in SessionIds
        /\ session[operation[u].session].terminal = operation[u].terminal
        /\ operation[u].terminal # None
        /\ ThreadOf[operation[u].terminal] = u
    BY <1>1 DEF OperationFits, Operations
  <2> QED BY <2>1 DEF OnlyOf
<1>3. \A k \in Terminals : ThreadOf[k] = u => map[k] = sessions[k]
  BY DEF OnlyOf
<1> QED BY <1>1, <1>2, <1>3, StillFits

\* One object changes: its process is gone, or it is the same one.
LEMMA ChangedObject ==
  ASSUME ManagerInvariant, NEW s \in SessionIds, NEW o \in SessionObjects,
         o.terminal = session[s].terminal,
         \/ o.process = None
         \/ o.process = session[s].process /\ o.status = session[s].status
  PROVE  /\ [session EXCEPT ![s] = o] \in [SessionIds -> SessionObjects]
         /\ MapFits(sessions, [session EXCEPT ![s] = o], astray)
<1> PICK objects : objects = [session EXCEPT ![s] = o]
  OBVIOUS
<1>1. /\ sessions \in [Terminals -> SessionIds \cup {None}]
      /\ session \in [SessionIds -> SessionObjects]
      /\ MapFits(sessions, session, astray)
  BY DEF ManagerInvariant, MapsTo, Fits
<1>2. /\ objects \in [SessionIds -> SessionObjects]
      /\ objects[s] = o
      /\ \A r \in SessionIds : r # s => objects[r] = session[r]
      /\ \A r \in SessionIds :
           /\ objects[r].terminal = session[r].terminal
           /\ objects[r].process # None =>
                /\ objects[r].process = session[r].process
                /\ objects[r].status = session[r].status
  BY <1>1
<1>3. MapFits(sessions, objects, astray)
  BY <1>1, <1>2 DEF MapFits
<1> QED BY <1>2, <1>3

\* A new object takes the place of none.
LEMMA NewObject ==
  ASSUME ManagerInvariant, NEW k \in Terminals, sessions[k] = None,
         NEW s \in SessionIds, session[s] = Unused, NEW h \in Seq(Nat)
  PROVE  /\ [sessions EXCEPT ![k] = s] \in [Terminals -> SessionIds \cup {None}]
         /\ [session EXCEPT ![s] = Starting(k, h)] \in [SessionIds -> SessionObjects]
         /\ MapFits([sessions EXCEPT ![k] = s], [session EXCEPT ![s] = Starting(k, h)],
                    astray)
<1> USE NoneIsNothing
<1> PICK o : o = Starting(k, h)
  OBVIOUS
<1>0. /\ o \in SessionObjects /\ o.terminal = k /\ o.process = None
  BY DEF Starting, SessionObjects
<1> PICK map : map = [sessions EXCEPT ![k] = s]
  OBVIOUS
<1> PICK objects : objects = [session EXCEPT ![s] = o]
  OBVIOUS
<1>1. /\ sessions \in [Terminals -> SessionIds \cup {None}]
      /\ session \in [SessionIds -> SessionObjects]
      /\ MapFits(sessions, session, astray)
  BY DEF ManagerInvariant, MapsTo, Fits
<1>2. /\ objects \in [SessionIds -> SessionObjects]
      /\ objects[s] = o
      /\ \A r \in SessionIds : r # s => objects[r] = session[r]
      /\ map \in [Terminals -> SessionIds \cup {None}]
      /\ map[k] = s
      /\ \A j \in Terminals : j # k => map[j] = sessions[j]
  BY <1>0, <1>1
<1>3. \A j \in Terminals : sessions[j] # s
  BY <1>1 DEF MapFits, Unused
<1>4. MapFits(map, objects, astray)
  <2>1. \A j \in Terminals : map[j] # None => objects[map[j]].terminal = j
    BY <1>0, <1>1, <1>2, <1>3 DEF MapFits
  <2>2. ASSUME NEW r \in SessionIds, objects[r].process # None
        PROVE  /\ objects[r] = session[r]
               /\ objects[r].status = "running"
               /\ objects[r].terminal # None
               /\ map[objects[r].terminal] = r \/ objects[r].terminal \in astray
    <3>1. r # s /\ objects[r] = session[r]
      BY <1>0, <1>2, <2>2
    <3>2. /\ session[r].status = "running"
          /\ session[r].terminal \in Terminals
          /\ sessions[session[r].terminal] = r \/ session[r].terminal \in astray
      BY <1>1, <2>2, <3>1 DEF MapFits, SessionObjects
    <3> QED BY <1>2, <3>1, <3>2
  <2>3. \A q, r \in SessionIds :
         objects[r].process # None /\ objects[r].process = objects[q].process => r = q
    BY <1>0, <1>1, <1>2, <2>2 DEF MapFits
  <2> QED BY <2>1, <2>2, <2>3 DEF MapFits
<1> QED BY <1>2, <1>4

\* Who owns which process is all that Owned knows of the objects.
LEMMA SameProcesses ==
  ASSUME NEW objects, NEW shells, NEW kills, NEW phase, NEW objects2,
         Owned(objects, shells, kills, phase),
         \A s \in SessionIds : objects2[s].process = objects[s].process
  PROVE  Owned(objects2, shells, kills, phase)
BY DEF Owned

\* One object is o now, the others are what they were.
ObjectAt(objects, s, o) ==
  /\ objects[s] = o
  /\ \A r \in SessionIds : r # s => objects[r] = session[r]

\* stopProcess: whoever loses its process leaves it to an escalation, or it was
\* dead already.
LEMMA KilledProcess ==
  ASSUME ManagerInvariant, NEW s \in SessionIds, NEW objects, NEW o, Kill(session[s].process),
         o.process = None, ObjectAt(objects, s, o)
  PROVE  /\ Owned(objects, process', killing', manager)
         /\ process' \in [Processes -> {"none", "alive", "dead"}]
         /\ killing' \in [Processes -> {"nobody", "fiber", "finalizer"}]
<1> USE NoneIsNothing
<1> /\ objects[s].process = None
    /\ \A r \in SessionIds : r # s => objects[r] = session[r]
  BY DEF ObjectAt
<1> PICK p : p = session[s].process
  OBVIOUS
<1>1. /\ process \in [Processes -> {"none", "alive", "dead"}]
      /\ killing \in [Processes -> {"nobody", "fiber", "finalizer"}]
      /\ p \in Processes \cup {None}
      /\ Owned(session, process, killing, manager)
  BY DEF ManagerInvariant, RestTypes, MapsTo, SessionObjects
<1>2. \A r, q \in SessionIds :
       session[r].process # None /\ session[r].process = session[q].process => r = q
  BY DEF ManagerInvariant, Fits, MapFits
<1>3. CASE p = None
  <2>1. UNCHANGED <<process, killing>>
    BY <1>3 DEF Kill
  <2>2. \A r \in SessionIds : objects[r].process = session[r].process
    BY <1>3
  <2> QED BY <1>1, <2>1, <2>2, SameProcesses
<1>4. CASE p # None /\ process[p] = "alive"
  <2>1. killing' = [killing EXCEPT ![p] = "fiber"] /\ process' = process
    BY <1>4 DEF Kill
  <2>2. \A r \in SessionIds : objects[r].process # None => objects[r] = session[r] /\ r # s
    OBVIOUS
  <2>3. Owned(objects, process', killing', manager)
    <3>1. \A r \in SessionIds : objects[r].process # None => objects[r].process # p
      BY <1>2, <2>2
    <3>2. \A r \in SessionIds :
            objects[r].process # None =>
              /\ process'[objects[r].process] # "none"
              /\ killing'[objects[r].process] = "nobody"
      BY <1>1, <2>1, <2>2, <3>1 DEF Owned
    <3>3. \A q \in Processes : killing'[q] # "nobody" => process'[q] # "none"
      BY <1>1, <1>4, <2>1 DEF Owned
    <3>4. ASSUME manager # "gone", NEW q \in Processes,
                 process'[q] = "alive", killing'[q] = "nobody"
          PROVE  \E r \in SessionIds : objects[r].process = q
      <4>1. q # p /\ killing[q] = "nobody"
        BY <1>1, <2>1, <3>4
      <4>2. PICK r \in SessionIds : session[r].process = q
        BY <1>1, <2>1, <3>4, <4>1 DEF Owned
      <4> QED BY <4>1, <4>2
    <3> QED BY <3>2, <3>3, <3>4 DEF Owned
  <2> QED BY <1>1, <2>1, <2>3
<1>5. CASE p # None /\ process[p] # "alive"
  <2>1. process' = [process EXCEPT ![p] = "none"] /\ killing' = killing
    BY <1>5 DEF Kill
  <2>2. \A r \in SessionIds : objects[r].process # None => objects[r] = session[r] /\ r # s
    OBVIOUS
  <2>3. killing[p] = "nobody"
    BY <1>1, <1>5 DEF Owned
  <2>4. Owned(objects, process', killing', manager)
    <3>1. \A r \in SessionIds : objects[r].process # None => objects[r].process # p
      BY <1>2, <2>2
    <3>2. \A r \in SessionIds :
            objects[r].process # None =>
              /\ process'[objects[r].process] # "none"
              /\ killing'[objects[r].process] = "nobody"
      BY <1>1, <2>1, <2>2, <3>1 DEF Owned, ManagerInvariant, MapsTo, SessionObjects
    <3>3. \A q \in Processes : killing'[q] # "nobody" => process'[q] # "none"
      BY <1>1, <2>1, <2>3 DEF Owned
    <3>4. ASSUME manager # "gone", NEW q \in Processes,
                 process'[q] = "alive", killing'[q] = "nobody"
          PROVE  \E r \in SessionIds : objects[r].process = q
      <4>1. q # p /\ process[q] = "alive"
        BY <1>1, <2>1, <3>4
      <4>2. PICK r \in SessionIds : session[r].process = q
        BY <1>1, <2>1, <3>4, <4>1 DEF Owned
      <4> QED BY <4>1, <4>2
    <3> QED BY <3>2, <3>3, <3>4 DEF Owned
  <2> QED BY <1>1, <2>1, <2>4
<1> QED BY <1>3, <1>4, <1>5

\* What terminal k printed since its last reset is v now.
TextAt(texts, k, v) ==
  /\ texts[k] = v \/ k \in astray
  /\ \A j \in Terminals : j # k => texts[j] = transcript[j]

\* The history writer gets what the terminal printed since its last reset.
LEMMA PutHistory ==
  ASSUME ManagerInvariant, NEW k \in Terminals, NEW v \in Seq(Nat), History!Put(k, v),
         NEW texts, TextAt(texts, k, v)
  PROVE  /\ Told(waiting', inHand', file', texts, astray, manager)
         /\ waiting' = [waiting EXCEPT ![k] = v]
         /\ waiting' \in [Terminals -> Seq(Nat) \cup {None}]
         /\ UNCHANGED <<inHand, file>>
<1>1. waiting \in [Terminals -> Seq(Nat) \cup {None}]
  BY DEF ManagerInvariant, RestTypes
<1>2. /\ waiting' = [waiting EXCEPT ![k] = v]
      /\ UNCHANGED <<inHand, file>>
  BY <1>1 DEF History!Put, Newest
<1>3. Told(waiting', inHand', file', texts, astray, manager)
  <2> SUFFICES ASSUME manager # "gone", NEW j \in Terminals \ astray
               PROVE  Latest(waiting'[j], inHand'[j], file'[j]) = texts[j]
    BY DEF Told
  <2>1. CASE j = k
    BY <1>1, <1>2, <2>1, NoneIsNothing DEF Latest, TextAt
  <2>2. CASE j # k
    <3>1. waiting'[j] = waiting[j]
      BY <1>1, <1>2, <2>2
    <3>2. Latest(waiting[j], inHand[j], file[j]) = transcript[j]
      BY DEF ManagerInvariant, Told
    <3> QED BY <1>2, <2>2, <3>1, <3>2 DEF TextAt
  <2> QED BY <2>1, <2>2
<1> QED BY <1>1, <1>2, <1>3

-----------------------------------------------------------------------------
(* open, restart and clear *)

\* The types, one by one.
LEMMA ManagerTypes ==
  ASSUME ManagerInvariant
  PROVE  /\ sessions \in [Terminals -> SessionIds \cup {None}]
         /\ session \in [SessionIds -> SessionObjects]
         /\ operation \in [Threads -> Operations]
         /\ updatedAt \in SUBSET (SessionIds \X SessionIds)
         /\ astray \in SUBSET Terminals
         /\ waiting \in [Terminals -> Seq(Nat) \cup {None}]
         /\ inHand \in [Terminals -> Seq(Nat) \cup {None}]
         /\ file \in [Terminals -> Seq(Nat) \cup {None}]
         /\ transcript \in [Terminals -> Seq(Nat)]
         /\ deleted \in SUBSET Terminals
BY DEF ManagerInvariant, MapsTo, RestTypes

LEMMA TouchedType ==
  ASSUME ManagerInvariant, NEW s \in SessionIds
  PROVE  Touched(s) \subseteq SessionIds \X SessionIds
BY ManagerTypes DEF Touched

\* Nothing but what runs under the semaphores changes.
LEMMA OnlyOperations ==
  ASSUME ManagerInvariant,
         UNCHANGED <<sessions, session, updatedAt, process, killing, writer, manager,
                     outputs, ghosts>>,
         operation' \in [Threads -> Operations],
         Fits(sessions, session, operation', astray),
         Quiet(operation', waiting, inHand, astray)
  PROVE  ManagerInvariant'
<1>1. /\ sessions' = sessions /\ session' = session /\ updatedAt' = updatedAt
      /\ process' = process /\ killing' = killing /\ manager' = manager
      /\ waiting' = waiting /\ inHand' = inHand /\ file' = file
      /\ outputs' = outputs /\ transcript' = transcript /\ deleted' = deleted
      /\ astray' = astray
  BY DEF writer, ghosts
<1>2. MapsTo(sessions', session', operation')
  BY <1>1 DEF ManagerInvariant, MapsTo
<1>3. RestTypes'
  BY <1>1 DEF ManagerInvariant, RestTypes
<1> QED BY <1>1, <1>2, <1>3 DEF ManagerInvariant

\* The operation of one thread changes.
LEMMA OneOperation ==
  ASSUME ManagerInvariant, NEW t \in Threads, NEW op \in Operations,
         UNCHANGED <<sessions, session, updatedAt, process, killing, writer, manager,
                     outputs, ghosts>>,
         operation' = [operation EXCEPT ![t] = op],
         OperationFits(op, t, sessions, session, astray),
         Quieted(op) /\ op.terminal \notin astray => History!KeyIsIdle(op.terminal)
  PROVE  ManagerInvariant'
<1>1. /\ operation' \in [Threads -> Operations]
      /\ operation'[t] = op
      /\ \A u \in Threads : u # t => operation'[u] = operation[u]
  BY ManagerTypes
<1>2. Fits(sessions, session, operation', astray)
  BY <1>1 DEF ManagerInvariant, Fits
<1>3. Quiet(operation', waiting, inHand, astray)
  BY <1>1 DEF ManagerInvariant, Quiet, History!KeyIsIdle
<1> QED BY <1>1, <1>2, <1>3, OnlyOperations

LEMMA NoOperationType == NoOperation \in Operations
BY DEF NoOperation, Operations

LEMMA OpenMissingPreserves ==
  ASSUME ManagerInvariant, NEW k \in Terminals, OpenMissing(k)
  PROVE  ManagerInvariant'
<1> USE NoneIsNothing
<1> PICK t \in Threads : t = ThreadOf[k]
  OBVIOUS
<1> PICK op : op = [NoOperation EXCEPT !.kind = "open", !.at = "flush", !.terminal = k,
                                       !.session = None]
  OBVIOUS
<1>1. /\ sessions[k] = None
      /\ operation' = [operation EXCEPT ![t] = op]
      /\ UNCHANGED <<sessions, session, updatedAt, process, killing, writer, manager,
                     outputs, ghosts>>
  BY ManagerTypes DEF OpenMissing, MayBegin, Holding
<1>2. /\ op \in Operations
      /\ op.kind = "open" /\ op.at = "flush" /\ op.terminal = k /\ op.session = None
  BY DEF NoOperation, Operations
<1>3. OperationFits(op, t, sessions, session, astray)
  BY <1>1, <1>2 DEF OperationFits
<1>4. ~Quieted(op)
  BY <1>2 DEF Quieted
<1> QED BY <1>1, <1>2, <1>3, <1>4, OneOperation

LEMMA OpenFlushedPreserves ==
  ASSUME ManagerInvariant, NEW t \in Threads, OpenFlushed(t)
  PROVE  ManagerInvariant'
<1> PICK op : op = [operation[t] EXCEPT !.at = "read"]
  OBVIOUS
<1>1. /\ operation[t].kind = "open" /\ operation[t].at = "flush"
      /\ History!KeyIsIdle(operation[t].terminal)
      /\ operation' = [operation EXCEPT ![t] = op]
      /\ UNCHANGED <<sessions, session, updatedAt, process, killing, writer, manager,
                     outputs, ghosts>>
  BY ManagerTypes DEF OpenFlushed, Waits
<1>2. /\ op \in Operations
      /\ op.kind = "open" /\ op.at = "read" /\ op.terminal = operation[t].terminal
      /\ op.session = operation[t].session
  BY <1>1, ManagerTypes DEF Operations
<1>3. OperationFits(operation[t], t, sessions, session, astray)
  BY DEF ManagerInvariant, Fits
<1>4. OperationFits(op, t, sessions, session, astray)
  BY <1>1, <1>2, <1>3 DEF OperationFits
<1> QED BY <1>1, <1>2, <1>4, OneOperation

\* A session of an evicted or unknown terminal is made, and is mapped; the
\* operation op of thread t holds it.
Created(map, objects, operations, t, op, k, s, h) ==
  /\ map = [sessions EXCEPT ![k] = s]
  /\ objects = [session EXCEPT ![s] = Starting(k, h)]
  /\ operations = [operation EXCEPT ![t] = op]
  /\ t = ThreadOf[k]
  /\ (op.kind = "open" /\ op.at = "spawn") \/ (op.kind = "restart" /\ op.at = "drain")
  /\ op.terminal = k
  /\ op.session = s
  /\ sessions[k] = None
  /\ FreeSessions # {}
  /\ s = Any(FreeSessions)

\* Where the new session is, and that all else is where it was.
NewPlace(map, objects, operations, t, k, h) ==
  /\ \A j \in Terminals : j # k => map[j] = sessions[j]
  /\ \A j \in Terminals : j # k /\ map[j] # None => objects[map[j]] = session[map[j]]
  /\ objects[map[k]].history = h
  /\ ~Quieted(operations[t])
  /\ \A u \in Threads : u # t => operations[u] = operation[u]

LEMMA SessionCreated ==
  ASSUME ManagerInvariant, NEW map, NEW objects, NEW operations, NEW t \in Threads,
         NEW op \in Operations, NEW k \in Terminals, NEW s, NEW h \in Seq(Nat),
         Created(map, objects, operations, t, op, k, s, h)
  PROVE  /\ MapsTo(map, objects, operations)
         /\ Fits(map, objects, operations, astray)
         /\ Owned(objects, process, killing, manager)
         /\ s \in SessionIds
         /\ NewPlace(map, objects, operations, t, k, h)
<1> USE NoneIsNothing
<1>1. s \in SessionIds /\ session[s] = Unused
  BY DEF Any, FreeSessions, Created
<1>2. /\ map \in [Terminals -> SessionIds \cup {None}]
      /\ objects \in [SessionIds -> SessionObjects]
      /\ MapFits(map, objects, astray)
  BY <1>1, NewObject DEF Created
<1>3. /\ map[k] = s
      /\ \A j \in Terminals : j # k => map[j] = sessions[j]
      /\ objects[s] = Starting(k, h)
      /\ \A r \in SessionIds : r # s => objects[r] = session[r]
      /\ operations \in [Threads -> Operations]
      /\ operations[t] = op
      /\ \A u \in Threads : u # t => operations[u] = operation[u]
  BY <1>1, ManagerTypes DEF Created
<1>4. /\ Starting(k, h).process = None /\ Unused.process = None
      /\ Starting(k, h).terminal = k /\ Unused.terminal = None
      /\ Starting(k, h).history = h
  BY DEF Starting, Unused
<1>5. OperationFits(op, t, map, objects, astray)
  BY <1>1, <1>3, <1>4 DEF OperationFits, Created
<1>6. Fits(map, objects, operations, astray)
  <2>1. OnlyOf(t, map, objects, operations)
    BY <1>1, <1>3, <1>4 DEF Created, OnlyOf
  <2> QED BY <1>2, <1>3, <1>5, <2>1, OthersFit DEF Created
<1>7. Owned(objects, process, killing, manager)
  <2>1. \A r \in SessionIds : objects[r].process = session[r].process
    BY <1>1, <1>3, <1>4
  <2>2. Owned(session, process, killing, manager)
    BY DEF ManagerInvariant
  <2> QED BY <2>1, <2>2, SameProcesses
<1>8. MapsTo(map, objects, operations)
  BY <1>2, <1>3 DEF MapsTo
<1>9. ASSUME NEW j \in Terminals, j # k, map[j] # None
      PROVE  objects[map[j]] = session[map[j]]
  <2>1. session[sessions[j]].terminal = j /\ sessions[j] \in SessionIds
    BY <1>3, <1>9, ManagerTypes DEF ManagerInvariant, Fits, MapFits
  <2>2. sessions[j] # s
    BY <1>1, <1>4, <2>1
  <2> QED BY <1>3, <1>9, <2>1, <2>2
<1>10. ~Quieted(op)
  BY DEF Quieted, Created
<1>11. NewPlace(map, objects, operations, t, k, h)
  BY <1>3, <1>4, <1>9, <1>10 DEF NewPlace
<1> QED BY <1>1, <1>6, <1>7, <1>8, <1>11

\* Of the operations of others nothing quiet becomes loud.
StillQuiet(operations) ==
  \A u \in Threads : operations[u] = operation[u] \/ ~Quieted(operations[u])

LEMMA OpenCreatesPreserves ==
  ASSUME ManagerInvariant, manager # "gone", NEW t \in Threads, OpenCreates(t)
  PROVE  ManagerInvariant'
<1> USE NoneIsNothing
<1> PICK k : k = operation[t].terminal
  OBVIOUS
<1> PICK s : s = Any(FreeSessions)
  OBVIOUS
<1> PICK h : h = Capped(Content(file[k]))
  OBVIOUS
<1> PICK op : op = [operation[t] EXCEPT !.kind = "open", !.at = "spawn", !.terminal = k,
                                        !.session = s]
  OBVIOUS
<1> PICK map : map = [sessions EXCEPT ![k] = s]
  OBVIOUS
<1> PICK objects : objects = [session EXCEPT ![s] = Starting(k, h)]
  OBVIOUS
<1> PICK operations : operations = [operation EXCEPT ![t] = op]
  OBVIOUS
<1>1. /\ operation[t].kind = "open" /\ operation[t].at = "read"
      /\ FreeSessions # {}
      /\ BecomeAndEvict(map, objects, Touched(s), operations)
      /\ deleted' = deleted \ {k}
      /\ UNCHANGED <<process, killing, writer, manager, outputs, transcript>>
  BY ManagerTypes DEF OpenCreates, Waits, Holding
<1>2. /\ k \in Terminals /\ ThreadOf[k] = t /\ sessions[k] = None
  <2>1. OperationFits(operation[t], t, sessions, session, astray)
    BY DEF ManagerInvariant, Fits
  <2>2. operation[t].terminal \in Terminals \cup {None}
    BY ManagerTypes DEF Operations
  <2> QED BY <1>1, <2>1, <2>2 DEF OperationFits
<1>3. s \in SessionIds
  BY <1>1 DEF Any, FreeSessions
<1>4. /\ op \in Operations
      /\ op.kind = "open" /\ op.at = "spawn" /\ op.terminal = k /\ op.session = s
  <2>1. operation[t] \in Operations
    BY ManagerTypes
  <2> QED BY <1>2, <1>3, <2>1 DEF Operations
<1>5. Content(file[k]) \in Seq(Nat)
  BY <1>2, ManagerTypes DEF Content
<1>6. h \in Seq(Nat)
  BY <1>5, CappedHistory
<1>7. k \notin astray => h = transcript[k]
  <2> HAVE k \notin astray
  <2>1. waiting[k] = None /\ inHand[k] = None
    BY <1>1 DEF ManagerInvariant, Quiet, Quieted
  <2>2. Content(file[k]) = transcript[k]
    BY <1>2, <2>1 DEF ManagerInvariant, Told, Latest
  <2>3. Len(transcript[k]) <= HistoryLimit
    BY <1>2 DEF ManagerInvariant, Short
  <2> QED BY <1>5, <2>2, <2>3, CappedHistory
<1>8. /\ MapsTo(map, objects, operations)
      /\ Fits(map, objects, operations, astray)
      /\ Owned(objects, process, killing, manager)
      /\ NewPlace(map, objects, operations, t, k, h)
  <2>1. Created(map, objects, operations, t, op, k, s, h)
    BY <1>1, <1>2, <1>4 DEF Created
  <2> QED BY <1>2, <1>4, <1>6, <2>1, SessionCreated
<1>9. /\ process' = process /\ killing' = killing /\ manager' = manager
      /\ waiting' = waiting /\ inHand' = inHand /\ file' = file
      /\ outputs' = outputs /\ transcript' = transcript
  BY <1>1 DEF writer
<1>10. RestTypes'
  BY <1>1, <1>9 DEF ManagerInvariant, RestTypes
<1>11. Shown(map, objects, transcript', astray)
  BY <1>7, <1>8, <1>9 DEF ManagerInvariant, NewPlace, Shown
<1>12. Erased(map, waiting', inHand', file', deleted', astray)
  BY <1>1, <1>8, <1>9, ManagerTypes DEF ManagerInvariant, NewPlace, Erased
<1>13. Quiet(operations, waiting', inHand', astray)
  <2>1. StillQuiet(operations)
    BY <1>8 DEF NewPlace, StillQuiet
  <2> QED BY <1>9, <2>1 DEF ManagerInvariant, Quiet, StillQuiet
<1>14. Touched(s) \subseteq SessionIds \X SessionIds
  BY <1>3, TouchedType
<1>15. /\ astray \subseteq Terminals
       /\ Told(waiting', inHand', file', transcript', astray, manager')
       /\ Short(transcript')
       /\ Owned(objects, process', killing', manager')
  BY <1>8, <1>9 DEF ManagerInvariant
<1> QED BY <1>1, <1>8, <1>10, <1>11, <1>12, <1>13, <1>14, <1>15, Settles

LEMMA RestartMissingPreserves ==
  ASSUME ManagerInvariant, NEW k \in Terminals, RestartMissing(k)
  PROVE  ManagerInvariant'
<1> USE NoneIsNothing
<1> PICK t \in Threads : t = ThreadOf[k]
  OBVIOUS
<1> PICK s : s = Any(FreeSessions)
  OBVIOUS
<1> PICK h : h = <<>>
  OBVIOUS
<1> h \in Seq(Nat) /\ Len(h) = 0
  OBVIOUS
<1> PICK op : op = [operation[t] EXCEPT !.kind = "restart", !.at = "drain", !.terminal = k,
                                        !.session = s]
  OBVIOUS
<1> PICK map : map = [sessions EXCEPT ![k] = s]
  OBVIOUS
<1> PICK objects : objects = [session EXCEPT ![s] = Starting(k, h)]
  OBVIOUS
<1> PICK operations : operations = [operation EXCEPT ![t] = op]
  OBVIOUS
<1>1. /\ sessions[k] = None
      /\ FreeSessions # {}
      /\ BecomeAndEvict(map, objects, Touched(s), operations)
      /\ History!Put(k, h)
      /\ transcript' = [transcript EXCEPT ![k] = h]
      /\ deleted' = deleted \ {k}
      /\ UNCHANGED <<process, killing, manager, outputs>>
  BY ManagerTypes DEF RestartMissing, Holding
<1>2. s \in SessionIds
  BY <1>1 DEF Any, FreeSessions
<1>3. /\ op \in Operations
      /\ op.kind = "restart" /\ op.at = "drain" /\ op.terminal = k /\ op.session = s
  <2>1. operation[t] \in Operations
    BY ManagerTypes
  <2> QED BY <1>2, <2>1 DEF Operations
<1>4. /\ MapsTo(map, objects, operations)
      /\ Fits(map, objects, operations, astray)
      /\ Owned(objects, process, killing, manager)
      /\ NewPlace(map, objects, operations, t, k, h)
  <2>1. Created(map, objects, operations, t, op, k, s, h)
    BY <1>1, <1>3 DEF Created
  <2> QED BY <1>3, <2>1, SessionCreated
<1> PICK texts : texts = [transcript EXCEPT ![k] = h]
  OBVIOUS
<1>5. /\ texts \in [Terminals -> Seq(Nat)] /\ texts[k] = h
      /\ \A j \in Terminals : j # k => texts[j] = transcript[j]
  BY ManagerTypes
<1>6. /\ Told(waiting', inHand', file', texts, astray, manager)
      /\ waiting' = [waiting EXCEPT ![k] = h]
      /\ waiting' \in [Terminals -> Seq(Nat) \cup {None}]
      /\ UNCHANGED <<inHand, file>>
  <2>1. TextAt(texts, k, h)
    BY <1>5 DEF TextAt
  <2> QED BY <1>1, <2>1, PutHistory
<1>7. \A j \in Terminals : j # k => waiting'[j] = waiting[j]
  BY <1>6, ManagerTypes
<1>8. RestTypes'
  BY <1>1, <1>5, <1>6 DEF ManagerInvariant, RestTypes
<1>9. Shown(map, objects, transcript', astray)
  BY <1>1, <1>4, <1>5 DEF ManagerInvariant, NewPlace, Shown
<1>10. Erased(map, waiting', inHand', file', deleted', astray)
  BY <1>1, <1>4, <1>6, <1>7, ManagerTypes DEF ManagerInvariant, NewPlace, Erased
<1>11. Quiet(operations, waiting', inHand', astray)
  <2> SUFFICES ASSUME NEW u \in Threads, Quieted(operations[u]),
                      operations[u].terminal \notin astray
               PROVE  /\ waiting'[operations[u].terminal] = None
                      /\ inHand'[operations[u].terminal] = None
    BY DEF Quiet
  <2>1. u # t /\ operations[u] = operation[u]
    BY <1>4 DEF NewPlace
  <2>2. operation[u].terminal \in Terminals /\ ThreadOf[operation[u].terminal] = u
    BY <2>1, ManagerTypes DEF ManagerInvariant, Fits, OperationFits, Quieted, Operations
  <2> QED BY <1>6, <1>7, <2>1, <2>2 DEF ManagerInvariant, Quiet
<1>12. Short(transcript')
  BY <1>1, <1>5 DEF ManagerInvariant, Short
<1>13. Touched(s) \subseteq SessionIds \X SessionIds
  BY <1>2, TouchedType
<1>14. /\ astray \subseteq Terminals
       /\ Told(waiting', inHand', file', transcript', astray, manager')
       /\ Owned(objects, process', killing', manager')
  BY <1>1, <1>4, <1>6 DEF ManagerInvariant
<1> QED BY <1>1, <1>4, <1>8, <1>9, <1>10, <1>11, <1>12, <1>13, <1>14, Settles

\* The session of a terminal whose thread is t changes, and what runs under the
\* semaphore of t.
Changed(objects, operations, t, op, s, o) ==
  /\ objects = [session EXCEPT ![s] = o]
  /\ operations = [operation EXCEPT ![t] = op]
  /\ o.terminal = session[s].terminal
  /\ o.process = None \/ (o.process = session[s].process /\ o.status = session[s].status)
  /\ session[s].terminal = None \/ ThreadOf[session[s].terminal] = t

\* What Changed says, point by point.
ChangedAt(objects, operations, t, op, s, o) ==
  /\ ObjectAt(objects, s, o)
  /\ operations[t] = op
  /\ \A u \in Threads : u # t => operations[u] = operation[u]

LEMMA SessionChanged ==
  ASSUME ManagerInvariant, NEW objects, NEW operations,
         NEW t \in Threads, NEW op \in Operations,
         NEW s \in SessionIds, NEW o \in SessionObjects,
         Changed(objects, operations, t, op, s, o),
         OperationFits(op, t, sessions, objects, astray)
  PROVE  /\ MapsTo(sessions, objects, operations)
         /\ Fits(sessions, objects, operations, astray)
         /\ ChangedAt(objects, operations, t, op, s, o)
<1>1. ChangedAt(objects, operations, t, op, s, o)
  BY ManagerTypes DEF Changed, ChangedAt, ObjectAt
<1>2. /\ objects \in [SessionIds -> SessionObjects]
      /\ MapFits(sessions, objects, astray)
  BY ChangedObject DEF Changed
<1>3. MapsTo(sessions, objects, operations)
  BY <1>2, ManagerTypes DEF MapsTo, Changed
<1>4. Fits(sessions, objects, operations, astray)
  <2>1. OnlyOf(t, sessions, objects, operations)
    BY <1>1 DEF Changed, ChangedAt, ObjectAt, OnlyOf
  <2>2. OperationFits(operations[t], t, sessions, objects, astray)
    BY <1>1 DEF ChangedAt
  <2> QED BY <1>2, <2>1, <2>2, OthersFit
<1> QED BY <1>1, <1>3, <1>4

\* The session a terminal is mapped to is its own.
LEMMA MappedSession ==
  ASSUME ManagerInvariant, NEW k \in Terminals, sessions[k] # None
  PROVE  sessions[k] \in SessionIds /\ session[sessions[k]].terminal = k
BY ManagerTypes DEF ManagerInvariant, Fits, MapFits

\* What a session's terminal gets to write disturbs nobody who waited for quiet.
LEMMA PutMapped ==
  ASSUME ManagerInvariant, NEW k \in Terminals, sessions[k] # None \/ k \in astray,
         NEW v \in Seq(Nat), History!Put(k, v), NEW operations, StillQuiet(operations)
  PROVE  /\ Erased(sessions, waiting', inHand', file', deleted, astray)
         /\ Quiet(operations, waiting', inHand', astray)
<1> USE NoneIsNothing
<1>1. /\ waiting' = [waiting EXCEPT ![k] = v]
      /\ UNCHANGED <<inHand, file>>
  BY ManagerTypes DEF History!Put, Newest
<1>2. \A j \in Terminals : j # k => waiting'[j] = waiting[j]
  BY <1>1, ManagerTypes
<1>3. Erased(sessions, waiting', inHand', file', deleted, astray)
  BY <1>1, <1>2, ManagerTypes DEF ManagerInvariant, Erased
<1>4. Quiet(operations, waiting', inHand', astray)
  <2> SUFFICES ASSUME NEW u \in Threads, Quieted(operations[u]),
                      operations[u].terminal \notin astray
               PROVE  /\ waiting'[operations[u].terminal] = None
                      /\ inHand'[operations[u].terminal] = None
    BY DEF Quiet
  <2>1. operations[u] = operation[u]
    BY DEF StillQuiet
  <2>2. /\ operation[u].terminal \in Terminals
        /\ sessions[operation[u].terminal] = None
    BY <2>1, ManagerTypes DEF ManagerInvariant, Fits, OperationFits, Quieted, Operations
  <2> QED BY <1>1, <1>2, <2>1, <2>2 DEF ManagerInvariant, Quiet
<1> QED BY <1>3, <1>4

LEMMA ResetPreserves ==
  ASSUME ManagerInvariant, NEW k \in Terminals, NEW kind \in {"open", "restart"}, Reset(k, kind)
  PROVE  ManagerInvariant'
<1> USE NoneIsNothing
<1> PICK t \in Threads : t = ThreadOf[k]
  OBVIOUS
<1> PICK s : s = sessions[k]
  OBVIOUS
<1> PICK h : h = <<>>
  OBVIOUS
<1> h \in Seq(Nat) /\ Len(h) = 0
  OBVIOUS
<1> PICK o : o = [Stopped(session[s]) EXCEPT !.history = h]
  OBVIOUS
<1> PICK op : op = [operation[t] EXCEPT !.kind = kind, !.at = "drain", !.terminal = k,
                                        !.session = s]
  OBVIOUS
<1> PICK objects : objects = [session EXCEPT ![s] = o]
  OBVIOUS
<1> PICK operations : operations = [operation EXCEPT ![t] = op]
  OBVIOUS
<1> PICK order : order = IF session[s].process = None THEN updatedAt ELSE Touched(s)
  OBVIOUS
<1>1. s # None
  BY DEF Reset
<1>2. s \in SessionIds /\ session[s].terminal = k
  BY <1>1, MappedSession
<1>3. /\ Kill(session[s].process)
      /\ BecomeAndEvict(sessions, objects, order, operations)
      /\ History!Put(k, h)
      /\ transcript' = [transcript EXCEPT ![k] = h]
      /\ UNCHANGED <<manager, outputs, deleted>>
  BY <1>2, ManagerTypes DEF Reset, Holding
<1>4. /\ o \in SessionObjects
      /\ o.terminal = k /\ o.process = None /\ o.history = h
  <2>1. session[s] \in SessionObjects
    BY <1>2, ManagerTypes
  <2>2. Stopped(session[s]) \in SessionObjects
    BY <2>1 DEF Stopped, SessionObjects
  <2>3. Stopped(session[s]).terminal = k /\ Stopped(session[s]).process = None
    BY <1>2, <2>1 DEF Stopped, SessionObjects
  <2> QED BY <2>2, <2>3 DEF SessionObjects
<1>5. /\ op \in Operations
      /\ op.kind = kind /\ op.at = "drain" /\ op.terminal = k /\ op.session = s
  <2>1. operation[t] \in Operations
    BY ManagerTypes
  <2> QED BY <1>2, <2>1 DEF Operations
<1>6. objects[s] = o
  BY <1>2, ManagerTypes
<1>7. OperationFits(op, t, sessions, objects, astray)
  BY <1>1, <1>4, <1>5, <1>6 DEF OperationFits
<1>8. /\ MapsTo(sessions, objects, operations)
      /\ Fits(sessions, objects, operations, astray)
      /\ ChangedAt(objects, operations, t, op, s, o)
  <2>1. Changed(objects, operations, t, op, s, o)
    BY <1>2, <1>4 DEF Changed
  <2> QED BY <1>2, <1>4, <1>5, <1>7, <2>1, SessionChanged
<1>9. /\ Owned(objects, process', killing', manager)
      /\ process' \in [Processes -> {"none", "alive", "dead"}]
      /\ killing' \in [Processes -> {"nobody", "fiber", "finalizer"}]
  BY <1>2, <1>3, <1>4, <1>8, KilledProcess DEF ChangedAt
<1> PICK texts : texts = [transcript EXCEPT ![k] = h]
  OBVIOUS
<1>10. /\ texts \in [Terminals -> Seq(Nat)] /\ texts[k] = h
       /\ \A j \in Terminals : j # k => texts[j] = transcript[j]
  BY ManagerTypes
<1>11. /\ Told(waiting', inHand', file', texts, astray, manager)
       /\ waiting' \in [Terminals -> Seq(Nat) \cup {None}]
       /\ UNCHANGED <<inHand, file>>
  <2>1. TextAt(texts, k, h)
    BY <1>10 DEF TextAt
  <2> QED BY <1>3, <2>1, PutHistory
<1>12. RestTypes'
  BY <1>3, <1>9, <1>10, <1>11 DEF ManagerInvariant, RestTypes
<1>13. Shown(sessions, objects, transcript', astray)
  <2> SUFFICES ASSUME NEW j \in Terminals \ astray, sessions[j] # None
               PROVE  objects[sessions[j]].history = texts[j]
    BY <1>3 DEF Shown
  <2>1. CASE j = k
    BY <1>4, <1>6, <1>10, <2>1
  <2>2. CASE j # k
    <3>1. sessions[j] \in SessionIds /\ sessions[j] # s
      BY <1>2, <2>2, MappedSession
    <3> QED BY <1>8, <1>10, <2>2, <3>1 DEF ChangedAt, ObjectAt, ManagerInvariant, Shown
  <2> QED BY <2>1, <2>2
<1>14. StillQuiet(operations)
  BY <1>5, <1>8 DEF StillQuiet, ChangedAt, Quieted
<1>15. /\ Erased(sessions, waiting', inHand', file', deleted, astray)
       /\ Quiet(operations, waiting', inHand', astray)
  BY <1>1, <1>3, <1>14, PutMapped
<1>16. Short(transcript')
  BY <1>3, <1>10 DEF ManagerInvariant, Short
<1>17. order \subseteq SessionIds \X SessionIds
  BY <1>2, TouchedType, ManagerTypes
<1>18. /\ astray \subseteq Terminals
       /\ Told(waiting', inHand', file', transcript', astray, manager')
       /\ Owned(objects, process', killing', manager')
       /\ Erased(sessions, waiting', inHand', file', deleted', astray)
  BY <1>3, <1>9, <1>11, <1>15 DEF ManagerInvariant
<1> QED BY <1>3, <1>8, <1>12, <1>13, <1>15, <1>16, <1>17, <1>18, Settles

SameHistories(objects) ==
  \A s \in SessionIds : objects[s].history = session[s].history

\* A step that the history writer and the histories have no part in.
LEMMA HistoriesStay ==
  ASSUME ManagerInvariant, NEW objects, NEW order, NEW operations,
         MapsTo(sessions, objects, operations),
         Fits(sessions, objects, operations, astray),
         order \subseteq SessionIds \X SessionIds,
         \/ Become(sessions, objects, order, operations) /\ UNCHANGED astray
         \/ BecomeAndEvict(sessions, objects, order, operations),
         SameHistories(objects), StillQuiet(operations),
         process' \in [Processes -> {"none", "alive", "dead"}],
         UNCHANGED killing,
         Owned(objects, process', killing, manager),
         UNCHANGED <<writer, manager, outputs, transcript, deleted>>
  PROVE  ManagerInvariant'
<1>1. /\ waiting' = waiting /\ inHand' = inHand /\ file' = file
      /\ manager' = manager /\ outputs' = outputs /\ transcript' = transcript
      /\ deleted' = deleted
  BY DEF writer
<1>2. RestTypes'
  BY <1>1 DEF ManagerInvariant, RestTypes
<1>3. Shown(sessions, objects, transcript', astray)
  BY <1>1, MappedSession DEF ManagerInvariant, Shown, SameHistories
<1>4. Quiet(operations, waiting', inHand', astray)
  BY <1>1 DEF ManagerInvariant, Quiet, StillQuiet
<1>5. /\ astray \subseteq Terminals
      /\ Told(waiting', inHand', file', transcript', astray, manager')
      /\ Erased(sessions, waiting', inHand', file', deleted', astray)
      /\ Short(transcript')
      /\ Owned(objects, process', killing', manager')
  BY <1>1 DEF ManagerInvariant
<1> QED BY <1>2, <1>3, <1>4, <1>5, Settles

LEMMA NoOperationFits ==
  ASSUME NEW t, NEW map, NEW objects, NEW stray
  PROVE  OperationFits(NoOperation, t, map, objects, stray) /\ ~Quieted(NoOperation)
BY DEF OperationFits, NoOperation, Quieted

\* What an operation that waits for the spawn of a shell, or for the history that
\* is written before it, knows of its session.
LEMMA StartingSession ==
  ASSUME ManagerInvariant, NEW t \in Threads, operation[t].kind \in {"open", "restart"},
         operation[t].at \in {"drain", "spawn"}
  PROVE  /\ operation[t].session \in SessionIds
         /\ operation[t].terminal \in Terminals
         /\ ThreadOf[operation[t].terminal] = t
         /\ session[operation[t].session].terminal = operation[t].terminal
         /\ session[operation[t].session].process = None
         /\ \/ sessions[operation[t].terminal] = operation[t].session
            \/ operation[t].terminal \in astray
<1>1. /\ operation[t] \in Operations
      /\ OperationFits(operation[t], t, sessions, session, astray)
  BY ManagerTypes DEF ManagerInvariant, Fits
<1> QED BY <1>1, NoneIsNothing DEF OperationFits, Operations

LEMMA StartsPreserves ==
  ASSUME ManagerInvariant, NEW t \in Threads, Starts(t)
  PROVE  ManagerInvariant'
<1> USE NoneIsNothing
<1> PICK s : s = operation[t].session
  OBVIOUS
<1> PICK o : o = [session[s] EXCEPT !.status = "starting"]
  OBVIOUS
<1> PICK op : op = [operation[t] EXCEPT !.at = "spawn"]
  OBVIOUS
<1> PICK objects : objects = [session EXCEPT ![s] = o]
  OBVIOUS
<1> PICK operations : operations = [operation EXCEPT ![t] = op]
  OBVIOUS
<1>1. /\ operation[t].kind \in {"open", "restart"} /\ operation[t].at = "drain"
      /\ s \in SessionIds
      /\ session[s].terminal = operation[t].terminal
      /\ session[s].process = None
      /\ operation[t].terminal \in Terminals /\ ThreadOf[operation[t].terminal] = t
  BY StartingSession DEF Starts, Waits
<1>2. /\ Become(sessions, objects, Touched(s), operations)
      /\ UNCHANGED <<process, killing, writer, manager, outputs, ghosts>>
  BY <1>1, ManagerTypes DEF Starts
<1>3. /\ o \in SessionObjects /\ o.terminal = session[s].terminal
      /\ o.process = None /\ o.history = session[s].history
  <2>1. session[s] \in SessionObjects
    BY <1>1, <1>2, ManagerTypes
  <2> QED BY <1>1, <1>2, <2>1 DEF SessionObjects
<1>4. /\ op \in Operations /\ op.kind = operation[t].kind /\ op.at = "spawn"
      /\ op.terminal = operation[t].terminal /\ op.session = s
  <2>1. operation[t] \in Operations
    BY ManagerTypes
  <2> QED BY <1>1, <2>1 DEF Operations
<1>5. ObjectAt(objects, s, o)
  BY <1>1, ManagerTypes DEF ObjectAt
<1>6. OperationFits(op, t, sessions, objects, astray)
  <2>1. OperationFits(operation[t], t, sessions, session, astray)
    BY DEF ManagerInvariant, Fits
  <2> QED BY <1>1, <1>3, <1>4, <1>5, <2>1 DEF OperationFits, ObjectAt
<1>7. /\ MapsTo(sessions, objects, operations)
      /\ Fits(sessions, objects, operations, astray)
      /\ ChangedAt(objects, operations, t, op, s, o)
  <2>1. Changed(objects, operations, t, op, s, o)
    BY <1>1, <1>3 DEF Changed
  <2> QED BY <1>1, <1>3, <1>4, <1>6, <2>1, SessionChanged
<1>8. SameHistories(objects)
  BY <1>3, <1>5 DEF SameHistories, ObjectAt
<1>9. StillQuiet(operations)
  BY <1>4, <1>7 DEF StillQuiet, ChangedAt, Quieted
<1>10. Owned(objects, process, killing, manager)
  <2>1. \A r \in SessionIds : objects[r].process = session[r].process
    BY <1>1, <1>3, <1>5 DEF ObjectAt
  <2> QED BY <2>1, SameProcesses DEF ManagerInvariant
<1>11. /\ Touched(s) \subseteq SessionIds \X SessionIds
       /\ process' = process /\ UNCHANGED <<killing, astray>>
       /\ process' \in [Processes -> {"none", "alive", "dead"}]
       /\ UNCHANGED <<writer, manager, outputs, transcript, deleted>>
  BY <1>1, <1>2, TouchedType DEF ManagerInvariant, RestTypes, ghosts
<1> QED BY <1>2, <1>7, <1>8, <1>9, <1>10, <1>11, HistoriesStay

LEMMA SpawnFailsPreserves ==
  ASSUME ManagerInvariant, NEW t \in Threads, SpawnFails(t)
  PROVE  ManagerInvariant'
<1> USE NoneIsNothing
<1> PICK s : s = operation[t].session
  OBVIOUS
<1> PICK o : o = [session[s] EXCEPT !.status = "error"]
  OBVIOUS
<1> PICK objects : objects = [session EXCEPT ![s] = o]
  OBVIOUS
<1> PICK operations : operations = [operation EXCEPT ![t] = NoOperation]
  OBVIOUS
<1>1. /\ s \in SessionIds
      /\ session[s].terminal = operation[t].terminal
      /\ session[s].process = None
      /\ operation[t].terminal \in Terminals /\ ThreadOf[operation[t].terminal] = t
  BY StartingSession DEF SpawnFails, Waits
<1>2. /\ BecomeAndEvict(sessions, objects, Touched(s), operations)
      /\ UNCHANGED <<process, killing, writer, manager, outputs, transcript, deleted>>
  BY <1>1, ManagerTypes DEF SpawnFails, Released
<1>3. /\ o \in SessionObjects /\ o.terminal = session[s].terminal
      /\ o.process = None /\ o.history = session[s].history
  <2>1. session[s] \in SessionObjects
    BY <1>1, <1>2, ManagerTypes
  <2> QED BY <1>1, <1>2, <2>1 DEF SessionObjects
<1>4. ObjectAt(objects, s, o)
  BY <1>1, ManagerTypes DEF ObjectAt
<1>5. /\ MapsTo(sessions, objects, operations)
      /\ Fits(sessions, objects, operations, astray)
      /\ ChangedAt(objects, operations, t, NoOperation, s, o)
  <2>1. Changed(objects, operations, t, NoOperation, s, o)
    BY <1>1, <1>3 DEF Changed
  <2> QED BY <1>1, <1>3, <2>1, NoOperationType, NoOperationFits, SessionChanged
<1>6. SameHistories(objects)
  BY <1>3, <1>4 DEF SameHistories, ObjectAt
<1>7. StillQuiet(operations)
  BY <1>5, NoOperationFits DEF StillQuiet, ChangedAt
<1>8. Owned(objects, process, killing, manager)
  <2>1. \A r \in SessionIds : objects[r].process = session[r].process
    BY <1>1, <1>3, <1>4 DEF ObjectAt
  <2> QED BY <2>1, SameProcesses DEF ManagerInvariant
<1>9. /\ Touched(s) \subseteq SessionIds \X SessionIds
      /\ process' = process /\ UNCHANGED killing
      /\ process' \in [Processes -> {"none", "alive", "dead"}]
      /\ UNCHANGED <<writer, manager, outputs, transcript, deleted>>
  BY <1>1, <1>2, TouchedType DEF ManagerInvariant, RestTypes
<1> QED BY <1>2, <1>5, <1>6, <1>7, <1>8, <1>9, HistoriesStay

LEMMA SpawnSucceedsPreserves ==
  ASSUME ManagerInvariant, NEW t \in Threads, SpawnSucceeds(t)
  PROVE  ManagerInvariant'
<1> USE NoneIsNothing
<1> PICK s : s = operation[t].session
  OBVIOUS
<1> PICK p : p = Any(FreeProcesses)
  OBVIOUS
<1> PICK o : o = [session[s] EXCEPT !.status = "running", !.process = p]
  OBVIOUS
<1> PICK objects : objects = [session EXCEPT ![s] = o]
  OBVIOUS
<1> PICK operations : operations = [operation EXCEPT ![t] = NoOperation]
  OBVIOUS
<1>1. /\ s \in SessionIds
      /\ session[s].terminal = operation[t].terminal
      /\ session[s].process = None
      /\ operation[t].terminal \in Terminals /\ ThreadOf[operation[t].terminal] = t
      /\ sessions[operation[t].terminal] = s \/ operation[t].terminal \in astray
  BY StartingSession DEF SpawnSucceeds, Waits
<1>2. p \in Processes /\ process[p] = "none"
  BY DEF SpawnSucceeds, Any, FreeProcesses
<1>3. /\ Become(sessions, objects, Touched(s), operations)
      /\ process' = [process EXCEPT ![p] = "alive"]
      /\ UNCHANGED <<killing, writer, manager, outputs, ghosts>>
  BY <1>1, ManagerTypes DEF SpawnSucceeds, Released
<1>4. /\ o \in SessionObjects /\ o.terminal = session[s].terminal
      /\ o.process = p /\ o.status = "running" /\ o.history = session[s].history
  <2>1. session[s] \in SessionObjects
    BY <1>1, <1>2, ManagerTypes
  <2> QED BY <1>1, <1>2, <2>1 DEF SessionObjects
<1>5. ObjectAt(objects, s, o)
  BY <1>1, ManagerTypes DEF ObjectAt
<1>6. /\ Owned(session, process, killing, manager)
      /\ process \in [Processes -> {"none", "alive", "dead"}]
      /\ killing \in [Processes -> {"nobody", "fiber", "finalizer"}]
      /\ MapFits(sessions, session, astray)
  BY DEF ManagerInvariant, RestTypes, Fits
<1>7. \A r \in SessionIds : session[r].process # p
  BY <1>2, <1>6 DEF Owned
<1>8. MapFits(sessions, objects, astray)
  <2>1. \A k \in Terminals : sessions[k] # None => objects[sessions[k]].terminal = k
    <3>1. \A r \in SessionIds : objects[r].terminal = session[r].terminal
      BY <1>4, <1>5 DEF ObjectAt
    <3> QED BY <3>1, MappedSession
  <2>2. ASSUME NEW r \in SessionIds, objects[r].process # None
        PROVE  /\ objects[r].status = "running"
               /\ objects[r].terminal # None
               /\ sessions[objects[r].terminal] = r \/ objects[r].terminal \in astray
    BY <1>1, <1>4, <1>5, <1>6, <2>2 DEF ObjectAt, MapFits
  <2>3. \A q, r \in SessionIds :
         objects[r].process # None /\ objects[r].process = objects[q].process => r = q
    BY <1>4, <1>5, <1>6, <1>7 DEF ObjectAt, MapFits
  <2> QED BY <2>1, <2>2, <2>3 DEF MapFits
<1>9. /\ operations \in [Threads -> Operations]
      /\ operations[t] = NoOperation
      /\ \A u \in Threads : u # t => operations[u] = operation[u]
  BY ManagerTypes, NoOperationType
<1>10. Fits(sessions, objects, operations, astray)
  <2>1. OnlyOf(t, sessions, objects, operations)
    BY <1>1, <1>5, <1>9 DEF ObjectAt, OnlyOf
  <2> QED BY <1>8, <1>9, <2>1, NoOperationFits, OthersFit
<1>11. MapsTo(sessions, objects, operations)
  BY <1>4, <1>9, ManagerTypes DEF MapsTo
<1>12. SameHistories(objects)
  BY <1>4, <1>5 DEF SameHistories, ObjectAt
<1>13. StillQuiet(operations)
  BY <1>9, NoOperationFits DEF StillQuiet
<1>14. Owned(objects, process', killing, manager)
  <2>1. killing[p] = "nobody"
    BY <1>2, <1>6 DEF Owned
  <2>2. /\ process'[p] = "alive"
        /\ \A q \in Processes : q # p => process'[q] = process[q]
    BY <1>2, <1>3, <1>6
  <2>3. ASSUME NEW r \in SessionIds, objects[r].process # None
        PROVE  /\ process'[objects[r].process] # "none"
               /\ killing[objects[r].process] = "nobody"
    <3>1. CASE r = s
      <4>1. objects[r].process = p
        BY <1>4, <1>5, <3>1 DEF ObjectAt
      <4> QED BY <2>1, <2>2, <4>1
    <3>2. CASE r # s
      <4>1. /\ objects[r].process = session[r].process
            /\ session[r].process \in Processes /\ session[r].process # p
        BY <1>5, <1>7, <2>3, <3>2, ManagerTypes DEF ObjectAt, SessionObjects
      <4> QED BY <1>6, <2>2, <2>3, <4>1 DEF Owned
    <3> QED BY <3>1, <3>2
  <2>4. ASSUME manager # "gone", NEW q \in Processes, process'[q] = "alive",
               killing[q] = "nobody"
        PROVE  \E r \in SessionIds : objects[r].process = q
    <3>1. CASE q = p
      BY <1>1, <1>4, <1>5, <3>1 DEF ObjectAt
    <3>2. CASE q # p
      <4>1. PICK r \in SessionIds : session[r].process = q
        BY <1>6, <2>2, <2>4, <3>2 DEF Owned
      <4>2. r # s
        BY <1>1, <2>4, <4>1
      <4> QED BY <1>5, <4>1, <4>2 DEF ObjectAt
    <3> QED BY <3>1, <3>2
  <2>5. \A q \in Processes : killing[q] # "nobody" => process'[q] # "none"
    BY <1>6, <2>2 DEF Owned
  <2> QED BY <2>3, <2>4, <2>5 DEF Owned
<1>15. /\ Touched(s) \subseteq SessionIds \X SessionIds
       /\ UNCHANGED <<killing, astray>>
       /\ UNCHANGED <<writer, manager, outputs, transcript, deleted>>
  BY <1>1, <1>3, TouchedType DEF ghosts
<1>16. process' \in [Processes -> {"none", "alive", "dead"}]
  BY <1>3, <1>6
<1> QED BY <1>3, <1>10, <1>11, <1>12, <1>13, <1>14, <1>15, <1>16, HistoriesStay

LEMMA ResizePreserves ==
  ASSUME ManagerInvariant, NEW k \in Terminals, Resize(k)
  PROVE  ManagerInvariant'
<1> PICK s : s = sessions[k]
  OBVIOUS
<1>1. /\ Become(sessions, session, Touched(s), operation)
      /\ UNCHANGED <<process, killing, writer, manager, outputs, ghosts>>
  BY DEF Resize
<1>2. s \in SessionIds
  BY MappedSession DEF Resize
<1>3. /\ Touched(s) \subseteq SessionIds \X SessionIds
      /\ UNCHANGED <<killing, astray, writer, manager, outputs, transcript, deleted>>
      /\ process' = process
  BY <1>1, <1>2, TouchedType DEF ghosts
<1>4. /\ MapsTo(sessions, session, operation)
      /\ Fits(sessions, session, operation, astray)
      /\ Owned(session, process', killing, manager)
      /\ process' \in [Processes -> {"none", "alive", "dead"}]
  BY <1>3 DEF ManagerInvariant, RestTypes
<1>5. SameHistories(session) /\ StillQuiet(operation)
  BY DEF SameHistories, StillQuiet
<1> QED BY <1>1, <1>3, <1>4, <1>5, HistoriesStay

LEMMA ClearPreserves ==
  ASSUME ManagerInvariant, NEW k \in Terminals, Clear(k)
  PROVE  ManagerInvariant'
<1> USE NoneIsNothing
<1> PICK t \in Threads : t = ThreadOf[k]
  OBVIOUS
<1> PICK s : s = sessions[k]
  OBVIOUS
<1> PICK h : h = <<>>
  OBVIOUS
<1> h \in Seq(Nat) /\ Len(h) = 0
  OBVIOUS
<1> PICK o : o = [session[s] EXCEPT !.history = h]
  OBVIOUS
<1> PICK op : op = [operation[t] EXCEPT !.kind = "clear", !.at = "drain", !.terminal = k,
                                        !.session = s]
  OBVIOUS
<1> PICK objects : objects = [session EXCEPT ![s] = o]
  OBVIOUS
<1> PICK operations : operations = [operation EXCEPT ![t] = op]
  OBVIOUS
<1>1. s # None
  BY DEF Clear
<1>2. s \in SessionIds /\ session[s].terminal = k
  BY <1>1, MappedSession
<1>3. /\ Become(sessions, objects, Touched(s), operations)
      /\ History!Put(k, h)
      /\ transcript' = [transcript EXCEPT ![k] = h]
      /\ UNCHANGED <<process, killing, manager, outputs, deleted, astray>>
  BY <1>2, ManagerTypes DEF Clear, Holding
<1>4. /\ o \in SessionObjects
      /\ o.terminal = session[s].terminal /\ o.process = session[s].process
      /\ o.status = session[s].status /\ o.history = h
  <2>1. session[s] \in SessionObjects
    BY <1>1, <1>2, ManagerTypes
  <2> QED BY <1>1, <1>2, <2>1 DEF SessionObjects
<1>5. /\ op \in Operations
      /\ op.kind = "clear" /\ op.at = "drain" /\ op.terminal = k /\ op.session = s
  <2>1. operation[t] \in Operations
    BY ManagerTypes
  <2> QED BY <1>2, <2>1 DEF Operations
<1>6. ObjectAt(objects, s, o)
  BY <1>2, ManagerTypes DEF ObjectAt
<1>7. OperationFits(op, t, sessions, objects, astray)
  BY <1>1, <1>2, <1>4, <1>5, <1>6 DEF OperationFits, ObjectAt
<1>8. /\ MapsTo(sessions, objects, operations)
      /\ Fits(sessions, objects, operations, astray)
      /\ ChangedAt(objects, operations, t, op, s, o)
  <2>1. Changed(objects, operations, t, op, s, o)
    BY <1>2, <1>4 DEF Changed
  <2> QED BY <1>2, <1>4, <1>5, <1>7, <2>1, SessionChanged
<1>9. Owned(objects, process, killing, manager)
  <2>1. \A r \in SessionIds : objects[r].process = session[r].process
    BY <1>2, <1>4, <1>6 DEF ObjectAt
  <2> QED BY <2>1, SameProcesses DEF ManagerInvariant
<1> PICK texts : texts = [transcript EXCEPT ![k] = h]
  OBVIOUS
<1>10. /\ texts \in [Terminals -> Seq(Nat)] /\ texts[k] = h
       /\ \A j \in Terminals : j # k => texts[j] = transcript[j]
  BY ManagerTypes
<1>11. /\ Told(waiting', inHand', file', texts, astray, manager)
       /\ waiting' \in [Terminals -> Seq(Nat) \cup {None}]
       /\ UNCHANGED <<inHand, file>>
  <2>1. TextAt(texts, k, h)
    BY <1>10 DEF TextAt
  <2> QED BY <1>3, <2>1, PutHistory
<1>12. RestTypes'
  BY <1>3, <1>10, <1>11 DEF ManagerInvariant, RestTypes
<1>13. Shown(sessions, objects, transcript', astray)
  <2> SUFFICES ASSUME NEW j \in Terminals \ astray, sessions[j] # None
               PROVE  objects[sessions[j]].history = texts[j]
    BY <1>3 DEF Shown
  <2>1. CASE j = k
    BY <1>4, <1>6, <1>10, <2>1 DEF ObjectAt
  <2>2. CASE j # k
    <3>1. sessions[j] \in SessionIds /\ sessions[j] # s
      BY <1>2, <2>2, MappedSession
    <3> QED BY <1>6, <1>10, <2>2, <3>1 DEF ObjectAt, ManagerInvariant, Shown
  <2> QED BY <2>1, <2>2
<1>14. StillQuiet(operations)
  BY <1>5, <1>8 DEF StillQuiet, ChangedAt, Quieted
<1>15. /\ Erased(sessions, waiting', inHand', file', deleted, astray)
       /\ Quiet(operations, waiting', inHand', astray)
  BY <1>1, <1>3, <1>14, PutMapped
<1>16. Short(transcript')
  BY <1>3, <1>10 DEF ManagerInvariant, Short
<1>17. /\ Touched(s) \subseteq SessionIds \X SessionIds
       /\ astray \subseteq Terminals
       /\ Told(waiting', inHand', file', transcript', astray, manager')
       /\ Owned(objects, process', killing', manager')
       /\ Erased(sessions, waiting', inHand', file', deleted', astray)
  BY <1>2, <1>3, <1>9, <1>11, <1>15, TouchedType DEF ManagerInvariant
<1> QED BY <1>3, <1>8, <1>12, <1>13, <1>15, <1>16, <1>17, Settles

LEMMA ClearedPreserves ==
  ASSUME ManagerInvariant, NEW t \in Threads, Cleared(t)
  PROVE  ManagerInvariant'
<1> PICK operations : operations = [operation EXCEPT ![t] = NoOperation]
  OBVIOUS
<1>1. /\ Become(sessions, session, updatedAt, operations)
      /\ UNCHANGED <<process, killing, writer, manager, outputs, ghosts>>
  BY DEF Cleared, Released
<1>2. /\ operations \in [Threads -> Operations]
      /\ operations[t] = NoOperation
      /\ \A u \in Threads : u # t => operations[u] = operation[u]
  BY ManagerTypes, NoOperationType
<1>3. MapsTo(sessions, session, operations)
  BY <1>2, ManagerTypes DEF MapsTo
<1>4. Fits(sessions, session, operations, astray)
  BY <1>2, NoOperationFits DEF ManagerInvariant, Fits
<1>5. /\ updatedAt \subseteq SessionIds \X SessionIds
      /\ UNCHANGED <<killing, astray, writer, manager, outputs, transcript, deleted>>
      /\ Owned(session, process', killing, manager)
      /\ process' \in [Processes -> {"none", "alive", "dead"}]
  BY <1>1 DEF ManagerInvariant, RestTypes, ghosts
<1>6. SameHistories(session) /\ StillQuiet(operations)
  BY <1>2, NoOperationFits DEF SameHistories, StillQuiet
<1> QED BY <1>1, <1>3, <1>4, <1>5, <1>6, HistoriesStay

-----------------------------------------------------------------------------
(* close *)

\* The operation that closes terminal k next.
Closes(op, t, k) ==
  /\ ThreadOf[k] = t
  /\ op.session = None
  /\ op.kind \in {"close", "closeThread"}
  /\ op.kind = "closeThread" =>
       /\ \A j \in op.rest : ThreadOf[j] = t
       /\ \A j \in Terminals : ThreadOf[j] = t /\ sessions[j] # None => j \in op.rest \/ j = k

\* The first half of closeSession, for close and for each terminal of closeThread.
LEMMA CloseBeginsPreserves ==
  ASSUME ManagerInvariant, NEW t \in Threads, NEW k \in Terminals, NEW op \in Operations,
         Closes(op, t, k), CloseBegins(t, k, op),
         UNCHANGED <<manager, outputs, transcript, deleted>>
  PROVE  ManagerInvariant'
<1> USE NoneIsNothing
<1> PICK s : s = sessions[k]
  OBVIOUS
<1>1. CASE s = None
  <2> PICK op2 : op2 = [op EXCEPT !.at = "flush", !.terminal = k]
    OBVIOUS
  <2>1. /\ operation' = [operation EXCEPT ![t] = op2]
        /\ UNCHANGED <<sessions, session, updatedAt, process, killing, writer, manager,
                       outputs, ghosts>>
    BY <1>1 DEF CloseBegins, ghosts
  <2>2. /\ op2 \in Operations /\ op2.kind = op.kind /\ op2.at = "flush"
        /\ op2.terminal = k /\ op2.session = None /\ op2.rest = op.rest
    BY DEF Operations, Closes
  <2>3. OperationFits(op2, t, sessions, session, astray)
    BY <1>1, <2>2 DEF OperationFits, Closes
  <2>4. ~Quieted(op2)
    BY <2>2 DEF Quieted
  <2> QED BY <2>1, <2>2, <2>3, <2>4, OneOperation
<1>2. CASE s # None
  <2> PICK o : o = Stopped(session[s])
    OBVIOUS
  <2> PICK op2 : op2 = [op EXCEPT !.at = "flush", !.terminal = k, !.session = s]
    OBVIOUS
  <2> PICK objects : objects = [session EXCEPT ![s] = o]
    OBVIOUS
  <2> PICK operations : operations = [operation EXCEPT ![t] = op2]
    OBVIOUS
  <2> PICK order : order = IF session[s].process = None THEN updatedAt ELSE Touched(s)
    OBVIOUS
  <2> PICK h : h = session[s].history
    OBVIOUS
  <2>1. s \in SessionIds /\ session[s].terminal = k
    BY <1>2, MappedSession
  <2>2. /\ Kill(session[s].process)
        /\ BecomeAndEvict(sessions, objects, order, operations)
        /\ History!Put(k, h)
    BY <1>2, <2>1, ManagerTypes DEF CloseBegins
  <2>3. session[s] \in SessionObjects
    BY <2>1, ManagerTypes
  <2>4. /\ o \in SessionObjects /\ o.terminal = session[s].terminal /\ o.process = None
        /\ o.history = session[s].history /\ h \in Seq(Nat)
    BY <2>3 DEF Stopped, SessionObjects
  <2>5. /\ op2 \in Operations /\ op2.kind = op.kind /\ op2.at = "flush"
        /\ op2.terminal = k /\ op2.session = s /\ op2.rest = op.rest
    BY <2>1 DEF Operations
  <2>6. ObjectAt(objects, s, o)
    BY <2>1, ManagerTypes DEF ObjectAt
  <2>7. OperationFits(op2, t, sessions, objects, astray)
    BY <1>2, <2>1, <2>4, <2>5, <2>6 DEF OperationFits, ObjectAt, Closes
  <2>8. /\ MapsTo(sessions, objects, operations)
        /\ Fits(sessions, objects, operations, astray)
        /\ ChangedAt(objects, operations, t, op2, s, o)
    <3>1. Changed(objects, operations, t, op2, s, o)
      BY <2>1, <2>4 DEF Changed, Closes
    <3> QED BY <2>1, <2>4, <2>5, <2>7, <3>1, SessionChanged
  <2>9. /\ Owned(objects, process', killing', manager)
        /\ process' \in [Processes -> {"none", "alive", "dead"}]
        /\ killing' \in [Processes -> {"nobody", "fiber", "finalizer"}]
    BY <2>1, <2>2, <2>4, <2>6, KilledProcess
  <2>10. transcript[k] = h \/ k \in astray
    BY <1>2 DEF ManagerInvariant, Shown
  <2>11. /\ Told(waiting', inHand', file', transcript, astray, manager)
         /\ waiting' \in [Terminals -> Seq(Nat) \cup {None}]
         /\ UNCHANGED <<inHand, file>>
    BY <2>2, <2>4, <2>10, PutHistory DEF TextAt
  <2>12. RestTypes'
    BY <2>9, <2>11 DEF ManagerInvariant, RestTypes
  <2>13. Shown(sessions, objects, transcript, astray)
    <3>1. \A r \in SessionIds : objects[r].history = session[r].history
      BY <2>4, <2>6 DEF ObjectAt
    <3> QED BY <3>1, MappedSession DEF ManagerInvariant, Shown
  <2>14. StillQuiet(operations)
    BY <2>5, <2>8 DEF StillQuiet, ChangedAt, Quieted
  <2>15. /\ Erased(sessions, waiting', inHand', file', deleted, astray)
         /\ Quiet(operations, waiting', inHand', astray)
    BY <1>2, <2>2, <2>4, <2>14, PutMapped
  <2>16. order \subseteq SessionIds \X SessionIds
    BY <2>1, TouchedType, ManagerTypes
  <2>17. /\ astray \subseteq Terminals
         /\ Told(waiting', inHand', file', transcript', astray, manager')
         /\ Owned(objects, process', killing', manager')
         /\ Erased(sessions, waiting', inHand', file', deleted', astray)
         /\ Shown(sessions, objects, transcript', astray)
         /\ Short(transcript')
    BY <2>9, <2>11, <2>13, <2>15 DEF ManagerInvariant
  <2> QED BY <2>2, <2>8, <2>12, <2>15, <2>16, <2>17, Settles
<1> QED BY <1>1, <1>2

LEMMA ClosePreserves ==
  ASSUME ManagerInvariant, NEW k \in Terminals, NEW deleteHistory \in BOOLEAN,
         Close(k, deleteHistory)
  PROVE  ManagerInvariant'
<1> PICK t \in Threads : t = ThreadOf[k]
  BY NoneIsNothing
<1> PICK op : op = [NoOperation EXCEPT !.kind = "close", !.deleteHistory = deleteHistory]
  OBVIOUS
<1>1. /\ op \in Operations /\ op.kind = "close" /\ op.session = None
  BY DEF NoOperation, Operations
<1>2. CloseBegins(t, k, op) /\ UNCHANGED <<manager, outputs, transcript, deleted>>
  BY DEF Close
<1>3. Closes(op, t, k)
  BY <1>1 DEF Closes
<1> QED BY <1>1, <1>2, <1>3, CloseBeginsPreserves

LEMMA CloseThreadPreserves ==
  ASSUME ManagerInvariant, NEW t \in Threads, NEW deleteHistory \in BOOLEAN,
         CloseThread(t, deleteHistory)
  PROVE  ManagerInvariant'
<1> USE NoneIsNothing
<1> PICK rest : rest = {k \in Terminals : ThreadOf[k] = t /\ sessions[k] # None}
  OBVIOUS
<1> PICK op : op = [NoOperation EXCEPT !.kind = "closeThread", !.at = "next",
                                       !.deleteHistory = deleteHistory, !.rest = rest]
  OBVIOUS
<1>1. /\ operation' = [operation EXCEPT ![t] = op]
      /\ UNCHANGED <<sessions, session, updatedAt, process, killing, writer, manager,
                     outputs, ghosts>>
  BY DEF CloseThread
<1>2. /\ op \in Operations /\ op.kind = "closeThread" /\ op.at = "next"
      /\ op.terminal = None /\ op.session = None /\ op.rest = rest
  BY DEF NoOperation, Operations
<1>3. OperationFits(op, t, sessions, session, astray)
  BY <1>2 DEF OperationFits
<1>4. ~Quieted(op)
  BY <1>2 DEF Quieted
<1> QED BY <1>1, <1>2, <1>3, <1>4, OneOperation

LEMMA CloseNextPreserves ==
  ASSUME ManagerInvariant, NEW t \in Threads, CloseNext(t)
  PROVE  ManagerInvariant'
<1> USE NoneIsNothing
<1>1. /\ operation[t] \in Operations
      /\ operation[t].kind = "closeThread" /\ operation[t].at = "next"
      /\ OperationFits(operation[t], t, sessions, session, astray)
      /\ UNCHANGED <<manager, outputs, transcript, deleted>>
  BY ManagerTypes DEF CloseNext, Waits, ManagerInvariant, Fits
<1>2. PICK k \in operation[t].rest :
        CloseBegins(t, k, [operation[t] EXCEPT !.rest = @ \ {k}])
  BY DEF CloseNext
<1> PICK op : op = [operation[t] EXCEPT !.rest = @ \ {k}]
  OBVIOUS
<1>3. /\ op \in Operations /\ op.kind = "closeThread"
      /\ op.session = operation[t].session /\ op.rest = operation[t].rest \ {k}
      /\ k \in Terminals
  BY <1>1 DEF Operations
<1>4. Closes(op, t, k)
  BY <1>1, <1>3 DEF OperationFits, Closes
<1>5. CloseBegins(t, k, op)
  BY <1>2
<1> QED BY <1>1, <1>3, <1>4, <1>5, CloseBeginsPreserves

LEMMA CloseFlushedPreserves ==
  ASSUME ManagerInvariant, NEW t \in Threads, CloseFlushed(t)
  PROVE  ManagerInvariant'
<1> USE NoneIsNothing
<1> PICK op : op = operation[t]
  OBVIOUS
<1> PICK k : k = op.terminal
  OBVIOUS
<1> PICK done : done = IF op.kind = "closeThread"
                       THEN [op EXCEPT !.at = "next", !.session = None]
                       ELSE IF op.deleteHistory
                       THEN [op EXCEPT !.at = "delete", !.session = None]
                       ELSE NoOperation
  OBVIOUS
<1> PICK map : map = [sessions EXCEPT ![k] = None]
  OBVIOUS
<1> PICK operations : operations = [operation EXCEPT ![t] = done]
  OBVIOUS
<1>1. /\ op.kind \in {"close", "closeThread"} /\ op.at = "flush"
      /\ History!KeyIsIdle(k)
      /\ Become(map, session, updatedAt, operations)
      /\ UNCHANGED <<process, killing, writer, manager, outputs, ghosts>>
  BY DEF CloseFlushed, Waits
<1>2. /\ op \in Operations
      /\ OperationFits(op, t, sessions, session, astray)
  BY ManagerTypes DEF ManagerInvariant, Fits
<1>3. /\ k \in Terminals /\ ThreadOf[k] = t /\ sessions[k] \in {None, op.session}
      /\ op.session # None => session[op.session].process = None
  BY <1>1, <1>2 DEF OperationFits, Operations
<1>4. /\ map \in [Terminals -> SessionIds \cup {None}]
      /\ map[k] = None
      /\ \A j \in Terminals : j # k => map[j] = sessions[j]
  BY <1>3, ManagerTypes
<1>5. /\ done \in Operations
      /\ \/ done = NoOperation
         \/ /\ done.kind = "closeThread" /\ done.at = "next" /\ done.terminal = k
            /\ done.session = None /\ done.rest = op.rest /\ op.kind = "closeThread"
         \/ /\ done.kind = "close" /\ done.at = "delete" /\ done.terminal = k
            /\ done.session = None
  <2>1. CASE op.kind = "closeThread"
    BY <1>2, <2>1 DEF Operations
  <2>2. CASE op.kind = "close" /\ op.deleteHistory
    BY <1>2, <2>2 DEF Operations
  <2>3. CASE op.kind = "close" /\ ~op.deleteHistory
    BY <2>3, NoOperationType
  <2> QED BY <1>1, <2>1, <2>2, <2>3
<1>6. OperationFits(done, t, map, session, astray)
  <2>1. CASE done = NoOperation
    BY <2>1, NoOperationFits
  <2>2. CASE /\ done.kind = "closeThread" /\ done.at = "next" /\ done.terminal = k
             /\ done.session = None /\ done.rest = op.rest /\ op.kind = "closeThread"
    BY <1>1, <1>2, <1>3, <1>4, <2>2 DEF OperationFits
  <2>3. CASE /\ done.kind = "close" /\ done.at = "delete" /\ done.terminal = k
             /\ done.session = None
    BY <1>3, <1>4, <2>3 DEF OperationFits
  <2> QED BY <1>5, <2>1, <2>2, <2>3
<1>7. MapFits(map, session, astray)
  <2>1. ASSUME NEW s \in SessionIds, session[s].process # None
        PROVE  /\ session[s].status = "running"
               /\ session[s].terminal # None
               /\ map[session[s].terminal] = s \/ session[s].terminal \in astray
    <3>1. /\ session[s].status = "running"
          /\ session[s].terminal \in Terminals
          /\ sessions[session[s].terminal] = s \/ session[s].terminal \in astray
      BY <2>1, ManagerTypes DEF ManagerInvariant, Fits, MapFits, SessionObjects
    <3>2. sessions[k] # s
      BY <1>3, <2>1
    <3> QED BY <1>4, <3>1, <3>2
  <2>2. \A q, r \in SessionIds :
         session[r].process # None /\ session[r].process = session[q].process => r = q
    BY DEF ManagerInvariant, Fits, MapFits
  <2>3. \A j \in Terminals : map[j] # None => session[map[j]].terminal = j
    BY <1>4, MappedSession
  <2> QED BY <2>1, <2>2, <2>3 DEF MapFits
<1>8. /\ operations \in [Threads -> Operations]
      /\ operations[t] = done
      /\ \A u \in Threads : u # t => operations[u] = operation[u]
  BY <1>5, ManagerTypes
<1>9. Fits(map, session, operations, astray)
  <2>1. OnlyOf(t, map, session, operations)
    BY <1>3, <1>4, <1>8 DEF OnlyOf
  <2>2. OperationFits(operations[t], t, map, session, astray)
    BY <1>6, <1>8
  <2> QED BY <1>7, <2>1, <2>2, OthersFit
<1>10. MapsTo(map, session, operations)
  BY <1>4, <1>8, ManagerTypes DEF MapsTo
<1>11. /\ waiting' = waiting /\ inHand' = inHand /\ file' = file
       /\ process' = process /\ killing' = killing
       /\ manager' = manager /\ outputs' = outputs /\ transcript' = transcript
       /\ deleted' = deleted /\ UNCHANGED astray
  BY <1>1 DEF writer, ghosts
<1>12. Shown(map, session, transcript', astray)
  BY <1>4, <1>11 DEF ManagerInvariant, Shown
<1>13. Erased(map, waiting', inHand', file', deleted', astray)
  BY <1>4, <1>11, ManagerTypes DEF ManagerInvariant, Erased
<1>14. Quiet(operations, waiting', inHand', astray)
  <2>1. Quieted(done) => done.terminal = k
    BY <1>5, NoOperationFits DEF Quieted
  <2>2. waiting[k] = None /\ inHand[k] = None
    BY <1>1 DEF History!KeyIsIdle
  <2> QED BY <1>8, <1>11, <2>1, <2>2 DEF ManagerInvariant, Quiet
<1>15. /\ updatedAt \subseteq SessionIds \X SessionIds
       /\ astray \subseteq Terminals
       /\ Told(waiting', inHand', file', transcript', astray, manager')
       /\ Owned(session, process', killing', manager')
       /\ Short(transcript')
  BY <1>11 DEF ManagerInvariant
<1>16. RestTypes'
  BY <1>11 DEF ManagerInvariant, RestTypes
<1> QED BY <1>1, <1>9, <1>10, <1>11, <1>12, <1>13, <1>14, <1>15, <1>16, Settles

\* The operation is over, more terminals may be astray.
LEMMA ReleasedFits ==
  ASSUME ManagerInvariant, NEW t \in Threads, NEW stray, astray \subseteq stray
  PROVE  Fits(sessions, session, Released(t), stray) /\ Released(t) \in [Threads -> Operations]
<1> PICK operations : operations = [operation EXCEPT ![t] = NoOperation]
  OBVIOUS
<1>1. /\ operations \in [Threads -> Operations]
      /\ operations[t] = NoOperation
      /\ \A u \in Threads : u # t => operations[u] = operation[u]
  BY ManagerTypes, NoOperationType
<1>2. MapFits(sessions, session, stray)
  BY DEF ManagerInvariant, Fits, MapFits
<1>3. ASSUME NEW u \in Threads
      PROVE  OperationFits(operations[u], u, sessions, session, stray)
  <2>1. CASE u = t
    BY <1>1, <2>1, NoOperationFits
  <2>2. CASE u # t
    <3>1. /\ operations[u] \in Operations
          /\ OperationFits(operations[u], u, sessions, session, astray)
      BY <1>1, <2>2 DEF ManagerInvariant, Fits
    <3> QED BY <3>1, ManagerTypes, StillFits
  <2> QED BY <2>1, <2>2
<1>4. Released(t) = operations
  BY DEF Released
<1> QED BY <1>1, <1>2, <1>3, <1>4 DEF Fits

LEMMA DeletePreserves ==
  ASSUME ManagerInvariant, NEW t \in Threads, NEW gone \in SUBSET Terminals, Delete(t, gone),
         astray \subseteq astray', astray' \subseteq Terminals,
         \A k \in gone \ astray' : History!KeyIsIdle(k) /\ sessions[k] = None
  PROVE  ManagerInvariant'
<1> USE NoneIsNothing
<1>1. /\ file' = [k \in Terminals |-> IF k \in gone THEN None ELSE file[k]]
      /\ transcript' = [k \in Terminals |-> IF k \in gone THEN <<>> ELSE transcript[k]]
      /\ deleted' = deleted \cup gone
      /\ operation' = Released(t)
      /\ UNCHANGED <<sessions, session, updatedAt, process, killing, waiting, inHand,
                     manager, outputs>>
  BY DEF Delete
<1>2. /\ Fits(sessions, session, operation', astray')
      /\ operation' \in [Threads -> Operations]
  BY <1>1, ReleasedFits
<1>3. MapsTo(sessions', session', operation')
  BY <1>1, <1>2, ManagerTypes DEF MapsTo
<1>4. <<>> \in Seq(Nat) /\ Len(<<>>) = 0
  OBVIOUS
<1>5. /\ file' \in [Terminals -> Seq(Nat) \cup {None}]
      /\ transcript' \in [Terminals -> Seq(Nat)]
  BY <1>1, <1>4, ManagerTypes
<1>6. RestTypes'
  BY <1>1, <1>5 DEF ManagerInvariant, RestTypes
<1>7. Told(waiting', inHand', file', transcript', astray', manager')
  <2> SUFFICES ASSUME manager # "gone", NEW k \in Terminals \ astray'
               PROVE  Latest(waiting[k], inHand[k], file'[k]) = transcript'[k]
    BY <1>1 DEF Told
  <2>1. CASE k \in gone
    BY <1>1, <2>1 DEF Latest, Content, History!KeyIsIdle
  <2>2. CASE k \notin gone
    BY <1>1, <2>2 DEF ManagerInvariant, Told
  <2> QED BY <2>1, <2>2
<1>8. Shown(sessions, session, transcript', astray')
  BY <1>1 DEF ManagerInvariant, Shown
<1>9. Erased(sessions, waiting, inHand, file', deleted', astray')
  BY <1>1, ManagerTypes DEF ManagerInvariant, Erased, History!KeyIsIdle
<1>10. Quiet(operation', waiting, inHand, astray')
  <2>1. \A u \in Threads : operation'[u] = operation[u] \/ operation'[u] = NoOperation
    BY <1>1, ManagerTypes DEF Released
  <2> QED BY <2>1, NoOperationFits DEF ManagerInvariant, Quiet
<1>11. Short(transcript')
  BY <1>1, <1>4 DEF ManagerInvariant, Short
<1> QED BY <1>1, <1>2, <1>3, <1>6, <1>7, <1>8, <1>9, <1>10, <1>11 DEF ManagerInvariant

LEMMA DeleteHistoryPreserves ==
  ASSUME ManagerInvariant, NEW t \in Threads, DeleteHistory(t)
  PROVE  ManagerInvariant'
<1> USE NoneIsNothing
<1> PICK k : k = operation[t].terminal
  OBVIOUS
<1>1. /\ operation[t].kind = "close" /\ operation[t].at = "delete"
      /\ Delete(t, {k})
      /\ astray' = astray
  BY DEF DeleteHistory, Waits
<1>2. k \in Terminals /\ sessions[k] = None
  BY <1>1, ManagerTypes DEF ManagerInvariant, Fits, OperationFits, Operations
<1>3. k \notin astray => History!KeyIsIdle(k)
  BY <1>1 DEF ManagerInvariant, Quiet, Quieted, History!KeyIsIdle
<1> QED BY <1>1, <1>2, <1>3, ManagerTypes, DeletePreserves

LEMMA CloseEndsPreserves ==
  ASSUME ManagerInvariant, NEW t \in Threads, CloseEnds(t)
  PROVE  ManagerInvariant'
<1> PICK mine : mine = {k \in Terminals : ThreadOf[k] = t}
  OBVIOUS
<1>1. operation[t].kind = "closeThread" /\ operation[t].at = "next" /\ operation[t].rest = {}
  BY DEF CloseEnds, Waits
<1>2. \A k \in mine : sessions[k] = None
  BY <1>1 DEF ManagerInvariant, Fits, OperationFits
<1>3. CASE operation[t].deleteHistory
  <2>1. /\ Delete(t, mine)
        /\ astray' = astray \cup {k \in mine : ~History!KeyIsIdle(k)}
    BY <1>3 DEF CloseEnds
  <2> QED BY <1>2, <2>1, ManagerTypes, DeletePreserves
<1>4. CASE ~operation[t].deleteHistory
  <2>1. /\ operation' = Released(t)
        /\ UNCHANGED <<sessions, session, updatedAt, process, killing, writer, manager,
                       outputs, ghosts>>
    BY <1>4 DEF CloseEnds
  <2>2. /\ Fits(sessions, session, operation', astray)
        /\ operation' \in [Threads -> Operations]
    BY <2>1, ReleasedFits
  <2>3. Quiet(operation', waiting, inHand, astray)
    <3>1. \A u \in Threads : operation'[u] = operation[u] \/ operation'[u] = NoOperation
      BY <2>1, ManagerTypes DEF Released
    <3> QED BY <3>1, NoOperationFits DEF ManagerInvariant, Quiet
  <2> QED BY <2>1, <2>2, <2>3, OnlyOperations
<1> QED BY <1>3, <1>4

-----------------------------------------------------------------------------
(* What happens without the semaphore *)

\* An object changes beside the operations.
LEMMA ObjectBeside ==
  ASSUME ManagerInvariant, NEW s \in SessionIds, NEW o \in SessionObjects, NEW objects,
         objects = [session EXCEPT ![s] = o],
         o.terminal = session[s].terminal,
         \/ o.process = None
         \/ o.process = session[s].process /\ o.status = session[s].status
  PROVE  /\ MapsTo(sessions, objects, operation)
         /\ Fits(sessions, objects, operation, astray)
         /\ ObjectAt(objects, s, o)
<1>1. /\ objects \in [SessionIds -> SessionObjects]
      /\ MapFits(sessions, objects, astray)
  BY ChangedObject
<1>2. ObjectAt(objects, s, o)
  BY ManagerTypes DEF ObjectAt
<1>3. MapsTo(sessions, objects, operation)
  BY <1>1, ManagerTypes DEF MapsTo
<1>4. ASSUME NEW t \in Threads
      PROVE  OperationFits(operation[t], t, sessions, objects, astray)
  <2>1. /\ operation[t] \in Operations
        /\ OperationFits(operation[t], t, sessions, session, astray)
    BY ManagerTypes DEF ManagerInvariant, Fits
  <2>2. operation[t].session # None =>
          /\ objects[operation[t].session].terminal = session[operation[t].session].terminal
          /\ objects[operation[t].session].process
               \in {session[operation[t].session].process, None}
    BY <1>2, <2>1 DEF ObjectAt, Operations
  <2> QED BY <2>1, <2>2, ManagerTypes, StillFits
<1> QED BY <1>1, <1>2, <1>3, <1>4 DEF Fits

LEMMA OutputPreserves ==
  ASSUME ManagerInvariant, NEW s \in SessionIds, Output(s)
  PROVE  ManagerInvariant'
<1> USE NoneIsNothing
<1> PICK k : k = session[s].terminal
  OBVIOUS
<1> PICK h : h = Capped(Append(session[s].history, outputs + 1))
  OBVIOUS
<1> PICK text : text = Capped(Append(transcript[k], outputs + 1))
  OBVIOUS
<1> PICK texts : texts = IF sessions[k] = s THEN [transcript EXCEPT ![k] = text]
                         ELSE transcript
  OBVIOUS
<1> PICK o : o = [session[s] EXCEPT !.history = h]
  OBVIOUS
<1> PICK objects : objects = [session EXCEPT ![s] = o]
  OBVIOUS
<1>1. session[s] \in SessionObjects /\ session[s].process # None
  BY ManagerTypes DEF Output
<1>2. k \in Terminals /\ (sessions[k] = s \/ k \in astray)
  BY <1>1 DEF ManagerInvariant, Fits, MapFits, SessionObjects
<1>3. /\ outputs < MaxOutputs
      /\ outputs' = outputs + 1
      /\ Become(sessions, objects, Touched(s), operation)
      /\ History!Put(k, h)
      /\ transcript' = texts
      /\ UNCHANGED <<process, killing, manager, deleted, astray>>
  BY <1>1, <1>2, ManagerTypes DEF Output
<1>4. MaxOutputs \in Nat /\ outputs \in 0..MaxOutputs
  BY TerminalAssumption DEF TerminalAssumption, ManagerInvariant, RestTypes
<1>5. outputs + 1 \in Nat /\ outputs' \in 0..MaxOutputs
  BY <1>3, <1>4
<1>6. session[s].history \in Seq(Nat)
  BY <1>1 DEF SessionObjects
<1>7. Append(session[s].history, outputs + 1) \in Seq(Nat)
  BY <1>5, <1>6
<1>8. h \in Seq(Nat) /\ Len(h) <= HistoryLimit
  BY <1>7, CappedHistory
<1>9. Append(transcript[k], outputs + 1) \in Seq(Nat)
  <2>1. transcript[k] \in Seq(Nat)
    BY <1>2, ManagerTypes
  <2> QED BY <1>5, <2>1
<1>10. text \in Seq(Nat) /\ Len(text) <= HistoryLimit
  BY <1>9, CappedHistory
<1>11. /\ o \in SessionObjects
       /\ o.terminal = session[s].terminal /\ o.process = session[s].process
       /\ o.status = session[s].status /\ o.history = h
  BY <1>1, <1>8 DEF SessionObjects
<1>12. /\ MapsTo(sessions, objects, operation)
       /\ Fits(sessions, objects, operation, astray)
       /\ ObjectAt(objects, s, o)
  BY <1>11, ObjectBeside
<1>13. Owned(objects, process, killing, manager)
  <2>1. \A r \in SessionIds : objects[r].process = session[r].process
    BY <1>11, <1>12 DEF ObjectAt
  <2> QED BY <2>1, SameProcesses DEF ManagerInvariant
<1>14. k \notin astray => sessions[k] = s /\ text = h
  <2> HAVE k \notin astray
  <2>1. session[sessions[k]].history = transcript[k] /\ sessions[k] = s
    BY <1>2 DEF ManagerInvariant, Shown
  <2> QED BY <2>1
<1>15. /\ texts \in [Terminals -> Seq(Nat)]
       /\ \A j \in Terminals : j # k => texts[j] = transcript[j]
       /\ texts[k] = h \/ k \in astray
       /\ texts[k] = text \/ texts[k] = transcript[k]
  BY <1>2, <1>10, <1>14, ManagerTypes
<1>16. /\ Told(waiting', inHand', file', texts, astray, manager)
       /\ waiting' \in [Terminals -> Seq(Nat) \cup {None}]
       /\ UNCHANGED <<inHand, file>>
  BY <1>2, <1>3, <1>8, <1>15, PutHistory DEF TextAt
<1>17. RestTypes'
  BY <1>3, <1>5, <1>15, <1>16 DEF ManagerInvariant, RestTypes
<1>18. Shown(sessions, objects, texts, astray)
  <2> SUFFICES ASSUME NEW j \in Terminals \ astray, sessions[j] # None
               PROVE  objects[sessions[j]].history = texts[j]
    BY DEF Shown
  <2>1. CASE j = k
    BY <1>11, <1>12, <1>14, <1>15, <2>1 DEF ObjectAt
  <2>2. CASE j # k
    <3>1. sessions[j] \in SessionIds /\ sessions[j] # s
      BY <2>2, MappedSession
    <3> QED BY <1>12, <1>15, <2>2, <3>1 DEF ObjectAt, ManagerInvariant, Shown
  <2> QED BY <2>1, <2>2
<1>19. StillQuiet(operation)
  BY DEF StillQuiet
<1>20. sessions[k] # None \/ k \in astray
  BY <1>2
<1>21. /\ Erased(sessions, waiting', inHand', file', deleted, astray)
       /\ Quiet(operation, waiting', inHand', astray)
  BY <1>2, <1>3, <1>8, <1>19, <1>20, PutMapped
<1>22. Short(texts)
  BY <1>10, <1>15 DEF ManagerInvariant, Short
<1>23. /\ Touched(s) \subseteq SessionIds \X SessionIds
       /\ astray \subseteq Terminals
       /\ Told(waiting', inHand', file', transcript', astray, manager')
       /\ Owned(objects, process', killing', manager')
       /\ Erased(sessions, waiting', inHand', file', deleted', astray)
       /\ Shown(sessions, objects, transcript', astray)
       /\ Short(transcript')
  BY <1>3, <1>13, <1>16, <1>18, <1>21, <1>22, TouchedType DEF ManagerInvariant
<1> QED BY <1>3, <1>12, <1>17, <1>21, <1>23, Settles

LEMMA ExitEventPreserves ==
  ASSUME ManagerInvariant, NEW s \in SessionIds, ExitEvent(s)
  PROVE  ManagerInvariant'
<1> USE NoneIsNothing
<1> PICK o : o = Stopped(session[s])
  OBVIOUS
<1> PICK objects : objects = [session EXCEPT ![s] = o]
  OBVIOUS
<1>1. /\ session[s].process # None
      /\ process[session[s].process] = "dead"
      /\ process' = [process EXCEPT ![session[s].process] = "none"]
      /\ BecomeAndEvict(sessions, objects, Touched(s), operation)
      /\ UNCHANGED <<killing, writer, manager, outputs, transcript, deleted>>
  BY ManagerTypes DEF ExitEvent
<1>2. session[s] \in SessionObjects
  BY ManagerTypes
<1>3. /\ o \in SessionObjects /\ o.terminal = session[s].terminal /\ o.process = None
      /\ o.history = session[s].history
  BY <1>2 DEF Stopped, SessionObjects
<1>4. /\ MapsTo(sessions, objects, operation)
      /\ Fits(sessions, objects, operation, astray)
      /\ ObjectAt(objects, s, o)
  BY <1>3, ObjectBeside
<1>5. Kill(session[s].process)
  BY <1>1 DEF Kill
<1>6. /\ Owned(objects, process', killing', manager)
      /\ process' \in [Processes -> {"none", "alive", "dead"}]
  BY <1>3, <1>4, <1>5, KilledProcess
<1>7. SameHistories(objects) /\ StillQuiet(operation)
  BY <1>3, <1>4 DEF SameHistories, StillQuiet, ObjectAt
<1>8. /\ Touched(s) \subseteq SessionIds \X SessionIds
      /\ killing' = killing
  BY <1>1, TouchedType
<1>9. Owned(objects, process', killing, manager)
  BY <1>6, <1>8
<1> QED BY <1>1, <1>4, <1>6, <1>7, <1>8, <1>9, HistoriesStay

\* Nothing but the processes and those who kill them changes.
LEMMA OnlyProcesses ==
  ASSUME ManagerInvariant,
         UNCHANGED <<sessions, session, updatedAt, operation, writer, manager, outputs,
                     ghosts>>,
         process' \in [Processes -> {"none", "alive", "dead"}],
         killing' \in [Processes -> {"nobody", "fiber", "finalizer"}],
         Owned(session, process', killing', manager)
  PROVE  ManagerInvariant'
<1>1. /\ sessions' = sessions /\ session' = session /\ updatedAt' = updatedAt
      /\ operation' = operation /\ manager' = manager
      /\ waiting' = waiting /\ inHand' = inHand /\ file' = file
      /\ outputs' = outputs /\ transcript' = transcript /\ deleted' = deleted
      /\ astray' = astray
  BY DEF writer, ghosts
<1>2. RestTypes'
  BY <1>1 DEF ManagerInvariant, RestTypes
<1> QED BY <1>1, <1>2 DEF ManagerInvariant

LEMMA ProcessDiesPreserves ==
  ASSUME ManagerInvariant, NEW p \in Processes, ProcessDies(p)
  PROVE  ManagerInvariant'
<1>1. /\ process \in [Processes -> {"none", "alive", "dead"}]
      /\ killing \in [Processes -> {"nobody", "fiber", "finalizer"}]
      /\ Owned(session, process, killing, manager)
  BY DEF ManagerInvariant, RestTypes
<1>2. /\ process[p] = "alive"
      /\ process' = [process EXCEPT ![p] = "dead"]
      /\ killing' = killing
      /\ UNCHANGED <<sessions, session, updatedAt, operation, writer, manager, outputs,
                     ghosts>>
  BY DEF ProcessDies
<1>3. \A q \in Processes : /\ process'[q] = "none" <=> process[q] = "none"
                           /\ process'[q] = "alive" => process[q] = "alive"
  BY <1>1, <1>2
<1>4. \A s \in SessionIds : session[s].process \in Processes \cup {None}
  BY ManagerTypes DEF SessionObjects
<1>5. Owned(session, process', killing', manager)
  BY <1>1, <1>2, <1>3, <1>4 DEF Owned
<1>6. process' \in [Processes -> {"none", "alive", "dead"}]
  BY <1>1, <1>2
<1> QED BY <1>1, <1>2, <1>5, <1>6, OnlyProcesses

LEMMA KillAfterGracePreserves ==
  ASSUME ManagerInvariant, NEW p \in Processes, KillAfterGrace(p)
  PROVE  ManagerInvariant'
<1>1. /\ process \in [Processes -> {"none", "alive", "dead"}]
      /\ killing \in [Processes -> {"nobody", "fiber", "finalizer"}]
      /\ Owned(session, process, killing, manager)
  BY DEF ManagerInvariant, RestTypes
<1>2. /\ killing[p] # "nobody"
      /\ killing' = [killing EXCEPT ![p] = "nobody"]
      /\ process' = [process EXCEPT ![p] = "none"]
      /\ UNCHANGED <<sessions, session, updatedAt, operation, writer, manager, outputs,
                     ghosts>>
  BY DEF KillAfterGrace
<1>3. /\ process'[p] = "none" /\ killing'[p] = "nobody"
      /\ \A q \in Processes : q # p => process'[q] = process[q] /\ killing'[q] = killing[q]
  BY <1>1, <1>2
<1>4. \A s \in SessionIds :
        session[s].process # None => session[s].process \in Processes \ {p}
  BY <1>1, <1>2, ManagerTypes DEF SessionObjects, Owned
<1>5. Owned(session, process', killing', manager)
  BY <1>1, <1>3, <1>4 DEF Owned
<1>6. /\ process' \in [Processes -> {"none", "alive", "dead"}]
      /\ killing' \in [Processes -> {"nobody", "fiber", "finalizer"}]
  BY <1>1, <1>2
<1> QED BY <1>2, <1>5, <1>6, OnlyProcesses

LEMMA ShutdownPreserves ==
  ASSUME ManagerInvariant, Shutdown
  PROVE  ManagerInvariant'
<1> USE NoneIsNothing
<1> PICK owned : owned = {session[sessions[k]].process :
                            k \in {j \in Terminals : sessions[j] # None}}
  OBVIOUS
<1> PICK map : map = [k \in Terminals |-> None]
  OBVIOUS
<1> PICK objects : objects = [s \in SessionIds |-> IF Mapped(sessions, s)
                                                   THEN Stopped(session[s]) ELSE session[s]]
  OBVIOUS
<1> PICK left : left = {k \in Terminals : /\ sessions[k] # None
                                          /\ \E t \in Threads :
                                               operation[t].session = sessions[k]}
  OBVIOUS
<1> PICK stray : stray = astray \cup left
  OBVIOUS
<1>1. /\ manager = "up" /\ manager' = "stopping"
      /\ killing' = [p \in Processes |->
                       IF p \in owned /\ process[p] = "alive" THEN "finalizer" ELSE killing[p]]
      /\ process' = [p \in Processes |->
                       IF p \in owned /\ process[p] = "dead" THEN "none" ELSE process[p]]
      /\ Become(map, objects, updatedAt, operation)
      /\ astray' = stray
      /\ UNCHANGED <<writer, outputs, transcript, deleted>>
  BY DEF Shutdown
<1>2. /\ process \in [Processes -> {"none", "alive", "dead"}]
      /\ killing \in [Processes -> {"nobody", "fiber", "finalizer"}]
      /\ Owned(session, process, killing, manager)
      /\ MapFits(sessions, session, astray)
  BY DEF ManagerInvariant, RestTypes, Fits
<1>3. ASSUME NEW s \in SessionIds
      PROVE  /\ objects[s] \in SessionObjects
             /\ objects[s].terminal = session[s].terminal
             /\ objects[s].process # None => objects[s] = session[s] /\ ~Mapped(sessions, s)
             /\ objects[s].process \in {session[s].process, None}
  <2>1. session[s] \in SessionObjects
    BY ManagerTypes
  <2>2. /\ Stopped(session[s]) \in SessionObjects
        /\ Stopped(session[s]).terminal = session[s].terminal
        /\ Stopped(session[s]).process = None
    BY <2>1 DEF Stopped, SessionObjects
  <2> QED BY <2>1, <2>2
<1>4. MapsTo(map, objects, operation)
  BY <1>3, ManagerTypes DEF MapsTo
<1>5. MapFits(map, objects, stray)
  <2>1. ASSUME NEW s \in SessionIds, objects[s].process # None
        PROVE  /\ objects[s].status = "running"
               /\ objects[s].terminal # None
               /\ objects[s].terminal \in stray
    <3>1. objects[s] = session[s] /\ ~Mapped(sessions, s)
      BY <1>3, <2>1
    <3>2. /\ session[s].status = "running" /\ session[s].terminal \in Terminals
          /\ sessions[session[s].terminal] = s \/ session[s].terminal \in astray
      BY <1>2, <2>1, <3>1, ManagerTypes DEF MapFits, SessionObjects
    <3> QED BY <3>1, <3>2 DEF Mapped
  <2>2. \A q, r \in SessionIds :
         objects[r].process # None /\ objects[r].process = objects[q].process => r = q
    BY <1>2, <1>3 DEF MapFits
  <2> QED BY <2>1, <2>2 DEF MapFits
<1>6. ASSUME NEW t \in Threads
      PROVE  OperationFits(operation[t], t, map, objects, stray)
  <2>1. /\ operation[t] \in Operations
        /\ OperationFits(operation[t], t, sessions, session, astray)
    BY ManagerTypes DEF ManagerInvariant, Fits
  <2>2. operation[t].session # None =>
          /\ objects[operation[t].session].terminal = session[operation[t].session].terminal
          /\ objects[operation[t].session].process
               \in {session[operation[t].session].process, None}
    BY <1>3, <2>1 DEF Operations
  <2>3. \A k \in Terminals :
          ThreadOf[k] = t =>
            \/ map[k] = sessions[k]
            \/ map[k] = None /\ (sessions[k] = operation[t].session => k \in stray)
    OBVIOUS
  <2> QED BY <2>1, <2>2, <2>3, ManagerTypes, StillFits
<1>7. Fits(map, objects, operation, stray)
  BY <1>5, <1>6 DEF Fits
<1>8. /\ stray \subseteq Terminals /\ astray \subseteq stray
      /\ updatedAt \subseteq SessionIds \X SessionIds
  BY ManagerTypes
<1>9. /\ MapsTo(sessions', session', operation')
      /\ updatedAt' \subseteq SessionIds \X SessionIds
      /\ Fits(sessions', session', operation', stray)
      /\ Kept(map, objects)
      /\ operation' = operation
      /\ sessions' = map
  BY <1>1, <1>4, <1>7, <1>8, Becomes
<1>10. \A s \in SessionIds : session[s].process \in Processes \cup {None}
  BY ManagerTypes DEF SessionObjects
<1>11. \A p \in owned :
         p # None => \E s \in SessionIds : Mapped(sessions, s) /\ session[s].process = p
  BY ManagerTypes DEF Mapped
<1>12. \A s \in SessionIds : Mapped(sessions, s) => session[s].process \in owned
  BY DEF Mapped
<1>13. Owned(objects, process', killing', manager')
  <2>1. ASSUME NEW s \in SessionIds, objects[s].process # None
        PROVE  /\ process'[objects[s].process] # "none"
               /\ killing'[objects[s].process] = "nobody"
    <3>1. objects[s] = session[s] /\ ~Mapped(sessions, s) /\ session[s].process \in Processes
      BY <1>3, <1>10, <2>1
    <3>2. session[s].process \notin owned
      BY <1>2, <1>11, <2>1, <3>1 DEF MapFits
    <3> QED BY <1>1, <1>2, <2>1, <3>1, <3>2 DEF Owned
  <2>2. ASSUME NEW p \in Processes, killing'[p] # "nobody"
        PROVE  process'[p] # "none"
    <3>1. CASE p \in owned
      <4>1. PICK s \in SessionIds : session[s].process = p
        BY <1>11, <3>1
      <4>2. killing[p] = "nobody" /\ process[p] # "none"
        BY <1>2, <4>1 DEF Owned
      <4> QED BY <1>1, <2>2, <3>1, <4>2
    <3>2. CASE p \notin owned
      BY <1>1, <1>2, <2>2, <3>2 DEF Owned
    <3> QED BY <3>1, <3>2
  <2>3. ASSUME NEW p \in Processes, process'[p] = "alive", killing'[p] = "nobody"
        PROVE  \E s \in SessionIds : objects[s].process = p
    <3>1. p \notin owned /\ process[p] = "alive" /\ killing[p] = "nobody"
      BY <1>1, <2>3
    <3>2. PICK s \in SessionIds : session[s].process = p
      BY <1>1, <1>2, <3>1 DEF Owned
    <3>3. objects[s] = session[s]
      BY <1>12, <3>1, <3>2
    <3> QED BY <3>2, <3>3
  <2> QED BY <2>1, <2>2, <2>3 DEF Owned
<1>14. Owned(session', process', killing', manager')
  BY <1>9, <1>13 DEF Owned, Kept
<1>15. /\ waiting' = waiting /\ inHand' = inHand /\ file' = file
       /\ transcript' = transcript /\ deleted' = deleted /\ outputs' = outputs
  BY <1>1 DEF writer
<1>16. RestTypes'
  <2>1. /\ process' \in [Processes -> {"none", "alive", "dead"}]
        /\ killing' \in [Processes -> {"nobody", "fiber", "finalizer"}]
    BY <1>1, <1>2
  <2> QED BY <1>1, <1>15, <2>1 DEF ManagerInvariant, RestTypes
<1>17. /\ Told(waiting', inHand', file', transcript', stray, manager')
       /\ Shown(sessions', session', transcript', stray)
       /\ Erased(sessions', waiting', inHand', file', deleted', stray)
       /\ Quiet(operation', waiting', inHand', stray)
       /\ Short(transcript')
  <2>1. \A k \in Terminals : sessions'[k] = None
    BY <1>9
  <2> QED BY <1>1, <1>8, <1>9, <1>15, <2>1, ManagerTypes
             DEF ManagerInvariant, Told, Shown, Erased, Quiet
<1> QED BY <1>1, <1>8, <1>9, <1>14, <1>16, <1>17 DEF ManagerInvariant

LEMMA ScopesClosePreserves ==
  ASSUME ManagerInvariant, ScopesClose
  PROVE  ManagerInvariant'
<1> USE NoneIsNothing
<1>1. /\ manager' = "gone"
      /\ killing' = [p \in Processes |-> "nobody"]
      /\ waiting' = [k \in Terminals |-> None]
      /\ inHand' = [k \in Terminals |-> None]
      /\ sessions' = sessions /\ session' = session /\ updatedAt' = updatedAt
      /\ process' = process /\ operation' = operation /\ file' = file
      /\ outputs' = outputs /\ transcript' = transcript /\ deleted' = deleted
      /\ astray' = astray
  BY DEF ScopesClose, ghosts
<1>2. RestTypes'
  BY <1>1 DEF ManagerInvariant, RestTypes
<1>3. Owned(session', process', killing', manager')
  <2>1. \A s \in SessionIds : session[s].process \in Processes \cup {None}
    BY ManagerTypes DEF SessionObjects
  <2> QED BY <1>1, <2>1 DEF ManagerInvariant, Owned
<1>4. Told(waiting', inHand', file', transcript', astray', manager')
  BY <1>1 DEF Told
<1>5. Erased(sessions', waiting', inHand', file', deleted', astray')
  BY <1>1, ManagerTypes DEF ManagerInvariant, Erased
<1>6. Quiet(operation', waiting', inHand', astray')
  <2>1. \A t \in Threads :
          Quieted(operation[t]) => operation[t].terminal \in Terminals
    BY ManagerTypes DEF ManagerInvariant, Fits, OperationFits, Quieted, Operations
  <2> QED BY <1>1, <2>1 DEF Quiet
<1> QED BY <1>1, <1>2, <1>3, <1>4, <1>5, <1>6 DEF ManagerInvariant

LEMMA WriterStepPreserves ==
  ASSUME ManagerInvariant, NEW k \in Terminals, WriterStep(k)
  PROVE  ManagerInvariant'
<1> USE NoneIsNothing
<1>1. /\ sessions' = sessions /\ session' = session /\ updatedAt' = updatedAt
      /\ process' = process /\ killing' = killing /\ operation' = operation
      /\ manager' = manager /\ outputs' = outputs /\ transcript' = transcript
      /\ deleted' = deleted /\ astray' = astray
  BY DEF WriterStep, ghosts
<1>2. /\ waiting[k] # None \/ inHand[k] # None
      /\ waiting' \in [Terminals -> Seq(Nat) \cup {None}]
      /\ inHand' \in [Terminals -> Seq(Nat) \cup {None}]
      /\ file' \in [Terminals -> Seq(Nat) \cup {None}]
      /\ waiting[k] = None => waiting'[k] = None
      /\ Latest(waiting'[k], inHand'[k], file'[k]) = Latest(waiting[k], inHand[k], file[k])
      /\ \A j \in Terminals \ {k} :
           waiting'[j] = waiting[j] /\ inHand'[j] = inHand[j] /\ file'[j] = file[j]
  <2>1. CASE History!Begin(k)
    <3>1. /\ waiting[k] # None /\ inHand[k] = None
          /\ inHand' = [inHand EXCEPT ![k] = waiting[k]]
          /\ waiting' = [waiting EXCEPT ![k] = None]
          /\ file' = file
      BY <2>1 DEF History!Begin
    <3> QED BY <3>1, ManagerTypes DEF Latest
  <2>2. CASE History!End(k)
    <3>1. /\ inHand[k] # None
          /\ file' = [file EXCEPT ![k] = inHand[k]]
          /\ \/ inHand' = [inHand EXCEPT ![k] = None] /\ waiting' = waiting
             \/ /\ waiting[k] # None
                /\ inHand' = [inHand EXCEPT ![k] = waiting[k]]
                /\ waiting' = [waiting EXCEPT ![k] = None]
      BY <2>2, ManagerTypes DEF History!End, Newest
    <3>2. CASE inHand' = [inHand EXCEPT ![k] = None] /\ waiting' = waiting
      BY <3>1, <3>2, ManagerTypes DEF Latest, Content
    <3>3. CASE /\ waiting[k] # None
               /\ inHand' = [inHand EXCEPT ![k] = waiting[k]]
               /\ waiting' = [waiting EXCEPT ![k] = None]
      BY <3>1, <3>3, ManagerTypes DEF Latest, Content
    <3> QED BY <3>1, <3>2, <3>3
  <2> QED BY <2>1, <2>2 DEF WriterStep
<1>3. RestTypes'
  BY <1>1, <1>2 DEF ManagerInvariant, RestTypes
<1>4. Told(waiting', inHand', file', transcript', astray', manager')
  BY <1>1, <1>2 DEF ManagerInvariant, Told
<1>5. k \notin deleted \ astray
  BY <1>2 DEF ManagerInvariant, Erased
<1>6. Erased(sessions', waiting', inHand', file', deleted', astray')
  BY <1>1, <1>2, <1>5, ManagerTypes DEF ManagerInvariant, Erased
<1>7. Quiet(operation', waiting', inHand', astray')
  <2>1. \A t \in Threads :
          Quieted(operation[t]) => operation[t].terminal \in Terminals
    BY ManagerTypes DEF ManagerInvariant, Fits, OperationFits, Quieted, Operations
  <2>2. \A t \in Threads :
          Quieted(operation[t]) /\ operation[t].terminal \notin astray =>
            operation[t].terminal # k
    BY <1>2 DEF ManagerInvariant, Quiet
  <2> QED BY <1>1, <1>2, <2>1, <2>2 DEF ManagerInvariant, Quiet
<1> QED BY <1>1, <1>3, <1>4, <1>6, <1>7 DEF ManagerInvariant

-----------------------------------------------------------------------------
(* The invariant, and what follows from it *)

LEMMA ManagerInitHolds == Init => ManagerInvariant
<1> SUFFICES ASSUME Init
             PROVE  ManagerInvariant
  OBVIOUS
<1> USE NoneIsNothing
<1>1. /\ sessions = [k \in Terminals |-> None]
      /\ session = [s \in SessionIds |-> Unused]
      /\ updatedAt = {}
      /\ process = [p \in Processes |-> "none"]
      /\ killing = [p \in Processes |-> "nobody"]
      /\ operation = [t \in Threads |-> NoOperation]
      /\ waiting = [k \in Terminals |-> None]
      /\ inHand = [k \in Terminals |-> None]
      /\ file = [k \in Terminals |-> None]
      /\ manager = "up" /\ outputs = 0
      /\ transcript = [k \in Terminals |-> <<>>]
      /\ deleted = {} /\ astray = {}
  BY DEF Init, History!Init
<1>2. Unused \in SessionObjects /\ Unused.process = None
  BY DEF Unused, SessionObjects
<1>3. <<>> \in Seq(Nat) /\ Len(<<>>) = 0
  OBVIOUS
<1>4. MapsTo(sessions, session, operation)
  BY <1>1, <1>2, NoOperationType DEF MapsTo
<1>5. RestTypes
  <2>1. MaxOutputs \in Nat
    BY TerminalAssumption DEF TerminalAssumption
  <2> QED BY <1>1, <1>3, <2>1 DEF RestTypes
<1>6. Fits(sessions, session, operation, astray)
  BY <1>1, <1>2, NoOperationFits DEF Fits, MapFits
<1>7. /\ Owned(session, process, killing, manager)
      /\ Told(waiting, inHand, file, transcript, astray, manager)
      /\ Shown(sessions, session, transcript, astray)
      /\ Erased(sessions, waiting, inHand, file, deleted, astray)
      /\ Quiet(operation, waiting, inHand, astray)
      /\ Short(transcript)
  BY <1>1, <1>2, <1>3, NoOperationFits
     DEF Owned, Told, Latest, Content, Shown, Erased, Quiet, Short
<1> QED BY <1>1, <1>4, <1>5, <1>6, <1>7 DEF ManagerInvariant

LEMMA ManagerStepPreserves == ManagerInvariant /\ [Next]_vars => ManagerInvariant'
<1> SUFFICES ASSUME ManagerInvariant, [Next]_vars
             PROVE  ManagerInvariant'
  OBVIOUS
<1>1. CASE Next
  <2>1. manager # "gone"
    BY <1>1 DEF Next, Live
  <2>2. ASSUME NEW k \in Terminals,
               \/ OpenMissing(k) \/ RestartMissing(k) \/ Clear(k) \/ Resize(k)
               \/ \E kind \in {"open", "restart"} : Reset(k, kind)
               \/ \E deleteHistory \in BOOLEAN : Close(k, deleteHistory)
               \/ WriterStep(k)
        PROVE  ManagerInvariant'
    BY <2>2, OpenMissingPreserves, RestartMissingPreserves, ClearPreserves,
       ResizePreserves, ResetPreserves, ClosePreserves, WriterStepPreserves
  <2>3. ASSUME NEW t \in Threads,
               \E deleteHistory \in BOOLEAN : CloseThread(t, deleteHistory)
        PROVE  ManagerInvariant'
    BY <2>3, CloseThreadPreserves
  <2>4. ASSUME NEW t \in Threads, Proceeds(t)
        PROVE  ManagerInvariant'
    BY <2>1, <2>4, OpenFlushedPreserves, OpenCreatesPreserves, StartsPreserves,
       SpawnSucceedsPreserves, SpawnFailsPreserves, ClearedPreserves, CloseNextPreserves,
       CloseFlushedPreserves, DeleteHistoryPreserves, CloseEndsPreserves
       DEF Proceeds
  <2>5. ASSUME NEW s \in SessionIds, Output(s) \/ ExitEvent(s)
        PROVE  ManagerInvariant'
    BY <2>5, OutputPreserves, ExitEventPreserves
  <2>6. ASSUME NEW p \in Processes, ProcessDies(p) \/ KillAfterGrace(p)
        PROVE  ManagerInvariant'
    BY <2>6, ProcessDiesPreserves, KillAfterGracePreserves
  <2>7. CASE Shutdown \/ ScopesClose
    BY <2>7, ShutdownPreserves, ScopesClosePreserves
  <2> QED BY <1>1, <2>2, <2>3, <2>4, <2>5, <2>6, <2>7 DEF Next
<1>2. CASE UNCHANGED vars
  BY <1>2 DEF vars, ManagerInvariant, RestTypes
<1> QED BY <1>1, <1>2

\* The manager's invariant holds in every state the code can reach: whatever the
\* sessions, processes, operations, evictions, late exits and kill escalations do.
THEOREM ManagerInvariantHolds == Spec => []ManagerInvariant
<1>1. Init => ManagerInvariant
  BY ManagerInitHolds
<1>2. ManagerInvariant /\ [Next]_vars => ManagerInvariant'
  BY ManagerStepPreserves
<1> QED BY <1>1, <1>2, PTL DEF Spec

\* Every variable of the manager has its type: no terminal is mapped to anything
\* but a session object, and no operation waits at a point the code does not have.
THEOREM TerminalTypes == Spec => []TypeOK
<1>1. ManagerInvariant => TypeOK
  BY DEF ManagerInvariant, MapsTo, RestTypes, TypeOK
<1> QED BY <1>1, ManagerInvariantHolds, PTL

\* No shell is forgotten while the manager is up, whoever stops, evicts, restarts or
\* closes what: a live process belongs to the running session of its terminal, or is
\* on its way to SIGKILL, or belongs to a session that was evicted while an operation
\* worked on it.
THEOREM ShellsAreOwned == Spec => []LiveProcessIsOwned
<1>1. ASSUME ManagerInvariant
      PROVE  LiveProcessIsOwned
  <2> SUFFICES ASSUME manager = "up", NEW p \in Processes, process[p] = "alive",
                      killing[p] = "nobody"
               PROVE  \/ \E k \in Terminals :
                           /\ sessions[k] # None
                           /\ session[sessions[k]].process = p
                           /\ session[sessions[k]].status = "running"
                      \/ \E s \in SessionIds :
                           /\ session[s].process = p
                           /\ session[s].terminal \in astray
    BY DEF LiveProcessIsOwned
  <2>1. PICK s \in SessionIds : session[s].process = p
    BY <1>1 DEF ManagerInvariant, Owned
  <2>2. p # None
    BY NoneIsNothing
  <2>3. /\ session[s].status = "running"
        /\ session[s].terminal \in Terminals
        /\ sessions[session[s].terminal] = s \/ session[s].terminal \in astray
    BY <1>1, <2>1, <2>2, ManagerTypes DEF ManagerInvariant, Fits, MapFits, SessionObjects
  <2> QED BY <2>1, <2>3, NoneIsNothing
<1> QED BY <1>1, ManagerInvariantHolds, PTL

\* A session shows what its terminal printed since the last reset, over evictions
\* and reopenings: open waits for the writer before it reads the file.
THEOREM HistoriesSurvive == Spec => []HistorySurvivesEviction
<1>1. ManagerInvariant => HistorySurvivesEviction
  BY DEF ManagerInvariant, Shown, HistorySurvivesEviction
<1> QED BY <1>1, ManagerInvariantHolds, PTL

\* The file of a terminal nobody works on holds what the terminal printed once the
\* writer has nothing left for it, and a deleted file does not come back.
THEOREM FilesCatchUp == Spec => []FileCatchesUp
<1>1. ManagerInvariant => FileCatchesUp
  BY ManagerTypes DEF ManagerInvariant, Told, Latest, Erased, FileCatchesUp, History!KeyIsIdle
<1> QED BY <1>1, ManagerInvariantHolds, PTL
=============================================================================
