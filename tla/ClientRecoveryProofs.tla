------------------------ MODULE ClientRecoveryProofs ------------------------
(***************************************************************************)
(* The client's copy follows the log, for any number of events, of         *)
(* connections and of runs of the effect, and for any length of an answer. *)
(***************************************************************************)
EXTENDS ClientRecovery, SequenceTheorems,
        WellFoundedInduction, TLAPS

Response == [type |-> "response"]
Message == Push \cup [type : {"response"}]

(* The coordinator has a recovery in flight exactly while the client waits *)
(* for a request of that kind.                                             *)
OneRequest ==
  /\ request.kind = recovery.inFlight
  /\ request.kind = "none" => request = NoRequest
  /\ request.kind # "none" => request.at # "nowhere"

(* A response on its way answers the request the client waits for, and     *)
(* there is one: those of a request it has given up are gone.              *)
OneResponse ==
  /\ \A i \in 1..Len(toClient) : toClient[i] = Response => request.at = "answered"
  /\ \A i, j \in 1..Len(toClient) :
       toClient[i] = Response /\ toClient[j] = Response => i = j

(* The copy s is a prefix of the log, and coordinator r, once it has       *)
(* bootstrapped, knows how long it is; before, it knows of no more.        *)
Matches(r, s) ==
  /\ r \in Coordinators
  /\ s = Events(Len(s)) /\ Len(s) \in 0..committed
  /\ r.latestSequence <= Len(s)
  /\ r.bootstrapped => r.latestSequence = Len(s)

CopyIsPrefix == Matches(recovery, store)

(* A replay continues the copy; a snapshot that has been read is at least  *)
(* as long as it.                                                          *)
AnswerExtendsCopy ==
  LET read == request.at \in {"served", "answered"} IN
  /\ request.kind = "replay" => recovery.bootstrapped /\ request.from = Len(store)
  /\ request.kind # "none" /\ read => request.upTo >= Len(store)

Recovered ==
  /\ request \in Requests /\ recovery \in Coordinators /\ store \in Seq(1..committed)
  /\ OneRequest /\ OneResponse /\ CopyIsPrefix /\ AnswerExtendsCopy

ClientInvariant == TypeOK /\ Recovered

-----------------------------------------------------------------------------
(* Sequences *)

LEMMA EventsType ==
  ASSUME NEW n \in Nat
  PROVE  /\ Events(n) \in Seq(1..n) /\ Len(Events(n)) = n
         /\ \A i \in 1..n : Events(n)[i] = i
BY DEF Events

LEMMA EventsAppend ==
  ASSUME NEW n \in Nat
  PROVE  Events(n + 1) = Append(Events(n), n + 1)
<1>1. Len(Append(Events(n), n + 1)) = n + 1 /\ Len(Events(n + 1)) = n + 1
  BY EventsType
<1>2. \A i \in 1..(n + 1) : Append(Events(n), n + 1)[i] = i /\ Events(n + 1)[i] = i
  BY EventsType
<1>3. Append(Events(n), n + 1) \in Seq(Nat) /\ Events(n + 1) \in Seq(Nat)
  BY DEF Events
<1> QED
  BY <1>1, <1>2, <1>3

\* What a snapshot of the log's first events is, and what a replay adds to them.
LEMMA EventsPrefix ==
  ASSUME NEW n \in Nat, NEW m \in 0..n
  PROVE  SubSeq(Events(n), 1, m) = Events(m)
<1>1. Events(n) \in Seq(Nat) /\ Events(m) \in Seq(Nat) /\ SubSeq(Events(n), 1, m) \in Seq(Nat)
  BY DEF Events
<1>2. Len(SubSeq(Events(n), 1, m)) = m /\ Len(Events(m)) = m
  BY EventsType, <1>1
<1>3. \A i \in 1..m : SubSeq(Events(n), 1, m)[i] = Events(m)[i]
  BY EventsType, <1>1, SMTT(30)
<1> QED
  BY <1>1, <1>2, <1>3

LEMMA EventsConcat ==
  ASSUME NEW n \in Nat, NEW m \in 0..n
  PROVE  Events(m) \o SubSeq(Events(n), m + 1, n) = Events(n)
<1> DEFINE rest == SubSeq(Events(n), m + 1, n)
<1>1. Events(n) \in Seq(Nat) /\ Events(m) \in Seq(Nat) /\ rest \in Seq(Nat)
  BY DEF Events
<1>2. Len(rest) = n - m /\ \A i \in 1..(n - m) : rest[i] = m + i
  BY EventsType, <1>1, SMTT(30)
<1>3. Len(Events(m)) = m /\ \A i \in 1..m : Events(m)[i] = i
  BY EventsType
<1> HIDE DEF rest
<1>4. Len(Events(m) \o rest) = n /\ Events(m) \o rest \in Seq(Nat)
  BY <1>1, <1>2, <1>3
<1>5. \A i \in 1..n : (Events(m) \o rest)[i] = i
  BY <1>1, <1>2, <1>3
<1>6. Events(m) \o rest = Events(n)
  <2>1. Events(n) \in Seq(Nat) /\ Len(Events(n)) = n /\ \A i \in 1..n : Events(n)[i] = i
    BY <1>1, EventsType
  <2> QED
    BY <1>4, <1>5, <2>1, SeqEqual
<1> QED
  BY <1>6 DEF rest

LEMMA LeastOfNaturals ==
  ASSUME NEW I, I \subseteq Nat, I # {}
  PROVE  \E i \in I : \A j \in I : i <= j
<1>1. PICK i \in I : \A j \in I : ~(<<j, i>> \in OpToRel(<, Nat))
  BY NatLessThanWellFounded, WFMin
<1>2. \A j \in I : ~(j < i)
  BY <1>1 DEF OpToRel
<1> QED
  BY <1>2

LEMMA RemovedIndex ==
  ASSUME NEW S, NEW q \in Seq(S), NEW e, NEW k \in 1..Len(q), q[k] = e
  PROVE  \E i \in 1..Len(q) : q[i] = e /\ RemoveFirst(q, e) = RemoveAt(q, i)
<1> DEFINE I == {i \in 1..Len(q) : q[i] = e}
<1>1. k \in I /\ I \subseteq Nat
  OBVIOUS
<1>2. \E i \in I : \A j \in I : i <= j
  BY <1>1, LeastOfNaturals
<1>3. Min(I) \in I
  BY <1>2 DEF Min
<1>4. SelectInSeq(q, LAMBDA v : v = e) = Min(I)
  BY <1>1 DEF SelectInSeq
<1>5. RemoveFirst(q, e) = RemoveAt(q, SelectInSeq(q, LAMBDA v : v = e))
  BY DEF RemoveFirst
<1> QED
  BY <1>3, <1>4, <1>5

LEMMA RemoveFirstType ==
  ASSUME NEW S, NEW q \in Seq(S), NEW e
  PROVE  RemoveFirst(q, e) \in Seq(S)
<1>1. CASE \E k \in 1..Len(q) : q[k] = e
  <2>1. PICK i \in 1..Len(q) : RemoveFirst(q, e) = RemoveAt(q, i)
    BY <1>1, RemovedIndex
  <2>2. SubSeq(q, 1, i - 1) \in Seq(S) /\ SubSeq(q, i + 1, Len(q)) \in Seq(S)
    OBVIOUS
  <2> QED
    BY <2>1, <2>2 DEF RemoveAt
<1>2. CASE ~\E k \in 1..Len(q) : q[k] = e
  BY <1>2 DEF RemoveFirst
<1> QED
  BY <1>1, <1>2

\* Taking the only response away leaves none.
LEMMA RemoveOnly ==
  ASSUME NEW S, NEW q \in Seq(S), NEW e,
         \A i, j \in 1..Len(q) : q[i] = e /\ q[j] = e => i = j
  PROVE  \A k \in 1..Len(RemoveFirst(q, e)) : RemoveFirst(q, e)[k] # e
<1>1. CASE \E k \in 1..Len(q) : q[k] = e
  <2>1. PICK n \in 1..Len(q) : q[n] = e /\ RemoveFirst(q, e) = RemoveAt(q, n)
    BY <1>1, RemovedIndex
  <2> DEFINE a == SubSeq(q, 1, n - 1)
             b == SubSeq(q, n + 1, Len(q))
  <2>2. a \in Seq(S) /\ Len(a) = n - 1 /\ \A k \in 1..(n - 1) : a[k] = q[k]
    OBVIOUS
  <2>3. b \in Seq(S) /\ Len(b) = Len(q) - n /\ \A k \in 1..(Len(q) - n) : b[k] = q[n + k]
    OBVIOUS
  <2> HIDE DEF a, b
  <2>4. Len(a \o b) = Len(q) - 1
    <3>1. Len(a \o b) = Len(a) + Len(b)
      BY <2>2, <2>3, ConcatProperties
    <3> QED
      BY <2>2, <2>3, <3>1
  <2>5. \A k \in 1..(Len(q) - 1) : (a \o b)[k] = IF k < n THEN q[k] ELSE q[k + 1]
    BY <2>2, <2>3
  <2>6. ASSUME NEW k \in 1..(Len(q) - 1) PROVE (a \o b)[k] # e
    <3>1. k \in 1..Len(q) /\ k + 1 \in 1..Len(q)
      OBVIOUS
    <3>2. k < n => q[k] # e
      BY <2>1, <3>1
    <3>3. ~(k < n) => q[k + 1] # e
      BY <2>1, <3>1
    <3> QED
      BY <2>5, <3>2, <3>3
  <2> QED
    BY <2>1, <2>4, <2>6 DEF RemoveAt, a, b
<1>2. CASE ~\E k \in 1..Len(q) : q[k] = e
  BY <1>2 DEF RemoveFirst
<1> QED
  BY <1>1, <1>2

\* Fewer messages of the same: the first one is taken.
LEMMA TailOf ==
  ASSUME NEW S, NEW q \in Seq(S), q # <<>>
  PROVE  /\ Head(q) \in S /\ Head(q) = q[1] /\ 1 \in 1..Len(q)
         /\ Tail(q) \in Seq(S) /\ Len(Tail(q)) = Len(q) - 1
         /\ \A k \in 1..(Len(q) - 1) : Tail(q)[k] = q[k + 1]
OBVIOUS

\* The coordinator after events up to n, none of which it has seen.
LEMMA AppliedType ==
  ASSUME committed \in Nat, NEW r \in Coordinators, NEW n \in 0..committed,
         r.latestSequence <= n
  PROVE  /\ Applied(r, n) \in Coordinators /\ Applied(r, n).latestSequence = n
         /\ Applied(r, n).inFlight = r.inFlight
         /\ Applied(r, n).bootstrapped = r.bootstrapped
<1> DEFINE high == Larger(r.highestObservedSequence, n)
<1>1. high \in 0..committed /\ Larger(r.latestSequence, n) = n
  BY DEF Larger, Coordinators
<1>2. Applied(r, n) = [r EXCEPT !.latestSequence = n, !.highestObservedSequence = high]
  BY <1>1 DEF Applied
<1> HIDE DEF high
<1> QED
  BY <1>1, <1>2 DEF Coordinators

-----------------------------------------------------------------------------
(* The client's recoveries *)

NoResponse(q) == \A k \in 1..Len(q) : q[k] # Response

LEMMA CopyType ==
  ASSUME committed \in Nat, NEW r, NEW s, Matches(r, s)
  PROVE  s \in Seq(1..committed)
<1>1. Len(s) \in Nat /\ Len(s) <= committed
  BY DEF Matches
<1>2. Events(Len(s)) \in Seq(1..Len(s))
  BY <1>1, EventsType
<1>3. \A i \in 1..Len(s) : i \in 1..committed
  BY <1>1
<1> QED
  BY <1>1, <1>2, <1>3 DEF Matches, Events

LEMMA StartKeeps ==
  ASSUME committed \in Nat, committed' = committed,
         NEW r, Matches(r, store'),
         NEW kind \in {"snapshot", "replay"}, kind = "replay" => r.bootstrapped,
         Start(kind, r), NoResponse(toClient')
  PROVE  Recovered'
<1>1. r \in Coordinators /\ r.latestSequence \in 0..committed
  BY DEF Matches, Coordinators
<1>2. recovery' = Begun(r, kind) /\ request' = RequestOf(kind, r)
  BY DEF Start
<1>3. /\ recovery' \in Coordinators /\ recovery'.inFlight = kind
      /\ recovery'.latestSequence = r.latestSequence
      /\ recovery'.bootstrapped = r.bootstrapped
  BY <1>1, <1>2 DEF Begun, Coordinators
<1>4. /\ request' \in Requests /\ request'.kind = kind
      /\ request'.from = r.latestSequence /\ request'.at \in {"queued", "sent"}
  BY <1>1, <1>2 DEF RequestOf, Requests
<1>5. Matches(recovery', store')
  BY <1>3 DEF Matches
<1>6. store' \in Seq(1..committed)
  BY <1>5, CopyType
<1>7. Coordinators' = Coordinators /\ Requests' = Requests
  BY DEF Coordinators, Requests
<1>8. CopyIsPrefix'
  BY <1>5, <1>7 DEF CopyIsPrefix, Matches
<1>9. OneRequest' /\ OneResponse'
  BY <1>3, <1>4 DEF OneRequest, OneResponse, NoResponse
<1>10. AnswerExtendsCopy'
  BY <1>3, <1>4, <1>5 DEF AnswerExtendsCopy, Matches
<1> QED
  BY <1>3, <1>4, <1>6, <1>7, <1>8, <1>9, <1>10 DEF Recovered

LEMMA FinishKeeps ==
  ASSUME committed \in Nat, committed' = committed,
         NEW r, Matches(r, store'), r.inFlight = "none",
         Finish(r), NoResponse(toClient')
  PROVE  Recovered'
<1>1. recovery' = r /\ request' = NoRequest /\ r \in Coordinators
  BY DEF Finish, Matches
<1>2. /\ request' \in Requests /\ request'.kind = "none"
      /\ request'.at = "nowhere"
  BY <1>1 DEF NoRequest, Requests
<1>3. store' \in Seq(1..committed)
  BY CopyType
<1>4. Coordinators' = Coordinators /\ Requests' = Requests
  BY DEF Coordinators, Requests
<1>5. CopyIsPrefix'
  BY <1>1, <1>4 DEF CopyIsPrefix, Matches
<1>6. OneRequest' /\ OneResponse' /\ AnswerExtendsCopy'
  BY <1>1, <1>2 DEF OneRequest, OneResponse, NoResponse, AnswerExtendsCopy, NoRequest
<1> QED
  BY <1>1, <1>2, <1>3, <1>4, <1>5, <1>6 DEF Recovered

LEMMA FailKeeps ==
  ASSUME ClientInvariant, committed' = committed, store' = store,
         request # NoRequest, FailRequest, NoResponse(toClient')
  PROVE  Recovered' /\ gaveUp' \in BOOLEAN
<1>1. committed \in Nat /\ gaveUp \in BOOLEAN
  BY BoundsAssumption DEF ClientInvariant, TypeOK
<1>2. Matches(recovery, store)
  BY DEF ClientInvariant, Recovered, CopyIsPrefix
<1>3. CASE request.kind = "replay"
  <2>1. Matches(ReplayFailed(recovery), store')
    BY <1>2 DEF Matches, ReplayFailed, Coordinators
  <2>2. Start("snapshot", ReplayFailed(recovery)) /\ gaveUp' = gaveUp
    BY <1>3 DEF FailRequest
  <2> QED
    BY <1>1, <2>1, <2>2, StartKeeps
<1>4. CASE request.kind # "replay"
  <2>1. Matches(SnapshotFailed(recovery), store') /\ SnapshotFailed(recovery).inFlight = "none"
    BY <1>2 DEF Matches, SnapshotFailed, Coordinators
  <2>2. Finish(SnapshotFailed(recovery)) /\ gaveUp' = TRUE
    BY <1>4 DEF FailRequest
  <2> QED
    BY <1>1, <2>1, <2>2, FinishKeeps
<1> QED
  BY <1>3, <1>4

\* A push was taken from the channel: it was not a response.
LEMMA TakenPush ==
  ASSUME ClientInvariant, toClient # <<>>, Head(toClient) # Response,
         toClient' = Tail(toClient)
  PROVE  /\ \A i \in 1..Len(toClient') : toClient'[i] = Response => request.at = "answered"
         /\ \A i, j \in 1..Len(toClient') :
              toClient'[i] = Response /\ toClient'[j] = Response => i = j
<1>1. /\ Len(toClient') = Len(toClient) - 1 /\ Len(toClient) \in Nat
      /\ \A k \in 1..Len(toClient') : toClient'[k] = toClient[k + 1] /\ k + 1 \in 1..Len(toClient)
  BY TailOf DEF ClientInvariant, TypeOK
<1> QED
  BY <1>1 DEF ClientInvariant, Recovered, OneResponse

\* The coordinator takes note of a push and waits on.
LEMMA QuietKeeps ==
  ASSUME ClientInvariant, committed' = committed, store' = store, request' = request,
         Matches(recovery', store), recovery'.inFlight = recovery.inFlight,
         recovery.bootstrapped => recovery'.bootstrapped,
         toClient # <<>>, Head(toClient) # Response, toClient' = Tail(toClient)
  PROVE  Recovered'
<1>1. request \in Requests /\ OneRequest /\ AnswerExtendsCopy /\ committed \in Nat
  BY BoundsAssumption DEF ClientInvariant, Recovered, TypeOK
<1>2. OneResponse'
  BY TakenPush DEF OneResponse
<1>3. Coordinators' = Coordinators /\ Requests' = Requests
  BY DEF Coordinators, Requests
<1>4. CopyIsPrefix' /\ recovery' \in Coordinators
  BY <1>3 DEF CopyIsPrefix, Matches
<1>5. OneRequest' /\ AnswerExtendsCopy'
  BY <1>1 DEF OneRequest, AnswerExtendsCopy, NoRequest
<1>6. store' \in Seq(1..committed)
  BY <1>1, CopyType
<1> QED
  BY <1>1, <1>2, <1>3, <1>4, <1>5, <1>6 DEF Recovered

LEMMA StartOrDeferKeeps ==
  ASSUME ClientInvariant, committed' = committed, store' = store,
         NEW r, Matches(r, store), r.inFlight = recovery.inFlight,
         recovery.bootstrapped => r.bootstrapped,
         NEW kind \in {"snapshot", "replay"}, StartOrDefer(kind, r),
         toClient # <<>>, Head(toClient) # Response, toClient' = Tail(toClient)
  PROVE  Recovered' /\ gaveUp' \in BOOLEAN
<1>1. committed \in Nat /\ gaveUp \in BOOLEAN
  BY BoundsAssumption DEF ClientInvariant, TypeOK
<1>2. CASE MayBegin(r, kind)
  <2>1. request = NoRequest
    BY <1>2 DEF MayBegin, ClientInvariant, Recovered, OneRequest
  <2>2. NoResponse(toClient')
    BY <2>1, TakenPush DEF NoRequest, NoResponse
  <2>3. Start(kind, r) /\ gaveUp' = FALSE
    BY <1>2 DEF StartOrDefer
  <2> QED
    BY <1>1, <1>2, <2>2, <2>3, StartKeeps DEF MayBegin
<1>3. CASE ~MayBegin(r, kind)
  <2>1. recovery' = [r EXCEPT !.pendingReplay = TRUE] /\ request' = request /\ gaveUp' = gaveUp
    BY <1>3 DEF StartOrDefer
  <2> QED
    <3>1. /\ Matches(recovery', store) /\ recovery'.inFlight = r.inFlight
          /\ recovery'.bootstrapped = r.bootstrapped
      BY <2>1 DEF Matches, Coordinators
    <3> QED
      BY <1>1, <2>1, <3>1, QuietKeeps
<1> QED
  BY <1>2, <1>3

-----------------------------------------------------------------------------
(* The server's steps *)

LEMMA TypesGrow ==
  ASSUME committed \in Nat, committed' \in Nat, committed <= committed'
  PROVE  /\ Requests \subseteq Requests' /\ Coordinators \subseteq Coordinators'
         /\ Seq(1..committed) \subseteq Seq(1..committed')
         /\ Seq(Push) \subseteq Seq(Push') /\ Seq(Message) \subseteq Seq(Message')
<1>1. 0..committed \subseteq 0..committed' /\ 1..committed \subseteq 1..committed'
  OBVIOUS
<1>2. Push \subseteq Push' /\ Message \subseteq Message'
  BY <1>1 DEF Push, Message
<1>3. \A S, T : S \subseteq T => Seq(S) \subseteq Seq(T)
  OBVIOUS
<1>4. Requests \subseteq Requests' /\ Coordinators \subseteq Coordinators'
  BY <1>1 DEF Requests, Coordinators
<1> QED
  BY <1>1, <1>2, <1>3, <1>4

\* Nothing the client keeps changes, and the log only grows.
LEMMA ServerKeeps ==
  ASSUME ClientInvariant, committed' \in Nat, committed <= committed',
         UNCHANGED <<request, recovery, store>>, OneResponse'
  PROVE  Recovered'
<1>1. committed \in Nat /\ Recovered
  BY BoundsAssumption DEF ClientInvariant, TypeOK
<1>2. request' \in Requests' /\ recovery' \in Coordinators' /\ store' \in Seq(1..committed)'
  BY <1>1, TypesGrow DEF Recovered
<1>3. CopyIsPrefix'
  BY <1>1, <1>2 DEF CopyIsPrefix, Matches, Recovered
<1>4. OneRequest' /\ AnswerExtendsCopy'
  BY <1>1 DEF OneRequest, AnswerExtendsCopy, Recovered, NoRequest
<1> QED
  BY <1>2, <1>3, <1>4 DEF Recovered

LEMMA CommitStep == ClientInvariant /\ Commit => ClientInvariant'
<1> SUFFICES ASSUME ClientInvariant, Commit PROVE ClientInvariant'
  OBVIOUS
<1>1. committed \in Nat /\ committed' = committed + 1 /\ committed' \in 0..MaxEvents
  BY BoundsAssumption DEF ClientInvariant, TypeOK, Commit
<1>2. bus' \in Seq(Push') /\ toClient' \in Seq(Message')
  BY <1>1, TypesGrow DEF ClientInvariant, TypeOK, Commit, Message
<1>3. Recovered'
  BY <1>1, ServerKeeps DEF Commit, OneResponse, ClientInvariant, Recovered
<1>4. TypeOK'
  BY <1>1, <1>2, <1>3 DEF ClientInvariant, TypeOK, Commit, Message, Recovered
<1> QED
  BY <1>3, <1>4 DEF ClientInvariant

LEMMA OfferEventStep == ClientInvariant /\ OfferEvent => ClientInvariant'
<1> SUFFICES ASSUME ClientInvariant, OfferEvent PROVE ClientInvariant'
  OBVIOUS
<1>1. committed \in Nat /\ committed' = committed /\ offered' \in 0..committed /\ Push' = Push
  BY BoundsAssumption DEF ClientInvariant, TypeOK, OfferEvent, Push
<1>2. [type |-> "event", sequence |-> offered + 1] \in Push
  BY <1>1 DEF ClientInvariant, TypeOK, OfferEvent, Push
<1>3. bus' \in Seq(Push)
  BY <1>2 DEF ClientInvariant, TypeOK, OfferEvent
<1>4. Recovered'
  BY <1>1, ServerKeeps DEF OfferEvent, OneResponse, ClientInvariant, Recovered
<1>5. TypeOK'
  BY <1>1, <1>3, <1>4 DEF ClientInvariant, TypeOK, OfferEvent, Recovered
<1> QED
  BY <1>4, <1>5 DEF ClientInvariant

LEMMA OfferWelcomeStep == ClientInvariant /\ OfferWelcome => ClientInvariant'
<1> SUFFICES ASSUME ClientInvariant, OfferWelcome PROVE ClientInvariant'
  OBVIOUS
<1>1. committed \in Nat /\ committed' = committed /\ Push' = Push
  BY BoundsAssumption DEF ClientInvariant, TypeOK, OfferWelcome, Push
<1>2. [type |-> "welcome"] \in Push
  BY DEF Push
<1>3. bus' \in Seq(Push) /\ connection' \in Stages
  BY <1>2 DEF ClientInvariant, TypeOK, OfferWelcome, Stages
<1>4. Recovered'
  BY <1>1, ServerKeeps DEF OfferWelcome, OneResponse, ClientInvariant, Recovered
<1>5. TypeOK'
  BY <1>1, <1>3, <1>4 DEF ClientInvariant, TypeOK, OfferWelcome, Recovered
<1> QED
  BY <1>4, <1>5 DEF ClientInvariant

\* A message that is not a response joins the channel.
LEMMA SentPush ==
  ASSUME ClientInvariant, NEW m \in Push, toClient' = Append(toClient, m),
         request' = request
  PROVE  OneResponse' /\ toClient' \in Seq(Message)
<1>1. m # Response
  BY DEF Push, Response
<1>2. toClient \in Seq(Message) /\ m \in Message
  BY DEF ClientInvariant, TypeOK, Message
<1>3. /\ toClient' \in Seq(Message) /\ Len(toClient) \in Nat
      /\ \A i \in 1..Len(toClient') : toClient'[i] = Response =>
             i \in 1..Len(toClient) /\ toClient[i] = Response
  BY <1>1, <1>2
<1> QED
  BY <1>3 DEF OneResponse, ClientInvariant, Recovered

LEMMA SendPushStep == ClientInvariant /\ SendPush => ClientInvariant'
<1> SUFFICES ASSUME ClientInvariant, SendPush PROVE ClientInvariant'
  OBVIOUS
<1>1. /\ committed \in Nat /\ committed' = committed
      /\ Push' = Push /\ Message' = Message
  BY BoundsAssumption DEF ClientInvariant, TypeOK, SendPush, Push, Message
<1>2. Head(bus) \in Push /\ bus' \in Seq(Push)
  BY TailOf DEF ClientInvariant, TypeOK, SendPush
<1>3. OneResponse' /\ toClient' \in Seq(Message) /\ connection' \in Stages
  <2>1. request' = request /\ connection \in Stages /\ toClient \in Seq(Message) /\ OneResponse
    BY DEF SendPush, ClientInvariant, TypeOK, Message, Recovered
  <2>2. connection' \in Stages
    BY <2>1 DEF SendPush, Stages
  <2>3. toClient' = Append(toClient, Head(bus)) \/ toClient' = toClient
    BY DEF SendPush
  <2>4. CASE toClient' = Append(toClient, Head(bus))
    BY <1>2, <2>1, <2>2, <2>4, SentPush
  <2>5. CASE toClient' = toClient
    BY <2>1, <2>2, <2>5 DEF OneResponse
  <2> QED
    BY <2>3, <2>4, <2>5
<1>4. Recovered'
  BY <1>1, <1>3, ServerKeeps DEF SendPush
<1>5. TypeOK'
  BY <1>1, <1>2, <1>3, <1>4 DEF ClientInvariant, TypeOK, SendPush, Recovered, Message
<1> QED
  BY <1>4, <1>5 DEF ClientInvariant

LEMMA JoinBroadcastStep == ClientInvariant /\ JoinBroadcast => ClientInvariant'
<1> SUFFICES ASSUME ClientInvariant, JoinBroadcast PROVE ClientInvariant'
  OBVIOUS
<1>1. committed \in Nat /\ committed' = committed /\ Push' = Push
  BY BoundsAssumption DEF ClientInvariant, TypeOK, JoinBroadcast, Push
<1>2. connection' \in Stages
  BY DEF JoinBroadcast, Stages
<1>3. Recovered'
  BY <1>1, ServerKeeps DEF JoinBroadcast, OneResponse, ClientInvariant, Recovered
<1>4. TypeOK'
  BY <1>1, <1>2, <1>3 DEF ClientInvariant, TypeOK, JoinBroadcast, Recovered
<1> QED
  BY <1>3, <1>4 DEF ClientInvariant

\* What is read while a request is served is at least what the client has: its
\* copy came from the same log, and a replay is asked for from its end.
LEMMA ServeRequestStep == ClientInvariant /\ ServeRequest => ClientInvariant'
<1> SUFFICES ASSUME ClientInvariant, ServeRequest PROVE ClientInvariant'
  OBVIOUS
<1>1. /\ committed \in Nat /\ committed' = committed /\ Push' = Push
      /\ ReplayLimit \in Nat /\ request \in Requests /\ Recovered
      /\ Requests' = Requests /\ Coordinators' = Coordinators
  BY BoundsAssumption DEF ClientInvariant, TypeOK, ServeRequest, server, Push, Requests, Coordinators
<1> DEFINE upTo == IF request.kind = "snapshot" THEN committed ELSE ReplayUpTo
<1>2. upTo \in 0..committed /\ upTo >= request.from /\ (request.kind = "snapshot" => upTo = committed)
  BY <1>1 DEF ReplayUpTo, Smaller, Requests
<1> HIDE DEF upTo
<1>3. request' = [request EXCEPT !.at = "served", !.upTo = upTo] /\ request.at = "sent"
  BY DEF ServeRequest, upTo
<1>4. /\ request' \in Requests /\ request'.kind = request.kind /\ request'.from = request.from
      /\ request'.at = "served" /\ request'.upTo = upTo
  BY <1>1, <1>2, <1>3 DEF Requests
<1>5. OneRequest'
  BY <1>1, <1>3, <1>4 DEF OneRequest, Recovered, ServeRequest, NoRequest
<1>6. OneResponse'
  BY <1>1, <1>3 DEF OneResponse, Recovered, ServeRequest
<1>7. AnswerExtendsCopy'
  <2>1. store' = store /\ recovery' = recovery /\ Len(store) <= committed
    BY <1>1 DEF ServeRequest, Recovered, CopyIsPrefix, Matches
  <2> QED
    BY <1>1, <1>2, <1>4, <2>1 DEF AnswerExtendsCopy, Recovered, Requests
<1>8. CopyIsPrefix'
  BY <1>1 DEF CopyIsPrefix, Matches, Recovered, ServeRequest
<1>9. Recovered'
  BY <1>1, <1>4, <1>5, <1>6, <1>7, <1>8 DEF Recovered, ServeRequest
<1>10. TypeOK'
  BY <1>1, <1>9 DEF ClientInvariant, TypeOK, ServeRequest, server, Recovered
<1> QED
  BY <1>9, <1>10 DEF ClientInvariant

LEMMA SendResponseStep == ClientInvariant /\ SendResponse => ClientInvariant'
<1> SUFFICES ASSUME ClientInvariant, SendResponse PROVE ClientInvariant'
  OBVIOUS
<1>1. /\ committed \in Nat /\ committed' = committed /\ Push' = Push
      /\ Requests' = Requests /\ Coordinators' = Coordinators /\ Recovered
      /\ toClient \in Seq(Message) /\ Message' = Message
  BY BoundsAssumption DEF ClientInvariant, TypeOK, SendResponse, server, Push, Requests, Coordinators, Message
<1>2. /\ request' \in Requests /\ request.at = "served" /\ request'.at = "answered"
      /\ request'.kind = request.kind /\ request'.from = request.from /\ request'.upTo = request.upTo
  BY <1>1 DEF SendResponse, Requests, Recovered
<1>3. \A i \in 1..Len(toClient) : toClient[i] # Response
  BY <1>1, <1>2 DEF OneResponse, Recovered
<1>4. toClient' \in Seq(Message) /\ OneResponse'
  <2>1. toClient' = Append(toClient, Response) /\ Response \in Message
    BY DEF SendResponse, Response, Message
  <2>2. /\ toClient' \in Seq(Message) /\ Len(toClient) \in Nat /\ Len(toClient') = Len(toClient) + 1
        /\ \A i \in 1..Len(toClient) : toClient'[i] = toClient[i]
    BY <1>1, <2>1
  <2>3. \A i \in 1..Len(toClient') : toClient'[i] = Response => i = Len(toClient')
    BY <1>3, <2>2
  <2> QED
    BY <1>2, <2>2, <2>3 DEF OneResponse
<1>5. OneRequest' /\ AnswerExtendsCopy'
  BY <1>1, <1>2 DEF OneRequest, AnswerExtendsCopy, Recovered, SendResponse, NoRequest
<1>6. CopyIsPrefix'
  BY <1>1 DEF CopyIsPrefix, Matches, Recovered, SendResponse
<1>7. Recovered'
  BY <1>1, <1>2, <1>4, <1>5, <1>6 DEF Recovered, SendResponse
<1>8. TypeOK'
  BY <1>1, <1>4, <1>7 DEF ClientInvariant, TypeOK, SendResponse, server, Recovered, Message
<1> QED
  BY <1>7, <1>8 DEF ClientInvariant

-----------------------------------------------------------------------------
(* The client's steps *)

LEMMA ConnectStep == ClientInvariant /\ Connect => ClientInvariant'
<1> SUFFICES ASSUME ClientInvariant, Connect PROVE ClientInvariant'
  OBVIOUS
<1>1. /\ committed \in Nat /\ committed' = committed /\ Push' = Push
      /\ Requests' = Requests /\ Coordinators' = Coordinators /\ Recovered
  BY BoundsAssumption DEF ClientInvariant, TypeOK, Connect, Push, Requests, Coordinators
<1>2. \/ request' = request
      \/ request.at = "queued" /\ request' = [request EXCEPT !.at = "sent"]
  BY DEF Connect
<1>3. /\ request' \in Requests /\ request'.kind = request.kind /\ request'.from = request.from
      /\ request'.upTo = request.upTo
      /\ \/ request'.at = request.at
         \/ request.at = "queued" /\ request'.at = "sent"
  BY <1>1, <1>2 DEF Recovered, Requests
<1>4. OneRequest' /\ OneResponse' /\ AnswerExtendsCopy' /\ CopyIsPrefix'
  <2>1. OneRequest'
    BY <1>1, <1>2, <1>3 DEF OneRequest, Recovered, Connect, NoRequest
  <2>2. OneResponse'
    BY <1>1, <1>3 DEF OneResponse, Recovered, Connect
  <2>3. AnswerExtendsCopy'
    BY <1>1, <1>3 DEF AnswerExtendsCopy, Recovered, Connect
  <2>4. CopyIsPrefix'
    BY <1>1 DEF CopyIsPrefix, Matches, Recovered, Connect
  <2> QED
    BY <2>1, <2>2, <2>3, <2>4
<1>5. Recovered'
  BY <1>1, <1>3, <1>4 DEF Recovered, Connect
<1>6. connections' \in 0..MaxConnections /\ connection' \in Stages
  BY BoundsAssumption DEF ClientInvariant, TypeOK, Connect, Stages
<1>7. TypeOK'
  BY <1>1, <1>5, <1>6 DEF ClientInvariant, TypeOK, Connect, Recovered
<1> QED
  BY <1>5, <1>7 DEF ClientInvariant

LEMMA LoseConnectionKeeps ==
  ASSUME ClientInvariant, LoseConnection
  PROVE  Recovered' /\ gaveUp' \in BOOLEAN
<1>1. committed' = committed /\ store' = store /\ toClient' = <<>> /\ NoResponse(toClient')
  BY DEF LoseConnection, NoResponse
<1>2. CASE request # NoRequest
  BY <1>1, <1>2, FailKeeps DEF LoseConnection
<1>3. CASE request = NoRequest
  <2>1. UNCHANGED <<recovery, request, gaveUp>>
    BY <1>3 DEF LoseConnection
  <2>2. recovery.inFlight = "none" /\ Matches(recovery, store) /\ committed \in Nat
    BY <1>3, BoundsAssumption DEF ClientInvariant, TypeOK, Recovered, OneRequest, CopyIsPrefix, NoRequest
  <2>3. Finish(recovery)
    BY <1>3, <2>1 DEF Finish
  <2> QED
    BY <1>1, <2>1, <2>2, <2>3, FinishKeeps DEF ClientInvariant, TypeOK
<1> QED
  BY <1>2, <1>3

LEMMA DisconnectStep == ClientInvariant /\ Disconnect => ClientInvariant'
<1> SUFFICES ASSUME ClientInvariant, Disconnect PROVE ClientInvariant'
  OBVIOUS
<1>1. LoseConnection /\ Recovered' /\ gaveUp' \in BOOLEAN
  BY LoseConnectionKeeps DEF Disconnect
<1>2. /\ committed' = committed /\ Push' = Push
      /\ connection' \in Stages /\ toClient' \in Seq(Push \cup [type : {"response"}])
  BY <1>1 DEF LoseConnection, Stages, Push
<1>3. bus' \in Seq(Push)
  <2>1. bus \in Seq(Push) /\ bus' = RemoveFirst(bus, [type |-> "welcome"])
    BY DEF Disconnect, ClientInvariant, TypeOK
  <2> QED
    BY <2>1, RemoveFirstType
<1>4. TypeOK'
  BY <1>1, <1>2, <1>3 DEF ClientInvariant, TypeOK, Disconnect, LoseConnection, Recovered
<1> QED
  BY <1>1, <1>4 DEF ClientInvariant

LEMMA RestartServerStep == ClientInvariant /\ RestartServer => ClientInvariant'
<1> SUFFICES ASSUME ClientInvariant, RestartServer PROVE ClientInvariant'
  OBVIOUS
<1>1. LoseConnection /\ Recovered' /\ gaveUp' \in BOOLEAN
  BY LoseConnectionKeeps DEF RestartServer
<1>2. /\ committed' = committed /\ Push' = Push /\ committed \in Nat
      /\ connection' \in Stages /\ toClient' \in Seq(Push \cup [type : {"response"}])
  BY <1>1, BoundsAssumption DEF LoseConnection, Stages, Push, ClientInvariant, TypeOK
<1>3. bus' \in Seq(Push) /\ offered' \in 0..committed
  BY <1>2 DEF RestartServer
<1>4. TypeOK'
  BY <1>1, <1>2, <1>3 DEF ClientInvariant, TypeOK, LoseConnection, Recovered
<1> QED
  BY <1>1, <1>4 DEF ClientInvariant

\* The answer to a request that is given up is dropped.
LEMMA ResponseDropped ==
  ASSUME ClientInvariant, toClient' = RemoveFirst(toClient, [type |-> "response"])
  PROVE  NoResponse(toClient') /\ toClient' \in Seq(Push \cup [type : {"response"}])
<1>1. toClient \in Seq(Push \cup [type : {"response"}])
  BY DEF ClientInvariant, TypeOK
<1>2. \A i, j \in 1..Len(toClient) :
        toClient[i] = [type |-> "response"] /\ toClient[j] = [type |-> "response"] => i = j
  BY DEF ClientInvariant, Recovered, OneResponse, Response
<1>3. \A k \in 1..Len(toClient') : toClient'[k] # [type |-> "response"]
  BY <1>1, <1>2, RemoveOnly
<1>4. toClient' \in Seq(Push \cup [type : {"response"}])
  BY <1>1, RemoveFirstType
<1> QED
  BY <1>3, <1>4 DEF NoResponse, Response

LEMMA RequestFailsStep == ClientInvariant /\ RequestFails => ClientInvariant'
<1> SUFFICES ASSUME ClientInvariant, RequestFails PROVE ClientInvariant'
  OBVIOUS
<1>1. /\ committed' = committed /\ store' = store /\ Push' = Push /\ request # NoRequest /\ FailRequest
      /\ toClient' = RemoveFirst(toClient, [type |-> "response"])
  BY DEF RequestFails, Push
<1>2. NoResponse(toClient') /\ toClient' \in Seq(Push \cup [type : {"response"}])
  BY <1>1, ResponseDropped
<1>3. Recovered' /\ gaveUp' \in BOOLEAN
  BY <1>1, <1>2, FailKeeps
<1>4. TypeOK'
  BY <1>1, <1>2, <1>3 DEF ClientInvariant, TypeOK, RequestFails, Recovered
<1> QED
  BY <1>3, <1>4 DEF ClientInvariant

LEMMA MountStep == ClientInvariant /\ Mount => ClientInvariant'
<1> SUFFICES ASSUME ClientInvariant, Mount PROVE ClientInvariant'
  OBVIOUS
<1>1. /\ committed' = committed /\ store' = store /\ Push' = Push /\ gaveUp' = FALSE
      /\ toClient' = RemoveFirst(toClient, [type |-> "response"])
      /\ committed \in Nat /\ mounts' \in 0..MaxMounts
  BY BoundsAssumption DEF Mount, Push, ClientInvariant, TypeOK
<1>2. NoResponse(toClient') /\ toClient' \in Seq(Push \cup [type : {"response"}])
  BY <1>1, ResponseDropped
<1>3. Matches(Fresh, store') /\ Fresh.inFlight = "none"
  BY <1>1 DEF Matches, Fresh, Coordinators, ClientInvariant, Recovered, CopyIsPrefix
<1>4. Start("snapshot", Fresh) \/ Finish(Fresh)
  BY DEF Mount
<1>5. Recovered'
  BY <1>1, <1>2, <1>3, <1>4, StartKeeps, FinishKeeps
<1>6. TypeOK'
  BY <1>1, <1>2, <1>5 DEF ClientInvariant, TypeOK, Mount, Recovered
<1> QED
  BY <1>5, <1>6 DEF ClientInvariant

LEMMA ReceiveWelcomeStep == ClientInvariant /\ ReceiveWelcome => ClientInvariant'
<1> SUFFICES ASSUME ClientInvariant, ReceiveWelcome PROVE ClientInvariant'
  OBVIOUS
<1>1. /\ committed' = committed /\ store' = store /\ Push' = Push
      /\ toClient # <<>> /\ Head(toClient) # Response /\ toClient' = Tail(toClient)
      /\ Matches(recovery, store)
  BY DEF ReceiveWelcome, Receive, Push, Response, ClientInvariant, Recovered, CopyIsPrefix
<1>2. Recovered' /\ gaveUp' \in BOOLEAN
  <2>1. CASE mounts > 0
    BY <1>1, <2>1, StartOrDeferKeeps DEF ReceiveWelcome
  <2>2. CASE ~(mounts > 0)
    <3>1. UNCHANGED <<recovery, request, gaveUp>>
      BY <2>2 DEF ReceiveWelcome
    <3> QED
      BY <1>1, <3>1, QuietKeeps DEF ClientInvariant, TypeOK
  <2> QED
    BY <2>1, <2>2
<1>3. toClient' \in Seq(Push \cup [type : {"response"}])
  BY <1>1, TailOf DEF ClientInvariant, TypeOK
<1>4. TypeOK'
  BY <1>1, <1>2, <1>3 DEF ClientInvariant, TypeOK, ReceiveWelcome, Receive, Recovered
<1> QED
  BY <1>2, <1>4 DEF ClientInvariant

\* What an event does to the copy: nothing, or it is the one that comes next.
LEMMA EventReceived ==
  ASSUME ClientInvariant, ReceiveEvent
  PROVE  /\ Recovered' /\ gaveUp' \in BOOLEAN
         /\ store' = store \/ (Len(store) + 1 <= committed /\ store' = Events(Len(store) + 1))
<1> DEFINE n == Head(toClient).sequence
           r == Observe(recovery, n)
<1>1. /\ committed' = committed /\ committed \in Nat /\ gaveUp \in BOOLEAN
      /\ toClient # <<>> /\ Head(toClient) # Response /\ toClient' = Tail(toClient)
      /\ Matches(recovery, store) /\ recovery \in Coordinators /\ Len(store) \in 0..committed
  BY BoundsAssumption
     DEF ReceiveEvent, Receive, Response, ClientInvariant, TypeOK, Recovered, CopyIsPrefix, Matches
<1>2. n \in 1..committed
  <2>1. Head(toClient) \in Push \cup [type : {"response"}] /\ Head(toClient).type = "event"
    BY <1>1, TailOf DEF ClientInvariant, TypeOK, ReceiveEvent, Receive
  <2> QED
    BY <2>1 DEF Push
<1> HIDE DEF n
<1> DEFINE deferred == [r EXCEPT !.pendingReplay = TRUE]
<1>3. /\ r \in Coordinators /\ r.inFlight = recovery.inFlight
      /\ r.bootstrapped = recovery.bootstrapped /\ r.latestSequence = recovery.latestSequence
  <2>1. Larger(recovery.highestObservedSequence, n) \in 0..committed
    BY <1>1, <1>2 DEF Larger, Coordinators
  <2> QED
    BY <1>1, <2>1 DEF Observe, Coordinators
<1> HIDE DEF r
<1>31. /\ deferred \in Coordinators /\ deferred.inFlight = recovery.inFlight
       /\ deferred.bootstrapped = recovery.bootstrapped
       /\ deferred.latestSequence = recovery.latestSequence
  BY <1>3 DEF Coordinators
<1> HIDE DEF deferred
<1>32. Matches(r, store) /\ Matches(deferred, store)
  BY <1>1, <1>3, <1>31 DEF Matches
<1>4. CASE mounts = 0 /\ UNCHANGED <<recovery, request, store, gaveUp>>
  BY <1>1, <1>4, QuietKeeps
<1>5. CASE recovery' = r /\ UNCHANGED <<request, store, gaveUp>>
  BY <1>1, <1>3, <1>32, <1>5, QuietKeeps
<1>6. CASE recovery' = deferred /\ UNCHANGED <<request, store, gaveUp>>
  BY <1>1, <1>3, <1>31, <1>32, <1>6, QuietKeeps
<1>7. CASE StartOrDefer("replay", deferred) /\ UNCHANGED store
  BY <1>1, <1>3, <1>31, <1>32, <1>7, StartOrDeferKeeps
<1>8. CASE /\ Classify(recovery, n) = "apply" /\ recovery' = Applied(r, n)
           /\ store' = Append(store, n) /\ UNCHANGED <<request, gaveUp>>
  <2>1. recovery.bootstrapped /\ recovery.inFlight = "none" /\ n = recovery.latestSequence + 1
    BY <1>8 DEF Classify
  <2>2. n = Len(store) + 1 /\ store = Events(Len(store)) /\ Len(store) \in Nat
    BY <1>1, <2>1 DEF Matches
  <2>21. store' = Events(n) /\ Len(store') = n
    <3>1. Events(Len(store) + 1) = Append(store, n)
      BY <2>2, EventsAppend
    <3> QED
      BY <1>8, <2>2, <3>1, EventsType
  <2>22. /\ Applied(r, n) \in Coordinators /\ Applied(r, n).latestSequence = n
         /\ Applied(r, n).inFlight = "none"
    <3>1. n \in 0..committed /\ r.latestSequence <= n /\ recovery.inFlight = "none"
      BY <1>1, <1>2, <1>3, <2>1 DEF Coordinators
    <3> QED
      BY <1>1, <1>3, <3>1, AppliedType
  <2>3. Matches(Applied(r, n), store')
    BY <1>2, <2>21, <2>22 DEF Matches
  <2>4. request = NoRequest
    BY <2>1 DEF ClientInvariant, Recovered, OneRequest
  <2>5. Finish(Applied(r, n)) /\ NoResponse(toClient')
    BY <1>1, <1>8, <2>4, TakenPush DEF Finish, NoResponse, NoRequest
  <2>6. Recovered'
    BY <1>1, <2>22, <2>3, <2>5, FinishKeeps
  <2> QED
    BY <1>1, <1>2, <1>8, <2>2, <2>21, <2>6
<1>9. \/ mounts = 0 /\ UNCHANGED <<recovery, request, store, gaveUp>>
      \/ recovery' = r /\ UNCHANGED <<request, store, gaveUp>>
      \/ recovery' = deferred /\ UNCHANGED <<request, store, gaveUp>>
      \/ StartOrDefer("replay", deferred) /\ UNCHANGED store
      \/ /\ Classify(recovery, n) = "apply" /\ recovery' = Applied(r, n)
         /\ store' = Append(store, n) /\ UNCHANGED <<request, gaveUp>>
  <2>1. mounts = 0 \/ mounts > 0
    BY DEF ClientInvariant, TypeOK
  <2>2. Classify(recovery, n) \in {"ignore", "defer", "recover", "apply"}
    BY DEF Classify
  <2> QED
    BY <2>1, <2>2 DEF ReceiveEvent, n, r, deferred
<1> QED
  BY <1>4, <1>5, <1>6, <1>7, <1>8, <1>9

LEMMA ReceiveEventStep == ClientInvariant /\ ReceiveEvent => ClientInvariant'
<1> SUFFICES ASSUME ClientInvariant, ReceiveEvent PROVE ClientInvariant'
  OBVIOUS
<1>1. Recovered' /\ gaveUp' \in BOOLEAN
  BY EventReceived
<1>2. Push' = Push /\ toClient' \in Seq(Push \cup [type : {"response"}])
  BY TailOf DEF ClientInvariant, TypeOK, ReceiveEvent, Receive, Push
<1>3. TypeOK'
  BY <1>1, <1>2 DEF ClientInvariant, TypeOK, ReceiveEvent, Receive, Recovered
<1> QED
  BY <1>1, <1>3 DEF ClientInvariant

\* A response is taken: it answers the request, and no other is on its way.
LEMMA TakenResponse ==
  ASSUME ClientInvariant, Receive("response")
  PROVE  /\ request.at = "answered" /\ NoResponse(toClient') /\ committed' = committed
         /\ Push' = Push /\ toClient' \in Seq(Push \cup [type : {"response"}])
<1>1. /\ toClient # <<>> /\ Head(toClient).type = "response" /\ toClient' = Tail(toClient)
      /\ toClient \in Seq(Push \cup [type : {"response"}]) /\ committed' = committed
  BY DEF Receive, ClientInvariant, TypeOK
<1>2. /\ Head(toClient) \in Push \cup [type : {"response"}] /\ Head(toClient) = toClient[1]
      /\ 1 \in 1..Len(toClient) /\ toClient' \in Seq(Push \cup [type : {"response"}])
      /\ Len(toClient') = Len(toClient) - 1 /\ Len(toClient) \in Nat
      /\ \A k \in 1..(Len(toClient) - 1) : toClient'[k] = toClient[k + 1]
  BY <1>1, TailOf
<1>3. toClient[1] = Response
  BY <1>1, <1>2 DEF Push, Response
<1>4. ASSUME NEW k \in 1..Len(toClient') PROVE toClient'[k] # Response
  <2>1. k + 1 \in 1..Len(toClient) /\ k + 1 # 1 /\ toClient'[k] = toClient[k + 1]
    BY <1>2
  <2> QED
    BY <1>2, <1>3, <2>1 DEF ClientInvariant, Recovered, OneResponse
<1>5. request.at = "answered"
  BY <1>2, <1>3 DEF ClientInvariant, Recovered, OneResponse
<1> QED
  BY <1>1, <1>2, <1>4, <1>5 DEF NoResponse, Push

LEMMA SnapshotReceived ==
  ASSUME ClientInvariant, ReceiveSnapshot
  PROVE  /\ Recovered'
         /\ \E n \in Len(store)..committed : store' = Events(n)
<1> DEFINE n == request.upTo
           r == SnapshotEnded(recovery, n)
<1>1. /\ request.at = "answered" /\ NoResponse(toClient') /\ committed' = committed
      /\ committed \in Nat /\ request.kind = "snapshot" /\ store' = Events(n)
  BY TakenResponse, BoundsAssumption DEF ReceiveSnapshot, ClientInvariant, TypeOK
<1>2. n \in 0..committed /\ n >= Len(store) /\ Len(store) \in Nat
  BY <1>1 DEF ClientInvariant, Recovered, AnswerExtendsCopy, Requests, CopyIsPrefix, Matches
<1>3. Matches(r, store') /\ r.inFlight = "none" /\ r.bootstrapped
  <2>1. recovery \in Coordinators /\ recovery.latestSequence <= n
    BY <1>2 DEF ClientInvariant, Recovered, CopyIsPrefix, Matches, Coordinators
  <2>2. Len(store') = n
    BY <1>1, <1>2, EventsType
  <2>3. /\ r \in Coordinators /\ r.latestSequence = n /\ r.inFlight = "none" /\ r.bootstrapped
    <3>1. /\ Applied(recovery, n) \in Coordinators
          /\ Applied(recovery, n).latestSequence = n
      BY <1>1, <1>2, <2>1, AppliedType
    <3> QED
      BY <3>1 DEF SnapshotEnded, Ended, Coordinators
  <2> HIDE DEF r, n
  <2> QED
    BY <1>1, <1>2, <2>2, <2>3 DEF Matches, n
<1>4. Start("replay", r) \/ Finish(r)
  BY DEF ReceiveSnapshot
<1> HIDE DEF r, n
<1>5. Recovered'
  BY <1>1, <1>3, <1>4, StartKeeps, FinishKeeps
<1> QED
  BY <1>1, <1>2, <1>5

LEMMA ReplayReceived ==
  ASSUME ClientInvariant, ReceiveReplay
  PROVE  /\ Recovered'
         /\ \E n \in Len(store)..committed : store' = Events(n)
<1> DEFINE n == request.upTo
           r == Ended(Applied(recovery, n))
<1>1. /\ request.at = "answered" /\ NoResponse(toClient') /\ committed' = committed
      /\ committed \in Nat /\ request.kind = "replay"
      /\ store' = store \o SubSeq(Events(n), recovery.latestSequence + 1, n)
  BY TakenResponse, BoundsAssumption DEF ReceiveReplay, ClientInvariant, TypeOK
<1>2. n \in 0..committed /\ n >= Len(store) /\ Len(store) \in Nat
  BY <1>1 DEF ClientInvariant, Recovered, AnswerExtendsCopy, Requests, CopyIsPrefix, Matches
<1>3. recovery.bootstrapped /\ recovery.latestSequence = Len(store) /\ store = Events(Len(store))
  BY <1>1 DEF ClientInvariant, Recovered, AnswerExtendsCopy, CopyIsPrefix, Matches
<1>4. store' = Events(n)
  <2>1. n \in Nat /\ Len(store) \in 0..n
    BY <1>2
  <2> HIDE DEF n
  <2>2. Events(Len(store)) \o SubSeq(Events(n), Len(store) + 1, n) = Events(n)
    BY <2>1, EventsConcat
  <2> QED
    BY <1>1, <1>3, <2>2
<1>5. Matches(r, store') /\ r.inFlight = "none" /\ r.bootstrapped
  <2>1. recovery \in Coordinators /\ recovery.latestSequence <= n
    BY <1>2, <1>3 DEF ClientInvariant, Recovered
  <2>2. Len(store') = n
    BY <1>2, <1>4, EventsType
  <2>3. /\ r \in Coordinators /\ r.latestSequence = n /\ r.inFlight = "none" /\ r.bootstrapped
    <3>1. /\ Applied(recovery, n) \in Coordinators
          /\ Applied(recovery, n).latestSequence = n
          /\ Applied(recovery, n).bootstrapped
      BY <1>1, <1>2, <1>3, <2>1, AppliedType
    <3> QED
      BY <3>1 DEF Ended, Coordinators
  <2> HIDE DEF r, n
  <2> QED
    BY <1>2, <1>4, <2>2, <2>3 DEF Matches, n
<1>6. Start("replay", r) \/ Finish(r)
  BY DEF ReceiveReplay
<1> HIDE DEF r, n
<1>7. Recovered'
  BY <1>1, <1>5, <1>6, StartKeeps, FinishKeeps
<1> QED
  BY <1>2, <1>4, <1>7

LEMMA ReceiveSnapshotStep == ClientInvariant /\ ReceiveSnapshot => ClientInvariant'
<1> SUFFICES ASSUME ClientInvariant, ReceiveSnapshot PROVE ClientInvariant'
  OBVIOUS
<1>1. Receive("response") /\ Recovered'
  BY SnapshotReceived DEF ReceiveSnapshot
<1>2. TypeOK'
  BY <1>1, TakenResponse
     DEF ClientInvariant, TypeOK, ReceiveSnapshot, Receive, Recovered
<1> QED
  BY <1>1, <1>2 DEF ClientInvariant

LEMMA ReceiveReplayStep == ClientInvariant /\ ReceiveReplay => ClientInvariant'
<1> SUFFICES ASSUME ClientInvariant, ReceiveReplay PROVE ClientInvariant'
  OBVIOUS
<1>1. Receive("response") /\ Recovered'
  BY ReplayReceived DEF ReceiveReplay
<1>2. TypeOK'
  BY <1>1, TakenResponse
     DEF ClientInvariant, TypeOK, ReceiveReplay, Receive, Recovered
<1> QED
  BY <1>1, <1>2 DEF ClientInvariant

-----------------------------------------------------------------------------
(* The theorems *)

LEMMA InitInvariant == Init => ClientInvariant
<1> SUFFICES ASSUME Init PROVE ClientInvariant
  OBVIOUS
<1>1. Events(0) = <<>> /\ Len(store) = 0
  BY DEF Events, Init
<1>2. /\ request \in Requests /\ recovery \in Coordinators /\ store \in Seq(1..committed)
  BY DEF Init, NoRequest, Fresh, Requests, Coordinators
<1>3. OneRequest /\ OneResponse /\ AnswerExtendsCopy
  BY DEF Init, NoRequest, Fresh, OneRequest, OneResponse, AnswerExtendsCopy
<1>4. CopyIsPrefix
  BY <1>1, <1>2 DEF Init, Fresh, CopyIsPrefix, Matches
<1>5. TypeOK
  <2>1. bus \in Seq(Push) /\ toClient \in Seq(Push \cup [type : {"response"}])
    BY DEF Init
  <2>2. /\ committed \in 0..MaxEvents /\ offered \in 0..committed
        /\ connections \in 0..MaxConnections /\ mounts \in 0..MaxMounts
    BY BoundsAssumption DEF Init
  <2> QED
    BY <1>2, <2>1, <2>2 DEF Init, TypeOK, Stages
<1> QED
  BY <1>2, <1>3, <1>4, <1>5 DEF ClientInvariant, Recovered

LEMMA StutterStep == ClientInvariant /\ UNCHANGED vars => ClientInvariant'
<1> SUFFICES ASSUME ClientInvariant, UNCHANGED vars PROVE ClientInvariant'
  OBVIOUS
<1>1. committed' \in Nat /\ committed <= committed'
  BY BoundsAssumption DEF ClientInvariant, TypeOK, vars
<1>2. OneResponse'
  BY DEF ClientInvariant, Recovered, OneResponse, vars
<1>3. Recovered'
  BY <1>1, <1>2, ServerKeeps DEF vars
<1> QED
  BY <1>3 DEF ClientInvariant, TypeOK, Recovered, vars, Push

LEMMA NextStep == ClientInvariant /\ [Next]_vars => ClientInvariant'
BY CommitStep, OfferEventStep, OfferWelcomeStep, SendPushStep, JoinBroadcastStep,
   ServeRequestStep, SendResponseStep, ConnectStep, DisconnectStep, RestartServerStep,
   RequestFailsStep, MountStep, ReceiveWelcomeStep, ReceiveEventStep,
   ReceiveSnapshotStep, ReceiveReplayStep, StutterStep
   DEF Next, Server, Deliver

(* The inductive invariant: one request per recovery, one answer per       *)
(* request, and what an answer brings continues the copy.                  *)
THEOREM ClientInvariantHolds == Spec => []ClientInvariant
<1> QED
  BY InitInvariant, NextStep, PTL DEF Spec

(* Every variable has its type, for every bound.                           *)
THEOREM ClientTypes == Spec => []TypeOK
<1>1. ClientInvariant => TypeOK
  BY DEF ClientInvariant
<1> QED
  BY <1>1, ClientInvariantHolds, PTL

LEMMA InitFollows == Init => Follower!Init
<1> SUFFICES ASSUME Init PROVE Events(committed) = <<>> /\ store = <<>>
  BY DEF Follower!Init
<1> QED
  BY DEF Init, Events

\* The copy stays, or reaches further in a log that stays.
LEMMA CopyAdvances ==
  ASSUME ClientInvariant, committed' = committed,
         \/ store' = store
         \/ \E n \in Len(store)..committed : store' = Events(n)
  PROVE  Follower!CatchUp \/ UNCHANGED <<Events(committed), store>>
<1>1. Events(committed)' = Events(committed)
  BY DEF Events
<1>2. CASE store' = store
  BY <1>1, <1>2
<1>3. CASE \E n \in Len(store)..committed : store' = Events(n)
  <2>1. PICK n \in Len(store)..committed : store' = Events(n)
    BY <1>3
  <2>2. /\ committed \in Nat /\ n \in 0..committed
        /\ Len(Events(committed)) = committed /\ SubSeq(Events(committed), 1, n) = Events(n)
    BY BoundsAssumption, EventsType, EventsPrefix
       DEF ClientInvariant, TypeOK, Recovered, CopyIsPrefix, Matches
  <2>3. n \in Len(store)..Len(Events(committed)) /\ store' = SubSeq(Events(committed), 1, n)
    BY <2>1, <2>2
  <2> QED
    BY <1>1, <2>3 DEF Follower!CatchUp
<1> QED
  BY <1>2, <1>3

LEMMA NextFollows ==
  ClientInvariant /\ [Next]_vars =>
    [Follower!AppendEvent \/ Follower!CatchUp]_<<Events(committed), store>>
<1> SUFFICES ASSUME ClientInvariant, [Next]_vars
             PROVE  [Follower!AppendEvent \/ Follower!CatchUp]_<<Events(committed), store>>
  OBVIOUS
<1>1. CASE Commit
  <2>1. committed \in Nat /\ committed' = committed + 1 /\ store' = store
    BY <1>1, BoundsAssumption DEF Commit, ClientInvariant, TypeOK
  <2>2. Events(committed)' = Append(Events(committed), Len(Events(committed)) + 1)
    <3>1. Events(committed)' = Events(committed + 1)
      BY <2>1 DEF Events
    <3> QED
      BY <2>1, <3>1, EventsAppend, EventsType
  <2> QED
    BY <2>1, <2>2 DEF Follower!AppendEvent
<1>2. CASE ReceiveEvent
  <2>1. /\ store' = store \/ (Len(store) + 1 <= committed /\ store' = Events(Len(store) + 1))
        /\ committed' = committed /\ committed \in Nat /\ Len(store) \in Nat
    <3>1. committed' = committed
      BY <1>2 DEF ReceiveEvent, Receive
    <3>2. committed \in Nat /\ Len(store) \in Nat
      BY BoundsAssumption DEF ClientInvariant, TypeOK
    <3> QED
      BY <1>2, <3>1, <3>2, EventReceived
  <2>2. \/ store' = store
        \/ \E n \in Len(store)..committed : store' = Events(n)
    BY <2>1
  <2> QED
    BY <2>1, <2>2, CopyAdvances
<1>3. CASE ReceiveSnapshot
  BY <1>3, SnapshotReceived, CopyAdvances DEF ReceiveSnapshot, Receive
<1>4. CASE ReceiveReplay
  BY <1>4, ReplayReceived, CopyAdvances DEF ReceiveReplay, Receive
<1>5. CASE \/ OfferEvent \/ OfferWelcome \/ SendPush \/ JoinBroadcast
           \/ ServeRequest \/ SendResponse \/ Connect \/ Disconnect \/ RestartServer
           \/ RequestFails \/ ReceiveWelcome \/ Mount \/ UNCHANGED vars
  <2>1. committed' = committed /\ store' = store
    BY <1>5 DEF OfferEvent, OfferWelcome, SendPush, JoinBroadcast, ServeRequest,
                SendResponse, server, Connect, Disconnect, RestartServer, LoseConnection,
                RequestFails, ReceiveWelcome, Receive, Mount, vars
  <2> QED
    BY <2>1, CopyAdvances
<1> QED
  BY <1>1, <1>2, <1>3, <1>4, <1>5 DEF Next, Server, Deliver

(* The client, the push bus and the server implement LogFollower: the      *)
(* read model a client shows is always a prefix of the event log, and a    *)
(* step of anything extends it or leaves it alone, for any number of       *)
(* events, connections, remounts and failing requests and for any length   *)
(* of a replay.                                                            *)
THEOREM ClientFollowsLog == Spec => FollowsLog
<1> QED
  BY InitFollows, NextFollows, ClientInvariantHolds, PTL DEF Spec, FollowsLog, Follower!Spec
=============================================================================
