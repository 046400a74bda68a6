--------------------------- MODULE ClientRecovery ---------------------------
(***************************************************************************)
(* How a client's copy of the read model follows the server's event log:   *)
(* the push bus and the broadcast set of wsServer.ts, the connection and   *)
(* the requests of wsTransport.ts, and the recovery coordinator of         *)
(* orchestrationRecovery.ts as routes/__root.tsx drives it.                *)
(*                                                                         *)
(* The log only grows and is numbered 1, 2, ... (OrchestrationEngine), so  *)
(* it is its length here, and the client's copy is the sequence of the     *)
(* events it has applied.  A handler of the client, with the continuation  *)
(* of the promise it settles, is one step; the server's fibers, the        *)
(* network and the timers run in between.  The recovery requests only      *)
(* read, so the answer to one the client has given up changes nothing and  *)
(* is dropped with it.                                                     *)
(***************************************************************************)
EXTENDS Naturals, Sequences, SequencesExt

CONSTANTS MaxEvents,      \* bound: events the server commits
          MaxConnections, \* bound: connections the client makes
          MaxMounts,      \* bound: runs of the effect that owns the coordinator
          ReplayLimit,    \* events one replayEvents answer holds at most
          RequestsFail    \* whether a request can time out or be answered with an error

ASSUME BoundsAssumption ==
  /\ MaxEvents \in Nat /\ MaxConnections \in Nat /\ MaxMounts \in Nat
  /\ ReplayLimit \in Nat \ {0}
  /\ RequestsFail \in BOOLEAN

VARIABLES
  committed,   \* server: the length of the durable log
  offered,     \* server: events the stream has handed to the push bus
  bus,         \* server: the queue of push jobs
  connection,  \* how far the current connection has come
  connections, \* history: connections made
  toClient,    \* messages on their way to the client
  welcomed,    \* client: latestPushByChannel holds a server.welcome
  request,     \* client: the recovery request it waits for, and where it is
  mounts,      \* history: runs of the effect
  recovery,    \* client: the coordinator's state
  store,       \* client: the events its read model consists of
  gaveUp       \* history: the last recovery that ended was a failed snapshot

server == <<committed, offered, bus, connection, connections>>
vars == <<committed, offered, bus, connection, connections, toClient, welcomed,
          request, mounts, recovery, store, gaveUp>>

\* The server's side of a connection: accepted, the welcome in the bus, the
\* welcome sent, in the broadcast set.
Stages == {"closed", "accepted", "greeting", "delivered", "joined"}

NoRequest == [kind |-> "none", from |-> 0, at |-> "nowhere", upTo |-> 0]

Fresh == [latestSequence |-> 0, highestObservedSequence |-> 0,
          bootstrapped |-> FALSE, pendingReplay |-> FALSE, inFlight |-> "none"]

Init ==
  /\ committed = 0 /\ offered = 0 /\ bus = <<>>
  /\ connection = "closed" /\ connections = 0
  /\ toClient = <<>>
  /\ welcomed = FALSE
  /\ request = NoRequest
  /\ mounts = 0
  /\ recovery = Fresh
  /\ store = <<>>
  /\ gaveUp = FALSE

Larger(a, b) == IF a > b THEN a ELSE b
Smaller(a, b) == IF a < b THEN a ELSE b

\* The log's events 1..n, which a snapshot with that sequence consists of.
Events(n) == [i \in 1..n |-> i]

-----------------------------------------------------------------------------
(* The coordinator's functions, on its state r *)

Observe(r, n) ==
  [r EXCEPT !.highestObservedSequence = Larger(r.highestObservedSequence, n)]

\* Mutant: events are applied while a recovery is in flight.
ClassifyInFlight(r, n) ==
  IF n <= r.latestSequence THEN "ignore"
  ELSE IF ~r.bootstrapped THEN "defer"
  ELSE IF n # r.latestSequence + 1 THEN "recover"
  ELSE "apply"

\* classifyDomainEvent, the verdict
Classify(r, n) ==
  IF n <= r.latestSequence THEN "ignore"
  ELSE IF ~r.bootstrapped \/ r.inFlight # "none" THEN "defer"
  ELSE IF n # r.latestSequence + 1 THEN "recover"
  ELSE "apply"

\* markEventBatchApplied, for events up to n
Applied(r, n) ==
  [r EXCEPT !.latestSequence = Larger(r.latestSequence, n),
            !.highestObservedSequence = Larger(r.highestObservedSequence, n)]

\* Mutant: only a deferred event asks for another replay.
ShouldReplayDeferred(r) == r.pendingReplay

ShouldReplay(r) ==
  r.pendingReplay \/ r.highestObservedSequence > r.latestSequence

\* beginSnapshotRecovery and beginReplayRecovery: one recovery at a time.
MayBegin(r, kind) == r.inFlight = "none" /\ (kind = "replay" => r.bootstrapped)
Begun(r, kind) ==
  [r EXCEPT !.inFlight = kind,
            !.pendingReplay = IF kind = "replay" THEN FALSE ELSE @]

\* completeSnapshotRecovery and completeReplayRecovery
Ended(r) == [r EXCEPT !.inFlight = "none", !.pendingReplay = FALSE]
SnapshotEnded(r, n) == [Ended(Applied(r, n)) EXCEPT !.bootstrapped = TRUE]

\* Mutant: the flag stays set, as if failSnapshotRecovery were not called.
SnapshotStuck(r) == r

SnapshotFailed(r) == [r EXCEPT !.inFlight = "none"]
ReplayFailed(r) == [r EXCEPT !.inFlight = "none", !.bootstrapped = FALSE]

-----------------------------------------------------------------------------
(* The server *)

Commit ==
  /\ committed < MaxEvents
  /\ committed' = committed + 1
  /\ UNCHANGED <<offered, bus, connection, connections, toClient, welcomed,
                 request, mounts, recovery, store, gaveUp>>

\* Stream.runForEach(streamDomainEvents, publishAll)
OfferEvent ==
  /\ offered < committed
  /\ offered' = offered + 1
  /\ bus' = Append(bus, [type |-> "event", sequence |-> offered + 1])
  /\ UNCHANGED <<committed, connection, connections, toClient, welcomed,
                 request, mounts, recovery, store, gaveUp>>

\* on("connection"), once the server is ready: publishClient(welcome)
OfferWelcome ==
  /\ connection = "accepted"
  /\ connection' = "greeting"
  /\ bus' = Append(bus, [type |-> "welcome"])
  /\ UNCHANGED <<committed, offered, connections, toClient, welcomed, request,
                 mounts, recovery, store, gaveUp>>

\* clients.has(ws)
InBroadcastSet == connection = "joined"

\* The bus's fiber takes a job and sends it to its target.
SendPush ==
  /\ bus # <<>>
  /\ bus' = Tail(bus)
  /\ IF Head(bus).type = "welcome"
     THEN /\ connection' = "delivered"
          /\ toClient' = Append(toClient, Head(bus))
     ELSE /\ toClient' = IF InBroadcastSet THEN Append(toClient, Head(bus)) ELSE toClient
          /\ UNCHANGED connection
  /\ UNCHANGED <<committed, offered, connections, welcomed, request, mounts,
                 recovery, store, gaveUp>>

\* The welcome was delivered: clients.add(ws)
JoinBroadcast ==
  /\ connection = "delivered"
  /\ connection' = "joined"
  /\ UNCHANGED <<committed, offered, bus, connections, toClient, welcomed,
                 request, mounts, recovery, store, gaveUp>>

\* readEvents(from): the events up to ReplayLimit after from.
ReplayUpTo == Smaller(committed, request.from + ReplayLimit)

\* getSnapshot reads the projections, replayEvents the log; a fiber per request.
ServeRequest ==
  /\ request.at = "sent"
  /\ request' = [request EXCEPT !.at = "served",
                   !.upTo = IF request.kind = "snapshot" THEN committed ELSE ReplayUpTo]
  /\ UNCHANGED <<server, toClient, welcomed, mounts, recovery, store, gaveUp>>

SendResponse ==
  /\ request.at = "served"
  /\ request' = [request EXCEPT !.at = "answered"]
  /\ toClient' = Append(toClient, [type |-> "response"])
  /\ UNCHANGED <<server, welcomed, mounts, recovery, store, gaveUp>>

-----------------------------------------------------------------------------
(* The client: recoveries *)

\* transport.request: sent now, or queued until the connection opens.
RequestOf(kind, r) ==
  [kind |-> kind, from |-> r.latestSequence, upTo |-> 0,
   at |-> IF connection' = "closed" THEN "queued" ELSE "sent"]

\* runSnapshotRecovery and recoverFromSequenceGap up to their await, entered
\* with coordinator state r while nothing is in flight.
Start(kind, r) ==
  /\ recovery' = Begun(r, kind)
  /\ request' = RequestOf(kind, r)

Finish(r) == recovery' = r /\ request' = NoRequest

\* The same, entered from a push, when something may be in flight.
StartOrDefer(kind, r) ==
  IF MayBegin(r, kind)
  THEN Start(kind, r) /\ gaveUp' = FALSE
  ELSE /\ recovery' = [r EXCEPT !.pendingReplay = TRUE]
       /\ UNCHANGED <<request, gaveUp>>

\* The catch branches: a failed replay falls back to a snapshot, a failed
\* snapshot waits for a welcome.
FailRequest ==
  IF request.kind = "replay"
  THEN /\ Start("snapshot", ReplayFailed(recovery))
       /\ UNCHANGED gaveUp
  ELSE /\ Finish(SnapshotFailed(recovery))
       /\ gaveUp' = TRUE

-----------------------------------------------------------------------------
(* The client: connection and messages *)

\* The open event flushes the outbound queue.
Connect ==
  /\ connection = "closed"
  /\ connections < MaxConnections
  /\ connections' = connections + 1
  /\ connection' = "accepted"
  /\ request' = IF request.at = "queued" THEN [request EXCEPT !.at = "sent"] ELSE request
  /\ UNCHANGED <<committed, offered, bus, toClient, welcomed, mounts, recovery,
                 store, gaveUp>>

\* The close event of an open connection rejects what is pending.  What was under
\* way is lost, and a job for the closed socket is skipped.
LoseConnection ==
  /\ connection # "closed"
  /\ connections < MaxConnections
  /\ connection' = "closed"
  /\ toClient' = <<>>
  /\ IF request = NoRequest THEN UNCHANGED <<recovery, request, gaveUp>> ELSE FailRequest
  /\ UNCHANGED <<committed, connections, welcomed, mounts, store>>

Disconnect ==
  /\ LoseConnection
  /\ bus' = RemoveFirst(bus, [type |-> "welcome"])
  /\ UNCHANGED offered

\* The server's process ends and starts again: its queues go, and its stream
\* begins with what is committed from then on.
RestartServer ==
  /\ LoseConnection
  /\ bus' = <<>>
  /\ offered' = committed

\* The request's timer fires, or the server answers with an error.
RequestFails ==
  /\ RequestsFail
  /\ request # NoRequest
  /\ connection' = connection
  /\ FailRequest
  /\ toClient' = RemoveFirst(toClient, [type |-> "response"])
  /\ UNCHANGED <<committed, offered, bus, connections, welcomed, mounts, store>>

Receive(type) ==
  /\ toClient # <<>>
  /\ Head(toClient).type = type
  /\ toClient' = Tail(toClient)
  /\ connection' = connection
  /\ UNCHANGED <<committed, offered, bus, connections, mounts>>

\* The transport keeps the latest welcome; the effect's listener bootstraps.
ReceiveWelcome ==
  /\ Receive("welcome")
  /\ welcomed' = TRUE
  /\ IF mounts > 0 THEN StartOrDefer("snapshot", recovery)
     ELSE UNCHANGED <<recovery, request, gaveUp>>
  /\ UNCHANGED store

\* onDomainEvent; without a mounted effect nobody listens.
ReceiveEvent ==
  /\ Receive("event")
  /\ LET n == Head(toClient).sequence
         r == Observe(recovery, n)
         verdict == Classify(recovery, n)
     IN  CASE mounts = 0 -> UNCHANGED <<recovery, request, store, gaveUp>>
           [] mounts > 0 /\ verdict = "ignore" ->
                recovery' = r /\ UNCHANGED <<request, store, gaveUp>>
           [] mounts > 0 /\ verdict = "defer" ->
                /\ recovery' = [r EXCEPT !.pendingReplay = TRUE]
                /\ UNCHANGED <<request, store, gaveUp>>
           [] mounts > 0 /\ verdict = "recover" ->
                /\ StartOrDefer("replay", [r EXCEPT !.pendingReplay = TRUE])
                /\ UNCHANGED store
           [] mounts > 0 /\ verdict = "apply" ->
                /\ recovery' = Applied(r, n)
                /\ store' = Append(store, n)
                /\ UNCHANGED <<request, gaveUp>>
  /\ UNCHANGED welcomed

\* runSnapshotRecovery after its await
ReceiveSnapshot ==
  /\ request.kind = "snapshot"
  /\ Receive("response")
  /\ store' = Events(request.upTo)
  /\ LET r == Applied(recovery, request.upTo) IN
     IF ShouldReplay(r)
     THEN Start("replay", SnapshotEnded(recovery, request.upTo))
     ELSE Finish(SnapshotEnded(recovery, request.upTo))
  /\ gaveUp' = FALSE
  /\ UNCHANGED welcomed

\* recoverFromSequenceGap after its await; an answer that brought nothing is not
\* asked for again.
ReceiveReplay ==
  /\ request.kind = "replay"
  /\ Receive("response")
  /\ store' = store \o SubSeq(Events(request.upTo), recovery.latestSequence + 1, request.upTo)
  /\ LET r == Applied(recovery, request.upTo) IN
     IF r.latestSequence > request.from /\ ShouldReplay(r)
     THEN Start("replay", Ended(r))
     ELSE Finish(Ended(r))
  /\ UNCHANGED <<welcomed, gaveUp>>

\* The effect runs (again): a new coordinator, the old one's request no longer
\* concerns anybody, and a cached welcome bootstraps at once.
Mount ==
  /\ mounts < MaxMounts
  /\ mounts' = mounts + 1
  /\ connection' = connection
  /\ toClient' = RemoveFirst(toClient, [type |-> "response"])
  /\ IF welcomed THEN Start("snapshot", Fresh) ELSE Finish(Fresh)
  /\ gaveUp' = FALSE
  /\ UNCHANGED <<committed, offered, bus, connections, welcomed, store>>

-----------------------------------------------------------------------------
Server ==
  OfferEvent \/ OfferWelcome \/ SendPush \/ JoinBroadcast \/ ServeRequest \/ SendResponse

Deliver == ReceiveWelcome \/ ReceiveEvent \/ ReceiveSnapshot \/ ReceiveReplay

Next ==
  \/ Commit \/ Server
  \/ Connect \/ Disconnect \/ RestartServer
  \/ RequestFails \/ Deliver \/ Mount

Spec == Init /\ [][Next]_vars

\* The server's fibers run, an open connection delivers, and a closed one is
\* opened again by the reconnect timer.  Nothing has to be committed or to fail.
FairSpec ==
  /\ Spec
  /\ WF_vars(OfferEvent) /\ WF_vars(OfferWelcome) /\ WF_vars(SendPush)
  /\ WF_vars(JoinBroadcast) /\ WF_vars(ServeRequest) /\ WF_vars(SendResponse)
  /\ WF_vars(Deliver) /\ WF_vars(Connect)

-----------------------------------------------------------------------------
(* Types *)

Push == [type : {"event"}, sequence : 1..committed] \cup [type : {"welcome"}]

Requests == [kind : {"none", "snapshot", "replay"}, from : 0..committed,
             at : {"nowhere", "queued", "sent", "served", "answered"},
             upTo : 0..committed]

Coordinators == [latestSequence : 0..committed, highestObservedSequence : 0..committed,
                 bootstrapped : BOOLEAN, pendingReplay : BOOLEAN,
                 inFlight : {"none", "snapshot", "replay"}]

\* Every variable has its type; the parts of a request and of the coordinator
\* stay within what has been committed.
TypeOK ==
  /\ committed \in 0..MaxEvents /\ offered \in 0..committed
  /\ bus \in Seq(Push)
  /\ connection \in Stages /\ connections \in 0..MaxConnections
  /\ toClient \in Seq(Push \cup [type : {"response"}])
  /\ welcomed \in BOOLEAN
  /\ request \in Requests
  /\ mounts \in 0..MaxMounts
  /\ recovery \in Coordinators
  /\ store \in Seq(1..committed)
  /\ gaveUp \in BOOLEAN

-----------------------------------------------------------------------------
(* Safety *)

\* The client's copy is a prefix of the log: no event is skipped, applied twice
\* or out of order, however pushes, snapshots, replays, reconnects and remounts
\* overlap.  And it follows the log: whatever is lost, delayed or fails, a step of the
\* whole system leaves its copy alone or extends it to a longer prefix of what is
\* committed.  In particular what the user has seen never disappears, as when a
\* late snapshot or a new coordinator took the copy back.
Follower == INSTANCE LogFollower WITH log <- Events(committed), copy <- store

FollowsLog == Follower!Spec

-----------------------------------------------------------------------------
(* Liveness *)

\* No recovery is in flight for ever.
EveryRecoveryEnds == recovery.inFlight # "none" ~> recovery.inFlight = "none"

\* What the client has heard of when a recovery asks the server, it gets, over as
\* many replays as it takes and whatever connections are lost on the way; unless a
\* snapshot fails, after which nothing is asked for before the next push.
RecoveryCatchesUp ==
  \A n \in 1..MaxEvents :
    (request.at \in {"queued", "sent"} /\ recovery.highestObservedSequence >= n)
      ~> (recovery.latestSequence >= n \/ gaveUp)

============================================================================
