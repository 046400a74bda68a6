-------------------------- MODULE TurnCheckpoints --------------------------
(***************************************************************************)
(* How the turns of one thread get their checkpoints, and how a thread is  *)
(* reverted to one: ProviderRuntimeIngestion.ts writes placeholders        *)
(* (status "missing") from turn.diff.updated, CheckpointReactor.ts         *)
(* captures git refs and restores them, projector.ts and                   *)
(* ProjectionPipeline.ts each fold the same events, one into the read      *)
(* model and one into the projection_turns table.                          *)
(*                                                                         *)
(* The two workers run beside each other and beside the provider.  Each    *)
(* gets every runtime event of ProviderService.streamEvents, in order but  *)
(* with a lag of its own; the reactor also gets the engine's domain        *)
(* events, and merges the two streams in any order.  Each reads the read   *)
(* model when it takes an event and acts on it after asynchronous git      *)
(* work.  A dispatch is one step: OrchestrationEngine shows that commands  *)
(* are applied one at a time to the replay of the log, and the table is    *)
(* written in the same transaction.                                        *)
(***************************************************************************)
EXTENDS Integers, Sequences, FiniteSets, FiniteSetsExt

CONSTANTS Turns,      \* turn ids of the provider
          NoTurn,     \* session.activeTurnId = null
          None,       \* no checkpoint for a turn, no git ref for a count
          MaxEdits,   \* bound: edits of the workspace by the provider
          MaxReverts, \* bound: thread.checkpoint.revert commands
          MaxCrashes, \* bound: crashes of the server
          FailingCalls \* the jobs whose git, provider and engine calls may fail

ASSUME BoundsAssumption ==
  /\ IsFiniteSet(Turns)
  /\ MaxEdits \in Nat /\ MaxReverts \in Nat /\ MaxCrashes \in Nat
  /\ FailingCalls \subseteq {"placeholder", "capture", "revert"}
ASSUME NoneAssumption == NoTurn \notin Turns /\ None \notin Nat

\* A new turn count is one more than the largest in the thread, and it takes a
\* diff or the end of a turn to make one.
Counts == 0..(MaxEdits + Cardinality(Turns))

VARIABLES
  phase,        \* provider: where each turn is (new, requested, running, ended)
  workspace,    \* the content of the working tree, a number per content
  edits,        \* history: the edits made so far
  session,      \* whether providerService has a live session for the thread
  activeTurn,   \* read model: thread.session.activeTurnId
  checkpoints,  \* read model: thread.checkpoints, by turn
  table,        \* projection_turns: the checkpoint columns, by turn
  refs,         \* git refs refs/t3/checkpoints/<thread>/turn/<count>
  ingestFeed,   \* runtime events ahead of ProviderRuntimeIngestion
  runtimeFeed,  \* runtime events ahead of CheckpointReactor
  domainFeed,   \* domain events ahead of CheckpointReactor
  ingestJob,    \* what the ingestion worker is doing
  job,          \* what the checkpoint worker is doing
  asked,        \* history: reverts requested
  answered,     \* history: reverts completed or reported as failed
  torn,         \* history: counts a broken-off revert left without a ref
  crashes       \* history: crashes

provider  == <<phase, workspace, edits>>
readModel == <<activeTurn, checkpoints, table>>
feeds     == <<ingestFeed, runtimeFeed, domainFeed>>
history   == <<asked, answered, torn, crashes>>
vars == <<phase, workspace, edits, session, activeTurn,
          checkpoints, table, refs, ingestFeed, runtimeFeed, domainFeed,
          ingestJob, job, asked, answered, torn, crashes>>

\* "ready" stands for "error" too: the code only compares a status with "missing".
Statuses == {"ready", "missing"}

\* git says whether checkpointRef is the git ref of the count (the reactor's
\* checkpoints) or a name of the provider's diff (a placeholder).
Checkpoint == [count : Counts, status : Statuses, git : BOOLEAN]

NoJob == [step |-> "idle"]

Init ==
  /\ phase = [t \in Turns |-> "new"]
  /\ workspace = 0 /\ edits = 0
  /\ session = FALSE
  /\ activeTurn = NoTurn
  /\ checkpoints = [t \in Turns |-> None]
  /\ table = [t \in Turns |-> None]
  /\ refs = [c \in Counts |-> None]
  /\ ingestFeed = <<>> /\ runtimeFeed = <<>> /\ domainFeed = <<>>
  /\ ingestJob = NoJob /\ job = NoJob
  /\ asked = 0 /\ answered = 0 /\ torn = {} /\ crashes = 0

-----------------------------------------------------------------------------
(* What the read model says, and how the two projections fold an event *)

Known(cps) == {t \in Turns : cps[t] # None}

\* checkpoints.reduce((max, c) => Math.max(max, c.checkpointTurnCount), 0)
MaxTurnCount == Max({0} \cup {checkpoints[t].count : t \in Known(checkpoints)})

IsReal(cp) == cp # None /\ cp.status # "missing"

\* Mutant: the projector without its guard against placeholders.
ProjectAnyCheckpoint(t, cp) == [checkpoints EXCEPT ![t] = cp]

\* thread.turn-diff-completed in projector.ts: a placeholder does not replace a
\* checkpoint that is real.
ProjectCheckpoint(t, cp) ==
  IF IsReal(checkpoints[t]) /\ cp.status = "missing"
  THEN checkpoints
  ELSE [checkpoints EXCEPT ![t] = cp]

\* thread.turn-diff-completed in ProjectionPipeline.ts: the columns of another
\* turn with the same count are cleared, those of this turn are set.
RecordCheckpoint(t, cp) ==
  [u \in Turns |->
     IF u = t THEN cp
     ELSE IF table[u] # None /\ table[u].count = cp.count THEN None
     ELSE table[u]]

\* thread.reverted, the same in both: what lies beyond the turn count goes.
Retained(cps, to) ==
  [t \in Turns |-> IF cps[t] # None /\ cps[t].count <= to THEN cps[t] ELSE None]

\* dispatch(thread.turn.diff.complete): both projections, then the event goes
\* to the reactor's stream.
DispatchDiffComplete(t, cp) ==
  /\ checkpoints' = ProjectCheckpoint(t, cp)
  /\ table' = RecordCheckpoint(t, cp)
  /\ UNCHANGED activeTurn

DiffCompleted(t, cp) ==
  [type |-> "turnDiffCompleted", turn |-> t, count |-> cp.count, status |-> cp.status]

-----------------------------------------------------------------------------
(* Users and the provider *)

\* thread.turn.start: the user's message and the request reach the reactor's
\* stream (both with the same handler); ProviderCommandReactor will send the turn.
RequestTurn(t) ==
  /\ phase[t] = "new"
  /\ phase' = [phase EXCEPT ![t] = "requested"]
  /\ domainFeed' = Append(domainFeed, [type |-> "turnStartRequested"])
  /\ UNCHANGED <<workspace, edits, session, readModel, refs,
                 ingestFeed, runtimeFeed, ingestJob, job, history>>

\* ProviderCommandReactor binds a session before it sends a turn, and clears
\* the active turn with it.
BindSession ==
  /\ ~session
  /\ \E t \in Turns : phase[t] = "requested"
  /\ session' = TRUE
  /\ activeTurn' = NoTurn
  /\ UNCHANGED <<provider, checkpoints, table, refs, feeds, ingestJob, job, history>>

\* The provider runs one turn of a session at a time.
Running == {t \in Turns : phase[t] = "running"}

Publish(event) ==
  /\ ingestFeed' = Append(ingestFeed, event)
  /\ runtimeFeed' = Append(runtimeFeed, event)

StartTurn(t) ==
  /\ session /\ phase[t] = "requested" /\ Running = {}
  /\ phase' = [phase EXCEPT ![t] = "running"]
  /\ Publish([type |-> "turnStarted", turn |-> t])
  /\ UNCHANGED <<workspace, edits, session, readModel, refs,
                 domainFeed, ingestJob, job, history>>

\* The agent edits a file and reports the turn's diff; CheckpointReactor does
\* not listen to turn.diff.updated.
EditAndReportDiff(t) ==
  /\ t \in Running /\ edits < MaxEdits
  /\ edits' = edits + 1
  /\ workspace' = edits + 1
  /\ ingestFeed' = Append(ingestFeed, [type |-> "diffUpdated", turn |-> t])
  /\ UNCHANGED <<phase, session, readModel, refs, runtimeFeed,
                 domainFeed, ingestJob, job, history>>

\* turn.completed, with the checkpoint status that checkpointStatusFromRuntime
\* makes of its state: "ready" for completed, "missing" for cancelled and
\* interrupted.
EndTurn(t, status) ==
  /\ t \in Running
  /\ phase' = [phase EXCEPT ![t] = "ended"]
  /\ Publish([type |-> "turnCompleted", turn |-> t, status |-> status])
  /\ UNCHANGED <<workspace, edits, session, readModel, refs, domainFeed,
                 ingestJob, job, history>>

\* thread.checkpoint.revert: the decider accepts any turn count of a thread.
RequestRevert(to) ==
  /\ asked < MaxReverts
  /\ asked' = asked + 1
  /\ domainFeed' = Append(domainFeed, [type |-> "revertRequested", to |-> to])
  /\ UNCHANGED <<provider, session, readModel, refs, ingestFeed, runtimeFeed,
                 ingestJob, job, answered, torn, crashes>>

-----------------------------------------------------------------------------
(* ProviderRuntimeIngestion *)

IngestNext(type) ==
  /\ ingestJob = NoJob
  /\ ingestFeed # <<>>
  /\ Head(ingestFeed).type = type
  /\ ingestFeed' = Tail(ingestFeed)

\* turn.started, unless it conflicts with the active turn.
IngestTurnStarted ==
  /\ IngestNext("turnStarted")
  /\ activeTurn' = IF activeTurn = NoTurn THEN Head(ingestFeed).turn ELSE activeTurn
  /\ UNCHANGED <<provider, session, checkpoints, table, refs, runtimeFeed,
                 domainFeed, ingestJob, job, history>>

\* turn.completed: only the active turn closes the lifecycle.
IngestTurnCompleted ==
  /\ IngestNext("turnCompleted")
  /\ activeTurn' = IF activeTurn = Head(ingestFeed).turn THEN NoTurn ELSE activeTurn
  /\ UNCHANGED <<provider, session, checkpoints, table, refs, runtimeFeed,
                 domainFeed, ingestJob, job, history>>

\* turn.diff.updated: a turn the read model has a checkpoint for is left alone;
\* for another one a placeholder is prepared, one past the largest count.
IngestDiffUpdated ==
  /\ IngestNext("diffUpdated")
  /\ LET t == Head(ingestFeed).turn IN
     ingestJob' = IF checkpoints[t] # None THEN NoJob
                  ELSE [step |-> "placeholder", turn |-> t, count |-> MaxTurnCount + 1]
  /\ UNCHANGED <<provider, session, readModel, refs, runtimeFeed, domainFeed,
                 job, history>>

\* The placeholder's command comes through the engine's queue.
DispatchPlaceholder ==
  /\ ingestJob.step = "placeholder"
  /\ LET cp == [count |-> ingestJob.count, status |-> "missing", git |-> FALSE] IN
     /\ DispatchDiffComplete(ingestJob.turn, cp)
     /\ domainFeed' = Append(domainFeed, DiffCompleted(ingestJob.turn, cp))
  /\ ingestJob' = NoJob
  /\ UNCHANGED <<provider, session, refs, ingestFeed, runtimeFeed, job, history>>

\* The dispatch fails: logged, and the event is done with.
PlaceholderFails ==
  /\ "placeholder" \in FailingCalls
  /\ ingestJob.step = "placeholder"
  /\ ingestJob' = NoJob
  /\ UNCHANGED <<provider, session, readModel, refs, feeds, job, history>>

-----------------------------------------------------------------------------
(* CheckpointReactor: taking an event and reading the read model *)

TakeRuntime(type) ==
  /\ job = NoJob
  /\ runtimeFeed # <<>>
  /\ Head(runtimeFeed).type = type
  /\ runtimeFeed' = Tail(runtimeFeed)
  /\ UNCHANGED <<provider, session, readModel, refs, ingestFeed, domainFeed, ingestJob>>

TakeDomain(type) ==
  /\ job = NoJob
  /\ domainFeed # <<>>
  /\ Head(domainFeed).type = type
  /\ domainFeed' = Tail(domainFeed)
  /\ UNCHANGED <<provider, session, readModel, refs, ingestFeed, runtimeFeed, ingestJob>>

BaselineJob == [step |-> "baseline", count |-> MaxTurnCount]

CaptureJob(t, count, status) ==
  [step |-> "capture", turn |-> t, count |-> count, status |-> status]

\* ensurePreTurnBaselineFromDomainTurnStart, ensurePreTurnBaselineFromTurnStart
EnsureBaseline ==
  /\ TakeDomain("turnStartRequested") \/ TakeRuntime("turnStarted")
  /\ job' = BaselineJob
  /\ UNCHANGED history

\* Mutant: any checkpoint of the turn, placeholders included, stops the capture.
SkipsIfAnyCheckpoint(t) == checkpoints[t] # None

\* Both capture paths leave a turn alone that has a real checkpoint.
AlreadyCaptured(t) == IsReal(checkpoints[t])

\* captureCheckpointFromTurnCompletion: not for a turn that is not the active
\* one; the count of the placeholder, or the next one.
CaptureFromTurnCompletion ==
  /\ TakeRuntime("turnCompleted")
  /\ LET t == Head(runtimeFeed).turn IN
     job' = IF activeTurn \notin {NoTurn, t} \/ AlreadyCaptured(t) THEN NoJob
            ELSE CaptureJob(t, IF checkpoints[t] # None THEN checkpoints[t].count
                               ELSE MaxTurnCount + 1,
                            Head(runtimeFeed).status)
  /\ UNCHANGED history

\* captureCheckpointFromPlaceholder: the event of a placeholder, at its count.
CaptureFromPlaceholder ==
  /\ TakeDomain("turnDiffCompleted")
  /\ LET e == Head(domainFeed) IN
     job' = IF e.status # "missing" \/ AlreadyCaptured(e.turn) THEN NoJob
            ELSE CaptureJob(e.turn, e.count, "ready")
  /\ UNCHANGED history

\* Mutants: the end of a revert is not reported, or reported as both.
Unreported(n) == n
ReportedTwice(n) == n + 2

\* Every way out of a revert reports an activity or thread.reverted.
Reported(n) == n + 1

\* handleRevertRequested, up to the restore: the session, the count and the
\* target's ref are checked; a refusal is reported as an activity.
RevertTargets(to) ==
  IF to = 0 THEN {TRUE}
  ELSE {checkpoints[t].git : t \in {u \in Known(checkpoints) : checkpoints[u].count = to}}

StartRevert ==
  /\ TakeDomain("revertRequested")
  /\ LET to == Head(domainFeed).to
         stale == {checkpoints[t].count :
                     t \in {u \in Known(checkpoints) :
                              checkpoints[u].count > to /\ checkpoints[u].git}}
     IN  IF ~session \/ to > MaxTurnCount \/ RevertTargets(to) = {}
         THEN job' = NoJob /\ answered' = Reported(answered)
         ELSE /\ \E git \in RevertTargets(to) :
                   job' = [step |-> "restore", to |-> to, git |-> git, stale |-> stale]
              /\ UNCHANGED answered
  /\ UNCHANGED <<asked, torn, crashes>>

-----------------------------------------------------------------------------
(* CheckpointReactor: the asynchronous steps of a job *)

\* The job ends: nothing else changes.
EndJob ==
  /\ job' = NoJob
  /\ UNCHANGED <<provider, session, readModel, feeds, ingestJob, asked, crashes>>

\* checkpointStore.captureCheckpoint for a missing baseline.
CaptureBaseline ==
  /\ job.step = "baseline"
  /\ refs' = IF refs[job.count] = None THEN [refs EXCEPT ![job.count] = workspace] ELSE refs
  /\ torn' = torn \ {job.count}
  /\ EndJob
  /\ UNCHANGED answered

\* captureAndDispatchCheckpoint: the git ref of the count, whatever was there.
CaptureCheckpoint ==
  /\ job.step = "capture"
  /\ refs' = [refs EXCEPT ![job.count] = workspace]
  /\ torn' = torn \ {job.count}
  /\ job' = [job EXCEPT !.step = "complete"]
  /\ UNCHANGED <<provider, session, readModel, feeds, ingestJob, asked, answered, crashes>>

\* captureAndDispatchCheckpoint: the dispatch, and its event back to the reactor.
CompleteCapture ==
  /\ job.step = "complete"
  /\ LET cp == [count |-> job.count, status |-> job.status, git |-> TRUE] IN
     /\ DispatchDiffComplete(job.turn, cp)
     /\ domainFeed' = Append(domainFeed, DiffCompleted(job.turn, cp))
  /\ job' = NoJob
  /\ UNCHANGED <<provider, session, refs, ingestFeed, runtimeFeed, ingestJob, history>>

\* A git call of a capture or its dispatch fails: reported as an activity, and a
\* ref that was written stays.
CaptureFails ==
  /\ "capture" \in FailingCalls
  /\ job.step \in {"baseline", "capture", "complete"}
  /\ EndJob
  /\ UNCHANGED <<refs, answered, torn>>

\* restoreCheckpoint: the working tree becomes the ref's content, or for count 0
\* without a ref HEAD's (content 0); a missing ref is reported.
RestoreFiles ==
  /\ job.step = "restore"
  /\ \/ /\ job.git /\ refs[job.to] # None
        /\ workspace' = refs[job.to]
        /\ job' = [job EXCEPT !.step = "rollback"]
        /\ UNCHANGED answered
     \/ /\ job.to = 0 /\ refs[0] = None
        /\ workspace' = 0
        /\ job' = [job EXCEPT !.step = "rollback"]
        /\ UNCHANGED answered
     \/ /\ ~job.git \/ (refs[job.to] = None /\ job.to # 0)
        /\ job' = NoJob
        /\ answered' = Reported(answered)
        /\ UNCHANGED workspace
  /\ UNCHANGED <<phase, edits, session, readModel, refs, feeds,
                 ingestJob, asked, torn, crashes>>

\* providerService.rollbackConversation
RollbackConversation ==
  /\ job.step = "rollback"
  /\ job' = [job EXCEPT !.step = "deleteRefs"]
  /\ UNCHANGED <<provider, session, readModel, refs, feeds, ingestJob, history>>

\* Mutant: an off-by-one in the stale filter also deletes the target's ref.
DeleteTargetRefToo ==
  /\ job.step = "deleteRefs"
  /\ refs' = [c \in Counts |-> IF c \in job.stale \cup {job.to} THEN None ELSE refs[c]]
  /\ job' = [job EXCEPT !.step = "revert"]
  /\ UNCHANGED <<provider, session, readModel, feeds, ingestJob, history>>

\* checkpointStore.deleteCheckpointRefs(staleCheckpointRefs)
DeleteStaleRefs ==
  /\ job.step = "deleteRefs"
  /\ refs' = [c \in Counts |-> IF c \in job.stale THEN None ELSE refs[c]]
  /\ job' = [job EXCEPT !.step = "revert"]
  /\ UNCHANGED <<provider, session, readModel, feeds, ingestJob, history>>

\* dispatch(thread.revert.complete)
CompleteRevert ==
  /\ job.step = "revert"
  /\ checkpoints' = Retained(checkpoints, job.to)
  /\ table' = Retained(table, job.to)
  /\ job' = NoJob
  /\ answered' = Reported(answered)
  /\ UNCHANGED <<provider, session, activeTurn, refs, feeds, ingestJob, asked, torn, crashes>>

\* What a revert that stops where it is leaves of the refs: the refs are deleted
\* one by one before the dispatch.
BreakOff ==
  \/ /\ job.step = "deleteRefs"
     /\ \E gone \in SUBSET job.stale :
          /\ refs' = [c \in Counts |-> IF c \in gone THEN None ELSE refs[c]]
          /\ torn' = torn \cup gone
  \/ job.step = "revert" /\ torn' = torn \cup job.stale /\ UNCHANGED refs
  \/ job.step \notin {"deleteRefs", "revert"} /\ UNCHANGED <<torn, refs>>

\* A git, provider or engine call of a revert fails: an activity, and whatever
\* was done stays done.
RevertFails ==
  /\ "revert" \in FailingCalls
  /\ job.step \in {"restore", "rollback", "deleteRefs", "revert"}
  /\ answered' = Reported(answered)
  /\ BreakOff
  /\ EndJob

-----------------------------------------------------------------------------
\* The server stops and starts again: the log, its projections and the git refs
\* stay; queues, jobs and the provider's process go, and a turn it had not ended or
\* not been sent is over.
Crash ==
  /\ crashes < MaxCrashes
  /\ crashes' = crashes + 1
  /\ phase' = [t \in Turns |-> IF phase[t] \in {"requested", "running"} THEN "ended" ELSE phase[t]]
  /\ session' = FALSE
  /\ ingestFeed' = <<>> /\ runtimeFeed' = <<>> /\ domainFeed' = <<>>
  /\ ingestJob' = NoJob /\ job' = NoJob
  /\ BreakOff
  /\ UNCHANGED <<workspace, edits, readModel, asked, answered>>

Provider ==
  \/ BindSession
  \/ \E t \in Turns : RequestTurn(t) \/ StartTurn(t) \/ EditAndReportDiff(t)
  \/ \E t \in Turns, status \in Statuses : EndTurn(t, status)

Ingestion ==
  \/ IngestTurnStarted \/ IngestTurnCompleted \/ IngestDiffUpdated
  \/ DispatchPlaceholder \/ PlaceholderFails

TakeEvent == EnsureBaseline \/ CaptureFromTurnCompletion \/ CaptureFromPlaceholder \/ StartRevert

Progress ==
  \/ CaptureBaseline \/ CaptureCheckpoint \/ CompleteCapture
  \/ RestoreFiles \/ RollbackConversation \/ DeleteStaleRefs \/ CompleteRevert

Reactor == TakeEvent \/ Progress \/ CaptureFails \/ RevertFails

Next ==
  \/ Provider
  \/ \E to \in Counts : RequestRevert(to)
  \/ Ingestion
  \/ Reactor
  \/ Crash

Spec == Init /\ [][Next]_vars

\* Both workers are forked Effect.forever loops whose items end (git calls and
\* dispatches return or fail), and a failure is caught per item.  Neither the
\* users nor the provider owe a step.
FairSpec == Spec /\ WF_vars(Ingestion) /\ WF_vars(Reactor)

-----------------------------------------------------------------------------
(* Types *)

RuntimeEvents ==
  [type : {"turnStarted", "diffUpdated"}, turn : Turns]
    \cup [type : {"turnCompleted"}, turn : Turns, status : Statuses]
DomainEvents ==
  [type : {"turnStartRequested"}]
    \cup [type : {"turnDiffCompleted"}, turn : Turns, count : Counts,
          status : Statuses]
    \cup [type : {"revertRequested"}, to : Counts]
Jobs ==
  {NoJob}
    \cup [step : {"baseline"}, count : Counts]
    \cup [step : {"capture", "complete"}, turn : Turns, count : Counts,
          status : Statuses]
    \cup [step : {"restore", "rollback", "deleteRefs", "revert"}, to : Counts,
          git : BOOLEAN, stale : SUBSET Counts]

\* Every variable has its type; in particular turn counts stay below one per diff
\* and turn, and no revert is answered before it was asked for or twice.
TypeOK ==
  /\ phase \in [Turns -> {"new", "requested", "running", "ended"}]
  /\ workspace \in 0..MaxEdits /\ edits \in 0..MaxEdits
  /\ session \in BOOLEAN
  /\ activeTurn \in Turns \cup {NoTurn}
  /\ checkpoints \in [Turns -> Checkpoint \cup {None}]
  /\ table \in [Turns -> Checkpoint \cup {None}]
  /\ refs \in [Counts -> 0..MaxEdits \cup {None}]
  /\ ingestFeed \in Seq(RuntimeEvents) /\ runtimeFeed \in Seq(RuntimeEvents)
  /\ domainFeed \in Seq(DomainEvents)
  /\ ingestJob \in {NoJob} \cup [step : {"placeholder"}, turn : Turns, count : Counts]
  /\ job \in Jobs
  /\ asked \in 0..MaxReverts /\ answered \in 0..asked
  /\ torn \subseteq Counts /\ crashes \in 0..MaxCrashes

-----------------------------------------------------------------------------
(* Safety *)

\* A captured checkpoint can be restored and diffed, whether the read model or
\* the table tells of it: its git ref exists, except while a revert has deleted the
\* refs of the checkpoints it is about to drop, or was broken off just there.
\* (The refs and two projections of one event have to agree across three
\* asynchronous steps of the reactor.)
CapturesHaveRefs ==
  \A t \in Turns : \A cp \in {checkpoints[t], table[t]} \ {None} :
    IsReal(cp) => \/ refs[cp.count] # None
                  \/ job.step = "revert" /\ cp.count \in job.stale
                  \/ cp.count \in torn

\* The read model never takes a capture back: a real checkpoint stays real until
\* a revert drops it, however late placeholders arrive.
CaptureIsNotTakenBack ==
  [][\A t \in Turns :
       IsReal(checkpoints[t]) => IsReal(checkpoints'[t]) \/ checkpoints'[t] = None]_vars

-----------------------------------------------------------------------------
(* Liveness *)

\* Every placeholder gives way, to a capture or to a revert, if captures do not fail.
PlaceholderIsReplaced ==
  \A t \in Turns :
    (checkpoints[t] # None /\ checkpoints[t].status = "missing")
      ~> ~(checkpoints[t] # None /\ checkpoints[t].status = "missing")

\* Every revert is answered, by thread.reverted or by an activity that says why
\* not, whatever fails in it.
EveryRevertIsAnswered ==
  \A n \in 1..MaxReverts : asked >= n ~> answered >= n

-----------------------------------------------------------------------------
(* What comments and tests say, and the code does not do *)

\* "Do not let a placeholder (status "missing") overwrite a checkpoint that has
\* already been captured with a real git ref" (projector.ts:530): the table,
\* which the client's snapshot is read from, has no such guard.
TableKeepsCapture ==
  [][\A t \in Turns :
       IsReal(table[t]) => table'[t] = None \/ IsReal(table'[t])]_vars
============================================================================
