-------------------------- MODULE TerminalManager --------------------------
(***************************************************************************)
(* apps/server/src/terminal/Layers/Manager.ts: the sessions of a thread's  *)
(* terminals, the shell processes behind them, the history files, and the  *)
(* processes that are being killed.                                        *)
(*                                                                         *)
(* open, clear, restart and close hold their thread's semaphore; process   *)
(* output, exits, kill escalations, evictions and shutdown do not.  A step *)
(* runs to the next point where its fiber waits: for the history writer    *)
(* (drainKey), the file system, the spawn of a shell, a grace period.      *)
(* Publishing an event is no such point: the server's only listener hands  *)
(* it to an unbounded queue.  An output or exit event is therefore drained *)
(* in the step that delivers it.                                           *)
(*                                                                         *)
(* A session object lives on while an operation or a process's listener    *)
(* refers to it, in the map or not.  A chunk of output is its number, and  *)
(* the history writer is what CoalescedWrites promises.                    *)
(***************************************************************************)
EXTENDS Naturals, Sequences, FiniteSets

CONSTANTS Threads, Terminals,
          ThreadOf,       \* the thread of each terminal
          Retained,       \* maxRetainedInactiveSessions
          HistoryLimit,   \* historyLineLimit, in chunks
          MaxSessions,    \* bound: session objects at a time
          MaxProcesses,   \* bound: processes at a time
          MaxOutputs,     \* bound: chunks of output
          CallsAfterStray,\* bound: whether calls are made once a session is astray
          None            \* no session, no process, no file, nothing to write

ASSUME TerminalAssumption ==
  /\ ThreadOf \in [Terminals -> Threads]
  /\ {Retained, HistoryLimit, MaxSessions, MaxProcesses, MaxOutputs} \subseteq Nat \ {0}
  /\ CallsAfterStray \in BOOLEAN
  /\ None \notin Nat \cup Seq(Nat) \cup Terminals

VARIABLES
  sessions,   \* state.sessions: the session object a terminal is mapped to
  session,    \* the session objects
  updatedAt,  \* which of two mapped sessions was updated before the other
  process,    \* the shell processes
  killing,    \* who sends SIGKILL to a process that was sent SIGTERM: a fiber of
              \* state.killFibers, or the finalizer of the manager
  operation,  \* what runs under each thread's semaphore
  waiting, inHand, file,  \* the history writer and its files
  manager,    \* up, shutting down, or gone
  outputs,    \* history: chunks of output so far
  transcript, \* history: what each terminal printed since its last reset
  deleted,    \* history: terminals whose files were deleted, and not opened since
  astray      \* history: terminals that a session outlived its place in the map for

writer == <<waiting, inHand, file>>
ghosts == <<transcript, deleted, astray>>
vars == <<sessions, session, updatedAt, process, killing, operation, waiting,
          inHand, file, manager, outputs, transcript, deleted, astray>>

SessionIds == 1..MaxSessions
Processes == 1..MaxProcesses

Unused == [terminal |-> None, status |-> "exited", process |-> None, history |-> <<>>]

\* An operation: its kind, the point where it waits, the terminal and session it
\* works on, and for close the terminals left and whether to delete the files.
NoOperation == [kind |-> "none", at |-> "none", terminal |-> None, session |-> None,
                rest |-> {}, deleteHistory |-> FALSE]

\* The worker's merge keeps the newer history, and writing a file replaces it.
Newest(current, next) == next

History == INSTANCE CoalescedWrites
             WITH Keys <- Terminals, NoValue <- None,
                  Merge <- Newest, Store <- Newest, stored <- file

Init ==
  /\ sessions = [k \in Terminals |-> None]
  /\ session = [s \in SessionIds |-> Unused]
  /\ updatedAt = {}
  /\ process = [p \in Processes |-> "none"]
  /\ killing = [p \in Processes |-> "nobody"]
  /\ operation = [t \in Threads |-> NoOperation]
  /\ History!Init([k \in Terminals |-> None])
  /\ manager = "up"
  /\ outputs = 0
  /\ transcript = [k \in Terminals |-> <<>>]
  /\ deleted = {}
  /\ astray = {}

-----------------------------------------------------------------------------
(* The map, and the objects it no longer refers to *)

Mapped(map, s) == \E k \in Terminals : map[k] = s

\* evictInactiveSessionsIfNeeded: the least recently updated of the sessions
\* that are not running, as many as exceed the limit.  (The code orders two that
\* were updated in the same millisecond by name; here no two updates coincide.)
Evicted(map, objects, order) ==
  LET inactive == {s \in SessionIds : Mapped(map, s) /\ objects[s].status # "running"}
      older(s) == {x \in inactive : <<x, s>> \in order}
  IN {s \in inactive : Cardinality(older(s)) + Retained < Cardinality(inactive)}

\* The state after a step has left this map, these objects and operations: an
\* object nothing refers to any more is gone.
Become(map, objects, order, operations) ==
  LET kept == {s \in SessionIds :
                 \/ Mapped(map, s)
                 \/ objects[s].process # None
                 \/ \E t \in Threads : operations[t].session = s}
  IN /\ sessions' = map
     /\ session' = [s \in SessionIds |-> IF s \in kept THEN objects[s] ELSE Unused]
     /\ updatedAt' = {pair \in order : Mapped(map, pair[1]) /\ Mapped(map, pair[2])}
     /\ operation' = operations

BecomeAndEvict(map, objects, order, operations) ==
  LET out == Evicted(map, objects, order)
      held == {s \in out : \E t \in Threads : operations[t].session = s}
  IN /\ Become([k \in Terminals |-> IF map[k] \in out THEN None ELSE map[k]],
               objects, order, operations)
     /\ astray' = astray \cup {objects[s].terminal : s \in held}

Touched(s) ==
  {pair \in updatedAt : s \notin {pair[1], pair[2]}} \cup ((SessionIds \ {s}) \X {s})

Larger(a, b) == IF a > b THEN a ELSE b

\* capHistory
Capped(history) ==
  SubSeq(history, Larger(1, Len(history) - HistoryLimit + 1), Len(history))

Content(f) == IF f = None THEN <<>> ELSE f

-----------------------------------------------------------------------------
(* Pieces of several operations *)

\* What runs under the semaphore of t from now on.
Holding(t, kind, at, k, s) ==
  [operation EXCEPT ![t] = [@ EXCEPT !.kind = kind, !.at = at, !.terminal = k, !.session = s]]
Released(t) == [operation EXCEPT ![t] = NoOperation]
Waits(t, kinds, at) == operation[t].kind \in kinds /\ operation[t].at = at

MayBegin(t) ==
  /\ manager = "up"
  /\ operation[t] = NoOperation
  /\ astray = {} \/ CallsAfterStray

\* Which object or process is used next makes no difference: any.
FreeSessions == {s \in SessionIds :
                   session[s] = Unused /\ \A t \in Threads : operation[t].session # s}
FreeProcesses == {p \in Processes : process[p] = "none"}
Any(S) == CHOOSE x \in S : TRUE
Starting(k, history) ==
  [terminal |-> k, status |-> "starting", process |-> None, history |-> history]

Stopped(o) ==
  IF o.process = None THEN o ELSE [o EXCEPT !.status = "exited", !.process = None]

\* Mutant: stopProcess forgets the process without signalling it.
KillNobody(p) == UNCHANGED <<process, killing>>

\* stopProcess and startKillEscalation: SIGTERM, and a fiber that waits to send
\* SIGKILL; signalling a process that is dead throws and ends the escalation.
Kill(p) ==
  IF p = None THEN UNCHANGED <<process, killing>>
  ELSE IF process[p] = "alive"
  THEN killing' = [killing EXCEPT ![p] = "fiber"] /\ UNCHANGED process
  ELSE process' = [process EXCEPT ![p] = "none"] /\ UNCHANGED killing

-----------------------------------------------------------------------------
(* open *)

\* No session: wait for the history that is still being written.
OpenMissing(k) ==
  LET t == ThreadOf[k] IN
  /\ MayBegin(t)
  /\ sessions[k] = None
  /\ operation' = Holding(t, "open", "flush", k, None)
  /\ UNCHANGED <<sessions, session, updatedAt, process, killing, writer, manager,
                 outputs, ghosts>>

\* Mutant: open reads the file without flushPersist.
OpenUnflushed(t) ==
  /\ Waits(t, {"open"}, "flush")
  /\ operation' = [operation EXCEPT ![t].at = "read"]
  /\ UNCHANGED <<sessions, session, updatedAt, process, killing, writer, manager,
                 outputs, ghosts>>

OpenFlushed(t) ==
  /\ Waits(t, {"open"}, "flush")
  /\ History!KeyIsIdle(operation[t].terminal)
  /\ operation' = [operation EXCEPT ![t].at = "read"]
  /\ UNCHANGED <<sessions, session, updatedAt, process, killing, writer, manager,
                 outputs, ghosts>>

\* readHistory, and the session that starts with it; startSession runs up to the
\* spawn.
OpenCreates(t) ==
  LET k == operation[t].terminal IN
  /\ Waits(t, {"open"}, "read")
  /\ FreeSessions # {}
  /\ LET s == Any(FreeSessions) IN
     BecomeAndEvict([sessions EXCEPT ![k] = s],
                         [session EXCEPT ![s] = Starting(k, Capped(Content(file[k])))],
                         Touched(s), Holding(t, "open", "spawn", k, s))
  /\ deleted' = deleted \ {k}
  /\ UNCHANGED <<process, killing, writer, manager, outputs, transcript>>

\* open with another cwd or environment, open of a session that exited, and
\* restart: the process is stopped and the history starts anew.
Reset(k, kind) ==
  LET t == ThreadOf[k]
      s == sessions[k]
      p == session[s].process
  IN
  /\ MayBegin(t)
  /\ s # None
  /\ Kill(p)
  /\ BecomeAndEvict(sessions,
                    [session EXCEPT ![s] = [Stopped(@) EXCEPT !.history = <<>>]],
                    IF p = None THEN updatedAt ELSE Touched(s),
                    Holding(t, kind, "drain", k, s))
  /\ History!Put(k, <<>>)
  /\ transcript' = [transcript EXCEPT ![k] = <<>>]
  /\ UNCHANGED <<manager, outputs, deleted>>

RestartMissing(k) ==
  LET t == ThreadOf[k] IN
  /\ MayBegin(t)
  /\ sessions[k] = None
  /\ FreeSessions # {}
  /\ LET s == Any(FreeSessions) IN
     BecomeAndEvict([sessions EXCEPT ![k] = s],
                         [session EXCEPT ![s] = Starting(k, <<>>)],
                         Touched(s), Holding(t, "restart", "drain", k, s))
  /\ History!Put(k, <<>>)
  /\ transcript' = [transcript EXCEPT ![k] = <<>>]
  /\ deleted' = deleted \ {k}
  /\ UNCHANGED <<process, killing, manager, outputs>>

\* The empty history is written; startSession runs up to the spawn.
Starts(t) ==
  LET s == operation[t].session IN
  /\ Waits(t, {"open", "restart"}, "drain")
  /\ History!KeyIsIdle(operation[t].terminal)
  /\ Become(sessions, [session EXCEPT ![s].status = "starting"], Touched(s),
            [operation EXCEPT ![t].at = "spawn"])
  /\ UNCHANGED <<process, killing, writer, manager, outputs, ghosts>>

\* A shell is spawned: the listeners, the running session, the started event.
SpawnSucceeds(t) ==
  LET s == operation[t].session IN
  /\ Waits(t, {"open", "restart"}, "spawn")
  /\ FreeProcesses # {}
  /\ LET p == Any(FreeProcesses) IN
       /\ process' = [process EXCEPT ![p] = "alive"]
       /\ Become(sessions,
                 [session EXCEPT ![s].status = "running", ![s].process = p],
                 Touched(s), Released(t))
  /\ UNCHANGED <<killing, writer, manager, outputs, ghosts>>

\* Mutant: a failing spawn leaves the semaphore taken.
SpawnFailsHolding(t) ==
  LET s == operation[t].session IN
  /\ Waits(t, {"open", "restart"}, "spawn")
  /\ BecomeAndEvict(sessions, [session EXCEPT ![s].status = "error"], Touched(s),
                    [operation EXCEPT ![t].at = "none"])
  /\ UNCHANGED <<process, killing, writer, manager, outputs, transcript, deleted>>

\* Mutant: a status of its own for a shell that was not found.
SpawnFailsOddly(t) ==
  LET s == operation[t].session IN
  /\ Waits(t, {"open", "restart"}, "spawn")
  /\ BecomeAndEvict(sessions, [session EXCEPT ![s].status = "missing"],
                    Touched(s), Released(t))
  /\ UNCHANGED <<process, killing, writer, manager, outputs, transcript, deleted>>

\* No shell can be spawned: the session keeps the error.
SpawnFails(t) ==
  LET s == operation[t].session IN
  /\ Waits(t, {"open", "restart"}, "spawn")
  /\ BecomeAndEvict(sessions, [session EXCEPT ![s].status = "error"],
                    Touched(s), Released(t))
  /\ UNCHANGED <<process, killing, writer, manager, outputs, transcript, deleted>>

\* resize, and open of a session that runs as it is: another size.
Resize(k) ==
  LET s == sessions[k] IN
  /\ manager = "up"
  /\ s # None
  /\ session[s].process # None
  /\ Become(sessions, session, Touched(s), operation)
  /\ UNCHANGED <<process, killing, writer, manager, outputs, ghosts>>

-----------------------------------------------------------------------------
(* clear *)

Clear(k) ==
  LET t == ThreadOf[k]
      s == sessions[k]
  IN
  /\ MayBegin(t)
  /\ s # None
  /\ Become(sessions, [session EXCEPT ![s].history = <<>>], Touched(s),
            Holding(t, "clear", "drain", k, s))
  /\ History!Put(k, <<>>)
  /\ transcript' = [transcript EXCEPT ![k] = <<>>]
  /\ UNCHANGED <<process, killing, manager, outputs, deleted, astray>>

\* The cleared event.
Cleared(t) ==
  /\ Waits(t, {"clear"}, "drain")
  /\ History!KeyIsIdle(operation[t].terminal)
  /\ Become(sessions, session, updatedAt, Released(t))
  /\ UNCHANGED <<process, killing, writer, manager, outputs, ghosts>>

-----------------------------------------------------------------------------
(* close *)

\* closeSession, up to the drain of its history; op is the operation it is part of.
CloseBegins(t, k, op) ==
  LET s == sessions[k] IN
  IF s = None
  THEN /\ operation' = [operation EXCEPT ![t] = [op EXCEPT !.at = "flush", !.terminal = k]]
       /\ UNCHANGED <<sessions, session, updatedAt, process, killing, writer, astray>>
  ELSE LET p == session[s].process IN
       /\ Kill(p)
       /\ BecomeAndEvict(sessions, [session EXCEPT ![s] = Stopped(@)],
                         IF p = None THEN updatedAt ELSE Touched(s),
                         [operation EXCEPT ![t] = [op EXCEPT !.at = "flush", !.terminal = k,
                                                             !.session = s]])
       /\ History!Put(k, session[s].history)

Close(k, deleteHistory) ==
  LET t == ThreadOf[k] IN
  /\ MayBegin(t)
  /\ CloseBegins(t, k, [NoOperation EXCEPT !.kind = "close", !.deleteHistory = deleteHistory])
  /\ UNCHANGED <<manager, outputs, transcript, deleted>>

CloseThread(t, deleteHistory) ==
  /\ MayBegin(t)
  /\ operation' =
       [operation EXCEPT ![t] =
          [NoOperation EXCEPT
             !.kind = "closeThread", !.at = "next", !.deleteHistory = deleteHistory,
             !.rest = {k \in Terminals : ThreadOf[k] = t /\ sessions[k] # None}]]
  /\ UNCHANGED <<sessions, session, updatedAt, process, killing, writer, manager,
                 outputs, ghosts>>

CloseNext(t) ==
  /\ Waits(t, {"closeThread"}, "next")
  /\ \E k \in operation[t].rest :
       CloseBegins(t, k, [operation[t] EXCEPT !.rest = @ \ {k}])
  /\ UNCHANGED <<manager, outputs, transcript, deleted>>

\* Mutant: the session leaves the map without waiting for the writer.
CloseUnflushed(t) ==
  LET op == operation[t]
      done == IF op.kind = "closeThread" THEN [op EXCEPT !.at = "next", !.session = None]
              ELSE IF op.deleteHistory THEN [op EXCEPT !.at = "delete", !.session = None]
              ELSE NoOperation
  IN
  /\ Waits(t, {"close", "closeThread"}, "flush")
  /\ Become([sessions EXCEPT ![op.terminal] = None], session, updatedAt,
            [operation EXCEPT ![t] = done])
  /\ UNCHANGED <<process, killing, writer, manager, outputs, ghosts>>

\* The history is written: the session leaves the map.
CloseFlushed(t) ==
  LET op == operation[t]
      done == IF op.kind = "closeThread" THEN [op EXCEPT !.at = "next", !.session = None]
              ELSE IF op.deleteHistory THEN [op EXCEPT !.at = "delete", !.session = None]
              ELSE NoOperation
  IN
  /\ Waits(t, {"close", "closeThread"}, "flush")
  /\ History!KeyIsIdle(op.terminal)
  /\ Become([sessions EXCEPT ![op.terminal] = None], session, updatedAt,
            [operation EXCEPT ![t] = done])
  /\ UNCHANGED <<process, killing, writer, manager, outputs, ghosts>>

\* The files of these terminals are removed, and the operation is over.
Delete(t, gone) ==
  /\ file' = [k \in Terminals |-> IF k \in gone THEN None ELSE file[k]]
  /\ transcript' = [k \in Terminals |-> IF k \in gone THEN <<>> ELSE transcript[k]]
  /\ deleted' = deleted \cup gone
  /\ operation' = Released(t)
  /\ UNCHANGED <<sessions, session, updatedAt, process, killing, waiting, inHand, manager,
                 outputs>>

DeleteHistory(t) ==
  /\ Waits(t, {"close"}, "delete")
  /\ Delete(t, {operation[t].terminal})
  /\ UNCHANGED astray

\* deleteAllHistoryForThread.  A terminal whose session was evicted is not closed
\* first: what the writer still holds for it is written after the deletion.
CloseEnds(t) ==
  LET mine == {k \in Terminals : ThreadOf[k] = t} IN
  /\ Waits(t, {"closeThread"}, "next")
  /\ operation[t].rest = {}
  /\ IF operation[t].deleteHistory
     THEN /\ Delete(t, mine)
          /\ astray' = astray \cup {k \in mine : ~History!KeyIsIdle(k)}
     ELSE /\ operation' = Released(t)
          /\ UNCHANGED <<sessions, session, updatedAt, process, killing, writer, manager,
                         outputs, ghosts>>

-----------------------------------------------------------------------------
(* What happens without the semaphore *)

\* A listener passes on a chunk: the session's history, the writer, the event.
Output(s) ==
  LET k == session[s].terminal
      h == Capped(Append(session[s].history, outputs + 1))
  IN
  /\ session[s].process # None
  /\ outputs < MaxOutputs
  /\ outputs' = outputs + 1
  /\ Become(sessions, [session EXCEPT ![s].history = h], Touched(s), operation)
  /\ History!Put(k, h)
  /\ transcript' = IF sessions[k] = s
                   THEN [transcript EXCEPT ![k] = Capped(Append(@, outputs + 1))]
                   ELSE transcript
  /\ UNCHANGED <<process, killing, manager, deleted, astray>>

ProcessDies(p) ==
  /\ process[p] = "alive"
  /\ process' = [process EXCEPT ![p] = "dead"]
  /\ UNCHANGED <<sessions, session, updatedAt, killing, operation, writer, manager,
                 outputs, ghosts>>

\* The exit listener of a session that still has the process.
ExitEvent(s) ==
  LET p == session[s].process IN
  /\ p # None
  /\ process[p] = "dead"
  /\ process' = [process EXCEPT ![p] = "none"]
  /\ BecomeAndEvict(sessions, [session EXCEPT ![s] = Stopped(@)], Touched(s), operation)
  /\ UNCHANGED <<killing, writer, manager, outputs, transcript, deleted>>

\* Mutant: the escalation ends without SIGKILL.
NoKillAfterGrace(p) ==
  /\ killing[p] # "nobody"
  /\ killing' = [killing EXCEPT ![p] = "nobody"]
  /\ UNCHANGED <<sessions, session, updatedAt, process, operation, writer, manager, outputs,
                 ghosts>>

\* The grace period is over: SIGKILL.
KillAfterGrace(p) ==
  /\ killing[p] # "nobody"
  /\ killing' = [killing EXCEPT ![p] = "nobody"]
  /\ process' = [process EXCEPT ![p] = "none"]
  /\ UNCHANGED <<sessions, session, updatedAt, operation, writer, manager, outputs, ghosts>>

\* The finalizer: the map is emptied, and every process of a session in it is
\* signalled, without listeners from here on.
Shutdown ==
  LET owned == {session[sessions[k]].process : k \in {j \in Terminals : sessions[j] # None}}
  IN
  /\ manager = "up"
  /\ manager' = "stopping"
  /\ killing' = [p \in Processes |->
                   IF p \in owned /\ process[p] = "alive" THEN "finalizer" ELSE killing[p]]
  /\ process' = [p \in Processes |->
                   IF p \in owned /\ process[p] = "dead" THEN "none" ELSE process[p]]
  /\ Become([k \in Terminals |-> None],
            [s \in SessionIds |-> IF Mapped(sessions, s) THEN Stopped(session[s])
                                  ELSE session[s]],
            updatedAt, operation)
  /\ astray' = astray \cup {k \in Terminals : /\ sessions[k] # None
                                             /\ \E t \in Threads :
                                                  operation[t].session = sessions[k]}
  /\ UNCHANGED <<writer, outputs, transcript, deleted>>

\* The finalizer has ended: the writer and the kill fibers are interrupted.
ScopesClose ==
  /\ manager = "stopping"
  /\ \A p \in Processes : killing[p] # "finalizer"
  /\ manager' = "gone"
  /\ killing' = [p \in Processes |-> "nobody"]
  /\ waiting' = [k \in Terminals |-> None]
  /\ inHand' = [k \in Terminals |-> None]
  /\ UNCHANGED <<sessions, session, updatedAt, process, operation, file, outputs, ghosts>>

WriterStep(k) ==
  /\ History!Begin(k) \/ History!End(k)
  /\ UNCHANGED <<sessions, session, updatedAt, process, killing, operation, manager,
                 outputs, ghosts>>

\* An operation goes on, from where it waited.
Proceeds(t) ==
  \/ OpenFlushed(t) \/ OpenCreates(t) \/ Starts(t) \/ SpawnSucceeds(t) \/ SpawnFails(t)
  \/ Cleared(t)
  \/ CloseNext(t) \/ CloseFlushed(t) \/ DeleteHistory(t) \/ CloseEnds(t)

Live == manager # "gone"

Next ==
  /\ Live
  /\ \/ \E k \in Terminals :
          \/ OpenMissing(k) \/ RestartMissing(k) \/ Clear(k) \/ Resize(k)
          \/ \E kind \in {"open", "restart"} : Reset(k, kind)
          \/ \E deleteHistory \in BOOLEAN : Close(k, deleteHistory)
          \/ WriterStep(k)
     \/ \E t \in Threads :
          \/ \E deleteHistory \in BOOLEAN : CloseThread(t, deleteHistory)
          \/ Proceeds(t)
     \/ \E s \in SessionIds : Output(s) \/ ExitEvent(s)
     \/ \E p \in Processes : ProcessDies(p) \/ KillAfterGrace(p)
     \/ Shutdown
     \/ ScopesClose

Spec == Init /\ [][Next]_vars

\* Fibers of the manager that can go on do, a shell is spawned or fails to, and
\* sleeps end.  The writer's queue is first in, first out, so that no terminal is
\* passed over for ever.  Processes need not print, exit or heed SIGTERM, and
\* nobody has to call.
FairSpec ==
  /\ Spec
  /\ \A t \in Threads : WF_vars(Live /\ Proceeds(t))
  /\ \A k \in Terminals :
       /\ WF_vars(Live /\ inHand[k] # None /\ WriterStep(k))
       /\ SF_vars(Live /\ inHand[k] = None /\ WriterStep(k))
  /\ \A p \in Processes : WF_vars(Live /\ KillAfterGrace(p))

-----------------------------------------------------------------------------
(* Properties *)

SessionObjects ==
  [terminal : Terminals \cup {None}, status : {"starting", "running", "exited", "error"},
   process : Processes \cup {None}, history : Seq(Nat)]

Operations ==
  [kind : {"none", "open", "restart", "clear", "close", "closeThread"},
   at : {"none", "flush", "read", "drain", "spawn", "next", "delete"},
   terminal : Terminals \cup {None}, session : SessionIds \cup {None},
   rest : SUBSET Terminals, deleteHistory : BOOLEAN]

TypeOK ==
  /\ sessions \in [Terminals -> SessionIds \cup {None}]
  /\ session \in [SessionIds -> SessionObjects]
  /\ updatedAt \subseteq SessionIds \X SessionIds
  /\ process \in [Processes -> {"none", "alive", "dead"}]
  /\ killing \in [Processes -> {"nobody", "fiber", "finalizer"}]
  /\ operation \in [Threads -> Operations]
  /\ {waiting, inHand, file} \subseteq [Terminals -> Seq(Nat) \cup {None}]
  /\ manager \in {"up", "stopping", "gone"}
  /\ outputs \in 0..MaxOutputs
  /\ transcript \in [Terminals -> Seq(Nat)]
  /\ {deleted, astray} \subseteq SUBSET Terminals

\* No shell is forgotten while the manager is up: a live process belongs to the
\* session its terminal is mapped to, which runs, or is on its way to SIGKILL.
\* Only a session that was evicted while it was being started or reset escapes
\* (evictInactiveSessionsIfNeeded takes it for an inactive one): its process is
\* out of everybody's reach.
LiveProcessIsOwned ==
  manager = "up" =>
    \A p \in Processes :
      process[p] = "alive" =>
        \/ killing[p] # "nobody"
        \/ \E k \in Terminals :
             /\ sessions[k] # None
             /\ session[sessions[k]].process = p
             /\ session[sessions[k]].status = "running"
        \/ \E s \in SessionIds :
             /\ session[s].process = p
             /\ session[s].terminal \in astray

\* A session shows what its terminal printed since the last reset, although the
\* session may have been evicted and its terminal opened again in between: the
\* chunks that were still with the writer are waited for.
HistorySurvivesEviction ==
  \A k \in Terminals \ astray :
    sessions[k] # None => session[sessions[k]].history = transcript[k]

\* When the writer has nothing left for a terminal and no operation is at work on
\* it, the file holds what the terminal printed since its last reset, and no file
\* is there after close deleted it: no write overtakes another, none comes late.
FileCatchesUp ==
  \A k \in Terminals \ astray :
    /\ (History!KeyIsIdle(k) /\ operation[ThreadOf[k]].terminal # k /\ manager # "gone") =>
         Content(file[k]) = transcript[k]
    /\ k \in deleted => file[k] = None

\* An operation gives its thread's semaphore back.  (With output that never stops
\* clear would wait for the writer for ever: MaxOutputs bounds it.)
EveryOperationReturns ==
  \A t \in Threads :
    operation[t] # NoOperation ~> operation[t] = NoOperation \/ manager = "gone"

\* A process that was sent SIGTERM dies, whether it heeds the signal or not,
\* unless the manager's shutdown ends the escalation first.
StoppedProcessDies ==
  \A p \in Processes : killing[p] = "fiber" ~> process[p] = "none" \/ manager = "gone"

=============================================================================
