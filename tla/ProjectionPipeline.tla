-------------------------- MODULE ProjectionPipeline --------------------------
(***************************************************************************)
(* The projection of one thread's events into the SQL tables, and the same *)
(* events folded into the engine's read model.                             *)
(*                                                                         *)
(* Live, the engine appends the events of a command and runs every         *)
(* projector over each of them inside one transaction; after a restart     *)
(* every projector in turn catches up from its own cursor, one transaction *)
(* per event.  The rows of turns are written by one projector and read by  *)
(* two others, and attachment files are removed outside of any rollback.   *)
(* What comes before a command is here too where it matters: an image is   *)
(* on disk before its message is dispatched, and the two workers that      *)
(* report checkpoints read the counts in the read model, do their work in  *)
(* git, and dispatch what they have decided on later.                      *)
(*                                                                         *)
(* Turn n, its assistant message and its approval request share the number *)
(* n; user messages are numbered in the order they were sent, each carries *)
(* one image, and 0 stands for null.  Proposed plans are kept and retained *)
(* like activities and stand with them.  Left out: projects and sessions   *)
(* (one row written by one projector), every time stamp, and threads that  *)
(* outgrow the read model's caps.                                          *)
(***************************************************************************)
EXTENDS Integers, Sequences, FiniteSets

CONSTANTS
    MaxTurns,       \* user messages, and turns, of the thread
    MaxEvents,      \* length of the log
    MaxSpare,       \* answers, approvals, interrupts, errors, deletion and repeated events
    MaxMixed,       \* length of a log with such an event
    MaxFailures,    \* crashes and failing statements
    MaxRebuilds,    \* projections whose table is added anew by a migration
    Rebuildable,    \* the projectors this may happen to
    ReadLimit       \* most events one catch-up reads

Order == <<"messages", "activities", "turns", "approvals", "threads">>
Projectors == {Order[i] : i \in 1..Len(Order)}

ASSUME BoundsAreCounts ==
    /\ {MaxTurns, MaxEvents, MaxSpare, MaxMixed, MaxFailures, MaxRebuilds} \subseteq Nat
    /\ ReadLimit \in Nat \ {0}
    /\ Rebuildable \subseteq Projectors

Turns == 1..MaxTurns

(***************************************************************************)
(* What the read model keeps of a thread: the last 2000 messages, 500      *)
(* checkpoints, 500 activities and 200 plans.  The tables keep everything, *)
(* so that the two agree only below the caps; a thread of MaxTurns turns   *)
(* has two messages and two activities of each, and stays below.           *)
(***************************************************************************)
Caps == [messages |-> 2000, checkpoints |-> 500, activities |-> 500, plans |-> 200]

ASSUME BelowTheCaps == \A kind \in DOMAIN Caps : 2 * MaxTurns <= Caps[kind]

(***************************************************************************)
(* An event carries the number of its turn or message; reverted carries    *)
(* the turn count it goes back to, turn-diff-completed the turn's new one, *)
(* with its status: missing is a placeholder without a checkpoint in git.  *)
(* streaming marks a delta: it has text, the completing event has none.    *)
(***************************************************************************)
EventTypes == {"user-message", "turn-start-requested", "session-running", "assistant-message",
               "approval.requested", "approval-response-requested", "approval.resolved",
               "turn-interrupt-requested", "turn-diff-completed", "reverted", "deleted"}
Reports == {"assistant-message", "approval.requested", "approval-response-requested",
            "approval.resolved", "turn-interrupt-requested"}
Statuses == {"ready", "missing", "error"}
Event == [type : EventTypes, n : 0..MaxTurns, count : 0..MaxTurns, streaming : BOOLEAN,
          status : Statuses]

E(type, n) == [type |-> type, n |-> n, count |-> 0, streaming |-> FALSE, status |-> "ready"]

Completed(n, count, status) ==
    [E("turn-diff-completed", n) EXCEPT !.count = count, !.status = status]

RevertedTo(count) == [E("reverted", 0) EXCEPT !.count = count]

Workers == {"reactor", "ingestion"}

VARIABLES
    log,        \* orchestration_events
    cursor,     \* projection_state: the last sequence each projector applied
    rows,       \* the projection tables
    model,      \* the engine's in-memory read model
    files,      \* user messages whose image is on disk
    uploaded,   \* messages whose image was written, and which are not dispatched yet
    decided,    \* what a worker will dispatch, decided on a read model of earlier
    txn,        \* the engine's open transaction, or NoTxn
    boot,       \* the catch-up under way: projector, and events it may still read
    phase,      \* down, booting, live
    rebuilt,    \* projectors started over from an empty table
    skipped,    \* projectors a catch-up left behind the log
    lost,       \* images removed by a step that was undone, or before their message came
    failures    \* crashes and failing statements so far

vars == <<log, cursor, rows, model, files, uploaded, decided, txn, boot, phase, rebuilt,
          skipped, lost, failures>>

-----------------------------------------------------------------------------
(***************************************************************************)
(* What a revert keeps.  turns are the kept turns, named the messages that *)
(* they name; when fewer than count messages of a role remain, the oldest  *)
(* others that belong to no turn that goes are kept as well.               *)
(***************************************************************************)
OfRole(messages, role) == {m \in messages : m.role = role}

Oldest(messages, k) == {m \in messages : Cardinality({o \in messages : o.n < m.n}) < k}

Fallback(messages, kept, turns, role, count) ==
    Oldest({m \in OfRole(messages, role) \ kept : m.turn \in turns \cup {0}},
           count - Cardinality(OfRole(kept, role)))

RetainMessages(messages, named, turns, count) ==
    LET kept == named \cup {m \in messages : m.turn \in turns}
    IN  kept \cup Fallback(messages, kept, turns, "user", count)
             \cup Fallback(messages, kept, turns, "assistant", count)

RetainActivities(activities, turns) == {a \in activities : a.turn \in turns \cup {0}}

\* Mutant: a revert to a checkpoint drops the turn of that checkpoint.
KeptTurnsBelow(turns, count) == {t \in Turns : turns[t].count \in 1..(count - 1)}

KeptTurns(turns, count) == {t \in Turns : turns[t].count \in 1..count}

MessageOf(role, n, turn, text) == [role |-> role, n |-> n, turn |-> turn, text |-> text]

MessageSent(messages, e) ==
    LET role == IF e.type = "user-message" THEN "user" ELSE "assistant"
        turn == IF role = "user" THEN 0 ELSE e.n
        old  == {m \in messages : m.role = role /\ m.n = e.n}
        text == IF role = "user" \/ e.streaming THEN 1 ELSE 0
    IN  (messages \ old)
            \cup {MessageOf(role, e.n, turn,
                            IF old = {} \/ role = "user" THEN text
                            ELSE text + (CHOOSE m \in old : TRUE).text)}

-----------------------------------------------------------------------------
(***************************************************************************)
(* The projectors, each a function of all tables and one event.            *)
(***************************************************************************)
NoRow == [state |-> "none", pending |-> 0, answered |-> FALSE, count |-> 0]

EmptyTable(p) ==
    CASE p = "messages"   -> {}
      [] p = "activities" -> {}
      [] p = "turns"      -> [row |-> [t \in Turns |-> NoRow], pendingStart |-> 0]
      [] p = "approvals"  -> [t \in Turns |-> "none"]
      [] p = "threads"    -> [latestTurn |-> 0, deleted |-> FALSE]

EmptyTables == [p \in Projectors |-> EmptyTable(p)]

ApplyThreadMessages(tables, e) ==
    LET messages == tables["messages"]
        turns    == tables["turns"].row
        kept     == KeptTurns(turns, e.count)
        named    == {m \in messages :
                        \E t \in kept : \/ m.role = "user" /\ m.n = turns[t].pending
                                        \/ m.role = "assistant" /\ m.n = t /\ turns[t].answered}
    IN  CASE e.type \in {"user-message", "assistant-message"} -> MessageSent(messages, e)
          [] e.type = "reverted" -> RetainMessages(messages, named, kept, e.count)
          [] OTHER -> messages

ActivityAfter(activities, e, turns) ==
    CASE e.type \in {"approval.requested", "approval.resolved"} ->
            activities \cup {[turn |-> e.n, kind |-> e.type]}
      [] e.type = "reverted" -> RetainActivities(activities, turns)
      [] OTHER -> activities

ApplyThreadActivities(tables, e) ==
    ActivityAfter(tables["activities"], e, KeptTurns(tables["turns"].row, e.count))

(***************************************************************************)
(* A running session adopts the pending start, and every such event ends   *)
(* it; a turn's count is taken from any other turn that held it.           *)
(***************************************************************************)
TurnRuns(table, e) ==
    LET old == table.row[e.n]
    IN  [row |-> [table.row EXCEPT ![e.n] =
                     [old EXCEPT !.state = IF @ \in {"completed", "error"} THEN @ ELSE "running",
                                 !.pending = IF @ = 0 THEN table.pendingStart ELSE @]],
         pendingStart |-> 0]

TurnAnswered(old, e) ==
    [old EXCEPT !.answered = TRUE,
                !.state = IF e.streaming THEN IF @ = "none" THEN "running" ELSE @
                          ELSE IF @ \in {"interrupted", "error"} THEN @ ELSE "completed"]

TurnCompleted(row, e) ==
    [t \in Turns |->
        IF t = e.n
        THEN [row[t] EXCEPT !.state = IF e.status = "error" THEN "error" ELSE "completed",
                            !.count = e.count, !.answered = TRUE]
        ELSE IF row[t].count = e.count THEN [row[t] EXCEPT !.count = 0]
        ELSE row[t]]

ApplyThreadTurns(tables, e) ==
    LET table == tables["turns"]
    IN  CASE e.type = "turn-start-requested" -> [table EXCEPT !.pendingStart = e.n]
          [] e.type = "session-running" -> TurnRuns(table, e)
          [] e.type = "assistant-message" -> [table EXCEPT !.row[e.n] = TurnAnswered(@, e)]
          [] e.type = "turn-interrupt-requested" ->
                [table EXCEPT !.row[e.n].state = "interrupted"]
          [] e.type = "turn-diff-completed" -> [table EXCEPT !.row = TurnCompleted(@, e)]
          [] e.type = "reverted" ->
                [row |-> [t \in Turns |-> IF t \in KeptTurns(table.row, e.count)
                                          THEN table.row[t] ELSE NoRow],
                 pendingStart |-> 0]
          [] OTHER -> table

ApplyPendingApprovals(tables, e) ==
    LET table == tables["approvals"]
    IN  CASE e.type \in {"approval.resolved", "approval-response-requested"} ->
                [table EXCEPT ![e.n] = "resolved"]
          [] e.type = "approval.requested" ->
                [table EXCEPT ![e.n] = IF @ = "resolved" THEN @ ELSE "pending"]
          [] OTHER -> table

ApplyThreads(tables, e) ==
    LET table == tables["threads"]
    IN  CASE e.type \in {"session-running", "turn-diff-completed"} ->
                [table EXCEPT !.latestTurn = e.n]
          [] e.type = "reverted" -> [table EXCEPT !.latestTurn = 0]
          [] e.type = "deleted" -> [table EXCEPT !.deleted = TRUE]
          [] OTHER -> table

Apply(p, tables, e) ==
    CASE p = "messages"   -> ApplyThreadMessages(tables, e)
      [] p = "activities" -> ApplyThreadActivities(tables, e)
      [] p = "turns"      -> ApplyThreadTurns(tables, e)
      [] p = "approvals"  -> ApplyPendingApprovals(tables, e)
      [] p = "threads"    -> ApplyThreads(tables, e)

(* Every projector in order over one event: each sees what the ones before *)
(* it have written.                                                        *)
Projected(tables, e) ==
    LET run[j \in 0..Len(Order)] ==
            IF j = 0 THEN tables
            ELSE LET before == run[j - 1]
                 IN  [before EXCEPT ![Order[j]] = Apply(Order[j], before, e)]
    IN  run[Len(Order)]

(***************************************************************************)
(* The images projector p removes after applying e to these tables: those  *)
(* no kept message refers to, once a revert dropped a message, and all of  *)
(* them when the thread is deleted.                                        *)
(***************************************************************************)
Images(messages) == {m.n : m \in OfRole(messages, "user")}

\* Mutant: the images of the messages kept by the fallback are removed too.
RemovedUnnamed(p, tables, e) ==
    LET kept == ApplyThreadMessages(tables, e)
        turns == tables["turns"].row
    IN  CASE p = "messages" /\ e.type = "reverted" /\ kept # tables["messages"] ->
                files \ {turns[t].pending : t \in KeptTurns(turns, e.count)}
          [] p = "threads" /\ e.type = "deleted" -> files
          [] OTHER -> {}

RemovedImages(p, tables, e) ==
    LET kept == ApplyThreadMessages(tables, e)
    IN  CASE p = "messages" /\ e.type = "reverted" /\ kept # tables["messages"] ->
                files \ Images(kept)
          [] p = "threads" /\ e.type = "deleted" -> files
          [] OTHER -> {}

(***************************************************************************)
(* The in-memory projector: turns are known by their checkpoints, of which *)
(* real are no placeholders, and a placeholder replaces no real one.  Two  *)
(* turns may hold the same count.                                          *)
(***************************************************************************)
EmptyModel ==
    [messages |-> {}, activities |-> {}, count |-> [t \in Turns |-> 0], real |-> {}]

CheckpointTaken(m, e) ==
    IF e.status = "missing" THEN IF e.n \in m.real THEN m ELSE [m EXCEPT !.count[e.n] = e.count]
    ELSE [m EXCEPT !.count[e.n] = e.count, !.real = @ \cup {e.n}]

ProjectEvent(m, e) ==
    LET kept == {t \in Turns : m.count[t] \in 1..e.count}
    IN  CASE e.type \in {"user-message", "assistant-message"} ->
                [m EXCEPT !.messages = MessageSent(@, e)]
          [] e.type = "turn-diff-completed" -> CheckpointTaken(m, e)
          [] e.type = "reverted" ->
                [messages   |-> RetainMessages(m.messages, {}, kept, e.count),
                 activities |-> RetainActivities(m.activities, kept),
                 count      |-> [t \in Turns |-> IF t \in kept THEN m.count[t] ELSE 0],
                 real       |-> m.real \cap kept]
          [] OTHER -> [m EXCEPT !.activities = ActivityAfter(@, e, kept)]

-----------------------------------------------------------------------------
(***************************************************************************)
(* An open transaction remembers the committed state, and the events of    *)
(* the command that are still to be appended.                              *)
(***************************************************************************)
NoTxn == [open |-> FALSE, todo |-> <<>>, log |-> <<>>,
          cursor |-> [p \in Projectors |-> 0], rows |-> EmptyTables, files |-> {}]
NoBoot == [projector |-> 0, left |-> 0]

Last == Len(log)
InTxn == txn.open
Idle == phase = "live" /\ ~InTxn

Init ==
    /\ log = <<>>
    /\ cursor = [p \in Projectors |-> 0]
    /\ rows = EmptyTables
    /\ model = EmptyModel
    /\ files = {}
    /\ uploaded = {}
    /\ decided = [w \in Workers |-> <<>>]
    /\ txn = NoTxn
    /\ boot = NoBoot
    /\ phase = "down"
    /\ rebuilt = {}
    /\ skipped = {}
    /\ lost = {}
    /\ failures = 0

(***************************************************************************)
(* One event: appended, then every projector over it, its table and cursor *)
(* together.  Then the files go; a failure to remove them is only logged.  *)
(* The images of messages that are still on their way go with the others,  *)
(* for no row names them yet.                                              *)
(* Nothing sees the tables before the transaction ends, so its projectors  *)
(* are one step: a failure among them is the rollback after this step.     *)
(***************************************************************************)
AppendAndProject(e) ==
    /\ log' = Append(log, e)
    /\ rows' = Projected(rows, e)
    /\ cursor' = [p \in Projectors |-> Len(log')]
    /\ files' \in {files, files \ UNION {RemovedImages(p, rows, e) : p \in Projectors}}
    /\ lost' = lost \cup (uploaded \cap (files \ files'))

Spare(events) ==
    Cardinality({i \in 1..Len(events) :
                    \/ events[i].type \in Reports \cup {"deleted"}
                    \/ events[i].status = "error"
                    \/ \E j \in 1..(i - 1) : /\ events[j].type = events[i].type
                                            /\ events[j].n = events[i].n})

Fits(events) ==
    /\ Last + Len(events) <= MaxEvents
    /\ Spare(log \o events) <= MaxSpare
    /\ Spare(log \o events) > 0 => Last + Len(events) <= MaxMixed

(***************************************************************************)
(* A command with its events.                                              *)
(***************************************************************************)
Begin(events) ==
    /\ Idle
    /\ Fits(events)
    /\ txn' = [open |-> TRUE, todo |-> Tail(events), log |-> log,
               cursor |-> cursor, rows |-> rows, files |-> files]
    /\ AppendAndProject(Head(events))
    /\ UNCHANGED <<model, boot, phase, rebuilt, skipped, failures>>

Logged(type, n) == \E i \in 1..Last : log[i].type = type /\ log[i].n = n

(***************************************************************************)
(* The server writes the image of a message, under a name of its own, and  *)
(* then dispatches the message: commands may come in between.              *)
(***************************************************************************)
UploadImage ==
    /\ Idle
    /\ \E n \in Turns \ uploaded :
          /\ ~Logged("user-message", n)
          /\ \A k \in 1..(n - 1) : Logged("user-message", k) \/ k \in uploaded
          /\ uploaded' = uploaded \cup {n}
          /\ files' = files \cup {n}
          /\ lost' = lost \ {n}
    /\ UNCHANGED <<log, cursor, rows, model, decided, txn, boot, phase, rebuilt, skipped, failures>>

StartTurn ==
    \E n \in uploaded :
        /\ ~Logged("user-message", n)
        /\ \A k \in 1..(n - 1) : Logged("user-message", k)
        /\ Begin(<<E("user-message", n), E("turn-start-requested", n)>>)
        /\ uploaded' = uploaded \ {n}
        /\ UNCHANGED decided

(***************************************************************************)
(* What the provider and its user report of a turn that was started; a     *)
(* start may also never be taken up.                                       *)
(***************************************************************************)
Report(e) == Begin(<<e>>) /\ UNCHANGED <<uploaded, decided>>

ReportTurn ==
    \E n \in Turns :
        \/ /\ Logged("turn-start-requested", n)
           /\ \A k \in Turns : k > n => ~Logged("session-running", k)
           /\ Report(E("session-running", n))
        \/ /\ Logged("session-running", n)
           /\ \/ \E streaming \in BOOLEAN :
                    Report([E("assistant-message", n) EXCEPT !.streaming = streaming])
              \/ \E type \in Reports \ {"assistant-message"} :
                    /\ ~Logged(type, n)
                    /\ type \in {"approval-response-requested", "approval.resolved"}
                          => Logged("approval.requested", n)
                    /\ Report(E(type, n))

DeleteThread == ~rows["threads"].deleted /\ Report(E("deleted", 0))

(***************************************************************************)
(* The reactor and the ingestion read the read model and decide on what    *)
(* they will dispatch: the next count is one above the highest they see.   *)
(* The reactor goes on to capture, or to restore, a checkpoint in git.     *)
(***************************************************************************)
MaxCount(m) == CHOOSE c \in 0..MaxTurns : /\ \A t \in Turns : m.count[t] <= c
                                          /\ c = 0 \/ \E t \in Turns : m.count[t] = c

CountFor(m, n) == IF m.count[n] # 0 THEN m.count[n] ELSE MaxCount(m) + 1

Decide(w, e) ==
    /\ Idle
    /\ decided[w] = <<>>
    /\ e.count <= MaxTurns
    /\ Fits(<<e>>)
    /\ decided' = [decided EXCEPT ![w] = <<e>>]
    /\ UNCHANGED <<log, cursor, rows, model, files, uploaded, txn, boot, phase, rebuilt,
                   skipped, lost, failures>>

\* The provider reports that turn n is over; a placeholder's count is taken over.
CaptureCompletion ==
    \E n \in Turns \ model.real, status \in Statuses :
        /\ Logged("session-running", n)
        /\ Decide("reactor", Completed(n, CountFor(model, n), status))

\* The event of a placeholder reaches the reactor, which captures with the event's own count.
CapturePlaceholder ==
    \E i \in 1..Last :
        /\ log[i].type = "turn-diff-completed"
        /\ log[i].status = "missing"
        /\ log[i].n \notin model.real
        /\ Decide("reactor", Completed(log[i].n, log[i].count, "ready"))

\* A revert that was asked for goes back to a checkpoint, or to before the first turn.
RestoreCheckpoint ==
    \E count \in 0..MaxCount(model) :
        /\ count = 0 \/ \E t \in Turns : model.count[t] = count
        /\ Decide("reactor", RevertedTo(count))

\* The provider reports a diff of a turn without a checkpoint: a placeholder.
PlaceCheckpoint ==
    \E n \in Turns :
        /\ Logged("session-running", n)
        /\ model.count[n] = 0
        /\ Decide("ingestion", Completed(n, CountFor(model, n), "missing"))

Dispatch(w) ==
    /\ decided[w] # <<>>
    /\ Begin(decided[w])
    /\ decided' = [decided EXCEPT ![w] = <<>>]
    /\ UNCHANGED uploaded

AppendNext ==
    /\ InTxn
    /\ txn.todo # <<>>
    /\ AppendAndProject(Head(txn.todo))
    /\ txn' = [txn EXCEPT !.todo = Tail(@)]
    /\ UNCHANGED <<model, uploaded, decided, boot, phase, rebuilt, skipped, failures>>

(* The read model after the first i events, starting from m after k.       *)
ModelAfter(m, k, i) ==
    LET f[j \in k..i] == IF j = k THEN m ELSE ProjectEvent(f[j - 1], log[j]) IN f[i]

Commit ==
    /\ InTxn
    /\ txn.todo = <<>>
    /\ model' = ModelAfter(model, Len(txn.log), Last)
    /\ txn' = NoTxn
    /\ UNCHANGED <<log, cursor, rows, files, uploaded, decided, boot, phase, rebuilt, skipped,
                   lost, failures>>

(***************************************************************************)
(* A failing statement undoes the transaction, not the files it removed.   *)
(***************************************************************************)
\* Mutant: a failing statement leaves the transaction open.
UndoLeavesOpen ==
    /\ failures < MaxFailures
    /\ failures' = failures + 1
    /\ UNCHANGED <<log, cursor, rows, lost, txn, files, rebuilt, skipped>>

Undo ==
    /\ failures < MaxFailures
    /\ failures' = failures + 1
    /\ log' = IF InTxn THEN txn.log ELSE log
    /\ cursor' = IF InTxn THEN txn.cursor ELSE cursor
    /\ rows' = IF InTxn THEN txn.rows ELSE rows
    /\ lost' = IF InTxn THEN lost \cup (txn.files \ files) ELSE lost
    /\ txn' = NoTxn
    /\ UNCHANGED <<files, rebuilt, skipped>>

Rollback == InTxn /\ Undo /\ UNCHANGED <<model, uploaded, decided, boot, phase>>

Crash ==
    /\ phase # "down"
    /\ Undo
    /\ phase' = "down"
    /\ boot' = NoBoot
    /\ model' = EmptyModel
    /\ uploaded' = {}
    /\ decided' = [w \in Workers |-> <<>>]

-----------------------------------------------------------------------------
(***************************************************************************)
(* The start of the server: migrations, then one catch-up per projector,   *)
(* each event in a transaction of its own, then the read model.            *)
(***************************************************************************)
Rebuild(p) ==
    /\ phase = "down"
    /\ Cardinality(rebuilt) < MaxRebuilds
    /\ p \notin rebuilt
    /\ cursor[p] > 0
    /\ rebuilt' = rebuilt \cup {p}
    /\ rows' = [rows EXCEPT ![p] = EmptyTable(p)]
    /\ cursor' = [cursor EXCEPT ![p] = 0]
    /\ UNCHANGED <<log, model, files, uploaded, decided, txn, boot, phase, skipped, lost, failures>>

Bootstrap ==
    /\ phase = "down"
    /\ phase' = "booting"
    /\ boot' = [projector |-> 1, left |-> ReadLimit]
    /\ UNCHANGED <<log, cursor, rows, model, files, uploaded, decided, txn, rebuilt, skipped,
                   lost, failures>>

\* Mutant: the cursor is written outside of the event's transaction.
CursorWrittenLater(p, i) ==
    /\ rows' = [rows EXCEPT ![p] = Apply(p, rows, log[i])]
    /\ cursor' \in {cursor, [cursor EXCEPT ![p] = i]}
    /\ files' \in {files, files \ RemovedImages(p, rows, log[i])}

RunProjectorForEvent(p, i) ==
    /\ rows' = [rows EXCEPT ![p] = Apply(p, rows, log[i])]
    /\ cursor' = [cursor EXCEPT ![p] = i]
    /\ files' \in {files, files \ RemovedImages(p, rows, log[i])}

CatchUp ==
    /\ phase = "booting"
    /\ boot.projector <= Len(Order)
    /\ LET p == Order[boot.projector]
       IN  /\ boot.left > 0
           /\ cursor[p] < Last
           /\ RunProjectorForEvent(p, cursor[p] + 1)
    /\ boot' = [boot EXCEPT !.left = @ - 1]
    /\ lost' = lost \cup (files \ files')
    /\ UNCHANGED <<log, model, uploaded, decided, txn, phase, rebuilt, skipped, failures>>

CaughtUp ==
    /\ phase = "booting"
    /\ boot.projector <= Len(Order)
    /\ LET p == Order[boot.projector]
       IN  /\ boot.left = 0 \/ cursor[p] = Last
           /\ skipped' = IF cursor[p] < Last THEN skipped \cup {p} ELSE skipped
    /\ boot' = [projector |-> boot.projector + 1, left |-> ReadLimit]
    /\ UNCHANGED <<log, cursor, rows, model, files, uploaded, decided, txn, phase, rebuilt,
                   lost, failures>>

GoLive ==
    /\ phase = "booting"
    /\ boot.projector > Len(Order)
    /\ model' = ModelAfter(EmptyModel, 0, Last)
    /\ boot' = NoBoot
    /\ phase' = "live"
    /\ UNCHANGED <<log, cursor, rows, files, uploaded, decided, txn, rebuilt, skipped, lost,
                   failures>>

Next ==
    \/ UploadImage \/ StartTurn \/ ReportTurn \/ DeleteThread
    \/ CaptureCompletion \/ CapturePlaceholder \/ RestoreCheckpoint \/ PlaceCheckpoint
    \/ \E w \in Workers : Dispatch(w)
    \/ AppendNext \/ Commit \/ Rollback \/ Crash
    \/ Bootstrap \/ CatchUp \/ CaughtUp \/ GoLive
    \/ \E p \in Rebuildable : Rebuild(p)

Spec == Init /\ [][Next]_vars

-----------------------------------------------------------------------------
TypeOK ==
    /\ log \in Seq(Event) /\ Last <= MaxEvents
    /\ cursor \in [Projectors -> 0..MaxEvents]
    /\ DOMAIN rows = Projectors
    /\ rows["turns"].row \in [Turns -> [state : {"none", "running", "completed", "interrupted", "error"},
                                        pending : 0..MaxTurns, answered : BOOLEAN,
                                        count : 0..MaxTurns]]
    /\ rows["approvals"] \in [Turns -> {"none", "pending", "resolved"}]
    /\ files \subseteq Turns /\ uploaded \subseteq Turns /\ lost \subseteq Turns
    /\ decided \in [Workers -> Seq(Event)]
    /\ phase \in {"down", "booting", "live"}
    /\ InTxn => phase = "live"
    /\ phase = "booting" <=> boot # NoBoot
    /\ skipped \subseteq rebuilt /\ rebuilt \subseteq Rebuildable
    /\ failures \in 0..MaxFailures

(***************************************************************************)
(* The tables of a server that never stopped, after each event of the log. *)
(***************************************************************************)
HistoryOf(events) ==
    LET after[i \in 0..Len(events)] ==
            IF i = 0 THEN EmptyTables ELSE Projected(after[i - 1], events[i])
    IN  [i \in 0..Len(events) |-> after[i]]

History == HistoryOf(log)

HasRevert(events) == \E i \in 1..Len(events) : events[i].type = "reverted"

ReadsTurns == {"messages", "activities"}

(***************************************************************************)
(* Checkpoints come with the counts the rows of turns call for: a turn's   *)
(* own count, or one above all others, and a revert goes back to a count   *)
(* that is there.  It is not so when a checkpoint or a revert of the other *)
(* worker came between the reading of a count and its dispatch: two turns  *)
(* may then share a count, which the table takes from one of them and the  *)
(* read model leaves to both.                                              *)
(***************************************************************************)
TakesItsCount(tables, e) ==
    LET row == tables["turns"].row
    IN  /\ e.type = "turn-diff-completed" =>
              /\ e.count # 0
              /\ IF row[e.n].count # 0 THEN e.count = row[e.n].count
                 ELSE \A t \in Turns : row[t].count < e.count
        /\ e.type = "reverted" => e.count = 0 \/ \E t \in Turns : row[t].count = e.count

CountsInOrder(events) ==
    LET history == HistoryOf(events)
    IN  \A i \in 1..Len(events) : TakesItsCount(history[i - 1], events[i])

(***************************************************************************)
(* A table that was rebuilt and has to replay a revert: the rows of turns  *)
(* it reads on the way are of a later time, or empty themselves.           *)
(***************************************************************************)
Replays(p) == p \in rebuilt \cap ReadsTurns /\ HasRevert(log)

(***************************************************************************)
(* Whatever crashes, failing statements and catch-ups came before, every   *)
(* table is what the events up to its cursor make of it, each applied      *)
(* once and in order, and between commands no cursor is behind the log.    *)
(* A table that replays a revert may differ on the way, and is right at    *)
(* the end of the log: unless the rows of turns were rebuilt as well,      *)
(* counts were out of order, or a projector was more than ReadLimit events *)
(* behind.                                                                 *)
(***************************************************************************)
TablesFollowTheLog ==
    skipped = {} /\ ~InTxn =>
        /\ LET history == History
           IN  \A p \in Projectors :
                  (Replays(p) => "turns" \notin rebuilt /\ CountsInOrder(log) /\ cursor[p] = Last)
                      => rows[p] = history[cursor[p]][p]
        /\ Idle => \A p \in Projectors : cursor[p] = Last

(***************************************************************************)
(* A message that is shown has its image, unless a step removed it that    *)
(* was undone, or the replay of an earlier revert did (ProjectionPipeline  *)
(* 1223-1228 and 687-690), or a revert that was dispatched after the image *)
(* was written and before its message (wsServer.ts 348-363 and 696-697).   *)
(* Not so when messages were rebuilt together with turns, or counts were   *)
(* out of order: the replay of a revert then keeps other questions than it *)
(* did the first time.                                                     *)
(***************************************************************************)
MessageFilesExist ==
    /\ Idle /\ skipped = {} /\ ~rows["threads"].deleted
    /\ Replays("messages") => "turns" \notin rebuilt /\ CountsInOrder(log)
    => Images(rows["messages"]) \subseteq files \cup lost

(***************************************************************************)
(* As long as counts came in order, the tables a client's snapshot is read *)
(* from and the read model that commands are decided on keep the same      *)
(* checkpoints, answers and activities, and the same questions as long as  *)
(* every revert went back over turns that were asked and completed in      *)
(* order too: the read model keeps the oldest questions, the tables those  *)
(* of the turns that stay.                                                 *)
(***************************************************************************)
Ids(messages, role) == {m.n : m \in OfRole(messages, role)}

RevertsInOrder ==
    LET history == History
    IN  \A i \in 1..Last :
            log[i].type = "reverted" =>
                LET turns == history[i - 1]["turns"].row
                    users == Ids(history[i - 1]["messages"], "user")
                IN  {turns[t].pending : t \in KeptTurns(turns, log[i].count)}
                        = {n \in users : Cardinality(users \cap 1..n) <= log[i].count}

ModelsAgree ==
    /\ Idle /\ skipped = {} /\ CountsInOrder(log)
    /\ \A p \in ReadsTurns : Replays(p) => "turns" \notin rebuilt
    =>
        /\ \A t \in Turns : rows["turns"].row[t].count = model.count[t]
        /\ Ids(rows["messages"], "assistant") = Ids(model.messages, "assistant")
        /\ rows["activities"] = model.activities
        /\ RevertsInOrder => Ids(rows["messages"], "user") = Ids(model.messages, "user")

=============================================================================
