---------------------------- MODULE Orchestration ----------------------------
(***************************************************************************)
(* The event-sourced core of the T3 server as pure functions: the commands *)
(* a dispatch carries, the decider that turns a command into events (or    *)
(* refuses it), and the projector that folds an event into the read model. *)
(*                                                                         *)
(* Titles, branches, scripts, model selections, timestamps and message     *)
(* texts are left out: nothing the decider tests depends on them.          *)
(* "project.meta.update" and "thread.meta.update" stand for every command  *)
(* whose only precondition is that its project, or its thread, exists.     *)
(***************************************************************************)
EXTENDS Integers, Sequences

CONSTANTS
    CommandIds,     \* the ids clients and reactors give their commands
    Projects,       \* project ids
    Threads,        \* thread ids
    NoThread,       \* "no source thread" / "thread not created"
    CommandOf       \* the command that travels under each id

ProjectCommandTypes == {"project.create", "project.meta.update", "project.delete"}

ThreadCommandTypes ==
    {"thread.create", "thread.delete", "thread.archive", "thread.unarchive",
     "thread.meta.update", "thread.proposed-plan.upsert", "thread.turn.start"}

(***************************************************************************)
(* source is the thread of sourceProposedPlan in thread.turn.start, and    *)
(* NoThread when the command carries none.                                 *)
(***************************************************************************)
Command == [type    : ProjectCommandTypes \cup ThreadCommandTypes,
            project : Projects,
            thread  : Threads,
            source  : Threads \cup {NoThread}]

ASSUME NoThreadAssumption == NoThread \notin Threads
ASSUME CommandOfAssumption == CommandOf \in [CommandIds -> Command]

EventTypes ==
    {"project.created", "project.meta-updated", "project.deleted",
     "thread.created", "thread.deleted", "thread.archived", "thread.unarchived",
     "thread.meta-updated", "thread.proposed-plan-upserted",
     "thread.message-sent", "thread.turn-start-requested"}

(***************************************************************************)
(* A persisted event.  sequence is the row's AUTOINCREMENT key; the rest   *)
(* of the payload is that of the command the event was decided from.       *)
(***************************************************************************)
Event == [sequence : Nat \ {0}, commandId : CommandIds, type : EventTypes]

-----------------------------------------------------------------------------
(***************************************************************************)
(* The read model.  A deleted project or thread keeps its entry, only its  *)
(* deletedAt is set: it still answers findProjectById / findThreadById.    *)
(***************************************************************************)
ProjectState == {"absent", "live", "deleted"}

ThreadState == [project : Projects, archived : BOOLEAN, deleted : BOOLEAN,
                hasPlan : BOOLEAN, messages : SUBSET CommandIds]

ReadModel == [snapshotSequence : Nat,
              projects : [Projects -> ProjectState],
              threads  : [Threads -> ThreadState \cup {NoThread}]]

EmptyReadModel == [snapshotSequence |-> 0,
                   projects |-> [p \in Projects |-> "absent"],
                   threads  |-> [t \in Threads |-> NoThread]]

ProjectExists(model, p) == model.projects[p] # "absent"
ThreadExists(model, t) == model.threads[t] # NoThread

-----------------------------------------------------------------------------
(***************************************************************************)
(* The decider: which commands the read model permits, and the types of    *)
(* the events a permitted command yields, in order.                        *)
(***************************************************************************)
Permitted(c, model) ==
    LET cmd == CommandOf[c]
        exists == ThreadExists(model, cmd.thread)
    IN  CASE cmd.type = "project.create" -> ~ProjectExists(model, cmd.project)
          [] cmd.type \in {"project.meta.update", "project.delete"} ->
               ProjectExists(model, cmd.project)
          [] cmd.type = "thread.create" ->
               ProjectExists(model, cmd.project) /\ ~exists
          [] cmd.type = "thread.archive" ->
               exists /\ ~model.threads[cmd.thread].archived
          [] cmd.type = "thread.unarchive" ->
               exists /\ model.threads[cmd.thread].archived
          [] cmd.type = "thread.turn.start" ->
               /\ exists
               /\ cmd.source # NoThread =>
                    /\ ThreadExists(model, cmd.source)
                    /\ model.threads[cmd.source].hasPlan
                    /\ model.threads[cmd.source].project = model.threads[cmd.thread].project
          [] OTHER -> exists

EventTypeOf(type) ==
    CASE type = "project.create"              -> "project.created"
      [] type = "project.meta.update"         -> "project.meta-updated"
      [] type = "project.delete"              -> "project.deleted"
      [] type = "thread.create"               -> "thread.created"
      [] type = "thread.delete"               -> "thread.deleted"
      [] type = "thread.archive"              -> "thread.archived"
      [] type = "thread.unarchive"            -> "thread.unarchived"
      [] type = "thread.proposed-plan.upsert" -> "thread.proposed-plan-upserted"
      [] OTHER                                -> "thread.meta-updated"

Decision(c) ==
    IF CommandOf[c].type = "thread.turn.start"
    THEN <<"thread.message-sent", "thread.turn-start-requested">>
    ELSE <<EventTypeOf(CommandOf[c].type)>>

-----------------------------------------------------------------------------
(***************************************************************************)
(* The projector.                                                          *)
(***************************************************************************)
ProjectAfter(old, type) ==
    CASE type = "project.created" -> "live"
      [] type = "project.deleted" -> IF old = "absent" THEN old ELSE "deleted"
      [] OTHER -> old

NewThread(p) == [project |-> p, archived |-> FALSE, deleted |-> FALSE,
                 hasPlan |-> FALSE, messages |-> {}]

ThreadAfter(old, e) ==
    IF e.type = "thread.created" THEN NewThread(CommandOf[e.commandId].project)
    ELSE IF old = NoThread THEN old
    ELSE CASE e.type = "thread.deleted"    -> [old EXCEPT !.deleted = TRUE]
           [] e.type = "thread.archived"   -> [old EXCEPT !.archived = TRUE]
           [] e.type = "thread.unarchived" -> [old EXCEPT !.archived = FALSE]
           [] e.type = "thread.proposed-plan-upserted" -> [old EXCEPT !.hasPlan = TRUE]
           [] e.type = "thread.message-sent" ->
                [old EXCEPT !.messages = @ \cup {e.commandId}]
           [] OTHER -> old

ProjectEvent(model, e) ==
    LET cmd == CommandOf[e.commandId]
        onProject == cmd.type \in ProjectCommandTypes
    IN  [snapshotSequence |-> e.sequence,
         projects |-> [p \in Projects |->
             IF onProject /\ p = cmd.project
             THEN ProjectAfter(model.projects[p], e.type) ELSE model.projects[p]],
         threads |-> [t \in Threads |->
             IF ~onProject /\ t = cmd.thread
             THEN ThreadAfter(model.threads[t], e) ELSE model.threads[t]]]

(***************************************************************************)
(* The read model after the events of a sequence, starting from a model:   *)
(* Replay(EmptyReadModel, log) is what the whole log says.                 *)
(***************************************************************************)
Replay(model, events) ==
    LET after[i \in 0..Len(events)] ==
          IF i = 0 THEN model ELSE ProjectEvent(after[i - 1], events[i])
    IN  after[Len(events)]

(***************************************************************************)
(* The events of command c as the store numbers them when they follow the  *)
(* first n events of the log.                                              *)
(***************************************************************************)
Batch(c, n) == [i \in 1..Len(Decision(c)) |->
                  [sequence |-> n + i, commandId |-> c, type |-> Decision(c)[i]]]
=============================================================================
