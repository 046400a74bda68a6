----------------------- MODULE MCOrchestrationEngine -----------------------
(***************************************************************************)
(* Finite instances of OrchestrationEngine for TLC.  Every command of an   *)
(* instance can be dispatched again under its id, so the runs contain      *)
(* retries, duplicates in the queue and dispatches after a restart.        *)
(***************************************************************************)
EXTENDS OrchestrationEngine, TLC

CONSTANTS p1, p2, t1, t2, c1, c2, c3, c4

Cmd(type, p, t, s) == [type |-> type, project |-> p, thread |-> t, source |-> s]

(***************************************************************************)
(* A project, a thread in it, a turn (two events), and an archive that can *)
(* be refused or accepted depending on the order of dispatch.              *)
(***************************************************************************)
TurnCommands ==
    c1 :> Cmd("project.create", p1, t1, NoThread) @@
    c2 :> Cmd("thread.create", p1, t1, NoThread) @@
    c3 :> Cmd("thread.turn.start", p1, t1, NoThread) @@
    c4 :> Cmd("thread.archive", p1, t1, NoThread)
=============================================================================
