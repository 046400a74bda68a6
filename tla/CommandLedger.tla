---------------------------- MODULE CommandLedger ----------------------------
(***************************************************************************)
(* What the orchestration engine promises its callers, with nothing of how *)
(* it does it: one append-only log, one verdict per command id, and calls  *)
(* that wait for an answer.  A command is decided against what the log     *)
(* says at that moment, and takes effect as a whole and at most once.      *)
(***************************************************************************)
EXTENDS Orchestration

CONSTANTS
    Calls,          \* calls of OrchestrationEngine.dispatch, each used once
    NoCommand       \* the command of a call that was not made yet

VARIABLES
    log,            \* table orchestration_events
    receipts,       \* table orchestration_command_receipts
    calls           \* what each caller asked and what it was told

ledgerVars == <<log, receipts, calls>>

(***************************************************************************)
(* A receipt row; status "none" is the absence of a row.                   *)
(***************************************************************************)
Receipt == [status : {"none", "accepted", "rejected"}, sequence : Nat]
NoReceipt == [status |-> "none", sequence |-> 0]

CallStatus == {"unused", "waiting", "ok", "rejected", "failed", "lost"}
Call == [status : CallStatus, command : CommandIds \cup {NoCommand}, sequence : Nat]

LedgerTypeOK ==
    /\ log \in Seq(Event)
    /\ receipts \in [CommandIds -> Receipt]
    /\ calls \in [Calls -> Call]

LedgerInit ==
    /\ log = << >>
    /\ receipts = [c \in CommandIds |-> NoReceipt]
    /\ calls = [k \in Calls |->
                  [status |-> "unused", command |-> NoCommand, sequence |-> 0]]

PermittedByLog(c) == Permitted(c, Replay(EmptyReadModel, log))

Awaited(c) == \E k \in Calls : calls[k].status = "waiting" /\ calls[k].command = c

Ask(k, c) ==
    /\ calls[k].status = "unused"
    /\ calls' = [calls EXCEPT ![k] = [status |-> "waiting", command |-> c, sequence |-> 0]]
    /\ UNCHANGED <<log, receipts>>

(***************************************************************************)
(* All events of c and its receipt, in one step.                           *)
(***************************************************************************)
Accept(c) ==
    /\ Awaited(c)
    /\ receipts[c].status = "none"
    /\ PermittedByLog(c)
    /\ log' = log \o Batch(c, Len(log))
    /\ receipts' = [receipts EXCEPT ![c] =
                      [status |-> "accepted", sequence |-> Len(log) + Len(Decision(c))]]
    /\ UNCHANGED calls

Reject(c) ==
    /\ Awaited(c)
    /\ receipts[c].status = "none"
    /\ ~PermittedByLog(c)
    /\ receipts' = [receipts EXCEPT ![c] = [status |-> "rejected", sequence |-> Len(log)]]
    /\ UNCHANGED <<log, calls>>

(***************************************************************************)
(* A caller is told "ok" only with the sequence of the accepted receipt,   *)
(* and "rejected" only on a rejected receipt or when the log refuses the   *)
(* command now.  "failed" promises nothing.                                *)
(***************************************************************************)
Tell(k) ==
    LET c == calls[k].command IN
    /\ calls[k].status = "waiting"
    /\ \/ /\ receipts[c].status = "accepted"
          /\ calls' = [calls EXCEPT ![k].status = "ok", ![k].sequence = receipts[c].sequence]
       \/ /\ \/ receipts[c].status = "rejected"
             \/ receipts[c].status = "none" /\ ~PermittedByLog(c)
          /\ calls' = [calls EXCEPT ![k].status = "rejected"]
       \/ calls' = [calls EXCEPT ![k].status = "failed"]
    /\ UNCHANGED <<log, receipts>>

LoseCalls ==
    /\ calls' = [k \in Calls |-> IF calls[k].status = "waiting"
                                 THEN [calls[k] EXCEPT !.status = "lost"] ELSE calls[k]]
    /\ UNCHANGED <<log, receipts>>

LedgerNext ==
    \/ \E k \in Calls, c \in CommandIds : Ask(k, c)
    \/ \E c \in CommandIds : Accept(c) \/ Reject(c)
    \/ \E k \in Calls : Tell(k)
    \/ LoseCalls

LedgerSpec == LedgerInit /\ [][LedgerNext]_ledgerVars
=============================================================================
