----------------------------- MODULE LogFollower -----------------------------
(***************************************************************************)
(* What the recovery coordinator, the push bus and the transport promise   *)
(* together: a client's copy of a growing log is always a prefix of it,    *)
(* and catches up in steps of any length, never backwards.  Nothing is     *)
(* said of how long the copy lags behind.                                  *)
(***************************************************************************)
EXTENDS Naturals, Sequences

VARIABLES log,  \* the server's events
          copy  \* the events the client's state consists of

Init == log = <<>> /\ copy = <<>>

AppendEvent == log' = Append(log, Len(log) + 1) /\ UNCHANGED copy

\* An event is applied, a replay's events are, or a snapshot takes their place.
CatchUp ==
  /\ \E n \in Len(copy)..Len(log) : copy' = SubSeq(log, 1, n)
  /\ UNCHANGED log

Spec == Init /\ [][AppendEvent \/ CatchUp]_<<log, copy>>
=============================================================================
