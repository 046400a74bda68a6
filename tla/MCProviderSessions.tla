------------------------- MODULE MCProviderSessions -------------------------
(* Bounded instances of ProviderSessions; turns are interchangeable.        *)
EXTENDS ProviderSessions, TLC

CONSTANTS t1, t2

TurnSymmetry == Permutations(Turns)
=============================================================================
