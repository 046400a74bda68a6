------------------------- MODULE MCTurnCheckpoints -------------------------
(* Bounded instances of TurnCheckpoints; turns are interchangeable.         *)
EXTENDS TurnCheckpoints, TLC

CONSTANTS t1, t2

TurnSymmetry == Permutations(Turns)
============================================================================
