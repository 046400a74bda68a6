-------------------------- MODULE MCAssistantText --------------------------
(* Two messages of one turn.                                               *)
EXTENDS AssistantText, TLC

CONSTANTS m1, m2

MCTurnOf == m1 :> 1 @@ m2 :> 1
MCTurns == {1}
MCMaxDeltas == m1 :> 3 @@ m2 :> 1 @@ 1 :> 2
=============================================================================
