-------------------------- MODULE MCClaudeSessions --------------------------
(* Two turns, two texts, and a tool that asks for permission or for input. *)
EXTENDS ClaudeSessions

CONSTANT tool

MCTools == {tool}
=============================================================================
