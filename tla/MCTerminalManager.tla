------------------------- MODULE MCTerminalManager -------------------------
(* Two terminals, of one thread or of two.                                 *)
EXTENDS TerminalManager

CONSTANTS a, b, t1, t2

OneThread == [k \in {a, b} |-> t1]
TwoThreads == [k \in {a, b} |-> IF k = a THEN t1 ELSE t2]
=============================================================================
