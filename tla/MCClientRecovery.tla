--------------------------- MODULE MCClientRecovery ---------------------------
(* Bounded instances of ClientRecovery; its constants are plain numbers.       *)
EXTENDS ClientRecovery
=============================================================================
