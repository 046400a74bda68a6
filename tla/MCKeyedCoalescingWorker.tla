---------------------- MODULE MCKeyedCoalescingWorker ----------------------
(* A bounded instance of KeyedCoalescingWorker.                             *)
EXTENDS KeyedCoalescingWorker

CONSTANTS k1, k2, d1, d2
============================================================================
