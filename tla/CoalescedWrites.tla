-------------------------- MODULE CoalescedWrites --------------------------
(***************************************************************************)
(* What a keyed coalescing worker promises its callers: values put for a   *)
(* key are merged while they wait, one key at a time is in hand, and what  *)
(* was in hand is stored before the next value of that key.  The worker    *)
(* itself (KeyedCoalescingWorker) implements this; the terminal manager    *)
(* uses this.                                                              *)
(***************************************************************************)
CONSTANTS Keys,
          NoValue,        \* no value waits, or is in hand, for a key
          Merge(_, _),    \* the waiting value and a newer one
          Store(_, _)     \* what is stored for a key, and the value in hand

VARIABLES waiting,  \* the merged value that waits, per key
          inHand,   \* the value being stored, for at most one key
          stored    \* per key

writes == <<waiting, inHand, stored>>

Init(initially) ==
  /\ waiting = [k \in Keys |-> NoValue]
  /\ inHand = [k \in Keys |-> NoValue]
  /\ stored = initially

Put(k, v) ==
  /\ waiting' = [waiting EXCEPT ![k] = IF @ = NoValue THEN v ELSE Merge(@, v)]
  /\ UNCHANGED <<inHand, stored>>

Begin(k) ==
  /\ \A j \in Keys : inHand[j] = NoValue
  /\ waiting[k] # NoValue
  /\ inHand' = [inHand EXCEPT ![k] = waiting[k]]
  /\ waiting' = [waiting EXCEPT ![k] = NoValue]
  /\ UNCHANGED stored

\* The value in hand is stored; the worker may stay on the key.
End(k) ==
  /\ inHand[k] # NoValue
  /\ stored' = [stored EXCEPT ![k] = Store(@, inHand[k])]
  /\ \/ /\ inHand' = [inHand EXCEPT ![k] = NoValue]
        /\ UNCHANGED waiting
     \/ /\ waiting[k] # NoValue
        /\ inHand' = [inHand EXCEPT ![k] = waiting[k]]
        /\ waiting' = [waiting EXCEPT ![k] = NoValue]

\* Nothing of this key is under way: drainKey returns.
KeyIsIdle(k) == waiting[k] = NoValue /\ inHand[k] = NoValue

\* A value in hand is stored in the end, and no key is passed over for ever.
Progress ==
  \A k \in Keys : WF_writes(End(k)) /\ SF_writes(Begin(k))
============================================================================
