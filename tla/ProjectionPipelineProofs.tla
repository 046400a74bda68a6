------------------------ MODULE ProjectionPipelineProofs ------------------------
(***************************************************************************)
(* Every table is what the events up to its cursor make of it, the read    *)
(* model agrees with the tables, and messages keep their images, for any   *)
(* number of events, failures, crashes and rebuilt tables; a table that    *)
(* replays old reverts ends as the one that was there.                     *)
(***************************************************************************)
EXTENDS ProjectionPipeline, FiniteSetTheorems, FunctionTheorems, SequenceTheorems,
        WellFoundedInduction, TLAPS

(***************************************************************************)
(* Sequences of whatever, and tables of all projectors.                    *)
(***************************************************************************)
IsSeq(s) == \E S : s \in Seq(S)

IsTables(tables) == tables = [p \in Projectors |-> tables[p]]

LEMMA Names ==
  /\ Len(Order) = 5
  /\ Order[1] = "messages" /\ Order[2] = "activities" /\ Order[3] = "turns"
  /\ Order[4] = "approvals" /\ Order[5] = "threads"
  /\ Projectors = {"messages", "activities", "turns", "approvals", "threads"}
<1>1. Len(Order) = 5
  BY DEF Order
<1>2. /\ Order[1] = "messages" /\ Order[2] = "activities" /\ Order[3] = "turns"
      /\ Order[4] = "approvals" /\ Order[5] = "threads"
  BY DEF Order
<1>3. 1..5 = {1, 2, 3, 4, 5}
  OBVIOUS
<1> QED
  BY <1>1, <1>2, <1>3 DEF Projectors

LEMMA AppendSeq ==
  ASSUME NEW s, IsSeq(s), NEW e
  PROVE  /\ IsSeq(Append(s, e)) /\ Len(s) \in Nat
         /\ Len(Append(s, e)) = Len(s) + 1 /\ Append(s, e)[Len(s) + 1] = e
         /\ \A i \in 1..Len(s) : Append(s, e)[i] = s[i]
<1>1. PICK S : s \in Seq(S)
  BY DEF IsSeq
<1> DEFINE T == S \cup {e}
<1>2. s \in Seq(T)
  <2>1. s \in [1..Len(s) -> S] /\ Len(s) \in Nat
    BY <1>1
  <2>2. s \in [1..Len(s) -> T]
    BY <2>1
  <2> HIDE DEF T
  <2> QED
    BY <2>1, <2>2, SeqDef
<1>3. e \in T
  OBVIOUS
<1> HIDE DEF T
<1>4. Append(s, e) \in Seq(T)
  BY <1>2, <1>3
<1> QED
  BY <1>2, <1>3, <1>4 DEF IsSeq

(***************************************************************************)
(* Induction over the natural numbers, for a property given as a set.      *)
(***************************************************************************)
LEMMA Induction ==
  ASSUME NEW T, T \subseteq Nat, 0 \in T, \A n \in T : n + 1 \in T
  PROVE  \A n \in Nat : n \in T
<1>1. SUFFICES ASSUME NEW n \in Nat \ T PROVE FALSE
  OBVIOUS
<1>2. PICK x \in Nat \ T : \A y \in Nat \ T : ~(<<y, x>> \in OpToRel(<, Nat))
  BY <1>1, NatLessThanWellFounded, WFMin
<1>3. x # 0 /\ x - 1 \in Nat /\ x - 1 < x /\ (x - 1) + 1 = x
  OBVIOUS
<1>4. x - 1 \in T
  BY <1>2, <1>3 DEF OpToRel
<1> QED
  BY <1>3, <1>4

-----------------------------------------------------------------------------
(***************************************************************************)
(* One event.  A projector reads its own table, and for a revert those of  *)
(* messages and activities read the turns; the turns come after them, so   *)
(* every projector sees what it would see before the event.                *)
(***************************************************************************)
LEMMA ApplyReads ==
  ASSUME NEW p \in Projectors, NEW e, NEW tables, NEW others,
         tables[p] = others[p],
         p \in ReadsTurns /\ e.type = "reverted" => tables["turns"] = others["turns"]
  PROVE  Apply(p, tables, e) = Apply(p, others, e)
<1>1. CASE p = "messages"
  <2>1. CASE e.type = "reverted"
    BY <1>1, <2>1 DEF Apply, ApplyThreadMessages, ReadsTurns
  <2>2. CASE e.type # "reverted"
    BY <1>1, <2>2 DEF Apply, ApplyThreadMessages
  <2> QED
    BY <2>1, <2>2
<1>2. CASE p = "activities"
  <2>1. CASE e.type = "reverted"
    BY <1>2, <2>1 DEF Apply, ApplyThreadActivities, ReadsTurns
  <2>2. CASE e.type # "reverted"
    BY <1>2, <2>2 DEF Apply, ApplyThreadActivities, ActivityAfter
  <2> QED
    BY <2>1, <2>2
<1>3. CASE p = "turns"
  BY <1>3 DEF Apply, ApplyThreadTurns
<1>4. CASE p = "approvals"
  BY <1>4 DEF Apply, ApplyPendingApprovals
<1>5. CASE p = "threads"
  BY <1>5 DEF Apply, ApplyThreads
<1> QED
  BY <1>1, <1>2, <1>3, <1>4, <1>5, Names

LEMMA ProjectedTables ==
  ASSUME NEW tables, IsTables(tables), NEW e
  PROVE  Projected(tables, e) = [p \in Projectors |-> Apply(p, tables, e)]
<1> DEFINE Step(before, j) == [before EXCEPT ![Order[j]] = Apply(Order[j], before, e)]
           t1 == Step(tables, 1)
           t2 == Step(t1, 2)
           t3 == Step(t2, 3)
           t4 == Step(t3, 4)
           t5 == Step(t4, 5)
           Runs(f) == f = [j \in 0..Len(Order) |-> IF j = 0 THEN tables ELSE Step(f[j - 1], j)]
           g == [j \in 0..5 |-> IF j = 0 THEN tables ELSE IF j = 1 THEN t1 ELSE IF j = 2 THEN t2
                                ELSE IF j = 3 THEN t3 ELSE IF j = 4 THEN t4 ELSE t5]
           run == CHOOSE f : Runs(f)
<1>1. Projected(tables, e) = run[Len(Order)]
  BY DEF Projected
<1>2. \E f : Runs(f)
  <2> HIDE DEF Step
  <2>1. \A j \in 0..5 : g[j] = IF j = 0 THEN tables ELSE Step(g[j - 1], j)
    <3> TAKE j \in 0..5
    <3>1. j \in {0, 1, 2, 3, 4, 5}
      OBVIOUS
    <3>2. CASE j = 0
      BY <3>2
    <3>3. CASE j = 1
      BY <3>3
    <3>4. CASE j = 2
      BY <3>4
    <3>5. CASE j = 3
      BY <3>5
    <3>6. CASE j = 4
      BY <3>6
    <3>7. CASE j = 5
      BY <3>7
    <3> QED
      BY <3>1, <3>2, <3>3, <3>4, <3>5, <3>6, <3>7
  <2>2. g = [j \in 0..5 |-> g[j]]
    OBVIOUS
  <2> HIDE DEF g
  <2>3. Runs(g)
    BY <2>1, <2>2, Names
  <2> QED
    BY <2>3
<1> HIDE DEF Step
<1>3. Runs(run)
  BY <1>2
<1> HIDE DEF run
<1>4. run[5] = t5
  <2>1. \A j \in 0..5 : run[j] = IF j = 0 THEN tables ELSE Step(run[j - 1], j)
    BY <1>3, Names
  <2>2. run[0] = tables
    BY <2>1
  <2>3. run[1] = t1
    BY <2>1, <2>2
  <2>4. run[2] = t2
    BY <2>1, <2>3
  <2>5. run[3] = t3
    BY <2>1, <2>4
  <2>6. run[4] = t4
    BY <2>1, <2>5
  <2> QED
    BY <2>1, <2>6
<1> DEFINE A(p) == Apply(p, tables, e)
<1> HIDE DEF A
<1>5. t1 = [p \in Projectors |-> IF p = "messages" THEN A(p) ELSE tables[p]]
  BY Names DEF Step, IsTables, A
<1>6. t2 = [p \in Projectors |-> IF p \in {"messages", "activities"} THEN A(p) ELSE tables[p]]
  <2> HIDE DEF t1
  <2>1. t1["activities"] = tables["activities"] /\ t1["turns"] = tables["turns"]
    BY <1>5, Names
  <2>2. Apply("activities", t1, e) = A("activities")
    BY <2>1, ApplyReads, Names DEF A
  <2> QED
    BY <1>5, <2>2, Names DEF Step
<1>7. t3 = [p \in Projectors |->
              IF p \in {"messages", "activities", "turns"} THEN A(p) ELSE tables[p]]
  <2> HIDE DEF t2
  <2>1. t2["turns"] = tables["turns"]
    BY <1>6, Names
  <2>2. Apply("turns", t2, e) = A("turns")
    BY <2>1, ApplyReads, Names DEF A
  <2> QED
    BY <1>6, <2>2, Names DEF Step
<1>8. t4 = [p \in Projectors |-> IF p # "threads" THEN A(p) ELSE tables[p]]
  <2> HIDE DEF t3
  <2>1. t3["approvals"] = tables["approvals"]
    BY <1>7, Names
  <2>2. Apply("approvals", t3, e) = A("approvals")
    BY <2>1, ApplyReads, Names DEF A, ReadsTurns
  <2> QED
    BY <1>7, <2>2, Names DEF Step
<1>9. t5 = [p \in Projectors |-> A(p)]
  <2> HIDE DEF t4
  <2>1. t4["threads"] = tables["threads"]
    BY <1>8, Names
  <2>2. Apply("threads", t4, e) = A("threads")
    BY <2>1, ApplyReads, Names DEF A, ReadsTurns
  <2> QED
    BY <1>8, <2>2, Names DEF Step
<1> HIDE DEF t5
<1> QED
  BY <1>1, <1>4, <1>9, Names DEF A

LEMMA EmptyAreTables == IsTables(EmptyTables)
BY DEF IsTables, EmptyTables

-----------------------------------------------------------------------------
(***************************************************************************)
(* The tables after each event of a log.                                   *)
(***************************************************************************)
Follows(h, events) ==
  h = [i \in 0..Len(events) |->
         IF i = 0 THEN EmptyTables ELSE Projected(h[i - 1], events[i])]

Stages(h, events, n) ==
  \A i \in 0..n : h[i] = IF i = 0 THEN EmptyTables ELSE Projected(h[i - 1], events[i])

LEMMA StagesExist ==
  ASSUME NEW events
  PROVE  \A n \in Nat : \E h : Stages(h, events, n)
<1> DEFINE T == {n \in Nat : \E h : Stages(h, events, n)}
<1>1. 0 \in T
  <2>1. Stages([i \in 0..0 |-> EmptyTables], events, 0)
    BY DEF Stages
  <2> QED
    BY <2>1
<1>2. ASSUME NEW n \in T PROVE n + 1 \in T
  <2>1. PICK f : Stages(f, events, n)
    OBVIOUS
  <2> DEFINE g == [i \in 0..(n + 1) |->
                     IF i = n + 1 THEN Projected(f[n], events[n + 1]) ELSE f[i]]
  <2>2. Stages(g, events, n + 1)
    <3>1. SUFFICES ASSUME NEW i \in 0..(n + 1)
                   PROVE  g[i] = IF i = 0 THEN EmptyTables ELSE Projected(g[i - 1], events[i])
      BY DEF Stages
    <3>2. CASE i = n + 1
      <4>1. g[i] = Projected(f[n], events[n + 1]) /\ i # 0 /\ i - 1 = n /\ g[n] = f[n]
        BY <3>2
      <4> QED
        BY <3>2, <4>1
    <3>3. CASE i # n + 1
      <4>1. i \in 0..n /\ g[i] = f[i] /\ (i # 0 => g[i - 1] = f[i - 1])
        BY <3>3
      <4> QED
        BY <2>1, <4>1 DEF Stages
    <3> QED
      BY <3>2, <3>3
  <2> QED
    BY <2>2
<1> HIDE DEF T
<1>3. T \subseteq Nat
  BY DEF T
<1>4. \A n \in Nat : n \in T
  BY <1>1, <1>2, <1>3, Induction
<1> QED
  BY <1>4 DEF T

LEMMA HistoryStages ==
  ASSUME NEW events, Len(events) \in Nat
  PROVE  Stages(HistoryOf(events), events, Len(events))
<1> DEFINE n == Len(events)
           after == CHOOSE h : Follows(h, events)
<1>1. HistoryOf(events) = [i \in 0..n |-> after[i]]
  BY DEF HistoryOf, Follows
<1>2. PICK h : Stages(h, events, n)
  BY StagesExist
<1> DEFINE f == [i \in 0..n |-> h[i]]
<1>3. Follows(f, events)
  <2>1. \A i \in 0..n : i # 0 => i - 1 \in 0..n
    OBVIOUS
  <2>2. \A i \in 0..n : f[i] = IF i = 0 THEN EmptyTables ELSE Projected(f[i - 1], events[i])
    BY <1>2, <2>1 DEF Stages
  <2> QED
    BY <2>2 DEF Follows
<1>4. Follows(after, events)
  BY <1>3
<1> HIDE DEF after
<1>5. \A i \in 0..n : i # 0 => i - 1 \in 0..n
  OBVIOUS
<1> QED
  BY <1>1, <1>4, <1>5 DEF Follows, Stages

LEMMA HistoryTables ==
  ASSUME NEW events, Len(events) \in Nat
  PROVE  \A i \in 0..Len(events) : IsTables(HistoryOf(events)[i])
<1> DEFINE H == HistoryOf(events)
           T == {n \in Nat : n <= Len(events) => IsTables(H[n])}
<1>1. Stages(H, events, Len(events))
  BY HistoryStages
<1> HIDE DEF H
<1>2. 0 \in T
  BY <1>1, EmptyAreTables DEF Stages
<1>3. ASSUME NEW n \in T PROVE n + 1 \in T
  <2>1. SUFFICES ASSUME n + 1 <= Len(events) PROVE IsTables(H[n + 1])
    OBVIOUS
  <2>2. IsTables(H[n])
    BY <2>1
  <2>3. n + 1 \in 0..Len(events) /\ n + 1 # 0 /\ (n + 1) - 1 = n
    BY <2>1
  <2>4. H[n + 1] = Projected(H[n], events[n + 1])
    BY <1>1, <2>3 DEF Stages
  <2>5. Projected(H[n], events[n + 1]) = [p \in Projectors |-> Apply(p, H[n], events[n + 1])]
    BY <2>2, ProjectedTables
  <2> QED
    BY <2>4, <2>5 DEF IsTables
<1> HIDE DEF T
<1>4. T \subseteq Nat
  BY DEF T
<1>5. \A n \in Nat : n \in T
  BY <1>2, <1>3, <1>4, Induction
<1> QED
  BY <1>5 DEF T, H

(***************************************************************************)
(* An event that is appended changes nothing of the history before it.     *)
(***************************************************************************)
LEMMA HistoryAppend ==
  ASSUME NEW events, IsSeq(events), NEW e
  PROVE  \A i \in 0..Len(events) : HistoryOf(Append(events, e))[i] = HistoryOf(events)[i]
<1> DEFINE longer == Append(events, e)
           f == HistoryOf(events)
           g == HistoryOf(longer)
           n == Len(events)
           T == {k \in Nat : k <= n => g[k] = f[k]}
<1>1. n \in Nat /\ Len(longer) = n + 1 /\ \A i \in 1..n : longer[i] = events[i]
  BY AppendSeq
<1> HIDE DEF longer
<1>2. Stages(f, events, n) /\ Stages(g, longer, n + 1)
  <2>1. Stages(f, events, n)
    BY <1>1, HistoryStages
  <2>2. Stages(g, longer, Len(longer))
    BY <1>1, HistoryStages
  <2> QED
    BY <1>1, <2>1, <2>2
<1> HIDE DEF f, g, n
<1>3. 0 \in T
  BY <1>1, <1>2 DEF Stages
<1>4. ASSUME NEW k \in T PROVE k + 1 \in T
  <2>1. SUFFICES ASSUME k + 1 <= n PROVE g[k + 1] = f[k + 1]
    OBVIOUS
  <2>2. k + 1 \in 0..n /\ k + 1 \in 0..(n + 1) /\ k + 1 # 0 /\ (k + 1) - 1 = k /\ k + 1 \in 1..n
    BY <1>1, <2>1
  <2>3. g[k] = f[k] /\ longer[k + 1] = events[k + 1]
    BY <1>1, <2>1, <2>2
  <2>4. f[k + 1] = Projected(f[k], events[k + 1])
    BY <1>2, <2>2 DEF Stages
  <2>5. g[k + 1] = Projected(g[k], longer[k + 1])
    BY <1>2, <2>2 DEF Stages
  <2> QED
    BY <2>3, <2>4, <2>5
<1> HIDE DEF T
<1>5. T \subseteq Nat
  BY DEF T
<1>6. \A k \in Nat : k \in T
  BY <1>3, <1>4, <1>5, Induction
<1> QED
  BY <1>1, <1>6 DEF T, f, g, longer, n
-----------------------------------------------------------------------------
(***************************************************************************)
(* Tables r with cursors c follow the events of a log: each table is the   *)
(* one of the history at its cursor, unless it was rebuilt, depends on the *)
(* rows of turns and has to replay a revert.                               *)
(***************************************************************************)
Owed(p, events) == p \in rebuilt \cap ReadsTurns => ~HasRevert(events)

FollowsLog(events, c, r) ==
  \A p \in Projectors : Owed(p, events) => r[p] = HistoryOf(events)[c[p]][p]

(* What an undo may go back to, and what is there now.                     *)
Stored(events, c, r) ==
  /\ IsSeq(events) /\ IsTables(r) /\ c \in [Projectors -> 0..Len(events)]
  /\ \A p \in Projectors \ rebuilt : c[p] = Len(events)
  /\ skipped = {} => FollowsLog(events, c, r)

AtEnd(events, c) == skipped = {} => \A p \in Projectors : c[p] = Len(events)

(* A live server's tables are at the end of the log, and so are those it   *)
(* would roll back to; a booting one's are for the projectors it is done   *)
(* with.                                                                   *)
PipelineInvariant ==
  /\ Stored(log, cursor, rows)
  /\ InTxn => /\ phase = "live"
              /\ Stored(txn.log, txn.cursor, txn.rows) /\ AtEnd(txn.log, txn.cursor)
  /\ phase = "live" => AtEnd(log, cursor)
  /\ phase = "booting" =>
       /\ boot.projector \in Nat \ {0}
       /\ skipped = {} => \A j \in 1..5 : j < boot.projector => cursor[Order[j]] = Last

(***************************************************************************)
(* Steps that change no table, and a table that starts over.               *)
(***************************************************************************)
LEMMA SeqLength ==
  ASSUME NEW s, IsSeq(s)
  PROVE  Len(s) \in Nat
BY DEF IsSeq

(***************************************************************************)
(* The engine's append: every projector over one more event.               *)
(***************************************************************************)
LEMMA AppendStored ==
  ASSUME Stored(log, cursor, rows), AtEnd(log, cursor),
         NEW e, AppendAndProject(e), UNCHANGED <<rebuilt, skipped>>
  PROVE  Stored(log, cursor, rows)' /\ AtEnd(log, cursor)'
<1> DEFINE n == Len(log)
           H == HistoryOf(log)
           K == HistoryOf(log')
<1>1. /\ IsSeq(log') /\ n \in Nat /\ Len(log') = n + 1 /\ log'[n + 1] = e
      /\ \A i \in 1..n : log'[i] = log[i]
  BY AppendSeq DEF Stored, AppendAndProject
<1>2. cursor' = [p \in Projectors |-> n + 1]
  BY <1>1 DEF AppendAndProject
<1>3. rows' = [p \in Projectors |-> Apply(p, rows, e)]
  BY ProjectedTables DEF Stored, AppendAndProject
<1>4. \A p \in Projectors : IsTables(H[n]) /\ K[n + 1][p] = Apply(p, H[n], e)
  <2>1. IsTables(H[n])
    BY <1>1, HistoryTables
  <2>2. Stages(K, log', n + 1)
    BY <1>1, HistoryStages
  <2>3. K[n] = H[n]
    BY <1>1, HistoryAppend DEF Stored, AppendAndProject
  <2> HIDE DEF K, H
  <2>4. n + 1 \in 0..(n + 1) /\ n + 1 # 0 /\ (n + 1) - 1 = n
    BY <1>1
  <2>5. K[n + 1] = Projected(H[n], e)
    BY <1>1, <2>2, <2>3, <2>4 DEF Stages
  <2> QED
    BY <2>1, <2>5, ProjectedTables
<1>5. ASSUME skipped' = {}
      PROVE  FollowsLog(log, cursor, rows)'
  <2> SUFFICES ASSUME NEW p \in Projectors, Owed(p, log)'
               PROVE  rows'[p] = K[cursor'[p]][p]
    BY DEF FollowsLog
  <2>1. /\ \A q \in Projectors : Owed(q, log) => rows[q] = H[n][q]
    BY <1>5 DEF Stored, AtEnd, FollowsLog
  <2>2. Owed(p, log)
    BY <1>1 DEF Owed, HasRevert
  <2>3. rows[p] = H[n][p]
    BY <2>1, <2>2
  <2>4. rows["turns"] = H[n]["turns"]
    BY <2>1, Names DEF Owed, ReadsTurns
  <2> HIDE DEF K, H
  <2>5. Apply(p, rows, e) = Apply(p, H[n], e)
    BY <2>3, <2>4, ApplyReads
  <2> QED
    BY <1>2, <1>3, <1>4, <2>5
<1> HIDE DEF n
<1>6. IsTables(rows')
  BY <1>3 DEF IsTables
<1>7. cursor' \in [Projectors -> 0..Len(log')] /\ \A p \in Projectors : cursor'[p] = Len(log')
  BY <1>1, <1>2
<1> QED
  BY <1>1, <1>5, <1>6, <1>7 DEF Stored, AtEnd

(***************************************************************************)
(* One event of a catch-up.                                                *)
(***************************************************************************)
LEMMA CatchUpStored ==
  ASSUME Stored(log, cursor, rows), NEW p \in Projectors, cursor[p] < Last,
         RunProjectorForEvent(p, cursor[p] + 1), UNCHANGED <<log, rebuilt, skipped>>
  PROVE  /\ Stored(log, cursor, rows)'
         /\ \A q \in Projectors \ {p} : cursor'[q] = cursor[q]
<1> DEFINE i == cursor[p]
           H == HistoryOf(log)
<1>1. i \in 0..Last /\ Last \in Nat /\ i + 1 \in 1..Last /\ p \in rebuilt
  BY SeqLength DEF Stored, Last
<1>2. /\ cursor' = [cursor EXCEPT ![p] = i + 1]
      /\ rows' = [rows EXCEPT ![p] = Apply(p, rows, log[i + 1])]
  BY DEF RunProjectorForEvent
<1> HIDE DEF i
<1>3. H[i + 1][p] = Apply(p, H[i], log[i + 1])
  <2>1. Stages(H, log, Last) /\ IsTables(H[i])
    BY <1>1, HistoryStages, HistoryTables DEF Last
  <2> HIDE DEF H
  <2>2. i + 1 \in 0..Last /\ i + 1 # 0 /\ (i + 1) - 1 = i
    BY <1>1
  <2>3. H[i + 1] = Projected(H[i], log[i + 1])
    BY <2>1, <2>2 DEF Stages
  <2> QED
    BY <2>1, <2>3, ProjectedTables
<1>4. cursor' \in [Projectors -> 0..Last] /\ \A q \in Projectors \ {p} : cursor'[q] = cursor[q]
  BY <1>1, <1>2 DEF Stored, Last
<1>5. IsTables(rows') /\ \A q \in Projectors : rows'[q] = IF q = p THEN Apply(p, rows, log[i + 1]) ELSE rows[q]
  BY <1>2 DEF Stored, IsTables
<1>6. ASSUME skipped' = {}
      PROVE  FollowsLog(log, cursor, rows)'
  <2> SUFFICES ASSUME NEW q \in Projectors, Owed(q, log)
               PROVE  rows'[q] = H[cursor'[q]][q]
    BY DEF FollowsLog, Owed, HasRevert
  <2>1. rows[q] = H[cursor[q]][q]
    BY <1>6 DEF Stored, FollowsLog
  <2>2. CASE q # p
    BY <1>4, <1>5, <2>1, <2>2
  <2>3. CASE q = p
    <3>1. p \in ReadsTurns => log[i + 1].type # "reverted"
      BY <1>1, <2>3 DEF Owed, HasRevert, Last
    <3>2. rows[p] = H[i][p]
      BY <2>1, <2>3 DEF i
    <3>3. cursor'[p] = i + 1
      BY <1>2 DEF Stored
    <3> HIDE DEF H
    <3>4. Apply(p, rows, log[i + 1]) = Apply(p, H[i], log[i + 1])
      BY <3>1, <3>2, ApplyReads
    <3> QED
      BY <1>3, <1>5, <2>3, <3>3, <3>4
  <2> QED
    BY <2>2, <2>3
<1>7. \A q \in Projectors \ rebuilt' : cursor'[q] = Len(log')
  BY <1>1, <1>4 DEF Stored
<1> QED
  BY <1>4, <1>5, <1>6, <1>7 DEF Stored, Last

LEMMA RebuildStored ==
  ASSUME Stored(log, cursor, rows), NEW p \in Projectors, Rebuild(p)
  PROVE  Stored(log, cursor, rows)'
<1> DEFINE H == HistoryOf(log)
<1>1. /\ cursor' = [cursor EXCEPT ![p] = 0] /\ rows' = [rows EXCEPT ![p] = EmptyTable(p)]
      /\ rebuilt' = rebuilt \cup {p} /\ log' = log /\ skipped' = skipped
  BY DEF Rebuild
<1>2. Len(log) \in Nat /\ 0 \in 0..Len(log)
  BY SeqLength DEF Stored
<1>3. H[0][p] = EmptyTable(p)
  <2>1. Stages(H, log, Len(log))
    BY <1>2, HistoryStages
  <2> HIDE DEF H
  <2>2. H[0] = EmptyTables
    BY <1>2, <2>1 DEF Stages
  <2> QED
    BY <2>2 DEF EmptyTables
<1>4. cursor' \in [Projectors -> 0..Len(log)] /\ IsTables(rows')
  BY <1>1, <1>2 DEF Stored, IsTables
<1>5. ASSUME skipped = {}
      PROVE  FollowsLog(log, cursor, rows)'
  <2> SUFFICES ASSUME NEW q \in Projectors, Owed(q, log)'
               PROVE  rows'[q] = H[cursor'[q]][q]
    BY <1>1 DEF FollowsLog
  <2>1. CASE q = p
    BY <1>1, <1>3, <2>1 DEF Stored, IsTables
  <2>2. CASE q # p
    <3>1. Owed(q, log)
      BY <1>1, <2>2 DEF Owed, HasRevert
    <3>2. rows[q] = H[cursor[q]][q]
      BY <1>5, <3>1 DEF Stored, FollowsLog
    <3> QED
      BY <1>1, <2>2, <3>2 DEF Stored, IsTables
  <2> QED
    BY <2>1, <2>2
<1>6. \A q \in Projectors \ rebuilt' : cursor'[q] = Len(log')
  BY <1>1 DEF Stored
<1> QED
  BY <1>1, <1>4, <1>5, <1>6 DEF Stored

(***************************************************************************)
(* What is stored stays, unless a step changes it.                         *)
(***************************************************************************)
LEMMA Unchanged ==
  ASSUME UNCHANGED rebuilt, skipped' = {} => skipped = {}
  PROVE  /\ Stored(log, cursor, rows) /\ UNCHANGED <<log, cursor, rows>> => Stored(log, cursor, rows)'
         /\ Stored(txn.log, txn.cursor, txn.rows) /\ UNCHANGED txn
              => Stored(txn.log, txn.cursor, txn.rows)'
         /\ AtEnd(log, cursor) /\ UNCHANGED <<log, cursor>> => AtEnd(log, cursor)'
         /\ AtEnd(txn.log, txn.cursor) /\ UNCHANGED txn => AtEnd(txn.log, txn.cursor)'
BY DEF Stored, FollowsLog, Owed, AtEnd

(***************************************************************************)
(* The steps that begin a command, and those that come before one.         *)
(***************************************************************************)
Commands == StartTurn \/ ReportTurn \/ DeleteThread \/ \E w \in Workers : Dispatch(w)

Decisions == CaptureCompletion \/ CapturePlaceholder \/ RestoreCheckpoint \/ PlaceCheckpoint

LEMMA SomethingBegins ==
  ASSUME Commands
  PROVE  \E events : Begin(events)
BY DEF Commands, StartTurn, ReportTurn, Report, DeleteThread, Dispatch

LEMMA NothingBegins ==
  /\ UploadImage => /\ Idle
                    /\ UNCHANGED <<log, cursor, rows, model, decided, txn, boot, phase, rebuilt,
                                  skipped, failures>>
  /\ Decisions => /\ Idle
                  /\ UNCHANGED <<log, cursor, rows, model, files, uploaded, txn, boot, phase,
                                rebuilt, skipped, lost, failures>>
BY DEF UploadImage, Decisions, CaptureCompletion, CapturePlaceholder, RestoreCheckpoint,
       PlaceCheckpoint, Decide

(***************************************************************************)
(* A command begins: what it may be rolled back to is what was stored.     *)
(***************************************************************************)
LEMMA BeginStored ==
  ASSUME PipelineInvariant, NEW events, Begin(events)
  PROVE  PipelineInvariant'
<1>1. Stored(log, cursor, rows) /\ AtEnd(log, cursor) /\ phase = "live"
  BY DEF PipelineInvariant, Begin, Idle
<1>2. UNCHANGED <<rebuilt, skipped, phase>>
  BY DEF Begin
<1>3. Stored(log, cursor, rows)' /\ AtEnd(log, cursor)'
  BY <1>1, <1>2, AppendStored DEF Begin
<1>4. txn'.log = log /\ txn'.cursor = cursor /\ txn'.rows = rows
  BY DEF Begin
<1>5. Stored(txn.log, txn.cursor, txn.rows)' /\ AtEnd(txn.log, txn.cursor)'
  BY <1>1, <1>2, <1>4 DEF Stored, FollowsLog, Owed, AtEnd
<1> QED
  BY <1>1, <1>2, <1>3, <1>5 DEF PipelineInvariant

LEMMA UndoStored ==
  ASSUME PipelineInvariant, Undo
  PROVE  Stored(log, cursor, rows)' /\ ~InTxn' /\ (phase = "live" => AtEnd(log, cursor)')
<1>1. UNCHANGED <<rebuilt, skipped>> /\ ~InTxn'
  BY DEF Undo, NoTxn, InTxn
<1>2. CASE InTxn
  <2>1. log' = txn.log /\ cursor' = txn.cursor /\ rows' = txn.rows
    BY <1>2 DEF Undo
  <2>2. Stored(txn.log, txn.cursor, txn.rows) /\ AtEnd(txn.log, txn.cursor)
    BY <1>2 DEF PipelineInvariant
  <2> QED
    BY <1>1, <2>1, <2>2 DEF Stored, FollowsLog, Owed, AtEnd
<1>3. CASE ~InTxn
  <2>1. UNCHANGED <<log, cursor, rows>>
    BY <1>3 DEF Undo
  <2> QED
    BY <1>1, <2>1, Unchanged DEF PipelineInvariant
<1> QED
  BY <1>2, <1>3

\* Whatever crashes and failing statements, catch-ups and rebuilt tables came before, the
\* tables of a thread are what the events up to their cursors make of them.
THEOREM PipelineInvariantHolds == Spec => []PipelineInvariant
<1>1. Init => PipelineInvariant
  <2> SUFFICES ASSUME Init PROVE PipelineInvariant
    OBVIOUS
  <2>1. IsSeq(log) /\ Len(log) = 0 /\ ~InTxn /\ phase = "down"
    BY DEF Init, IsSeq, NoTxn, InTxn
  <2>2. IsTables(rows) /\ cursor = [p \in Projectors |-> 0] /\ rows = EmptyTables
    BY EmptyAreTables DEF Init
  <2>3. HistoryOf(log)[0] = EmptyTables
    BY <2>1, HistoryStages DEF Stages
  <2>4. FollowsLog(log, cursor, rows)
    BY <2>2, <2>3 DEF FollowsLog
  <2>5. Stored(log, cursor, rows)
    BY <2>1, <2>2, <2>4 DEF Stored
  <2> QED
    BY <2>1, <2>5 DEF PipelineInvariant
<1>2. PipelineInvariant /\ [Next]_vars => PipelineInvariant'
  <2> SUFFICES ASSUME PipelineInvariant, [Next]_vars
               PROVE  PipelineInvariant'
    OBVIOUS
  <2>1. CASE Commands
    BY <2>1, BeginStored, SomethingBegins
  <2>2. CASE UploadImage \/ Decisions
    <3>1. UNCHANGED <<log, cursor, rows, txn, phase, boot, rebuilt, skipped>>
      BY <2>2, NothingBegins
    <3> QED
      BY <3>1, Unchanged DEF PipelineInvariant, InTxn, Last
  <2>7. CASE AppendNext
    <3>1. /\ Stored(log, cursor, rows) /\ AtEnd(log, cursor) /\ phase = "live"
          /\ Stored(txn.log, txn.cursor, txn.rows) /\ AtEnd(txn.log, txn.cursor)
      BY <2>7 DEF AppendNext, PipelineInvariant
    <3>2. UNCHANGED <<rebuilt, skipped, phase>>
      BY <2>7 DEF AppendNext
    <3>3. Stored(log, cursor, rows)' /\ AtEnd(log, cursor)'
      BY <2>7, <3>1, <3>2, AppendStored DEF AppendNext
    <3>4. txn'.log = txn.log /\ txn'.cursor = txn.cursor /\ txn'.rows = txn.rows
      BY <2>7 DEF AppendNext
    <3>5. Stored(txn.log, txn.cursor, txn.rows)' /\ AtEnd(txn.log, txn.cursor)'
      BY <3>1, <3>2, <3>4 DEF Stored, FollowsLog, Owed, AtEnd
    <3> QED
      BY <3>1, <3>2, <3>3, <3>5 DEF PipelineInvariant
  <2>8. CASE Commit
    <3>1. ~InTxn' /\ UNCHANGED <<log, cursor, rows, phase, rebuilt, skipped, boot>>
      BY <2>8 DEF Commit, NoTxn, InTxn
    <3>2. phase = "live"
      BY <2>8 DEF Commit, PipelineInvariant
    <3> QED
      BY <3>1, <3>2, Unchanged DEF PipelineInvariant
  <2>9. CASE Rollback
    <3>1. UNCHANGED <<phase, boot>> /\ phase = "live" /\ Undo
      BY <2>9 DEF Rollback, PipelineInvariant
    <3> QED
      BY <3>1, UndoStored DEF PipelineInvariant
  <2>10. CASE Crash
    <3>1. phase' = "down" /\ Undo
      BY <2>10 DEF Crash
    <3> QED
      BY <3>1, UndoStored DEF PipelineInvariant
  <2>11. CASE Bootstrap
    <3>1. /\ UNCHANGED <<log, cursor, rows, txn, rebuilt, skipped>>
          /\ phase = "down" /\ phase' = "booting" /\ boot'.projector = 1
      BY <2>11 DEF Bootstrap
    <3>2. ~InTxn'
      BY <3>1 DEF PipelineInvariant, InTxn
    <3>3. Stored(log, cursor, rows)'
      BY <3>1, Unchanged DEF PipelineInvariant
    <3> QED
      BY <3>1, <3>2, <3>3 DEF PipelineInvariant
  <2>12. CASE CatchUp
    <3> DEFINE p == Order[boot.projector]
    <3>1. phase = "booting" /\ boot.projector \in 1..5
      BY <2>12, Names DEF CatchUp, PipelineInvariant
    <3>2. p \in Projectors
      BY <3>1, Names DEF Projectors
    <3>3. /\ cursor[p] < Last /\ RunProjectorForEvent(p, cursor[p] + 1)
          /\ UNCHANGED <<log, txn, phase, rebuilt, skipped>> /\ boot'.projector = boot.projector
      <4>1. cursor[p] < Last /\ RunProjectorForEvent(p, cursor[p] + 1)
        BY <2>12 DEF CatchUp
      <4> HIDE DEF p
      <4>2. boot' = [boot EXCEPT !.left = @ - 1] /\ UNCHANGED <<log, txn, phase, rebuilt, skipped>>
        BY <2>12 DEF CatchUp
      <4>3. [boot EXCEPT !.left = @ - 1].projector = boot.projector
        OBVIOUS
      <4> QED
        BY <4>1, <4>2, <4>3
    <3> HIDE DEF p
    <3>4. Stored(log, cursor, rows)' /\ \A q \in Projectors \ {p} : cursor'[q] = cursor[q]
      BY <3>2, <3>3, CatchUpStored DEF PipelineInvariant
    <3>5. ~InTxn'
      BY <3>1, <3>3 DEF PipelineInvariant, InTxn
    <3>6. ASSUME skipped' = {}, NEW j \in 1..5, j < boot'.projector
          PROVE  cursor'[Order[j]] = Last'
      <4>1. cursor[Order[j]] = Last
        BY <3>1, <3>3, <3>6 DEF PipelineInvariant
      <4>2. Order[j] \in Projectors /\ Order[j] # p
        BY <3>3, <4>1, Names, SeqLength DEF Projectors, PipelineInvariant, Stored, Last
      <4> QED
        BY <3>3, <3>4, <4>1, <4>2 DEF Last
    <3> QED
      BY <3>1, <3>3, <3>4, <3>5, <3>6 DEF PipelineInvariant
  <2>13. CASE CaughtUp
    <3> DEFINE p == Order[boot.projector]
    <3>1. phase = "booting" /\ boot.projector \in 1..5
      BY <2>13, Names DEF CaughtUp, PipelineInvariant
    <3>2. p \in Projectors
      BY <3>1, Names DEF Projectors
    <3>3. /\ boot.left = 0 \/ cursor[p] = Last
          /\ skipped' = IF cursor[p] < Last THEN skipped \cup {p} ELSE skipped
          /\ boot'.projector = boot.projector + 1
          /\ UNCHANGED <<log, cursor, rows, txn, phase, rebuilt>>
      BY <2>13 DEF CaughtUp
    <3>4. cursor[p] \in 0..Last /\ Last \in Nat
      BY <3>2, SeqLength DEF PipelineInvariant, Stored, Last
    <3>5. skipped' = {} => skipped = {} /\ cursor[p] = Last
      BY <3>3, <3>4
    <3>6. Stored(log, cursor, rows)'
      BY <3>3, <3>5, Unchanged DEF PipelineInvariant
    <3>7. ~InTxn'
      BY <3>1, <3>3 DEF PipelineInvariant, InTxn
    <3>8. ASSUME skipped' = {}, NEW j \in 1..5, j < boot'.projector
          PROVE  cursor'[Order[j]] = Last'
      <4>1. j < boot.projector \/ j = boot.projector
        BY <3>1, <3>3, <3>8
      <4> QED
        BY <3>1, <3>3, <3>5, <3>8, <4>1 DEF PipelineInvariant, Last
    <3> HIDE DEF p
    <3> QED
      BY <3>1, <3>3, <3>6, <3>7, <3>8 DEF PipelineInvariant
  <2>14. CASE GoLive
    <3>1. /\ phase = "booting" /\ boot.projector > 5 /\ phase' = "live"
          /\ UNCHANGED <<log, cursor, rows, txn, rebuilt, skipped>>
      BY <2>14, Names DEF GoLive
    <3>2. skipped = {} => \A j \in 1..5 : cursor[Order[j]] = Last
      BY <3>1 DEF PipelineInvariant
    <3>3. AtEnd(log, cursor)
      BY <3>2, Names DEF AtEnd, Last, Projectors
    <3>4. ~InTxn'
      BY <3>1 DEF PipelineInvariant, InTxn
    <3> QED
      BY <3>1, <3>3, <3>4, Unchanged DEF PipelineInvariant
  <2>15. ASSUME NEW p \in Rebuildable, Rebuild(p)
         PROVE  PipelineInvariant'
    <3>1. p \in Projectors
      BY BoundsAreCounts
    <3>2. phase' = "down" /\ UNCHANGED txn /\ phase = "down"
      BY <2>15 DEF Rebuild
    <3>3. ~InTxn'
      BY <3>2 DEF PipelineInvariant, InTxn
    <3> QED
      BY <2>15, <3>1, <3>2, <3>3, RebuildStored DEF PipelineInvariant
  <2>16. CASE UNCHANGED vars
    <3>1. UNCHANGED <<log, cursor, rows, txn, phase, boot, rebuilt, skipped>>
      BY <2>16 DEF vars
    <3> QED
      BY <3>1, Unchanged DEF PipelineInvariant, InTxn, Last
  <2> QED
    BY <2>1, <2>2, <2>7, <2>8, <2>9, <2>10, <2>11, <2>12, <2>13, <2>14, <2>15,
       <2>16 DEF Next, Commands, Decisions
<1> QED
  BY <1>1, <1>2, PTL DEF Spec

-----------------------------------------------------------------------------
(***************************************************************************)
(* Types: the events a command may append, and the tables they make.       *)
(***************************************************************************)
TurnEvents == {e \in Event : e.type \notin {"reverted", "deleted"} => e.n \in Turns}

Rows == [state : {"none", "running", "completed", "interrupted", "error"},
         pending : 0..MaxTurns, answered : BOOLEAN, count : 0..MaxTurns]

UserMessages == {MessageOf("user", n, 0, 1) : n \in Turns}
AssistantMessages == {MessageOf("assistant", n, n, k) : n \in Turns, k \in Nat}
Messages == UserMessages \cup AssistantMessages

TurnsTable == [row : [Turns -> Rows], pendingStart : 0..MaxTurns]

Table(p) ==
    CASE p = "messages"   -> SUBSET Messages
      [] p = "activities" -> SUBSET [turn : Turns, kind : Reports]
      [] p = "turns"      -> TurnsTable
      [] p = "approvals"  -> [Turns -> {"none", "pending", "resolved"}]
      [] p = "threads"    -> [latestTurn : 0..MaxTurns, deleted : BOOLEAN]

Typed(tables) == IsTables(tables) /\ \A p \in Projectors : tables[p] \in Table(p)

LEMMA TypedTables ==
  ASSUME NEW tables, Typed(tables)
  PROVE  /\ tables["messages"] \subseteq Messages
         /\ tables["activities"] \subseteq [turn : Turns, kind : Reports]
         /\ tables["turns"] \in TurnsTable
         /\ tables["approvals"] \in [Turns -> {"none", "pending", "resolved"}]
         /\ tables["threads"] \in [latestTurn : 0..MaxTurns, deleted : BOOLEAN]
<1>1. \A p \in {"messages", "activities", "turns", "approvals", "threads"} : tables[p] \in Table(p)
  BY Names DEF Typed
<1> QED
  BY <1>1 DEF Table

LEMMA MessageFields ==
  /\ \A m \in UserMessages : /\ m.role = "user" /\ m.n \in Turns /\ m.turn = 0 /\ m.text = 1
                             /\ m = MessageOf("user", m.n, 0, 1)
  /\ \A m \in AssistantMessages : /\ m.role = "assistant" /\ m.n \in Turns /\ m.turn = m.n
                                  /\ m.text \in Nat
BY DEF UserMessages, AssistantMessages, MessageOf

LEMMA SentTyped ==
  ASSUME NEW messages, messages \subseteq Messages, NEW e \in TurnEvents,
         e.type \in {"user-message", "assistant-message"}
  PROVE  MessageSent(messages, e) \subseteq Messages
<1>1. e.n \in Turns /\ e.streaming \in BOOLEAN
  BY DEF TurnEvents, Event
<1>2. CASE e.type = "user-message"
  BY <1>1, <1>2 DEF MessageSent, Messages, UserMessages
<1>3. CASE e.type = "assistant-message"
  <2> DEFINE old == {m \in messages : m.role = "assistant" /\ m.n = e.n}
             text == IF e.streaming THEN 1 ELSE 0
             all == IF old = {} THEN text ELSE text + (CHOOSE m \in old : TRUE).text
  <2>1. text \in Nat
    OBVIOUS
  <2>2. \A m \in old : m.text \in Nat
    BY MessageFields DEF Messages
  <2>3. old # {} => (CHOOSE m \in old : TRUE) \in old
    OBVIOUS
  <2>4. all \in Nat
    <3> HIDE DEF old, text
    <3> QED
      BY <2>1, <2>2, <2>3
  <2>5. MessageSent(messages, e) = (messages \ old) \cup {MessageOf("assistant", e.n, e.n, all)}
    BY <1>3 DEF MessageSent
  <2> HIDE DEF all
  <2> QED
    BY <1>1, <2>4, <2>5 DEF Messages, AssistantMessages
<1> QED
  BY <1>2, <1>3

LEMMA RetainedAreMessages ==
  ASSUME NEW messages, NEW named, named \subseteq messages, NEW turns, NEW count
  PROVE  RetainMessages(messages, named, turns, count) \subseteq messages
BY DEF RetainMessages, Fallback, Oldest, OfRole

LEMMA MessagesTyped ==
  ASSUME NEW tables, Typed(tables), NEW e \in TurnEvents
  PROVE  ApplyThreadMessages(tables, e) \subseteq Messages
<1>1. tables["messages"] \subseteq Messages
  BY TypedTables
<1>2. CASE e.type \in {"user-message", "assistant-message"}
  BY <1>1, <1>2, SentTyped DEF ApplyThreadMessages
<1>3. CASE e.type = "reverted"
  <2> DEFINE messages == tables["messages"]
             turns == tables["turns"].row
             kept == KeptTurns(turns, e.count)
             named == {m \in messages :
                        \E t \in kept : \/ m.role = "user" /\ m.n = turns[t].pending
                                        \/ m.role = "assistant" /\ m.n = t /\ turns[t].answered}
  <2>1. ApplyThreadMessages(tables, e) = RetainMessages(messages, named, kept, e.count)
    BY <1>3 DEF ApplyThreadMessages
  <2>2. named \subseteq messages
    OBVIOUS
  <2> HIDE DEF named, kept, messages
  <2>3. RetainMessages(messages, named, kept, e.count) \subseteq messages
    BY <2>2, RetainedAreMessages
  <2> QED
    BY <1>1, <2>1, <2>3 DEF messages
<1> QED
  BY <1>1, <1>2, <1>3 DEF ApplyThreadMessages

LEMMA ActivitiesTyped ==
  ASSUME NEW activities, activities \subseteq [turn : Turns, kind : Reports],
         NEW e \in TurnEvents, NEW turns
  PROVE  ActivityAfter(activities, e, turns) \subseteq [turn : Turns, kind : Reports]
<1>1. e.type \in {"approval.requested", "approval.resolved"} =>
         [turn |-> e.n, kind |-> e.type] \in [turn : Turns, kind : Reports]
  BY DEF TurnEvents, Reports
<1> QED
  BY <1>1 DEF ActivityAfter, RetainActivities

LEMMA TurnsTyped ==
  ASSUME NEW tables, Typed(tables), NEW e \in TurnEvents
  PROVE  ApplyThreadTurns(tables, e) \in TurnsTable
<1> DEFINE table == tables["turns"]
<1>1. table \in TurnsTable /\ table.row \in [Turns -> Rows] /\ table.pendingStart \in 0..MaxTurns
  BY TypedTables DEF TurnsTable
<1>2. e.type \in EventTypes /\ e.n \in 0..MaxTurns /\ e.count \in 0..MaxTurns /\ e.streaming \in BOOLEAN
      /\ MaxTurns \in Nat /\ (e.type \notin {"reverted", "deleted"} => e.n \in Turns)
  BY BoundsAreCounts DEF TurnEvents, Event
<1> HIDE DEF table
<1>3. \A old \in Rows : TurnAnswered(old, e) \in Rows
  BY <1>2 DEF TurnAnswered, Rows
<1>4. NoRow \in Rows
  BY <1>2 DEF NoRow, Rows
<1>5. CASE e.type = "turn-start-requested"
  BY <1>1, <1>2, <1>5 DEF ApplyThreadTurns, TurnsTable, table
<1>6. CASE e.type = "session-running"
  <2> DEFINE old == table.row[e.n]
             new == [old EXCEPT !.state = IF @ \in {"completed", "error"} THEN @ ELSE "running",
                                !.pending = IF @ = 0 THEN table.pendingStart ELSE @]
  <2>1. old \in Rows
    BY <1>1, <1>2, <1>6
  <2>2. new \in Rows
    BY <1>1, <2>1 DEF Rows
  <2>3. ApplyThreadTurns(tables, e) = [row |-> [table.row EXCEPT ![e.n] = new], pendingStart |-> 0]
    BY <1>6 DEF ApplyThreadTurns, TurnRuns, table
  <2>4. [table.row EXCEPT ![e.n] = new] \in [Turns -> Rows] /\ 0 \in 0..MaxTurns
    <3> HIDE DEF new
    <3> QED
      BY <1>1, <1>2, <1>6, <2>2
  <2> HIDE DEF new
  <2> QED
    BY <2>3, <2>4 DEF TurnsTable
<1>7. CASE e.type = "assistant-message"
  <2>1. ApplyThreadTurns(tables, e) = [table EXCEPT !.row[e.n] = TurnAnswered(@, e)]
    BY <1>7 DEF ApplyThreadTurns, table
  <2>2. TurnAnswered(table.row[e.n], e) \in Rows
    BY <1>1, <1>2, <1>3, <1>7
  <2> QED
    BY <1>1, <1>2, <2>1, <2>2 DEF TurnsTable
<1>8. CASE e.type = "turn-interrupt-requested"
  <2>1. ApplyThreadTurns(tables, e) = [table EXCEPT !.row[e.n].state = "interrupted"]
    BY <1>8 DEF ApplyThreadTurns, table
  <2>2. [table.row[e.n] EXCEPT !.state = "interrupted"] \in Rows
    BY <1>1, <1>2, <1>8 DEF Rows
  <2> QED
    BY <1>1, <1>2, <2>1, <2>2 DEF TurnsTable
<1>9. CASE e.type = "turn-diff-completed"
  <2>1. ApplyThreadTurns(tables, e) = [table EXCEPT !.row = TurnCompleted(@, e)]
    BY <1>9 DEF ApplyThreadTurns, table
  <2> DEFINE outcome == IF e.status = "error" THEN "error" ELSE "completed"
  <2>2. /\ \A old \in Rows : [old EXCEPT !.state = outcome, !.count = e.count, !.answered = TRUE] \in Rows
        /\ \A old \in Rows : [old EXCEPT !.count = 0] \in Rows
    <3>1. 0 \in 0..MaxTurns
      BY <1>2
    <3>2. \A old \in Rows : [old EXCEPT !.count = 0] \in Rows
      BY <3>1 DEF Rows
    <3>3. \A old \in Rows : [old EXCEPT !.state = outcome, !.count = e.count, !.answered = TRUE] \in Rows
      BY <1>2 DEF Rows
    <3> QED
      BY <3>2, <3>3
  <2>3. TurnCompleted(table.row, e) \in [Turns -> Rows]
    BY <1>1, <2>2 DEF TurnCompleted
  <2> QED
    BY <1>1, <2>1, <2>3 DEF TurnsTable
<1>10. CASE e.type = "reverted"
  <2>1. ApplyThreadTurns(tables, e)
          = [row |-> [t \in Turns |-> IF t \in KeptTurns(table.row, e.count) THEN table.row[t] ELSE NoRow],
             pendingStart |-> 0]
    BY <1>10 DEF ApplyThreadTurns, table
  <2> QED
    BY <1>1, <1>2, <1>4, <2>1 DEF TurnsTable
<1>11. CASE e.type \notin {"turn-start-requested", "session-running", "assistant-message",
                           "turn-interrupt-requested", "turn-diff-completed", "reverted"}
  BY <1>1, <1>11 DEF ApplyThreadTurns, table
<1> QED
  BY <1>5, <1>6, <1>7, <1>8, <1>9, <1>10, <1>11

LEMMA ApplyTyped ==
  ASSUME NEW tables, Typed(tables), NEW e \in TurnEvents, NEW p \in Projectors
  PROVE  Apply(p, tables, e) \in Table(p)
<1>1. e.type \in EventTypes /\ e.n \in 0..MaxTurns /\ (e.type \notin {"reverted", "deleted"} => e.n \in Turns)
      /\ MaxTurns \in Nat
  BY BoundsAreCounts DEF TurnEvents, Event
<1>2. CASE p = "messages"
  BY <1>2, MessagesTyped DEF Apply, Table
<1>3. CASE p = "activities"
  BY <1>3, TypedTables, ActivitiesTyped DEF Apply, Table, ApplyThreadActivities
<1>4. CASE p = "turns"
  BY <1>4, TurnsTyped DEF Apply, Table
<1>5. CASE p = "approvals"
  <2>1. tables["approvals"] \in [Turns -> {"none", "pending", "resolved"}]
    BY TypedTables
  <2>2. ApplyPendingApprovals(tables, e) \in [Turns -> {"none", "pending", "resolved"}]
    BY <1>1, <2>1 DEF ApplyPendingApprovals
  <2> QED
    BY <1>5, <2>2 DEF Apply, Table
<1>6. CASE p = "threads"
  <2>1. tables["threads"] \in [latestTurn : 0..MaxTurns, deleted : BOOLEAN]
    BY TypedTables
  <2> DEFINE table == tables["threads"]
  <2>2. /\ [table EXCEPT !.latestTurn = e.n] \in [latestTurn : 0..MaxTurns, deleted : BOOLEAN]
        /\ [table EXCEPT !.latestTurn = 0] \in [latestTurn : 0..MaxTurns, deleted : BOOLEAN]
        /\ [table EXCEPT !.deleted = TRUE] \in [latestTurn : 0..MaxTurns, deleted : BOOLEAN]
    <3>1. 0 \in 0..MaxTurns
      BY <1>1
    <3>2. [table EXCEPT !.latestTurn = e.n] \in [latestTurn : 0..MaxTurns, deleted : BOOLEAN]
      BY <1>1, <2>1
    <3>3. [table EXCEPT !.latestTurn = 0] \in [latestTurn : 0..MaxTurns, deleted : BOOLEAN]
      BY <3>1, <2>1
    <3>4. [table EXCEPT !.deleted = TRUE] \in [latestTurn : 0..MaxTurns, deleted : BOOLEAN]
      BY <2>1
    <3> QED
      BY <3>2, <3>3, <3>4
  <2>3. ApplyThreads(tables, e) \in [latestTurn : 0..MaxTurns, deleted : BOOLEAN]
    BY <2>1, <2>2 DEF ApplyThreads
  <2> QED
    BY <1>6, <2>3 DEF Apply, Table
<1> QED
  BY <1>2, <1>3, <1>4, <1>5, <1>6, Names

LEMMA EmptyTyped ==
  Typed(EmptyTables) /\ \A p \in Projectors : EmptyTable(p) \in Table(p)
<1>1. MaxTurns \in Nat
  BY BoundsAreCounts
<1>2. NoRow \in Rows
  BY <1>1 DEF NoRow, Rows
<1>3. ASSUME NEW p \in Projectors PROVE EmptyTable(p) \in Table(p)
  <2>1. CASE p = "messages"
    BY <2>1 DEF EmptyTable, Table
  <2>2. CASE p = "activities"
    BY <2>2 DEF EmptyTable, Table
  <2>3. CASE p = "turns"
    BY <1>1, <1>2, <2>3 DEF EmptyTable, Table, TurnsTable
  <2>4. CASE p = "approvals"
    BY <2>4 DEF EmptyTable, Table
  <2>5. CASE p = "threads"
    BY <1>1, <2>5 DEF EmptyTable, Table
  <2> QED
    BY <2>1, <2>2, <2>3, <2>4, <2>5, Names
<1> QED
  BY <1>3, EmptyAreTables DEF Typed, EmptyTables

LEMMA ProjectedTyped ==
  ASSUME NEW tables, Typed(tables), NEW e \in TurnEvents
  PROVE  Typed(Projected(tables, e))
<1>1. Projected(tables, e) = [p \in Projectors |-> Apply(p, tables, e)]
  BY ProjectedTables DEF Typed
<1> QED
  BY <1>1, ApplyTyped DEF Typed, IsTables

-----------------------------------------------------------------------------
(***************************************************************************)
(* The read model is the fold of its projector over the log, in one go or  *)
(* command by command.                                                     *)
(***************************************************************************)
FoldEvents(events, m, k, i) ==
    LET f[j \in k..i] == IF j = k THEN m ELSE ProjectEvent(f[j - 1], events[j]) IN f[i]

ModelOf(events) == FoldEvents(events, EmptyModel, 0, Len(events))

ModelStages(h, events, m, k, i) ==
  \A j \in k..i : h[j] = IF j = k THEN m ELSE ProjectEvent(h[j - 1], events[j])

LEMMA ModelStagesExist ==
  ASSUME NEW events, NEW m, NEW k \in Nat
  PROVE  \A i \in Nat : i >= k => \E h : ModelStages(h, events, m, k, i)
<1> DEFINE T == {n \in Nat : n >= k => \E h : ModelStages(h, events, m, k, n)}
<1>0. ASSUME NEW n \in Nat, n = k PROVE \E h : ModelStages(h, events, m, k, n)
  <2>1. ModelStages([j \in k..n |-> m], events, m, k, n)
    BY <1>0 DEF ModelStages
  <2> QED
    BY <2>1
<1>1. 0 \in T
  BY <1>0
<1>2. ASSUME NEW n \in T PROVE n + 1 \in T
  <2>1. CASE n + 1 = k
    BY <1>0, <2>1
  <2>2. CASE n + 1 < k
    BY <2>2
  <2>3. CASE n >= k
    <3>1. PICK f : ModelStages(f, events, m, k, n)
      BY <2>3
    <3> DEFINE g == [j \in k..(n + 1) |->
                       IF j = n + 1 THEN ProjectEvent(f[n], events[n + 1]) ELSE f[j]]
    <3>2. ModelStages(g, events, m, k, n + 1)
      <4>1. SUFFICES ASSUME NEW j \in k..(n + 1)
                     PROVE  g[j] = IF j = k THEN m ELSE ProjectEvent(g[j - 1], events[j])
        BY DEF ModelStages
      <4>2. CASE j = n + 1
        <5>1. g[j] = ProjectEvent(f[n], events[n + 1]) /\ j # k /\ j - 1 = n /\ g[n] = f[n]
          BY <2>3, <4>2
        <5> QED
          BY <4>2, <5>1
      <4>3. CASE j # n + 1
        <5>1. j \in k..n /\ g[j] = f[j] /\ (j # k => g[j - 1] = f[j - 1])
          BY <4>3
        <5> QED
          BY <3>1, <5>1 DEF ModelStages
      <4> QED
        BY <4>2, <4>3
    <3> HIDE DEF g
    <3> QED
      BY <3>2
  <2> QED
    BY <2>1, <2>2, <2>3
<1> HIDE DEF T
<1>3. T \subseteq Nat
  BY DEF T
<1>4. \A n \in Nat : n \in T
  BY <1>1, <1>2, <1>3, Induction
<1> QED
  BY <1>4 DEF T

LEMMA FoldsToStage ==
  ASSUME NEW events, NEW m, NEW k \in Nat, NEW i \in Nat, k <= i,
         NEW h, ModelStages(h, events, m, k, i)
  PROVE  FoldEvents(events, m, k, i) = h[i]
<1> DEFINE Runs(f) == f = [j \in k..i |-> IF j = k THEN m ELSE ProjectEvent(f[j - 1], events[j])]
           run == CHOOSE f : Runs(f)
           g == [j \in k..i |-> h[j]]
<1>1. FoldEvents(events, m, k, i) = run[i]
  BY DEF FoldEvents
<1>2. Runs(g)
  <2>1. \A j \in k..i : j # k => j - 1 \in k..i
    OBVIOUS
  <2>2. \A j \in k..i : g[j] = IF j = k THEN m ELSE ProjectEvent(g[j - 1], events[j])
    BY <2>1 DEF ModelStages
  <2> QED
    BY <2>2
<1>3. Runs(run)
  BY <1>2
<1> HIDE DEF run, g
<1> DEFINE T == {n \in Nat : n \in k..i => run[n] = h[n]}
<1>4. ASSUME NEW n \in Nat, n = k, n \in k..i PROVE run[n] = h[n]
  BY <1>3, <1>4 DEF ModelStages
<1>5. 0 \in T
  BY <1>4
<1>6. ASSUME NEW n \in T PROVE n + 1 \in T
  <2>1. CASE n + 1 = k
    BY <1>4, <2>1
  <2>2. CASE n + 1 \in k..i /\ n + 1 # k
    <3>1. n \in k..i /\ run[n] = h[n] /\ (n + 1) - 1 = n
      BY <2>2
    <3>2. run[n + 1] = ProjectEvent(run[n], events[n + 1])
      BY <1>3, <2>2, <3>1
    <3>3. h[n + 1] = ProjectEvent(h[n], events[n + 1])
      BY <2>2, <3>1 DEF ModelStages
    <3> QED
      BY <3>1, <3>2, <3>3
  <2> QED
    BY <2>1, <2>2
<1> HIDE DEF T
<1>7. T \subseteq Nat
  BY DEF T
<1>8. \A n \in Nat : n \in T
  BY <1>5, <1>6, <1>7, Induction
<1> QED
  BY <1>1, <1>8 DEF T

LEMMA EmptyLogModel ==
  ASSUME NEW events, Len(events) = 0
  PROVE  ModelOf(events) = EmptyModel
<1> DEFINE h == [j \in 0..0 |-> EmptyModel]
<1>1. ModelStages(h, events, EmptyModel, 0, 0) /\ h[0] = EmptyModel
  BY DEF ModelStages
<1> HIDE DEF h
<1> QED
  BY <1>1, FoldsToStage DEF ModelOf

LEMMA ModelOfAppend ==
  ASSUME NEW events, IsSeq(events), NEW e
  PROVE  ModelOf(Append(events, e)) = ProjectEvent(ModelOf(events), e)
<1> DEFINE n == Len(events)
           longer == Append(events, e)
<1>1. n \in Nat /\ Len(longer) = n + 1 /\ longer[n + 1] = e /\ \A i \in 1..n : longer[i] = events[i]
  BY AppendSeq
<1> HIDE DEF longer
<1>2. n + 1 \in Nat /\ n + 1 >= 0
  BY <1>1
<1>3. PICK h : ModelStages(h, longer, EmptyModel, 0, n + 1)
  BY <1>2, ModelStagesExist
<1>4. ModelStages(h, events, EmptyModel, 0, n)
  <2>1. \A j \in 0..n : j \in 0..(n + 1) /\ (j # 0 => j \in 1..n)
    BY <1>1
  <2> QED
    BY <1>1, <1>3, <2>1 DEF ModelStages
<1>5. ModelOf(events) = h[n]
  BY <1>1, <1>4, FoldsToStage DEF ModelOf
<1>6. ModelOf(longer) = h[n + 1]
  BY <1>1, <1>2, <1>3, FoldsToStage DEF ModelOf
<1>7. h[n + 1] = ProjectEvent(h[n], longer[n + 1])
  <2>1. n + 1 \in 0..(n + 1) /\ n + 1 # 0 /\ (n + 1) - 1 = n
    BY <1>1
  <2> QED
    BY <1>3, <2>1 DEF ModelStages
<1> QED
  BY <1>1, <1>5, <1>6, <1>7 DEF longer

IsPrefix(s, t) == Len(s) <= Len(t) /\ \A i \in 1..Len(s) : t[i] = s[i]

LEMMA ModelOfRest ==
  ASSUME NEW s, IsSeq(s), IsSeq(log), IsPrefix(s, log)
  PROVE  ModelAfter(ModelOf(s), Len(s), Last) = ModelOf(log)
<1> DEFINE k == Len(s)
           n == Len(log)
<1>1. k \in Nat /\ n \in Nat /\ k <= n /\ 0 <= k /\ 0 <= n
  BY SeqLength DEF IsPrefix
<1>2. PICK h : ModelStages(h, log, EmptyModel, 0, n)
  BY <1>1, ModelStagesExist
<1>3. ModelStages(h, s, EmptyModel, 0, k)
  <2>1. \A j \in 0..k : j \in 0..n /\ (j # 0 => j \in 1..k)
    BY <1>1
  <2> QED
    BY <1>1, <1>2, <2>1 DEF ModelStages, IsPrefix
<1>4. ModelOf(s) = h[k] /\ ModelOf(log) = h[n]
  BY <1>1, <1>2, <1>3, FoldsToStage DEF ModelOf
<1>5. ModelStages(h, log, h[k], k, n)
  <2>1. \A j \in k..n : j \in 0..n /\ (j # k => j # 0)
    BY <1>1
  <2> QED
    BY <1>2, <2>1 DEF ModelStages
<1>6. FoldEvents(log, h[k], k, n) = h[n]
  BY <1>1, <1>5, FoldsToStage
<1>7. ModelAfter(ModelOf(s), k, Last) = FoldEvents(log, ModelOf(s), k, n)
  BY DEF ModelAfter, FoldEvents, Last
<1> QED
  BY <1>4, <1>6, <1>7

LEMMA ModelOfAll ==
  ModelAfter(EmptyModel, 0, Last) = ModelOf(log)
BY DEF ModelAfter, ModelOf, FoldEvents, Last

(***************************************************************************)
(* What a read model is made of.                                           *)
(***************************************************************************)
Models == [messages : SUBSET Messages, activities : SUBSET [turn : Turns, kind : Reports],
           count : [Turns -> 0..MaxTurns], real : SUBSET Turns]

LEMMA ProjectEventTyped ==
  ASSUME NEW m \in Models, NEW e \in TurnEvents
  PROVE  ProjectEvent(m, e) \in Models
<1> DEFINE kept == {t \in Turns : m.count[t] \in 1..e.count}
<1>1. e.n \in 0..MaxTurns /\ e.count \in 0..MaxTurns /\ (e.type \notin {"reverted", "deleted"} => e.n \in Turns)
      /\ MaxTurns \in Nat /\ e.type \in EventTypes
  BY BoundsAreCounts DEF TurnEvents, Event
<1>2. /\ m.messages \subseteq Messages /\ m.activities \subseteq [turn : Turns, kind : Reports]
      /\ m.count \in [Turns -> 0..MaxTurns] /\ m.real \subseteq Turns
  BY DEF Models
<1>3. CASE e.type \in {"user-message", "assistant-message"}
  <2>1. ProjectEvent(m, e) = [m EXCEPT !.messages = MessageSent(m.messages, e)]
    BY <1>3 DEF ProjectEvent
  <2>2. MessageSent(m.messages, e) \in SUBSET Messages
    BY <1>2, <1>3, SentTyped
  <2> QED
    BY <2>1, <2>2 DEF Models
<1>4. CASE e.type = "turn-diff-completed"
  <2>1. ProjectEvent(m, e) = CheckpointTaken(m, e)
    BY <1>4 DEF ProjectEvent
  <2>2. [m.count EXCEPT ![e.n] = e.count] \in [Turns -> 0..MaxTurns] /\ m.real \cup {e.n} \subseteq Turns
    BY <1>1, <1>2, <1>4
  <2>3. /\ [m EXCEPT !.count[e.n] = e.count] \in Models
        /\ [m EXCEPT !.count[e.n] = e.count, !.real = @ \cup {e.n}] \in Models
    BY <2>2 DEF Models
  <2> QED
    BY <2>1, <2>3 DEF CheckpointTaken
<1>5. CASE e.type = "reverted"
  <2>1. ProjectEvent(m, e) =
          [messages   |-> RetainMessages(m.messages, {}, kept, e.count),
           activities |-> RetainActivities(m.activities, kept),
           count      |-> [t \in Turns |-> IF t \in kept THEN m.count[t] ELSE 0],
           real       |-> m.real \cap kept]
    BY <1>5 DEF ProjectEvent
  <2>2. [t \in Turns |-> IF t \in kept THEN m.count[t] ELSE 0] \in [Turns -> 0..MaxTurns]
    BY <1>1, <1>2
  <2> HIDE DEF kept
  <2>3. RetainMessages(m.messages, {}, kept, e.count) \in SUBSET Messages
    BY <1>2, RetainedAreMessages
  <2>4. RetainActivities(m.activities, kept) \in SUBSET [turn : Turns, kind : Reports]
    BY <1>2 DEF RetainActivities
  <2>5. m.real \cap kept \in SUBSET Turns
    BY <1>2
  <2> QED
    BY <2>1, <2>2, <2>3, <2>4, <2>5 DEF Models
<1>6. CASE e.type \notin {"user-message", "assistant-message", "turn-diff-completed", "reverted"}
  <2>1. ProjectEvent(m, e) = [m EXCEPT !.activities = ActivityAfter(m.activities, e, kept)]
    BY <1>6 DEF ProjectEvent
  <2> HIDE DEF kept
  <2>2. ActivityAfter(m.activities, e, kept) \in SUBSET [turn : Turns, kind : Reports]
    BY <1>2, ActivitiesTyped
  <2> QED
    BY <2>1, <2>2 DEF Models
<1> QED
  BY <1>3, <1>4, <1>5, <1>6

LEMMA EmptyModelTyped == EmptyModel \in Models
<1>1. 0 \in 0..MaxTurns
  BY BoundsAreCounts
<1> QED
  BY <1>1 DEF EmptyModel, Models

LEMMA LogModelTyped ==
  ASSUME NEW events \in Seq(TurnEvents)
  PROVE  ModelOf(events) \in Models
<1> DEFINE n == Len(events)
<1>1. n \in Nat /\ n >= 0 /\ \A i \in 1..n : events[i] \in TurnEvents
  OBVIOUS
<1>2. PICK h : ModelStages(h, events, EmptyModel, 0, n)
  BY <1>1, ModelStagesExist
<1>3. ModelOf(events) = h[n]
  BY <1>1, <1>2, FoldsToStage DEF ModelOf
<1> HIDE DEF n
<1> DEFINE T == {k \in Nat : k <= n => h[k] \in Models}
<1>4. 0 \in T
  BY <1>1, <1>2, EmptyModelTyped DEF ModelStages
<1>5. ASSUME NEW k \in T PROVE k + 1 \in T
  <2>1. SUFFICES ASSUME k + 1 <= n PROVE h[k + 1] \in Models
    OBVIOUS
  <2>2. k + 1 \in 0..n /\ k + 1 # 0 /\ (k + 1) - 1 = k /\ k + 1 \in 1..n /\ k <= n
    BY <1>1, <2>1
  <2>3. h[k + 1] = ProjectEvent(h[k], events[k + 1])
    BY <1>2, <2>2 DEF ModelStages
  <2>4. h[k] \in Models /\ events[k + 1] \in TurnEvents
    BY <1>1, <2>2
  <2> QED
    BY <2>3, <2>4, ProjectEventTyped
<1> HIDE DEF T
<1>6. T \subseteq Nat
  BY DEF T
<1>7. \A k \in Nat : k \in T
  BY <1>4, <1>5, <1>6, Induction
<1> QED
  BY <1>1, <1>3, <1>7 DEF T

(* Every set of numbers that is not empty and bounded has a greatest one.  *)
LEMMA Greatest ==
  ASSUME NEW f \in [Turns -> 0..MaxTurns]
  PROVE  \E c \in 0..MaxTurns : /\ \A t \in Turns : f[t] <= c
                                /\ c = 0 \/ \E t \in Turns : f[t] = c
<1> DEFINE T == {b \in Nat : (\A t \in Turns : f[t] <= b) =>
                    \E c \in 0..b : /\ \A t \in Turns : f[t] <= c
                                    /\ c = 0 \/ \E t \in Turns : f[t] = c}
<1>0. \A t \in Turns : f[t] \in Nat
  BY BoundsAreCounts
<1>1. 0 \in T
  OBVIOUS
<1>2. ASSUME NEW b \in T PROVE b + 1 \in T
  <2>1. CASE \E t \in Turns : f[t] = b + 1
    <3>1. b + 1 \in 0..(b + 1)
      OBVIOUS
    <3> QED
      BY <2>1, <3>1
  <2>2. CASE ~\E t \in Turns : f[t] = b + 1
    <3> SUFFICES ASSUME \A t \in Turns : f[t] <= b + 1
                 PROVE  \E c \in 0..(b + 1) : /\ \A t \in Turns : f[t] <= c
                                              /\ c = 0 \/ \E t \in Turns : f[t] = c
      OBVIOUS
    <3>1. \A t \in Turns : f[t] <= b
      BY <1>0, <2>2
    <3>2. PICK c \in 0..b : /\ \A t \in Turns : f[t] <= c
                            /\ c = 0 \/ \E t \in Turns : f[t] = c
      BY <3>1
    <3>3. c \in 0..(b + 1)
      OBVIOUS
    <3> QED
      BY <3>2, <3>3
  <2> QED
    BY <2>1, <2>2
<1> HIDE DEF T
<1>3. T \subseteq Nat
  BY DEF T
<1>4. \A b \in Nat : b \in T
  BY <1>1, <1>2, <1>3, Induction
<1>5. MaxTurns \in Nat /\ \A t \in Turns : f[t] <= MaxTurns
  BY BoundsAreCounts
<1> QED
  BY <1>4, <1>5 DEF T

LEMMA MaxCountIs ==
  ASSUME NEW m \in Models
  PROVE  /\ MaxCount(m) \in 0..MaxTurns
         /\ \A t \in Turns : m.count[t] <= MaxCount(m)
<1>1. m.count \in [Turns -> 0..MaxTurns]
  BY DEF Models
<1>2. \E c \in 0..MaxTurns : /\ \A t \in Turns : m.count[t] <= c
                             /\ c = 0 \/ \E t \in Turns : m.count[t] = c
  BY <1>1, Greatest
<1> QED
  BY <1>2 DEF MaxCount

-----------------------------------------------------------------------------
(***************************************************************************)
(* The invariant of the types.  Between commands the read model is what    *)
(* the whole log makes of it, and inside a transaction what the events     *)
(* before the command do.                                                  *)
(***************************************************************************)
IsCommand(events) ==
  /\ events \in Seq(TurnEvents) \ {<<>>}
  /\ Head(events).type = "user-message" =>
        Head(events).n \in uploaded /\ ~Logged("user-message", Head(events).n)
  /\ Head(events).type # "user-message" => Tail(events) = <<>>
  /\ Head(events).type # "turn-start-requested"
  /\ \A i \in DOMAIN Tail(events) : /\ Tail(events)[i].type = "turn-start-requested"
                                   /\ Tail(events)[i].n = Head(events).n

OpenTypes ==
  /\ phase = "live"
  /\ txn = [open |-> TRUE, todo |-> txn.todo, log |-> txn.log, cursor |-> txn.cursor,
            rows |-> txn.rows, files |-> txn.files]
  /\ txn.log \in Seq(TurnEvents) /\ Len(txn.log) <= MaxEvents
  /\ txn.cursor \in [Projectors -> 0..MaxEvents]
  /\ Typed(txn.rows) /\ txn.files \subseteq Turns
  /\ txn.todo \in Seq(TurnEvents) /\ Last + Len(txn.todo) <= MaxEvents
  /\ \A i \in DOMAIN txn.todo : txn.todo[i].type = "turn-start-requested"
  /\ IsPrefix(txn.log, log) /\ model = ModelOf(txn.log)

LogTypes ==
  /\ log \in Seq(TurnEvents) /\ Last <= MaxEvents
  /\ cursor \in [Projectors -> 0..MaxEvents]
  /\ Typed(rows) /\ files \subseteq Turns

RestTypes ==
  /\ lost \subseteq Turns /\ failures \in 0..MaxFailures
  /\ phase \in {"down", "booting", "live"}
  /\ phase # "booting" => boot = NoBoot
  /\ skipped \subseteq rebuilt /\ rebuilt \subseteq Rebuildable

(* What waits to be dispatched: images, and one event of each worker.       *)
WaitingTypes ==
  /\ uploaded \subseteq Turns
  /\ decided \in [Workers -> Seq(TurnEvents)]
  /\ \A w \in Workers :
        decided[w] # <<>> => /\ Tail(decided[w]) = <<>>
                             /\ Head(decided[w]).type \in {"turn-diff-completed", "reverted"}

PipelineTypes ==
  /\ LogTypes /\ RestTypes /\ WaitingTypes /\ model \in Models
  /\ txn.open \in BOOLEAN
  /\ InTxn => OpenTypes
  /\ Idle => model = ModelOf(log)

LEMMA EventsTyped ==
  /\ \A type \in EventTypes, n \in Turns : E(type, n) \in TurnEvents
  /\ E("deleted", 0) \in TurnEvents
  /\ \A n \in Turns, streaming \in BOOLEAN :
        [E("assistant-message", n) EXCEPT !.streaming = streaming] \in TurnEvents
  /\ \A n \in Turns, count \in 0..MaxTurns, status \in Statuses :
        /\ Completed(n, count, status) \in TurnEvents
        /\ Completed(n, count, status).type = "turn-diff-completed"
  /\ \A count \in 0..MaxTurns : RevertedTo(count) \in TurnEvents /\ RevertedTo(count).type = "reverted"
<1>1. MaxTurns \in Nat /\ 0 \in 0..MaxTurns /\ Turns \subseteq 0..MaxTurns /\ "ready" \in Statuses
  BY BoundsAreCounts DEF Turns, Statuses
<1>2. /\ \A type \in EventTypes, n \in Turns : E(type, n) \in TurnEvents
      /\ E("deleted", 0) \in TurnEvents /\ E("reverted", 0) \in TurnEvents
  BY <1>1 DEF TurnEvents, Event, EventTypes, E
<1>3. \A e \in TurnEvents, streaming \in BOOLEAN : [e EXCEPT !.streaming = streaming] \in TurnEvents
  BY DEF TurnEvents, Event
<1>4. \A e \in TurnEvents, count \in 0..MaxTurns, status \in Statuses :
         /\ [e EXCEPT !.count = count] \in TurnEvents /\ [e EXCEPT !.count = count].type = e.type
         /\ [e EXCEPT !.count = count, !.status = status] \in TurnEvents
         /\ [e EXCEPT !.count = count, !.status = status].type = e.type
  BY DEF TurnEvents, Event
<1>5. {"assistant-message", "turn-diff-completed"} \subseteq EventTypes
  BY DEF EventTypes
<1>6. E("reverted", 0).type = "reverted" /\ \A n \in Turns : E("turn-diff-completed", n).type = "turn-diff-completed"
  BY DEF E
<1>7. \A n \in Turns, count \in 0..MaxTurns, status \in Statuses :
        /\ Completed(n, count, status) \in TurnEvents
        /\ Completed(n, count, status).type = "turn-diff-completed"
  <2> SUFFICES ASSUME NEW n \in Turns, NEW count \in 0..MaxTurns, NEW status \in Statuses
               PROVE  /\ Completed(n, count, status) \in TurnEvents
                      /\ Completed(n, count, status).type = "turn-diff-completed"
    OBVIOUS
  <2> DEFINE e == E("turn-diff-completed", n)
  <2>1. e \in TurnEvents /\ e.type = "turn-diff-completed"
    BY <1>2, <1>5, <1>6
  <2>2. Completed(n, count, status) = [e EXCEPT !.count = count, !.status = status]
    BY DEF Completed
  <2> HIDE DEF e
  <2>3. PICK x \in TurnEvents : x = e
    BY <2>1
  <2>4. /\ [x EXCEPT !.count = count, !.status = status] \in TurnEvents
        /\ [x EXCEPT !.count = count, !.status = status].type = x.type
    BY <1>4
  <2> QED
    BY <2>1, <2>2, <2>3, <2>4, Zenon
<1>8. \A count \in 0..MaxTurns : RevertedTo(count) \in TurnEvents /\ RevertedTo(count).type = "reverted"
  <2> SUFFICES ASSUME NEW count \in 0..MaxTurns
               PROVE  RevertedTo(count) \in TurnEvents /\ RevertedTo(count).type = "reverted"
    OBVIOUS
  <2> DEFINE e == E("reverted", 0)
  <2>1. e \in TurnEvents /\ e.type = "reverted"
    BY <1>2, <1>6
  <2>2. RevertedTo(count) = [e EXCEPT !.count = count]
    BY DEF RevertedTo
  <2> HIDE DEF e
  <2>3. PICK x \in TurnEvents : x = e
    BY <2>1
  <2>4. [x EXCEPT !.count = count] \in TurnEvents /\ [x EXCEPT !.count = count].type = x.type
    BY <1>1, <1>4
  <2> QED
    BY <2>1, <2>2, <2>3, <2>4, Zenon
<1> QED
  BY <1>2, <1>3, <1>5, <1>7, <1>8

LEMMA OneEvent ==
  ASSUME NEW e \in TurnEvents, e.type \notin {"user-message", "turn-start-requested"}
  PROVE  IsCommand(<<e>>)
BY DEF IsCommand

(* What a worker decides on is one well-formed event.                      *)
LEMMA DecideTyped ==
  ASSUME WaitingTypes, NEW w \in Workers, NEW e \in TurnEvents, Decide(w, e),
         e.type \in {"turn-diff-completed", "reverted"}
  PROVE  WaitingTypes'
<1>1. <<e>> \in Seq(TurnEvents) /\ Tail(<<e>>) = <<>> /\ Head(<<e>>) = e
  OBVIOUS
<1>2. decided' = [decided EXCEPT ![w] = <<e>>] /\ uploaded' = uploaded
  BY DEF Decide
<1> HIDE DEF Decide
<1>3. \A v \in Workers : decided'[v] = IF v = w THEN <<e>> ELSE decided[v]
  BY <1>2 DEF WaitingTypes
<1>4. decided' \in [Workers -> Seq(TurnEvents)]
  BY <1>1, <1>2 DEF WaitingTypes
<1> QED
  BY <1>1, <1>2, <1>3, <1>4 DEF WaitingTypes

LEMMA DecisionsTyped ==
  ASSUME LogTypes, WaitingTypes, model \in Models, Decisions
  PROVE  WaitingTypes'
<1>1. /\ "reactor" \in Workers /\ "ingestion" \in Workers
      /\ {"ready", "missing"} \subseteq Statuses /\ MaxTurns \in Nat
  BY BoundsAreCounts DEF Workers, Statuses
<1>2. MaxCount(model) \in 0..MaxTurns /\ model.count \in [Turns -> 0..MaxTurns]
  BY MaxCountIs DEF Models
<1>3. \A n \in Turns : CountFor(model, n) \in Nat
  BY <1>1, <1>2 DEF CountFor
<1>4. ASSUME NEW n \in Turns, NEW count \in Nat, NEW status \in Statuses, NEW w \in Workers,
             Decide(w, Completed(n, count, status))
      PROVE  WaitingTypes'
  <2>1. Completed(n, count, status).count = count
    BY DEF Completed, E
  <2>2. count \in 0..MaxTurns
    BY <1>1, <1>4, <2>1 DEF Decide
  <2> QED
    BY <1>4, <2>2, EventsTyped, DecideTyped
<1>5. CASE CaptureCompletion
  BY <1>1, <1>3, <1>4, <1>5 DEF CaptureCompletion
<1>6. CASE CapturePlaceholder
  <2>1. PICK i \in 1..Last : /\ log[i].type = "turn-diff-completed"
                             /\ Decide("reactor", Completed(log[i].n, log[i].count, "ready"))
    BY <1>6 DEF CapturePlaceholder
  <2>2. log[i] \in TurnEvents
    BY <2>1 DEF LogTypes, Last
  <2>3. log[i].n \in Turns /\ log[i].count \in Nat
    BY <1>1, <2>1, <2>2 DEF TurnEvents, Event
  <2> QED
    BY <1>1, <1>4, <2>1, <2>3
<1>7. CASE RestoreCheckpoint
  <2>1. PICK count \in 0..MaxCount(model) : Decide("reactor", RevertedTo(count))
    BY <1>7 DEF RestoreCheckpoint
  <2>2. count \in 0..MaxTurns
    BY <1>1, <1>2, <2>1
  <2> QED
    BY <1>1, <2>1, <2>2, EventsTyped, DecideTyped
<1>8. CASE PlaceCheckpoint
  BY <1>1, <1>3, <1>4, <1>8 DEF PlaceCheckpoint
<1> QED
  BY <1>5, <1>6, <1>7, <1>8 DEF Decisions

LEMMA WaitingStep ==
  ASSUME PipelineTypes, [Next]_vars
  PROVE  WaitingTypes'
<1>1. LogTypes /\ WaitingTypes /\ model \in Models
  BY DEF PipelineTypes
<1>2. CASE Decisions
  BY <1>1, <1>2, DecisionsTyped
<1>3. CASE UploadImage \/ StartTurn
  <2>1. uploaded' \subseteq Turns /\ decided' = decided
    BY <1>1, <1>3 DEF UploadImage, StartTurn, WaitingTypes
  <2> QED
    BY <1>1, <2>1 DEF WaitingTypes
<1>4. ASSUME NEW w \in Workers, Dispatch(w)
      PROVE  WaitingTypes'
  <2>1. decided' = [decided EXCEPT ![w] = <<>>] /\ uploaded' = uploaded
    BY <1>4 DEF Dispatch
  <2>2. \A v \in Workers : decided'[v] = IF v = w THEN <<>> ELSE decided[v]
    BY <1>1, <2>1 DEF WaitingTypes
  <2>3. decided' \in [Workers -> Seq(TurnEvents)]
    BY <1>1, <2>1 DEF WaitingTypes
  <2> QED
    BY <1>1, <2>1, <2>2, <2>3 DEF WaitingTypes
<1>5. CASE Crash
  BY <1>5 DEF Crash, WaitingTypes
<1>6. CASE ReportTurn \/ DeleteThread \/ AppendNext \/ Commit \/ Rollback \/ Bootstrap \/ CatchUp
           \/ CaughtUp \/ GoLive \/ (\E p \in Rebuildable : Rebuild(p)) \/ UNCHANGED vars
  <2>1. UNCHANGED <<uploaded, decided>>
    BY <1>6 DEF ReportTurn, Report, DeleteThread, AppendNext, Commit, Rollback, Bootstrap, CatchUp,
                CaughtUp, GoLive, Rebuild, vars
  <2> QED
    BY <1>1, <2>1 DEF WaitingTypes
<1> QED
  BY <1>2, <1>3, <1>4, <1>5, <1>6 DEF Next, Decisions

(* Every command of the thread is one of well-formed events.               *)
LEMMA CommandsBegin ==
  ASSUME PipelineTypes, Commands
  PROVE  \E events : IsCommand(events) /\ Begin(events)
<1>1. CASE StartTurn
  <2>1. PICK n \in uploaded : /\ ~Logged("user-message", n)
                              /\ Begin(<<E("user-message", n), E("turn-start-requested", n)>>)
    BY <1>1 DEF StartTurn
  <2>2. n \in Turns
    BY DEF PipelineTypes, WaitingTypes
  <2>3. E("user-message", n) \in TurnEvents /\ E("turn-start-requested", n) \in TurnEvents
    BY <2>2, EventsTyped DEF EventTypes
  <2>4. E("user-message", n).type = "user-message" /\ E("turn-start-requested", n).type = "turn-start-requested"
        /\ E("user-message", n).n = n /\ E("turn-start-requested", n).n = n
    BY DEF E
  <2>5. IsCommand(<<E("user-message", n), E("turn-start-requested", n)>>)
    BY <2>1, <2>3, <2>4 DEF IsCommand
  <2> QED
    BY <2>1, <2>5
<1>2. CASE ReportTurn
  <2>1. PICK n \in Turns :
          \/ Begin(<<E("session-running", n)>>)
          \/ \E streaming \in BOOLEAN :
                Begin(<<[E("assistant-message", n) EXCEPT !.streaming = streaming]>>)
          \/ \E type \in Reports \ {"assistant-message"} : Begin(<<E(type, n)>>)
    BY <1>2 DEF ReportTurn, Report
  <2> DEFINE Plain == EventTypes \ {"user-message", "turn-start-requested"}
  <2>2. \A type \in Plain : IsCommand(<<E(type, n)>>)
    <3> TAKE type \in Plain
    <3>1. E(type, n) \in TurnEvents /\ E(type, n).type = type
      BY EventsTyped DEF E
    <3> QED
      BY <3>1, OneEvent
  <2>3. CASE \E streaming \in BOOLEAN :
                Begin(<<[E("assistant-message", n) EXCEPT !.streaming = streaming]>>)
    <3>1. PICK streaming \in BOOLEAN :
                Begin(<<[E("assistant-message", n) EXCEPT !.streaming = streaming]>>)
      BY <2>3
    <3>2. [E("assistant-message", n) EXCEPT !.streaming = streaming].type = "assistant-message"
      BY DEF E
    <3>3. IsCommand(<<[E("assistant-message", n) EXCEPT !.streaming = streaming]>>)
      BY <3>2, EventsTyped, OneEvent
    <3> QED
      BY <3>1, <3>3
  <2>4. "session-running" \in Plain /\ Reports \subseteq Plain
    BY DEF EventTypes, Reports
  <2> QED
    BY <2>1, <2>2, <2>3, <2>4
<1>3. CASE DeleteThread
  <2>1. E("deleted", 0).type = "deleted"
    BY DEF E
  <2> QED
    BY <1>3, <2>1, EventsTyped, OneEvent DEF DeleteThread, Report
<1>4. ASSUME NEW w \in Workers, Dispatch(w)
      PROVE  \E events : IsCommand(events) /\ Begin(events)
  <2>1. decided[w] # <<>> /\ Begin(decided[w])
    BY <1>4 DEF Dispatch
  <2>2. IsCommand(decided[w])
    BY <2>1 DEF IsCommand, PipelineTypes, WaitingTypes
  <2> QED
    BY <2>1, <2>2
<1> QED
  BY <1>1, <1>2, <1>3, <1>4 DEF Commands

LEMMA RemovedTyped ==
  ASSUME NEW p, NEW tables, NEW e
  PROVE  RemovedImages(p, tables, e) \subseteq files
BY DEF RemovedImages

(* One more event keeps the log, the tables and the files in their types.  *)
LEMMA AppendTyped ==
  ASSUME LogTypes, RestTypes, WaitingTypes, NEW e \in TurnEvents, Last + 1 <= MaxEvents,
         AppendAndProject(e)
  PROVE  /\ LogTypes' /\ Len(log') = Len(log) + 1 /\ IsPrefix(log, log')
         /\ lost' \subseteq Turns
<1>1. log \in Seq(TurnEvents) /\ MaxEvents \in Nat /\ Len(log) \in Nat /\ Len(log) + 1 <= MaxEvents
  BY BoundsAreCounts DEF LogTypes, Last
<1>2. log' = Append(log, e) /\ rows' = Projected(rows, e)
      /\ cursor' = [p \in Projectors |-> Len(log')] /\ files' \subseteq Turns
      /\ lost' \subseteq Turns
  BY DEF AppendAndProject, LogTypes, RestTypes, WaitingTypes
<1>3. log' \in Seq(TurnEvents) /\ Len(log') = Len(log) + 1 /\ \A i \in 1..Len(log) : log'[i] = log[i]
  BY <1>1, <1>2
<1>4. Len(log') \in 0..MaxEvents
  BY <1>1, <1>3
<1>5. cursor' \in [Projectors -> 0..MaxEvents]
  BY <1>2, <1>4
<1>6. Typed(rows')
  BY <1>2, ProjectedTyped DEF LogTypes
<1> QED
  BY <1>1, <1>2, <1>3, <1>4, <1>5, <1>6 DEF LogTypes, Last, IsPrefix

LEMMA SeqFacts ==
  ASSUME NEW S, NEW s \in Seq(S)
  PROVE  /\ IsSeq(s) /\ Len(s) \in Nat /\ DOMAIN s = 1..Len(s) /\ \A i \in 1..Len(s) : s[i] \in S
         /\ s # <<>> => /\ Head(s) = s[1] /\ 1 \in DOMAIN s /\ Head(s) \in S /\ Tail(s) \in Seq(S)
                        /\ Len(Tail(s)) = Len(s) - 1
                        /\ \A i \in DOMAIN Tail(s) : i + 1 \in DOMAIN s /\ Tail(s)[i] = s[i + 1]
BY DEF IsSeq

LEMMA BeginTyped ==
  ASSUME PipelineTypes, WaitingTypes', NEW events, IsCommand(events), Begin(events)
  PROVE  PipelineTypes'
<1>1. LogTypes /\ RestTypes /\ WaitingTypes /\ model \in Models /\ phase = "live" /\ model = ModelOf(log)
  BY DEF PipelineTypes, Begin, Idle
<1>2. /\ events \in Seq(TurnEvents) /\ events # <<>>
      /\ Last + Len(events) <= MaxEvents
      /\ AppendAndProject(Head(events))
      /\ txn' = [open |-> TRUE, todo |-> Tail(events), log |-> log,
                 cursor |-> cursor, rows |-> rows, files |-> files]
      /\ UNCHANGED <<model, boot, phase, rebuilt, skipped, failures>>
  BY DEF IsCommand, Begin, Fits
<1>3. Head(events) \in TurnEvents /\ Tail(events) \in Seq(TurnEvents) /\ Len(Tail(events)) = Len(events) - 1
      /\ Len(events) \in Nat /\ Len(events) >= 1 /\ Last \in Nat /\ MaxEvents \in Nat
  BY <1>1, <1>2, SeqFacts, BoundsAreCounts DEF LogTypes, Last
<1>4. files \subseteq Turns
  BY <1>1 DEF LogTypes
<1>5. Last + 1 <= MaxEvents
  BY <1>2, <1>3
<1>6. LogTypes' /\ Len(log') = Len(log) + 1 /\ IsPrefix(log, log') /\ lost' \subseteq Turns
  BY <1>1, <1>2, <1>3, <1>5, AppendTyped
<1>7. RestTypes' /\ model' \in Models /\ txn'.open
  BY <1>1, <1>2, <1>6 DEF RestTypes
<1>8. OpenTypes'
  <2>1. /\ txn'.log = log /\ txn'.cursor = cursor /\ txn'.rows = rows /\ txn'.files = files
        /\ txn'.todo = Tail(events)
    BY <1>2
  <2>2. Last' + Len(Tail(events)) <= MaxEvents
    BY <1>2, <1>3, <1>6 DEF Last
  <2>3. \A i \in DOMAIN Tail(events) : Tail(events)[i].type = "turn-start-requested"
    BY DEF IsCommand
  <2> QED
    BY <1>1, <1>2, <1>3, <1>4, <1>6, <2>1, <2>2, <2>3 DEF OpenTypes, LogTypes, Last
<1> QED
  BY <1>2, <1>6, <1>7, <1>8 DEF PipelineTypes, InTxn, Idle

LEMMA AppendNextTyped ==
  ASSUME PipelineTypes, WaitingTypes', AppendNext
  PROVE  PipelineTypes' /\ Head(txn.todo) \in TurnEvents /\ Head(txn.todo).type = "turn-start-requested"
<1>1. LogTypes /\ RestTypes /\ WaitingTypes /\ OpenTypes /\ model \in Models /\ txn.open
  BY DEF PipelineTypes, AppendNext, InTxn
<1>2. /\ txn.todo \in Seq(TurnEvents) /\ txn.todo # <<>> /\ AppendAndProject(Head(txn.todo))
      /\ Last + Len(txn.todo) <= MaxEvents /\ txn' = [txn EXCEPT !.todo = Tail(txn.todo)]
      /\ UNCHANGED <<model, boot, phase, rebuilt, skipped, failures>>
  BY <1>1 DEF AppendNext, OpenTypes
<1>3. Head(txn.todo) \in TurnEvents /\ Head(txn.todo).type = "turn-start-requested"
      /\ Tail(txn.todo) \in Seq(TurnEvents) /\ Len(Tail(txn.todo)) = Len(txn.todo) - 1
      /\ Len(txn.todo) \in Nat /\ Len(txn.todo) >= 1 /\ Last \in Nat /\ MaxEvents \in Nat
      /\ \A i \in DOMAIN Tail(txn.todo) : Tail(txn.todo)[i].type = "turn-start-requested"
  BY <1>1, <1>2, SeqFacts, BoundsAreCounts DEF LogTypes, Last, OpenTypes
<1>4. Last + 1 <= MaxEvents
  BY <1>2, <1>3
<1>5. LogTypes' /\ Len(log') = Len(log) + 1 /\ IsPrefix(log, log') /\ lost' \subseteq Turns
  BY <1>1, <1>2, <1>3, <1>4, AppendTyped
<1>6. RestTypes' /\ model' \in Models
  BY <1>1, <1>2, <1>5 DEF RestTypes
<1>7. OpenTypes' /\ txn'.open
  <2>1. txn' = [open |-> TRUE, todo |-> Tail(txn.todo), log |-> txn.log, cursor |-> txn.cursor,
                rows |-> txn.rows, files |-> txn.files]
    BY <1>1, <1>2 DEF OpenTypes
  <2>2. /\ txn'.log = txn.log /\ txn'.cursor = txn.cursor /\ txn'.rows = txn.rows
        /\ txn'.files = txn.files /\ txn'.open /\ txn'.todo = Tail(txn.todo)
    BY <2>1
  <2>3. Last' + Len(Tail(txn.todo)) <= MaxEvents
    <3>1. PICK a, b, c \in Nat : a = Last /\ b = Len(txn.todo) /\ c = MaxEvents
      BY <1>3
    <3>2. Last' = a + 1 /\ Len(Tail(txn.todo)) = b - 1 /\ a + b <= c
      BY <1>2, <1>3, <1>5, <3>1 DEF Last
    <3>3. (a + 1) + (b - 1) = a + b
      OBVIOUS
    <3> QED
      BY <3>1, <3>2, <3>3
  <2>4. IsPrefix(txn.log, log')
    <3>1. Len(txn.log) \in Nat /\ Len(log) \in Nat /\ Len(log') \in Nat
          /\ Len(txn.log) <= Len(log) /\ \A i \in 1..Len(txn.log) : log[i] = txn.log[i]
      BY <1>1, <1>5 DEF OpenTypes, LogTypes, IsPrefix
    <3>2. \A i \in 1..Len(log) : log'[i] = log[i]
      BY <1>5 DEF IsPrefix
    <3>3. Len(txn.log) <= Len(log') /\ \A i \in 1..Len(txn.log) : i \in 1..Len(log)
      BY <1>5, <3>1
    <3> QED
      BY <3>1, <3>2, <3>3 DEF IsPrefix
  <2> QED
    BY <1>1, <1>2, <1>3, <2>1, <2>2, <2>3, <2>4 DEF OpenTypes
<1> QED
  BY <1>1, <1>3, <1>5, <1>6, <1>7 DEF PipelineTypes, InTxn, Idle

LEMMA UndoTyped ==
  ASSUME PipelineTypes, Undo
  PROVE  /\ LogTypes' /\ lost' \subseteq Turns /\ failures' \in 0..MaxFailures /\ ~txn'.open
         /\ InTxn => log' = txn.log
         /\ ~InTxn => log' = log
<1>1. LogTypes /\ RestTypes /\ (InTxn => OpenTypes) /\ MaxFailures \in Nat
  BY BoundsAreCounts DEF PipelineTypes
<1>2. failures' \in 0..MaxFailures
  BY <1>1 DEF Undo, RestTypes
<1>3. ~txn'.open
  BY DEF Undo, NoTxn
<1>4. CASE InTxn
  <2>1. log' = txn.log /\ cursor' = txn.cursor /\ rows' = txn.rows /\ files' = files
        /\ lost' = lost \cup (txn.files \ files)
    BY <1>4 DEF Undo
  <2> QED
    BY <1>1, <1>2, <1>3, <1>4, <2>1 DEF LogTypes, OpenTypes, RestTypes, Last
<1>5. CASE ~InTxn
  <2>1. UNCHANGED <<log, cursor, rows, files, lost>>
    BY <1>5 DEF Undo
  <2> QED
    BY <1>1, <1>2, <1>3, <1>5, <2>1 DEF LogTypes, RestTypes, Last
<1> QED
  BY <1>4, <1>5

LEMMA CatchUpTyped ==
  ASSUME LogTypes, NEW p \in Projectors, cursor[p] < Last, RunProjectorForEvent(p, cursor[p] + 1),
         UNCHANGED log
  PROVE  LogTypes'
<1>1. /\ log \in Seq(TurnEvents) /\ Last <= MaxEvents /\ cursor \in [Projectors -> 0..MaxEvents]
      /\ Typed(rows) /\ files \subseteq Turns /\ MaxEvents \in Nat /\ Last \in Nat
  BY BoundsAreCounts DEF LogTypes, Last
<1>2. cursor[p] \in Nat /\ cursor[p] + 1 \in 1..Last /\ cursor[p] + 1 \in 0..MaxEvents
  BY <1>1
<1>3. log[cursor[p] + 1] \in TurnEvents
  BY <1>1, <1>2 DEF Last
<1>4. cursor' \in [Projectors -> 0..MaxEvents]
  BY <1>1, <1>2 DEF RunProjectorForEvent
<1>5. Typed(rows')
  <2> DEFINE a == Apply(p, rows, log[cursor[p] + 1])
  <2>1. a \in Table(p) /\ rows' = [rows EXCEPT ![p] = a]
    BY <1>1, <1>3, ApplyTyped DEF RunProjectorForEvent
  <2> HIDE DEF a
  <2>2. IsTables(rows')
    BY <1>1, <2>1 DEF Typed, IsTables
  <2>3. \A q \in Projectors : rows'[q] = IF q = p THEN a ELSE rows[q]
    BY <1>1, <2>1 DEF Typed, IsTables
  <2> QED
    BY <1>1, <2>1, <2>2, <2>3 DEF Typed
<1>6. files' \subseteq Turns
  BY <1>1, RemovedTyped DEF RunProjectorForEvent
<1> QED
  BY <1>1, <1>4, <1>5, <1>6 DEF LogTypes, Last

LEMMA RebuildTyped ==
  ASSUME LogTypes, RestTypes, NEW p \in Rebuildable, Rebuild(p)
  PROVE  LogTypes' /\ RestTypes'
<1>1. p \in Projectors /\ MaxEvents \in Nat
  BY BoundsAreCounts
<1>2. /\ rebuilt' = rebuilt \cup {p} /\ rows' = [rows EXCEPT ![p] = EmptyTable(p)]
      /\ cursor' = [cursor EXCEPT ![p] = 0]
      /\ UNCHANGED <<log, model, files, txn, boot, phase, skipped, lost, failures>>
  BY DEF Rebuild
<1>3. cursor' \in [Projectors -> 0..MaxEvents]
  BY <1>1, <1>2 DEF LogTypes
<1>4. Typed(rows')
  <2>1. IsTables(rows')
    BY <1>1, <1>2 DEF LogTypes, Typed, IsTables
  <2>2. \A q \in Projectors : rows'[q] = IF q = p THEN EmptyTable(p) ELSE rows[q]
    BY <1>1, <1>2 DEF LogTypes, Typed, IsTables
  <2> QED
    BY <1>1, <2>1, <2>2, EmptyTyped DEF LogTypes, Typed
<1> QED
  BY <1>2, <1>3, <1>4 DEF LogTypes, RestTypes, Last

\* Every event, table, cursor and file is one the program knows, and the read model is the
\* fold of the log: of all of it between commands, of what came before in a transaction.
THEOREM PipelineTypesHold == Spec => []PipelineTypes
<1>1. Init => PipelineTypes
  <2> SUFFICES ASSUME Init PROVE PipelineTypes
    OBVIOUS
  <2>1. MaxEvents \in Nat /\ MaxFailures \in Nat
    BY BoundsAreCounts
  <2>2. log \in Seq(TurnEvents) /\ Len(log) = 0 /\ cursor \in [Projectors -> 0..MaxEvents]
    BY <2>1 DEF Init
  <2>3. Typed(rows) /\ model \in Models
    BY EmptyTyped, EmptyModelTyped DEF Init
  <2>4. ~InTxn /\ txn.open = FALSE /\ phase = "down"
    BY DEF Init, NoTxn, InTxn
  <2>5. LogTypes
    BY <2>1, <2>2, <2>3 DEF Init, LogTypes, Last
  <2>6. RestTypes /\ WaitingTypes
    BY <2>1, <2>4 DEF Init, RestTypes, WaitingTypes
  <2> QED
    BY <2>3, <2>4, <2>5, <2>6 DEF PipelineTypes, Idle
<1>2. PipelineInvariant /\ PipelineTypes /\ [Next]_vars => PipelineTypes'
  <2> SUFFICES ASSUME PipelineInvariant, PipelineTypes, [Next]_vars
               PROVE  PipelineTypes'
    OBVIOUS
  <2>0. LogTypes /\ RestTypes /\ model \in Models /\ txn.open \in BOOLEAN /\ (InTxn => OpenTypes)
        /\ (Idle => model = ModelOf(log)) /\ WaitingTypes'
    BY WaitingStep DEF PipelineTypes
  <2>1. CASE Commands
    BY <2>0, <2>1, CommandsBegin, BeginTyped
  <2>12. CASE UploadImage
    <3>1. files' \subseteq Turns /\ lost' \subseteq Turns
      BY <2>0, <2>12 DEF UploadImage, LogTypes, RestTypes
    <3> QED
      BY <2>0, <2>12, <3>1, NothingBegins
      DEF PipelineTypes, LogTypes, RestTypes, OpenTypes, InTxn, Idle, Last
  <2>13. CASE Decisions
    BY <2>0, <2>13, NothingBegins DEF PipelineTypes, LogTypes, RestTypes, OpenTypes, InTxn, Idle, Last
  <2>2. CASE AppendNext
    BY <2>0, <2>2, AppendNextTyped
  <2>3. CASE Commit
    <3>1. InTxn /\ txn' = NoTxn /\ UNCHANGED <<log, cursor, rows, files, boot, phase, rebuilt, skipped, lost, failures>>
          /\ model' = ModelAfter(model, Len(txn.log), Last)
      BY <2>3 DEF Commit
    <3>2. ~txn'.open /\ txn'.open \in BOOLEAN
      BY <3>1 DEF NoTxn
    <3>3. model = ModelOf(txn.log) /\ IsPrefix(txn.log, log) /\ IsSeq(txn.log) /\ IsSeq(log)
      BY <2>0, <3>1, SeqFacts DEF OpenTypes, LogTypes
    <3>4. model' = ModelOf(log)
      BY <3>1, <3>3, ModelOfRest
    <3>5. model' \in Models
      BY <2>0, <3>4, LogModelTyped DEF LogTypes
    <3> QED
      BY <2>0, <3>1, <3>2, <3>4, <3>5 DEF PipelineTypes, LogTypes, RestTypes, InTxn, Idle, Last
  <2>4. CASE Rollback
    <3>1. InTxn /\ Undo /\ UNCHANGED <<model, boot, phase>>
      BY <2>4 DEF Rollback
    <3>2. UNCHANGED <<rebuilt, skipped>>
      BY <3>1 DEF Undo
    <3>3. LogTypes' /\ lost' \subseteq Turns /\ failures' \in 0..MaxFailures /\ ~txn'.open
          /\ txn'.open \in BOOLEAN /\ log' = txn.log
      BY <3>1, UndoTyped DEF Undo, NoTxn
    <3> QED
      BY <2>0, <3>1, <3>2, <3>3 DEF PipelineTypes, RestTypes, InTxn, Idle, OpenTypes
  <2>5. CASE Crash
    <3>1. Undo /\ phase' = "down" /\ boot' = NoBoot /\ model' = EmptyModel
      BY <2>5 DEF Crash
    <3>2. UNCHANGED <<rebuilt, skipped>>
      BY <3>1 DEF Undo
    <3>3. LogTypes' /\ lost' \subseteq Turns /\ failures' \in 0..MaxFailures /\ ~txn'.open
          /\ txn'.open \in BOOLEAN
      BY <3>1, UndoTyped DEF Undo, NoTxn
    <3> QED
      BY <2>0, <3>1, <3>2, <3>3, EmptyModelTyped DEF PipelineTypes, RestTypes, InTxn, Idle
  <2>6. CASE Bootstrap
    BY <2>0, <2>6 DEF Bootstrap, PipelineTypes, LogTypes, RestTypes, OpenTypes, InTxn, Idle, Last
  <2>7. CASE CatchUp
    <3> DEFINE p == Order[boot.projector]
    <3>1. phase = "booting" /\ boot.projector \in 1..5
      BY <2>7, Names DEF CatchUp, PipelineInvariant
    <3>2. p \in Projectors
      BY <3>1, Names DEF Projectors
    <3>3. cursor[p] < Last /\ RunProjectorForEvent(p, cursor[p] + 1)
      BY <2>7 DEF CatchUp
    <3> HIDE DEF p
    <3>4. UNCHANGED <<log, model, txn, phase, rebuilt, skipped, failures>> /\ lost' = lost \cup (files \ files')
      BY <2>7 DEF CatchUp
    <3>5. LogTypes'
      BY <2>0, <3>2, <3>3, <3>4, CatchUpTyped
    <3>6. ~InTxn
      BY <2>0, <3>1 DEF OpenTypes
    <3> QED
      BY <2>0, <3>1, <3>4, <3>5, <3>6 DEF PipelineTypes, LogTypes, RestTypes, InTxn, Idle
  <2>8. CASE CaughtUp
    <3> DEFINE p == Order[boot.projector]
    <3>1. phase = "booting" /\ boot.projector \in 1..5
      BY <2>8, Names DEF CaughtUp, PipelineInvariant
    <3>2. p \in Projectors
      BY <3>1, Names DEF Projectors
    <3>3. /\ skipped' = IF cursor[p] < Last THEN skipped \cup {p} ELSE skipped
          /\ UNCHANGED <<log, cursor, rows, model, files, txn, phase, rebuilt, lost, failures>>
      BY <2>8 DEF CaughtUp
    <3> HIDE DEF p
    <3>4. cursor[p] < Last => p \in rebuilt
      BY <3>2, SeqLength DEF PipelineInvariant, Stored, Last
    <3> QED
      BY <2>0, <3>1, <3>3, <3>4 DEF PipelineTypes, LogTypes, RestTypes, OpenTypes, InTxn, Idle, Last
  <2>9. CASE GoLive
    <3>1. /\ phase = "booting" /\ phase' = "live" /\ boot' = NoBoot
          /\ model' = ModelAfter(EmptyModel, 0, Last)
          /\ UNCHANGED <<log, cursor, rows, files, txn, rebuilt, skipped, lost, failures>>
      BY <2>9 DEF GoLive
    <3>2. model' = ModelOf(log) /\ ~InTxn
      BY <2>0, <3>1, ModelOfAll DEF OpenTypes
    <3>3. model' \in Models
      BY <2>0, <3>2, LogModelTyped DEF LogTypes
    <3> QED
      BY <2>0, <3>1, <3>2, <3>3 DEF PipelineTypes, LogTypes, RestTypes, InTxn, Idle, Last
  <2>10. ASSUME NEW p \in Rebuildable, Rebuild(p)
         PROVE  PipelineTypes'
    <3>1. phase = "down" /\ UNCHANGED <<model, txn, phase>>
      BY <2>10 DEF Rebuild
    <3>2. ~InTxn
      BY <2>0, <3>1 DEF OpenTypes
    <3> QED
      BY <2>0, <2>10, <3>1, <3>2, RebuildTyped DEF PipelineTypes, InTxn, Idle
  <2>11. CASE UNCHANGED vars
    BY <2>0, <2>11 DEF vars, PipelineTypes, LogTypes, RestTypes, OpenTypes, InTxn, Idle, Last
  <2> QED
    BY <2>1, <2>2, <2>3, <2>4, <2>5, <2>6, <2>7, <2>8, <2>9, <2>10, <2>11, <2>12, <2>13
    DEF Next, Commands, Decisions
<1> QED
  BY <1>1, <1>2, PipelineInvariantHolds, PTL DEF Spec

\* The types the run checks, for every bound.
THEOREM ProjectionTypes == Spec => []TypeOK
<1>1. PipelineInvariant /\ PipelineTypes => TypeOK
  <2> SUFFICES ASSUME PipelineInvariant, PipelineTypes PROVE TypeOK
    OBVIOUS
  <2>1. log \in Seq(Event)
    <3>1. TurnEvents \subseteq Event /\ log \in Seq(TurnEvents)
      BY DEF TurnEvents, PipelineTypes, LogTypes
    <3>2. Len(log) \in Nat /\ \A i \in 1..Len(log) : log[i] \in Event
      BY <3>1
    <3> QED
      BY <3>1, <3>2
  <2>2. DOMAIN rows = Projectors
    BY DEF PipelineTypes, LogTypes, Typed, IsTables
  <2>3. rows["turns"].row \in [Turns -> Rows] /\ rows["approvals"] \in [Turns -> {"none", "pending", "resolved"}]
    BY TypedTables DEF PipelineTypes, LogTypes, TurnsTable
  <2>4. InTxn => phase = "live"
    BY DEF PipelineInvariant
  <2>5. phase = "booting" <=> boot # NoBoot
    <3>1. phase = "booting" => boot.projector # 0
      BY DEF PipelineInvariant
    <3>2. NoBoot.projector = 0
      BY DEF NoBoot
    <3> QED
      BY <3>1, <3>2 DEF PipelineTypes, RestTypes
  <2>6. decided \in [Workers -> Seq(Event)] /\ uploaded \subseteq Turns
    <3>1. TurnEvents \subseteq Event /\ WaitingTypes
      BY DEF TurnEvents, PipelineTypes
    <3>2. \A w \in Workers : decided[w] \in Seq(Event)
      <4> TAKE w \in Workers
      <4>1. decided[w] \in Seq(TurnEvents)
        BY <3>1 DEF WaitingTypes
      <4>2. Len(decided[w]) \in Nat /\ \A i \in 1..Len(decided[w]) : decided[w][i] \in Event
        BY <3>1, <4>1
      <4> QED
        BY <4>1, <4>2
    <3> QED
      BY <3>1, <3>2 DEF WaitingTypes
  <2> QED
    BY <2>1, <2>2, <2>3, <2>4, <2>5, <2>6 DEF TypeOK, PipelineTypes, LogTypes, RestTypes, Rows
<1> QED
  BY <1>1, PipelineInvariantHolds, PipelineTypesHold, PTL

-----------------------------------------------------------------------------
(***************************************************************************)
(* The questions a revert keeps, counted by their numbers.                 *)
(***************************************************************************)
First(U, c) == {n \in U : Cardinality(U \cap 1..n) <= c}

LEMMA TurnSets ==
  ASSUME NEW U, U \subseteq Turns
  PROVE  IsFiniteSet(U) /\ Cardinality(U) \in Nat /\ U \subseteq Nat \ {0}
<1>1. IsFiniteSet(Turns)
  BY FS_Interval, BoundsAreCounts DEF Turns
<1>2. IsFiniteSet(U)
  BY <1>1, FS_Subset
<1> QED
  BY <1>2, FS_CardinalityType DEF Turns

LEMMA CountBelow ==
  ASSUME NEW U, U \subseteq Turns, NEW n \in U
  PROVE  Cardinality(U \cap 1..n) = Cardinality({o \in U : o < n}) + 1
<1> DEFINE below == {o \in U : o < n}
<1>1. U \subseteq Nat \ {0} /\ IsFiniteSet(below)
  BY TurnSets
<1>2. n \in Nat /\ n # 0 /\ \A o \in U : o \in Nat /\ o # 0
  BY <1>1
<1>3. \A o : o \in U \cap 1..n <=> o \in below \cup {n}
  <2>1. ASSUME NEW o \in U PROVE o \in 1..n <=> o < n \/ o = n
    BY <1>2
  <2> QED
    BY <2>1
<1>4. U \cap 1..n = below \cup {n}
  BY <1>3
<1>5. n \notin below
  BY <1>2
<1> HIDE DEF below
<1>6. Cardinality(below \cup {n}) = Cardinality(below) + 1
  BY <1>1, <1>5, FS_AddElement
<1> QED
  BY <1>4, <1>6 DEF below

(* When the first c are kept by name, no other finds room.                 *)
LEMMA NoRoomLeft ==
  ASSUME NEW U, U \subseteq Turns, NEW c \in Nat, NEW r \in U \ First(U, c)
  PROVE  ~(Cardinality({o \in U \ First(U, c) : o < r}) < c - Cardinality(First(U, c)))
<1> DEFINE S == First(U, c)
           R == U \ S
           below == {o \in R : o < r}
<1>1. /\ U \subseteq Nat \ {0} /\ S \subseteq U /\ S \subseteq Turns /\ below \subseteq Turns
      /\ U \cap 1..r \subseteq Turns
  BY TurnSets DEF First
<1>2. Cardinality(U \cap 1..r) > c /\ Cardinality(U \cap 1..r) \in Nat
  BY <1>1, TurnSets DEF First
<1>3. IsFiniteSet(S) /\ Cardinality(S) \in Nat /\ IsFiniteSet(below) /\ Cardinality(below) \in Nat
  BY <1>1, TurnSets
<1>4. U \cap 1..r \subseteq (S \cup below) \cup {r}
  BY <1>1
<1> HIDE DEF S, below
<1>5. IsFiniteSet(S \cup below) /\ Cardinality(S \cup below) <= Cardinality(S) + Cardinality(below)
  <2>1. IsFiniteSet(S \cap below) /\ Cardinality(S \cap below) \in Nat
    BY <1>3, FS_Intersection, FS_CardinalityType
  <2>2. /\ IsFiniteSet(S \cup below)
        /\ Cardinality(S \cup below) = Cardinality(S) + Cardinality(below) - Cardinality(S \cap below)
    BY <1>3, FS_Union
  <2>3. PICK a, b, d \in Nat :
          a = Cardinality(S) /\ b = Cardinality(below) /\ d = Cardinality(S \cap below)
    BY <1>3, <2>1
  <2>4. a + b - d <= a + b
    OBVIOUS
  <2> QED
    BY <2>2, <2>3, <2>4
<1>6. /\ IsFiniteSet((S \cup below) \cup {r}) /\ Cardinality(S \cup below) \in Nat
      /\ Cardinality((S \cup below) \cup {r}) \in Nat
      /\ Cardinality((S \cup below) \cup {r}) <= Cardinality(S \cup below) + 1
  <2>1. /\ IsFiniteSet((S \cup below) \cup {r})
        /\ Cardinality((S \cup below) \cup {r})
             = IF r \in S \cup below THEN Cardinality(S \cup below) ELSE Cardinality(S \cup below) + 1
    BY <1>5, FS_AddElement
  <2>2. Cardinality(S \cup below) \in Nat
    BY <1>5, FS_CardinalityType
  <2> QED
    BY <2>1, <2>2
<1>7. Cardinality(U \cap 1..r) <= Cardinality((S \cup below) \cup {r})
  BY <1>4, <1>6, FS_Subset
<1>8. ~(Cardinality(below) < c - Cardinality(S))
  <2>1. PICK a, b, d, x, y \in Nat :
          /\ a = Cardinality(S) /\ b = Cardinality(below) /\ d = Cardinality(U \cap 1..r)
          /\ x = Cardinality(S \cup below) /\ y = Cardinality((S \cup below) \cup {r})
    BY <1>2, <1>3, <1>6
  <2>2. d > c /\ x <= a + b /\ y <= x + 1 /\ d <= y
    BY <1>2, <1>5, <1>6, <1>7, <2>1
  <2>3. ~(b < c - a)
    BY <2>2
  <2> QED
    BY <2>1, <2>3
<1> QED
  BY <1>8 DEF S, below

(***************************************************************************)
(* User messages are known by their numbers.                               *)
(***************************************************************************)
LEMMA UserCount ==
  ASSUME NEW X, X \subseteq UserMessages
  PROVE  IsFiniteSet(X) /\ Cardinality(X) = Cardinality({m.n : m \in X})
<1> DEFINE D == {m.n : m \in X}
           f == [n \in D |-> MessageOf("user", n, 0, 1)]
<1>1. \A m \in X : m.n \in Turns /\ m = MessageOf("user", m.n, 0, 1)
  BY MessageFields
<1>2. IsFiniteSet(D)
  BY <1>1, TurnSets
<1>3. f \in [D -> X]
  BY <1>1
<1>4. \A a, b \in D : f[a] = f[b] => a = b
  BY DEF MessageOf
<1>5. \A m \in X : \E n \in D : f[n] = m
  BY <1>1
<1> HIDE DEF f
<1>6. f \in Bijection(D, X)
  BY <1>3, <1>4, <1>5, Fun_IsBij
<1>7. ExistsBijection(D, X)
  BY <1>6 DEF ExistsBijection
<1> QED
  BY <1>2, <1>7, FS_Bijection

LEMMA Roles ==
  ASSUME NEW messages, messages \subseteq Messages
  PROVE  /\ OfRole(messages, "user") \subseteq UserMessages
         /\ OfRole(messages, "user") = messages \cap UserMessages
         /\ OfRole(messages, "assistant") = messages \cap AssistantMessages
         /\ Ids(messages, "user") \subseteq Turns
BY MessageFields DEF OfRole, Messages, Ids

LEMMA OldestIds ==
  ASSUME NEW X, X \subseteq UserMessages, NEW c
  PROVE  {m.n : m \in Oldest(X, c)}
           = {n \in {m.n : m \in X} : Cardinality({o \in {m.n : m \in X} : o < n}) < c}
<1> DEFINE D == {m.n : m \in X}
<1>1. ASSUME NEW m \in X
      PROVE  Cardinality({o \in X : o.n < m.n}) = Cardinality({o \in D : o < m.n})
  <2>1. {o.n : o \in {o \in X : o.n < m.n}} = {o \in D : o < m.n}
    OBVIOUS
  <2>2. {o \in X : o.n < m.n} \subseteq UserMessages
    OBVIOUS
  <2> QED
    BY <2>1, <2>2, UserCount
<1> QED
  BY <1>1 DEF Oldest

-----------------------------------------------------------------------------
(***************************************************************************)
(* What a revert keeps of each role.  Answers go with their turns; the     *)
(* questions that stay are the first ones, named by their turns or, where  *)
(* nothing names them, by the fallback.                                    *)
(***************************************************************************)
LEMMA RetainedAssistants ==
  ASSUME NEW messages, messages \subseteq Messages, NEW turns, turns \subseteq Turns,
         NEW named, named \subseteq messages, NEW count,
         \A m \in named : m.role = "assistant" => m.n \in turns
  PROVE  OfRole(RetainMessages(messages, named, turns, count), "assistant")
           = {m \in OfRole(messages, "assistant") : m.n \in turns}
<1> DEFINE kept == named \cup {m \in messages : m.turn \in turns}
           left == {m \in OfRole(messages, "assistant") \ kept : m.turn \in turns \cup {0}}
           all == RetainMessages(messages, named, turns, count)
<1>1. \A m \in messages : m.role = "assistant" => m.turn = m.n /\ m.n \in Turns /\ m.n # 0
  BY MessageFields, BoundsAreCounts DEF Messages, Turns
<1>2. left = {}
  BY <1>1 DEF OfRole
<1>3. Fallback(messages, kept, turns, "assistant", count) = {}
  BY <1>2 DEF Fallback, Oldest
<1>4. \A m \in Fallback(messages, kept, turns, "user", count) : m.role = "user"
  BY DEF Fallback, Oldest, OfRole
<1>5. all = (kept \cup Fallback(messages, kept, turns, "user", count))
              \cup Fallback(messages, kept, turns, "assistant", count)
  BY DEF RetainMessages
<1> HIDE DEF all
<1>6. \A m : m \in all /\ m.role = "assistant" <=> m \in kept /\ m.role = "assistant"
  BY <1>3, <1>4, <1>5
<1>7. \A m : m \in kept /\ m.role = "assistant" <=> m \in messages /\ m.role = "assistant" /\ m.n \in turns
  BY <1>1
<1> QED
  BY <1>6, <1>7 DEF OfRole, all

(***************************************************************************)
(* Questions kept when those of N are named: fallback fills up to c with   *)
(* the oldest others.                                                      *)
(***************************************************************************)
Kept(U, N, c) ==
  N \cup {n \in U \ N : Cardinality({o \in U \ N : o < n}) < c - Cardinality(N)}

LEMMA KeptQuestions ==
  ASSUME NEW messages, messages \subseteq Messages, NEW turns, turns \subseteq Turns,
         NEW named, named \subseteq messages, NEW count
  PROVE  Ids(RetainMessages(messages, named, turns, count), "user")
           = Kept(Ids(messages, "user"), Ids(named, "user"), count)
<1> DEFINE kept == named \cup {m \in messages : m.turn \in turns}
           X == OfRole(messages, "user")
           N == OfRole(named, "user")
           U == Ids(messages, "user")
           all == RetainMessages(messages, named, turns, count)
           rest == Oldest(X \ N, count - Cardinality(N))
<1>1. \A m \in messages : m.role = "user" => m.turn = 0 /\ m.turn \notin turns
  BY MessageFields, BoundsAreCounts DEF Messages, Turns
<1>2. X \subseteq UserMessages /\ N \subseteq X /\ U \subseteq Turns
  BY Roles DEF OfRole
<1>3. OfRole(kept, "user") = N /\ {m \in X \ kept : m.turn \in turns \cup {0}} = X \ N
  BY <1>1 DEF OfRole
<1>4. Fallback(messages, kept, turns, "user", count) = rest
  BY <1>3 DEF Fallback
<1>5. \A m \in Fallback(messages, kept, turns, "assistant", count) : m.role = "assistant"
  BY DEF Fallback, Oldest, OfRole
<1>6. rest \subseteq X \ N
  BY DEF Oldest
<1>7. OfRole(all, "user") = N \cup rest
  <2>1. all = (kept \cup rest) \cup Fallback(messages, kept, turns, "assistant", count)
    BY <1>4 DEF RetainMessages
  <2> HIDE DEF all, rest
  <2>2. \A m : m \in all /\ m.role = "user" <=> (m \in kept /\ m.role = "user") \/ m \in rest
    BY <1>5, <1>6, <2>1 DEF OfRole
  <2>3. \A m : m \in kept /\ m.role = "user" <=> m \in N
    BY <1>3 DEF OfRole
  <2> HIDE DEF N, kept
  <2> QED
    BY <2>2, <2>3 DEF OfRole
<1>8. {m.n : m \in N} = Ids(named, "user") /\ {m.n : m \in X} = U
  BY DEF Ids
<1>9. Cardinality(N) = Cardinality(Ids(named, "user"))
  <2>1. N \subseteq UserMessages
    BY <1>2
  <2> HIDE DEF N
  <2> QED
    BY <1>8, <2>1, UserCount
<1>10. {m.n : m \in X \ N} = U \ Ids(named, "user")
  <2>1. \A m \in X, k \in X : m.n = k.n => m = k
    BY <1>2, MessageFields
  <2>2. {m.n : m \in X \ N} = {m.n : m \in X} \ {m.n : m \in N}
    BY <1>2, <2>1
  <2> QED
    BY <1>8, <2>2
<1>11. {m.n : m \in rest}
         = {n \in U \ Ids(named, "user") :
              Cardinality({o \in U \ Ids(named, "user") : o < n}) < count - Cardinality(Ids(named, "user"))}
  <2> DEFINE k == count - Cardinality(N)
  <2>1. X \ N \subseteq UserMessages
    BY <1>2
  <2> HIDE DEF X, N, U, k
  <2>2. {m.n : m \in Oldest(X \ N, k)}
          = {n \in {m.n : m \in X \ N} : Cardinality({o \in {m.n : m \in X \ N} : o < n}) < k}
    BY <2>1, OldestIds
  <2> QED
    BY <1>9, <1>10, <2>2 DEF k
<1>12. Ids(all, "user") = {m.n : m \in N} \cup {m.n : m \in rest}
  <2> HIDE DEF N, rest, all
  <2> QED
    BY <1>7 DEF Ids
<1> HIDE DEF all, N, rest
<1> QED
  BY <1>8, <1>11, <1>12 DEF Kept, U, all

(* Named or not, the first count questions are kept.                       *)
LEMMA RetainedUsers ==
  ASSUME NEW messages, messages \subseteq Messages, NEW turns, turns \subseteq Turns,
         NEW named, named \subseteq messages, NEW count \in Nat,
         \/ OfRole(named, "user") = {}
         \/ Ids(named, "user") = First(Ids(messages, "user"), count)
  PROVE  Ids(RetainMessages(messages, named, turns, count), "user")
           = First(Ids(messages, "user"), count)
<1> DEFINE U == Ids(messages, "user")
           N == Ids(named, "user")
<1>1. U \subseteq Turns
  BY Roles
<1>2. SUFFICES Kept(U, N, count) = First(U, count)
  BY KeptQuestions
<1>3. CASE N = First(U, count)
  <2> DEFINE R == U \ First(U, count)
  <2>1. \A n \in R : ~(Cardinality({o \in R : o < n}) < count - Cardinality(First(U, count)))
    BY <1>1, NoRoomLeft
  <2> HIDE DEF U, N
  <2> QED
    BY <1>3, <2>1 DEF Kept
<1>4. CASE OfRole(named, "user") = {}
  <2>1. N = {}
    BY <1>4 DEF Ids
  <2>2. Cardinality({}) = 0 /\ U \ {} = U
    BY FS_EmptySet
  <2>3. \A n \in U : Cardinality({o \in U : o < n}) < count <=> Cardinality(U \cap 1..n) <= count
    <3> TAKE n \in U
    <3>1. Cardinality(U \cap 1..n) = Cardinality({o \in U : o < n}) + 1
      BY <1>1, CountBelow
    <3>2. {o \in U : o < n} \subseteq Turns
      BY <1>1
    <3>3. PICK a \in Nat : a = Cardinality({o \in U : o < n})
      BY <3>2, TurnSets
    <3>4. a < count <=> a + 1 <= count
      OBVIOUS
    <3> HIDE DEF U
    <3> QED
      BY <3>1, <3>3, <3>4
  <2> HIDE DEF U, N
  <2>4. Kept(U, N, count) = {n \in U : Cardinality({o \in U : o < n}) < count - 0}
    BY <2>1, <2>2 DEF Kept
  <2> QED
    BY <2>3, <2>4 DEF First
<1> QED
  BY <1>3, <1>4

-----------------------------------------------------------------------------
(***************************************************************************)
(* Tables and read model after the same events.  Both know the checkpoint  *)
(* counts of the turns, each count is one turn's, and both keep the same   *)
(* activities and answers; the questions too where reverts were in order.  *)
(***************************************************************************)
SameCounts(t, m) ==
  /\ \A u \in Turns : t["turns"].row[u].count = m.count[u]
  /\ \A u, v \in Turns : m.count[u] # 0 /\ m.count[u] = m.count[v] => u = v
  /\ \A u \in m.real : m.count[u] # 0

SameRest(t, m) ==
  /\ t["activities"] = m.activities
  /\ OfRole(t["messages"], "assistant") = OfRole(m.messages, "assistant")

SameUsers(t, m) == Ids(t["messages"], "user") = Ids(m.messages, "user")

InOrder(t, e) ==
  e.type = "reverted" =>
    LET turns == t["turns"].row
        users == Ids(t["messages"], "user")
    IN  {turns[u].pending : u \in KeptTurns(turns, e.count)}
          = {n \in users : Cardinality(users \cap 1..n) <= e.count}

LEMMA EventFacts ==
  ASSUME NEW e \in TurnEvents
  PROVE  /\ e.type \in EventTypes /\ e.n \in 0..MaxTurns /\ e.count \in 0..MaxTurns
         /\ e.type \notin {"reverted", "deleted"} => e.n \in Turns
         /\ MaxTurns \in Nat /\ e.count \in Nat
BY BoundsAreCounts DEF TurnEvents, Event

LEMMA ModelFacts ==
  ASSUME NEW m \in Models
  PROVE  /\ m = [messages |-> m.messages, activities |-> m.activities, count |-> m.count,
                 real |-> m.real]
         /\ m.messages \subseteq Messages /\ m.count \in [Turns -> 0..MaxTurns]
         /\ \A u \in Turns : m.count[u] \in Nat
         /\ m.real \subseteq Turns
BY BoundsAreCounts DEF Models

LEMMA SameKeptTurns ==
  ASSUME NEW t, NEW m, SameCounts(t, m), NEW c
  PROVE  KeptTurns(t["turns"].row, c) = {u \in Turns : m.count[u] \in 1..c}
BY DEF KeptTurns, SameCounts

(* The counts of the rows of turns after an event.                         *)
LEMMA CountsAfter ==
  ASSUME NEW t, Typed(t), NEW e \in TurnEvents, NEW u \in Turns
  PROVE  LET old == t["turns"].row[u].count
         IN  ApplyThreadTurns(t, e).row[u].count
               = IF e.type = "turn-diff-completed"
                 THEN IF u = e.n THEN e.count ELSE IF old = e.count THEN 0 ELSE old
                 ELSE IF e.type = "reverted"
                 THEN IF u \in KeptTurns(t["turns"].row, e.count) THEN old ELSE 0
                 ELSE old
<1> DEFINE table == t["turns"]
           old == table.row[u].count
<1>1. table \in TurnsTable /\ table.row \in [Turns -> Rows]
  BY TypedTables DEF TurnsTable
<1>2. \A v \in Turns : table.row[v] \in Rows
  BY <1>1
<1>3. table = [row |-> table.row, pendingStart |-> table.pendingStart]
  BY <1>1 DEF TurnsTable
<1>4. e.type \notin {"reverted", "deleted"} => e.n \in Turns
  BY EventFacts
<1> HIDE DEF table
<1>5. CASE e.type = "turn-diff-completed"
  <2>1. ApplyThreadTurns(t, e).row = TurnCompleted(table.row, e)
    BY <1>3, <1>5 DEF ApplyThreadTurns, table
  <2> DEFINE outcome == IF e.status = "error" THEN "error" ELSE "completed"
             done(v) == [table.row[v] EXCEPT !.state = outcome, !.count = e.count, !.answered = TRUE]
  <2>2. ApplyThreadTurns(t, e).row[u]
          = IF u = e.n THEN done(u)
            ELSE IF table.row[u].count = e.count THEN [table.row[u] EXCEPT !.count = 0]
            ELSE table.row[u]
    BY <2>1 DEF TurnCompleted
  <2> HIDE DEF outcome
  <2>3. done(u).count = e.count /\ [table.row[u] EXCEPT !.count = 0].count = 0
    BY <1>2 DEF Rows
  <2> HIDE DEF done
  <2> QED
    BY <1>5, <2>2, <2>3 DEF table
<1>6. CASE e.type = "reverted"
  <2>1. ApplyThreadTurns(t, e).row[u]
          = IF u \in KeptTurns(table.row, e.count) THEN table.row[u] ELSE NoRow
    BY <1>6 DEF ApplyThreadTurns, table
  <2>2. NoRow.count = 0
    BY DEF NoRow
  <2> QED
    BY <1>6, <2>1, <2>2 DEF table
<1>7. CASE e.type = "turn-start-requested"
  BY <1>3, <1>7 DEF ApplyThreadTurns, table
<1>8. CASE e.type = "session-running"
  <2> DEFINE new == [table.row[e.n] EXCEPT !.state = IF @ \in {"completed", "error"} THEN @ ELSE "running",
                              !.pending = IF @ = 0 THEN table.pendingStart ELSE @]
  <2>1. ApplyThreadTurns(t, e).row = [table.row EXCEPT ![e.n] = new]
    BY <1>8 DEF ApplyThreadTurns, TurnRuns, table
  <2>2. new.count = table.row[e.n].count
    BY <1>2, <1>4, <1>8 DEF Rows
  <2> HIDE DEF new
  <2> QED
    BY <1>1, <1>8, <2>1, <2>2 DEF table
<1>9. CASE e.type = "assistant-message"
  <2>1. ApplyThreadTurns(t, e).row = [table.row EXCEPT ![e.n] = TurnAnswered(@, e)]
    BY <1>3, <1>9 DEF ApplyThreadTurns, table
  <2>2. TurnAnswered(table.row[e.n], e).count = table.row[e.n].count
    BY <1>2, <1>4, <1>9 DEF Rows, TurnAnswered
  <2> QED
    BY <1>1, <1>9, <2>1, <2>2 DEF table
<1>10. CASE e.type = "turn-interrupt-requested"
  <2>1. ApplyThreadTurns(t, e).row = [table.row EXCEPT ![e.n].state = "interrupted"]
    BY <1>3, <1>10 DEF ApplyThreadTurns, table
  <2>2. [table.row[e.n] EXCEPT !.state = "interrupted"].count = table.row[e.n].count
    BY <1>2, <1>4, <1>10 DEF Rows
  <2> QED
    BY <1>1, <1>10, <2>1, <2>2 DEF table
<1>11. CASE e.type \notin {"turn-start-requested", "session-running", "assistant-message",
                           "turn-interrupt-requested", "turn-diff-completed", "reverted"}
  BY <1>11 DEF ApplyThreadTurns, table
<1> QED
  BY <1>5, <1>6, <1>7, <1>8, <1>9, <1>10, <1>11

LEMMA ModelCountsAfter ==
  ASSUME NEW m \in Models, NEW e \in TurnEvents, NEW u \in Turns
  PROVE  ProjectEvent(m, e).count[u]
           = IF e.type = "turn-diff-completed"
             THEN IF u = e.n /\ ~(e.status = "missing" /\ u \in m.real) THEN e.count ELSE m.count[u]
             ELSE IF e.type = "reverted"
             THEN IF m.count[u] \in 1..e.count THEN m.count[u] ELSE 0
             ELSE m.count[u]
<1>1. m = [messages |-> m.messages, activities |-> m.activities, count |-> m.count, real |-> m.real]
      /\ m.count \in [Turns -> 0..MaxTurns]
  BY ModelFacts
<1>2. CASE e.type = "turn-diff-completed"
  <2>1. ProjectEvent(m, e).count = IF e.status = "missing" /\ e.n \in m.real THEN m.count
                                   ELSE [m.count EXCEPT ![e.n] = e.count]
    BY <1>1, <1>2 DEF ProjectEvent, CheckpointTaken
  <2> QED
    BY <1>1, <1>2, <2>1
<1>3. CASE e.type = "reverted"
  BY <1>3 DEF ProjectEvent
<1>4. CASE e.type \notin {"turn-diff-completed", "reverted"}
  <2>1. ProjectEvent(m, e).count = m.count
    BY <1>1, <1>4 DEF ProjectEvent
  <2> QED
    BY <1>4, <2>1
<1> QED
  BY <1>2, <1>3, <1>4

LEMMA RealAfter ==
  ASSUME NEW m \in Models, NEW e \in TurnEvents
  PROVE  ProjectEvent(m, e).real
           \subseteq IF e.type = "turn-diff-completed" THEN m.real \cup {e.n}
                     ELSE IF e.type = "reverted" THEN {u \in m.real : m.count[u] \in 1..e.count}
                     ELSE m.real
<1>1. m = [messages |-> m.messages, activities |-> m.activities, count |-> m.count, real |-> m.real]
      /\ m.real \subseteq Turns
  BY ModelFacts
<1>2. CASE e.type = "turn-diff-completed"
  <2>1. ProjectEvent(m, e).real \in {m.real, m.real \cup {e.n}}
    BY <1>1, <1>2 DEF ProjectEvent, CheckpointTaken
  <2> QED
    BY <1>2, <2>1
<1>3. CASE e.type = "reverted"
  <2>1. ProjectEvent(m, e).real = m.real \cap {t \in Turns : m.count[t] \in 1..e.count}
    BY <1>3 DEF ProjectEvent
  <2> QED
    BY <1>3, <2>1
<1>4. CASE e.type \notin {"turn-diff-completed", "reverted"}
  <2>1. ProjectEvent(m, e).real = m.real
    BY <1>1, <1>4 DEF ProjectEvent
  <2> QED
    BY <1>4, <2>1
<1> QED
  BY <1>2, <1>3, <1>4

LEMMA CountsStep ==
  ASSUME NEW t, Typed(t), NEW m \in Models, NEW e \in TurnEvents, TakesItsCount(t, e), SameCounts(t, m)
  PROVE  SameCounts(Projected(t, e), ProjectEvent(m, e))
<1> DEFINE old(u) == t["turns"].row[u].count
           new(u) == Projected(t, e)["turns"].row[u].count
           mew(u) == ProjectEvent(m, e).count[u]
           real == ProjectEvent(m, e).real
<1>1. /\ \A u \in Turns : old(u) = m.count[u]
      /\ \A u, v \in Turns : m.count[u] # 0 /\ m.count[u] = m.count[v] => u = v
      /\ m.real \subseteq Turns /\ \A u \in m.real : m.count[u] # 0
  BY ModelFacts DEF SameCounts
<1>2. Projected(t, e)["turns"] = ApplyThreadTurns(t, e)
  BY ProjectedTables, Names DEF Typed, Apply
<1>3. e.count \in Nat /\ \A u \in Turns : m.count[u] \in Nat
  BY EventFacts, ModelFacts
<1>4. CASE e.type = "turn-diff-completed"
  <2>1. e.n \in Turns /\ e.count # 0
        /\ IF m.count[e.n] # 0 THEN e.count = m.count[e.n] ELSE \A u \in Turns : m.count[u] < e.count
    <3>1. e.n \in Turns
      BY <1>4, EventFacts
    <3> QED
      BY <1>1, <1>4, <3>1 DEF TakesItsCount
  <2>4. ASSUME NEW u \in Turns, u # e.n PROVE m.count[u] # e.count
    BY <1>1, <1>3, <2>1, <2>4
  <2>6. \A u \in Turns : new(u) = IF u = e.n THEN e.count ELSE m.count[u]
    BY <1>1, <1>2, <1>4, <2>4, CountsAfter
  <2>7. \A u \in Turns : mew(u) = IF u = e.n THEN e.count ELSE m.count[u]
    <3> TAKE u \in Turns
    <3>1. mew(u) = IF u = e.n /\ ~(e.status = "missing" /\ u \in m.real) THEN e.count ELSE m.count[u]
      BY <1>4, ModelCountsAfter
    <3> HIDE DEF mew
    <3>2. u = e.n /\ u \in m.real => m.count[u] = e.count
      BY <1>1, <2>1
    <3> QED
      BY <3>1, <3>2
  <2>9. real \subseteq m.real \cup {e.n}
    BY <1>4, RealAfter
  <2> HIDE DEF new, mew, real
  <2>8. /\ \A u \in Turns : new(u) = mew(u)
        /\ \A u, v \in Turns : mew(u) # 0 /\ mew(u) = mew(v) => u = v
        /\ \A u \in real : mew(u) # 0
    BY <1>1, <2>1, <2>4, <2>6, <2>7, <2>9
  <2> QED
    BY <2>8 DEF SameCounts, new, mew, real
<1>5. CASE e.type = "reverted"
  <2>1. \A u \in Turns : u \in KeptTurns(t["turns"].row, e.count) <=> m.count[u] \in 1..e.count
    BY SameKeptTurns
  <2>2. \A u \in Turns : new(u) = IF m.count[u] \in 1..e.count THEN m.count[u] ELSE 0
    BY <1>1, <1>2, <1>5, <2>1, CountsAfter
  <2>3. \A u \in Turns : mew(u) = IF m.count[u] \in 1..e.count THEN m.count[u] ELSE 0
    BY <1>5, ModelCountsAfter
  <2>5. real \subseteq {u \in m.real : m.count[u] \in 1..e.count}
    BY <1>5, RealAfter
  <2> HIDE DEF new, mew, real
  <2>4. /\ \A u \in Turns : new(u) = mew(u)
        /\ \A u, v \in Turns : mew(u) # 0 /\ mew(u) = mew(v) => u = v
        /\ \A u \in real : mew(u) # 0
    BY <1>1, <2>2, <2>3, <2>5
  <2> QED
    BY <2>4 DEF SameCounts, new, mew, real
<1>6. CASE e.type \notin {"turn-diff-completed", "reverted"}
  <2>1. \A u \in Turns : new(u) = m.count[u]
    BY <1>1, <1>2, <1>6, CountsAfter
  <2>2. \A u \in Turns : mew(u) = m.count[u]
    BY <1>6, ModelCountsAfter
  <2>4. real \subseteq m.real
    BY <1>6, RealAfter
  <2> HIDE DEF new, mew, real
  <2>3. /\ \A u \in Turns : new(u) = mew(u)
        /\ \A u, v \in Turns : mew(u) # 0 /\ mew(u) = mew(v) => u = v
        /\ \A u \in real : mew(u) # 0
    BY <1>1, <2>1, <2>2, <2>4
  <2> QED
    BY <2>3 DEF SameCounts, new, mew, real
<1> QED
  BY <1>4, <1>5, <1>6

(* A message is written the same way into both.                            *)
LEMMA SentRoles ==
  ASSUME NEW a, a \subseteq Messages, NEW b, b \subseteq Messages, NEW e \in TurnEvents,
         e.type \in {"user-message", "assistant-message"},
         OfRole(a, "assistant") = OfRole(b, "assistant")
  PROVE  /\ OfRole(MessageSent(a, e), "assistant") = OfRole(MessageSent(b, e), "assistant")
         /\ Ids(a, "user") = Ids(b, "user") => Ids(MessageSent(a, e), "user") = Ids(MessageSent(b, e), "user")
<1>1. CASE e.type = "user-message"
  <2> DEFINE new == MessageOf("user", e.n, 0, 1)
  <2>1. new.role = "user" /\ new.n = e.n
    BY DEF MessageOf
  <2>2. \A x : MessageSent(x, e) = (x \ {k \in x : k.role = "user" /\ k.n = e.n}) \cup {new}
    BY <1>1 DEF MessageSent
  <2> HIDE DEF new
  <2>3. \A x : OfRole(MessageSent(x, e), "assistant") = OfRole(x, "assistant")
    BY <2>1, <2>2 DEF OfRole
  <2>4. ASSUME NEW x PROVE Ids(MessageSent(x, e), "user") = Ids(x, "user") \cup {e.n}
    <3>1. \A n : n \in Ids(MessageSent(x, e), "user") <=> n \in Ids(x, "user") \cup {e.n}
      BY <2>1, <2>2 DEF OfRole, Ids
    <3> QED
      BY <3>1
  <2> QED
    BY <2>3, <2>4
<1>2. CASE e.type = "assistant-message"
  <2> DEFINE old(x) == {k \in x : k.role = "assistant" /\ k.n = e.n}
             text == IF e.streaming THEN 1 ELSE 0
             new(x) == MessageOf("assistant", e.n, e.n,
                                 IF old(x) = {} THEN text ELSE text + (CHOOSE k \in old(x) : TRUE).text)
  <2>1. \A x : MessageSent(x, e) = (x \ old(x)) \cup {new(x)}
    BY <1>2 DEF MessageSent
  <2>2. old(a) = old(b)
    <3>1. \A x : old(x) = {k \in OfRole(x, "assistant") : k.n = e.n}
      BY DEF OfRole
    <3> QED
      BY <3>1
  <2>3. new(a) = new(b)
    BY <2>2
  <2>4. \A x : new(x).role = "assistant"
    BY DEF MessageOf
  <2>5. \A x : \A k \in old(x) : k.role = "assistant"
    OBVIOUS
  <2> HIDE DEF new, old
  <2>6. \A x : OfRole(MessageSent(x, e), "assistant") = (OfRole(x, "assistant") \ old(x)) \cup {new(x)}
    BY <2>1, <2>4 DEF OfRole
  <2>7. \A x : OfRole(MessageSent(x, e), "user") = OfRole(x, "user")
    BY <2>1, <2>4, <2>5 DEF OfRole
  <2> QED
    BY <2>2, <2>3, <2>6, <2>7 DEF Ids
<1> QED
  BY <1>1, <1>2

LEMMA RestStep ==
  ASSUME NEW t, Typed(t), NEW m \in Models, NEW e \in TurnEvents,
         SameCounts(t, m), SameRest(t, m)
  PROVE  /\ SameRest(Projected(t, e), ProjectEvent(m, e))
         /\ SameUsers(t, m) /\ InOrder(t, e) => SameUsers(Projected(t, e), ProjectEvent(m, e))
<1> DEFINE turns == t["turns"].row
           kept == KeptTurns(turns, e.count)
           messages == t["messages"]
<1>1. /\ Projected(t, e)["activities"] = ActivityAfter(t["activities"], e, kept)
      /\ Projected(t, e)["messages"] = ApplyThreadMessages(t, e)
  BY ProjectedTables, Names DEF Typed, Apply, ApplyThreadActivities
<1>2. kept = {u \in Turns : m.count[u] \in 1..e.count} /\ kept \subseteq Turns
  BY SameKeptTurns DEF KeptTurns
<1>3. messages \subseteq Messages /\ m.messages \subseteq Messages /\ e.count \in Nat
      /\ m = [messages |-> m.messages, activities |-> m.activities, count |-> m.count, real |-> m.real]
  BY TypedTables, ModelFacts, EventFacts
<1>4. t["activities"] = m.activities /\ OfRole(messages, "assistant") = OfRole(m.messages, "assistant")
  BY DEF SameRest
<1>5. CASE e.type \in {"user-message", "assistant-message"}
  <2>1. ProjectEvent(m, e).messages = MessageSent(m.messages, e) /\ ProjectEvent(m, e).activities = m.activities
    BY <1>3, <1>5 DEF ProjectEvent
  <2>2. ApplyThreadMessages(t, e) = MessageSent(messages, e)
    BY <1>5 DEF ApplyThreadMessages
  <2>3. ActivityAfter(t["activities"], e, kept) = t["activities"]
    BY <1>5 DEF ActivityAfter
  <2> QED
    BY <1>1, <1>3, <1>4, <1>5, <2>1, <2>2, <2>3, SentRoles DEF SameRest, SameUsers
<1>6. CASE e.type = "reverted"
  <2> DEFINE named == {k \in messages :
                        \E u \in kept : \/ k.role = "user" /\ k.n = turns[u].pending
                                        \/ k.role = "assistant" /\ k.n = u /\ turns[u].answered}
             users == Ids(messages, "user")
  <2>1. ApplyThreadMessages(t, e) = RetainMessages(messages, named, kept, e.count)
    BY <1>6 DEF ApplyThreadMessages
  <2>2. /\ ProjectEvent(m, e).messages = RetainMessages(m.messages, {}, kept, e.count)
        /\ ProjectEvent(m, e).activities = RetainActivities(m.activities, kept)
    BY <1>2, <1>6 DEF ProjectEvent
  <2>3. ActivityAfter(t["activities"], e, kept) = RetainActivities(t["activities"], kept)
    BY <1>6 DEF ActivityAfter
  <2>4. named \subseteq messages /\ \A k \in named : k.role = "assistant" => k.n \in kept
    OBVIOUS
  <2>5. InOrder(t, e) => Ids(named, "user") = First(users, e.count)
    <3> SUFFICES ASSUME InOrder(t, e) PROVE Ids(named, "user") = First(users, e.count)
      OBVIOUS
    <3>1. {turns[u].pending : u \in kept} = First(users, e.count)
      BY <1>6 DEF InOrder, First
    <3>2. First(users, e.count) \subseteq users
      BY DEF First
    <3>3. \A n : n \in Ids(named, "user") <=> n \in users /\ n \in {turns[u].pending : u \in kept}
      BY DEF Ids, OfRole
    <3> QED
      BY <3>1, <3>2, <3>3
  <2> HIDE DEF named, kept, messages
  <2>6. OfRole(RetainMessages(messages, named, kept, e.count), "assistant")
          = {k \in OfRole(messages, "assistant") : k.n \in kept}
    BY <1>2, <1>3, <2>4, RetainedAssistants
  <2>7. OfRole(RetainMessages(m.messages, {}, kept, e.count), "assistant")
          = {k \in OfRole(m.messages, "assistant") : k.n \in kept}
    BY <1>2, <1>3, RetainedAssistants
  <2>8. Ids(RetainMessages(m.messages, {}, kept, e.count), "user") = First(Ids(m.messages, "user"), e.count)
    <3>1. OfRole({}, "user") = {}
      BY DEF OfRole
    <3> QED
      BY <1>2, <1>3, <3>1, RetainedUsers
  <2>9. InOrder(t, e) => Ids(RetainMessages(messages, named, kept, e.count), "user") = First(users, e.count)
    BY <1>2, <1>3, <2>4, <2>5, RetainedUsers
  <2>10. SameRest(Projected(t, e), ProjectEvent(m, e))
    BY <1>1, <1>4, <2>1, <2>2, <2>3, <2>6, <2>7 DEF SameRest
  <2>11. SameUsers(t, m) /\ InOrder(t, e) => SameUsers(Projected(t, e), ProjectEvent(m, e))
    BY <1>1, <2>1, <2>2, <2>8, <2>9 DEF SameUsers, messages
  <2> QED
    BY <2>10, <2>11
<1>7. CASE e.type \notin {"user-message", "assistant-message", "reverted"}
  <2>1. ApplyThreadMessages(t, e) = messages
    BY <1>7 DEF ApplyThreadMessages
  <2>2. ProjectEvent(m, e).messages = m.messages
    <3>1. CASE e.type = "turn-diff-completed"
      <4>1. ProjectEvent(m, e) = CheckpointTaken(m, e)
        BY <3>1 DEF ProjectEvent
      <4> QED
        BY <1>3, <4>1 DEF CheckpointTaken
    <3>2. CASE e.type # "turn-diff-completed"
      <4> HIDE DEF kept
      <4>1. ProjectEvent(m, e) = [m EXCEPT !.activities = ActivityAfter(m.activities, e, kept)]
        BY <1>2, <1>7, <3>2 DEF ProjectEvent
      <4> QED
        BY <1>3, <4>1
    <3> QED
      BY <3>1, <3>2
  <2>3. ProjectEvent(m, e).activities = ActivityAfter(m.activities, e, kept)
    <3>1. CASE e.type = "turn-diff-completed"
      <4>1. ProjectEvent(m, e) = CheckpointTaken(m, e)
        BY <3>1 DEF ProjectEvent
      <4>2. ProjectEvent(m, e).activities = m.activities
        BY <1>3, <4>1 DEF CheckpointTaken
      <4> QED
        BY <3>1, <4>2 DEF ActivityAfter
    <3>2. CASE e.type # "turn-diff-completed"
      <4> HIDE DEF kept
      <4>1. ProjectEvent(m, e) = [m EXCEPT !.activities = ActivityAfter(m.activities, e, kept)]
        BY <1>2, <1>7, <3>2 DEF ProjectEvent
      <4> QED
        BY <1>3, <4>1
    <3> QED
      BY <3>1, <3>2
  <2> QED
    BY <1>1, <1>4, <2>1, <2>2, <2>3 DEF SameRest, SameUsers
<1> QED
  BY <1>5, <1>6, <1>7

(***************************************************************************)
(* The same for a whole log.                                               *)
(***************************************************************************)
TablesOf(events) == HistoryOf(events)[Len(events)]

OrderedReverts(events) ==
  \A i \in 1..Len(events) : InOrder(HistoryOf(events)[i - 1], events[i])

LogAgrees(events) ==
  /\ SameCounts(TablesOf(events), ModelOf(events))
  /\ SameRest(TablesOf(events), ModelOf(events))
  /\ OrderedReverts(events) => SameUsers(TablesOf(events), ModelOf(events))

LEMMA HistoryIsTyped ==
  ASSUME NEW events \in Seq(TurnEvents)
  PROVE  \A i \in 0..Len(events) : Typed(HistoryOf(events)[i])
<1> DEFINE n == Len(events)
           h == HistoryOf(events)
           T == {k \in Nat : k <= n => Typed(h[k])}
<1>1. n \in Nat /\ \A i \in 1..n : events[i] \in TurnEvents
  OBVIOUS
<1>2. Stages(h, events, n)
  BY <1>1, HistoryStages
<1> HIDE DEF n, h
<1>3. 0 \in T
  BY <1>1, <1>2, EmptyTyped DEF Stages
<1>4. ASSUME NEW k \in T PROVE k + 1 \in T
  <2>1. SUFFICES ASSUME k + 1 <= n PROVE Typed(h[k + 1])
    OBVIOUS
  <2>2. k + 1 \in 0..n /\ k + 1 # 0 /\ (k + 1) - 1 = k /\ k + 1 \in 1..n /\ k <= n
    BY <1>1, <2>1
  <2>3. h[k + 1] = Projected(h[k], events[k + 1])
    BY <1>2, <2>2 DEF Stages
  <2>4. Typed(h[k]) /\ events[k + 1] \in TurnEvents
    BY <1>1, <2>2
  <2> QED
    BY <2>3, <2>4, ProjectedTyped
<1> HIDE DEF T
<1>5. T \subseteq Nat
  BY DEF T
<1>6. \A k \in Nat : k \in T
  BY <1>3, <1>4, <1>5, Induction
<1> QED
  BY <1>1, <1>6 DEF T, h, n

LEMMA HistoryTyped ==
  ASSUME NEW events \in Seq(TurnEvents)
  PROVE  Typed(TablesOf(events))
<1>1. Len(events) \in 0..Len(events)
  OBVIOUS
<1> QED
  BY <1>1, HistoryIsTyped DEF TablesOf

LEMMA TablesOfAppend ==
  ASSUME NEW events, IsSeq(events), NEW e
  PROVE  TablesOf(Append(events, e)) = Projected(TablesOf(events), e)
<1> DEFINE n == Len(events)
           longer == Append(events, e)
<1>1. n \in Nat /\ Len(longer) = n + 1 /\ longer[n + 1] = e
  BY AppendSeq
<1>2. HistoryOf(longer)[n] = HistoryOf(events)[n]
  BY <1>1, HistoryAppend
<1> HIDE DEF longer
<1>3. Stages(HistoryOf(longer), longer, n + 1)
  <2>1. Stages(HistoryOf(longer), longer, Len(longer))
    BY <1>1, HistoryStages
  <2> QED
    BY <1>1, <2>1
<1>4. HistoryOf(longer)[n + 1] = Projected(HistoryOf(longer)[n], longer[n + 1])
  <2>1. n + 1 \in 0..(n + 1) /\ n + 1 # 0 /\ (n + 1) - 1 = n
    BY <1>1
  <2> QED
    BY <1>3, <2>1 DEF Stages
<1> QED
  BY <1>1, <1>2, <1>4 DEF TablesOf, longer

(* Counts in order before and with one more event.                         *)
LEMMA CountsAppend ==
  ASSUME NEW events, IsSeq(events), NEW e, CountsInOrder(Append(events, e))
  PROVE  CountsInOrder(events) /\ TakesItsCount(TablesOf(events), e)
<1> DEFINE n == Len(events)
           longer == Append(events, e)
<1>1. n \in Nat /\ Len(longer) = n + 1 /\ longer[n + 1] = e /\ \A i \in 1..n : longer[i] = events[i]
  BY AppendSeq
<1>2. \A i \in 0..n : HistoryOf(longer)[i] = HistoryOf(events)[i]
  BY HistoryAppend
<1>3. \A i \in 1..Len(longer) : TakesItsCount(HistoryOf(longer)[i - 1], longer[i])
  BY DEF CountsInOrder
<1> HIDE DEF longer
<1>4. \A i \in 1..n : i \in 1..(n + 1) /\ i - 1 \in 0..n
  BY <1>1
<1>5. n + 1 \in 1..(n + 1) /\ (n + 1) - 1 = n /\ n \in 0..n
  BY <1>1
<1> QED
  BY <1>1, <1>2, <1>3, <1>4, <1>5 DEF CountsInOrder, TablesOf

LEMMA AgreesAppend ==
  ASSUME NEW events \in Seq(TurnEvents), NEW e \in TurnEvents,
         TakesItsCount(TablesOf(events), e), LogAgrees(events)
  PROVE  LogAgrees(Append(events, e))
<1> DEFINE n == Len(events)
           longer == Append(events, e)
<1>1. IsSeq(events) /\ Typed(TablesOf(events)) /\ ModelOf(events) \in Models
  BY HistoryTyped, LogModelTyped, SeqFacts
<1>2. TablesOf(longer) = Projected(TablesOf(events), e) /\ ModelOf(longer) = ProjectEvent(ModelOf(events), e)
  BY <1>1, TablesOfAppend, ModelOfAppend
<1>3. n \in Nat /\ Len(longer) = n + 1 /\ longer[n + 1] = e /\ \A i \in 1..n : longer[i] = events[i]
  BY <1>1, AppendSeq
<1>4. \A i \in 0..n : HistoryOf(longer)[i] = HistoryOf(events)[i]
  BY <1>1, HistoryAppend
<1> HIDE DEF longer
<1>5. OrderedReverts(longer) => OrderedReverts(events) /\ InOrder(TablesOf(events), e)
  <2>1. \A i \in 1..n : i \in 1..(n + 1) /\ i - 1 \in 0..n
    BY <1>3
  <2>2. n + 1 \in 1..(n + 1) /\ (n + 1) - 1 = n /\ n \in 0..n
    BY <1>3
  <2> QED
    BY <1>3, <1>4, <2>1, <2>2 DEF OrderedReverts, TablesOf
<1>6. SameCounts(TablesOf(longer), ModelOf(longer))
  BY <1>1, <1>2, CountsStep DEF LogAgrees
<1>7. /\ SameRest(TablesOf(longer), ModelOf(longer))
      /\ SameUsers(TablesOf(events), ModelOf(events)) /\ InOrder(TablesOf(events), e)
           => SameUsers(TablesOf(longer), ModelOf(longer))
  BY <1>1, <1>2, RestStep DEF LogAgrees
<1> QED
  BY <1>5, <1>6, <1>7 DEF LogAgrees, longer

LEMMA EmptyLogAgrees ==
  ASSUME NEW events, Len(events) = 0
  PROVE  LogAgrees(events)
<1>1. TablesOf(events) = EmptyTables
  BY HistoryStages DEF TablesOf, Stages
<1>2. ModelOf(events) = EmptyModel
  BY EmptyLogModel
<1>3. /\ EmptyTables["turns"] = [row |-> [u \in Turns |-> NoRow], pendingStart |-> 0]
      /\ EmptyTables["activities"] = {} /\ EmptyTables["messages"] = {}
  BY Names DEF EmptyTables, EmptyTable
<1>4. SameCounts(EmptyTables, EmptyModel)
  BY <1>3 DEF SameCounts, EmptyModel, NoRow
<1>5. SameRest(EmptyTables, EmptyModel) /\ SameUsers(EmptyTables, EmptyModel)
  BY <1>3 DEF SameRest, SameUsers, EmptyModel, OfRole, Ids
<1> QED
  BY <1>1, <1>2, <1>4, <1>5 DEF LogAgrees

(***************************************************************************)
(* The invariant: the log, and the one a rollback goes back to, make the   *)
(* tables and the read model alike as long as counts came in order.        *)
(***************************************************************************)
Agreement ==
  /\ CountsInOrder(log) => LogAgrees(log)
  /\ InTxn => (CountsInOrder(txn.log) => LogAgrees(txn.log))

\* As long as counts come in order, the tables and the read model made of the log know the same
\* checkpoints, activities and answers, and the same questions where reverts were in order.
THEOREM AgreementHolds == Spec => []Agreement
<1>1. Init => Agreement
  <2> SUFFICES ASSUME Init PROVE Agreement
    OBVIOUS
  <2>1. Len(log) = 0 /\ ~InTxn
    BY DEF Init, InTxn, NoTxn
  <2> QED
    BY <2>1, EmptyLogAgrees DEF Agreement
<1>2. PipelineTypes /\ Agreement /\ [Next]_vars => Agreement'
  <2> SUFFICES ASSUME PipelineTypes, Agreement, [Next]_vars
               PROVE  Agreement'
    OBVIOUS
  <2>0. log \in Seq(TurnEvents) /\ IsSeq(log) /\ WaitingTypes'
    BY SeqFacts, WaitingStep DEF PipelineTypes, LogTypes
  <2>10. ASSUME NEW e \in TurnEvents, log' = Append(log, e)
         PROVE  (CountsInOrder(log') => LogAgrees(log'))
    <3> SUFFICES ASSUME CountsInOrder(log') PROVE LogAgrees(log')
      OBVIOUS
    <3>1. CountsInOrder(log) /\ TakesItsCount(TablesOf(log), e)
      BY <2>0, <2>10, CountsAppend
    <3> QED
      BY <2>0, <2>10, <3>1, AgreesAppend DEF Agreement
  <2>1. CASE Commands
    <3>1. PICK events : IsCommand(events) /\ Begin(events)
      BY <2>1, CommandsBegin
    <3>2. log' = Append(log, Head(events)) /\ txn'.log = log /\ Head(events) \in TurnEvents
      BY <3>1, SeqFacts DEF Begin, AppendAndProject, IsCommand
    <3> QED
      BY <2>10, <3>2 DEF Agreement
  <2>2. CASE AppendNext
    <3>1. Head(txn.todo) \in TurnEvents
      BY <2>0, <2>2, AppendNextTyped
    <3>2. InTxn /\ log' = Append(log, Head(txn.todo)) /\ txn'.log = txn.log
      BY <2>2 DEF AppendNext, AppendAndProject
    <3> QED
      BY <2>10, <3>1, <3>2 DEF Agreement
  <2>3. CASE Undo
    <3>1. ~InTxn' /\ log' = IF InTxn THEN txn.log ELSE log
      BY <2>3 DEF Undo, NoTxn, InTxn
    <3> QED
      BY <3>1 DEF Agreement
  <2>4. CASE Commit
    <3>1. ~InTxn' /\ log' = log
      BY <2>4 DEF Commit, NoTxn, InTxn
    <3> QED
      BY <3>1 DEF Agreement
  <2>5. CASE UNCHANGED <<log, txn>>
    BY <2>5 DEF Agreement, InTxn
  <2>6. CASE Rollback \/ Crash
    BY <2>3, <2>6 DEF Rollback, Crash
  <2>7. CASE Bootstrap \/ CatchUp \/ CaughtUp \/ GoLive \/ (\E p \in Rebuildable : Rebuild(p)) \/ UNCHANGED vars
    BY <2>5, <2>7 DEF Bootstrap, CatchUp, CaughtUp, GoLive, Rebuild, vars
  <2>8. CASE UploadImage \/ Decisions
    BY <2>5, <2>8, NothingBegins
  <2> QED
    BY <2>1, <2>2, <2>4, <2>6, <2>7, <2>8 DEF Next, Commands, Decisions
<1> QED
  BY <1>1, <1>2, PipelineTypesHold, PTL DEF Spec

-----------------------------------------------------------------------------
LEMMA AskedAfter ==
  ASSUME NEW t, Typed(t), NEW e \in TurnEvents, e.type # "reverted"
  PROVE  /\ e.type = "user-message" =>
              Ids(ApplyThreadMessages(t, e), "user") = Ids(t["messages"], "user") \cup {e.n}
         /\ e.type # "user-message" =>
              Ids(ApplyThreadMessages(t, e), "user") = Ids(t["messages"], "user")
<1> DEFINE x == t["messages"]
<1>1. CASE e.type = "user-message"
  <2> DEFINE new == MessageOf("user", e.n, 0, 1)
  <2>1. new.role = "user" /\ new.n = e.n
    BY DEF MessageOf
  <2>2. ApplyThreadMessages(t, e) = (x \ {k \in x : k.role = "user" /\ k.n = e.n}) \cup {new}
    BY <1>1 DEF MessageSent, ApplyThreadMessages
  <2> HIDE DEF new, x
  <2>3. \A n : n \in Ids(ApplyThreadMessages(t, e), "user") <=> n \in Ids(x, "user") \cup {e.n}
    BY <2>1, <2>2 DEF OfRole, Ids
  <2> QED
    BY <1>1, <2>3 DEF x
<1>2. CASE e.type = "assistant-message"
  <2> DEFINE old == {k \in x : k.role = "assistant" /\ k.n = e.n}
             text == IF e.streaming THEN 1 ELSE 0
             new == MessageOf("assistant", e.n, e.n,
                              IF old = {} THEN text ELSE text + (CHOOSE k \in old : TRUE).text)
  <2>1. ApplyThreadMessages(t, e) = (x \ old) \cup {new}
    BY <1>2 DEF MessageSent, ApplyThreadMessages
  <2>2. new.role = "assistant" /\ \A k \in old : k.role = "assistant"
    BY DEF MessageOf
  <2> HIDE DEF new, old, x
  <2>3. OfRole(ApplyThreadMessages(t, e), "user") = OfRole(x, "user")
    BY <2>1, <2>2 DEF OfRole
  <2> QED
    BY <1>2, <2>3 DEF Ids, x
<1>3. CASE e.type \notin {"user-message", "assistant-message"}
  BY <1>3 DEF ApplyThreadMessages
<1> QED
  BY <1>1, <1>2, <1>3

(* Two sets of questions that a revert to d cannot tell apart, when the    *)
(* questions of P stay named: both have those, and they are the same up to *)
(* a number below which there are enough of them.                          *)
Alike(U, V, P, d) ==
  /\ P \subseteq U \cap V
  /\ \/ U = V
     \/ \E b \in Nat : U \cap 1..b = V \cap 1..b /\ d <= Cardinality((U \cap 1..b) \cup P)

LEMMA AlikeSymmetric ==
  ASSUME NEW U, NEW V, NEW P, NEW d, Alike(U, V, P, d)
  PROVE  Alike(V, U, P, d)
BY DEF Alike

LEMMA AlikeTransitive ==
  ASSUME NEW U, NEW V, NEW W, NEW P, NEW d, Alike(U, V, P, d), Alike(V, W, P, d)
  PROVE  Alike(U, W, P, d)
<1>1. P \subseteq U \cap W
  BY DEF Alike
<1>2. CASE U = V \/ V = W
  BY <1>2
<1>3. CASE ~(U = V \/ V = W)
  <2>1. PICK a \in Nat : U \cap 1..a = V \cap 1..a /\ d <= Cardinality((U \cap 1..a) \cup P)
    BY <1>3 DEF Alike
  <2>2. PICK b \in Nat : V \cap 1..b = W \cap 1..b /\ d <= Cardinality((V \cap 1..b) \cup P)
    BY <1>3 DEF Alike
  <2>3. CASE a <= b
    <3>1. \A x : x \in 1..a => x \in 1..b
      BY <2>3
    <3>2. U \cap 1..a = W \cap 1..a
      BY <2>1, <2>2, <3>1
    <3> QED
      BY <1>1, <2>1, <3>2 DEF Alike
  <2>4. CASE b <= a
    <3>1. \A x : x \in 1..b => x \in 1..a
      BY <2>4
    <3>2. U \cap 1..b = W \cap 1..b /\ U \cap 1..b = V \cap 1..b
      BY <2>1, <2>2, <3>1
    <3> QED
      BY <1>1, <2>2, <3>2 DEF Alike
  <2> QED
    BY <2>3, <2>4
<1> QED
  BY <1>2, <1>3

LEMMA AlikeNamed ==
  ASSUME NEW U, U \subseteq Turns, NEW V, NEW P, NEW Q, NEW d \in Nat, Alike(U, V, P, d),
         P \subseteq Q, Q \subseteq U \cap V
  PROVE  Alike(U, V, Q, d)
<1>1. CASE U = V
  BY <1>1 DEF Alike
<1>2. CASE U # V
  <2>1. PICK b \in Nat : U \cap 1..b = V \cap 1..b /\ d <= Cardinality((U \cap 1..b) \cup P)
    BY <1>2 DEF Alike
  <2> DEFINE S == (U \cap 1..b) \cup P
             L == (U \cap 1..b) \cup Q
  <2>2. S \subseteq L /\ L \subseteq Turns
    OBVIOUS
  <2>3. Cardinality(S) \in Nat /\ Cardinality(L) \in Nat /\ Cardinality(S) <= Cardinality(L)
    <3>1. IsFiniteSet(L) /\ S \subseteq Turns
      BY <2>2, TurnSets
    <3> HIDE DEF S, L
    <3> QED
      BY <2>2, <3>1, TurnSets, FS_Subset
  <2>4. d <= Cardinality(L)
    <3>1. d <= Cardinality(S)
      BY <2>1
    <3> HIDE DEF S, L
    <3> QED
      BY <2>3, <3>1
  <2> QED
    BY <2>1, <2>4 DEF Alike
<1> QED
  BY <1>1, <1>2

LEMMA AlikeAsked ==
  ASSUME NEW U, U \subseteq Turns, NEW V, NEW P, NEW n \in Turns, NEW d \in Nat, Alike(U, V, P, d)
  PROVE  Alike(U \cup {n}, V \cup {n}, P, d)
<1>1. P \subseteq (U \cup {n}) \cap (V \cup {n})
  BY DEF Alike
<1>2. CASE U = V
  BY <1>1, <1>2 DEF Alike
<1>3. CASE U # V
  <2>1. PICK b \in Nat : U \cap 1..b = V \cap 1..b /\ d <= Cardinality((U \cap 1..b) \cup P)
    BY <1>3 DEF Alike
  <2>2. (U \cup {n}) \cap 1..b = (V \cup {n}) \cap 1..b
    BY <2>1
  <2> DEFINE S == (U \cap 1..b) \cup P
             L == ((U \cup {n}) \cap 1..b) \cup P
  <2>3. S \subseteq L /\ L \subseteq Turns
    BY DEF Alike
  <2>4. Cardinality(S) \in Nat /\ Cardinality(L) \in Nat /\ Cardinality(S) <= Cardinality(L)
    <3>1. IsFiniteSet(L) /\ S \subseteq Turns
      BY <2>3, TurnSets
    <3> HIDE DEF S, L
    <3> QED
      BY <2>3, <3>1, TurnSets, FS_Subset
  <2>5. d <= Cardinality(L)
    <3>1. d <= Cardinality(S)
      BY <2>1
    <3> HIDE DEF S, L
    <3> QED
      BY <2>4, <3>1
  <2> QED
    BY <1>1, <2>1, <2>2, <2>5 DEF Alike
<1> QED
  BY <1>2, <1>3

(* A set of numbers that is not empty has a least one.                     *)
LEMMA LeastOf ==
  ASSUME NEW S, S \subseteq Nat, S # {}
  PROVE  \E r \in S : \A o \in S : r <= o
<1> DEFINE T == {k \in Nat : (\E r \in S : r <= k) => \E r \in S : \A o \in S : r <= o}
<1>1. 0 \in T
  <2> SUFFICES ASSUME \E r \in S : r <= 0 PROVE \E r \in S : \A o \in S : r <= o
    OBVIOUS
  <2>1. PICK r \in S : r <= 0
    OBVIOUS
  <2> QED
    BY <2>1
<1>2. ASSUME NEW k \in T PROVE k + 1 \in T
  <2> SUFFICES ASSUME \E r \in S : r <= k + 1, ~\E r \in S : r <= k
               PROVE  \E r \in S : \A o \in S : r <= o
    OBVIOUS
  <2> HIDE DEF T
  <2>1. PICK r \in S : r <= k + 1
    OBVIOUS
  <2>2. \A o \in S : ~(o <= k)
    OBVIOUS
  <2>3. k \in Nat /\ \A o \in S : o \in Nat
    BY DEF T
  <2>4. \A o \in S : r <= o
    BY <2>1, <2>2, <2>3
  <2> QED
    BY <2>4
<1> HIDE DEF T
<1>3. T \subseteq Nat
  BY DEF T
<1>4. \A k \in Nat : k \in T
  BY <1>1, <1>2, <1>3, Induction
<1>5. PICK s \in S : TRUE
  OBVIOUS
<1>6. s \in Nat /\ s <= s
  OBVIOUS
<1> QED
  BY <1>4, <1>6 DEF T

(* What is kept is, for an earlier revert, like what there was.            *)
LEMMA KeptIsAlike ==
  ASSUME NEW U, U \subseteq Turns, NEW N, N \subseteq U, NEW P, P \subseteq N,
         NEW c \in Nat, NEW d \in Nat, d + Cardinality(N) <= c + Cardinality(P)
  PROVE  Alike(U, Kept(U, N, c), P, d)
<1> DEFINE K == Kept(U, N, c)
           R == U \ N
           below(n) == {o \in R : o < n}
           gone == U \ K
<1>1. K \subseteq U /\ P \subseteq U \cap K
  BY DEF Kept
<1>2. CASE gone = {}
  BY <1>1, <1>2 DEF Alike
<1>3. CASE gone # {}
  <2>1. U \subseteq Nat \ {0} /\ gone \subseteq Nat
    BY TurnSets
  <2>2. PICK r \in gone : \A o \in gone : r <= o
    BY <1>3, <2>1, LeastOf
  <2>3. r \in R /\ r \in Nat /\ r # 0 /\ ~(Cardinality(below(r)) < c - Cardinality(N))
    BY <2>1, <2>2 DEF Kept
  <2> DEFINE b == r - 1
             S == (U \cap 1..b) \cup P
  <2>4. b \in Nat
    BY <2>3
  <2>5. U \cap 1..b = K \cap 1..b
    <3>1. ASSUME NEW o \in U, o \in 1..b PROVE o \in K
      <4>1. ~(r <= o) /\ o \in Nat
        BY <2>1, <2>3, <3>1
      <4> QED
        BY <2>2, <4>1
    <3> QED
      BY <1>1, <3>1
  <2>6. below(r) \cup P \subseteq S
    <3>1. ASSUME NEW o \in R, o < r PROVE o \in 1..b
      BY <2>1, <2>3, <3>1
    <3> QED
      BY <3>1
  <2>7. /\ below(r) \subseteq Turns /\ P \subseteq Turns /\ S \subseteq Turns /\ N \subseteq Turns
        /\ below(r) \cup P \subseteq Turns /\ below(r) \cap P = {}
    OBVIOUS
  <2> HIDE DEF S, below, K, gone, R
  <2>8. PICK x, y, z, m, u \in Nat :
          /\ x = Cardinality(below(r)) /\ y = Cardinality(P) /\ z = Cardinality(S)
          /\ m = Cardinality(N) /\ u = Cardinality(below(r) \cup P)
    BY <2>7, TurnSets
  <2>9. u = x + y
    <3>1. Cardinality(below(r) \cup P)
            = Cardinality(below(r)) + Cardinality(P) - Cardinality(below(r) \cap P)
      BY <2>7, TurnSets, FS_Union
    <3>2. Cardinality(below(r) \cap P) = 0
      BY <2>7, FS_EmptySet
    <3>3. u = x + y - 0
      BY <2>8, <3>1, <3>2
    <3> QED
      BY <3>3
  <2>10. u <= z
    BY <2>6, <2>7, <2>8, TurnSets, FS_Subset
  <2>11. ~(x < c - m) /\ d + m <= c + y
    BY <2>3, <2>8
  <2>12. d <= z
    BY <2>9, <2>10, <2>11
  <2> QED
    BY <1>1, <2>4, <2>5, <2>8, <2>12 DEF Alike, S, K
<1> QED
  BY <1>2, <1>3

(* A revert cannot tell such sets apart.                                   *)
LEMMA KeptHalf ==
  ASSUME NEW U, U \subseteq Turns, NEW V, V \subseteq Turns, NEW P, NEW c \in Nat, Alike(U, V, P, c)
  PROVE  Kept(U, P, c) \subseteq Kept(V, P, c)
<1>0. P \subseteq U /\ P \subseteq V
  BY DEF Alike
<1>1. CASE U = V
  BY <1>1
<1>2. CASE U # V
  <2>1. PICK b \in Nat : U \cap 1..b = V \cap 1..b /\ c <= Cardinality((U \cap 1..b) \cup P)
    BY <1>2 DEF Alike
  <2> SUFFICES ASSUME NEW n \in U \ P, Cardinality({o \in U \ P : o < n}) < c - Cardinality(P)
               PROVE  n \in V /\ Cardinality({o \in V \ P : o < n}) < c - Cardinality(P)
    BY DEF Kept
  <2>2. U \subseteq Nat \ {0} /\ V \subseteq Nat \ {0}
    BY TurnSets
  <2>3. CASE n <= b
    <3>1. \A o \in Nat \ {0} : o < n => o \in 1..b
      BY <2>2, <2>3
    <3>2. n \in 1..b
      BY <2>2, <2>3
    <3>3. {o \in U \ P : o < n} = {o \in V \ P : o < n}
      <4>1. \A o : o \in U /\ o < n <=> o \in V /\ o < n
        BY <2>1, <2>2, <3>1
      <4> QED
        BY <4>1
    <3> QED
      BY <2>1, <3>2, <3>3
  <2>4. CASE ~(n <= b)
    <3> DEFINE low == {o \in U \ P : o < n}
               S == (U \cap 1..b) \cup P
    <3>1. S \subseteq low \cup P
      <4>1. \A o \in 1..b : o < n
        BY <2>2, <2>4
      <4> QED
        BY <4>1
    <3>2. low \subseteq Turns /\ P \subseteq Turns /\ low \cup P \subseteq Turns /\ low \cap P = {}
      BY <1>0
    <3>3. S \subseteq Turns
      BY <1>0
    <3>4. Cardinality(low) < c - Cardinality(P) /\ c <= Cardinality(S)
      BY <2>1
    <3> HIDE DEF low, S
    <3>5. PICK x, y, z, u \in Nat :
            /\ x = Cardinality(low) /\ y = Cardinality(P) /\ z = Cardinality(S)
            /\ u = Cardinality(low \cup P)
      BY <3>2, <3>3, TurnSets
    <3>6. u = x + y
      <4>1. Cardinality(low \cup P) = Cardinality(low) + Cardinality(P) - Cardinality(low \cap P)
        BY <3>2, TurnSets, FS_Union
      <4>2. Cardinality(low \cap P) = 0
        BY <3>2, FS_EmptySet
      <4>3. u = x + y - 0
        BY <3>5, <4>1, <4>2
      <4> QED
        BY <4>3
    <3>7. z <= u
      BY <3>1, <3>2, <3>5, TurnSets, FS_Subset
    <3>8. x < c - y /\ c <= z
      BY <3>4, <3>5
    <3> QED
      BY <3>6, <3>7, <3>8
  <2> QED
    BY <2>3, <2>4
<1> QED
  BY <1>1, <1>2

LEMMA KeptOfAlike ==
  ASSUME NEW U, U \subseteq Turns, NEW V, V \subseteq Turns, NEW P, NEW c \in Nat, Alike(U, V, P, c)
  PROVE  Kept(U, P, c) = Kept(V, P, c)
<1>1. Kept(U, P, c) \subseteq Kept(V, P, c)
  BY KeptHalf
<1>2. Alike(V, U, P, c)
  BY AlikeSymmetric
<1>3. Kept(V, P, c) \subseteq Kept(U, P, c)
  BY <1>2, KeptHalf
<1> QED
  BY <1>1, <1>3

-----------------------------------------------------------------------------
(***************************************************************************)
(* A revert, in terms of the questions and answers it keeps.               *)
(***************************************************************************)
Pendings(row, c) == {row[u].pending : u \in KeptTurns(row, c)}

LEMMA RevertedMessages ==
  ASSUME NEW t, t["messages"] \subseteq Messages, NEW e \in TurnEvents, e.type = "reverted"
  PROVE  LET row == t["turns"].row
             U == Ids(t["messages"], "user")
         IN  /\ Ids(ApplyThreadMessages(t, e), "user") = Kept(U, U \cap Pendings(row, e.count), e.count)
             /\ OfRole(ApplyThreadMessages(t, e), "assistant")
                  = {m \in OfRole(t["messages"], "assistant") : m.n \in KeptTurns(row, e.count)}
<1> DEFINE messages == t["messages"]
           turns == t["turns"].row
           stay == KeptTurns(turns, e.count)
           named == {m \in messages :
                      \E u \in stay : \/ m.role = "user" /\ m.n = turns[u].pending
                                      \/ m.role = "assistant" /\ m.n = u /\ turns[u].answered}
           U == Ids(messages, "user")
<1>1. ApplyThreadMessages(t, e) = RetainMessages(messages, named, stay, e.count)
  BY DEF ApplyThreadMessages
<1>2. named \subseteq messages /\ stay \subseteq Turns /\ messages \subseteq Messages
  BY DEF KeptTurns
<1>3. \A m \in named : m.role = "assistant" => m.n \in stay
  OBVIOUS
<1>4. Ids(named, "user") = U \cap Pendings(turns, e.count)
  <2>1. \A n : n \in Ids(named, "user") <=> \E m \in named : m.role = "user" /\ m.n = n
    BY DEF Ids, OfRole
  <2>2. \A n : n \in U <=> \E m \in messages : m.role = "user" /\ m.n = n
    BY DEF Ids, OfRole
  <2>3. \A m : m \in named /\ m.role = "user" <=> m \in messages /\ m.role = "user" /\ m.n \in Pendings(turns, e.count)
    BY DEF Pendings
  <2> HIDE DEF named, messages, U
  <2>4. \A n : n \in Ids(named, "user") <=> n \in U /\ n \in Pendings(turns, e.count)
    BY <2>1, <2>2, <2>3
  <2> QED
    BY <2>4
<1> HIDE DEF named, stay, messages
<1>5. Ids(RetainMessages(messages, named, stay, e.count), "user")
        = Kept(Ids(messages, "user"), Ids(named, "user"), e.count)
  BY <1>2, KeptQuestions
<1>6. OfRole(RetainMessages(messages, named, stay, e.count), "assistant")
        = {m \in OfRole(messages, "assistant") : m.n \in stay}
  BY <1>2, <1>3, RetainedAssistants
<1> QED
  BY <1>1, <1>4, <1>5, <1>6 DEF messages, stay, turns, U

(***************************************************************************)
(* The questions that rows of turns name after an event.                   *)
(***************************************************************************)
LEMMA PendingsAfter ==
  ASSUME NEW t, Typed(t), NEW e \in TurnEvents, NEW u \in Turns
  PROVE  LET table == t["turns"]
             old == table.row[u].pending
         IN  ApplyThreadTurns(t, e).row[u].pending
               = IF e.type = "session-running" /\ u = e.n /\ old = 0 THEN table.pendingStart
                 ELSE IF e.type = "reverted" /\ u \notin KeptTurns(table.row, e.count) THEN 0
                 ELSE old
<1> DEFINE table == t["turns"]
           old == table.row[u].pending
<1>1. table \in TurnsTable /\ table.row \in [Turns -> Rows]
  BY TypedTables DEF TurnsTable
<1>2. \A v \in Turns : table.row[v] \in Rows
  BY <1>1
<1>3. table = [row |-> table.row, pendingStart |-> table.pendingStart]
  BY <1>1 DEF TurnsTable
<1>4. e.type \notin {"reverted", "deleted"} => e.n \in Turns
  BY EventFacts
<1> HIDE DEF table
<1>5. CASE e.type = "turn-diff-completed"
  <2>1. ApplyThreadTurns(t, e).row = TurnCompleted(table.row, e)
    BY <1>3, <1>5 DEF ApplyThreadTurns, table
  <2> DEFINE outcome == IF e.status = "error" THEN "error" ELSE "completed"
             done(v) == [table.row[v] EXCEPT !.state = outcome, !.count = e.count, !.answered = TRUE]
  <2>2. ApplyThreadTurns(t, e).row[u]
          = IF u = e.n THEN done(u)
            ELSE IF table.row[u].count = e.count THEN [table.row[u] EXCEPT !.count = 0]
            ELSE table.row[u]
    BY <2>1 DEF TurnCompleted
  <2> HIDE DEF outcome
  <2>3. done(u).pending = old /\ [table.row[u] EXCEPT !.count = 0].pending = old
    BY <1>2 DEF Rows
  <2> HIDE DEF done
  <2> QED
    BY <1>5, <2>2, <2>3 DEF table
<1>6. CASE e.type = "reverted"
  <2>1. ApplyThreadTurns(t, e).row[u]
          = IF u \in KeptTurns(table.row, e.count) THEN table.row[u] ELSE NoRow
    BY <1>6 DEF ApplyThreadTurns, table
  <2>2. NoRow.pending = 0
    BY DEF NoRow
  <2> QED
    BY <1>6, <2>1, <2>2 DEF table
<1>7. CASE e.type = "turn-start-requested"
  BY <1>3, <1>7 DEF ApplyThreadTurns, table
<1>8. CASE e.type = "session-running"
  <2> DEFINE new == [table.row[e.n] EXCEPT !.state = IF @ \in {"completed", "error"} THEN @ ELSE "running",
                              !.pending = IF @ = 0 THEN table.pendingStart ELSE @]
  <2>1. ApplyThreadTurns(t, e).row = [table.row EXCEPT ![e.n] = new]
    BY <1>8 DEF ApplyThreadTurns, TurnRuns, table
  <2>2. new.pending = IF table.row[e.n].pending = 0 THEN table.pendingStart ELSE table.row[e.n].pending
    BY <1>2, <1>4, <1>8 DEF Rows
  <2> HIDE DEF new
  <2> QED
    BY <1>1, <1>8, <2>1, <2>2 DEF table
<1>9. CASE e.type = "assistant-message"
  <2>1. ApplyThreadTurns(t, e).row = [table.row EXCEPT ![e.n] = TurnAnswered(@, e)]
    BY <1>3, <1>9 DEF ApplyThreadTurns, table
  <2>2. TurnAnswered(table.row[e.n], e).pending = table.row[e.n].pending
    BY <1>2, <1>4, <1>9 DEF Rows, TurnAnswered
  <2> QED
    BY <1>1, <1>9, <2>1, <2>2 DEF table
<1>10. CASE e.type = "turn-interrupt-requested"
  <2>1. ApplyThreadTurns(t, e).row = [table.row EXCEPT ![e.n].state = "interrupted"]
    BY <1>3, <1>10 DEF ApplyThreadTurns, table
  <2>2. [table.row[e.n] EXCEPT !.state = "interrupted"].pending = table.row[e.n].pending
    BY <1>2, <1>4, <1>10 DEF Rows
  <2> QED
    BY <1>1, <1>10, <2>1, <2>2 DEF table
<1>11. CASE e.type \notin {"turn-start-requested", "session-running", "assistant-message",
                           "turn-interrupt-requested", "turn-diff-completed", "reverted"}
  BY <1>11 DEF ApplyThreadTurns, table
<1> QED
  BY <1>5, <1>6, <1>7, <1>8, <1>9, <1>10, <1>11

LEMMA PendingStartAfter ==
  ASSUME NEW t, Typed(t), NEW e \in TurnEvents
  PROVE  ApplyThreadTurns(t, e).pendingStart
           = IF e.type = "turn-start-requested" THEN e.n
             ELSE IF e.type \in {"session-running", "reverted"} THEN 0
             ELSE t["turns"].pendingStart
<1> DEFINE table == t["turns"]
<1>1. table = [row |-> table.row, pendingStart |-> table.pendingStart]
  BY TypedTables DEF TurnsTable
<1> HIDE DEF table
<1>2. CASE e.type \in {"session-running", "reverted"}
  BY <1>2 DEF ApplyThreadTurns, TurnRuns
<1>3. CASE e.type \in {"turn-start-requested", "assistant-message", "turn-interrupt-requested",
                       "turn-diff-completed"}
  <2>1. /\ [table EXCEPT !.pendingStart = e.n].pendingStart = e.n
        /\ [table EXCEPT !.row[e.n] = TurnAnswered(@, e)].pendingStart = table.pendingStart
        /\ [table EXCEPT !.row[e.n].state = "interrupted"].pendingStart = table.pendingStart
        /\ [table EXCEPT !.row = TurnCompleted(@, e)].pendingStart = table.pendingStart
    BY <1>1
  <2> QED
    BY <1>3, <2>1 DEF ApplyThreadTurns, table
<1>4. CASE e.type \notin {"turn-start-requested", "session-running", "assistant-message",
                          "turn-interrupt-requested", "turn-diff-completed", "reverted"}
  BY <1>4 DEF ApplyThreadTurns, table
<1> QED
  BY <1>2, <1>3, <1>4

-----------------------------------------------------------------------------
(***************************************************************************)
(* The questions sent by the first i events; one that no revert of them    *)
(* came after is fresh.                                                    *)
(***************************************************************************)
SentBy(events, i) == {events[k].n : k \in {j \in 1..i : events[j].type = "user-message"}}

FreshAt(events, i, n) ==
  \A k \in 1..i : events[k].type = "reverted" => n \notin SentBy(events, k)

(* Tables after i events: a count is one turn's, a turn names a question   *)
(* that is there, and the pending start and turns without a checkpoint     *)
(* name none from before the last revert.                                  *)
Sound(events, i, t) ==
  LET row == t["turns"].row
      start == t["turns"].pendingStart
      asked == Ids(t["messages"], "user")
  IN  /\ \A u, v \in Turns : row[u].count # 0 /\ row[u].count = row[v].count => u = v
      /\ start \in asked \cup {0} /\ \A u \in Turns : row[u].pending \in asked \cup {0}
      /\ FreshAt(events, i, start)
      /\ \A u \in Turns : row[u].count = 0 => FreshAt(events, i, row[u].pending)
      /\ asked \subseteq SentBy(events, i)

(* The events that can follow them.                                        *)
Possible(events, i, t, e) ==
  LET row == t["turns"].row
      count(u) == row[u].count
  IN  CASE e.type = "turn-diff-completed" ->
             /\ e.count # 0
             /\ IF count(e.n) # 0 THEN e.count = count(e.n) ELSE \A u \in Turns : count(u) < e.count
        [] e.type = "turn-start-requested" ->
             e.n \in Ids(t["messages"], "user") /\ FreshAt(events, i, e.n)
        [] e.type = "reverted" -> e.count = 0 \/ \E u \in Turns : count(u) = e.count
        [] OTHER -> TRUE

(* What an event that is no revert does to the rows of turns.              *)
Grown(x, y) ==
  \E n : \A u \in Turns :
    /\ \/ y.row[u].count = x.row[u].count
       \/ u = n /\ x.row[u].count = 0 /\ \A v \in Turns : x.row[v].count < y.row[u].count
    /\ \/ y.row[u].pending = x.row[u].pending
       \/ x.row[u].pending = 0 /\ y.row[u].pending = x.pendingStart

LEMMA RowsGrow ==
  ASSUME NEW events, NEW i, NEW t, Typed(t), NEW e \in TurnEvents, e.type # "reverted",
         Sound(events, i, t), Possible(events, i, t, e)
  PROVE  Grown(t["turns"], Projected(t, e)["turns"])
<1> DEFINE x == t["turns"]
           y == Projected(t, e)["turns"]
<1>1. y = ApplyThreadTurns(t, e)
  BY ProjectedTables, Names DEF Typed, Apply
<1> HIDE DEF y
<1>2. ASSUME NEW u \in Turns
      PROVE  \/ y.row[u].count = x.row[u].count
             \/ u = e.n /\ x.row[u].count = 0 /\ \A v \in Turns : x.row[v].count < y.row[u].count
  <2>1. CASE e.type = "turn-diff-completed"
    <3>1. e.n \in Turns /\ e.count # 0
          /\ IF x.row[e.n].count # 0 THEN e.count = x.row[e.n].count
             ELSE \A v \in Turns : x.row[v].count < e.count
      BY <2>1, EventFacts DEF Possible
    <3>2. y.row[u].count = IF u = e.n THEN e.count
                           ELSE IF x.row[u].count = e.count THEN 0 ELSE x.row[u].count
      BY <1>1, <2>1, CountsAfter
    <3>3. \A v \in Turns : x.row[v].count \in Nat
      BY TypedTables, BoundsAreCounts DEF TurnsTable, Rows
    <3>4. u # e.n => x.row[u].count # e.count
      <4>1. \A v, w \in Turns : x.row[v].count # 0 /\ x.row[v].count = x.row[w].count => v = w
        BY DEF Sound
      <4>2. CASE x.row[e.n].count # 0
        BY <3>1, <4>1, <4>2
      <4>3. CASE x.row[e.n].count = 0
        <5>1. x.row[u].count < e.count /\ x.row[u].count \in Nat
          BY <3>1, <3>3, <4>3
        <5>2. e.count \in Nat
          BY EventFacts
        <5> HIDE DEF x
        <5> QED
          BY <5>1, <5>2
      <4> QED
        BY <4>2, <4>3
    <3> HIDE DEF x
    <3> QED
      BY <3>1, <3>2, <3>4
  <2>2. CASE e.type # "turn-diff-completed"
    BY <1>1, <2>2, CountsAfter
  <2> QED
    BY <2>1, <2>2
<1>3. ASSUME NEW u \in Turns
      PROVE  \/ y.row[u].pending = x.row[u].pending
             \/ x.row[u].pending = 0 /\ y.row[u].pending = x.pendingStart
  BY <1>1, PendingsAfter
<1> QED
  BY <1>2, <1>3 DEF Grown, y

(* What a revert to c does to them.                                        *)
Shortened(x, y, c) ==
  \A u \in Turns :
    /\ y.row[u].count = IF u \in KeptTurns(x.row, c) THEN x.row[u].count ELSE 0
    /\ y.row[u].pending = IF u \in KeptTurns(x.row, c) THEN x.row[u].pending ELSE 0

LEMMA RowsShorten ==
  ASSUME NEW t, Typed(t), NEW e \in TurnEvents, e.type = "reverted"
  PROVE  Shortened(t["turns"], Projected(t, e)["turns"], e.count)
<1>1. Projected(t, e)["turns"] = ApplyThreadTurns(t, e)
  BY ProjectedTables, Names DEF Typed, Apply
<1> QED
  BY <1>1, CountsAfter, PendingsAfter DEF Shortened

LEMMA SentOneMore ==
  ASSUME NEW events, NEW i \in Nat
  PROVE  /\ events[i + 1].type = "user-message" => SentBy(events, i + 1) = SentBy(events, i) \cup {events[i + 1].n}
         /\ events[i + 1].type # "user-message" => SentBy(events, i + 1) = SentBy(events, i)
<1>1. 1..(i + 1) = (1..i) \cup {i + 1}
  OBVIOUS
<1>2. \A n : n \in SentBy(events, i + 1) <=>
               \/ n \in SentBy(events, i)
               \/ events[i + 1].type = "user-message" /\ n = events[i + 1].n
  BY <1>1 DEF SentBy
<1> QED
  BY <1>2

LEMMA FreshOneMore ==
  ASSUME NEW events, NEW i \in Nat, NEW n, FreshAt(events, i, n),
         events[i + 1].type = "reverted" => n \notin SentBy(events, i)
  PROVE  FreshAt(events, i + 1, n)
<1>1. 1..(i + 1) = (1..i) \cup {i + 1}
  OBVIOUS
<1>2. events[i + 1].type = "reverted" => SentBy(events, i + 1) = SentBy(events, i)
  BY SentOneMore
<1> QED
  BY <1>1, <1>2 DEF FreshAt

LEMMA NullIsFresh ==
  ASSUME NEW events, NEW i \in Nat, \A k \in 1..i : events[k] \in TurnEvents
  PROVE  0 \notin SentBy(events, i) /\ FreshAt(events, i, 0)
<1>1. \A k \in 1..i : events[k].type = "user-message" => events[k].n \in Turns /\ events[k].n # 0
  BY EventFacts, BoundsAreCounts DEF Turns
<1>2. \A k \in 0..i : 1..k \subseteq 1..i
  OBVIOUS
<1>3. \A k \in 0..i : 0 \notin SentBy(events, k)
  BY <1>1, <1>2 DEF SentBy
<1>4. \A k \in 1..i : k \in 0..i
  OBVIOUS
<1>5. i \in 0..i
  OBVIOUS
<1> QED
  BY <1>3, <1>4, <1>5 DEF FreshAt

LEMMA SoundStep ==
  ASSUME NEW events, NEW i \in Nat, \A k \in 1..(i + 1) : events[k] \in TurnEvents,
         NEW t, Typed(t), Sound(events, i, t), Possible(events, i, t, events[i + 1])
  PROVE  Sound(events, i + 1, Projected(t, events[i + 1]))
<1> DEFINE e == events[i + 1]
           s == Projected(t, e)
           x == t["turns"]
           y == s["turns"]
           U == Ids(t["messages"], "user")
           V == Ids(s["messages"], "user")
<1>0. e \in TurnEvents /\ \A k \in 1..i : events[k] \in TurnEvents
  <2>1. i + 1 \in 1..(i + 1) /\ \A k \in 1..i : k \in 1..(i + 1)
    OBVIOUS
  <2> QED
    BY <2>1
<1>1. /\ \A u, v \in Turns : x.row[u].count # 0 /\ x.row[u].count = x.row[v].count => u = v
      /\ x.pendingStart \in U \cup {0} /\ \A u \in Turns : x.row[u].pending \in U \cup {0}
      /\ FreshAt(events, i, x.pendingStart)
      /\ \A u \in Turns : x.row[u].count = 0 => FreshAt(events, i, x.row[u].pending)
      /\ U \subseteq SentBy(events, i)
  BY DEF Sound
<1>2. s["messages"] = ApplyThreadMessages(t, e) /\ y = ApplyThreadTurns(t, e)
  BY ProjectedTables, Names DEF Typed, Apply
<1>3. y.pendingStart = IF e.type = "turn-start-requested" THEN e.n
                       ELSE IF e.type \in {"session-running", "reverted"} THEN 0
                       ELSE x.pendingStart
  BY <1>0, <1>2, PendingStartAfter
<1>4. FreshAt(events, i, 0)
  BY <1>0, NullIsFresh
<1>5. CASE e.type = "reverted"
  <2>1. V = Kept(U, U \cap Pendings(x.row, e.count), e.count)
    BY <1>0, <1>2, <1>5, RevertedMessages, TypedTables
  <2>2. Shortened(x, y, e.count)
    BY <1>0, <1>5, RowsShorten
  <2>3. U \cap Pendings(x.row, e.count) \subseteq V /\ V \subseteq U
    BY <2>1 DEF Kept
  <2>4. 0 \notin SentBy(events, i)
    BY <1>0, NullIsFresh
  <2>5. FreshAt(events, i + 1, 0)
    BY <1>4, <2>4, FreshOneMore
  <2>6. SentBy(events, i + 1) = SentBy(events, i)
    BY <1>5, SentOneMore
  <2> HIDE DEF e, s, x, y, U, V
  <2>7. \A u, v \in Turns : y.row[u].count # 0 /\ y.row[u].count = y.row[v].count => u = v
    BY <1>1, <2>2 DEF Shortened
  <2>8. \A u \in Turns : y.row[u].pending \in V \cup {0}
    BY <1>1, <2>2, <2>3 DEF Shortened, Pendings
  <2>9. \A u \in Turns : y.row[u].count = 0 => y.row[u].pending = 0
    <3>1. \A u \in Turns : u \in KeptTurns(x.row, e.count) => x.row[u].count # 0
      BY DEF KeptTurns
    <3> QED
      BY <2>2, <3>1 DEF Shortened
  <2>10. y.pendingStart = 0
    BY <1>3, <1>5
  <2> QED
    BY <1>1, <2>3, <2>5, <2>6, <2>7, <2>8, <2>9, <2>10 DEF Sound, e, s, x, y, U, V
<1>6. CASE e.type # "reverted"
  <2>1. Grown(x, y)
    BY <1>0, <1>6, RowsGrow
  <2>2. V = IF e.type = "user-message" THEN U \cup {e.n} ELSE U
    BY <1>0, <1>2, <1>6, AskedAfter
  <2>3. SentBy(events, i + 1) = IF e.type = "user-message" THEN SentBy(events, i) \cup {e.n} ELSE SentBy(events, i)
    BY SentOneMore
  <2>4. \A n : FreshAt(events, i, n) => FreshAt(events, i + 1, n)
    BY <1>6, FreshOneMore
  <2>5. e.type = "turn-start-requested" => e.n \in U /\ FreshAt(events, i, e.n)
    BY DEF Possible
  <2>6. \A u \in Turns : x.row[u].count \in Nat
    BY TypedTables, BoundsAreCounts DEF TurnsTable, Rows
  <2> HIDE DEF e, s, x, y, U, V
  <2>7. \A u, v \in Turns : y.row[u].count # 0 /\ y.row[u].count = y.row[v].count => u = v
    <3> SUFFICES ASSUME NEW u \in Turns, NEW v \in Turns, u # v,
                        y.row[u].count # 0, y.row[u].count = y.row[v].count
                 PROVE  FALSE
      OBVIOUS
    <3>1. PICK n : \A w \in Turns :
             \/ y.row[w].count = x.row[w].count
             \/ w = n /\ \A o \in Turns : x.row[o].count < y.row[w].count
      BY <2>1 DEF Grown
    <3>2. CASE y.row[u].count = x.row[u].count /\ y.row[v].count = x.row[v].count
      BY <1>1, <3>2
    <3>3. CASE ~(y.row[u].count = x.row[u].count) /\ y.row[v].count = x.row[v].count
      <4>1. x.row[v].count < x.row[v].count /\ x.row[v].count \in Nat
        BY <2>6, <3>1, <3>3
      <4> QED
        BY <4>1
    <3>4. CASE ~(y.row[v].count = x.row[v].count) /\ y.row[u].count = x.row[u].count
      <4>1. x.row[u].count < x.row[u].count /\ x.row[u].count \in Nat
        BY <2>6, <3>1, <3>4
      <4> QED
        BY <4>1
    <3>5. CASE ~(y.row[v].count = x.row[v].count) /\ ~(y.row[u].count = x.row[u].count)
      BY <3>1, <3>5
    <3> QED
      BY <3>2, <3>3, <3>4, <3>5
  <2>8. \A u \in Turns : y.row[u].pending \in V \cup {0}
    BY <1>1, <2>1, <2>2 DEF Grown
  <2>9. y.pendingStart \in V \cup {0} /\ FreshAt(events, i + 1, y.pendingStart)
    BY <1>1, <1>3, <1>4, <2>2, <2>4, <2>5
  <2>10. \A u \in Turns : y.row[u].count = 0 => FreshAt(events, i + 1, y.row[u].pending)
    <3> TAKE u \in Turns
    <3> HAVE y.row[u].count = 0
    <3>1. x.row[u].count = 0
      BY <2>1 DEF Grown
    <3> QED
      BY <1>1, <2>1, <2>4, <3>1 DEF Grown
  <2> QED
    BY <1>1, <2>2, <2>3, <2>7, <2>8, <2>9, <2>10 DEF Sound, e, s, x, y, U, V
<1> QED
  BY <1>5, <1>6

(***************************************************************************)
(* d is the lowest count a revert among events i to n goes back to.        *)
(***************************************************************************)
Lowest(events, i, n, d) ==
  /\ \E k \in i..n : events[k].type = "reverted" /\ events[k].count = d
  /\ \A k \in i..n : events[k].type = "reverted" => d <= events[k].count

LEMMA LowestExists ==
  ASSUME NEW events, NEW i \in Nat, NEW n \in Nat, \A k \in i..n : events[k].count \in Nat,
         \E k \in i..n : events[k].type = "reverted"
  PROVE  \E d \in Nat : Lowest(events, i, n, d)
<1> DEFINE S == {events[k].count : k \in {j \in i..n : events[j].type = "reverted"}}
<1>1. S \subseteq Nat /\ S # {}
  OBVIOUS
<1> HIDE DEF S
<1>2. PICK d \in S : \A o \in S : d <= o
  BY <1>1, LeastOf
<1>3. Lowest(events, i, n, d)
  BY <1>2 DEF S, Lowest
<1> QED
  BY <1>1, <1>3

(***************************************************************************)
(* Event i reverts rows H; T are the rows after all events.  Of the turns  *)
(* that no revert from i on takes away, T has the checkpoint and, but for  *)
(* a later question that a turn without one took up, the question; what    *)
(* else T would keep names later questions, and if i itself went back      *)
(* furthest there is nothing else.                                         *)
(***************************************************************************)
Foretold(events, i, d, H, T) ==
  LET c == events[i].count
      later(q) == q \notin SentBy(events, i)
  IN  /\ \A u \in KeptTurns(H, d) :
           /\ T[u].count = H[u].count
           /\ T[u].pending = H[u].pending \/ (H[u].pending = 0 /\ later(T[u].pending))
      /\ \A u \in KeptTurns(T, c) \ KeptTurns(H, d) : later(T[u].pending)
      /\ d = c => KeptTurns(T, c) = KeptTurns(H, c)

Counted(row) == \A u \in Turns : row[u].count \in Nat

LEMMA ForetoldGrows ==
  ASSUME NEW events, NEW i, NEW d \in Nat, NEW H, NEW x, NEW y, Counted(H), Counted(x.row), Counted(y.row),
         Foretold(events, i, d, H, x.row), Grown(x, y), events[i].count \in Nat,
         x.pendingStart \notin SentBy(events, i),
         \A u \in Turns : x.row[u].count = 0 => x.row[u].pending \notin SentBy(events, i),
         events[i].count = 0 \/ \E u \in Turns : H[u].count = events[i].count
  PROVE  Foretold(events, i, d, H, y.row)
<1> DEFINE c == events[i].count
<1>0. PICK n : \A u \in Turns :
        /\ \/ y.row[u].count = x.row[u].count
           \/ u = n /\ x.row[u].count = 0 /\ \A v \in Turns : x.row[v].count < y.row[u].count
        /\ \/ y.row[u].pending = x.row[u].pending
           \/ x.row[u].pending = 0 /\ y.row[u].pending = x.pendingStart
  BY DEF Grown
<1>1. ASSUME NEW u \in KeptTurns(H, d)
      PROVE  /\ y.row[u].count = H[u].count
             /\ y.row[u].pending = H[u].pending
                  \/ (H[u].pending = 0 /\ y.row[u].pending \notin SentBy(events, i))
  <2>1. u \in Turns /\ H[u].count # 0
    BY DEF KeptTurns
  <2>2. /\ x.row[u].count = H[u].count
        /\ x.row[u].pending = H[u].pending
             \/ (H[u].pending = 0 /\ x.row[u].pending \notin SentBy(events, i))
    BY DEF Foretold
  <2> QED
    BY <1>0, <2>1, <2>2
<1>2. \A u \in Turns : x.row[u].pending \notin SentBy(events, i) => y.row[u].pending \notin SentBy(events, i)
  BY <1>0
<1>3. ASSUME NEW u \in KeptTurns(y.row, c) \ KeptTurns(H, d)
      PROVE  y.row[u].pending \notin SentBy(events, i)
  <2>1. u \in Turns
    BY DEF KeptTurns
  <2>2. CASE y.row[u].count = x.row[u].count
    <3>1. u \in KeptTurns(x.row, c) \ KeptTurns(H, d)
      BY <2>2 DEF KeptTurns
    <3>2. x.row[u].pending \notin SentBy(events, i)
      BY <3>1 DEF Foretold
    <3> QED
      BY <1>2, <2>1, <3>2
  <2>3. CASE x.row[u].count = 0
    BY <1>2, <2>1, <2>3
  <2> QED
    BY <1>0, <2>1, <2>2, <2>3
<1>4. ASSUME d = c PROVE KeptTurns(y.row, c) = KeptTurns(H, c)
  <2>1. KeptTurns(x.row, c) = KeptTurns(H, c)
    BY <1>4 DEF Foretold
  <2>2. ASSUME NEW u \in Turns PROVE y.row[u].count \in 1..c <=> x.row[u].count \in 1..c
    <3>1. CASE y.row[u].count = x.row[u].count
      BY <3>1
    <3>2. CASE x.row[u].count = 0 /\ \A v \in Turns : x.row[v].count < y.row[u].count
      <4>1. CASE c = 0
        <5>1. 1..c = {}
          BY <4>1
        <5> QED
          BY <5>1
      <4>2. CASE c # 0
        <5>1. PICK w \in Turns : H[w].count = c
          BY <4>2
        <5>2. w \in KeptTurns(H, d)
          BY <1>4, <4>2, <5>1 DEF KeptTurns
        <5>3. x.row[w].count = c
          BY <5>1, <5>2 DEF Foretold
        <5>4. c < y.row[u].count /\ y.row[u].count \in Nat
          BY <3>2, <5>3 DEF Counted
        <5>5. y.row[u].count \notin 1..c /\ x.row[u].count \notin 1..c
          BY <3>2, <5>4
        <5> QED
          BY <5>5
      <4> QED
        BY <4>1, <4>2
    <3> QED
      BY <1>0, <3>1, <3>2
  <2> QED
    BY <2>1, <2>2 DEF KeptTurns
<1> QED
  BY <1>1, <1>3, <1>4 DEF Foretold

LEMMA ForetoldShortens ==
  ASSUME NEW events, NEW i, NEW d \in Nat, NEW f \in Nat, NEW b \in Nat, NEW H, NEW x, NEW y,
         Counted(H), Counted(x.row), events[i].count \in Nat, d <= events[i].count,
         Foretold(events, i, d, H, x.row), Shortened(x, y, b),
         f <= d, f <= b, f = d \/ f = b, 0 \notin SentBy(events, i)
  PROVE  Foretold(events, i, f, H, y.row)
<1> DEFINE c == events[i].count
<1>1. ASSUME NEW u \in KeptTurns(H, f)
      PROVE  /\ y.row[u].count = H[u].count
             /\ y.row[u].pending = H[u].pending
                  \/ (H[u].pending = 0 /\ y.row[u].pending \notin SentBy(events, i))
  <2>1. u \in Turns /\ H[u].count \in 1..f /\ u \in KeptTurns(H, d)
    BY DEF KeptTurns
  <2>2. /\ x.row[u].count = H[u].count
        /\ x.row[u].pending = H[u].pending
             \/ (H[u].pending = 0 /\ x.row[u].pending \notin SentBy(events, i))
    BY <2>1 DEF Foretold
  <2>3. u \in KeptTurns(x.row, b)
    BY <2>1, <2>2 DEF KeptTurns
  <2> QED
    BY <2>1, <2>2, <2>3 DEF Shortened
<1>2. ASSUME NEW u \in Turns, y.row[u].count \in 1..c
      PROVE  u \in KeptTurns(x.row, b) /\ y.row[u].count = x.row[u].count /\ y.row[u].pending = x.row[u].pending
  <2>1. y.row[u].count # 0
    BY <1>2
  <2> QED
    BY <2>1 DEF Shortened
<1>3. ASSUME NEW u \in KeptTurns(y.row, c) \ KeptTurns(H, f)
      PROVE  y.row[u].pending \notin SentBy(events, i)
  <2>1. u \in Turns /\ u \in KeptTurns(x.row, c) /\ u \in KeptTurns(x.row, b)
        /\ y.row[u].pending = x.row[u].pending
    BY <1>2, <1>3 DEF KeptTurns
  <2>2. CASE u \notin KeptTurns(H, d)
    BY <2>1, <2>2 DEF Foretold
  <2>3. CASE u \in KeptTurns(H, d)
    <3>1. x.row[u].count = H[u].count
      BY <2>3 DEF Foretold
    <3>2. H[u].count \in 1..f
      BY <2>1, <2>3, <3>1 DEF KeptTurns
    <3> QED
      BY <1>3, <2>1, <3>2 DEF KeptTurns
  <2> QED
    BY <2>2, <2>3
<1>4. ASSUME f = c PROVE KeptTurns(y.row, c) = KeptTurns(H, c)
  <2>1. d = c /\ KeptTurns(x.row, c) = KeptTurns(H, c)
    BY <1>4 DEF Foretold
  <2>2. \A u \in Turns : x.row[u].count \in 1..c => u \in KeptTurns(x.row, b)
    BY <1>4 DEF KeptTurns
  <2>3. \A u \in Turns : y.row[u].count \in 1..c <=> x.row[u].count \in 1..c
    BY <1>2, <2>2 DEF Shortened
  <2> QED
    BY <2>1, <2>3 DEF KeptTurns
<1> QED
  BY <1>1, <1>3, <1>4 DEF Foretold

LEMMA ForetoldNow ==
  ASSUME NEW events, NEW i, NEW x, NEW y, Shortened(x, y, events[i].count), events[i].count \in Nat
  PROVE  Foretold(events, i, events[i].count, x.row, y.row)
<1> DEFINE c == events[i].count
<1>1. \A u \in Turns : y.row[u].count \in 1..c <=> x.row[u].count \in 1..c
  <2> TAKE u \in Turns
  <2>1. 0 \notin 1..c
    OBVIOUS
  <2> QED
    BY <2>1 DEF Shortened, KeptTurns
<1>2. KeptTurns(y.row, c) = KeptTurns(x.row, c)
  BY <1>1 DEF KeptTurns
<1>3. \A u \in KeptTurns(x.row, c) : u \in Turns
  BY DEF KeptTurns
<1> QED
  BY <1>2, <1>3 DEF Foretold, Shortened

(***************************************************************************)
(* All of this for a log: its prefixes are sound, its events possible, and *)
(* its reverts foretell what the last rows of turns are.                   *)
(***************************************************************************)
RowsAfter(events, i) == HistoryOf(events)[i]["turns"].row

Recorded(events) ==
  /\ \A i \in 0..Len(events) : Sound(events, i, HistoryOf(events)[i])
  /\ \A i \in 0..(Len(events) - 1) : Possible(events, i, HistoryOf(events)[i], events[i + 1])
  /\ \A i \in 0..(Len(events) - 1) : events[i + 1].type = "reverted" =>
       \A d \in Nat : Lowest(events, i + 1, Len(events), d) =>
         Foretold(events, i + 1, d, RowsAfter(events, i), RowsAfter(events, Len(events)))

LEMMA StagesTyped ==
  ASSUME NEW events \in Seq(TurnEvents)
  PROVE  \A i \in 0..Len(events) : Typed(HistoryOf(events)[i]) /\ Counted(RowsAfter(events, i))
<1> SUFFICES ASSUME NEW i \in 0..Len(events)
             PROVE  Typed(HistoryOf(events)[i]) /\ Counted(RowsAfter(events, i))
  OBVIOUS
<1>1. Typed(HistoryOf(events)[i])
  BY HistoryIsTyped
<1>2. Counted(HistoryOf(events)[i]["turns"].row)
  BY <1>1, TypedTables, BoundsAreCounts DEF TurnsTable, Rows, Counted
<1> QED
  BY <1>1, <1>2 DEF RowsAfter

LEMMA SamePrefix ==
  ASSUME NEW s, NEW r, NEW n \in Nat, \A k \in 1..n : r[k] = s[k], NEW i \in 0..n
  PROVE  /\ SentBy(r, i) = SentBy(s, i)
         /\ \A q : FreshAt(r, i, q) <=> FreshAt(s, i, q)
         /\ \A t : Sound(r, i, t) <=> Sound(s, i, t)
         /\ \A t, e : Possible(r, i, t, e) <=> Possible(s, i, t, e)
<1>1. \A j \in 0..n : SentBy(r, j) = SentBy(s, j)
  <2>1. \A j \in 0..n : \A k \in 1..j : k \in 1..n
    OBVIOUS
  <2> QED
    BY <2>1 DEF SentBy
<1>2. \A q : FreshAt(r, i, q) <=> FreshAt(s, i, q)
  <2>1. \A k \in 1..i : k \in 1..n /\ k \in 0..n
    OBVIOUS
  <2> QED
    BY <1>1, <2>1 DEF FreshAt
<1>3. SentBy(r, i) = SentBy(s, i)
  BY <1>1
<1> QED
  BY <1>2, <1>3 DEF Sound, Possible

LEMMA SameForetold ==
  ASSUME NEW s, NEW r, NEW n \in Nat, \A k \in 1..n : r[k] = s[k], NEW i \in 1..n, NEW d, NEW H, NEW T,
         Foretold(s, i, d, H, T)
  PROVE  Foretold(r, i, d, H, T)
<1>1. SentBy(r, i) = SentBy(s, i) /\ r[i] = s[i]
  <2>1. i \in 0..n
    OBVIOUS
  <2> QED
    BY <2>1, SamePrefix
<1> QED
  BY <1>1 DEF Foretold

LEMMA RecordedAppend ==
  ASSUME NEW events \in Seq(TurnEvents), Recorded(events), NEW e \in TurnEvents,
         Possible(events, Len(events), TablesOf(events), e)
  PROVE  Recorded(Append(events, e))
<1> DEFINE n == Len(events)
           longer == Append(events, e)
           h == HistoryOf(events)
           g == HistoryOf(longer)
           x == TablesOf(events)["turns"]
           y == TablesOf(longer)["turns"]
<1>0. IsSeq(events) /\ \A k \in 1..n : events[k] \in TurnEvents
  BY SeqFacts
<1>1. n \in Nat /\ Len(longer) = n + 1 /\ longer[n + 1] = e /\ \A i \in 1..n : longer[i] = events[i]
  BY <1>0, AppendSeq
<1>2. /\ \A i \in 0..n : g[i] = h[i]
      /\ g[n + 1] = Projected(h[n], e) /\ g[n + 1] = TablesOf(longer) /\ h[n] = TablesOf(events)
  <2>1. \A i \in 0..n : g[i] = h[i]
    BY <1>0, HistoryAppend
  <2> QED
    BY <1>0, <1>1, <2>1, TablesOfAppend DEF TablesOf
<1>3. longer \in Seq(TurnEvents) /\ \A k \in 1..(n + 1) : longer[k] \in TurnEvents
  <2>1. \A k \in 1..(n + 1) : k \in 1..n \/ k = n + 1
    BY <1>1
  <2>2. \A k \in 1..(n + 1) : longer[k] \in TurnEvents
    BY <1>0, <1>1, <2>1
  <2> QED
    BY <2>2
<1>4. Typed(h[n]) /\ \A i \in 0..n : Counted(RowsAfter(events, i))
  BY <1>1, StagesTyped
<1>5. Counted(y.row)
  <2>1. n + 1 \in 0..Len(longer)
    BY <1>1
  <2> QED
    BY <1>2, <1>3, <2>1, StagesTyped DEF RowsAfter
<1> HIDE DEF longer, n, h, g
<1>6. Sound(events, n, h[n]) /\ Possible(events, n, h[n], e)
  BY <1>1, <1>2 DEF Recorded, n, h
<1>7. Sound(longer, n, h[n]) /\ Possible(longer, n, h[n], e)
  <2>1. n \in 0..n
    BY <1>1
  <2> QED
    BY <1>1, <1>6, <2>1, SamePrefix
<1>8. Sound(longer, n + 1, g[n + 1])
  BY <1>1, <1>2, <1>3, <1>4, <1>7, SoundStep
<1>9. \A i \in 0..(n + 1) : Sound(longer, i, g[i])
  <2> TAKE i \in 0..(n + 1)
  <2>1. CASE i \in 0..n
    <3>1. Sound(events, i, h[i])
      BY <2>1 DEF Recorded, n, h
    <3> QED
      BY <1>1, <1>2, <2>1, <3>1, SamePrefix
  <2>2. CASE i = n + 1
    BY <1>8, <2>2
  <2> QED
    BY <1>1, <2>1, <2>2
<1>10. \A i \in 0..n : Possible(longer, i, g[i], longer[i + 1])
  <2> TAKE i \in 0..n
  <2>1. CASE i \in 0..(n - 1)
    <3>1. Possible(events, i, h[i], events[i + 1]) /\ i + 1 \in 1..n
      BY <1>1, <2>1 DEF Recorded, n, h
    <3> QED
      BY <1>1, <1>2, <3>1, SamePrefix
  <2>2. CASE i = n
    BY <1>1, <1>2, <1>7, <2>2
  <2> QED
    BY <1>1, <2>1, <2>2
<1>11. ASSUME NEW i \in 0..n, longer[i + 1].type = "reverted", NEW d \in Nat, Lowest(longer, i + 1, n + 1, d)
       PROVE  Foretold(longer, i + 1, d, RowsAfter(longer, i), y.row)
  <2>1. CASE i = n
    <3>1. longer[n + 1] = e /\ e.type = "reverted" /\ e.count \in Nat
      BY <1>1, <1>11, <2>1, EventFacts
    <3>2. d = e.count
      <4>1. \A k \in (n + 1)..(n + 1) : k = n + 1
        BY <1>1
      <4> QED
        BY <1>11, <2>1, <3>1, <4>1 DEF Lowest
    <3>3. Shortened(h[n]["turns"], g[n + 1]["turns"], e.count)
      BY <1>2, <1>4, <3>1, RowsShorten
    <3>4. RowsAfter(longer, n) = x.row
      BY <1>1, <1>2 DEF RowsAfter, g
    <3>5. Shortened(x, y, longer[n + 1].count) /\ longer[n + 1].count \in Nat
      BY <1>2, <3>1, <3>3
    <3> HIDE DEF x, y
    <3>6. Foretold(longer, n + 1, longer[n + 1].count, x.row, y.row)
      BY <3>5, ForetoldNow
    <3> QED
      BY <2>1, <3>1, <3>2, <3>4, <3>6
  <2>2. CASE i \in 0..(n - 1)
    <3> DEFINE H == RowsAfter(events, i)
    <3>1. i + 1 \in 1..n /\ i + 1 \in Nat /\ i + 1 \in 0..n /\ n \in (i + 1)..n /\ i + 1 \in (i + 1)..n /\ i \in 0..n
      BY <1>1, <2>2
    <3>2. events[i + 1] = longer[i + 1] /\ events[i + 1].type = "reverted" /\ events[i + 1].count \in Nat
      BY <1>0, <1>1, <1>11, <3>1, EventFacts DEF n
    <3>3. RowsAfter(longer, i) = H
      BY <1>2, <3>1 DEF RowsAfter, g, h
    <3>4. \A k \in (i + 1)..n : events[k] = longer[k] /\ events[k] \in TurnEvents /\ events[k].count \in Nat
      <4>1. \A k \in (i + 1)..n : k \in 1..n
        BY <3>1
      <4> QED
        BY <1>0, <1>1, <4>1, EventFacts DEF n
    <3>5. PICK b \in Nat : Lowest(events, i + 1, n, b)
      BY <1>1, <3>1, <3>2, <3>4, LowestExists
    <3>6. Foretold(events, i + 1, b, H, x.row)
      BY <2>2, <3>2, <3>5 DEF Recorded, TablesOf, RowsAfter, n
    <3>7. Counted(H) /\ Counted(x.row)
      <4>1. n \in 0..n
        BY <1>1
      <4> QED
        BY <1>4, <3>1, <4>1 DEF TablesOf, RowsAfter, n
    <3>8. \A k : k \in (i + 1)..(n + 1) <=> k \in (i + 1)..n \/ k = n + 1
      BY <1>1, <3>1
    <3>9. 0 \notin SentBy(events, i + 1)
      <4>1. \A k \in 1..(i + 1) : k \in 1..n
        BY <1>1, <3>1
      <4> QED
        BY <1>0, <3>1, <4>1, NullIsFresh DEF n
    <3>10. CASE e.type = "reverted"
      <4>1. Shortened(x, y, e.count) /\ e.count \in Nat
        BY <1>2, <1>4, <3>10, RowsShorten, EventFacts
      <4>2. d <= b /\ d <= e.count /\ (d = b \/ d = e.count) /\ b <= events[i + 1].count
        <5>1. /\ \E k \in (i + 1)..n : events[k].type = "reverted" /\ events[k].count = b
              /\ \A k \in (i + 1)..n : events[k].type = "reverted" => b <= events[k].count
          BY <3>5 DEF Lowest
        <5>2. /\ \E k \in (i + 1)..(n + 1) : longer[k].type = "reverted" /\ longer[k].count = d
              /\ \A k \in (i + 1)..(n + 1) : longer[k].type = "reverted" => d <= longer[k].count
          BY <1>11 DEF Lowest
        <5>3. d <= b /\ d <= e.count /\ b <= events[i + 1].count
          BY <1>1, <3>1, <3>2, <3>4, <3>8, <3>10, <5>1, <5>2
        <5>4. d = e.count \/ b <= d
          BY <1>1, <3>4, <3>8, <5>1, <5>2
        <5> QED
          BY <5>3, <5>4
      <4> HIDE DEF x, y, H
      <4>3. Foretold(events, i + 1, d, H, y.row)
        BY <3>2, <3>6, <3>7, <3>9, <4>1, <4>2, ForetoldShortens
      <4> QED
        BY <1>1, <3>1, <3>3, <4>3, SameForetold
    <3>11. CASE e.type # "reverted"
      <4>1. Grown(x, y)
        BY <1>2, <1>4, <1>6, <3>11, RowsGrow
      <4>2. d = b
        <5>1. /\ \E k \in (i + 1)..n : events[k].type = "reverted" /\ events[k].count = b
              /\ \A k \in (i + 1)..n : events[k].type = "reverted" => b <= events[k].count
          BY <3>5 DEF Lowest
        <5>2. /\ \E k \in (i + 1)..n : events[k].type = "reverted" /\ events[k].count = d
              /\ \A k \in (i + 1)..n : events[k].type = "reverted" => d <= events[k].count
          BY <1>1, <1>11, <3>4, <3>8, <3>11 DEF Lowest
        <5> QED
          BY <5>1, <5>2
      <4>3. /\ x.pendingStart \notin SentBy(events, i + 1)
            /\ \A u \in Turns : x.row[u].count = 0 => x.row[u].pending \notin SentBy(events, i + 1)
        <5>1. /\ FreshAt(events, n, x.pendingStart)
              /\ \A u \in Turns : x.row[u].count = 0 => FreshAt(events, n, x.row[u].pending)
          BY <1>2, <1>6 DEF Sound
        <5> QED
          BY <3>1, <3>2, <5>1 DEF FreshAt
      <4>4. events[i + 1].count = 0 \/ \E u \in Turns : H[u].count = events[i + 1].count
        <5>1. Possible(events, i, h[i], events[i + 1])
          BY <2>2 DEF Recorded, n, h
        <5> QED
          BY <3>2, <5>1 DEF Possible, RowsAfter, h
      <4> HIDE DEF x, y, H
      <4>5. Foretold(events, i + 1, b, H, y.row)
        BY <1>5, <3>2, <3>6, <3>7, <4>1, <4>3, <4>4, ForetoldGrows
      <4> QED
        BY <1>1, <3>1, <3>3, <4>2, <4>5, SameForetold
    <3> QED
      BY <3>10, <3>11
  <2> QED
    BY <1>1, <2>1, <2>2
<1>12. y.row = RowsAfter(longer, n + 1) /\ (n + 1) - 1 = n
  BY <1>1, <1>2 DEF RowsAfter, g
<1> QED
  BY <1>1, <1>9, <1>10, <1>11, <1>12 DEF Recorded, g, longer

-----------------------------------------------------------------------------
(***************************************************************************)
(* The log, and the one a rollback goes back to, are such logs; the start  *)
(* a transaction has still to request is of a question just asked.         *)
(***************************************************************************)
StartsAsked ==
  \A i \in DOMAIN txn.todo :
    txn.todo[i].n \in Ids(TablesOf(log)["messages"], "user") /\ FreshAt(log, Last, txn.todo[i].n)

Chronicle ==
  /\ CountsInOrder(log) => Recorded(log)
  /\ InTxn => (CountsInOrder(txn.log) => Recorded(txn.log)) /\ StartsAsked

LEMMA EmptyRecorded ==
  ASSUME NEW events, Len(events) = 0
  PROVE  Recorded(events)
<1>1. HistoryOf(events)[0] = EmptyTables
  BY HistoryStages DEF Stages
<1>2. /\ EmptyTables["turns"] = [row |-> [u \in Turns |-> NoRow], pendingStart |-> 0]
      /\ EmptyTables["messages"] = {}
  BY Names DEF EmptyTables, EmptyTable
<1>3. Sound(events, 0, EmptyTables)
  BY <1>2 DEF Sound, FreshAt, SentBy, NoRow, Ids, OfRole
<1> QED
  BY <1>1, <1>3 DEF Recorded

LEMMA CommandPossible ==
  ASSUME NEW events, NEW e, TakesItsCount(TablesOf(events), e), e.type # "turn-start-requested"
  PROVE  Possible(events, Len(events), TablesOf(events), e)
BY DEF TakesItsCount, Possible

LEMMA CommandRecorded ==
  ASSUME LogTypes, CountsInOrder(log) => Recorded(log),
         NEW events, IsCommand(events), Begin(events)
  PROVE  Chronicle'
<1> DEFINE e == Head(events)
<1>1. e \in TurnEvents /\ log \in Seq(TurnEvents)
  BY SeqFacts DEF IsCommand, LogTypes
<1>2. log' = Append(log, e) /\ txn'.log = log /\ txn'.todo = Tail(events)
  BY DEF Begin, AppendAndProject
<1>3. ASSUME CountsInOrder(log')
      PROVE  Recorded(log')
  <2>1. CountsInOrder(log) /\ TakesItsCount(TablesOf(log), e)
    BY <1>1, <1>2, <1>3, SeqFacts, CountsAppend
  <2>2. Possible(log, Len(log), TablesOf(log), e)
    BY <2>1, CommandPossible DEF IsCommand
  <2> QED
    BY <1>1, <1>2, <2>1, <2>2, RecordedAppend
<1>4. StartsAsked'
  <2> SUFFICES ASSUME NEW i \in DOMAIN Tail(events)
               PROVE  /\ Tail(events)[i].n \in Ids(TablesOf(log')["messages"], "user")
                      /\ FreshAt(log', Len(log'), Tail(events)[i].n)
    BY <1>2 DEF StartsAsked, Last
  <2>1. e.type = "user-message" /\ Tail(events)[i].n = e.n /\ ~Logged("user-message", e.n)
    BY DEF IsCommand
  <2>2. IsSeq(log) /\ Typed(TablesOf(log))
    BY <1>1, SeqFacts, HistoryTyped
  <2>3. Len(log) \in Nat /\ Len(log') = Len(log) + 1 /\ log'[Len(log) + 1] = e
        /\ \A k \in 1..Len(log) : log'[k] = log[k]
    BY <1>2, <2>2, AppendSeq
  <2>4. e.n \in Ids(TablesOf(log')["messages"], "user")
    <3>1. TablesOf(log') = Projected(TablesOf(log), e)
      BY <1>2, <2>2, TablesOfAppend
    <3>2. TablesOf(log')["messages"] = ApplyThreadMessages(TablesOf(log), e)
      BY <2>2, <3>1, ProjectedTables, Names DEF Typed, Apply
    <3>3. Ids(ApplyThreadMessages(TablesOf(log), e), "user") = Ids(TablesOf(log)["messages"], "user") \cup {e.n}
      BY <1>1, <2>1, <2>2, AskedAfter
    <3> QED
      BY <3>2, <3>3
  <2>5. FreshAt(log, Len(log), e.n)
    <3>1. \A k \in 1..Len(log) : \A j \in 1..k : j \in 1..Len(log)
      BY <2>3
    <3> QED
      BY <2>1, <3>1 DEF FreshAt, SentBy, Logged, Last
  <2>6. FreshAt(log', Len(log), e.n)
    <3>1. Len(log) \in 0..Len(log)
      BY <2>3
    <3> QED
      BY <2>3, <2>5, <3>1, SamePrefix
  <2>7. FreshAt(log', Len(log) + 1, e.n)
    <3>1. log'[Len(log) + 1].type # "reverted"
      BY <2>1, <2>3
    <3> QED
      BY <2>3, <2>6, <3>1, FreshOneMore
  <2> QED
    BY <2>1, <2>3, <2>4, <2>7
<1> QED
  BY <1>2, <1>3, <1>4 DEF Chronicle

LEMMA StartRecorded ==
  ASSUME LogTypes, CountsInOrder(log) => Recorded(log), StartsAsked, AppendNext,
         Head(txn.todo) \in TurnEvents, Head(txn.todo).type = "turn-start-requested",
         txn.todo \in Seq(TurnEvents)
  PROVE  (CountsInOrder(log') => Recorded(log')) /\ StartsAsked'
<1> DEFINE e == Head(txn.todo)
           n == Len(log)
<1>1. log \in Seq(TurnEvents) /\ IsSeq(log) /\ Typed(TablesOf(log))
  BY SeqFacts, HistoryTyped DEF LogTypes
<1>2. log' = Append(log, e) /\ txn'.todo = Tail(txn.todo) /\ txn.todo # <<>>
  BY DEF AppendNext, AppendAndProject
<1>3. n \in Nat /\ Len(log') = n + 1 /\ log'[n + 1] = e /\ \A k \in 1..n : log'[k] = log[k]
  BY <1>1, <1>2, AppendSeq
<1>4. /\ 1 \in DOMAIN txn.todo /\ e = txn.todo[1]
      /\ \A i \in DOMAIN Tail(txn.todo) : i + 1 \in DOMAIN txn.todo /\ Tail(txn.todo)[i] = txn.todo[i + 1]
  BY <1>2
<1>5. ASSUME CountsInOrder(log')
      PROVE  Recorded(log')
  <2>1. e.n \in Ids(TablesOf(log)["messages"], "user") /\ FreshAt(log, n, e.n)
    BY <1>4 DEF StartsAsked, Last
  <2>2. Possible(log, n, TablesOf(log), e)
    BY <2>1 DEF Possible
  <2>3. Recorded(log)
    BY <1>1, <1>2, <1>5, CountsAppend
  <2> QED
    BY <1>1, <1>2, <2>2, <2>3, RecordedAppend
<1>6. Ids(TablesOf(log')["messages"], "user") = Ids(TablesOf(log)["messages"], "user")
  <2>1. TablesOf(log') = Projected(TablesOf(log), e)
    BY <1>1, <1>2, TablesOfAppend
  <2>2. TablesOf(log')["messages"] = ApplyThreadMessages(TablesOf(log), e)
    BY <1>1, <2>1, ProjectedTables, Names DEF Typed, Apply
  <2> QED
    BY <1>1, <2>2, AskedAfter
<1>7. \A q : FreshAt(log, n, q) => FreshAt(log', n + 1, q)
  <2>1. n \in 0..n
    BY <1>3
  <2>2. \A q : FreshAt(log', n, q) <=> FreshAt(log, n, q)
    BY <1>3, <2>1, SamePrefix
  <2>3. log'[n + 1].type # "reverted"
    BY <1>3
  <2> QED
    BY <1>3, <2>2, <2>3, FreshOneMore
<1>8. StartsAsked'
  <2> SUFFICES ASSUME NEW i \in DOMAIN Tail(txn.todo)
               PROVE  /\ Tail(txn.todo)[i].n \in Ids(TablesOf(log')["messages"], "user")
                      /\ FreshAt(log', Len(log'), Tail(txn.todo)[i].n)
    BY <1>2 DEF StartsAsked, Last
  <2> HIDE DEF n, e
  <2>1. Tail(txn.todo)[i].n \in Ids(TablesOf(log)["messages"], "user") /\ FreshAt(log, n, Tail(txn.todo)[i].n)
    BY <1>4 DEF StartsAsked, Last, n
  <2> QED
    BY <1>3, <1>6, <1>7, <2>1
<1> QED
  BY <1>5, <1>8

\* Every log the engine writes, as long as counts come in order, is such a log: what a revert
\* keeps of the turns is settled by the time it is made.
THEOREM LogsAreRecorded == Spec => []Chronicle
<1>1. Init => Chronicle
  <2> SUFFICES ASSUME Init PROVE Chronicle
    OBVIOUS
  <2>1. Len(log) = 0 /\ ~InTxn
    BY DEF Init, InTxn, NoTxn
  <2> QED
    BY <2>1, EmptyRecorded DEF Chronicle
<1>2. PipelineTypes /\ Chronicle /\ [Next]_vars => Chronicle'
  <2> SUFFICES ASSUME PipelineTypes, Chronicle, [Next]_vars
               PROVE  Chronicle'
    OBVIOUS
  <2>0. LogTypes /\ WaitingTypes' /\ (CountsInOrder(log) => Recorded(log))
    BY WaitingStep DEF PipelineTypes, Chronicle
  <2>1. CASE Commands
    <3>1. PICK events : IsCommand(events) /\ Begin(events)
      BY <2>1, CommandsBegin
    <3> QED
      BY <2>0, <3>1, CommandRecorded
  <2>2. CASE AppendNext
    <3>1. InTxn /\ txn'.log = txn.log
      BY <2>2 DEF AppendNext
    <3>2. Head(txn.todo) \in TurnEvents /\ Head(txn.todo).type = "turn-start-requested"
          /\ txn.todo \in Seq(TurnEvents)
      BY <2>0, <2>2, <3>1, AppendNextTyped DEF PipelineTypes, OpenTypes
    <3>3. (CountsInOrder(log') => Recorded(log')) /\ StartsAsked'
      BY <2>0, <2>2, <3>1, <3>2, StartRecorded DEF Chronicle
    <3>4. CountsInOrder(txn'.log) => Recorded(txn'.log)
      BY <3>1 DEF Chronicle
    <3> QED
      BY <3>3, <3>4 DEF Chronicle
  <2>3. CASE Undo
    <3>1. ~InTxn' /\ log' = IF InTxn THEN txn.log ELSE log
      BY <2>3 DEF Undo, NoTxn, InTxn
    <3> QED
      BY <3>1 DEF Chronicle
  <2>4. CASE Commit
    <3>1. ~InTxn' /\ log' = log
      BY <2>4 DEF Commit, NoTxn, InTxn
    <3> QED
      BY <3>1 DEF Chronicle
  <2>5. CASE UNCHANGED <<log, txn>>
    BY <2>5 DEF Chronicle, InTxn, StartsAsked, Last
  <2>6. CASE Rollback \/ Crash
    BY <2>3, <2>6 DEF Rollback, Crash
  <2>7. CASE Bootstrap \/ CatchUp \/ CaughtUp \/ GoLive \/ (\E p \in Rebuildable : Rebuild(p)) \/ UNCHANGED vars
    BY <2>5, <2>7 DEF Bootstrap, CatchUp, CaughtUp, GoLive, Rebuild, vars
  <2>8. CASE UploadImage \/ Decisions
    BY <2>5, <2>8, NothingBegins
  <2> QED
    BY <2>1, <2>2, <2>4, <2>6, <2>7, <2>8 DEF Next, Commands, Decisions
<1> QED
  BY <1>1, <1>2, PipelineTypesHold, PTL DEF Spec

-----------------------------------------------------------------------------
(***************************************************************************)
(* A table of messages that is replayed, against the one of the history:   *)
(* the lowest revert still to come, to d, cannot tell them apart.          *)
(***************************************************************************)
Answers(messages, turns) == {m \in OfRole(messages, "assistant") : m.n \in turns}

MessagesAlike(events, i, m, d) ==
  LET t == HistoryOf(events)[i]
      row == t["turns"].row
      asked == Ids(t["messages"], "user")
  IN  /\ Alike(asked, Ids(m, "user"), Pendings(row, d) \ {0}, d)
      /\ \A q \in asked : FreshAt(events, i, q) => q \in Ids(m, "user")
      /\ Ids(m, "user") \subseteq SentBy(events, i)
      /\ Answers(t["messages"], KeptTurns(row, d)) = Answers(m, KeptTurns(row, d))

Ahead(events, i, d) ==
  /\ Lowest(events, i + 1, Len(events), d)
  /\ \E u \in Turns : d < RowsAfter(events, i)[u].count

MessagesMatch(events, i, m) ==
  \/ m = HistoryOf(events)[i]["messages"]
  \/ \E d \in Nat : Ahead(events, i, d) /\ MessagesAlike(events, i, m, d)

LEMMA SameIsAlike ==
  ASSUME NEW events, NEW i, NEW d, Sound(events, i, HistoryOf(events)[i])
  PROVE  MessagesAlike(events, i, HistoryOf(events)[i]["messages"], d)
<1> DEFINE t == HistoryOf(events)[i]
           U == Ids(t["messages"], "user")
<1>1. Pendings(t["turns"].row, d) \ {0} \subseteq U /\ U \subseteq SentBy(events, i)
  BY DEF Sound, Pendings, KeptTurns
<1> QED
  BY <1>1 DEF MessagesAlike, Alike

(* Messages are known by the questions and the answers among them.         *)
LEMMA SameMessages ==
  ASSUME NEW x, x \subseteq Messages, NEW y, y \subseteq Messages,
         Ids(x, "user") = Ids(y, "user"), OfRole(x, "assistant") = OfRole(y, "assistant")
  PROVE  x = y
<1>1. \A z : z \subseteq Messages => z = OfRole(z, "user") \cup OfRole(z, "assistant")
  <2> TAKE z
  <2> HAVE z \subseteq Messages
  <2>1. \A k \in z : k.role = "user" \/ k.role = "assistant"
    BY MessageFields DEF Messages
  <2> QED
    BY <2>1 DEF OfRole
<1>2. ASSUME NEW a, a \subseteq Messages, NEW b, b \subseteq Messages, Ids(a, "user") = Ids(b, "user")
      PROVE  OfRole(a, "user") \subseteq OfRole(b, "user")
  <2> SUFFICES ASSUME NEW k \in OfRole(a, "user") PROVE k \in OfRole(b, "user")
    OBVIOUS
  <2>1. k.n \in Ids(b, "user")
    BY <1>2 DEF Ids
  <2>2. PICK j \in OfRole(b, "user") : j.n = k.n
    BY <2>1 DEF Ids
  <2>3. j \in UserMessages /\ k \in UserMessages
    BY <1>2, Roles
  <2> QED
    BY <2>2, <2>3, MessageFields
<1> QED
  BY <1>1, <1>2

(* Between a revert to d and one to c there is room for c - d questions.   *)
LEMMA RoomBetween ==
  ASSUME NEW row, Counted(row), \A u, v \in Turns : row[u].count # 0 /\ row[u].count = row[v].count => u = v,
         NEW c \in Nat, NEW d \in Nat, d <= c,
         Pendings(row, c) \ {0} \subseteq Turns
  PROVE  d + Cardinality(Pendings(row, c) \ {0}) <= c + Cardinality(Pendings(row, d) \ {0})
<1> DEFINE N == Pendings(row, c) \ {0}
           P == Pendings(row, d) \ {0}
           D == N \ P
           R == (d + 1)..c
           turn(q) == CHOOSE u \in KeptTurns(row, c) : row[u].pending = q
           f == [q \in D |-> row[turn(q)].count]
<1>1. P \subseteq N
  BY DEF Pendings, KeptTurns
<1>2. ASSUME NEW q \in D
      PROVE  turn(q) \in KeptTurns(row, c) /\ row[turn(q)].pending = q /\ row[turn(q)].count \in R /\ turn(q) \in Turns
  <2>1. turn(q) \in KeptTurns(row, c) /\ row[turn(q)].pending = q
    BY DEF Pendings
  <2> HIDE DEF turn
  <2>2. turn(q) \notin KeptTurns(row, d)
    BY <2>1 DEF Pendings
  <2>3. turn(q) \in Turns /\ row[turn(q)].count \in 1..c /\ row[turn(q)].count \notin 1..d
    BY <2>1, <2>2 DEF KeptTurns
  <2> QED
    BY <2>1, <2>3
<1>3. f \in Injection(D, R)
  <2>1. f \in [D -> R]
    BY <1>2
  <2>2. ASSUME NEW p \in D, NEW q \in D, f[p] = f[q] PROVE p = q
    <3> HIDE DEF turn
    <3>1. row[turn(p)].count = row[turn(q)].count /\ row[turn(p)].count \in R
      BY <1>2, <2>2
    <3>2. row[turn(p)].count # 0
      BY <3>1
    <3>3. turn(p) = turn(q)
      BY <1>2, <3>1, <3>2
    <3> QED
      BY <1>2, <3>3
  <2> HIDE DEF f
  <2> QED
    BY <2>1, <2>2, Fun_IsInj
<1>4. IsFiniteSet(R) /\ Cardinality(R) = c - d
  <2>1. d + 1 \in Int /\ c \in Int /\ d + 1 \in Nat
    OBVIOUS
  <2>2. IsFiniteSet(R) /\ Cardinality(R) = IF d + 1 > c THEN 0 ELSE c - (d + 1) + 1
    BY <2>1, FS_Interval
  <2> HIDE DEF R
  <2> QED
    BY <2>2
<1>5. IsFiniteSet(D) /\ Cardinality(D) <= Cardinality(R)
  <2> HIDE DEF D, R, f
  <2> QED
    BY <1>3, <1>4, FS_Injection
<1>6. N \subseteq Turns /\ P \subseteq Turns /\ D \subseteq Turns /\ N = P \cup D /\ P \cap D = {}
  BY <1>1
<1> HIDE DEF N, P, D, R, f
<1>7. PICK x, y, z \in Nat : x = Cardinality(N) /\ y = Cardinality(P) /\ z = Cardinality(D)
  BY <1>6, TurnSets
<1>8. x = y + z
  <2>1. Cardinality(P \cup D) = Cardinality(P) + Cardinality(D) - Cardinality(P \cap D)
    BY <1>6, TurnSets, FS_Union
  <2>2. Cardinality(P \cap D) = 0
    BY <1>6, FS_EmptySet
  <2>3. x = y + z - 0
    BY <1>6, <1>7, <2>1, <2>2
  <2> QED
    BY <2>3
<1>9. z <= c - d
  BY <1>4, <1>5, <1>7
<1>10. d + x <= c + y
  BY <1>8, <1>9
<1> QED
  BY <1>7, <1>10 DEF N, P

(* The stages of a recorded log, at hand for one step of a replay.         *)
LEMMA StageFacts ==
  ASSUME NEW events \in Seq(TurnEvents), Recorded(events), NEW i \in 0..(Len(events) - 1)
  PROVE  LET h == HistoryOf(events)
             n == Len(events)
         IN  /\ n \in Nat /\ i \in Nat /\ i \in 0..n /\ i + 1 \in 1..n /\ i + 1 \in 0..n
             /\ events[i + 1] \in TurnEvents /\ Typed(h[i]) /\ Typed(h[i + 1])
             /\ Sound(events, i, h[i]) /\ Sound(events, i + 1, h[i + 1])
             /\ Possible(events, i, h[i], events[i + 1])
             /\ h[i + 1] = Projected(h[i], events[i + 1])
             /\ h[i + 1]["messages"] = ApplyThreadMessages(h[i], events[i + 1])
             /\ h[i + 1]["activities"] = ApplyThreadActivities(h[i], events[i + 1])
             /\ Counted(RowsAfter(events, i))
<1> DEFINE h == HistoryOf(events)
           n == Len(events)
<1>1. n \in Nat /\ i \in Nat /\ i \in 0..n /\ i + 1 \in 1..n /\ i + 1 \in 0..n /\ i + 1 # 0 /\ (i + 1) - 1 = i
  OBVIOUS
<1>2. events[i + 1] \in TurnEvents
  BY <1>1
<1>3. Typed(h[i]) /\ Typed(h[i + 1]) /\ Counted(RowsAfter(events, i))
  BY <1>1, StagesTyped
<1>4. Sound(events, i, h[i]) /\ Sound(events, i + 1, h[i + 1]) /\ Possible(events, i, h[i], events[i + 1])
  BY <1>1 DEF Recorded
<1>5. h[i + 1] = Projected(h[i], events[i + 1])
  BY <1>1, HistoryStages DEF Stages
<1>6. h[i + 1]["messages"] = ApplyThreadMessages(h[i], events[i + 1])
      /\ h[i + 1]["activities"] = ApplyThreadActivities(h[i], events[i + 1])
  BY <1>3, <1>5, ProjectedTables, Names DEF Typed, Apply
<1> QED
  BY <1>1, <1>2, <1>3, <1>4, <1>5, <1>6

LEMMA LowestFrom ==
  ASSUME NEW events, NEW i \in Nat, NEW n \in Nat, i + 1 <= n, NEW d,
         Lowest(events, i + 1, n, d),
         events[i + 1].type # "reverted" \/ events[i + 1].count # d
  PROVE  Lowest(events, (i + 1) + 1, n, d)
<1>1. \A k : k \in (i + 1)..n <=> k = i + 1 \/ k \in ((i + 1) + 1)..n
  OBVIOUS
<1> QED
  BY <1>1 DEF Lowest

(* What the replay of a revert keeps, its turns read off the last rows.    *)
LEMMA ForetoldQuestions ==
  ASSUME NEW events, NEW i, NEW d \in Nat, NEW H, NEW T, Foretold(events, i, d, H, T),
         events[i].count \in Nat, d <= events[i].count, NEW V, V \subseteq SentBy(events, i),
         Pendings(H, d) \ {0} \subseteq V, 0 \notin V
  PROVE  V \cap Pendings(T, events[i].count) = Pendings(H, d) \ {0}
<1> DEFINE c == events[i].count
<1>1. ASSUME NEW q \in Pendings(H, d) \ {0} PROVE q \in V \cap Pendings(T, c)
  <2>1. PICK u \in KeptTurns(H, d) : H[u].pending = q
    BY DEF Pendings
  <2>2. T[u].count = H[u].count /\ T[u].pending = q
    BY <2>1 DEF Foretold
  <2>3. u \in KeptTurns(T, c)
    BY <2>2 DEF KeptTurns
  <2> QED
    BY <2>2, <2>3 DEF Pendings
<1>2. ASSUME NEW q \in V \cap Pendings(T, c) PROVE q \in Pendings(H, d) \ {0}
  <2>1. PICK u \in KeptTurns(T, c) : T[u].pending = q
    BY DEF Pendings
  <2>2. q \in SentBy(events, i)
    OBVIOUS
  <2>3. u \in KeptTurns(H, d)
    BY <2>1, <2>2 DEF Foretold
  <2>4. H[u].pending = q
    BY <2>1, <2>2, <2>3 DEF Foretold
  <2> QED
    BY <2>3, <2>4 DEF Pendings
<1> QED
  BY <1>1, <1>2

(* A revert on the way of a replay, to c or, further back still to come, d. *)
LEMMA RevertsAhead ==
  ASSUME NEW events \in Seq(TurnEvents), Recorded(events), NEW i \in 0..(Len(events) - 1),
         events[i + 1].type = "reverted",
         NEW d \in Nat, Lowest(events, i + 1, Len(events), d)
  PROVE  LET c == events[i + 1].count
             H == RowsAfter(events, i)
             G == RowsAfter(events, i + 1)
             T == RowsAfter(events, Len(events))
         IN  /\ c \in Nat /\ d <= c /\ Foretold(events, i + 1, d, H, T)
             /\ KeptTurns(H, d) \subseteq KeptTurns(T, c) /\ KeptTurns(H, d) \subseteq KeptTurns(H, c)
             /\ d = c => KeptTurns(T, c) = KeptTurns(H, c)
             /\ d # c => /\ Ahead(events, i + 1, d)
                         /\ KeptTurns(G, d) = KeptTurns(H, d) /\ Pendings(G, d) = Pendings(H, d)
<1> DEFINE n == Len(events)
           e == events[i + 1]
           c == e.count
           t == HistoryOf(events)[i]
           s == HistoryOf(events)[i + 1]
           H == t["turns"].row
           G == s["turns"].row
           T == RowsAfter(events, n)
<1>1. /\ n \in Nat /\ i \in Nat /\ i + 1 \in 1..n /\ e \in TurnEvents /\ Typed(t)
      /\ Possible(events, i, t, e) /\ s = Projected(t, e)
  BY StageFacts
<1>2. c \in Nat /\ d <= c
  <2>1. i + 1 \in (i + 1)..n
    BY <1>1
  <2> QED
    BY <1>1, <2>1, EventFacts DEF Lowest
<1>3. Foretold(events, i + 1, d, H, T)
  BY <1>1 DEF Recorded, RowsAfter
<1>4. Shortened(t["turns"], s["turns"], c)
  BY <1>1, RowsShorten
<1>5. KeptTurns(H, d) \subseteq KeptTurns(T, c) /\ KeptTurns(H, d) \subseteq KeptTurns(H, c)
  BY <1>2, <1>3 DEF Foretold, KeptTurns
<1>6. d = c => KeptTurns(T, c) = KeptTurns(H, c)
  BY <1>3 DEF Foretold
<1>7. ASSUME d # c
      PROVE  /\ Ahead(events, i + 1, d)
             /\ KeptTurns(G, d) = KeptTurns(H, d) /\ Pendings(G, d) = Pendings(H, d)
  <2>1. Lowest(events, (i + 1) + 1, n, d)
    BY <1>1, <1>7, LowestFrom
  <2>2. Ahead(events, i + 1, d)
    <3>1. c # 0
      BY <1>2, <1>7
    <3>2. PICK u \in Turns : H[u].count = c
      BY <1>1, <3>1 DEF Possible
    <3>3. u \in KeptTurns(H, c) /\ d < c
      BY <1>2, <1>7, <3>1, <3>2 DEF KeptTurns
    <3>4. G[u].count = c
      BY <1>4, <3>2, <3>3 DEF Shortened
    <3> QED
      BY <2>1, <3>3, <3>4 DEF Ahead, RowsAfter
  <2>3. KeptTurns(G, d) = KeptTurns(H, d)
    <3>1. \A u \in Turns : H[u].count \in 1..d => u \in KeptTurns(H, c)
      BY <1>2 DEF KeptTurns
    <3>2. \A u \in Turns : G[u].count \in 1..d <=> H[u].count \in 1..d
      <4>1. 0 \notin 1..d
        OBVIOUS
      <4> QED
        BY <1>4, <3>1, <4>1 DEF Shortened
    <3> QED
      BY <3>2 DEF KeptTurns
  <2>4. \A u \in KeptTurns(H, d) : G[u].pending = H[u].pending
    BY <1>4, <1>5 DEF Shortened, KeptTurns
  <2> QED
    BY <2>2, <2>3, <2>4 DEF Pendings
<1> QED
  BY <1>2, <1>3, <1>5, <1>6, <1>7 DEF RowsAfter

LEMMA ReplayRevert ==
  ASSUME NEW events \in Seq(TurnEvents), Recorded(events), NEW i \in 0..(Len(events) - 1),
         events[i + 1].type = "reverted",
         NEW r, r["messages"] \subseteq Messages, r["turns"].row = RowsAfter(events, Len(events)),
         NEW d \in Nat, Lowest(events, i + 1, Len(events), d), MessagesAlike(events, i, r["messages"], d)
  PROVE  MessagesMatch(events, i + 1, ApplyThreadMessages(r, events[i + 1]))
<1> DEFINE n == Len(events)
           e == events[i + 1]
           c == e.count
           t == HistoryOf(events)[i]
           s == HistoryOf(events)[i + 1]
           H == t["turns"].row
           G == s["turns"].row
           T == r["turns"].row
           U == Ids(t["messages"], "user")
           V == Ids(r["messages"], "user")
           P == Pendings(H, d) \ {0}
           N == Pendings(H, c) \ {0}
           x == ApplyThreadMessages(t, e)
           y == ApplyThreadMessages(r, e)
<1>1. /\ n \in Nat /\ i \in Nat /\ i + 1 \in 1..n /\ e \in TurnEvents /\ Typed(t) /\ Typed(s)
      /\ Sound(events, i, t) /\ Sound(events, i + 1, s) /\ Possible(events, i, t, e)
      /\ s = Projected(t, e) /\ s["messages"] = x /\ Counted(H)
  BY StageFacts DEF RowsAfter
<1>2. /\ c \in Nat /\ d <= c /\ Foretold(events, i + 1, d, H, T)
      /\ KeptTurns(H, d) \subseteq KeptTurns(T, c) /\ KeptTurns(H, d) \subseteq KeptTurns(H, c)
      /\ d = c => KeptTurns(T, c) = KeptTurns(H, c)
      /\ d # c => /\ Ahead(events, i + 1, d)
                  /\ KeptTurns(G, d) = KeptTurns(H, d) /\ Pendings(G, d) = Pendings(H, d)
  BY RevertsAhead DEF RowsAfter
<1>3. /\ Alike(U, V, P, d) /\ V \subseteq SentBy(events, i)
      /\ Answers(t["messages"], KeptTurns(H, d)) = Answers(r["messages"], KeptTurns(H, d))
  BY DEF MessagesAlike
<1>4. U \subseteq Turns /\ V \subseteq Turns /\ t["messages"] \subseteq Messages
  BY <1>1, Roles, TypedTables
<1>5. SentBy(events, i + 1) = SentBy(events, i)
  BY <1>1, SentOneMore
<1>6. /\ Ids(x, "user") = Kept(U, U \cap Pendings(H, c), c)
      /\ OfRole(x, "assistant") = {m \in OfRole(t["messages"], "assistant") : m.n \in KeptTurns(H, c)}
  BY <1>1, <1>4, RevertedMessages
<1>7. /\ Ids(y, "user") = Kept(V, V \cap Pendings(T, c), c)
      /\ OfRole(y, "assistant") = {m \in OfRole(r["messages"], "assistant") : m.n \in KeptTurns(T, c)}
  BY <1>1, RevertedMessages
<1>8. P \subseteq U /\ P \subseteq V /\ N \subseteq U /\ 0 \notin U /\ 0 \notin V /\ P \subseteq N
  <2>1. P \subseteq U /\ P \subseteq V
    BY <1>3 DEF Alike
  <2>2. N \subseteq U
    BY <1>1 DEF Sound, Pendings, KeptTurns
  <2>3. 0 \notin U /\ 0 \notin V
    BY <1>4, TurnSets
  <2>4. P \subseteq N
    BY <1>2 DEF Pendings, KeptTurns
  <2> QED
    BY <2>1, <2>2, <2>3, <2>4
<1>9. U \cap Pendings(H, c) = N
  BY <1>8
<1>10. V \cap Pendings(T, c) = P
  <2>1. V \subseteq SentBy(events, i + 1) /\ events[i + 1].count \in Nat /\ d <= events[i + 1].count
    BY <1>2, <1>3, <1>5
  <2> HIDE DEF V, H, T
  <2> QED
    BY <1>2, <1>8, <2>1, ForetoldQuestions
<1>11. x \subseteq Messages /\ y \subseteq Messages
  <2>1. x \subseteq Messages
    BY <1>1, TypedTables
  <2>2. y \subseteq r["messages"]
    <3> DEFINE named == {m \in r["messages"] :
                          \E u \in KeptTurns(T, c) : \/ m.role = "user" /\ m.n = T[u].pending
                                                     \/ m.role = "assistant" /\ m.n = u /\ T[u].answered}
    <3>1. y = RetainMessages(r["messages"], named, KeptTurns(T, c), c)
      BY DEF ApplyThreadMessages
    <3>2. named \subseteq r["messages"]
      OBVIOUS
    <3> HIDE DEF named, y, T, c
    <3> QED
      BY <3>1, <3>2, RetainedAreMessages
  <2> QED
    BY <2>1, <2>2
<1>12. CASE d = c
  <2>1. KeptTurns(T, c) = KeptTurns(H, c) /\ N = P
    BY <1>2, <1>12
  <2>2. Ids(x, "user") = Ids(y, "user")
    <3>1. Alike(U, V, P, c)
      BY <1>3, <1>12
    <3>2. Kept(U, P, c) = Kept(V, P, c)
      BY <1>2, <1>4, <3>1, KeptOfAlike
    <3> QED
      BY <1>6, <1>7, <1>9, <1>10, <2>1, <3>2
  <2>3. OfRole(x, "assistant") = OfRole(y, "assistant")
    <3>1. Answers(t["messages"], KeptTurns(H, c)) = Answers(r["messages"], KeptTurns(H, c))
      BY <1>3, <1>12
    <3> QED
      BY <1>6, <1>7, <2>1, <3>1 DEF Answers
  <2>4. x = y
    <3> HIDE DEF x, y
    <3> QED
      BY <1>11, <2>2, <2>3, SameMessages
  <2> QED
    BY <1>1, <2>4 DEF MessagesMatch
<1>13. CASE d # c
  <2>1. Ahead(events, i + 1, d) /\ KeptTurns(G, d) = KeptTurns(H, d) /\ Pendings(G, d) \ {0} = P
    BY <1>2, <1>13
  <2>2. Alike(U, Ids(x, "user"), P, d)
    <3>1. d + Cardinality(N) <= c + Cardinality(P)
      <4>1. \A u, v \in Turns : H[u].count # 0 /\ H[u].count = H[v].count => u = v
        BY <1>1 DEF Sound
      <4>2. N \subseteq Turns
        BY <1>4, <1>8
      <4> HIDE DEF H
      <4> QED
        BY <1>1, <1>2, <4>1, <4>2, RoomBetween
    <3> HIDE DEF U, N, P, x
    <3>2. Alike(U, Kept(U, N, c), P, d)
      BY <1>2, <1>4, <1>8, <3>1, KeptIsAlike
    <3> QED
      BY <1>6, <1>9, <3>2
  <2>3. Alike(V, Ids(y, "user"), P, d)
    <3>1. P \subseteq Turns
      BY <1>4, <1>8
    <3> HIDE DEF V, P, y
    <3>2. d + Cardinality(P) <= c + Cardinality(P)
      <4>1. PICK z \in Nat : z = Cardinality(P)
        BY <3>1, TurnSets
      <4> QED
        BY <1>2, <4>1
    <3>3. Alike(V, Kept(V, P, c), P, d)
      BY <1>2, <1>4, <1>8, <3>2, KeptIsAlike
    <3> QED
      BY <1>7, <1>10, <3>3
  <2>4. Alike(Ids(x, "user"), Ids(y, "user"), P, d)
    <3> HIDE DEF U, V, P, x, y
    <3>1. Alike(Ids(x, "user"), U, P, d)
      BY <2>2, AlikeSymmetric
    <3>2. Alike(Ids(x, "user"), V, P, d)
      BY <1>3, <3>1, AlikeTransitive
    <3> QED
      BY <2>3, <3>2, AlikeTransitive
  <2>5. \A q \in Ids(x, "user") : ~FreshAt(events, i + 1, q)
    <3>1. Ids(x, "user") \subseteq SentBy(events, i + 1)
      BY <1>1 DEF Sound
    <3>2. i + 1 \in 1..(i + 1)
      BY <1>1
    <3> QED
      BY <3>1, <3>2 DEF FreshAt
  <2>6. Ids(y, "user") \subseteq SentBy(events, i + 1)
    BY <1>3, <1>5, <1>7, <1>10 DEF Kept
  <2>7. Answers(x, KeptTurns(H, d)) = Answers(y, KeptTurns(H, d))
    <3>1. Answers(x, KeptTurns(H, d)) = Answers(t["messages"], KeptTurns(H, d))
      BY <1>2, <1>6 DEF Answers
    <3>2. Answers(y, KeptTurns(H, d)) = Answers(r["messages"], KeptTurns(H, d))
      BY <1>2, <1>7 DEF Answers
    <3> QED
      BY <1>3, <3>1, <3>2
  <2> HIDE DEF x, y, P
  <2>8. MessagesAlike(events, i + 1, y, d)
    BY <1>1, <2>1, <2>4, <2>5, <2>6, <2>7 DEF MessagesAlike
  <2> QED
    BY <2>1, <2>8 DEF MessagesMatch, y
<1> QED
  BY <1>12, <1>13

(* A message is written the same way into both.                            *)
LEMMA AnswersSent ==
  ASSUME NEW a, NEW b, NEW e \in TurnEvents, NEW turns,
         e.type \in {"user-message", "assistant-message"},
         Answers(a, turns) = Answers(b, turns)
  PROVE  Answers(MessageSent(a, e), turns) = Answers(MessageSent(b, e), turns)
<1>1. CASE e.type = "user-message"
  <2> DEFINE new == MessageOf("user", e.n, 0, 1)
  <2>1. new.role = "user"
    BY DEF MessageOf
  <2>2. \A x : MessageSent(x, e) = (x \ {k \in x : k.role = "user" /\ k.n = e.n}) \cup {new}
    BY <1>1 DEF MessageSent
  <2> HIDE DEF new
  <2>3. \A x : Answers(MessageSent(x, e), turns) = Answers(x, turns)
    BY <2>1, <2>2 DEF OfRole, Answers
  <2> QED
    BY <2>3
<1>2. CASE e.type = "assistant-message"
  <2> DEFINE old(x) == {k \in x : k.role = "assistant" /\ k.n = e.n}
             text == IF e.streaming THEN 1 ELSE 0
             new(x) == MessageOf("assistant", e.n, e.n,
                                 IF old(x) = {} THEN text ELSE text + (CHOOSE k \in old(x) : TRUE).text)
  <2>1. \A x : MessageSent(x, e) = (x \ old(x)) \cup {new(x)}
    BY <1>2 DEF MessageSent
  <2>2. \A x : new(x).role = "assistant" /\ new(x).n = e.n
    BY DEF MessageOf
  <2>3. \A x : \A k : k \in old(x) <=> k \in x /\ k.role = "assistant" /\ k.n = e.n
    OBVIOUS
  <2>4. CASE e.n \in turns
    <3>1. \A x : old(x) = {k \in Answers(x, turns) : k.n = e.n}
      BY <2>4 DEF OfRole, Answers
    <3>2. old(a) = old(b)
      BY <3>1
    <3>3. new(a) = new(b)
      BY <3>2
    <3> HIDE DEF new, old
    <3>4. \A x : Answers(MessageSent(x, e), turns) = (Answers(x, turns) \ old(x)) \cup {new(x)}
      BY <2>1, <2>2, <2>4 DEF OfRole, Answers
    <3> QED
      BY <3>2, <3>3, <3>4
  <2>5. CASE e.n \notin turns
    <3> HIDE DEF new, old
    <3>1. \A x : Answers(MessageSent(x, e), turns) = Answers(x, turns)
      BY <2>1, <2>2, <2>3, <2>5 DEF OfRole, Answers
    <3> QED
      BY <3>1
  <2> QED
    BY <2>4, <2>5
<1> QED
  BY <1>1, <1>2

(* Between reverts.                                                        *)
LEMMA AheadStays ==
  ASSUME NEW events \in Seq(TurnEvents), Recorded(events), NEW i \in 0..(Len(events) - 1),
         events[i + 1].type # "reverted", NEW d \in Nat, Ahead(events, i, d)
  PROVE  /\ Ahead(events, i + 1, d)
         /\ KeptTurns(RowsAfter(events, i + 1), d) = KeptTurns(RowsAfter(events, i), d)
         /\ Grown(HistoryOf(events)[i]["turns"], HistoryOf(events)[i + 1]["turns"])
<1> DEFINE H == RowsAfter(events, i)
           G == RowsAfter(events, i + 1)
           n == Len(events)
<1>1. /\ n \in Nat /\ i \in Nat /\ i + 1 \in 1..n /\ i + 1 \in 0..n /\ Counted(H)
      /\ Grown(HistoryOf(events)[i]["turns"], HistoryOf(events)[i + 1]["turns"])
  BY StageFacts, RowsGrow
<1>2. \E w : \A u \in Turns :
         \/ G[u].count = H[u].count
         \/ u = w /\ H[u].count = 0 /\ \A v \in Turns : H[v].count < G[u].count
  <2> DEFINE x == HistoryOf(events)[i]["turns"]
             y == HistoryOf(events)[i + 1]["turns"]
  <2>1. x.row = H /\ y.row = G /\ Grown(x, y)
    BY <1>1 DEF RowsAfter
  <2> HIDE DEF x, y, H, G
  <2>2. PICK w : \A u \in Turns :
          /\ \/ y.row[u].count = x.row[u].count
             \/ u = w /\ x.row[u].count = 0 /\ \A v \in Turns : x.row[v].count < y.row[u].count
          /\ \/ y.row[u].pending = x.row[u].pending
             \/ x.row[u].pending = 0 /\ y.row[u].pending = x.pendingStart
    BY <2>1 DEF Grown
  <2> QED
    BY <2>1, <2>2
<1>3. Lowest(events, (i + 1) + 1, n, d)
  <2>1. Lowest(events, i + 1, n, d) /\ i + 1 <= n
    BY <1>1 DEF Ahead
  <2> QED
    BY <1>1, <2>1, LowestFrom
<1>4. PICK u \in Turns : d < H[u].count
  BY DEF Ahead
<1> HIDE DEF H, G
<1>5. Counted(G)
  BY <1>1, StagesTyped DEF G
<1>6. G[u].count = H[u].count
  BY <1>2, <1>4
<1>7. ASSUME NEW v \in Turns PROVE G[v].count \in 1..d <=> H[v].count \in 1..d
  <2>1. CASE G[v].count = H[v].count
    BY <2>1
  <2>2. CASE H[v].count = 0 /\ H[u].count < G[v].count
    <3>1. H[u].count \in Nat /\ G[v].count \in Nat
      BY <1>1, <1>5 DEF Counted
    <3>2. H[v].count \notin 1..d /\ G[v].count \notin 1..d
      BY <1>4, <2>2, <3>1
    <3> QED
      BY <3>2
  <2> QED
    BY <1>2, <2>1, <2>2
<1>8. KeptTurns(G, d) = KeptTurns(H, d)
  BY <1>7 DEF KeptTurns
<1> QED
  BY <1>1, <1>3, <1>4, <1>6, <1>8 DEF Ahead, H, G

LEMMA ReplayOther ==
  ASSUME NEW events \in Seq(TurnEvents), Recorded(events), NEW i \in 0..(Len(events) - 1),
         events[i + 1].type # "reverted",
         NEW r, Typed(r), MessagesMatch(events, i, r["messages"])
  PROVE  MessagesMatch(events, i + 1, ApplyThreadMessages(r, events[i + 1]))
<1> DEFINE n == Len(events)
           e == events[i + 1]
           t == HistoryOf(events)[i]
           s == HistoryOf(events)[i + 1]
           H == t["turns"].row
           G == s["turns"].row
           U == Ids(t["messages"], "user")
           V == Ids(r["messages"], "user")
           x == ApplyThreadMessages(t, e)
           y == ApplyThreadMessages(r, e)
<1>1. /\ n \in Nat /\ i \in Nat /\ i + 1 \in 1..n /\ e \in TurnEvents /\ Typed(t) /\ Typed(s)
      /\ Sound(events, i, t) /\ Sound(events, i + 1, s) /\ s["messages"] = x
  BY StageFacts
<1>2. CASE r["messages"] = t["messages"]
  <2>1. y = x
    BY <1>2 DEF ApplyThreadMessages
  <2> QED
    BY <1>1, <2>1 DEF MessagesMatch
<1>3. CASE r["messages"] # t["messages"]
  <2>1. PICK d \in Nat : Ahead(events, i, d) /\ MessagesAlike(events, i, r["messages"], d)
    BY <1>3 DEF MessagesMatch
  <2>2. /\ Ahead(events, i + 1, d) /\ KeptTurns(G, d) = KeptTurns(H, d)
        /\ Grown(t["turns"], s["turns"])
    BY <2>1, AheadStays DEF RowsAfter
  <2> DEFINE P == Pendings(H, d) \ {0}
             Q == Pendings(G, d) \ {0}
             X == Ids(x, "user")
             Y == Ids(y, "user")
  <2>3. /\ Alike(U, V, P, d) /\ (\A q \in U : FreshAt(events, i, q) => q \in V)
        /\ V \subseteq SentBy(events, i)
        /\ Answers(t["messages"], KeptTurns(H, d)) = Answers(r["messages"], KeptTurns(H, d))
    BY <2>1 DEF MessagesAlike
  <2>4. /\ X = (IF e.type = "user-message" THEN U \cup {e.n} ELSE U)
        /\ Y = (IF e.type = "user-message" THEN V \cup {e.n} ELSE V)
    BY <1>1, AskedAfter
  <2>5. U \subseteq Turns /\ V \subseteq Turns /\ X \subseteq Turns /\ (e.type = "user-message" => e.n \in Turns)
    BY <1>1, <2>4, Roles, TypedTables, EventFacts
  <2>6. P \subseteq V /\ P \subseteq U
    BY <2>3 DEF Alike
  <2>7. /\ t["turns"].pendingStart \in U \cup {0} /\ FreshAt(events, i, t["turns"].pendingStart)
        /\ \A u \in Turns : G[u].pending \in X \cup {0}
    BY <1>1 DEF Sound
  <2>8. \A u \in Turns : G[u].pending = H[u].pending
                          \/ (H[u].pending = 0 /\ G[u].pending = t["turns"].pendingStart)
    BY <2>2 DEF Grown
  <2>9. P \subseteq Q /\ Q \subseteq X \cap Y
    <3>1. \A u \in KeptTurns(H, d) : u \in Turns
      BY DEF KeptTurns
    <3>2. P \subseteq Q
      BY <2>2, <2>8, <3>1 DEF Pendings
    <3>3. Q \subseteq X
      BY <2>2, <2>7, <3>1 DEF Pendings
    <3>4. ASSUME NEW u \in KeptTurns(H, d), G[u].pending # 0 PROVE G[u].pending \in V
      <4>1. CASE G[u].pending = H[u].pending
        <5>1. H[u].pending \in P
          BY <3>4, <4>1 DEF Pendings
        <5> QED
          BY <2>6, <4>1, <5>1
      <4>2. CASE G[u].pending = t["turns"].pendingStart
        BY <2>3, <2>7, <3>4, <4>2
      <4> QED
        BY <2>8, <3>1, <4>1, <4>2
    <3>5. V \subseteq Y
      BY <2>4
    <3>6. Q \subseteq Y
      BY <2>2, <3>4, <3>5 DEF Pendings
    <3> QED
      BY <3>2, <3>3, <3>6
  <2> HIDE DEF P, Q, X, Y, U, V, x, y, G, H
  <2>10. Alike(X, Y, P, d)
    <3>1. CASE e.type = "user-message"
      BY <2>3, <2>4, <2>5, <3>1, AlikeAsked
    <3>2. CASE e.type # "user-message"
      BY <2>3, <2>4, <3>2
    <3> QED
      BY <3>1, <3>2
  <2>11. Alike(X, Y, Q, d)
    BY <2>5, <2>9, <2>10, AlikeNamed
  <2>12. \A q \in X : FreshAt(events, i + 1, q) => q \in Y
    <3>1. \A q : FreshAt(events, i + 1, q) => FreshAt(events, i, q)
      <4>1. \A k \in 1..i : k \in 1..(i + 1)
        BY <1>1
      <4> QED
        BY <4>1 DEF FreshAt
    <3> QED
      BY <2>3, <2>4, <3>1
  <2>13. Y \subseteq SentBy(events, i + 1)
    <3>1. SentBy(events, i + 1) = IF e.type = "user-message" THEN SentBy(events, i) \cup {e.n} ELSE SentBy(events, i)
      BY <1>1, SentOneMore
    <3> QED
      BY <2>3, <2>4, <3>1
  <2>14. Answers(x, KeptTurns(G, d)) = Answers(y, KeptTurns(G, d))
    <3>1. CASE e.type \in {"user-message", "assistant-message"}
      <4>1. x = MessageSent(t["messages"], e) /\ y = MessageSent(r["messages"], e)
        BY <3>1 DEF ApplyThreadMessages, x, y
      <4> HIDE DEF e
      <4> QED
        BY <1>1, <2>2, <2>3, <3>1, <4>1, AnswersSent
    <3>2. CASE e.type \notin {"user-message", "assistant-message"}
      <4>1. x = t["messages"] /\ y = r["messages"]
        BY <3>2 DEF ApplyThreadMessages, x, y
      <4> QED
        BY <2>2, <2>3, <4>1
    <3> QED
      BY <3>1, <3>2
  <2>15. MessagesAlike(events, i + 1, y, d)
    BY <1>1, <2>11, <2>12, <2>13, <2>14 DEF MessagesAlike, X, Y, Q, G
  <2> QED
    BY <2>2, <2>15 DEF MessagesMatch, y
<1> QED
  BY <1>2, <1>3

(***************************************************************************)
(* One step of the replay of messages.                                     *)
(***************************************************************************)
LEMMA ReplayMessages ==
  ASSUME NEW events \in Seq(TurnEvents), Recorded(events), NEW i \in 0..(Len(events) - 1),
         NEW r, Typed(r), r["turns"] = TablesOf(events)["turns"],
         MessagesMatch(events, i, r["messages"])
  PROVE  MessagesMatch(events, i + 1, ApplyThreadMessages(r, events[i + 1]))
<1>1. CASE events[i + 1].type # "reverted"
  BY <1>1, ReplayOther
<1>2. CASE events[i + 1].type = "reverted"
  <2>1. r["messages"] \subseteq Messages /\ r["turns"].row = RowsAfter(events, Len(events))
    BY TypedTables DEF TablesOf, RowsAfter
  <2>2. \E d \in Nat : Lowest(events, i + 1, Len(events), d) /\ MessagesAlike(events, i, r["messages"], d)
    <3>1. CASE r["messages"] = HistoryOf(events)[i]["messages"]
      <4>1. Sound(events, i, HistoryOf(events)[i]) /\ Len(events) \in Nat /\ i + 1 \in Nat
            /\ i + 1 \in (i + 1)..Len(events)
        BY StageFacts
      <4>2. \A k \in (i + 1)..Len(events) : events[k].count \in Nat
        <5>1. \A k \in (i + 1)..Len(events) : k \in 1..Len(events)
          OBVIOUS
        <5>2. \A k \in (i + 1)..Len(events) : events[k] \in TurnEvents
          BY <5>1
        <5> QED
          BY <5>2, EventFacts
      <4>3. PICK d \in Nat : Lowest(events, i + 1, Len(events), d)
        BY <1>2, <4>1, <4>2, LowestExists
      <4> QED
        BY <3>1, <4>1, <4>3, SameIsAlike
    <3>2. CASE r["messages"] # HistoryOf(events)[i]["messages"]
      BY <3>2 DEF MessagesMatch, Ahead
    <3> QED
      BY <3>1, <3>2
  <2> QED
    BY <1>2, <2>1, <2>2, ReplayRevert
<1> QED
  BY <1>1, <1>2

(***************************************************************************)
(* A table of activities that is replayed, against that of the history.    *)
(***************************************************************************)
OfTurns(activities, turns) == {a \in activities : a.turn \in turns}

ActivitiesMatch(events, i, a) ==
  \/ a = HistoryOf(events)[i]["activities"]
  \/ \E d \in Nat :
       LET turns == KeptTurns(RowsAfter(events, i), d)
       IN  Ahead(events, i, d) /\ OfTurns(HistoryOf(events)[i]["activities"], turns) = OfTurns(a, turns)

LEMMA RetainedOfTurns ==
  ASSUME NEW a, a \subseteq [turn : Turns, kind : Reports], NEW turns
  PROVE  RetainActivities(a, turns) = OfTurns(a, turns)
<1>1. \A x \in a : x.turn \in Turns /\ x.turn # 0
  BY DEF Turns
<1> QED
  BY <1>1 DEF RetainActivities, OfTurns

LEMMA ReplayActivities ==
  ASSUME NEW events \in Seq(TurnEvents), Recorded(events), NEW i \in 0..(Len(events) - 1),
         NEW r, Typed(r), r["turns"] = TablesOf(events)["turns"],
         ActivitiesMatch(events, i, r["activities"])
  PROVE  ActivitiesMatch(events, i + 1, ApplyThreadActivities(r, events[i + 1]))
<1> DEFINE n == Len(events)
           e == events[i + 1]
           c == e.count
           t == HistoryOf(events)[i]
           H == RowsAfter(events, i)
           G == RowsAfter(events, i + 1)
           T == RowsAfter(events, n)
           a == t["activities"]
           b == r["activities"]
           x == HistoryOf(events)[i + 1]["activities"]
           y == ApplyThreadActivities(r, e)
<1>1. /\ n \in Nat /\ i \in Nat /\ i + 1 \in 1..n /\ e \in TurnEvents
      /\ x = ActivityAfter(a, e, KeptTurns(H, c)) /\ y = ActivityAfter(b, e, KeptTurns(T, c))
      /\ a \subseteq [turn : Turns, kind : Reports] /\ b \subseteq [turn : Turns, kind : Reports]
  BY StageFacts, TypedTables DEF ApplyThreadActivities, RowsAfter, TablesOf
<1>2. CASE e.type = "reverted"
  <2>1. x = OfTurns(a, KeptTurns(H, c)) /\ y = OfTurns(b, KeptTurns(T, c))
    BY <1>1, <1>2, RetainedOfTurns DEF ActivityAfter
  <2>2. \E d \in Nat : Lowest(events, i + 1, n, d) /\ OfTurns(a, KeptTurns(H, d)) = OfTurns(b, KeptTurns(H, d))
    <3>1. CASE b = a
      <4>1. n \in Nat /\ i + 1 \in Nat /\ i + 1 \in (i + 1)..n
        BY <1>1
      <4>2. \A k \in (i + 1)..n : events[k].count \in Nat
        <5>1. \A k \in (i + 1)..n : k \in 1..n
          OBVIOUS
        <5>2. \A k \in (i + 1)..n : events[k] \in TurnEvents
          BY <5>1
        <5> QED
          BY <5>2, EventFacts
      <4>3. PICK d \in Nat : Lowest(events, i + 1, n, d)
        BY <1>2, <4>1, <4>2, LowestExists
      <4> QED
        BY <3>1, <4>3
    <3>2. CASE b # a
      BY <3>2 DEF ActivitiesMatch, Ahead
    <3> QED
      BY <3>1, <3>2
  <2>3. PICK d \in Nat : Lowest(events, i + 1, n, d) /\ OfTurns(a, KeptTurns(H, d)) = OfTurns(b, KeptTurns(H, d))
    BY <2>2
  <2>4. /\ KeptTurns(H, d) \subseteq KeptTurns(T, c) /\ KeptTurns(H, d) \subseteq KeptTurns(H, c)
        /\ d = c => KeptTurns(T, c) = KeptTurns(H, c)
        /\ d # c => Ahead(events, i + 1, d) /\ KeptTurns(G, d) = KeptTurns(H, d)
    BY <1>2, <2>3, RevertsAhead
  <2> HIDE DEF a, b, x, y, H, G, T, c
  <2>5. CASE d = c
    <3>1. x = y
      BY <2>1, <2>3, <2>4, <2>5
    <3> QED
      BY <3>1 DEF ActivitiesMatch, x, y
  <2>6. CASE d # c
    <3>1. OfTurns(x, KeptTurns(G, d)) = OfTurns(y, KeptTurns(G, d))
      BY <2>1, <2>3, <2>4, <2>6 DEF OfTurns
    <3> QED
      BY <2>4, <2>6, <3>1 DEF ActivitiesMatch, x, y, G
  <2> QED
    BY <2>5, <2>6
<1>3. CASE e.type # "reverted"
  <2> DEFINE new == IF e.type \in {"approval.requested", "approval.resolved"}
                    THEN {[turn |-> e.n, kind |-> e.type]} ELSE {}
  <2>1. x = a \cup new /\ y = b \cup new
    BY <1>1, <1>3 DEF ActivityAfter
  <2> HIDE DEF new
  <2>2. CASE b = a
    BY <2>1, <2>2 DEF ActivitiesMatch
  <2>3. CASE b # a
    <3>1. PICK d \in Nat : Ahead(events, i, d) /\ OfTurns(a, KeptTurns(H, d)) = OfTurns(b, KeptTurns(H, d))
      BY <2>3 DEF ActivitiesMatch
    <3>2. Ahead(events, i + 1, d) /\ KeptTurns(G, d) = KeptTurns(H, d)
      BY <1>3, <3>1, AheadStays
    <3> HIDE DEF a, b, x, y, H, G
    <3>3. OfTurns(x, KeptTurns(G, d)) = OfTurns(y, KeptTurns(G, d))
      BY <2>1, <3>1, <3>2 DEF OfTurns
    <3> QED
      BY <3>2, <3>3 DEF ActivitiesMatch, x, y, G
  <2> QED
    BY <2>2, <2>3
<1> QED
  BY <1>2, <1>3

-----------------------------------------------------------------------------
(***************************************************************************)
(* The invariant of the replays: as long as the rows of turns are those of *)
(* the whole log and counts came in order, each table that is replayed     *)
(* matches the history at its cursor, and at the end of the log it is the  *)
(* one of the history.                                                     *)
(***************************************************************************)
Replayed(events, c, r) ==
  skipped = {} /\ "turns" \notin rebuilt /\ CountsInOrder(events) =>
    /\ MessagesMatch(events, c["messages"], r["messages"])
    /\ ActivitiesMatch(events, c["activities"], r["activities"])

ReplayInvariant ==
  /\ Replayed(log, cursor, rows)
  /\ InTxn => Replayed(txn.log, txn.cursor, txn.rows)

LEMMA MatchAtEnd ==
  ASSUME NEW events \in Seq(TurnEvents), NEW m, NEW a
  PROVE  /\ MessagesMatch(events, Len(events), m) <=> m = TablesOf(events)["messages"]
         /\ ActivitiesMatch(events, Len(events), a) <=> a = TablesOf(events)["activities"]
<1>1. \A d : ~Ahead(events, Len(events), d)
  <2>1. Len(events) \in Nat
    OBVIOUS
  <2>2. (Len(events) + 1)..Len(events) = {}
    BY <2>1
  <2> QED
    BY <2>2 DEF Ahead, Lowest
<1> QED
  BY <1>1 DEF MessagesMatch, ActivitiesMatch, TablesOf

(* A table is the one of the history again at the end of the log, unless   *)
(* it replayed a revert and the rows of turns were started over as well,   *)
(* or counts were out of order.                                            *)
Settled(p, events) == Owed(p, events) \/ ("turns" \notin rebuilt /\ CountsInOrder(events))

LEMMA SettledAtEnd ==
  ASSUME log \in Seq(TurnEvents), Stored(log, cursor, rows), AtEnd(log, cursor),
         Replayed(log, cursor, rows), skipped = {}, NEW p \in Projectors, Settled(p, log)
  PROVE  rows[p] = TablesOf(log)[p]
<1>1. \A q \in Projectors : cursor[q] = Len(log)
  BY DEF AtEnd
<1>2. CASE Owed(p, log)
  BY <1>1, <1>2 DEF Stored, FollowsLog, TablesOf
<1>3. CASE ~Owed(p, log)
  <2>1. p \in ReadsTurns /\ "turns" \notin rebuilt /\ CountsInOrder(log)
    BY <1>3 DEF Settled, Owed
  <2>2. rows["messages"] = TablesOf(log)["messages"] /\ rows["activities"] = TablesOf(log)["activities"]
    BY <1>1, <2>1, Names, MatchAtEnd DEF Replayed
  <2> QED
    BY <2>1, <2>2 DEF ReadsTurns
<1> QED
  BY <1>2, <1>3

LEMMA AppendReplayed ==
  ASSUME LogTypes, Stored(log, cursor, rows), AtEnd(log, cursor), Replayed(log, cursor, rows),
         NEW e \in TurnEvents, AppendAndProject(e), UNCHANGED <<rebuilt, skipped>>
  PROVE  Replayed(log, cursor, rows)'
<1> SUFFICES ASSUME skipped = {}, "turns" \notin rebuilt, CountsInOrder(log')
             PROVE  /\ MessagesMatch(log', cursor'["messages"], rows'["messages"])
                    /\ ActivitiesMatch(log', cursor'["activities"], rows'["activities"])
  BY DEF Replayed
<1>1. log' = Append(log, e) /\ log \in Seq(TurnEvents) /\ IsSeq(log) /\ log' \in Seq(TurnEvents)
  BY SeqFacts DEF AppendAndProject, LogTypes
<1>2. TablesOf(log') = Projected(TablesOf(log), e) /\ IsTables(TablesOf(log))
  BY <1>1, TablesOfAppend, HistoryTyped DEF Typed
<1>3. \A p \in Projectors : cursor'[p] = Len(log')
  BY DEF AppendAndProject
<1>4. \A p \in Projectors : rows[p] = TablesOf(log)[p]
  <2>1. CountsInOrder(log)
    BY <1>1, CountsAppend
  <2> QED
    BY <1>1, <2>1, SettledAtEnd DEF Settled
<1>5. \A p \in Projectors : rows'[p] = Apply(p, rows, e) /\ TablesOf(log')[p] = Apply(p, TablesOf(log), e)
  BY <1>2, ProjectedTables DEF Stored, AppendAndProject
<1>6. \A p \in Projectors : Apply(p, rows, e) = Apply(p, TablesOf(log), e)
  BY <1>4, Names, ApplyReads
<1>7. cursor'["messages"] = Len(log') /\ cursor'["activities"] = Len(log')
  BY <1>3, Names
<1>8. rows'["messages"] = TablesOf(log')["messages"] /\ rows'["activities"] = TablesOf(log')["activities"]
  BY <1>5, <1>6, Names
<1> QED
  BY <1>1, <1>7, <1>8, MatchAtEnd

LEMMA CatchUpReplayed ==
  ASSUME LogTypes, CountsInOrder(log) => Recorded(log), Stored(log, cursor, rows),
         Replayed(log, cursor, rows), NEW p \in Projectors, cursor[p] < Last,
         RunProjectorForEvent(p, cursor[p] + 1), UNCHANGED <<log, rebuilt, skipped>>
  PROVE  Replayed(log, cursor, rows)'
<1> SUFFICES ASSUME skipped = {}, "turns" \notin rebuilt, CountsInOrder(log), Recorded(log)
             PROVE  /\ MessagesMatch(log, cursor'["messages"], rows'["messages"])
                    /\ ActivitiesMatch(log, cursor'["activities"], rows'["activities"])
  BY DEF Replayed
<1> DEFINE i == cursor[p]
<1>1. log \in Seq(TurnEvents) /\ Typed(rows) /\ i \in 0..(Len(log) - 1)
  <2>1. Len(log) \in Nat /\ i \in 0..Len(log)
    BY SeqLength DEF Stored
  <2> QED
    BY <2>1 DEF LogTypes, Last
<1>2. rows["turns"] = TablesOf(log)["turns"]
  BY Names DEF Stored, FollowsLog, Owed, ReadsTurns, TablesOf
<1>3. /\ \A q \in Projectors : cursor'[q] = IF q = p THEN i + 1 ELSE cursor[q]
      /\ \A q \in Projectors : rows'[q] = IF q = p THEN Apply(p, rows, log[i + 1]) ELSE rows[q]
  BY DEF RunProjectorForEvent, Stored, IsTables
<1>4. MessagesMatch(log, cursor["messages"], rows["messages"])
      /\ ActivitiesMatch(log, cursor["activities"], rows["activities"])
  BY DEF Replayed
<1>5. MessagesMatch(log, cursor'["messages"], rows'["messages"])
  <2>1. CASE p = "messages"
    <3>1. Apply(p, rows, log[i + 1]) = ApplyThreadMessages(rows, log[i + 1])
      BY <2>1 DEF Apply
    <3>2. MessagesMatch(log, i + 1, ApplyThreadMessages(rows, log[i + 1]))
      BY <1>1, <1>2, <1>4, <2>1, ReplayMessages
    <3> QED
      BY <1>3, <2>1, <3>1, <3>2
  <2>2. CASE p # "messages"
    BY <1>3, <1>4, <2>2, Names
  <2> QED
    BY <2>1, <2>2
<1>6. ActivitiesMatch(log, cursor'["activities"], rows'["activities"])
  <2>1. CASE p = "activities"
    <3>1. Apply(p, rows, log[i + 1]) = ApplyThreadActivities(rows, log[i + 1])
      BY <2>1 DEF Apply
    <3>2. ActivitiesMatch(log, i + 1, ApplyThreadActivities(rows, log[i + 1]))
      BY <1>1, <1>2, <1>4, <2>1, ReplayActivities
    <3> QED
      BY <1>3, <2>1, <3>1, <3>2
  <2>2. CASE p # "activities"
    BY <1>3, <1>4, <2>2, Names
  <2> QED
    BY <2>1, <2>2
<1> QED
  BY <1>5, <1>6

LEMMA RebuildReplayed ==
  ASSUME LogTypes, Stored(log, cursor, rows), Replayed(log, cursor, rows),
         NEW p \in Projectors, Rebuild(p)
  PROVE  Replayed(log, cursor, rows)'
<1> SUFFICES ASSUME skipped = {}, "turns" \notin rebuilt, p # "turns", CountsInOrder(log)
             PROVE  /\ MessagesMatch(log, cursor'["messages"], rows'["messages"])
                    /\ ActivitiesMatch(log, cursor'["activities"], rows'["activities"])
  BY DEF Rebuild, Replayed
<1>1. /\ \A q \in Projectors : cursor'[q] = IF q = p THEN 0 ELSE cursor[q]
      /\ \A q \in Projectors : rows'[q] = IF q = p THEN EmptyTable(p) ELSE rows[q]
  BY DEF Rebuild, Stored, IsTables
<1>2. HistoryOf(log)[0] = EmptyTables
  <2>1. Len(log) \in Nat
    BY DEF LogTypes
  <2> QED
    BY <2>1, HistoryStages DEF Stages
<1>3. HistoryOf(log)[0][p] = EmptyTable(p)
  BY <1>2 DEF EmptyTables
<1> QED
  BY <1>1, <1>3, Names DEF Replayed, MessagesMatch, ActivitiesMatch

\* As long as counts came in order, a table that is started over and replayed against the rows of
\* turns of the whole log matches the history all the way, and comes out as the one before.
THEOREM ReplaysMatch == Spec => []ReplayInvariant
<1>1. Init => ReplayInvariant
  <2> SUFFICES ASSUME Init PROVE ReplayInvariant
    OBVIOUS
  <2>1. Len(log) = 0 /\ log \in Seq(TurnEvents) /\ ~InTxn
    BY DEF Init, InTxn, NoTxn
  <2>2. TablesOf(log) = EmptyTables /\ rows = EmptyTables
    BY <2>1, HistoryStages DEF TablesOf, Stages, Init
  <2>3. cursor["messages"] = Len(log) /\ cursor["activities"] = Len(log)
    BY <2>1, Names DEF Init
  <2> QED
    BY <2>1, <2>2, <2>3, MatchAtEnd DEF ReplayInvariant, Replayed
<1>2. PipelineInvariant /\ PipelineTypes /\ Chronicle /\ ReplayInvariant /\ [Next]_vars => ReplayInvariant'
  <2> SUFFICES ASSUME PipelineInvariant, PipelineTypes, Chronicle, ReplayInvariant, [Next]_vars
               PROVE  ReplayInvariant'
    OBVIOUS
  <2>0. /\ LogTypes /\ WaitingTypes' /\ Stored(log, cursor, rows) /\ (CountsInOrder(log) => Recorded(log))
        /\ Replayed(log, cursor, rows)
    BY WaitingStep DEF PipelineTypes, PipelineInvariant, Chronicle, ReplayInvariant
  <2>1. CASE Commands
    <3>1. PICK events : IsCommand(events) /\ Begin(events)
      BY <2>1, CommandsBegin
    <3>2. /\ AppendAndProject(Head(events)) /\ UNCHANGED <<rebuilt, skipped>>
          /\ txn'.log = log /\ txn'.cursor = cursor /\ txn'.rows = rows /\ AtEnd(log, cursor)
      BY <3>1 DEF Begin, Idle, PipelineInvariant
    <3>3. Head(events) \in TurnEvents
      BY <3>1, SeqFacts DEF IsCommand
    <3>4. Replayed(log, cursor, rows)'
      BY <2>0, <3>2, <3>3, AppendReplayed
    <3>5. Replayed(txn.log, txn.cursor, txn.rows)'
      BY <2>0, <3>2 DEF Replayed
    <3> QED
      BY <3>4, <3>5 DEF ReplayInvariant
  <2>2. CASE AppendNext
    <3>1. Head(txn.todo) \in TurnEvents
      BY <2>0, <2>2, AppendNextTyped
    <3>2. /\ AppendAndProject(Head(txn.todo)) /\ UNCHANGED <<rebuilt, skipped>>
          /\ txn'.log = txn.log /\ txn'.cursor = txn.cursor /\ txn'.rows = txn.rows
          /\ InTxn /\ AtEnd(log, cursor)
      BY <2>2 DEF AppendNext, PipelineInvariant
    <3>3. Replayed(log, cursor, rows)'
      BY <2>0, <3>1, <3>2, AppendReplayed
    <3>4. Replayed(txn.log, txn.cursor, txn.rows)'
      BY <3>2 DEF ReplayInvariant, Replayed
    <3> QED
      BY <3>3, <3>4 DEF ReplayInvariant
  <2>3. CASE Undo
    <3>1. ~InTxn' /\ UNCHANGED <<rebuilt, skipped>>
      BY <2>3 DEF Undo, NoTxn, InTxn
    <3>2. CASE InTxn
      <4>1. log' = txn.log /\ cursor' = txn.cursor /\ rows' = txn.rows
        BY <2>3, <3>2 DEF Undo
      <4> QED
        BY <3>1, <3>2, <4>1 DEF ReplayInvariant, Replayed
    <3>3. CASE ~InTxn
      <4>1. UNCHANGED <<log, cursor, rows>>
        BY <2>3, <3>3 DEF Undo
      <4> QED
        BY <2>0, <3>1, <4>1 DEF ReplayInvariant, Replayed
    <3> QED
      BY <3>2, <3>3
  <2>4. ASSUME UNCHANGED <<log, cursor, rows, rebuilt>>, skipped \subseteq skipped', UNCHANGED txn \/ ~InTxn'
        PROVE  ReplayInvariant'
    BY <2>4 DEF ReplayInvariant, Replayed, InTxn
  <2>5. CASE Commit
    BY <2>4, <2>5 DEF Commit, NoTxn, InTxn
  <2>6. CASE CatchUp
    <3> DEFINE p == Order[boot.projector]
    <3>1. phase = "booting" /\ boot.projector \in 1..5
      BY <2>6, Names DEF CatchUp, PipelineInvariant
    <3>2. p \in Projectors
      BY <3>1, Names DEF Projectors
    <3>3. cursor[p] < Last /\ RunProjectorForEvent(p, cursor[p] + 1)
      BY <2>6 DEF CatchUp
    <3> HIDE DEF p
    <3>4. UNCHANGED <<log, txn, rebuilt, skipped>> /\ ~InTxn'
      BY <2>6, <3>1 DEF CatchUp, PipelineInvariant, InTxn
    <3>5. Replayed(log, cursor, rows)'
      BY <2>0, <3>2, <3>3, <3>4, CatchUpReplayed
    <3> QED
      BY <3>4, <3>5 DEF ReplayInvariant
  <2>7. CASE CaughtUp
    BY <2>4, <2>7 DEF CaughtUp
  <2>8. ASSUME NEW p \in Rebuildable, Rebuild(p) PROVE ReplayInvariant'
    <3>1. p \in Projectors
      BY BoundsAreCounts
    <3>2. UNCHANGED txn /\ phase = "down" /\ ~InTxn'
      BY <2>8 DEF Rebuild, PipelineInvariant, InTxn
    <3>3. Replayed(log, cursor, rows)'
      BY <2>0, <2>8, <3>1, RebuildReplayed
    <3> QED
      BY <3>2, <3>3 DEF ReplayInvariant
  <2>9. CASE Bootstrap \/ GoLive \/ UNCHANGED vars
    BY <2>4, <2>9 DEF Bootstrap, GoLive, vars
  <2>10. CASE Rollback \/ Crash
    BY <2>3, <2>10 DEF Rollback, Crash
  <2>11. CASE UploadImage \/ Decisions
    BY <2>4, <2>11, NothingBegins
  <2> QED
    BY <2>1, <2>2, <2>5, <2>6, <2>7, <2>8, <2>9, <2>10, <2>11 DEF Next, Commands, Decisions
<1> QED
  BY <1>1, <1>2, PipelineInvariantHolds, PipelineTypesHold, LogsAreRecorded, PTL DEF Spec

\* The property the run checks, for every bound: a table that was replayed over reverts included.
THEOREM TablesAreReplays == Spec => []TablesFollowTheLog
<1>1. PipelineInvariant /\ PipelineTypes /\ ReplayInvariant => TablesFollowTheLog
  <2> SUFFICES ASSUME PipelineInvariant, PipelineTypes, ReplayInvariant, skipped = {}
               PROVE  /\ \A p \in Projectors :
                           (Replays(p) => /\ "turns" \notin rebuilt /\ CountsInOrder(log)
                                          /\ cursor[p] = Last)
                             => rows[p] = HistoryOf(log)[cursor[p]][p]
                      /\ Idle => \A p \in Projectors : cursor[p] = Last
    BY DEF TablesFollowTheLog, History
  <2>1. Stored(log, cursor, rows) /\ log \in Seq(TurnEvents)
    BY DEF PipelineInvariant, PipelineTypes, LogTypes
  <2>2. ASSUME NEW p \in Projectors, Replays(p) => "turns" \notin rebuilt /\ CountsInOrder(log) /\ cursor[p] = Last
        PROVE  rows[p] = HistoryOf(log)[cursor[p]][p]
    <3>1. CASE Replays(p)
      <4>1. p \in ReadsTurns /\ "turns" \notin rebuilt /\ CountsInOrder(log) /\ cursor[p] = Len(log)
        BY <2>2, <3>1 DEF Replays, Last
      <4>2. Replayed(log, cursor, rows)
        BY DEF ReplayInvariant
      <4>3. CASE p = "messages"
        <5>1. MessagesMatch(log, Len(log), rows["messages"])
          BY <4>1, <4>2, <4>3 DEF Replayed
        <5> QED
          BY <2>1, <4>1, <4>3, <5>1, MatchAtEnd DEF TablesOf
      <4>4. CASE p = "activities"
        <5>1. ActivitiesMatch(log, Len(log), rows["activities"])
          BY <4>1, <4>2, <4>4 DEF Replayed
        <5> QED
          BY <2>1, <4>1, <4>4, <5>1, MatchAtEnd DEF TablesOf
      <4> QED
        BY <4>1, <4>3, <4>4 DEF ReadsTurns
    <3>2. CASE ~Replays(p)
      BY <2>1, <3>2 DEF Stored, FollowsLog, Owed, Replays
    <3> QED
      BY <3>1, <3>2
  <2>3. Idle => \A p \in Projectors : cursor[p] = Last
    BY DEF PipelineInvariant, AtEnd, Idle, Last
  <2> QED
    BY <2>2, <2>3
<1> QED
  BY <1>1, PipelineInvariantHolds, PipelineTypesHold, ReplaysMatch, PTL

\* The property the run checks, for every bound: counts in order, tables and read model agree.
THEOREM TablesAgreeWithModel == Spec => []ModelsAgree
<1>1. PipelineInvariant /\ PipelineTypes /\ Agreement /\ ReplayInvariant => ModelsAgree
  <2> SUFFICES ASSUME PipelineInvariant, PipelineTypes, Agreement, ReplayInvariant, Idle, skipped = {},
                      CountsInOrder(log),
                      \A p \in ReadsTurns : Replays(p) => "turns" \notin rebuilt
               PROVE  /\ \A t \in Turns : rows["turns"].row[t].count = model.count[t]
                      /\ Ids(rows["messages"], "assistant") = Ids(model.messages, "assistant")
                      /\ rows["activities"] = model.activities
                      /\ RevertsInOrder => Ids(rows["messages"], "user") = Ids(model.messages, "user")
    BY DEF ModelsAgree
  <2>1. model = ModelOf(log) /\ log \in Seq(TurnEvents)
    BY DEF PipelineTypes, LogTypes
  <2>2. Stored(log, cursor, rows) /\ AtEnd(log, cursor) /\ Replayed(log, cursor, rows)
    BY DEF PipelineInvariant, ReplayInvariant, Idle
  <2>3. Settled("messages", log) /\ Settled("activities", log) /\ Settled("turns", log)
    BY DEF Settled, Owed, Replays, ReadsTurns
  <2>4. rows["messages"] = TablesOf(log)["messages"] /\ rows["activities"] = TablesOf(log)["activities"]
        /\ rows["turns"] = TablesOf(log)["turns"]
    BY <2>1, <2>2, <2>3, Names, SettledAtEnd
  <2>5. RevertsInOrder => OrderedReverts(log)
    BY DEF RevertsInOrder, OrderedReverts, InOrder, History, Last
  <2> QED
    BY <2>1, <2>4, <2>5 DEF Agreement, LogAgrees, SameCounts, SameRest, SameUsers, Ids
<1> QED
  BY <1>1, PipelineInvariantHolds, PipelineTypesHold, AgreementHolds, ReplaysMatch, PTL

-----------------------------------------------------------------------------
(***************************************************************************)
(* Images.  What a log makes of the messages has its images on disk, or    *)
(* lost to a step that was undone or replayed, or that came between image  *)
(* and message; a rollback goes back to a log of which the same holds with *)
(* the files that were there.  So do the messages on their way.            *)
(***************************************************************************)
Asked(events) == Ids(TablesOf(events)["messages"], "user")

Imaged(events, onDisk) ==
  skipped = {} /\ Settled("messages", events) /\ ~TablesOf(events)["threads"].deleted
    => Asked(events) \subseteq onDisk \cup lost

FilesKept ==
  /\ Imaged(log, files)
  /\ InTxn => Imaged(txn.log, txn.files)
  /\ uploaded \subseteq files \cup lost

LEMMA DeletedStays ==
  ASSUME NEW t, Typed(t), NEW e \in TurnEvents, ~Projected(t, e)["threads"].deleted
  PROVE  ~t["threads"].deleted /\ e.type # "deleted"
<1> DEFINE table == t["threads"]
<1>1. Projected(t, e)["threads"] = ApplyThreads(t, e)
  BY ProjectedTables, Names DEF Typed, Apply
<1>2. table = [latestTurn |-> table.latestTurn, deleted |-> table.deleted]
  BY TypedTables
<1> HIDE DEF table
<1>3. CASE e.type \in {"session-running", "turn-diff-completed"}
  <2>1. ApplyThreads(t, e) = [table EXCEPT !.latestTurn = e.n]
    BY <1>3 DEF ApplyThreads, table
  <2> QED
    BY <1>1, <1>2, <1>3, <2>1 DEF table
<1>4. CASE e.type = "reverted"
  <2>1. ApplyThreads(t, e) = [table EXCEPT !.latestTurn = 0]
    BY <1>4 DEF ApplyThreads, table
  <2> QED
    BY <1>1, <1>2, <1>4, <2>1 DEF table
<1>5. CASE e.type = "deleted"
  <2>1. ApplyThreads(t, e) = [table EXCEPT !.deleted = TRUE]
    BY <1>5 DEF ApplyThreads, table
  <2> QED
    BY <1>1, <1>2, <1>5, <2>1 DEF table
<1>6. CASE e.type \notin {"session-running", "turn-diff-completed", "reverted", "deleted"}
  BY <1>1, <1>6 DEF ApplyThreads
<1> QED
  BY <1>3, <1>4, <1>5, <1>6

(* One more event: what a revert removes nobody asks for any more.         *)
LEMMA AppendKeepsFiles ==
  ASSUME LogTypes, Stored(log, cursor, rows), AtEnd(log, cursor), Replayed(log, cursor, rows),
         Imaged(log, files), uploaded \subseteq files \cup lost,
         NEW e \in TurnEvents, e.type = "user-message" => e.n \in uploaded,
         AppendAndProject(e), UNCHANGED <<rebuilt, skipped>>, uploaded' \subseteq uploaded
  PROVE  Imaged(log, files)' /\ uploaded' \subseteq files' \cup lost'
<1>0. lost \subseteq lost' /\ uploaded' \subseteq files' \cup lost'
  BY DEF AppendAndProject
<1> SUFFICES ASSUME skipped = {}, Settled("messages", log)', ~TablesOf(log')["threads"].deleted
             PROVE  Asked(log') \subseteq files' \cup lost
  BY <1>0 DEF Imaged, Asked
<1>1. log' = Append(log, e) /\ log \in Seq(TurnEvents) /\ IsSeq(log) /\ Typed(TablesOf(log))
  BY SeqFacts, HistoryTyped DEF AppendAndProject, LogTypes
<1>2. TablesOf(log') = Projected(TablesOf(log), e)
  BY <1>1, TablesOfAppend
<1>3. ~TablesOf(log)["threads"].deleted /\ e.type # "deleted"
  BY <1>1, <1>2, DeletedStays
<1>4. Settled("messages", log) /\ Settled("turns", log)
  <2>1. Len(log') = Len(log) + 1 /\ Len(log) \in Nat /\ \A i \in 1..Len(log) : log'[i] = log[i]
    BY <1>1, AppendSeq
  <2>2. CountsInOrder(log') => CountsInOrder(log)
    BY <1>1, CountsAppend
  <2> QED
    BY <2>1, <2>2 DEF Settled, Owed, HasRevert, ReadsTurns
<1>5. Asked(log) \subseteq files \cup lost
  BY <1>3, <1>4 DEF Imaged
<1>7. rows["messages"] = TablesOf(log)["messages"] /\ rows["turns"] = TablesOf(log)["turns"]
  BY <1>1, <1>4, Names, SettledAtEnd
<1>8. Asked(log') = Ids(ApplyThreadMessages(TablesOf(log), e), "user")
  BY <1>1, <1>2, ProjectedTables, Names DEF Asked, Typed, Apply
<1>9. CASE e.type = "reverted"
  <2>1. ApplyThreadMessages(rows, e) = ApplyThreadMessages(TablesOf(log), e)
    BY <1>7 DEF ApplyThreadMessages
  <2> DEFINE kept == ApplyThreadMessages(rows, e)
  <2>2. \A p \in Projectors : RemovedImages(p, rows, e) \subseteq files \ Images(kept)
    BY <1>9 DEF RemovedImages
  <2>3. Images(kept) = Asked(log')
    BY <1>8, <2>1 DEF Images, Ids
  <2>4. files \cap Asked(log') \subseteq files'
    <3> HIDE DEF kept
    <3> QED
      BY <1>9, <2>2, <2>3 DEF AppendAndProject
  <2>5. Asked(log') \subseteq Asked(log)
    <3> DEFINE messages == TablesOf(log)["messages"]
               turns == TablesOf(log)["turns"].row
               stay == KeptTurns(turns, e.count)
               named == {m \in messages :
                          \E t \in stay : \/ m.role = "user" /\ m.n = turns[t].pending
                                          \/ m.role = "assistant" /\ m.n = t /\ turns[t].answered}
    <3>1. ApplyThreadMessages(TablesOf(log), e) = RetainMessages(messages, named, stay, e.count)
      BY <1>9 DEF ApplyThreadMessages
    <3>2. named \subseteq messages
      OBVIOUS
    <3> HIDE DEF named, stay, messages
    <3>3. RetainMessages(messages, named, stay, e.count) \subseteq messages
      BY <3>2, RetainedAreMessages
    <3> QED
      BY <1>8, <3>1, <3>3 DEF Asked, messages, Ids, OfRole
  <2> QED
    BY <1>5, <2>4, <2>5
<1>10. CASE e.type # "reverted"
  <2>1. \A p \in Projectors : RemovedImages(p, rows, e) = {}
    BY <1>3, <1>10 DEF RemovedImages
  <2>2. files' = files
    <3>1. UNION {RemovedImages(p, rows, e) : p \in Projectors} = {}
      BY <2>1
    <3> QED
      BY <3>1 DEF AppendAndProject
  <2>3. Asked(log') \subseteq Asked(log) \cup (IF e.type = "user-message" THEN {e.n} ELSE {})
    BY <1>1, <1>8, <1>10, AskedAfter DEF Asked
  <2> QED
    BY <1>5, <2>2, <2>3
<1> QED
  BY <1>9, <1>10

\* Images of the messages of a log, through commands, rollbacks, crashes and catch-ups.
THEOREM FilesAreKept == Spec => []FilesKept
<1>1. Init => FilesKept
  <2> SUFFICES ASSUME Init PROVE FilesKept
    OBVIOUS
  <2>1. Len(log) = 0 /\ ~InTxn /\ uploaded = {}
    BY DEF Init, InTxn, NoTxn
  <2>2. TablesOf(log) = EmptyTables
    BY <2>1, HistoryStages DEF TablesOf, Stages
  <2>3. EmptyTables["messages"] = {}
    BY Names DEF EmptyTables, EmptyTable
  <2>4. Asked(log) = {}
    BY <2>2, <2>3 DEF Asked, Ids, OfRole
  <2> QED
    BY <2>1, <2>4 DEF FilesKept, Imaged
<1>2. PipelineInvariant /\ PipelineTypes /\ ReplayInvariant /\ FilesKept /\ [Next]_vars => FilesKept'
  <2> SUFFICES ASSUME PipelineInvariant, PipelineTypes, ReplayInvariant, FilesKept, [Next]_vars
               PROVE  FilesKept'
    OBVIOUS
  <2>0. LogTypes /\ WaitingTypes' /\ Stored(log, cursor, rows)
        /\ Replayed(log, cursor, rows) /\ Imaged(log, files) /\ uploaded \subseteq files \cup lost
    BY WaitingStep DEF PipelineTypes, PipelineInvariant, ReplayInvariant, FilesKept
  <2>1. CASE Commands
    <3>1. PICK events : IsCommand(events) /\ Begin(events)
      BY <2>1, CommandsBegin
    <3>2. /\ AppendAndProject(Head(events)) /\ UNCHANGED <<rebuilt, skipped>>
          /\ txn'.log = log /\ txn'.files = files /\ AtEnd(log, cursor)
      BY <3>1 DEF Begin, Idle, PipelineInvariant
    <3>3. Head(events) \in TurnEvents /\ (Head(events).type = "user-message" => Head(events).n \in uploaded)
      BY <3>1, SeqFacts DEF IsCommand
    <3>4. uploaded' \subseteq uploaded
      BY <2>1 DEF Commands, StartTurn, ReportTurn, Report, DeleteThread, Dispatch
    <3>5. lost \subseteq lost'
      BY <3>2 DEF AppendAndProject
    <3>6. Imaged(log, files)' /\ uploaded' \subseteq files' \cup lost'
      BY <2>0, <3>2, <3>3, <3>4, AppendKeepsFiles
    <3>7. Imaged(txn.log, txn.files)'
      BY <2>0, <3>2, <3>5 DEF Imaged, Settled, Owed
    <3> QED
      BY <3>6, <3>7 DEF FilesKept
  <2>2. CASE AppendNext
    <3>1. Head(txn.todo) \in TurnEvents /\ Head(txn.todo).type = "turn-start-requested"
      BY <2>0, <2>2, AppendNextTyped
    <3>2. /\ AppendAndProject(Head(txn.todo)) /\ UNCHANGED <<rebuilt, skipped, uploaded>>
          /\ txn'.log = txn.log /\ txn'.files = txn.files /\ InTxn /\ AtEnd(log, cursor)
      BY <2>2 DEF AppendNext, PipelineInvariant
    <3>3. Imaged(log, files)' /\ uploaded' \subseteq files' \cup lost'
      BY <2>0, <3>1, <3>2, AppendKeepsFiles
    <3>5. lost \subseteq lost'
      BY <3>2 DEF AppendAndProject
    <3>4. Imaged(txn.log, txn.files)'
      BY <3>2, <3>5 DEF FilesKept, Imaged, Settled, Owed
    <3> QED
      BY <3>3, <3>4 DEF FilesKept
  <2>3. ASSUME Undo, uploaded' \subseteq uploaded PROVE FilesKept'
    <3>1. ~InTxn' /\ UNCHANGED <<rebuilt, skipped, files>>
      BY <2>3 DEF Undo, NoTxn, InTxn
    <3>2. CASE InTxn
      <4>1. log' = txn.log /\ lost' = lost \cup (txn.files \ files)
        BY <2>3, <3>2 DEF Undo
      <4>2. uploaded' \subseteq files' \cup lost'
        BY <2>0, <2>3, <3>1, <4>1
      <4> QED
        BY <3>1, <3>2, <4>1, <4>2 DEF FilesKept, Imaged, Settled, Owed
    <3>3. CASE ~InTxn
      <4>1. log' = log /\ lost' = lost
        BY <2>3, <3>3 DEF Undo
      <4>2. uploaded' \subseteq files' \cup lost'
        BY <2>0, <2>3, <3>1, <4>1
      <4> QED
        BY <3>1, <3>3, <4>1, <4>2 DEF FilesKept, Imaged, Settled, Owed
    <3> QED
      BY <3>2, <3>3
  <2>4. CASE Commit
    <3>1. ~InTxn' /\ UNCHANGED <<log, files, uploaded, rebuilt, skipped, lost>>
      BY <2>4 DEF Commit, NoTxn, InTxn
    <3> QED
      BY <3>1 DEF FilesKept, Imaged, Settled, Owed
  <2>5. ASSUME UNCHANGED <<log, txn>>, files \cup lost \subseteq files' \cup lost',
               rebuilt \subseteq rebuilt', skipped \subseteq skipped', UNCHANGED lost \/ ~InTxn,
               uploaded' \subseteq files' \cup lost'
        PROVE  FilesKept'
    BY <2>5 DEF FilesKept, Imaged, Settled, Owed, InTxn
  <2>6. CASE CatchUp
    <3>1. UNCHANGED <<log, txn, rebuilt, skipped, uploaded>> /\ lost' = lost \cup (files \ files')
          /\ phase = "booting"
      BY <2>6 DEF CatchUp
    <3>2. ~InTxn
      BY <3>1 DEF PipelineInvariant
    <3> QED
      BY <2>0, <2>5, <3>1, <3>2
  <2>7. CASE CaughtUp
    <3>1. UNCHANGED <<log, txn, rebuilt, files, uploaded, lost>> /\ skipped \subseteq skipped'
      BY <2>7 DEF CaughtUp
    <3> QED
      BY <2>0, <2>5, <3>1
  <2>8. CASE \E p \in Rebuildable : Rebuild(p)
    <3>1. UNCHANGED <<log, txn, files, uploaded, lost, skipped>> /\ rebuilt \subseteq rebuilt'
      BY <2>8 DEF Rebuild
    <3> QED
      BY <2>0, <2>5, <3>1
  <2>9. CASE Bootstrap \/ GoLive \/ UNCHANGED vars
    BY <2>0, <2>5, <2>9 DEF Bootstrap, GoLive, vars
  <2>10. CASE Rollback \/ Crash
    BY <2>3, <2>10 DEF Rollback, Crash
  <2>11. CASE Decisions
    BY <2>0, <2>5, <2>11, NothingBegins
  <2>12. CASE UploadImage
    <3>1. PICK n \in Turns : /\ uploaded' = uploaded \cup {n} /\ files' = files \cup {n}
                             /\ lost' = lost \ {n}
      BY <2>12 DEF UploadImage
    <3>2. UNCHANGED <<log, txn, rebuilt, skipped>> /\ ~InTxn
      BY <2>12, NothingBegins DEF Idle
    <3> QED
      BY <2>0, <2>5, <3>1, <3>2
  <2> QED
    BY <2>1, <2>2, <2>4, <2>6, <2>7, <2>8, <2>9, <2>10, <2>11, <2>12 DEF Next, Commands, Decisions
<1> QED
  BY <1>1, <1>2, PipelineInvariantHolds, PipelineTypesHold, ReplaysMatch, PTL DEF Spec

\* The property the run checks, for every bound: a message that is shown has its image, one that
\* was replayed included, but for the images that are counted as lost.
THEOREM ShownMessagesHaveImages == Spec => []MessageFilesExist
<1>1. PipelineInvariant /\ PipelineTypes /\ ReplayInvariant /\ FilesKept => MessageFilesExist
  <2> SUFFICES ASSUME PipelineInvariant, PipelineTypes, ReplayInvariant, FilesKept,
                      Idle, skipped = {}, ~rows["threads"].deleted,
                      Replays("messages") => "turns" \notin rebuilt /\ CountsInOrder(log)
               PROVE  Images(rows["messages"]) \subseteq files \cup lost
    BY DEF MessageFilesExist
  <2>1. /\ log \in Seq(TurnEvents) /\ Stored(log, cursor, rows) /\ AtEnd(log, cursor)
        /\ Replayed(log, cursor, rows)
    BY DEF PipelineInvariant, PipelineTypes, LogTypes, ReplayInvariant, Idle
  <2>2. Settled("messages", log) /\ Settled("threads", log)
    BY DEF Settled, Owed, Replays, ReadsTurns
  <2>3. rows["messages"] = TablesOf(log)["messages"] /\ rows["threads"] = TablesOf(log)["threads"]
    BY <2>1, <2>2, Names, SettledAtEnd
  <2>4. Images(rows["messages"]) = Asked(log)
    BY <2>3 DEF Images, Asked, Ids
  <2> QED
    BY <2>2, <2>3, <2>4 DEF FilesKept, Imaged
<1> QED
  BY <1>1, PipelineInvariantHolds, PipelineTypesHold, ReplaysMatch, FilesAreKept, PTL
=================================================================================
