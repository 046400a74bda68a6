------------------------ MODULE TurnCheckpointsProofs ------------------------
(***************************************************************************)
(* For any number of turns, edits, reverts and crashes: turn counts and    *)
(* answers stay within their bounds, a checkpoint that counts as captured  *)
(* has its git ref, and captures are not taken back.                       *)
(***************************************************************************)
EXTENDS TurnCheckpoints, FiniteSetTheorems, FunctionTheorems,
        SequenceTheorems, WellFoundedInduction, TLAPS

(***************************************************************************)
(* How many events of a type are in a feed.                                *)
(***************************************************************************)
Places(feed, type) == {i \in 1..Len(feed) : feed[i].type = type}

NumberOf(feed, type) == Cardinality(Places(feed, type))

(***************************************************************************)
(* Each diff and each end of a turn that was handled may have made one new *)
(* turn count; no count in use is larger than their number.                *)
(***************************************************************************)
Ended == {t \in Turns : phase[t] = "ended"}

HandledDiffs == edits - NumberOf(ingestFeed, "diffUpdated")
HandledEnds == Cardinality(Ended) - NumberOf(runtimeFeed, "turnCompleted")
Budget == HandledDiffs + HandledEnds

CheckpointsUpTo(n) == [count : 0..n, status : Statuses, git : BOOLEAN] \cup {None}

PlaceholdersUpTo(n) == {NoJob} \cup [step : {"placeholder"}, turn : Turns, count : 0..n]

JobsUpTo(n) ==
  {NoJob}
    \cup [step : {"baseline"}, count : 0..n]
    \cup [step : {"capture", "complete"}, turn : Turns, count : 0..n, status : Statuses]
    \cup [step : {"restore", "rollback", "deleteRefs", "revert"}, to : Counts,
          git : BOOLEAN, stale : SUBSET Counts]

DomainEventsUpTo(n) ==
  [type : {"turnStartRequested"}]
    \cup [type : {"turnDiffCompleted"}, turn : Turns, count : 0..n, status : Statuses]
    \cup [type : {"revertRequested"}, to : Counts]

WithinBudget(n) ==
  /\ checkpoints \in [Turns -> CheckpointsUpTo(n)]
  /\ table \in [Turns -> CheckpointsUpTo(n)]
  /\ ingestJob \in PlaceholdersUpTo(n)
  /\ job \in JobsUpTo(n)
  /\ domainFeed \in Seq(DomainEventsUpTo(n))

CountsAreBudgeted == HandledDiffs >= 0 /\ HandledEnds >= 0 /\ WithinBudget(Budget)

(***************************************************************************)
(* A revert that was asked for waits, is being handled, was answered, or   *)
(* was lost in a crash.                                                    *)
(***************************************************************************)
Reverting == job.step \in {"restore", "rollback", "deleteRefs", "revert"}

RevertsAreCounted ==
  answered + NumberOf(domainFeed, "revertRequested") + (IF Reverting THEN 1 ELSE 0) <= asked

\* The other variables.
OthersTyped ==
  /\ phase \in [Turns -> {"new", "requested", "running", "ended"}]
  /\ workspace \in 0..MaxEdits /\ edits \in 0..MaxEdits
  /\ session \in BOOLEAN
  /\ activeTurn \in Turns \cup {NoTurn}
  /\ refs \in [Counts -> 0..MaxEdits \cup {None}]
  /\ ingestFeed \in Seq(RuntimeEvents) /\ runtimeFeed \in Seq(RuntimeEvents)
  /\ asked \in 0..MaxReverts /\ answered \in Nat
  /\ torn \subseteq Counts /\ crashes \in 0..MaxCrashes

TypeInvariant == OthersTyped /\ CountsAreBudgeted /\ RevertsAreCounted

(***************************************************************************)
(* A capture has written its ref before it is told; a revert deletes only  *)
(* refs beyond the count it goes back to.                                  *)
(***************************************************************************)
CaptureIsWritten == job.step = "complete" => refs[job.count] # None
StaleIsBeyond == Reverting => \A c \in job.stale : c > job.to

RefInvariant == CapturesHaveRefs /\ CaptureIsWritten /\ StaleIsBeyond

-----------------------------------------------------------------------------
(* Feeds and counts *)

LEMMA Bounds == /\ IsFiniteSet(Turns) /\ Cardinality(Turns) \in Nat
                /\ MaxEdits \in Nat /\ MaxReverts \in Nat /\ MaxCrashes \in Nat
                /\ NoTurn \notin Turns /\ None \notin Nat
BY FS_CardinalityType, BoundsAssumption, NoneAssumption

LEMMA NumberType ==
  ASSUME NEW S, NEW feed \in Seq(S), NEW type
  PROVE  IsFiniteSet(Places(feed, type)) /\ NumberOf(feed, type) \in Nat
<1>1. Len(feed) \in Nat /\ IsFiniteSet(1..Len(feed))
  BY FS_Interval
<1>2. Places(feed, type) \in SUBSET (1..Len(feed))
  BY DEF Places
<1> QED
  BY <1>1, <1>2, FS_Subset, FS_CardinalityType DEF NumberOf

LEMMA NumberEmpty ==
  ASSUME NEW type
  PROVE  NumberOf(<< >>, type) = 0
<1>1. Places(<< >>, type) = {}
  BY DEF Places
<1> QED
  BY <1>1, FS_EmptySet DEF NumberOf

LEMMA NumberAppend ==
  ASSUME NEW S, NEW feed \in Seq(S), NEW e \in S, NEW type
  PROVE  NumberOf(Append(feed, e), type)
           = NumberOf(feed, type) + (IF e.type = type THEN 1 ELSE 0)
<1> DEFINE n == Len(feed) + 1
           longer == Append(feed, e)
<1>1. /\ Len(feed) \in Nat /\ Len(longer) = n /\ longer[n] = e
      /\ \A i \in 1..Len(feed) : longer[i] = feed[i]
  OBVIOUS
<1>2. n \notin Places(feed, type)
  BY <1>1 DEF Places
<1>9. IsFiniteSet(Places(feed, type))
  BY NumberType
<1>3. NumberOf(feed, type) \in Nat
  BY NumberType
<1> HIDE DEF longer
<1>4. CASE e.type = type
  <2>1. Places(longer, type) = Places(feed, type) \cup {n}
    BY <1>1, <1>4 DEF Places
  <2> HIDE DEF n
  <2>2. Cardinality(Places(feed, type) \cup {n}) = Cardinality(Places(feed, type)) + 1
    BY <1>2, <1>9, FS_AddElement
  <2> QED
    BY <1>4, <2>1, <2>2 DEF NumberOf, longer
<1>5. CASE e.type # type
  <2>1. Places(longer, type) = Places(feed, type)
    BY <1>1, <1>5 DEF Places
  <2> QED
    BY <1>3, <1>5, <2>1 DEF NumberOf, longer
<1> QED
  BY <1>4, <1>5

(* The places of the tail are those of the feed, moved by one, without the *)
(* head's.                                                                 *)
LEMMA NumberTail ==
  ASSUME NEW S, NEW feed \in Seq(S), feed # << >>, NEW type
  PROVE  NumberOf(Tail(feed), type)
           = NumberOf(feed, type) - (IF Head(feed).type = type THEN 1 ELSE 0)
<1> DEFINE rest == Tail(feed)
           T == Places(rest, type)
           U == Places(feed, type) \ {1}
           f == [i \in T |-> i + 1]
<1>1. /\ Len(feed) \in Nat \ {0} /\ Len(rest) = Len(feed) - 1 /\ Head(feed) = feed[1]
      /\ \A i \in 1..Len(rest) : rest[i] = feed[i + 1]
  OBVIOUS
<1>2. rest \in Seq(S)
  OBVIOUS
<1> HIDE DEF rest
<1>3. f \in Bijection(T, U)
  <2>1. f \in [T -> U]
    BY <1>1 DEF Places
  <2>2. \A i, j \in T : f[i] = f[j] => i = j
    BY <1>1 DEF Places
  <2>3. \A j \in U : \E i \in T : f[i] = j
    <3> SUFFICES ASSUME NEW j \in U PROVE \E i \in T : f[i] = j
      OBVIOUS
    <3>1. j - 1 \in T
      BY <1>1 DEF Places
    <3> QED
      BY <1>1, <3>1 DEF Places
  <2> HIDE DEF T, U, f
  <2> QED
    BY <2>1, <2>2, <2>3, Fun_IsBij
<1>4. IsFiniteSet(T) /\ IsFiniteSet(Places(feed, type))
  BY <1>2, NumberType
<1> HIDE DEF T, f
<1>5. Cardinality(U) = Cardinality(T)
  BY <1>3, <1>4, FS_Bijection DEF ExistsBijection
<1>6. Cardinality(U) = IF 1 \in Places(feed, type) THEN NumberOf(feed, type) - 1
                       ELSE NumberOf(feed, type)
  BY <1>4, FS_RemoveElement DEF NumberOf
<1>7. 1 \in Places(feed, type) <=> Head(feed).type = type
  BY <1>1 DEF Places
<1>8. NumberOf(feed, type) \in Nat
  BY NumberType
<1> HIDE DEF U
<1> QED
  BY <1>5, <1>6, <1>7, <1>8 DEF NumberOf, T, rest

LEMMA Maximum ==
  ASSUME NEW n \in Nat, NEW S \in SUBSET (0..n), S # {}
  PROVE  Max(S) \in S /\ \A x \in S : x <= Max(S)
<1> DEFINE T == {m \in Nat : n - m \in S}
<1>1. T # {}
  <2>1. PICK x \in S : TRUE
    OBVIOUS
  <2>2. n - x \in Nat /\ n - (n - x) = x
    OBVIOUS
  <2> QED
    BY <2>2
<1>2. PICK m \in T : \A y \in T : ~(<<y, m>> \in OpToRel(<, Nat))
  <2> HIDE DEF T
  <2>1. T \subseteq Nat
    BY DEF T
  <2> QED
    BY <1>1, <2>1, NatLessThanWellFounded, WFMin
<1>3. \A y \in T : ~(y < m)
  BY <1>2 DEF OpToRel
<1>4. \A x \in S : x <= n - m
  <2> SUFFICES ASSUME NEW x \in S PROVE x <= n - m
    OBVIOUS
  <2>1. n - x \in Nat /\ n - (n - x) = x /\ m \in Nat
    OBVIOUS
  <2>2. n - x \in T
    BY <2>1
  <2>3. ~(n - x < m)
    BY <1>3, <2>2
  <2> HIDE DEF T
  <2> QED
    BY <2>1, <2>3
<1>5. \E x \in S : \A y \in S : x >= y
  BY <1>4
<1> QED
  BY <1>5 DEF Max

(* The largest turn count of the read model is within any budget the       *)
(* counts keep to.                                                         *)
LEMMA MaxTurnCountType ==
  ASSUME NEW n \in Nat, checkpoints \in [Turns -> CheckpointsUpTo(n)]
  PROVE  MaxTurnCount \in 0..n
<1> DEFINE S == {0} \cup {checkpoints[t].count : t \in Known(checkpoints)}
<1>1. S \in SUBSET (0..n)
  BY DEF Known, CheckpointsUpTo
<1> HIDE DEF S
<1>2. S # {}
  BY DEF S
<1>3. Max(S) \in 0..n
  BY <1>1, <1>2, Maximum
<1> QED
  BY <1>3 DEF S, MaxTurnCount

LEMMA EndedNumber ==
  ASSUME NEW E \in SUBSET Turns
  PROVE  IsFiniteSet(E) /\ Cardinality(E) \in 0..Cardinality(Turns)
BY Bounds, FS_Subset, FS_CardinalityType

-----------------------------------------------------------------------------
(* The budget *)

LEMMA SumOfBounds ==
  ASSUME NEW m \in Nat, NEW n \in Nat, NEW d \in 0..m, NEW e \in 0..n
  PROVE  d + e \in 0..(m + n)
OBVIOUS

LEMMA SumGrows ==
  ASSUME NEW d \in Nat, NEW e \in Nat, NEW f \in Nat, NEW g \in Nat, f >= d, g >= e
  PROVE  f + g \in Nat /\ d + e <= f + g
OBVIOUS

LEMMA ExchangeBounded ==
  ASSUME NEW p \in Nat, NEW q \in Nat, NEW n \in Nat, NEW a \in Nat, NEW b \in Nat,
         NEW m \in Nat, p + n + a <= m, q + b <= p + a
  PROVE  q + n + b <= m
OBVIOUS

LEMMA BudgetFacts ==
  ASSUME TypeInvariant
  PROVE  /\ HandledDiffs \in Nat /\ HandledEnds \in Nat
         /\ Budget \in Nat /\ Budget \in Counts /\ Counts \subseteq Nat
         /\ MaxTurnCount \in 0..Budget
<1> USE Bounds
<1>1. NumberOf(ingestFeed, "diffUpdated") \in Nat /\ NumberOf(runtimeFeed, "turnCompleted") \in Nat
  BY NumberType DEF TypeInvariant, OthersTyped
<1>2. Cardinality(Ended) \in 0..Cardinality(Turns)
  BY EndedNumber DEF Ended
<1>3. edits \in 0..MaxEdits /\ HandledDiffs >= 0 /\ HandledEnds >= 0
  BY DEF TypeInvariant, OthersTyped, CountsAreBudgeted
<1>4. HandledDiffs \in Nat /\ HandledEnds \in Nat /\ Budget \in Counts /\ Budget \in Nat
  BY <1>1, <1>2, <1>3 DEF HandledDiffs, HandledEnds, Budget, Counts
<1>5. MaxTurnCount \in 0..Budget
  BY <1>4, MaxTurnCountType DEF TypeInvariant, CountsAreBudgeted, WithinBudget
<1> QED
  BY <1>4, <1>5 DEF Counts

LEMMA Wider ==
  ASSUME NEW n \in Nat, NEW m \in Nat, n <= m
  PROVE  /\ CheckpointsUpTo(n) \subseteq CheckpointsUpTo(m)
         /\ PlaceholdersUpTo(n) \subseteq PlaceholdersUpTo(m)
         /\ JobsUpTo(n) \subseteq JobsUpTo(m)
         /\ DomainEventsUpTo(n) \subseteq DomainEventsUpTo(m)
         /\ WithinBudget(n) => WithinBudget(m)
<1>1. 0..n \subseteq 0..m
  OBVIOUS
<1>2. /\ CheckpointsUpTo(n) \subseteq CheckpointsUpTo(m)
      /\ PlaceholdersUpTo(n) \subseteq PlaceholdersUpTo(m)
  BY <1>1 DEF CheckpointsUpTo, PlaceholdersUpTo
<1>3. JobsUpTo(n) \subseteq JobsUpTo(m)
  BY <1>1 DEF JobsUpTo
<1>4. DomainEventsUpTo(n) \subseteq DomainEventsUpTo(m)
  BY <1>1 DEF DomainEventsUpTo
<1>5. domainFeed \in Seq(DomainEventsUpTo(n)) => domainFeed \in Seq(DomainEventsUpTo(m))
  BY <1>4
<1> QED
  BY <1>2, <1>3, <1>4, <1>5 DEF WithinBudget

(* No step takes back an event that was handled; the counts there are stay *)
(* within the budget.                                                      *)
LEMMA BudgetGrows ==
  ASSUME TypeInvariant, edits' \in 0..MaxEdits,
         ingestFeed' \in Seq(RuntimeEvents), runtimeFeed' \in Seq(RuntimeEvents),
         HandledDiffs' >= HandledDiffs, HandledEnds' >= HandledEnds
  PROVE  /\ Budget' \in Nat /\ Budget' \in Counts /\ Budget <= Budget'
         /\ HandledDiffs' >= 0 /\ HandledEnds' >= 0
         /\ WithinBudget(Budget')
<1> USE Bounds
<1>1. /\ NumberOf(ingestFeed', "diffUpdated") \in Nat
      /\ NumberOf(runtimeFeed', "turnCompleted") \in Nat
  BY NumberType
<1>2. Cardinality(Ended') \in 0..Cardinality(Turns)
  BY EndedNumber DEF Ended
<1>3. HandledDiffs \in Nat /\ HandledEnds \in Nat /\ Budget \in Nat
  BY BudgetFacts
<1>4. HandledDiffs' = edits' - NumberOf(ingestFeed', "diffUpdated")
  BY DEF HandledDiffs
<1>5. HandledEnds' = Cardinality(Ended') - NumberOf(runtimeFeed', "turnCompleted")
  BY DEF HandledEnds
<1>6. HandledDiffs' \in 0..MaxEdits /\ HandledEnds' \in 0..Cardinality(Turns)
  BY <1>1, <1>2, <1>3, <1>4, <1>5
<1>7. Budget' = HandledDiffs' + HandledEnds' /\ Budget = HandledDiffs + HandledEnds
  BY DEF Budget
<1>8. Budget' \in Nat /\ Budget' \in Counts /\ Budget <= Budget'
  <2>1. Budget' \in Counts
    BY <1>6, <1>7, SumOfBounds DEF Counts
  <2>2. HandledDiffs' \in Nat /\ HandledEnds' \in Nat
    BY <1>6
  <2>3. Budget' \in Nat /\ Budget <= Budget'
    BY <1>3, <1>7, <2>2, SumGrows
  <2> QED
    BY <2>1, <2>2, <2>3
<1>9. WithinBudget(Budget')
  BY <1>3, <1>8, Wider DEF TypeInvariant, CountsAreBudgeted
<1> QED
  BY <1>6, <1>8, <1>9

LEMMA InitTypes == Init => TypeInvariant
<1> SUFFICES ASSUME Init PROVE TypeInvariant
  OBVIOUS
<1> USE Bounds
<1>1. OthersTyped
  <2>1. /\ workspace \in 0..MaxEdits /\ edits \in 0..MaxEdits
        /\ asked \in 0..MaxReverts /\ answered \in Nat /\ crashes \in 0..MaxCrashes
    BY DEF Init
  <2>2. refs \in [Counts -> 0..MaxEdits \cup {None}]
    BY DEF Init
  <2>3. ingestFeed \in Seq(RuntimeEvents) /\ runtimeFeed \in Seq(RuntimeEvents)
    BY DEF Init
  <2>4. /\ phase \in [Turns -> {"new", "requested", "running", "ended"}]
        /\ session \in BOOLEAN /\ activeTurn \in Turns \cup {NoTurn} /\ torn \subseteq Counts
    BY DEF Init
  <2> QED
    BY <2>1, <2>2, <2>3, <2>4 DEF OthersTyped
<1>2. /\ NumberOf(ingestFeed, "diffUpdated") = 0 /\ NumberOf(runtimeFeed, "turnCompleted") = 0
      /\ NumberOf(domainFeed, "revertRequested") = 0
  BY NumberEmpty DEF Init
<1>3. Cardinality(Ended) = 0
  <2>1. Ended = {}
    BY DEF Ended, Init
  <2> QED
    BY <2>1, FS_EmptySet
<1>4. HandledDiffs = 0 /\ HandledEnds = 0 /\ Budget = 0
  BY <1>2, <1>3 DEF HandledDiffs, HandledEnds, Budget, Init
<1>5. WithinBudget(0)
  BY DEF WithinBudget, CheckpointsUpTo, PlaceholdersUpTo, JobsUpTo, NoJob, Init
<1>6. RevertsAreCounted
  BY <1>2 DEF RevertsAreCounted, Reverting, NoJob, Init
<1> QED
  BY <1>1, <1>4, <1>5, <1>6 DEF TypeInvariant, CountsAreBudgeted

-----------------------------------------------------------------------------
(* One action at a time *)

(* A step that neither moves a turn, edits nor touches the runtime feeds.  *)
LEMMA QuietStep ==
  ASSUME TypeInvariant, UNCHANGED <<phase, edits, ingestFeed, runtimeFeed>>
  PROVE  /\ Budget' = Budget /\ Budget \in Nat /\ WithinBudget(Budget)
         /\ HandledDiffs' >= 0 /\ HandledEnds' >= 0
BY BudgetFacts DEF Budget, HandledDiffs, HandledEnds, Ended, TypeInvariant, CountsAreBudgeted

LEMMA RequestTurnTypes ==
  ASSUME TypeInvariant, NEW t \in Turns, RequestTurn(t)
  PROVE  TypeInvariant'
<1> USE Bounds
<1>1. Ended' = Ended
  BY DEF TypeInvariant, OthersTyped, RequestTurn, Ended
<1>2. Budget' = Budget /\ HandledDiffs' >= 0 /\ HandledEnds' >= 0
  BY <1>1 DEF Budget, HandledDiffs, HandledEnds, TypeInvariant, CountsAreBudgeted, RequestTurn
<1>3. OthersTyped'
  BY DEF TypeInvariant, OthersTyped, RequestTurn, readModel, history
<1>4. [type |-> "turnStartRequested"] \in DomainEventsUpTo(Budget)
  BY DEF DomainEventsUpTo
<1>5. domainFeed \in Seq(DomainEventsUpTo(Budget))
  BY DEF TypeInvariant, CountsAreBudgeted, WithinBudget
<1>6. WithinBudget(Budget)'
  BY <1>2, <1>4, <1>5
     DEF TypeInvariant, CountsAreBudgeted, WithinBudget, RequestTurn, readModel
<1>7. NumberOf(domainFeed', "revertRequested") = NumberOf(domainFeed, "revertRequested")
  <2>1. NumberOf(domainFeed, "revertRequested") \in Nat
    BY <1>5, NumberType
  <2> QED
    BY <1>4, <1>5, <2>1, NumberAppend DEF RequestTurn
<1>8. RevertsAreCounted'
  BY <1>7 DEF TypeInvariant, RevertsAreCounted, Reverting, RequestTurn, history
<1> QED
  BY <1>2, <1>3, <1>6, <1>8 DEF TypeInvariant, CountsAreBudgeted

(* A step that hands runtime events on and leaves all counts alone.        *)
LEMMA FeedStep ==
  ASSUME TypeInvariant, OthersTyped',
         HandledDiffs' >= HandledDiffs, HandledEnds' >= HandledEnds,
         UNCHANGED <<checkpoints, table, ingestJob, job, domainFeed, asked, answered>>
  PROVE  TypeInvariant'
<1>1. /\ edits' \in 0..MaxEdits
      /\ ingestFeed' \in Seq(RuntimeEvents) /\ runtimeFeed' \in Seq(RuntimeEvents)
  BY DEF OthersTyped
<1>2. WithinBudget(Budget') /\ HandledDiffs' >= 0 /\ HandledEnds' >= 0
  BY <1>1, BudgetGrows
<1>3. WithinBudget(Budget)'
  BY <1>2 DEF WithinBudget
<1>4. RevertsAreCounted'
  BY DEF TypeInvariant, RevertsAreCounted, Reverting
<1> QED
  BY <1>2, <1>3, <1>4 DEF TypeInvariant, CountsAreBudgeted

LEMMA NumbersAreNat ==
  ASSUME TypeInvariant
  PROVE  /\ ingestFeed \in Seq(RuntimeEvents) /\ runtimeFeed \in Seq(RuntimeEvents)
         /\ domainFeed \in Seq(DomainEventsUpTo(Budget))
         /\ NumberOf(ingestFeed, "diffUpdated") \in Nat
         /\ NumberOf(runtimeFeed, "turnCompleted") \in Nat
         /\ NumberOf(domainFeed, "revertRequested") \in Nat
         /\ edits \in Nat /\ Cardinality(Ended) \in Nat
         /\ asked \in Nat /\ answered \in Nat
<1> USE Bounds
<1>1. /\ ingestFeed \in Seq(RuntimeEvents) /\ runtimeFeed \in Seq(RuntimeEvents)
      /\ domainFeed \in Seq(DomainEventsUpTo(Budget))
      /\ edits \in Nat /\ asked \in Nat /\ answered \in Nat
  BY DEF TypeInvariant, OthersTyped, CountsAreBudgeted, WithinBudget
<1>2. Cardinality(Ended) \in Nat
  BY EndedNumber DEF Ended
<1> QED
  BY <1>1, <1>2, NumberType

LEMMA BindSessionTypes ==
  ASSUME TypeInvariant, BindSession
  PROVE  TypeInvariant'
<1>1. OthersTyped'
  BY DEF TypeInvariant, OthersTyped, BindSession, provider, feeds, history
<1>2. HandledDiffs' >= HandledDiffs /\ HandledEnds' >= HandledEnds
  BY BudgetFacts DEF HandledDiffs, HandledEnds, Ended, BindSession, provider, feeds
<1> QED
  BY <1>1, <1>2, FeedStep DEF BindSession, feeds, history

LEMMA StartTurnTypes ==
  ASSUME TypeInvariant, NEW t \in Turns, StartTurn(t)
  PROVE  TypeInvariant'
<1> DEFINE e == [type |-> "turnStarted", turn |-> t]
<1>1. e \in RuntimeEvents /\ e.type = "turnStarted"
  BY DEF RuntimeEvents
<1> HIDE DEF e
<1>2. ingestFeed' = Append(ingestFeed, e) /\ runtimeFeed' = Append(runtimeFeed, e)
  BY DEF StartTurn, Publish, e
<1>3. OthersTyped'
  BY <1>1, <1>2 DEF TypeInvariant, OthersTyped, StartTurn, readModel, history
<1>4. Ended' = Ended
  BY DEF TypeInvariant, OthersTyped, StartTurn, Ended
<1>5. /\ NumberOf(ingestFeed', "diffUpdated") = NumberOf(ingestFeed, "diffUpdated")
      /\ NumberOf(runtimeFeed', "turnCompleted") = NumberOf(runtimeFeed, "turnCompleted")
  BY <1>1, <1>2, NumbersAreNat, NumberAppend
<1>6. HandledDiffs' >= HandledDiffs /\ HandledEnds' >= HandledEnds
  BY <1>4, <1>5, BudgetFacts DEF HandledDiffs, HandledEnds, StartTurn
<1> QED
  BY <1>3, <1>6, FeedStep DEF StartTurn, readModel, history

LEMMA EditTypes ==
  ASSUME TypeInvariant, NEW t \in Turns, EditAndReportDiff(t)
  PROVE  TypeInvariant'
<1> USE Bounds
<1> DEFINE e == [type |-> "diffUpdated", turn |-> t]
<1>1. e \in RuntimeEvents /\ e.type = "diffUpdated"
  BY DEF RuntimeEvents
<1> HIDE DEF e
<1>2. ingestFeed' = Append(ingestFeed, e)
  BY DEF EditAndReportDiff, e
<1>3. OthersTyped'
  BY <1>1, <1>2 DEF TypeInvariant, OthersTyped, EditAndReportDiff, readModel, history
<1>4. NumberOf(ingestFeed', "diffUpdated") = NumberOf(ingestFeed, "diffUpdated") + 1
  BY <1>1, <1>2, NumbersAreNat, NumberAppend
<1>5. HandledDiffs' >= HandledDiffs
  BY <1>4, NumbersAreNat DEF HandledDiffs, EditAndReportDiff
<1>6. HandledEnds' >= HandledEnds
  BY BudgetFacts DEF HandledEnds, Ended, EditAndReportDiff
<1> QED
  BY <1>3, <1>5, <1>6, FeedStep DEF EditAndReportDiff, readModel, history

LEMMA EndTurnTypes ==
  ASSUME TypeInvariant, NEW t \in Turns, NEW status \in Statuses, EndTurn(t, status)
  PROVE  TypeInvariant'
<1> USE Bounds
<1> DEFINE e == [type |-> "turnCompleted", turn |-> t, status |-> status]
<1>1. e \in RuntimeEvents /\ e.type = "turnCompleted"
  BY DEF RuntimeEvents
<1> HIDE DEF e
<1>2. ingestFeed' = Append(ingestFeed, e) /\ runtimeFeed' = Append(runtimeFeed, e)
  BY DEF EndTurn, Publish, e
<1>3. OthersTyped'
  BY <1>1, <1>2 DEF TypeInvariant, OthersTyped, EndTurn, readModel, history
<1>4. Cardinality(Ended') = Cardinality(Ended) + 1
  <2>1. Ended' = Ended \cup {t}
    BY DEF TypeInvariant, OthersTyped, EndTurn, Ended
  <2>2. t \notin Ended
    BY DEF EndTurn, Running, Ended
  <2>3. IsFiniteSet(Ended)
    BY EndedNumber DEF Ended
  <2> QED
    BY <2>1, <2>2, <2>3, FS_AddElement
<1>5. /\ NumberOf(ingestFeed', "diffUpdated") = NumberOf(ingestFeed, "diffUpdated")
      /\ NumberOf(runtimeFeed', "turnCompleted") = NumberOf(runtimeFeed, "turnCompleted") + 1
  <2>1. NumberOf(ingestFeed', "diffUpdated") = NumberOf(ingestFeed, "diffUpdated") + 0
    BY <1>1, <1>2, NumbersAreNat, NumberAppend
  <2>2. NumberOf(runtimeFeed', "turnCompleted") = NumberOf(runtimeFeed, "turnCompleted") + 1
    BY <1>1, <1>2, NumbersAreNat, NumberAppend
  <2> QED
    BY <2>1, <2>2, NumbersAreNat
<1>6. HandledDiffs' >= HandledDiffs
  BY <1>5, BudgetFacts DEF HandledDiffs, EndTurn
<1>7. HandledEnds' >= HandledEnds
  BY <1>4, <1>5, NumbersAreNat DEF HandledEnds
<1> QED
  BY <1>3, <1>6, <1>7, FeedStep DEF EndTurn, readModel, history

LEMMA RequestRevertTypes ==
  ASSUME TypeInvariant, NEW to \in Counts, RequestRevert(to)
  PROVE  TypeInvariant'
<1> USE Bounds
<1> DEFINE e == [type |-> "revertRequested", to |-> to]
<1>1. e \in DomainEventsUpTo(Budget) /\ e.type = "revertRequested"
  BY DEF DomainEventsUpTo
<1> HIDE DEF e
<1>2. domainFeed' = Append(domainFeed, e)
  BY DEF RequestRevert, e
<1>3. UNCHANGED <<phase, edits, ingestFeed, runtimeFeed, checkpoints, table, ingestJob, job, answered>>
  BY DEF RequestRevert, provider, readModel
<1>4. OthersTyped'
  BY DEF TypeInvariant, OthersTyped, RequestRevert, provider, readModel
<1>5. NumberOf(domainFeed', "revertRequested") = NumberOf(domainFeed, "revertRequested") + 1
  BY <1>1, <1>2, NumbersAreNat, NumberAppend
<1>6. WithinBudget(Budget)'
  BY <1>1, <1>2, <1>3, QuietStep, NumbersAreNat DEF WithinBudget
<1>7. RevertsAreCounted'
  BY <1>3, <1>5, NumbersAreNat DEF TypeInvariant, RevertsAreCounted, Reverting, RequestRevert
<1> QED
  BY <1>3, <1>4, <1>6, <1>7, QuietStep DEF TypeInvariant, CountsAreBudgeted

(* The ingestion worker takes the head of its feed.                        *)
LEMMA IngestNextNumbers ==
  ASSUME TypeInvariant, NEW type, IngestNext(type)
  PROVE  /\ ingestFeed' \in Seq(RuntimeEvents)
         /\ Head(ingestFeed) \in RuntimeEvents /\ Head(ingestFeed).type = type
         /\ Head(ingestFeed).turn \in Turns
         /\ NumberOf(ingestFeed', "diffUpdated")
              = NumberOf(ingestFeed, "diffUpdated") - (IF type = "diffUpdated" THEN 1 ELSE 0)
<1>1. ingestFeed \in Seq(RuntimeEvents) /\ ingestFeed # << >>
  BY NumbersAreNat DEF IngestNext
<1>2. Head(ingestFeed) \in RuntimeEvents /\ Tail(ingestFeed) \in Seq(RuntimeEvents)
  BY <1>1
<1>3. Head(ingestFeed).turn \in Turns
  BY <1>2 DEF RuntimeEvents
<1> QED
  BY <1>1, <1>2, <1>3, NumberTail DEF IngestNext

LEMMA IngestLifecycleTypes ==
  ASSUME TypeInvariant, IngestTurnStarted \/ IngestTurnCompleted
  PROVE  TypeInvariant'
<1>1. PICK type \in {"turnStarted", "turnCompleted"} : IngestNext(type)
  BY DEF IngestTurnStarted, IngestTurnCompleted
<1>2. /\ ingestFeed' \in Seq(RuntimeEvents) /\ Head(ingestFeed).turn \in Turns
      /\ NumberOf(ingestFeed', "diffUpdated") = NumberOf(ingestFeed, "diffUpdated")
  BY <1>1, IngestNextNumbers, NumbersAreNat
<1>3. UNCHANGED <<phase, workspace, edits, session, checkpoints, table, refs, runtimeFeed,
                  domainFeed, ingestJob, job, asked, answered, torn, crashes>>
  BY DEF IngestTurnStarted, IngestTurnCompleted, provider, history
<1>4. activeTurn' \in Turns \cup {NoTurn}
  BY <1>2 DEF TypeInvariant, OthersTyped, IngestTurnStarted, IngestTurnCompleted
<1>5. OthersTyped'
  BY <1>2, <1>3, <1>4 DEF TypeInvariant, OthersTyped
<1>6. HandledDiffs' >= HandledDiffs /\ HandledEnds' >= HandledEnds
  BY <1>2, <1>3, BudgetFacts DEF HandledDiffs, HandledEnds, Ended
<1> QED
  BY <1>3, <1>5, <1>6, FeedStep

LEMMA IngestDiffTypes ==
  ASSUME TypeInvariant, IngestDiffUpdated
  PROVE  TypeInvariant'
<1> USE Bounds
<1> DEFINE t == Head(ingestFeed).turn
<1>1. IngestNext("diffUpdated")
  BY DEF IngestDiffUpdated
<1>2. /\ ingestFeed' \in Seq(RuntimeEvents) /\ t \in Turns
      /\ NumberOf(ingestFeed', "diffUpdated") = NumberOf(ingestFeed, "diffUpdated") - 1
  BY <1>1, IngestNextNumbers, NumbersAreNat
<1>3. UNCHANGED <<phase, workspace, edits, session, activeTurn, checkpoints, table, refs,
                  runtimeFeed, domainFeed, job, asked, answered, torn, crashes>>
  BY DEF IngestDiffUpdated, provider, readModel, history
<1>4. ingestJob' = IF checkpoints[t] # None THEN NoJob
                   ELSE [step |-> "placeholder", turn |-> t, count |-> MaxTurnCount + 1]
  BY DEF IngestDiffUpdated
<1> HIDE DEF t
<1>5. OthersTyped'
  BY <1>2, <1>3 DEF TypeInvariant, OthersTyped
<1>6. HandledDiffs' = HandledDiffs + 1 /\ HandledEnds' = HandledEnds
  BY <1>2, <1>3, NumbersAreNat DEF HandledDiffs, HandledEnds, Ended
<1>7. Budget' = Budget + 1 /\ Budget \in Nat /\ MaxTurnCount \in 0..Budget
      /\ HandledDiffs' >= HandledDiffs /\ HandledEnds' >= HandledEnds
  BY <1>6, BudgetFacts DEF Budget
<1>8. WithinBudget(Budget') /\ Budget' \in Nat /\ HandledDiffs' >= 0 /\ HandledEnds' >= 0
  <2>1. edits' \in 0..MaxEdits /\ runtimeFeed' \in Seq(RuntimeEvents)
    BY <1>5 DEF OthersTyped
  <2> QED
    BY <1>2, <1>7, <2>1, BudgetGrows
<1>9. MaxTurnCount + 1 \in 0..Budget'
  BY <1>7
<1>10. ingestJob' \in PlaceholdersUpTo(Budget')
  BY <1>2, <1>4, <1>9 DEF PlaceholdersUpTo
<1>11. WithinBudget(Budget)'
  BY <1>3, <1>8, <1>10 DEF WithinBudget
<1>12. RevertsAreCounted'
  BY <1>3 DEF TypeInvariant, RevertsAreCounted, Reverting
<1> QED
  BY <1>5, <1>8, <1>11, <1>12 DEF TypeInvariant, CountsAreBudgeted

-----------------------------------------------------------------------------
(* Checkpoints of a count within the budget *)

LEMMA ProjectionsKeepCounts ==
  ASSUME NEW n \in Nat, NEW t \in Turns, NEW cp \in CheckpointsUpTo(n),
         checkpoints \in [Turns -> CheckpointsUpTo(n)], table \in [Turns -> CheckpointsUpTo(n)]
  PROVE  /\ ProjectCheckpoint(t, cp) \in [Turns -> CheckpointsUpTo(n)]
         /\ RecordCheckpoint(t, cp) \in [Turns -> CheckpointsUpTo(n)]
<1>1. None \in CheckpointsUpTo(n)
  BY DEF CheckpointsUpTo
<1> QED
  BY <1>1 DEF ProjectCheckpoint, RecordCheckpoint

(* A dispatch of a checkpoint, with its event, by either worker.           *)
LEMMA DispatchTypes ==
  ASSUME TypeInvariant, NEW t \in Turns, NEW c \in 0..Budget, NEW s \in Statuses,
         NEW g \in BOOLEAN,
         DispatchDiffComplete(t, [count |-> c, status |-> s, git |-> g]),
         domainFeed' = Append(domainFeed,
                              DiffCompleted(t, [count |-> c, status |-> s, git |-> g])),
         UNCHANGED <<phase, workspace, edits, session, refs, ingestFeed, runtimeFeed,
                     asked, answered, torn, crashes>>,
         ingestJob' \in {ingestJob, NoJob}, job' \in {job, NoJob}
  PROVE  TypeInvariant'
<1> DEFINE cp == [count |-> c, status |-> s, git |-> g]
           e == DiffCompleted(t, cp)
<1>1. Budget' = Budget /\ Budget \in Nat /\ WithinBudget(Budget)
      /\ HandledDiffs' >= 0 /\ HandledEnds' >= 0
  BY QuietStep
<1>2. cp \in CheckpointsUpTo(Budget)
  BY DEF CheckpointsUpTo
<1>3. e \in DomainEventsUpTo(Budget) /\ e.type = "turnDiffCompleted"
  BY DEF DomainEventsUpTo, DiffCompleted
<1>4. /\ checkpoints' \in [Turns -> CheckpointsUpTo(Budget)]
      /\ table' \in [Turns -> CheckpointsUpTo(Budget)]
  BY <1>1, <1>2, ProjectionsKeepCounts DEF WithinBudget, DispatchDiffComplete
<1> HIDE DEF cp, e
<1>5. domainFeed' = Append(domainFeed, e)
  BY DEF e, cp
<1>6. domainFeed' \in Seq(DomainEventsUpTo(Budget))
  BY <1>3, <1>5, NumbersAreNat
<1>7. NumberOf(domainFeed', "revertRequested") = NumberOf(domainFeed, "revertRequested") + 0
  BY <1>3, <1>5, NumbersAreNat, NumberAppend
<1>8. NoJob \in PlaceholdersUpTo(Budget) /\ NoJob \in JobsUpTo(Budget)
  BY DEF PlaceholdersUpTo, JobsUpTo
<1>9. WithinBudget(Budget)'
  BY <1>1, <1>4, <1>6, <1>8 DEF WithinBudget
<1>10. RevertsAreCounted'
  BY <1>7, NumbersAreNat DEF TypeInvariant, RevertsAreCounted, Reverting, NoJob
<1>11. OthersTyped'
  BY DEF TypeInvariant, OthersTyped, DispatchDiffComplete
<1> QED
  BY <1>1, <1>9, <1>10, <1>11 DEF TypeInvariant, CountsAreBudgeted

LEMMA DispatchPlaceholderTypes ==
  ASSUME TypeInvariant, DispatchPlaceholder
  PROVE  TypeInvariant'
<1>1. ingestJob \in PlaceholdersUpTo(Budget) /\ ingestJob.step = "placeholder"
  BY DEF TypeInvariant, CountsAreBudgeted, WithinBudget, DispatchPlaceholder
<1>2. ingestJob.turn \in Turns /\ ingestJob.count \in 0..Budget
  BY <1>1 DEF PlaceholdersUpTo, NoJob
<1>3. UNCHANGED <<phase, workspace, edits, session, refs, ingestFeed, runtimeFeed, job,
                  asked, answered, torn, crashes>>
  BY DEF DispatchPlaceholder, provider, history
<1> QED
  BY <1>2, <1>3, DispatchTypes DEF DispatchPlaceholder, Statuses

LEMMA CompleteCaptureTypes ==
  ASSUME TypeInvariant, CompleteCapture
  PROVE  TypeInvariant'
<1>1. job \in JobsUpTo(Budget) /\ job.step = "complete"
  BY DEF TypeInvariant, CountsAreBudgeted, WithinBudget, CompleteCapture
<1>2. job.turn \in Turns /\ job.count \in 0..Budget /\ job.status \in Statuses
  BY <1>1 DEF JobsUpTo, NoJob
<1>3. UNCHANGED <<phase, workspace, edits, session, refs, ingestFeed, runtimeFeed, ingestJob,
                  asked, answered, torn, crashes>>
  BY DEF CompleteCapture, provider, history
<1> QED
  BY <1>2, <1>3, DispatchTypes DEF CompleteCapture

-----------------------------------------------------------------------------
(* The jobs of the two workers *)

(* A step that changes a job, the refs, the read model or the answers, but  *)
(* hands no event on.                                                      *)
LEMMA JobStep ==
  ASSUME TypeInvariant,
         UNCHANGED <<phase, edits, session, activeTurn, ingestFeed, runtimeFeed, domainFeed,
                     asked, crashes>>,
         workspace' \in 0..MaxEdits, refs' \in [Counts -> 0..MaxEdits \cup {None}],
         torn' \subseteq Counts, answered' \in Nat,
         checkpoints' \in [Turns -> CheckpointsUpTo(Budget)],
         table' \in [Turns -> CheckpointsUpTo(Budget)],
         ingestJob' \in PlaceholdersUpTo(Budget), job' \in JobsUpTo(Budget),
         answered' + (IF Reverting' THEN 1 ELSE 0) <= answered + (IF Reverting THEN 1 ELSE 0)
  PROVE  TypeInvariant'
<1>1. Budget' = Budget /\ Budget \in Nat /\ WithinBudget(Budget)
      /\ HandledDiffs' >= 0 /\ HandledEnds' >= 0
  BY QuietStep
<1>2. WithinBudget(Budget)'
  BY <1>1 DEF WithinBudget
<1>3. RevertsAreCounted'
  <2> DEFINE a == IF Reverting THEN 1 ELSE 0
             b == IF Reverting' THEN 1 ELSE 0
  <2>1. a \in Nat /\ b \in Nat
    OBVIOUS
  <2>2. answered + NumberOf(domainFeed, "revertRequested") + a <= asked
    BY DEF TypeInvariant, RevertsAreCounted
  <2>3. answered' + b <= answered + a
    OBVIOUS
  <2> HIDE DEF a, b
  <2>4. answered' + NumberOf(domainFeed, "revertRequested") + b <= asked
    <3>1. /\ NumberOf(domainFeed, "revertRequested") \in Nat
          /\ asked \in Nat /\ answered \in Nat /\ answered' \in Nat
      BY NumbersAreNat
    <3> QED
      BY <2>1, <2>2, <2>3, <3>1, ExchangeBounded
  <2> QED
    BY <2>4 DEF RevertsAreCounted, b
<1>4. OthersTyped'
  BY DEF TypeInvariant, OthersTyped
<1> QED
  BY <1>1, <1>2, <1>3, <1>4 DEF TypeInvariant, CountsAreBudgeted

LEMMA JobFacts ==
  ASSUME TypeInvariant
  PROVE  /\ checkpoints \in [Turns -> CheckpointsUpTo(Budget)]
         /\ table \in [Turns -> CheckpointsUpTo(Budget)]
         /\ ingestJob \in PlaceholdersUpTo(Budget) /\ job \in JobsUpTo(Budget)
         /\ NoJob \in PlaceholdersUpTo(Budget) /\ NoJob \in JobsUpTo(Budget)
         /\ refs \in [Counts -> 0..MaxEdits \cup {None}] /\ workspace \in 0..MaxEdits
         /\ torn \subseteq Counts /\ answered \in Nat
         /\ 0..Budget \subseteq Counts
<1>1. Budget \in Counts
  BY BudgetFacts
<1>2. 0..Budget \subseteq Counts
  BY <1>1, Bounds DEF Counts
<1> QED
  BY <1>2 DEF TypeInvariant, OthersTyped, CountsAreBudgeted, WithinBudget, PlaceholdersUpTo, JobsUpTo

LEMMA NoJobStep == NoJob.step = "idle"
BY DEF NoJob

LEMMA JobFields ==
  ASSUME TypeInvariant
  PROVE  /\ job.step \in {"baseline", "capture", "complete"} => job.count \in 0..Budget
         /\ job.step \in {"capture", "complete"} => job.turn \in Turns /\ job.status \in Statuses
         /\ Reverting => job.to \in Counts /\ job.git \in BOOLEAN /\ job.stale \in SUBSET Counts
BY JobFacts, NoJobStep DEF JobsUpTo, Reverting

LEMMA PlaceholderFailsTypes ==
  ASSUME TypeInvariant, PlaceholderFails
  PROVE  TypeInvariant'
BY JobFacts, JobStep DEF PlaceholderFails, provider, readModel, feeds, history, Reverting

LEMMA CaptureBaselineTypes ==
  ASSUME TypeInvariant, CaptureBaseline
  PROVE  TypeInvariant'
<1>1. refs' \in [Counts -> 0..MaxEdits \cup {None}] /\ torn' \subseteq Counts
  BY JobFacts DEF CaptureBaseline
<1>2. ~Reverting /\ ~Reverting'
  BY NoJobStep DEF CaptureBaseline, EndJob, Reverting
<1> QED
  BY <1>1, <1>2, JobFacts, JobStep DEF CaptureBaseline, EndJob, provider, readModel, feeds

LEMMA CaptureCheckpointTypes ==
  ASSUME TypeInvariant, CaptureCheckpoint
  PROVE  TypeInvariant'
<1>1. refs' \in [Counts -> 0..MaxEdits \cup {None}] /\ torn' \subseteq Counts
  BY JobFacts DEF CaptureCheckpoint
<1>2. ~Reverting /\ job \in [step : {"capture", "complete"}, turn : Turns, count : 0..Budget,
                             status : Statuses]
  BY JobFacts, NoJobStep DEF CaptureCheckpoint, JobsUpTo, Reverting
<1>3. job' \in JobsUpTo(Budget) /\ ~Reverting'
  BY <1>2 DEF CaptureCheckpoint, JobsUpTo, Reverting
<1> QED
  BY <1>1, <1>2, <1>3, JobFacts, JobStep
     DEF CaptureCheckpoint, provider, readModel, feeds

LEMMA CaptureFailsTypes ==
  ASSUME TypeInvariant, CaptureFails
  PROVE  TypeInvariant'
<1>1. ~Reverting /\ ~Reverting'
  BY NoJobStep DEF CaptureFails, EndJob, Reverting
<1> QED
  BY <1>1, JobFacts, JobStep DEF CaptureFails, EndJob, provider, readModel, feeds

LEMMA RevertingJob ==
  ASSUME TypeInvariant, Reverting
  PROVE  job \in [step : {"restore", "rollback", "deleteRefs", "revert"}, to : Counts,
                  git : BOOLEAN, stale : SUBSET Counts]
BY JobFacts, NoJobStep DEF JobsUpTo, Reverting

LEMMA RestoreFilesTypes ==
  ASSUME TypeInvariant, RestoreFiles
  PROVE  TypeInvariant'
<1>1. Reverting
  BY DEF RestoreFiles, Reverting
<1>2. job.to \in Counts /\ [job EXCEPT !.step = "rollback"] \in JobsUpTo(Budget)
  BY <1>1, RevertingJob DEF JobsUpTo
<1>3. workspace' \in 0..MaxEdits
  BY <1>2, JobFacts, Bounds DEF RestoreFiles
<1>4. \/ job' = NoJob /\ answered' = answered + 1 /\ ~Reverting'
      \/ job' = [job EXCEPT !.step = "rollback"] /\ answered' = answered
  BY NoJobStep DEF RestoreFiles, Reported, Reverting
<1>5. /\ job' \in JobsUpTo(Budget) /\ answered' \in Nat
      /\ answered' + (IF Reverting' THEN 1 ELSE 0) <= answered + (IF Reverting THEN 1 ELSE 0)
  BY <1>1, <1>2, <1>4, JobFacts
<1> QED
  BY <1>3, <1>5, JobFacts, JobStep DEF RestoreFiles, readModel, feeds

LEMMA RollbackTypes ==
  ASSUME TypeInvariant, RollbackConversation
  PROVE  TypeInvariant'
<1>1. Reverting
  BY DEF RollbackConversation, Reverting
<1>2. job' \in JobsUpTo(Budget) /\ Reverting'
  BY <1>1, RevertingJob DEF RollbackConversation, JobsUpTo, Reverting
<1> QED
  BY <1>1, <1>2, JobFacts, JobStep DEF RollbackConversation, provider, readModel, feeds, history

LEMMA DeleteStaleRefsTypes ==
  ASSUME TypeInvariant, DeleteStaleRefs
  PROVE  TypeInvariant'
<1>1. Reverting
  BY DEF DeleteStaleRefs, Reverting
<1>2. job' \in JobsUpTo(Budget) /\ Reverting'
  BY <1>1, RevertingJob DEF DeleteStaleRefs, JobsUpTo, Reverting
<1>3. refs' \in [Counts -> 0..MaxEdits \cup {None}]
  BY JobFacts DEF DeleteStaleRefs
<1> QED
  BY <1>1, <1>2, <1>3, JobFacts, JobStep DEF DeleteStaleRefs, provider, readModel, feeds, history

LEMMA RetainedKeepsCounts ==
  ASSUME NEW n \in Nat, NEW to, NEW cps \in [Turns -> CheckpointsUpTo(n)]
  PROVE  Retained(cps, to) \in [Turns -> CheckpointsUpTo(n)]
<1>1. None \in CheckpointsUpTo(n)
  BY DEF CheckpointsUpTo
<1> QED
  BY <1>1 DEF Retained

LEMMA CompleteRevertTypes ==
  ASSUME TypeInvariant, CompleteRevert
  PROVE  TypeInvariant'
<1>1. Reverting /\ ~Reverting'
  BY NoJobStep DEF CompleteRevert, Reverting
<1>2. /\ checkpoints' \in [Turns -> CheckpointsUpTo(Budget)]
      /\ table' \in [Turns -> CheckpointsUpTo(Budget)]
  BY BudgetFacts, JobFacts, RetainedKeepsCounts DEF CompleteRevert
<1> QED
  BY <1>1, <1>2, JobFacts, JobStep DEF CompleteRevert, Reported, provider, feeds

LEMMA BreakOffTypes ==
  ASSUME TypeInvariant, BreakOff
  PROVE  refs' \in [Counts -> 0..MaxEdits \cup {None}] /\ torn' \subseteq Counts
<1>1. job.step \in {"deleteRefs", "revert"} => job.stale \subseteq Counts
  BY JobFields DEF Reverting
<1> QED
  BY <1>1, JobFacts DEF BreakOff

LEMMA RevertFailsTypes ==
  ASSUME TypeInvariant, RevertFails
  PROVE  TypeInvariant'
<1>1. Reverting /\ ~Reverting'
  BY NoJobStep DEF RevertFails, EndJob, Reverting
<1> QED
  BY <1>1, BreakOffTypes, JobFacts, JobStep
     DEF RevertFails, EndJob, Reported, provider, readModel, feeds

-----------------------------------------------------------------------------
(* The reactor takes an event *)

(* It has no job then, reads the read model and leaves it alone.           *)
LEMMA TakeStep ==
  ASSUME TypeInvariant, job = NoJob,
         UNCHANGED <<phase, workspace, edits, session, activeTurn, checkpoints, table, refs,
                     ingestFeed, ingestJob, asked, torn, crashes>>,
         runtimeFeed' \in Seq(RuntimeEvents),
         NumberOf(runtimeFeed', "turnCompleted") <= NumberOf(runtimeFeed, "turnCompleted"),
         domainFeed' \in Seq(DomainEventsUpTo(Budget)),
         job' \in JobsUpTo(Budget'), answered' \in Nat,
         answered' + NumberOf(domainFeed', "revertRequested") + (IF Reverting' THEN 1 ELSE 0)
           <= answered + NumberOf(domainFeed, "revertRequested")
  PROVE  TypeInvariant'
<1>1. OthersTyped'
  BY DEF TypeInvariant, OthersTyped
<1>2. HandledDiffs' >= HandledDiffs
  BY BudgetFacts DEF HandledDiffs
<1>3. HandledEnds' >= HandledEnds
  <2>1. Ended' = Ended
    BY DEF Ended
  <2>2. NumberOf(runtimeFeed', "turnCompleted") \in Nat
    BY NumberType
  <2> QED
    BY <2>1, <2>2, NumbersAreNat DEF HandledEnds
<1>4. /\ edits' \in 0..MaxEdits /\ ingestFeed' \in Seq(RuntimeEvents)
  BY <1>1 DEF OthersTyped
<1>5. /\ Budget' \in Nat /\ Budget <= Budget' /\ HandledDiffs' >= 0 /\ HandledEnds' >= 0
      /\ WithinBudget(Budget')
  BY <1>2, <1>3, <1>4, BudgetGrows
<1>6. domainFeed' \in Seq(DomainEventsUpTo(Budget'))
  <2>1. DomainEventsUpTo(Budget) \subseteq DomainEventsUpTo(Budget')
    BY <1>5, BudgetFacts, Wider
  <2> QED
    BY <2>1
<1>7. WithinBudget(Budget)'
  BY <1>5, <1>6 DEF WithinBudget
<1>8. ~Reverting
  BY NoJobStep DEF Reverting
<1>9. RevertsAreCounted'
  BY <1>8, NumbersAreNat, NumberType DEF TypeInvariant, RevertsAreCounted
<1> QED
  BY <1>1, <1>5, <1>7, <1>9 DEF TypeInvariant, CountsAreBudgeted

LEMMA TakeDomainFacts ==
  ASSUME TypeInvariant, NEW type, TakeDomain(type)
  PROVE  /\ job = NoJob
         /\ UNCHANGED <<phase, workspace, edits, session, activeTurn, checkpoints, table, refs,
                        ingestFeed, runtimeFeed, ingestJob>>
         /\ Head(domainFeed) \in DomainEventsUpTo(Budget) /\ Head(domainFeed).type = type
         /\ domainFeed' \in Seq(DomainEventsUpTo(Budget))
         /\ NumberOf(domainFeed', "revertRequested")
              = NumberOf(domainFeed, "revertRequested") - (IF type = "revertRequested" THEN 1 ELSE 0)
         /\ NumberOf(domainFeed', "revertRequested") \in Nat
         /\ Budget' = Budget /\ Budget \in Nat
<1>1. domainFeed \in Seq(DomainEventsUpTo(Budget)) /\ domainFeed # << >>
  BY NumbersAreNat DEF TakeDomain
<1>2. UNCHANGED <<phase, workspace, edits, session, activeTurn, checkpoints, table, refs,
                  ingestFeed, runtimeFeed, ingestJob>>
  BY DEF TakeDomain, provider, readModel
<1>3. domainFeed' = Tail(domainFeed) /\ Head(domainFeed).type = type /\ job = NoJob
  BY DEF TakeDomain
<1>4. /\ Head(domainFeed) \in DomainEventsUpTo(Budget)
      /\ domainFeed' \in Seq(DomainEventsUpTo(Budget))
  BY <1>1, <1>3
<1>5. NumberOf(domainFeed', "revertRequested")
        = NumberOf(domainFeed, "revertRequested") - (IF type = "revertRequested" THEN 1 ELSE 0)
  BY <1>1, <1>3, NumberTail
<1>6. NumberOf(domainFeed', "revertRequested") \in Nat
  BY <1>4, NumberType
<1>7. Budget' = Budget /\ Budget \in Nat
  BY <1>2, QuietStep
<1> QED
  BY <1>2, <1>3, <1>4, <1>5, <1>6, <1>7

LEMMA TakeRuntimeFacts ==
  ASSUME TypeInvariant, NEW type, TakeRuntime(type)
  PROVE  /\ job = NoJob
         /\ UNCHANGED <<phase, workspace, edits, session, activeTurn, checkpoints, table, refs,
                        ingestFeed, domainFeed, ingestJob>>
         /\ Head(runtimeFeed) \in RuntimeEvents /\ Head(runtimeFeed).type = type
         /\ runtimeFeed' \in Seq(RuntimeEvents)
         /\ NumberOf(runtimeFeed', "turnCompleted")
              = NumberOf(runtimeFeed, "turnCompleted") - (IF type = "turnCompleted" THEN 1 ELSE 0)
         /\ Budget' = Budget + (IF type = "turnCompleted" THEN 1 ELSE 0)
<1>1. runtimeFeed \in Seq(RuntimeEvents) /\ runtimeFeed # << >>
  BY NumbersAreNat DEF TakeRuntime
<1>2. UNCHANGED <<phase, workspace, edits, session, activeTurn, checkpoints, table, refs,
                  ingestFeed, domainFeed, ingestJob>>
  BY DEF TakeRuntime, provider, readModel
<1>3. runtimeFeed' = Tail(runtimeFeed) /\ Head(runtimeFeed).type = type /\ job = NoJob
  BY DEF TakeRuntime
<1>4. Head(runtimeFeed) \in RuntimeEvents /\ runtimeFeed' \in Seq(RuntimeEvents)
  BY <1>1, <1>3
<1>5. NumberOf(runtimeFeed', "turnCompleted")
        = NumberOf(runtimeFeed, "turnCompleted") - (IF type = "turnCompleted" THEN 1 ELSE 0)
  BY <1>1, <1>3, NumberTail
<1>6. HandledDiffs' = HandledDiffs
  BY <1>2 DEF HandledDiffs
<1>7. HandledEnds' = HandledEnds + (IF type = "turnCompleted" THEN 1 ELSE 0)
  BY <1>2, <1>5, NumbersAreNat DEF HandledEnds, Ended
<1>8. Budget' = Budget + (IF type = "turnCompleted" THEN 1 ELSE 0)
  BY <1>6, <1>7, BudgetFacts DEF Budget
<1> QED
  BY <1>2, <1>3, <1>4, <1>5, <1>8

LEMMA EnsureBaselineTypes ==
  ASSUME TypeInvariant, EnsureBaseline
  PROVE  TypeInvariant'
<1>1. job' = [step |-> "baseline", count |-> MaxTurnCount]
      /\ UNCHANGED <<asked, answered, torn, crashes>>
  BY DEF EnsureBaseline, BaselineJob, history
<1>2. ~Reverting'
  BY <1>1 DEF Reverting
<1>3. job' \in JobsUpTo(Budget)
  BY <1>1, BudgetFacts DEF JobsUpTo
<1>4. CASE TakeDomain("turnStartRequested")
  <2>1. NumberOf(domainFeed', "revertRequested") = NumberOf(domainFeed, "revertRequested")
    BY <1>4, TakeDomainFacts, NumbersAreNat
  <2>2. answered' + NumberOf(domainFeed', "revertRequested") + (IF Reverting' THEN 1 ELSE 0)
           <= answered + NumberOf(domainFeed, "revertRequested")
    BY <1>1, <1>2, <2>1, NumbersAreNat
  <2> QED
    BY <1>1, <1>3, <1>4, <2>2, TakeDomainFacts, NumbersAreNat, TakeStep
<1>5. CASE TakeRuntime("turnStarted")
  <2>1. /\ NumberOf(runtimeFeed', "turnCompleted") <= NumberOf(runtimeFeed, "turnCompleted")
        /\ Budget' = Budget
    BY <1>5, TakeRuntimeFacts, NumbersAreNat, BudgetFacts
  <2>2. answered' + NumberOf(domainFeed', "revertRequested") + (IF Reverting' THEN 1 ELSE 0)
           <= answered + NumberOf(domainFeed, "revertRequested")
    BY <1>1, <1>2, <1>5, TakeRuntimeFacts, NumbersAreNat
  <2> QED
    BY <1>1, <1>3, <1>5, <2>1, <2>2, TakeRuntimeFacts, NumbersAreNat, TakeStep
<1> QED
  BY <1>4, <1>5 DEF EnsureBaseline

LEMMA CaptureFromTurnCompletionTypes ==
  ASSUME TypeInvariant, CaptureFromTurnCompletion
  PROVE  TypeInvariant'
<1> DEFINE t == Head(runtimeFeed).turn
           status == Head(runtimeFeed).status
           count == IF checkpoints[t] # None THEN checkpoints[t].count ELSE MaxTurnCount + 1
<1>1. TakeRuntime("turnCompleted") /\ UNCHANGED <<asked, answered, torn, crashes>>
  BY DEF CaptureFromTurnCompletion, history
<1>2. job' = NoJob \/ job' = CaptureJob(t, count, status)
  BY DEF CaptureFromTurnCompletion
<1>3. t \in Turns /\ status \in Statuses
  BY <1>1, TakeRuntimeFacts DEF RuntimeEvents
<1>4. Budget' = Budget + 1 /\ Budget \in Nat /\ MaxTurnCount \in 0..Budget
  BY <1>1, TakeRuntimeFacts, BudgetFacts
<1>5. checkpoints[t] # None => checkpoints[t].count \in 0..Budget
  BY <1>3, JobFacts DEF CheckpointsUpTo
<1> HIDE DEF t, status
<1>6. count \in 0..Budget'
  BY <1>4, <1>5
<1> HIDE DEF count
<1>7. job' \in JobsUpTo(Budget') /\ ~Reverting'
  BY <1>2, <1>3, <1>6, NoJobStep DEF JobsUpTo, CaptureJob, Reverting
<1>8. NumberOf(runtimeFeed', "turnCompleted") <= NumberOf(runtimeFeed, "turnCompleted")
  BY <1>1, TakeRuntimeFacts, NumbersAreNat
<1>9. answered' + NumberOf(domainFeed', "revertRequested") + (IF Reverting' THEN 1 ELSE 0)
           <= answered + NumberOf(domainFeed, "revertRequested")
  BY <1>1, <1>7, TakeRuntimeFacts, NumbersAreNat
<1> QED
  BY <1>1, <1>7, <1>8, <1>9, TakeRuntimeFacts, NumbersAreNat, TakeStep

LEMMA CaptureFromPlaceholderTypes ==
  ASSUME TypeInvariant, CaptureFromPlaceholder
  PROVE  TypeInvariant'
<1> DEFINE e == Head(domainFeed)
<1>1. TakeDomain("turnDiffCompleted") /\ UNCHANGED <<asked, answered, torn, crashes>>
  BY DEF CaptureFromPlaceholder, history
<1>2. job' = NoJob \/ job' = CaptureJob(e.turn, e.count, "ready")
  BY DEF CaptureFromPlaceholder
<1>3. e.turn \in Turns /\ e.count \in 0..Budget
  BY <1>1, TakeDomainFacts DEF DomainEventsUpTo
<1> HIDE DEF e
<1>4. job' \in JobsUpTo(Budget) /\ ~Reverting'
  BY <1>2, <1>3, NoJobStep DEF JobsUpTo, CaptureJob, Reverting, Statuses
<1>5. NumberOf(domainFeed', "revertRequested") = NumberOf(domainFeed, "revertRequested")
  BY <1>1, TakeDomainFacts, NumbersAreNat
<1>6. answered' + NumberOf(domainFeed', "revertRequested") + (IF Reverting' THEN 1 ELSE 0)
           <= answered + NumberOf(domainFeed, "revertRequested")
  BY <1>1, <1>4, <1>5, NumbersAreNat
<1> QED
  BY <1>1, <1>4, <1>6, TakeDomainFacts, NumbersAreNat, TakeStep

LEMMA StartRevertTypes ==
  ASSUME TypeInvariant, StartRevert
  PROVE  TypeInvariant'
<1> DEFINE to == Head(domainFeed).to
           stale == {checkpoints[t].count :
                       t \in {u \in Known(checkpoints) :
                                checkpoints[u].count > to /\ checkpoints[u].git}}
<1>1. TakeDomain("revertRequested") /\ UNCHANGED <<asked, torn, crashes>>
  BY DEF StartRevert
<1>2. to \in Counts
  BY <1>1, TakeDomainFacts DEF DomainEventsUpTo
<1>3. stale \in SUBSET Counts
  BY JobFacts DEF Known, CheckpointsUpTo
<1>4. RevertTargets(to) \subseteq BOOLEAN
  BY JobFacts DEF RevertTargets, Known, CheckpointsUpTo
<1>5. \/ job' = NoJob /\ answered' = answered + 1
      \/ /\ \E git \in RevertTargets(to) :
              job' = [step |-> "restore", to |-> to, git |-> git, stale |-> stale]
         /\ answered' = answered
  BY DEF StartRevert, Reported
<1> HIDE DEF to, stale
<1>6. \/ job' = NoJob /\ answered' = answered + 1 /\ ~Reverting'
      \/ job' \in JobsUpTo(Budget) /\ answered' = answered
  BY <1>2, <1>3, <1>4, <1>5, NoJobStep DEF JobsUpTo, Reverting
<1>7. job' \in JobsUpTo(Budget) /\ answered' \in Nat
  BY <1>6, JobFacts
<1>8. NumberOf(domainFeed', "revertRequested") = NumberOf(domainFeed, "revertRequested") - 1
  BY <1>1, TakeDomainFacts
<1>9. answered' + NumberOf(domainFeed', "revertRequested") + (IF Reverting' THEN 1 ELSE 0)
           <= answered + NumberOf(domainFeed, "revertRequested")
  BY <1>6, <1>8, NumbersAreNat
<1> QED
  BY <1>1, <1>7, <1>9, TakeDomainFacts, NumbersAreNat, TakeStep

LEMMA CrashTypes ==
  ASSUME TypeInvariant, Crash
  PROVE  TypeInvariant'
<1> USE Bounds
<1>1. /\ ingestFeed' = << >> /\ runtimeFeed' = << >> /\ domainFeed' = << >>
      /\ ingestJob' = NoJob /\ job' = NoJob /\ session' = FALSE
      /\ UNCHANGED <<workspace, edits, activeTurn, checkpoints, table, asked, answered>>
  BY DEF Crash, readModel
<1>2. phase' \in [Turns -> {"new", "requested", "running", "ended"}] /\ Ended \subseteq Ended'
  BY DEF TypeInvariant, OthersTyped, Crash, Ended
<1>3. /\ NumberOf(ingestFeed', "diffUpdated") = 0 /\ NumberOf(runtimeFeed', "turnCompleted") = 0
      /\ NumberOf(domainFeed', "revertRequested") = 0
  BY <1>1, NumberEmpty
<1>4. refs' \in [Counts -> 0..MaxEdits \cup {None}] /\ torn' \subseteq Counts
  BY BreakOffTypes DEF Crash
<1>5. OthersTyped'
  <2>1. crashes' \in 0..MaxCrashes
    BY DEF TypeInvariant, OthersTyped, Crash
  <2>2. ingestFeed' \in Seq(RuntimeEvents) /\ runtimeFeed' \in Seq(RuntimeEvents)
    BY <1>1
  <2> QED
    BY <1>1, <1>2, <1>4, <2>1, <2>2 DEF TypeInvariant, OthersTyped
<1>6. HandledDiffs' >= HandledDiffs
  BY <1>1, <1>3, NumbersAreNat DEF HandledDiffs
<1>7. Cardinality(Ended) <= Cardinality(Ended')
  <2>1. IsFiniteSet(Ended')
    BY EndedNumber DEF Ended
  <2> QED
    BY <1>2, <2>1, FS_Subset
<1>8. HandledEnds' >= HandledEnds
  <2>1. Cardinality(Ended') \in Nat
    BY EndedNumber DEF Ended
  <2> QED
    BY <1>3, <1>7, <2>1, NumbersAreNat DEF HandledEnds
<1>9. /\ HandledDiffs' >= 0 /\ HandledEnds' >= 0 /\ WithinBudget(Budget')
  <2>1. /\ edits' \in 0..MaxEdits
        /\ ingestFeed' \in Seq(RuntimeEvents) /\ runtimeFeed' \in Seq(RuntimeEvents)
    BY <1>5 DEF OthersTyped
  <2> QED
    BY <1>6, <1>8, <2>1, BudgetGrows
<1>10. WithinBudget(Budget)'
  BY <1>1, <1>9 DEF WithinBudget, PlaceholdersUpTo, JobsUpTo
<1>11. RevertsAreCounted'
  <2>1. answered + NumberOf(domainFeed, "revertRequested") + (IF Reverting THEN 1 ELSE 0) <= asked
    BY DEF TypeInvariant, RevertsAreCounted
  <2>2. ~Reverting'
    BY <1>1, NoJobStep DEF Reverting
  <2> QED
    BY <1>1, <1>3, <2>1, <2>2, NumbersAreNat DEF RevertsAreCounted
<1> QED
  BY <1>5, <1>9, <1>10, <1>11 DEF TypeInvariant, CountsAreBudgeted

LEMMA StutterTypes ==
  ASSUME TypeInvariant, UNCHANGED vars
  PROVE  TypeInvariant'
<1>1. OthersTyped' /\ HandledDiffs' >= HandledDiffs /\ HandledEnds' >= HandledEnds
  BY BudgetFacts DEF TypeInvariant, OthersTyped, HandledDiffs, HandledEnds, Ended, vars
<1> QED
  BY <1>1, FeedStep DEF vars

LEMMA NextTypes == TypeInvariant /\ [Next]_vars => TypeInvariant'
<1> SUFFICES ASSUME TypeInvariant, [Next]_vars PROVE TypeInvariant'
  OBVIOUS
<1>1. CASE Provider
  BY <1>1, BindSessionTypes, RequestTurnTypes, StartTurnTypes, EditTypes, EndTurnTypes
     DEF Provider
<1>2. CASE \E to \in Counts : RequestRevert(to)
  BY <1>2, RequestRevertTypes
<1>3. CASE Ingestion
  BY <1>3, IngestLifecycleTypes, IngestDiffTypes, DispatchPlaceholderTypes,
     PlaceholderFailsTypes DEF Ingestion
<1>4. CASE TakeEvent
  BY <1>4, EnsureBaselineTypes, CaptureFromTurnCompletionTypes, CaptureFromPlaceholderTypes,
     StartRevertTypes DEF TakeEvent
<1>5. CASE Progress
  BY <1>5, CaptureBaselineTypes, CaptureCheckpointTypes, CompleteCaptureTypes,
     RestoreFilesTypes, RollbackTypes, DeleteStaleRefsTypes, CompleteRevertTypes DEF Progress
<1>6. CASE CaptureFails \/ RevertFails \/ Crash
  BY <1>6, CaptureFailsTypes, RevertFailsTypes, CrashTypes
<1>7. CASE UNCHANGED vars
  BY <1>7, StutterTypes
<1> QED
  BY <1>1, <1>2, <1>3, <1>4, <1>5, <1>6, <1>7 DEF Next, Reactor

LEMMA TypeInvariantHolds == Spec => []TypeInvariant
BY InitTypes, NextTypes, PTL DEF Spec

LEMMA BudgetedTypes == TypeInvariant => TypeOK
<1> SUFFICES ASSUME TypeInvariant PROVE TypeOK
  OBVIOUS
<1>1. 0..Budget \subseteq Counts
  BY JobFacts
<1>2. CheckpointsUpTo(Budget) \subseteq Checkpoint \cup {None}
  BY <1>1 DEF CheckpointsUpTo, Checkpoint
<1>3. PlaceholdersUpTo(Budget)
        \subseteq {NoJob} \cup [step : {"placeholder"}, turn : Turns, count : Counts]
  BY <1>1 DEF PlaceholdersUpTo
<1>4. JobsUpTo(Budget) \subseteq Jobs
  BY <1>1 DEF JobsUpTo, Jobs
<1>5. DomainEventsUpTo(Budget) \subseteq DomainEvents
  BY <1>1 DEF DomainEventsUpTo, DomainEvents
<1>6. domainFeed \in Seq(DomainEvents)
  BY <1>5, NumbersAreNat
<1>7. answered \in 0..asked
  BY NumbersAreNat DEF TypeInvariant, RevertsAreCounted
<1>8. /\ checkpoints \in [Turns -> Checkpoint \cup {None}]
      /\ table \in [Turns -> Checkpoint \cup {None}]
      /\ ingestJob \in {NoJob} \cup [step : {"placeholder"}, turn : Turns, count : Counts]
      /\ job \in Jobs
  BY <1>2, <1>3, <1>4, JobFacts
<1> QED
  BY <1>6, <1>7, <1>8 DEF TypeInvariant, OthersTyped, TypeOK

(* However many turns, edits, reverts and crashes there are, every variable *)
(* keeps its type: a turn count is never larger than the number of diffs    *)
(* and ends of turns handled, so the counts the reactor names refs with     *)
(* stay bounded, and no revert is answered twice or before it was asked.    *)
THEOREM CheckpointTypes == Spec => []TypeOK
BY TypeInvariantHolds, BudgetedTypes, PTL

-----------------------------------------------------------------------------
(* Captures and their refs *)

LEMMA CheckpointFields ==
  ASSUME TypeInvariant, NEW t \in Turns, NEW cp \in {checkpoints[t], table[t]} \ {None}
  PROVE  cp \in [count : Counts, status : Statuses, git : BOOLEAN]
<1>1. checkpoints[t] \in CheckpointsUpTo(Budget) /\ table[t] \in CheckpointsUpTo(Budget)
  BY JobFacts
<1>2. cp \in [count : 0..Budget, status : Statuses, git : BOOLEAN]
  BY <1>1 DEF CheckpointsUpTo
<1>3. cp.count \in Counts
  BY <1>2, JobFacts
<1> QED
  BY <1>2, <1>3

(* A step that leaves the projections and the refs alone.                  *)
LEMMA NoRefStep ==
  ASSUME TypeInvariant, RefInvariant, UNCHANGED <<checkpoints, table, refs, torn>>,
         \/ UNCHANGED job
         \/ /\ job.step # "revert" /\ job'.step # "complete"
            /\ Reverting' => \A c \in job'.stale : c > job'.to
  PROVE  RefInvariant'
BY DEF RefInvariant, CapturesHaveRefs, CaptureIsWritten, StaleIsBeyond, Reverting, IsReal

LEMMA WorkersKeepRefs ==
  ASSUME TypeInvariant, RefInvariant,
         Provider \/ (\E to \in Counts : RequestRevert(to)) \/ IngestTurnStarted
           \/ IngestTurnCompleted \/ IngestDiffUpdated \/ PlaceholderFails
           \/ UNCHANGED vars
  PROVE  RefInvariant'
<1>1. UNCHANGED <<checkpoints, table, refs, torn, job>>
  BY DEF Provider, BindSession, RequestTurn, StartTurn, EditAndReportDiff, EndTurn,
         RequestRevert, IngestTurnStarted, IngestTurnCompleted, IngestDiffUpdated,
         PlaceholderFails, readModel, history, vars
<1> QED
  BY <1>1, NoRefStep

LEMMA TakeKeepsRefs ==
  ASSUME TypeInvariant, RefInvariant, TakeEvent
  PROVE  RefInvariant'
<1>1. UNCHANGED <<checkpoints, table, refs, torn>> /\ job = NoJob
  BY DEF TakeEvent, EnsureBaseline, CaptureFromTurnCompletion, CaptureFromPlaceholder,
         StartRevert, TakeDomain, TakeRuntime, readModel, history
<1>2. job'.step # "complete" /\ (Reverting' => \A c \in job'.stale : c > job'.to)
  <2>1. CASE EnsureBaseline
    BY <2>1 DEF EnsureBaseline, BaselineJob, Reverting
  <2>2. CASE CaptureFromTurnCompletion \/ CaptureFromPlaceholder
    <3>1. job' = NoJob \/ \E t, count, status : job' = CaptureJob(t, count, status)
      BY <2>2 DEF CaptureFromTurnCompletion, CaptureFromPlaceholder
    <3> QED
      BY <3>1 DEF NoJob, CaptureJob, Reverting
  <2>3. CASE StartRevert
    <3> DEFINE to == Head(domainFeed).to
               stale == {checkpoints[t].count :
                           t \in {u \in Known(checkpoints) :
                                    checkpoints[u].count > to /\ checkpoints[u].git}}
    <3>1. \/ job' = NoJob
          \/ \E git \in RevertTargets(to) :
               job' = [step |-> "restore", to |-> to, git |-> git, stale |-> stale]
      BY <2>3 DEF StartRevert
    <3>2. \A c \in stale : c > to
      OBVIOUS
    <3> HIDE DEF to, stale
    <3> QED
      BY <3>1, <3>2 DEF NoJob, Reverting
  <2> QED
    BY <2>1, <2>2, <2>3 DEF TakeEvent
<1> QED
  BY <1>1, <1>2, NoJobStep, NoRefStep

(* A projected checkpoint that is not the new one was there before.        *)
LEMMA ProjectedCheckpoint ==
  ASSUME TypeInvariant, NEW t \in Turns, NEW cp, DispatchDiffComplete(t, cp),
         NEW u \in Turns, NEW q \in {checkpoints'[u], table'[u]} \ {None}
  PROVE  q = cp \/ q \in {checkpoints[u], table[u]} \ {None}
BY JobFacts DEF DispatchDiffComplete, ProjectCheckpoint, RecordCheckpoint

LEMMA DispatchPlaceholderKeepsRefs ==
  ASSUME TypeInvariant, RefInvariant, DispatchPlaceholder
  PROVE  RefInvariant'
<1> DEFINE cp == [count |-> ingestJob.count, status |-> "missing", git |-> FALSE]
<1>1. UNCHANGED <<refs, torn, job>> /\ DispatchDiffComplete(ingestJob.turn, cp)
  BY DEF DispatchPlaceholder, history
<1>2. ingestJob.turn \in Turns
  BY JobFacts, NoJobStep DEF DispatchPlaceholder, PlaceholdersUpTo
<1>3. ~IsReal(cp)
  BY DEF IsReal
<1> HIDE DEF cp
<1>4. ASSUME NEW u \in Turns, NEW q \in {checkpoints'[u], table'[u]} \ {None}, IsReal(q)
      PROVE  q \in {checkpoints[u], table[u]} \ {None}
  BY <1>1, <1>2, <1>3, <1>4, ProjectedCheckpoint
<1>5. CapturesHaveRefs'
  BY <1>1, <1>4 DEF RefInvariant, CapturesHaveRefs, IsReal
<1> QED
  BY <1>1, <1>5 DEF RefInvariant, CaptureIsWritten, StaleIsBeyond, Reverting

LEMMA CompleteCaptureKeepsRefs ==
  ASSUME TypeInvariant, RefInvariant, CompleteCapture
  PROVE  RefInvariant'
<1> DEFINE cp == [count |-> job.count, status |-> job.status, git |-> TRUE]
<1>1. UNCHANGED <<refs, torn>> /\ DispatchDiffComplete(job.turn, cp) /\ job' = NoJob
  BY DEF CompleteCapture, history
<1>2. job.turn \in Turns /\ job.step # "revert"
  BY JobFields DEF CompleteCapture
<1>3. refs[cp.count] # None
  BY DEF RefInvariant, CaptureIsWritten, CompleteCapture
<1> HIDE DEF cp
<1>4. ASSUME NEW u \in Turns, NEW q \in {checkpoints'[u], table'[u]} \ {None}
      PROVE  q = cp \/ q \in {checkpoints[u], table[u]} \ {None}
  BY <1>1, <1>2, ProjectedCheckpoint
<1>5. CapturesHaveRefs'
  BY <1>1, <1>2, <1>3, <1>4 DEF RefInvariant, CapturesHaveRefs, IsReal
<1> QED
  BY <1>1, <1>5, NoJobStep DEF RefInvariant, CaptureIsWritten, StaleIsBeyond, Reverting

LEMMA CapturesWriteRefs ==
  ASSUME TypeInvariant, RefInvariant, CaptureBaseline \/ CaptureCheckpoint
  PROVE  RefInvariant'
<1>1. job.count \in Counts /\ workspace # None
  BY JobFields, JobFacts, Bounds DEF CaptureBaseline, CaptureCheckpoint
<1>2. /\ \A c \in Counts : refs[c] # None => refs'[c] # None
      /\ refs'[job.count] # None /\ torn' = torn \ {job.count}
  BY <1>1, JobFacts DEF CaptureBaseline, CaptureCheckpoint
<1>3. UNCHANGED <<checkpoints, table>> /\ job.step # "revert"
  BY DEF CaptureBaseline, CaptureCheckpoint, EndJob, readModel
<1>4. CapturesHaveRefs'
  <2> SUFFICES ASSUME NEW t \in Turns, NEW cp \in {checkpoints[t], table[t]} \ {None}, IsReal(cp)
               PROVE  refs'[cp.count] # None \/ cp.count \in torn'
    BY <1>3 DEF CapturesHaveRefs, IsReal
  <2>1. refs[cp.count] # None \/ cp.count \in torn
    BY <1>3 DEF RefInvariant, CapturesHaveRefs
  <2>2. cp.count \in Counts
    BY CheckpointFields
  <2> QED
    BY <1>2, <2>1, <2>2
<1>5. /\ ~Reverting'
      /\ job'.step = "complete" => job'.count = job.count
  <2>1. CASE CaptureBaseline
    BY <2>1, NoJobStep DEF CaptureBaseline, EndJob, Reverting
  <2>2. CASE CaptureCheckpoint
    BY <2>2, JobFacts, NoJobStep DEF CaptureCheckpoint, JobsUpTo, Reverting
  <2> QED
    BY <2>1, <2>2
<1> QED
  BY <1>2, <1>4, <1>5 DEF RefInvariant, CaptureIsWritten, StaleIsBeyond

LEMMA RevertKeepsRefs ==
  ASSUME TypeInvariant, RefInvariant, RestoreFiles \/ RollbackConversation \/ CaptureFails
  PROVE  RefInvariant'
<1>1. UNCHANGED <<checkpoints, table, refs, torn>> /\ job.step # "revert"
  BY DEF RestoreFiles, RollbackConversation, CaptureFails, EndJob, readModel, history
<1>2. \/ job' = NoJob
      \/ /\ Reverting
         /\ job' = [job EXCEPT !.step = "rollback"] \/ job' = [job EXCEPT !.step = "deleteRefs"]
  BY DEF RestoreFiles, RollbackConversation, CaptureFails, EndJob, Reverting
<1>3. CASE job' = NoJob
  BY <1>1, <1>3, NoJobStep, NoRefStep DEF Reverting
<1>4. CASE Reverting /\ job' # NoJob
  <2>1. job'.step # "complete" /\ job'.stale = job.stale /\ job'.to = job.to
    BY <1>2, <1>4, RevertingJob
  <2>2. \A c \in job.stale : c > job.to
    BY <1>4 DEF RefInvariant, StaleIsBeyond
  <2> QED
    BY <1>1, <2>1, <2>2, NoRefStep
<1> QED
  BY <1>2, <1>3, <1>4

LEMMA DeleteKeepsRefs ==
  ASSUME TypeInvariant, RefInvariant, DeleteStaleRefs
  PROVE  RefInvariant'
<1>1. /\ UNCHANGED <<checkpoints, table, torn>> /\ Reverting
      /\ refs' = [c \in Counts |-> IF c \in job.stale THEN None ELSE refs[c]]
      /\ job.step = "deleteRefs"
  BY DEF DeleteStaleRefs, readModel, history, Reverting
<1>2. job'.step = "revert" /\ job'.stale = job.stale /\ job'.to = job.to
  BY <1>1, RevertingJob DEF DeleteStaleRefs
<1>3. CapturesHaveRefs'
  <2> SUFFICES ASSUME NEW t \in Turns, NEW cp \in {checkpoints[t], table[t]} \ {None}, IsReal(cp)
               PROVE  refs'[cp.count] # None \/ cp.count \in job'.stale \/ cp.count \in torn'
    BY <1>1, <1>2 DEF CapturesHaveRefs, IsReal
  <2>1. refs[cp.count] # None \/ cp.count \in torn
    BY <1>1 DEF RefInvariant, CapturesHaveRefs
  <2>2. cp.count \in Counts
    BY CheckpointFields
  <2> QED
    BY <1>1, <1>2, <2>1, <2>2
<1> QED
  BY <1>1, <1>2, <1>3 DEF RefInvariant, CaptureIsWritten, StaleIsBeyond, Reverting

(* What the revert drops from the projections is what it deleted the refs  *)
(* of, or more: nothing that stays lies beyond the target.                 *)
LEMMA CompleteRevertKeepsRefs ==
  ASSUME TypeInvariant, RefInvariant, CompleteRevert
  PROVE  RefInvariant'
<1>1. /\ UNCHANGED <<refs, torn>> /\ job' = NoJob /\ job.step = "revert" /\ Reverting
      /\ checkpoints' = Retained(checkpoints, job.to) /\ table' = Retained(table, job.to)
  BY DEF CompleteRevert, Reverting
<1>2. CapturesHaveRefs'
  <2> SUFFICES ASSUME NEW t \in Turns, NEW cp \in {checkpoints'[t], table'[t]} \ {None}, IsReal(cp)
               PROVE  refs[cp.count] # None \/ cp.count \in torn
    BY <1>1 DEF CapturesHaveRefs, IsReal
  <2>1. cp \in {checkpoints[t], table[t]} \ {None} /\ cp.count <= job.to
    BY <1>1 DEF Retained
  <2>2. refs[cp.count] # None \/ cp.count \in job.stale \/ cp.count \in torn
    BY <1>1, <2>1 DEF RefInvariant, CapturesHaveRefs
  <2>3. cp.count \in Nat /\ job.to \in Nat
    BY <1>1, <2>1, CheckpointFields, JobFields, BudgetFacts
  <2>4. cp.count \notin job.stale
    BY <1>1, <2>1, <2>3 DEF RefInvariant, StaleIsBeyond
  <2> QED
    BY <2>2, <2>4
<1> QED
  BY <1>1, <1>2, NoJobStep DEF RefInvariant, CaptureIsWritten, StaleIsBeyond, Reverting

LEMMA BreakOffKeepsRefs ==
  ASSUME TypeInvariant, RefInvariant, BreakOff, UNCHANGED <<checkpoints, table>>, job' = NoJob
  PROVE  RefInvariant'
<1>1. ASSUME NEW c \in Counts,
             refs[c] # None \/ (job.step = "revert" /\ c \in job.stale) \/ c \in torn
      PROVE  refs'[c] # None \/ c \in torn'
  BY <1>1 DEF BreakOff
<1>2. CapturesHaveRefs'
  <2> SUFFICES ASSUME NEW t \in Turns, NEW cp \in {checkpoints[t], table[t]} \ {None}, IsReal(cp)
               PROVE  refs'[cp.count] # None \/ cp.count \in torn'
    BY DEF CapturesHaveRefs, IsReal
  <2>1. cp.count \in Counts
    BY CheckpointFields
  <2> QED
    BY <1>1, <2>1 DEF RefInvariant, CapturesHaveRefs
<1> QED
  BY <1>2, NoJobStep DEF RefInvariant, CaptureIsWritten, StaleIsBeyond, Reverting

LEMMA NextRefs == TypeInvariant /\ RefInvariant /\ [Next]_vars => RefInvariant'
<1> SUFFICES ASSUME TypeInvariant, RefInvariant, [Next]_vars PROVE RefInvariant'
  OBVIOUS
<1>1. CASE Provider \/ (\E to \in Counts : RequestRevert(to)) \/ UNCHANGED vars
  BY <1>1, WorkersKeepRefs
<1>2. CASE Ingestion
  BY <1>2, WorkersKeepRefs, DispatchPlaceholderKeepsRefs DEF Ingestion
<1>3. CASE TakeEvent
  BY <1>3, TakeKeepsRefs
<1>4. CASE Progress
  BY <1>4, CapturesWriteRefs, CompleteCaptureKeepsRefs, RevertKeepsRefs, DeleteKeepsRefs,
     CompleteRevertKeepsRefs DEF Progress
<1>5. CASE CaptureFails
  BY <1>5, RevertKeepsRefs
<1>6. CASE RevertFails \/ Crash
  BY <1>6, BreakOffKeepsRefs DEF RevertFails, Crash, EndJob, readModel
<1> QED
  BY <1>1, <1>2, <1>3, <1>4, <1>5, <1>6 DEF Next, Reactor

LEMMA InitRefs == Init => RefInvariant
BY NoJobStep
   DEF Init, RefInvariant, CapturesHaveRefs, CaptureIsWritten, StaleIsBeyond, Reverting

(* A checkpoint either projection tells as captured has its git ref, unless *)
(* a revert has just deleted it on its way to dropping the checkpoint or   *)
(* was broken off there: for any number of turns, edits, reverts, crashes  *)
(* and failing git calls, in any interleaving of the two workers.          *)
THEOREM CapturedRefs == Spec => []CapturesHaveRefs
<1>1. RefInvariant => CapturesHaveRefs
  BY DEF RefInvariant
<1> QED
  BY <1>1, InitRefs, NextRefs, TypeInvariantHolds, PTL DEF Spec

LEMMA CaptureStays ==
  ASSUME TypeInvariant, [Next]_vars, NEW t \in Turns, IsReal(checkpoints[t])
  PROVE  IsReal(checkpoints'[t]) \/ checkpoints'[t] = None
<1>1. CASE UNCHANGED checkpoints
  BY <1>1 DEF IsReal
<1>2. CASE \E u \in Turns : \E cp : DispatchDiffComplete(u, cp)
  BY <1>2, JobFacts DEF DispatchDiffComplete, ProjectCheckpoint, IsReal
<1>3. CASE CompleteRevert
  BY <1>3 DEF CompleteRevert, Retained, IsReal
<1>4. CASE DispatchPlaceholder
  BY <1>2, <1>4, JobFacts, NoJobStep DEF DispatchPlaceholder, PlaceholdersUpTo
<1>5. CASE CompleteCapture
  BY <1>2, <1>5, JobFields DEF CompleteCapture
<1>6. CASE Ingestion
  BY <1>1, <1>4, <1>6 DEF Ingestion, IngestTurnStarted, IngestTurnCompleted, IngestDiffUpdated,
         PlaceholderFails, readModel
<1>7. CASE Provider \/ (\E to \in Counts : RequestRevert(to)) \/ Crash \/ UNCHANGED vars
  BY <1>1, <1>7 DEF Provider, BindSession, RequestTurn, StartTurn, EditAndReportDiff, EndTurn,
         RequestRevert, Crash, readModel, vars
<1>8. CASE Reactor
  BY <1>1, <1>3, <1>5, <1>8
     DEF Reactor, TakeEvent, EnsureBaseline, CaptureFromTurnCompletion, CaptureFromPlaceholder,
         StartRevert, TakeDomain, TakeRuntime, Progress, CaptureBaseline, CaptureCheckpoint,
         RestoreFiles, RollbackConversation, DeleteStaleRefs, CaptureFails, RevertFails,
         EndJob, readModel
<1> QED
  BY <1>6, <1>7, <1>8 DEF Next

(* However late a placeholder arrives, the read model never takes a capture *)
(* back: only a revert drops it.                                           *)
THEOREM CapturesStay == Spec => CaptureIsNotTakenBack
<1>1. TypeInvariant /\ [Next]_vars =>
        [\A t \in Turns :
           IsReal(checkpoints[t]) => IsReal(checkpoints'[t]) \/ checkpoints'[t] = None]_vars
  BY CaptureStays
<1> QED
  BY <1>1, TypeInvariantHolds, PTL DEF Spec, CaptureIsNotTakenBack
=============================================================================
