------------------------- MODULE AssistantTextProofs -------------------------
(***************************************************************************)
(* No piece of a message's text is told twice or missed, and the end of a  *)
(* turn settles what the turn began, for any number of messages, turns and *)
(* events, whatever the caches drop and whichever dispatch fails.  The     *)
(* inductive invariant relates the four places of a text (the feed, the    *)
(* step in hand, the buffer, the thread), says in which order the          *)
(* provider's events come and which steps of the worker may follow which.  *)
(***************************************************************************)
EXTENDS AssistantText, FiniteSetTheorems, SequenceTheorems, TLAPS

-----------------------------------------------------------------------------
(* Texts and lists of steps *)

LEMMA Bounds == BufferLimit \in Nat /\ MaxFeed \in Nat /\ MaxSwitches \in Nat
BY BoundsAssumption

LEMMA UpToType ==
  ASSUME NEW n \in Nat
  PROVE  UpTo(n) \in Texts
BY DEF UpTo, Texts

LEMMA AppendText ==
  ASSUME NEW s \in Texts, NEW n \in Nat \ {0}
  PROVE  /\ Append(s, n) \in Texts /\ <<n>> \in Texts /\ <<>> \in Texts
         /\ Len(<<>>) = 0
BY DEF Texts

LEMMA EmptyLists == <<>> \in Texts /\ Len(<<>>) = 0 /\ <<>> \in Seq(Steps)
BY DEF Texts

LEMMA JoinTexts ==
  ASSUME NEW s \in Texts, NEW u \in Texts
  PROVE  s \o u \in Texts /\ FinalText(s, u) \in Texts
BY DEF Texts, FinalText

LEMMA StepTypes ==
  ASSUME NEW m \in Messages, NEW t \in Turns, NEW s \in Texts
  PROVE  /\ Deliver(m, s) \in Steps /\ Finalize(m, s) \in Steps
         /\ Complete(m) \in Steps /\ Forget(m) \in Steps
         /\ SetSession(t) \in Steps /\ ClearIds(t) \in Steps
         /\ FinalizePlan(t, s) \in Steps /\ Upsert(t, s) \in Steps /\ ClearState \in Steps
<1>1. Deliver(m, s) \in Steps /\ Finalize(m, s) \in Steps
  BY DEF Deliver, Finalize, Steps
<1>2. Complete(m) \in Steps /\ Forget(m) \in Steps
  BY DEF Complete, Forget, Steps
<1>3. SetSession(t) \in Steps /\ ClearIds(t) \in Steps
  BY DEF SetSession, ClearIds, Steps
<1>4. FinalizePlan(t, s) \in Steps /\ Upsert(t, s) \in Steps
  BY DEF FinalizePlan, Upsert, Steps
<1>5. ClearState \in Steps
  BY DEF ClearState, Steps
<1> QED
  BY <1>1, <1>2, <1>3, <1>4, <1>5

LEMMA ShortLists ==
  ASSUME NEW a \in Steps, NEW b \in Steps, NEW rest \in Seq(Steps)
  PROVE  /\ <<>> \in Seq(Steps) /\ <<a>> \in Seq(Steps) /\ <<a, b>> \in Seq(Steps)
         /\ <<a>> \o rest \in Seq(Steps) /\ <<>> \o <<a>> \o rest \in Seq(Steps)
         /\ <<a>> \o <<b>> \o rest \in Seq(Steps) /\ <<>> \o rest \in Seq(Steps)
<1>1. <<>> \in Seq(Steps) /\ <<a>> \in Seq(Steps) /\ <<b>> \in Seq(Steps) /\ <<a, b>> \in Seq(Steps)
  OBVIOUS
<1>2. \A s, u \in Seq(Steps) : s \o u \in Seq(Steps)
  OBVIOUS
<1> QED
  BY <1>1, <1>2

LEMMA SetToSeqType ==
  ASSUME NEW S, S \subseteq Steps, IsFiniteSet(S)
  PROVE  SetToSeq(S) \in Seq(Steps)
<1>1. Cardinality(S) \in Nat /\ ExistsBijection(1..Cardinality(S), S)
  BY FS_CardinalityType
<1>2. PICK f \in [1..Cardinality(S) -> S] : IsInjective(f)
  BY <1>1 DEF ExistsBijection, Bijection, Injection, IsInjective
<1>3. SetToSeq(S) \in [1..Cardinality(S) -> S]
  BY <1>2 DEF SetToSeq
<1> QED
  BY <1>1, <1>3

LEMMA TurnWorkType ==
  ASSUME NEW t \in Turns, WorkerTyped
  PROVE  TurnWork(t) \in Seq(Steps)
<1> DEFINE ms == remembered[t]
           S == {Finalize(m, <<>>) : m \in ms}
           f == [m \in ms |-> Finalize(m, <<>>)]
<1>1. ms \subseteq Messages /\ <<>> \in Texts
  BY DEF WorkerTyped, Texts
<1>2. IsFiniteSet(ms)
  BY <1>1, MessagesAssumption, FS_Subset
<1>3. f \in Surjection(ms, S)
  BY DEF Surjection
<1>4. IsFiniteSet(S)
  BY <1>2, <1>3, FS_Surjection
<1>5. S \subseteq Steps
  BY <1>1, StepTypes
<1>6. SetToSeq(S) \in Seq(Steps)
  BY <1>4, <1>5, SetToSeqType
<1>7. <<SetSession(t)>> \in Seq(Steps) /\ <<ClearIds(t), FinalizePlan(t, <<>>)>> \in Seq(Steps)
  <2>1. SetSession(t) \in Steps /\ ClearIds(t) \in Steps /\ FinalizePlan(t, <<>>) \in Steps
    BY <1>1, StepTypes DEF SetSession, ClearIds, FinalizePlan, Steps
  <2> QED
    BY <2>1
<1> HIDE DEF S, f, ms
<1>8. \A s, u \in Seq(Steps) : s \o u \in Seq(Steps)
  OBVIOUS
<1> QED
  BY <1>6, <1>7, <1>8 DEF TurnWork, S, ms

-----------------------------------------------------------------------------
(* What the worker takes, and what it does next *)

LEMMA FeedHead ==
  ASSUME feed \in Seq(Inputs), feed # <<>>
  PROVE  /\ Tail(feed) \in Seq(Inputs)
         /\ Head(feed).type = "content.delta" => Head(feed).m \in Messages /\ Head(feed).n \in Nat \ {0}
         /\ Head(feed).type = "item.completed" => Head(feed).m \in Messages /\ Head(feed).detail \in Texts
         /\ Head(feed).type = "turn.proposed.delta" => Head(feed).t \in Turns /\ Head(feed).n \in Nat \ {0}
         /\ Head(feed).type = "turn.proposed.completed"
              => Head(feed).t \in Turns /\ Head(feed).markdown \in Texts
         /\ Head(feed).type \in {"turn.completed", "session.exited"} => Head(feed).t \in Turns
<1>1. Head(feed) \in Inputs /\ Tail(feed) \in Seq(Inputs)
  OBVIOUS
<1> QED
  BY <1>1 DEF Inputs

LEMMA WorkHead ==
  ASSUME work \in Seq(Steps), work # <<>>
  PROVE  /\ Tail(work) \in Seq(Steps)
         /\ Head(work).op \in {"delta", "finalize"} => Head(work).m \in Messages /\ Head(work).text \in Texts
         /\ Head(work).op \in {"complete", "forget"} => Head(work).m \in Messages
         /\ Head(work).op \in {"finalizePlan", "upsert"}
              => Head(work).t \in Turns /\ Head(work).text \in Texts
         /\ Head(work).op \in {"session", "clear"} => Head(work).t \in Turns
<1>1. Head(work) \in Steps /\ Tail(work) \in Seq(Steps)
  OBVIOUS
<1> QED
  BY <1>1 DEF Steps

LEMMA EmitType ==
  ASSUME WorkerTyped, NEW e \in Inputs, Emit(e)
  PROVE  WorkerTyped'
<1>1. feed' \in Seq(Inputs)
  BY DEF Emit, WorkerTyped
<1> QED
  BY <1>1 DEF Emit, WorkerTyped

-----------------------------------------------------------------------------
(* One step *)

LEMMA Frames ==
  /\ ProviderTyped /\ UNCHANGED <<said, planned, exited, streaming, switches>> => ProviderTyped'
  /\ WorkerTyped /\ UNCHANGED <<feed, work, buffer, planBuffer, remembered>> => WorkerTyped'
  /\ ThreadTyped /\ UNCHANGED <<text, plan, shown>> => ThreadTyped'
  /\ CachesBounded /\ UNCHANGED <<buffer, remembered>> => CachesBounded'
BY DEF ProviderTyped, WorkerTyped, ThreadTyped, CachesBounded

LEMMA InitTypes == Init => TypeOK
<1> SUFFICES ASSUME Init PROVE TypeOK
  OBVIOUS
<1>1. <<>> \in Texts /\ <<>> \in Seq(Inputs) /\ <<>> \in Seq(Steps) /\ Len(<<>>) = 0
  BY DEF Texts
<1>2. ProviderTyped
  BY DEF Init, ProviderTyped
<1>3. WorkerTyped
  BY <1>1 DEF Init, WorkerTyped
<1>4. ThreadTyped
  BY <1>1 DEF Init, ThreadTyped
<1>5. CachesBounded
  BY <1>1, Bounds DEF Init, CachesBounded
<1> QED
  BY <1>2, <1>3, <1>4, <1>5 DEF TypeOK

LEMMA NextTypes == TypeOK /\ [Next]_vars => TypeOK'
<1> SUFFICES ASSUME TypeOK, [Next]_vars
             PROVE  TypeOK'
  OBVIOUS
<1> USE DEF providerVars, settingVars, threadVars
<1>1. ASSUME NEW m \in Messages, SayDelta(m)
      PROVE  TypeOK'
  <2>1. ProviderTyped'
    BY <1>1 DEF SayDelta, Emit, TypeOK, ProviderTyped
  <2>2. WorkerTyped'
    <3>1. PICK e \in Inputs : Emit(e)
      BY <1>1 DEF SayDelta, Inputs, TypeOK, ProviderTyped
    <3> QED
      BY <3>1, EmitType DEF TypeOK
  <2> QED
    BY <1>1, <2>1, <2>2, Frames DEF SayDelta, Emit, TypeOK
<1>2. ASSUME NEW m \in Messages, CompleteItem(m)
      PROVE  TypeOK'
  <2>1. ProviderTyped'
    <3>1. PICK detail \in BOOLEAN : said' = [said EXCEPT ![m] = IF detail /\ @ = 0 THEN 1 ELSE @]
      BY <1>2 DEF CompleteItem
    <3>2. said' \in [Messages -> Nat]
      BY <3>1 DEF TypeOK, ProviderTyped
    <3> QED
      BY <1>2, <3>2 DEF CompleteItem, Emit, TypeOK, ProviderTyped
  <2>2. WorkerTyped'
    <3>1. PICK detail \in BOOLEAN :
            Emit([type |-> "item.completed", m |-> m, detail |-> IF detail THEN UpTo(said'[m]) ELSE <<>>])
      BY <1>2 DEF CompleteItem
    <3> DEFINE s == IF detail THEN UpTo(said'[m]) ELSE <<>>
    <3>2. said'[m] \in Nat
      BY <2>1 DEF ProviderTyped
    <3>3. s \in Texts
      BY <3>2, UpToType, EmptyLists
    <3> HIDE DEF s
    <3>4. [type |-> "item.completed", m |-> m, detail |-> s] \in Inputs
      BY <3>3 DEF Inputs
    <3> QED
      BY <3>1, <3>4, EmitType DEF TypeOK, s
  <2> QED
    BY <1>2, <2>1, <2>2, Frames DEF CompleteItem, Emit, TypeOK
<1>3. ASSUME NEW m \in Messages, ExpireText(m)
      PROVE  TypeOK'
  <2>1. WorkerTyped'
    BY <1>3, EmptyLists DEF ExpireText, TypeOK, WorkerTyped
  <2>2. CachesBounded'
    BY <1>3, Bounds, EmptyLists DEF ExpireText, TypeOK, CachesBounded, WorkerTyped
  <2> QED
    BY <1>3, <2>1, <2>2, Frames DEF ExpireText, TypeOK
<1>4. ASSUME NEW t \in Turns, SayPlan(t)
      PROVE  TypeOK'
  <2>1. ProviderTyped'
    BY <1>4 DEF SayPlan, Emit, TypeOK, ProviderTyped
  <2>2. WorkerTyped'
    <3>1. PICK e \in Inputs : Emit(e)
      BY <1>4 DEF SayPlan, Inputs, TypeOK, ProviderTyped
    <3> QED
      BY <3>1, EmitType DEF TypeOK
  <2> QED
    BY <1>4, <2>1, <2>2, Frames DEF SayPlan, Emit, TypeOK
<1>5. ASSUME NEW t \in Turns, CompletePlan(t)
      PROVE  TypeOK'
  <2>1. WorkerTyped'
    <3>1. planned[t] \in Nat /\ UpTo(planned[t]) \in Texts /\ <<>> \in Texts
      BY UpToType, EmptyLists DEF TypeOK, ProviderTyped
    <3>2. PICK markdown \in {<<>>, UpTo(planned[t])} :
            Emit([type |-> "turn.proposed.completed", t |-> t, markdown |-> markdown])
      BY <1>5 DEF CompletePlan
    <3>3. markdown \in Texts
      BY <3>1, <3>2
    <3>4. [type |-> "turn.proposed.completed", t |-> t, markdown |-> markdown] \in Inputs
      BY <3>3 DEF Inputs
    <3> QED
      BY <3>2, <3>4, EmitType DEF TypeOK
  <2> QED
    BY <1>5, <2>1, Frames DEF CompletePlan, Emit, TypeOK
<1>6. ASSUME NEW t \in Turns, CompleteTurn(t)
      PROVE  TypeOK'
  <2>1. WorkerTyped'
    <3>1. PICK e \in Inputs : Emit(e)
      BY <1>6 DEF CompleteTurn, Inputs, TypeOK, ProviderTyped
    <3> QED
      BY <3>1, EmitType DEF TypeOK
  <2> QED
    BY <1>6, <2>1, Frames DEF CompleteTurn, Emit, TypeOK
<1>7. ASSUME NEW t \in Turns, ExitSession(t)
      PROVE  TypeOK'
  <2>1. ProviderTyped'
    BY <1>7 DEF ExitSession, Emit, TypeOK, ProviderTyped
  <2>2. WorkerTyped'
    <3>1. PICK e \in Inputs : Emit(e)
      BY <1>7 DEF ExitSession, Inputs, TypeOK, ProviderTyped
    <3> QED
      BY <3>1, EmitType DEF TypeOK
  <2> QED
    BY <1>7, <2>1, <2>2, Frames DEF ExitSession, Emit, TypeOK
<1>8. ASSUME NEW t \in Turns, ExpireIds(t)
      PROVE  TypeOK'
  <2>1. WorkerTyped'
    BY <1>8 DEF ExpireIds, TypeOK, WorkerTyped
  <2>2. CachesBounded'
    BY <1>8, Bounds DEF ExpireIds, TypeOK, CachesBounded, WorkerTyped
  <2> QED
    BY <1>8, <2>1, <2>2, Frames DEF ExpireIds, TypeOK
<1>9. ASSUME NEW t \in Turns, ExpirePlan(t)
      PROVE  TypeOK'
  <2>1. WorkerTyped'
    BY <1>9, EmptyLists DEF ExpirePlan, TypeOK, WorkerTyped
  <2> QED
    BY <1>9, <2>1, Frames DEF ExpirePlan, TypeOK
<1>10. CASE TakeDelta
  <2>1. WorkerTyped'
    <3> DEFINE m == Head(feed).m
               n == Head(feed).n
               next == Append(buffer[m], n)
    <3>1. m \in Messages /\ n \in Nat \ {0} /\ feed' \in Seq(Inputs)
      BY <1>10, FeedHead DEF TakeDelta, Take, TypeOK, WorkerTyped
    <3>2. next \in Texts /\ <<n>> \in Texts /\ <<>> \in Texts
      BY <3>1, AppendText DEF TypeOK, WorkerTyped
    <3>3. work' \in {<<>>, <<Deliver(m, <<n>>)>>, <<Deliver(m, next)>>}
          /\ buffer' \in {buffer, [buffer EXCEPT ![m] = next], [buffer EXCEPT ![m] = <<>>]}
      BY <1>10 DEF TakeDelta, BufferDelta, AppendBuffered
    <3>4. remembered' = [remembered EXCEPT ![TurnOf[m]] = @ \cup {m}] /\ planBuffer' = planBuffer
      BY <1>10 DEF TakeDelta, RememberAssistantMessageId
    <3> HIDE DEF m, n, next
    <3>5. Deliver(m, <<n>>) \in Steps /\ Deliver(m, next) \in Steps
      BY <3>1, <3>2 DEF Deliver, Steps
    <3>6. work' \in Seq(Steps)
      <4> DEFINE now == Deliver(m, <<n>>)
                 valve == Deliver(m, next)
      <4>1. now \in Steps /\ valve \in Steps /\ work' \in {<<>>, <<now>>, <<valve>>}
        BY <3>3, <3>5
      <4> HIDE DEF now, valve
      <4>2. <<now>> \in Seq(Steps) /\ <<valve>> \in Seq(Steps)
        BY <4>1, ShortLists, EmptyLists
      <4> QED
        BY <4>1, <4>2, EmptyLists
    <3>7. buffer' \in [Messages -> Texts]
      BY <3>1, <3>2, <3>3 DEF TypeOK, WorkerTyped
    <3>8. remembered' \in [Turns -> SUBSET Messages]
      BY <3>1, <3>4 DEF TypeOK, WorkerTyped
    <3> QED
      BY <3>1, <3>4, <3>6, <3>7, <3>8 DEF TypeOK, WorkerTyped
  <2>2. CachesBounded'
    <3> DEFINE m == Head(feed).m
               n == Head(feed).n
               next == Append(buffer[m], n)
    <3>1. m \in Messages
      BY <1>10, FeedHead DEF TakeDelta, Take, TypeOK, WorkerTyped
    <3>2. \/ buffer' = buffer
          \/ buffer' = [buffer EXCEPT ![m] = next] /\ Len(next) <= BufferLimit
          \/ buffer' = [buffer EXCEPT ![m] = <<>>]
      BY <1>10 DEF TakeDelta, BufferDelta, AppendBuffered
    <3>3. remembered' = [remembered EXCEPT ![TurnOf[m]] = @ \cup {m}]
      BY <1>10 DEF TakeDelta, RememberAssistantMessageId
    <3> HIDE DEF m, n, next
    <3>4. \A k \in Messages : Len(buffer'[k]) <= BufferLimit
      BY <3>1, <3>2, Bounds, EmptyLists DEF TypeOK, WorkerTyped, CachesBounded
    <3>5. \A t \in Turns : remembered'[t] \subseteq MessagesOf(t)
      BY <3>1, <3>3, MessagesAssumption DEF TypeOK, WorkerTyped, CachesBounded, MessagesOf
    <3> QED
      BY <3>4, <3>5 DEF CachesBounded
  <2> QED
    BY <1>10, <2>1, <2>2, Frames DEF TakeDelta, Take, BufferDelta, RememberAssistantMessageId, TypeOK
<1>11. CASE TakeItemCompleted
  <2>1. WorkerTyped'
    <3> DEFINE m == Head(feed).m
               s == IF text[m] = <<>> THEN Head(feed).detail ELSE <<>>
    <3>1. m \in Messages /\ Head(feed).detail \in Texts /\ feed' \in Seq(Inputs)
      BY <1>11, FeedHead DEF TakeItemCompleted, Take, TypeOK, WorkerTyped
    <3>2. s \in Texts
      BY <3>1, EmptyLists
    <3>3. work' = <<Finalize(m, s), Forget(m)>>
      BY <1>11 DEF TakeItemCompleted
    <3>4. remembered' = [remembered EXCEPT ![TurnOf[m]] = @ \cup {m}] /\ UNCHANGED <<buffer, planBuffer>>
      BY <1>11 DEF TakeItemCompleted, RememberAssistantMessageId
    <3> HIDE DEF m, s
    <3>5. Finalize(m, s) \in Steps /\ Forget(m) \in Steps
      BY <3>1, <3>2 DEF Finalize, Forget, Steps
    <3>6. work' \in Seq(Steps)
      BY <3>3, <3>5, ShortLists, EmptyLists
    <3>7. remembered' \in [Turns -> SUBSET Messages]
      BY <3>1, <3>4 DEF TypeOK, WorkerTyped
    <3> QED
      BY <3>1, <3>4, <3>6, <3>7 DEF TypeOK, WorkerTyped
  <2>2. CachesBounded'
    <3> DEFINE m == Head(feed).m
    <3>1. m \in Messages
      BY <1>11, FeedHead DEF TakeItemCompleted, Take, TypeOK, WorkerTyped
    <3>2. remembered' = [remembered EXCEPT ![TurnOf[m]] = @ \cup {m}] /\ buffer' = buffer
      BY <1>11 DEF TakeItemCompleted, RememberAssistantMessageId
    <3> HIDE DEF m
    <3> QED
      BY <3>1, <3>2, MessagesAssumption DEF TypeOK, WorkerTyped, CachesBounded, MessagesOf
  <2> QED
    BY <1>11, <2>1, <2>2, Frames DEF TakeItemCompleted, Take, TypeOK
<1>12. CASE TakePlanDelta
  <2>1. WorkerTyped'
    <3> DEFINE t == Head(feed).t
               n == Head(feed).n
    <3>1. t \in Turns /\ n \in Nat \ {0} /\ feed' \in Seq(Inputs)
      BY <1>12, FeedHead DEF TakePlanDelta, Take, TypeOK, WorkerTyped
    <3>2. planBuffer' = [planBuffer EXCEPT ![t] = Append(@, n)] /\ UNCHANGED <<work, buffer, remembered>>
      BY <1>12 DEF TakePlanDelta
    <3> HIDE DEF t, n
    <3>3. planBuffer' \in [Turns -> Texts]
      BY <3>1, <3>2, AppendText DEF TypeOK, WorkerTyped
    <3> QED
      BY <3>1, <3>2, <3>3 DEF TypeOK, WorkerTyped
  <2> QED
    BY <1>12, <2>1, Frames DEF TakePlanDelta, Take, TypeOK
<1>13. CASE TakePlanCompleted
  <2>1. WorkerTyped'
    <3> DEFINE a == FinalizePlan(Head(feed).t, Head(feed).markdown)
    <3>1. feed' \in Seq(Inputs) /\ work' = <<a>> /\ UNCHANGED <<buffer, planBuffer, remembered>>
      BY <1>13, FeedHead DEF TakePlanCompleted, Take, TypeOK, WorkerTyped
    <3>2. Head(feed).t \in Turns /\ Head(feed).markdown \in Texts
      BY <1>13, FeedHead DEF TakePlanCompleted, Take, TypeOK, WorkerTyped
    <3>3. a \in Steps
      BY <3>2 DEF FinalizePlan, Steps
    <3> HIDE DEF a
    <3> QED
      BY <3>1, <3>3 DEF TypeOK, WorkerTyped
  <2> QED
    BY <1>13, <2>1, Frames DEF TakePlanCompleted, Take, TypeOK
<1>14. CASE TakeTurnCompleted
  <2>1. WorkerTyped'
    <3>1. Head(feed).t \in Turns /\ feed' \in Seq(Inputs)
      BY <1>14, FeedHead DEF TakeTurnCompleted, Take, TypeOK, WorkerTyped
    <3>2. work' \in Seq(Steps)
      BY <1>14, <3>1, TurnWorkType DEF TakeTurnCompleted, TypeOK
    <3> QED
      BY <1>14, <3>1, <3>2 DEF TakeTurnCompleted, TypeOK, WorkerTyped
  <2> QED
    BY <1>14, <2>1, Frames DEF TakeTurnCompleted, Take, TypeOK
<1>15. CASE TakeSessionExited
  <2>1. WorkerTyped'
    <3> DEFINE t == Head(feed).t
    <3>1. t \in Turns /\ work' = <<SetSession(t), ClearState>>
      BY <1>15, FeedHead DEF TakeSessionExited, Take, TypeOK, WorkerTyped
    <3> HIDE DEF t
    <3>2. SetSession(t) \in Steps /\ ClearState \in Steps
      BY <3>1 DEF SetSession, ClearState, Steps
    <3>3. work' \in Seq(Steps)
      BY <3>1, <3>2, ShortLists, EmptyLists
    <3> QED
      BY <1>15, <3>3, FeedHead DEF TakeSessionExited, Take, TypeOK, WorkerTyped
  <2> QED
    BY <1>15, <2>1, Frames DEF TakeSessionExited, Take, TypeOK
<1>16. CASE DispatchDelta
  <2>1. WorkerTyped'
    BY <1>16, WorkHead DEF DispatchDelta, Do, TypeOK, WorkerTyped
  <2>2. ThreadTyped'
    <3> DEFINE m == Head(work).m
    <3>1. m \in Messages /\ Head(work).text \in Texts
      BY <1>16, WorkHead DEF DispatchDelta, Do, TypeOK, WorkerTyped
    <3>2. text[m] \o Head(work).text \in Texts
      BY <3>1, JoinTexts DEF TypeOK, ThreadTyped
    <3>3. text' \in [Messages -> Texts]
      BY <1>16, <3>2 DEF DispatchDelta, TypeOK, ThreadTyped
    <3>4. shown' \in [Messages -> {"none", "streaming", "complete"}]
      BY <1>16 DEF DispatchDelta, TypeOK, ThreadTyped
    <3> QED
      BY <1>16, <3>3, <3>4 DEF DispatchDelta, TypeOK, ThreadTyped
  <2> QED
    BY <1>16, <2>1, <2>2, Frames DEF DispatchDelta, Do, TypeOK
<1>17. CASE DispatchComplete
  <2>1. WorkerTyped'
    BY <1>17, WorkHead DEF DispatchComplete, Do, TypeOK, WorkerTyped
  <2>2. ThreadTyped'
    BY <1>17, WorkHead DEF DispatchComplete, Do, TypeOK, ThreadTyped
  <2> QED
    BY <1>17, <2>1, <2>2, Frames DEF DispatchComplete, Do, TypeOK
<1>18. CASE FinalizeAssistantMessage
  <2>1. WorkerTyped'
    <3> DEFINE k == Head(work).m
               final == FinalText(buffer[k], Head(work).text)
    <3>1. k \in Messages /\ Head(work).text \in Texts /\ Tail(work) \in Seq(Steps)
      BY <1>18, WorkHead DEF FinalizeAssistantMessage, Do, TypeOK, WorkerTyped
    <3>2. final \in Texts
      BY <3>1, JoinTexts DEF TypeOK, WorkerTyped
    <3>3. /\ work' = (IF final = <<>> THEN <<>> ELSE <<Deliver(k, final)>>) \o <<Complete(k)>> \o Tail(work)
          /\ buffer' = [buffer EXCEPT ![k] = <<>>]
          /\ UNCHANGED <<feed, planBuffer, remembered>>
      BY <1>18 DEF FinalizeAssistantMessage, Do
    <3> HIDE DEF k, final
    <3>4. Deliver(k, final) \in Steps /\ Complete(k) \in Steps
      BY <3>1, <3>2 DEF Deliver, Complete, Steps
    <3>5. work' \in Seq(Steps)
      <4>1. \A s, u \in Seq(Steps) : s \o u \in Seq(Steps)
        OBVIOUS
      <4>2. <<Complete(k)>> \in Seq(Steps)
        BY <3>4
      <4>3. (IF final = <<>> THEN <<>> ELSE <<Deliver(k, final)>>) \in Seq(Steps)
        BY <3>4, EmptyLists
      <4> QED
        BY <3>1, <3>3, <4>1, <4>2, <4>3
    <3>6. buffer' \in [Messages -> Texts]
      BY <3>1, <3>3, EmptyLists DEF TypeOK, WorkerTyped
    <3> QED
      BY <3>3, <3>5, <3>6 DEF TypeOK, WorkerTyped
  <2>2. CachesBounded'
    BY <1>18, WorkHead, Bounds, EmptyLists
       DEF FinalizeAssistantMessage, Do, TypeOK, CachesBounded, WorkerTyped
  <2> QED
    BY <1>18, <2>1, <2>2, Frames DEF FinalizeAssistantMessage, Do, TypeOK
<1>19. CASE ForgetAssistantMessageId
  <2>1. WorkerTyped'
    BY <1>19, WorkHead DEF ForgetAssistantMessageId, Do, TypeOK, WorkerTyped
  <2>2. CachesBounded'
    BY <1>19, WorkHead, Bounds DEF ForgetAssistantMessageId, Do, TypeOK, CachesBounded, WorkerTyped
  <2> QED
    BY <1>19, <2>1, <2>2, Frames DEF ForgetAssistantMessageId, Do, TypeOK
<1>20. CASE ClearAssistantMessageIdsForTurn
  <2>1. WorkerTyped'
    BY <1>20, WorkHead DEF ClearAssistantMessageIdsForTurn, Do, TypeOK, WorkerTyped
  <2>2. CachesBounded'
    BY <1>20, WorkHead, Bounds DEF ClearAssistantMessageIdsForTurn, Do, TypeOK, CachesBounded, WorkerTyped
  <2> QED
    BY <1>20, <2>1, <2>2, Frames DEF ClearAssistantMessageIdsForTurn, Do, TypeOK
<1>21. CASE FinalizeBufferedProposedPlan
  <2>1. WorkerTyped'
    <3> DEFINE k == Head(work).t
               final == FinalText(planBuffer[k], Head(work).text)
    <3>1. k \in Turns /\ Head(work).text \in Texts /\ Tail(work) \in Seq(Steps)
      BY <1>21, WorkHead DEF FinalizeBufferedProposedPlan, Do, TypeOK, WorkerTyped
    <3>2. final \in Texts
      BY <3>1, JoinTexts DEF TypeOK, WorkerTyped
    <3>3. /\ work' = (IF final = <<>> THEN <<>> ELSE <<Upsert(k, final)>>) \o Tail(work)
          /\ planBuffer' = [planBuffer EXCEPT ![k] = <<>>]
          /\ UNCHANGED <<feed, buffer, remembered>>
      BY <1>21 DEF FinalizeBufferedProposedPlan, Do
    <3> HIDE DEF k, final
    <3>4. Upsert(k, final) \in Steps
      BY <3>1, <3>2 DEF Upsert, Steps
    <3>5. work' \in Seq(Steps)
      <4>1. \A s, u \in Seq(Steps) : s \o u \in Seq(Steps)
        OBVIOUS
      <4>2. <<>> \in Seq(Steps)
        BY <3>4
      <4>3. (IF final = <<>> THEN <<>> ELSE <<Upsert(k, final)>>) \in Seq(Steps)
        BY <3>4, EmptyLists
      <4> QED
        BY <3>1, <3>3, <4>1, <4>2, <4>3
    <3>6. planBuffer' \in [Turns -> Texts]
      BY <3>1, <3>3, EmptyLists DEF TypeOK, WorkerTyped
    <3> QED
      BY <3>3, <3>5, <3>6 DEF TypeOK, WorkerTyped
  <2> QED
    BY <1>21, <2>1, Frames DEF FinalizeBufferedProposedPlan, Do, TypeOK
<1>22. CASE UpsertProposedPlan
  <2>1. WorkerTyped'
    BY <1>22, WorkHead DEF UpsertProposedPlan, Do, TypeOK, WorkerTyped
  <2>2. ThreadTyped'
    <3>1. plan' \in [Turns -> Texts]
      BY <1>22, WorkHead DEF UpsertProposedPlan, Do, TypeOK, WorkerTyped, ThreadTyped
    <3> QED
      BY <1>22, <3>1 DEF UpsertProposedPlan, TypeOK, ThreadTyped
  <2> QED
    BY <1>22, <2>1, <2>2, Frames DEF UpsertProposedPlan, Do, TypeOK
<1>23. CASE DispatchSession
  <2>1. WorkerTyped'
    BY <1>23, WorkHead DEF DispatchSession, Do, TypeOK, WorkerTyped
  <2> QED
    BY <1>23, <2>1, Frames DEF DispatchSession, Do, TypeOK
<1>24. CASE ClearTurnStateForSession
  <2>1. WorkerTyped'
    <3>1. work' \in Seq(Steps)
      BY <1>24, WorkHead DEF ClearTurnStateForSession, Do, TypeOK, WorkerTyped
    <3>2. buffer' \in [Messages -> Texts] /\ planBuffer' \in [Turns -> Texts]
      BY <1>24, EmptyLists DEF ClearTurnStateForSession, TypeOK, WorkerTyped
    <3>3. remembered' \in [Turns -> SUBSET Messages]
      BY <1>24 DEF ClearTurnStateForSession
    <3> QED
      BY <1>24, <3>1, <3>2, <3>3 DEF ClearTurnStateForSession, Do, TypeOK, WorkerTyped
  <2>2. CachesBounded'
    BY <1>24, WorkHead, Bounds, EmptyLists
       DEF ClearTurnStateForSession, Do, TypeOK, CachesBounded, WorkerTyped
  <2> QED
    BY <1>24, <2>1, <2>2, Frames DEF ClearTurnStateForSession, Do, TypeOK
<1>25. CASE DispatchFails
  <2>1. WorkerTyped'
    BY <1>25, EmptyLists DEF DispatchFails, TypeOK, WorkerTyped
  <2> QED
    BY <1>25, <2>1, Frames DEF DispatchFails, TypeOK
<1>26. CASE SwitchStreaming
  <2>1. ProviderTyped'
    BY <1>26 DEF SwitchStreaming, TypeOK, ProviderTyped
  <2> QED
    BY <1>26, <2>1, Frames DEF SwitchStreaming, TypeOK
<1>27. CASE UNCHANGED vars
  BY <1>27, Frames DEF vars, TypeOK
<1> QED
  BY <1>1, <1>2, <1>3, <1>4, <1>5, <1>6, <1>7, <1>8, <1>9, <1>10, <1>11, <1>12, <1>13,
     <1>14, <1>15, <1>16, <1>17, <1>18, <1>19, <1>20, <1>21, <1>22, <1>23, <1>24, <1>25, <1>26, <1>27
     DEF Next, Worker

\* Every variable keeps its type, no buffer grows over its limit, and every turn's messages
\* are its own: for any number of events, and whatever the caches drop.
THEOREM AssistantTypes == Spec => []TypeOK
BY InitTypes, NextTypes, PTL DEF Spec

-----------------------------------------------------------------------------
(* What is in the feed of a message, a plan and a turn *)

IsItem(e, m) == e.type \in {"content.delta", "item.completed"} /\ e.m = m
IsDelta(e, m) == e.type = "content.delta" /\ e.m = m
IsItemEnd(e, m) == e.type = "item.completed" /\ e.m = m
IsPlan(e, t) == e.type \in {"turn.proposed.delta", "turn.proposed.completed"} /\ e.t = t
IsPlanDelta(e, t) == e.type = "turn.proposed.delta" /\ e.t = t
IsPlanEnd(e, t) == e.type = "turn.proposed.completed" /\ e.t = t
IsEnd(e, t) == e.type = "turn.completed" /\ e.t = t

\* The event is of the turn.
Of(e, t) == IsEnd(e, t) \/ IsPlan(e, t) \/ \E m \in MessagesOf(t) : IsItem(e, m)

Numbers(m) == {feed[i].n : i \in {j \in DOMAIN feed : IsDelta(feed[j], m)}}
PlanNumbers(t) == {feed[i].n : i \in {j \in DOMAIN feed : IsPlanDelta(feed[j], t)}}

ItemEnded(m) == <<"item", m>> \in ended
PlanEnded(t) == <<"plan", t>> \in ended
TurnEnded(t) == <<"turn", t>> \in ended

HasItems(m) == \E i \in DOMAIN feed : IsItem(feed[i], m)
HasPlans(t) == \E i \in DOMAIN feed : IsPlan(feed[i], t)
HasEnd(t) == \E i \in DOMAIN feed : IsEnd(feed[i], t)

\* Nothing more is said of the message, or of the plan, and the worker has taken it all.
Quiet(m) == (ItemEnded(m) \/ TurnEnded(TurnOf[m])) /\ ~HasItems(m)
PlanQuiet(t) == (PlanEnded(t) \/ TurnEnded(t)) /\ ~HasPlans(t)
TurnDone(t) == TurnEnded(t) /\ ~HasEnd(t)

(***************************************************************************)
(* The provider's events are in order: the end of a turn, an item or a plan *)
(* is the last event of it, and the numbers of deltas grow.                *)
(***************************************************************************)
EndsAreLast ==
    \A t \in Turns, j \in DOMAIN feed : IsEnd(feed[j], t) =>
        TurnEnded(t) /\ \A i \in DOMAIN feed : i > j => ~Of(feed[i], t)

EndsFollow ==
    \A t \in Turns, i \in DOMAIN feed : Of(feed[i], t) /\ TurnEnded(t) =>
        \E j \in DOMAIN feed : j >= i /\ IsEnd(feed[j], t)

ItemEndsAreLast ==
    \A m \in Messages, j \in DOMAIN feed : IsItemEnd(feed[j], m) =>
        /\ ItemEnded(m) /\ feed[j].detail \in {<<>>, UpTo(said[m])}
        /\ \A i \in DOMAIN feed : i > j => ~IsItem(feed[i], m)

DeltasGrow ==
    \A m \in Messages, i \in DOMAIN feed : IsDelta(feed[i], m) =>
        /\ feed[i].n <= said[m]
        /\ \A j \in DOMAIN feed : j > i /\ IsDelta(feed[j], m) => feed[i].n < feed[j].n

PlanEndsAreLast ==
    \A t \in Turns, j \in DOMAIN feed : IsPlanEnd(feed[j], t) =>
        /\ PlanEnded(t) /\ feed[j].markdown \in {<<>>, UpTo(planned[t])}
        /\ \A i \in DOMAIN feed : i > j => ~IsPlan(feed[i], t)

PlanDeltasGrow ==
    \A t \in Turns, i \in DOMAIN feed : IsPlanDelta(feed[i], t) =>
        /\ feed[i].n <= planned[t]
        /\ \A j \in DOMAIN feed : j > i /\ IsPlanDelta(feed[j], t) => feed[i].n < feed[j].n

FeedOrdered ==
    /\ EndsAreLast /\ EndsFollow /\ ItemEndsAreLast /\ DeltasGrow
    /\ PlanEndsAreLast /\ PlanDeltasGrow

(* What the provider's actions have in common.                             *)
Emitted(e) ==
    /\ e \in Inputs /\ feed' = Append(feed, e)
    /\ said' \in [Messages -> Nat] /\ planned' \in [Turns -> Nat]
    /\ ended \subseteq ended'
    /\ \A t \in Turns : Of(e, t) => ~TurnEnded(t)
    /\ \A t \in Turns : <<"turn", t>> \in ended' <=> TurnEnded(t) \/ IsEnd(e, t)
    /\ \A m \in Messages :
         /\ IsItem(e, m) => ~ItemEnded(m)
         /\ IsItemEnd(e, m) => <<"item", m>> \in ended' /\ e.detail \in {<<>>, UpTo(said'[m])}
         /\ said'[m] >= said[m] /\ (IsItem(e, m) \/ said'[m] = said[m])
         /\ IsDelta(e, m) => e.n = said[m] + 1 /\ said'[m] = said[m] + 1
    /\ \A t \in Turns :
         /\ IsPlan(e, t) => ~PlanEnded(t)
         /\ IsPlanEnd(e, t) => <<"plan", t>> \in ended' /\ e.markdown \in {<<>>, UpTo(planned'[t])}
         /\ planned'[t] >= planned[t] /\ (IsPlan(e, t) \/ planned'[t] = planned[t])
         /\ IsPlanDelta(e, t) => e.n = planned[t] + 1 /\ planned'[t] = planned[t] + 1

LEMMA EmittedNumbers ==
  ASSUME TypeOK, NEW e, Emitted(e)
  PROVE  /\ \A m \in Messages :
              /\ said[m] \in Nat /\ said'[m] \in Nat /\ said'[m] >= said[m]
              /\ IsDelta(e, m) => e.n = said[m] + 1 /\ said'[m] = said[m] + 1
         /\ \A t \in Turns :
              /\ planned[t] \in Nat /\ planned'[t] \in Nat /\ planned'[t] >= planned[t]
              /\ IsPlanDelta(e, t) => e.n = planned[t] + 1 /\ planned'[t] = planned[t] + 1
<1>1. /\ said \in [Messages -> Nat] /\ planned \in [Turns -> Nat]
      /\ said' \in [Messages -> Nat] /\ planned' \in [Turns -> Nat]
  BY DEF TypeOK, ProviderTyped, Emitted
<1>2. /\ \A m \in Messages :
           said'[m] >= said[m] /\ (IsDelta(e, m) => e.n = said[m] + 1 /\ said'[m] = said[m] + 1)
      /\ \A t \in Turns :
           /\ planned'[t] >= planned[t]
           /\ IsPlanDelta(e, t) => e.n = planned[t] + 1 /\ planned'[t] = planned[t] + 1
  BY ZenonT(20) DEF Emitted
<1> QED
  BY <1>1, <1>2

LEMMA AppendFeed ==
  ASSUME NEW e, feed \in Seq(Inputs), feed' = Append(feed, e)
  PROVE  /\ Len(feed) \in Nat /\ DOMAIN feed = 1..Len(feed)
         /\ DOMAIN feed' = 1..(Len(feed) + 1)
         /\ feed'[Len(feed) + 1] = e /\ \A i \in DOMAIN feed : i \in DOMAIN feed' /\ feed'[i] = feed[i]
         /\ \A i \in DOMAIN feed' : i # Len(feed) + 1 => i \in DOMAIN feed
OBVIOUS

LEMMA OfItem ==
  ASSUME NEW e, NEW m \in Messages, IsItem(e, m)
  PROVE  TurnOf[m] \in Turns /\ Of(e, TurnOf[m])
BY MessagesAssumption DEF Of, MessagesOf

(* What stays of a feed and what an event adds to it.                      *)
LEMMA EmittedFeed ==
  ASSUME TypeOK, NEW e, Emitted(e)
  PROVE  /\ \A m \in Messages : HasItems(m)' <=> HasItems(m) \/ IsItem(e, m)
         /\ \A t \in Turns : HasPlans(t)' <=> HasPlans(t) \/ IsPlan(e, t)
         /\ \A t \in Turns : HasEnd(t)' <=> HasEnd(t) \/ IsEnd(e, t)
         /\ \A m \in Messages : Numbers(m)' = Numbers(m) \cup (IF IsDelta(e, m) THEN {e.n} ELSE {})
         /\ \A t \in Turns : PlanNumbers(t)' = PlanNumbers(t) \cup (IF IsPlanDelta(e, t) THEN {e.n} ELSE {})
<1>1. feed \in Seq(Inputs) /\ feed' = Append(feed, e)
  BY DEF TypeOK, WorkerTyped, Emitted
<1>2. \A m \in Messages : HasItems(m)' <=> HasItems(m) \/ IsItem(e, m)
  BY <1>1, AppendFeed DEF HasItems
<1>3. \A t \in Turns : HasPlans(t)' <=> HasPlans(t) \/ IsPlan(e, t)
  BY <1>1, AppendFeed DEF HasPlans
<1>4. \A t \in Turns : HasEnd(t)' <=> HasEnd(t) \/ IsEnd(e, t)
  BY <1>1, AppendFeed DEF HasEnd
<1>5. \A m \in Messages : Numbers(m)' = Numbers(m) \cup (IF IsDelta(e, m) THEN {e.n} ELSE {})
  BY <1>1, AppendFeed DEF Numbers
<1>6. \A t \in Turns : PlanNumbers(t)' = PlanNumbers(t) \cup (IF IsPlanDelta(e, t) THEN {e.n} ELSE {})
  BY <1>1, AppendFeed DEF PlanNumbers
<1> QED
  BY <1>2, <1>3, <1>4, <1>5, <1>6

LEMMA EmittedStates ==
  ASSUME TypeOK, NEW e, Emitted(e)
  PROVE  /\ \A m \in Messages : Quiet(m) => Quiet(m)'
         /\ \A t \in Turns : PlanQuiet(t) => PlanQuiet(t)'
         /\ \A t \in Turns : TurnDone(t)' <=> TurnDone(t)
<1>1. \A m \in Messages : Quiet(m) => Quiet(m)'
  <2> SUFFICES ASSUME NEW m \in Messages, Quiet(m) PROVE Quiet(m)'
    OBVIOUS
  <2>1. ~IsItem(e, m)
    BY OfItem DEF Quiet, Emitted
  <2> QED
    BY <2>1, EmittedFeed DEF Quiet, Emitted, ItemEnded, TurnEnded
<1>2. \A t \in Turns : PlanQuiet(t) => PlanQuiet(t)'
  <2> SUFFICES ASSUME NEW t \in Turns, PlanQuiet(t) PROVE PlanQuiet(t)'
    OBVIOUS
  <2>1. ~IsPlan(e, t)
    BY DEF PlanQuiet, Emitted, Of
  <2> QED
    BY <2>1, EmittedFeed DEF PlanQuiet, Emitted, PlanEnded, TurnEnded
<1>3. \A t \in Turns : TurnDone(t)' <=> TurnDone(t)
  <2> SUFFICES ASSUME NEW t \in Turns PROVE TurnDone(t)' <=> TurnDone(t)
    OBVIOUS
  <2>1. IsEnd(e, t) => ~TurnEnded(t)
    BY DEF Emitted, Of
  <2>2. TurnEnded(t)' <=> TurnEnded(t) \/ IsEnd(e, t)
    BY DEF Emitted, TurnEnded
  <2> QED
    BY <2>1, <2>2, EmittedFeed DEF TurnDone
<1> QED
  BY <1>1, <1>2, <1>3

(* What is quiet stays as it is.                                           *)
LEMMA EmittedStill ==
  ASSUME TypeOK, NEW e, Emitted(e)
  PROVE  /\ \A m \in Messages : ~IsItem(e, m) => said'[m] = said[m]
         /\ \A t \in Turns : ~IsPlan(e, t) => planned'[t] = planned[t]
         /\ \A m \in Messages : Quiet(m) => Quiet(m)' /\ said'[m] = said[m]
         /\ \A t \in Turns : PlanQuiet(t) => PlanQuiet(t)' /\ planned'[t] = planned[t]
<1>1. /\ \A m \in Messages : ~IsItem(e, m) => said'[m] = said[m]
      /\ \A t \in Turns : ~IsPlan(e, t) => planned'[t] = planned[t]
  BY ZenonT(20) DEF Emitted
<1>2. /\ \A t \in Turns : Of(e, t) => ~TurnEnded(t)
      /\ \A m \in Messages : IsItem(e, m) => ~ItemEnded(m)
      /\ \A t \in Turns : IsPlan(e, t) => ~PlanEnded(t)
  BY ZenonT(20) DEF Emitted
<1>3. \A m \in Messages : Quiet(m) => ~IsItem(e, m)
  BY <1>2, OfItem DEF Quiet
<1>4. \A t \in Turns : PlanQuiet(t) => ~IsPlan(e, t)
  BY <1>2 DEF PlanQuiet, Of
<1> QED
  BY <1>1, <1>3, <1>4, EmittedStates

LEMMA EmittedOrder ==
  ASSUME TypeOK, FeedOrdered, NEW e, Emitted(e)
  PROVE  FeedOrdered'
<1>1. feed \in Seq(Inputs) /\ feed' = Append(feed, e)
  BY DEF TypeOK, WorkerTyped, Emitted
<1>2. said \in [Messages -> Nat] /\ planned \in [Turns -> Nat]
  BY DEF TypeOK, ProviderTyped
<1>3. EndsAreLast'
  <2> SUFFICES ASSUME NEW t \in Turns, NEW j \in DOMAIN feed', IsEnd(feed'[j], t)
               PROVE  TurnEnded(t)' /\ \A i \in DOMAIN feed' : i > j => ~Of(feed'[i], t)
    BY DEF EndsAreLast
  <2>1. CASE j \in DOMAIN feed
    <3>1. TurnEnded(t) /\ \A i \in DOMAIN feed : i > j => ~Of(feed[i], t)
      BY <1>1, <2>1, AppendFeed DEF FeedOrdered, EndsAreLast
    <3>2. ~Of(e, t)
      BY <3>1 DEF Emitted
    <3> QED
      BY <1>1, <3>1, <3>2, AppendFeed DEF Emitted, TurnEnded
  <2>2. CASE j = Len(feed) + 1
    BY <1>1, <2>2, AppendFeed DEF Emitted, TurnEnded
  <2> QED
    BY <1>1, <2>1, <2>2, AppendFeed
<1>4. EndsFollow'
  <2> SUFFICES ASSUME NEW t \in Turns, NEW i \in DOMAIN feed', Of(feed'[i], t), TurnEnded(t)'
               PROVE  \E j \in DOMAIN feed' : j >= i /\ IsEnd(feed'[j], t)
    BY DEF EndsFollow
  <2>1. CASE IsEnd(e, t)
    BY <1>1, <2>1, AppendFeed
  <2>2. CASE ~IsEnd(e, t)
    <3>1. TurnEnded(t)
      BY <2>2 DEF Emitted, TurnEnded
    <3>2. i \in DOMAIN feed
      BY <1>1, <3>1, AppendFeed DEF Emitted
    <3>3. PICK j \in DOMAIN feed : j >= i /\ IsEnd(feed[j], t)
      BY <1>1, <3>1, <3>2, AppendFeed DEF FeedOrdered, EndsFollow
    <3> QED
      BY <1>1, <3>3, AppendFeed
  <2> QED
    BY <2>1, <2>2
<1>5. ItemEndsAreLast'
  <2> SUFFICES ASSUME NEW m \in Messages, NEW j \in DOMAIN feed', IsItemEnd(feed'[j], m)
               PROVE  /\ ItemEnded(m)' /\ feed'[j].detail \in {<<>>, UpTo(said'[m])}
                      /\ \A i \in DOMAIN feed' : i > j => ~IsItem(feed'[i], m)
    BY DEF ItemEndsAreLast, UpTo
  <2>1. CASE j \in DOMAIN feed
    <3>1. /\ ItemEnded(m) /\ feed[j].detail \in {<<>>, UpTo(said[m])}
          /\ \A i \in DOMAIN feed : i > j => ~IsItem(feed[i], m)
      BY <1>1, <2>1, AppendFeed DEF FeedOrdered, ItemEndsAreLast
    <3>2. ~IsItem(e, m) /\ said'[m] = said[m]
      BY <3>1 DEF Emitted
    <3> QED
      BY <1>1, <2>1, <3>1, <3>2, AppendFeed DEF Emitted, ItemEnded
  <2>2. CASE j = Len(feed) + 1
    BY <1>1, <2>2, AppendFeed DEF Emitted, ItemEnded
  <2> QED
    BY <1>1, <2>1, <2>2, AppendFeed
<1>6. DeltasGrow'
  <2> SUFFICES ASSUME NEW m \in Messages, NEW i \in DOMAIN feed', IsDelta(feed'[i], m)
               PROVE  /\ feed'[i].n <= said'[m]
                      /\ \A j \in DOMAIN feed' :
                           j > i /\ IsDelta(feed'[j], m) => feed'[i].n < feed'[j].n
    BY DEF DeltasGrow
  <2>1. said'[m] >= said[m] /\ said[m] \in Nat /\ said'[m] \in Nat
    BY EmittedNumbers
  <2>2. CASE i \in DOMAIN feed
    <3>1. /\ feed[i].n <= said[m]
          /\ \A j \in DOMAIN feed : j > i /\ IsDelta(feed[j], m) => feed[i].n < feed[j].n
      BY <1>1, <2>2, AppendFeed DEF FeedOrdered, DeltasGrow
    <3>2. feed[i].n \in Nat
      <4>1. feed[i] \in Inputs /\ IsDelta(feed[i], m)
        BY <1>1, <2>2, AppendFeed
      <4> QED
        BY <4>1 DEF Inputs, IsDelta
    <3>3. IsDelta(e, m) => feed[i].n < e.n
      BY <2>1, <3>1, <3>2, EmittedNumbers
    <3> QED
      BY <1>1, <2>1, <2>2, <3>1, <3>2, <3>3, AppendFeed
  <2>3. CASE i = Len(feed) + 1
    BY <1>1, <2>1, <2>3, AppendFeed, EmittedNumbers
  <2> QED
    BY <1>1, <2>2, <2>3, AppendFeed
<1>7. PlanEndsAreLast'
  <2> SUFFICES ASSUME NEW t \in Turns, NEW j \in DOMAIN feed', IsPlanEnd(feed'[j], t)
               PROVE  /\ PlanEnded(t)' /\ feed'[j].markdown \in {<<>>, UpTo(planned'[t])}
                      /\ \A i \in DOMAIN feed' : i > j => ~IsPlan(feed'[i], t)
    BY DEF PlanEndsAreLast, UpTo
  <2>1. CASE j \in DOMAIN feed
    <3>1. /\ PlanEnded(t) /\ feed[j].markdown \in {<<>>, UpTo(planned[t])}
          /\ \A i \in DOMAIN feed : i > j => ~IsPlan(feed[i], t)
      BY <1>1, <2>1, AppendFeed DEF FeedOrdered, PlanEndsAreLast
    <3>2. ~IsPlan(e, t) /\ planned'[t] = planned[t]
      BY <3>1 DEF Emitted
    <3> QED
      BY <1>1, <2>1, <3>1, <3>2, AppendFeed DEF Emitted, PlanEnded
  <2>2. CASE j = Len(feed) + 1
    BY <1>1, <2>2, AppendFeed DEF Emitted, PlanEnded
  <2> QED
    BY <1>1, <2>1, <2>2, AppendFeed
<1>8. PlanDeltasGrow'
  <2> SUFFICES ASSUME NEW t \in Turns, NEW i \in DOMAIN feed', IsPlanDelta(feed'[i], t)
               PROVE  /\ feed'[i].n <= planned'[t]
                      /\ \A j \in DOMAIN feed' :
                           j > i /\ IsPlanDelta(feed'[j], t) => feed'[i].n < feed'[j].n
    BY DEF PlanDeltasGrow
  <2>1. planned'[t] >= planned[t] /\ planned[t] \in Nat /\ planned'[t] \in Nat
    BY EmittedNumbers
  <2>2. CASE i \in DOMAIN feed
    <3>1. /\ feed[i].n <= planned[t]
          /\ \A j \in DOMAIN feed : j > i /\ IsPlanDelta(feed[j], t) => feed[i].n < feed[j].n
      BY <1>1, <2>2, AppendFeed DEF FeedOrdered, PlanDeltasGrow
    <3>2. feed[i].n \in Nat
      <4>1. feed[i] \in Inputs /\ IsPlanDelta(feed[i], t)
        BY <1>1, <2>2, AppendFeed
      <4> QED
        BY <4>1 DEF Inputs, IsPlanDelta
    <3>3. IsPlanDelta(e, t) => feed[i].n < e.n
      BY <2>1, <3>1, <3>2, EmittedNumbers
    <3> QED
      BY <1>1, <2>1, <2>2, <3>1, <3>2, <3>3, AppendFeed
  <2>3. CASE i = Len(feed) + 1
    BY <1>1, <2>1, <2>3, AppendFeed, EmittedNumbers
  <2> QED
    BY <1>1, <2>2, <2>3, AppendFeed
<1> QED
  BY <1>3, <1>4, <1>5, <1>6, <1>7, <1>8 DEF FeedOrdered

-----------------------------------------------------------------------------
(* The worker takes the head of the feed *)

Taken ==
    /\ feed # <<>> /\ feed' = Tail(feed)
    /\ UNCHANGED <<said, planned, ended>>

LEMMA TailFeed ==
  ASSUME feed \in Seq(Inputs), feed # <<>>, feed' = Tail(feed)
  PROVE  /\ 1 \in DOMAIN feed /\ Head(feed) = feed[1] /\ Head(feed) \in Inputs
         /\ DOMAIN feed \subseteq Nat \ {0} /\ DOMAIN feed' \subseteq Nat \ {0}
         /\ \A i \in DOMAIN feed' : i + 1 \in DOMAIN feed /\ feed'[i] = feed[i + 1]
         /\ \A i \in DOMAIN feed : i # 1 => i - 1 \in DOMAIN feed' /\ feed[i] = feed'[i - 1]
OBVIOUS

LEMMA TakenFeed ==
  ASSUME TypeOK, Taken
  PROVE  /\ \A m \in Messages : HasItems(m) <=> HasItems(m)' \/ IsItem(Head(feed), m)
         /\ \A t \in Turns : HasPlans(t) <=> HasPlans(t)' \/ IsPlan(Head(feed), t)
         /\ \A t \in Turns : HasEnd(t) <=> HasEnd(t)' \/ IsEnd(Head(feed), t)
<1>1. feed \in Seq(Inputs) /\ feed # <<>> /\ feed' = Tail(feed)
  BY DEF TypeOK, WorkerTyped, Taken
<1>3. \A m \in Messages : HasItems(m) <=> HasItems(m)' \/ IsItem(Head(feed), m)
  BY <1>1, TailFeed DEF HasItems
<1>4. \A t \in Turns : HasPlans(t) <=> HasPlans(t)' \/ IsPlan(Head(feed), t)
  BY <1>1, TailFeed DEF HasPlans
<1>5. \A t \in Turns : HasEnd(t) <=> HasEnd(t)' \/ IsEnd(Head(feed), t)
  BY <1>1, TailFeed DEF HasEnd
<1> QED
  BY <1>3, <1>4, <1>5

LEMMA TakenOrder ==
  ASSUME TypeOK, FeedOrdered, Taken
  PROVE  FeedOrdered'
<1>1. feed \in Seq(Inputs) /\ feed # <<>> /\ feed' = Tail(feed) /\ UNCHANGED <<said, planned, ended>>
  BY DEF TypeOK, WorkerTyped, Taken
<1>2. EndsAreLast'
  <2> SUFFICES ASSUME NEW t \in Turns, NEW j \in DOMAIN feed', IsEnd(feed'[j], t)
               PROVE  TurnEnded(t) /\ \A i \in DOMAIN feed' : i > j => ~Of(feed'[i], t)
    BY <1>1 DEF EndsAreLast, TurnEnded
  <2>1. j + 1 \in DOMAIN feed /\ feed'[j] = feed[j + 1]
    BY <1>1, TailFeed
  <2>2. TurnEnded(t) /\ \A i \in DOMAIN feed : i > j + 1 => ~Of(feed[i], t)
    BY <2>1 DEF FeedOrdered, EndsAreLast
  <2> QED
    BY <1>1, <2>2, TailFeed
<1>3. EndsFollow'
  <2> SUFFICES ASSUME NEW t \in Turns, NEW i \in DOMAIN feed', Of(feed'[i], t), TurnEnded(t)
               PROVE  \E j \in DOMAIN feed' : j >= i /\ IsEnd(feed'[j], t)
    BY <1>1 DEF EndsFollow, TurnEnded
  <2>1. i + 1 \in DOMAIN feed /\ feed'[i] = feed[i + 1]
    BY <1>1, TailFeed
  <2>2. PICK j \in DOMAIN feed : j >= i + 1 /\ IsEnd(feed[j], t)
    BY <2>1 DEF FeedOrdered, EndsFollow
  <2>3. i \in Nat \ {0} /\ j \in Nat \ {0}
    BY <1>1, TailFeed
  <2>4. j # 1
    BY <2>2, <2>3
  <2>5. j - 1 \in DOMAIN feed' /\ feed[j] = feed'[j - 1]
    BY <1>1, <2>4, TailFeed
  <2>6. j - 1 >= i
    BY <2>2, <2>3
  <2> QED
    BY <2>2, <2>5, <2>6
<1>4. ItemEndsAreLast'
  <2> SUFFICES ASSUME NEW m \in Messages, NEW j \in DOMAIN feed', IsItemEnd(feed'[j], m)
               PROVE  /\ ItemEnded(m) /\ feed'[j].detail \in {<<>>, UpTo(said[m])}
                      /\ \A i \in DOMAIN feed' : i > j => ~IsItem(feed'[i], m)
    BY <1>1 DEF ItemEndsAreLast, ItemEnded, UpTo
  <2>1. j + 1 \in DOMAIN feed /\ feed'[j] = feed[j + 1]
    BY <1>1, TailFeed
  <2>2. /\ ItemEnded(m) /\ feed[j + 1].detail \in {<<>>, UpTo(said[m])}
        /\ \A i \in DOMAIN feed : i > j + 1 => ~IsItem(feed[i], m)
    BY <2>1 DEF FeedOrdered, ItemEndsAreLast
  <2> QED
    BY <1>1, <2>1, <2>2, TailFeed
<1>5. DeltasGrow'
  <2> SUFFICES ASSUME NEW m \in Messages, NEW i \in DOMAIN feed', IsDelta(feed'[i], m)
               PROVE  /\ feed'[i].n <= said[m]
                      /\ \A j \in DOMAIN feed' : j > i /\ IsDelta(feed'[j], m) => feed'[i].n < feed'[j].n
    BY <1>1 DEF DeltasGrow
  <2>1. i + 1 \in DOMAIN feed /\ feed'[i] = feed[i + 1]
    BY <1>1, TailFeed
  <2>2. /\ feed[i + 1].n <= said[m]
        /\ \A j \in DOMAIN feed : j > i + 1 /\ IsDelta(feed[j], m) => feed[i + 1].n < feed[j].n
    BY <2>1 DEF FeedOrdered, DeltasGrow
  <2> QED
    BY <1>1, <2>1, <2>2, TailFeed
<1>6. PlanEndsAreLast'
  <2> SUFFICES ASSUME NEW t \in Turns, NEW j \in DOMAIN feed', IsPlanEnd(feed'[j], t)
               PROVE  /\ PlanEnded(t) /\ feed'[j].markdown \in {<<>>, UpTo(planned[t])}
                      /\ \A i \in DOMAIN feed' : i > j => ~IsPlan(feed'[i], t)
    BY <1>1 DEF PlanEndsAreLast, PlanEnded, UpTo
  <2>1. j + 1 \in DOMAIN feed /\ feed'[j] = feed[j + 1]
    BY <1>1, TailFeed
  <2>2. /\ PlanEnded(t) /\ feed[j + 1].markdown \in {<<>>, UpTo(planned[t])}
        /\ \A i \in DOMAIN feed : i > j + 1 => ~IsPlan(feed[i], t)
    BY <2>1 DEF FeedOrdered, PlanEndsAreLast
  <2> QED
    BY <1>1, <2>1, <2>2, TailFeed
<1>7. PlanDeltasGrow'
  <2> SUFFICES ASSUME NEW t \in Turns, NEW i \in DOMAIN feed', IsPlanDelta(feed'[i], t)
               PROVE  /\ feed'[i].n <= planned[t]
                      /\ \A j \in DOMAIN feed' :
                           j > i /\ IsPlanDelta(feed'[j], t) => feed'[i].n < feed'[j].n
    BY <1>1 DEF PlanDeltasGrow
  <2>1. i + 1 \in DOMAIN feed /\ feed'[i] = feed[i + 1]
    BY <1>1, TailFeed
  <2>2. /\ feed[i + 1].n <= planned[t]
        /\ \A j \in DOMAIN feed : j > i + 1 /\ IsPlanDelta(feed[j], t) => feed[i + 1].n < feed[j].n
    BY <2>1 DEF FeedOrdered, PlanDeltasGrow
  <2> QED
    BY <1>1, <2>1, <2>2, TailFeed
<1> QED
  BY <1>2, <1>3, <1>4, <1>5, <1>6, <1>7 DEF FeedOrdered

(* The number of a delta at the head is smaller than those behind it.      *)
LEMMA TakenNumbers ==
  ASSUME TypeOK, FeedOrdered, Taken
  PROVE  /\ \A m \in Messages :
              /\ Numbers(m) \subseteq Nat
              /\ ~IsDelta(Head(feed), m) => Numbers(m)' = Numbers(m)
              /\ IsDelta(Head(feed), m) =>
                   /\ Numbers(m) = Numbers(m)' \cup {Head(feed).n}
                   /\ \A k \in Numbers(m)' : Head(feed).n < k
         /\ \A t \in Turns :
              /\ PlanNumbers(t) \subseteq Nat
              /\ ~IsPlanDelta(Head(feed), t) => PlanNumbers(t)' = PlanNumbers(t)
              /\ IsPlanDelta(Head(feed), t) =>
                   /\ PlanNumbers(t) = PlanNumbers(t)' \cup {Head(feed).n}
                   /\ \A k \in PlanNumbers(t)' : Head(feed).n < k
<1>1. feed \in Seq(Inputs) /\ feed # <<>> /\ feed' = Tail(feed)
  BY DEF TypeOK, WorkerTyped, Taken
<1>2. ASSUME NEW m \in Messages
      PROVE  /\ Numbers(m) \subseteq Nat
             /\ ~IsDelta(Head(feed), m) => Numbers(m)' = Numbers(m)
             /\ IsDelta(Head(feed), m) =>
                   /\ Numbers(m) = Numbers(m)' \cup {Head(feed).n}
                   /\ \A k \in Numbers(m)' : Head(feed).n < k
  <2>1. Numbers(m) \subseteq Nat
    BY <1>1 DEF Numbers, IsDelta, Inputs
  <2>2. \A k \in Numbers(m)' : k \in Numbers(m)
    BY <1>1, TailFeed DEF Numbers
  <2>3. \A k \in Numbers(m) : k \in Numbers(m)' \/ (IsDelta(Head(feed), m) /\ k = Head(feed).n)
    <3> SUFFICES ASSUME NEW i \in DOMAIN feed, IsDelta(feed[i], m)
                 PROVE  feed[i].n \in Numbers(m)' \/ (IsDelta(Head(feed), m) /\ feed[i].n = Head(feed).n)
      BY DEF Numbers
    <3>1. CASE i = 1
      BY <1>1, <3>1, TailFeed
    <3>2. CASE i # 1
      BY <1>1, <3>2, TailFeed DEF Numbers
    <3> QED
      BY <3>1, <3>2
  <2>4. IsDelta(Head(feed), m) => Head(feed).n \in Numbers(m)
    BY <1>1, TailFeed DEF Numbers
  <2>5. ASSUME IsDelta(Head(feed), m), NEW k \in Numbers(m)' PROVE Head(feed).n < k
    <3>1. PICK i \in DOMAIN feed' : IsDelta(feed'[i], m) /\ k = feed'[i].n
      BY DEF Numbers
    <3>2. i \in Nat \ {0} /\ i + 1 \in DOMAIN feed /\ feed'[i] = feed[i + 1] /\ i + 1 > 1
          /\ 1 \in DOMAIN feed /\ Head(feed) = feed[1]
      BY <1>1, TailFeed
    <3> QED
      BY <2>5, <3>1, <3>2 DEF FeedOrdered, DeltasGrow
  <2> QED
    BY <2>1, <2>2, <2>3, <2>4, <2>5
<1>3. ASSUME NEW t \in Turns
      PROVE  /\ PlanNumbers(t) \subseteq Nat
             /\ ~IsPlanDelta(Head(feed), t) => PlanNumbers(t)' = PlanNumbers(t)
             /\ IsPlanDelta(Head(feed), t) =>
                   /\ PlanNumbers(t) = PlanNumbers(t)' \cup {Head(feed).n}
                   /\ \A k \in PlanNumbers(t)' : Head(feed).n < k
  <2>1. PlanNumbers(t) \subseteq Nat
    BY <1>1 DEF PlanNumbers, IsPlanDelta, Inputs
  <2>2. \A k \in PlanNumbers(t)' : k \in PlanNumbers(t)
    BY <1>1, TailFeed DEF PlanNumbers
  <2>3. \A k \in PlanNumbers(t) :
          k \in PlanNumbers(t)' \/ (IsPlanDelta(Head(feed), t) /\ k = Head(feed).n)
    <3> SUFFICES ASSUME NEW i \in DOMAIN feed, IsPlanDelta(feed[i], t)
                 PROVE  \/ feed[i].n \in PlanNumbers(t)'
                        \/ IsPlanDelta(Head(feed), t) /\ feed[i].n = Head(feed).n
      BY DEF PlanNumbers
    <3>1. CASE i = 1
      BY <1>1, <3>1, TailFeed
    <3>2. CASE i # 1
      BY <1>1, <3>2, TailFeed DEF PlanNumbers
    <3> QED
      BY <3>1, <3>2
  <2>4. IsPlanDelta(Head(feed), t) => Head(feed).n \in PlanNumbers(t)
    BY <1>1, TailFeed DEF PlanNumbers
  <2>5. ASSUME IsPlanDelta(Head(feed), t), NEW k \in PlanNumbers(t)' PROVE Head(feed).n < k
    <3>1. PICK i \in DOMAIN feed' : IsPlanDelta(feed'[i], t) /\ k = feed'[i].n
      BY DEF PlanNumbers
    <3>2. i \in Nat \ {0} /\ i + 1 \in DOMAIN feed /\ feed'[i] = feed[i + 1] /\ i + 1 > 1
          /\ 1 \in DOMAIN feed /\ Head(feed) = feed[1]
      BY <1>1, TailFeed
    <3> QED
      BY <2>5, <3>1, <3>2 DEF FeedOrdered, PlanDeltasGrow
  <2> QED
    BY <2>1, <2>2, <2>3, <2>4, <2>5
<1> QED
  BY <1>2, <1>3

(* When the end of a turn was taken, nothing of the turn comes any more.   *)
LEMMA DoneIsQuiet ==
  ASSUME FeedOrdered, NEW t \in Turns, TurnDone(t)
  PROVE  PlanQuiet(t) /\ \A m \in MessagesOf(t) : Quiet(m)
<1>1. \A i \in DOMAIN feed : ~Of(feed[i], t)
  BY DEF TurnDone, HasEnd, FeedOrdered, EndsFollow
<1>2. PlanQuiet(t)
  BY <1>1 DEF PlanQuiet, HasPlans, Of, TurnDone
<1>3. \A m \in MessagesOf(t) : Quiet(m)
  BY <1>1 DEF Quiet, HasItems, Of, TurnDone, MessagesOf
<1> QED
  BY <1>2, <1>3

LEMMA TakenStates ==
  ASSUME TypeOK, FeedOrdered, Taken
  PROVE  /\ \A m \in Messages : /\ Quiet(m) => Quiet(m)'
                                /\ IsItemEnd(Head(feed), m) => Quiet(m)'
                                /\ Quiet(m) => ~IsItem(Head(feed), m)
                                /\ IsItem(Head(feed), m) => ~TurnDone(TurnOf[m])'
         /\ \A t \in Turns : /\ PlanQuiet(t) => PlanQuiet(t)' /\ ~IsPlan(Head(feed), t)
                             /\ IsPlanEnd(Head(feed), t) => PlanQuiet(t)'
                             /\ TurnDone(t)' <=> TurnDone(t) \/ IsEnd(Head(feed), t)
<1>1. feed \in Seq(Inputs) /\ feed # <<>> /\ feed' = Tail(feed) /\ UNCHANGED <<said, planned, ended>>
  BY DEF TypeOK, WorkerTyped, Taken
<1>2. \A m \in Messages : (Quiet(m) => Quiet(m)') /\ (Quiet(m) => ~IsItem(Head(feed), m))
  BY <1>1, TakenFeed DEF Quiet, ItemEnded, TurnEnded
<1>3. ASSUME NEW m \in Messages, IsItemEnd(Head(feed), m)
      PROVE  Quiet(m)'
  <2>1. ItemEnded(m) /\ \A i \in DOMAIN feed : i > 1 => ~IsItem(feed[i], m)
    BY <1>1, <1>3, TailFeed DEF FeedOrdered, ItemEndsAreLast
  <2>2. \A i \in DOMAIN feed' : ~IsItem(feed'[i], m)
    BY <1>1, <2>1, TailFeed
  <2> QED
    BY <1>1, <2>1, <2>2 DEF Quiet, HasItems, ItemEnded
<1>4. ASSUME NEW m \in Messages, IsItem(Head(feed), m)
      PROVE  ~TurnDone(TurnOf[m])'
  <2> DEFINE t == TurnOf[m]
  <2>1. t \in Turns /\ Of(Head(feed), t)
    BY <1>4, OfItem
  <2>2. ~IsEnd(Head(feed), t)
    BY <1>4 DEF IsItem, IsEnd
  <2>3. ASSUME TurnEnded(t) PROVE HasEnd(t)
    BY <1>1, <2>1, <2>3, TailFeed DEF FeedOrdered, EndsFollow, HasEnd
  <2>4. HasEnd(t) => HasEnd(t)'
    BY <2>1, <2>2, TakenFeed
  <2>5. TurnEnded(t)' <=> TurnEnded(t)
    BY <1>1 DEF TurnEnded
  <2> HIDE DEF t
  <2> QED
    BY <2>3, <2>4, <2>5 DEF TurnDone, t
<1>5. \A t \in Turns : PlanQuiet(t) => PlanQuiet(t)' /\ ~IsPlan(Head(feed), t)
  BY <1>1, TakenFeed DEF PlanQuiet, PlanEnded, TurnEnded
<1>6. ASSUME NEW t \in Turns, IsPlanEnd(Head(feed), t)
      PROVE  PlanQuiet(t)'
  <2>1. PlanEnded(t) /\ \A i \in DOMAIN feed : i > 1 => ~IsPlan(feed[i], t)
    BY <1>1, <1>6, TailFeed DEF FeedOrdered, PlanEndsAreLast
  <2>2. \A i \in DOMAIN feed' : ~IsPlan(feed'[i], t)
    BY <1>1, <2>1, TailFeed
  <2> QED
    BY <1>1, <2>1, <2>2 DEF PlanQuiet, HasPlans, PlanEnded
<1>7. ASSUME NEW t \in Turns
      PROVE  TurnDone(t)' <=> TurnDone(t) \/ IsEnd(Head(feed), t)
  <2>1. TurnEnded(t)' <=> TurnEnded(t)
    BY <1>1 DEF TurnEnded
  <2>2. HasEnd(t) <=> HasEnd(t)' \/ IsEnd(Head(feed), t)
    BY TakenFeed
  <2>3. ASSUME IsEnd(Head(feed), t) PROVE TurnEnded(t) /\ ~HasEnd(t)'
    <3>1. TurnEnded(t) /\ \A i \in DOMAIN feed : i > 1 => ~Of(feed[i], t)
      BY <1>1, <2>3, TailFeed DEF FeedOrdered, EndsAreLast
    <3>2. \A i \in DOMAIN feed' : ~Of(feed'[i], t)
      BY <1>1, <3>1, TailFeed
    <3> QED
      BY <3>1, <3>2 DEF HasEnd, Of
  <2> QED
    BY <2>1, <2>2, <2>3 DEF TurnDone
<1> QED
  BY <1>2, <1>3, <1>4, <1>5, <1>6, <1>7

-----------------------------------------------------------------------------
(* What the provider emits is emitted in order *)

LEMMA SayDeltaEmits ==
  ASSUME TypeOK, NEW m \in Messages, SayDelta(m)
  PROVE  Emitted([type |-> "content.delta", m |-> m, n |-> said[m] + 1])
<1> DEFINE e == [type |-> "content.delta", m |-> m, n |-> said[m] + 1]
<1>1. /\ said \in [Messages -> Nat] /\ planned \in [Turns -> Nat]
      /\ said' = [said EXCEPT ![m] = said[m] + 1] /\ UNCHANGED <<planned, ended>>
      /\ ~ItemEnded(m) /\ ~TurnEnded(TurnOf[m])
  BY DEF TypeOK, ProviderTyped, SayDelta, Running, Over, ItemEnded, TurnEnded
<1>2. feed' = Append(feed, e)
  BY <1>1 DEF SayDelta, Emit
<1>3. e \in Inputs
  BY <1>1 DEF Inputs
<1>4. /\ \A k \in Messages : IsItem(e, k) <=> k = m
      /\ \A k \in Messages : IsDelta(e, k) <=> k = m
      /\ \A k \in Messages : ~IsItemEnd(e, k)
      /\ \A t \in Turns : ~IsPlan(e, t) /\ ~IsPlanDelta(e, t) /\ ~IsPlanEnd(e, t) /\ ~IsEnd(e, t)
      /\ e.n = said[m] + 1
  BY DEF IsItem, IsDelta, IsItemEnd, IsPlan, IsPlanDelta, IsPlanEnd, IsEnd
<1> HIDE DEF e
<1>5. \A t \in Turns : Of(e, t) => ~TurnEnded(t)
  BY <1>1, <1>4 DEF Of, MessagesOf
<1>6. \A k \in Messages : said'[k] >= said[k] /\ (IsItem(e, k) \/ said'[k] = said[k])
                          /\ (IsDelta(e, k) => e.n = said[k] + 1 /\ said'[k] = said[k] + 1)
  BY <1>1, <1>4
<1> QED
  BY <1>1, <1>2, <1>3, <1>4, <1>5, <1>6, SMTT(30) DEF Emitted, e, ItemEnded, TurnEnded

LEMMA CompleteItemEmits ==
  ASSUME TypeOK, NEW m \in Messages, CompleteItem(m)
  PROVE  \E detail \in {<<>>, UpTo(said'[m])} :
           /\ Emitted([type |-> "item.completed", m |-> m, detail |-> detail])
           /\ \/ said' = said
              \/ said[m] = 0 /\ said' = [said EXCEPT ![m] = 1] /\ detail = UpTo(1)
<1>1. PICK long \in BOOLEAN :
        /\ said' = [said EXCEPT ![m] = IF long /\ @ = 0 THEN 1 ELSE @]
        /\ Emit([type |-> "item.completed", m |-> m,
                 detail |-> IF long THEN UpTo(said'[m]) ELSE <<>>])
  BY DEF CompleteItem
<1> DEFINE detail == IF long THEN UpTo(said'[m]) ELSE <<>>
           e == [type |-> "item.completed", m |-> m, detail |-> detail]
<1>2. /\ said \in [Messages -> Nat] /\ planned \in [Turns -> Nat]
      /\ planned' = planned /\ ended' = ended \cup {<<"item", m>>}
      /\ ~ItemEnded(m) /\ ~TurnEnded(TurnOf[m])
  BY DEF TypeOK, ProviderTyped, CompleteItem, Running, Over, ItemEnded, TurnEnded
<1>3. /\ said' \in [Messages -> Nat]
      /\ \A k \in Messages : said'[k] >= said[k] /\ (k = m \/ said'[k] = said[k])
      /\ said' = said \/ (long /\ said[m] = 0 /\ said' = [said EXCEPT ![m] = 1])
  <2>1. CASE long /\ said[m] = 0
    BY <1>1, <1>2, <2>1
  <2>2. CASE ~(long /\ said[m] = 0)
    <3>1. said' = said
      BY <1>1, <1>2, <2>2
    <3> QED
      BY <1>2, <3>1
  <2> QED
    BY <2>1, <2>2
<1>4. said'[m] \in Nat
  BY <1>3
<1>5. detail \in Texts /\ detail \in {<<>>, UpTo(said'[m])}
  BY <1>4, UpToType, EmptyLists
<1>6. said' # said => detail = UpTo(1)
  BY <1>2, <1>3
<1> HIDE DEF detail
<1>7. e \in Inputs
  BY <1>5 DEF Inputs
<1>8. /\ \A k \in Messages : IsItem(e, k) <=> k = m
      /\ \A k \in Messages : IsItemEnd(e, k) <=> k = m
      /\ \A k \in Messages : ~IsDelta(e, k)
      /\ \A t \in Turns : ~IsPlan(e, t) /\ ~IsPlanDelta(e, t) /\ ~IsPlanEnd(e, t) /\ ~IsEnd(e, t)
      /\ e.detail = detail
  BY DEF IsItem, IsDelta, IsItemEnd, IsPlan, IsPlanDelta, IsPlanEnd, IsEnd
<1>9. feed' = Append(feed, e)
  BY <1>1 DEF Emit, detail
<1> HIDE DEF e
<1>10. \A t \in Turns : Of(e, t) => ~TurnEnded(t)
  BY <1>2, <1>8 DEF Of, MessagesOf
<1>11. /\ \A t \in Turns : <<"turn", t>> \in ended' <=> TurnEnded(t) \/ IsEnd(e, t)
       /\ <<"item", m>> \in ended' /\ ended \subseteq ended'
  BY <1>2, <1>8 DEF TurnEnded
<1>12. Emitted(e)
  BY <1>2, <1>3, <1>5, <1>7, <1>8, <1>9, <1>10, <1>11 DEF Emitted
<1> QED
  BY <1>3, <1>5, <1>6, <1>12 DEF e

LEMMA SayPlanEmits ==
  ASSUME TypeOK, NEW t \in Turns, SayPlan(t)
  PROVE  Emitted([type |-> "turn.proposed.delta", t |-> t, n |-> planned[t] + 1])
<1> DEFINE e == [type |-> "turn.proposed.delta", t |-> t, n |-> planned[t] + 1]
<1>1. /\ said \in [Messages -> Nat] /\ planned \in [Turns -> Nat]
      /\ planned' = [planned EXCEPT ![t] = planned[t] + 1] /\ UNCHANGED <<said, ended>>
      /\ ~PlanEnded(t) /\ ~TurnEnded(t)
  BY DEF TypeOK, ProviderTyped, SayPlan, Running, Over, PlanEnded, TurnEnded
<1>2. feed' = Append(feed, e)
  BY <1>1 DEF SayPlan, Emit
<1>3. e \in Inputs
  BY <1>1 DEF Inputs
<1>4. /\ \A k \in Messages : ~IsItem(e, k) /\ ~IsDelta(e, k) /\ ~IsItemEnd(e, k)
      /\ \A u \in Turns : IsPlan(e, u) <=> u = t
      /\ \A u \in Turns : IsPlanDelta(e, u) <=> u = t
      /\ \A u \in Turns : ~IsPlanEnd(e, u) /\ ~IsEnd(e, u)
      /\ e.n = planned[t] + 1
  BY DEF IsItem, IsDelta, IsItemEnd, IsPlan, IsPlanDelta, IsPlanEnd, IsEnd
<1> HIDE DEF e
<1>5. \A u \in Turns : Of(e, u) => ~TurnEnded(u)
  BY <1>1, <1>4 DEF Of, MessagesOf
<1>6. \A u \in Turns : planned'[u] >= planned[u] /\ (IsPlan(e, u) \/ planned'[u] = planned[u])
                       /\ (IsPlanDelta(e, u) => e.n = planned[u] + 1 /\ planned'[u] = planned[u] + 1)
  BY <1>1, <1>4
<1>7. (\A u \in Turns : <<"turn", u>> \in ended' <=> TurnEnded(u) \/ IsEnd(e, u)) /\ ended \subseteq ended'
  BY <1>1, <1>4 DEF TurnEnded
<1>8. said' \in [Messages -> Nat] /\ planned' \in [Turns -> Nat]
  BY <1>1
<1> QED
  BY <1>1, <1>2, <1>3, <1>4, <1>5, <1>6, <1>7, <1>8 DEF Emitted, e

LEMMA CompletePlanEmits ==
  ASSUME TypeOK, NEW t \in Turns, CompletePlan(t)
  PROVE  /\ \E markdown \in {<<>>, UpTo(planned[t])} :
              Emitted([type |-> "turn.proposed.completed", t |-> t, markdown |-> markdown])
         /\ UNCHANGED <<said, planned>>
<1>1. PICK markdown \in {<<>>, UpTo(planned[t])} :
        Emit([type |-> "turn.proposed.completed", t |-> t, markdown |-> markdown])
  BY DEF CompletePlan
<1> DEFINE e == [type |-> "turn.proposed.completed", t |-> t, markdown |-> markdown]
<1>2. /\ said \in [Messages -> Nat] /\ planned \in [Turns -> Nat]
      /\ UNCHANGED <<said, planned>> /\ ended' = ended \cup {<<"plan", t>>}
      /\ ~PlanEnded(t) /\ ~TurnEnded(t)
  BY DEF TypeOK, ProviderTyped, CompletePlan, Running, Over, PlanEnded, TurnEnded
<1>3. markdown \in Texts
  BY <1>2, UpToType, EmptyLists
<1>4. e \in Inputs
  BY <1>3 DEF Inputs
<1>5. /\ \A k \in Messages : ~IsItem(e, k) /\ ~IsDelta(e, k) /\ ~IsItemEnd(e, k)
      /\ \A u \in Turns : IsPlan(e, u) <=> u = t
      /\ \A u \in Turns : IsPlanEnd(e, u) <=> u = t
      /\ \A u \in Turns : ~IsPlanDelta(e, u) /\ ~IsEnd(e, u)
      /\ e.markdown = markdown
  BY DEF IsItem, IsDelta, IsItemEnd, IsPlan, IsPlanDelta, IsPlanEnd, IsEnd
<1>6. feed' = Append(feed, e)
  BY <1>1 DEF Emit
<1> HIDE DEF e
<1>7. \A u \in Turns : Of(e, u) => ~TurnEnded(u)
  BY <1>2, <1>5 DEF Of, MessagesOf
<1>8. /\ \A u \in Turns : <<"turn", u>> \in ended' <=> TurnEnded(u) \/ IsEnd(e, u)
      /\ <<"plan", t>> \in ended' /\ ended \subseteq ended'
  BY <1>2, <1>5 DEF TurnEnded
<1>9. Emitted(e)
  BY <1>2, <1>4, <1>5, <1>6, <1>7, <1>8 DEF Emitted, PlanEnded
<1> QED
  BY <1>2, <1>9 DEF e

LEMMA CompleteTurnEmits ==
  ASSUME TypeOK, NEW t \in Turns, CompleteTurn(t)
  PROVE  Emitted([type |-> "turn.completed", t |-> t]) /\ UNCHANGED <<said, planned>>
<1> DEFINE e == [type |-> "turn.completed", t |-> t]
<1>1. /\ said \in [Messages -> Nat] /\ planned \in [Turns -> Nat]
      /\ UNCHANGED <<said, planned>> /\ ended' = ended \cup {<<"turn", t>>} /\ ~TurnEnded(t)
      /\ feed' = Append(feed, e)
  BY DEF TypeOK, ProviderTyped, CompleteTurn, Running, Over, TurnEnded, Emit
<1>2. e \in Inputs
  BY DEF Inputs
<1>3. /\ \A k \in Messages : ~IsItem(e, k) /\ ~IsDelta(e, k) /\ ~IsItemEnd(e, k)
      /\ \A u \in Turns : ~IsPlan(e, u) /\ ~IsPlanDelta(e, u) /\ ~IsPlanEnd(e, u)
      /\ \A u \in Turns : IsEnd(e, u) <=> u = t
  BY DEF IsItem, IsDelta, IsItemEnd, IsPlan, IsPlanDelta, IsPlanEnd, IsEnd
<1> HIDE DEF e
<1>4. \A u \in Turns : Of(e, u) => ~TurnEnded(u)
  BY <1>1, <1>3 DEF Of, MessagesOf
<1>5. (\A u \in Turns : <<"turn", u>> \in ended' <=> TurnEnded(u) \/ IsEnd(e, u)) /\ ended \subseteq ended'
  BY <1>1, <1>3 DEF TurnEnded
<1> QED
  BY <1>1, <1>2, <1>3, <1>4, <1>5 DEF Emitted, e

LEMMA ExitSessionEmits ==
  ASSUME TypeOK, NEW t \in Turns, ExitSession(t)
  PROVE  Emitted([type |-> "session.exited", t |-> t]) /\ UNCHANGED <<said, planned>>
<1> DEFINE e == [type |-> "session.exited", t |-> t]
<1>1. /\ said \in [Messages -> Nat] /\ planned \in [Turns -> Nat]
      /\ UNCHANGED <<said, planned, ended>> /\ feed' = Append(feed, e)
  BY DEF TypeOK, ProviderTyped, ExitSession, Emit
<1>2. e \in Inputs
  BY DEF Inputs
<1>3. /\ \A k \in Messages : ~IsItem(e, k) /\ ~IsDelta(e, k) /\ ~IsItemEnd(e, k)
      /\ \A u \in Turns : /\ ~IsPlan(e, u) /\ ~IsPlanDelta(e, u) /\ ~IsPlanEnd(e, u)
                          /\ ~IsEnd(e, u) /\ ~Of(e, u)
  BY DEF IsItem, IsDelta, IsItemEnd, IsPlan, IsPlanDelta, IsPlanEnd, IsEnd, Of, MessagesOf
<1> HIDE DEF e
<1> QED
  BY <1>1, <1>2, <1>3 DEF Emitted, e, TurnEnded

-----------------------------------------------------------------------------
(* What the worker has in hand *)

Does(op, m) == \E i \in DOMAIN work : work[i].op = op /\ work[i].m = m
DoesFor(op, t) == \E i \in DOMAIN work : work[i].op = op /\ work[i].t = t

(***************************************************************************)
(* A delivery comes first; a message is finished when nothing more of it   *)
(* comes, with a fallback only if none of it was delivered; it is forgotten *)
(* once it is complete; a turn's ids and plan are cleared when it is done. *)
(***************************************************************************)
Orderly(i) ==
    /\ work[i].op \in {"delta", "upsert"} => i = 1 /\ work[i].text # <<>>
    /\ work[i].op \in {"finalize", "complete", "forget"} => Quiet(work[i].m)
    /\ work[i].op = "finalize" /\ work[i].text # <<>> =>
         /\ i = 1 /\ text[work[i].m] = <<>> /\ work[i].text = UpTo(said[work[i].m])
         /\ \A j \in DOMAIN work : j > 1 => work[j].op = "forget"
    /\ work[i].op = "complete" \/ (work[i].op = "forget" /\ i = 1) => buffer[work[i].m] = <<>>
    /\ work[i].op = "forget" /\ i = 1 =>
         work[i].m \in excused \/ shown[work[i].m] = "complete"
    /\ work[i].op = "forget" /\ i > 1 =>
         work[i - 1].op \in {"finalize", "complete"} /\ work[i - 1].m = work[i].m
    /\ work[i].op = "clear" => TurnDone(work[i].t)
    /\ work[i].op \in {"finalizePlan", "upsert"} => PlanQuiet(work[i].t)
    /\ work[i].op = "finalizePlan" => work[i].text \in {<<>>, UpTo(planned[work[i].t])}

WorkOrdered == \A i \in DOMAIN work : Orderly(i)

(***************************************************************************)
(* The three places of a message's text share no delta, repeat none, and   *)
(* hold none that is still to come.                                        *)
(***************************************************************************)
Elements(m) == Range(text[m]) \cup Range(InHand(m)) \cup Range(buffer[m])

Apart(a, b) == Range(a) \cap Range(b) = {}

OnceOf(m) ==
    /\ IsInjective(text[m]) /\ IsInjective(InHand(m)) /\ IsInjective(buffer[m])
    /\ Apart(text[m], InHand(m)) /\ Apart(text[m], buffer[m]) /\ Apart(InHand(m), buffer[m])
    /\ \A v \in Elements(m) : v <= said[m] /\ \A n \in Numbers(m) : v < n

SaidOnce == \A m \in Messages : OnceOf(m)

(***************************************************************************)
(* The three places continue each other and the feed continues them; only  *)
(* a message that came as the detail of its item is not told at first.     *)
(***************************************************************************)
Told(m) == Len(text[m]) + Len(InHand(m)) + Len(buffer[m])

DetailOnly(m) ==
    /\ Told(m) = 0 /\ said[m] = 1 /\ Numbers(m) = {} /\ ItemEnded(m)
    /\ \/ \E i \in DOMAIN feed : IsItemEnd(feed[i], m) /\ feed[i].detail = UpTo(1)
       \/ work # <<>> /\ Head(work) = Finalize(m, UpTo(1))

InPlace(m) ==
    /\ \A i \in DOMAIN text[m] : text[m][i] = i
    /\ \A i \in DOMAIN InHand(m) : InHand(m)[i] = Len(text[m]) + i
    /\ \A i \in DOMAIN buffer[m] : buffer[m][i] = Len(text[m]) + Len(InHand(m)) + i

WholeOf(m) ==
    /\ InPlace(m) /\ Told(m) <= said[m]
    /\ Numbers(m) = (Told(m) + 1)..said[m] \/ DetailOnly(m)
    /\ shown[m] = "complete" =>
         Quiet(m) /\ InHand(m) = <<>> /\ buffer[m] = <<>> /\ Len(text[m]) = said[m]

Whole == \A m \in Messages \ excused : WholeOf(m)

(***************************************************************************)
(* A message that was begun is complete, or will be: it comes, is in hand, *)
(* or is remembered by a turn that is not done.                            *)
(***************************************************************************)
Remembered(m) == m \in remembered[TurnOf[m]] /\ ~TurnDone(TurnOf[m])

SettlingOf(m) ==
    /\ said[m] > 0 => \/ HasItems(m) \/ shown[m] = "complete"
                      \/ Does("finalize", m) \/ Does("complete", m) \/ Remembered(m)
    /\ buffer[m] # <<>> => Does("finalize", m) \/ Remembered(m)

Settling == \A m \in Messages \ excused : SettlingOf(m)

(***************************************************************************)
(* The same for the plan of a turn: it is buffered, about to be written or *)
(* written.                                                                *)
(***************************************************************************)
PlanBuffered(t) ==
    /\ plan[t] = <<>> /\ ~DoesFor("upsert", t)
    /\ \A i \in DOMAIN planBuffer[t] : planBuffer[t][i] = i
    /\ Len(planBuffer[t]) <= planned[t]
    /\ PlanNumbers(t) = (Len(planBuffer[t]) + 1)..planned[t]

PlanWritten(t) ==
    /\ PlanQuiet(t) /\ planBuffer[t] = <<>>
    /\ \/ work # <<>> /\ Head(work) = Upsert(t, UpTo(planned[t]))
       \/ plan[t] = UpTo(planned[t]) /\ ~DoesFor("upsert", t)

PlanWhole == \A t \in Turns \ excused : PlanBuffered(t) \/ PlanWritten(t)

SettledOf(t) ==
    TurnDone(t) =>
        /\ remembered[t] = {} \/ DoesFor("clear", t)
        /\ planBuffer[t] = <<>> \/ DoesFor("finalizePlan", t)

TurnSettling == \A t \in Turns \ excused : SettledOf(t)

IInv == /\ TypeOK /\ FeedOrdered /\ WorkOrdered /\ SaidOnce /\ Whole
        /\ Settling /\ PlanWhole /\ TurnSettling

\* The worker and the thread stand still.
WorkerRests == UNCHANGED <<work, buffer, planBuffer, remembered, text, shown, plan, excused>>

LEMMA TypeFacts ==
  ASSUME TypeOK
  PROVE  /\ feed \in Seq(Inputs) /\ work \in Seq(Steps)
         /\ said \in [Messages -> Nat] /\ planned \in [Turns -> Nat]
         /\ buffer \in [Messages -> Texts] /\ text \in [Messages -> Texts]
         /\ planBuffer \in [Turns -> Texts] /\ plan \in [Turns -> Texts]
         /\ remembered \in [Turns -> SUBSET Messages]
         /\ shown \in [Messages -> {"none", "streaming", "complete"}]
         /\ TurnOf \in [Messages -> Turns]
BY MessagesAssumption DEF TypeOK, WorkerTyped, ProviderTyped, ThreadTyped

LEMMA WorkAt ==
  ASSUME TypeOK, NEW i \in DOMAIN work
  PROVE  /\ i \in Nat \ {0} /\ work[i] \in Steps
         /\ work[i].op \in {"delta", "finalize"} => work[i].m \in Messages /\ work[i].text \in Texts
         /\ work[i].op \in {"complete", "forget"} => work[i].m \in Messages
         /\ work[i].op \in {"finalizePlan", "upsert"} => work[i].t \in Turns /\ work[i].text \in Texts
         /\ work[i].op \in {"session", "clear"} => work[i].t \in Turns
<1>1. i \in Nat \ {0} /\ work[i] \in Steps
  BY TypeFacts
<1> QED
  BY <1>1 DEF Steps

LEMMA InHandType ==
  ASSUME TypeOK, NEW m \in Messages
  PROVE  InHand(m) \in Texts
<1>1. work # <<>> => Head(work) = work[1] /\ 1 \in DOMAIN work
  BY TypeFacts
<1> QED
  BY <1>1, WorkAt, EmptyLists DEF InHand

LEMMA RestingPlaces ==
  ASSUME WorkerRests
  PROVE  /\ \A m : InHand(m)' = InHand(m) /\ Told(m)' = Told(m) /\ Elements(m)' = Elements(m)
                   /\ (InPlace(m)' <=> InPlace(m))
         /\ \A op, m : Does(op, m)' <=> Does(op, m)
         /\ \A op, t : DoesFor(op, t)' <=> DoesFor(op, t)
BY DEF WorkerRests, InHand, Told, Elements, InPlace, Does, DoesFor

LEMMA EmittedWork ==
  ASSUME TypeOK, WorkOrdered, NEW e, Emitted(e), WorkerRests
  PROVE  WorkOrdered'
<1> SUFFICES ASSUME NEW i \in DOMAIN work PROVE Orderly(i)'
  BY DEF WorkOrdered, WorkerRests
<1> DEFINE o == work[i]
<1>1. Orderly(i) /\ UNCHANGED <<work, buffer, text, shown, excused>>
  BY DEF WorkOrdered, WorkerRests
<1>2. o.op \in {"finalize", "complete", "forget"} => o.m \in Messages
  BY WorkAt
<1>3. o.op \in {"finalizePlan", "upsert"} => o.t \in Turns
  BY WorkAt
<1>4. o.op = "clear" => o.t \in Turns
  BY WorkAt
<1> QED
  BY <1>1, <1>2, <1>3, <1>4, EmittedStill, EmittedStates DEF Orderly, UpTo

LEMMA EmittedSaid ==
  ASSUME TypeOK, SaidOnce, NEW e, Emitted(e), WorkerRests
  PROVE  SaidOnce'
<1>1. UNCHANGED <<text, buffer>> /\ \A m : InHand(m)' = InHand(m) /\ Elements(m)' = Elements(m)
  BY RestingPlaces DEF WorkerRests
<1>2. ASSUME NEW m \in Messages, NEW v \in Elements(m)
      PROVE  v <= said'[m] /\ \A n \in Numbers(m)' : v < n
  <2>1. v \in Nat
    <3>1. text[m] \in Seq(Nat \ {0}) /\ InHand(m) \in Seq(Nat \ {0}) /\ buffer[m] \in Seq(Nat \ {0})
      BY TypeFacts, InHandType DEF Texts
    <3> QED
      BY <3>1 DEF Elements, Range
  <2>2. v <= said[m] /\ \A n \in Numbers(m) : v < n
    BY DEF SaidOnce, OnceOf
  <2>3. v <= said'[m] /\ (IsDelta(e, m) => v < e.n)
    BY <2>1, <2>2, EmittedNumbers
  <2> QED
    BY <2>2, <2>3, EmittedFeed
<1> QED
  BY <1>1, <1>2 DEF SaidOnce, OnceOf, Apart

LEMMA EmittedWhole ==
  ASSUME TypeOK, Whole, NEW e, Emitted(e), WorkerRests,
         \A m \in Messages : IsItemEnd(e, m) =>
            said' = said \/ (said[m] = 0 /\ said' = [said EXCEPT ![m] = 1] /\ e.detail = UpTo(1))
  PROVE  Whole'
<1>1. UNCHANGED <<text, buffer, work, shown, excused>>
  BY DEF WorkerRests
<1> SUFFICES ASSUME NEW m \in Messages \ excused
             PROVE  /\ InPlace(m)' /\ Told(m)' <= said'[m]
                    /\ Numbers(m)' = (Told(m)' + 1)..said'[m] \/ DetailOnly(m)'
                    /\ shown[m] = "complete" =>
                         /\ Quiet(m)' /\ InHand(m)' = <<>> /\ buffer[m] = <<>>
                         /\ Len(text[m]) = said'[m]
  BY <1>1 DEF Whole, WholeOf
<1>2. /\ InPlace(m) /\ Told(m) <= said[m]
      /\ Numbers(m) = (Told(m) + 1)..said[m] \/ DetailOnly(m)
      /\ shown[m] = "complete" =>
           Quiet(m) /\ InHand(m) = <<>> /\ buffer[m] = <<>> /\ Len(text[m]) = said[m]
  BY DEF Whole, WholeOf
<1>3. InPlace(m)' /\ Told(m)' = Told(m) /\ InHand(m)' = InHand(m)
  BY <1>2, RestingPlaces
<1>4. Told(m) \in Nat /\ said[m] \in Nat
  BY TypeFacts, InHandType DEF Told, Texts
<1>5. CASE ~IsItem(e, m)
  <2>1. said'[m] = said[m] /\ Numbers(m)' = Numbers(m)
    <3>1. ~IsDelta(e, m)
      BY <1>5 DEF IsItem, IsDelta
    <3>2. Numbers(m)' = Numbers(m) \cup {}
      BY <3>1, EmittedFeed
    <3> QED
      BY <1>5, <3>2, EmittedStill
  <2>2. DetailOnly(m) => DetailOnly(m)'
    <3>1. feed \in Seq(Inputs) /\ feed' = Append(feed, e) /\ ended \subseteq ended'
      BY TypeFacts DEF Emitted
    <3>2. (\E i \in DOMAIN feed : IsItemEnd(feed[i], m) /\ feed[i].detail = UpTo(1))
            => (\E i \in DOMAIN feed' : IsItemEnd(feed'[i], m) /\ feed'[i].detail = UpTo(1))
      BY <3>1, AppendFeed
    <3> QED
      BY <1>1, <1>3, <2>1, <3>1, <3>2 DEF DetailOnly, ItemEnded, UpTo, Finalize
  <2>3. Quiet(m) => Quiet(m)'
    BY EmittedStates
  <2> QED
    BY <1>2, <1>3, <2>1, <2>2, <2>3
<1>6. CASE IsItem(e, m)
  <2>1. ~ItemEnded(m) /\ shown[m] # "complete"
    <3>1. ~ItemEnded(m) /\ ~TurnEnded(TurnOf[m])
      BY <1>6, OfItem DEF Emitted
    <3> QED
      BY <1>2, <3>1 DEF Quiet
  <2>2. Numbers(m) = (Told(m) + 1)..said[m]
    BY <1>2, <2>1 DEF DetailOnly
  <2>3. CASE IsDelta(e, m)
    <3>1. said'[m] = said[m] + 1 /\ e.n = said[m] + 1
      BY <2>3, EmittedNumbers
    <3>2. Numbers(m)' = Numbers(m) \cup {said[m] + 1}
      BY <2>3, <3>1, EmittedFeed
    <3>3. Numbers(m)' = (Told(m) + 1)..said'[m]
      BY <1>2, <1>4, <2>2, <3>1, <3>2
    <3> QED
      BY <1>2, <1>3, <1>4, <2>1, <3>1, <3>3
  <2>4. CASE IsItemEnd(e, m)
    <3>1. Numbers(m)' = Numbers(m)
      <4>1. ~IsDelta(e, m)
        BY <2>4 DEF IsItemEnd, IsDelta
      <4>2. Numbers(m)' = Numbers(m) \cup {}
        BY <4>1, EmittedFeed
      <4> QED
        BY <4>2
    <3>2. CASE said' = said
      BY <1>2, <1>3, <2>1, <2>2, <3>1, <3>2
    <3>3. CASE said[m] = 0 /\ said' = [said EXCEPT ![m] = 1] /\ e.detail = UpTo(1)
      <4>1. said'[m] = 1 /\ Told(m) = 0 /\ Numbers(m)' = {}
        BY <1>2, <1>4, <2>2, <3>1, <3>3, TypeFacts
      <4>2. ItemEnded(m)'
        BY <2>4 DEF Emitted, ItemEnded
      <4>3. \E i \in DOMAIN feed' : IsItemEnd(feed'[i], m) /\ feed'[i].detail = UpTo(1)
        <5>1. feed \in Seq(Inputs) /\ feed' = Append(feed, e)
          BY TypeFacts DEF Emitted
        <5>2. Len(feed) + 1 \in DOMAIN feed' /\ feed'[Len(feed) + 1] = e
          BY <5>1, AppendFeed
        <5> QED
          BY <2>4, <3>3, <5>2
      <4>4. DetailOnly(m)'
        BY <1>3, <4>1, <4>2, <4>3 DEF DetailOnly, UpTo
      <4> QED
        BY <1>3, <2>1, <4>1, <4>4
    <3> QED
      BY <2>4, <3>2, <3>3
  <2> QED
    BY <1>6, <2>3, <2>4 DEF IsItem, IsDelta, IsItemEnd
<1> QED
  BY <1>5, <1>6

LEMMA EmittedSettling ==
  ASSUME TypeOK, Settling, NEW e, Emitted(e), WorkerRests
  PROVE  Settling'
<1> SUFFICES ASSUME NEW m \in Messages \ excused
             PROVE  /\ said'[m] > 0 => \/ HasItems(m)' \/ shown[m] = "complete"
                                       \/ Does("finalize", m)' \/ Does("complete", m)' \/ Remembered(m)'
                    /\ buffer[m] # <<>> => Does("finalize", m)' \/ Remembered(m)'
  BY DEF Settling, SettlingOf, WorkerRests
<1>1. TurnDone(TurnOf[m])' <=> TurnDone(TurnOf[m])
  BY TypeFacts, EmittedStates
<1>2. Remembered(m)' <=> Remembered(m)
  BY <1>1 DEF Remembered, WorkerRests
<1>3. said'[m] = said[m] \/ IsItem(e, m)
  BY DEF Emitted
<1>4. HasItems(m)' <=> HasItems(m) \/ IsItem(e, m)
  BY EmittedFeed
<1> QED
  BY <1>2, <1>3, <1>4, RestingPlaces DEF Settling, SettlingOf

LEMMA EmittedPlans ==
  ASSUME TypeOK, PlanWhole, TurnSettling, NEW e, Emitted(e), WorkerRests,
         \A t \in Turns : IsPlanEnd(e, t) => planned'[t] = planned[t]
  PROVE  PlanWhole' /\ TurnSettling'
<1>1. UNCHANGED <<plan, planBuffer, work, excused, remembered>>
  BY DEF WorkerRests
<1>2. ASSUME NEW t \in Turns \ excused
      PROVE  PlanBuffered(t)' \/ PlanWritten(t)'
  <2>1. planned[t] \in Nat /\ Len(planBuffer[t]) \in Nat
    BY TypeFacts DEF Texts
  <2>2. CASE PlanBuffered(t)
    <3>1. CASE ~IsPlan(e, t)
      <4>1. planned'[t] = planned[t] /\ PlanNumbers(t)' = PlanNumbers(t)
        BY <3>1, EmittedStill, EmittedFeed DEF IsPlan, IsPlanDelta
      <4> QED
        BY <1>1, <2>2, <4>1, RestingPlaces DEF PlanBuffered
    <3>2. CASE IsPlanDelta(e, t)
      <4>1. planned'[t] = planned[t] + 1 /\ PlanNumbers(t)' = PlanNumbers(t) \cup {planned[t] + 1}
        BY <3>2, EmittedNumbers, EmittedFeed
      <4>2. PlanNumbers(t)' = (Len(planBuffer[t]) + 1)..planned'[t]
        BY <2>1, <2>2, <4>1 DEF PlanBuffered
      <4> QED
        BY <1>1, <2>1, <2>2, <4>1, <4>2, RestingPlaces DEF PlanBuffered
    <3>3. CASE IsPlanEnd(e, t) /\ planned'[t] = planned[t]
      <4>1. PlanNumbers(t)' = PlanNumbers(t)
        BY <3>3, EmittedFeed DEF IsPlanEnd, IsPlanDelta
      <4> QED
        BY <1>1, <2>2, <3>3, <4>1, RestingPlaces DEF PlanBuffered
    <3>4. IsPlanEnd(e, t) => planned'[t] = planned[t]
      OBVIOUS
    <3> QED
      BY <3>1, <3>2, <3>3, <3>4 DEF IsPlan, IsPlanDelta, IsPlanEnd
  <2>3. CASE PlanWritten(t)
    <3>1. ~IsPlan(e, t) /\ PlanQuiet(t)'
      BY <2>3, EmittedStates DEF PlanWritten, PlanQuiet, Emitted, Of
    <3>2. planned'[t] = planned[t]
      BY <3>1 DEF Emitted
    <3> QED
      BY <1>1, <2>3, <3>1, <3>2, RestingPlaces DEF PlanWritten, UpTo, Upsert
  <2> QED
    BY <2>2, <2>3 DEF PlanWhole
<1>3. TurnSettling'
  BY <1>1, EmittedStates, RestingPlaces DEF TurnSettling, SettledOf
<1> QED
  BY <1>1, <1>2, <1>3 DEF PlanWhole

-----------------------------------------------------------------------------
(* What a step of the worker leaves as it is *)

FeedRests == UNCHANGED <<said, planned, ended, feed>>

LEMMA RestingFeed ==
  ASSUME FeedRests
  PROVE  /\ \A m : /\ Quiet(m)' <=> Quiet(m)
                   /\ HasItems(m)' <=> HasItems(m)
                   /\ Numbers(m)' = Numbers(m)
         /\ \A t : /\ PlanQuiet(t)' <=> PlanQuiet(t)
                   /\ PlanNumbers(t)' = PlanNumbers(t)
                   /\ TurnDone(t)' <=> TurnDone(t)
         /\ FeedOrdered' <=> FeedOrdered
<1> USE DEF FeedRests
<1>1. \A m : /\ HasItems(m)' <=> HasItems(m)
             /\ Numbers(m)' = Numbers(m)
  BY DEF HasItems, Numbers
<1>2. \A t : /\ HasPlans(t)' <=> HasPlans(t)
             /\ HasEnd(t)' <=> HasEnd(t)
             /\ PlanNumbers(t)' = PlanNumbers(t)
  BY DEF HasPlans, HasEnd, PlanNumbers
<1>3. \A m : Quiet(m)' <=> Quiet(m)
  BY <1>1 DEF Quiet, ItemEnded, TurnEnded
<1>4. \A t : /\ PlanQuiet(t)' <=> PlanQuiet(t)
             /\ TurnDone(t)' <=> TurnDone(t)
  BY <1>2 DEF PlanQuiet, TurnDone, PlanEnded, TurnEnded
<1>5. FeedOrdered' <=> FeedOrdered
  BY DEF FeedOrdered, EndsAreLast, EndsFollow, ItemEndsAreLast, DeltasGrow, PlanEndsAreLast,
         PlanDeltasGrow, ItemEnded, PlanEnded, TurnEnded, UpTo
<1> QED
  BY <1>1, <1>2, <1>3, <1>4, <1>5

(* The places of a message only lose what they hold.                       *)
LEMMA OnceShrinks ==
  ASSUME NEW m, OnceOf(m), said'[m] = said[m], Numbers(m)' \subseteq Numbers(m),
         text'[m] = text[m], InHand(m)' \in {InHand(m), <<>>}, buffer'[m] \in {buffer[m], <<>>}
  PROVE  OnceOf(m)'
<1>1. IsInjective(<<>>) /\ Range(<<>>) = {}
  BY DEF IsInjective, Range
<1>2. Range(InHand(m)') \subseteq Range(InHand(m)) /\ Range(buffer'[m]) \subseteq Range(buffer[m])
  BY <1>1
<1>3. IsInjective(InHand(m)') /\ IsInjective(buffer'[m])
  BY <1>1 DEF OnceOf
<1>4. Elements(m)' \subseteq Elements(m)
  BY <1>2 DEF Elements
<1>5. /\ Apart(text[m], InHand(m)') /\ Apart(text[m], buffer'[m])
      /\ Apart(InHand(m)', buffer'[m])
  BY <1>2 DEF OnceOf, Apart
<1>6. \A v \in Elements(m)' : v <= said'[m] /\ \A n \in Numbers(m)' : v < n
  BY <1>4 DEF OnceOf
<1> QED
  BY <1>3, <1>5, <1>6 DEF OnceOf, Apart

LEMMA WholeStays ==
  ASSUME NEW m, WholeOf(m), said'[m] = said[m], Numbers(m)' = Numbers(m),
         text'[m] = text[m], InHand(m)' = InHand(m), buffer'[m] = buffer[m],
         shown'[m] = shown[m], Quiet(m) => Quiet(m)', DetailOnly(m) => DetailOnly(m)'
  PROVE  WholeOf(m)'
<1>1. Told(m)' = Told(m) /\ (InPlace(m)' <=> InPlace(m))
  BY DEF Told, InPlace
<1> QED
  BY <1>1 DEF WholeOf

(* When the feed rests, only the step in hand can be a reason for it.      *)
LEMMA DetailRests ==
  ASSUME FeedRests, NEW m, DetailOnly(m), Told(m)' = Told(m),
         work # <<>> => Head(work).op # "finalize" \/ Head(work).m # m
  PROVE  DetailOnly(m)'
<1>1. PICK i \in DOMAIN feed : IsItemEnd(feed[i], m) /\ feed[i].detail = UpTo(1)
  BY DEF DetailOnly, Finalize
<1> QED
  BY <1>1, RestingFeed DEF DetailOnly, FeedRests, ItemEnded, UpTo

(***************************************************************************)
(* Most steps drop the step in hand and go on with the rest.               *)
(***************************************************************************)
LEMMA TailWork ==
  ASSUME work \in Seq(Steps), work # <<>>, work' = Tail(work)
  PROVE  /\ 1 \in DOMAIN work /\ Head(work) = work[1]
         /\ DOMAIN work \subseteq Nat \ {0} /\ DOMAIN work' \subseteq Nat \ {0}
         /\ \A i \in DOMAIN work' : i + 1 \in DOMAIN work /\ i + 1 # 1 /\ work'[i] = work[i + 1]
         /\ \A i \in DOMAIN work : i # 1 => i - 1 \in DOMAIN work' /\ work[i] = work'[i - 1]
         /\ work' # <<>> => 1 \in DOMAIN work' /\ Head(work') = work'[1]
OBVIOUS

(* Behind the step in hand nothing is delivered or written.                *)
LEMMA RestOfWork ==
  ASSUME TypeOK, WorkOrdered, NEW i \in DOMAIN work, i # 1
  PROVE  /\ work[i].op \notin {"delta", "upsert"}
         /\ work[i].op = "finalize" => work[i].text = <<>>
BY DEF WorkOrdered, Orderly

LEMMA TailPlaces ==
  ASSUME TypeOK, WorkOrdered, work # <<>>, work' = Tail(work)
  PROVE  /\ \A m : InHand(m)' = <<>>
         /\ \A t : ~DoesFor("upsert", t)'
         /\ \A op, m : Does(op, m) /\ ~(Head(work).op = op /\ Head(work).m = m) => Does(op, m)'
         /\ \A op, t : DoesFor(op, t) /\ ~(Head(work).op = op /\ Head(work).t = t) => DoesFor(op, t)'
         /\ work' # <<>> => Head(work').op # "upsert"
<1>1. work \in Seq(Steps)
  BY TypeFacts
<1>2. \A i \in DOMAIN work' : work'[i].op \notin {"delta", "upsert"}
  BY <1>1, TailWork, RestOfWork
<1>3. \A m : InHand(m)' = <<>>
  BY <1>1, <1>2, TailWork DEF InHand
<1>4. \A t : ~DoesFor("upsert", t)'
  BY <1>2 DEF DoesFor
<1>5. \A op, m : Does(op, m) /\ ~(Head(work).op = op /\ Head(work).m = m) => Does(op, m)'
  BY <1>1, TailWork DEF Does
<1>6. \A op, t : DoesFor(op, t) /\ ~(Head(work).op = op /\ Head(work).t = t) => DoesFor(op, t)'
  BY <1>1, TailWork DEF DoesFor
<1>7. work' # <<>> => Head(work').op # "upsert"
  BY <1>1, <1>2, TailWork
<1> QED
  BY <1>3, <1>4, <1>5, <1>6, <1>7

LEMMA TailOrdered ==
  ASSUME TypeOK, WorkOrdered, FeedRests, work # <<>>, work' = Tail(work),
         \A m \in Messages : buffer[m] = <<>> => buffer'[m] = <<>>,
         Head(work).op # "finalize",
         Head(work).op = "complete" => shown'[Head(work).m] = "complete"
  PROVE  WorkOrdered'
<1>1. work \in Seq(Steps)
  BY TypeFacts
<1> SUFFICES ASSUME NEW i \in DOMAIN work' PROVE Orderly(i)'
  BY DEF WorkOrdered
<1>2. /\ i \in Nat \ {0} /\ i + 1 \in DOMAIN work /\ i + 1 # 1 /\ work'[i] = work[i + 1]
      /\ 1 \in DOMAIN work /\ Head(work) = work[1]
  BY <1>1, TailWork
<1> DEFINE o == work[i + 1]
<1>3. Orderly(i + 1) /\ Orderly(1)
  BY <1>2 DEF WorkOrdered
<1>4. /\ o.op \in {"finalize", "complete", "forget"} => o.m \in Messages
      /\ o.op \in {"finalizePlan", "upsert", "clear"} => o.t \in Turns
  BY <1>2, WorkAt
<1>5. o.op \notin {"delta", "upsert"} /\ (o.op = "finalize" => o.text = <<>>)
  BY <1>2, RestOfWork
<1>6. o.op \in {"finalize", "complete", "forget"} => Quiet(o.m)
  BY <1>3 DEF Orderly
<1>7. o.op = "complete" => buffer'[o.m] = <<>>
  BY <1>3, <1>4 DEF Orderly
<1>8. o.op = "forget" /\ i = 1 => buffer'[o.m] = <<>> /\ shown'[o.m] = "complete"
  <2> SUFFICES ASSUME o.op = "forget", i = 1
               PROVE  buffer'[o.m] = <<>> /\ shown'[o.m] = "complete"
    OBVIOUS
  <2>1. work[1].op = "complete" /\ work[1].m = o.m
    BY <1>2, <1>3 DEF Orderly
  <2> QED
    BY <1>2, <1>3, <1>4, <2>1 DEF Orderly
<1>9. o.op = "forget" /\ i > 1 =>
        i - 1 \in DOMAIN work' /\ work'[i - 1].op \in {"finalize", "complete"} /\ work'[i - 1].m = o.m
  <2> SUFFICES ASSUME o.op = "forget", i > 1
               PROVE  i - 1 \in DOMAIN work' /\ work'[i - 1].op \in {"finalize", "complete"} /\ work'[i - 1].m = o.m
    OBVIOUS
  <2>1. work[i].op \in {"finalize", "complete"} /\ work[i].m = o.m
    BY <1>2, <1>3 DEF Orderly
  <2>2. i - 1 \in DOMAIN work' /\ work'[i - 1] = work[i]
    BY <1>1, <1>2
  <2> QED
    BY <2>1, <2>2
<1>10. /\ o.op = "clear" => TurnDone(o.t)
       /\ o.op = "finalizePlan" => PlanQuiet(o.t) /\ o.text \in {<<>>, UpTo(planned[o.t])}
  BY <1>3 DEF Orderly
<1> HIDE DEF o
<1> QED
  BY <1>2, <1>5, <1>6, <1>7, <1>8, <1>9, <1>10, RestingFeed DEF o, Orderly, FeedRests, UpTo

(* Sequences of deltas that share none.                                    *)
LEMMA NothingOnce == IsInjective(<<>>) /\ Range(<<>>) = {}
BY DEF IsInjective, Range

LEMMA JoinedOnce ==
  ASSUME NEW a \in Texts, NEW b \in Texts, IsInjective(a), IsInjective(b), Apart(a, b)
  PROVE  IsInjective(a \o b) /\ Range(a \o b) = Range(a) \cup Range(b)
<1>1. /\ Len(a) \in Nat /\ Len(b) \in Nat /\ DOMAIN a = 1..Len(a) /\ DOMAIN b = 1..Len(b)
      /\ DOMAIN (a \o b) = 1..(Len(a) + Len(b))
      /\ \A i \in DOMAIN a : i \in DOMAIN (a \o b) /\ (a \o b)[i] = a[i]
      /\ \A i \in DOMAIN b : Len(a) + i \in DOMAIN (a \o b) /\ (a \o b)[Len(a) + i] = b[i]
      /\ \A i \in DOMAIN (a \o b) : i \notin DOMAIN a =>
             i - Len(a) \in DOMAIN b /\ (a \o b)[i] = b[i - Len(a)]
  BY DEF Texts
<1>2. Range(a \o b) = Range(a) \cup Range(b)
  <2>1. \A v \in Range(a \o b) : v \in Range(a) \cup Range(b)
    BY <1>1 DEF Range
  <2>2. \A v \in Range(a) : v \in Range(a \o b)
    BY <1>1 DEF Range
  <2>3. \A v \in Range(b) : v \in Range(a \o b)
    <3>1. \A i \in DOMAIN b : b[i] \in Range(a \o b)
      <4> TAKE i \in DOMAIN b
      <4>1. Len(a) + i \in DOMAIN (a \o b) /\ (a \o b)[Len(a) + i] = b[i]
        BY <1>1
      <4> QED
        BY <4>1 DEF Range
    <3> QED
      BY <3>1 DEF Range
  <2> QED
    BY <2>1, <2>2, <2>3
<1>3. ASSUME NEW i \in DOMAIN (a \o b), NEW j \in DOMAIN (a \o b), (a \o b)[i] = (a \o b)[j]
      PROVE  i = j
  <2>1. CASE i \in DOMAIN a /\ j \in DOMAIN a
    BY <1>1, <1>3, <2>1 DEF IsInjective
  <2>2. CASE i \notin DOMAIN a /\ j \notin DOMAIN a
    <3>1. i - Len(a) = j - Len(a)
      BY <1>1, <1>3, <2>2 DEF IsInjective
    <3> QED
      BY <1>1, <3>1
  <2>3. CASE i \in DOMAIN a /\ j \notin DOMAIN a
    BY <1>1, <1>3, <2>3 DEF Apart, Range
  <2>4. CASE i \notin DOMAIN a /\ j \in DOMAIN a
    BY <1>1, <1>3, <2>4 DEF Apart, Range
  <2> QED
    BY <2>1, <2>2, <2>3, <2>4
<1> QED
  BY <1>2, <1>3 DEF IsInjective

LEMMA InPlaceJoined ==
  ASSUME NEW m, text[m] \in Texts, InHand(m) \in Texts, buffer[m] \in Texts, InPlace(m),
         text'[m] = text[m] \o InHand(m), InHand(m)' = <<>>, buffer'[m] = buffer[m]
  PROVE  InPlace(m)'
<1> DEFINE a == text[m]
           b == InHand(m)
<1>1. /\ a \in Seq(Nat \ {0}) /\ b \in Seq(Nat \ {0})
      /\ \A i \in DOMAIN a : a[i] = i
      /\ \A i \in DOMAIN b : b[i] = Len(a) + i
  BY DEF Texts, InPlace
<1> HIDE DEF a, b
<1>2. /\ \A i \in DOMAIN (a \o b) : (a \o b)[i] = i
      /\ Len(a \o b) = Len(a) + Len(b) /\ Len(a) \in Nat /\ Len(b) \in Nat
  BY <1>1
<1>3. Len(a) + Len(b) = Len(a \o b) + Len(<<>>)
  BY <1>2
<1> QED
  BY <1>2, <1>3 DEF InPlace, a, b

LEMMA SettlingStays ==
  ASSUME NEW m, SettlingOf(m), said'[m] = said[m], HasItems(m) => HasItems(m)',
         shown[m] = "complete" => shown'[m] = "complete", buffer'[m] \in {buffer[m], <<>>},
         Does("finalize", m) => Does("finalize", m)', Does("complete", m) => Does("complete", m)',
         Remembered(m) => Remembered(m)'
  PROVE  SettlingOf(m)'
BY DEF SettlingOf

LEMMA PlanStays ==
  ASSUME NEW t, PlanBuffered(t) \/ PlanWritten(t), planned'[t] = planned[t],
         PlanNumbers(t)' = PlanNumbers(t), PlanQuiet(t) => PlanQuiet(t)',
         plan'[t] = plan[t], planBuffer'[t] = planBuffer[t], ~DoesFor("upsert", t)',
         work # <<>> => Head(work).op # "upsert"
  PROVE  PlanBuffered(t)' \/ PlanWritten(t)'
BY DEF PlanBuffered, PlanWritten, Upsert, UpTo

LEMMA SettledStays ==
  ASSUME NEW t, SettledOf(t), TurnDone(t)' => TurnDone(t), remembered'[t] \subseteq remembered[t],
         planBuffer'[t] \in {planBuffer[t], <<>>}, DoesFor("clear", t) => DoesFor("clear", t)',
         DoesFor("finalizePlan", t) => DoesFor("finalizePlan", t)'
  PROVE  SettledOf(t)'
BY DEF SettledOf

Progress == WorkOrdered /\ SaidOnce /\ Whole /\ Settling /\ PlanWhole /\ TurnSettling

(* The facts of a step that drops the step in hand.                        *)
Drops(op) ==
    /\ work # <<>> /\ Head(work).op = op /\ work' = Tail(work)
    /\ FeedRests /\ excused \subseteq excused'

LEMMA HeadOfWork ==
  ASSUME TypeOK, WorkOrdered, work # <<>>
  PROVE  1 \in DOMAIN work /\ Head(work) = work[1] /\ Orderly(1)
<1>1. 1 \in DOMAIN work /\ Head(work) = work[1]
  BY TypeFacts
<1> QED
  BY <1>1 DEF WorkOrdered

(* The step in hand is about something else than the message or the turn.  *)
LEMMA DropKeepsMessage ==
  ASSUME TypeOK, Progress, NEW op, Drops(op), op # "finalize", NEW m \in Messages \ excused,
         op \in {"delta", "complete"} => Head(work).m # m,
         text'[m] = text[m], buffer'[m] = buffer[m], shown'[m] = shown[m]
  PROVE  WholeOf(m)'
<1>1. InHand(m)' = <<>> /\ InHand(m) = <<>>
  BY TailPlaces DEF Drops, Progress, InHand
<1>2. WholeOf(m)
  BY DEF Progress, Whole
<1>3. said'[m] = said[m] /\ Numbers(m)' = Numbers(m) /\ (Quiet(m) => Quiet(m)')
  BY RestingFeed DEF Drops, FeedRests
<1>4. Told(m)' = Told(m)
  BY <1>1 DEF Told
<1>5. DetailOnly(m) => DetailOnly(m)'
  BY <1>4, DetailRests DEF Drops
<1> QED
  BY <1>1, <1>2, <1>3, <1>5, WholeStays

LEMMA DropSettles ==
  ASSUME TypeOK, Progress, NEW op, Drops(op), op # "finalize", NEW m \in Messages \ excused,
         op = "complete" => Head(work).m # m,
         buffer'[m] \in {buffer[m], <<>>}, shown[m] = "complete" => shown'[m] = "complete",
         Remembered(m) => Remembered(m)'
  PROVE  SettlingOf(m)'
<1>1. SettlingOf(m)
  BY DEF Progress, Settling
<1>2. Does("finalize", m) => Does("finalize", m)'
  BY TailPlaces DEF Drops, Progress
<1>3. Does("complete", m) => Does("complete", m)'
  BY TailPlaces DEF Drops, Progress
<1>4. said'[m] = said[m] /\ (HasItems(m) => HasItems(m)')
  BY RestingFeed DEF Drops, FeedRests
<1> QED
  BY <1>1, <1>2, <1>3, <1>4, SettlingStays

LEMMA DropKeepsPlan ==
  ASSUME TypeOK, Progress, NEW op, Drops(op), op # "upsert", NEW t \in Turns \ excused,
         plan'[t] = plan[t], planBuffer'[t] = planBuffer[t]
  PROVE  PlanBuffered(t)' \/ PlanWritten(t)'
<1>1. PlanBuffered(t) \/ PlanWritten(t)
  BY DEF Progress, PlanWhole
<1>2. ~DoesFor("upsert", t)'
  BY TailPlaces DEF Drops, Progress
<1>3. /\ planned'[t] = planned[t] /\ PlanNumbers(t)' = PlanNumbers(t)
      /\ PlanQuiet(t) => PlanQuiet(t)'
  BY RestingFeed DEF Drops, FeedRests
<1> QED
  BY <1>1, <1>2, <1>3, PlanStays DEF Drops

LEMMA DropKeepsTurn ==
  ASSUME TypeOK, Progress, NEW op, Drops(op), op # "finalizePlan", NEW t \in Turns \ excused,
         op = "clear" => Head(work).t # t \/ remembered'[t] = {},
         remembered'[t] \subseteq remembered[t], planBuffer'[t] \in {planBuffer[t], <<>>}
  PROVE  SettledOf(t)'
<1>1. SettledOf(t)
  BY DEF Progress, TurnSettling
<1>2. TurnDone(t)' => TurnDone(t)
  BY RestingFeed DEF Drops
<1>3. DoesFor("finalizePlan", t) => DoesFor("finalizePlan", t)'
  BY TailPlaces DEF Drops, Progress
<1>4. DoesFor("clear", t) => DoesFor("clear", t)' \/ remembered'[t] = {}
  BY TailPlaces DEF Drops, Progress
<1> QED
  BY <1>1, <1>2, <1>3, <1>4 DEF SettledOf

LEMMA DropKeepsOnce ==
  ASSUME TypeOK, Progress, NEW op, Drops(op), NEW m \in Messages,
         text'[m] = text[m], buffer'[m] \in {buffer[m], <<>>}
  PROVE  OnceOf(m)'
<1>1. OnceOf(m) /\ InHand(m)' = <<>>
  BY TailPlaces DEF Drops, Progress, SaidOnce
<1>2. said'[m] = said[m] /\ Numbers(m)' = Numbers(m)
  BY RestingFeed DEF Drops, FeedRests
<1> QED
  BY <1>1, <1>2, OnceShrinks

(* The two dispatches of a message.                                        *)
LEMMA DispatchDeltaProgress ==
  ASSUME IInv, DispatchDelta
  PROVE  Progress'
<1>0. TypeOK /\ FeedOrdered /\ Progress
  BY DEF IInv, Progress
<1>1. Drops("delta") /\ UNCHANGED <<buffer, planBuffer, remembered, plan, excused>>
  BY DEF DispatchDelta, Do, Drops, FeedRests, providerVars
<1>2. PICK m \in Messages, s \in Texts : m = Head(work).m /\ s = Head(work).text /\ s # <<>>
  BY <1>0, <1>1, HeadOfWork, WorkAt DEF Drops, Progress, Orderly
<1>3. /\ text'[m] = text[m] \o s /\ shown'[m] = "streaming" /\ InHand(m) = s /\ InHand(m)' = <<>>
      /\ \A k \in Messages : k # m => text'[k] = text[k] /\ shown'[k] = shown[k]
  BY <1>0, <1>1, <1>2, TypeFacts, TailPlaces DEF DispatchDelta, Drops, InHand, Progress
<1>4. text[m] \in Texts /\ buffer[m] \in Texts
  BY <1>0, <1>2, TypeFacts
<1>5. Numbers(m)' = Numbers(m) /\ said'[m] = said[m] /\ said[m] \in Nat
  BY <1>0, <1>1, <1>2, RestingFeed, TypeFacts DEF Drops, FeedRests
<1>6. WorkOrdered'
  BY <1>0, <1>1, TailOrdered DEF Drops, Progress
<1>7. SaidOnce'
  <2>1. OnceOf(m)'
    <3>1. OnceOf(m)
      BY <1>0, <1>2 DEF Progress, SaidOnce
    <3>2. IsInjective(text'[m]) /\ Range(text'[m]) = Range(text[m]) \cup Range(s)
      BY <1>2, <1>3, <1>4, <3>1, JoinedOnce DEF OnceOf, Apart
    <3> QED
      BY <1>1, <1>3, <1>5, <3>1, <3>2, NothingOnce DEF OnceOf, Apart, Elements
  <2>2. \A k \in Messages : k # m => OnceOf(k)'
    BY <1>0, <1>1, <1>3, DropKeepsOnce
  <2> QED
    BY <2>1, <2>2 DEF SaidOnce
<1>8. Whole'
  <2>1. m \notin excused => WholeOf(m)'
    <3> SUFFICES ASSUME m \notin excused PROVE WholeOf(m)'
      OBVIOUS
    <3>1. WholeOf(m)
      BY <1>0, <1>2 DEF Progress, Whole
    <3>2. Told(m)' = Told(m)
      <4>1. Len(text[m] \o s) = Len(text[m]) + Len(s) /\ Len(<<>>) = 0
            /\ Len(text[m]) \in Nat /\ Len(s) \in Nat /\ Len(buffer[m]) \in Nat
        BY <1>2, <1>4 DEF Texts
      <4> QED
        BY <1>1, <1>3, <4>1 DEF Told
    <3>3. InPlace(m)'
      BY <1>1, <1>2, <1>3, <1>4, <3>1, InPlaceJoined DEF WholeOf
    <3>4. DetailOnly(m) => DetailOnly(m)'
      BY <1>1, <3>2, DetailRests DEF Drops
    <3> QED
      BY <1>3, <1>5, <3>1, <3>2, <3>3, <3>4 DEF WholeOf
  <2>2. \A k \in Messages \ excused : k # m => WholeOf(k)'
    BY <1>0, <1>1, <1>3, <1>2, DropKeepsMessage
  <2> QED
    BY <1>1, <2>1, <2>2 DEF Whole
<1>9. Settling'
  <2>1. \A k \in Messages \ excused : shown[k] = "complete" => shown'[k] = "complete"
    BY <1>0, <1>2, <1>3 DEF Progress, Whole, WholeOf
  <2>2. \A k : Remembered(k) => Remembered(k)'
    BY <1>1, RestingFeed DEF Remembered, Drops
  <2> QED
    BY <1>0, <1>1, <2>1, <2>2, DropSettles DEF Settling
<1>10. PlanWhole'
  BY <1>0, <1>1, DropKeepsPlan DEF PlanWhole
<1>11. TurnSettling'
  BY <1>0, <1>1, DropKeepsTurn DEF TurnSettling
<1> QED
  BY <1>6, <1>7, <1>8, <1>9, <1>10, <1>11 DEF Progress

LEMMA DispatchCompleteProgress ==
  ASSUME IInv, DispatchComplete
  PROVE  Progress'
<1>1. TypeOK /\ FeedOrdered /\ Progress
  BY DEF IInv, Progress
<1>2. Drops("complete") /\ UNCHANGED <<text, plan, buffer, planBuffer, remembered, excused>>
  BY DEF DispatchComplete, Do, Drops, FeedRests, providerVars
<1>3. PICK m \in Messages : m = Head(work).m /\ Quiet(m) /\ buffer[m] = <<>>
  BY <1>1, <1>2, HeadOfWork, WorkAt DEF Drops, Progress, Orderly
<1>4. /\ shown'[m] = "complete" /\ InHand(m) = <<>> /\ InHand(m)' = <<>>
      /\ \A k \in Messages : k # m => shown'[k] = shown[k]
  BY <1>1, <1>2, <1>3, TypeFacts, TailPlaces DEF DispatchComplete, Drops, InHand, Progress
<1>5. WorkOrdered'
  BY <1>1, <1>2, <1>3, <1>4, TailOrdered DEF Drops, Progress
<1>6. SaidOnce'
  BY <1>1, <1>2, DropKeepsOnce DEF SaidOnce
<1>7. Whole'
  <2>1. m \notin excused => WholeOf(m)'
    <3> SUFFICES ASSUME m \notin excused PROVE WholeOf(m)'
      OBVIOUS
    <3>1. WholeOf(m)
      BY <1>1, <1>3 DEF Progress, Whole
    <3>2. Numbers(m) = {} /\ ~HasItems(m)
      BY <1>3 DEF Quiet, HasItems, Numbers, IsItem, IsDelta
    <3>3. ~DetailOnly(m)
      BY <1>2, <3>2 DEF DetailOnly, HasItems, IsItem, IsItemEnd, Drops, Finalize
    <3>4. Told(m) <= said[m] /\ Numbers(m) = (Told(m) + 1)..said[m]
      BY <3>1, <3>3 DEF WholeOf
    <3>5. Len(text[m]) \in Nat /\ said[m] \in Nat /\ Told(m) = Len(text[m])
      <4>1. text[m] \in Seq(Nat \ {0}) /\ said[m] \in Nat /\ Len(<<>>) = 0
        BY <1>1, TypeFacts DEF Texts
      <4> QED
        <5>1. Told(m) = Len(text[m]) + Len(<<>>) + Len(<<>>)
          BY <1>3, <1>4 DEF Told
        <5>2. Len(text[m]) \in Nat
          BY <4>1
        <5> QED
          BY <4>1, <5>1, <5>2
    <3>6. Len(text[m]) = said[m]
      BY <3>2, <3>4, <3>5
    <3>7. /\ said'[m] = said[m] /\ Numbers(m)' = Numbers(m) /\ Quiet(m)'
          /\ Told(m)' = Told(m) /\ (InPlace(m)' <=> InPlace(m))
      <4>1. said'[m] = said[m] /\ Numbers(m)' = Numbers(m) /\ Quiet(m)'
        BY <1>2, <1>3, RestingFeed DEF Drops, FeedRests
      <4>2. text' = text /\ buffer' = buffer /\ InHand(m)' = InHand(m)
        BY <1>2, <1>4
      <4>3. Told(m)' = Told(m)
        BY <4>2 DEF Told
      <4>4. InPlace(m)' <=> InPlace(m)
        BY <4>2 DEF InPlace
      <4> QED
        BY <4>1, <4>3, <4>4
    <3> QED
      BY <1>2, <1>3, <1>4, <3>1, <3>4, <3>6, <3>7 DEF WholeOf
  <2>2. \A k \in Messages \ excused : k # m => WholeOf(k)'
    BY <1>1, <1>2, <1>3, <1>4, DropKeepsMessage
  <2> QED
    BY <1>2, <2>1, <2>2 DEF Whole
<1>8. Settling'
  <2>1. SettlingOf(m)'
    BY <1>2, <1>3, <1>4 DEF SettlingOf
  <2>2. \A k : Remembered(k) => Remembered(k)'
    BY <1>2, RestingFeed DEF Remembered, Drops
  <2>3. \A k \in Messages \ excused : k # m => SettlingOf(k)'
    BY <1>1, <1>2, <1>3, <1>4, <2>2, DropSettles
  <2> QED
    BY <1>2, <2>1, <2>3 DEF Settling
<1>9. PlanWhole'
  BY <1>1, <1>2, DropKeepsPlan DEF PlanWhole
<1>10. TurnSettling'
  BY <1>1, <1>2, DropKeepsTurn DEF TurnSettling
<1> QED
  BY <1>5, <1>6, <1>7, <1>8, <1>9, <1>10 DEF Progress

LEMMA ForgetProgress ==
  ASSUME IInv, ForgetAssistantMessageId
  PROVE  Progress'
<1>1. TypeOK /\ FeedOrdered /\ Progress
  BY DEF IInv, Progress
<1>2. Drops("forget") /\ UNCHANGED <<text, shown, plan, buffer, planBuffer, excused>>
  BY DEF ForgetAssistantMessageId, Do, Drops, FeedRests, providerVars, threadVars
<1>3. PICK m \in Messages : /\ m = Head(work).m /\ buffer[m] = <<>>
                            /\ m \in excused \/ shown[m] = "complete"
  BY <1>1, <1>2, HeadOfWork, WorkAt DEF Drops, Progress, Orderly
<1>4. /\ \A t \in Turns : remembered'[t] \subseteq remembered[t]
      /\ \A k \in Messages : k # m /\ k \in remembered[TurnOf[k]] => k \in remembered'[TurnOf[k]]
  <2>1. remembered' = [remembered EXCEPT ![TurnOf[m]] = remembered[TurnOf[m]] \ {m}]
    BY <1>3 DEF ForgetAssistantMessageId
  <2>2. remembered \in [Turns -> SUBSET Messages] /\ \A k \in Messages : TurnOf[k] \in Turns
    BY <1>1, TypeFacts
  <2>3. \A t \in Turns : remembered'[t] \in {remembered[t], remembered[t] \ {m}}
    BY <2>1, <2>2
  <2> QED
    BY <2>2, <2>3
<1>5. WorkOrdered'
  BY <1>1, <1>2, TailOrdered DEF Drops, Progress
<1>6. SaidOnce'
  BY <1>1, <1>2, DropKeepsOnce DEF SaidOnce
<1>7. Whole'
  BY <1>1, <1>2, DropKeepsMessage DEF Whole
<1>8. Settling'
  <2>1. m \notin excused => SettlingOf(m)'
    <3> SUFFICES ASSUME m \notin excused PROVE SettlingOf(m)'
      OBVIOUS
    <3>1. shown[m] = "complete" /\ buffer[m] = <<>> /\ shown' = shown /\ buffer' = buffer
      BY <1>2, <1>3
    <3> QED
      BY <3>1 DEF SettlingOf
  <2>2. \A k \in Messages : k # m /\ Remembered(k) => Remembered(k)'
    BY <1>2, <1>4, RestingFeed DEF Remembered, Drops
  <2>3. \A k \in Messages \ excused : k # m => SettlingOf(k)'
    BY <1>1, <1>2, <2>2, DropSettles
  <2> QED
    BY <1>2, <2>1, <2>3 DEF Settling
<1>9. PlanWhole'
  BY <1>1, <1>2, DropKeepsPlan DEF PlanWhole
<1>10. TurnSettling'
  BY <1>1, <1>2, <1>4, DropKeepsTurn DEF TurnSettling
<1> QED
  BY <1>5, <1>6, <1>7, <1>8, <1>9, <1>10 DEF Progress

LEMMA ClearIdsProgress ==
  ASSUME IInv, ClearAssistantMessageIdsForTurn
  PROVE  Progress'
<1>1. TypeOK /\ FeedOrdered /\ Progress
  BY DEF IInv, Progress
<1>2. Drops("clear") /\ UNCHANGED <<text, shown, plan, buffer, planBuffer, excused>>
  BY DEF ClearAssistantMessageIdsForTurn, Do, Drops, FeedRests, providerVars, threadVars
<1>3. PICK t \in Turns : t = Head(work).t /\ TurnDone(t)
  BY <1>1, <1>2, HeadOfWork, WorkAt DEF Drops, Progress, Orderly
<1>4. remembered'[t] = {} /\ \A u \in Turns : u # t => remembered'[u] = remembered[u]
  BY <1>1, <1>3, TypeFacts DEF ClearAssistantMessageIdsForTurn
<1>5. WorkOrdered'
  BY <1>1, <1>2, TailOrdered DEF Drops, Progress
<1>6. SaidOnce'
  BY <1>1, <1>2, DropKeepsOnce DEF SaidOnce
<1>7. Whole'
  BY <1>1, <1>2, DropKeepsMessage DEF Whole
<1>8. Settling'
  <2>1. \A k \in Messages : Remembered(k) => Remembered(k)'
    <3>1. \A k \in Messages : TurnOf[k] \in Turns
      BY <1>1, TypeFacts
    <3> QED
      BY <1>2, <1>3, <1>4, <3>1, RestingFeed DEF Remembered, Drops
  <2> QED
    BY <1>1, <1>2, <2>1, DropSettles DEF Settling
<1>9. PlanWhole'
  BY <1>1, <1>2, DropKeepsPlan DEF PlanWhole
<1>10. TurnSettling'
  <2>1. \A u \in Turns : remembered'[u] \subseteq remembered[u]
    BY <1>4
  <2>2. \A u \in Turns : Head(work).t # u \/ remembered'[u] = {}
    BY <1>3, <1>4
  <2> QED
    BY <1>1, <1>2, <2>1, <2>2, DropKeepsTurn DEF TurnSettling
<1> QED
  BY <1>5, <1>6, <1>7, <1>8, <1>9, <1>10 DEF Progress

LEMMA UpsertProgress ==
  ASSUME IInv, UpsertProposedPlan
  PROVE  Progress'
<1>1. TypeOK /\ FeedOrdered /\ Progress
  BY DEF IInv, Progress
<1>2. Drops("upsert") /\ UNCHANGED <<text, shown, buffer, planBuffer, remembered, excused>>
  BY DEF UpsertProposedPlan, Do, Drops, FeedRests, providerVars
<1>3. PICK t \in Turns : t = Head(work).t
  BY <1>1, <1>2, HeadOfWork, WorkAt DEF Drops
<1>4. plan'[t] = Head(work).text /\ \A u \in Turns : u # t => plan'[u] = plan[u]
  BY <1>1, <1>3, TypeFacts DEF UpsertProposedPlan
<1>5. WorkOrdered'
  BY <1>1, <1>2, TailOrdered DEF Drops, Progress
<1>6. SaidOnce'
  BY <1>1, <1>2, DropKeepsOnce DEF SaidOnce
<1>7. Whole'
  BY <1>1, <1>2, DropKeepsMessage DEF Whole
<1>8. Settling'
  <2>1. \A k : Remembered(k) => Remembered(k)'
    BY <1>2, RestingFeed DEF Remembered, Drops
  <2> QED
    BY <1>1, <1>2, <2>1, DropSettles DEF Settling
<1>9. PlanWhole'
  <2> SUFFICES ASSUME NEW u \in Turns \ excused PROVE PlanBuffered(u)' \/ PlanWritten(u)'
    BY <1>2 DEF PlanWhole
  <2>1. PlanBuffered(u) \/ PlanWritten(u)
    BY <1>1 DEF Progress, PlanWhole
  <2>2. /\ planned' = planned /\ PlanNumbers(u)' = PlanNumbers(u)
        /\ (PlanQuiet(u) => PlanQuiet(u)') /\ ~DoesFor("upsert", u)'
    BY <1>1, <1>2, RestingFeed, TailPlaces DEF Drops, FeedRests, Progress
  <2>3. CASE u = t
    <3>1. DoesFor("upsert", t)
      BY <1>1, <1>2, <1>3, HeadOfWork DEF DoesFor, Drops, Progress
    <3>2. PlanWritten(t) /\ Head(work) = Upsert(t, UpTo(planned[t]))
      BY <2>1, <2>3, <3>1 DEF PlanBuffered, PlanWritten
    <3>3. plan'[t] = UpTo(planned[t])
      BY <1>4, <3>2 DEF Upsert
    <3> QED
      BY <1>2, <2>2, <2>3, <3>2, <3>3 DEF PlanWritten, UpTo
  <2>4. CASE u # t
    <3>1. Head(work) # Upsert(u, UpTo(planned[u]))
      BY <1>3, <2>4 DEF Upsert
    <3> QED
      BY <1>2, <1>4, <2>1, <2>2, <2>4, <3>1 DEF PlanBuffered, PlanWritten, UpTo
  <2> QED
    BY <2>3, <2>4
<1>10. TurnSettling'
  BY <1>1, <1>2, DropKeepsTurn DEF TurnSettling
<1> QED
  BY <1>5, <1>6, <1>7, <1>8, <1>9, <1>10 DEF Progress

LEMMA SessionProgress ==
  ASSUME IInv, DispatchSession
  PROVE  Progress'
<1>1. TypeOK /\ FeedOrdered /\ Progress
  BY DEF IInv, Progress
<1>2. /\ Drops("session")
      /\ UNCHANGED <<text, shown, plan, buffer, planBuffer, remembered, excused>>
  BY DEF DispatchSession, Do, Drops, FeedRests, providerVars, threadVars
<1>3. WorkOrdered' /\ SaidOnce'
  BY <1>1, <1>2, TailOrdered, DropKeepsOnce DEF Drops, Progress, SaidOnce
<1>4. Whole'
  BY <1>1, <1>2, DropKeepsMessage DEF Whole
<1>5. Settling'
  <2>1. \A k : Remembered(k) => Remembered(k)'
    BY <1>2, RestingFeed DEF Remembered, Drops
  <2> QED
    BY <1>1, <1>2, <2>1, DropSettles DEF Settling
<1>6. PlanWhole'
  BY <1>1, <1>2, DropKeepsPlan DEF PlanWhole
<1>7. TurnSettling'
  BY <1>1, <1>2, DropKeepsTurn DEF TurnSettling
<1> QED
  BY <1>3, <1>4, <1>5, <1>6, <1>7 DEF Progress

(* What the exit of the session takes out is excused.                      *)
LEMMA ClearStateProgress ==
  ASSUME IInv, ClearTurnStateForSession
  PROVE  Progress'
<1>1. TypeOK /\ FeedOrdered /\ Progress
  BY DEF IInv, Progress
<1>2. Drops("clearSession") /\ UNCHANGED <<text, shown, plan>>
  BY DEF ClearTurnStateForSession, Do, Drops, FeedRests, providerVars, threadVars
<1>3. /\ \A m \in Messages : buffer'[m] \in {buffer[m], <<>>}
      /\ \A m \in Messages : m \notin remembered[TurnOf[m]] => buffer'[m] = buffer[m]
      /\ \A t \in Turns : remembered'[t] = {} /\ planBuffer'[t] = <<>>
      /\ \A m \in Messages : m \in remembered[TurnOf[m]] => m \in excused'
      /\ \A t \in Turns : planBuffer[t] # <<>> => t \in excused'
  <2>1. /\ buffer' = [m \in Messages |-> IF m \in remembered[TurnOf[m]] THEN <<>> ELSE buffer[m]]
        /\ remembered' = [t \in Turns |-> {}] /\ planBuffer' = [t \in Turns |-> <<>>]
        /\ excused' = excused \cup {t \in Turns : planBuffer[t] # <<>>}
                              \cup UNION {remembered[t] : t \in Turns}
        /\ \A m \in Messages : TurnOf[m] \in Turns
    BY <1>1, TypeFacts DEF ClearTurnStateForSession
  <2>2. /\ \A m \in Messages : buffer'[m] \in {buffer[m], <<>>}
        /\ \A m \in Messages : m \notin remembered[TurnOf[m]] => buffer'[m] = buffer[m]
    BY <2>1
  <2>3. \A t \in Turns : remembered'[t] = {} /\ planBuffer'[t] = <<>>
    BY <2>1
  <2>4. \A m \in Messages : m \in remembered[TurnOf[m]] => m \in excused'
    BY <2>1
  <2>5. \A t \in Turns : planBuffer[t] # <<>> => t \in excused'
    BY <2>1
  <2> QED
    BY <2>2, <2>3, <2>4, <2>5
<1>4. excused \subseteq excused'
  BY <1>2 DEF Drops
<1>5. WorkOrdered' /\ SaidOnce'
  BY <1>1, <1>2, <1>3, TailOrdered, DropKeepsOnce DEF Drops, Progress, SaidOnce
<1>6. Whole'
  <2>1. \A m \in Messages \ excused' : m \in Messages \ excused /\ buffer'[m] = buffer[m]
    BY <1>3, <1>4
  <2> QED
    BY <1>1, <1>2, <2>1, DropKeepsMessage DEF Whole
<1>7. Settling'
  <2>1. \A m \in Messages \ excused' : m \in Messages \ excused /\ ~Remembered(m)
    BY <1>3, <1>4 DEF Remembered
  <2> QED
    BY <1>1, <1>2, <1>3, <2>1, DropSettles DEF Settling
<1>8. PlanWhole'
  <2>1. \A t \in Turns \ excused' : t \in Turns \ excused /\ planBuffer'[t] = planBuffer[t]
    BY <1>3, <1>4
  <2> QED
    BY <1>1, <1>2, <2>1, DropKeepsPlan DEF PlanWhole
<1>9. TurnSettling'
  BY <1>3 DEF TurnSettling, SettledOf
<1> QED
  BY <1>5, <1>6, <1>7, <1>8, <1>9 DEF Progress

(* A failing dispatch gives up the event: its messages and turns are excused. *)
LEMMA Concerns ==
  ASSUME TypeOK, NEW i \in DOMAIN work
  PROVE  /\ work[i].op \in {"delta", "finalize", "complete", "forget"} => work[i].m \in Concerned
         /\ work[i].op \in {"session", "clear", "finalizePlan", "upsert"} => work[i].t \in Concerned
<1>1. work[i] \in Steps
  BY WorkAt
<1>2. ASSUME work[i].op \in {"delta", "finalize", "complete", "forget"}
      PROVE  "m" \in DOMAIN work[i]
  BY <1>1, <1>2 DEF Steps
<1>3. ASSUME work[i].op \in {"session", "clear", "finalizePlan", "upsert"}
      PROVE  "t" \in DOMAIN work[i]
  BY <1>1, <1>3 DEF Steps
<1> QED
  BY <1>2, <1>3 DEF Concerned

LEMMA DispatchFailsProgress ==
  ASSUME IInv, DispatchFails
  PROVE  Progress'
<1>1. TypeOK /\ Progress /\ FeedRests /\ work' = <<>> /\ work # <<>>
      /\ Head(work).op \in Dispatches /\ excused' = excused \cup Concerned
      /\ UNCHANGED <<text, shown, plan, buffer, planBuffer, remembered>>
  BY DEF IInv, Progress, DispatchFails, FeedRests, providerVars, threadVars
<1>2. \A m : InHand(m)' = <<>>
  BY <1>1 DEF InHand
<1>3. /\ \A op, m : op \in {"delta", "finalize", "complete"} /\ Does(op, m) => m \in Concerned
      /\ \A op, t : op \in {"clear", "finalizePlan", "upsert"} /\ DoesFor(op, t) => t \in Concerned
      /\ \A op, t : ~DoesFor(op, t)'
  BY <1>1, Concerns DEF Does, DoesFor
<1>4. 1 \in DOMAIN work /\ Head(work) = work[1]
  BY <1>1, HeadOfWork DEF Progress
<1>5. WorkOrdered'
  BY <1>1 DEF WorkOrdered
<1>6. SaidOnce'
  <2> SUFFICES ASSUME NEW m \in Messages PROVE OnceOf(m)'
    BY DEF SaidOnce
  <2>1. said'[m] = said[m] /\ Numbers(m)' = Numbers(m) /\ OnceOf(m)
    BY <1>1, RestingFeed DEF FeedRests, Progress, SaidOnce
  <2> QED
    BY <1>1, <1>2, <2>1, OnceShrinks
<1>7. Whole'
  <2> SUFFICES ASSUME NEW m \in Messages \ excused' PROVE WholeOf(m)'
    BY DEF Whole
  <2>1. m \notin excused /\ m \notin Concerned
    BY <1>1
  <2>2. InHand(m)' = InHand(m) /\ Told(m)' = Told(m)
    <3>1. InHand(m) = <<>>
      BY <1>3, <1>4, <2>1 DEF InHand, Does
    <3> QED
      BY <1>1, <1>2, <3>1 DEF Told
  <2>3. DetailOnly(m) => DetailOnly(m)'
    BY <1>1, <2>2, DetailRests DEF Dispatches
  <2>4. /\ said'[m] = said[m] /\ Numbers(m)' = Numbers(m) /\ (Quiet(m) => Quiet(m)')
        /\ WholeOf(m)
    BY <1>1, <2>1, RestingFeed DEF FeedRests, Progress, Whole
  <2> QED
    BY <1>1, <2>2, <2>3, <2>4, WholeStays
<1>8. Settling'
  <2> SUFFICES ASSUME NEW m \in Messages \ excused' PROVE SettlingOf(m)'
    BY DEF Settling
  <2>1. m \notin excused /\ ~Does("finalize", m) /\ ~Does("complete", m)
    BY <1>1, <1>3
  <2>2. /\ said'[m] = said[m] /\ (HasItems(m) => HasItems(m)') /\ SettlingOf(m)
        /\ Remembered(m) => Remembered(m)'
    BY <1>1, <2>1, RestingFeed DEF FeedRests, Progress, Settling, Remembered
  <2> QED
    BY <1>1, <2>1, <2>2, SettlingStays
<1>9. PlanWhole'
  <2> SUFFICES ASSUME NEW t \in Turns \ excused' PROVE PlanBuffered(t)' \/ PlanWritten(t)'
    BY DEF PlanWhole
  <2>1. t \notin excused /\ t \notin Concerned
    BY <1>1
  <2>2. work[1].op = "upsert" => work[1].t # t
    BY <1>4, <2>1, Concerns, <1>1
  <2>3. Head(work) # Upsert(t, UpTo(planned[t]))
    BY <1>4, <2>2 DEF Upsert
  <2>4. /\ planned'[t] = planned[t] /\ PlanNumbers(t)' = PlanNumbers(t)
        /\ PlanQuiet(t) => PlanQuiet(t)'
    BY <1>1, RestingFeed DEF FeedRests
  <2>5. PlanBuffered(t) \/ PlanWritten(t)
    BY <1>1, <2>1 DEF Progress, PlanWhole
  <2> QED
    BY <1>1, <1>3, <2>3, <2>4, <2>5 DEF PlanBuffered, PlanWritten, UpTo
<1>10. TurnSettling'
  <2> SUFFICES ASSUME NEW t \in Turns \ excused' PROVE SettledOf(t)'
    BY DEF TurnSettling
  <2>1. t \notin excused /\ ~DoesFor("clear", t) /\ ~DoesFor("finalizePlan", t)
    BY <1>1, <1>3
  <2>2. SettledOf(t) /\ (TurnDone(t)' => TurnDone(t))
    BY <1>1, <2>1, RestingFeed DEF Progress, TurnSettling
  <2> QED
    BY <1>1, <2>1, <2>2 DEF SettledOf
<1> QED
  BY <1>5, <1>6, <1>7, <1>8, <1>9, <1>10 DEF Progress

-----------------------------------------------------------------------------
(* The caches and the setting: the feed and the worker stand still *)

Drifts == FeedRests /\ UNCHANGED <<work, text, shown, plan>> /\ excused \subseteq excused'

LEMMA DriftPlaces ==
  ASSUME Drifts
  PROVE  /\ \A m : InHand(m)' = InHand(m)
         /\ \A op, m : Does(op, m)' <=> Does(op, m)
         /\ \A op, t : DoesFor(op, t)' <=> DoesFor(op, t)
BY DEF Drifts, InHand, Does, DoesFor

LEMMA DriftProgress ==
  ASSUME TypeOK, Progress, Drifts,
         \A m \in Messages : buffer'[m] \in {buffer[m], <<>>},
         \A m \in Messages : m \notin excused' => buffer'[m] = buffer[m],
         \A t \in Turns : planBuffer'[t] \in {planBuffer[t], <<>>},
         \A t \in Turns : t \notin excused' => planBuffer'[t] = planBuffer[t],
         \A t \in Turns : remembered'[t] \subseteq remembered[t],
         \A m \in Messages : m \notin excused' /\ m \in remembered[TurnOf[m]] =>
            m \in remembered'[TurnOf[m]]
  PROVE  Progress'
<1>1. FeedRests /\ UNCHANGED <<work, text, shown, plan>> /\ excused \subseteq excused'
  BY DEF Drifts
<1>2. WorkOrdered'
  <2> SUFFICES ASSUME NEW i \in DOMAIN work PROVE Orderly(i)'
    BY <1>1 DEF WorkOrdered
  <2>1. /\ work[i].op \in {"finalize", "complete", "forget"} => work[i].m \in Messages
        /\ work[i].op \in {"finalizePlan", "upsert", "clear"} => work[i].t \in Turns
    BY WorkAt
  <2>2. Orderly(i)
    BY DEF Progress, WorkOrdered
  <2>3. \A m \in Messages : buffer[m] = <<>> => buffer'[m] = <<>>
    OBVIOUS
  <2> QED
    BY <1>1, <2>1, <2>2, <2>3, RestingFeed DEF Orderly, FeedRests, UpTo
<1>3. SaidOnce'
  <2> SUFFICES ASSUME NEW m \in Messages PROVE OnceOf(m)'
    BY DEF SaidOnce
  <2>1. said'[m] = said[m] /\ Numbers(m)' = Numbers(m) /\ OnceOf(m)
    BY <1>1, RestingFeed DEF FeedRests, Progress, SaidOnce
  <2> QED
    BY <1>1, <2>1, DriftPlaces, OnceShrinks
<1>4. Whole'
  <2> SUFFICES ASSUME NEW m \in Messages \ excused' PROVE WholeOf(m)'
    BY DEF Whole
  <2>1. /\ said'[m] = said[m] /\ Numbers(m)' = Numbers(m) /\ (Quiet(m) => Quiet(m)')
        /\ WholeOf(m) /\ buffer'[m] = buffer[m]
    BY <1>1, RestingFeed DEF FeedRests, Progress, Whole
  <2>2. DetailOnly(m) => DetailOnly(m)'
    BY <1>1, <2>1, DriftPlaces DEF DetailOnly, Told, FeedRests, ItemEnded, UpTo, Finalize
  <2> QED
    BY <1>1, <2>1, <2>2, DriftPlaces, WholeStays
<1>5. Settling'
  <2> SUFFICES ASSUME NEW m \in Messages \ excused' PROVE SettlingOf(m)'
    BY DEF Settling
  <2>1. /\ said'[m] = said[m] /\ (HasItems(m) => HasItems(m)') /\ SettlingOf(m)
        /\ Remembered(m) => Remembered(m)'
    BY <1>1, RestingFeed DEF FeedRests, Progress, Settling, Remembered
  <2> QED
    BY <1>1, <2>1, DriftPlaces, SettlingStays
<1>6. PlanWhole'
  <2> SUFFICES ASSUME NEW t \in Turns \ excused' PROVE PlanBuffered(t)' \/ PlanWritten(t)'
    BY DEF PlanWhole
  <2>1. /\ planned'[t] = planned[t] /\ PlanNumbers(t)' = PlanNumbers(t)
        /\ PlanQuiet(t) => PlanQuiet(t)'
    BY <1>1, RestingFeed DEF FeedRests
  <2>2. PlanBuffered(t) \/ PlanWritten(t)
    BY <1>1 DEF Progress, PlanWhole
  <2>3. planBuffer'[t] = planBuffer[t]
    OBVIOUS
  <2> QED
    BY <1>1, <2>1, <2>2, <2>3, DriftPlaces DEF PlanBuffered, PlanWritten, UpTo, Upsert
<1>7. TurnSettling'
  <2> SUFFICES ASSUME NEW t \in Turns \ excused' PROVE SettledOf(t)'
    BY DEF TurnSettling
  <2>1. SettledOf(t) /\ (TurnDone(t)' => TurnDone(t))
    BY <1>1, RestingFeed DEF Progress, TurnSettling
  <2> QED
    BY <2>1, DriftPlaces, SettledStays
<1> QED
  BY <1>2, <1>3, <1>4, <1>5, <1>6, <1>7 DEF Progress

LEMMA ExpireTextProgress ==
  ASSUME IInv, NEW m \in Messages, ExpireText(m)
  PROVE  Progress'
<1>1. TypeOK /\ Progress /\ Drifts /\ UNCHANGED <<planBuffer, remembered>>
  BY DEF IInv, Progress, ExpireText, Drifts, FeedRests, providerVars, threadVars
<1>2. buffer' = [buffer EXCEPT ![m] = <<>>] /\ excused' = excused \cup {m}
  BY DEF ExpireText
<1>3. \A k \in Messages : buffer'[k] \in {buffer[k], <<>>}
                         /\ (k \notin excused' => buffer'[k] = buffer[k])
  BY <1>1, <1>2, TypeFacts
<1> QED
  BY <1>1, <1>3, DriftProgress

LEMMA ExpireIdsProgress ==
  ASSUME IInv, NEW t \in Turns, ExpireIds(t)
  PROVE  Progress'
<1>1. TypeOK /\ Progress /\ Drifts /\ UNCHANGED <<buffer, planBuffer>>
  BY DEF IInv, Progress, ExpireIds, Drifts, FeedRests, providerVars, threadVars
<1>2. /\ remembered' = [remembered EXCEPT ![t] = {}] /\ excused' = excused \cup remembered[t]
      /\ remembered \in [Turns -> SUBSET Messages] /\ \A m \in Messages : TurnOf[m] \in Turns
  BY <1>1, TypeFacts DEF ExpireIds
<1>3. \A u \in Turns : remembered'[u] \subseteq remembered[u]
  BY <1>2
<1>4. \A m \in Messages : m \notin excused' /\ m \in remembered[TurnOf[m]] =>
         m \in remembered'[TurnOf[m]]
  BY <1>2
<1> QED
  BY <1>1, <1>3, <1>4, DriftProgress

LEMMA ExpirePlanProgress ==
  ASSUME IInv, NEW t \in Turns, ExpirePlan(t)
  PROVE  Progress'
<1>1. TypeOK /\ Progress /\ Drifts /\ UNCHANGED <<buffer, remembered>>
  BY DEF IInv, Progress, ExpirePlan, Drifts, FeedRests, providerVars, threadVars
<1>2. planBuffer' = [planBuffer EXCEPT ![t] = <<>>] /\ excused' = excused \cup {t}
  BY DEF ExpirePlan
<1>3. \A u \in Turns : planBuffer'[u] \in {planBuffer[u], <<>>}
                      /\ (u \notin excused' => planBuffer'[u] = planBuffer[u])
  BY <1>1, <1>2, TypeFacts
<1> QED
  BY <1>1, <1>3, DriftProgress

LEMMA RestProgress ==
  ASSUME IInv, SwitchStreaming \/ UNCHANGED vars
  PROVE  Progress'
<1>1. /\ TypeOK /\ Progress /\ Drifts
      /\ UNCHANGED <<buffer, planBuffer, remembered, excused>>
  BY DEF IInv, Progress, SwitchStreaming, vars, Drifts, FeedRests, providerVars, threadVars
<1> QED
  BY <1>1, DriftProgress

-----------------------------------------------------------------------------
(* Two steps put others in the place of the one in hand *)

LEMMA PrefixedWork ==
  ASSUME work \in Seq(Steps), work # <<>>, NEW p \in Seq(Steps), work' = p \o Tail(work)
  PROVE  /\ Len(p) \in Nat /\ DOMAIN p = 1..Len(p)
         /\ \A i \in DOMAIN p : i \in DOMAIN work' /\ work'[i] = p[i]
         /\ \A i \in DOMAIN work' : i \in Nat \ {0}
         /\ \A i \in DOMAIN work' : i \notin DOMAIN p =>
              /\ i - Len(p) + 1 \in DOMAIN work /\ i - Len(p) + 1 > 1
              /\ work'[i] = work[i - Len(p) + 1]
         /\ \A i \in DOMAIN work : i # 1 =>
              i > 1 /\ i + Len(p) - 1 \in DOMAIN work' /\ work'[i + Len(p) - 1] = work[i]
<1>1. /\ Len(p) \in Nat /\ Len(work) \in Nat \ {0} /\ Tail(work) \in Seq(Steps)
      /\ DOMAIN p = 1..Len(p) /\ DOMAIN work = 1..Len(work) /\ Len(Tail(work)) = Len(work) - 1
      /\ \A k \in 1..(Len(work) - 1) : Tail(work)[k] = work[k + 1]
  OBVIOUS
<1>2. /\ DOMAIN work' = 1..(Len(p) + Len(work) - 1)
      /\ \A i \in 1..(Len(p) + Len(work) - 1) :
           work'[i] = IF i <= Len(p) THEN p[i] ELSE Tail(work)[i - Len(p)]
  BY <1>1
<1>3. \A i \in DOMAIN work' : i \notin DOMAIN p =>
         /\ i - Len(p) + 1 \in DOMAIN work /\ i - Len(p) + 1 > 1
         /\ work'[i] = work[i - Len(p) + 1]
  BY <1>1, <1>2
<1>4. \A i \in DOMAIN work : i # 1 =>
         i > 1 /\ i + Len(p) - 1 \in DOMAIN work' /\ work'[i + Len(p) - 1] = work[i]
  <2> SUFFICES ASSUME NEW i \in DOMAIN work, i # 1
               PROVE  i > 1 /\ i + Len(p) - 1 \in DOMAIN work' /\ work'[i + Len(p) - 1] = work[i]
    OBVIOUS
  <2>1. i \in Nat /\ i > 1 /\ i <= Len(work)
    BY <1>1
  <2>2. /\ i + Len(p) - 1 \in 1..(Len(p) + Len(work) - 1) /\ ~(i + Len(p) - 1 <= Len(p))
        /\ (i + Len(p) - 1) - Len(p) = i - 1 /\ i - 1 \in 1..(Len(work) - 1) /\ (i - 1) + 1 = i
    BY <1>1, <2>1
  <2>3. work'[i + Len(p) - 1] = Tail(work)[i - 1] /\ Tail(work)[i - 1] = work[i]
    BY <1>1, <1>2, <2>2
  <2> QED
    BY <1>2, <2>1, <2>2, <2>3
<1> QED
  BY <1>1, <1>2, <1>3, <1>4, SMTT(30)

Replaces(op, p) ==
    /\ work # <<>> /\ Head(work).op = op /\ work' = p \o Tail(work) /\ p \in Seq(Steps)
    /\ FeedRests /\ excused \subseteq excused'

(* The steps behind the one in hand are still there, and nothing else.     *)
LEMMA ReplacedPlaces ==
  ASSUME TypeOK, WorkOrdered, NEW op, NEW p, Replaces(op, p)
  PROVE  /\ \A o, m : Does(o, m) /\ o # op => Does(o, m)'
         /\ \A o, m : Does(o, m) /\ Head(work).m # m => Does(o, m)'
         /\ \A o, t : DoesFor(o, t) /\ o # op => DoesFor(o, t)'
         /\ \A o, t : DoesFor(o, t) /\ Head(work).t # t => DoesFor(o, t)'
         /\ \A i \in DOMAIN work' : i \notin DOMAIN p =>
              work'[i].op \notin {"delta", "upsert"} /\ (work'[i].op = "finalize" => work'[i].text = <<>>)
         /\ \A m : p = <<>> \/ p[1].op # "delta" \/ p[1].m # m => InHand(m)' = <<>>
         /\ p # <<>> => work' # <<>> /\ Head(work') = p[1]
<1>1. work \in Seq(Steps) /\ p \in Seq(Steps) /\ work' = p \o Tail(work) /\ work # <<>>
      /\ 1 \in DOMAIN work /\ Head(work) = work[1] /\ work[1].op = op
  BY TypeFacts DEF Replaces
<1>2. \A j \in DOMAIN work : j # 1 => \E i \in DOMAIN work' : work'[i] = work[j]
  BY <1>1, PrefixedWork
<1>3. /\ \A o, m : Does(o, m) /\ o # op => Does(o, m)'
      /\ \A o, m : Does(o, m) /\ Head(work).m # m => Does(o, m)'
  BY <1>1, <1>2, ZenonT(40) DEF Does
<1>4. /\ \A o, t : DoesFor(o, t) /\ o # op => DoesFor(o, t)'
      /\ \A o, t : DoesFor(o, t) /\ Head(work).t # t => DoesFor(o, t)'
  BY <1>1, <1>2, ZenonT(40) DEF DoesFor
<1>5. \A i \in DOMAIN work' : i \notin DOMAIN p =>
         work'[i].op \notin {"delta", "upsert"} /\ (work'[i].op = "finalize" => work'[i].text = <<>>)
  <2> SUFFICES ASSUME NEW i \in DOMAIN work', i \notin DOMAIN p
               PROVE  work'[i].op \notin {"delta", "upsert"}
                      /\ (work'[i].op = "finalize" => work'[i].text = <<>>)
    OBVIOUS
  <2>1. PICK j \in DOMAIN work : j # 1 /\ work'[i] = work[j]
    <3> DEFINE j == i - Len(p) + 1
    <3>1. j \in DOMAIN work /\ j > 1 /\ work'[i] = work[j] /\ Len(p) \in Nat /\ i \in Nat
      BY <1>1, PrefixedWork
    <3>2. j # 1
      BY <3>1
    <3> QED
      BY <3>1, <3>2
  <2> QED
    BY <2>1, RestOfWork
<1>6. p # <<>> => work' # <<>> /\ Head(work') = p[1] /\ 1 \in DOMAIN p /\ work'[1] = p[1]
  BY <1>1
<1>7. ASSUME NEW m, p = <<>> \/ p[1].op # "delta" \/ p[1].m # m
      PROVE  InHand(m)' = <<>>
  <2>1. CASE p = <<>>
    <3>1. work' # <<>> => Head(work') = work'[1] /\ 1 \in DOMAIN work' /\ 1 \notin DOMAIN p
      BY <1>1, <2>1
    <3> QED
      BY <1>5, <3>1 DEF InHand
  <2>2. CASE p # <<>>
    BY <1>6, <1>7, <2>2 DEF InHand
  <2> QED
    BY <2>1, <2>2
<1> QED
  BY <1>3, <1>4, <1>5, <1>6, <1>7

LEMMA ReplacedOrdered ==
  ASSUME TypeOK, WorkOrdered, NEW op \in {"finalize", "finalizePlan"}, NEW p, Replaces(op, p),
         \A m \in Messages : buffer[m] = <<>> => buffer'[m] = <<>>,
         op = "finalize" => p # <<>> /\ p[Len(p)] = Complete(Head(work).m),
         \A i \in DOMAIN p : /\ Orderly(i)'
                             /\ ~(p[i].op = "finalize")
  PROVE  WorkOrdered'
<1>1. work \in Seq(Steps) /\ p \in Seq(Steps) /\ work' = p \o Tail(work) /\ work # <<>> /\ FeedRests
      /\ 1 \in DOMAIN work /\ Head(work) = work[1] /\ work[1].op = op
  BY TypeFacts DEF Replaces
<1>2. Len(p) \in Nat /\ DOMAIN p = 1..Len(p) /\ (p # <<>> => Len(p) > 0)
  BY <1>1
<1> SUFFICES ASSUME NEW i \in DOMAIN work', i \notin DOMAIN p PROVE Orderly(i)'
  BY <1>1, PrefixedWork DEF WorkOrdered
<1>3. PICK j \in DOMAIN work : j = i - Len(p) + 1 /\ j > 1 /\ work'[i] = work[j]
  BY <1>1, PrefixedWork
<1>4. i \in Nat \ {0} /\ j \in Nat /\ i > Len(p) /\ i = j - 1 + Len(p)
  BY <1>1, <1>2, <1>3, PrefixedWork, SMTT(30)
<1> DEFINE o == work[j]
<1>5. Orderly(j)
  BY DEF WorkOrdered
<1>6. o.op \notin {"delta", "upsert"} /\ (o.op = "finalize" => o.text = <<>>)
  BY <1>3, RestOfWork
<1>7. /\ o.op \in {"finalize", "complete", "forget"} => o.m \in Messages /\ Quiet(o.m)
      /\ o.op = "complete" => buffer'[o.m] = <<>>
      /\ o.op = "clear" => TurnDone(o.t)
      /\ o.op = "finalizePlan" => PlanQuiet(o.t) /\ o.text \in {<<>>, UpTo(planned[o.t])}
  BY <1>5, WorkAt DEF Orderly
<1>8. o.op = "forget" =>
        /\ i > 1 /\ work'[i - 1].op \in {"finalize", "complete"} /\ work'[i - 1].m = o.m
  <2> SUFFICES ASSUME o.op = "forget"
               PROVE  i > 1 /\ work'[i - 1].op \in {"finalize", "complete"} /\ work'[i - 1].m = o.m
    OBVIOUS
  <2>1. work[j - 1].op \in {"finalize", "complete"} /\ work[j - 1].m = o.m
    BY <1>3, <1>5 DEF Orderly
  <2>2. CASE j = 2
    <3>1. op = "finalize" /\ work[1].m = o.m
      BY <1>1, <2>1, <2>2
    <3>2. i - 1 = Len(p) /\ Len(p) \in DOMAIN p /\ p[Len(p)] = Complete(o.m)
      BY <1>1, <1>2, <1>4, <2>2, <3>1
    <3>3. work'[i - 1] = Complete(o.m)
      BY <1>1, <3>2, PrefixedWork
    <3>4. i > 1
      BY <1>2, <1>4, <3>2
    <3> QED
      BY <3>3, <3>4 DEF Complete
  <2>3. CASE j # 2
    <3>1. j - 1 \in DOMAIN work /\ j - 1 # 1 /\ i - 1 = (j - 1) + Len(p) - 1
      <4>1. DOMAIN work = 1..Len(work) /\ Len(work) \in Nat /\ Len(p) \in Nat
        BY <1>1
      <4>2. j \in Nat /\ j <= Len(work) /\ j > 2
        BY <1>3, <1>4, <2>3, <4>1
      <4>3. j - 1 \in 1..Len(work) /\ j - 1 # 1
        BY <4>1, <4>2
      <4>4. i - 1 = (j - 1) + Len(p) - 1
        BY <1>4, <4>1, <4>2
      <4> QED
        BY <4>1, <4>3, <4>4
    <3>2. work'[i - 1] = work[j - 1]
      <4>1. work'[(j - 1) + Len(p) - 1] = work[j - 1]
        BY <1>1, <3>1, PrefixedWork
      <4> QED
        BY <3>1, <4>1
    <3>3. i > 1
      BY <1>2, <1>3, <1>4, <2>3
    <3> QED
      BY <2>1, <3>2, <3>3
  <2> QED
    BY <2>2, <2>3
<1>9. i # 1 \/ o.op # "forget"
  BY <1>8
<1> HIDE DEF o
<1> QED
  BY <1>1, <1>3, <1>4, <1>6, <1>7, <1>8, <1>9, RestingFeed DEF o, Orderly, FeedRests, UpTo

(* What the end of a message puts in its place: a last delivery, if anything *)
(* is left, and the mark that it is complete.                              *)
LEMMA FinalSteps ==
  ASSUME TypeOK, NEW m \in Messages, NEW final \in Texts
  PROVE  LET p == (IF final = <<>> THEN <<>> ELSE <<Deliver(m, final)>>) \o <<Complete(m)>>
         IN  /\ p \in Seq(Steps) /\ p # <<>> /\ p[Len(p)] = Complete(m)
             /\ final = <<>> => p = <<Complete(m)>> /\ DOMAIN p = {1}
             /\ final # <<>> => /\ DOMAIN p = {1, 2} /\ p[1] = Deliver(m, final)
                                /\ p[2] = Complete(m)
<1>1. Deliver(m, final) \in Steps /\ Complete(m) \in Steps
  BY DEF Deliver, Complete, Steps
<1>2. CASE final = <<>>
  BY <1>1, <1>2
<1>3. CASE final # <<>>
  <2>1. \A a, b \in Steps : LET p == <<a>> \o <<b>>
                            IN  /\ p \in Seq(Steps) /\ p # <<>> /\ DOMAIN p = {1, 2} /\ Len(p) = 2
                                /\ p[1] = a /\ p[2] = b
    OBVIOUS
  <2> QED
    BY <1>1, <1>3, <2>1
<1> QED
  BY <1>2, <1>3

LEMMA FinalizeProgress ==
  ASSUME IInv, FinalizeAssistantMessage
  PROVE  Progress'
<1>1. TypeOK /\ FeedOrdered /\ Progress
  BY DEF IInv, Progress
<1>2. /\ FeedRests /\ work # <<>> /\ Head(work).op = "finalize"
      /\ UNCHANGED <<text, shown, plan, planBuffer, remembered, excused>>
  BY DEF FinalizeAssistantMessage, Do, FeedRests, providerVars, threadVars
<1>3. PICK m \in Messages, fallback \in Texts :
        /\ m = Head(work).m /\ fallback = Head(work).text /\ Quiet(m)
        /\ fallback # <<>> => text[m] = <<>> /\ fallback = UpTo(said[m])
  BY <1>1, <1>2, HeadOfWork, WorkAt DEF Progress, Orderly
<1>4. buffer[m] \in Texts /\ text[m] \in Texts /\ said[m] \in Nat
  BY <1>1, TypeFacts
<1>5. PICK final \in Texts : final = FinalText(buffer[m], fallback)
  BY <1>4, JoinTexts
<1>6. PICK p : p = (IF final = <<>> THEN <<>> ELSE <<Deliver(m, final)>>) \o <<Complete(m)>>
  OBVIOUS
<1>7. /\ p \in Seq(Steps) /\ p # <<>> /\ p[Len(p)] = Complete(m)
      /\ final = <<>> => p = <<Complete(m)>> /\ DOMAIN p = {1}
      /\ final # <<>> => DOMAIN p = {1, 2} /\ p[1] = Deliver(m, final) /\ p[2] = Complete(m)
  BY <1>1, <1>6, FinalSteps
<1>8. work' = p \o Tail(work) /\ buffer' = [buffer EXCEPT ![m] = <<>>]
  BY <1>3, <1>5, <1>6 DEF FinalizeAssistantMessage
<1>9. Replaces("finalize", p)
  BY <1>2, <1>7, <1>8 DEF Replaces
<1>10. /\ buffer'[m] = <<>> /\ \A k \in Messages : k # m => buffer'[k] = buffer[k]
       /\ \A k \in Messages : buffer'[k] \in {buffer[k], <<>>}
  BY <1>1, <1>8, TypeFacts
<1>11. /\ \A k : InHand(k) = <<>>
       /\ \A k : k # m => InHand(k)' = <<>>
       /\ InHand(m)' = final
  <2>1. \A k : InHand(k) = <<>>
    BY <1>2 DEF InHand
  <2>2. CASE final = <<>>
    <3>1. p[1] = Complete(m)
      BY <1>7, <2>2
    <3> QED
      BY <1>1, <1>9, <2>1, <2>2, <3>1, ReplacedPlaces DEF Progress, Complete
  <2>3. CASE final # <<>>
    <3>1. p[1] = Deliver(m, final)
      BY <1>7, <2>3
    <3>2. work' # <<>> /\ Head(work') = Deliver(m, final)
      BY <1>1, <1>7, <1>9, <3>1, ReplacedPlaces DEF Progress
    <3> QED
      BY <2>1, <3>2 DEF InHand, Deliver
  <2> QED
    BY <2>2, <2>3
<1>12. /\ Numbers(m) = {} /\ ~HasItems(m) /\ Numbers(m)' = {} /\ Quiet(m)' /\ said' = said
  <2>1. Numbers(m) = {} /\ ~HasItems(m)
    BY <1>3 DEF Quiet, HasItems, Numbers, IsItem, IsDelta
  <2> QED
    BY <1>2, <1>3, <2>1, RestingFeed DEF FeedRests
<1>13. WorkOrdered'
  <2>1. \A i \in DOMAIN p : Orderly(i)' /\ ~(p[i].op = "finalize")
    <3> SUFFICES ASSUME NEW i \in DOMAIN p PROVE Orderly(i)' /\ ~(p[i].op = "finalize")
      OBVIOUS
    <3>1. work'[i] = p[i]
      BY <1>1, <1>2, <1>7, <1>8, TypeFacts, PrefixedWork
    <3>2. p[i] = Complete(m) \/ (i = 1 /\ p[i] = Deliver(m, final) /\ final # <<>>)
      BY <1>7
    <3>3. Quiet(m)' /\ buffer'[m] = <<>>
      BY <1>10, <1>12
    <3>4. CASE p[i] = Complete(m)
      BY <3>1, <3>3, <3>4 DEF Orderly, Complete
    <3>5. CASE i = 1 /\ p[i] = Deliver(m, final) /\ final # <<>>
      BY <3>1, <3>5 DEF Orderly, Deliver
    <3> QED
      BY <3>2, <3>4, <3>5
  <2>2. \A k \in Messages : buffer[k] = <<>> => buffer'[k] = <<>>
    BY <1>10
  <2> QED
    BY <1>1, <1>3, <1>7, <1>9, <2>1, <2>2, ReplacedOrdered DEF Progress
<1>14. SaidOnce'
  <2> SUFFICES ASSUME NEW k \in Messages PROVE OnceOf(k)'
    BY DEF SaidOnce
  <2>1. OnceOf(k) /\ Numbers(k)' = Numbers(k)
    BY <1>1, <1>2, RestingFeed DEF Progress, SaidOnce
  <2>2. CASE k # m
    BY <1>2, <1>10, <1>11, <1>12, <2>1, <2>2, OnceShrinks
  <2>3. CASE k = m /\ buffer[m] # <<>>
    <3>1. final = buffer[m]
      BY <1>5, <2>3 DEF FinalText
    <3> QED
      BY <1>2, <1>10, <1>11, <1>12, <2>1, <2>3, <3>1, NothingOnce DEF OnceOf, Apart, Elements
  <2>4. CASE k = m /\ buffer[m] = <<>> /\ fallback = <<>>
    <3>1. final = <<>>
      BY <1>5, <2>4 DEF FinalText
    <3> QED
      BY <1>2, <1>10, <1>11, <1>12, <2>1, <2>4, <3>1, OnceShrinks
  <2>5. CASE k = m /\ buffer[m] = <<>> /\ fallback # <<>>
    <3>1. final = UpTo(said[m]) /\ text[m] = <<>>
      BY <1>3, <1>5, <2>5 DEF FinalText
    <3>2. IsInjective(final) /\ \A v \in Range(final) : v <= said[m]
      BY <1>4, <3>1 DEF UpTo, IsInjective, Range
    <3> QED
      BY <1>2, <1>10, <1>11, <1>12, <2>5, <3>1, <3>2, NothingOnce DEF OnceOf, Apart, Elements
  <2> QED
    BY <2>2, <2>3, <2>4, <2>5
<1>15. Whole'
  <2> SUFFICES ASSUME NEW k \in Messages \ excused PROVE WholeOf(k)'
    BY <1>2 DEF Whole
  <2>1. WholeOf(k) /\ Numbers(k)' = Numbers(k) /\ (Quiet(k) => Quiet(k)')
    BY <1>1, <1>2, RestingFeed DEF Progress, Whole
  <2>2. CASE k # m
    <3>1. Told(k)' = Told(k) /\ InHand(k)' = InHand(k)
      BY <1>2, <1>10, <1>11, <2>2 DEF Told
    <3>2. DetailOnly(k) => DetailOnly(k)'
      BY <1>2, <1>3, <2>2, <3>1, DetailRests
    <3> QED
      BY <1>2, <1>10, <1>12, <2>1, <2>2, <3>1, <3>2, WholeStays
  <2>3. CASE k = m
    <3>1. /\ InPlace(m) /\ Told(m) <= said[m]
          /\ {} = (Told(m) + 1)..said[m] \/ DetailOnly(m)
          /\ shown[m] = "complete" => buffer[m] = <<>> /\ Len(text[m]) = said[m]
      BY <1>12, <2>1, <2>3 DEF WholeOf
    <3>2. /\ InHand(m) = <<>> /\ InHand(m)' = final /\ buffer'[m] = <<>> /\ text'[m] = text[m]
          /\ shown'[m] = shown[m] /\ said'[m] = said[m] /\ Numbers(m)' = {} /\ Quiet(m)'
      BY <1>2, <1>10, <1>11, <1>12
    <3>3. /\ Len(text[m]) \in Nat /\ Len(buffer[m]) \in Nat /\ Len(<<>>) = 0
      BY <1>4 DEF Texts
    <3>4. Told(m) = Len(text[m]) + Len(buffer[m]) /\ Told(m)' = Len(text[m]) + Len(final)
      <4>1. /\ Told(m) = Len(text[m]) + Len(<<>>) + Len(buffer[m])
            /\ Told(m)' = Len(text[m]) + Len(final) + Len(<<>>)
        BY <3>2 DEF Told
      <4>2. Len(final) \in Nat
        BY <1>5 DEF Texts
      <4> QED
        BY <3>3, <4>1, <4>2
    <3>5. DetailOnly(m) => /\ fallback = UpTo(1) /\ fallback # <<>> /\ said[m] = 1
                           /\ Len(text[m]) + Len(buffer[m]) = 0
      <4> SUFFICES ASSUME DetailOnly(m)
                   PROVE  /\ fallback = UpTo(1) /\ fallback # <<>> /\ said[m] = 1
                          /\ Len(text[m]) + Len(buffer[m]) = 0
        OBVIOUS
      <4>1. Head(work) = Finalize(m, UpTo(1))
        BY <1>12 DEF DetailOnly, HasItems, IsItem, IsItemEnd
      <4>2. UpTo(1) # <<>>
        BY DEF UpTo
      <4>3. fallback = UpTo(1)
        BY <1>3, <4>1 DEF Finalize
      <4> QED
        BY <3>4, <4>2, <4>3 DEF DetailOnly
    <3>6. CASE buffer[m] # <<>>
      <4>1. final = buffer[m] /\ Len(buffer[m]) > 0
        BY <1>4, <1>5, <3>6 DEF FinalText, Texts
      <4>2. ~DetailOnly(m)
        <5>1. \A a, b \in Nat : b > 0 => a + b # 0
          OBVIOUS
        <5> QED
          BY <3>3, <3>5, <4>1, <5>1
      <4>3. InPlace(m)'
        <5>1. \A i \in DOMAIN buffer[m] : buffer[m][i] = Len(text[m]) + Len(<<>>) + i
          BY <3>1, <3>2 DEF InPlace
        <5>2. \A i \in DOMAIN buffer[m] : buffer[m][i] = Len(text[m]) + i
          BY <1>4, <3>3, <5>1 DEF Texts
        <5> QED
          BY <3>1, <3>2, <4>1, <5>2 DEF InPlace
      <4>4. Told(m)' = Told(m)
        BY <3>4, <4>1
      <4>5. Numbers(m)' = (Told(m)' + 1)..said'[m] /\ Told(m)' <= said'[m]
        BY <3>1, <3>2, <4>2, <4>4
      <4>6. shown'[m] # "complete"
        BY <3>1, <3>2, <3>6
      <4> QED
        BY <2>3, <4>3, <4>5, <4>6 DEF WholeOf
    <3>7. CASE buffer[m] = <<>> /\ fallback = <<>>
      <4>1. final = <<>> /\ ~DetailOnly(m)
        BY <1>5, <3>5, <3>7 DEF FinalText
      <4>2. InPlace(m)' /\ Told(m)' = Told(m)
        BY <3>1, <3>2, <3>4, <3>7, <4>1 DEF InPlace
      <4>3. Numbers(m)' = (Told(m)' + 1)..said'[m] /\ Told(m)' <= said'[m]
        BY <3>1, <3>2, <4>1, <4>2
      <4>4. shown'[m] = "complete" => InHand(m)' = <<>> /\ Len(text'[m]) = said'[m]
        BY <3>1, <3>2, <4>1
      <4> QED
        BY <2>3, <3>1, <3>2, <4>2, <4>3, <4>4 DEF WholeOf
    <3>8. CASE buffer[m] = <<>> /\ fallback # <<>>
      <4>1. final = UpTo(said[m]) /\ text[m] = <<>>
        BY <1>3, <1>5, <3>8 DEF FinalText
      <4>2. /\ Len(final) = said[m] /\ \A i \in DOMAIN final : final[i] = 0 + i
        BY <1>4, <4>1 DEF UpTo
      <4>3. said[m] # 0
        BY <1>3, <3>8 DEF UpTo
      <4>4. InPlace(m)' /\ Told(m)' = said[m]
        BY <1>4, <3>2, <3>3, <3>4, <4>1, <4>2 DEF InPlace
      <4>5. shown[m] # "complete"
        BY <3>1, <3>3, <4>1, <4>3
      <4>6. (said[m] + 1)..said[m] = {}
        BY <1>4
      <4>7. Numbers(m)' = (Told(m)' + 1)..said'[m] /\ Told(m)' <= said'[m]
        BY <1>4, <3>2, <4>4, <4>6
      <4>8. shown'[m] # "complete"
        BY <3>2, <4>5
      <4> QED
        BY <2>3, <4>4, <4>7, <4>8 DEF WholeOf
    <3> QED
      BY <2>3, <3>6, <3>7, <3>8
  <2> QED
    BY <2>2, <2>3
<1>16. Settling'
  <2> SUFFICES ASSUME NEW k \in Messages \ excused PROVE SettlingOf(k)'
    BY <1>2 DEF Settling
  <2>1. CASE k = m
    <3>1. Len(p) \in DOMAIN p /\ p[Len(p)] = Complete(m)
      BY <1>7
    <3>2. Len(p) \in DOMAIN work' /\ work'[Len(p)] = Complete(m)
      BY <1>1, <1>2, <1>7, <1>8, <3>1, TypeFacts, PrefixedWork
    <3>3. Does("complete", m)'
      BY <3>2 DEF Does, Complete
    <3> QED
      BY <1>10, <2>1, <3>3 DEF SettlingOf
  <2>2. CASE k # m
    <3>1. /\ SettlingOf(k) /\ (HasItems(k) => HasItems(k)') /\ (Remembered(k) => Remembered(k)')
      BY <1>1, <1>2, RestingFeed DEF Progress, Settling, Remembered
    <3>2. /\ Does("finalize", k) => Does("finalize", k)'
          /\ Does("complete", k) => Does("complete", k)'
      BY <1>1, <1>3, <1>9, <2>2, ReplacedPlaces DEF Progress
    <3> QED
      BY <1>2, <1>10, <1>12, <2>2, <3>1, <3>2, SettlingStays
  <2> QED
    BY <2>1, <2>2
<1>17. \A t : ~DoesFor("upsert", t)'
  <2>1. \A i \in DOMAIN work' : work'[i].op # "upsert"
    <3> SUFFICES ASSUME NEW i \in DOMAIN work' PROVE work'[i].op # "upsert"
      OBVIOUS
    <3>1. CASE i \in DOMAIN p
      <4>1. work'[i] = p[i] /\ p[i] \in {Complete(m), Deliver(m, final)}
        BY <1>1, <1>2, <1>7, <1>8, <3>1, TypeFacts, PrefixedWork
      <4> QED
        BY <4>1 DEF Complete, Deliver
    <3>2. CASE i \notin DOMAIN p
      BY <1>1, <1>9, <3>2, ReplacedPlaces DEF Progress
    <3> QED
      BY <3>1, <3>2
  <2> QED
    BY <2>1 DEF DoesFor
<1>18. PlanWhole'
  <2> SUFFICES ASSUME NEW t \in Turns \ excused PROVE PlanBuffered(t)' \/ PlanWritten(t)'
    BY <1>2 DEF PlanWhole
  <2>1. /\ planned'[t] = planned[t] /\ PlanNumbers(t)' = PlanNumbers(t)
        /\ PlanQuiet(t) => PlanQuiet(t)'
        /\ PlanBuffered(t) \/ PlanWritten(t)
    BY <1>1, <1>2, RestingFeed DEF FeedRests, Progress, PlanWhole
  <2> QED
    BY <1>2, <1>17, <2>1, PlanStays
<1>19. TurnSettling'
  <2> SUFFICES ASSUME NEW t \in Turns \ excused PROVE SettledOf(t)'
    BY <1>2 DEF TurnSettling
  <2>1. SettledOf(t) /\ (TurnDone(t)' => TurnDone(t))
    BY <1>1, <1>2, RestingFeed DEF Progress, TurnSettling
  <2>2. /\ DoesFor("clear", t) => DoesFor("clear", t)'
        /\ DoesFor("finalizePlan", t) => DoesFor("finalizePlan", t)'
    BY <1>1, <1>9, ReplacedPlaces DEF Progress
  <2> QED
    BY <1>2, <2>1, <2>2, SettledStays
<1> QED
  BY <1>13, <1>14, <1>15, <1>16, <1>18, <1>19 DEF Progress

LEMMA FinalizePlanProgress ==
  ASSUME IInv, FinalizeBufferedProposedPlan
  PROVE  Progress'
<1>1. TypeOK /\ FeedOrdered /\ Progress
  BY DEF IInv, Progress
<1>2. /\ FeedRests /\ work # <<>> /\ Head(work).op = "finalizePlan"
      /\ UNCHANGED <<text, shown, plan, buffer, remembered, excused>>
  BY DEF FinalizeBufferedProposedPlan, Do, FeedRests, providerVars, threadVars
<1>3. PICK t \in Turns, fallback \in Texts :
        /\ t = Head(work).t /\ fallback = Head(work).text /\ PlanQuiet(t)
        /\ fallback \in {<<>>, UpTo(planned[t])}
  BY <1>1, <1>2, HeadOfWork, WorkAt DEF Progress, Orderly
<1>4. planBuffer[t] \in Texts /\ planned[t] \in Nat
  BY <1>1, TypeFacts
<1>5. PICK final \in Texts : final = FinalText(planBuffer[t], fallback)
  BY <1>4, JoinTexts
<1>6. PICK p : p = IF final = <<>> THEN <<>> ELSE <<Upsert(t, final)>>
  OBVIOUS
<1>7. /\ p \in Seq(Steps)
      /\ final = <<>> => p = <<>> /\ DOMAIN p = {}
      /\ final # <<>> => p # <<>> /\ DOMAIN p = {1} /\ p[1] = Upsert(t, final)
  <2>1. Upsert(t, final) \in Steps
    BY DEF Upsert, Steps
  <2> QED
    BY <1>6, <2>1
<1>8. work' = p \o Tail(work) /\ planBuffer' = [planBuffer EXCEPT ![t] = <<>>]
  BY <1>3, <1>5, <1>6 DEF FinalizeBufferedProposedPlan
<1>9. Replaces("finalizePlan", p)
  BY <1>2, <1>7, <1>8 DEF Replaces
<1>10. /\ planBuffer'[t] = <<>> /\ \A u \in Turns : u # t => planBuffer'[u] = planBuffer[u]
       /\ \A u \in Turns : planBuffer'[u] \in {planBuffer[u], <<>>}
  BY <1>1, <1>8, TypeFacts
<1>11. \A k : InHand(k) = <<>> /\ InHand(k)' = <<>>
  <2>1. \A k : InHand(k) = <<>>
    BY <1>2 DEF InHand
  <2>2. p = <<>> \/ p[1].op # "delta"
    BY <1>7 DEF Upsert
  <2> QED
    BY <1>1, <1>9, <2>1, <2>2, ReplacedPlaces DEF Progress
<1>12. PlanNumbers(t) = {} /\ PlanNumbers(t)' = {} /\ PlanQuiet(t)' /\ planned' = planned
  <2>1. PlanNumbers(t) = {}
    BY <1>3 DEF PlanQuiet, HasPlans, PlanNumbers, IsPlan, IsPlanDelta
  <2> QED
    BY <1>2, <1>3, <2>1, RestingFeed DEF FeedRests
<1>13. WorkOrdered'
  <2>1. \A i \in DOMAIN p : Orderly(i)' /\ ~(p[i].op = "finalize")
    <3> SUFFICES ASSUME NEW i \in DOMAIN p PROVE Orderly(i)' /\ ~(p[i].op = "finalize")
      OBVIOUS
    <3>1. work'[i] = p[i]
      BY <1>1, <1>2, <1>7, <1>8, TypeFacts, PrefixedWork
    <3>2. i = 1 /\ p[i] = Upsert(t, final) /\ final # <<>>
      BY <1>7
    <3> QED
      BY <1>12, <3>1, <3>2 DEF Orderly, Upsert
  <2> QED
    BY <1>1, <1>2, <1>9, <2>1, ReplacedOrdered DEF Progress
<1>14. SaidOnce'
  <2> SUFFICES ASSUME NEW k \in Messages PROVE OnceOf(k)'
    BY DEF SaidOnce
  <2>1. OnceOf(k) /\ Numbers(k)' = Numbers(k) /\ said' = said
    BY <1>1, <1>2, RestingFeed DEF Progress, SaidOnce, FeedRests
  <2> QED
    BY <1>2, <1>11, <2>1, OnceShrinks
<1>15. Whole'
  <2> SUFFICES ASSUME NEW k \in Messages \ excused PROVE WholeOf(k)'
    BY <1>2 DEF Whole
  <2>1. /\ WholeOf(k) /\ Numbers(k)' = Numbers(k) /\ (Quiet(k) => Quiet(k)') /\ said' = said
        /\ Told(k)' = Told(k)
    BY <1>1, <1>2, <1>11, RestingFeed DEF Progress, Whole, FeedRests, Told
  <2>2. DetailOnly(k) => DetailOnly(k)'
    BY <1>2, <2>1, DetailRests
  <2> QED
    BY <1>2, <1>11, <2>1, <2>2, WholeStays
<1>16. Settling'
  <2> SUFFICES ASSUME NEW k \in Messages \ excused PROVE SettlingOf(k)'
    BY <1>2 DEF Settling
  <2>1. /\ SettlingOf(k) /\ (HasItems(k) => HasItems(k)') /\ (Remembered(k) => Remembered(k)')
        /\ said' = said
    BY <1>1, <1>2, RestingFeed DEF Progress, Settling, Remembered, FeedRests
  <2>2. /\ Does("finalize", k) => Does("finalize", k)'
        /\ Does("complete", k) => Does("complete", k)'
    BY <1>1, <1>9, ReplacedPlaces DEF Progress
  <2> QED
    BY <1>2, <2>1, <2>2, SettlingStays
<1>17. \A i \in DOMAIN work' :
         work'[i].op = "upsert" => i \in DOMAIN p /\ final # <<>> /\ work'[i].t = t
  <2> SUFFICES ASSUME NEW i \in DOMAIN work', work'[i].op = "upsert"
               PROVE  i \in DOMAIN p /\ final # <<>> /\ work'[i].t = t
    OBVIOUS
  <2>1. i \in DOMAIN p
    BY <1>1, <1>9, ReplacedPlaces DEF Progress
  <2>2. final # <<>> /\ i = 1 /\ work'[i] = Upsert(t, final)
    BY <1>1, <1>2, <1>7, <1>8, <2>1, TypeFacts, PrefixedWork
  <2> QED
    BY <2>1, <2>2 DEF Upsert
<1>18. /\ \A u : u # t => ~DoesFor("upsert", u)'
       /\ final = <<>> => ~DoesFor("upsert", t)'
  BY <1>17 DEF DoesFor
<1>19. PlanWhole'
  <2> SUFFICES ASSUME NEW u \in Turns \ excused PROVE PlanBuffered(u)' \/ PlanWritten(u)'
    BY <1>2 DEF PlanWhole
  <2>1. PlanBuffered(u) \/ PlanWritten(u)
    BY <1>1 DEF Progress, PlanWhole
  <2>2. CASE u # t
    <3>1. /\ PlanNumbers(u)' = PlanNumbers(u) /\ (PlanQuiet(u) => PlanQuiet(u)')
      BY <1>2, RestingFeed
    <3> QED
      BY <1>2, <1>10, <1>12, <1>18, <2>1, <2>2, <3>1, PlanStays
  <2>3. CASE u = t
    <3>1. planBuffer[t] # <<>> => planBuffer[t] = UpTo(planned[t])
      <4> SUFFICES ASSUME planBuffer[t] # <<>> PROVE planBuffer[t] = UpTo(planned[t])
        OBVIOUS
      <4>1. PlanBuffered(t)
        BY <2>1, <2>3 DEF PlanWritten
      <4>2. /\ \A i \in DOMAIN planBuffer[t] : planBuffer[t][i] = i
            /\ Len(planBuffer[t]) <= planned[t] /\ {} = (Len(planBuffer[t]) + 1)..planned[t]
        BY <1>12, <4>1 DEF PlanBuffered
      <4>3. Len(planBuffer[t]) \in Nat
        BY <1>4 DEF Texts
      <4>4. Len(planBuffer[t]) = planned[t]
        BY <1>4, <4>2, <4>3
      <4> QED
        <5>1. \A b \in Seq(Nat \ {0}), n \in Nat :
                 (\A i \in DOMAIN b : b[i] = i) /\ Len(b) = n => b = [i \in 1..n |-> i]
          OBVIOUS
        <5> QED
          BY <1>4, <4>2, <4>4, <5>1 DEF Texts, UpTo
    <3>2. planBuffer[t] = <<>> => plan[t] = UpTo(planned[t])
      <4> SUFFICES ASSUME planBuffer[t] = <<>> PROVE plan[t] = UpTo(planned[t])
        OBVIOUS
      <4>1. CASE PlanBuffered(t)
        <5>1. plan[t] = <<>> /\ {} = (Len(<<>>) + 1)..planned[t]
          BY <1>12, <4>1 DEF PlanBuffered
        <5>2. planned[t] = 0
          BY <1>4, <5>1
        <5> QED
          BY <5>1, <5>2 DEF UpTo
      <4>2. CASE PlanWritten(t)
        BY <1>2, <4>2 DEF PlanWritten, Upsert
      <4> QED
        BY <2>1, <2>3, <4>1, <4>2
    <3>3. final \in {<<>>, UpTo(planned[t])}
      BY <1>3, <1>5, <3>1 DEF FinalText
    <3>4. final = <<>> => planBuffer[t] = <<>>
      BY <1>5 DEF FinalText
    <3>5. CASE final = <<>>
      <4>1. plan'[t] = UpTo(planned'[t]) /\ ~DoesFor("upsert", t)'
        BY <1>2, <1>12, <1>18, <3>2, <3>4, <3>5
      <4> QED
        BY <1>10, <1>12, <2>3, <4>1 DEF PlanWritten, UpTo
    <3>6. CASE final # <<>>
      <4>1. work' # <<>> /\ Head(work') = Upsert(t, UpTo(planned[t]))
        BY <1>1, <1>7, <1>9, <3>3, <3>6, ReplacedPlaces DEF Progress
      <4> QED
        BY <1>10, <1>12, <2>3, <4>1 DEF PlanWritten, UpTo, Upsert
    <3> QED
      BY <3>5, <3>6
  <2> QED
    BY <2>2, <2>3
<1>20. TurnSettling'
  <2> SUFFICES ASSUME NEW u \in Turns \ excused PROVE SettledOf(u)'
    BY <1>2 DEF TurnSettling
  <2>1. SettledOf(u) /\ (TurnDone(u)' => TurnDone(u))
    BY <1>1, <1>2, RestingFeed DEF Progress, TurnSettling
  <2>2. /\ DoesFor("clear", u) => DoesFor("clear", u)'
        /\ u # t /\ DoesFor("finalizePlan", u) => DoesFor("finalizePlan", u)'
    BY <1>1, <1>3, <1>9, ReplacedPlaces DEF Progress
  <2> QED
    BY <1>2, <1>10, <2>1, <2>2 DEF SettledOf
<1> QED
  BY <1>13, <1>14, <1>15, <1>16, <1>19, <1>20 DEF Progress

-----------------------------------------------------------------------------
(* The worker takes an event *)

Takes == Taken /\ work = <<>> /\ UNCHANGED <<text, shown, plan>> /\ excused \subseteq excused'

LEMMA NothingInHand ==
  ASSUME work = <<>>
  PROVE  /\ \A m : InHand(m) = <<>>
         /\ \A op, m : ~Does(op, m)
         /\ \A op, t : ~DoesFor(op, t)
BY DEF InHand, Does, DoesFor

LEMMA TakeKeepsOnce ==
  ASSUME TypeOK, FeedOrdered, Progress, Takes, NEW m \in Messages, ~IsDelta(Head(feed), m),
         buffer'[m] \in {buffer[m], <<>>}, InHand(m)' = <<>>
  PROVE  OnceOf(m)'
<1>1. OnceOf(m) /\ Numbers(m)' = Numbers(m) /\ said' = said /\ text' = text
  BY TakenNumbers DEF Progress, SaidOnce, Takes, Taken
<1> QED
  BY <1>1, OnceShrinks

LEMMA TakeKeepsMessage ==
  ASSUME TypeOK, FeedOrdered, Progress, Takes, NEW m \in Messages \ excused,
         ~IsItem(Head(feed), m), buffer'[m] = buffer[m], InHand(m)' = <<>>
  PROVE  WholeOf(m)'
<1>1. ~IsDelta(Head(feed), m) /\ ~IsItemEnd(Head(feed), m)
  BY DEF IsItem, IsDelta, IsItemEnd
<1>2. /\ WholeOf(m) /\ said' = said /\ ended' = ended /\ text' = text /\ shown' = shown
      /\ InHand(m) = <<>> /\ work = <<>>
  BY NothingInHand DEF Progress, Whole, Takes, Taken
<1>3. Numbers(m)' = Numbers(m) /\ (Quiet(m) => Quiet(m)')
  BY <1>1, TakenNumbers, TakenStates DEF Takes
<1>4. DetailOnly(m) => DetailOnly(m)'
  <2> SUFFICES ASSUME DetailOnly(m) PROVE DetailOnly(m)'
    OBVIOUS
  <2>1. feed \in Seq(Inputs) /\ feed # <<>> /\ feed' = Tail(feed)
    BY TypeFacts DEF Takes, Taken
  <2>2. PICK i \in DOMAIN feed : IsItemEnd(feed[i], m) /\ feed[i].detail = UpTo(1)
    BY <1>2 DEF DetailOnly
  <2>3. i - 1 \in DOMAIN feed' /\ feed'[i - 1] = feed[i]
    BY <1>1, <2>1, <2>2, TailFeed
  <2>4. Told(m)' = Told(m)
    BY <1>2 DEF Told
  <2> QED
    BY <1>2, <1>3, <2>2, <2>3, <2>4 DEF DetailOnly, ItemEnded, UpTo
<1> QED
  BY <1>2, <1>3, <1>4, WholeStays

LEMMA TakeSettles ==
  ASSUME TypeOK, FeedOrdered, Progress, Takes, NEW m \in Messages \ excused,
         ~IsItem(Head(feed), m), buffer'[m] = buffer[m],
         Remembered(m) => Remembered(m)' \/ Does("finalize", m)'
  PROVE  SettlingOf(m)'
<1>1. SettlingOf(m) /\ ~Does("finalize", m) /\ ~Does("complete", m) /\ UNCHANGED <<said, shown>>
  BY NothingInHand DEF Progress, Settling, Takes, Taken
<1>2. HasItems(m) => HasItems(m)'
  BY TakenFeed DEF Takes
<1> QED
  BY <1>1, <1>2 DEF SettlingOf

LEMMA TakeKeepsPlan ==
  ASSUME TypeOK, FeedOrdered, Progress, Takes, NEW t \in Turns \ excused,
         ~IsPlanDelta(Head(feed), t), planBuffer'[t] = planBuffer[t], ~DoesFor("upsert", t)'
  PROVE  PlanBuffered(t)' \/ PlanWritten(t)'
<1>1. /\ PlanBuffered(t) \/ PlanWritten(t)
      /\ work = <<>> /\ UNCHANGED <<planned, plan>>
  BY DEF Progress, PlanWhole, Takes, Taken
<1>2. PlanNumbers(t)' = PlanNumbers(t) /\ (PlanQuiet(t) => PlanQuiet(t)')
  BY TakenNumbers, TakenStates DEF Takes
<1> QED
  BY <1>1, <1>2, PlanStays

LEMMA TakeKeepsTurn ==
  ASSUME TypeOK, FeedOrdered, Progress, Takes, NEW t \in Turns \ excused,
         ~IsEnd(Head(feed), t),
         TurnDone(t) => remembered'[t] = remembered[t] /\ planBuffer'[t] = planBuffer[t]
  PROVE  SettledOf(t)'
<1>1. SettledOf(t) /\ ~DoesFor("clear", t) /\ ~DoesFor("finalizePlan", t)
  BY NothingInHand DEF Progress, TurnSettling, Takes
<1>2. TurnDone(t)' => TurnDone(t)
  BY TakenStates DEF Takes
<1> QED
  BY <1>1, <1>2 DEF SettledOf

(* A turn that is about to go on is not done.                              *)
LEMMA HeadIsNotDone ==
  ASSUME TypeOK, FeedOrdered, Takes
  PROVE  /\ \A m \in Messages : IsItem(Head(feed), m) => ~TurnDone(TurnOf[m]) /\ ~TurnDone(TurnOf[m])'
         /\ \A t \in Turns : IsPlan(Head(feed), t) => ~TurnDone(t)
<1>1. \A m \in Messages : TurnOf[m] \in Turns
  BY TypeFacts
<1>2. \A m \in Messages : IsItem(Head(feed), m) => ~TurnDone(TurnOf[m]) /\ ~TurnDone(TurnOf[m])'
  BY <1>1, TakenStates DEF Takes
<1>3. \A t \in Turns : PlanQuiet(t) => ~IsPlan(Head(feed), t)
  BY TakenStates DEF Takes
<1> QED
  BY <1>2, <1>3, DoneIsQuiet

LEMMA TakeSessionExitedProgress ==
  ASSUME IInv, TakeSessionExited
  PROVE  Progress'
<1>1. TypeOK /\ FeedOrdered /\ Progress
  BY DEF IInv, Progress
<1>2. /\ Takes /\ Head(feed).type = "session.exited"
      /\ UNCHANGED <<buffer, planBuffer, remembered, excused>>
  BY DEF TakeSessionExited, Take, Takes, Taken, providerVars, threadVars
<1>3. PICK t : work' = <<SetSession(t), ClearState>>
  BY DEF TakeSessionExited
<1>4. /\ \A m : InHand(m)' = <<>>
      /\ \A u : ~DoesFor("upsert", u)'
  BY <1>3 DEF SetSession, ClearState, InHand, DoesFor
<1>5. /\ \A m : ~IsItem(Head(feed), m) /\ ~IsDelta(Head(feed), m)
      /\ \A u : ~IsPlanDelta(Head(feed), u) /\ ~IsEnd(Head(feed), u)
  BY <1>2 DEF IsItem, IsDelta, IsPlanDelta, IsEnd
<1>6. WorkOrdered'
  <2>1. DOMAIN work' = {1, 2} /\ work'[1].op = "session" /\ work'[2].op = "clearSession"
    BY <1>3 DEF SetSession, ClearState
  <2> QED
    BY <2>1 DEF WorkOrdered, Orderly
<1>7. SaidOnce'
  BY <1>1, <1>2, <1>4, <1>5, TakeKeepsOnce DEF SaidOnce
<1>8. Whole'
  BY <1>1, <1>2, <1>4, <1>5, TakeKeepsMessage DEF Whole
<1>9. Settling'
  <2>1. \A m \in Messages : Remembered(m) => Remembered(m)'
    BY <1>1, <1>2, <1>5, TypeFacts, TakenStates DEF Remembered, Takes
  <2> QED
    BY <1>1, <1>2, <1>5, <2>1, TakeSettles DEF Settling
<1>10. PlanWhole'
  BY <1>1, <1>2, <1>4, <1>5, TakeKeepsPlan DEF PlanWhole
<1>11. TurnSettling'
  BY <1>1, <1>2, <1>5, TakeKeepsTurn DEF TurnSettling
<1> QED
  BY <1>6, <1>7, <1>8, <1>9, <1>10, <1>11 DEF Progress

LEMMA TakePlanCompletedProgress ==
  ASSUME IInv, TakePlanCompleted
  PROVE  Progress'
<1>1. TypeOK /\ FeedOrdered /\ Progress
  BY DEF IInv, Progress
<1>2. /\ Takes /\ Head(feed).type = "turn.proposed.completed"
      /\ UNCHANGED <<buffer, planBuffer, remembered, excused>>
  BY DEF TakePlanCompleted, Take, Takes, Taken, providerVars, threadVars
<1>3. Head(feed) \in Inputs /\ feed \in Seq(Inputs) /\ feed # <<>> /\ feed' = Tail(feed)
  BY <1>1, <1>2, TypeFacts, TailFeed DEF Takes, Taken
<1>4. PICK t \in Turns, markdown \in Texts : t = Head(feed).t /\ markdown = Head(feed).markdown
  BY <1>2, <1>3 DEF Inputs
<1>5. work' = <<FinalizePlan(t, markdown)>>
  BY <1>4 DEF TakePlanCompleted
<1>6. /\ \A m : InHand(m)' = <<>>
      /\ \A u : ~DoesFor("upsert", u)'
  BY <1>5 DEF FinalizePlan, InHand, DoesFor
<1>7. /\ \A m : ~IsItem(Head(feed), m) /\ ~IsDelta(Head(feed), m)
      /\ \A u : ~IsPlanDelta(Head(feed), u) /\ ~IsEnd(Head(feed), u)
      /\ IsPlanEnd(Head(feed), t)
  BY <1>2, <1>4 DEF IsItem, IsDelta, IsPlanDelta, IsEnd, IsPlanEnd
<1>8. WorkOrdered'
  <2>1. PlanQuiet(t)'
    BY <1>1, <1>2, <1>7, TakenStates DEF Takes
  <2>2. markdown \in {<<>>, UpTo(planned'[t])}
    <3>1. markdown \in {<<>>, UpTo(planned[t])}
      BY <1>1, <1>3, <1>4, <1>7, TailFeed DEF FeedOrdered, PlanEndsAreLast
    <3> QED
      BY <1>2, <3>1 DEF Takes, Taken
  <2>3. DOMAIN work' = {1} /\ work'[1] = FinalizePlan(t, markdown)
    BY <1>5
  <2> QED
    BY <2>1, <2>2, <2>3 DEF WorkOrdered, Orderly, FinalizePlan, UpTo
<1>9. SaidOnce'
  BY <1>1, <1>2, <1>6, <1>7, TakeKeepsOnce DEF SaidOnce
<1>10. Whole'
  BY <1>1, <1>2, <1>6, <1>7, TakeKeepsMessage DEF Whole
<1>11. Settling'
  <2>1. \A m \in Messages : Remembered(m) => Remembered(m)'
    BY <1>1, <1>2, <1>7, TypeFacts, TakenStates DEF Remembered, Takes
  <2> QED
    BY <1>1, <1>2, <1>7, <2>1, TakeSettles DEF Settling
<1>12. PlanWhole'
  BY <1>1, <1>2, <1>6, <1>7, TakeKeepsPlan DEF PlanWhole
<1>13. TurnSettling'
  BY <1>1, <1>2, <1>7, TakeKeepsTurn DEF TurnSettling
<1> QED
  BY <1>8, <1>9, <1>10, <1>11, <1>12, <1>13 DEF Progress

LEMMA TakePlanDeltaProgress ==
  ASSUME IInv, TakePlanDelta
  PROVE  Progress'
<1>1. TypeOK /\ FeedOrdered /\ Progress
  BY DEF IInv, Progress
<1>2. /\ Takes /\ Head(feed).type = "turn.proposed.delta" /\ work' = <<>>
      /\ UNCHANGED <<buffer, remembered, excused>>
  BY DEF TakePlanDelta, Take, Takes, Taken, providerVars, threadVars
<1>3. Head(feed) \in Inputs /\ feed \in Seq(Inputs) /\ feed # <<>> /\ feed' = Tail(feed)
  BY <1>1, <1>2, TypeFacts, TailFeed DEF Takes, Taken
<1>4. PICK t \in Turns, n \in Nat \ {0} : t = Head(feed).t /\ n = Head(feed).n
  BY <1>2, <1>3 DEF Inputs
<1>5. /\ planBuffer'[t] = Append(planBuffer[t], n)
      /\ \A u \in Turns : u # t => planBuffer'[u] = planBuffer[u]
  BY <1>1, <1>4, TypeFacts DEF TakePlanDelta
<1>6. /\ \A m : InHand(m)' = <<>>
      /\ \A u : ~DoesFor("upsert", u)'
  BY <1>2 DEF InHand, DoesFor
<1>7. /\ \A m : ~IsItem(Head(feed), m) /\ ~IsDelta(Head(feed), m)
      /\ \A u : u # t => ~IsPlanDelta(Head(feed), u)
      /\ \A u : ~IsEnd(Head(feed), u)
      /\ IsPlanDelta(Head(feed), t) /\ IsPlan(Head(feed), t)
  BY <1>2, <1>4 DEF IsItem, IsDelta, IsPlanDelta, IsEnd, IsPlan
<1>8. WorkOrdered'
  BY <1>2 DEF WorkOrdered
<1>9. SaidOnce'
  BY <1>1, <1>2, <1>6, <1>7, TakeKeepsOnce DEF SaidOnce
<1>10. Whole'
  BY <1>1, <1>2, <1>6, <1>7, TakeKeepsMessage DEF Whole
<1>11. Settling'
  <2>1. \A m \in Messages : Remembered(m) => Remembered(m)'
    BY <1>1, <1>2, <1>7, TypeFacts, TakenStates DEF Remembered, Takes
  <2> QED
    BY <1>1, <1>2, <1>7, <2>1, TakeSettles DEF Settling
<1>12. PlanWhole'
  <2> SUFFICES ASSUME NEW u \in Turns \ excused PROVE PlanBuffered(u)' \/ PlanWritten(u)'
    BY <1>2 DEF PlanWhole
  <2>1. CASE u # t
    BY <1>1, <1>2, <1>5, <1>6, <1>7, <2>1, TakeKeepsPlan
  <2>2. CASE u = t
    <3>1. ~PlanQuiet(t)
      BY <1>1, <1>2, <1>7, TakenStates DEF Takes
    <3>2. PlanBuffered(t)
      BY <1>1, <2>2, <3>1 DEF Progress, PlanWhole, PlanWritten
    <3>3. /\ PlanNumbers(t) = PlanNumbers(t)' \cup {n} /\ \A k \in PlanNumbers(t)' : n < k
          /\ PlanNumbers(t) \subseteq Nat
      BY <1>1, <1>2, <1>4, <1>7, TakenNumbers DEF Takes
    <3>4. planBuffer[t] \in Seq(Nat \ {0}) /\ planned[t] \in Nat /\ Len(planBuffer[t]) \in Nat
      BY <1>1, TypeFacts DEF Texts
    <3>5. PlanNumbers(t) = (Len(planBuffer[t]) + 1)..planned[t]
      BY <3>2 DEF PlanBuffered
    <3>6. n = Len(planBuffer[t]) + 1 /\ PlanNumbers(t)' = (n + 1)..planned[t] /\ n <= planned[t]
      <4>1. PICK S, R, told, all : /\ S = PlanNumbers(t) /\ R = PlanNumbers(t)'
                                   /\ told = Len(planBuffer[t]) /\ all = planned[t]
        OBVIOUS
      <4>2. /\ n \in Nat /\ told \in Nat /\ all \in Nat /\ S = (told + 1)..all /\ n \in S
            /\ \A k \in R : n < k /\ k \in S
            /\ \A k \in S : k = n \/ k \in R
        BY <3>3, <3>4, <3>5, <4>1
      <4>3. n >= told + 1 /\ n <= all /\ \A k \in R : k \in Nat /\ k > n /\ k <= all
        BY <4>2
      <4>4. told + 1 \in S
        BY <4>2, <4>3
      <4>5. n = told + 1
        BY <4>2, <4>3, <4>4
      <4>6. \A k \in (n + 1)..all : k \in R
        BY <4>2, <4>5
      <4>7. \A k \in R : k \in (n + 1)..all
        BY <4>2, <4>3
      <4>8. R = (n + 1)..all
        BY <4>6, <4>7
      <4> QED
        BY <4>1, <4>3, <4>5, <4>8
    <3>7. /\ Len(planBuffer'[t]) = n
          /\ \A i \in DOMAIN planBuffer'[t] : planBuffer'[t][i] = i
      <4>1. \A i \in DOMAIN planBuffer[t] : planBuffer[t][i] = i
        BY <3>2 DEF PlanBuffered
      <4>2. \A b \in Seq(Nat \ {0}) : (\A i \in DOMAIN b : b[i] = i) /\ n = Len(b) + 1 =>
               Len(Append(b, n)) = n /\ \A i \in DOMAIN Append(b, n) : Append(b, n)[i] = i
        OBVIOUS
      <4> QED
        BY <1>5, <3>4, <3>6, <4>1, <4>2
    <3>8. plan'[t] = <<>> /\ planned'[t] = planned[t]
      BY <1>2, <3>2 DEF PlanBuffered, Takes, Taken
    <3> QED
      BY <1>6, <2>2, <3>6, <3>7, <3>8 DEF PlanBuffered
  <2> QED
    BY <2>1, <2>2
<1>13. TurnSettling'
  <2>1. \A u \in Turns : TurnDone(u) => u # t
    BY <1>1, <1>2, <1>7, HeadIsNotDone
  <2> QED
    BY <1>1, <1>2, <1>5, <1>7, <2>1, TakeKeepsTurn DEF TurnSettling
<1> QED
  BY <1>8, <1>9, <1>10, <1>11, <1>12, <1>13 DEF Progress

LEMMA AppendedOnce ==
  ASSUME NEW b \in Texts, NEW n, IsInjective(b), n \notin Range(b)
  PROVE  /\ IsInjective(Append(b, n)) /\ Range(Append(b, n)) = Range(b) \cup {n}
         /\ IsInjective(<<n>>) /\ Range(<<n>>) = {n}
<1>1. /\ Len(b) \in Nat /\ DOMAIN b = 1..Len(b) /\ DOMAIN Append(b, n) = 1..(Len(b) + 1)
      /\ Append(b, n)[Len(b) + 1] = n /\ \A i \in DOMAIN b : Append(b, n)[i] = b[i]
  BY DEF Texts
<1>2. IsInjective(Append(b, n))
  <2> SUFFICES ASSUME NEW i \in DOMAIN Append(b, n), NEW j \in DOMAIN Append(b, n),
                      Append(b, n)[i] = Append(b, n)[j]
               PROVE  i = j
    BY DEF IsInjective
  <2>1. CASE i \in DOMAIN b /\ j \in DOMAIN b
    BY <1>1, <2>1 DEF IsInjective
  <2>2. CASE i = Len(b) + 1 /\ j \in DOMAIN b
    BY <1>1, <2>2 DEF Range
  <2>3. CASE i \in DOMAIN b /\ j = Len(b) + 1
    BY <1>1, <2>3 DEF Range
  <2> QED
    BY <1>1, <2>1, <2>2, <2>3
<1>3. \A v \in Range(Append(b, n)) : v \in Range(b) \cup {n}
  BY <1>1 DEF Range
<1>4. \A v \in Range(b) \cup {n} : v \in Range(Append(b, n))
  BY <1>1 DEF Range
<1>5. IsInjective(<<n>>) /\ Range(<<n>>) = {n}
  BY DEF IsInjective, Range
<1> QED
  BY <1>2, <1>3, <1>4, <1>5

(* Where a delta goes: into the text, into the buffer, or with the buffer  *)
(* into the text.                                                          *)
LEMMA DeltaPlaces ==
  ASSUME TypeOK, TakeDelta
  PROVE  \E m \in Messages, n \in Nat \ {0} :
           /\ IsDelta(Head(feed), m) /\ n = Head(feed).n
           /\ remembered' = [remembered EXCEPT ![TurnOf[m]] = remembered[TurnOf[m]] \cup {m}]
           /\ work' = <<>> \/ \E s \in Texts : s # <<>> /\ work' = <<Deliver(m, s)>>
           /\ \A k \in Messages : k # m => buffer'[k] = buffer[k] /\ InHand(k)' = <<>>
           /\ \/ /\ InHand(m)' = <<n>> /\ buffer'[m] = buffer[m]
                 /\ m \notin excused' => buffer[m] = <<>>
              \/ InHand(m)' = <<>> /\ buffer'[m] = Append(buffer[m], n)
              \/ InHand(m)' = Append(buffer[m], n) /\ buffer'[m] = <<>>
<1>1. feed \in Seq(Inputs) /\ feed # <<>> /\ feed' = Tail(feed) /\ Head(feed).type = "content.delta"
  BY TypeFacts DEF TakeDelta, Take
<1>2. PICK m \in Messages, n \in Nat \ {0} : m = Head(feed).m /\ n = Head(feed).n
  BY <1>1, TailFeed DEF Inputs
<1>3. /\ remembered' = [remembered EXCEPT ![TurnOf[m]] = remembered[TurnOf[m]] \cup {m}]
      /\ IF streaming THEN work' = <<Deliver(m, <<n>>)>> /\ UNCHANGED buffer ELSE BufferDelta(m, n)
      /\ excused' = IF streaming /\ buffer[m] # <<>> THEN excused \cup {m} ELSE excused
  BY <1>2 DEF TakeDelta, RememberAssistantMessageId
<1>4. PICK next : next = Append(buffer[m], n)
  OBVIOUS
<1>5. buffer \in [Messages -> Texts] /\ next \in Texts /\ next # <<>> /\ <<n>> \in Texts /\ <<n>> # <<>>
  <2>1. buffer \in [Messages -> Seq(Nat \ {0})]
    BY TypeFacts DEF Texts
  <2>2. buffer[m] \in Seq(Nat \ {0})
    BY <2>1
  <2>3. /\ Append(buffer[m], n) \in Seq(Nat \ {0}) /\ Append(buffer[m], n) # <<>>
        /\ <<n>> \in Seq(Nat \ {0}) /\ <<n>> # <<>>
    BY <2>2
  <2> QED
    BY <1>4, <2>1, <2>3 DEF Texts
<1>6. IsDelta(Head(feed), m)
  BY <1>1, <1>2 DEF IsDelta
<1>7. \A s : work' = <<Deliver(m, s)>> =>
         InHand(m)' = s /\ \A k \in Messages : k # m => InHand(k)' = <<>>
  BY DEF InHand, Deliver
<1>8. work' = <<>> => \A k : InHand(k)' = <<>>
  BY DEF InHand
<1>9. CASE streaming
  <2>1. /\ work' = <<Deliver(m, <<n>>)>> /\ buffer' = buffer
        /\ m \notin excused' => buffer[m] = <<>>
    BY <1>3, <1>9
  <2> QED
    BY <1>2, <1>3, <1>5, <1>6, <1>7, <2>1
<1>10. CASE ~streaming /\ Len(next) <= BufferLimit
  <2>1. buffer' = [buffer EXCEPT ![m] = next] /\ work' = <<>>
    BY <1>3, <1>4, <1>10 DEF BufferDelta, AppendBuffered
  <2> QED
    BY <1>2, <1>3, <1>4, <1>5, <1>6, <1>8, <2>1
<1>11. CASE ~streaming /\ ~(Len(next) <= BufferLimit)
  <2>1. buffer' = [buffer EXCEPT ![m] = <<>>] /\ work' = <<Deliver(m, next)>>
    BY <1>3, <1>4, <1>11 DEF BufferDelta, AppendBuffered
  <2> QED
    BY <1>2, <1>3, <1>4, <1>5, <1>6, <1>7, <2>1
<1> QED
  BY <1>9, <1>10, <1>11

LEMMA TakeDeltaProgress ==
  ASSUME IInv, TakeDelta
  PROVE  Progress'
<1>1. TypeOK /\ FeedOrdered /\ Progress
  BY DEF IInv, Progress
<1>2. Takes /\ UNCHANGED planBuffer
  BY DEF TakeDelta, Take, Takes, Taken, providerVars, threadVars
<1>3. PICK m \in Messages, n \in Nat \ {0} :
           /\ IsDelta(Head(feed), m) /\ n = Head(feed).n
           /\ remembered' = [remembered EXCEPT ![TurnOf[m]] = remembered[TurnOf[m]] \cup {m}]
           /\ work' = <<>> \/ \E s \in Texts : s # <<>> /\ work' = <<Deliver(m, s)>>
           /\ \A k \in Messages : k # m => buffer'[k] = buffer[k] /\ InHand(k)' = <<>>
           /\ \/ /\ InHand(m)' = <<n>> /\ buffer'[m] = buffer[m]
                 /\ m \notin excused' => buffer[m] = <<>>
              \/ InHand(m)' = <<>> /\ buffer'[m] = Append(buffer[m], n)
              \/ InHand(m)' = Append(buffer[m], n) /\ buffer'[m] = <<>>
  BY <1>1, DeltaPlaces
<1>4. /\ \A k : k # m => ~IsItem(Head(feed), k) /\ ~IsDelta(Head(feed), k)
      /\ \A u : ~IsPlanDelta(Head(feed), u) /\ ~IsEnd(Head(feed), u)
      /\ IsItem(Head(feed), m) /\ ~IsItemEnd(Head(feed), m)
  BY <1>3 DEF IsItem, IsDelta, IsItemEnd, IsPlanDelta, IsEnd
<1>5. /\ text[m] \in Texts /\ buffer[m] \in Texts /\ said[m] \in Nat /\ TurnOf[m] \in Turns
      /\ remembered \in [Turns -> SUBSET Messages] /\ feed \in Seq(Inputs)
  BY <1>1, TypeFacts
<1>6. /\ Numbers(m) = Numbers(m)' \cup {n} /\ \A k \in Numbers(m)' : n < k
      /\ Numbers(m) \subseteq Nat /\ said' = said /\ UNCHANGED <<text, shown>> /\ InHand(m) = <<>>
  BY <1>1, <1>2, <1>3, TakenNumbers, NothingInHand DEF Takes, Taken
<1>7. /\ \A t \in Turns : t # TurnOf[m] => remembered'[t] = remembered[t]
      /\ \A t \in Turns : remembered[t] \subseteq remembered'[t]
      /\ m \in remembered'[TurnOf[m]]
  BY <1>3, <1>5
<1>8. ~TurnDone(TurnOf[m]) /\ ~TurnDone(TurnOf[m])' /\ ~Quiet(m)
  BY <1>1, <1>2, <1>4, HeadIsNotDone, TakenStates DEF Takes
<1>9. \A t : ~DoesFor("upsert", t)'
  BY <1>3 DEF DoesFor, Deliver
<1>10. WorkOrdered'
  BY <1>3 DEF WorkOrdered, Orderly, Deliver
<1>11. SaidOnce'
  <2>1. OnceOf(m)'
    <3>1. OnceOf(m)
      BY <1>1 DEF Progress, SaidOnce
    <3>2. n <= said[m] /\ n \notin Range(text[m]) /\ n \notin Range(buffer[m])
      <4>1. n \in Numbers(m)
        BY <1>6
      <4>2. n <= said[m]
        BY <1>1, <1>2, <1>3, <1>5, TailFeed DEF FeedOrdered, DeltasGrow, Takes, Taken
      <4>3. \A v \in Range(text[m]) \cup Range(buffer[m]) : v < n
        BY <3>1, <4>1 DEF OnceOf, Elements
      <4> QED
        BY <4>2, <4>3
    <3>3. /\ IsInjective(Append(buffer[m], n)) /\ Range(Append(buffer[m], n)) = Range(buffer[m]) \cup {n}
          /\ IsInjective(<<n>>) /\ Range(<<n>>) = {n}
      BY <1>5, <3>1, <3>2, AppendedOnce DEF OnceOf
    <3>4. \A v \in Range(text[m]) \cup Range(buffer[m]) \cup {n} :
             v <= said[m] /\ \A k \in Numbers(m)' : v < k
      BY <1>6, <3>1, <3>2 DEF OnceOf, Elements
    <3>5. Elements(m)' = Range(text[m]) \cup Range(buffer[m]) \cup {n}
      BY <1>3, <1>6, <3>3, NothingOnce DEF Elements
    <3>6. /\ IsInjective(text'[m]) /\ IsInjective(InHand(m)') /\ IsInjective(buffer'[m])
          /\ Apart(text'[m], InHand(m)') /\ Apart(text'[m], buffer'[m]) /\ Apart(InHand(m)', buffer'[m])
      BY <1>3, <1>6, <3>1, <3>2, <3>3, NothingOnce DEF OnceOf, Apart
    <3> QED
      BY <1>6, <3>4, <3>5, <3>6 DEF OnceOf, Apart
  <2>2. \A k \in Messages : k # m => OnceOf(k)'
    BY <1>1, <1>2, <1>3, <1>4, TakeKeepsOnce
  <2> QED
    BY <2>1, <2>2 DEF SaidOnce
<1>12. Whole'
  <2>1. m \notin excused' => WholeOf(m)'
    <3> SUFFICES ASSUME m \notin excused' PROVE WholeOf(m)'
      OBVIOUS
    <3>1. WholeOf(m)
      BY <1>1, <1>2 DEF Progress, Whole, Takes
    <3>2. /\ InPlace(m) /\ Told(m) <= said[m] /\ Numbers(m) = (Told(m) + 1)..said[m]
          /\ shown[m] # "complete"
      BY <1>6, <1>8, <3>1 DEF WholeOf, DetailOnly
    <3>3. PICK a, b, told : a = Len(text[m]) /\ b = Len(buffer[m]) /\ told = a + b
      OBVIOUS
    <3>4. a \in Nat /\ b \in Nat /\ told \in Nat /\ Told(m) = told /\ Len(<<>>) = 0
      <4>1. a \in Nat /\ b \in Nat /\ Len(<<>>) = 0
        BY <1>5, <3>3 DEF Texts
      <4>2. Told(m) = a + 0 + b
        BY <1>6, <3>3, <4>1 DEF Told
      <4>3. told = a + b
        BY <3>3
      <4>4. a + 0 + b = told /\ told \in Nat
        BY <4>1, <4>3
      <4> QED
        BY <4>1, <4>2, <4>4
    <3>5. n = told + 1 /\ Numbers(m)' = (n + 1)..said[m] /\ n <= said[m]
      <4>1. PICK S, R, all : S = Numbers(m) /\ R = Numbers(m)' /\ all = said[m]
        OBVIOUS
      <4>2. /\ all \in Nat /\ S = (told + 1)..all /\ n \in S
            /\ \A k \in R : n < k /\ k \in S
            /\ \A k \in S : k = n \/ k \in R
        BY <1>5, <1>6, <3>2, <3>4, <4>1
      <4>3. n >= told + 1 /\ n <= all /\ \A k \in R : k \in Nat /\ k > n /\ k <= all
        BY <3>4, <4>2
      <4>4. told + 1 \in S
        BY <3>4, <4>2, <4>3
      <4>5. n = told + 1
        BY <3>4, <4>2, <4>3, <4>4
      <4>6. \A k \in (n + 1)..all : k \in R
        BY <3>4, <4>2, <4>5
      <4>7. \A k \in R : k \in (n + 1)..all
        BY <4>2, <4>3
      <4>8. R = (n + 1)..all
        BY <4>6, <4>7
      <4> QED
        BY <4>1, <4>3, <4>5, <4>8
    <3>sum. told = a + b
      BY <3>3
    <3>6. /\ \A i \in DOMAIN text[m] : text[m][i] = i
          /\ \A i \in DOMAIN buffer[m] : buffer[m][i] = a + i
      <4>1. \A i \in DOMAIN buffer[m] : buffer[m][i] = a + 0 + i
        BY <1>6, <3>2, <3>3, <3>4 DEF InPlace
      <4>2. DOMAIN buffer[m] \subseteq Nat
        BY <1>5 DEF Texts
      <4>3. \A i \in DOMAIN buffer[m] : a + 0 + i = a + i
        BY <3>4, <4>2
      <4> QED
        BY <3>2, <4>1, <4>3 DEF InPlace
    <3>7. PICK next : next = Append(buffer[m], n)
      OBVIOUS
    <3>8. /\ Len(next) = b + 1
          /\ \A i \in DOMAIN next : next[i] = a + i
      <4>1. /\ DOMAIN buffer[m] = 1..b /\ DOMAIN next = 1..(b + 1) /\ Len(next) = b + 1
            /\ \A i \in 1..b : next[i] = buffer[m][i]
            /\ next[b + 1] = n
        BY <1>5, <3>3, <3>4, <3>7 DEF Texts
      <4>2. n = a + (b + 1)
        BY <3>sum, <3>4, <3>5
      <4> QED
        BY <3>4, <3>6, <4>1, <4>2
    <3>9. Told(m)' = n /\ InPlace(m)'
      <4>1. CASE InHand(m)' = <<n>> /\ buffer'[m] = buffer[m] /\ buffer[m] = <<>>
        <5>1. Len(<<n>>) = 1 /\ DOMAIN <<n>> = {1} /\ <<n>>[1] = n /\ DOMAIN <<>> = {}
          OBVIOUS
        <5>2. n = a + 1 /\ a + 1 + 0 = n
          BY <3>3, <3>4, <3>5, <4>1, <5>1
        <5>3. Told(m)' = a + 1 + 0
          BY <1>6, <3>3, <3>4, <4>1, <5>1 DEF Told
        <5>4. InPlace(m)'
          BY <1>6, <3>3, <3>6, <4>1, <5>1, <5>2 DEF InPlace
        <5> QED
          BY <5>2, <5>3, <5>4
      <4>2. CASE InHand(m)' = <<>> /\ buffer'[m] = next
        <5>1. Told(m)' = a + 0 + (b + 1)
          BY <1>6, <3>3, <3>4, <3>8, <4>2 DEF Told
        <5>2. a + 0 + (b + 1) = n /\ a + 0 = a
          BY <3>sum, <3>4, <3>5
        <5>3. InPlace(m)'
          <6>1. \A i \in DOMAIN next : next[i] = (a + 0) + i
            BY <3>8, <5>2
          <6>2. DOMAIN <<>> = {}
            OBVIOUS
          <6> QED
            BY <1>6, <3>3, <3>4, <3>6, <4>2, <6>1, <6>2 DEF InPlace
        <5> QED
          BY <5>1, <5>2, <5>3
      <4>3. CASE InHand(m)' = next /\ buffer'[m] = <<>>
        <5>1. Told(m)' = a + (b + 1) + 0
          BY <1>6, <3>3, <3>4, <3>8, <4>3 DEF Told
        <5>2. a + (b + 1) + 0 = n
          BY <3>sum, <3>4, <3>5
        <5>3. InPlace(m)'
          <6>1. DOMAIN <<>> = {}
            OBVIOUS
          <6> QED
            BY <1>6, <3>3, <3>6, <3>8, <4>3, <6>1 DEF InPlace
        <5> QED
          BY <5>1, <5>2, <5>3
      <4> QED
        BY <1>3, <3>7, <4>1, <4>2, <4>3
    <3> QED
      BY <1>6, <3>2, <3>5, <3>9 DEF WholeOf
  <2>2. \A k \in Messages \ excused' : k # m => WholeOf(k)'
    BY <1>1, <1>2, <1>3, <1>4, TakeKeepsMessage DEF Takes
  <2> QED
    BY <2>1, <2>2 DEF Whole
<1>13. Settling'
  <2>1. SettlingOf(m)'
    BY <1>7, <1>8 DEF SettlingOf, Remembered
  <2>2. \A k \in Messages : k # m /\ Remembered(k) => Remembered(k)'
    BY <1>1, <1>2, <1>4, <1>7, TypeFacts, TakenStates DEF Remembered, Takes
  <2>3. \A k \in Messages \ excused' : k # m => SettlingOf(k)'
    BY <1>1, <1>2, <1>3, <1>4, <2>2, TakeSettles DEF Takes
  <2> QED
    BY <2>1, <2>3 DEF Settling
<1>14. PlanWhole'
  BY <1>1, <1>2, <1>4, <1>9, TakeKeepsPlan DEF PlanWhole, Takes
<1>15. TurnSettling'
  <2>1. \A t \in Turns : TurnDone(t) => remembered'[t] = remembered[t]
    BY <1>7, <1>8
  <2> QED
    BY <1>1, <1>2, <1>4, <2>1, TakeKeepsTurn DEF TurnSettling, Takes
<1> QED
  BY <1>10, <1>11, <1>12, <1>13, <1>14, <1>15 DEF Progress

LEMMA TakeItemCompletedProgress ==
  ASSUME IInv, TakeItemCompleted
  PROVE  Progress'
<1>1. TypeOK /\ FeedOrdered /\ Progress
  BY DEF IInv, Progress
<1>2. /\ Takes /\ Head(feed).type = "item.completed"
      /\ UNCHANGED <<buffer, planBuffer, excused>>
  BY DEF TakeItemCompleted, Take, Takes, Taken, providerVars, threadVars
<1>3. Head(feed) \in Inputs /\ feed \in Seq(Inputs) /\ feed # <<>> /\ feed' = Tail(feed)
  BY <1>1, <1>2, TypeFacts, TailFeed DEF Takes, Taken
<1>4. PICK m \in Messages, detail \in Texts : m = Head(feed).m /\ detail = Head(feed).detail
  BY <1>2, <1>3 DEF Inputs
<1>5. /\ \A k : k # m => ~IsItem(Head(feed), k)
      /\ \A k : ~IsDelta(Head(feed), k)
      /\ \A u : ~IsPlanDelta(Head(feed), u) /\ ~IsEnd(Head(feed), u)
      /\ IsItem(Head(feed), m) /\ IsItemEnd(Head(feed), m)
  BY <1>2, <1>4 DEF IsItem, IsDelta, IsItemEnd, IsPlanDelta, IsEnd
<1>6. detail \in {<<>>, UpTo(said[m])} /\ \A i \in DOMAIN feed : i > 1 => ~IsItem(feed[i], m)
  BY <1>1, <1>3, <1>4, <1>5, TailFeed DEF FeedOrdered, ItemEndsAreLast
<1>7. PICK fallback : fallback = IF text[m] = <<>> THEN detail ELSE <<>>
  OBVIOUS
<1>8. /\ work' = <<Finalize(m, fallback), Forget(m)>>
      /\ remembered' = [remembered EXCEPT ![TurnOf[m]] = remembered[TurnOf[m]] \cup {m}]
  BY <1>4, <1>7 DEF TakeItemCompleted, RememberAssistantMessageId
<1>9. /\ DOMAIN work' = {1, 2} /\ work'[1] = Finalize(m, fallback) /\ work'[2] = Forget(m)
      /\ work' # <<>> /\ Head(work') = Finalize(m, fallback)
  BY <1>8
<1>10. /\ \A k : InHand(k)' = <<>>
       /\ \A t : ~DoesFor("upsert", t)'
       /\ Does("finalize", m)'
  BY <1>9 DEF InHand, DoesFor, Does, Finalize, Forget
<1>11. /\ said' = said /\ UNCHANGED <<text, shown, ended>> /\ InHand(m) = <<>>
       /\ Numbers(m)' = Numbers(m) /\ Quiet(m)'
  BY <1>1, <1>2, <1>4, <1>5, TakenNumbers, TakenStates, NothingInHand DEF Takes, Taken
<1>12. ~TurnDone(TurnOf[m]) /\ ~TurnDone(TurnOf[m])'
  BY <1>1, <1>2, <1>5, HeadIsNotDone
<1>13. /\ \A t \in Turns : t # TurnOf[m] => remembered'[t] = remembered[t]
       /\ \A t \in Turns : remembered[t] \subseteq remembered'[t]
  BY <1>1, <1>8, TypeFacts
<1>14. WorkOrdered'
  <2>1. fallback # <<>> => text'[m] = <<>> /\ fallback = UpTo(said'[m])
    BY <1>6, <1>7, <1>11
  <2>2. Orderly(1)'
    BY <1>9, <1>11, <2>1 DEF Orderly, Finalize, Forget, UpTo
  <2>3. Orderly(2)'
    BY <1>9, <1>11 DEF Orderly, Finalize, Forget
  <2> QED
    BY <1>9, <2>2, <2>3 DEF WorkOrdered
<1>15. SaidOnce'
  BY <1>1, <1>2, <1>5, <1>10, TakeKeepsOnce DEF SaidOnce
<1>16. Whole'
  <2>1. m \notin excused' => WholeOf(m)'
    <3> SUFFICES ASSUME m \notin excused' PROVE WholeOf(m)'
      OBVIOUS
    <3>1. WholeOf(m)
      BY <1>1, <1>2 DEF Progress, Whole
    <3>2. Told(m)' = Told(m)
      BY <1>2, <1>10, <1>11 DEF Told
    <3>3. DetailOnly(m) => DetailOnly(m)'
      <4> SUFFICES ASSUME DetailOnly(m) PROVE DetailOnly(m)'
        OBVIOUS
      <4>1. PICK i \in DOMAIN feed : IsItemEnd(feed[i], m) /\ feed[i].detail = UpTo(1)
        BY <1>2 DEF DetailOnly, Takes
      <4>2. i = 1 /\ detail = UpTo(1)
        <5>1. i \in Nat \ {0} /\ ~(i > 1)
          BY <1>3, <1>6, <4>1, TailFeed DEF IsItem, IsItemEnd
        <5>2. i = 1
          BY <5>1
        <5> QED
          BY <1>3, <1>4, <4>1, <5>2, TailFeed
      <4>3. text[m] = <<>>
        <5>1. Told(m) = 0
          BY DEF DetailOnly
        <5>2. text[m] \in Seq(Nat \ {0}) /\ buffer[m] \in Seq(Nat \ {0})
          BY <1>1, TypeFacts DEF Texts
        <5>0. Len(text[m]) \in Nat /\ Len(buffer[m]) \in Nat
          BY <5>2
        <5>3. PICK a, b : a = Len(text[m]) /\ b = Len(buffer[m]) /\ a \in Nat /\ b \in Nat
          BY <5>0
        <5>4. a + 0 + b = 0
          BY <1>11, <5>1, <5>3, EmptyLists DEF Told
        <5>5. a \in Nat /\ b \in Nat
          BY <5>3
        <5>6. a = 0
          BY <5>4, <5>5
        <5>7. Len(text[m]) = 0
          BY <5>3, <5>6
        <5> QED
          BY <5>2, <5>7
      <4>4. Head(work') = Finalize(m, UpTo(1))
        BY <1>7, <1>9, <4>2, <4>3
      <4> QED
        BY <1>9, <1>11, <3>2, <4>4 DEF DetailOnly, ItemEnded, UpTo, Finalize
    <3> QED
      BY <1>2, <1>10, <1>11, <3>1, <3>3, WholeStays
  <2>2. \A k \in Messages \ excused' : k # m => WholeOf(k)'
    BY <1>1, <1>2, <1>5, <1>10, TakeKeepsMessage
  <2> QED
    BY <2>1, <2>2 DEF Whole
<1>17. Settling'
  <2>1. SettlingOf(m)'
    BY <1>10 DEF SettlingOf
  <2>2. \A k \in Messages : k # m /\ Remembered(k) => Remembered(k)'
    BY <1>1, <1>2, <1>5, <1>13, TypeFacts, TakenStates DEF Remembered, Takes
  <2>3. \A k \in Messages \ excused' : k # m => SettlingOf(k)'
    BY <1>1, <1>2, <1>5, <2>2, TakeSettles
  <2> QED
    BY <2>1, <2>3 DEF Settling
<1>18. PlanWhole'
  BY <1>1, <1>2, <1>5, <1>10, TakeKeepsPlan DEF PlanWhole
<1>19. TurnSettling'
  <2>1. \A t \in Turns : TurnDone(t) => remembered'[t] = remembered[t]
    BY <1>12, <1>13
  <2> QED
    BY <1>1, <1>2, <1>5, <2>1, TakeKeepsTurn DEF TurnSettling
<1> QED
  BY <1>14, <1>15, <1>16, <1>17, <1>18, <1>19 DEF Progress

LEMMA SetToSeqContents ==
  ASSUME NEW S, IsFiniteSet(S)
  PROVE  /\ SetToSeq(S) \in Seq(S)
         /\ \A x \in S : \E i \in DOMAIN SetToSeq(S) : SetToSeq(S)[i] = x
<1> DEFINE n == Cardinality(S)
           f == SetToSeq(S)
<1>1. n \in Nat /\ ExistsBijection(1..n, S)
  BY FS_CardinalityType
<1>2. PICK g \in [1..n -> S] : IsInjective(g)
  BY <1>1 DEF ExistsBijection, Bijection, Injection, IsInjective
<1>3. f \in [1..n -> S] /\ IsInjective(f)
  BY <1>2 DEF SetToSeq
<1>4. f \in Injection(1..n, S)
  BY <1>3 DEF Injection, IsInjective
<1>5. Cardinality(1..n) = n
  BY <1>1, FS_Interval
<1> HIDE DEF n, f
<1>6. f \in Surjection(1..n, S)
  BY <1>4, <1>5, FS_Injection DEF n
<1>7. \A x \in S : \E i \in 1..n : f[i] = x
  BY <1>6 DEF Surjection
<1>8. f \in Seq(S) /\ DOMAIN f = 1..n
  BY <1>1, <1>3
<1> QED
  BY <1>7, <1>8 DEF f

LEMMA JoinedEntries ==
  ASSUME NEW U, NEW p \in Seq(U), NEW q \in Seq(U)
  PROVE  /\ Len(p \o q) = Len(p) + Len(q) /\ p \o q \in Seq(U)
         /\ \A i \in 1..Len(p) : (p \o q)[i] = p[i]
         /\ \A i \in 1..Len(q) : (p \o q)[Len(p) + i] = q[i]
OBVIOUS

(* The end of a turn finishes every message the turn is remembered to have. *)
LEMMA TurnWorkContents ==
  ASSUME TypeOK, NEW t \in Turns
  PROVE  LET w == TurnWork(t)
         IN  /\ \A i \in DOMAIN w : \/ w[i] \in {SetSession(t), ClearIds(t), FinalizePlan(t, <<>>)}
                                    \/ \E m \in remembered[t] : w[i] = Finalize(m, <<>>)
             /\ \A m \in remembered[t] : \E i \in DOMAIN w : w[i] = Finalize(m, <<>>)
             /\ \E i \in DOMAIN w : w[i] = ClearIds(t)
             /\ \E i \in DOMAIN w : w[i] = FinalizePlan(t, <<>>)
             /\ w # <<>> /\ Head(w) = SetSession(t)
<1> DEFINE ms == remembered[t]
           S == {Finalize(m, <<>>) : m \in ms}
           g == [m \in ms |-> Finalize(m, <<>>)]
           f == SetToSeq(S)
           a == SetSession(t)
           b == ClearIds(t)
           c == FinalizePlan(t, <<>>)
           w == TurnWork(t)
<1>1. IsFiniteSet(ms)
  BY TypeFacts, MessagesAssumption, FS_Subset
<1>2. g \in Surjection(ms, S)
  BY DEF Surjection
<1>3. IsFiniteSet(S)
  BY <1>1, <1>2, FS_Surjection
<1>4. f \in Seq(S) /\ \A x \in S : \E i \in DOMAIN f : f[i] = x
  BY <1>3, SetToSeqContents
<1>5. \A m \in ms : Finalize(m, <<>>) \in S
  OBVIOUS
<1>6. \A x \in S : \E m \in ms : x = Finalize(m, <<>>)
  OBVIOUS
<1>7. w = <<a>> \o f \o <<b, c>>
  BY DEF TurnWork
<1>8. PICK U : U = S \cup {a, b, c}
  OBVIOUS
<1> HIDE DEF S, g, f, a, b, c, w, ms
<1>9. f \in Seq(U) /\ a \in U /\ b \in U /\ c \in U
  <2>1. \A i \in 1..Len(f) : f[i] \in U
    BY <1>4, <1>8
  <2> QED
    BY <1>4, <1>8, <2>1
<1>10. PICK n \in Nat : n = Len(f) /\ DOMAIN f = 1..n
  BY <1>4
<1>11. /\ DOMAIN w = 1..(n + 3) /\ w # <<>> /\ Head(w) = a
       /\ w[1] = a /\ w[n + 2] = b /\ w[n + 3] = c
       /\ \A i \in 1..n : w[i + 1] = f[i]
  <2>1. <<a>> \o f \in Seq(U) /\ Len(<<a>> \o f) = n + 1
    BY <1>9, <1>10
  <2>2. /\ (<<a>> \o f)[1] = a /\ \A i \in 1..n : (<<a>> \o f)[i + 1] = f[i]
    BY <1>9, <1>10
  <2>3. /\ <<b, c>> \in Seq(U) /\ Len(<<b, c>>) = 2 /\ <<b, c>>[1] = b /\ <<b, c>>[2] = c
    BY <1>9
  <2>4. PICK p, q : p = <<a>> \o f /\ q = <<b, c>>
    OBVIOUS
  <2>5. /\ p \in Seq(U) /\ q \in Seq(U) /\ Len(p) = n + 1 /\ Len(q) = 2
        /\ p[1] = a /\ q[1] = b /\ q[2] = c /\ \A i \in 1..n : p[i + 1] = f[i]
    BY <2>1, <2>2, <2>3, <2>4
  <2>6. w = p \o q
    BY <1>7, <2>4
  <2>7. /\ Len(p \o q) = n + 3 /\ p \o q \in Seq(U)
        /\ \A i \in 1..(n + 1) : (p \o q)[i] = p[i]
        /\ \A i \in 1..2 : (p \o q)[n + 1 + i] = q[i]
    <3>1. /\ Len(p \o q) = Len(p) + Len(q) /\ p \o q \in Seq(U)
          /\ \A i \in 1..Len(p) : (p \o q)[i] = p[i]
          /\ \A i \in 1..Len(q) : (p \o q)[Len(p) + i] = q[i]
      <4>1. p \in Seq(U) /\ q \in Seq(U)
        BY <2>5
      <4> QED
        BY <4>1, JoinedEntries
    <3>2. (n + 1) + 2 = n + 3
      BY <1>10
    <3> QED
      BY <2>5, <3>1, <3>2
  <2>8. /\ DOMAIN w = 1..(n + 3) /\ w # <<>> /\ Head(w) = w[1]
        /\ \A i \in 1..(n + 1) : w[i] = p[i]
        /\ \A i \in 1..2 : w[n + 1 + i] = q[i]
    BY <2>6, <2>7
  <2>9. w[1] = a /\ \A i \in 1..n : w[i + 1] = f[i]
    BY <2>5, <2>8
  <2>10. w[n + 2] = b /\ w[n + 3] = c
    <3>1. n + 1 + 1 = n + 2 /\ n + 1 + 2 = n + 3 /\ 1 \in 1..2 /\ 2 \in 1..2
      OBVIOUS
    <3> QED
      BY <2>5, <2>8, <3>1
  <2> QED
    BY <2>8, <2>9, <2>10
<1>12. \A i \in DOMAIN w : w[i] \in {a, b, c} \/ w[i] \in S
  <2> SUFFICES ASSUME NEW i \in DOMAIN w PROVE w[i] \in {a, b, c} \/ w[i] \in S
    OBVIOUS
  <2>1. i = 1 \/ i = n + 2 \/ i = n + 3 \/ (i - 1 \in 1..n /\ (i - 1) + 1 = i)
    BY <1>11
  <2>2. CASE i - 1 \in 1..n /\ (i - 1) + 1 = i
    <3>1. w[i] = f[i - 1]
      BY <1>11, <2>2
    <3> QED
      BY <1>4, <1>10, <2>2, <3>1
  <2> QED
    BY <1>11, <2>1, <2>2
<1>13. \A x \in S : \E i \in DOMAIN w : w[i] = x
  <2> SUFFICES ASSUME NEW x \in S PROVE \E i \in DOMAIN w : w[i] = x
    OBVIOUS
  <2>1. PICK i \in 1..n : f[i] = x
    BY <1>4, <1>10
  <2>2. i + 1 \in DOMAIN w /\ w[i + 1] = x
    BY <1>11, <2>1
  <2> QED
    BY <2>2
<1>14. (\E i \in DOMAIN w : w[i] = b) /\ \E i \in DOMAIN w : w[i] = c
  <2>1. n + 2 \in DOMAIN w /\ n + 3 \in DOMAIN w
    BY <1>11
  <2> QED
    BY <1>11, <2>1
<1> QED
  BY <1>5, <1>6, <1>11, <1>12, <1>13, <1>14 DEF a, b, c, w, ms

LEMMA TakeTurnCompletedProgress ==
  ASSUME IInv, TakeTurnCompleted
  PROVE  Progress'
<1>1. TypeOK /\ FeedOrdered /\ Progress
  BY DEF IInv, Progress
<1>2. /\ Takes /\ Head(feed).type = "turn.completed"
      /\ UNCHANGED <<buffer, planBuffer, remembered, excused>>
  BY DEF TakeTurnCompleted, Take, Takes, Taken, providerVars, threadVars
<1>3. Head(feed) \in Inputs /\ feed \in Seq(Inputs) /\ feed # <<>> /\ feed' = Tail(feed)
  BY <1>1, <1>2, TypeFacts, TailFeed DEF Takes, Taken
<1>4. PICK t \in Turns : t = Head(feed).t
  BY <1>2, <1>3 DEF Inputs
<1>5. PICK w : w = TurnWork(t)
  OBVIOUS
<1>6. work' = w
  BY <1>4, <1>5 DEF TakeTurnCompleted
<1>7. /\ \A i \in DOMAIN w : \/ w[i] \in {SetSession(t), ClearIds(t), FinalizePlan(t, <<>>)}
                             \/ \E m \in remembered[t] : w[i] = Finalize(m, <<>>)
      /\ \A m \in remembered[t] : \E i \in DOMAIN w : w[i] = Finalize(m, <<>>)
      /\ \E i \in DOMAIN w : w[i] = ClearIds(t)
      /\ \E i \in DOMAIN w : w[i] = FinalizePlan(t, <<>>)
      /\ w # <<>> /\ Head(w) = SetSession(t)
  BY <1>1, <1>5, TurnWorkContents
<1>8. /\ \A m : ~IsItem(Head(feed), m) /\ ~IsDelta(Head(feed), m)
      /\ \A u : ~IsPlanDelta(Head(feed), u)
      /\ \A u : u # t => ~IsEnd(Head(feed), u)
      /\ IsEnd(Head(feed), t)
  BY <1>2, <1>4 DEF IsItem, IsDelta, IsPlanDelta, IsEnd
<1>9. TurnDone(t)' /\ FeedOrdered'
  BY <1>1, <1>2, <1>8, TakenStates, TakenOrder DEF Takes
<1>10. PlanQuiet(t)' /\ \A m \in MessagesOf(t) : Quiet(m)'
  <2>1. \A i \in DOMAIN feed' : ~Of(feed'[i], t)
    BY <1>9 DEF TurnDone, HasEnd, FeedOrdered, EndsFollow
  <2>2. PlanQuiet(t)'
    BY <1>9, <2>1 DEF PlanQuiet, HasPlans, Of, TurnDone
  <2>3. \A m \in MessagesOf(t) : Quiet(m)'
    BY <1>9, <2>1 DEF Quiet, HasItems, Of, TurnDone, MessagesOf
  <2> QED
    BY <2>2, <2>3
<1>11. \A m \in remembered[t] : m \in Messages /\ TurnOf[m] = t /\ Quiet(m)'
  <2>1. remembered[t] \subseteq MessagesOf(t)
    BY <1>1 DEF TypeOK, CachesBounded
  <2> QED
    BY <1>10, <2>1 DEF MessagesOf
<1>12. /\ \A m : InHand(m)' = <<>>
       /\ \A u : ~DoesFor("upsert", u)'
  <2>1. \A i \in DOMAIN w : w[i].op # "upsert"
    BY <1>7 DEF SetSession, ClearIds, FinalizePlan, Finalize
  <2>2. Head(w).op # "delta"
    BY <1>7 DEF SetSession
  <2> QED
    BY <1>6, <2>1, <2>2 DEF InHand, DoesFor
<1>13. WorkOrdered'
  <2> SUFFICES ASSUME NEW i \in DOMAIN w PROVE Orderly(i)'
    BY <1>6 DEF WorkOrdered
  <2>1. CASE w[i] = SetSession(t)
    BY <1>6, <2>1 DEF Orderly, SetSession
  <2>2. CASE w[i] = ClearIds(t)
    BY <1>6, <1>9, <2>2 DEF Orderly, ClearIds
  <2>3. CASE w[i] = FinalizePlan(t, <<>>)
    BY <1>6, <1>10, <2>3 DEF Orderly, FinalizePlan
  <2>4. CASE \E m \in remembered[t] : w[i] = Finalize(m, <<>>)
    BY <1>6, <1>11, <2>4 DEF Orderly, Finalize
  <2> QED
    BY <1>7, <2>1, <2>2, <2>3, <2>4
<1>14. SaidOnce'
  BY <1>1, <1>2, <1>8, <1>12, TakeKeepsOnce DEF SaidOnce
<1>15. Whole'
  BY <1>1, <1>2, <1>8, <1>12, TakeKeepsMessage DEF Whole
<1>16. Settling'
  <2>1. \A m \in Messages : Remembered(m) => Remembered(m)' \/ Does("finalize", m)'
    <3> SUFFICES ASSUME NEW m \in Messages, Remembered(m)
                 PROVE  Remembered(m)' \/ Does("finalize", m)'
      OBVIOUS
    <3>1. CASE TurnOf[m] = t
      <4>1. PICK i \in DOMAIN w : w[i] = Finalize(m, <<>>)
        BY <1>7, <3>1 DEF Remembered
      <4> QED
        BY <1>6, <4>1 DEF Does, Finalize
    <3>2. CASE TurnOf[m] # t
      BY <1>1, <1>2, <1>8, <3>2, TypeFacts, TakenStates DEF Remembered, Takes
    <3> QED
      BY <3>1, <3>2
  <2> QED
    BY <1>1, <1>2, <1>8, <2>1, TakeSettles DEF Settling
<1>17. PlanWhole'
  BY <1>1, <1>2, <1>8, <1>12, TakeKeepsPlan DEF PlanWhole
<1>18. TurnSettling'
  <2>1. DoesFor("clear", t)' /\ DoesFor("finalizePlan", t)'
    BY <1>6, <1>7 DEF DoesFor, ClearIds, FinalizePlan
  <2>2. SettledOf(t)'
    BY <2>1 DEF SettledOf
  <2>3. \A u \in Turns \ excused : u # t => SettledOf(u)'
    BY <1>1, <1>2, <1>8, TakeKeepsTurn
  <2> QED
    BY <1>2, <2>2, <2>3 DEF TurnSettling
<1> QED
  BY <1>13, <1>14, <1>15, <1>16, <1>17, <1>18 DEF Progress

-----------------------------------------------------------------------------
(* The provider goes on and the worker stands still *)

LEMMA EmitRests == ASSUME NEW e, Emit(e) PROVE WorkerRests
BY DEF Emit, WorkerRests, threadVars

LEMMA EmittedProgress ==
  ASSUME IInv, NEW e, Emitted(e), WorkerRests,
         \A m \in Messages : IsItemEnd(e, m) =>
            said' = said \/ (said[m] = 0 /\ said' = [said EXCEPT ![m] = 1] /\ e.detail = UpTo(1)),
         \A t \in Turns : IsPlanEnd(e, t) => planned'[t] = planned[t]
  PROVE  FeedOrdered' /\ Progress'
<1>1. /\ TypeOK /\ FeedOrdered /\ WorkOrdered /\ SaidOnce /\ Whole
      /\ Settling /\ PlanWhole /\ TurnSettling
  BY DEF IInv
<1>2. FeedOrdered' /\ WorkOrdered' /\ SaidOnce' /\ Settling'
  BY <1>1, EmittedOrder, EmittedWork, EmittedSaid, EmittedSettling
<1>3. Whole'
  BY <1>1, EmittedWhole
<1>4. PlanWhole' /\ TurnSettling'
  BY <1>1, EmittedPlans
<1> QED
  BY <1>2, <1>3, <1>4 DEF Progress

LEMMA ProviderProgress ==
  ASSUME IInv,
         \/ \E m \in Messages : SayDelta(m) \/ CompleteItem(m)
         \/ \E t \in Turns : SayPlan(t) \/ CompletePlan(t) \/ CompleteTurn(t) \/ ExitSession(t)
  PROVE  FeedOrdered' /\ Progress'
<1>0. TypeOK
  BY DEF IInv
<1>1. ASSUME NEW m \in Messages, SayDelta(m) PROVE FeedOrdered' /\ Progress'
  <2>1. PICK e : e = [type |-> "content.delta", m |-> m, n |-> said[m] + 1]
    OBVIOUS
  <2>2. Emitted(e)
    BY <1>0, <1>1, <2>1, SayDeltaEmits
  <2>3. WorkerRests
    BY <1>1, EmitRests DEF SayDelta
  <2>4. \A k : ~IsItemEnd(e, k) /\ ~IsPlanEnd(e, k)
    BY <2>1 DEF IsItemEnd, IsPlanEnd
  <2> QED
    BY <2>2, <2>3, <2>4, EmittedProgress
<1>2. ASSUME NEW m \in Messages, CompleteItem(m) PROVE FeedOrdered' /\ Progress'
  <2>1. PICK detail \in {<<>>, UpTo(said'[m])} :
          /\ Emitted([type |-> "item.completed", m |-> m, detail |-> detail])
          /\ \/ said' = said
             \/ said[m] = 0 /\ said' = [said EXCEPT ![m] = 1] /\ detail = UpTo(1)
    BY <1>0, <1>2, CompleteItemEmits
  <2>2. PICK e : e = [type |-> "item.completed", m |-> m, detail |-> detail]
    OBVIOUS
  <2>3. WorkerRests
    BY <1>2, EmitRests DEF CompleteItem
  <2>4. /\ \A k : IsItemEnd(e, k) => k = m
        /\ \A k : ~IsPlanEnd(e, k)
        /\ e.detail = detail
    BY <2>2 DEF IsItemEnd, IsPlanEnd
  <2>5. Emitted(e)
    BY <2>1, <2>2
  <2>6. \A k \in Messages : IsItemEnd(e, k) =>
          said' = said \/ (said[k] = 0 /\ said' = [said EXCEPT ![k] = 1] /\ e.detail = UpTo(1))
    BY <2>1, <2>4
  <2> QED
    BY <2>3, <2>4, <2>5, <2>6, EmittedProgress
<1>3. ASSUME NEW t \in Turns, SayPlan(t) PROVE FeedOrdered' /\ Progress'
  <2>1. PICK e : e = [type |-> "turn.proposed.delta", t |-> t, n |-> planned[t] + 1]
    OBVIOUS
  <2>2. Emitted(e)
    BY <1>0, <1>3, <2>1, SayPlanEmits
  <2>3. WorkerRests
    BY <1>3, EmitRests DEF SayPlan
  <2>4. \A k : ~IsItemEnd(e, k) /\ ~IsPlanEnd(e, k)
    BY <2>1 DEF IsItemEnd, IsPlanEnd
  <2> QED
    BY <2>2, <2>3, <2>4, EmittedProgress
<1>4. ASSUME NEW t \in Turns, CompletePlan(t) PROVE FeedOrdered' /\ Progress'
  <2>1. /\ UNCHANGED <<said, planned>>
        /\ \E markdown \in {<<>>, UpTo(planned[t])} :
             Emitted([type |-> "turn.proposed.completed", t |-> t, markdown |-> markdown])
    BY <1>0, <1>4, CompletePlanEmits
  <2>2. PICK e : Emitted(e)
    BY <2>1
  <2>3. WorkerRests
    BY <1>4, EmitRests DEF CompletePlan
  <2> QED
    BY <2>1, <2>2, <2>3, EmittedProgress
<1>5. ASSUME NEW t \in Turns, CompleteTurn(t) PROVE FeedOrdered' /\ Progress'
  <2>1. UNCHANGED <<said, planned>> /\ \E e : Emitted(e)
    BY <1>0, <1>5, CompleteTurnEmits
  <2>2. PICK e : Emitted(e)
    BY <2>1
  <2>3. WorkerRests
    BY <1>5, EmitRests DEF CompleteTurn
  <2> QED
    BY <2>1, <2>2, <2>3, EmittedProgress
<1>6. ASSUME NEW t \in Turns, ExitSession(t) PROVE FeedOrdered' /\ Progress'
  <2>1. UNCHANGED <<said, planned>> /\ \E e : Emitted(e)
    BY <1>0, <1>6, ExitSessionEmits
  <2>2. PICK e : Emitted(e)
    BY <2>1
  <2>3. WorkerRests
    BY <1>6, EmitRests DEF ExitSession
  <2> QED
    BY <2>1, <2>2, <2>3, EmittedProgress
<1> QED
  BY <1>1, <1>2, <1>3, <1>4, <1>5, <1>6

-----------------------------------------------------------------------------
(* The invariant *)

LEMMA WorkerOrder ==
  ASSUME IInv, Worker
  PROVE  FeedOrdered'
<1>1. TypeOK /\ FeedOrdered
  BY DEF IInv
<1>2. CASE \/ TakeDelta \/ TakeItemCompleted \/ TakePlanDelta \/ TakePlanCompleted
           \/ TakeTurnCompleted \/ TakeSessionExited
  <2>1. Taken
    BY <1>2 DEF TakeDelta, TakeItemCompleted, TakePlanDelta, TakePlanCompleted,
                TakeTurnCompleted, TakeSessionExited, Take, Taken, providerVars
  <2> QED
    BY <1>1, <2>1, TakenOrder
<1>3. CASE ~(\/ TakeDelta \/ TakeItemCompleted \/ TakePlanDelta \/ TakePlanCompleted
             \/ TakeTurnCompleted \/ TakeSessionExited)
  <2>1. FeedRests
    BY <1>3 DEF Worker, DispatchDelta, DispatchComplete, FinalizeAssistantMessage,
                ForgetAssistantMessageId, ClearAssistantMessageIdsForTurn,
                FinalizeBufferedProposedPlan, UpsertProposedPlan, DispatchSession,
                ClearTurnStateForSession, DispatchFails, Do, FeedRests, providerVars
  <2> QED
    BY <1>1, <2>1, RestingFeed
<1> QED
  BY <1>2, <1>3

LEMMA WorkerProgress ==
  ASSUME IInv, Worker
  PROVE  FeedOrdered' /\ Progress'
<1>1. FeedOrdered'
  BY WorkerOrder
<1>2. CASE \/ TakeDelta \/ TakeItemCompleted \/ TakePlanDelta \/ TakePlanCompleted
           \/ TakeTurnCompleted \/ TakeSessionExited
  BY <1>1, <1>2, TakeDeltaProgress, TakeItemCompletedProgress, TakePlanDeltaProgress,
     TakePlanCompletedProgress, TakeTurnCompletedProgress, TakeSessionExitedProgress
<1>3. CASE \/ DispatchDelta \/ DispatchComplete \/ FinalizeAssistantMessage
           \/ ForgetAssistantMessageId \/ ClearAssistantMessageIdsForTurn
  BY <1>1, <1>3, DispatchDeltaProgress, DispatchCompleteProgress, FinalizeProgress,
     ForgetProgress, ClearIdsProgress
<1>4. CASE \/ FinalizeBufferedProposedPlan \/ UpsertProposedPlan \/ DispatchSession
           \/ ClearTurnStateForSession \/ DispatchFails
  BY <1>1, <1>4, FinalizePlanProgress, UpsertProgress, SessionProgress, ClearStateProgress,
     DispatchFailsProgress
<1> QED
  BY <1>1, <1>2, <1>3, <1>4 DEF Worker

LEMMA OtherProgress ==
  ASSUME IInv,
         \/ \E m \in Messages : ExpireText(m)
         \/ \E t \in Turns : ExpireIds(t) \/ ExpirePlan(t)
         \/ SwitchStreaming \/ UNCHANGED vars
  PROVE  FeedOrdered' /\ Progress'
<1>1. FeedRests
  BY DEF ExpireText, ExpireIds, ExpirePlan, SwitchStreaming, vars, FeedRests, providerVars
<1>2. FeedOrdered'
  BY <1>1, RestingFeed DEF IInv
<1>3. Progress'
  BY ExpireTextProgress, ExpireIdsProgress, ExpirePlanProgress, RestProgress
<1> QED
  BY <1>2, <1>3

LEMMA InitInvariant == Init => IInv
<1> SUFFICES ASSUME Init PROVE IInv
  OBVIOUS
<1>1. TypeOK
  BY InitTypes
<1>2. /\ feed = <<>> /\ work = <<>> /\ DOMAIN feed = {} /\ DOMAIN work = {}
      /\ ended = {} /\ excused = {}
      /\ \A m \in Messages : /\ said[m] = 0 /\ buffer[m] = <<>> /\ text[m] = <<>>
                             /\ shown[m] = "none"
      /\ \A t \in Turns : planned[t] = 0 /\ planBuffer[t] = <<>> /\ plan[t] = <<>>
  BY DEF Init
<1>3. FeedOrdered /\ WorkOrdered
  BY <1>2 DEF FeedOrdered, EndsAreLast, EndsFollow, ItemEndsAreLast, DeltasGrow,
              PlanEndsAreLast, PlanDeltasGrow, WorkOrdered
<1>4. /\ \A m : Numbers(m) = {} /\ InHand(m) = <<>>
      /\ \A t : PlanNumbers(t) = {} /\ ~TurnDone(t) /\ ~DoesFor("upsert", t)
  BY <1>2 DEF Numbers, PlanNumbers, InHand, TurnDone, TurnEnded, DoesFor
<1>5. SaidOnce
  BY <1>2, <1>4, NothingOnce DEF SaidOnce, OnceOf, Elements, Apart
<1>6. Len(<<>>) = 0 /\ DOMAIN <<>> = {} /\ 1..0 = {}
  OBVIOUS
<1>7. Whole
  <2> SUFFICES ASSUME NEW m \in Messages PROVE WholeOf(m)
    BY DEF Whole
  <2>1. Told(m) = 0
    <3>1. text[m] = <<>> /\ InHand(m) = <<>> /\ buffer[m] = <<>>
      BY <1>2, <1>4
    <3>2. Told(m) = Len(<<>>) + Len(<<>>) + Len(<<>>)
      BY <3>1 DEF Told
    <3> QED
      BY <1>6, <3>2
  <2>2. InPlace(m)
    BY <1>2, <1>4, <1>6 DEF InPlace
  <2>3. said[m] = 0 /\ Numbers(m) = (0 + 1)..0 /\ shown[m] # "complete"
    BY <1>2, <1>4
  <2> QED
    BY <2>1, <2>2, <2>3 DEF WholeOf
<1>8. Settling
  BY <1>2 DEF Settling, SettlingOf
<1>9. PlanWhole
  <2> SUFFICES ASSUME NEW t \in Turns PROVE PlanBuffered(t)
    BY DEF PlanWhole
  <2>1. Len(planBuffer[t]) = 0 /\ DOMAIN planBuffer[t] = {}
    BY <1>2, <1>6
  <2>2. PlanNumbers(t) = (0 + 1)..planned[t] /\ 0 <= planned[t]
    <3>1. PlanNumbers(t) = {} /\ planned[t] = 0
      BY <1>2, <1>4
    <3>2. (0 + 1)..0 = {} /\ 0 <= 0
      OBVIOUS
    <3> QED
      BY <3>1, <3>2
  <2> QED
    BY <1>2, <1>4, <2>1, <2>2 DEF PlanBuffered
<1>10. TurnSettling
  BY <1>4 DEF TurnSettling, SettledOf
<1> QED
  BY <1>1, <1>3, <1>5, <1>7, <1>8, <1>9, <1>10 DEF IInv

LEMMA NextInvariant == IInv /\ [Next]_vars => IInv'
<1> SUFFICES ASSUME IInv, [Next]_vars PROVE IInv'
  OBVIOUS
<1>1. TypeOK'
  BY NextTypes DEF IInv
<1>2. FeedOrdered' /\ Progress'
  BY ProviderProgress, WorkerProgress, OtherProgress DEF Next
<1> QED
  BY <1>1, <1>2 DEF IInv, Progress

LEMMA Invariant == Spec => []IInv
BY InitInvariant, NextInvariant, PTL DEF Spec

-----------------------------------------------------------------------------
(* What follows from it *)

LEMMA PlacesTyped ==
  ASSUME TypeOK, NEW m \in Messages
  PROVE  text[m] \in Texts /\ InHand(m) \in Texts /\ buffer[m] \in Texts /\ said[m] \in Nat
BY TypeFacts, InHandType

LEMMA SaidOnceSuffices == ASSUME IInv PROVE NothingIsSaidTwice
<1> SUFFICES ASSUME NEW m \in Messages
             PROVE  IsInjective(text[m] \o InHand(m) \o buffer[m])
  BY DEF NothingIsSaidTwice
<1>1. PICK a, b, c : a = text[m] /\ b = InHand(m) /\ c = buffer[m]
  OBVIOUS
<1>2. a \in Texts /\ b \in Texts /\ c \in Texts
  BY <1>1, PlacesTyped DEF IInv
<1>3. /\ IsInjective(a) /\ IsInjective(b) /\ IsInjective(c)
      /\ Apart(a, b) /\ Apart(a, c) /\ Apart(b, c)
  BY <1>1 DEF IInv, SaidOnce, OnceOf
<1>4. IsInjective(a \o b) /\ Range(a \o b) = Range(a) \cup Range(b) /\ a \o b \in Texts
  BY <1>2, <1>3, JoinedOnce, JoinTexts
<1>5. Apart(a \o b, c)
  BY <1>3, <1>4 DEF Apart
<1>6. IsInjective((a \o b) \o c)
  BY <1>2, <1>3, <1>4, <1>5, JoinedOnce
<1> QED
  BY <1>1, <1>6

LEMMA CountingUp ==
  ASSUME NEW s \in Texts, NEW n \in Nat, \A i \in DOMAIN s : s[i] = i, Len(s) <= n
  PROVE  IsPrefix(s, UpTo(n)) /\ (Len(s) = n => s = UpTo(n))
<1>1. /\ s \in Seq(Nat) /\ UpTo(n) \in Seq(Nat) /\ Len(UpTo(n)) = n
      /\ DOMAIN UpTo(n) = 1..n /\ DOMAIN s = 1..Len(s) /\ Len(s) \in Nat
      /\ \A i \in 1..n : UpTo(n)[i] = i
  BY DEF Texts, UpTo
<1>2. Len(s) = n => s = UpTo(n)
  BY <1>1
<1>3. IsPrefix(s, UpTo(n))
  <2>1. s = SubSeq(UpTo(n), 1, Len(s))
    BY <1>1
  <2> QED
    BY <1>1, <2>1 DEF IsPrefix
<1> QED
  BY <1>2, <1>3

LEMMA WholeSuffices == ASSUME IInv PROVE TextIsWhole
<1> SUFFICES ASSUME NEW m \in Messages \ excused
             PROVE  /\ IsPrefix(text[m] \o InHand(m) \o buffer[m], UpTo(said[m]))
                    /\ shown[m] = "complete" => text[m] = UpTo(said[m])
  BY DEF TextIsWhole
<1>1. WholeOf(m) /\ text[m] \in Texts /\ InHand(m) \in Texts /\ buffer[m] \in Texts /\ said[m] \in Nat
  BY PlacesTyped DEF IInv, Whole
<1>2. PICK a, b, c, n : a = text[m] /\ b = InHand(m) /\ c = buffer[m] /\ n = said[m]
  OBVIOUS
<1>3. /\ a \in Seq(Nat \ {0}) /\ b \in Seq(Nat \ {0}) /\ c \in Seq(Nat \ {0}) /\ n \in Nat
      /\ Len(a) \in Nat /\ Len(b) \in Nat /\ Len(c) \in Nat /\ Len(a) + Len(b) + Len(c) <= n
      /\ \A i \in DOMAIN a : a[i] = i
      /\ \A i \in DOMAIN b : b[i] = Len(a) + i
      /\ \A i \in DOMAIN c : c[i] = Len(a) + Len(b) + i
      /\ shown[m] = "complete" => Len(a) = n
  <2>1. /\ text[m] \in Seq(Nat \ {0}) /\ InHand(m) \in Seq(Nat \ {0}) /\ buffer[m] \in Seq(Nat \ {0})
        /\ said[m] \in Nat
    BY <1>1 DEF Texts
  <2>2. /\ Len(text[m]) \in Nat /\ Len(InHand(m)) \in Nat /\ Len(buffer[m]) \in Nat
    BY <2>1
  <2>3. /\ InPlace(m) /\ Told(m) <= said[m]
        /\ shown[m] = "complete" => Len(text[m]) = said[m]
    BY <1>1 DEF WholeOf
  <2>4. /\ Len(a) + Len(b) + Len(c) <= n
        /\ \A i \in DOMAIN a : a[i] = i
        /\ \A i \in DOMAIN b : b[i] = Len(a) + i
        /\ \A i \in DOMAIN c : c[i] = Len(a) + Len(b) + i
        /\ shown[m] = "complete" => Len(a) = n
    BY <1>2, <2>3 DEF InPlace, Told
  <2> QED
    BY <1>2, <2>1, <2>2, <2>4
<1>4. /\ \A i \in DOMAIN (a \o b) : (a \o b)[i] = i
      /\ Len(a \o b) = Len(a) + Len(b) /\ a \o b \in Seq(Nat \ {0})
  BY <1>3
<1>5. PICK d : d = a \o b
  OBVIOUS
<1>6. /\ \A i \in DOMAIN (d \o c) : (d \o c)[i] = i
      /\ Len(d \o c) = Len(d) + Len(c) /\ d \o c \in Seq(Nat \ {0})
  BY <1>3, <1>4, <1>5
<1>7. d \o c \in Texts /\ Len(d \o c) <= n
  BY <1>3, <1>4, <1>5, <1>6 DEF Texts
<1>8. IsPrefix(d \o c, UpTo(n))
  BY <1>3, <1>6, <1>7, CountingUp
<1>9. shown[m] = "complete" => a = UpTo(n)
  <2>1. a \in Texts
    BY <1>3 DEF Texts
  <2>2. shown[m] = "complete" => Len(a) = n /\ Len(a) <= n
    BY <1>3
  <2> QED
    BY <1>3, <2>1, <2>2, CountingUp
<1> QED
  BY <1>2, <1>5, <1>8, <1>9

LEMMA SettlingSuffices == ASSUME IInv PROVE EndedTurnIsSettled
<1> SUFFICES ASSUME NEW t \in Turns, Handled(t)
             PROVE  /\ t \notin excused => /\ plan[t] = UpTo(planned[t]) /\ planBuffer[t] = <<>>
                                           /\ remembered[t] = {}
                    /\ \A m \in MessagesOf(t) \ excused :
                         /\ said[m] > 0 => shown[m] = "complete"
                         /\ buffer[m] = <<>>
  BY DEF EndedTurnIsSettled
<1>1. /\ TypeOK /\ FeedOrdered /\ Settling /\ PlanWhole /\ TurnSettling
  BY DEF IInv
<1>2. TurnDone(t) /\ work = <<>>
  BY DEF Handled, TurnDone, TurnEnded, HasEnd, IsEnd
<1>3. PlanQuiet(t) /\ \A m \in MessagesOf(t) : Quiet(m)
  BY <1>1, <1>2, DoneIsQuiet
<1>4. ASSUME t \notin excused
      PROVE  plan[t] = UpTo(planned[t]) /\ planBuffer[t] = <<>> /\ remembered[t] = {}
  <2>1. planBuffer[t] = <<>> /\ remembered[t] = {}
    BY <1>1, <1>2, <1>4, NothingInHand DEF TurnSettling, SettledOf
  <2>2. CASE PlanWritten(t)
    BY <1>2, <2>1, <2>2 DEF PlanWritten
  <2>3. CASE PlanBuffered(t)
    <3>1. PlanNumbers(t) = {}
      BY <1>3 DEF PlanQuiet, HasPlans, PlanNumbers, IsPlan, IsPlanDelta
    <3>2. planned[t] \in Nat /\ Len(<<>>) = 0
      BY <1>1, TypeFacts
    <3>3. planned[t] = 0
      BY <2>1, <2>3, <3>1, <3>2 DEF PlanBuffered
    <3>4. UpTo(0) = <<>>
      BY DEF UpTo
    <3> QED
      BY <2>1, <2>3, <3>3, <3>4 DEF PlanBuffered
  <2> QED
    BY <1>1, <1>4, <2>1, <2>2, <2>3 DEF PlanWhole
<1>5. ASSUME NEW m \in MessagesOf(t) \ excused
      PROVE  (said[m] > 0 => shown[m] = "complete") /\ buffer[m] = <<>>
  <2>1. m \in Messages /\ TurnOf[m] = t /\ ~HasItems(m) /\ ~Remembered(m)
    BY <1>2, <1>3 DEF MessagesOf, Quiet, Remembered
  <2> QED
    BY <1>1, <1>2, <2>1, NothingInHand DEF Settling, SettlingOf
<1> QED
  BY <1>4, <1>5

(* No piece of a message's text is told twice: neither by the safety valve *)
(* of the buffer and the end of the item, nor by the ends of the item and  *)
(* of the turn, nor by the detail, whatever fails, expires or is switched. *)
THEOREM NothingSaidTwice == Spec => []NothingIsSaidTwice
BY Invariant, SaidOnceSuffices, PTL

(* What the thread has of a message, what is in hand and what is buffered  *)
(* continue each other, and a message shown as complete lacks nothing,     *)
(* unless a failure, an expiry, an exit or a switch hit the message.       *)
THEOREM TextsAreWhole == Spec => []TextIsWhole
BY Invariant, WholeSuffices, PTL

(* When the worker has handled the end of a turn, each message the turn    *)
(* began is complete, its plan is whole and the caches hold nothing of it, *)
(* with the same exceptions.                                               *)
THEOREM EndedTurnsSettle == Spec => []EndedTurnIsSettled
BY Invariant, SettlingSuffices, PTL
=============================================================================
