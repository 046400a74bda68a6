------------------------ MODULE ClaudeSessionsProofs ------------------------
(***************************************************************************)
(* For any number of tools, turns and texts: the thread follows the turns  *)
(* of a Claude session, is told of a request what the SDK is told, and is  *)
(* told once what Claude says and what its tools do.                       *)
(***************************************************************************)
EXTENDS ClaudeSessions, SequenceTheorems, TLAPS

(* A turn is one that was made, and an open block is one of its own.       *)
Turn(t, n) == t \in TurnStates /\ t.id \in 1..n /\ t.open <= Len(t.order)

-----------------------------------------------------------------------------
(* Types *)

LEMMA Bounds == MaxPrompts \in Nat /\ MaxTexts \in Nat
BY BoundsAssumption

LEMMA NewTurnType ==
  ASSUME NEW n \in Nat, turns = n
  PROVE  Turn(NewTurn, n + 1) /\ NewTurn.id = n + 1 /\ NewTurn \in TurnStates
<1>1. <<>> \in Seq(Blocks) /\ Len(<<>>) = 0
  OBVIOUS
<1>2. NewTurn = [id |-> n + 1, order |-> <<>>, open |-> 0]
  BY DEF NewTurn
<1> QED
  BY <1>1, <1>2 DEF Turn, TurnStates

LEMMA BlockType ==
  ASSUME NEW n \in 0..MaxTexts
  PROVE  Block(n, TRUE) \in Blocks /\ Block(n, FALSE) \in Blocks
BY DEF Block, Blocks

\* Changing the blocks and the open block of a turn leaves it a turn.
LEMMA TurnUpdate ==
  ASSUME NEW n \in Nat, NEW t, Turn(t, n), NEW order \in Seq(Blocks), NEW i \in 0..Len(order),
         NEW u, u = [id |-> t.id, order |-> order, open |-> i]
  PROVE  Turn(u, n) /\ u.id = t.id /\ u.order = order /\ u.open = i
BY DEF Turn, TurnStates

LEMMA Fields ==
  ASSUME NEW t \in TurnStates
  PROVE  t = [id |-> t.id, order |-> t.order, open |-> t.open]
BY DEF TurnStates

LEMMA EnsureBlockType ==
  ASSUME NEW n \in Nat, NEW t, Turn(t, n)
  PROVE  /\ Turn(EnsureBlock(t), n) /\ EnsureBlock(t).id = t.id
         /\ EnsureBlock(t).open \in 1..Len(EnsureBlock(t).order)
<1>1. CASE t.open # 0
  <2>1. EnsureBlock(t) = t
    BY <1>1 DEF EnsureBlock
  <2> QED
    BY <1>1, <2>1 DEF Turn, TurnStates
<1>2. CASE t.open = 0
  <2>0. 0 \in 0..MaxTexts
    BY Bounds
  <2>1. PICK b \in Blocks : b = Block(0, FALSE)
    BY <2>0, BlockType, Zenon
  <2> DEFINE order == Append(t.order, b)
  <2>2. t.order \in Seq(Blocks)
    BY DEF Turn, TurnStates
  <2>3. order \in Seq(Blocks) /\ Len(order) = Len(t.order) + 1 /\ Len(t.order) \in Nat
    BY <2>2
  <2>4. EnsureBlock(t) = [id |-> t.id, order |-> order, open |-> Len(t.order) + 1]
    <3>1. EnsureBlock(t) = [t EXCEPT !.order = order, !.open = Len(t.order) + 1]
      BY <1>2, <2>1 DEF EnsureBlock
    <3> HIDE DEF order
    <3>2. [t EXCEPT !.order = order] = [id |-> t.id, order |-> order, open |-> t.open]
      BY Fields DEF Turn
    <3> QED
      BY <3>1, <3>2
  <2> HIDE DEF order
  <2>5. Len(t.order) + 1 \in 0..Len(order)
    BY <2>3
  <2> QED
    BY <2>3, <2>4, <2>5, TurnUpdate
<1> QED
  BY <1>1, <1>2

\* One block of a turn is changed.
LEMMA BlockUpdateType ==
  ASSUME NEW n \in Nat, NEW t, Turn(t, n), NEW i \in 1..Len(t.order), NEW b \in Blocks
  PROVE  LET u == [t EXCEPT !.order[i] = b]
         IN  /\ Turn(u, n) /\ u.id = t.id /\ u.open = t.open
             /\ Len(u.order) = Len(t.order)
<1> DEFINE order == [t.order EXCEPT ![i] = b]
<1>1. order \in Seq(Blocks) /\ Len(order) = Len(t.order)
  BY DEF Turn, TurnStates
<1>2. [t EXCEPT !.order[i] = b] = [t EXCEPT !.order = order]
  BY DEF Turn, TurnStates
<1> QED
  BY <1>1, <1>2 DEF Turn, TurnStates

LEMMA CompleteBlockType ==
  ASSUME NEW n \in Nat, NEW t, Turn(t, n), NEW i \in 1..Len(t.order)
  PROVE  Turn(CompleteBlock(t, i), n) /\ CompleteBlock(t, i).id = t.id
<1> DEFINE b == [t.order[i] EXCEPT !.done = TRUE]
           order == [t.order EXCEPT ![i] = b]
           j == IF t.open = i THEN 0 ELSE t.open
<1>1. t.order[i] \in Blocks /\ t.order \in Seq(Blocks) /\ t.open \in 0..Len(t.order)
  BY DEF Turn, TurnStates
<1>2. b \in Blocks
  BY <1>1 DEF Blocks
<1>3. CompleteBlock(t, i) = [id |-> t.id, order |-> order, open |-> j]
  <2>1. CompleteBlock(t, i) = [[t EXCEPT !.order = order] EXCEPT !.open = j]
    BY DEF CompleteBlock, Turn, TurnStates
  <2> HIDE DEF order, j
  <2>2. [t EXCEPT !.order = order] = [id |-> t.id, order |-> order, open |-> t.open]
    BY Fields DEF Turn
  <2> QED
    BY <2>1, <2>2
<1> HIDE DEF b
<1>4. order \in Seq(Blocks) /\ Len(order) = Len(t.order)
  BY <1>1, <1>2
<1>5. j \in 0..Len(order)
  BY <1>1, <1>4
<1> HIDE DEF order, j
<1> QED
  BY <1>3, <1>4, <1>5, TurnUpdate

LEMMA BackfilledType ==
  ASSUME NEW k \in Nat, NEW t, Turn(t, k), NEW n \in 0..MaxTexts
  PROVE  /\ Turn(Backfilled(t, n), k) /\ Backfilled(t, n).id = t.id
         /\ 1 \in 1..Len(Backfilled(t, n).order)
<1>1. CASE t.order = <<>>
  <2>1. PICK b \in Blocks : b = Block(n, TRUE)
    BY BlockType
  <2>2. <<b>> \in Seq(Blocks) /\ Len(<<b>>) = 1
    OBVIOUS
  <2>3. Backfilled(t, n) = [t EXCEPT !.order = <<b>>]
    BY <1>1, <2>1 DEF Backfilled
  <2>4. Len(t.order) = 0
    BY <1>1
  <2>5. t = [id |-> t.id, order |-> t.order, open |-> t.open] /\ t.open = 0
    BY <2>4, Fields DEF Turn, TurnStates
  <2> DEFINE order == <<b>>
  <2>6. Backfilled(t, n) = [id |-> t.id, order |-> order, open |-> 0]
    BY <2>3, <2>5
  <2>7. order \in Seq(Blocks) /\ Len(order) = 1
    BY <2>2
  <2> HIDE DEF order
  <2>8. 0 \in 0..Len(order) /\ 1 \in 1..Len(order)
    BY <2>7
  <2>9. Turn(Backfilled(t, n), k) /\ Backfilled(t, n).id = t.id /\ Backfilled(t, n).order = order
    BY <2>6, <2>7, <2>8, TurnUpdate
  <2> QED
    BY <2>8, <2>9
<1>2. CASE t.order # <<>>
  <2> DEFINE b == [t.order[1] EXCEPT !.fallback = IF @ = 0 THEN n ELSE @]
  <2>1. 1 \in 1..Len(t.order) /\ t.order[1] \in Blocks
    BY <1>2 DEF Turn, TurnStates
  <2>2. b \in Blocks
    BY <2>1 DEF Blocks
  <2>3. Backfilled(t, n) = [t EXCEPT !.order[1] = b]
    BY <1>2 DEF Backfilled, Turn, TurnStates
  <2> HIDE DEF b
  <2> QED
    BY <2>1, <2>2, <2>3, BlockUpdateType
<1> QED
  BY <1>1, <1>2

LEMMA ShowType ==
  ASSUME TypeOK, NEW ns, Show(ns)
  PROVE  shown' \in [1..MaxTexts -> Nat]
BY DEF TypeOK, ItemsTyped, Show

LEMMA ActiveTypes ==
  ASSUME TypeOK, NEW a \in {None} \cup 1..turns, NEW t \in {None} \cup 1..turns
  PROVE  AfterError(a, t) \in {None} \cup 1..turns /\ AfterCompleted(a, t) \in {None} \cup 1..turns
BY DEF AfterError, AfterCompleted

LEMMA CompleteTurnTypes ==
  ASSUME TypeOK, NEW a \in {None} \cup 1..turns, CompleteTurn(a)
  PROVE  /\ turn' = None /\ active' \in {None} \cup 1..turns
         /\ shown' \in [1..MaxTexts -> Nat] /\ done' \in [Tools -> Nat] /\ inFlight' \subseteq Tools
<1>1. shown' \in [1..MaxTexts -> Nat]
  BY ShowType DEF CompleteTurn
<1>2. active' \in {None} \cup 1..turns
  BY DEF CompleteTurn, AfterCompleted, TypeOK, TurnTyped
<1>3. done' \in [Tools -> Nat] /\ inFlight' \subseteq Tools
  BY DEF CompleteTurn, CompletesTools, TypeOK, ItemsTyped
<1> QED
  BY <1>1, <1>2, <1>3 DEF CompleteTurn

LEMMA TurnIdType ==
  ASSUME TypeOK
  PROVE  TurnId \in {None} \cup 1..turns
BY DEF TypeOK, TurnTyped, TurnId

LEMMA CutType ==
  ASSUME TypeOK
  PROVE  Cut \subseteq 1..MaxTexts
BY DEF TypeOK, ItemsTyped, Cut

LEMMA FlagType ==
  ASSUME NEW n \in Nat, NEW t, Turn(t, n), NEW i \in 1..Len(t.order)
  PROVE  /\ Turn([t EXCEPT !.order[i].emitted = TRUE], n)
         /\ Turn([t EXCEPT !.order[i].closed = TRUE], n)
         /\ [t EXCEPT !.order[i].emitted = TRUE].id = t.id
         /\ [t EXCEPT !.order[i].closed = TRUE].id = t.id
         /\ Len([t EXCEPT !.order[i].closed = TRUE].order) = Len(t.order)
<1>1. t.order[i] \in Blocks
  BY DEF Turn, TurnStates
<1>2. /\ [t.order[i] EXCEPT !.emitted = TRUE] \in Blocks
      /\ [t.order[i] EXCEPT !.closed = TRUE] \in Blocks
  BY <1>1 DEF Blocks
<1>3. /\ [t EXCEPT !.order[i].emitted = TRUE] = [t EXCEPT !.order[i] = [t.order[i] EXCEPT !.emitted = TRUE]]
      /\ [t EXCEPT !.order[i].closed = TRUE] = [t EXCEPT !.order[i] = [t.order[i] EXCEPT !.closed = TRUE]]
  BY DEF Turn, TurnStates
<1> QED
  BY <1>2, <1>3, BlockUpdateType

LEMMA StopsTypes ==
  ASSUME TypeOK, NEW a \in {None} \cup 1..turns, Stops(a)
  PROVE  /\ turn' = None /\ active' \in {None} \cup 1..turns
         /\ shown' \in [1..MaxTexts -> Nat] /\ done' \in [Tools -> Nat] /\ inFlight' \subseteq Tools
         /\ decision' \in [Tools -> {None, "answer", "cancel"}] /\ pending' \subseteq Tools
         /\ resolved' \in [Tools -> SUBSET {"answer", "cancel"}]
         /\ stopped' = TRUE
<1>1. decision' \in [Tools -> {None, "answer", "cancel"}] /\ pending' \subseteq Tools
  BY DEF Stops, TypeOK, RequestsTyped
<1>2. resolved' \in [Tools -> SUBSET {"answer", "cancel"}]
  BY DEF Stops, TypeOK, RequestsTyped
<1>3. CASE turn = None
  BY <1>1, <1>2, <1>3 DEF Stops, TypeOK, TurnTyped, ItemsTyped
<1>4. CASE turn # None
  BY <1>1, <1>2, <1>4, CompleteTurnTypes DEF Stops
<1> QED
  BY <1>3, <1>4

LEMMA MessagesSequence ==
  ASSUME NEW S, NEW a \in S, NEW b \in S, NEW c \in S, NEW d \in S
  PROVE  <<a, b, c, d>> \in Seq(S) /\ <<d>> \in Seq(S)
OBVIOUS

LEMMA HeadType ==
  ASSUME ClaudeTyped, sdk # <<>>
  PROVE  /\ Tail(sdk) \in Seq(Messages)
         /\ Head(sdk)[1] \in {"start", "delta", "stop", "assistant"} => Head(sdk)[2] \in 0..MaxTexts
         /\ Head(sdk)[1] \in {"tool", "result of tool"} => Head(sdk)[2] \in Tools
<1>1. sdk \in Seq(Messages)
  BY DEF ClaudeTyped
<1>2. Head(sdk) \in Messages /\ Tail(sdk) \in Seq(Messages)
  BY <1>1
<1> QED
  BY <1>2 DEF Messages

-----------------------------------------------------------------------------
(* What a message of Claude does to the turn *)

LEMMA BlockMessages ==
  ASSUME TypeOK, HandleBlockStart \/ HandleDelta \/ HandleBlockStop
  PROVE  /\ UNCHANGED <<turns, active>>
         /\ IF turn = None THEN turn' = None ELSE Turn(turn', turns) /\ turn'.id = turn.id
<1>1. UNCHANGED <<turns, active>> /\ turns \in Nat
  BY DEF HandleBlockStart, HandleDelta, HandleBlockStop, Handle, TypeOK, TurnTyped
<1>2. CASE turn = None
  BY <1>1, <1>2 DEF HandleBlockStart, HandleDelta, HandleBlockStop
<1>3. CASE turn # None
  <2>1. Turn(turn, turns)
    BY <1>3 DEF TypeOK, TurnTyped, Turn
  <2>2. CASE HandleBlockStart
    <3>1. turn' = EnsureBlock(turn)
      BY <1>3, <2>2 DEF HandleBlockStart
    <3> QED
      BY <1>1, <1>3, <2>1, <3>1, EnsureBlockType
  <2>3. CASE HandleDelta
    <3> DEFINE t == EnsureBlock(turn)
    <3>1. turn' = [t EXCEPT !.order[t.open].emitted = TRUE]
      BY <1>3, <2>3 DEF HandleDelta
    <3>2. Turn(t, turns) /\ t.open \in 1..Len(t.order) /\ t.id = turn.id
      BY <1>1, <2>1, EnsureBlockType
    <3> HIDE DEF t
    <3> QED
      BY <1>1, <1>3, <3>1, <3>2, FlagType
  <2>4. CASE HandleBlockStop /\ turn.open = 0
    BY <1>1, <1>3, <2>1, <2>4 DEF HandleBlockStop
  <2>5. CASE HandleBlockStop /\ turn.open # 0
    <3> DEFINE t == [turn EXCEPT !.order[turn.open].closed = TRUE]
    <3>1. turn' = CompleteBlock(t, turn.open)
      BY <1>3, <2>5 DEF HandleBlockStop
    <3>2. turn.open \in 1..Len(turn.order)
      BY <2>1, <2>5 DEF Turn, TurnStates
    <3>3. Turn(t, turns) /\ turn.open \in 1..Len(t.order) /\ t.id = turn.id
      BY <1>1, <2>1, <3>2, FlagType
    <3> HIDE DEF t
    <3> QED
      BY <1>1, <1>3, <3>1, <3>3, CompleteBlockType
  <2> QED
    BY <2>2, <2>3, <2>4, <2>5
<1> QED
  BY <1>2, <1>3, <1>1

LEMMA AssistantMessage ==
  ASSUME TypeOK, HandleAssistant
  PROVE  /\ Turn(turn', turns') /\ turns' \in Nat
         /\ IF turn = None THEN turns' = turns + 1 /\ turn'.id = turns + 1
            ELSE turns' = turns /\ turn'.id = turn.id
<1> DEFINE n == Head(sdk)[2]
           now == IF turn = None THEN turns + 1 ELSE turns
           old == IF turn = None THEN NewTurn ELSE turn
           t == Backfilled(old, n)
<1>1. n \in 0..MaxTexts
  BY HeadType DEF HandleAssistant, TypeOK
<1>2. Turn(old, now) /\ now \in Nat /\ (turn = None => old.id = turns + 1)
  BY NewTurnType DEF TypeOK, TurnTyped, Turn
<1>3. Turn(t, now) /\ t.id = old.id /\ 1 \in 1..Len(t.order)
  BY <1>1, <1>2, BackfilledType
<1>4. turn' \in {t, CompleteBlock(t, 1)} /\ turns' = now
  BY DEF HandleAssistant
<1>5. (turn # None => old = turn) /\ now = (IF turn = None THEN turns + 1 ELSE turns)
  OBVIOUS
<1> HIDE DEF t, old, now
<1> QED
  BY <1>2, <1>3, <1>4, <1>5, CompleteBlockType

-----------------------------------------------------------------------------
(* One step *)

LEMMA Frames ==
  /\ TurnTyped /\ UNCHANGED <<turn, turns, active>> => TurnTyped'
  /\ SessionTyped /\ UNCHANGED <<sending, prompts, promptQueue, stopped, closed, raced, stream>>
       => SessionTyped'
  /\ RequestsTyped /\ UNCHANGED <<pending, questions, decision, request, resolved>> => RequestsTyped'
  /\ ClaudeTyped /\ UNCHANGED <<sdk, working, interrupted, texts, used>> => ClaudeTyped'
  /\ ItemsTyped /\ UNCHANGED <<inFlight, shown, done, excused>> => ItemsTyped'
<1>1. TurnTyped /\ UNCHANGED <<turn, turns, active>> => TurnTyped'
  BY DEF TurnTyped
<1>2. SessionTyped /\ UNCHANGED <<sending, prompts, promptQueue, stopped, closed, raced, stream>>
        => SessionTyped'
  BY DEF SessionTyped
<1>3. RequestsTyped /\ UNCHANGED <<pending, questions, decision, request, resolved>> => RequestsTyped'
  BY DEF RequestsTyped
<1>4. ClaudeTyped /\ UNCHANGED <<sdk, working, interrupted, texts, used>> => ClaudeTyped'
  BY DEF ClaudeTyped, Messages
<1>5. ItemsTyped /\ UNCHANGED <<inFlight, shown, done, excused>> => ItemsTyped'
  BY DEF ItemsTyped
<1> QED
  BY <1>1, <1>2, <1>3, <1>4, <1>5

\* Every variable keeps its type: of any number of tools, turns and texts.
THEOREM ClaudeTypes == Spec => []TypeOK
<1>1. Init => TypeOK
  <2> SUFFICES ASSUME Init PROVE TypeOK
    OBVIOUS
  <2>1. TurnTyped
    BY DEF Init, TurnTyped
  <2>2. SessionTyped
    <3>1. prompts \in 0..MaxPrompts /\ promptQueue \in Nat
      BY Bounds DEF Init
    <3> QED
      BY <3>1 DEF Init, SessionTyped
  <2>3. RequestsTyped
    BY DEF Init, RequestsTyped
  <2>4. ClaudeTyped
    <3>1. sdk \in Seq(Messages) /\ texts \in 0..MaxTexts
      BY Bounds DEF Init
    <3> QED
      BY <3>1 DEF Init, ClaudeTyped
  <2>5. ItemsTyped
    BY DEF Init, ItemsTyped
  <2> QED
    BY <2>1, <2>2, <2>3, <2>4, <2>5 DEF TypeOK
<1>2. TypeOK /\ [Next]_vars => TypeOK'
  <2> SUFFICES ASSUME TypeOK, [Next]_vars
               PROVE  TypeOK'
    OBVIOUS
  <2> USE DEF turnVars, requestVars, sessionVars, claudeVars, threadVars, historyVars
  <2>1. CASE SendTurn
    <3>1. TurnTyped'
      <4>1. CASE turn = None
        BY <2>1, <4>1, Frames DEF SendTurn, TypeOK
      <4>2. CASE turn # None
        BY <2>1, <4>2, CompleteTurnTypes DEF SendTurn, TypeOK, TurnTyped
      <4> QED
        BY <4>1, <4>2
    <3>2. SessionTyped'
      BY <2>1, Bounds DEF SendTurn, TypeOK, SessionTyped
    <3>3. ItemsTyped'
      <4>1. shown' \in [1..MaxTexts -> Nat] /\ done' \in [Tools -> Nat] /\ inFlight' \subseteq Tools
        <5>1. CASE turn = None
          BY <2>1, <5>1 DEF SendTurn, TypeOK, ItemsTyped
        <5>2. CASE turn # None
          BY <2>1, <5>2, CompleteTurnTypes DEF SendTurn, TypeOK, TurnTyped
        <5> QED
          BY <5>1, <5>2
      <4>2. excused' \subseteq 1..MaxTexts
        BY <2>1, CutType DEF SendTurn, TypeOK, ItemsTyped
      <4> QED
        BY <4>1, <4>2 DEF ItemsTyped
    <3> QED
      BY <2>1, <3>1, <3>2, <3>3, Frames DEF SendTurn, TypeOK
  <2>2. CASE ModeSet
    <3>1. TurnTyped'
      <4>1. Turn(NewTurn, turns + 1) /\ NewTurn \in TurnStates
        BY NewTurnType DEF TypeOK, TurnTyped
      <4>2. turns' = turns + 1 /\ turn' = NewTurn /\ turns \in Nat
        BY <2>2 DEF ModeSet, TypeOK, TurnTyped
      <4>3. active' \in {None} \cup 1..turns'
        BY <2>2 DEF ModeSet, AfterStarted, TypeOK, TurnTyped
      <4> QED
        BY <4>1, <4>2, <4>3 DEF Turn, TurnTyped
    <3>2. SessionTyped'
      BY <2>2 DEF ModeSet, TypeOK, SessionTyped
    <3>3. ItemsTyped'
      BY <2>2, CutType DEF ModeSet, TypeOK, ItemsTyped
    <3> QED
      BY <2>2, <3>1, <3>2, <3>3, Frames DEF ModeSet, TypeOK
  <2>3. CASE ModeFails
    <3>1. SessionTyped'
      BY <2>3 DEF ModeFails, TypeOK, SessionTyped
    <3> QED
      BY <2>3, <3>1, Frames DEF ModeFails, TypeOK
  <2>4. CASE OfferPrompt
    <3>1. SessionTyped'
      BY <2>4 DEF OfferPrompt, TypeOK, SessionTyped
    <3> QED
      BY <2>4, <3>1, Frames DEF OfferPrompt, TypeOK
  <2>5. CASE InterruptTurn
    <3>1. ClaudeTyped'
      BY <2>5 DEF InterruptTurn, TypeOK, ClaudeTyped
    <3> QED
      BY <2>5, <3>1, Frames DEF InterruptTurn, TypeOK
  <2>6. CASE StopSession
    <3>0. /\ turn' = None /\ active' \in {None} \cup 1..turns
          /\ shown' \in [1..MaxTexts -> Nat] /\ done' \in [Tools -> Nat] /\ inFlight' \subseteq Tools
          /\ decision' \in [Tools -> {None, "answer", "cancel"}] /\ pending' \subseteq Tools
          /\ resolved' \in [Tools -> SUBSET {"answer", "cancel"}]
          /\ stopped' = TRUE
      BY <2>6, StopsTypes DEF StopSession, TypeOK, TurnTyped
    <3>1. TurnTyped'
      BY <2>6, <3>0 DEF StopSession, TypeOK, TurnTyped
    <3>2. SessionTyped'
      BY <2>6, <3>0 DEF StopSession, TypeOK, SessionTyped
    <3>3. RequestsTyped'
      BY <2>6, <3>0 DEF StopSession, TypeOK, RequestsTyped
    <3>4. ItemsTyped'
      BY <2>6, <3>0 DEF StopSession, TypeOK, ItemsTyped
    <3> QED
      BY <2>6, <3>1, <3>2, <3>3, <3>4, Frames DEF StopSession, TypeOK
  <2>7. CASE CloseQuery
    <3>1. TurnTyped'
      BY <2>7 DEF CloseQuery, TypeOK, TurnTyped
    <3>2. SessionTyped'
      BY <2>7 DEF CloseQuery, TypeOK, SessionTyped
    <3>3. ClaudeTyped'
      <4>1. <<>> \in Seq(Messages)
        OBVIOUS
      <4> QED
        BY <2>7, <4>1 DEF CloseQuery, TypeOK, ClaudeTyped
    <3> QED
      BY <2>7, <3>1, <3>2, <3>3, Frames DEF CloseQuery, TypeOK
  <2>8. CASE HandleBlockStart
    <3>1. TurnTyped'
      BY <2>8, BlockMessages DEF TypeOK, TurnTyped, Turn
    <3>2. ClaudeTyped'
      BY <2>8, HeadType DEF HandleBlockStart, Handle, TypeOK, ClaudeTyped
    <3> QED
      BY <2>8, <3>1, <3>2, Frames DEF HandleBlockStart, Handle, TypeOK
  <2>9. CASE HandleDelta
    <3>1. TurnTyped'
      BY <2>9, BlockMessages DEF TypeOK, TurnTyped, Turn
    <3>2. ClaudeTyped'
      BY <2>9, HeadType DEF HandleDelta, Handle, TypeOK, ClaudeTyped
    <3>3. ItemsTyped'
      <4>1. shown' \in [1..MaxTexts -> Nat]
        BY <2>9, ShowType DEF HandleDelta, TypeOK, ItemsTyped
      <4> QED
        BY <2>9, <4>1 DEF HandleDelta, Handle, TypeOK, ItemsTyped
    <3> QED
      BY <2>9, <3>1, <3>2, <3>3, Frames DEF HandleDelta, Handle, TypeOK
  <2>10. CASE HandleBlockStop
    <3>1. TurnTyped'
      BY <2>10, BlockMessages DEF TypeOK, TurnTyped, Turn
    <3>2. ClaudeTyped'
      BY <2>10, HeadType DEF HandleBlockStop, Handle, TypeOK, ClaudeTyped
    <3>3. ItemsTyped'
      <4>1. shown' \in [1..MaxTexts -> Nat]
        BY <2>10, ShowType DEF HandleBlockStop, TypeOK, ItemsTyped
      <4> QED
        BY <2>10, <4>1 DEF HandleBlockStop, Handle, TypeOK, ItemsTyped
    <3> QED
      BY <2>10, <3>1, <3>2, <3>3, Frames DEF HandleBlockStop, Handle, TypeOK
  <2>11. CASE HandleAssistant
    <3>1. TurnTyped'
      <4>1. active' \in {None} \cup 1..turns'
        BY <2>11 DEF HandleAssistant, AfterStarted, TypeOK, TurnTyped
      <4> QED
        BY <2>11, <4>1, AssistantMessage DEF TurnTyped, Turn
    <3>2. SessionTyped'
      BY <2>11 DEF HandleAssistant, TypeOK, SessionTyped
    <3>3. ClaudeTyped'
      BY <2>11, HeadType DEF HandleAssistant, TypeOK, ClaudeTyped
    <3>4. ItemsTyped'
      <4>1. shown' \in [1..MaxTexts -> Nat]
        BY <2>11, ShowType DEF HandleAssistant, TypeOK, ItemsTyped
      <4>2. excused' \subseteq 1..MaxTexts
        BY <2>11 DEF HandleAssistant, TypeOK, ItemsTyped
      <4> QED
        BY <2>11, <4>1, <4>2 DEF HandleAssistant, TypeOK, ItemsTyped
    <3> QED
      BY <2>11, <3>1, <3>2, <3>3, <3>4, Frames DEF HandleAssistant, TypeOK
  <2>12. CASE HandleToolStart
    <3>1. ClaudeTyped'
      BY <2>12, HeadType DEF HandleToolStart, Handle, TypeOK, ClaudeTyped
    <3>2. ItemsTyped'
      BY <2>12, HeadType DEF HandleToolStart, Handle, TypeOK, ItemsTyped
    <3> QED
      BY <2>12, <3>1, <3>2, Frames DEF HandleToolStart, Handle, TypeOK
  <2>13. CASE HandleToolResult
    <3>1. ClaudeTyped'
      BY <2>13, HeadType DEF HandleToolResult, Handle, TypeOK, ClaudeTyped
    <3>2. ItemsTyped'
      <4> DEFINE k == Head(sdk)[2]
      <4>1. done' = IF k \in inFlight THEN [done EXCEPT ![k] = @ + 1] ELSE done
        BY <2>13 DEF HandleToolResult
      <4>2. done' \in [Tools -> Nat]
        BY <4>1 DEF TypeOK, ItemsTyped
      <4> QED
        BY <2>13, <4>2 DEF HandleToolResult, TypeOK, ItemsTyped
    <3> QED
      BY <2>13, <3>1, <3>2, Frames DEF HandleToolResult, Handle, TypeOK
  <2>14. CASE HandleResult
    <3>0. /\ turn' = None /\ active' \in {None} \cup 1..turns
          /\ shown' \in [1..MaxTexts -> Nat] /\ done' \in [Tools -> Nat] /\ inFlight' \subseteq Tools
      <4> DEFINE a == IF Head(sdk)[2] = "failed" THEN AfterError(active, TurnId) ELSE active
      <4>1. a \in {None} \cup 1..turns
        BY TurnIdType, ActiveTypes DEF TypeOK, TurnTyped
      <4>2. CompleteTurn(a)
        BY <2>14 DEF HandleResult
      <4> HIDE DEF a
      <4> QED
        BY <4>1, <4>2, CompleteTurnTypes
    <3>1. TurnTyped'
      BY <2>14, <3>0 DEF HandleResult, Handle, TypeOK, TurnTyped
    <3>2. ClaudeTyped'
      BY <2>14, HeadType DEF HandleResult, Handle, TypeOK, ClaudeTyped
    <3>3. ItemsTyped'
      BY <2>14, <3>0 DEF HandleResult, Handle, TypeOK, ItemsTyped
    <3> QED
      BY <2>14, <3>1, <3>2, <3>3, Frames DEF HandleResult, Handle, TypeOK
  <2>15. CASE HandleStreamExit
    <3>0. /\ turn' = None /\ active' \in {None} \cup 1..turns
          /\ shown' \in [1..MaxTexts -> Nat] /\ done' \in [Tools -> Nat] /\ inFlight' \subseteq Tools
          /\ decision' \in [Tools -> {None, "answer", "cancel"}] /\ pending' \subseteq Tools
          /\ resolved' \in [Tools -> SUBSET {"answer", "cancel"}]
          /\ stopped' = TRUE
      <4> DEFINE a == IF stream = "failed" THEN AfterError(active, TurnId) ELSE active
      <4>1. a \in {None} \cup 1..turns
        BY TurnIdType, ActiveTypes DEF TypeOK, TurnTyped
      <4>2. Stops(a)
        BY <2>15 DEF HandleStreamExit
      <4> HIDE DEF a
      <4> QED
        BY <4>1, <4>2, StopsTypes
    <3>1. TurnTyped'
      BY <2>15, <3>0 DEF HandleStreamExit, TypeOK, TurnTyped
    <3>2. SessionTyped'
      BY <2>15, <3>0 DEF HandleStreamExit, TypeOK, SessionTyped
    <3>3. RequestsTyped'
      BY <2>15, <3>0 DEF HandleStreamExit, TypeOK, RequestsTyped
    <3>4. ItemsTyped'
      BY <2>15, <3>0 DEF HandleStreamExit, TypeOK, ItemsTyped
    <3> QED
      BY <2>15, <3>1, <3>2, <3>3, <3>4, Frames DEF HandleStreamExit, TypeOK
  <2>16. ASSUME NEW k \in Tools, OpenRequest(k)
        PROVE  TypeOK'
    <3>1. RequestsTyped'
      BY <2>16 DEF OpenRequest, TypeOK, RequestsTyped
    <3> QED
      BY <2>16, <3>1, Frames DEF OpenRequest, TypeOK
  <2>17. ASSUME NEW k \in Tools, RespondToRequest(k)
        PROVE  TypeOK'
    <3>1. RequestsTyped'
      BY <2>17 DEF RespondToRequest, Succeed, TypeOK, RequestsTyped
    <3> QED
      BY <2>17, <3>1, Frames DEF RespondToRequest, TypeOK
  <2>18. ASSUME NEW k \in Tools, OnAbort(k)
        PROVE  TypeOK'
    <3>1. RequestsTyped'
      BY <2>18 DEF OnAbort, Succeed, TypeOK, RequestsTyped
    <3> QED
      BY <2>18, <3>1, Frames DEF OnAbort, TypeOK
  <2>19. ASSUME NEW k \in Tools, Resolve(k)
        PROVE  TypeOK'
    <3>1. RequestsTyped'
      BY <2>19 DEF Resolve, TypeOK, RequestsTyped
    <3> QED
      BY <2>19, <3>1, Frames DEF Resolve, TypeOK
  <2>20. CASE TakePrompt
    <3>1. SessionTyped'
      BY <2>20 DEF TakePrompt, TypeOK, SessionTyped
    <3>2. ClaudeTyped'
      BY <2>20 DEF TakePrompt, TypeOK, ClaudeTyped
    <3> QED
      BY <2>20, <3>1, <3>2, Frames DEF TakePrompt, TypeOK
  <2>21. CASE Answer
    <3>1. ClaudeTyped'
      <4>1. texts < MaxTexts /\ texts' = texts + 1
        BY <2>21 DEF Answer
      <4>2. texts \in 0..MaxTexts /\ texts' \in 0..MaxTexts /\ 0 \in 0..MaxTexts
        <5>1. texts \in 0..MaxTexts
          BY DEF TypeOK, ClaudeTyped
        <5> QED
          BY <4>1, <5>1, Bounds
      <4>3. <<"start", 0>> \in Messages /\ <<"stop", 0>> \in Messages
        BY <4>2 DEF Messages
      <4>4. <<"delta", texts'>> \in Messages /\ <<"assistant", texts'>> \in Messages
        BY <4>2 DEF Messages
      <4>5. \/ sdk' = <<<<"start", 0>>, <<"delta", texts'>>, <<"stop", 0>>, <<"assistant", texts'>>>>
            \/ sdk' = <<<<"start", 0>>, <<"delta", texts'>>, <<"assistant", texts'>>, <<"stop", 0>>>>
            \/ sdk' = <<<<"assistant", texts'>>>>
        BY <2>21 DEF Answer, Sends
      <4>6. sdk' \in Seq(Messages)
        BY <4>3, <4>4, <4>5, MessagesSequence
      <4> QED
        BY <2>21, <4>2, <4>6 DEF Answer, TypeOK, ClaudeTyped
    <3> QED
      BY <2>21, <3>1, Frames DEF Answer, Sends, TypeOK
  <2>22. ASSUME NEW k \in Tools, UseTool(k)
        PROVE  TypeOK'
    <3>1. ClaudeTyped'
      <4>1. <<"tool", k>> \in Messages
        BY <2>22 DEF Messages
      <4>2. sdk' = <<<<"tool", k>>>>
        BY <2>22 DEF UseTool, Sends
      <4>3. sdk' \in Seq(Messages)
        <5> DEFINE m == <<"tool", k>>
        <5>1. m \in Messages /\ sdk' = <<m>>
          BY <4>1, <4>2
        <5> HIDE DEF m
        <5> QED
          BY <5>1
      <4> QED
        BY <2>22, <4>3 DEF UseTool, Sends, TypeOK, ClaudeTyped
    <3> QED
      BY <2>22, <3>1, Frames DEF UseTool, Sends, TypeOK
  <2>23. ASSUME NEW k \in Tools, ReturnTool(k)
        PROVE  TypeOK'
    <3>1. ClaudeTyped'
      <4>1. <<"result of tool", k>> \in Messages
        BY <2>23 DEF Messages
      <4>2. sdk' = <<<<"result of tool", k>>>>
        BY <2>23 DEF ReturnTool, Sends
      <4>3. sdk' \in Seq(Messages)
        <5> DEFINE m == <<"result of tool", k>>
        <5>1. m \in Messages /\ sdk' = <<m>>
          BY <4>1, <4>2
        <5> HIDE DEF m
        <5> QED
          BY <5>1
      <4> QED
        BY <2>23, <4>3 DEF ReturnTool, Sends, TypeOK, ClaudeTyped
    <3> QED
      BY <2>23, <3>1, Frames DEF ReturnTool, Sends, TypeOK
  <2>24. CASE FinishPrompt
    <3>1. ClaudeTyped'
      <4>1. PICK status \in {"completed", "failed"} : sdk' = <<<<"result", status>>>>
        BY <2>24 DEF FinishPrompt, Sends
      <4>2. <<"result", status>> \in Messages
        BY DEF Messages
      <4>3. sdk' \in Seq(Messages)
        <5> DEFINE m == <<"result", status>>
        <5>1. m \in Messages /\ sdk' = <<m>>
          BY <4>1, <4>2
        <5> HIDE DEF m
        <5> QED
          BY <5>1
      <4>4. used' \in [Tools -> {"no", "started", "returned", "given up"}]
        BY <2>24 DEF FinishPrompt, TypeOK, ClaudeTyped
      <4> QED
        BY <2>24, <4>3, <4>4 DEF FinishPrompt, TypeOK, ClaudeTyped
    <3> QED
      BY <2>24, <3>1, Frames DEF FinishPrompt, Sends, TypeOK
  <2>25. CASE EndStream
    <3>1. SessionTyped'
      BY <2>25 DEF EndStream, TypeOK, SessionTyped
    <3> QED
      BY <2>25, <3>1, Frames DEF EndStream, TypeOK
  <2>26. CASE UNCHANGED vars
    BY <2>26, Frames DEF vars, TypeOK
  <2> QED
    BY <2>1, <2>2, <2>3, <2>4, <2>5, <2>6, <2>7, <2>8, <2>9, <2>10, <2>11, <2>12, <2>13,
       <2>14, <2>15, <2>16, <2>17, <2>18, <2>19, <2>20, <2>21, <2>22, <2>23, <2>24, <2>25, <2>26
       DEF Next, StreamFiber, Claude
<1> QED
  BY <1>1, <1>2, PTL DEF Spec

-----------------------------------------------------------------------------
(* Requests *)

(* Nothing is decided of a pending request, nothing is told of one that is *)
(* not decided, and what is told is what is decided.                       *)
Settled(k) ==
  /\ k \in pending => request[k] = "waiting" /\ decision[k] = None
  /\ resolved[k] \subseteq {decision[k]} /\ (decision[k] = None => resolved[k] = {})
  /\ request[k] = "none" => decision[k] = None
  /\ request[k] = "told" => resolved[k] = {decision[k]}

AllSettled == \A k \in Tools : Settled(k)

LEMMA StopsSettled ==
  ASSUME RequestsTyped, \A k \in Tools : Settled(k), NEW a, Stops(a),
         UNCHANGED <<questions, request>>
  PROVE  \A k \in Tools : Settled(k)'
<1> SUFFICES ASSUME NEW k \in Tools
             PROVE  Settled(k)'
  OBVIOUS
<1>1. CASE k \in pending \ questions
  <2>1. decision' = [decision EXCEPT ![k] = "cancel"] \/ decision'[k] = "cancel"
    BY <1>1 DEF Stops, Settled
  <2>2. decision'[k] = "cancel" /\ resolved'[k] = {"cancel"} /\ k \notin pending'
    BY <1>1 DEF Stops, Settled, RequestsTyped
  <2>3. request'[k] = "waiting"
    BY <1>1 DEF Settled
  <2> QED
    BY <2>2, <2>3, NoneAssumption DEF Settled
<1>2. CASE k \notin pending \ questions
  <2>1. decision'[k] = decision[k] /\ resolved'[k] = resolved[k] /\ request'[k] = request[k]
    BY <1>2 DEF Stops, RequestsTyped
  <2>2. k \in pending' => k \in pending
    BY DEF Stops
  <2> QED
    BY <2>1, <2>2 DEF Settled
<1> QED
  BY <1>1, <1>2

\* The thread is told of a request what the SDK is told of it.
THEOREM RequestsSettled == Spec => []RequestsAgree
<1>1. Init => AllSettled
  BY DEF Init, AllSettled, Settled
<1>2. TypeOK /\ AllSettled /\ [Next]_vars => AllSettled'
  <2> SUFFICES ASSUME TypeOK, \A k \in Tools : Settled(k), [Next]_vars
               PROVE  \A k \in Tools : Settled(k)'
    BY DEF AllSettled
  <2> USE DEF turnVars, requestVars, sessionVars, claudeVars, threadVars, historyVars
  <2>1. RequestsTyped
    BY DEF TypeOK
  <2>2. ASSUME NEW j \in Tools, OpenRequest(j)
        PROVE  \A k \in Tools : Settled(k)'
    BY <2>1, <2>2 DEF OpenRequest, Settled, RequestsTyped
  <2>3. ASSUME NEW j \in Tools, RespondToRequest(j) \/ OnAbort(j)
        PROVE  \A k \in Tools : Settled(k)'
    <3> TAKE k \in Tools
    <3>1. CASE k = j
      <4>1. decision'[k] \in {"answer", "cancel"} /\ k \notin pending' /\ resolved'[k] = {}
        BY <2>1, <2>3, <3>1 DEF RespondToRequest, OnAbort, Succeed, Settled, RequestsTyped
      <4>2. request'[k] = "waiting"
        BY <2>3, <3>1 DEF RespondToRequest, OnAbort, Settled
      <4> QED
        BY <4>1, <4>2, NoneAssumption DEF Settled
    <3>2. CASE k # j
      BY <2>1, <2>3, <3>2 DEF RespondToRequest, OnAbort, Succeed, Settled, RequestsTyped
    <3> QED
      BY <3>1, <3>2
  <2>4. ASSUME NEW j \in Tools, Resolve(j)
        PROVE  \A k \in Tools : Settled(k)'
    BY <2>1, <2>4 DEF Resolve, Settled, RequestsTyped
  <2>5. CASE StopSession
    BY <2>1, <2>5, StopsSettled DEF StopSession
  <2>6. CASE HandleStreamExit
    BY <2>1, <2>6, StopsSettled DEF HandleStreamExit
  <2>7. ASSUME UNCHANGED <<pending, decision, request, resolved>>
        PROVE  \A k \in Tools : Settled(k)'
    BY <2>7 DEF Settled
  <2>8. CASE SendTurn \/ ModeSet \/ ModeFails \/ OfferPrompt \/ InterruptTurn \/ CloseQuery
    BY <2>7, <2>8 DEF SendTurn, ModeSet, ModeFails, OfferPrompt, InterruptTurn, CloseQuery
  <2>9. CASE HandleBlockStart \/ HandleDelta \/ HandleBlockStop \/ HandleAssistant
    BY <2>7, <2>9 DEF HandleBlockStart, HandleDelta, HandleBlockStop, HandleAssistant, Handle
  <2>10. CASE HandleToolStart \/ HandleToolResult \/ HandleResult
    BY <2>7, <2>10 DEF HandleToolStart, HandleToolResult, HandleResult, Handle
  <2>11. CASE Claude
    BY <2>7, <2>11 DEF Claude, TakePrompt, Answer, UseTool, ReturnTool, FinishPrompt, EndStream, Sends
  <2>12. CASE UNCHANGED vars
    BY <2>7, <2>12 DEF vars
  <2> QED
    BY <2>2, <2>3, <2>4, <2>5, <2>6, <2>8, <2>9, <2>10, <2>11, <2>12 DEF Next, StreamFiber
<1>3. AllSettled => RequestsAgree
  BY DEF RequestsAgree, AllSettled, Settled
<1> QED
  BY <1>1, <1>2, <1>3, ClaudeTypes, PTL DEF Spec

-----------------------------------------------------------------------------
(* Turns *)

(* While sendTurn waits for the mode, and once the session has stopped,    *)
(* the adapter is in no turn.                                              *)
Follows ==
  raced \/ (active = TurnId /\ (sending = "mode" => turn = None) /\ (stopped => turn = None))

LEMMA CompletedFollows ==
  ASSUME active = TurnId, NEW a \in {active, AfterError(active, TurnId)},
         CompleteTurn(a)
  PROVE  turn' = None /\ active' = None
BY DEF CompleteTurn, AfterCompleted, AfterError, TurnId

LEMMA StopsFollows ==
  ASSUME active = TurnId, NEW a \in {active, AfterError(active, TurnId)}, Stops(a)
  PROVE  turn' = None /\ active' = None
<1>1. CASE turn = None
  BY <1>1 DEF Stops, AfterError, TurnId
<1>2. CASE turn # None
  BY <1>2, CompletedFollows DEF Stops
<1> QED
  BY <1>1, <1>2

\* The thread shows the turn that the adapter is in, unless turns ran into each other.
THEOREM ThreadShowsTurn == Spec => []ThreadFollowsTurn
<1>1. Init => Follows
  BY DEF Init, Follows, TurnId
<1>2. TypeOK /\ Follows /\ [Next]_vars => Follows'
  <2> SUFFICES ASSUME TypeOK, Follows, [Next]_vars
               PROVE  Follows'
    OBVIOUS
  <2> USE DEF turnVars, requestVars, sessionVars, claudeVars, threadVars, historyVars
  <2>1. CASE raced
    <3>1. raced'
      BY <2>1 DEF Next, StreamFiber, Claude, vars,
           SendTurn, ModeSet, ModeFails, OfferPrompt, InterruptTurn, StopSession, CloseQuery,
           HandleBlockStart, HandleDelta, HandleBlockStop, HandleAssistant, HandleToolStart,
           HandleToolResult, HandleResult, HandleStreamExit, OpenRequest, RespondToRequest, OnAbort,
           Resolve, TakePrompt, Answer, UseTool, ReturnTool, FinishPrompt, EndStream, Sends
    <3> QED
      BY <3>1 DEF Follows
  <2> SUFFICES ASSUME ~raced
               PROVE  Follows'
    BY <2>1
  <2>2. active = TurnId /\ (sending = "mode" => turn = None) /\ (stopped => turn = None)
    BY DEF Follows
  <2>3. None \notin Nat /\ None \notin TurnStates /\ turns \in Nat
    BY NoneAssumption DEF TypeOK, TurnTyped
  <2>4. CASE SendTurn
    <3>1. turn' = None /\ active' = None
      BY <2>2, <2>4, CompletedFollows DEF SendTurn, TurnId
    <3> QED
      BY <3>1 DEF Follows, TurnId
  <2>5. CASE ModeSet /\ stopped
    BY <2>5 DEF ModeSet, Follows
  <2>6. CASE ModeSet /\ ~stopped
    <3>1. turn' = NewTurn /\ active' = turns + 1 /\ sending' = "build" /\ stopped' = stopped
      BY <2>2, <2>6 DEF ModeSet, AfterStarted, TurnId
    <3>2. NewTurn # None /\ NewTurn.id = turns + 1
      BY <2>3, NewTurnType
    <3> QED
      BY <2>6, <3>1, <3>2 DEF Follows, TurnId
  <2>7. CASE StopSession
    <3>1. turn' = None /\ active' = None
      BY <2>2, <2>7, StopsFollows DEF StopSession
    <3> QED
      BY <3>1 DEF Follows, TurnId
  <2>8. CASE CloseQuery
    BY <2>2, <2>8 DEF CloseQuery, Follows, TurnId
  <2>9. CASE HandleStreamExit
    <3> DEFINE a == IF stream = "failed" THEN AfterError(active, TurnId) ELSE active
    <3>1. Stops(a) /\ a \in {active, AfterError(active, TurnId)}
      BY <2>9 DEF HandleStreamExit
    <3> HIDE DEF a
    <3>2. turn' = None /\ active' = None
      BY <2>2, <3>1, StopsFollows
    <3> QED
      BY <3>2 DEF Follows, TurnId
  <2>10. CASE HandleResult
    <3> DEFINE a == IF Head(sdk)[2] = "failed" THEN AfterError(active, TurnId) ELSE active
    <3>1. CompleteTurn(a) /\ a \in {active, AfterError(active, TurnId)}
      BY <2>10 DEF HandleResult
    <3> HIDE DEF a
    <3>2. turn' = None /\ active' = None
      BY <2>2, <3>1, CompletedFollows
    <3> QED
      BY <3>2 DEF Follows, TurnId
  <2>11. CASE HandleBlockStart \/ HandleDelta \/ HandleBlockStop
    <3>1. /\ active' = active /\ sending' = sending /\ stopped' = stopped
          /\ turn = None => turn' = None
          /\ turn # None => turn' # None /\ turn'.id = turn.id
      BY <2>3, <2>11, BlockMessages
         DEF HandleBlockStart, HandleDelta, HandleBlockStop, Handle, Turn
    <3> QED
      BY <2>2, <3>1 DEF Follows, TurnId
  <2>12. CASE HandleAssistant
    <3>1. CASE turn = None /\ sending = "mode"
      BY <2>12, <3>1 DEF HandleAssistant, Follows
    <3>2. CASE turn = None /\ sending # "mode"
      <4>1. turn' # None /\ turn'.id = turns + 1
        BY <2>3, <2>12, <3>2, AssistantMessage DEF Turn
      <4>2. active' = turns + 1 /\ sending' = sending /\ ~stopped'
        BY <2>2, <2>12, <3>2 DEF HandleAssistant, AfterStarted, TurnId
      <4> QED
        BY <3>2, <4>1, <4>2 DEF Follows, TurnId
    <3>3. CASE turn # None
      <4>1. turn' # None /\ turn'.id = turn.id
        BY <2>3, <2>12, <3>3, AssistantMessage DEF Turn
      <4>2. active' = active /\ sending' = sending /\ ~stopped'
        BY <2>12, <3>3 DEF HandleAssistant
      <4> QED
        BY <2>2, <3>3, <4>1, <4>2 DEF Follows, TurnId
    <3> QED
      BY <3>1, <3>2, <3>3
  <2>13. ASSUME UNCHANGED <<turn, active, stopped>>, sending' # "mode" \/ sending' = sending
         PROVE  Follows'
    BY <2>2, <2>13 DEF Follows, TurnId
  <2>14. CASE ModeFails \/ OfferPrompt \/ InterruptTurn
    BY <2>13, <2>14 DEF ModeFails, OfferPrompt, InterruptTurn
  <2>15. CASE HandleToolStart \/ HandleToolResult
    BY <2>13, <2>15 DEF HandleToolStart, HandleToolResult, Handle
  <2>16. ASSUME NEW k \in Tools, OpenRequest(k) \/ RespondToRequest(k) \/ OnAbort(k) \/ Resolve(k)
         PROVE  Follows'
    BY <2>13, <2>16 DEF OpenRequest, RespondToRequest, OnAbort, Resolve
  <2>17. CASE Claude
    BY <2>13, <2>17 DEF Claude, TakePrompt, Answer, UseTool, ReturnTool, FinishPrompt, EndStream, Sends
  <2>18. CASE UNCHANGED vars
    BY <2>13, <2>18 DEF vars
  <2> QED
    BY <2>4, <2>5, <2>6, <2>7, <2>8, <2>9, <2>10, <2>11, <2>12, <2>14, <2>15, <2>16, <2>17, <2>18
       DEF Next, StreamFiber
<1>3. Follows => ThreadFollowsTurn
  BY DEF Follows, ThreadFollowsTurn
<1> QED
  BY <1>1, <1>2, <1>3, ClaudeTypes, PTL DEF Spec

-----------------------------------------------------------------------------
(* Texts and tools: the invariant *)

(* What is left of an answer while its messages are handled.               *)
Has(s, m) == \E i \in 1..Len(s) : s[i] = m
Start == <<"start", 0>>
Stop == <<"stop", 0>>
Delta(n) == <<"delta", n>>
Assistant(n) == <<"assistant", n>>

AnswerRests(n) ==
  {<<Start, Delta(n), Stop, Assistant(n)>>, <<Delta(n), Stop, Assistant(n)>>, <<Stop, Assistant(n)>>,
   <<Start, Delta(n), Assistant(n), Stop>>, <<Delta(n), Assistant(n), Stop>>, <<Assistant(n), Stop>>,
   <<Assistant(n)>>, <<Stop>>, <<>>}

OtherTypes == {"tool", "result of tool", "result"}

(* A block that is not completed is the open one, and has nothing left to  *)
(* show.  The first block of a turn has no fallback only while the answer  *)
(* n that began it goes on: s is what is left of it, h what was shown.     *)
TurnFits(t, s, n, h) ==
  /\ t.open # 0 => ~t.order[t.open].done
  /\ \A i \in 1..Len(t.order) :
       /\ t.order[i].closed => t.order[i].done
       /\ ~t.order[i].done => i = t.open
       /\ ~t.order[i].done /\ ~t.order[i].emitted => t.order[i].fallback = 0 /\ Has(s, Delta(n))
  /\ Len(t.order) > 0 /\ t.order[1].fallback = 0 =>
       /\ Has(s, Assistant(n))
       /\ Has(s, Delta(n)) \/ h[n] > 0

(* The first block has shown its text, or will not show it.                *)
FirstIsShown(t) == Len(t.order) > 0 /\ (t.order[1].done \/ t.order[1].emitted)

(* Of the answer in hand the assistant message tells the text unless the   *)
(* turn has it; all others have been told.                                 *)
AnswerFits ==
  /\ sdk \in AnswerRests(texts) \/ \E m : m[1] \in OtherTypes /\ sdk = <<m>>
  /\ Has(sdk, Assistant(texts)) => texts # 0
  /\ \A n \in (1..texts) \ excused : n # texts \/ ~Has(sdk, Assistant(n)) => shown[n] = 1
  /\ Has(sdk, Delta(texts)) => shown[texts] = 0
  /\ Has(sdk, Assistant(texts)) /\ texts \notin excused /\ shown[texts] > 0 =>
       turn # None /\ FirstIsShown(turn)

TextsTold ==
  /\ \A n \in 1..MaxTexts : n > texts => shown[n] = 0
  /\ \A n \in (1..texts) \ excused : shown[n] <= 1
  /\ ~stopped => AnswerFits /\ (turn # None => TurnFits(turn, sdk, texts, shown))

(* The message that calls a tool, and the one that brings its result.      *)
Call(k) == <<<<"tool", k>>>>
Return(k) == <<<<"result of tool", k>>>>

(* A tool is in flight or completed from its message on, never both, and   *)
(* its result leaves it completed.                                         *)
ToolTold(k) ==
  /\ done[k] <= 1
  /\ ~stopped =>
       /\ k \in inFlight => done[k] = 0
       /\ used[k] = "no" \/ sdk = Call(k) => done[k] = 0 /\ k \notin inFlight
       /\ used[k] = "returned" /\ sdk # Return(k) => done[k] = 1
       /\ used[k] \in {"started", "returned"} /\ sdk # Call(k) =>
            k \in inFlight \/ done[k] = 1
       /\ sdk = Call(k) => used[k] = "started"
       /\ sdk = Return(k) => used[k] = "returned"

ToldInvariant == TextsTold /\ \A k \in Tools : ToolTold(k)

-----------------------------------------------------------------------------
(* The messages of an answer *)

LEMMA ElementsOf ==
  ASSUME NEW s, NEW m
  PROVE  /\ Len(s) = 0 => ~Has(s, m)
         /\ Len(s) = 1 => (Has(s, m) <=> s[1] = m)
         /\ Len(s) = 2 => (Has(s, m) <=> s[1] = m \/ s[2] = m)
         /\ Len(s) = 3 => (Has(s, m) <=> s[1] = m \/ s[2] = m \/ s[3] = m)
         /\ Len(s) = 4 => (Has(s, m) <=> s[1] = m \/ s[2] = m \/ s[3] = m \/ s[4] = m)
<1>1. Len(s) = 0 => ~Has(s, m)
  BY DEF Has
<1>2. Len(s) = 1 => (Has(s, m) <=> s[1] = m)
  BY DEF Has
<1>3. Len(s) = 2 => (Has(s, m) <=> s[1] = m \/ s[2] = m)
  BY DEF Has
<1>4. Len(s) = 3 => (Has(s, m) <=> s[1] = m \/ s[2] = m \/ s[3] = m)
  BY DEF Has
<1>5. Len(s) = 4 => (Has(s, m) <=> s[1] = m \/ s[2] = m \/ s[3] = m \/ s[4] = m)
  BY DEF Has
<1> QED
  BY <1>1, <1>2, <1>3, <1>4, <1>5

LEMMA FourMessages ==
  ASSUME NEW n
  PROVE  /\ Start # Delta(n) /\ Start # Assistant(n) /\ Stop # Delta(n) /\ Stop # Assistant(n)
         /\ Start # Stop /\ Delta(n) # Assistant(n)
         /\ Start[1] = "start" /\ Stop[1] = "stop"
         /\ Delta(n)[1] = "delta" /\ Delta(n)[2] = n
         /\ Assistant(n)[1] = "assistant" /\ Assistant(n)[2] = n
BY DEF Start, Stop, Delta, Assistant

(* The messages of an answer that are left.                              *)
LEMMA RestsOfAnswers ==
  ASSUME NEW n, NEW s
  PROVE  /\ s = <<Start, Delta(n), Stop, Assistant(n)>> => Has(s, Delta(n)) /\ Has(s, Assistant(n))
         /\ s = <<Delta(n), Stop, Assistant(n)>> => Has(s, Delta(n)) /\ Has(s, Assistant(n))
         /\ s = <<Stop, Assistant(n)>> => ~Has(s, Delta(n)) /\ Has(s, Assistant(n))
         /\ s = <<Start, Delta(n), Assistant(n), Stop>> => Has(s, Delta(n)) /\ Has(s, Assistant(n))
         /\ s = <<Delta(n), Assistant(n), Stop>> => Has(s, Delta(n)) /\ Has(s, Assistant(n))
         /\ s = <<Assistant(n), Stop>> => ~Has(s, Delta(n)) /\ Has(s, Assistant(n))
         /\ s = <<Assistant(n)>> => ~Has(s, Delta(n)) /\ Has(s, Assistant(n))
         /\ s = <<Stop>> => ~Has(s, Delta(n)) /\ ~Has(s, Assistant(n))
         /\ s = <<>> => ~Has(s, Delta(n)) /\ ~Has(s, Assistant(n))
<1>1. ASSUME s = <<Start, Delta(n), Stop, Assistant(n)>>
      PROVE  Has(s, Delta(n)) /\ Has(s, Assistant(n))
  <2>1. Len(s) = 4 /\ s[1] = Start /\ s[2] = Delta(n) /\ s[3] = Stop /\ s[4] = Assistant(n)
    BY <1>1
  <2> QED
    BY <2>1, ElementsOf, FourMessages
<1>2. ASSUME s = <<Delta(n), Stop, Assistant(n)>>
      PROVE  Has(s, Delta(n)) /\ Has(s, Assistant(n))
  <2>1. Len(s) = 3 /\ s[1] = Delta(n) /\ s[2] = Stop /\ s[3] = Assistant(n)
    BY <1>2
  <2> QED
    BY <2>1, ElementsOf, FourMessages
<1>3. ASSUME s = <<Stop, Assistant(n)>>
      PROVE  ~Has(s, Delta(n)) /\ Has(s, Assistant(n))
  <2>1. Len(s) = 2 /\ s[1] = Stop /\ s[2] = Assistant(n)
    BY <1>3
  <2> QED
    BY <2>1, ElementsOf, FourMessages
<1>4. ASSUME s = <<Start, Delta(n), Assistant(n), Stop>>
      PROVE  Has(s, Delta(n)) /\ Has(s, Assistant(n))
  <2>1. Len(s) = 4 /\ s[1] = Start /\ s[2] = Delta(n) /\ s[3] = Assistant(n) /\ s[4] = Stop
    BY <1>4
  <2> QED
    BY <2>1, ElementsOf, FourMessages
<1>5. ASSUME s = <<Delta(n), Assistant(n), Stop>>
      PROVE  Has(s, Delta(n)) /\ Has(s, Assistant(n))
  <2>1. Len(s) = 3 /\ s[1] = Delta(n) /\ s[2] = Assistant(n) /\ s[3] = Stop
    BY <1>5
  <2> QED
    BY <2>1, ElementsOf, FourMessages
<1>6. ASSUME s = <<Assistant(n), Stop>>
      PROVE  ~Has(s, Delta(n)) /\ Has(s, Assistant(n))
  <2>1. Len(s) = 2 /\ s[1] = Assistant(n) /\ s[2] = Stop
    BY <1>6
  <2> QED
    BY <2>1, ElementsOf, FourMessages
<1>7. ASSUME s = <<Assistant(n)>>
      PROVE  ~Has(s, Delta(n)) /\ Has(s, Assistant(n))
  <2>1. Len(s) = 1 /\ s[1] = Assistant(n)
    BY <1>7
  <2> QED
    BY <2>1, ElementsOf, FourMessages
<1>8. ASSUME s = <<Stop>>
      PROVE  ~Has(s, Delta(n)) /\ ~Has(s, Assistant(n))
  <2>1. Len(s) = 1 /\ s[1] = Stop
    BY <1>8
  <2> QED
    BY <2>1, ElementsOf, FourMessages
<1>9. ASSUME s = <<>>
      PROVE  ~Has(s, Delta(n)) /\ ~Has(s, Assistant(n))
  <2>1. Len(s) = 0
    BY <1>9
  <2> QED
    BY <2>1, ElementsOf, FourMessages
<1> QED
  BY <1>1, <1>2, <1>3, <1>4, <1>5, <1>6, <1>7, <1>8, <1>9

\* What the next message of an answer is, and what is left after it.
LEMMA AnswerMessage ==
  ASSUME NEW n, NEW s \in AnswerRests(n), s # <<>>
  PROVE  /\ Tail(s) \in AnswerRests(n)
         /\ \/ /\ Head(s) = Start
               /\ Has(s, Delta(n)) /\ Has(Tail(s), Delta(n))
               /\ Has(s, Assistant(n)) /\ Has(Tail(s), Assistant(n))
            \/ /\ Head(s) = Delta(n)
               /\ Has(s, Delta(n)) /\ ~Has(Tail(s), Delta(n))
               /\ Has(s, Assistant(n)) /\ Has(Tail(s), Assistant(n))
            \/ /\ Head(s) = Stop
               /\ ~Has(s, Delta(n)) /\ ~Has(Tail(s), Delta(n))
               /\ Has(s, Assistant(n)) <=> Has(Tail(s), Assistant(n))
            \/ /\ Head(s) = Assistant(n)
               /\ ~Has(s, Delta(n)) /\ ~Has(Tail(s), Delta(n))
               /\ Has(s, Assistant(n)) /\ ~Has(Tail(s), Assistant(n))
<1>1. s \in AnswerRests(n)
  OBVIOUS
<1> PICK r : r = Tail(s)
  OBVIOUS
<1>2. CASE s = <<Start, Delta(n), Stop, Assistant(n)>>
  <2>1. Head(s) = Start
    BY <1>2
  <2>2. r = <<Delta(n), Stop, Assistant(n)>>
    BY <1>2
  <2>3. Has(s, Delta(n)) /\ Has(s, Assistant(n))
    BY <1>2, RestsOfAnswers
  <2>4. Has(r, Delta(n)) /\ Has(r, Assistant(n))
    BY <2>2, RestsOfAnswers
  <2> QED
    BY <2>1, <2>2, <2>3, <2>4 DEF AnswerRests
<1>3. CASE s = <<Delta(n), Stop, Assistant(n)>>
  <2>1. Head(s) = Delta(n)
    BY <1>3
  <2>2. r = <<Stop, Assistant(n)>>
    BY <1>3
  <2>3. Has(s, Delta(n)) /\ Has(s, Assistant(n))
    BY <1>3, RestsOfAnswers
  <2>4. ~Has(r, Delta(n)) /\ Has(r, Assistant(n))
    BY <2>2, RestsOfAnswers
  <2> QED
    BY <2>1, <2>2, <2>3, <2>4 DEF AnswerRests
<1>4. CASE s = <<Stop, Assistant(n)>>
  <2>1. Head(s) = Stop
    BY <1>4
  <2>2. r = <<Assistant(n)>>
    BY <1>4
  <2>3. ~Has(s, Delta(n)) /\ Has(s, Assistant(n))
    BY <1>4, RestsOfAnswers
  <2>4. ~Has(r, Delta(n)) /\ Has(r, Assistant(n))
    BY <2>2, RestsOfAnswers
  <2> QED
    BY <2>1, <2>2, <2>3, <2>4 DEF AnswerRests
<1>5. CASE s = <<Start, Delta(n), Assistant(n), Stop>>
  <2>1. Head(s) = Start
    BY <1>5
  <2>2. r = <<Delta(n), Assistant(n), Stop>>
    BY <1>5
  <2>3. Has(s, Delta(n)) /\ Has(s, Assistant(n))
    BY <1>5, RestsOfAnswers
  <2>4. Has(r, Delta(n)) /\ Has(r, Assistant(n))
    BY <2>2, RestsOfAnswers
  <2> QED
    BY <2>1, <2>2, <2>3, <2>4 DEF AnswerRests
<1>6. CASE s = <<Delta(n), Assistant(n), Stop>>
  <2>1. Head(s) = Delta(n)
    BY <1>6
  <2>2. r = <<Assistant(n), Stop>>
    BY <1>6
  <2>3. Has(s, Delta(n)) /\ Has(s, Assistant(n))
    BY <1>6, RestsOfAnswers
  <2>4. ~Has(r, Delta(n)) /\ Has(r, Assistant(n))
    BY <2>2, RestsOfAnswers
  <2> QED
    BY <2>1, <2>2, <2>3, <2>4 DEF AnswerRests
<1>7. CASE s = <<Assistant(n), Stop>>
  <2>1. Head(s) = Assistant(n)
    BY <1>7
  <2>2. r = <<Stop>>
    BY <1>7
  <2>3. ~Has(s, Delta(n)) /\ Has(s, Assistant(n))
    BY <1>7, RestsOfAnswers
  <2>4. ~Has(r, Delta(n)) /\ ~Has(r, Assistant(n))
    BY <2>2, RestsOfAnswers
  <2> QED
    BY <2>1, <2>2, <2>3, <2>4 DEF AnswerRests
<1>8. CASE s = <<Assistant(n)>>
  <2>1. Head(s) = Assistant(n)
    BY <1>8
  <2>2. r = <<>>
    BY <1>8
  <2>3. ~Has(s, Delta(n)) /\ Has(s, Assistant(n))
    BY <1>8, RestsOfAnswers
  <2>4. ~Has(r, Delta(n)) /\ ~Has(r, Assistant(n))
    BY <2>2, RestsOfAnswers
  <2> QED
    BY <2>1, <2>2, <2>3, <2>4 DEF AnswerRests
<1>9. CASE s = <<Stop>>
  <2>1. Head(s) = Stop
    BY <1>9
  <2>2. r = <<>>
    BY <1>9
  <2>3. ~Has(s, Delta(n)) /\ ~Has(s, Assistant(n))
    BY <1>9, RestsOfAnswers
  <2>4. ~Has(r, Delta(n)) /\ ~Has(r, Assistant(n))
    BY <2>2, RestsOfAnswers
  <2> QED
    BY <2>1, <2>2, <2>3, <2>4 DEF AnswerRests
<1> QED
  BY <1>1, <1>2, <1>3, <1>4, <1>5, <1>6, <1>7, <1>8, <1>9 DEF AnswerRests

(* The next message of the SDK.                                            *)
NextIs(type) == sdk # <<>> /\ Head(sdk)[1] = type

\* What the stream handles next, and what is left after it.
LEMMA NextMessage ==
  ASSUME AnswerFits, sdk # <<>>
  PROVE  /\ NextIs("start") =>
              /\ Tail(sdk) \in AnswerRests(texts)
              /\ Has(sdk, Delta(texts)) /\ Has(Tail(sdk), Delta(texts))
              /\ Has(sdk, Assistant(texts)) /\ Has(Tail(sdk), Assistant(texts))
         /\ NextIs("delta") =>
              /\ Tail(sdk) \in AnswerRests(texts) /\ Head(sdk)[2] = texts
              /\ Has(sdk, Delta(texts)) /\ ~Has(Tail(sdk), Delta(texts))
              /\ Has(sdk, Assistant(texts)) /\ Has(Tail(sdk), Assistant(texts))
         /\ NextIs("stop") =>
              /\ Tail(sdk) \in AnswerRests(texts)
              /\ ~Has(sdk, Delta(texts)) /\ ~Has(Tail(sdk), Delta(texts))
              /\ Has(sdk, Assistant(texts)) <=> Has(Tail(sdk), Assistant(texts))
         /\ NextIs("assistant") =>
              /\ Tail(sdk) \in AnswerRests(texts) /\ Head(sdk)[2] = texts
              /\ ~Has(sdk, Delta(texts)) /\ ~Has(Tail(sdk), Delta(texts))
              /\ Has(sdk, Assistant(texts)) /\ ~Has(Tail(sdk), Assistant(texts))
         /\ Head(sdk)[1] \in OtherTypes =>
              /\ sdk = <<Head(sdk)>> /\ Tail(sdk) = <<>>
              /\ ~Has(sdk, Delta(texts)) /\ ~Has(sdk, Assistant(texts))
<1>1. CASE sdk \in AnswerRests(texts)
  <2>1. Head(sdk) \in {Start, Delta(texts), Stop, Assistant(texts)}
    BY <1>1, AnswerMessage
  <2>2. Head(sdk)[1] \notin OtherTypes
    BY <2>1, FourMessages DEF OtherTypes
  <2> QED
    BY <1>1, <2>1, <2>2, AnswerMessage, FourMessages DEF NextIs
<1>2. ASSUME NEW m, m[1] \in OtherTypes, sdk = <<m>>
      PROVE  /\ Head(sdk) = m /\ Tail(sdk) = <<>>
             /\ ~Has(sdk, Delta(texts)) /\ ~Has(sdk, Assistant(texts))
  <2>1. m # Delta(texts) /\ m # Assistant(texts)
    BY <1>2, FourMessages DEF OtherTypes
  <2> QED
    BY <1>2, <2>1 DEF Has
<1>3. ASSUME NEW m, m[1] \in OtherTypes
      PROVE  m[1] \notin {"start", "delta", "stop", "assistant"}
  BY <1>3 DEF OtherTypes
<1> QED
  BY <1>1, <1>2, <1>3 DEF AnswerFits, NextIs

-----------------------------------------------------------------------------
(* What a message does to the blocks of a turn *)

LEMMA UpdatedBlock ==
  ASSUME NEW t \in TurnStates, NEW i \in 1..Len(t.order), NEW b, NEW u,
         u = [t EXCEPT !.order[i] = b]
  PROVE  /\ u.open = t.open /\ Len(u.order) = Len(t.order)
         /\ \A j \in 1..Len(t.order) : u.order[j] = IF j = i THEN b ELSE t.order[j]
<1>1. t.order \in Seq(Blocks)
  BY DEF TurnStates
<1>2. u.open = t.open /\ u.order = [t.order EXCEPT ![i] = b]
  BY DEF TurnStates
<1> QED
  BY <1>1, <1>2

\* A block that is not completed has nothing left to show.
LEMMA NothingLeft ==
  ASSUME NEW t, NEW s, NEW n, NEW h, TurnFits(t, s, n, h),
         NEW i \in 1..Len(t.order), ~t.order[i].done
  PROVE  BlockText(t.order[i]) = {}
BY DEF TurnFits, BlockText

\* A block begins: it is the open one, and its text is still to come.
LEMMA EnsureFits ==
  ASSUME NEW k \in Nat, NEW t, Turn(t, k), NEW s, NEW n, NEW h, TurnFits(t, s, n, h),
         NEW r, Has(r, Delta(n)), Has(r, Assistant(n))
  PROVE  TurnFits(EnsureBlock(t), r, n, h) /\ EnsureBlock(t).open # 0
<1>1. CASE t.open # 0
  <2>1. EnsureBlock(t) = t
    BY <1>1 DEF EnsureBlock
  <2> QED
    BY <1>1, <2>1 DEF TurnFits
<1>2. CASE t.open = 0
  <2>0. 0 \in 0..MaxTexts
    BY Bounds
  <2>1. PICK b \in Blocks : b = Block(0, FALSE)
    BY <2>0, BlockType, Zenon
  <2>2. b.fallback = 0 /\ ~b.emitted /\ ~b.closed /\ ~b.done
    BY <2>1 DEF Block
  <2>3. t.order \in Seq(Blocks) /\ t \in TurnStates
    BY DEF Turn, TurnStates
  <2>4. PICK e : e = EnsureBlock(t)
    OBVIOUS
  <2>5. e.open = Len(t.order) + 1 /\ e.order = Append(t.order, b)
    BY <1>2, <2>1, <2>3, <2>4 DEF EnsureBlock, TurnStates
  <2>6. PICK m \in Nat : m = Len(t.order)
    BY <2>3
  <2>7. /\ Len(e.order) = m + 1 /\ e.order[m + 1] = b
        /\ \A i \in 1..m : e.order[i] = t.order[i]
    BY <2>3, <2>5, <2>6
  <2>8. \A i \in 1..m : t.order[i].done /\ (t.order[i].closed => t.order[i].done)
    BY <1>2, <2>6 DEF TurnFits
  <2>9. m > 0 /\ t.order[1].fallback = 0 => Has(r, Delta(n))
    OBVIOUS
  <2> QED
    BY <2>2, <2>4, <2>5, <2>6, <2>7, <2>8 DEF TurnFits
<1> QED
  BY <1>1, <1>2

\* A delta is shown at once by the open block.
LEMMA EmitFits ==
  ASSUME NEW k \in Nat, NEW t, Turn(t, k), NEW s, NEW n, NEW h, TurnFits(t, s, n, h), t.open # 0,
         NEW r, Has(r, Assistant(n)), NEW g, g[n] > 0
  PROVE  LET u == [t EXCEPT !.order[t.open].emitted = TRUE]
         IN  TurnFits(u, r, n, g) /\ FirstIsShown(u)
<1> DEFINE b == [t.order[t.open] EXCEPT !.emitted = TRUE]
<1>1. t \in TurnStates /\ t.open \in 1..Len(t.order) /\ t.order[t.open] \in Blocks
  BY DEF Turn, TurnStates
<1>2. /\ b.emitted /\ b.done = t.order[t.open].done /\ b.closed = t.order[t.open].closed
      /\ b.fallback = t.order[t.open].fallback
  BY <1>1 DEF Blocks
<1>3. PICK u : u = [t EXCEPT !.order[t.open].emitted = TRUE]
  OBVIOUS
<1>4. u = [t EXCEPT !.order[t.open] = b]
  BY <1>1, <1>3 DEF TurnStates
<1> HIDE DEF b
<1>5. /\ u.open = t.open /\ Len(u.order) = Len(t.order)
      /\ \A j \in 1..Len(t.order) : u.order[j] = IF j = t.open THEN b ELSE t.order[j]
  BY <1>1, <1>4, UpdatedBlock
<1>6. TurnFits(u, r, n, g)
  BY <1>1, <1>2, <1>5 DEF TurnFits
<1>7. FirstIsShown(u)
  BY <1>1, <1>2, <1>5 DEF TurnFits, FirstIsShown
<1> QED
  BY <1>3, <1>6, <1>7

\* The open block is completed.
LEMMA StopFits ==
  ASSUME NEW k \in Nat, NEW t, Turn(t, k), NEW s, NEW n, NEW h, TurnFits(t, s, n, h), t.open # 0,
         NEW r, Has(s, Delta(n)) => Has(r, Delta(n)), Has(s, Assistant(n)) => Has(r, Assistant(n))
  PROVE  LET u == CompleteBlock([t EXCEPT !.order[t.open].closed = TRUE], t.open)
         IN  TurnFits(u, r, n, h) /\ (FirstIsShown(t) => FirstIsShown(u))
<1> DEFINE b == [[t.order[t.open] EXCEPT !.closed = TRUE] EXCEPT !.done = TRUE]
<1>1. t \in TurnStates /\ t.open \in 1..Len(t.order) /\ t.order[t.open] \in Blocks
  BY DEF Turn, TurnStates
<1>2. b.done /\ b.fallback = t.order[t.open].fallback
  BY <1>1 DEF Blocks
<1>3. PICK u : u = CompleteBlock([t EXCEPT !.order[t.open].closed = TRUE], t.open)
  OBVIOUS
<1>4. u.open = 0 /\ u.order = [t.order EXCEPT ![t.open] = b]
  BY <1>1, <1>3 DEF CompleteBlock, TurnStates
<1> HIDE DEF b
<1>5. /\ Len(u.order) = Len(t.order)
      /\ \A j \in 1..Len(t.order) : u.order[j] = IF j = t.open THEN b ELSE t.order[j]
  BY <1>1, <1>4 DEF TurnStates
<1>6. TurnFits(u, r, n, h)
  BY <1>1, <1>2, <1>4, <1>5 DEF TurnFits
<1>7. FirstIsShown(t) => FirstIsShown(u)
  BY <1>1, <1>2, <1>5 DEF FirstIsShown
<1> QED
  BY <1>3, <1>6, <1>7

\* The assistant message in a turn that has blocks becomes the fallback of the first.
LEMMA BackfillFits ==
  ASSUME NEW k \in Nat, NEW t, Turn(t, k), NEW s, NEW n \in Nat \ {0}, NEW h, TurnFits(t, s, n, h),
         t.order # <<>>, ~Has(s, Delta(n)), NEW r
  PROVE  /\ TurnFits(Backfilled(t, n), r, n, h)
         /\ ~(Backfilled(t, n).order[1].closed /\ ~Backfilled(t, n).order[1].done)
<1> DEFINE b == [t.order[1] EXCEPT !.fallback = IF @ = 0 THEN n ELSE @]
<1>1. t \in TurnStates /\ 1 \in 1..Len(t.order) /\ t.order[1] \in Blocks
  BY DEF Turn, TurnStates
<1>2. b.fallback # 0 /\ b.done = t.order[1].done /\ b.closed = t.order[1].closed
      /\ b.emitted = t.order[1].emitted
  BY <1>1 DEF Blocks
<1>3. PICK u : u = Backfilled(t, n)
  OBVIOUS
<1>4. u = [t EXCEPT !.order[1] = b]
  BY <1>1, <1>3 DEF Backfilled, TurnStates
<1> HIDE DEF b
<1>5. /\ u.open = t.open /\ Len(u.order) = Len(t.order)
      /\ \A j \in 1..Len(t.order) : u.order[j] = IF j = 1 THEN b ELSE t.order[j]
  BY <1>1, <1>4, UpdatedBlock
<1>6. \A j \in 1..Len(t.order) : t.order[j].done \/ t.order[j].emitted
  BY DEF TurnFits
<1>7. TurnFits(u, r, n, h)
  <2>1. PICK m \in Nat : m = Len(t.order) /\ m >= 1
    BY <1>1 DEF TurnStates
  <2>2. u.order[1] = b
    BY <1>5, <2>1
  <2>3. \A j \in 1..m : /\ u.order[j].done = t.order[j].done
                        /\ u.order[j].closed = t.order[j].closed
                        /\ u.order[j].emitted = t.order[j].emitted
    BY <1>2, <1>5, <2>1
  <2>4. \A j \in 1..m : (t.order[j].closed => t.order[j].done) /\ (~t.order[j].done => j = t.open)
    BY <2>1 DEF TurnFits
  <2>5. u.open # 0 => ~u.order[u.open].done
    <3>1. t.open # 0 => t.open \in 1..Len(t.order)
      BY <1>1 DEF Turn, TurnStates
    <3>2. u.open # 0 => u.order[u.open].done = t.order[t.open].done
      BY <1>5, <2>1, <2>3, <3>1
    <3> QED
      BY <1>5, <3>2 DEF TurnFits
  <2> QED
    BY <1>2, <1>5, <1>6, <2>1, <2>2, <2>3, <2>4, <2>5 DEF TurnFits
<1>8. ~(u.order[1].closed /\ ~u.order[1].done)
  BY <1>1, <1>2, <1>5 DEF TurnFits
<1> QED
  BY <1>3, <1>7, <1>8

\* In a turn without blocks it is a block of its own, which shows it.
LEMMA FirstBlockFits ==
  ASSUME NEW k \in Nat, NEW t, Turn(t, k), NEW n \in 1..MaxTexts, t.order = <<>>, NEW r, NEW h
  PROVE  LET u == Backfilled(t, n)
         IN  /\ u.order[1].closed /\ ~u.order[1].done /\ BlockText(u.order[1]) = {n}
             /\ TurnFits(CompleteBlock(u, 1), r, n, h)
<1> USE Bounds
<1>1. t \in TurnStates /\ t.open = 0 /\ n # 0
  BY DEF Turn, TurnStates
<1>2. PICK b : b = Block(n, TRUE)
  OBVIOUS
<1>3. b \in Blocks /\ b.fallback = n /\ ~b.emitted /\ b.closed /\ ~b.done
  BY <1>2 DEF Block, Blocks
<1>4. PICK u : u = Backfilled(t, n)
  OBVIOUS
<1>5. u.open = 0 /\ u.order = <<b>> /\ u = [t EXCEPT !.order = <<b>>]
  BY <1>1, <1>2, <1>4 DEF Backfilled, TurnStates
<1>6. PICK v, c : v = CompleteBlock(u, 1) /\ c = [b EXCEPT !.done = TRUE]
  OBVIOUS
<1>7. v.open = 0 /\ v.order = <<c>>
  <2>1. u = [id |-> t.id, order |-> <<b>>, open |-> 0]
    BY <1>1, <1>5 DEF TurnStates
  <2>2. v = [u EXCEPT !.order = [<<b>> EXCEPT ![1] = c], !.open = 0]
    BY <2>1, <1>3, <1>6 DEF CompleteBlock, Blocks
  <2>3. [<<b>> EXCEPT ![1] = c] = <<c>>
    OBVIOUS
  <2> QED
    BY <2>1, <2>2, <2>3
<1>8. c.done /\ c.fallback = n
  BY <1>3, <1>6 DEF Blocks
<1>9. TurnFits(v, r, n, h)
  <2>1. Len(v.order) = 1 /\ v.order[1] = c
    BY <1>7
  <2> QED
    BY <1>1, <1>7, <1>8, <2>1 DEF TurnFits
<1>10. u.order[1] = b /\ BlockText(b) = {n}
  BY <1>1, <1>3, <1>5 DEF BlockText
<1> QED
  BY <1>3, <1>4, <1>6, <1>9, <1>10

-----------------------------------------------------------------------------
(* What a step does to the texts *)

\* Nothing happens to what was said and to the turn, though a text may be excused.
LEMMA UnchangedTexts ==
  ASSUME TextsTold, UNCHANGED <<turn, sdk, texts, shown, stopped>>, excused \subseteq excused'
  PROVE  TextsTold'
<1>1. \A n \in (1..texts) \ excused' : n \in (1..texts) \ excused
  OBVIOUS
<1>2. AnswerFits => AnswerFits'
  BY <1>1 DEF AnswerFits
<1> QED
  BY <1>1, <1>2 DEF TextsTold

\* Once the session has stopped nothing more is said.
LEMMA StoppedTexts ==
  ASSUME TextsTold, stopped', UNCHANGED <<texts, shown>>, excused \subseteq excused'
  PROVE  TextsTold'
BY DEF TextsTold

\* Completing a turn tells no text: its blocks have told theirs.
LEMMA CompletedTexts ==
  ASSUME TypeOK, TextsTold, ~stopped, NEW a, CompleteTurn(a)
  PROVE  turn' = None /\ shown' = shown
<1>1. CASE turn = None
  <2>1. Show({})
    BY <1>1 DEF CompleteTurn
  <2> QED
    BY <2>1 DEF CompleteTurn, Show, TypeOK, ItemsTyped
<1>2. CASE turn # None
  <2>1. TurnFits(turn, sdk, texts, shown) /\ turn.order \in Seq(Blocks)
    BY <1>2 DEF TextsTold, TypeOK, TurnTyped, TurnStates
  <2>2. \A i \in OpenBlocks(turn) : BlockText(turn.order[i]) = {}
    <3> TAKE i \in OpenBlocks(turn)
    <3>1. i \in 1..Len(turn.order) /\ ~turn.order[i].done
      BY <2>1 DEF OpenBlocks
    <3> QED
      BY <2>1, <3>1, NothingLeft
  <2>3. UNION {BlockText(turn.order[i]) : i \in OpenBlocks(turn)} = {}
    BY <2>2
  <2>4. Show({})
    BY <1>2, <2>3 DEF CompleteTurn
  <2> QED
    BY <2>4 DEF CompleteTurn, Show, TypeOK, ItemsTyped
<1> QED
  BY <1>1, <1>2

\* A new turn takes over from one that has told its texts: an answer that it cuts in
\* two is excused.
LEMMA CutTexts ==
  ASSUME TypeOK, TextsTold, ~stopped, UNCHANGED <<sdk, texts, shown, stopped>>,
         excused' = excused \cup Cut,
         turn' # None => turn'.order = <<>> /\ turn'.open = 0
  PROVE  TextsTold'
<1>1. AnswerFits /\ texts \in 0..MaxTexts /\ shown \in [1..MaxTexts -> Nat] /\ sdk \in Seq(Messages)
  BY DEF TextsTold, TypeOK, ClaudeTyped, ItemsTyped
<1>2. Has(sdk, Assistant(texts)) /\ texts \notin excused' => ~(shown[texts] > 0)
  <2>1. Has(sdk, Assistant(texts)) => \E i \in DOMAIN sdk : sdk[i] = <<"assistant", texts>>
    <3>1. DOMAIN sdk = 1..Len(sdk)
      BY <1>1
    <3> QED
      BY <3>1, Zenon DEF Has, Assistant
  <2>2. Has(sdk, Assistant(texts)) => texts \in DOMAIN shown
    BY <1>1, Bounds DEF AnswerFits
  <2> QED
    BY <2>1, <2>2 DEF Cut
<1>3. AnswerFits'
  BY <1>1, <1>2 DEF AnswerFits
<1>4. turn' # None => TurnFits(turn', sdk, texts, shown)
  BY DEF TurnFits
<1> QED
  BY <1>3, <1>4 DEF TextsTold

\* A message of the stream is handled that is no text of its own.
LEMMA OtherMessageTexts ==
  ASSUME TypeOK, TextsTold, ~stopped, sdk # <<>>, Head(sdk)[1] \in OtherTypes, sdk' = Tail(sdk),
         UNCHANGED <<texts, shown, stopped, excused>>, turn' \in {turn, None}
  PROVE  TextsTold'
<1>1. AnswerFits /\ (turn # None => TurnFits(turn, sdk, texts, shown))
  BY DEF TextsTold
<1>2. sdk' = <<>> /\ ~Has(sdk, Delta(texts)) /\ ~Has(sdk, Assistant(texts))
  BY <1>1, NextMessage
<1>3. \A m : ~Has(<<>>, m)
  BY DEF Has
<1>4. AnswerFits'
  BY <1>1, <1>2, <1>3 DEF AnswerFits, AnswerRests
<1>5. turn' # None => TurnFits(turn', sdk', texts, shown)
  BY <1>1, <1>2, <1>3 DEF TurnFits
<1> QED
  BY <1>4, <1>5 DEF TextsTold

LEMMA BlockStartTexts ==
  ASSUME TypeOK, TextsTold, HandleBlockStart
  PROVE  TextsTold'
<1>1. /\ NextIs("start") /\ sdk' = Tail(sdk) /\ ~stopped
      /\ turn' = IF turn = None THEN None ELSE EnsureBlock(turn)
      /\ UNCHANGED <<texts, shown, stopped, excused>>
  BY DEF HandleBlockStart, Handle, NextIs, sessionVars, claudeVars, historyVars
<1>2. AnswerFits /\ (turn # None => TurnFits(turn, sdk, texts, shown))
  BY <1>1 DEF TextsTold
<1>3. /\ sdk' \in AnswerRests(texts)
      /\ Has(sdk, Delta(texts)) /\ Has(sdk', Delta(texts))
      /\ Has(sdk, Assistant(texts)) /\ Has(sdk', Assistant(texts))
  BY <1>1, <1>2, NextMessage DEF NextIs
<1>4. shown[texts] = 0
  BY <1>2, <1>3 DEF AnswerFits
<1>5. AnswerFits'
  BY <1>1, <1>2, <1>3, <1>4 DEF AnswerFits
<1>6. turn' # None => TurnFits(turn', sdk', texts, shown)
  <2> SUFFICES ASSUME turn # None
               PROVE  TurnFits(EnsureBlock(turn), sdk', texts, shown)
    BY <1>1
  <2>1. Turn(turn, turns) /\ turns \in Nat
    BY DEF Turn, TypeOK, TurnTyped
  <2> QED
    BY <1>2, <1>3, <2>1, EnsureFits
<1> QED
  BY <1>1, <1>5, <1>6 DEF TextsTold

LEMMA DeltaTexts ==
  ASSUME TypeOK, TextsTold, HandleDelta
  PROVE  TextsTold'
<1> DEFINE t == EnsureBlock(turn)
<1>1. /\ NextIs("delta") /\ sdk' = Tail(sdk) /\ ~stopped
      /\ IF turn = None THEN UNCHANGED <<turn, shown>>
         ELSE turn' = [t EXCEPT !.order[t.open].emitted = TRUE] /\ Show({Head(sdk)[2]})
      /\ UNCHANGED <<texts, stopped, excused>>
  BY DEF HandleDelta, Handle, NextIs, sessionVars, claudeVars, historyVars
<1>2. AnswerFits /\ (turn # None => TurnFits(turn, sdk, texts, shown))
  BY <1>1 DEF TextsTold
<1>3. /\ sdk' \in AnswerRests(texts) /\ Head(sdk)[2] = texts
      /\ Has(sdk, Delta(texts)) /\ ~Has(sdk', Delta(texts))
      /\ Has(sdk, Assistant(texts)) /\ Has(sdk', Assistant(texts))
  BY <1>1, <1>2, NextMessage DEF NextIs
<1>4. shown[texts] = 0 /\ texts \in 1..MaxTexts /\ shown \in [1..MaxTexts -> Nat]
  <2>1. texts # 0 /\ shown[texts] = 0
    BY <1>2, <1>3 DEF AnswerFits
  <2>2. texts \in 0..MaxTexts /\ shown \in [1..MaxTexts -> Nat]
    BY DEF TypeOK, ClaudeTyped, ItemsTyped
  <2> QED
    BY <2>1, <2>2, Bounds
<1>5. CASE turn = None
  <2>1. AnswerFits'
    BY <1>1, <1>2, <1>3, <1>4, <1>5 DEF AnswerFits
  <2> QED
    BY <1>1, <1>5, <2>1 DEF TextsTold
<1>6. CASE turn # None
  <2>1. Turn(turn, turns) /\ turns \in Nat
    BY <1>6 DEF Turn, TypeOK, TurnTyped
  <2>2. Show({texts})
    BY <1>1, <1>3, <1>6
  <2>3. shown'[texts] = 1 /\ \A n \in 1..MaxTexts : n # texts => shown'[n] = shown[n]
    BY <1>4, <2>2 DEF Show
  <2>4. Turn(t, turns) /\ TurnFits(t, sdk, texts, shown) /\ t.open # 0
    BY <1>2, <1>3, <1>6, <2>1, EnsureBlockType, EnsureFits
  <2>5. turn' = [t EXCEPT !.order[t.open].emitted = TRUE]
    BY <1>1, <1>6
  <2> HIDE DEF t
  <2>6. TurnFits(turn', sdk', texts, shown') /\ FirstIsShown(turn')
    BY <1>3, <2>1, <2>3, <2>4, <2>5, EmitFits
  <2>7. Turn(turn', turns)
    <3>1. t.open \in 1..Len(t.order)
      BY <2>4 DEF Turn, TurnStates
    <3> QED
      BY <2>1, <2>4, <2>5, <3>1, FlagType
  <2>8. turn' # None
    BY <2>7, NoneAssumption DEF Turn
  <2>9. \A n \in (1..texts) \ excused : n # texts => shown'[n] = 1
    <3> TAKE n \in (1..texts) \ excused
    <3>1. n # texts => shown[n] = 1
      BY <1>2 DEF AnswerFits
    <3>2. n \in 1..MaxTexts
      BY <1>4, Bounds
    <3> QED
      BY <2>3, <3>1, <3>2
  <2>10. AnswerFits'
    BY <1>1, <1>3, <1>4, <2>6, <2>8, <2>9 DEF AnswerFits
  <2>11. \A n \in 1..MaxTexts : n > texts => shown'[n] = 0
    BY <1>4, <2>3 DEF TextsTold
  <2>12. \A n \in (1..texts) \ excused : shown'[n] <= 1
    BY <2>3, <2>9
  <2> QED
    BY <1>1, <2>6, <2>10, <2>11, <2>12 DEF TextsTold
<1> QED
  BY <1>5, <1>6

LEMMA BlockStopTexts ==
  ASSUME TypeOK, TextsTold, HandleBlockStop
  PROVE  TextsTold'
<1>1. /\ NextIs("stop") /\ sdk' = Tail(sdk) /\ ~stopped
      /\ UNCHANGED <<texts, stopped, excused>>
      /\ turn = None \/ turn.open = 0 => UNCHANGED <<turn, shown>>
      /\ turn # None /\ turn.open # 0 =>
           /\ turn' = CompleteBlock([turn EXCEPT !.order[turn.open].closed = TRUE], turn.open)
           /\ Show(BlockText(turn.order[turn.open]))
  BY DEF HandleBlockStop, Handle, NextIs, sessionVars, claudeVars, historyVars
<1>2. AnswerFits /\ (turn # None => TurnFits(turn, sdk, texts, shown))
  BY <1>1 DEF TextsTold
<1>3. /\ sdk' \in AnswerRests(texts)
      /\ ~Has(sdk, Delta(texts)) /\ ~Has(sdk', Delta(texts))
      /\ Has(sdk, Assistant(texts)) <=> Has(sdk', Assistant(texts))
  BY <1>1, <1>2, NextMessage DEF NextIs
<1>4. CASE turn = None \/ turn.open = 0
  <2>1. AnswerFits'
    BY <1>1, <1>2, <1>3, <1>4 DEF AnswerFits
  <2>2. turn' # None => TurnFits(turn', sdk', texts, shown)
    BY <1>1, <1>2, <1>3, <1>4 DEF TurnFits
  <2> QED
    BY <1>1, <1>4, <2>1, <2>2 DEF TextsTold
<1>5. CASE turn # None /\ turn.open # 0
  <2>1. Turn(turn, turns) /\ turns \in Nat /\ turn.open \in 1..Len(turn.order)
    BY <1>5 DEF Turn, TypeOK, TurnTyped, TurnStates
  <2>2. BlockText(turn.order[turn.open]) = {}
    BY <1>2, <1>5, <2>1, NothingLeft DEF TurnFits
  <2>3. shown' = shown
    BY <1>1, <1>5, <2>2 DEF Show, TypeOK, ItemsTyped
  <2>4. TurnFits(turn', sdk', texts, shown) /\ (FirstIsShown(turn) => FirstIsShown(turn'))
    BY <1>1, <1>2, <1>3, <1>5, <2>1, StopFits
  <2>5. turn' # None
    <3>1. Turn(turn', turns)
      BY <1>5, BlockMessages
    <3> QED
      BY <3>1, NoneAssumption DEF Turn
  <2>6. AnswerFits'
    BY <1>1, <1>2, <1>3, <2>3, <2>4, <2>5 DEF AnswerFits
  <2> QED
    BY <1>1, <2>3, <2>4, <2>6 DEF TextsTold
<1> QED
  BY <1>4, <1>5

LEMMA AssistantTexts ==
  ASSUME TypeOK, TextsTold, HandleAssistant
  PROVE  TextsTold'
<1> DEFINE old == IF turn = None THEN NewTurn ELSE turn
           now == IF turn = None THEN turns + 1 ELSE turns
           t == Backfilled(old, texts)
<1>1. /\ NextIs("assistant") /\ sdk' = Tail(sdk) /\ ~stopped
      /\ UNCHANGED <<texts, stopped>>
  BY DEF HandleAssistant, NextIs, sessionVars, claudeVars
<1>2. AnswerFits /\ (turn # None => TurnFits(turn, sdk, texts, shown))
  BY <1>1 DEF TextsTold
<1>3. /\ sdk' \in AnswerRests(texts) /\ Head(sdk)[2] = texts
      /\ ~Has(sdk, Delta(texts)) /\ ~Has(sdk', Delta(texts))
      /\ Has(sdk, Assistant(texts)) /\ ~Has(sdk', Assistant(texts))
  BY <1>1, <1>2, NextMessage DEF NextIs
<1>4. texts \in 1..MaxTexts /\ shown \in [1..MaxTexts -> Nat] /\ texts \in Nat \ {0}
  <2>1. texts # 0
    BY <1>2, <1>3 DEF AnswerFits
  <2>2. texts \in 0..MaxTexts /\ shown \in [1..MaxTexts -> Nat]
    BY DEF TypeOK, ClaudeTyped, ItemsTyped
  <2> QED
    BY <2>1, <2>2, Bounds
<1>5. /\ IF t.order[1].closed /\ ~t.order[1].done
         THEN turn' = CompleteBlock(t, 1) /\ Show(BlockText(t.order[1]))
         ELSE turn' = t /\ UNCHANGED shown
      /\ excused' = IF turn # None /\ turn.order # <<>> /\ turn.order[1].fallback # 0
                    THEN excused \cup ({texts} \cap {m \in DOMAIN shown : shown[m] = 0})
                    ELSE excused
  BY <1>3 DEF HandleAssistant
<1>6. Turn(old, now) /\ now \in Nat /\ (turn = None => old.order = <<>>)
  BY NewTurnType DEF NewTurn, TypeOK, TurnTyped, Turn
<1>7. turn # None => old = turn
  OBVIOUS
<1>8. turn' # None
  BY AssistantMessage, NoneAssumption DEF Turn
<1> HIDE DEF now, old
<1>9. CASE old.order = <<>>
  <2>1. /\ t.order[1].closed /\ ~t.order[1].done /\ BlockText(t.order[1]) = {texts}
        /\ TurnFits(CompleteBlock(t, 1), sdk', texts, shown')
    BY <1>4, <1>6, <1>9, FirstBlockFits
  <2>2. turn' = CompleteBlock(t, 1) /\ Show({texts})
    BY <1>5, <2>1
  <2>3. excused' = excused
    BY <1>5, <1>7, <1>9
  <2>4. shown'[texts] = shown[texts] + 1 /\ \A n \in 1..MaxTexts : n # texts => shown'[n] = shown[n]
    BY <1>4, <2>2 DEF Show
  <2>5. texts \notin excused => shown[texts] = 0
    <3>1. turn # None => ~FirstIsShown(turn)
      <4>1. turn # None => turn.order = <<>>
        BY <1>7, <1>9
      <4>2. Len(<<>>) = 0
        OBVIOUS
      <4> QED
        BY <4>1, <4>2 DEF FirstIsShown
    <3>2. texts \notin excused => ~(shown[texts] > 0)
      BY <1>2, <1>3, <3>1 DEF AnswerFits
    <3> QED
      BY <1>4, <3>2
  <2>6. \A n \in (1..texts) \ excused' : shown'[n] = 1
    <3> TAKE n \in (1..texts) \ excused'
    <3>1. n # texts => shown[n] = 1
      BY <1>2, <2>3 DEF AnswerFits
    <3>2. n \in 1..MaxTexts
      BY <1>4, Bounds
    <3> QED
      BY <2>3, <2>4, <2>5, <3>1, <3>2
  <2>7. AnswerFits'
    BY <1>1, <1>3, <2>6 DEF AnswerFits
  <2>8. \A n \in 1..MaxTexts : n > texts => shown'[n] = 0
    BY <1>4, <2>4 DEF TextsTold
  <2>9. \A n \in (1..texts) \ excused' : shown'[n] <= 1
    BY <2>6
  <2> QED
    BY <1>1, <2>1, <2>2, <2>7, <2>8, <2>9 DEF TextsTold
<1>10. CASE old.order # <<>>
  <2>1. turn # None /\ old = turn
    BY <1>6, <1>7, <1>10
  <2>2. /\ TurnFits(t, sdk', texts, shown)
        /\ ~(t.order[1].closed /\ ~t.order[1].done)
    BY <1>2, <1>3, <1>4, <1>6, <1>10, <2>1, BackfillFits
  <2>3. turn' = t /\ shown' = shown
    BY <1>5, <2>2
  <2>4. texts \notin excused' => shown[texts] # 0
    <3>1. CASE turn.order[1].fallback # 0
      BY <1>4, <1>5, <1>10, <2>1, <3>1
    <3>2. CASE turn.order[1].fallback = 0
      <4>1. Len(turn.order) > 0
        BY <1>10, <2>1 DEF TypeOK, TurnTyped, TurnStates
      <4>2. shown[texts] > 0
        BY <1>2, <1>3, <2>1, <3>2, <4>1 DEF TurnFits
      <4> QED
        BY <4>2
    <3> QED
      BY <3>1, <3>2
  <2>5. excused \subseteq excused'
    BY <1>5
  <2>6. \A n \in (1..texts) \ excused' : shown[n] = 1
    <3> TAKE n \in (1..texts) \ excused'
    <3>1. n # texts => shown[n] = 1
      BY <1>2, <2>5 DEF AnswerFits
    <3>2. shown[n] <= 1
      BY <2>5 DEF TextsTold
    <3>3. shown[n] \in Nat
      BY <1>4, Bounds
    <3> QED
      BY <2>4, <3>1, <3>2, <3>3
  <2>7. AnswerFits'
    BY <1>1, <1>3, <2>3, <2>6 DEF AnswerFits
  <2>8. \A n \in (1..texts) \ excused' : shown[n] <= 1
    BY <2>6
  <2> QED
    BY <1>1, <2>2, <2>3, <2>7, <2>8 DEF TextsTold
<1> QED
  BY <1>9, <1>10

LEMMA AnswerTexts ==
  ASSUME TypeOK, TextsTold, Answer
  PROVE  TextsTold'
<1>1. /\ sdk = <<>> /\ texts' = texts + 1 /\ texts < MaxTexts
      /\ UNCHANGED <<turn, shown, stopped, excused>>
      /\ \/ sdk' = <<<<"start", 0>>, <<"delta", texts'>>, <<"stop", 0>>, <<"assistant", texts'>>>>
         \/ sdk' = <<<<"start", 0>>, <<"delta", texts'>>, <<"assistant", texts'>>, <<"stop", 0>>>>
         \/ sdk' = <<<<"assistant", texts'>>>>
  BY DEF Answer, Sends, turnVars, sessionVars, threadVars, historyVars
<1>2. texts \in Nat /\ shown \in [1..MaxTexts -> Nat] /\ texts' \in 1..MaxTexts
  <2>1. texts \in 0..MaxTexts /\ shown \in [1..MaxTexts -> Nat]
    BY DEF TypeOK, ClaudeTyped, ItemsTyped
  <2>2. texts' = texts + 1 /\ texts < MaxTexts
    BY <1>1
  <2> QED
    BY <2>1, <2>2, Bounds
<1>3. shown[texts'] = 0
  BY <1>1, <1>2 DEF TextsTold
<1>4. \A m : ~Has(sdk, m)
  BY <1>1 DEF Has
<1>5. \A n \in 1..MaxTexts : n > texts' => shown[n] = 0
  BY <1>1, <1>2 DEF TextsTold
<1>6. \A n \in (1..texts') \ excused : shown[n] <= 1
  BY <1>1, <1>2, <1>3 DEF TextsTold
<1>7. ASSUME ~stopped
      PROVE  AnswerFits' /\ (turn # None => TurnFits(turn, sdk', texts', shown))
  <2>1. AnswerFits /\ (turn # None => TurnFits(turn, sdk, texts, shown))
    BY <1>7 DEF TextsTold
  <2>2. sdk' \in AnswerRests(texts')
    BY <1>1 DEF AnswerRests, Start, Stop, Delta, Assistant
  <2>3. Has(sdk', Assistant(texts'))
    BY <1>1, RestsOfAnswers DEF Start, Stop, Delta, Assistant
  <2>4. \A n \in (1..texts') \ excused : n # texts' => shown[n] = 1
    BY <1>1, <1>2, <1>4, <2>1 DEF AnswerFits
  <2>5. AnswerFits'
    BY <1>1, <1>2, <1>3, <2>2, <2>3, <2>4 DEF AnswerFits
  <2>6. turn # None => TurnFits(turn, sdk', texts', shown)
    BY <1>4, <2>1 DEF TurnFits
  <2> QED
    BY <2>5, <2>6
<1> QED
  BY <1>1, <1>5, <1>6, <1>7 DEF TextsTold

\* Claude sends a message that is no text.
LEMMA OtherSentTexts ==
  ASSUME TypeOK, TextsTold, NEW m, m[1] \in OtherTypes, Sends(<<m>>), texts' = texts
  PROVE  TextsTold'
<1>1. sdk = <<>> /\ sdk' = <<m>> /\ UNCHANGED <<turn, texts, shown, stopped, excused>>
  BY DEF Sends, turnVars, sessionVars, threadVars, historyVars
<1>2. \A x : ~Has(sdk, x)
  BY <1>1 DEF Has
<1>3. ~Has(sdk', Delta(texts)) /\ ~Has(sdk', Assistant(texts))
  <2>1. m # Delta(texts) /\ m # Assistant(texts)
    BY FourMessages DEF OtherTypes
  <2>2. Len(sdk') = 1 /\ sdk'[1] = m
    BY <1>1
  <2> QED
    BY <2>1, <2>2, ElementsOf
<1>4. ASSUME ~stopped
      PROVE  AnswerFits' /\ (turn # None => TurnFits(turn, sdk', texts, shown))
  <2>1. AnswerFits /\ (turn # None => TurnFits(turn, sdk, texts, shown))
    BY <1>4 DEF TextsTold
  <2>2. AnswerFits'
    BY <1>1, <1>2, <1>3, <2>1 DEF AnswerFits
  <2>3. turn # None => TurnFits(turn, sdk', texts, shown)
    BY <1>2, <2>1 DEF TurnFits
  <2> QED
    BY <2>2, <2>3
<1> QED
  BY <1>1, <1>4 DEF TextsTold

-----------------------------------------------------------------------------
(* What a step does to the tools *)

LEMMA OneMessage ==
  ASSUME NEW m, NEW n
  PROVE  <<m>> = <<n>> <=> m = n
<1>1. <<m>>[1] = m /\ <<n>>[1] = n
  OBVIOUS
<1> QED
  BY <1>1, Zenon

LEMMA ToolMessages ==
  ASSUME NEW j, NEW k
  PROVE  /\ Call(k) # <<>> /\ Return(k) # <<>> /\ Call(j) # Return(k)
         /\ (Call(j) = Call(k) <=> j = k) /\ (Return(j) = Return(k) <=> j = k)
         /\ Head(Call(k))[1] = "tool" /\ Head(Return(k))[1] = "result of tool"
         /\ Head(Call(k))[2] = k /\ Head(Return(k))[2] = k
<1>1. PICK m, n, x, y : m = <<"tool", j>> /\ n = <<"tool", k>> /\ x = <<"result of tool", j>>
                        /\ y = <<"result of tool", k>>
  OBVIOUS
<1>2. /\ n[1] = "tool" /\ n[2] = k /\ y[1] = "result of tool" /\ y[2] = k /\ m # y
      /\ (m = n <=> j = k) /\ (x = y <=> j = k)
  BY <1>1
<1>3. Call(j) = <<m>> /\ Call(k) = <<n>> /\ Return(j) = <<x>> /\ Return(k) = <<y>>
  BY <1>1 DEF Call, Return
<1>4. <<n>> # <<>> /\ <<y>> # <<>> /\ Head(<<n>>) = n /\ Head(<<y>>) = y
  OBVIOUS
<1>5. <<m>> # <<y>> /\ (<<m>> = <<n>> <=> m = n) /\ (<<x>> = <<y>> <=> x = y)
  BY <1>2, OneMessage, Zenon
<1> QED
  BY <1>2, <1>3, <1>4, <1>5

\* The call or the result of a tool is the only message there is.
LEMMA ToolHead ==
  ASSUME TypeOK, AnswerFits, sdk # <<>>, NEW k \in Tools
  PROVE  /\ NextIs("tool") => sdk = Call(Head(sdk)[2])
         /\ NextIs("result of tool") => sdk = Return(Head(sdk)[2])
         /\ sdk = Call(k) => NextIs("tool")
         /\ sdk = Return(k) => NextIs("result of tool")
<1>1. sdk \in Seq(Messages)
  BY DEF TypeOK, ClaudeTyped
<1>2. Head(sdk) \in Messages
  BY <1>1
<1>3. ASSUME NextIs("tool") \/ NextIs("result of tool")
      PROVE  sdk = <<Head(sdk)>>
  BY <1>3, NextMessage DEF NextIs, OtherTypes
<1>4. Head(sdk) = <<Head(sdk)[1], Head(sdk)[2]>>
  <2>1. PICK m : m = Head(sdk)
    OBVIOUS
  <2>2. ASSUME NEW S, NEW T, NEW x \in S \X T
        PROVE  x = <<x[1], x[2]>>
    OBVIOUS
  <2>3. \/ m \in {"start", "delta", "stop", "assistant"} \X (0..MaxTexts)
        \/ m \in {"tool", "result of tool"} \X Tools
        \/ m \in {"result"} \X {"completed", "failed"}
    BY <1>2, <2>1, Zenon DEF Messages
  <2> QED
    BY <2>1, <2>2, <2>3, Zenon
<1>5. NextIs("tool") => sdk = Call(Head(sdk)[2])
  BY <1>3, <1>4 DEF NextIs, Call
<1>6. NextIs("result of tool") => sdk = Return(Head(sdk)[2])
  BY <1>3, <1>4 DEF NextIs, Return
<1>7. Head(Call(k))[1] = "tool" /\ Head(Return(k))[1] = "result of tool"
  BY ToolMessages, Zenon
<1> QED
  BY <1>5, <1>6, <1>7 DEF NextIs

\* Nothing happens to the tools, or the session has stopped.
LEMMA UnchangedTools ==
  ASSUME NEW k \in Tools, ToolTold(k), done'[k] = done[k],
         stopped' \/ (UNCHANGED <<sdk, stopped>> /\ used'[k] = used[k] /\ (k \in inFlight' <=> k \in inFlight))
  PROVE  ToolTold(k)'
BY DEF ToolTold

\* Completing a turn completes the tools that are in flight.
LEMMA CompletedTools ==
  ASSUME TypeOK, ~stopped, NEW k \in Tools, ToolTold(k), NEW a, CompleteTurn(a)
  PROVE  /\ done'[k] \in Nat /\ done'[k] <= 1
         /\ k \in inFlight' => k \in inFlight /\ done'[k] = 0
         /\ k \in inFlight \/ done[k] = 1 => k \in inFlight' \/ done'[k] = 1
         /\ done[k] = 1 => done'[k] = 1
         /\ k \notin inFlight => done'[k] = done[k] /\ k \notin inFlight'
<1>1. done[k] \in Nat /\ done[k] <= 1 /\ (k \in inFlight => done[k] = 0)
  BY DEF ToolTold, TypeOK, ItemsTyped
<1>2. CASE turn = None
  BY <1>1, <1>2 DEF CompleteTurn
<1>3. CASE turn # None
  <2>1. inFlight' = {} /\ done'[k] = IF k \in inFlight THEN done[k] + 1 ELSE done[k]
    BY <1>3 DEF CompleteTurn, CompletesTools
  <2> QED
    BY <1>1, <2>1
<1> QED
  BY <1>2, <1>3

\* So it does whether it is sendTurn, a result, a stop or the end of the stream that
\* completes it.
LEMMA CompletedToolTold ==
  ASSUME TypeOK, ~stopped, NEW k \in Tools, ToolTold(k), NEW a, CompleteTurn(a), used'[k] = used[k],
         stopped' \/ (UNCHANGED stopped /\ (sdk' = sdk \/ (sdk' = <<>> /\ sdk # Call(k)
                                                         /\ sdk # Return(k))))
  PROVE  ToolTold(k)'
<1>1. /\ done'[k] \in Nat /\ done'[k] <= 1
      /\ k \in inFlight' => k \in inFlight /\ done'[k] = 0
      /\ k \in inFlight \/ done[k] = 1 => k \in inFlight' \/ done'[k] = 1
      /\ done[k] = 1 => done'[k] = 1
      /\ k \notin inFlight => done'[k] = done[k] /\ k \notin inFlight'
  BY CompletedTools
<1>2. <<>> # Call(k) /\ <<>> # Return(k)
  BY ToolMessages
<1>3. /\ k \in inFlight => done[k] = 0
      /\ used[k] = "no" \/ sdk = Call(k) => done[k] = 0 /\ k \notin inFlight
      /\ used[k] = "returned" /\ sdk # Return(k) => done[k] = 1
      /\ used[k] \in {"started", "returned"} /\ sdk # Call(k) =>
           k \in inFlight \/ done[k] = 1
      /\ sdk = Call(k) => used[k] = "started"
      /\ sdk = Return(k) => used[k] = "returned"
  BY DEF ToolTold
<1>4. CASE stopped'
  BY <1>1, <1>4 DEF ToolTold
<1>5. CASE ~stopped' /\ sdk' = sdk
  BY <1>1, <1>3, <1>5 DEF ToolTold
<1>6. CASE sdk' = <<>> /\ sdk # Call(k) /\ sdk # Return(k)
  BY <1>1, <1>2, <1>3, <1>6 DEF ToolTold
<1> QED
  BY <1>4, <1>5, <1>6

\* A tool's message puts it in flight.
LEMMA ToolStartTold ==
  ASSUME TypeOK, TextsTold, HandleToolStart, NEW k \in Tools, ToolTold(k)
  PROVE  ToolTold(k)'
<1> PICK j \in Tools : j = Head(sdk)[2]
  BY HeadType DEF HandleToolStart, Handle, TypeOK
<1>1. /\ NextIs("tool") /\ sdk' = Tail(sdk) /\ ~stopped /\ ~stopped'
      /\ inFlight' = inFlight \cup {j} /\ done' = done /\ used' = used
  BY DEF HandleToolStart, Handle, NextIs, sessionVars, claudeVars
<1>2. AnswerFits
  BY <1>1 DEF TextsTold
<1>3. sdk = Call(j) /\ sdk' = <<>>
  BY <1>1, <1>2, ToolHead, NextMessage DEF NextIs, OtherTypes
<1>4. /\ sdk' # Call(k) /\ sdk' # Return(k) /\ sdk # Return(k)
      /\ sdk = Call(k) <=> k = j
  <2>1. Call(j) = Call(k) <=> j = k
    BY ToolMessages, Zenon
  <2> QED
    BY <1>3, <2>1, ToolMessages
<1>5. CASE k = j
  <2>1. done[k] = 0 /\ used[k] = "started"
    BY <1>1, <1>4, <1>5 DEF ToolTold
  <2> QED
    BY <1>1, <1>4, <1>5, <2>1 DEF ToolTold
<1>6. CASE k # j
  BY <1>1, <1>4, <1>6 DEF ToolTold
<1> QED
  BY <1>5, <1>6

\* Its result completes it, unless a turn has.
LEMMA ToolResultTold ==
  ASSUME TypeOK, TextsTold, HandleToolResult, NEW k \in Tools, ToolTold(k)
  PROVE  ToolTold(k)'
<1> PICK j \in Tools : j = Head(sdk)[2]
  BY HeadType DEF HandleToolResult, Handle, TypeOK
<1>1. /\ NextIs("result of tool") /\ sdk' = Tail(sdk) /\ ~stopped /\ ~stopped'
      /\ inFlight' = inFlight \ {j} /\ used' = used
      /\ done' = IF j \in inFlight THEN [done EXCEPT ![j] = @ + 1] ELSE done
  BY DEF HandleToolResult, Handle, NextIs, sessionVars, claudeVars
<1>2. AnswerFits
  BY <1>1 DEF TextsTold
<1>3. sdk = Return(j) /\ sdk' = <<>>
  BY <1>1, <1>2, ToolHead, NextMessage DEF NextIs, OtherTypes
<1>4. /\ sdk' # Call(k) /\ sdk' # Return(k) /\ sdk # Call(k)
      /\ sdk = Return(k) <=> k = j
  <2>1. (Return(j) = Return(k) <=> j = k) /\ Call(k) # Return(j)
    BY ToolMessages, Zenon
  <2> QED
    BY <1>3, <2>1, ToolMessages
<1>5. done \in [Tools -> Nat]
  BY DEF TypeOK, ItemsTyped
<1>6. CASE k = j
  <2>1. used[k] = "returned" /\ (k \in inFlight \/ done[k] = 1) /\ (k \in inFlight => done[k] = 0)
    BY <1>1, <1>4, <1>6 DEF ToolTold
  <2>2. k \notin inFlight'
    BY <1>1, <1>6
  <2>3. done'[k] = 1
    <3>1. CASE j \in inFlight
      <4>1. done' = [done EXCEPT ![j] = @ + 1]
        BY <1>1, <3>1
      <4> QED
        BY <1>5, <1>6, <2>1, <3>1, <4>1
    <3>2. CASE j \notin inFlight
      BY <1>1, <1>6, <2>1, <3>2
    <3> QED
      BY <3>1, <3>2
  <2> QED
    <3>1. used'[k] = "returned"
      BY <1>1, <2>1
    <3> QED
      BY <1>4, <2>2, <2>3, <3>1 DEF ToolTold
<1>7. CASE k # j
  <2>1. done'[k] = done[k] /\ (k \in inFlight' <=> k \in inFlight)
    BY <1>1, <1>5, <1>7
  <2> QED
    BY <1>1, <1>4, <1>7, <2>1 DEF ToolTold
<1> QED
  BY <1>6, <1>7

\* A tool is used, or returns, while the stream has handled everything.
LEMMA ToolSentTold ==
  ASSUME TypeOK, NEW j \in Tools, UseTool(j) \/ ReturnTool(j), NEW k \in Tools, ToolTold(k)
  PROVE  ToolTold(k)'
<1>1. /\ sdk = <<>> /\ UNCHANGED <<inFlight, done, stopped>>
      /\ \/ /\ used[j] = "no" /\ used' = [used EXCEPT ![j] = "started"] /\ sdk' = Call(j)
         \/ /\ used[j] = "started" /\ used' = [used EXCEPT ![j] = "returned"] /\ sdk' = Return(j)
  BY DEF UseTool, ReturnTool, Sends, sessionVars, threadVars, Call, Return
<1>2. used \in [Tools -> {"no", "started", "returned", "given up"}]
  BY DEF TypeOK, ClaudeTyped
<1>3. sdk # Call(k) /\ sdk # Return(k)
  BY <1>1, ToolMessages
<1>4. CASE k = j
  <2>1. CASE used[j] = "no" /\ used'[k] = "started" /\ sdk' = Call(k)
    <3>1. sdk' # Return(k)
      BY <2>1, ToolMessages
    <3> QED
      BY <1>1, <1>3, <1>4, <2>1, <3>1 DEF ToolTold
  <2>2. CASE used[j] = "started" /\ used'[k] = "returned" /\ sdk' = Return(k)
    <3>1. sdk' # Call(k)
      BY <2>2, ToolMessages
    <3> QED
      BY <1>1, <1>3, <1>4, <2>2, <3>1 DEF ToolTold
  <2> QED
    BY <1>1, <1>2, <1>4, <2>1, <2>2
<1>5. CASE k # j
  <2>1. used'[k] = used[k]
    BY <1>1, <1>2, <1>5
  <2>2. sdk' # Call(k) /\ sdk' # Return(k)
    <3>1. Call(j) # Call(k) /\ Call(j) # Return(k) /\ Return(j) # Call(k) /\ Return(j) # Return(k)
      BY <1>5, ToolMessages, Zenon
    <3> QED
      BY <1>1, <3>1
  <2> QED
    BY <1>1, <1>3, <2>1, <2>2 DEF ToolTold
<1> QED
  BY <1>4, <1>5

\* A prompt is finished: what did not return is given up.
LEMMA FinishedToolTold ==
  ASSUME TypeOK, FinishPrompt, NEW k \in Tools, ToolTold(k)
  PROVE  ToolTold(k)'
<1>1. /\ sdk = <<>> /\ UNCHANGED <<inFlight, done, stopped>>
      /\ \E status \in {"completed", "failed"} : sdk' = <<<<"result", status>>>>
  BY DEF FinishPrompt, Sends, sessionVars, threadVars
<1>2. used'[k] = IF used[k] = "started" THEN "given up" ELSE used[k]
  BY DEF FinishPrompt
<1>3. sdk # Call(k) /\ sdk # Return(k)
  BY <1>1, ToolMessages
<1>4. sdk' # Call(k) /\ sdk' # Return(k)
  <2>1. PICK m : sdk' = <<m>> /\ m[1] = "result"
    BY <1>1
  <2>2. \A x : <<m>> = <<x>> => m = x
    OBVIOUS
  <2>3. m # <<"tool", k>> /\ m # <<"result of tool", k>>
    <3>1. <<"tool", k>>[1] = "tool" /\ <<"result of tool", k>>[1] = "result of tool"
      OBVIOUS
    <3> QED
      BY <2>1, <3>1, Zenon
  <2> QED
    BY <2>1, <2>2, <2>3 DEF Call, Return
<1> QED
  BY <1>1, <1>2, <1>3, <1>4 DEF ToolTold

\* A message that is not about a tool leaves the tools alone.
LEMMA TextHandledTold ==
  ASSUME TypeOK, TextsTold, ~stopped, sdk # <<>>, sdk' = Tail(sdk),
         UNCHANGED <<stopped, inFlight, done, used>>,
         Head(sdk)[1] \in {"start", "delta", "stop", "assistant"}, NEW k \in Tools, ToolTold(k)
  PROVE  ToolTold(k)'
<1>1. AnswerFits
  BY DEF TextsTold
<1>2. Tail(sdk) \in AnswerRests(texts)
  BY <1>1, NextMessage DEF NextIs
<1>3. sdk' # Call(k) /\ sdk' # Return(k)
  <2>1. CASE sdk' = <<>>
    BY <2>1, ToolMessages
  <2>2. CASE sdk' # <<>>
    <3>1. Head(sdk') \in {Start, Delta(texts), Stop, Assistant(texts)}
      BY <1>2, <2>2, AnswerMessage
    <3>2. PICK m : m = Head(sdk')
      OBVIOUS
    <3>3. m[1] \in {"start", "delta", "stop", "assistant"}
      <4>1. \A x \in {Start, Delta(texts), Stop, Assistant(texts)} :
              x[1] \in {"start", "delta", "stop", "assistant"}
        BY FourMessages
      <4> QED
        BY <3>1, <3>2, <4>1, Zenon
    <3> QED
      BY <3>2, <3>3, ToolMessages
  <2> QED
    BY <2>1, <2>2
<1>4. sdk # Call(k) /\ sdk # Return(k)
  BY ToolMessages
<1> QED
  BY <1>3, <1>4 DEF ToolTold

-----------------------------------------------------------------------------
(* Every step *)

LEMMA ToldFirst == Init => ToldInvariant
<1> SUFFICES ASSUME Init
             PROVE  ToldInvariant
  OBVIOUS
<1>1. \A m : ~Has(<<>>, m)
  BY DEF Has
<1>2. AnswerFits
  BY <1>1 DEF Init, AnswerFits, AnswerRests
<1>3. TextsTold
  BY <1>2 DEF Init, TextsTold
<1>4. ASSUME NEW k \in Tools
      PROVE  ToolTold(k)
  <2>1. Call(k) # <<>> /\ Return(k) # <<>>
    BY ToolMessages
  <2> QED
    BY <2>1 DEF Init, ToolTold
<1> QED
  BY <1>3, <1>4 DEF ToldInvariant

\* A caller begins or goes on with sendTurn.
LEMMA SendingTold ==
  ASSUME TypeOK, ToldInvariant, SendTurn \/ ModeSet
  PROVE  ToldInvariant'
<1> USE DEF turnVars, requestVars, sessionVars, claudeVars, threadVars, historyVars
<1>1. TextsTold /\ \A k \in Tools : ToolTold(k)
  BY DEF ToldInvariant
<1>2. CASE SendTurn /\ turn # None
  <2>1. /\ ~stopped /\ CompleteTurn(active) /\ excused' = excused \cup Cut
        /\ UNCHANGED <<sdk, texts, used, stopped>>
    BY <1>2 DEF SendTurn
  <2>2. turn' = None /\ shown' = shown
    BY <1>1, <2>1, CompletedTexts
  <2>3. TextsTold'
    BY <1>1, <2>1, <2>2, CutTexts
  <2>4. \A k \in Tools : ToolTold(k)'
    BY <1>1, <2>1, CompletedToolTold
  <2> QED
    BY <2>3, <2>4 DEF ToldInvariant
<1>3. CASE SendTurn /\ turn = None
  <2>1. /\ ~stopped /\ excused' = excused \cup Cut /\ turn' = None
        /\ UNCHANGED <<sdk, texts, shown, used, stopped, done, inFlight>>
    BY <1>3 DEF SendTurn
  <2>2. TextsTold'
    BY <1>1, <2>1, CutTexts
  <2>3. \A k \in Tools : ToolTold(k)'
    BY <1>1, <2>1, UnchangedTools
  <2> QED
    BY <2>2, <2>3 DEF ToldInvariant
<1>4. CASE ModeSet
  <2>1. /\ excused' = excused \cup Cut /\ turn' = NewTurn
        /\ UNCHANGED <<sdk, texts, shown, used, stopped, done, inFlight>>
    BY <1>4 DEF ModeSet
  <2>2. TextsTold'
    <3>1. turn'.order = <<>> /\ turn'.open = 0
      BY <2>1 DEF NewTurn
    <3>2. CASE stopped
      BY <1>1, <2>1, <3>2, StoppedTexts
    <3>3. CASE ~stopped
      BY <1>1, <2>1, <3>1, <3>3, CutTexts
    <3> QED
      BY <3>2, <3>3
  <2>3. \A k \in Tools : ToolTold(k)'
    BY <1>1, <2>1, UnchangedTools
  <2> QED
    BY <2>2, <2>3 DEF ToldInvariant
<1> QED
  BY <1>2, <1>3, <1>4

\* The session stops, by a call or with the stream.
LEMMA StopsTold ==
  ASSUME TypeOK, ToldInvariant, ~stopped, NEW a, Stops(a), UNCHANGED <<texts, used, excused>>
  PROVE  ToldInvariant'
<1>1. TextsTold /\ \A k \in Tools : ToolTold(k)
  BY DEF ToldInvariant
<1>2. stopped'
  BY DEF Stops
<1>3. CASE turn = None
  <2>1. UNCHANGED <<shown, done>>
    BY <1>3 DEF Stops
  <2>2. TextsTold'
    BY <1>1, <1>2, <2>1, StoppedTexts
  <2>3. \A k \in Tools : ToolTold(k)'
    BY <1>1, <1>2, <2>1, UnchangedTools
  <2> QED
    BY <2>2, <2>3 DEF ToldInvariant
<1>4. CASE turn # None
  <2>1. CompleteTurn(a)
    BY <1>4 DEF Stops
  <2>2. shown' = shown
    BY <1>1, <2>1, CompletedTexts
  <2>3. TextsTold'
    BY <1>1, <1>2, <2>2, StoppedTexts
  <2>4. \A k \in Tools : ToolTold(k)'
    BY <1>1, <1>2, <2>1, CompletedToolTold
  <2> QED
    BY <2>3, <2>4 DEF ToldInvariant
<1> QED
  BY <1>3, <1>4

\* The stream handles a message.
LEMMA HandledTold ==
  ASSUME TypeOK, ToldInvariant,
         \/ HandleBlockStart \/ HandleDelta \/ HandleBlockStop \/ HandleAssistant
         \/ HandleToolStart \/ HandleToolResult \/ HandleResult
  PROVE  ToldInvariant'
<1> USE DEF turnVars, requestVars, sessionVars, claudeVars, threadVars, historyVars
<1>1. TextsTold /\ \A k \in Tools : ToolTold(k)
  BY DEF ToldInvariant
<1>2. CASE HandleBlockStart \/ HandleDelta \/ HandleBlockStop \/ HandleAssistant
  <2>1. TextsTold'
    BY <1>1, <1>2, BlockStartTexts, DeltaTexts, BlockStopTexts, AssistantTexts
  <2>2. /\ ~stopped /\ sdk # <<>> /\ sdk' = Tail(sdk) /\ UNCHANGED <<stopped, inFlight, done, used>>
        /\ Head(sdk)[1] \in {"start", "delta", "stop", "assistant"}
    BY <1>2 DEF HandleBlockStart, HandleDelta, HandleBlockStop, HandleAssistant, Handle
  <2>3. \A k \in Tools : ToolTold(k)'
    BY <1>1, <2>2, TextHandledTold
  <2> QED
    BY <2>1, <2>3 DEF ToldInvariant
<1>3. CASE HandleToolStart \/ HandleToolResult
  <2>1. /\ ~stopped /\ sdk # <<>> /\ sdk' = Tail(sdk) /\ UNCHANGED <<texts, shown, stopped, excused, turn>>
        /\ Head(sdk)[1] \in OtherTypes
    BY <1>3 DEF HandleToolStart, HandleToolResult, Handle, OtherTypes
  <2>2. TextsTold'
    BY <1>1, <2>1, OtherMessageTexts
  <2>3. \A k \in Tools : ToolTold(k)'
    BY <1>1, <1>3, ToolStartTold, ToolResultTold
  <2> QED
    BY <2>2, <2>3 DEF ToldInvariant
<1>4. CASE HandleResult
  <2>1. PICK a : CompleteTurn(a)
    BY <1>4 DEF HandleResult
  <2>2. /\ ~stopped /\ sdk # <<>> /\ sdk' = Tail(sdk) /\ UNCHANGED <<texts, stopped, excused, used>>
        /\ Head(sdk)[1] = "result"
    BY <1>4 DEF HandleResult, Handle
  <2>3. turn' = None /\ shown' = shown
    BY <1>1, <2>1, <2>2, CompletedTexts
  <2>4. TextsTold'
    BY <1>1, <2>2, <2>3, OtherMessageTexts DEF OtherTypes
  <2>5. sdk' = <<>>
    BY <1>1, <2>2, NextMessage DEF TextsTold, OtherTypes
  <2>6. \A k \in Tools : ToolTold(k)'
    <3> TAKE k \in Tools
    <3>1. sdk # Call(k) /\ sdk # Return(k)
      BY <2>2, ToolMessages
    <3> QED
      BY <1>1, <2>1, <2>2, <2>5, <3>1, CompletedToolTold
  <2> QED
    BY <2>4, <2>6 DEF ToldInvariant
<1> QED
  BY <1>2, <1>3, <1>4

\* Claude says or does something.
LEMMA ClaudeTold ==
  ASSUME TypeOK, ToldInvariant, Claude
  PROVE  ToldInvariant'
<1> USE DEF turnVars, requestVars, sessionVars, claudeVars, threadVars, historyVars
<1>1. TextsTold /\ \A k \in Tools : ToolTold(k)
  BY DEF ToldInvariant
<1>2. CASE TakePrompt \/ EndStream
  <2>1. UNCHANGED <<turn, sdk, texts, shown, stopped, excused, used, done, inFlight>>
    BY <1>2 DEF TakePrompt, EndStream
  <2>2. TextsTold'
    BY <1>1, <2>1, UnchangedTexts
  <2>3. \A k \in Tools : ToolTold(k)'
    BY <1>1, <2>1, UnchangedTools
  <2> QED
    BY <2>2, <2>3 DEF ToldInvariant
<1>3. CASE Answer
  <2>1. TextsTold'
    BY <1>1, <1>3, AnswerTexts
  <2>2. /\ sdk = <<>> /\ UNCHANGED <<used, done, inFlight, stopped>>
        /\ Head(sdk')[1] \in {"start", "assistant"}
    BY <1>3 DEF Answer, Sends
  <2>3. \A k \in Tools : ToolTold(k)'
    <3> TAKE k \in Tools
    <3>1. sdk # Call(k) /\ sdk # Return(k) /\ sdk' # Call(k) /\ sdk' # Return(k)
      BY <2>2, ToolMessages
    <3> QED
      BY <1>1, <2>2, <3>1 DEF ToolTold
  <2> QED
    BY <2>1, <2>3 DEF ToldInvariant
<1>4. CASE \E j \in Tools : UseTool(j) \/ ReturnTool(j)
  <2>1. PICK j \in Tools : UseTool(j) \/ ReturnTool(j)
    BY <1>4
  <2>2. PICK m : m[1] \in OtherTypes /\ Sends(<<m>>) /\ texts' = texts
    BY <2>1 DEF UseTool, ReturnTool, OtherTypes
  <2>3. TextsTold'
    BY <1>1, <2>2, OtherSentTexts
  <2>4. \A k \in Tools : ToolTold(k)'
    BY <1>1, <2>1, ToolSentTold
  <2> QED
    BY <2>3, <2>4 DEF ToldInvariant
<1>5. CASE FinishPrompt
  <2>1. PICK m : m[1] \in OtherTypes /\ Sends(<<m>>) /\ texts' = texts
    BY <1>5 DEF FinishPrompt, OtherTypes
  <2>2. TextsTold'
    BY <1>1, <2>1, OtherSentTexts
  <2>3. \A k \in Tools : ToolTold(k)'
    BY <1>1, <1>5, FinishedToolTold
  <2> QED
    BY <2>2, <2>3 DEF ToldInvariant
<1> QED
  BY <1>2, <1>3, <1>4, <1>5 DEF Claude

\* Texts and tools are told once, whatever turns, stops and interrupts come in between.
THEOREM ToldInvariantHolds == Spec => []ToldInvariant
<1>1. Init => ToldInvariant
  BY ToldFirst
<1>2. TypeOK /\ ToldInvariant /\ [Next]_vars => ToldInvariant'
  <2> SUFFICES ASSUME TypeOK, ToldInvariant, [Next]_vars
               PROVE  ToldInvariant'
    OBVIOUS
  <2> USE DEF turnVars, requestVars, sessionVars, claudeVars, threadVars, historyVars
  <2>1. ASSUME UNCHANGED <<turn, sdk, texts, shown, stopped, excused, used, done, inFlight>>
        PROVE  ToldInvariant'
    BY <2>1, UnchangedTexts, UnchangedTools DEF ToldInvariant
  <2>2. CASE ModeFails \/ OfferPrompt \/ InterruptTurn
    BY <2>1, <2>2 DEF ModeFails, OfferPrompt, InterruptTurn
  <2>3. ASSUME NEW k \in Tools, OpenRequest(k) \/ RespondToRequest(k) \/ OnAbort(k) \/ Resolve(k)
        PROVE  ToldInvariant'
    BY <2>1, <2>3 DEF OpenRequest, RespondToRequest, OnAbort, Resolve
  <2>4. CASE UNCHANGED vars
    BY <2>1, <2>4 DEF vars
  <2>5. CASE StopSession
    BY <2>5, StopsTold DEF StopSession
  <2>6. CASE HandleStreamExit
    <3>1. PICK a : Stops(a)
      BY <2>6 DEF HandleStreamExit
    <3> QED
      BY <2>6, <3>1, StopsTold DEF HandleStreamExit
  <2>7. CASE CloseQuery
    <3>1. stopped' /\ UNCHANGED <<texts, shown, excused, done>>
      BY <2>7 DEF CloseQuery
    <3> QED
      BY <3>1, StoppedTexts, UnchangedTools DEF ToldInvariant
  <2>8. CASE SendTurn \/ ModeSet
    BY <2>8, SendingTold
  <2>9. CASE StreamFiber /\ ~HandleStreamExit
    BY <2>9, HandledTold DEF StreamFiber
  <2>10. CASE Claude
    BY <2>10, ClaudeTold
  <2> QED
    BY <2>2, <2>3, <2>4, <2>5, <2>6, <2>7, <2>8, <2>9, <2>10 DEF Next, StreamFiber
<1> QED
  BY <1>1, <1>2, ClaudeTypes, PTL DEF Spec

\* What Claude says and what its tools do reaches the thread once, of any number of
\* texts, tools and turns.
THEOREM ThreadIsToldOnce == Spec => []EverythingIsToldOnce
<1>1. TypeOK /\ ToldInvariant => EverythingIsToldOnce
  <2> SUFFICES ASSUME TypeOK, ToldInvariant
               PROVE  EverythingIsToldOnce
    OBVIOUS
  <2>1. ASSUME NEW n \in (1..texts) \ excused
        PROVE  shown[n] <= 1 /\ (Handled => shown[n] = 1)
    <3>1. shown[n] <= 1
      BY DEF ToldInvariant, TextsTold
    <3>2. ASSUME Handled
          PROVE  shown[n] = 1
      <4>1. AnswerFits /\ ~Has(sdk, Assistant(n))
        BY <3>2 DEF Handled, ToldInvariant, TextsTold, Has
      <4> QED
        BY <4>1 DEF AnswerFits
    <3> QED
      BY <3>1, <3>2
  <2>2. ASSUME NEW k \in Tools
        PROVE  done[k] <= 1 /\ (used[k] = "returned" /\ Handled => done[k] = 1)
    <3>1. <<>> # Return(k)
      BY ToolMessages
    <3> QED
      BY <3>1 DEF Handled, ToldInvariant, ToolTold
  <2> QED
    BY <2>1, <2>2 DEF EverythingIsToldOnce
<1> QED
  BY <1>1, ToldInvariantHolds, ClaudeTypes, PTL
=============================================================================
