----------------------- MODULE TurnContinuationsProofs -----------------------
(***************************************************************************)
(* Proofs about TurnContinuations, for any number of turns, guesses and    *)
(* pieces and any length of the memory.                                    *)
(*                                                                         *)
(* First what the memory remembers, as facts about sequences; then the     *)
(* type invariant; then ToldInv, that whoever was answered was told what   *)
(* is known, from which a request is seen to continue its own cut; then    *)
(* KeptInv, that a turn that is over is known unless it aged out, from     *)
(* which nobody waits on one.                                              *)
(***************************************************************************)
EXTENDS TurnContinuations, TLAPS

-----------------------------------------------------------------------------
(* How many of the oldest elements Newest drops. *)
Dropped(s) == IF Len(s) > Remembered THEN Len(s) - Remembered ELSE 0

LEMMA NewestIs ==
    ASSUME NEW S, NEW s \in Seq(S)
    PROVE  /\ Newest(s) \in Seq(S)
           /\ Dropped(s) \in 0 .. Len(s)
           /\ Len(Newest(s)) = Len(s) - Dropped(s)
           /\ Len(Newest(s)) <= Remembered
           /\ \A i \in 1 .. Len(Newest(s)) : Newest(s)[i] = s[i + Dropped(s)]
BY BoundsAssumption DEF Newest, Dropped

(* The latest utterance of a turn is the only one, so it is its text. *)
LEMMA LatestIsText ==
    ASSUME NEW s \in Seq(Pieces), NEW t \in Turns, NEW i, IsLatest(s, t, i)
    PROVE  TextIn(s, t) = s[i] /\ s[i] \in Pieces /\ s[i] # NoText
<1>1. \A j : IsLatest(s, t, j) => j = i
  BY DEF IsLatest
<1>2. TextIn(s, t) = s[i]
  <2>1. i \in DOMAIN s
    BY DEF IsLatest
  <2>2. (CHOOSE j \in DOMAIN s : IsLatest(s, t, j)) = i
    BY <1>1, <2>1
  <2> QED  BY <2>1, <2>2 DEF TextIn
<1>3. s[i] \in Pieces
  BY DEF IsLatest
<1>4. s[i] # NoText
  BY <1>3, BoundsAssumption DEF Pieces, Turns, NoText
<1> QED  BY <1>2, <1>3, <1>4

LEMMA TextHasPlace ==
    ASSUME NEW s \in Seq(Pieces), NEW t \in Turns, TextIn(s, t) # NoText
    PROVE  \E i : IsLatest(s, t, i)
BY DEF TextIn

LEMMA TextIsTyped ==
    ASSUME NEW s \in Seq(Pieces), NEW t \in Turns
    PROVE  TextIn(s, t) \in Pieces \cup {NoText}
BY LatestIsText, TextHasPlace

LEMMA NothingAgedOut ==
    ASSUME NEW s \in Seq(Pieces), NEW t \in Turns, NEW n \in Nat \ {0},
           NEW p \in Turns, p # t, s \o PiecesOf(t, n) \in Seq(Pieces)
    PROVE  LET u == Newest(s \o PiecesOf(t, n)) IN
           /\ TextIn(u, p) \in {TextIn(s, p), NoText}
           /\ Len(u) # Remembered => TextIn(u, p) = TextIn(s, p)
<1> DEFINE v == s \o PiecesOf(t, n)
           u == Newest(v)
           d == Dropped(v)
<1>1. /\ u \in Seq(Pieces) /\ d \in 0 .. Len(v) /\ Len(u) = Len(v) - d
      /\ \A i \in 1 .. Len(u) : u[i] = v[i + d]
  BY NewestIs
<1>2. /\ Len(v) = Len(s) + n
      /\ \A i \in 1 .. Len(s) : v[i] = s[i]
      /\ \A i \in 1 .. Len(v) : i > Len(s) => v[i][1] = t
  BY DEF PiecesOf
<1> HIDE DEF u, v, d
<1>3. ASSUME NEW i, IsLatest(u, p, i)
      PROVE  IsLatest(s, p, i + d) /\ u[i] = s[i + d]
  <2>1. i \in 1 .. Len(u) /\ u[i][1] = p
    BY <1>1, <1>3 DEF IsLatest
  <2>2. i + d \in 1 .. Len(s)
    BY <1>1, <1>2, <2>1
  <2>3. \A j \in 1 .. Len(s) : j > i + d => s[j][1] # p
    <3> SUFFICES ASSUME NEW j \in 1 .. Len(s), j > i + d PROVE s[j][1] # p
      OBVIOUS
    <3>1. j - d \in 1 .. Len(u) /\ j - d > i
      BY <1>1, <1>2, <2>1
    <3>2. u[j - d][1] # p
      BY <1>1, <1>3, <3>1 DEF IsLatest
    <3>3. u[j - d] = v[(j - d) + d] /\ (j - d) + d = j
      BY <1>1, <3>1
    <3> QED  BY <1>2, <3>2, <3>3
  <2>4. u[i] = s[i + d]
    BY <1>1, <1>2, <2>1, <2>2
  <2> QED  BY <2>1, <2>2, <2>3, <2>4 DEF IsLatest
<1>4. ASSUME Len(u) # Remembered, NEW i, IsLatest(s, p, i)
      PROVE  IsLatest(u, p, i) /\ u[i] = s[i]
  <2>1. d = 0
    BY <1>1, <1>4, BoundsAssumption DEF d, Dropped
  <2>2. i \in 1 .. Len(s)
    BY <1>4 DEF IsLatest
  <2>3. \A j \in 1 .. Len(u) : u[j] = v[j]
    BY <1>1, <2>1
  <2>4. i \in 1 .. Len(u) /\ u[i] = s[i] /\ u[i][1] = p
    BY <1>1, <1>2, <1>4, <2>1, <2>2, <2>3 DEF IsLatest
  <2>5. ASSUME NEW j \in 1 .. Len(u), j > i PROVE u[j][1] # p
    <3>1. CASE j <= Len(s)
      <4>1. j \in DOMAIN s
        BY <3>1
      <4> QED  BY <1>2, <1>4, <2>3, <2>5, <3>1, <4>1 DEF IsLatest
    <3>2. CASE j > Len(s)
      BY <1>1, <1>2, <2>1, <2>3, <3>2
    <3> QED  BY <3>1, <3>2
  <2> QED  BY <1>1, <2>4, <2>5 DEF IsLatest
<1>5. TextIn(u, p) \in {TextIn(s, p), NoText}
  <2>1. CASE TextIn(u, p) # NoText
    <3>1. PICK i : IsLatest(u, p, i)
      BY <1>1, <2>1, TextHasPlace
    <3> QED  BY <1>1, <1>3, <3>1, LatestIsText
  <2> QED  BY <2>1
<1>6. Len(u) # Remembered => TextIn(u, p) = TextIn(s, p)
  <2> SUFFICES ASSUME Len(u) # Remembered PROVE TextIn(u, p) = TextIn(s, p)
    OBVIOUS
  <2>1. CASE TextIn(s, p) # NoText
    <3>1. PICK i : IsLatest(s, p, i)
      BY <2>1, TextHasPlace
    <3> QED  BY <1>1, <1>4, <3>1, LatestIsText
  <2> QED  BY <1>5, <2>1
<1> QED  BY <1>5, <1>6 DEF u, v

(* remember(): the turn's text is its last piece; another turn's is what it *)
(* was, or aged out of a full memory.                                       *)
LEMMA RememberEffect ==
    ASSUME recent \in Seq(Pieces), NEW t \in Turns, NEW n \in Nat \ {0},
           Remember(t, n)
    PROVE  /\ recent' \in Seq(Pieces)
           /\ Len(recent') <= Remembered
           /\ Len(recent) = Remembered => Len(recent') = Remembered
           /\ TextNow(t)' = <<t, n>>
           /\ \A p \in Turns \ {t} :
                 /\ TextNow(p)' \in {TextNow(p), NoText}
                 /\ Len(recent') # Remembered => TextNow(p)' = TextNow(p)
<1> DEFINE v == recent \o PiecesOf(t, n)
<1>0. recent' = Newest(v)
  BY DEF Remember
<1>1. /\ v \in Seq(Pieces) /\ Len(v) = Len(recent) + n
      /\ v[Len(v)] = <<t, n>>
  <2>1. PiecesOf(t, n) \in Seq(Pieces) /\ Len(PiecesOf(t, n)) = n
    BY DEF PiecesOf, Pieces
  <2>2. PiecesOf(t, n)[n] = <<t, n>>
    BY DEF PiecesOf
  <2> QED  BY <2>1, <2>2
<1>2. /\ recent' \in Seq(Pieces) /\ Len(recent') <= Remembered
      /\ Len(recent') = Len(v) - Dropped(v)
      /\ \A i \in 1 .. Len(recent') : recent'[i] = v[i + Dropped(v)]
      /\ Dropped(v) \in 0 .. Len(v)
  BY <1>0, <1>1, NewestIs
<1>3. Len(recent) = Remembered => Len(recent') = Remembered
  BY <1>1, <1>2, BoundsAssumption DEF Dropped
<1>4. Len(recent') >= 1
  BY <1>1, <1>2, BoundsAssumption DEF Dropped
<1>5. TextNow(t)' = <<t, n>>
  <2>1. recent'[Len(recent')] = <<t, n>>
    BY SMTT(30), <1>1, <1>2, <1>4
  <2>2. IsLatest(recent', t, Len(recent'))
    BY <1>2, <1>4, <2>1 DEF IsLatest
  <2> QED  BY <1>2, <2>1, <2>2, LatestIsText DEF TextNow
<1>6. \A p \in Turns \ {t} :
         /\ TextNow(p)' \in {TextNow(p), NoText}
         /\ Len(recent') # Remembered => TextNow(p)' = TextNow(p)
  BY <1>0, <1>1, NothingAgedOut DEF TextNow
<1> QED  BY <1>2, <1>3, <1>5, <1>6

-----------------------------------------------------------------------------
(* The type invariant. *)

LEMMA AskParts ==
    /\ \A a \in Asks : a[1] \in Turns /\ a[2] \in 0 .. MaxGuesses[a[1]]
    /\ \A t \in Turns : \A k \in 0 .. MaxGuesses[t] : <<t, k>> \in Asks
    /\ \A t \in Turns : FinalAsk(t) \in Asks
<1>1. \A a \in Asks : a[1] \in Turns /\ a[2] \in 0 .. MaxGuesses[a[1]]
  <2> SUFFICES ASSUME NEW a \in Asks
               PROVE  a[1] \in Turns /\ a[2] \in 0 .. MaxGuesses[a[1]]
    OBVIOUS
  <2>1. PICK t \in Turns : a \in {t} \X (0 .. MaxGuesses[t])
    BY DEF Asks
  <2> QED  BY <2>1
<1>2. \A t \in Turns : \A k \in 0 .. MaxGuesses[t] : <<t, k>> \in Asks
  BY DEF Asks
<1>3. \A t \in Turns : FinalAsk(t) \in Asks
  BY <1>2, BoundsAssumption DEF FinalAsk, Turns
<1> QED  BY <1>1, <1>2, <1>3

LEMMA PredecessorIsATurn ==
    ASSUME NEW a \in Asks, Continues(a[1])
    PROVE  About(a) \in Turns /\ About(a) < a[1]
BY SMTT(30), AskParts, BoundsAssumption DEF About, Continues, Turns

ContextType ==
    /\ recent \in Seq(Pieces) /\ Len(recent) <= Remembered
    /\ silent \in Seq(Turns) /\ Len(silent) <= Remembered
    /\ waiters \subseteq Asks
    /\ mail \subseteq Turns
    /\ answer \in [Asks -> Pieces \cup {NoText, Unanswered}]

LEMMA TextNowTyped ==
    ASSUME ContextType, NEW t \in Turns
    PROVE  TextNow(t) \in Pieces \cup {NoText}
BY TextIsTyped DEF ContextType, TextNow

LEMMA TellTyped ==
    ASSUME ContextType, NEW t, NEW text \in Pieces \cup {NoText}, Tell(t, text)
    PROVE  /\ waiters' \subseteq Asks
           /\ answer' \in [Asks -> Pieces \cup {NoText, Unanswered}]
BY DEF ContextType, Tell

LEMMA RememberTyped ==
    ASSUME ContextType, NEW t \in Turns, NEW n \in Nat \ {0}, Remember(t, n)
    PROVE  ContextType'
<1>1. recent' \in Seq(Pieces) /\ Len(recent') <= Remembered
  BY RememberEffect DEF ContextType
<1> QED  BY <1>1 DEF ContextType, Remember

LEMMA AnswerWaitersTyped ==
    ASSUME ContextType, NEW t \in Turns, AnswerWaiters(t)
    PROVE  ContextType'
<1>1. <<t, 1>> \in Pieces
  BY DEF Pieces
<1> DEFINE text == IF TextNow(t) # NoText THEN TextNow(t) ELSE <<t, 1>>
<1>2. text \in Pieces \cup {NoText} /\ Tell(t, text)
  BY <1>1, TextNowTyped DEF AnswerWaiters
<1> HIDE DEF text
<1>3. /\ waiters' \subseteq Asks
      /\ answer' \in [Asks -> Pieces \cup {NoText, Unanswered}]
  BY <1>2, TellTyped
<1> QED  BY <1>3 DEF ContextType, AnswerWaiters

LEMMA ClosedTyped ==
    ASSUME ContextType, NEW t \in Turns, Closed(t)
    PROVE  ContextType'
<1>1. CASE TextNow(t) # NoText
  BY <1>1 DEF ContextType, Closed, contextVars
<1>2. CASE TextNow(t) = NoText
  <2>1. Tell(t, NoText)
    BY <1>2 DEF Closed
  <2>2. /\ waiters' \subseteq Asks
        /\ answer' \in [Asks -> Pieces \cup {NoText, Unanswered}]
    BY <2>1, TellTyped
  <2>3. Append(silent, t) \in Seq(Turns)
    BY DEF ContextType
  <2>4. silent' \in Seq(Turns) /\ Len(silent') <= Remembered
    BY <1>2, <2>3, NewestIs DEF Closed, ContextType
  <2> QED  BY <1>2, <2>2, <2>4 DEF ContextType, Closed
<1> QED  BY <1>1, <1>2

LEMMA ForgetTyped ==
    ASSUME ContextType, Forget
    PROVE  ContextType'
BY BoundsAssumption DEF ContextType, Forget

LEMMA SentTyped ==
    ASSUME request \in [Asks -> Requests], NEW a \in Asks,
           NEW text \in Pieces \cup {NoText}, Sent(a, text)
    PROVE  request' \in [Asks -> Requests]
BY DEF Sent, Request, Requests

LEMMA OverTyped ==
    ASSUME request \in [Asks -> Requests], NEW t, RequestsOver(t)
    PROVE  request' \in [Asks -> Requests]
BY DEF RequestsOver, NotAsked, Request, Requests

LEMMA AskForTyped ==
    ASSUME ContextType, request \in [Asks -> Requests], NEW a \in Asks, AskFor(a)
    PROVE  ContextType' /\ request' \in [Asks -> Requests]
<1>1. CASE Continues(a[1]) /\ ~IsSettled(About(a))
  BY <1>1 DEF AskFor, WaitFor, ContextType
<1>2. CASE ~(Continues(a[1]) /\ ~IsSettled(About(a)))
  <2> DEFINE text == IF Continues(a[1]) THEN TextNow(About(a)) ELSE NoText
  <2>1. text \in Pieces \cup {NoText}
    BY PredecessorIsATurn, TextNowTyped
  <2>2. Sent(a, text) /\ UNCHANGED contextVars
    BY <1>2 DEF AskFor
  <2> HIDE DEF text
  <2>3. request' \in [Asks -> Requests]
    BY <2>1, <2>2, SentTyped
  <2> QED  BY <2>2, <2>3 DEF ContextType, contextVars
<1> QED  BY <1>1, <1>2

TurnsType ==
    /\ opened \in 0 .. LastTurn
    /\ gone \in BOOLEAN
    /\ held \subseteq Turns
    /\ shape \in [Turns -> Shape]
    /\ stage \in [Turns -> Stages]
    /\ guess \in [Turns -> Nat] /\ \A t \in Turns : guess[t] <= MaxGuesses[t]
    /\ grown \subseteq Turns
    /\ said \in [Turns -> Nat]

LEMMA TypeParts ==
    TypeOK <=> ContextType /\ TurnsType /\ request \in [Asks -> Requests]
BY DEF TypeOK, ContextType, TurnsType

(* The steps of one turn, each of which a provider's answer starts. *)
LEMMA StepsTyped ==
    ASSUME TypeOK, NEW t \in Turns
    PROVE  /\ TextArrives(t) /\ UNCHANGED <<opened, gone, shape, guess, grown>> => TypeOK'
           /\ TextFails(t) /\ UNCHANGED <<opened, gone, shape, guess, grown>> => TypeOK'
           /\ CloseTurn(t) /\ UNCHANGED <<opened, gone, shape, guess, grown, said>> =>
                 ContextType' /\ TurnsType'
           /\ Abandon(t) /\ UNCHANGED <<opened, gone, shape, guess, grown, said>> =>
                 ContextType' /\ TurnsType'
<1>0. ContextType /\ TurnsType /\ request \in [Asks -> Requests]
  BY TypeParts
<1>1. ASSUME TextArrives(t), UNCHANGED <<opened, gone, shape, guess, grown>>
      PROVE  TypeOK'
  <2>1. PICK n \in 1 .. MaxPieces[t] :
           /\ said' = [said EXCEPT ![t] = n]
           /\ IF shape[t].translated THEN Remember(t, n) ELSE UNCHANGED contextVars
    BY <1>1 DEF TextArrives
  <2>2. n \in Nat \ {0}
    BY BoundsAssumption DEF Turns
  <2>3. ContextType'
    <3>1. CASE shape[t].translated
      BY <1>0, <2>1, <2>2, <3>1, RememberTyped
    <3>2. CASE ~shape[t].translated
      BY <1>0, <2>1, <3>2 DEF ContextType, contextVars
    <3> QED  BY <3>1, <3>2
  <2>4. TurnsType'
    BY <1>0, <1>1, <2>1, <2>2 DEF TurnsType, TextArrives, Stages
  <2>5. request' \in [Asks -> Requests]
    BY <1>0, <1>1, OverTyped DEF TextArrives
  <2> QED  BY <2>3, <2>4, <2>5, TypeParts DEF TypeOK, ContextType, TurnsType
<1>2. ASSUME CloseTurn(t), UNCHANGED <<opened, gone, shape, guess, grown, said>>
      PROVE  ContextType' /\ TurnsType'
  <2>1. ContextType'
    BY <1>0, <1>2, ClosedTyped DEF CloseTurn
  <2>2. TurnsType'
    BY <1>0, <1>2 DEF TurnsType, CloseTurn, Stages
  <2> QED  BY <2>1, <2>2
<1>3. ASSUME TextFails(t), UNCHANGED <<opened, gone, shape, guess, grown>>
      PROVE  TypeOK'
  <2>1. ContextType' /\ TurnsType'
    BY <1>2, <1>3 DEF TextFails
  <2>2. request' \in [Asks -> Requests]
    BY <1>0, <1>3, OverTyped DEF TextFails
  <2> QED  BY <2>1, <2>2 DEF TypeOK, ContextType, TurnsType
<1>4. ASSUME Abandon(t), UNCHANGED <<opened, gone, shape, guess, grown, said>>
      PROVE  ContextType' /\ TurnsType'
  BY <1>0, <1>4 DEF Abandon, ContextType, TurnsType, contextVars, Stages
<1> QED  BY <1>1, <1>2, <1>3, <1>4

LEMMA TypeInit == Init => TypeOK
<1> SUFFICES ASSUME Init PROVE TypeOK
  OBVIOUS
<1>1. ContextType
  BY BoundsAssumption DEF Init, ContextInit, ContextType
<1>2. TurnsType
  <2>1. opened \in 0 .. LastTurn
    BY BoundsAssumption DEF Init
  <2>2. guess \in [Turns -> Nat] /\ \A t \in Turns : guess[t] <= MaxGuesses[t]
    BY BoundsAssumption DEF Init, Turns
  <2>3. /\ shape \in [Turns -> Shape] /\ stage \in [Turns -> Stages]
        /\ said \in [Turns -> Nat]
    BY DEF Init, Shape, Stages
  <2>4. gone \in BOOLEAN /\ held \subseteq Turns /\ grown \subseteq Turns
    BY DEF Init
  <2> QED  BY <2>1, <2>2, <2>3, <2>4 DEF TurnsType
<1>3. request \in [Asks -> Requests]
  BY DEF Init, NotAsked, Request, Requests
<1> QED  BY <1>1, <1>2, <1>3, TypeParts

LEMMA TypeStep == TypeOK /\ [Next]_vars => TypeOK'
<1> SUFFICES ASSUME TypeOK, [Next]_vars PROVE TypeOK'
  OBVIOUS
<1>0. ContextType /\ TurnsType /\ request \in [Asks -> Requests]
  BY TypeParts
<1> USE <1>0
<1>p. ContextType' /\ TurnsType' /\ request' \in [Asks -> Requests] => TypeOK'
  BY DEF TypeOK, ContextType, TurnsType
<1>1. ASSUME NEW t \in Turns, AnswerWaiters(t), UNCHANGED turnVars PROVE TypeOK'
  BY <1>1, <1>p, AnswerWaitersTyped DEF turnVars, TurnsType
<1>2. ASSUME NEW a \in Asks, GoOn(a) PROVE TypeOK'
  <2>1. TurnsType'
    BY <1>2 DEF GoOn, TurnsType
  <2>2. ContextType' /\ answer[a] \in Pieces \cup {NoText}
    BY <1>2 DEF GoOn, TakeAnswer, ContextType
  <2>3. request' \in [Asks -> Requests]
    <3>1. CASE Sent(a, answer[a])
      BY <2>2, <3>1, SentTyped
    <3>2. CASE request' = [request EXCEPT ![a] = Refused]
      BY <3>2 DEF Refused, Request, Requests
    <3> QED  BY <1>2, <3>1, <3>2 DEF GoOn
  <2> QED  BY <1>p, <2>1, <2>2, <2>3
<1>3. CASE Open
  <2>1. ContextType' /\ request' \in [Asks -> Requests]
    BY <1>3 DEF Open, ContextType, contextVars
  <2>2. opened + 1 \in Turns
    BY <1>3, BoundsAssumption DEF Open, TurnsType, Turns
  <2>3. \A o \in Shapes[opened + 1] : o \in Shape
    BY <2>2, TurnsAssumption
  <2>4. TurnsType'
    BY <1>3, <2>2, <2>3 DEF Open, TurnsType, Stages, Turns
  <2> QED  BY <1>p, <2>1, <2>4
<1>4. ASSUME NEW t \in Turns, Grow(t) PROVE TypeOK'
  BY <1>4, <1>p DEF Grow, ContextType, TurnsType, contextVars
<1>5. ASSUME NEW t \in Turns, Speculate(t) PROVE TypeOK'
  <2>1. TurnsType'
    <3>1. MaxGuesses[t] \in Nat /\ guess[t] \in Nat /\ guess[t] < MaxGuesses[t]
      BY <1>5, BoundsAssumption DEF Speculate, TurnsType, Turns
    <3>2. guess' = [guess EXCEPT ![t] = guess[t] + 1]
      BY <1>5 DEF Speculate
    <3>3. /\ guess' \in [Turns -> Nat]
          /\ \A u \in Turns : guess'[u] <= MaxGuesses[u]
      BY <3>1, <3>2 DEF TurnsType
    <3> QED  BY <1>5, <3>3 DEF Speculate, TurnsType
  <2>2. <<t, guess[t] + 1>> \in Asks
    BY SMTT(30), <1>5, AskParts, BoundsAssumption DEF Speculate, TurnsType, Turns
  <2>3. ContextType' /\ request' \in [Asks -> Requests]
    BY <1>5, <2>2, AskForTyped DEF Speculate
  <2> QED  BY <1>p, <2>1, <2>3
<1>6. ASSUME NEW t \in Turns, End(t) PROVE TypeOK'
  <2>1. TurnsType'
    BY <1>6 DEF End, TurnsType, Stages
  <2>2. ContextType' /\ request' \in [Asks -> Requests]
    <3>1. CASE UNCHANGED <<contextVars, request>>
      BY <3>1 DEF ContextType, contextVars
    <3>2. CASE AskFor(FinalAsk(t))
      BY <3>2, AskParts, AskForTyped
    <3> QED  BY <1>6, <3>1, <3>2 DEF End
  <2> QED  BY <1>p, <2>1, <2>2
<1>7. ASSUME NEW t \in Turns, CloseUnheard(t) PROVE TypeOK'
  BY <1>7, <1>p, StepsTyped DEF CloseUnheard
<1>8. CASE Disconnect
  <2>1. ContextType'
    BY <1>8, ForgetTyped DEF Disconnect
  <2>2. TurnsType'
    BY <1>8 DEF Disconnect, TurnsType, Stages
  <2> QED  BY <1>8, <1>p, <2>1, <2>2 DEF Disconnect
<1>9. ASSUME NEW t \in Turns, UseGuess(t) PROVE TypeOK'
  <2>1. UNCHANGED <<opened, gone, shape, guess, grown>>
    BY <1>9 DEF UseGuess
  <2>2. CASE TextArrives(t) \/ TextFails(t)
    BY <2>1, <2>2, StepsTyped
  <2>3. CASE /\ stage' = [stage EXCEPT ![t] = "final"]
             /\ AskFor(FinalAsk(t))
             /\ UNCHANGED <<held, said>>
    <3>1. TurnsType'
      BY <2>1, <2>3 DEF TurnsType, Stages
    <3>2. ContextType' /\ request' \in [Asks -> Requests]
      BY <2>3, AskParts, AskForTyped
    <3> QED  BY <1>p, <3>1, <3>2
  <2>4. CASE Abandon(t) /\ RequestsOver(t) /\ UNCHANGED said
    BY <1>p, <2>1, <2>4, StepsTyped, OverTyped
  <2> QED  BY <1>9, <2>2, <2>3, <2>4 DEF UseGuess
<1>10. ASSUME NEW t \in Turns, FinalAnswers(t) PROVE TypeOK'
  BY <1>10, StepsTyped DEF FinalAnswers
<1>11. ASSUME NEW t \in Turns, Deliver(t) PROVE TypeOK'
  BY <1>11, <1>p, StepsTyped DEF Deliver
<1>12. ASSUME NEW a \in Asks, WaitExpires(a) PROVE TypeOK'
  BY <1>12, <1>p DEF WaitExpires, TimeOut, ContextType, TurnsType, turnVars
<1>13. CASE UNCHANGED vars
  BY <1>13, <1>p DEF vars, contextVars, turnVars, ContextType, TurnsType
<1> QED
  BY <1>1, <1>2, <1>3, <1>4, <1>5, <1>6, <1>7, <1>8, <1>9, <1>10, <1>11, <1>12,
     <1>13 DEF Next, Microtask, ClientStep, TurnStep

(* Every part of the state has its type, and the two memories and the       *)
(* guesses of a turn stay within their bounds.                              *)
THEOREM TypeAlwaysOK == Spec => []TypeOK
<1>1. Init => TypeOK
  BY TypeInit
<1>2. TypeOK /\ [Next]_vars => TypeOK'
  BY TypeStep
<1> QED  BY <1>1, <1>2, PTL DEF Spec

-----------------------------------------------------------------------------
(* Who was answered was told what is known.                                *)

(* What the memory gives for a turn is the last piece the turn said, and a  *)
(* turn has said nothing before its text is there.                          *)
SaidIsKnown ==
    \A t \in Turns : TextNow(t) # NoText =>
        stage[t] \in {"speaking", "done"} /\ TextNow(t) = <<t, said[t]>>

(* Nothing forgets a text while its waiters are about to be told.           *)
MailIsFresh == \A t \in mail : TextNow(t) # NoText

(* Whoever waits waits for words that are not there, or that just came.     *)
WaitsForNothing ==
    \A a \in waiters :
        /\ Continues(a[1]) /\ a[1] <= opened
        /\ About(a) \in mail \/ TextNow(About(a)) = NoText

(* An answer that was not acted upon yet is what the memory says.           *)
AnswerIsFresh ==
    \A a \in Asks : answer[a] # Unanswered =>
        /\ Continues(a[1]) /\ a[1] <= opened
        /\ answer[a] = TextNow(About(a))

OpenedInOrder == \A t \in Turns : stage[t] = "new" <=> t > opened

ToldInv ==
    SaidIsKnown /\ MailIsFresh /\ WaitsForNothing /\ AnswerIsFresh /\ OpenedInOrder

(* A turn in progress is held; a turn that is over is known, to be silent   *)
(* or by its words, unless a full memory let it go; nobody waits on a turn  *)
(* known to be silent.                                                      *)
HeldWhileOpen ==
    ~gone => \A t \in Turns : stage[t] \notin {"new", "done"} => t \in held

RefusedOnlyOver ==
    ~gone => \A a \in Asks : request[a].status = "refused" => stage[a[1]] = "done"

SpokenIsKnown ==
    ~gone => \A t \in Turns : stage[t] = "speaking" /\ shape[t].translated =>
        TextNow(t) # NoText \/ Len(recent) = Remembered

OverIsKnown ==
    ~gone => \A t \in Turns : stage[t] = "done" =>
        \/ TextNow(t) # NoText \/ ClosedSilent(t)
        \/ Len(recent) = Remembered \/ Len(silent) = Remembered

NobodyWaitsOnSilence == \A a \in waiters : ~ClosedSilent(About(a))

KeptInv ==
    /\ HeldWhileOpen /\ RefusedOnlyOver /\ SpokenIsKnown /\ OverIsKnown
    /\ NobodyWaitsOnSilence

LEMMA SameTexts ==
    ASSUME recent' = recent
    PROVE  \A t : TextNow(t)' = TextNow(t)
BY DEF TextNow

LEMMA NoTextInNothing == \A t : TextIn(<<>>, t) = NoText
BY DEF TextIn, IsLatest

(* ToldInv but for what it says of the turns themselves. *)
ToldSoFar == MailIsFresh /\ WaitsForNothing /\ AnswerIsFresh

LEMMA ToldFrame ==
    ASSUME ToldInv, UNCHANGED <<recent, waiters, mail, answer, shape, opened>>
    PROVE  ToldSoFar'
<1>1. \A t : TextNow(t)' = TextNow(t) /\ Continues(t)' = Continues(t)
  BY SameTexts DEF Continues
<1>2. MailIsFresh'
  BY <1>1 DEF ToldInv, MailIsFresh
<1>3. WaitsForNothing'
  BY <1>1 DEF ToldInv, WaitsForNothing
<1>4. AnswerIsFresh'
  BY <1>1 DEF ToldInv, AnswerIsFresh
<1> QED  BY <1>2, <1>3, <1>4 DEF ToldSoFar

LEMMA AskForTold ==
    ASSUME ToldInv, NEW a \in Asks, AskFor(a), a[1] <= opened,
           UNCHANGED <<shape, opened>>
    PROVE  ToldSoFar' /\ recent' = recent
<1>1. CASE Continues(a[1]) /\ ~IsSettled(About(a))
  <2>1. WaitFor(a)
    BY <1>1 DEF AskFor
  <2>2. \A t : TextNow(t)' = TextNow(t) /\ Continues(t)' = Continues(t)
    BY <2>1, SameTexts DEF Continues, WaitFor
  <2>3. TextNow(About(a)) = NoText
    BY <1>1 DEF IsSettled
  <2>4. MailIsFresh'
    BY <2>1, <2>2 DEF ToldInv, MailIsFresh, WaitFor
  <2>5. WaitsForNothing'
    BY <1>1, <2>1, <2>2, <2>3 DEF ToldInv, WaitsForNothing, WaitFor
  <2>6. AnswerIsFresh'
    BY <2>1, <2>2 DEF ToldInv, AnswerIsFresh, WaitFor
  <2> QED  BY <2>1, <2>4, <2>5, <2>6 DEF ToldSoFar, WaitFor
<1>2. CASE ~(Continues(a[1]) /\ ~IsSettled(About(a)))
  BY <1>2, ToldFrame DEF AskFor, contextVars
<1> QED  BY <1>1, <1>2

LEMMA ClosedTold ==
    ASSUME TypeOK, ToldInv, NEW t \in Turns, Closed(t), Drained,
           UNCHANGED <<shape, opened>>
    PROVE  ToldSoFar' /\ recent' = recent
<1>1. CASE TextNow(t) # NoText
  BY <1>1, ToldFrame DEF Closed, contextVars
<1>2. CASE TextNow(t) = NoText
  <2>1. UNCHANGED <<recent, mail>> /\ Tell(t, NoText)
    BY <1>2 DEF Closed
  <2>2. \A u : TextNow(u)' = TextNow(u) /\ Continues(u)' = Continues(u)
    BY <2>1, SameTexts DEF Continues
  <2>3. MailIsFresh'
    BY <2>1, <2>2 DEF ToldInv, MailIsFresh
  <2>4. WaitsForNothing'
    BY <2>1, <2>2 DEF ToldInv, WaitsForNothing, Tell
  <2>5. AnswerIsFresh'
    <3> SUFFICES ASSUME NEW a \in Asks, answer'[a] # Unanswered
                 PROVE  /\ Continues(a[1])' /\ a[1] <= opened'
                        /\ answer'[a] = TextNow(About(a))'
      BY DEF AnswerIsFresh
    <3>1. a \in waiters /\ About(a) = t /\ answer'[a] = NoText
      BY <2>1 DEF Tell, Drained
    <3> QED  BY <1>2, <2>2, <3>1 DEF ToldInv, WaitsForNothing
  <2> QED  BY <2>1, <2>3, <2>4, <2>5 DEF ToldSoFar
<1> QED  BY <1>1, <1>2

LEMMA RememberTold ==
    ASSUME TypeOK, ToldInv, NEW t \in Turns, NEW n \in Nat \ {0}, Remember(t, n),
           Drained, UNCHANGED <<shape, opened>>
    PROVE  ToldSoFar'
<1>1. /\ TextNow(t)' = <<t, n>>
      /\ \A p \in Turns \ {t} : TextNow(p)' \in {TextNow(p), NoText}
  BY RememberEffect DEF TypeOK
<1>2. mail' = {t} /\ UNCHANGED <<waiters, answer>>
  BY DEF Remember, Drained
<1>3. \A u : Continues(u)' = Continues(u)
  BY DEF Continues
<1>4. MailIsFresh'
  <2>1. <<t, n>> # NoText
    BY BoundsAssumption DEF NoText, Turns
  <2> QED  BY <1>1, <1>2, <2>1 DEF MailIsFresh
<1>5. WaitsForNothing'
  <2> SUFFICES ASSUME NEW a \in waiters
               PROVE  /\ Continues(a[1]) /\ a[1] <= opened
                      /\ About(a) \in mail' \/ TextNow(About(a))' = NoText
    BY <1>2, <1>3 DEF WaitsForNothing
  <2>1. Continues(a[1]) /\ a[1] <= opened /\ TextNow(About(a)) = NoText
    BY DEF ToldInv, WaitsForNothing, Drained
  <2>2. About(a) \in Turns
    BY <2>1, PredecessorIsATurn DEF TypeOK
  <2> QED  BY <1>1, <1>2, <2>1, <2>2
<1>6. AnswerIsFresh'
  BY <1>2 DEF AnswerIsFresh, Drained
<1> QED  BY <1>4, <1>5, <1>6 DEF ToldSoFar

LEMMA AnswerWaitersTold ==
    ASSUME TypeOK, ToldInv, NEW t \in Turns, AnswerWaiters(t),
           UNCHANGED <<shape, opened>>
    PROVE  ToldSoFar' /\ recent' = recent
<1>1. TextNow(t) # NoText
  BY DEF AnswerWaiters, ToldInv, MailIsFresh
<1>2. /\ recent' = recent /\ mail' = mail \ {t} /\ Tell(t, TextNow(t))
  BY <1>1 DEF AnswerWaiters
<1>3. \A u : TextNow(u)' = TextNow(u) /\ Continues(u)' = Continues(u)
  BY <1>2, SameTexts DEF Continues
<1>4. MailIsFresh'
  BY <1>2, <1>3 DEF ToldInv, MailIsFresh
<1>5. WaitsForNothing'
  BY <1>2, <1>3 DEF ToldInv, WaitsForNothing, Tell
<1>6. AnswerIsFresh'
  <2> SUFFICES ASSUME NEW a \in Asks, answer'[a] # Unanswered
               PROVE  /\ Continues(a[1]) /\ a[1] <= opened
                      /\ answer'[a] = TextNow(About(a))
    BY <1>3 DEF AnswerIsFresh
  <2>1. CASE a \in waiters /\ About(a) = t
    BY <1>2, <2>1 DEF Tell, ToldInv, WaitsForNothing
  <2>2. CASE ~(a \in waiters /\ About(a) = t)
    <3>1. answer'[a] = answer[a]
      BY <1>2, <2>2 DEF Tell
    <3> QED  BY <3>1 DEF ToldInv, AnswerIsFresh
  <2> QED  BY <2>1, <2>2
<1> QED  BY <1>2, <1>4, <1>5, <1>6 DEF ToldSoFar

(* Turns that move on without a word keep what is known of them. *)
LEMMA MovesKeepSaid ==
    ASSUME TypeOK, ToldInv, UNCHANGED <<recent, opened, said>>,
           \A u \in Turns : \/ stage'[u] = stage[u]
                            \/ /\ stage[u] # "new" /\ stage'[u] # "new"
                               /\ \/ stage[u] \in {"listening", "guess", "final"}
                                  \/ stage'[u] = "done"
    PROVE  SaidIsKnown' /\ OpenedInOrder'
<1>1. \A t : TextNow(t)' = TextNow(t)
  BY SameTexts
<1>2. SaidIsKnown'
  BY <1>1 DEF ToldInv, SaidIsKnown
<1>3. OpenedInOrder'
  BY DEF ToldInv, OpenedInOrder
<1> QED  BY <1>2, <1>3

LEMMA ToldInit == Init => ToldInv
<1> SUFFICES ASSUME Init PROVE ToldInv
  OBVIOUS
<1>1. \A t : TextNow(t) = NoText
  BY NoTextInNothing DEF Init, ContextInit, TextNow
<1>2. \A t \in Turns : stage[t] = "new" /\ t > opened
  BY BoundsAssumption DEF Init, Turns
<1> QED
  BY <1>1, <1>2 DEF Init, ContextInit, ToldInv, SaidIsKnown, MailIsFresh,
     WaitsForNothing, AnswerIsFresh, OpenedInOrder

LEMMA ListeningIsOpened ==
    ASSUME TypeOK, ToldInv, NEW t \in Turns, stage[t] # "new"
    PROVE  t <= opened
BY DEF TypeOK, ToldInv, OpenedInOrder, Turns

(* The text of a turn that has none yet, or the failure of one. *)
LEMMA TextTold ==
    ASSUME TypeOK, ToldInv, NEW t \in Turns, Drained,
           stage[t] \in {"guess", "final"}, TextArrives(t) \/ TextFails(t),
           UNCHANGED <<opened, gone, shape, guess, grown>>
    PROVE  ToldInv'
<1>1. CASE TextArrives(t)
  <2>1. PICK n \in 1 .. MaxPieces[t] :
           /\ said' = [said EXCEPT ![t] = n]
           /\ IF shape[t].translated THEN Remember(t, n) ELSE UNCHANGED contextVars
    BY <1>1 DEF TextArrives
  <2>2. n \in Nat \ {0}
    BY BoundsAssumption DEF Turns
  <2>3. \A u \in Turns : IF u = t THEN stage'[u] \in {"speaking", "done"} /\ said'[u] = n
                                  ELSE stage'[u] = stage[u] /\ said'[u] = said[u]
    BY <1>1, <2>1 DEF TextArrives, TypeOK
  <2>4. OpenedInOrder'
    BY <2>3 DEF ToldInv, OpenedInOrder
  <2>5. TextNow(t) = NoText
    BY DEF ToldInv, SaidIsKnown
  <2>6. CASE shape[t].translated
    <3>1. Remember(t, n)
      BY <2>1, <2>6
    <3>2. ToldSoFar'
      BY <2>2, <3>1, RememberTold
    <3>3. /\ TextNow(t)' = <<t, n>>
          /\ \A p \in Turns \ {t} : TextNow(p)' \in {TextNow(p), NoText}
      BY <2>2, <3>1, RememberEffect DEF TypeOK
    <3>4. SaidIsKnown'
      BY <2>3, <3>3 DEF ToldInv, SaidIsKnown
    <3> QED  BY <2>4, <3>2, <3>4 DEF ToldInv, ToldSoFar
  <2>7. CASE ~shape[t].translated
    <3>1. UNCHANGED contextVars
      BY <2>1, <2>7
    <3>2. ToldSoFar' /\ \A u : TextNow(u)' = TextNow(u)
      BY <3>1, ToldFrame, SameTexts DEF contextVars
    <3>3. SaidIsKnown'
      BY <2>3, <2>5, <3>2 DEF ToldInv, SaidIsKnown
    <3> QED  BY <2>4, <3>2, <3>3 DEF ToldInv, ToldSoFar
  <2> QED  BY <2>6, <2>7
<1>2. CASE TextFails(t)
  <2>1. ToldSoFar' /\ recent' = recent
    BY <1>2, ClosedTold DEF TextFails, CloseTurn
  <2>2. SaidIsKnown' /\ OpenedInOrder'
    BY <1>2, <2>1, MovesKeepSaid DEF TextFails, CloseTurn, TypeOK
  <2> QED  BY <2>1, <2>2 DEF ToldInv, ToldSoFar
<1> QED  BY <1>1, <1>2

LEMMA ToldStep == TypeOK /\ ToldInv /\ [Next]_vars => ToldInv'
<1> SUFFICES ASSUME TypeOK, ToldInv, [Next]_vars PROVE ToldInv'
  OBVIOUS
<1>p. ToldSoFar' /\ SaidIsKnown' /\ OpenedInOrder' => ToldInv'
  BY DEF ToldInv, ToldSoFar
<1>q. ASSUME recent' = recent, UNCHANGED <<opened, stage, said>>
      PROVE  SaidIsKnown' /\ OpenedInOrder'
  BY <1>q, MovesKeepSaid
<1>1. ASSUME NEW t \in Turns, AnswerWaiters(t), UNCHANGED turnVars PROVE ToldInv'
  BY <1>1, <1>p, <1>q, AnswerWaitersTold DEF turnVars
<1>2. ASSUME NEW a \in Asks, GoOn(a) PROVE ToldInv'
  <2>1. /\ UNCHANGED <<recent, mail, waiters, shape, opened, stage, said>>
        /\ \A b \in Asks : answer'[b] # Unanswered => answer'[b] = answer[b]
    BY <1>2 DEF GoOn, TakeAnswer, TypeOK
  <2>2. \A u : TextNow(u)' = TextNow(u) /\ Continues(u)' = Continues(u)
    BY <2>1, SameTexts DEF Continues
  <2>3. AnswerIsFresh'
    BY <2>1, <2>2 DEF ToldInv, AnswerIsFresh
  <2>4. MailIsFresh' /\ WaitsForNothing'
    BY <2>1, <2>2 DEF ToldInv, MailIsFresh, WaitsForNothing
  <2> QED  BY <1>p, <1>q, <2>1, <2>3, <2>4 DEF ToldSoFar
<1>3. CASE Open
  <2>1. /\ UNCHANGED <<recent, mail, waiters, answer, said>>
        /\ opened' = opened + 1 /\ opened' \in Turns
        /\ stage' = [stage EXCEPT ![opened + 1] = "listening"]
        /\ \A u \in Turns : u <= opened => shape'[u] = shape[u]
    BY <1>3, BoundsAssumption DEF Open, contextVars, TypeOK, Turns
  <2>2. \A u : TextNow(u)' = TextNow(u)
    BY <2>1, SameTexts
  <2>3. \A a \in Asks : a[1] <= opened =>
           (Continues(a[1])' = Continues(a[1])) /\ a[1] <= opened'
    BY <2>1, AskParts DEF Continues, Turns, TypeOK
  <2>4. MailIsFresh'
    BY <2>1, <2>2 DEF ToldInv, MailIsFresh
  <2>5. WaitsForNothing'
    BY <2>1, <2>2, <2>3 DEF ToldInv, WaitsForNothing, TypeOK
  <2>6. AnswerIsFresh'
    BY <2>1, <2>2, <2>3 DEF ToldInv, AnswerIsFresh
  <2>7. stage[opened + 1] = "new"
    BY <2>1 DEF ToldInv, OpenedInOrder, TypeOK
  <2>8. SaidIsKnown'
    BY <2>1, <2>2, <2>7 DEF ToldInv, SaidIsKnown, TypeOK
  <2>9. OpenedInOrder'
    BY <2>1 DEF ToldInv, OpenedInOrder, TypeOK, Turns
  <2> QED  BY <1>p, <2>4, <2>5, <2>6, <2>8, <2>9 DEF ToldSoFar
<1>4. ASSUME NEW t \in Turns, Grow(t) PROVE ToldInv'
  BY <1>4, <1>p, <1>q, ToldFrame DEF Grow, contextVars
<1>5. ASSUME NEW t \in Turns, Speculate(t) PROVE ToldInv'
  <2>1. <<t, guess[t] + 1>> \in Asks
    BY SMTT(30), <1>5, AskParts, BoundsAssumption DEF Speculate, TypeOK, Turns
  <2>2. t <= opened
    BY <1>5, ListeningIsOpened DEF Speculate, IsListening
  <2>3. ToldSoFar' /\ recent' = recent
    BY <1>5, <2>1, <2>2, AskForTold DEF Speculate
  <2> QED  BY <1>5, <1>p, <1>q, <2>3 DEF Speculate
<1>6. ASSUME NEW t \in Turns, End(t) PROVE ToldInv'
  <2>1. t <= opened /\ stage[t] = "listening"
    BY <1>6, ListeningIsOpened DEF End, IsListening
  <2>2. UNCHANGED <<shape, opened, said>>
    BY <1>6 DEF End
  <2>3. ToldSoFar' /\ recent' = recent
    <3>1. CASE UNCHANGED <<contextVars, request>>
      BY <2>2, <3>1, ToldFrame DEF contextVars
    <3>2. CASE AskFor(FinalAsk(t))
      <4>1. FinalAsk(t) \in Asks /\ FinalAsk(t)[1] = t
        BY AskParts DEF FinalAsk
      <4> QED  BY <2>1, <2>2, <3>2, <4>1, AskForTold
    <3> QED  BY <1>6, <3>1, <3>2 DEF End
  <2>4. SaidIsKnown' /\ OpenedInOrder'
    <3>1. \A u \in Turns :
             stage'[u] = stage[u] \/ (u = t /\ stage'[u] \in {"guess", "final"})
      BY <1>6 DEF End, TypeOK
    <3> QED  BY <2>1, <2>2, <2>3, <3>1, MovesKeepSaid
  <2> QED  BY <1>p, <2>3, <2>4
<1>7. ASSUME NEW t \in Turns, CloseUnheard(t), Drained PROVE ToldInv'
  <2>1. ToldSoFar' /\ recent' = recent
    BY <1>7, ClosedTold DEF CloseUnheard, CloseTurn
  <2>2. SaidIsKnown' /\ OpenedInOrder'
    BY <1>7, <2>1, MovesKeepSaid DEF CloseUnheard, CloseTurn, IsListening, TypeOK
  <2> QED  BY <1>p, <2>1, <2>2
<1>8. CASE Disconnect /\ Drained
  <2>1. /\ recent' = <<>> /\ waiters' = {} /\ mail' = {}
        /\ answer' = [a \in Asks |-> IF a \in waiters THEN NoText ELSE answer[a]]
        /\ UNCHANGED <<opened, shape, said>>
        /\ stage' = [t \in Turns |->
                        IF stage[t] = "listening" THEN "done" ELSE stage[t]]
    BY <1>8 DEF Disconnect, Forget, Drained
  <2>2. \A u : TextNow(u)' = NoText /\ Continues(u)' = Continues(u)
    BY <2>1, NoTextInNothing DEF TextNow, Continues
  <2>3. AnswerIsFresh'
    <3> SUFFICES ASSUME NEW a \in Asks, answer'[a] # Unanswered
                 PROVE  Continues(a[1]) /\ a[1] <= opened /\ answer'[a] = NoText
      BY <2>1, <2>2 DEF AnswerIsFresh
    <3>1. a \in waiters /\ answer'[a] = NoText
      BY <1>8, <2>1 DEF Drained
    <3> QED  BY <3>1 DEF ToldInv, WaitsForNothing
  <2>4. MailIsFresh' /\ WaitsForNothing'
    BY <2>1 DEF MailIsFresh, WaitsForNothing
  <2>5. SaidIsKnown' /\ OpenedInOrder'
    BY <2>1, <2>2 DEF ToldInv, SaidIsKnown, OpenedInOrder
  <2> QED  BY <1>p, <2>3, <2>4, <2>5 DEF ToldSoFar
<1>9. ASSUME NEW t \in Turns, UseGuess(t), Drained PROVE ToldInv'
  <2>1. /\ UNCHANGED <<opened, gone, shape, guess, grown>>
        /\ stage[t] = "guess"
    BY <1>9 DEF UseGuess
  <2>2. CASE TextArrives(t) \/ TextFails(t)
    BY <1>9, <2>1, <2>2, TextTold
  <2>3. CASE /\ stage' = [stage EXCEPT ![t] = "final"]
             /\ AskFor(FinalAsk(t))
             /\ UNCHANGED <<held, said>>
    <3>1. FinalAsk(t) \in Asks /\ FinalAsk(t)[1] = t /\ t <= opened
      BY <2>1, AskParts, ListeningIsOpened DEF FinalAsk
    <3>2. ToldSoFar' /\ recent' = recent
      BY <2>1, <2>3, <3>1, AskForTold
    <3>3. \A u \in Turns : stage'[u] = stage[u] \/ (u = t /\ stage'[u] = "final")
      BY <2>3 DEF TypeOK
    <3>4. SaidIsKnown' /\ OpenedInOrder'
      BY <2>1, <2>3, <3>2, <3>3, MovesKeepSaid
    <3> QED  BY <1>p, <3>2, <3>4
  <2>4. CASE Abandon(t) /\ UNCHANGED said
    <3>1. ToldSoFar' /\ recent' = recent
      BY <2>1, <2>4, ToldFrame DEF Abandon, contextVars
    <3>2. SaidIsKnown' /\ OpenedInOrder'
      BY <2>1, <2>4, <3>1, MovesKeepSaid DEF Abandon, TypeOK
    <3> QED  BY <1>p, <3>1, <3>2
  <2> QED  BY <1>9, <2>2, <2>3, <2>4 DEF UseGuess
<1>10. ASSUME NEW t \in Turns, FinalAnswers(t), Drained PROVE ToldInv'
  BY <1>10, TextTold DEF FinalAnswers
<1>11. ASSUME NEW t \in Turns, Deliver(t), Drained PROVE ToldInv'
  <2>1. /\ UNCHANGED <<opened, shape, said>> /\ stage[t] = "speaking"
        /\ stage' = [stage EXCEPT ![t] = "done"]
    BY <1>11 DEF Deliver, CloseTurn, Abandon
  <2>2. ToldSoFar' /\ recent' = recent
    <3>1. CASE CloseTurn(t)
      BY <1>11, <2>1, <3>1, ClosedTold DEF CloseTurn
    <3>2. CASE Abandon(t)
      BY <2>1, <3>2, ToldFrame DEF Abandon, contextVars
    <3> QED  BY <1>11, <3>1, <3>2 DEF Deliver
  <2>3. SaidIsKnown' /\ OpenedInOrder'
    BY <2>1, <2>2, MovesKeepSaid DEF TypeOK
  <2> QED  BY <1>p, <2>2, <2>3
<1>12. ASSUME NEW a \in Asks, WaitExpires(a) PROVE ToldInv'
  <2>1. /\ Drained /\ a \in waiters /\ UNCHANGED <<recent, mail, shape, opened, stage, said>>
        /\ waiters' = waiters \ {a} /\ answer' = [answer EXCEPT ![a] = NoText]
    BY <1>12 DEF WaitExpires, TimeOut, turnVars
  <2>2. \A u : TextNow(u)' = TextNow(u) /\ Continues(u)' = Continues(u)
    BY <2>1, SameTexts DEF Continues
  <2>3. Continues(a[1]) /\ a[1] <= opened /\ TextNow(About(a)) = NoText
    BY <2>1 DEF ToldInv, WaitsForNothing, Drained
  <2>4. AnswerIsFresh'
    BY <2>1, <2>2, <2>3 DEF ToldInv, AnswerIsFresh, TypeOK
  <2>5. MailIsFresh' /\ WaitsForNothing'
    BY <2>1, <2>2 DEF ToldInv, MailIsFresh, WaitsForNothing
  <2> QED  BY <1>p, <1>q, <2>1, <2>4, <2>5 DEF ToldSoFar
<1>13. CASE UNCHANGED vars
  BY <1>13, <1>p, <1>q, ToldFrame DEF vars, contextVars, turnVars
<1> QED
  BY <1>1, <1>2, <1>3, <1>4, <1>5, <1>6, <1>7, <1>8, <1>9, <1>10, <1>11, <1>12,
     <1>13 DEF Next, Microtask, ClientStep, TurnStep

(* What goes out for a, if it goes out in this step. *)
RightWords(a) ==
    request'[a].continued =
        IF Continues(a[1]) /\ TextNow(About(a)) # NoText
        THEN <<About(a), said[About(a)]>>
        ELSE NoText

LEMMA SentWords ==
    ASSUME TypeOK, ToldInv, NEW b \in Asks,
           Sent(b, IF Continues(b[1]) THEN TextNow(About(b)) ELSE NoText),
           NEW a \in Asks, GoesOut(a)
    PROVE  RightWords(a)
<1> DEFINE text == IF Continues(b[1]) THEN TextNow(About(b)) ELSE NoText
<1>1. a = b
  BY DEF Sent, GoesOut, TypeOK
<1>2. request'[a].continued = text
  BY <1>1 DEF Sent, Request, TypeOK
<1>3. CASE Continues(a[1]) /\ TextNow(About(a)) # NoText
  <2>1. About(a) \in Turns
    BY <1>3, PredecessorIsATurn
  <2>2. TextNow(About(a)) = <<About(a), said[About(a)]>>
    BY <1>3, <2>1 DEF ToldInv, SaidIsKnown
  <2> QED  BY <1>1, <1>2, <1>3, <2>2 DEF RightWords
<1>4. CASE ~(Continues(a[1]) /\ TextNow(About(a)) # NoText)
  BY <1>1, <1>2, <1>4 DEF RightWords
<1> QED  BY <1>3, <1>4

LEMMA AskedWords ==
    ASSUME TypeOK, ToldInv, NEW b \in Asks, AskFor(b), NEW a \in Asks, GoesOut(a)
    PROVE  RightWords(a)
<1>1. CASE UNCHANGED request
  BY <1>1 DEF GoesOut
<1>2. CASE Sent(b, IF Continues(b[1]) THEN TextNow(About(b)) ELSE NoText)
  BY <1>2, SentWords
<1> QED  BY <1>1, <1>2 DEF AskFor

LEMMA OverSendsNothing ==
    ASSUME NEW t, RequestsOver(t), NEW a \in Asks
    PROVE  ~GoesOut(a)
BY DEF RequestsOver, GoesOut, NotAsked, Request

LEMMA OwnCutStep ==
    ASSUME TypeOK, ToldInv, [Next]_vars, NEW a \in Asks, GoesOut(a)
    PROVE  RightWords(a)
<1>0. request' # request
  BY DEF GoesOut
<1>1. ASSUME NEW b \in Asks, GoOn(b) PROVE RightWords(a)
  <2>1. CASE request' = [request EXCEPT ![b] = Refused]
    BY <2>1 DEF GoesOut, Refused, Request, TypeOK
  <2>2. CASE Sent(b, answer[b])
    <3>1. Continues(b[1]) /\ answer[b] = TextNow(About(b))
      BY <1>1 DEF GoOn, TakeAnswer, ToldInv, AnswerIsFresh
    <3> QED  BY <2>2, <3>1, SentWords
  <2> QED  BY <1>1, <2>1, <2>2 DEF GoOn
<1>2. ASSUME NEW t \in Turns, Speculate(t) PROVE RightWords(a)
  <2>1. <<t, guess[t] + 1>> \in Asks
    BY SMTT(30), <1>2, AskParts, BoundsAssumption DEF Speculate, TypeOK, Turns
  <2> QED  BY <1>2, <2>1, AskedWords DEF Speculate
<1>3. ASSUME NEW t \in Turns, End(t) PROVE RightWords(a)
  BY <1>0, <1>3, AskParts, AskedWords DEF End
<1>4. ASSUME NEW t \in Turns, UseGuess(t) PROVE RightWords(a)
  <2>1. CASE RequestsOver(t)
    BY <2>1, OverSendsNothing
  <2>2. CASE AskFor(FinalAsk(t))
    BY <2>2, AskParts, AskedWords
  <2> QED  BY <1>4, <2>1, <2>2 DEF UseGuess, TextArrives, TextFails
<1>5. ASSUME NEW t \in Turns, FinalAnswers(t) PROVE RightWords(a)
  BY <1>5, OverSendsNothing DEF FinalAnswers, TextArrives, TextFails
<1>6. \/ \E b \in Asks : GoOn(b)
      \/ \E t \in Turns : Speculate(t) \/ End(t) \/ UseGuess(t) \/ FinalAnswers(t)
  <2>1. ASSUME NEW t \in Turns, AnswerWaiters(t) /\ UNCHANGED turnVars PROVE FALSE
    BY <1>0, <2>1 DEF turnVars
  <2>2. ASSUME Open PROVE FALSE
    BY <1>0, <2>2 DEF Open
  <2>3. ASSUME NEW t \in Turns, Grow(t) \/ CloseUnheard(t) \/ Deliver(t) PROVE FALSE
    BY <1>0, <2>3 DEF Grow, CloseUnheard, Deliver
  <2>4. ASSUME Disconnect PROVE FALSE
    BY <1>0, <2>4 DEF Disconnect
  <2>5. ASSUME NEW b \in Asks, WaitExpires(b) PROVE FALSE
    BY <1>0, <2>5 DEF WaitExpires, turnVars
  <2>6. ASSUME UNCHANGED vars PROVE FALSE
    BY <1>0, <2>6 DEF vars, turnVars
  <2> QED
    BY <2>1, <2>2, <2>3, <2>4, <2>5, <2>6 DEF Next, Microtask, ClientStep, TurnStep
<1> QED  BY <1>1, <1>2, <1>3, <1>4, <1>5, <1>6

(* Whatever order turns end in and however many of them there are, a        *)
(* request continues the piece of its own turn's cut, and stands alone only *)
(* when those words are not there to be had.                                *)
THEOREM EveryRequestContinuesItsOwnCut == Spec => ContinuesItsOwnCut
<1>1. Init => TypeOK /\ ToldInv
  BY TypeInit, ToldInit
<1>2. TypeOK /\ ToldInv /\ [Next]_vars => (TypeOK /\ ToldInv)'
  BY TypeStep, ToldStep
<1>3. TypeOK /\ ToldInv /\ [Next]_vars =>
        [\A a \in Asks : GoesOut(a) =>
            request'[a].continued =
                IF Continues(a[1]) /\ TextNow(About(a)) # NoText
                THEN <<About(a), said[About(a)]>>
                ELSE NoText]_vars
  <2> SUFFICES ASSUME TypeOK, ToldInv, [Next]_vars, NEW a \in Asks, GoesOut(a)
               PROVE  RightWords(a)
    BY DEF RightWords
  <2> QED  BY OwnCutStep
<1> QED  BY <1>1, <1>2, <1>3, PTL DEF Spec, ContinuesItsOwnCut

-----------------------------------------------------------------------------
(* A turn that is over is known.                                            *)

(* closed(): the turn is known from now on; what else is known stays so,    *)
(* unless the memory of silent turns is full.                               *)
LEMMA ClosedEffect ==
    ASSUME TypeOK, NEW t \in Turns, Closed(t)
    PROVE  /\ recent' = recent
           /\ TextNow(t) # NoText \/ ClosedSilent(t)'
           /\ \A p \in Turns : ClosedSilent(p) =>
                 ClosedSilent(p)' \/ Len(silent') = Remembered
           /\ Len(silent) = Remembered => Len(silent') = Remembered
           /\ NobodyWaitsOnSilence => NobodyWaitsOnSilence'
<1>1. CASE TextNow(t) # NoText
  <2>1. UNCHANGED <<recent, silent, waiters>>
    BY <1>1 DEF Closed, contextVars
  <2> QED  BY <1>1, <2>1 DEF ClosedSilent, NobodyWaitsOnSilence
<1>2. CASE TextNow(t) = NoText /\ ClosedSilent(t)
  <2>1. UNCHANGED <<recent, silent>> /\ waiters' \subseteq waiters
    BY <1>2 DEF Closed, Tell
  <2> QED  BY <1>2, <2>1 DEF ClosedSilent, NobodyWaitsOnSilence
<1>3. CASE TextNow(t) = NoText /\ ~ClosedSilent(t)
  <2> DEFINE v == Append(silent, t)
             d == Dropped(v)
  <2>1. /\ recent' = recent /\ silent' = Newest(v)
        /\ waiters' \subseteq waiters
        /\ \A a \in waiters' : About(a) # t
    BY <1>3 DEF Closed, Tell
  <2>2. /\ v \in Seq(Turns) /\ Len(v) = Len(silent) + 1 /\ Len(silent) \in Nat
        /\ v[Len(v)] = t
        /\ \A i \in 1 .. Len(silent) : v[i] = silent[i]
    BY DEF TypeOK
  <2>3. /\ silent' \in Seq(Turns) /\ d \in 0 .. Len(v) /\ Len(silent') = Len(v) - d
        /\ \A i \in 1 .. Len(silent') : silent'[i] = v[i + d]
    BY <2>1, <2>2, NewestIs
  <2>4. d = IF Len(v) > Remembered THEN Len(v) - Remembered ELSE 0
    BY DEF Dropped
  <2> HIDE DEF v, d
  <2>5. Len(silent') >= 1 /\ Len(silent') + d = Len(v)
    BY <2>2, <2>3, <2>4, BoundsAssumption
  <2>6. ClosedSilent(t)'
    <3>1. Len(silent') \in 1 .. Len(silent') /\ silent'[Len(silent')] = t
      BY <2>2, <2>3, <2>5
    <3> QED  BY <2>3, <3>1 DEF ClosedSilent
  <2>7. ASSUME NEW p \in Turns, ClosedSilent(p), Len(silent') # Remembered
        PROVE  ClosedSilent(p)'
    <3>1. d = 0
      BY <2>2, <2>3, <2>4, <2>7, BoundsAssumption
    <3>2. PICK i \in 1 .. Len(silent) : silent[i] = p
      BY <2>7 DEF ClosedSilent, TypeOK
    <3>3. i \in 1 .. Len(silent') /\ silent'[i] = p
      BY <2>2, <2>3, <3>1, <3>2
    <3> QED  BY <2>3, <3>3 DEF ClosedSilent
  <2>8. Len(silent) = Remembered => Len(silent') = Remembered
    BY <2>2, <2>3, <2>4, BoundsAssumption
  <2>9. ASSUME NobodyWaitsOnSilence PROVE NobodyWaitsOnSilence'
    <3> SUFFICES ASSUME NEW a \in waiters', ClosedSilent(About(a))' PROVE FALSE
      BY DEF NobodyWaitsOnSilence
    <3>1. PICK i \in 1 .. Len(silent') : silent'[i] = About(a)
      BY <2>3 DEF ClosedSilent
    <3>2. i + d \in 1 .. Len(v) /\ v[i + d] = About(a) /\ About(a) # t
      BY <2>1, <2>3, <3>1
    <3>3. i + d \in 1 .. Len(silent)
      BY <2>2, <3>2
    <3>4. silent[i + d] = About(a)
      BY <2>2, <3>2, <3>3
    <3>5. ClosedSilent(About(a))
      BY <3>3, <3>4 DEF ClosedSilent, TypeOK
    <3> QED  BY <2>1, <2>9, <3>5 DEF NobodyWaitsOnSilence
  <2> QED  BY <2>1, <2>6, <2>7, <2>8, <2>9
<1> QED  BY <1>1, <1>2, <1>3

(* Asking forgets nothing, refuses nobody and waits on no silent turn. *)
LEMMA AskForEffect ==
    ASSUME TypeOK, NEW a \in Asks, AskFor(a)
    PROVE  /\ UNCHANGED <<recent, silent>>
           /\ \A b \in Asks : request'[b].status = "refused" =>
                 request[b].status = "refused"
           /\ NobodyWaitsOnSilence => NobodyWaitsOnSilence'
<1>1. CASE Continues(a[1]) /\ ~IsSettled(About(a))
  <2>1. /\ UNCHANGED <<recent, silent, request>> /\ waiters' = waiters \cup {a}
        /\ ~ClosedSilent(About(a))
    BY <1>1 DEF AskFor, WaitFor, IsSettled
  <2> QED  BY <2>1 DEF NobodyWaitsOnSilence, ClosedSilent
<1>2. CASE ~(Continues(a[1]) /\ ~IsSettled(About(a)))
  <2>1. /\ UNCHANGED <<recent, silent, waiters>>
        /\ \E text : request' = [request EXCEPT ![a] = Request("sent", text)]
    BY <1>2 DEF AskFor, Sent, contextVars
  <2>2. \A b \in Asks : request'[b].status = "refused" =>
           request[b].status = "refused"
    BY <2>1 DEF Request, TypeOK
  <2> QED  BY <2>1, <2>2 DEF NobodyWaitsOnSilence, ClosedSilent
<1> QED  BY <1>1, <1>2

LEMMA OverRefusesNobody ==
    ASSUME NEW t, RequestsOver(t)
    PROVE  \A b \in Asks : request'[b].status = "refused" =>
              request[b].status = "refused"
BY DEF RequestsOver, NotAsked, Request

(* A step that neither forgets nor moves a turn on. *)
LEMMA KeptFrame ==
    ASSUME KeptInv, UNCHANGED <<recent, silent, gone, held, stage>>,
           \A t \in Turns : stage[t] = "speaking" => shape'[t] = shape[t],
           \A b \in Asks : request'[b].status = "refused" =>
              request[b].status = "refused" \/ stage[b[1]] = "done",
           NobodyWaitsOnSilence'
    PROVE  KeptInv'
<1>1. /\ \A t : TextNow(t)' = TextNow(t)
      /\ \A t : ClosedSilent(t)' = ClosedSilent(t)
  BY SameTexts DEF ClosedSilent
<1>2. HeldWhileOpen'
  BY DEF KeptInv, HeldWhileOpen
<1>3. RefusedOnlyOver'
  BY AskParts DEF KeptInv, RefusedOnlyOver
<1>4. SpokenIsKnown'
  BY <1>1 DEF KeptInv, SpokenIsKnown
<1>5. OverIsKnown'
  BY <1>1 DEF KeptInv, OverIsKnown
<1> QED  BY <1>2, <1>3, <1>4, <1>5 DEF KeptInv

(* A turn is closed. *)
LEMMA KeptClose ==
    ASSUME TypeOK, KeptInv, NEW t \in Turns, CloseTurn(t), UNCHANGED <<gone, shape>>,
           \A b \in Asks : request'[b].status = "refused" =>
              request[b].status = "refused"
    PROVE  KeptInv'
<1>1. /\ held' = held \ {t} /\ Closed(t)
      /\ \A u \in Turns : stage'[u] = IF u = t THEN "done" ELSE stage[u]
  BY DEF CloseTurn, TypeOK
<1>2. /\ recent' = recent
      /\ TextNow(t) # NoText \/ ClosedSilent(t)'
      /\ \A p \in Turns : ClosedSilent(p) =>
            ClosedSilent(p)' \/ Len(silent') = Remembered
      /\ Len(silent) = Remembered => Len(silent') = Remembered
      /\ NobodyWaitsOnSilence'
  BY <1>1, ClosedEffect DEF KeptInv
<1>3. \A u : TextNow(u)' = TextNow(u)
  BY <1>2, SameTexts
<1>4. HeldWhileOpen'
  BY <1>1 DEF KeptInv, HeldWhileOpen
<1>5. RefusedOnlyOver'
  BY <1>1, AskParts DEF KeptInv, RefusedOnlyOver
<1>6. SpokenIsKnown'
  BY <1>1, <1>2, <1>3 DEF KeptInv, SpokenIsKnown
<1>7. OverIsKnown'
  BY <1>1, <1>2, <1>3 DEF KeptInv, OverIsKnown
<1> QED  BY <1>2, <1>4, <1>5, <1>6, <1>7 DEF KeptInv

(* Once the client left, only who waits matters. *)
LEMMA KeptGone ==
    ASSUME gone', NobodyWaitsOnSilence'
    PROVE  KeptInv'
BY DEF KeptInv, HeldWhileOpen, RefusedOnlyOver, SpokenIsKnown, OverIsKnown

LEMMA KeptText ==
    ASSUME TypeOK, KeptInv, NEW t \in Turns, TextArrives(t), UNCHANGED <<gone, shape>>,
           stage[t] \in {"guess", "final"}
    PROVE  KeptInv'
<1>1. PICK n \in 1 .. MaxPieces[t] :
         IF shape[t].translated THEN Remember(t, n) ELSE UNCHANGED contextVars
  BY DEF TextArrives
<1>2. /\ held' = held
      /\ \A u \in Turns : stage'[u] =
            IF u # t THEN stage[u] ELSE IF t \in held THEN "speaking" ELSE "done"
  BY DEF TextArrives, TypeOK
<1>3. UNCHANGED <<silent, waiters>>
  BY <1>1 DEF Remember, contextVars
<1>4. NobodyWaitsOnSilence' /\ \A u : ClosedSilent(u)' = ClosedSilent(u)
  BY <1>3 DEF KeptInv, NobodyWaitsOnSilence, ClosedSilent
<1>5. /\ Len(recent) = Remembered => Len(recent') = Remembered
      /\ \A p \in Turns \ {t} : TextNow(p) # NoText =>
            TextNow(p)' # NoText \/ Len(recent') = Remembered
      /\ shape[t].translated => TextNow(t)' # NoText
  <2>1. CASE shape[t].translated
    <3>1. n \in Nat \ {0} /\ <<t, n>> # NoText
      BY BoundsAssumption DEF Turns, NoText
    <3>2. Remember(t, n)
      BY <1>1, <2>1
    <3> QED  BY <3>1, <3>2, RememberEffect DEF TypeOK
  <2>2. CASE ~shape[t].translated
    BY <1>1, <2>2, SameTexts DEF contextVars
  <2> QED  BY <2>1, <2>2
<1>6. CASE gone
  BY <1>4, <1>6, KeptGone
<1>7. CASE ~gone
  <2>1. t \in held
    BY <1>7 DEF KeptInv, HeldWhileOpen
  <2>2. HeldWhileOpen'
    BY <1>2, <2>1 DEF KeptInv, HeldWhileOpen
  <2>3. RefusedOnlyOver'
    <3>1. RequestsOver(t)
      BY DEF TextArrives
    <3> QED  BY <1>2, <3>1, OverRefusesNobody, AskParts DEF KeptInv, RefusedOnlyOver
  <2>4. SpokenIsKnown'
    BY <1>2, <1>5, <2>1 DEF KeptInv, SpokenIsKnown
  <2>5. OverIsKnown'
    BY <1>2, <1>3, <1>4, <1>5, <2>1 DEF KeptInv, OverIsKnown
  <2> QED  BY <1>4, <2>2, <2>3, <2>4, <2>5 DEF KeptInv
<1> QED  BY <1>6, <1>7

LEMMA KeptInit == Init => KeptInv
BY DEF Init, ContextInit, NotAsked, Request, KeptInv, HeldWhileOpen,
   RefusedOnlyOver, SpokenIsKnown, OverIsKnown, NobodyWaitsOnSilence

LEMMA KeptStep == TypeOK /\ ToldInv /\ KeptInv /\ [Next]_vars => KeptInv'
<1> SUFFICES ASSUME TypeOK, ToldInv, KeptInv, [Next]_vars PROVE KeptInv'
  OBVIOUS
<1>w. ASSUME UNCHANGED silent, waiters' \subseteq waiters
      PROVE  NobodyWaitsOnSilence'
  BY <1>w DEF KeptInv, NobodyWaitsOnSilence, ClosedSilent
<1>1. ASSUME NEW t \in Turns, AnswerWaiters(t), UNCHANGED turnVars PROVE KeptInv'
  <2>1. NobodyWaitsOnSilence'
    BY <1>1, <1>w DEF AnswerWaiters, Tell
  <2> QED  BY <1>1, <2>1, KeptFrame DEF AnswerWaiters, turnVars
<1>2. ASSUME NEW a \in Asks, GoOn(a) PROVE KeptInv'
  <2>1. /\ UNCHANGED <<recent, silent, waiters, opened, gone, held, shape, stage>>
        /\ answer[a] # Unanswered
    BY <1>2 DEF GoOn, TakeAnswer
  <2>2. NobodyWaitsOnSilence'
    BY <1>w, <2>1
  <2>3. CASE gone
    BY <2>1, <2>2, <2>3, KeptGone
  <2>4. CASE ~gone
    <3>1. a[1] \in Turns /\ a[1] <= opened
      BY <2>1, AskParts DEF ToldInv, AnswerIsFresh
    <3>2. a[1] \notin held => stage[a[1]] = "done"
      BY <2>4, <3>1 DEF KeptInv, HeldWhileOpen, ToldInv, OpenedInOrder, TypeOK, Turns
    <3>3. \A b \in Asks : request'[b].status = "refused" =>
             request[b].status = "refused" \/ stage[b[1]] = "done"
      <4>1. CASE a[1] \notin held /\ request' = [request EXCEPT ![a] = Refused]
        BY <3>2, <4>1 DEF TypeOK
      <4>2. CASE Sent(a, answer[a])
        BY <4>2 DEF Sent, Request, TypeOK
      <4> QED  BY <1>2, <4>1, <4>2 DEF GoOn
    <3> QED  BY <2>1, <2>2, <3>3, KeptFrame
  <2> QED  BY <2>3, <2>4
<1>3. CASE Open
  <2>1. /\ UNCHANGED <<recent, silent, waiters, gone, request>>
        /\ opened + 1 \in Turns
        /\ held' = held \cup {opened + 1}
        /\ \A u \in Turns : /\ stage'[u] = IF u = opened + 1 THEN "listening" ELSE stage[u]
                            /\ u # opened + 1 => shape'[u] = shape[u]
    BY <1>3, BoundsAssumption DEF Open, contextVars, TypeOK, Turns
  <2>2. stage[opened + 1] = "new"
    BY <2>1 DEF ToldInv, OpenedInOrder, TypeOK
  <2>3. /\ \A t : TextNow(t)' = TextNow(t)
        /\ \A t : ClosedSilent(t)' = ClosedSilent(t)
    BY <2>1, SameTexts DEF ClosedSilent
  <2>4. NobodyWaitsOnSilence'
    BY <1>w, <2>1
  <2>5. HeldWhileOpen'
    BY <2>1 DEF KeptInv, HeldWhileOpen
  <2>6. RefusedOnlyOver'
    BY <2>1, <2>2, AskParts DEF KeptInv, RefusedOnlyOver
  <2>7. SpokenIsKnown'
    BY <2>1, <2>3 DEF KeptInv, SpokenIsKnown
  <2>8. OverIsKnown'
    BY <2>1, <2>3 DEF KeptInv, OverIsKnown
  <2> QED  BY <2>4, <2>5, <2>6, <2>7, <2>8 DEF KeptInv
<1>4. ASSUME NEW t \in Turns, Grow(t) PROVE KeptInv'
  <2>1. NobodyWaitsOnSilence'
    BY <1>4, <1>w DEF Grow, contextVars
  <2> QED  BY <1>4, <2>1, KeptFrame DEF Grow, contextVars
<1>5. ASSUME NEW t \in Turns, Speculate(t) PROVE KeptInv'
  <2>1. <<t, guess[t] + 1>> \in Asks
    BY SMTT(30), <1>5, AskParts, BoundsAssumption DEF Speculate, TypeOK, Turns
  <2>2. /\ UNCHANGED <<recent, silent>>
        /\ \A b \in Asks : request'[b].status = "refused" =>
              request[b].status = "refused"
        /\ NobodyWaitsOnSilence'
    BY <1>5, <2>1, AskForEffect DEF Speculate, KeptInv
  <2> QED  BY <1>5, <2>2, KeptFrame DEF Speculate
<1>m. ASSUME NEW t \in Turns, NEW next \in {"guess", "final"},
             stage[t] \in {"listening", "guess"},
             stage' = [stage EXCEPT ![t] = next],
             UNCHANGED <<recent, silent, gone, held, shape>>,
             \A b \in Asks : request'[b].status = "refused" =>
                request[b].status = "refused",
             NobodyWaitsOnSilence'
      PROVE  KeptInv'
  <2>1. /\ \A u : TextNow(u)' = TextNow(u)
        /\ \A u : ClosedSilent(u)' = ClosedSilent(u)
    BY <1>m, SameTexts DEF ClosedSilent
  <2>2. \A u \in Turns : stage'[u] = IF u = t THEN next ELSE stage[u]
    BY <1>m DEF TypeOK
  <2>3. HeldWhileOpen'
    BY <1>m, <2>2 DEF KeptInv, HeldWhileOpen
  <2>4. RefusedOnlyOver'
    BY <1>m, <2>2, AskParts DEF KeptInv, RefusedOnlyOver
  <2>5. SpokenIsKnown'
    BY <1>m, <2>1, <2>2 DEF KeptInv, SpokenIsKnown
  <2>6. OverIsKnown'
    BY <1>m, <2>1, <2>2 DEF KeptInv, OverIsKnown
  <2> QED  BY <1>m, <2>3, <2>4, <2>5, <2>6 DEF KeptInv
<1>6. ASSUME NEW t \in Turns, End(t) PROVE KeptInv'
  <2>1. UNCHANGED <<gone, held, shape>> /\ stage[t] = "listening"
    BY <1>6 DEF End, IsListening
  <2>2. CASE stage' = [stage EXCEPT ![t] = "guess"] /\ UNCHANGED <<contextVars, request>>
    <3>1. NobodyWaitsOnSilence'
      BY <1>w, <2>2 DEF contextVars
    <3> QED  BY <1>m, <2>1, <2>2, <3>1 DEF contextVars
  <2>3. CASE stage' = [stage EXCEPT ![t] = "final"] /\ AskFor(FinalAsk(t))
    <3>1. /\ UNCHANGED <<recent, silent>>
          /\ \A b \in Asks : request'[b].status = "refused" =>
                request[b].status = "refused"
          /\ NobodyWaitsOnSilence'
      BY <2>3, AskParts, AskForEffect DEF KeptInv
    <3> QED  BY <1>m, <2>1, <2>3, <3>1
  <2> QED  BY <1>6, <2>2, <2>3 DEF End
<1>7. ASSUME NEW t \in Turns, CloseUnheard(t) PROVE KeptInv'
  BY <1>7, KeptClose DEF CloseUnheard
<1>8. CASE Disconnect
  BY <1>8, KeptGone DEF Disconnect, Forget, NobodyWaitsOnSilence
<1>9. ASSUME NEW t \in Turns, UseGuess(t) PROVE KeptInv'
  <2>1. /\ UNCHANGED <<opened, gone, shape, guess, grown>>
        /\ stage[t] = "guess"
    BY <1>9 DEF UseGuess
  <2>2. CASE TextArrives(t)
    BY <2>1, <2>2, KeptText
  <2>3. CASE TextFails(t)
    BY <2>1, <2>3, KeptClose, OverRefusesNobody DEF TextFails
  <2>4. CASE /\ stage' = [stage EXCEPT ![t] = "final"]
             /\ AskFor(FinalAsk(t))
             /\ UNCHANGED <<held, said>>
    <3>1. /\ UNCHANGED <<recent, silent>>
          /\ \A b \in Asks : request'[b].status = "refused" =>
                request[b].status = "refused"
          /\ NobodyWaitsOnSilence'
      BY <2>4, AskParts, AskForEffect DEF KeptInv
    <3> QED  BY <1>m, <2>1, <2>4, <3>1
  <2>5. CASE request[GuessAsk(t)].status = "refused" /\ Abandon(t)
    <3>1. GuessAsk(t) \in Asks /\ GuessAsk(t)[1] = t
      BY SMTT(30), AskParts, BoundsAssumption DEF GuessAsk, TypeOK, Turns
    <3>2. gone
      BY <2>1, <2>5, <3>1 DEF KeptInv, RefusedOnlyOver
    <3>3. NobodyWaitsOnSilence'
      BY <1>w, <2>5 DEF Abandon, contextVars
    <3> QED  BY <2>1, <3>2, <3>3, KeptGone
  <2> QED  BY <1>9, <2>2, <2>3, <2>4, <2>5 DEF UseGuess
<1>10. ASSUME NEW t \in Turns, FinalAnswers(t) PROVE KeptInv'
  <2>1. CASE TextArrives(t)
    BY <1>10, <2>1, KeptText DEF FinalAnswers
  <2>2. CASE TextFails(t)
    BY <1>10, <2>2, KeptClose, OverRefusesNobody DEF TextFails, FinalAnswers
  <2> QED  BY <1>10, <2>1, <2>2 DEF FinalAnswers
<1>11. ASSUME NEW t \in Turns, Deliver(t) PROVE KeptInv'
  <2>1. CASE t \in held
    BY <1>11, <2>1, KeptClose DEF Deliver
  <2>2. CASE t \notin held
    <3>1. gone /\ gone' /\ Abandon(t)
      BY <1>11, <2>2 DEF Deliver, KeptInv, HeldWhileOpen
    <3>2. NobodyWaitsOnSilence'
      BY <1>w, <3>1 DEF Abandon, contextVars
    <3> QED  BY <3>1, <3>2, KeptGone
  <2> QED  BY <2>1, <2>2
<1>12. ASSUME NEW a \in Asks, WaitExpires(a) PROVE KeptInv'
  <2>1. NobodyWaitsOnSilence'
    BY <1>12, <1>w DEF WaitExpires, TimeOut
  <2> QED  BY <1>12, <2>1, KeptFrame DEF WaitExpires, TimeOut, turnVars
<1>13. CASE UNCHANGED vars
  <2>1. NobodyWaitsOnSilence'
    BY <1>13, <1>w DEF vars, contextVars
  <2> QED  BY <1>13, <2>1, KeptFrame DEF vars, contextVars, turnVars
<1> QED
  BY <1>1, <1>2, <1>3, <1>4, <1>5, <1>6, <1>7, <1>8, <1>9, <1>10, <1>11, <1>12,
     <1>13 DEF Next, Microtask, ClientStep, TurnStep

LEMMA KeptMeans == TypeOK /\ ToldInv /\ KeptInv => NoWaitOnTheSettled
<1> SUFFICES ASSUME TypeOK, ToldInv, KeptInv, NEW a \in waiters, Drained, ~gone
             PROVE  /\ stage[About(a)] = "speaking" /\ shape[About(a)].translated =>
                          Len(recent) = Remembered
                    /\ stage[About(a)] = "done" =>
                          Len(recent) = Remembered \/ Len(silent) = Remembered
  BY DEF NoWaitOnTheSettled
<1>1. Continues(a[1]) /\ TextNow(About(a)) = NoText
  BY DEF ToldInv, WaitsForNothing, Drained
<1>2. About(a) \in Turns
  BY <1>1, PredecessorIsATurn DEF TypeOK
<1>3. ~ClosedSilent(About(a))
  BY DEF KeptInv, NobodyWaitsOnSilence
<1> QED  BY <1>1, <1>2, <1>3 DEF KeptInv, SpokenIsKnown, OverIsKnown

(* However turns end, and however many end at once, nobody sits out the     *)
(* deadline for one that is over, unless a full memory let it go.           *)
THEOREM NobodyWaitsOnTheSettled == Spec => []NoWaitOnTheSettled
<1> DEFINE Inv == TypeOK /\ ToldInv /\ KeptInv
<1>1. Init => Inv
  BY TypeInit, ToldInit, KeptInit
<1>2. Inv /\ [Next]_vars => Inv'
  BY TypeStep, ToldStep, KeptStep
<1>3. Inv => NoWaitOnTheSettled
  BY KeptMeans
<1> HIDE DEF Inv
<1> QED  BY <1>1, <1>2, <1>3, PTL DEF Spec

=============================================================================
