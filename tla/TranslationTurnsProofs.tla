----------------------- MODULE TranslationTurnsProofs -----------------------
(***************************************************************************)
(* The turn's life for any sockets, turns and settings.  Every step of     *)
(* TranslationTurns is a step of the registry or leaves it alone, so the   *)
(* registry's theorems carry over; on top of its type, the accounting and  *)
(* the reuse of a guess are inductive.                                     *)
(*                                                                         *)
(* Flow ties what a client heard last to the stage and the speech of its   *)
(* turn: with it every step is a step of TurnContract or none, and a held  *)
(* turn is seen to leave only with its client or by its own end.           *)
(***************************************************************************)
EXTENDS TranslationTurns, TurnRegistryProofs, SequenceTheorems

(* What each step does to the registry: opening, refusing, dropping or      *)
(* losing turns as RegistryNext allows, or nothing.                         *)
LEMMA StepsAreRegistrySteps ==
    ASSUME RegistryTypeOK, [Next]_vars
    PROVE  [RegistryNext]_registryVars
<1>1. ASSUME NEW closing \in SUBSET Turns, NEW reason, NEW errors,
             Finish(closing, reason, errors)
      PROVE  [RegistryNext]_registryVars
  <2>1. CASE closing \cap open = {}
    BY <1>1, <2>1 DEF Finish, CloseTurns, RegistryTypeOK, registryVars
  <2>2. CASE closing \cap open # {}
    <3>1. closing \cap open \in SUBSET open
      OBVIOUS
    <3>2. CloseTurns(closing \cap open)
      BY <1>1 DEF Finish, CloseTurns, RegistryTypeOK
    <3> QED  BY <2>2, <3>1, <3>2 DEF RegistryNext
  <2> QED  BY <2>1, <2>2
<1>2. ASSUME NEW s \in Sockets, NEW t \in Turns, NEW o \in Options,
             OpenTurn(s, t, o) \/ RefuseTurn(s, t, o)
      PROVE  [RegistryNext]_registryVars
  <2>1. o.meets \in BOOLEAN /\ o.mode \in Modes
    BY OptionsType DEF Setting
  <2> QED  BY <1>2, <2>1 DEF OpenTurn, RefuseTurn, RegistryNext
<1>3. ASSUME NEW s \in Sockets, LoseClient(s)
      PROVE  [RegistryNext]_registryVars
  BY <1>3 DEF LoseClient, RegistryNext
<1>4. CASE SweepIdleTurns
  <2>1. {t \in open : IsListening(t) /\ quiet[t]} \in SUBSET Turns
    BY DEF RegistryTypeOK
  <2> QED  BY <1>1, <1>4, <2>1 DEF SweepIdleTurns
<1>5. ASSUME NEW t \in Turns,
             OverflowFrame(t) \/ EndEmpty(t) \/ UseGuess(t) \/ FinalAnswers(t)
             \/ RespellAnswers(t) \/ Deliver(t)
      PROVE  [RegistryNext]_registryVars
  <2>1. (\E reason, errors : Finish({t}, reason, errors)) \/ UNCHANGED registryVars
    BY <1>5 DEF OverflowFrame, EndEmpty, UseGuess, FinalAnswers,
                RespellAnswers, Deliver, TextArrives, TextIsSilent, TextFails,
                LineOut, Abandon
  <2> QED  BY <1>1, <2>1
<1>6. ASSUME NEW t \in Turns,
             AcceptFrame(t) \/ RejectFrame(t) \/ EndAgain(t) \/ GoQuiet(t)
             \/ Speculate(t) \/ LaunchGuess(t)
             \/ GuessAnswers(t) \/ End(t) \/ EmbedAnswers(t)
             \/ GuessDisagrees(t) \/ VoiceArrives(t) \/ QueuedSpeechBegins(t)
             \/ StreamOpens(t) \/ StreamYields(t) \/ ClauseAnswers(t)
             \/ ReportFramingFault(t)
      PROVE  UNCHANGED registryVars
  BY <1>6 DEF AcceptFrame, RejectFrame, EndAgain, Refuse, GoQuiet, Speculate,
              LaunchGuess, GuessAnswers, End, EmbedAnswers, GuessDisagrees,
              VoiceArrives, QueuedSpeechBegins, StreamOpens, StreamYields,
              ClauseAnswers, ReportFramingFault
<1>7. CASE UNCHANGED vars
  BY <1>7 DEF vars
<1> QED  BY <1>2, <1>3, <1>4, <1>5, <1>6, <1>7
         DEF Next, ClientStep, Timer, ServerStep, Continue, Answer

(* The turns refine the registry they extend: start, close and disconnect   *)
(* are all that ever happens to it.                                         *)
THEOREM TurnsRefineRegistry == Spec => RegistrySpec
<1>1. Init => RegistryInit
  BY DEF Init
<1>2. RegistryInit => RegistryTypeOK
  BY DEF RegistryInit, RegistryTypeOK
<1>3. RegistryTypeOK /\ [Next]_vars => RegistryTypeOK'
  BY StepsAreRegistrySteps, RegistryTyping
<1> QED  BY <1>1, <1>2, <1>3, StepsAreRegistrySteps, PTL DEF Spec, RegistrySpec

(* The four ceilings hold through everything that happens to a turn, for    *)
(* any sockets, accounts and settings.                                      *)
THEOREM TurnsKeepCeilings == Spec => []CeilingsHold
BY TurnsRefineRegistry, CeilingsAlwaysHold, PTL

(* A connection that went away holds no turn and no slot, whichever of its  *)
(* turns were still being translated or spoken.                             *)
THEOREM TurnsLeaveNothingBehind == Spec => []GoneHoldsNothing
BY TurnsRefineRegistry, GoneAlwaysHoldsNothing, PTL

-----------------------------------------------------------------------------
(* Telling a client an event keeps the types of what was sent. *)
LEMMA TellTyping ==
    ASSUME TypeOK, NEW t \in Turns, NEW events \in Seq(Events)
    PROVE  Tell(t, events) \in Seq(Events)
<1>1. sent[t] \in Seq(Events)
  BY DEF TypeOK
<1>2. sent[t] \o events \in Seq(Events)
  BY <1>1, ConcatProperties
<1> QED  BY <1>1, <1>2 DEF Tell

(* Filing a row keeps the types of what was filed. *)
LEMMA FileTyping ==
    ASSUME TypeOK, NEW t \in Turns, NEW reason \in Reasons
    PROVE  Append(rows[t], reason) \in Seq(Reasons)
<1>1. rows[t] \in Seq(Reasons)
  BY DEF TypeOK
<1> QED  BY <1>1, AppendProperties

(* Finishing turns keeps the types. *)
LEMMA FinishTyping ==
    ASSUME TypeOK, NEW closing \in SUBSET Turns, NEW reason \in Reasons,
           NEW errors \in Seq(Events), Finish(closing, reason, errors)
    PROVE  /\ stage' \in [Turns -> Stages]
           /\ rows' \in [Turns -> Seq(Reasons)]
           /\ sent' \in [Turns -> Seq(Events)]
<1>1. errors \o <<"ended">> \in Seq(Events)
  <2>1. <<"ended">> \in Seq(Events)
    BY DEF Events
  <2> QED  BY <2>1, ConcatProperties
<1>2. \A t \in Turns : Tell(t, errors \o <<"ended">>) \in Seq(Events)
  BY <1>1, TellTyping
<1>3. \A t \in Turns : Append(rows[t], reason) \in Seq(Reasons)
  BY FileTyping
<1>4. stage' \in [Turns -> Stages]
  BY DEF Finish, TypeOK, Stages
<1>5. rows' \in [Turns -> Seq(Reasons)]
  BY <1>3 DEF Finish, TypeOK
<1>6. sent' \in [Turns -> Seq(Events)]
  BY <1>2 DEF Finish, TypeOK
<1> QED  BY <1>4, <1>5, <1>6

(* Abandoning turns keeps the types. *)
LEMMA AbandonTyping ==
    ASSUME TypeOK, NEW t \in Turns, Abandon(t)
    PROVE  /\ stage' \in [Turns -> Stages]
           /\ rows' \in [Turns -> Seq(Reasons)]
           /\ sent' \in [Turns -> Seq(Events)]
<1>1. Append(rows[t], "abandoned") \in Seq(Reasons)
  BY FileTyping DEF Reasons
<1> QED  BY <1>1 DEF Abandon, File, TypeOK, Stages

(* Beginning speech keeps the types. *)
LEMMA BeginSpeechTyping ==
    ASSUME TypeOK, NEW t \in Turns, BeginSpeech(t)
    PROVE  /\ speech' \in [Turns -> Speeches]
           /\ \A u \in Turns : speech'[u] = "clause" => speech[u] = "clause"
BY DEF BeginSpeech, FirstSpeech, TypeOK, Speeches, Outcomes

(* Sending the line keeps the types. *)
LEMMA LineOutTyping ==
    ASSUME TypeOK, NEW t \in Turns, LineOut(t)
    PROVE  /\ stage' \in [Turns -> Stages]
           /\ rows' \in [Turns -> Seq(Reasons)]
           /\ sent' \in [Turns -> Seq(Events)]
           /\ speech' \in [Turns -> Speeches]
           /\ \A u \in Turns : speech'[u] = "clause" => speech[u] = "clause"
<1>1. Tell(t, <<"final">>) \in Seq(Events)
  <2>1. <<"final">> \in Seq(Events)
    BY DEF Events
  <2> QED  BY <2>1, TellTyping
<1>2. /\ speech' \in [Turns -> Speeches]
      /\ \A u \in Turns : speech'[u] = "clause" => speech[u] = "clause"
  BY BeginSpeechTyping DEF LineOut, TypeOK
<1> QED  BY <1>1, <1>2 DEF LineOut, TypeOK, Stages

(* What follows the text of a turn keeps the types. *)
LEMMA TextTyping ==
    ASSUME TypeOK, NEW t \in Turns,
           TextArrives(t) \/ TextIsSilent(t) \/ TextFails(t)
    PROVE  /\ stage' \in [Turns -> Stages]
           /\ rows' \in [Turns -> Seq(Reasons)]
           /\ sent' \in [Turns -> Seq(Events)]
           /\ speech' \in [Turns -> Speeches]
           /\ \A u \in Turns : speech'[u] = "clause" => speech[u] = "clause"
<1>1. CASE TextArrives(t)
  <2>1. CASE LineOut(t)
    BY <2>1, LineOutTyping
  <2>2. CASE Abandon(t) /\ UNCHANGED speech
    BY <2>2, AbandonTyping DEF TypeOK
  <2>3. CASE /\ stage' = [stage EXCEPT ![t] = "respell"]
             /\ speech' = [speech EXCEPT ![t] = IF opt[t].voice THEN "queued" ELSE @]
             /\ UNCHANGED <<registryVars, sent, rows>>
    BY <2>3 DEF TypeOK, Stages, Speeches
  <2> QED  BY <1>1, <2>1, <2>2, <2>3 DEF TextArrives
<1>2. CASE TextIsSilent(t)
  <2>1. "no_speech" \in Reasons /\ <<>> \in Seq(Events)
    BY DEF Reasons
  <2> QED  BY <1>2, <2>1, FinishTyping DEF TextIsSilent, TypeOK
<1>3. CASE TextFails(t)
  <2>1. "error" \in Reasons /\ <<"error">> \in Seq(Events)
    BY DEF Reasons, Events
  <2> QED  BY <1>3, <2>1, FinishTyping DEF TextFails, TypeOK
<1> QED  BY <1>1, <1>2, <1>3

(* What a listening turn buffers, guesses and is ended by.                  *)
LEMMA ListeningTyping ==
    ASSUME TypeOK, NEW t \in Turns,
           AcceptFrame(t) \/ OverflowFrame(t) \/ GoQuiet(t) \/ Speculate(t)
           \/ LaunchGuess(t) \/ GuessAnswers(t) \/ EndEmpty(t) \/ End(t)
           \/ EmbedAnswers(t) \/ GuessDisagrees(t)
           \/ RejectFrame(t) \/ EndAgain(t), RegistryTypeOK'
    PROVE  TypeOK'
<1>1. "turn_too_long" \in Reasons /\ "no_audio" \in Reasons
      /\ <<"error">> \in Seq(Events)
  BY DEF Reasons, Events
<1>2. CASE AcceptFrame(t)
  BY <1>2, BoundsType, SMTT(30) DEF AcceptFrame, TypeOK
<1>3. CASE OverflowFrame(t)
  BY <1>1, <1>3, FinishTyping DEF OverflowFrame, TypeOK
<1>4. CASE GoQuiet(t)
  BY <1>4 DEF GoQuiet, TypeOK
<1>5. CASE Speculate(t)
  BY <1>5, BoundsType DEF Speculate, CanRenew, TypeOK, Works
<1>6. CASE LaunchGuess(t)
  BY ZenonT(40), <1>6 DEF LaunchGuess, TypeOK, Works
<1>7. CASE GuessAnswers(t)
  <2>1. PICK work \in {"text", "silent", "failed"} :
             guess' = [guess EXCEPT ![t].work = work]
    BY <1>7 DEF GuessAnswers
  <2>2. guess' \in [Turns -> [at : 0 .. MaxBytes, work : Works]]
    BY <2>1 DEF TypeOK, Works
  <2> QED  BY <1>7, <2>2 DEF GuessAnswers, TypeOK
<1>8. CASE EndEmpty(t)
  BY <1>1, <1>8, FinishTyping DEF EndEmpty, TypeOK
<1>9. CASE End(t)
  BY <1>9 DEF End, TypeOK, Stages
<1>10. CASE EmbedAnswers(t)
  BY <1>10 DEF EmbedAnswers, TypeOK
<1>11. CASE GuessDisagrees(t)
  BY <1>11 DEF GuessDisagrees, TypeOK, Stages
<1>12. CASE RejectFrame(t) \/ EndAgain(t)
  BY <1>12 DEF RejectFrame, EndAgain, Refuse, TypeOK
<1> QED  BY <1>2, <1>3, <1>4, <1>5, <1>6, <1>7, <1>8, <1>9, <1>10, <1>11, <1>12

(* From the text to the end of the speech.                                  *)
LEMMA DeliveryTyping ==
    ASSUME TypeOK, NEW t \in Turns,
           UseGuess(t) \/ FinalAnswers(t) \/ RespellAnswers(t) \/ VoiceArrives(t)
           \/ QueuedSpeechBegins(t) \/ StreamOpens(t) \/ StreamYields(t)
           \/ ClauseAnswers(t) \/ ReportFramingFault(t) \/ Deliver(t), RegistryTypeOK'
    PROVE  TypeOK'
<1>0. Tell(t, <<"voice">>) \in Seq(Events) /\ Tell(t, <<"audio">>) \in Seq(Events)
      /\ Tell(t, <<"error">>) \in Seq(Events)
  <2>1. <<"voice">> \in Seq(Events) /\ <<"audio">> \in Seq(Events)
        /\ <<"error">> \in Seq(Events)
    BY DEF Events
  <2> QED  BY <2>1, TellTyping
<1>1. TellAudio(t) \in Seq(Events)
  BY <1>0 DEF TellAudio, TypeOK
<1>2. CASE UseGuess(t)
  <2>1. CASE Abandon(t) /\ UNCHANGED speech
    BY <1>2, <2>1, AbandonTyping DEF UseGuess, TypeOK
  <2>2. CASE TextArrives(t) \/ TextIsSilent(t) \/ TextFails(t)
    BY <1>2, <2>2, TextTyping DEF UseGuess, TypeOK
  <2> QED  BY <1>2, <2>1, <2>2 DEF UseGuess
<1>3. CASE FinalAnswers(t)
  BY <1>3, TextTyping DEF FinalAnswers, TypeOK
<1>4. CASE RespellAnswers(t)
  BY <1>4, AbandonTyping, LineOutTyping DEF RespellAnswers, TypeOK
<1>5. CASE VoiceArrives(t)
  BY <1>5, <1>0, BeginSpeechTyping DEF VoiceArrives, TypeOK, Stages
<1>6. CASE QueuedSpeechBegins(t)
  BY <1>6, BeginSpeechTyping DEF QueuedSpeechBegins, TypeOK
<1>7. CASE StreamOpens(t)
  <2>1. CASE \E n \in 1 .. MaxClauses : /\ Speaks(t, "clause")
                                        /\ clauses' = [clauses EXCEPT ![t] = n]
    <3>1. PICK n \in 1 .. MaxClauses : clauses' = [clauses EXCEPT ![t] = n]
      BY <2>1
    <3>2. clauses' \in [Turns -> 0 .. MaxClauses] /\ clauses'[t] # 0
      BY <3>1, BoundsType DEF TypeOK
    <3>3. speech' = [speech EXCEPT ![t] = "clause"]
      BY <2>1 DEF Speaks
    <3>4. speech' \in [Turns -> Speeches]
      BY <3>3 DEF TypeOK, Speeches
    <3>5. \A u \in Turns : speech'[u] = "clause" => clauses'[u] # 0
      BY <3>1, <3>2, <3>3 DEF TypeOK
    <3> QED  BY <1>7, <3>2, <3>4, <3>5 DEF StreamOpens, TypeOK
  <2>2. CASE UNCHANGED clauses /\ \E to \in Speeches \ {"clause"} : Speaks(t, to)
    <3>1. /\ speech' \in [Turns -> Speeches]
          /\ \A u \in Turns : speech'[u] = "clause" => speech[u] = "clause"
      BY <2>2 DEF Speaks, TypeOK
    <3> QED  BY <1>7, <2>2, <3>1 DEF StreamOpens, TypeOK
  <2> QED  BY <1>7, <2>1, <2>2 DEF StreamOpens, Speeches, Outcomes
<1>8. CASE StreamYields(t)
  <2>1. sent' \in [Turns -> Seq(Events)]
    BY <1>8, <1>1 DEF StreamYields, TypeOK
  <2>2. CASE UNCHANGED speech
    BY <1>8, <2>1, <2>2 DEF StreamYields, TypeOK
  <2>3. CASE \E to \in Speeches \ {"clause"} : Speaks(t, to)
    <3>1. /\ speech' \in [Turns -> Speeches]
          /\ \A u \in Turns : speech'[u] = "clause" => speech[u] = "clause"
      BY <2>3 DEF Speaks, TypeOK
    <3> QED  BY <1>8, <2>1, <3>1 DEF StreamYields, TypeOK
  <2> QED  BY <1>8, <2>2, <2>3 DEF StreamYields, Speeches, Outcomes
<1>9. CASE ClauseAnswers(t)
  <2>1. sent' \in [Turns -> Seq(Events)]
    BY <1>9, <1>1 DEF ClauseAnswers, TypeOK
  <2>2. CASE /\ clauses' = [clauses EXCEPT ![t] = @ - 1]
             /\ Speaks(t, IF clauses[t] = 1 THEN "spoken"
                          ELSE IF t \in open THEN "clause" ELSE "client_gone")
    <3>1. clauses[t] \in 0 .. MaxClauses /\ clauses[t] # 0
      BY <1>9 DEF ClauseAnswers, TypeOK
    <3>2. clauses[t] - 1 \in 0 .. MaxClauses /\ (clauses[t] # 1 => clauses[t] - 1 # 0)
      BY <3>1, BoundsType
    <3>3. clauses' \in [Turns -> 0 .. MaxClauses] /\ speech' \in [Turns -> Speeches]
      BY <2>2, <3>2 DEF Speaks, TypeOK, Speeches, Outcomes
    <3>4. \A u \in Turns : speech'[u] = "clause" => clauses'[u] # 0
      BY <2>2, <3>2 DEF Speaks, TypeOK
    <3> QED  BY <1>9, <2>1, <3>3, <3>4 DEF ClauseAnswers, TypeOK
  <2>3. CASE UNCHANGED clauses /\ \E to \in Speeches \ {"clause"} : Speaks(t, to)
    <3>1. /\ speech' \in [Turns -> Speeches]
          /\ \A u \in Turns : speech'[u] = "clause" => speech[u] = "clause"
      BY <2>3 DEF Speaks, TypeOK
    <3> QED  BY <1>9, <2>1, <2>3, <3>1 DEF ClauseAnswers, TypeOK
  <2> QED  BY <1>9, <2>2, <2>3 DEF ClauseAnswers, Speeches, Outcomes
<1>10. CASE ReportFramingFault(t)
  BY <1>10, <1>0 DEF ReportFramingFault, Speaks, TypeOK, Speeches, Outcomes
<1>11. CASE Deliver(t)
  <2>1. \A outcome \in {"engine_busy", "unsupported_audio", "completed", "error"} :
           outcome \in Reasons
    BY DEF Reasons
  <2>2. <<>> \in Seq(Events) /\ <<"error">> \in Seq(Events)
    BY DEF Events
  <2>3. Abandon(t) \/ \E reason \in Reasons, errors \in Seq(Events) :
                         Finish({t}, reason, errors)
    BY <1>11, <2>1, <2>2 DEF Deliver, Outcomes
  <2>4. /\ stage' \in [Turns -> Stages]
        /\ rows' \in [Turns -> Seq(Reasons)]
        /\ sent' \in [Turns -> Seq(Events)]
    BY <2>3, AbandonTyping, FinishTyping
  <2> QED  BY <1>11, <2>4 DEF Deliver, TypeOK
<1> QED  BY <1>2, <1>3, <1>4, <1>5, <1>6, <1>7, <1>8, <1>9, <1>10, <1>11

(* Every step of a turn keeps the types. *)
LEMMA TurnTyping ==
    ASSUME TypeOK, [Next]_vars
    PROVE  TypeOK'
<1>0. RegistryTypeOK'
  BY StepsAreRegistrySteps, RegistryTyping DEF TypeOK
<1>1. ASSUME NEW s \in Sockets, NEW t \in Turns, NEW o \in Options,
             OpenTurn(s, t, o)
      PROVE  TypeOK'
  <2>1. o \in Setting /\ [o EXCEPT !.mode = "declared"] \in Setting
    BY OptionsType DEF Setting, Modes
  <2>2. <<"ready">> \in Seq(Events)
    BY DEF Events
  <2> QED  BY <1>0, <1>1, <2>1, <2>2 DEF OpenTurn, TypeOK, Stages
<1>2. ASSUME NEW s \in Sockets, NEW t \in Turns, NEW o \in Options,
             RefuseTurn(s, t, o)
      PROVE  TypeOK'
  BY <1>0, <1>2 DEF RefuseTurn, turnVars, TypeOK
<1>3. ASSUME NEW s \in Sockets, LoseClient(s)
      PROVE  TypeOK'
  BY <1>0, <1>3 DEF LoseClient, turnVars, TypeOK
<1>4. CASE SweepIdleTurns
  <2>1. "idle_timeout" \in Reasons /\ <<"error">> \in Seq(Events)
    BY DEF Reasons, Events
  <2>2. {t \in open : IsListening(t) /\ quiet[t]} \in SUBSET Turns
    BY DEF TypeOK, RegistryTypeOK
  <2> QED  BY <1>0, <1>4, <2>1, <2>2, FinishTyping DEF SweepIdleTurns, TypeOK
<1>5. CASE UNCHANGED vars
  BY <1>0, <1>5 DEF vars, turnVars, TypeOK
<1> QED  BY <1>0, <1>1, <1>2, <1>3, <1>4, <1>5, ListeningTyping, DeliveryTyping
         DEF Next, ClientStep, Timer, ServerStep, Continue, Answer

(* Every variable keeps its type through every interleaving of clients,     *)
(* timers and answers: no turn buffers past its cap, guesses more often     *)
(* than it may, or files a reason nobody reads.                             *)
THEOREM TurnTypeCorrect == Spec => []TypeOK
<1>1. Init => TypeOK
  BY BoundsType DEF Init, RegistryInit, RegistryTypeOK, TypeOK, NoOptions,
     NoGuess, Setting, Modes, Stages, Works, Speeches, Outcomes
<1>2. TypeOK /\ [Next]_vars => TypeOK'
  BY TurnTyping
<1> QED  BY <1>1, <1>2, PTL DEF Spec

-----------------------------------------------------------------------------
(* A row is filed by the step that ends a turn's life, and only a turn that *)
(* was opened has one: together with AccountedOnce, what every step keeps.  *)
NewUntilOpened == \A t \in Turns : owner[t] = NoOwner => stage[t] = "new"

AccountInv == TypeOK /\ AccountedOnce /\ NewUntilOpened

(* Filing is safe for turns that are not over.                              *)
LEMMA FinishFilesOnce ==
    ASSUME AccountInv, NEW closing \in SUBSET Turns, NEW reason, NEW errors,
           \A t \in closing : stage[t] \notin {"new", "done"},
           Finish(closing, reason, errors)
    PROVE  AccountedOnce' /\ NewUntilOpened'
<1>1. rows \in [Turns -> Seq(Reasons)]
  BY DEF AccountInv, TypeOK
<1>2. \A t \in Turns : t \notin closing => stage'[t] = stage[t] /\ rows'[t] = rows[t]
  BY DEF Finish
<1>3. \A t \in closing : stage'[t] = "done" /\ Len(rows'[t]) = Len(rows[t]) + 1
  BY <1>1 DEF Finish
<1>4. AccountedOnce'
  BY <1>2, <1>3 DEF AccountInv, AccountedOnce
<1>5. NewUntilOpened'
  BY <1>2, <1>3 DEF AccountInv, NewUntilOpened, Finish, CloseTurns
<1> QED  BY <1>4, <1>5

(* Abandoning turns files what is not on record. *)
LEMMA AbandonFilesOnce ==
    ASSUME AccountInv, NEW t \in Turns, stage[t] \notin {"new", "done"}, Abandon(t)
    PROVE  AccountedOnce' /\ NewUntilOpened'
<1>1. rows \in [Turns -> Seq(Reasons)] /\ stage \in [Turns -> Stages]
  BY DEF AccountInv, TypeOK
<1>2. \A u \in Turns : u # t => stage'[u] = stage[u] /\ rows'[u] = rows[u]
  BY <1>1 DEF Abandon, File
<1>3. stage'[t] = "done" /\ Len(rows'[t]) = Len(rows[t]) + 1
  BY <1>1 DEF Abandon, File
<1>4. AccountedOnce'
  BY <1>2, <1>3 DEF AccountInv, AccountedOnce
<1>5. NewUntilOpened'
  BY <1>2, <1>3 DEF AccountInv, NewUntilOpened, Abandon, registryVars
<1> QED  BY <1>4, <1>5

(* A step that files nothing and moves a running turn to another stage of   *)
(* its run, or none.                                                        *)
LEMMA MovingFilesNothing ==
    ASSUME AccountInv, UNCHANGED <<owner, rows>>,
           \A t \in Turns : \/ stage'[t] = stage[t]
                            \/ {stage[t], stage'[t]} \cap {"new", "done"} = {}
    PROVE  AccountedOnce' /\ NewUntilOpened'
BY DEF AccountInv, AccountedOnce, NewUntilOpened

(* What follows the text of a turn files a row at most once. *)
LEMMA TextFilesOnce ==
    ASSUME AccountInv, NEW t \in Turns, stage[t] \in {"guess", "final"},
           TextArrives(t) \/ TextIsSilent(t) \/ TextFails(t)
    PROVE  AccountedOnce' /\ NewUntilOpened'
<1>1. CASE TextIsSilent(t) \/ TextFails(t)
  BY <1>1, FinishFilesOnce DEF TextIsSilent, TextFails
<1>2. CASE TextArrives(t)
  <2>1. CASE Abandon(t)
    BY <2>1, AbandonFilesOnce
  <2>2. CASE ~Abandon(t)
    BY <1>2, <2>2, MovingFilesNothing
       DEF TextArrives, LineOut, AccountInv, TypeOK, registryVars
  <2> QED  BY <2>1, <2>2
<1> QED  BY <1>1, <1>2

(* No step files a second row of a turn. *)
LEMMA StepsFileOnce ==
    ASSUME AccountInv, [Next]_vars
    PROVE  AccountedOnce' /\ NewUntilOpened'
<1>0. /\ TypeOK /\ AccountedOnce /\ NewUntilOpened
      /\ stage \in [Turns -> Stages] /\ open \subseteq Turns
  BY DEF AccountInv, TypeOK, RegistryTypeOK
<1>1. ASSUME NEW s \in Sockets, NEW t \in Turns, NEW o \in Options,
             OpenTurn(s, t, o) \/ RefuseTurn(s, t, o)
      PROVE  AccountedOnce' /\ NewUntilOpened'
  <2>1. CASE OpenTurn(s, t, o)
    <3>1. stage[t] = "new" /\ s # NoOwner
      BY <1>0, <2>1, NoOwnerIsNobody DEF OpenTurn, Start, NewUntilOpened
    <3> QED  BY <1>0, <2>1, <3>1 DEF OpenTurn, Start, AccountedOnce,
                                     NewUntilOpened, TypeOK, RegistryTypeOK
  <2>2. CASE RefuseTurn(s, t, o)
    BY <1>0, <2>2 DEF RefuseTurn, RefuseLanguage, turnVars, AccountedOnce,
                      NewUntilOpened
  <2> QED  BY <1>1, <2>1, <2>2
<1>2. ASSUME NEW s \in Sockets, LoseClient(s)
      PROVE  AccountedOnce' /\ NewUntilOpened'
  BY <1>2, MovingFilesNothing DEF LoseClient, Disconnect, turnVars
<1>3. CASE SweepIdleTurns
  <2>1. {t \in open : IsListening(t) /\ quiet[t]} \in SUBSET Turns
    BY <1>0
  <2> QED  BY <1>3, <2>1, FinishFilesOnce DEF SweepIdleTurns, IsListening
<1>4. ASSUME NEW t \in Turns, OverflowFrame(t) \/ EndEmpty(t)
      PROVE  AccountedOnce' /\ NewUntilOpened'
  BY <1>4, FinishFilesOnce DEF OverflowFrame, EndEmpty, IsListening
<1>5. ASSUME NEW t \in Turns, UseGuess(t) \/ FinalAnswers(t)
      PROVE  AccountedOnce' /\ NewUntilOpened'
  BY <1>5, TextFilesOnce, AbandonFilesOnce DEF UseGuess, FinalAnswers
<1>6. ASSUME NEW t \in Turns, RespellAnswers(t)
      PROVE  AccountedOnce' /\ NewUntilOpened'
  <2>1. CASE Abandon(t)
    BY <1>6, <2>1, AbandonFilesOnce DEF RespellAnswers
  <2>2. CASE ~Abandon(t)
    BY <1>0, <1>6, <2>2, MovingFilesNothing
       DEF RespellAnswers, LineOut, registryVars
  <2> QED  BY <2>1, <2>2
<1>7. ASSUME NEW t \in Turns, Deliver(t)
      PROVE  AccountedOnce' /\ NewUntilOpened'
  <2>1. Abandon(t) \/ \E reason, errors : Finish({t}, reason, errors)
    BY <1>7 DEF Deliver
  <2> QED  BY <1>7, <2>1, AbandonFilesOnce, FinishFilesOnce DEF Deliver
<1>8. ASSUME NEW t \in Turns,
             AcceptFrame(t) \/ RejectFrame(t) \/ EndAgain(t) \/ GoQuiet(t)
             \/ Speculate(t) \/ LaunchGuess(t)
             \/ GuessAnswers(t) \/ EmbedAnswers(t) \/ QueuedSpeechBegins(t)
             \/ StreamOpens(t) \/ StreamYields(t) \/ ClauseAnswers(t)
             \/ ReportFramingFault(t)
      PROVE  AccountedOnce' /\ NewUntilOpened'
  BY <1>8, MovingFilesNothing
     DEF AcceptFrame, RejectFrame, EndAgain, Refuse, GoQuiet, Speculate,
         LaunchGuess, GuessAnswers, EmbedAnswers, QueuedSpeechBegins, StreamOpens, StreamYields,
         ClauseAnswers, ReportFramingFault, registryVars
<1>9. ASSUME NEW t \in Turns, End(t) \/ GuessDisagrees(t) \/ VoiceArrives(t)
      PROVE  AccountedOnce' /\ NewUntilOpened'
  BY <1>0, <1>9, MovingFilesNothing
     DEF End, GuessDisagrees, VoiceArrives, IsListening, registryVars
<1>10. CASE UNCHANGED vars
  BY <1>10, MovingFilesNothing DEF vars, turnVars, registryVars
<1> QED  BY <1>1, <1>2, <1>3, <1>4, <1>5, <1>6, <1>7, <1>8, <1>9, <1>10
         DEF Next, ClientStep, Timer, ServerStep, Continue, Answer

(* Whatever a turn meets, and whoever left while it was read, respelled or  *)
(* spoken, its quota is accounted for once: never twice, and always when    *)
(* its end() is over.                                                       *)
THEOREM EveryTurnAccountedOnce == Spec => []AccountedOnce
<1>1. Init => AccountedOnce /\ NewUntilOpened
  BY DEF Init, AccountedOnce, NewUntilOpened
<1>2. TypeOK /\ AccountedOnce /\ NewUntilOpened /\ [Next]_vars
      => AccountedOnce' /\ NewUntilOpened'
  BY StepsFileOnce DEF AccountInv
<1> QED  BY <1>1, <1>2, TurnTypeCorrect, PTL DEF Spec

-----------------------------------------------------------------------------
(* A reused guess was made over every frame of its turn, however guesses,   *)
(* frames and answers interleave.                                           *)
THEOREM GuessAlwaysCoversTurn == Spec => []GuessCoversTurn
<1>1. Init => GuessCoversTurn
  BY DEF Init, GuessCoversTurn
<1>2. TypeOK /\ GuessCoversTurn /\ [Next]_vars => GuessCoversTurn'
  <2> SUFFICES ASSUME TypeOK, GuessCoversTurn, [Next]_vars, NEW t \in Turns,
                      stage'[t] = "guess"
               PROVE  guess'[t].at = bytes'[t]
    BY DEF GuessCoversTurn
  <2>0. /\ stage \in [Turns -> Stages] /\ bytes \in [Turns -> 0 .. MaxBytes]
        /\ guess \in [Turns -> [at : 0 .. MaxBytes, work : Works]]
        /\ (stage[t] = "guess" => guess[t].at = bytes[t])
    BY DEF TypeOK, GuessCoversTurn
  <2>1. CASE stage[t] = "guess" /\ UNCHANGED <<bytes, guess>>
    BY <2>0, <2>1
  <2>2. ASSUME NEW closing, NEW reason, NEW errors,
               Finish(closing, reason, errors), UNCHANGED <<bytes, guess>>
        PROVE  guess'[t].at = bytes'[t]
    BY <2>1, <2>2 DEF Finish
  <2>3. ASSUME NEW u \in Turns, Abandon(u) \/ LineOut(u), UNCHANGED <<bytes, guess>>
        PROVE  guess'[t].at = bytes'[t]
    BY <2>0, <2>1, <2>3 DEF Abandon, LineOut
  <2>4. ASSUME NEW u \in Turns, TextArrives(u) \/ TextIsSilent(u) \/ TextFails(u),
               UNCHANGED <<bytes, guess>>
        PROVE  guess'[t].at = bytes'[t]
    BY <2>0, <2>1, <2>2, <2>3, <2>4 DEF TextArrives, TextIsSilent, TextFails
  <2>5. ASSUME NEW u \in Turns,
               OverflowFrame(u) \/ EndEmpty(u) \/ UseGuess(u) \/ FinalAnswers(u)
               \/ RespellAnswers(u) \/ Deliver(u)
        PROVE  guess'[t].at = bytes'[t]
    BY <2>2, <2>3, <2>4, <2>5 DEF OverflowFrame, EndEmpty, UseGuess, FinalAnswers,
                                  RespellAnswers, Deliver
  <2>6. ASSUME NEW u \in Turns,
               AcceptFrame(u) \/ Speculate(u) \/ LaunchGuess(u) \/ GuessAnswers(u)
        PROVE  guess'[t].at = bytes'[t]
    BY <2>0, <2>6 DEF AcceptFrame, Speculate, LaunchGuess, GuessAnswers, IsListening
  <2>7. ASSUME NEW u \in Turns, End(u)
        PROVE  guess'[t].at = bytes'[t]
    BY <2>0, <2>1, <2>7 DEF End, GuessUsable
  <2>8. ASSUME NEW u \in Turns,
               RejectFrame(u) \/ EndAgain(u) \/ GoQuiet(u)
               \/ EmbedAnswers(u) \/ GuessDisagrees(u) \/ VoiceArrives(u)
               \/ QueuedSpeechBegins(u) \/ StreamOpens(u) \/ StreamYields(u)
               \/ ClauseAnswers(u) \/ ReportFramingFault(u)
        PROVE  guess'[t].at = bytes'[t]
    BY <2>0, <2>1, <2>8 DEF RejectFrame, EndAgain, Refuse, GoQuiet, EmbedAnswers, GuessDisagrees, VoiceArrives,
       QueuedSpeechBegins, StreamOpens, StreamYields, ClauseAnswers,
       ReportFramingFault
  <2>9. ASSUME NEW s \in Sockets, NEW u \in Turns, NEW o \in Options,
               OpenTurn(s, u, o) \/ RefuseTurn(s, u, o)
        PROVE  guess'[t].at = bytes'[t]
    BY <2>0, <2>1, <2>9 DEF OpenTurn, RefuseTurn, turnVars
  <2>10. CASE SweepIdleTurns
    BY <2>2, <2>10 DEF SweepIdleTurns
  <2>11. CASE UNCHANGED vars
    BY <2>1, <2>11 DEF vars, turnVars
  <2>12. ASSUME NEW s \in Sockets, LoseClient(s)
         PROVE  guess'[t].at = bytes'[t]
    BY <2>1, <2>12 DEF LoseClient, turnVars
  <2> QED  BY <2>5, <2>6, <2>7, <2>8, <2>9, <2>10, <2>11, <2>12
           DEF Next, ClientStep, Timer, ServerStep, Continue, Answer
<1> QED  BY <1>1, <1>2, TurnTypeCorrect, PTL DEF Spec

-----------------------------------------------------------------------------
(* What is sent has a last word, audio aside, and which one.               *)
HasWord(s) == \E i \in DOMAIN s : IsLastWord(s, i)

(* There is one last word only. *)
LEMMA LastWordIsAt ==
    ASSUME NEW s \in Seq(Events), NEW i \in DOMAIN s, IsLastWord(s, i)
    PROVE  LastWord(s) = s[i]
<1>1. \A j \in DOMAIN s : IsLastWord(s, j) => j = i
  <2> SUFFICES ASSUME NEW j \in DOMAIN s, IsLastWord(s, j)  PROVE j = i
    OBVIOUS
  <2>1. ~(j > i) /\ ~(i > j)
    BY DEF IsLastWord
  <2>2. i \in Nat /\ j \in Nat
    BY LenProperties
  <2> QED  BY <2>1, <2>2
<1>2. (CHOOSE j \in DOMAIN s : IsLastWord(s, j)) = i
  BY <1>1
<1> QED  BY <1>2 DEF LastWord

(* A sequence ends the way its second part does. *)
LEMMA EndsLikeItsEnd ==
    ASSUME NEW s \in Seq(Events), NEW e \in Seq(Events), e # <<>>
    PROVE  /\ s \o e \in Seq(Events) /\ s \o e # <<>>
           /\ DOMAIN (s \o e) = 1 .. Len(s \o e) /\ Len(s \o e) \in Nat \ {0}
           /\ (s \o e)[Len(s \o e)] = e[Len(e)]
<1> DEFINE n == Len(s) + Len(e)
<1>1. Len(e) \in Nat \ {0} /\ Len(s) \in Nat
  BY EmptySeq, LenProperties
<1>2. s \o e \in Seq(Events) /\ Len(s \o e) = n /\ DOMAIN (s \o e) = 1 .. n
  BY ConcatProperties, LenProperties
<1>3. (s \o e)[n] = e[Len(e)]
  <2>1. n \in 1 .. Len(s) + Len(e) /\ n > Len(s) /\ n - Len(s) = Len(e)
    BY <1>1
  <2> QED  BY <2>1, ConcatProperties
<1>4. n \in Nat \ {0}
  BY <1>1
<1>5. s \o e # <<>>
  BY <1>2, <1>4, EmptySeq
<1> QED  BY <1>2, <1>3, <1>4, <1>5

(* Whatever comes before it, a word said last is the last word. *)
LEMMA SayingAWord ==
    ASSUME NEW s \in Seq(Events), NEW e \in Seq(Events), e # <<>>,
           e[Len(e)] # "audio"
    PROVE  /\ HasWord(s \o e)
           /\ LastWord(s \o e) = e[Len(e)]
<1> DEFINE r == s \o e
           n == Len(r)
<1>1. /\ r \in Seq(Events) /\ DOMAIN r = 1 .. n /\ n \in Nat \ {0}
      /\ r[n] = e[Len(e)]
  BY EndsLikeItsEnd
<1>2. n \in DOMAIN r /\ IsLastWord(r, n)
  <2> HIDE DEF n
  <2>1. n \in 1 .. n /\ \A j \in 1 .. n : ~(j > n)
    BY <1>1
  <2> QED  BY <1>1, <2>1 DEF IsLastWord
<1>3. LastWord(r) = r[n]
  BY <1>1, <1>2, LastWordIsAt
<1> QED  BY <1>1, <1>2, <1>3 DEF HasWord

(* Audio is not a word. *)
LEMMA AudioSaysNothing ==
    ASSUME NEW s \in Seq(Events), HasWord(s)
    PROVE  /\ HasWord(s \o <<"audio">>)
           /\ LastWord(s \o <<"audio">>) = LastWord(s)
<1>1. PICK i \in DOMAIN s : IsLastWord(s, i)
  BY DEF HasWord
<1> DEFINE r == s \o <<"audio">>
           n == Len(s)
<1>2. <<"audio">> \in Seq(Events) /\ Len(<<"audio">>) = 1 /\ <<"audio">>[1] = "audio"
  BY DEF Events
<1>3. n \in Nat /\ DOMAIN s = 1 .. n
  BY LenProperties
<1>4. r \in Seq(Events) /\ DOMAIN r = 1 .. n + 1
  BY <1>2, ConcatProperties, LenProperties
<1>5. \A j \in 1 .. n + 1 : r[j] = IF j <= n THEN s[j] ELSE "audio"
  <2> SUFFICES ASSUME NEW j \in 1 .. n + 1
               PROVE  r[j] = IF j <= n THEN s[j] ELSE "audio"
    OBVIOUS
  <2>1. j \in 1 .. Len(s) + Len(<<"audio">>)
    BY <1>2
  <2>2. r[j] = IF j <= Len(s) THEN s[j] ELSE <<"audio">>[j - Len(s)]
    BY <1>2, <2>1, ConcatProperties
  <2>3. j <= n \/ j - n = 1
    BY <1>3
  <2> QED  BY <1>2, <2>2, <2>3
<1>6. i \in 1 .. n + 1 /\ i <= n
  BY <1>3
<1>7. i \in DOMAIN r /\ IsLastWord(r, i) /\ r[i] = s[i]
  BY <1>1, <1>3, <1>4, <1>5, <1>6 DEF IsLastWord
<1>8. LastWord(r) = r[i] /\ LastWord(s) = s[i]
  BY <1>1, <1>4, <1>7, LastWordIsAt
<1> QED  BY <1>7, <1>8 DEF HasWord

(* Ended is the last thing a closing turn's client hears. *)
LEMMA EndedIsLast ==
    ASSUME NEW errors \in Seq(Events)
    PROVE  LET last == errors \o <<"ended">>
           IN  last \in Seq(Events) /\ last # <<>> /\ last[Len(last)] = "ended"
<1>1. /\ <<"ended">> \in Seq(Events) /\ <<"ended">> # <<>>
      /\ <<"ended">>[Len(<<"ended">>)] = "ended"
  BY DEF Events
<1> QED  BY <1>1, EndsLikeItsEnd

(* A turn whose client is there. *)
Live(t) == owner[t] \in Sockets \ gone

(* What a client that is there heard last, stage by stage. *)
HeardLast(t) ==
    /\ HasWord(sent[t])
    /\ stage[t] \in {"listening", "guess", "final", "respell"}
       => LastWord(sent[t]) = "ready"
    /\ stage[t] = "voice" => LastWord(sent[t]) = "final"
    /\ stage[t] = "speak"
       => \/ LastWord(sent[t]) \in {"final", "voice"}
          \/ LastWord(sent[t]) = "error" /\ speech[t] = "unsupported_audio"
    /\ stage[t] = "done" => LastWord(sent[t]) = "ended"

(* A turn keeps its step with its client: speech starts with the text, a    *)
(* live turn is held until its end() is over, and so neither its guess nor  *)
(* its speech ever finds it gone.                                           *)
Flow(t) ==
    /\ stage[t] \in {"new", "listening", "guess", "final"} => speech[t] = "none"
    /\ stage[t] = "new" => owner[t] = NoOwner /\ guess[t].work = "none"
    /\ stage[t] = "done" => t \notin open
    /\ Live(t) =>
          /\ stage[t] # "done" => t \in open
          /\ stage[t] = "done" => speech[t] \in Outcomes \cup {"none"}
          /\ stage[t] \in {"listening", "guess"} => guess[t].work # "unlaunched"
          /\ speech[t] # "client_gone"
          /\ HeardLast(t)

FlowInv == \A t \in Turns : Flow(t)

(* Together with what is proved of turns already. *)
TurnInv == AccountInv /\ GoneHoldsNothing /\ FlowInv

(* A step that leaves a turn as it is, or takes its client.                 *)
LEMMA FlowUntouched ==
    ASSUME NEW t \in Turns, Flow(t),
           owner'[t] = owner[t], gone \subseteq gone', stage'[t] = stage[t],
           guess'[t] = guess[t], speech'[t] = speech[t], sent'[t] = sent[t],
           t \in open /\ Live(t)' => t \in open',
           t \in open' => t \in open
    PROVE  Flow(t)'
BY DEF Flow, Live, HeardLast

(* Filing and closing turns, each of them still running. *)
LEMMA FinishFlows ==
    ASSUME TurnInv, NEW closing \in SUBSET Turns, NEW reason,
           NEW errors \in Seq(Events), Finish(closing, reason, errors),
           UNCHANGED <<guess, speech>>,
           \A t \in closing : /\ stage[t] \notin {"new", "done"}
                              /\ speech[t] \in Outcomes \cup {"none"}
    PROVE  FlowInv'
<1> SUFFICES ASSUME NEW t \in Turns  PROVE Flow(t)'
  BY DEF FlowInv
<1>0. Flow(t) /\ UNCHANGED <<owner, gone>> /\ sent \in [Turns -> Seq(Events)]
  BY DEF TurnInv, FlowInv, Finish, CloseTurns, AccountInv, TypeOK
<1>1. CASE t \notin closing
  BY <1>0, <1>1, FlowUntouched DEF Finish, CloseTurns
<1>2. CASE t \in closing
  <2>1. stage'[t] = "done" /\ speech'[t] = speech[t] /\ t \notin open'
    BY <1>2 DEF Finish, CloseTurns
  <2>2. CASE ~Live(t)
    BY <1>0, <2>1, <2>2 DEF Flow, Live
  <2>3. CASE Live(t)
    <3>1. sent'[t] = sent[t] \o (errors \o <<"ended">>)
      BY <1>2, <2>3 DEF Finish, Tell, Live
    <3> DEFINE last == errors \o <<"ended">>
    <3>2. last \in Seq(Events) /\ last # <<>> /\ last[Len(last)] = "ended"
      BY EndedIsLast
    <3>3. HasWord(sent'[t]) /\ LastWord(sent'[t]) = "ended"
      <4> HIDE DEF last
      <4>1. sent'[t] = sent[t] \o last
        BY <3>1 DEF last
      <4>2. sent[t] \in Seq(Events)
        BY <1>0
      <4> QED  BY <3>2, <4>1, <4>2, SayingAWord
    <3> QED  BY <1>0, <1>2, <2>1, <2>3, <3>3 DEF Flow, Live, HeardLast
  <2> QED  BY <2>2, <2>3
<1> QED  BY <1>1, <1>2

(* The types the flow of a turn needs, and who is held. *)
LEMMA HeldIsLive ==
    ASSUME TurnInv, NEW t \in Turns
    PROVE  /\ Flow(t)
           /\ stage \in [Turns -> Stages] /\ speech \in [Turns -> Speeches]
           /\ guess \in [Turns -> [at : 0 .. MaxBytes, work : Works]]
           /\ sent \in [Turns -> Seq(Events)] /\ rows \in [Turns -> Seq(Reasons)]
           /\ owner \in [Turns -> Sockets \cup {NoOwner}] /\ open \subseteq Turns
           /\ gone \subseteq Sockets
           /\ NoOwner \notin Sockets
           /\ t \in open => Live(t)
           /\ Live(t) => owner[t] # NoOwner /\ stage[t] # "new"
           /\ stage[t] \notin {"new", "done"} => (t \in open <=> Live(t))
           /\ stage[t] # "new" => owner[t] \in Sockets
<1>1. TypeOK /\ RegistryTypeOK /\ NewUntilOpened /\ FlowInv /\ GoneHoldsNothing
  BY DEF TurnInv, AccountInv, TypeOK
<1>2. NoOwner \notin Sockets
  BY NoOwnerIsNobody
<1>3. t \in open => Live(t)
  BY <1>1 DEF GoneHoldsNothing, OfSocket, Live, RegistryTypeOK
<1>4. Flow(t)
  BY <1>1 DEF FlowInv
<1>5. Live(t) => owner[t] # NoOwner /\ stage[t] # "new"
  BY <1>2, <1>4 DEF Live, Flow
<1>6. stage[t] \notin {"new", "done"} => (t \in open <=> Live(t))
  BY <1>3, <1>4 DEF Flow
<1>7. stage[t] # "new" => owner[t] \in Sockets
  BY <1>1 DEF NewUntilOpened, RegistryTypeOK
<1> QED  BY <1>1, <1>2, <1>3, <1>4, <1>5, <1>6, <1>7 DEF TypeOK, RegistryTypeOK

(* Abandoning a turn whose client left. *)
LEMMA AbandonFlows ==
    ASSUME TurnInv, NEW t \in Turns, stage[t] # "new", ~Live(t),
           Abandon(t), UNCHANGED <<guess, speech>>
    PROVE  FlowInv'
<1> SUFFICES ASSUME NEW u \in Turns  PROVE Flow(u)'
  BY DEF FlowInv
<1>0. Flow(u) /\ stage \in [Turns -> Stages]
  BY DEF TurnInv, FlowInv, AccountInv, TypeOK
<1>1. CASE u # t
  BY <1>0, <1>1, FlowUntouched DEF Abandon, registryVars
<1>2. CASE u = t
  <2>1. t \notin open
    BY HeldIsLive
  <2> QED  BY <1>0, <1>2, <2>1 DEF Abandon, registryVars, Flow, Live
<1> QED  BY <1>1, <1>2

(* A step of one turn that takes nothing from the registry. *)
LEMMA FlowOfOne ==
    ASSUME TurnInv, NEW t \in Turns, UNCHANGED <<open, owner, gone>>, Flow(t)',
           \A u \in Turns : u # t => /\ stage'[u] = stage[u] /\ guess'[u] = guess[u]
                                     /\ speech'[u] = speech[u] /\ sent'[u] = sent[u]
    PROVE  FlowInv'
<1> SUFFICES ASSUME NEW u \in Turns  PROVE Flow(u)'
  BY DEF FlowInv
<1>1. CASE u = t
  BY <1>1
<1>2. CASE u # t
  BY <1>2, FlowUntouched DEF TurnInv, FlowInv
<1> QED  BY <1>1, <1>2

LEMMA ReadyIsAWord == HasWord(<<"ready">>) /\ LastWord(<<"ready">>) = "ready"
<1> DEFINE s == <<"ready">>
<1>1. s \in Seq(Events) /\ DOMAIN s = {1} /\ s[1] = "ready"
  BY DEF Events
<1>2. 1 \in DOMAIN s /\ IsLastWord(s, 1)
  BY <1>1 DEF IsLastWord
<1>3. LastWord(s) = s[1]
  BY <1>1, <1>2, LastWordIsAt
<1> QED  BY <1>1, <1>2, <1>3 DEF HasWord

(* Telling a live turn a word, and telling it audio. *)
LEMMA TellingALiveTurn ==
    ASSUME TurnInv, NEW t \in Turns, Live(t), NEW word \in Events \ {"audio"}
    PROVE  /\ HasWord(Tell(t, <<word>>)) /\ LastWord(Tell(t, <<word>>)) = word
           /\ HasWord(TellAudio(t)) /\ LastWord(TellAudio(t)) = LastWord(sent[t])
<1>1. sent[t] \in Seq(Events) /\ HasWord(sent[t]) /\ owner[t] \notin gone
  BY HeldIsLive DEF Flow, HeardLast, Live
<1>2. /\ <<word>> \in Seq(Events) /\ <<word>> # <<>>
      /\ <<word>>[Len(<<word>>)] = word
  OBVIOUS
<1>3. Tell(t, <<word>>) = sent[t] \o <<word>>
  BY <1>1 DEF Tell
<1>4. HasWord(Tell(t, <<word>>)) /\ LastWord(Tell(t, <<word>>)) = word
  BY <1>1, <1>2, <1>3, SayingAWord
<1>5. TellAudio(t) \in {sent[t], sent[t] \o <<"audio">>}
  BY <1>1 DEF TellAudio, Tell
<1> QED  BY <1>1, <1>4, <1>5, AudioSaysNothing

(* Steps of a listening turn, and guesses. *)
LEMMA ListeningFlows ==
    ASSUME TurnInv, NEW t \in Turns,
           \/ AcceptFrame(t) \/ GoQuiet(t) \/ Speculate(t) \/ LaunchGuess(t)
           \/ GuessAnswers(t) \/ End(t) \/ EmbedAnswers(t) \/ GuessDisagrees(t)
           \/ RejectFrame(t) \/ EndAgain(t)
    PROVE  FlowInv'
<1>0. /\ Flow(t) /\ stage \in [Turns -> Stages]
      /\ guess \in [Turns -> [at : 0 .. MaxBytes, work : Works]]
      /\ stage[t] \notin {"new", "done"} => (t \in open <=> Live(t))
      /\ Live(t) => stage[t] # "new"
  BY HeldIsLive
<1>1. CASE \/ AcceptFrame(t) \/ GoQuiet(t) \/ EmbedAnswers(t)
           \/ RejectFrame(t) \/ EndAgain(t)
  <2>1. UNCHANGED <<open, owner, gone, stage, guess, speech, sent>>
    BY <1>1 DEF AcceptFrame, GoQuiet, EmbedAnswers, RejectFrame, EndAgain, Refuse,
                registryVars
  <2>2. Flow(t)'
    BY <1>0, <2>1, FlowUntouched
  <2> QED  BY <2>1, <2>2, FlowOfOne
<1>2. CASE Speculate(t) \/ LaunchGuess(t) \/ GuessAnswers(t)
  <2>1. /\ UNCHANGED <<open, owner, gone, stage, speech, sent>>
        /\ \A u \in Turns : u # t => guess'[u] = guess[u]
    BY <1>0, <1>2 DEF Speculate, LaunchGuess, GuessAnswers, registryVars
  <2>2. stage[t] # "new"
    BY <1>0, <1>2 DEF Speculate, LaunchGuess, GuessAnswers, IsListening, Flow
  <2>3. stage[t] # "done" /\ Live(t) => guess'[t].work # "unlaunched"
    BY <1>0, <1>2, <2>2 DEF Speculate, LaunchGuess, GuessAnswers
  <2>4. Flow(t)'
    BY <1>0, <2>1, <2>2, <2>3 DEF Flow, Live, HeardLast
  <2> QED  BY <2>1, <2>4, FlowOfOne
<1>3. CASE End(t) \/ GuessDisagrees(t)
  <2>1. /\ UNCHANGED <<open, owner, gone, guess, speech, sent>>
        /\ \A u \in Turns : u # t => stage'[u] = stage[u]
        /\ stage[t] \in {"listening", "guess"} /\ stage'[t] \in {"guess", "final"}
    BY <1>0, <1>3 DEF End, GuessDisagrees, IsListening, registryVars
  <2>2. Flow(t)'
    BY <1>0, <2>1 DEF Flow, Live, HeardLast
  <2> QED  BY <2>1, <2>2, FlowOfOne
<1> QED  BY <1>1, <1>2, <1>3

(* The line of a turn its client is there for. *)
LEMMA LineFlows ==
    ASSUME TurnInv, NEW t \in Turns, t \in open, LineOut(t), UNCHANGED guess,
           stage[t] \in {"guess", "final", "respell"}
    PROVE  FlowInv'
<1>0. /\ Flow(t) /\ Live(t)
      /\ stage \in [Turns -> Stages] /\ speech \in [Turns -> Speeches]
      /\ sent \in [Turns -> Seq(Events)]
  BY HeldIsLive
<1>1. "final" \in Events \ {"audio"}
  BY DEF Events
<1>2. HasWord(sent'[t]) /\ LastWord(sent'[t]) = "final"
  BY <1>0, <1>1, TellingALiveTurn DEF LineOut
<1>3. /\ UNCHANGED <<open, owner, gone>> /\ stage'[t] \in {"voice", "speak"}
      /\ \A u \in Turns : u # t => /\ stage'[u] = stage[u]
                                   /\ speech'[u] = speech[u] /\ sent'[u] = sent[u]
  BY <1>0 DEF LineOut, BeginSpeech, registryVars
<1>4. speech'[t] # "client_gone"
  BY <1>0 DEF LineOut, BeginSpeech, FirstSpeech, Flow
<1>5. Flow(t)'
  BY <1>0, <1>2, <1>3, <1>4 DEF Flow, Live, HeardLast
<1> QED  BY <1>3, <1>5, FlowOfOne

(* What follows the text of a turn. *)
LEMMA TextFlows ==
    ASSUME TurnInv, NEW t \in Turns, stage[t] \in {"guess", "final"}, UNCHANGED guess,
           TextArrives(t) \/ TextIsSilent(t) \/ TextFails(t)
    PROVE  FlowInv'
<1>0. /\ Flow(t) /\ stage \in [Turns -> Stages] /\ speech \in [Turns -> Speeches]
      /\ speech[t] = "none" /\ (t \in open <=> Live(t))
  BY HeldIsLive DEF Flow
<1>1. CASE TextIsSilent(t) \/ TextFails(t)
  <2>1. <<>> \in Seq(Events) /\ <<"error">> \in Seq(Events)
    BY DEF Events
  <2>2. {t} \in SUBSET Turns
    OBVIOUS
  <2> QED  BY <1>0, <1>1, <2>1, <2>2, FinishFlows DEF TextIsSilent, TextFails
<1>2. CASE t \notin open /\ Abandon(t) /\ UNCHANGED speech
  BY <1>0, <1>2, AbandonFlows
<1>3. CASE t \in open /\ LineOut(t)
  BY <1>3, LineFlows
<1>4. CASE /\ t \in open
           /\ stage' = [stage EXCEPT ![t] = "respell"]
           /\ speech' = [speech EXCEPT ![t] = IF opt[t].voice THEN "queued" ELSE @]
           /\ UNCHANGED <<registryVars, sent, rows>>
  <2>1. /\ UNCHANGED <<open, owner, gone, sent>>
        /\ stage'[t] = "respell" /\ speech'[t] \in {"queued", "none"}
        /\ \A u \in Turns : u # t => stage'[u] = stage[u] /\ speech'[u] = speech[u]
    BY <1>0, <1>4 DEF registryVars
  <2>2. Flow(t)'
    BY <1>0, <1>4, <2>1 DEF Flow, Live, HeardLast
  <2> QED  BY <2>1, <2>2, FlowOfOne
<1> QED  BY <1>1, <1>2, <1>3, <1>4 DEF TextArrives

(* Steps of a turn whose end() is running. *)
LEMMA DeliveryFlows ==
    ASSUME TurnInv, NEW t \in Turns,
           \/ UseGuess(t) \/ FinalAnswers(t) \/ RespellAnswers(t)
           \/ VoiceArrives(t) \/ QueuedSpeechBegins(t) \/ StreamOpens(t)
           \/ StreamYields(t) \/ ClauseAnswers(t) \/ ReportFramingFault(t)
           \/ Deliver(t)
    PROVE  FlowInv'
<1>0. /\ Flow(t) /\ stage \in [Turns -> Stages] /\ speech \in [Turns -> Speeches]
      /\ sent \in [Turns -> Seq(Events)]
      /\ stage[t] \notin {"new", "done"} => (t \in open <=> Live(t))
      /\ Live(t) => stage[t] # "new"
      /\ t \in open => Live(t)
  BY HeldIsLive
<1>1. CASE UseGuess(t) \/ FinalAnswers(t)
  <2>1. CASE TextArrives(t) \/ TextIsSilent(t) \/ TextFails(t)
    BY <1>1, <2>1, TextFlows DEF UseGuess, FinalAnswers
  <2>2. CASE stage[t] = "guess" /\ guess[t].work = "unlaunched" /\ Abandon(t)
             /\ UNCHANGED speech
    <3>1. ~Live(t)
      BY <1>0, <2>2 DEF Flow
    <3> QED  BY <1>1, <2>2, <3>1, AbandonFlows DEF UseGuess, FinalAnswers
  <2> QED  BY <1>1, <2>1, <2>2 DEF UseGuess, FinalAnswers
<1>2. CASE RespellAnswers(t)
  BY <1>0, <1>2, AbandonFlows, LineFlows DEF RespellAnswers
<1>3. CASE VoiceArrives(t)
  <2>1. /\ UNCHANGED <<open, owner, gone, guess>>
        /\ stage[t] = "voice" /\ stage'[t] = "speak"
        /\ \A u \in Turns : u # t => /\ stage'[u] = stage[u]
                                     /\ speech'[u] = speech[u] /\ sent'[u] = sent[u]
    BY <1>0, <1>3 DEF VoiceArrives, BeginSpeech, registryVars
  <2>2. Live(t) => speech'[t] # "client_gone"
    BY <1>0, <1>3, <2>1 DEF VoiceArrives, BeginSpeech, FirstSpeech, Flow
  <2>3. "voice" \in Events \ {"audio"}
    BY DEF Events
  <2>4. Live(t) => HasWord(sent'[t]) /\ LastWord(sent'[t]) \in {"final", "voice"}
    BY <1>0, <1>3, <2>1, <2>3, TellingALiveTurn DEF VoiceArrives, Flow, HeardLast
  <2>5. Flow(t)'
    BY <1>0, <2>1, <2>2, <2>4 DEF Flow, Live, HeardLast
  <2> QED  BY <2>1, <2>5, FlowOfOne
<1>4. CASE QueuedSpeechBegins(t) \/ StreamOpens(t) \/ StreamYields(t) \/ ClauseAnswers(t)
  <2>1. /\ UNCHANGED <<open, owner, gone, guess, stage>>
        /\ speech[t] \in {"queued", "opening", "stream", "clause"}
        /\ sent'[t] \in {sent[t], TellAudio(t)}
        /\ \A u \in Turns : u # t => speech'[u] = speech[u] /\ sent'[u] = sent[u]
    BY <1>0, <1>4 DEF QueuedSpeechBegins, StreamOpens, StreamYields, ClauseAnswers,
                      BeginSpeech, Speaks, registryVars
  <2>2. /\ stage[t] \notin {"new", "listening", "guess", "final"}
        /\ Live(t) => stage[t] # "done" /\ t \in open
    BY <1>0, <2>1 DEF Flow, Outcomes
  <2>3. Live(t) => speech'[t] # "client_gone"
    BY <1>0, <1>4, <2>2 DEF QueuedSpeechBegins, StreamOpens, StreamYields,
                            ClauseAnswers, BeginSpeech, FirstSpeech, Speaks
  <2>4. "ready" \in Events \ {"audio"}
    BY DEF Events
  <2>5. Live(t) => HasWord(sent'[t]) /\ LastWord(sent'[t]) = LastWord(sent[t])
    BY <1>0, <2>1, <2>4, TellingALiveTurn DEF Flow, HeardLast
  <2>6. Flow(t)'
    BY <1>0, <2>1, <2>2, <2>3, <2>5 DEF Flow, Live, HeardLast
  <2> QED  BY <2>1, <2>6, FlowOfOne
<1>5. CASE ReportFramingFault(t)
  <2>1. /\ UNCHANGED <<open, owner, gone, guess, stage>>
        /\ speech[t] = "hold" /\ speech'[t] = "unsupported_audio"
        /\ stage[t] \in {"speak", "done"} /\ sent'[t] = Tell(t, <<"error">>)
        /\ \A u \in Turns : u # t => speech'[u] = speech[u] /\ sent'[u] = sent[u]
    BY <1>0, <1>5 DEF ReportFramingFault, PastTheLine, Speaks, registryVars
  <2>2. Live(t) => stage[t] = "speak"
    BY <1>0, <2>1 DEF Flow, Outcomes
  <2>3. "error" \in Events \ {"audio"}
    BY DEF Events
  <2>4. Live(t) => HasWord(sent'[t]) /\ LastWord(sent'[t]) = "error"
    BY <2>1, <2>3, TellingALiveTurn
  <2>5. Flow(t)'
    BY <1>0, <2>1, <2>2, <2>4 DEF Flow, Live, HeardLast
  <2> QED  BY <2>1, <2>5, FlowOfOne
<1>6. CASE Deliver(t)
  <2>1. stage[t] = "speak" /\ speech[t] \in Outcomes /\ UNCHANGED <<guess, speech>>
    BY <1>6 DEF Deliver
  <2>2. CASE speech[t] = "client_gone"
    <3>1. Abandon(t)
      BY <1>6, <2>2 DEF Deliver
    <3>2. ~Live(t)
      BY <1>0, <2>2 DEF Flow
    <3> QED  BY <2>1, <3>1, <3>2, AbandonFlows
  <2>3. CASE speech[t] # "client_gone"
    <3>1. \E reason : Finish({t}, reason, <<>>) \/ Finish({t}, reason, <<"error">>)
      BY <1>6, <2>3 DEF Deliver
    <3>2. <<>> \in Seq(Events) /\ <<"error">> \in Seq(Events) /\ {t} \in SUBSET Turns
      BY DEF Events
    <3> QED  BY <2>1, <3>1, <3>2, FinishFlows
  <2> QED  BY <2>2, <2>3
<1> QED  BY <1>1, <1>2, <1>3, <1>4, <1>5, <1>6

(* Every step keeps the flow of every turn. *)
LEMMA TurnsFlow ==
    ASSUME TurnInv, [Next]_vars
    PROVE  FlowInv'
<1>0. <<"error">> \in Seq(Events)
  BY DEF Events
<1>1. ASSUME NEW s \in Sockets, NEW t \in Turns, NEW o \in Options, OpenTurn(s, t, o)
      PROVE  FlowInv'
  <2> SUFFICES ASSUME NEW u \in Turns  PROVE Flow(u)'
    BY DEF FlowInv
  <2>0. /\ Flow(u) /\ stage \in [Turns -> Stages] /\ sent \in [Turns -> Seq(Events)]
        /\ owner \in [Turns -> Sockets \cup {NoOwner}]
    BY HeldIsLive
  <2>1. /\ owner[t] = NoOwner /\ UNCHANGED <<gone, guess, speech>>
        /\ open' = open \cup {t} /\ stage'[t] = "listening" /\ sent'[t] = <<"ready">>
        /\ u # t => stage'[u] = stage[u] /\ sent'[u] = sent[u] /\ owner'[u] = owner[u]
    BY <1>1, <2>0 DEF OpenTurn, Start
  <2>2. CASE u = t
    <3>1. stage[t] = "new"
      BY <2>1 DEF TurnInv, AccountInv, NewUntilOpened
    <3> QED  BY <2>0, <2>1, <2>2, <3>1, ReadyIsAWord DEF Flow, Live, HeardLast
  <2>3. CASE u # t
    BY <2>0, <2>1, <2>3, FlowUntouched
  <2> QED  BY <2>2, <2>3
<1>2. ASSUME NEW s \in Sockets, NEW t \in Turns, NEW o \in Options,
             RefuseTurn(s, t, o) \/ UNCHANGED vars
      PROVE  FlowInv'
  BY <1>2, FlowUntouched DEF RefuseTurn, RefuseLanguage, turnVars, vars,
                             registryVars, TurnInv, FlowInv
<1>3. ASSUME NEW s \in Sockets, LoseClient(s)
      PROVE  FlowInv'
  <2> SUFFICES ASSUME NEW t \in Turns  PROVE Flow(t)'
    BY DEF FlowInv
  <2>1. Flow(t)
    BY DEF TurnInv, FlowInv
  <2>2. t \in open /\ Live(t)' => t \in open'
    BY <1>3 DEF LoseClient, Disconnect, OfSocket, Live
  <2> QED  BY <1>3, <2>1, <2>2, FlowUntouched DEF LoseClient, Disconnect, turnVars
<1>4. CASE SweepIdleTurns
  <2> DEFINE idle == {t \in open : IsListening(t) /\ quiet[t]}
  <2>1. idle \in SUBSET Turns /\ \A t \in idle : stage[t] = "listening" /\ Flow(t)
    BY HeldIsLive DEF IsListening, TurnInv, FlowInv, AccountInv, TypeOK, RegistryTypeOK
  <2>2. \A t \in idle : speech[t] = "none"
    BY <2>1 DEF Flow
  <2>3. Finish(idle, "idle_timeout", <<"error">>) /\ UNCHANGED <<guess, speech>>
    BY <1>4 DEF SweepIdleTurns
  <2> QED  BY <1>0, <2>1, <2>2, <2>3, FinishFlows
<1>5. ASSUME NEW t \in Turns, OverflowFrame(t) \/ EndEmpty(t)
      PROVE  FlowInv'
  <2>1. stage[t] = "listening" /\ speech[t] = "none" /\ {t} \in SUBSET Turns
    BY <1>5, HeldIsLive DEF OverflowFrame, EndEmpty, IsListening, Flow
  <2> QED  BY <1>0, <1>5, <2>1, FinishFlows DEF OverflowFrame, EndEmpty
<1>6. CASE UNCHANGED vars
  BY <1>6, FlowUntouched DEF turnVars, vars, registryVars, TurnInv, FlowInv
<1> QED  BY <1>1, <1>2, <1>3, <1>4, <1>5, <1>6, ListeningFlows, DeliveryFlows
         DEF Next, ClientStep, Timer, ServerStep, Continue, Answer

(* Whatever runs beside it, a turn whose client is there stays held until   *)
(* its end() is over, and the client heard last what its stage says.        *)
THEOREM EveryTurnFlows == Spec => []TurnInv
<1>1. Init => FlowInv
  BY NoOwnerIsNobody DEF Init, RegistryInit, FlowInv, Flow, Live, NoGuess
<1>2. Init => AccountedOnce /\ NewUntilOpened
  BY DEF Init, AccountedOnce, NewUntilOpened
<1>3. TurnInv /\ [Next]_vars => AccountedOnce' /\ NewUntilOpened' /\ FlowInv'
  BY StepsFileOnce, TurnsFlow DEF TurnInv
<1>4. TypeOK /\ AccountedOnce /\ NewUntilOpened /\ GoneHoldsNothing /\ FlowInv <=> TurnInv
  BY DEF TurnInv, AccountInv
<1> QED  BY <1>1, <1>2, <1>3, <1>4, TurnTypeCorrect, TurnsLeaveNothingBehind, PTL
         DEF Spec

-----------------------------------------------------------------------------
(* The contract, step by step.  What a turn's client was told, while it is  *)
(* there.                                                                   *)
LEMMA ToldByStage ==
    ASSUME TurnInv, NEW t \in Turns
    PROVE  /\ Live(t) =>
                /\ Told(t) = Tiding[LastWord(sent[t])]
                /\ stage[t] \in {"listening", "guess", "final", "respell"}
                   => Told(t) = "ready"
                /\ stage[t] = "voice" => Told(t) = "line"
                /\ stage[t] = "speak" => Told(t) \in {"line", "label", "fault"}
                /\ stage[t] = "speak" /\ speech[t] # "unsupported_audio"
                   => Told(t) \in {"line", "label"}
           /\ ~Live(t) /\ stage[t] # "new" => Told(t) = "lost" /\ owner[t] \in gone
           /\ stage[t] # "done" <=> rows[t] = <<>>
<1>0. /\ Flow(t) /\ NoOwner \notin Sockets /\ gone \subseteq Sockets
      /\ stage[t] # "new" => owner[t] \in Sockets
      /\ Live(t) => owner[t] # NoOwner /\ stage[t] # "new"
      /\ rows[t] \in Seq(Reasons)
  BY HeldIsLive
<1>1. Live(t) => Told(t) = Tiding[LastWord(sent[t])]
  BY <1>0 DEF Live, Told
<1>2. /\ Tiding["ready"] = "ready" /\ Tiding["final"] = "line"
      /\ Tiding["voice"] = "label" /\ Tiding["error"] = "fault"
  BY DEF Tiding
<1>3. ~Live(t) /\ stage[t] # "new" => Told(t) = "lost" /\ owner[t] \in gone
  BY <1>0 DEF Live, Told
<1>4. stage[t] # "done" <=> rows[t] = <<>>
  BY <1>0, EmptySeq DEF TurnInv, AccountInv, AccountedOnce
<1> QED  BY <1>0, <1>1, <1>2, <1>3, <1>4 DEF Flow, HeardLast

(* A step that tells nobody a word and files nothing. *)
LEMMA SilentStep ==
    ASSUME UNCHANGED refused,
           \A t \in Turns : /\ Told(t)' = Told(t)
                            /\ rows'[t] = <<>> <=> rows[t] = <<>>
    PROVE  UNCHANGED Contract!contractVars
BY DEF Contract!contractVars

(* A step that only tells a live turn's client one word. *)
LEMMA TellingStep ==
    ASSUME TurnInv, NEW t \in Turns, NEW word \in {"final", "voice", "error"},
           UNCHANGED <<owner, gone, rows, refused>>,
           sent' = [sent EXCEPT ![t] = Tell(t, <<word>>)],
           stage[t] # "new",
           Live(t) => \/ word = "final" /\ Told(t) = "ready"
                      \/ word = "voice" /\ Told(t) = "line"
                      \/ word = "error" /\ Told(t) \in {"line", "label"}
    PROVE  [Contract!ContractNext]_(Contract!contractVars)
<1>0. /\ sent \in [Turns -> Seq(Events)]
      /\ owner[t] \in Sockets /\ NoOwner \notin Sockets
  BY HeldIsLive
<1>1. \A u \in Turns : u # t => Told(u)' = Told(u)
  BY <1>0 DEF Told
<1>2. CASE ~Live(t)
  <2>1. owner[t] \in gone
    BY <1>0, <1>2 DEF Live
  <2>2. Told(t)' = Told(t)
    BY <1>0, <2>1 DEF Told
  <2> QED  BY <1>1, <2>2, SilentStep
<1>3. CASE Live(t)
  <2>1. Told(t)' = Tiding[word]
    <3>1. word \in Events \ {"audio"}
      BY DEF Events
    <3>2. LastWord(sent'[t]) = word
      BY <1>0, <1>3, <3>1, TellingALiveTurn
    <3> QED  BY <1>0, <1>3, <3>2 DEF Told, Live
  <2>2. UNCHANGED {u \in Turns : rows[u] # <<>>}
    OBVIOUS
  <2>3. /\ Tiding["final"] = "line" /\ Tiding["voice"] = "label"
        /\ Tiding["error"] = "fault"
    BY DEF Tiding
  <2>4. [u \in Turns |-> Told(u)]'
           = [[u \in Turns |-> Told(u)] EXCEPT ![t] = Tiding[word]]
    BY <1>1, <2>1
  <2>5. Contract!Line(t) \/ Contract!Label(t) \/ Contract!Fault(t)
    BY <1>3, <2>2, <2>3, <2>4 DEF Contract!Line, Contract!Label, Contract!Fault,
                                  Contract!MovesTo
  <2> QED  BY <2>5 DEF Contract!ContractNext
<1> QED  BY <1>2, <1>3

(* Filing the row of turns that end, all of them live or one that is not.   *)
LEMMA FinishKeepsContract ==
    ASSUME TurnInv, NEW closing \in SUBSET Turns, NEW reason,
           NEW errors \in Seq(Events), Finish(closing, reason, errors),
           UNCHANGED refused,
           \A t \in closing : stage[t] \notin {"new", "done"},
           \/ closing # {} /\ \A t \in closing : Live(t)
           \/ \E t \in Turns : closing = {t} /\ ~Live(t)
    PROVE  [Contract!ContractNext]_(Contract!contractVars)
<1>0. /\ sent \in [Turns -> Seq(Events)] /\ rows \in [Turns -> Seq(Reasons)]
      /\ UNCHANGED <<owner, gone>>
  BY DEF TurnInv, AccountInv, TypeOK, Finish, CloseTurns
<1>1. \A t \in Turns : t \notin closing => Told(t)' = Told(t) /\ rows'[t] = rows[t]
  BY <1>0 DEF Finish, Told
<1>2. \A t \in closing : rows[t] = <<>> /\ rows'[t] # <<>>
  <2> SUFFICES ASSUME NEW t \in closing  PROVE rows[t] = <<>> /\ rows'[t] # <<>>
    OBVIOUS
  <2>1. rows[t] = <<>>
    BY ToldByStage
  <2>2. rows'[t] = Append(rows[t], reason)
    BY DEF Finish
  <2> QED  BY <2>1, <2>2
<1>3. CASE \E t \in Turns : closing = {t} /\ ~Live(t)
  <2>1. PICK t \in Turns : closing = {t} /\ ~Live(t)
    BY <1>3
  <2>2. Told(t) = "lost" /\ owner[t] \in gone
    BY <2>1, ToldByStage
  <2>3. Told(t)' = Told(t)
    BY <1>0, <2>2 DEF Told
  <2>4. {u \in Turns : rows[u] # <<>>}' = {u \in Turns : rows[u] # <<>>} \cup {t}
    BY <1>1, <1>2, <2>1
  <2>5. Contract!AccountLate(t)
    BY <1>1, <1>2, <2>1, <2>2, <2>3, <2>4 DEF Contract!AccountLate
  <2> QED  BY <2>5 DEF Contract!ContractNext
<1>4. CASE closing # {} /\ \A t \in closing : Live(t)
  <2>1. \A t \in closing : Told(t)' = "ended"
    <3> SUFFICES ASSUME NEW t \in closing  PROVE Told(t)' = "ended"
      OBVIOUS
    <3> DEFINE last == errors \o <<"ended">>
    <3>1. last \in Seq(Events) /\ last # <<>> /\ last[Len(last)] = "ended"
      BY EndedIsLast
    <3>2. sent'[t] = sent[t] \o last /\ sent[t] \in Seq(Events)
      BY <1>0, <1>4 DEF Finish, Tell, Live
    <3> HIDE DEF last
    <3>3. LastWord(sent'[t]) = "ended"
      BY <3>1, <3>2, SayingAWord
    <3>4. Tiding["ended"] = "ended" /\ Live(t) /\ owner[t] # NoOwner
      BY <1>4, HeldIsLive DEF Tiding
    <3> QED  BY <1>0, <3>3, <3>4 DEF Told, Live
  <2>2. \A t \in closing : Told(t) \in {"ready", "line", "label", "fault"}
    <3> SUFFICES ASSUME NEW t \in closing
                 PROVE  Told(t) \in {"ready", "line", "label", "fault"}
      OBVIOUS
    <3>1. stage[t] \in {"listening", "guess", "final", "respell", "voice", "speak"}
      BY HeldIsLive DEF Stages
    <3> QED  BY <1>4, <3>1, ToldByStage
  <2>3. {u \in Turns : rows[u] # <<>>}' = {u \in Turns : rows[u] # <<>>} \cup closing
    BY <1>1, <1>2
  <2>4. closing \cap {u \in Turns : rows[u] # <<>>} = {}
    BY <1>2
  <2>5. [u \in Turns |-> Told(u)]'
           = [u \in Turns |-> IF u \in closing THEN "ended" ELSE Told(u)]
    BY <1>1, <2>1
  <2>6. Contract!Ended(closing)
    BY <1>4, <2>2, <2>3, <2>4, <2>5 DEF Contract!Ended
  <2> QED  BY <2>6 DEF Contract!ContractNext
<1> QED  BY <1>3, <1>4

(* The row of a turn whose client left. *)
LEMMA AbandonKeepsContract ==
    ASSUME TurnInv, NEW t \in Turns, stage[t] \notin {"new", "done"}, ~Live(t),
           Abandon(t), UNCHANGED refused
    PROVE  [Contract!ContractNext]_(Contract!contractVars)
<1>1. Told(t) = "lost" /\ rows[t] = <<>> /\ rows \in [Turns -> Seq(Reasons)]
  BY HeldIsLive, ToldByStage
<1>2. \A u \in Turns : Told(u)' = Told(u)
  BY DEF Abandon, registryVars, Told
<1>3. rows' = [rows EXCEPT ![t] = Append(@, "abandoned")]
  BY DEF Abandon, File
<1>4. rows'[t] # <<>> /\ \A u \in Turns : u # t => rows'[u] = rows[u]
  BY <1>1, <1>3
<1>5. {u \in Turns : rows[u] # <<>>}' = {u \in Turns : rows[u] # <<>>} \cup {t}
  BY <1>4
<1>6. Contract!AccountLate(t)
  BY <1>1, <1>2, <1>5 DEF Contract!AccountLate
<1> QED  BY <1>6 DEF Contract!ContractNext

(* The line of a turn its client is there for. *)
LEMMA LineKeepsContract ==
    ASSUME TurnInv, NEW t \in Turns, LineOut(t), UNCHANGED refused,
           stage[t] \in {"guess", "final", "respell"}
    PROVE  [Contract!ContractNext]_(Contract!contractVars)
BY TellingStep, ToldByStage DEF LineOut, registryVars

(* What follows the text of a turn. *)
LEMMA TextKeepsContract ==
    ASSUME TurnInv, NEW t \in Turns, stage[t] \in {"guess", "final"},
           TextArrives(t) \/ TextIsSilent(t) \/ TextFails(t), UNCHANGED refused
    PROVE  [Contract!ContractNext]_(Contract!contractVars)
<1>0. stage[t] \notin {"new", "done"} => (t \in open <=> Live(t))
  BY HeldIsLive
<1>1. CASE TextIsSilent(t) \/ TextFails(t)
  <2>1. <<>> \in Seq(Events) /\ <<"error">> \in Seq(Events) /\ {t} \in SUBSET Turns
    BY DEF Events
  <2> QED  BY <1>1, <2>1, FinishKeepsContract DEF TextIsSilent, TextFails
<1>2. CASE t \notin open /\ Abandon(t)
  BY <1>0, <1>2, AbandonKeepsContract
<1>3. CASE LineOut(t)
  BY <1>3, LineKeepsContract
<1>4. CASE UNCHANGED <<registryVars, sent, rows>>
  BY <1>4, SilentStep DEF registryVars, Told
<1> QED  BY <1>1, <1>2, <1>3, <1>4 DEF TextArrives

(* Every step of a turn is one its client may see, or none. *)
LEMMA StepsKeepContract ==
    ASSUME TurnInv, [Next]_vars
    PROVE  [Contract!ContractNext]_(Contract!contractVars)
<1>0. <<>> \in Seq(Events) /\ <<"error">> \in Seq(Events)
  BY DEF Events
<1>1. ASSUME NEW s \in Sockets, NEW t \in Turns, NEW o \in Options, OpenTurn(s, t, o)
      PROVE  [Contract!ContractNext]_(Contract!contractVars)
  <2>0. /\ sent \in [Turns -> Seq(Events)] /\ NoOwner \notin Sockets
        /\ owner \in [Turns -> Sockets \cup {NoOwner}]
    BY HeldIsLive
  <2>1. /\ owner[t] = NoOwner /\ s \notin gone /\ UNCHANGED <<gone, rows, refused>>
        /\ owner'[t] = s /\ sent'[t] = <<"ready">>
        /\ \A u \in Turns : u # t => sent'[u] = sent[u] /\ owner'[u] = owner[u]
    BY <1>1, <2>0 DEF OpenTurn, Start
  <2>2. Told(t) = "nothing"
    BY <2>1 DEF Told
  <2>3. Told(t)' = "ready"
    BY <2>0, <2>1, ReadyIsAWord DEF Told, Tiding
  <2>4. \A u \in Turns : u # t => Told(u)' = Told(u)
    BY <2>1 DEF Told
  <2>5. [u \in Turns |-> Told(u)]' = [[u \in Turns |-> Told(u)] EXCEPT ![t] = "ready"]
    BY <2>3, <2>4
  <2>6. UNCHANGED {u \in Turns : rows[u] # <<>>}
    BY <2>1
  <2>7. Contract!Ready(t)
    BY <2>1, <2>2, <2>5, <2>6 DEF Contract!Ready, Contract!MovesTo
  <2> QED  BY <2>7 DEF Contract!ContractNext
<1>2. ASSUME NEW s \in Sockets, LoseClient(s)
      PROVE  [Contract!ContractNext]_(Contract!contractVars)
  <2> DEFINE leaving == {t \in Turns : owner[t] = s}
  <2>0. NoOwner \notin Sockets
    BY NoOwnerIsNobody
  <2>1. UNCHANGED <<owner, sent, rows, refused>> /\ gone' = gone \cup {s} /\ s \notin gone
    BY <1>2 DEF LoseClient, Disconnect, turnVars
  <2>2. \A t \in Turns : Told(t)' = IF t \in leaving THEN "lost" ELSE Told(t)
    BY <2>0, <2>1 DEF Told
  <2>3. CASE leaving = {}
    BY <2>1, <2>2, <2>3, SilentStep
  <2>4. CASE leaving # {}
    <3>1. \A t \in leaving : Told(t) # "nothing"
      <4> SUFFICES ASSUME NEW t \in leaving  PROVE Told(t) # "nothing"
        OBVIOUS
      <4>1. Live(t)
        BY <2>1 DEF Live
      <4>2. stage[t] \in Stages \ {"new"}
        BY <4>1, HeldIsLive
      <4>3. stage[t] # "done" => Told(t) # "nothing"
        BY <4>1, <4>2, ToldByStage DEF Stages
      <4>4. stage[t] = "done" => LastWord(sent[t]) = "ended"
        BY <4>1, HeldIsLive DEF Flow, HeardLast
      <4> QED  BY <4>1, <4>3, <4>4, ToldByStage DEF Tiding
    <3>2. [t \in Turns |-> Told(t)]'
             = [t \in Turns |-> IF t \in leaving THEN "lost" ELSE Told(t)]
      BY <2>2
    <3>3. UNCHANGED {t \in Turns : rows[t] # <<>>}
      BY <2>1
    <3>4. Contract!Lost(leaving)
      BY <2>1, <2>4, <3>1, <3>2, <3>3 DEF Contract!Lost
    <3> QED  BY <3>4 DEF Contract!ContractNext
  <2> QED  BY <2>3, <2>4
<1>3. CASE SweepIdleTurns
  <2> DEFINE idle == {t \in open : IsListening(t) /\ quiet[t]}
  <2>1. /\ idle \in SUBSET Turns /\ idle # {}
        /\ \A t \in idle : stage[t] = "listening" /\ Live(t)
    BY <1>3, HeldIsLive DEF SweepIdleTurns, IsListening, TurnInv, AccountInv, TypeOK,
                            RegistryTypeOK
  <2>2. Finish(idle, "idle_timeout", <<"error">>) /\ UNCHANGED refused
    BY <1>3 DEF SweepIdleTurns
  <2> QED  BY <1>0, <2>1, <2>2, FinishKeepsContract
<1>4. ASSUME NEW t \in Turns, OverflowFrame(t) \/ EndEmpty(t)
      PROVE  [Contract!ContractNext]_(Contract!contractVars)
  <2>1. stage[t] = "listening" /\ Live(t) /\ {t} \in SUBSET Turns
    BY <1>4, HeldIsLive DEF OverflowFrame, EndEmpty, IsListening
  <2> QED  BY <1>0, <1>4, <2>1, FinishKeepsContract DEF OverflowFrame, EndEmpty
<1>5. ASSUME NEW t \in Turns, UseGuess(t) \/ FinalAnswers(t) \/ RespellAnswers(t)
      PROVE  [Contract!ContractNext]_(Contract!contractVars)
  <2>0. Flow(t) /\ (stage[t] \notin {"new", "done"} => (t \in open <=> Live(t)))
    BY HeldIsLive
  <2>1. CASE RespellAnswers(t)
    BY <2>0, <2>1, AbandonKeepsContract, LineKeepsContract DEF RespellAnswers
  <2>2. CASE /\ stage[t] = "guess" /\ guess[t].work = "unlaunched" /\ Abandon(t)
             /\ UNCHANGED refused
    BY <2>0, <2>2, AbandonKeepsContract DEF Flow
  <2> QED  BY <1>5, <2>1, <2>2, TextKeepsContract DEF UseGuess, FinalAnswers
<1>6. ASSUME NEW t \in Turns, VoiceArrives(t)
      PROVE  [Contract!ContractNext]_(Contract!contractVars)
  <2>1. stage[t] = "voice" /\ UNCHANGED <<owner, gone, rows, refused>>
    BY <1>6 DEF VoiceArrives, registryVars
  <2>2. CASE sent' = [sent EXCEPT ![t] = Tell(t, <<"voice">>)]
    BY <2>1, <2>2, TellingStep, ToldByStage
  <2>3. CASE UNCHANGED sent
    BY <2>1, <2>3, SilentStep DEF Told
  <2>4. sent = [sent EXCEPT ![t] = sent[t]]
    BY HeldIsLive
  <2> QED  BY <1>6, <2>2, <2>3, <2>4 DEF VoiceArrives
<1>7. ASSUME NEW t \in Turns, StreamYields(t) \/ ClauseAnswers(t)
      PROVE  [Contract!ContractNext]_(Contract!contractVars)
  <2>0. /\ Flow(t) /\ sent \in [Turns -> Seq(Events)]
        /\ (Live(t) \/ stage[t] = "new" \/ owner[t] \in gone)
    BY HeldIsLive, ToldByStage
  <2>1. /\ UNCHANGED <<owner, gone, rows, refused>>
        /\ sent' = [sent EXCEPT ![t] = TellAudio(t)] \/ UNCHANGED sent
        /\ speech[t] \in {"stream", "clause"}
    BY <1>7 DEF StreamYields, ClauseAnswers, registryVars
  <2>2. CASE UNCHANGED sent
    BY <2>1, <2>2, SilentStep DEF Told
  <2>3. CASE sent' = [sent EXCEPT ![t] = TellAudio(t)]
    <3>1. \A u \in Turns : u # t => Told(u)' = Told(u)
      BY <2>0, <2>1, <2>3 DEF Told
    <3>2. "ready" \in Events \ {"audio"}
      BY DEF Events
    <3>3. Live(t) => LastWord(sent'[t]) = LastWord(sent[t])
      BY <2>0, <2>3, <3>2, TellingALiveTurn
    <3>4. Told(t)' = Told(t)
      BY <2>0, <2>1, <3>3 DEF Told, Live, Flow
    <3> QED  BY <2>1, <3>1, <3>4, SilentStep
  <2> QED  BY <2>1, <2>2, <2>3
<1>8. ASSUME NEW t \in Turns, ReportFramingFault(t)
      PROVE  [Contract!ContractNext]_(Contract!contractVars)
  <2>1. /\ speech[t] = "hold" /\ stage[t] \in {"speak", "done"}
        /\ sent' = [sent EXCEPT ![t] = Tell(t, <<"error">>)]
        /\ UNCHANGED <<owner, gone, rows, refused>>
    BY <1>8 DEF ReportFramingFault, PastTheLine, registryVars
  <2>2. Live(t) => stage[t] = "speak"
    BY <2>1, HeldIsLive DEF Flow, Outcomes
  <2> QED  BY <2>1, <2>2, TellingStep, ToldByStage
<1>9. ASSUME NEW t \in Turns, Deliver(t)
      PROVE  [Contract!ContractNext]_(Contract!contractVars)
  <2>0. Flow(t) /\ stage[t] = "speak"
    BY <1>9, HeldIsLive DEF Deliver
  <2>1. CASE speech[t] = "client_gone"
    BY <1>9, <2>0, <2>1, AbandonKeepsContract DEF Deliver, Flow
  <2>2. CASE speech[t] # "client_gone"
    <3>1. \E reason : Finish({t}, reason, <<>>) \/ Finish({t}, reason, <<"error">>)
      BY <1>9, <2>2 DEF Deliver
    <3>2. {t} \in SUBSET Turns /\ UNCHANGED refused
      BY <1>9 DEF Deliver
    <3> QED  BY <1>0, <2>0, <3>1, <3>2, FinishKeepsContract
  <2> QED  BY <2>1, <2>2
<1>10. ASSUME NEW s \in Sockets, NEW t \in Turns, NEW o \in Options, RefuseTurn(s, t, o)
       PROVE  [Contract!ContractNext]_(Contract!contractVars)
  BY <1>10, SilentStep DEF RefuseTurn, RefuseLanguage, turnVars, Told
<1>11. ASSUME NEW t \in Turns,
              \/ AcceptFrame(t) \/ GoQuiet(t) \/ Speculate(t) \/ LaunchGuess(t)
              \/ GuessAnswers(t) \/ End(t) \/ EmbedAnswers(t) \/ GuessDisagrees(t)
              \/ QueuedSpeechBegins(t) \/ StreamOpens(t)
       PROVE  [Contract!ContractNext]_(Contract!contractVars)
  <2>1. UNCHANGED <<owner, gone, sent, rows, refused>>
    BY <1>11 DEF AcceptFrame, GoQuiet, Speculate, LaunchGuess, GuessAnswers, End,
                 EmbedAnswers, GuessDisagrees, QueuedSpeechBegins, StreamOpens,
                 registryVars
  <2> QED  BY <2>1, SilentStep DEF Told
<1>12. ASSUME NEW t \in Turns, RejectFrame(t) \/ EndAgain(t)
       PROVE  [Contract!ContractNext]_(Contract!contractVars)
  <2>1. /\ t \in open /\ refused' = refused \cup {t}
        /\ UNCHANGED <<owner, gone, sent, rows>>
    BY <1>12 DEF RejectFrame, EndAgain, Refuse, registryVars
  <2>2. stage[t] # "done" /\ Live(t)
    BY <2>1, HeldIsLive DEF Flow
  <2>3. stage[t] \in {"listening", "guess", "final", "respell", "voice", "speak"}
    BY <2>2, HeldIsLive DEF Stages
  <2>4. Told(t) \in {"ready", "line", "label", "fault"}
    BY <2>2, <2>3, ToldByStage
  <2>5. /\ [u \in Turns |-> Told(u)]' = [u \in Turns |-> Told(u)]
        /\ UNCHANGED {u \in Turns : rows[u] # <<>>}
    BY <2>1 DEF Told
  <2>6. Contract!Refused(t)
    BY <2>1, <2>4, <2>5 DEF Contract!Refused
  <2> QED  BY <2>6 DEF Contract!ContractNext
<1>13. CASE UNCHANGED vars
  BY <1>13, SilentStep DEF vars, turnVars, registryVars, Told
<1> QED  BY <1>1, <1>2, <1>3, <1>4, <1>5, <1>6, <1>7, <1>8, <1>9, <1>10, <1>11,
             <1>12, <1>13
         DEF Next, ClientStep, Timer, ServerStep, Continue, Answer

(* The contract a client relies on is kept for any sockets, settings and    *)
(* caps, through every interleaving of answers, timers and leavings: one    *)
(* line before one label, no word after a fault of the server's but ended,  *)
(* nothing after ended, and the row filed with it.  Errors that answer a    *)
(* message of the client's fall anywhere between ready and ended.           *)
THEOREM TurnsKeepContract == Spec => KeepsContract
<1>1. Init => Contract!ContractInit
  BY DEF Init, RegistryInit, Contract!ContractInit, Told
<1> QED  BY <1>1, StepsKeepContract, EveryTurnFlows, PTL
         DEF Spec, KeepsContract, Contract!ContractSpec

-----------------------------------------------------------------------------
(* A held turn leaves the registry with its client, or because it is closed *)
(* - and once it is translated, for a reason other than its silence.        *)
LEMMA HowATurnLeaves ==
    ASSUME TurnInv, [Next]_vars, NEW t \in Turns, t \in open, t \notin open'
    PROVE  \/ owner[t] \in gone'
           \/ \E closing, reason, errors :
                 /\ Finish(closing, reason, errors)
                 /\ t \in closing
                 /\ IsTranslating(t) => reason # "idle_timeout"
<1> DEFINE Closes == \E closing, reason, errors :
                        /\ Finish(closing, reason, errors)
                        /\ t \in closing
                        /\ IsTranslating(t) => reason # "idle_timeout"
<1>1. ASSUME NEW u \in Turns, NEW reason, NEW errors, Finish({u}, reason, errors),
             reason # "idle_timeout"
      PROVE  Closes
  <2>1. {u} \in SUBSET Turns /\ t \in {u}
    BY <1>1 DEF Finish, CloseTurns
  <2> QED  BY <1>1, <2>1
<1>2. ASSUME NEW u \in Turns,
             \/ OverflowFrame(u) \/ EndEmpty(u) \/ UseGuess(u) \/ FinalAnswers(u)
             \/ RespellAnswers(u) \/ Deliver(u)
      PROVE  Closes
  <2>1. \/ UNCHANGED open
        \/ \E reason, errors : Finish({u}, reason, errors) /\ reason # "idle_timeout"
    BY <1>2 DEF OverflowFrame, EndEmpty, UseGuess, FinalAnswers, RespellAnswers,
                Deliver, TextArrives, TextIsSilent, TextFails, LineOut, Abandon,
                registryVars, Outcomes
  <2> QED  BY <1>1, <2>1
<1>3. CASE SweepIdleTurns
  <2> DEFINE idle == {u \in open : IsListening(u) /\ quiet[u]}
  <2>1. Finish(idle, "idle_timeout", <<"error">>) /\ idle \in SUBSET Turns
    BY <1>3, HeldIsLive DEF SweepIdleTurns
  <2>2. t \in idle
    BY <2>1 DEF Finish, CloseTurns
  <2>3. ~IsTranslating(t)
    BY <2>2 DEF IsListening, IsTranslating
  <2> QED  BY <2>1, <2>2, <2>3
<1>4. ASSUME NEW s \in Sockets, LoseClient(s)
      PROVE  owner[t] \in gone'
  BY <1>4 DEF LoseClient, Disconnect, OfSocket
<1>5. ASSUME NEW s \in Sockets, NEW u \in Turns, NEW o \in Options,
             OpenTurn(s, u, o) \/ RefuseTurn(s, u, o)
      PROVE  FALSE
  BY <1>5 DEF OpenTurn, RefuseTurn, Start, RefuseLanguage
<1>6. ASSUME NEW u \in Turns,
             \/ AcceptFrame(u) \/ GoQuiet(u) \/ Speculate(u) \/ LaunchGuess(u)
             \/ GuessAnswers(u) \/ End(u) \/ EmbedAnswers(u) \/ GuessDisagrees(u)
             \/ VoiceArrives(u) \/ QueuedSpeechBegins(u) \/ StreamOpens(u)
             \/ StreamYields(u) \/ ClauseAnswers(u) \/ ReportFramingFault(u)
             \/ RejectFrame(u) \/ EndAgain(u)
      PROVE  FALSE
  BY <1>6 DEF AcceptFrame, GoQuiet, Speculate, LaunchGuess, GuessAnswers, End,
              EmbedAnswers, GuessDisagrees, VoiceArrives, QueuedSpeechBegins,
              StreamOpens, StreamYields, ClauseAnswers, ReportFramingFault,
              RejectFrame, EndAgain, Refuse, registryVars
<1>7. ~UNCHANGED vars
  BY DEF vars, registryVars
<1> QED  BY <1>2, <1>3, <1>4, <1>5, <1>6, <1>7
         DEF Next, ClientStep, Timer, ServerStep, Continue, Answer

(* An idle sweep never cuts off an answer: what is being translated leaves  *)
(* with its client or by its own end(), whatever the timers do.             *)
THEOREM TranslationNeverCutOff == Spec => TranslationIsNotCutOff
<1>1. ASSUME TurnInv, [Next]_vars
      PROVE  [\A t \in Turns : IsTranslating(t) /\ t \in open /\ t \notin open'
                => owner[t] \in gone' \/ (stage'[t] = "done" /\ rows'[t] # <<"idle_timeout">>)]_vars
  <2> SUFFICES ASSUME NEW t \in Turns, IsTranslating(t), t \in open, t \notin open',
                      owner[t] \notin gone'
               PROVE  stage'[t] = "done" /\ rows'[t] # <<"idle_timeout">>
    OBVIOUS
  <2>1. PICK closing, reason, errors :
               /\ Finish(closing, reason, errors)
               /\ t \in closing
               /\ reason # "idle_timeout"
    BY <1>1, HowATurnLeaves
  <2>2. stage'[t] = "done" /\ rows'[t] = Append(rows[t], reason)
    BY <2>1 DEF Finish
  <2>3. rows[t] = <<>>
    BY <1>1, ToldByStage DEF IsTranslating
  <2>4. rows'[t] = <<reason>>
    BY <2>2, <2>3
  <2> QED  BY <2>1, <2>2, <2>4
<1> QED  BY <1>1, EveryTurnFlows, PTL DEF Spec, TranslationIsNotCutOff

(* Closing one turn never drops another: each turn that leaves the registry *)
(* has its own row filed, or lost its client.                               *)
THEOREM NoTurnEverDroppedSilently == Spec => NoTurnIsDroppedSilently
<1>1. ASSUME TurnInv, [Next]_vars
      PROVE  [\A t \in Turns : t \in open /\ t \notin open'
                => owner[t] \in gone' \/ Len(rows'[t]) = Len(rows[t]) + 1]_vars
  <2> SUFFICES ASSUME NEW t \in Turns, t \in open, t \notin open', owner[t] \notin gone'
               PROVE  Len(rows'[t]) = Len(rows[t]) + 1
    OBVIOUS
  <2>1. PICK closing, reason, errors :
               Finish(closing, reason, errors) /\ t \in closing
    BY <1>1, HowATurnLeaves
  <2>2. rows'[t] = Append(rows[t], reason) /\ rows[t] \in Seq(Reasons)
    BY <1>1, <2>1, HeldIsLive DEF Finish
  <2> QED  BY <2>2
<1> QED  BY <1>1, EveryTurnFlows, PTL DEF Spec, NoTurnIsDroppedSilently

(* No synthesis starts for a turn that left the registry, clause by clause  *)
(* and stream by stream, whenever its client left.                          *)
THEOREM NoSpeechEverForNobody == Spec => NoSpeechForNobody
<1>1. ASSUME TurnInv, [Next]_vars
      PROVE  [\A t \in Turns : speech'[t] = "clause" \/ speech'[t] = "opening"
                => t \in open \/ (speech'[t] = speech[t] /\ clauses'[t] = clauses[t])]_vars
  <2> SUFFICES ASSUME NEW t \in Turns, speech'[t] \in {"clause", "opening"}, t \notin open
               PROVE  speech'[t] = speech[t] /\ clauses'[t] = clauses[t]
    OBVIOUS
  <2>0. speech \in [Turns -> Speeches] /\ clauses \in [Turns -> 0 .. MaxClauses]
    BY <1>1 DEF TurnInv, AccountInv, TypeOK
  <2>1. CASE UNCHANGED <<speech, clauses>>
    BY <2>1
  <2>2. ASSUME NEW u \in Turns, BeginSpeech(u) \/ UNCHANGED speech, UNCHANGED clauses
        PROVE  speech'[t] = speech[t] /\ clauses'[t] = clauses[t]
    BY <2>0, <2>2 DEF BeginSpeech, FirstSpeech
  <2>3. ASSUME NEW u \in Turns, TextArrives(u) \/ TextIsSilent(u) \/ TextFails(u),
               UNCHANGED clauses
        PROVE  speech'[t] = speech[t] /\ clauses'[t] = clauses[t]
    BY <2>0, <2>2, <2>3 DEF TextArrives, TextIsSilent, TextFails, LineOut
  <2>4. ASSUME NEW u \in Turns, UseGuess(u) \/ FinalAnswers(u) \/ RespellAnswers(u)
        PROVE  speech'[t] = speech[t] /\ clauses'[t] = clauses[t]
    BY <2>2, <2>3, <2>4 DEF UseGuess, FinalAnswers, RespellAnswers, LineOut
  <2>5. ASSUME NEW u \in Turns, VoiceArrives(u) \/ QueuedSpeechBegins(u)
        PROVE  speech'[t] = speech[t] /\ clauses'[t] = clauses[t]
    BY <2>2, <2>5 DEF VoiceArrives, QueuedSpeechBegins
  <2>6. ASSUME NEW u \in Turns, StreamOpens(u) \/ ClauseAnswers(u)
        PROVE  speech'[t] = speech[t] /\ clauses'[t] = clauses[t]
    BY <2>0, <2>6 DEF StreamOpens, ClauseAnswers, Speaks
  <2>7. ASSUME NEW u \in Turns, StreamYields(u) \/ ReportFramingFault(u)
        PROVE  speech'[t] = speech[t] /\ clauses'[t] = clauses[t]
    BY <2>0, <2>7 DEF StreamYields, ReportFramingFault, Speaks
  <2>8. ASSUME NEW u \in Turns,
               \/ AcceptFrame(u) \/ GoQuiet(u) \/ Speculate(u) \/ LaunchGuess(u)
               \/ GuessAnswers(u) \/ End(u) \/ EmbedAnswers(u) \/ GuessDisagrees(u)
               \/ OverflowFrame(u) \/ EndEmpty(u) \/ Deliver(u)
               \/ RejectFrame(u) \/ EndAgain(u)
        PROVE  UNCHANGED <<speech, clauses>>
    BY <2>8 DEF AcceptFrame, GoQuiet, Speculate, LaunchGuess, GuessAnswers, End,
                EmbedAnswers, GuessDisagrees, OverflowFrame, EndEmpty, Deliver,
                RejectFrame, EndAgain, Refuse
  <2>9. ASSUME NEW s \in Sockets, NEW u \in Turns, NEW o \in Options,
               OpenTurn(s, u, o) \/ RefuseTurn(s, u, o)
        PROVE  UNCHANGED <<speech, clauses>>
    BY <2>9 DEF OpenTurn, RefuseTurn, turnVars
  <2>10. ASSUME NEW s \in Sockets, LoseClient(s)
         PROVE  UNCHANGED <<speech, clauses>>
    BY <2>10 DEF LoseClient, turnVars
  <2>11. CASE SweepIdleTurns
    BY <2>11 DEF SweepIdleTurns
  <2>12. CASE UNCHANGED vars
    BY <2>12 DEF vars, turnVars
  <2> QED  BY <1>1, <2>1, <2>4, <2>5, <2>6, <2>7, <2>8, <2>9, <2>10, <2>11, <2>12
           DEF Next, ClientStep, Timer, ServerStep, Continue, Answer
<1> QED  BY <1>1, EveryTurnFlows, PTL DEF Spec, NoSpeechForNobody

=============================================================================
