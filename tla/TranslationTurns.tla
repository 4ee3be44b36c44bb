-------------------------- MODULE TranslationTurns --------------------------
(***************************************************************************)
(* The life of a streaming turn on the server: TranslationSessionService   *)
(* with TurnSession and TurnSpeculation, on top of the registry.           *)
(*                                                                         *)
(* A turn listens, is ended by its client, and is then carried by one      *)
(* async end() through text, respelling, line, voice vector and speech.    *)
(* Each await is a stage of its own, and between two stages any other      *)
(* event may run: a disconnect above all.  The speech of a respelled turn  *)
(* runs beside its line, so it is a second thread of the same turn.        *)
(*                                                                         *)
(* Not here: the live preview, a turn split between two voices, speech in  *)
(* extra languages, the polish after the line.  A message that names no    *)
(* turn of its socket, and a start over a ceiling, are answered and change *)
(* nothing: they are stutters.                                             *)
(***************************************************************************)
EXTENDS TurnRegistry, SequencesExt

CONSTANTS
    Options,        \* the settings a start may ask for
    MaxBytes,       \* MAX_TURN_BYTES, in frames
    MaxGuesses,     \* MAX_SPECULATIONS_PER_TURN
    Overlap,        \* TranslationCostPolicy.speculationOverlap
    MaxClauses,     \* bound: clauses a translation splits into
    MaxRefused      \* bound: turns with a message refused

Setting == [meets : BOOLEAN, mode : Modes, embed : BOOLEAN, voice : BOOLEAN,
            respell : BOOLEAN, continues : BOOLEAN]

ASSUME OptionsType == Options \subseteq Setting
ASSUME BoundsType == /\ MaxBytes \in Nat \ {0} /\ MaxGuesses \in Nat
                     /\ Overlap \in BOOLEAN /\ MaxClauses \in Nat \ {0}
                     /\ MaxRefused \in Nat

VARIABLES
    opt,        \* what each turn was started with; respell: its text has a
                \* span the respeller is asked about
    stage,      \* where the turn's end() is
    bytes,      \* TurnAudio.byteLength
    quiet,      \* TURN_IDLE_TIMEOUT_MS passed since the last accepted frame
    guess,      \* TurnSpeculation.current: the bytes it covers and its work
    spent,      \* TurnSpeculation.spent
    vector,     \* the embedding request end() started
    speech,     \* where speak() is, or how it came out
    clauses,    \* clauses left to synthesize, the one in flight included
    sent,       \* the events the turn's client received, audio once, the
                \* errors that answer a message of its own left out
    rows,       \* the metrics rows filed for the turn
    refused     \* the turns whose client was told, in a server.error that
                \* names the turn, that a frame or an end of its was refused

turnVars == <<opt, stage, bytes, quiet, guess, spent, vector, speech, clauses,
              sent, rows, refused>>
vars == <<registryVars, turnVars>>

NoGuess == [at |-> 0, work |-> "none"]
NoOptions == [meets |-> FALSE, mode |-> "declared", embed |-> FALSE,
              voice |-> FALSE, respell |-> FALSE, continues |-> FALSE]

Stages == {"new", "listening", "guess", "final", "respell", "voice", "speak", "done"}
Works == {"none", "waiting", "running", "text", "silent", "failed", "unlaunched"}
Outcomes == {"spoken", "voice_off", "client_gone", "engine_busy",
             "unsupported_audio", "thrown"}
Speeches == Outcomes \cup {"none", "queued", "opening", "stream", "clause", "hold"}
Reasons == {"completed", "abandoned", "error", "no_speech", "no_audio",
            "turn_too_long", "idle_timeout", "engine_busy", "unsupported_audio"}
Events == {"ready", "final", "voice", "audio", "error", "ended"}

-----------------------------------------------------------------------------
IsListening(t) == t \in open /\ stage[t] = "listening"

IsTranslating(t) == stage[t] \in {"guess", "final", "respell", "voice", "speak"}

(* The turn's line went out, or its end() gave up: lineOut() was called. *)
PastTheLine(t) == stage[t] \in {"speak", "done"}

Settled(g) == g.work \notin {"waiting", "running"}

(* TurnSpeculation.canRenew *)
CanRenew(t) ==
    /\ guess[t].work # "none" => guess[t].at # bytes[t]
    /\ Overlap \/ Settled(guess[t])
    /\ spent[t] < MaxGuesses

(* Takes whatever guess there is, also one the speaker talked past. *)
AnyGuessUsable(t) == guess[t].work # "none"

(* TurnSpeculation.usable: no audio arrived after the guess started. *)
GuessUsable(t) == guess[t].work # "none" /\ guess[t].at = bytes[t]

(* EventChannel.emit: a send to a socket that closed is dropped. *)
Tell(t, events) ==
    IF owner[t] \in gone THEN sent[t] ELSE sent[t] \o events

TellAudio(t) == IF Contains(sent[t], "audio") THEN sent[t] ELSE Tell(t, <<"audio">>)

File(t, reason) == rows' = [rows EXCEPT ![t] = Append(@, reason)]

-----------------------------------------------------------------------------
(* Leaves without a word when its client did: the spending is lost. *)
AbandonSilently(t) ==
    /\ stage' = [stage EXCEPT ![t] = "done"]
    /\ UNCHANGED <<registryVars, sent, rows>>

(* How a turn's end() stops for a client that left: a row and nothing else. *)
Abandon(t) ==
    /\ File(t, "abandoned")
    /\ stage' = [stage EXCEPT ![t] = "done"]
    /\ UNCHANGED <<registryVars, sent>>

(* close() after record(): the row, the error if there is one, the turn out *)
(* of the registry, and only then ended.                                    *)
Finish(closing, reason, errors) ==
    /\ CloseTurns(closing)
    /\ stage' = [t \in Turns |-> IF t \in closing THEN "done" ELSE stage[t]]
    /\ rows' = [t \in Turns |-> IF t \in closing THEN Append(rows[t], reason)
                                ELSE rows[t]]
    /\ sent' = [t \in Turns |-> IF t \in closing THEN Tell(t, errors \o <<"ended">>)
                                ELSE sent[t]]

-----------------------------------------------------------------------------
Init ==
    /\ RegistryInit
    /\ opt = [t \in Turns |-> NoOptions]
    /\ stage = [t \in Turns |-> "new"]
    /\ bytes = [t \in Turns |-> 0]
    /\ quiet = [t \in Turns |-> FALSE]
    /\ guess = [t \in Turns |-> NoGuess]
    /\ spent = [t \in Turns |-> 0]
    /\ vector = [t \in Turns |-> "off"]
    /\ speech = [t \in Turns |-> "none"]
    /\ clauses = [t \in Turns |-> 0]
    /\ sent = [t \in Turns |-> <<>>]
    /\ rows = [t \in Turns |-> <<>>]
    /\ refused = {}

(* start(): a two-way turn over the identification cap runs declared. *)
OpenTurn(s, t, o) ==
    /\ Start(s, t, o.meets, o.mode)
    /\ opt' = [opt EXCEPT ![t] =
                 IF MayIdentify(s, t) THEN o ELSE [o EXCEPT !.mode = "declared"]]
    /\ stage' = [stage EXCEPT ![t] = "listening"]
    /\ sent' = [sent EXCEPT ![t] = <<"ready">>]
    /\ UNCHANGED <<bytes, quiet, guess, spent, vector, speech, clauses, rows,
                   refused>>

RefuseTurn(s, t, o) ==
    RefuseLanguage(s, t, o.meets, o.mode) /\ UNCHANGED turnVars

(* Buffers past the cap. *)
AcceptAnyFrame(t) ==
    /\ IsListening(t)
    /\ bytes[t] <= MaxBytes
    /\ bytes' = [bytes EXCEPT ![t] = @ + 1]
    /\ quiet' = [quiet EXCEPT ![t] = FALSE]
    /\ UNCHANGED <<registryVars, opt, stage, guess, spent, vector, speech,
                   clauses, sent, rows, refused>>

(* pushFrame(), accepted *)
AcceptFrame(t) ==
    /\ IsListening(t)
    /\ bytes[t] < MaxBytes
    /\ bytes' = [bytes EXCEPT ![t] = @ + 1]
    /\ quiet' = [quiet EXCEPT ![t] = FALSE]
    /\ UNCHANGED <<registryVars, opt, stage, guess, spent, vector, speech,
                   clauses, sent, rows, refused>>

(* pushFrame(), past the length cap: the one rejection that ends the turn *)
OverflowFrame(t) ==
    /\ IsListening(t)
    /\ bytes[t] = MaxBytes
    /\ Finish({t}, "turn_too_long", <<"error">>)
    /\ UNCHANGED <<opt, bytes, quiet, guess, spent, vector, speech, clauses,
                   refused>>

(* The server.error goes out in the turn's name and nothing else changes. *)
Refuse(t) ==
    /\ Cardinality(refused \cup {t}) <= MaxRefused
    /\ refused' = refused \cup {t}
    /\ UNCHANGED <<registryVars, opt, stage, bytes, quiet, guess, spent, vector,
                   speech, clauses, sent, rows>>

(* pushFrame(), refused for any other reason: the turn is being translated, *)
(* or the frame is malformed, replayed or out of order.  The turn goes on.  *)
RejectFrame(t) == t \in open /\ Refuse(t)

(* Thirty seconds without an accepted frame: a rejected one does not count. *)
GoQuiet(t) ==
    /\ IsListening(t)
    /\ ~quiet[t]
    /\ quiet' = [quiet EXCEPT ![t] = TRUE]
    /\ UNCHANGED <<registryVars, opt, stage, bytes, guess, spent, vector,
                   speech, clauses, sent, rows, refused>>

(* Sweeps a turn that went quiet even while it is being translated. *)
SweepEveryQuietTurn ==
    LET idle == {t \in open : quiet[t]}
    IN  /\ idle # {}
        /\ Finish(idle, "idle_timeout", <<"error">>)
        /\ UNCHANGED <<opt, bytes, quiet, guess, spent, vector, speech, clauses,
                       refused>>

(* Sweeps only turns that never carried audio. *)
SweepEmptyTurns ==
    LET idle == {t \in open : IsListening(t) /\ quiet[t] /\ bytes[t] = 0}
    IN  /\ idle # {}
        /\ Finish(idle, "idle_timeout", <<"error">>)
        /\ UNCHANGED <<opt, bytes, quiet, guess, spent, vector, speech, clauses,
                       refused>>

(* sweepIdleTurns(): every idle turn of the process, in one pass *)
SweepIdleTurns ==
    LET idle == {t \in open : IsListening(t) /\ quiet[t]}
    IN  /\ idle # {}
        /\ Finish(idle, "idle_timeout", <<"error">>)
        /\ UNCHANGED <<opt, bytes, quiet, guess, spent, vector, speech, clauses,
                       refused>>

(* speculate(): a guess over what is buffered.  One that continues a cut    *)
(* turn may first wait for that turn's text.                                *)
Speculate(t) ==
    /\ IsListening(t)
    /\ bytes[t] > 0
    /\ CanRenew(t)
    /\ \E work \in {"running"} \cup (IF opt[t].continues THEN {"waiting"} ELSE {}) :
          guess' = [guess EXCEPT ![t] = [at |-> bytes[t], work |-> work]]
    /\ spent' = [spent EXCEPT ![t] = @ + 1]
    /\ UNCHANGED <<registryVars, opt, stage, bytes, quiet, vector, speech,
                   clauses, sent, rows, refused>>

(* launch(), once the cut turn answered or PREDECESSOR_WAIT_MS passed *)
LaunchGuess(t) ==
    /\ guess[t].work = "waiting"
    /\ guess' = [guess EXCEPT ![t].work = IF t \in open THEN "running" ELSE "unlaunched"]
    /\ UNCHANGED <<registryVars, opt, stage, bytes, quiet, spent, vector,
                   speech, clauses, sent, rows, refused>>

(* transcribeAndTranslate() answers the current guess *)
GuessAnswers(t) ==
    /\ guess[t].work = "running"
    /\ \E work \in {"text", "silent", "failed"} :
          guess' = [guess EXCEPT ![t].work = work]
    /\ UNCHANGED <<registryVars, opt, stage, bytes, quiet, spent, vector,
                   speech, clauses, sent, rows, refused>>

-----------------------------------------------------------------------------
(* end() of a turn that heard nothing *)
EndEmpty(t) ==
    /\ IsListening(t)
    /\ bytes[t] = 0
    /\ Finish({t}, "no_audio", <<"error">>)
    /\ UNCHANGED <<opt, bytes, quiet, guess, spent, vector, speech, clauses,
                   refused>>

(* end() up to its first await *)
End(t) ==
    /\ IsListening(t)
    /\ bytes[t] > 0
    /\ stage' = [stage EXCEPT ![t] = IF GuessUsable(t) THEN "guess" ELSE "final"]
    /\ vector' = [vector EXCEPT ![t] = IF opt[t].embed THEN "pending" ELSE "off"]
    /\ UNCHANGED <<registryVars, opt, bytes, quiet, guess, spent, speech,
                   clauses, sent, rows, refused>>

(* end() of a turn being translated already: told so, and nothing else *)
EndAgain(t) == t \in open /\ ~IsListening(t) /\ Refuse(t)

EmbedAnswers(t) ==
    /\ vector[t] = "pending"
    /\ \E v \in {"heard", "missing"} : vector' = [vector EXCEPT ![t] = v]
    /\ UNCHANGED <<registryVars, opt, stage, bytes, quiet, guess, spent, speech,
                   clauses, sent, rows, refused>>

(* A two-way turn decided another language than the guess: read again. *)
GuessDisagrees(t) ==
    /\ stage[t] = "guess"
    /\ guess[t].work = "text"
    /\ opt[t].mode # "declared"
    /\ stage' = [stage EXCEPT ![t] = "final"]
    /\ UNCHANGED <<registryVars, opt, bytes, quiet, guess, spent, vector,
                   speech, clauses, sent, rows, refused>>

(* What speakIn() does up to its first await: nothing for a turn without    *)
(* voice; blank text is zero clauses, spoken at once; a turn nobody holds   *)
(* stops at the clause loop's check.                                        *)
FirstSpeech(t) ==
    IF opt[t].voice
    THEN {"spoken", IF t \in open THEN "opening" ELSE "client_gone"}
    ELSE {IF t \in open THEN "voice_off" ELSE "client_gone"}

BeginSpeech(t) ==
    \E begun \in FirstSpeech(t) : speech' = [speech EXCEPT ![t] = begun]

(* The final goes out and the turn waits for its vector, if it asked for    *)
(* one; without one it speaks, unless its speech runs already.              *)
LineOut(t) ==
    /\ sent' = [sent EXCEPT ![t] = Tell(t, <<"final">>)]
    /\ IF opt[t].embed
       THEN /\ stage' = [stage EXCEPT ![t] = "voice"]
            /\ UNCHANGED speech
       ELSE /\ stage' = [stage EXCEPT ![t] = "speak"]
            /\ IF speech[t] = "none" THEN BeginSpeech(t) ELSE UNCHANGED speech
    /\ UNCHANGED <<registryVars, rows>>

(* The turn's text is in: the line now, or the respelling and the speech    *)
(* beside it.                                                               *)
TextArrives(t) ==
    \/ /\ t \notin open
       /\ Abandon(t)
       /\ UNCHANGED speech
    \/ /\ t \in open
       /\ opt[t].respell
       /\ stage' = [stage EXCEPT ![t] = "respell"]
       /\ speech' = [speech EXCEPT ![t] = IF opt[t].voice THEN "queued" ELSE @]
       /\ UNCHANGED <<registryVars, sent, rows>>
    \/ /\ t \in open
       /\ ~opt[t].respell
       /\ LineOut(t)

(* The catch of end(): nothing was heard, or the turn failed. *)
TextIsSilent(t) == Finish({t}, "no_speech", <<>>) /\ UNCHANGED speech

TextFails(t) == Finish({t}, "error", <<"error">>) /\ UNCHANGED speech

UseGuess(t) ==
    /\ stage[t] = "guess"
    /\ \/ guess[t].work = "text" /\ TextArrives(t)
       \/ guess[t].work = "silent" /\ TextIsSilent(t)
       \/ guess[t].work = "failed" /\ TextFails(t)
       \/ guess[t].work = "unlaunched" /\ Abandon(t) /\ UNCHANGED speech
    /\ UNCHANGED <<opt, bytes, quiet, guess, spent, vector, clauses, refused>>

(* The final request answers: sent after continuationFor(), whose wait is   *)
(* part of this await.                                                      *)
FinalAnswers(t) ==
    /\ stage[t] = "final"
    /\ TextArrives(t) \/ TextIsSilent(t) \/ TextFails(t)
    /\ UNCHANGED <<opt, bytes, quiet, guess, spent, vector, clauses, refused>>

RespellAnswers(t) ==
    /\ stage[t] = "respell"
    /\ \/ t \notin open /\ Abandon(t) /\ UNCHANGED speech
       \/ t \in open /\ LineOut(t)
    /\ UNCHANGED <<opt, bytes, quiet, guess, spent, vector, clauses, refused>>

(* Waits for a vector even when the sidecar had none to give. *)
VoiceMustArrive(t) ==
    /\ stage[t] = "voice"
    /\ vector[t] = "heard"
    /\ sent' = [sent EXCEPT ![t] = IF t \in open THEN Tell(t, <<"voice">>) ELSE @]
    /\ stage' = [stage EXCEPT ![t] = "speak"]
    /\ IF speech[t] = "none" THEN BeginSpeech(t) ELSE UNCHANGED speech
    /\ UNCHANGED <<registryVars, opt, bytes, quiet, guess, spent, vector,
                   clauses, rows, refused>>

(* The vector is in: sent if it was heard and the turn is still held. *)
VoiceArrives(t) ==
    /\ stage[t] = "voice"
    /\ vector[t] # "pending"
    /\ sent' = [sent EXCEPT ![t] = IF vector[t] = "heard" /\ t \in open
                                   THEN Tell(t, <<"voice">>) ELSE @]
    /\ stage' = [stage EXCEPT ![t] = "speak"]
    /\ IF speech[t] = "none" THEN BeginSpeech(t) ELSE UNCHANGED speech
    /\ UNCHANGED <<registryVars, opt, bytes, quiet, guess, spent, vector,
                   clauses, rows, refused>>

-----------------------------------------------------------------------------
Speaks(t, to) == speech' = [speech EXCEPT ![t] = to]

(* A respelled turn's speech starts once its vector is in. *)
QueuedSpeechBegins(t) ==
    /\ speech[t] = "queued"
    /\ vector[t] # "pending"
    /\ BeginSpeech(t)
    /\ UNCHANGED <<registryVars, opt, stage, bytes, quiet, guess, spent,
                   vector, clauses, sent, rows, refused>>

(* synthesizeStream() answers: a stream, no stream (so clauses), a busy     *)
(* engine or a fault.  Leaving the registry aborts the request, so a turn   *)
(* nobody holds gets no stream, and without one asks before its first       *)
(* clause.                                                                  *)
StreamOpens(t) ==
    /\ speech[t] = "opening"
    /\ \/ /\ t \in open
          /\ Speaks(t, "clause")
          /\ \E n \in 1 .. MaxClauses : clauses' = [clauses EXCEPT ![t] = n]
       \/ /\ \/ Speaks(t, IF t \in open THEN "stream" ELSE "client_gone")
             \/ Speaks(t, "engine_busy")
             \/ Speaks(t, "thrown")
          /\ UNCHANGED clauses
    /\ UNCHANGED <<registryVars, opt, stage, bytes, quiet, guess, spent,
                   vector, sent, rows, refused>>

(* deliverStreamedSpeech(): a chunk, the end of the body, a fault; or the   *)
(* abort that a turn leaving the registry sends to the request.             *)
StreamYields(t) ==
    /\ speech[t] = "stream"
    /\ \/ /\ t \in open
          /\ sent' = [sent EXCEPT ![t] = TellAudio(t)]
          /\ UNCHANGED speech
       \/ /\ t \in open
          /\ Speaks(t, "spoken") \/ Speaks(t, "thrown")
          /\ UNCHANGED sent
       \/ /\ t \notin open
          /\ Speaks(t, "client_gone")
          /\ UNCHANGED sent
    /\ UNCHANGED <<registryVars, opt, stage, bytes, quiet, guess, spent,
                   vector, clauses, rows, refused>>

(* Starts the next clause without asking who is still there. *)
ClauseAnswersUnasked(t) ==
    /\ speech[t] = "clause"
    /\ \/ /\ sent' = [sent EXCEPT ![t] = TellAudio(t)]
          /\ clauses' = [clauses EXCEPT ![t] = @ - 1]
          /\ Speaks(t, IF clauses[t] = 1 THEN "spoken" ELSE "clause")
       \/ /\ Speaks(t, "engine_busy") \/ Speaks(t, "thrown") \/ Speaks(t, "hold")
          /\ UNCHANGED <<sent, clauses>>
    /\ UNCHANGED <<registryVars, opt, stage, bytes, quiet, guess, spent,
                   vector, rows, refused>>

(* streamClauses(): one clause's audio is in and pushed, and the next one   *)
(* starts only if the turn is still held; or the engine was busy, failed,   *)
(* or gave audio that cannot be framed.                                     *)
ClauseAnswers(t) ==
    /\ speech[t] = "clause"
    /\ \/ /\ sent' = [sent EXCEPT ![t] = TellAudio(t)]
          /\ clauses' = [clauses EXCEPT ![t] = @ - 1]
          /\ Speaks(t, IF clauses[t] = 1 THEN "spoken"
                       ELSE IF t \in open THEN "clause" ELSE "client_gone")
       \/ /\ Speaks(t, "engine_busy") \/ Speaks(t, "thrown") \/ Speaks(t, "hold")
          /\ UNCHANGED <<sent, clauses>>
    /\ UNCHANGED <<registryVars, opt, stage, bytes, quiet, guess, spent,
                   vector, rows, refused>>

(* Reports the framing fault the moment it is met. *)
ReportFramingFaultAtOnce(t) ==
    /\ speech[t] = "hold"
    /\ sent' = [sent EXCEPT ![t] = Tell(t, <<"error">>)]
    /\ Speaks(t, "unsupported_audio")
    /\ UNCHANGED <<registryVars, opt, stage, bytes, quiet, guess, spent,
                   vector, clauses, rows, refused>>

(* `await afterLine`: the error never goes out ahead of the line. *)
ReportFramingFault(t) ==
    /\ speech[t] = "hold"
    /\ PastTheLine(t)
    /\ sent' = [sent EXCEPT ![t] = Tell(t, <<"error">>)]
    /\ Speaks(t, "unsupported_audio")
    /\ UNCHANGED <<registryVars, opt, stage, bytes, quiet, guess, spent,
                   vector, clauses, rows, refused>>

(* end() after its speech: the row, then the close.  Spoken to the end and  *)
(* nothing to speak both count as completed.                                *)
Deliver(t) ==
    /\ stage[t] = "speak"
    /\ speech[t] \in Outcomes
    /\ CASE speech[t] = "client_gone" -> Abandon(t)
         [] speech[t] = "thrown" -> Finish({t}, "error", <<"error">>)
         [] speech[t] \in {"spoken", "voice_off"} -> Finish({t}, "completed", <<>>)
         [] OTHER -> Finish({t}, speech[t], <<>>)
    /\ UNCHANGED <<opt, bytes, quiet, guess, spent, vector, speech, clauses,
                   refused>>

(* The socket closed.  Its turns' end() and speech go on and find out.      *)
LoseClient(s) == Disconnect(s) /\ UNCHANGED turnVars

-----------------------------------------------------------------------------
(* What is left to run in the current turn of the event loop: promises that *)
(* already settled.  It all runs before the next message, timer or answer.  *)
Runnable(t) ==
    \/ stage[t] = "guess" /\ guess[t].work \in {"silent", "failed", "unlaunched"}
    \/ (stage[t] = "voice" \/ speech[t] = "queued") /\ vector[t] # "pending"
    \/ speech[t] = "hold" /\ PastTheLine(t)
    \/ stage[t] = "speak" /\ speech[t] \in Outcomes

Drained == \A t \in Turns : ~Runnable(t)

Continue(t) ==
    /\ Runnable(t)
    /\ \/ UseGuess(t) \/ VoiceArrives(t) \/ QueuedSpeechBegins(t)
       \/ ReportFramingFault(t) \/ Deliver(t)

(* An answer end() or a guess waits for. *)
Answer(t) ==
    /\ Drained
    /\ \/ LaunchGuess(t) \/ GuessAnswers(t) \/ EmbedAnswers(t)
       \/ UseGuess(t) \/ FinalAnswers(t) \/ RespellAnswers(t)
       \/ StreamOpens(t) \/ ClauseAnswers(t)
       \/ StreamYields(t) /\ speech'[t] # "stream"

(* What the server does for a turn by itself, once it was asked to. *)
ServerStep(t) == Continue(t) \/ Answer(t)

ClientStep ==
    /\ Drained
    /\ \/ \E s \in Sockets, t \in Turns, o \in Options :
             OpenTurn(s, t, o) \/ RefuseTurn(s, t, o)
       \/ \E t \in Turns : \/ AcceptFrame(t) \/ OverflowFrame(t) \/ RejectFrame(t)
                           \/ Speculate(t)
                           \/ EndEmpty(t) \/ End(t) \/ EndAgain(t)
       \/ \E s \in Sockets : LoseClient(s)

Timer == Drained /\ (SweepIdleTurns \/ \E t \in Turns : GoQuiet(t))

Next ==
    \/ ClientStep
    \/ Timer
    \/ \E t \in Turns : ServerStep(t)
    \/ Drained /\ \E t \in Turns : GuessDisagrees(t) \/ StreamYields(t)

Spec == Init /\ [][Next]_vars

(* Every request end() awaits settles (each provider call has a timeout and *)
(* a stream ends), every timer fires, and the event loop starves nobody.    *)
(* Nothing is assumed of clients.                                           *)
Fairness ==
    /\ \A t \in Turns : WF_vars(ServerStep(t))
    /\ WF_vars(Timer)

FairSpec == Spec /\ Fairness

-----------------------------------------------------------------------------
TypeOK ==
    /\ RegistryTypeOK
    /\ opt \in [Turns -> Setting]
    /\ stage \in [Turns -> Stages]
    /\ bytes \in [Turns -> 0 .. MaxBytes]
    /\ quiet \in [Turns -> BOOLEAN]
    /\ guess \in [Turns -> [at : 0 .. MaxBytes, work : Works]]
    /\ spent \in [Turns -> 0 .. MaxGuesses]
    /\ vector \in [Turns -> {"off", "pending", "heard", "missing"}]
    /\ speech \in [Turns -> Speeches]
    /\ clauses \in [Turns -> 0 .. MaxClauses]
    /\ \A t \in Turns : speech[t] = "clause" => clauses[t] # 0
    /\ sent \in [Turns -> Seq(Events)]
    /\ rows \in [Turns -> Seq(Reasons)]
    /\ refused \subseteq Turns

(* The quota a turn spent is accounted for exactly once, whichever of the   *)
(* many ways it stops and whoever left meanwhile: one metrics row when its  *)
(* end() is over or it was closed, none while it runs.  Only a turn whose   *)
(* client left while it listened has none.                                  *)
AccountedOnce ==
    \A t \in Turns :
        Len(rows[t]) = IF stage[t] = "done" THEN 1 ELSE 0

(* The answer a reused guess gives is about the whole utterance: no frame   *)
(* the turn accepted is missing from the audio that was guessed over.       *)
GuessCoversTurn ==
    \A t \in Turns : stage[t] = "guess" => guess[t].at = bytes[t]

(* The contract a client relies on, read off what each turn's client was    *)
(* told and the rows filed for it.  A fault is an error the server sends of *)
(* its own accord; the errors that answer a message of the client's may     *)
(* come between any two tidings.  A slow sidecar delays a label and never   *)
(* the sentence, a fault never overtakes the sentence, and nothing at all   *)
(* follows ended.                                                           *)
Tiding == [ready |-> "ready", final |-> "line", voice |-> "label",
           error |-> "fault", ended |-> "ended"]

IsLastWord(s, i) ==
    /\ i \in DOMAIN s
    /\ s[i] # "audio"
    /\ \A j \in DOMAIN s : j > i => s[j] = "audio"

LastWord(s) == s[CHOOSE i \in DOMAIN s : IsLastWord(s, i)]

Told(t) ==
    IF owner[t] = NoOwner THEN "nothing"
    ELSE IF owner[t] \in gone THEN "lost"
    ELSE Tiding[LastWord(sent[t])]

Contract == INSTANCE TurnContract WITH
    told <- [t \in Turns |-> Told(t)],
    accounted <- {t \in Turns : rows[t] # <<>>}

KeepsContract == Contract!ContractSpec

(* A turn filed as completed is one its client was told the end of.         *)
(* end() says a client that leaves part-way through delivery is recorded    *)
(* as abandoned and incomplete.                                             *)
CompletedWasDelivered ==
    \A t \in Turns : rows[t] = <<"completed">> => Contains(sent[t], "ended")

(* Once end() took a turn, only its own end or its client leaving takes it  *)
(* out of the registry: the idle sweep never cuts off an answer.            *)
TranslationIsNotCutOff ==
    [][\A t \in Turns : IsTranslating(t) /\ t \in open /\ t \notin open'
          => owner[t] \in gone' \/ (stage'[t] = "done" /\ rows'[t] # <<"idle_timeout">>)]_vars

(* A turn leaves the registry accounted for or with its client, never       *)
(* because another turn of the same socket did: closing one must not end a  *)
(* sentence the client is still in the middle of.                           *)
NoTurnIsDroppedSilently ==
    [][\A t \in Turns : t \in open /\ t \notin open'
          => owner[t] \in gone' \/ Len(rows'[t]) = Len(rows[t]) + 1]_vars

(* No synthesis is started for a turn nobody holds: a client that left must *)
(* not keep the sidecar speaking while other turns queue behind it.         *)
NoSpeechForNobody ==
    [][\A t \in Turns : speech'[t] = "clause" \/ speech'[t] = "opening"
          => t \in open \/ (speech'[t] = speech[t] /\ clauses'[t] = clauses[t])]_vars

(* A client that stays is answered: every turn it opens is ended, whether   *)
(* it talks, stops talking or ends the turn.                                *)
EveryTurnEnds ==
    \A t \in Turns : t \in open ~> t \notin open

(* Every end() the client asked for comes to its own end. *)
EveryEndReturns ==
    \A t \in Turns : IsTranslating(t) ~> stage[t] = "done"

=============================================================================
