-------------------------- MODULE TurnContinuations --------------------------
(***************************************************************************)
(* The turns of one connection as they lean on each other.  A turn that    *)
(* continues a forced cut is translated against the words of the turn      *)
(* before it, which it waits for by name, for a while: its guesses do, and *)
(* its end() does, for as long as the turn before is neither told nor      *)
(* known to be silent.  Turns end in any order and the client may leave.   *)
(*                                                                         *)
(* From TranslationSessionService: speculate(), continuationFor(),         *)
(* continuing() and end(), as far as they touch ConversationContext.  What *)
(* end() does besides is in TranslationTurns.  A turn that may be split    *)
(* asks the same question ahead of the plan, so it counts as an end that   *)
(* uses no guess.  Left out: what else the prompt is told, and the label   *)
(* of a closing piece that waits for a later turn's voice.                 *)
(***************************************************************************)
EXTENDS ConversationContext

CONSTANTS
    PerSocket,      \* MAX_SESSIONS_PER_SOCKET
    Shapes          \* the settings each turn's start may ask for

Shape == [cut : BOOLEAN, translated : BOOLEAN]

ASSUME TurnsAssumption == PerSocket \in Nat \ {0} /\ Shapes \in [Turns -> SUBSET Shape]

VARIABLES
    opened,     \* turns opened so far; the number of the latest one
    gone,       \* the socket closed
    held,       \* the turns in the registry
    shape,      \* what each turn was started with
    stage,      \* where each turn is
    guess,      \* the number of the turn's newest guess, 0 before any
    grown,      \* turns that heard more since their newest guess
    request,    \* what each ask came to
    said        \* how many pieces the turn's text has, 0 while it has none

turnVars == <<opened, gone, held, shape, stage, guess, grown, request, said>>
vars == <<contextVars, turnVars>>

Stages == {"new", "listening", "guess", "final", "speaking", "done"}

(* Sent, with the words it continues if there are any; or refused, because  *)
(* nobody would read the answer.                                            *)
Request(status, continued) == [status |-> status, continued |-> continued]

NotAsked == Request("none", NoText)
Refused == Request("refused", NoText)

(* The turn has its text or none will come: its requests are history. *)
RequestsOver(t) ==
    request' = [a \in Asks |-> IF a[1] = t THEN NotAsked ELSE request[a]]

(* predecessors.get(): a turn that continues a cut, and has one before it *)
Continues(t) == shape[t].cut /\ t > 1

(* The question the end of t waits for. *)
FinalAsk(t) == <<t, 0>>
GuessAsk(t) == <<t, guess[t]>>

-----------------------------------------------------------------------------
(* continuing(): what was said before goes with every request; a turn that  *)
(* continues a cut has the cut turn's words as well.                        *)
Sent(a, text) == request' = [request EXCEPT ![a] = Request("sent", text)]

(* afterContinuation(continuationFor()): at once if there is nothing to     *)
(* wait for, otherwise when the wait is over.                               *)
AskFor(a) ==
    LET t == a[1] IN
    IF Continues(t) /\ ~IsSettled(About(a))
    THEN WaitFor(a) /\ UNCHANGED request
    ELSE /\ Sent(a, IF Continues(t) THEN TextNow(About(a)) ELSE NoText)
         /\ UNCHANGED contextVars

(* The await is over: a guess is launched only for a turn still held, a     *)
(* final request always goes out.                                           *)
GoOn(a) ==
    /\ TakeAnswer(a)
    /\ IF a[2] # 0 /\ a[1] \notin held
       THEN request' = [request EXCEPT ![a] = Refused]
       ELSE Sent(a, answer[a])
    /\ UNCHANGED <<opened, gone, held, shape, stage, guess, grown, said>>

-----------------------------------------------------------------------------
Init ==
    /\ ContextInit
    /\ opened = 0
    /\ gone = FALSE
    /\ held = {}
    /\ shape = [t \in Turns |-> [cut |-> FALSE, translated |-> FALSE]]
    /\ stage = [t \in Turns |-> "new"]
    /\ guess = [t \in Turns |-> 0]
    /\ grown = {}
    /\ request = [a \in Asks |-> NotAsked]
    /\ said = [t \in Turns |-> 0]

(* start(): every accepted turn is noted as the latest one. *)
Open ==
    /\ ~gone
    /\ Cardinality(held) < PerSocket
    /\ opened < LastTurn
    /\ LET t == opened + 1 IN
          /\ opened' = t
          /\ held' = held \cup {t}
          /\ \E o \in Shapes[t] : shape' = [shape EXCEPT ![t] = o]
          /\ stage' = [stage EXCEPT ![t] = "listening"]
    /\ UNCHANGED <<contextVars, gone, guess, grown, request, said>>

IsListening(t) == t \in held /\ stage[t] = "listening"

(* pushFrame(), after a guess *)
Grow(t) ==
    /\ IsListening(t)
    /\ guess[t] # 0
    /\ t \notin grown
    /\ grown' = grown \cup {t}
    /\ UNCHANGED <<contextVars, opened, gone, held, shape, stage, guess, request,
                   said>>

(* speculate() *)
Speculate(t) ==
    /\ IsListening(t)
    /\ guess[t] < MaxGuesses[t]
    /\ guess[t] = 0 \/ t \in grown
    /\ guess' = [guess EXCEPT ![t] = @ + 1]
    /\ grown' = grown \ {t}
    /\ AskFor(<<t, guess[t] + 1>>)
    /\ UNCHANGED <<opened, gone, held, shape, stage, said>>

(* end() up to its first await: a guess that still covers the audio is      *)
(* waited for, unless the turn may be split between two voices.             *)
End(t) ==
    /\ IsListening(t)
    /\ \/ /\ guess[t] # 0 /\ t \notin grown
          /\ stage' = [stage EXCEPT ![t] = "guess"]
          /\ UNCHANGED <<contextVars, request>>
       \/ /\ stage' = [stage EXCEPT ![t] = "final"]
          /\ AskFor(FinalAsk(t))
    /\ UNCHANGED <<opened, gone, held, shape, guess, grown, said>>

-----------------------------------------------------------------------------
(* Forgets to say that the turn is over. *)
CloseTurnQuietly(t) ==
    /\ held' = held \ {t}
    /\ stage' = [stage EXCEPT ![t] = "done"]
    /\ UNCHANGED contextVars

(* close() of a turn that is held: out of the registry, then whoever waits. *)
CloseTurn(t) ==
    /\ held' = held \ {t}
    /\ stage' = [stage EXCEPT ![t] = "done"]
    /\ Closed(t)

(* end() gives up on a turn whose client left. *)
Abandon(t) ==
    /\ stage' = [stage EXCEPT ![t] = "done"]
    /\ UNCHANGED <<contextVars, held>>

(* The idle sweep, the length cap, or an end() without audio. *)
CloseUnheard(t) ==
    /\ IsListening(t)
    /\ CloseTurn(t)
    /\ UNCHANGED <<opened, gone, shape, guess, grown, request, said>>

(* end() has the turn's text: the pieces are remembered, in one tick, if    *)
(* the turn is translated at all, and the turn goes on if it is held.       *)
TextArrives(t) ==
    /\ \E n \in 1 .. MaxPieces[t] :
          /\ said' = [said EXCEPT ![t] = n]
          /\ IF shape[t].translated THEN Remember(t, n) ELSE UNCHANGED contextVars
    /\ stage' = [stage EXCEPT ![t] = IF t \in held THEN "speaking" ELSE "done"]
    /\ RequestsOver(t)
    /\ UNCHANGED held

(* Nothing was heard, or the turn failed: closed either way. *)
TextFails(t) == CloseTurn(t) /\ RequestsOver(t) /\ UNCHANGED said

(* The guess answered: its text is the turn's, unless the turn was decided  *)
(* in another language and asks again.  One that never launched is a client *)
(* that left.                                                               *)
UseGuess(t) ==
    /\ stage[t] = "guess"
    /\ \/ /\ request[GuessAsk(t)].status = "sent"
          /\ \/ TextArrives(t)
             \/ TextFails(t)
             \/ /\ stage' = [stage EXCEPT ![t] = "final"]
                /\ AskFor(FinalAsk(t))
                /\ UNCHANGED <<held, said>>
       \/ /\ request[GuessAsk(t)].status = "refused"
          /\ Abandon(t)
          /\ RequestsOver(t)
          /\ UNCHANGED said
    /\ UNCHANGED <<opened, gone, shape, guess, grown>>

(* The final request answered. *)
FinalAnswers(t) ==
    /\ stage[t] = "final"
    /\ request[FinalAsk(t)].status = "sent"
    /\ TextArrives(t) \/ TextFails(t)
    /\ UNCHANGED <<opened, gone, shape, guess, grown>>

(* The line, the label and the speech are out, or the client left during    *)
(* one of them.                                                             *)
Deliver(t) ==
    /\ stage[t] = "speaking"
    /\ IF t \in held THEN CloseTurn(t) ELSE Abandon(t)
    /\ UNCHANGED <<opened, gone, shape, guess, grown, request, said>>

(* disconnect() *)
Disconnect ==
    /\ ~gone
    /\ gone' = TRUE
    /\ held' = {}
    /\ stage' = [t \in Turns |-> IF stage[t] = "listening" THEN "done" ELSE stage[t]]
    /\ Forget
    /\ UNCHANGED <<opened, shape, guess, grown, request, said>>

-----------------------------------------------------------------------------
(* Microtasks run before the next message, timer or answer. *)
Drained == mail = {} /\ \A a \in Asks : answer[a] = Unanswered

Microtask ==
    \/ \E t \in Turns : AnswerWaiters(t) /\ UNCHANGED turnVars
    \/ \E a \in Asks : GoOn(a)

ClientStep ==
    /\ Drained
    /\ \/ Open
       \/ \E t \in Turns : Grow(t) \/ Speculate(t) \/ End(t) \/ CloseUnheard(t)
       \/ Disconnect

(* A provider answers, for the turn or for its vectors. *)
TurnStep(t) ==
    /\ Drained
    /\ UseGuess(t) \/ FinalAnswers(t) \/ Deliver(t)

(* PREDECESSOR_WAIT_MS passed for an ask. *)
WaitExpires(a) == Drained /\ TimeOut(a) /\ UNCHANGED turnVars

Next ==
    \/ Microtask
    \/ ClientStep
    \/ \E t \in Turns : TurnStep(t)
    \/ \E a \in Asks : WaitExpires(a)

Spec == Init /\ [][Next]_vars

(* Microtasks and timers run, and every provider call settles, since each   *)
(* has a timeout.  Nothing is assumed of clients.                           *)
Fairness ==
    /\ WF_vars(Microtask)
    /\ \A t \in Turns : WF_vars(TurnStep(t))
    /\ \A a \in Asks : WF_vars(WaitExpires(a))

FairSpec == Spec /\ Fairness

-----------------------------------------------------------------------------
Requests ==
    [status : {"none", "sent", "refused"}, continued : Pieces \cup {NoText}]

TypeOK ==
    /\ recent \in Seq(Pieces) /\ Len(recent) <= Remembered
    /\ silent \in Seq(Turns) /\ Len(silent) <= Remembered
    /\ waiters \subseteq Asks
    /\ mail \subseteq Turns
    /\ answer \in [Asks -> Pieces \cup {NoText, Unanswered}]
    /\ opened \in 0 .. LastTurn
    /\ gone \in BOOLEAN
    /\ held \subseteq Turns
    /\ shape \in [Turns -> Shape]
    /\ stage \in [Turns -> Stages]
    /\ guess \in [Turns -> Nat] /\ \A t \in Turns : guess[t] <= MaxGuesses[t]
    /\ grown \subseteq Turns
    /\ request \in [Asks -> Requests]
    /\ said \in [Turns -> Nat]

GoesOut(a) == request[a].status = "none" /\ request'[a].status = "sent"

(* Several turns are translated at once and finish in any order, so the     *)
(* latest to finish is often not the one that was cut.  What a request      *)
(* continues is the piece of the turn before it that reaches the cut, never *)
(* another sentence or the other voice's half of this one; and it stands    *)
(* alone only if those words are not there to be had when it goes out.      *)
ContinuesItsOwnCut ==
    [][\A a \in Asks : GoesOut(a) =>
         request'[a].continued =
             IF Continues(a[1]) /\ TextNow(About(a)) # NoText
             THEN <<About(a), said[About(a)]>>
             ELSE NoText]_vars

(* Nobody sits out the deadline for a turn that is already over: what it    *)
(* said, or that it said nothing, is known, unless so much was said or so   *)
(* many turns were silent since that it aged out before it was asked for.   *)
NoWaitOnTheSettled ==
    \A a \in waiters : Drained /\ ~gone =>
        CASE stage[About(a)] = "speaking" ->
                 shape[About(a)].translated => Len(recent) = Remembered
          [] stage[About(a)] = "done" ->
                 Len(recent) = Remembered \/ Len(silent) = Remembered
          [] OTHER -> TRUE

(* No wait is for ever, whatever the other turns and the client do: a turn  *)
(* that was ended is translated or given up.                                *)
EveryWaitEnds ==
    \A t \in Turns :
        stage[t] \in {"guess", "final"} ~> stage[t] \notin {"guess", "final"}
=============================================================================
