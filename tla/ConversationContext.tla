------------------------ MODULE ConversationContext -------------------------
(***************************************************************************)
(* ConversationContext: what the speaker on one connection has finished    *)
(* saying lately, and who waits to hear how one of its turns ended.        *)
(*                                                                         *)
(* Turns are numbered in the order they were opened.  A turn that was      *)
(* split between two voices says several pieces, <<turn, 1>>, <<turn, 2>>  *)
(* and so on, all in one tick.  Whoever asks after a turn is an ask        *)
(* <<turn, k>>, the k-th question of a turn about the turn before it.      *)
(* Left out: the languages turns were decided in, the spellings learned.   *)
(***************************************************************************)
EXTENDS Integers, Sequences, FiniteSets

CONSTANTS
    LastTurn,       \* bound: turns opened on the connection
    MaxGuesses,     \* MAX_SPECULATIONS_PER_TURN, or a bound on a turn's
    MaxPieces,      \* bound: pieces each turn may be split into
    Remembered      \* REMEMBERED_UTTERANCES

ASSUME BoundsAssumption ==
    /\ LastTurn \in Nat \ {0}
    /\ MaxGuesses \in [1 .. LastTurn -> Nat]
    /\ MaxPieces \in [1 .. LastTurn -> Nat \ {0}]
    /\ Remembered \in Nat \ {0}

VARIABLES
    recent,     \* the last finished utterances, oldest first
    silent,     \* the last turns that closed without one, oldest first
    waiters,    \* the asks that wait
    mail,       \* turns whose waiters a queued microtask will answer
    answer      \* what each ask was told and has not acted upon yet

contextVars == <<recent, silent, waiters, mail, answer>>

Turns == 1 .. LastTurn

Pieces == Turns \X (Nat \ {0})

(* The question of a turn's end() is numbered 0, those of its guesses from 1. *)
Asks == UNION {{t} \X (0 .. MaxGuesses[t]) : t \in Turns}

NoText == <<0, 0>>          \* undefined: there is nothing to continue
Unanswered == <<0, 1>>      \* the promise has not settled

(* The turn an ask is about: the one opened just before. *)
About(a) == a[1] - 1

PiecesOf(t, n) == [i \in 1 .. n |-> <<t, i>>]

(* The newest Remembered elements. *)
Newest(s) ==
    IF Len(s) > Remembered THEN SubSeq(s, Len(s) - Remembered + 1, Len(s)) ELSE s

-----------------------------------------------------------------------------
IsLatest(s, t, i) ==
    /\ i \in DOMAIN s
    /\ s[i][1] = t
    /\ \A j \in DOMAIN s : j > i => s[j][1] # t

(* The latest thing turn t said among the utterances of s. *)
TextIn(s, t) ==
    IF \E i \in DOMAIN s : IsLatest(s, t, i)
    THEN s[CHOOSE i \in DOMAIN s : IsLatest(s, t, i)]
    ELSE NoText

(* textNow() *)
TextNow(t) == TextIn(recent, t)

ClosedSilent(t) == \E i \in DOMAIN silent : silent[i] = t

(* settledText() is not null: the turn's outcome is known. *)
IsSettled(t) == TextNow(t) # NoText \/ ClosedSilent(t)

(* Every waiter on t settles with this text; its timer is cleared. *)
Tell(t, text) ==
    LET told == {a \in waiters : About(a) = t}
    IN  /\ waiters' = waiters \ told
        /\ answer' = [a \in Asks |-> IF a \in told THEN text ELSE answer[a]]

-----------------------------------------------------------------------------
ContextInit ==
    /\ recent = <<>>
    /\ silent = <<>>
    /\ waiters = {}
    /\ mail = {}
    /\ answer = [a \in Asks |-> Unanswered]

(* Answers on the first piece rather than once all are in. *)
RememberAtOnce(t, n) ==
    /\ recent' = Newest(recent \o PiecesOf(t, n))
    /\ Tell(t, <<t, 1>>)
    /\ UNCHANGED <<silent, mail>>

(* remember(), once per piece; the waiters are answered a microtask later. *)
Remember(t, n) ==
    /\ recent' = Newest(recent \o PiecesOf(t, n))
    /\ mail' = mail \cup {t}
    /\ UNCHANGED <<silent, waiters, answer>>

(* The microtask: the latest text by now, or the one it was queued for. *)
AnswerWaiters(t) ==
    /\ t \in mail
    /\ mail' = mail \ {t}
    /\ Tell(t, IF TextNow(t) # NoText THEN TextNow(t) ELSE <<t, 1>>)
    /\ UNCHANGED <<recent, silent>>

(* closed(): a turn that said nothing releases its waiters. *)
Closed(t) ==
    IF TextNow(t) # NoText THEN UNCHANGED contextVars
    ELSE /\ silent' = IF ClosedSilent(t) THEN silent ELSE Newest(Append(silent, t))
         /\ Tell(t, NoText)
         /\ UNCHANGED <<recent, mail>>

(* textOf() of a turn that is not settled *)
WaitFor(a) ==
    /\ waiters' = waiters \cup {a}
    /\ UNCHANGED <<recent, silent, mail, answer>>

(* The waiter's own timer. *)
TimeOut(a) ==
    /\ a \in waiters
    /\ waiters' = waiters \ {a}
    /\ answer' = [answer EXCEPT ![a] = NoText]
    /\ UNCHANGED <<recent, silent, mail>>

(* The asker goes on from its await. *)
TakeAnswer(a) ==
    /\ answer[a] # Unanswered
    /\ answer' = [answer EXCEPT ![a] = Unanswered]
    /\ UNCHANGED <<recent, silent, waiters, mail>>

(* Drops the waiters with their timers and tells them nothing. *)
ForgetWaiters ==
    /\ recent' = <<>>
    /\ silent' = <<>>
    /\ waiters' = {}
    /\ UNCHANGED <<mail, answer>>

(* forget(): the connection went away; everyone who waits is told nothing. *)
Forget ==
    /\ recent' = <<>>
    /\ silent' = <<>>
    /\ waiters' = {}
    /\ answer' = [a \in Asks |-> IF a \in waiters THEN NoText ELSE answer[a]]
    /\ UNCHANGED mail
=============================================================================
