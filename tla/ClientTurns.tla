----------------------------- MODULE ClientTurns -----------------------------
(***************************************************************************)
(* A running conversation of a client (ConversationSession): capture, the  *)
(* turn pipeline, ordered playback and the graceful end, over one socket   *)
(* to a server that answers in order.                                      *)
(*                                                                         *)
(* A callback runs inside the call that makes it, so a handler is a chain  *)
(* of operators over the record Client and an action takes its result.     *)
(* The server is what TranslationTurns promises of it: it admits a start   *)
(* or refuses it, voices a turn only once its end was asked, may report a  *)
(* fault and go on, and ends each turn once.                               *)
(*                                                                         *)
(* One run, from the moment it is live.  A pause is a closed turn and a    *)
(* silence.  A client with one turn in flight does not listen while it is  *)
(* answered; one with several listens all along.                           *)
(***************************************************************************)
EXTENDS TurnPipeline, OrderedPlayback, FiniteSets

CONSTANTS
    Modes           \* how the client runs, and the bounds of a behaviour

(* Modes: maxInFlight, and how many turns are opened, blocks captured of   *)
(* each, frames voiced of each; how many refusals without cause, faults    *)
(* and blocks asked in all; whether the head of the queue may stall,       *)
(* whether the socket may drop and whether the conversation may be ended.  *)
ASSUME ModesType ==
    Modes \subseteq [limit : Nat \ {0}, turns : 0 .. MaxTurns, blocks : Nat,
                     frames : Nat, refusals : Nat, faults : Nat, asks : Nat,
                     stalls : BOOLEAN, drops : BOOLEAN, ends : BOOLEAN]

VARIABLES
    mode,       \* the mode of this behaviour, which never changes
    pipe,       \* TurnPipeline
    play,       \* OrderedPlayback and PcmPlaybackQueue
    sess,       \* what ConversationSession and CapturePump keep
    owed,       \* pendingMetrics: the reason a row still to be filed gives
    rows,       \* the outcomes filed for each turn
    captured,   \* the blocks captured of each turn
    held,       \* the turns the server has open
    voiced,     \* the frames the server sent of each turn
    inbox,      \* what the server has told and the client not yet read
    tally       \* refusals, faults and blocks asked so far

serverVars == <<held, voiced, inbox>>

vars == <<mode, pipe, play, sess, owed, rows, captured, serverVars, tally>>

Client == [pipe |-> pipe, play |-> play, sess |-> sess,
           owed |-> owed, rows |-> rows]

Stopped(c) == c.sess.st = "stopped"

(* The client's next state; a run that stops closes its socket.            *)
Becomes(c) ==
    /\ pipe' = c.pipe
    /\ play' = c.play
    /\ sess' = c.sess
    /\ owed' = c.owed
    /\ rows' = c.rows

Single(c) == c.pipe.limit <= 1

-----------------------------------------------------------------------------
Init ==
    /\ mode \in Modes
    /\ pipe = NoTurns(mode.limit)
    /\ play = Silence(Turns)
    /\ sess = [st |-> "live", armed |-> TRUE, talking |-> FALSE,
               turnEnded |-> FALSE, offered |-> FALSE, settling |-> FALSE,
               blocks |-> 0, grace |-> FALSE, cause |-> "none"]
    /\ owed = [t \in Turns |-> "none"]
    /\ rows = [t \in Turns |-> <<>>]
    /\ captured = [t \in Turns |-> 0]
    /\ held = {}
    /\ voiced = [t \in Turns |-> 0]
    /\ inbox = <<>>
    /\ tally = [refusals |-> 0, faults |-> 0, asks |-> 0]

-----------------------------------------------------------------------------
(***************************************************************************)
(* Rows, stopping, re-arming and the drain.                                *)
(***************************************************************************)

(* outcomeFor().  A drop by playback outranks the reason of the close.     *)
OutcomeFor(p, t, reason) ==
    LET why == IF t \in p.dropped THEN "dropped_pending" ELSE reason
    IN  CASE why = "dropped_pending"                -> "dropped"
          [] why = "too_many_turns"                 -> "rejected"
          [] why = "completed" /\ p.heard[t] > 0    -> "played"
          [] why = "completed" /\ p.heard[t] = 0    -> "no_audio"
          [] OTHER                                  -> "error"

FileRow(c, t, reason) ==
    [c EXCEPT !.rows[t] = Append(@, OutcomeFor(c.play, t, reason)),
              !.owed[t] = "none"]

(* The rows owed for these turns go out.                                   *)
FileOwed(c, turns) ==
    LET due == {t \in turns : c.owed[t] # "none"}
    IN  [c EXCEPT !.rows = [t \in Turns |->
                               IF t \in due
                               THEN Append(@[t], OutcomeFor(c.play, t, c.owed[t]))
                               ELSE @[t]],
                  !.owed = [t \in Turns |-> IF t \in due THEN "none" ELSE @[t]]]

(* stop(): what is owed is filed while the socket is open, then all goes.  *)
(* A settling that was asked for is still running.                         *)
Stop(c, cause) ==
    LET filed == FileOwed(c, Turns)
    IN  [filed EXCEPT
            !.pipe = NoTurns(c.pipe.limit),
            !.play = Silence(Turns),
            !.sess = [@ EXCEPT !.st = "stopped", !.armed = FALSE,
                               !.talking = FALSE, !.turnEnded = FALSE,
                               !.blocks = 0, !.grace = FALSE,
                               !.cause = cause]]

(* armIfTurnComplete()                                                     *)
ArmIfTurnComplete(c) ==
    IF c.sess.turnEnded /\ ~IsBusy(c.play)
    THEN [c EXCEPT !.sess.turnEnded = FALSE, !.sess.armed = TRUE,
                   !.sess.talking = FALSE]
    ELSE c

(* completeDrainIfDone(): offered to the caller once, then held by the     *)
(* blocks not answered, then over.                                         *)
CompleteDrainIfDone(c) ==
    IF c.sess.st # "finishing" \/ IsBusy(c.play) THEN c
    ELSE IF ~c.sess.offered
         THEN [c EXCEPT !.sess.offered = TRUE, !.sess.settling = TRUE]
    ELSE IF c.sess.blocks > 0 THEN [c EXCEPT !.sess.grace = TRUE]
    ELSE Stop(c, "drained")

(* Hears of the silence only for the drain.                                *)
PlaysWithoutArming(c, p) ==
    LET filed == FileOwed([c EXCEPT !.play = p],
                          c.play.queue \ p.queue)
    IN  IF c.play.busy /\ ~p.busy THEN CompleteDrainIfDone(filed) ELSE filed

(* Playback moved: rows of the turns it retired go out, and the session    *)
(* hears it fell silent.                                                   *)
Plays(c, p) ==
    LET filed == FileOwed([c EXCEPT !.play = p],
                          c.play.queue \ p.queue)
    IN  IF c.play.busy /\ ~p.busy
        THEN CompleteDrainIfDone(IF Single(c) THEN ArmIfTurnComplete(filed)
                                 ELSE filed)
        ELSE filed

(* Files at once, whatever playback still has of it.                       *)
OnTurnClosedFilingNow(c, t, reason) ==
    LET reported == IF t \in c.pipe.named THEN FileRow(c, t, reason) ELSE c
        finished == Plays(reported, Finish(reported.play, t))
    IN  CompleteDrainIfDone(
            IF Single(c)
            THEN ArmIfTurnComplete([finished EXCEPT !.sess.turnEnded = TRUE])
            ELSE finished)

(* onTurnClosed: the row is filed now, or when playback retires the turn.  *)
OnTurnClosed(c, t, reason) ==
    LET reported ==
            IF t \notin c.pipe.named THEN c
            ELSE IF Holds(c.play, t) THEN [c EXCEPT !.owed[t] = reason]
            ELSE FileRow(c, t, reason)
        finished == Plays(reported, Finish(reported.play, t))
    IN  CompleteDrainIfDone(
            IF Single(c)
            THEN ArmIfTurnComplete([finished EXCEPT !.sess.turnEnded = TRUE])
            ELSE finished)

(* forget()                                                                *)
Forget(c, t, reason) ==
    LET closed == OnTurnClosed([c EXCEPT !.pipe = Evict(@, t)], t, reason)
    IN  [closed EXCEPT !.pipe = StartNextWaiting(@)]

(* Forgets whichever turn is oldest.                                       *)
EnforcePendingWhole(c) ==
    LET Shed(d, t) ==
            IF OverPending(d.pipe, t) THEN Forget(d, t, "dropped_pending") ELSE d
        after[n \in 0 .. MaxTurns] ==
            IF n = 0 THEN c ELSE Shed(after[n - 1], n)
    IN  after[MaxTurns]

(* enforcePendingCeiling(): a turn never named to the server goes whole;   *)
(* one that was keeps its place and loses its audio.                       *)
EnforcePendingCeiling(c) ==
    LET Shed(d, t) ==
            IF ~OverPending(d.pipe, t) THEN d
            ELSE IF d.pipe.phase[t] = "waiting"
            THEN Forget(d, t, "dropped_pending")
            ELSE [d EXCEPT !.pipe = Discard(@, t)]
        after[n \in 0 .. MaxTurns] ==
            IF n = 0 THEN c ELSE Shed(after[n - 1], n)
    IN  after[MaxTurns]

-----------------------------------------------------------------------------
(***************************************************************************)
(* Capture.                                                                *)
(***************************************************************************)
Running == sess.st # "stopped"

Opened == Cardinality({t \in Turns : pipe.phase[t] # "none"})

(* onTurnOpen(): the turn claims its place and starts if a slot is free.   *)
(* soon: within MAX_CAPTURE_GAP_MS of the last one's end.                  *)
OpenTurn(soon) ==
    LET t == Opened + 1
        claimed == [Client EXCEPT !.pipe = Claim(pipe, t, soon),
                                  !.sess.talking = TRUE]
        placed == Plays(claimed, Open(play, t))
    IN  /\ sess.st = "live"
        /\ sess.armed
        /\ ~sess.talking
        /\ Opened < mode.turns
        /\ Becomes([placed EXCEPT !.pipe = TryStart(@, t)])
        /\ captured' = [captured EXCEPT ![t] = 1]
        /\ UNCHANGED <<mode, serverVars, tally>>

(* onAudio(): a block of a turn already forgotten is orphaned.             *)
PushAudio ==
    LET t == pipe.capturing
        block == captured[t] + 1
        taken == [Client EXCEPT !.pipe = TakeBlock(pipe, t, block)]
    IN  /\ sess.talking
        /\ t # Nobody
        /\ captured[t] < mode.blocks
        /\ Becomes(IF taken.pipe.pending[t] = <<>> THEN taken
                   ELSE EnforcePendingCeiling(taken))
        /\ captured' = [captured EXCEPT ![t] = block]
        /\ UNCHANGED <<mode, serverVars, tally>>

(* onTurnClose()                                                           *)
CloseTurn(cutForced) ==
    /\ sess.talking
    /\ Becomes([Client EXCEPT !.pipe = CloseCaptured(pipe, cutForced),
                              !.sess.talking = FALSE,
                              !.sess.armed = ~Single(Client)])
    /\ UNCHANGED <<mode, captured, serverVars, tally>>

(* The retry timer fires.                                                  *)
RetryTimer ==
    /\ pipe.retry
    /\ Becomes([Client EXCEPT !.pipe = Retry(pipe)])
    /\ UNCHANGED <<mode, captured, serverVars, tally>>

-----------------------------------------------------------------------------
(***************************************************************************)
(* What the server tells.                                                  *)
(***************************************************************************)
IsOpen(t) == t \in pipe.turns

(* A stopped run hears nothing more.                                       *)
HangUp(c) ==
    IF Stopped(c) THEN held' = {} /\ inbox' = <<>>
    ELSE UNCHANGED <<held, inbox>>

Reads(kind, t) ==
    /\ inbox # <<>>
    /\ Head(inbox) = [kind |-> kind, turn |-> t]

(* The client reads the next tiding.                                       *)
Takes(c) ==
    /\ Becomes(c)
    /\ IF Stopped(c) THEN held' = {} /\ inbox' = <<>>
       ELSE inbox' = Tail(inbox) /\ UNCHANGED held
    /\ UNCHANGED <<mode, captured, voiced, tally>>

HearReady(t) ==
    /\ Reads("ready", t)
    /\ Takes([Client EXCEPT !.pipe = OnReady(pipe, t)])

(* too_many_turns: tried again later, or given up for its age.             *)
HearRefused(t) ==
    /\ Reads("refused", t)
    /\ IF ~IsOpen(t) THEN Takes(Client)
       ELSE \/ Takes([Client EXCEPT !.pipe = HoldForRetry(pipe, t)])
            \/ Takes(Forget([Client EXCEPT !.pipe.phase[t] = "waiting"], t,
                            "too_many_turns"))

HearFailed(t) ==
    /\ Reads("failed", t)
    /\ Takes(IF IsOpen(t) THEN Forget(Client, t, "error") ELSE Client)

(* A frame is joined to its turn by the name the turn was given.           *)
HearAudio(t) ==
    /\ Reads("audio", t)
    /\ Takes(IF IsOpen(t) THEN Plays(Client, Push(play, t)) ELSE Client)

HearEnded(t) ==
    /\ \E reason \in {"completed", "error"} :
          /\ Reads(reason, t)
          /\ Takes(IF IsOpen(t) THEN Forget(Client, t, reason) ELSE Client)

Hear == \E t \in Turns :
            HearReady(t) \/ HearRefused(t) \/ HearFailed(t)
                \/ HearAudio(t) \/ HearEnded(t)

-----------------------------------------------------------------------------
(***************************************************************************)
(* The loudspeaker and its timers.                                         *)
(***************************************************************************)
PlaysOn(p) ==
    LET c == Plays(Client, p)
    IN  /\ Becomes(c)
        /\ HangUp(c)
        /\ UNCHANGED <<mode, captured, voiced, tally>>

ChunkIsHeard(t) == IsPlayingTurn(play, t) /\ PlaysOn(ChunkEnds(play, t))

DrainReport(t) == t \in play.due /\ PlaysOn(DrainCheck(play, t))

StallTimer ==
    /\ mode.stalls
    /\ play.watching # NoTurn
    /\ PlaysOn(Stall(play))

-----------------------------------------------------------------------------
(***************************************************************************)
(* Ending.                                                                 *)
(***************************************************************************)
EndsAs(c) ==
    /\ Becomes(c)
    /\ HangUp(c)
    /\ UNCHANGED <<mode, captured, voiced>>

(* finish(): asked again, it cuts the tail.                                *)
PressEnd ==
    /\ mode.ends
    /\ \/ /\ sess.st = "live"
          /\ EndsAs(CompleteDrainIfDone(
                [Client EXCEPT !.pipe = CloseCaptured(pipe, FALSE),
                               !.sess.st = "finishing",
                               !.sess.offered = FALSE,
                               !.sess.talking = FALSE,
                               !.sess.armed = TRUE]))
       \/ sess.st = "finishing" /\ EndsAs(Stop(Client, "pressed"))
    /\ UNCHANGED tally

DrainTimer ==
    /\ sess.st = "finishing"
    /\ EndsAs(Stop(Client, "timeout"))
    /\ UNCHANGED tally

(* The caller has settled its transcript.                                  *)
Settled ==
    /\ sess.settling
    /\ LET calm == [Client EXCEPT !.sess.settling = FALSE]
       IN  EndsAs(IF Running THEN CompleteDrainIfDone(calm) ELSE calm)
    /\ UNCHANGED tally

(* retranslateBlock()                                                      *)
AskBlock ==
    /\ Running
    /\ tally.asks < mode.asks
    /\ Becomes([Client EXCEPT !.sess.blocks = @ + 1])
    /\ tally' = [tally EXCEPT !.asks = @ + 1]
    /\ UNCHANGED <<mode, captured, serverVars>>

BlockTranslated ==
    /\ sess.blocks > 0
    /\ EndsAs(CompleteDrainIfDone([Client EXCEPT !.sess.blocks = @ - 1]))
    /\ UNCHANGED tally

GraceTimer ==
    /\ sess.grace
    /\ EndsAs(Stop(Client, "grace"))
    /\ UNCHANGED tally

(* The socket stops taking what is sent, and then its close is reported.   *)
SocketDrops ==
    /\ mode.drops
    /\ Running
    /\ pipe.up
    /\ Becomes([Client EXCEPT !.pipe.up = FALSE])
    /\ UNCHANGED <<mode, captured, serverVars, tally>>

OnClosed ==
    /\ Running
    /\ ~pipe.up
    /\ EndsAs(Stop(Client, "lost"))
    /\ UNCHANGED tally

-----------------------------------------------------------------------------
(***************************************************************************)
(* The server, one connection of it.                                       *)
(***************************************************************************)
Tells(kind, t) == inbox' = Append(inbox, [kind |-> kind, turn |-> t])

Start(t) ==
    /\ pipe.asked # <<>>
    /\ t = Head(pipe.asked)
    /\ pipe' = [pipe EXCEPT !.asked = Tail(@)]
    /\ UNCHANGED <<mode, play, sess, owed, rows, captured, voiced>>

ServerAdmits(t) ==
    /\ Start(t)
    /\ Cardinality(held) < mode.limit
    /\ held' = held \cup {t}
    /\ Tells("ready", t)
    /\ UNCHANGED tally

(* The socket's ceiling, or one this client knows nothing of.              *)
ServerRefuses(t) ==
    /\ Start(t)
    /\ IF Cardinality(held) >= mode.limit THEN UNCHANGED tally
       ELSE /\ tally.refusals < mode.refusals
            /\ tally' = [tally EXCEPT !.refusals = @ + 1]
    /\ Tells("refused", t)
    /\ UNCHANGED held

ServerVoices(t) ==
    /\ t \in held
    /\ t \in pipe.ends
    /\ voiced[t] < mode.frames
    /\ voiced' = [voiced EXCEPT ![t] = @ + 1]
    /\ Tells("audio", t)
    /\ UNCHANGED <<mode, pipe, play, sess, owed, rows, captured, held, tally>>

(* A fault reported before the turn is over, or a start turned down.       *)
ServerFaults(t) ==
    /\ tally.faults < mode.faults
    /\ tally' = [tally EXCEPT !.faults = @ + 1]
    /\ Tells("failed", t)
    /\ \/ /\ t \in held
          /\ UNCHANGED <<mode, pipe, play, sess, owed, rows, captured, voiced>>
       \/ Start(t)
    /\ UNCHANGED held

ServerEnds(t) ==
    /\ t \in held
    /\ held' = held \ {t}
    /\ \/ t \in pipe.ends /\ Tells("completed", t)
       \/ Tells("error", t)
    /\ UNCHANGED <<mode, pipe, play, sess, owed, rows, captured, voiced, tally>>

-----------------------------------------------------------------------------
Speaker ==
    \/ \E soon \in BOOLEAN : OpenTurn(soon)
    \/ PushAudio
    \/ \E cutForced \in BOOLEAN : CloseTurn(cutForced)

Ending ==
    \/ PressEnd \/ DrainTimer \/ Settled \/ AskBlock \/ BlockTranslated
    \/ GraceTimer \/ SocketDrops \/ OnClosed

Loudspeaker ==
    StallTimer \/ \E t \in Turns : ChunkIsHeard(t) \/ DrainReport(t)

Server ==
    \E t \in Turns :
        ServerAdmits(t) \/ ServerRefuses(t) \/ ServerVoices(t)
            \/ ServerFaults(t) \/ ServerEnds(t)

Next == Speaker \/ RetryTimer \/ Hear \/ Loudspeaker \/ Ending \/ Server

Spec == Init /\ [][Next]_vars

-----------------------------------------------------------------------------
(* The types of the state.                                                 *)
TypeOK ==
    /\ mode \in Modes
    /\ pipe.turns \subseteq Turns
    /\ pipe.phase \in [Turns -> {"none", "waiting", "handshaking",
                                 "streaming", "ending", "gone"}]
    /\ pipe.capturing \in Turns \cup {Nobody}
    /\ pipe.named \cup pipe.finished \cup pipe.continues \cup pipe.ends
           \subseteq Turns
    /\ play.queue \subseteq Turns
    /\ play.ended \cup play.released \cup play.due \cup play.dropped
           \subseteq Turns
    /\ play.watching \in Turns \cup {NoTurn}
    /\ play.frames \in [Turns -> Nat] /\ play.heard \in [Turns -> Nat]
    /\ play.sounding \in [Turns -> Nat]
    /\ sess.st \in {"live", "finishing", "stopped"}
    /\ held \subseteq Turns

IsIncreasing(s) == \A i, j \in DOMAIN s : i < j => s[i] < s[j]

(* Every block captured of a turn was sent, is held or was shed and        *)
(* counted, and only one of them; what was sent went out in the order of   *)
(* capture, and before whatever is still held.  About pushAudio,           *)
(* flushPending and enforcePendingCeiling, whose failure doubles or        *)
(* reorders a sentence, or counts as captured what never left.             *)
EveryBlockIsAccounted ==
    \A t \in Turns :
        LET sent == pipe.reached[t]
            kept == pipe.pending[t]
        IN  Running /\ pipe.phase[t] # "none" =>
                /\ IsIncreasing(sent \o kept)
                /\ ToSet(sent \o kept) \cup pipe.shed[t] = 1 .. captured[t]
                /\ ToSet(sent \o kept) \cap pipe.shed[t] = {}

(* What sounds belongs to the oldest turn that is not over.                *)
SinkFollowsQueue ==
    \A t \in Turns :
        IsPlayingTurn(play, t) => play.queue # {} /\ t = Oldest(play)

(* The watchdog is on the head and on no turn already gone.                *)
HeadIsWatched ==
    play.watching = IF play.queue = {} THEN NoTurn ELSE Oldest(play)

(* Turns sound in the order they were spoken, whatever order their audio   *)
(* comes in, and the one all others wait behind is always one the watchdog *)
(* can give up: neither a turn that outran another nor one that never ends *)
(* breaks the order or the silence.  About pump, push, drop and            *)
(* watchForStall, each of which runs inside the others.                    *)
SpeakingOrder == SinkFollowsQueue /\ HeadIsWatched

(* A turn the server named files one row, when it is closed and played     *)
(* out, and never a second one; the row says played only when every frame  *)
(* of it reached the loudspeaker, and no audio only when the server sent   *)
(* none.  About onTurnClosed and onRetired, which race.                    *)
OneTrueRow ==
    \A t \in Turns :
        /\ Len(rows[t]) <= 1
        /\ Running =>
               /\ rows[t] # <<>> <=>
                      /\ t \in pipe.named
                      /\ pipe.phase[t] = "gone"
                      /\ ~Holds(play, t)
               /\ rows[t] = <<"played">> =>
                      play.heard[t] = voiced[t] /\ ~IsPlayingTurn(play, t)
               /\ rows[t] = <<"no_audio">> => voiced[t] = 0

(* A client that listens to one turn at a time and has stopped listening   *)
(* is still waiting for something: a turn, or the end of its audio.  About *)
(* armIfTurnComplete, called from the two ends of that wait.               *)
MutedForAReason ==
    Single(Client) /\ sess.st = "live" /\ ~sess.armed =>
        pipe.turns # {} \/ IsBusy(play)

(* A turn the server holds or is about to read of is counted by the        *)
(* client, so the ceilings of both stay in step, unless the server faulted *)
(* it before its end.  About enforcePendingCeiling and onError.            *)
ServerTurnsAreCounted ==
    Running /\ mode.faults = 0 =>
        held \cup ToSet(pipe.asked) \subseteq AtServer(pipe)

(* A conversation that ends because its tail has been spoken ends after    *)
(* the caller has settled its transcript.  onDrained's comment promises    *)
(* it: "The run waits for the returned promise before it decides whether   *)
(* to stop".                                                               *)
DrainWaitsForTheCaller == sess.cause = "drained" => ~sess.settling
=============================================================================
