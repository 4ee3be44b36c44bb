---------------------------- MODULE TurnPipeline ----------------------------
(***************************************************************************)
(* Which turns a client has in flight (TurnPipeline): capture opens them,  *)
(* the ceiling holds some back, the server names them, and their audio is  *)
(* held until it can be sent.  Pure operators over one record:             *)
(*                                                                         *)
(*   turns      the turns not yet forgotten; a lower number opened earlier *)
(*   phase      TurnPhase, "none" before and "gone" after                  *)
(*   named      the turns that have a session id                           *)
(*   pending    the blocks each turn holds                                 *)
(*   finished   the turns capture has finished with                        *)
(*   continues  the turns that continue a forced cut                       *)
(*   capturing  the turn capture feeds, or NoTurn                          *)
(*   cut        whether the last captured turn was cut                     *)
(*   retry      whether the retry timer is set                             *)
(*   limit      maxInFlight                                                *)
(*   up         whether the socket still takes what is sent                *)
(*                                                                         *)
(* and what went out: asked, the starts the server has yet to read; ends,  *)
(* the turns whose end was asked; reached, the blocks sent, in order; and  *)
(* shed, the blocks discarded and counted as held.  A block is its number  *)
(* within its turn.                                                        *)
(***************************************************************************)
EXTENDS Naturals, Sequences, SequencesExt, FiniteSetsExt

CONSTANTS
    MaxPending,     \* MAX_PENDING_MS, in blocks
    MaxTurns        \* how many turns a behaviour opens at most

ASSUME MaxPendingIsNat == MaxPending \in Nat
ASSUME MaxTurnsIsNat == MaxTurns \in Nat

Turns == 1 .. MaxTurns

Nobody == 0

NoTurns(limit) ==
    [turns |-> {}, phase |-> [t \in Turns |-> "none"], named |-> {},
     pending |-> [t \in Turns |-> <<>>], finished |-> {}, continues |-> {},
     capturing |-> Nobody, cut |-> FALSE, retry |-> FALSE, limit |-> limit,
     up |-> TRUE, asked |-> <<>>, ends |-> {},
     reached |-> [t \in Turns |-> <<>>], shed |-> [t \in Turns |-> {}]]

InPhase(q, ph) == {t \in q.turns : q.phase[t] = ph}

(* Turns that have actually reached the server.                            *)
AtServer(q) == q.turns \ InPhase(q, "waiting")

HasOlderWaiting(q, t) == \E u \in InPhase(q, "waiting") : u < t

-----------------------------------------------------------------------------
(***************************************************************************)
(* Starting.                                                               *)
(***************************************************************************)
CanStart(q, t) ==
    /\ q.phase[t] = "waiting"
    /\ Cardinality(AtServer(q)) < q.limit
    /\ t \in q.continues => ~HasOlderWaiting(q, t)

TryStart(q, t) ==
    IF CanStart(q, t)
    THEN [q EXCEPT !.phase[t] = "handshaking",
                   !.asked = IF q.up THEN Append(@, t) ELSE @]
    ELSE q

(* Oldest first, while slots last.                                         *)
StartNextWaiting(q) ==
    LET tried[n \in 0 .. MaxTurns] ==
            IF n = 0 THEN q ELSE TryStart(tried[n - 1], n)
    IN  tried[MaxTurns]

-----------------------------------------------------------------------------
(***************************************************************************)
(* Audio.                                                                  *)
(***************************************************************************)
Hold(q, t, block) == [q EXCEPT !.pending[t] = Append(@, block)]

SendAudio(q, t, block) == [q EXCEPT !.reached[t] = Append(@, block)]

(* Sends what is held and goes on holding it.                              *)
FlushLivePending(q, t) ==
    IF t \in q.named /\ q.up
    THEN [q EXCEPT !.reached[t] = @ \o q.pending[t]]
    ELSE q

(* Detached before it is sent; all of it stays if the socket takes none.   *)
FlushPending(q, t) ==
    IF t \in q.named /\ q.up
    THEN [q EXCEPT !.reached[t] = @ \o q.pending[t], !.pending[t] = <<>>]
    ELSE q

(* pushAudio(), the ceiling apart: a block of the turn being captured.     *)
TakeBlock(q, t, block) ==
    IF q.phase[t] = "streaming" /\ t \in q.named
    THEN LET flushed == FlushPending(q, t)
         IN  IF flushed.pending[t] = <<>> /\ flushed.up
             THEN SendAudio(flushed, t, block)
             ELSE Hold(flushed, t, block)
    ELSE Hold(q, t, block)

AllPending(q) ==
    MapThenSumSet(LAMBDA t : Len(q.pending[t]), q.turns)

(* The turn whose held audio goes first over the ceiling: the oldest that  *)
(* holds any, never the one being captured.                                *)
Sheddable(q) ==
    {t \in q.turns : q.pending[t] # <<>> /\ t # q.capturing}

OverPending(q, t) ==
    /\ AllPending(q) > MaxPending
    /\ t \in Sheddable(q)
    /\ \A u \in Sheddable(q) : t <= u

(* The turn stays open: the server may hold its slot.                      *)
Discard(q, t) ==
    [q EXCEPT !.shed[t] = @ \cup ToSet(q.pending[t]), !.pending[t] = <<>>]

-----------------------------------------------------------------------------
(***************************************************************************)
(* A turn's life.                                                          *)
(***************************************************************************)

(* openTurn() up to tryStart(): its pre-roll is its first block.           *)
Claim(q, t, soonAfter) ==
    LET claimed == [q EXCEPT !.turns = @ \cup {t},
                             !.phase[t] = "waiting",
                             !.continues = IF q.cut /\ soonAfter
                                           THEN @ \cup {t} ELSE @,
                             !.capturing = t]
    IN  Hold(claimed, t, 1)

EndSession(q, t) ==
    [q EXCEPT !.phase[t] = "ending",
              !.ends = IF t \in q.named /\ q.up THEN @ \cup {t} ELSE @]

(* Notes the end of a turn already forgotten.                              *)
CloseCapturedAnyway(q, cutForced) ==
    LET t == q.capturing
        closed == [q EXCEPT !.capturing = Nobody,
                            !.finished = @ \cup {t},
                            !.cut = cutForced]
    IN  IF t = Nobody \/ q.phase[t] = "waiting" THEN closed
        ELSE EndSession(closed, t)

(* closeCapturedTurn(): a turn that waits is kept and started later.       *)
CloseCaptured(q, cutForced) ==
    LET t == q.capturing
        closed == [q EXCEPT !.capturing = Nobody,
                            !.finished = @ \cup {t},
                            !.cut = cutForced]
    IN  IF t = Nobody THEN q
        ELSE IF q.phase[t] = "waiting" THEN closed
        ELSE EndSession(closed, t)

(* onReady(): held audio goes out, and the end too if capture is over.     *)
OnReady(q, t) ==
    LET named == [q EXCEPT !.named = @ \cup {t},
                           !.phase[t] = IF @ = "handshaking"
                                        THEN "streaming" ELSE @]
        flushed == FlushPending(named, t)
    IN  IF q.phase[t] \in {"none", "gone"} THEN q
        ELSE IF t \in q.finished THEN EndSession(flushed, t)
        ELSE flushed

(* A refusal worth retrying: the audio is kept and a timer set.            *)
HoldForRetry(q, t) == [q EXCEPT !.phase[t] = "waiting", !.retry = TRUE]

(* The retry timer: set again while any turn waits.                        *)
Retry(q) ==
    LET tried == StartNextWaiting(q)
    IN  [tried EXCEPT !.retry = InPhase(tried, "waiting") # {}]

(* forget(), its callback and startNextWaiting() apart.                    *)
Evict(q, t) ==
    [q EXCEPT !.turns = @ \ {t},
              !.phase[t] = "gone",
              !.capturing = IF @ = t THEN Nobody ELSE @]
=============================================================================
