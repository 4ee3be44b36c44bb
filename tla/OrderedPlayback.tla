--------------------------- MODULE OrderedPlayback ---------------------------
(***************************************************************************)
(* The playback queue of a client (OrderedPlayback) over its loudspeaker   *)
(* (PcmPlaybackQueue): turns are spoken in the order they were opened,     *)
(* whatever order they finish in.  Pure operators over one record:         *)
(*                                                                         *)
(*   queue     the turns not yet retired; the oldest is the head           *)
(*   ended     those the server has closed                                 *)
(*   released  those whose audio goes straight to the loudspeaker          *)
(*   frames    how many frames each turn has waiting                       *)
(*   sounding  how many chunks of each turn are scheduled and not yet over *)
(*   due       the turns whose drain report is pending                     *)
(*   watching  the turn the stall watchdog is on, or NoTurn                *)
(*   busy      what the session was last told: something sounds or waits   *)
(*   heard     how many chunks of each turn reached the loudspeaker        *)
(*   dropped   the turns abandoned before they were over                   *)
(*                                                                         *)
(* A turn is a number, in the order of opening, which is the `order` the   *)
(* code finds the head by.  Chunks sound one after the other in the order  *)
(* they were scheduled, kept apart by turn as in `sources`; were chunks of *)
(* two turns scheduled, either turn's could be over first.  The watchdog's *)
(* deadline is left out: it may give up on the head at any moment.  A      *)
(* frame is one unit of backlog; the languages of a turn are one.          *)
(***************************************************************************)
EXTENDS Naturals, FiniteSets, FiniteSetsExt

CONSTANTS
    MaxBacklog,     \* MAX_BACKLOG_MS, in frames
    MaxHeld         \* MAX_HELD_TURNS

ASSUME MaxBacklogIsNat == MaxBacklog \in Nat
ASSUME MaxHeldIsNat == MaxHeld \in Nat \ {0}

NoTurn == 0

Silence(turns) ==
    [queue |-> {}, ended |-> {}, released |-> {},
     frames |-> [t \in turns |-> 0], sounding |-> [t \in turns |-> 0],
     due |-> {}, watching |-> NoTurn, busy |-> FALSE,
     heard |-> [t \in turns |-> 0], dropped |-> {}]

Holds(p, t) == t \in p.queue

IsPlayingTurn(p, t) == p.sounding[t] > 0

IsBusy(p) ==
    \/ p.queue # {}
    \/ \E t \in DOMAIN p.sounding : IsPlayingTurn(p, t)

ReportPlaying(p) == [p EXCEPT !.busy = IsBusy(p)]

-----------------------------------------------------------------------------
(***************************************************************************)
(* The loudspeaker.                                                        *)
(***************************************************************************)
Enqueue(p, t, n) ==
    [p EXCEPT !.sounding[t] = @ + n,
              !.due = IF n > 0 THEN @ \ {t} ELSE @,
              !.heard[t] = @ + n]

StopTurns(p, gone) ==
    [p EXCEPT !.sounding = [t \in DOMAIN @ |-> IF t \in gone THEN 0 ELSE @[t]],
              !.due = @ \ gone]

(* A chunk of the turn is over.                                            *)
ChunkEnds(p, t) ==
    [p EXCEPT !.sounding[t] = @ - 1, !.due = @ \cup {t}]

-----------------------------------------------------------------------------
(***************************************************************************)
(* The queue.                                                              *)
(***************************************************************************)
Oldest(p) == Min(p.queue)

(* The server has closed it, and all of it has been heard.                 *)
IsOver(p, t) ==
    t \in p.ended /\ ~IsPlayingTurn(p, t) /\ p.frames[t] = 0

(* The turns pump() retires: the run of oldest turns that are over.        *)
Retired(p) ==
    {t \in p.queue : \A u \in p.queue : u <= t => IsOver(p, u)}

(* The head's audio goes to the loudspeaker.                               *)
ReleaseHead(p) ==
    IF p.queue = {} THEN ReportPlaying([p EXCEPT !.watching = NoTurn])
    ELSE LET head == Oldest(p)
         IN  [Enqueue(p, head, p.frames[head]) EXCEPT
                 !.frames[head] = 0,
                 !.released = @ \cup {head},
                 !.watching = head]

Without(p, gone) ==
    [p EXCEPT !.queue = @ \ gone,
              !.ended = @ \ gone,
              !.released = @ \ gone,
              !.frames = [t \in DOMAIN @ |-> IF t \in gone THEN 0 ELSE @[t]]]

Pump(p) == ReleaseHead(Without(p, Retired(p)))

(* open(): a place in speaking order, claimed when the turn opens.         *)
Open(p, t) == Pump([p EXCEPT !.queue = @ \cup {t}])

(* finish(): the server has closed it, whichever way it ended.             *)
Finish(p, t) ==
    IF Holds(p, t) THEN Pump([p EXCEPT !.ended = @ \cup {t}]) ELSE p

(* drop(), of each of these turns                                          *)
Abandon(p, gone) ==
    Pump([StopTurns(Without(p, gone), gone) EXCEPT !.dropped = @ \cup gone])

Drop(p, t) == IF Holds(p, t) THEN Abandon(p, {t}) ELSE p

(* backlogMs and heldTurns over their ceilings, if these turns were all    *)
OverBacklog(p, turns) ==
    \/ MapThenSumSet(LAMBDA t : p.frames[t], turns) > MaxBacklog
    \/ Cardinality(turns) > MaxHeld

(* enforceBacklog(): the oldest turns that wait are dropped until the      *)
(* backlog fits; never the head.                                           *)
EnforceBacklog(p) ==
    LET waiting == p.queue \ (p.released \cup {Oldest(p)})
        Older(t) == {u \in waiting : u < t}
        shed == {t \in waiting : OverBacklog(p, p.queue \ Older(t))}
    IN  IF shed = {} THEN p ELSE Abandon(p, shed)

(* Plays whatever arrives.                                                 *)
PushAtOnce(p, t) ==
    IF ~Holds(p, t) THEN p ELSE ReportPlaying(Enqueue(p, t, 1))

(* push(): audio for a turn no longer queued is discarded.                 *)
Push(p, t) ==
    IF ~Holds(p, t) THEN p
    ELSE IF t \in p.released THEN ReportPlaying(Enqueue(p, t, 1))
    ELSE EnforceBacklog([p EXCEPT !.frames[t] = @ + 1])

(* The drain check of one turn: onTurnDrained(), if nothing of it sounds.  *)
DrainCheck(p, t) ==
    LET q == [p EXCEPT !.due = @ \ {t}]
    IN  IF IsPlayingTurn(q, t) THEN q ELSE ReportPlaying(Pump(q))

(* The watchdog's check finds its deadline passed.                         *)
Stall(p) ==
    Drop([p EXCEPT !.watching = NoTurn], p.watching)
=============================================================================
