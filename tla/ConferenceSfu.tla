---------------------------- MODULE ConferenceSfu ----------------------------
(***************************************************************************)
(* Conference media: ConferenceSfuSignaling over SfuSessionQueue, with the *)
(* peers of one room and the client that asks for tracks.                  *)
(*                                                                         *)
(* A peer publishes on one SFU session and receives on another, and the    *)
(* SFU refuses any mutation of a session whose last offer is unanswered.   *)
(* Sessions are locked by socket, while a socket may sit, leave and sit    *)
(* again: each seat is a peer of its own.                                  *)
(*                                                                         *)
(* Cloudflare is external.  A call is carried out and its reply read, or   *)
(* it is not, or its effect is unknown.  The last is told from a plain     *)
(* failure only by status 0: after a body that was lost on the way (an     *)
(* empty object to readJson), a malformed one or a 5xx, what the call did  *)
(* stays at the SFU and the code does not know.  `unread` and `unheard`    *)
(* are history: the pulls and pushes it so happened to.  A reply that      *)
(* names a pulled track has the SFU's offer with it.                       *)
(*                                                                         *)
(* Not here: how a peer's media tokens refill, the client's 60 s timeout   *)
(* on a request, rooms with more tracks than one pull may name, and which  *)
(* of a peer's tracks a call is about: they are published and pulled       *)
(* together.                                                               *)
(***************************************************************************)
EXTENDS SfuSessionQueue, Naturals, FiniteSets

CONSTANTS
    Sockets,
    Peers,          \* ParticipantSession objects
    NoPeer,
    SocketOf,       \* the socket each peer sits on
    Talkers,        \* the peers that publish
    MaxPublishes,   \* bound: conference.media.publish messages of a peer
    MaxRetries      \* MAX_CONSECUTIVE_SUBSCRIBE_RETRIES of the client

ASSUME SocketsOfPeers == SocketOf \in [Peers -> Sockets]
ASSUME NoPeerIsNone == NoPeer \notin Peers
ASSUME BoundsAreNat == MaxPublishes \in Nat /\ MaxRetries \in Nat

VARIABLES
    ready,      \* readyState of a socket, "gone" once its close was handled
    seats,      \* room.peers
    past,       \* the peers that have been seated
    queue,      \* SfuSessionQueue.keys
    at,         \* what the call that has the key awaits
    asked,      \* the sockets whose tracks the running pull asked for
    subs,       \* the peers with a subSessionId
    published,  \* the peers with publishedTracks
    pulled,     \* the sockets a peer's `pulled` maps a mid to
    open,       \* openAnswers
    offers,     \* SFU: receiving sessions with an unanswered offer
    live,       \* SFU: publishing sessions with tracks
    unclosed,   \* the peers whose tracks were asked to close and did not
    unread,     \* the peers with an offer from a pull that passed for another
    unheard,    \* the peers with tracks from a push that passed for failed
    publishes,  \* the publish messages of each peer
    asking,     \* client: the peers in a subscribe round
    due,        \* client: the peers with a subscribe queued or scheduled
    retries,    \* client: consecutive retries
    refused     \* the tracks a peer was told nothing of when it last asked

room == <<ready, seats, past>>
sfu == <<offers, live, unclosed, unread, unheard>>
client == <<publishes, asking, due, retries, refused>>
vars == <<room, queue, at, asked, subs, published, pulled, open, sfu, client>>

Pub(s) == <<"pub", s>>
Sub(s) == <<"sub", s>>
Keys == {"pub", "sub"} \X Sockets

(* A queued call: what it does, for which peer, and about which leaver. *)
CallOf(what, p) == [what |-> what, peer |-> p, leaver |-> SocketOf[p]]
Drop(p, s) == [what |-> "drop", peer |-> p, leaver |-> s]
Calls == [what : {"publish", "subscribe", "hold", "closePub", "closeSub", "drop"},
          peer : Peers, leaver : Sockets]
ASSUME NobodyIsNoCall == Nobody \notin Calls

Stages == {"start", "session", "call", "retry", "undo"}

-----------------------------------------------------------------------------
IsSeated(p) == seats[SocketOf[p]] = p

Runs(k, what) == queue[k].running # Nobody /\ queue[k].running.what = what

(* Whose tracks p could pull and does not. *)
MissingTracks(p) ==
    {s \in Sockets \ (pulled[p] \cup {SocketOf[p]}) : seats[s] \in published}

(* The key goes on to `q`: whatever runs next has not started. *)
Hand(k, q) ==
    /\ queue' = [queue EXCEPT ![k] = q]
    /\ at' = [at EXCEPT ![k] = "start"]

Close(ss) == [s \in Sockets |-> IF s \in ss /\ ready[s] = "open" THEN "closing"
                                                                 ELSE ready[s]]

-----------------------------------------------------------------------------
Init ==
    /\ ready = [s \in Sockets |-> "open"]
    /\ seats = [s \in Sockets |-> NoPeer]
    /\ past = {}
    /\ queue = [k \in Keys |-> Idle]
    /\ at = [k \in Keys |-> "start"]
    /\ asked = [s \in Sockets |-> {}]
    /\ subs = {} /\ published = {}
    /\ pulled = [p \in Peers |-> {}]
    /\ open = [s \in Sockets |-> NoPeer]
    /\ offers = {} /\ live = {} /\ unclosed = {} /\ unread = {} /\ unheard = {}
    /\ publishes = [p \in Peers |-> 0]
    /\ asking = {} /\ due = {}
    /\ retries = [p \in Peers |-> 0]
    /\ refused = [p \in Peers |-> {}]

(* addPeer; the join reply says who publishes, and the client asks for it.  *)
Join(p) ==
    LET s == SocketOf[p]
    IN /\ ready[s] = "open"
       /\ seats[s] = NoPeer
       /\ p \notin past
       /\ seats' = [seats EXCEPT ![s] = p]
       /\ past' = past \cup {p}
       /\ due' = IF \E t \in Sockets : seats[t] \in published THEN due \cup {p}
                                                              ELSE due
       /\ UNCHANGED <<ready, queue, at, asked, subs, published, pulled, open,
                      sfu, publishes, asking, retries, refused>>

(* closeOwnSessions(): the queue of one of p's two sessions after it.  An   *)
(* open offer's hold is let go first.                                       *)
ClosedOwn(k, p) ==
    CASE k = Pub(SocketOf[p]) -> Run(queue[k], CallOf("closePub", p))
      [] k = Sub(SocketOf[p]) ->
            Run(IF open[SocketOf[p]] = p THEN Finish(queue[k]) ELSE queue[k],
                CallOf("closeSub", p))
      [] OTHER -> queue[k]

(* Tells only the receivers that are doing nothing. *)
DroppedIfIdle(t, s) ==
    IF queue[Sub(t)] = Idle THEN Run(queue[Sub(t)], Drop(seats[t], s))
                            ELSE queue[Sub(t)]

(* A receiver forgets a leaver after whatever it is pulling now. *)
Dropped(t, s) == Run(queue[Sub(t)], Drop(seats[t], s))

(* removePeer with cleanupPeer. *)
Unseat(s) ==
    LET p == seats[s]
        After(k) == IF \E t \in Sockets \ {s} : k = Sub(t) /\ seats[t] # NoPeer
                    THEN Dropped(k[2], s)
                    ELSE ClosedOwn(k, p)
    IN /\ seats' = [seats EXCEPT ![s] = NoPeer]
       /\ open' = [open EXCEPT ![s] = IF @ = p THEN NoPeer ELSE @]
       /\ queue' = [k \in Keys |-> After(k)]
       /\ due' = due \ {p}
       /\ asking' = asking \ {p}

(* conference.leave, or an eviction by the user's next seat. *)
Leave(s) ==
    /\ ready[s] # "gone"
    /\ seats[s] # NoPeer
    /\ Unseat(s)
    /\ UNCHANGED <<ready, past, at, asked, subs, published, pulled, sfu,
                   publishes, retries, refused>>

CloseSocket(s) ==
    /\ ready[s] = "open"
    /\ ready' = Close({s})
    /\ UNCHANGED <<seats, past, queue, at, asked, subs, published, pulled, open,
                   sfu, client>>

Disconnect(s) ==
    /\ ready[s] = "closing"
    /\ ready' = [ready EXCEPT ![s] = "gone"]
    /\ IF seats[s] = NoPeer THEN UNCHANGED <<seats, open, queue, due, asking>>
                            ELSE Unseat(s)
    /\ UNCHANGED <<past, at, asked, subs, published, pulled, sfu, publishes,
                   retries, refused>>

(* endRoom() with cleanupRoom: every seat at once, and nobody is told to    *)
(* forget anybody.                                                          *)
EndRoom ==
    LET seated == {p \in Peers : IsSeated(p)}
        After(k) == IF \E p \in seated : SocketOf[p] = k[2]
                    THEN ClosedOwn(k, seats[k[2]]) ELSE queue[k]
    IN /\ seated # {}
       /\ queue' = [k \in Keys |-> After(k)]
       /\ open' = [s \in Sockets |-> IF open[s] \in seated THEN NoPeer
                                                           ELSE open[s]]
       /\ seats' = [s \in Sockets |-> NoPeer]
       /\ ready' = Close({SocketOf[p] : p \in seated})
       /\ due' = due \ seated
       /\ asking' = asking \ seated
       /\ UNCHANGED <<past, at, asked, subs, published, pulled, sfu, publishes,
                      retries, refused>>

-----------------------------------------------------------------------------
Publish(p) ==
    LET k == Pub(SocketOf[p])
    IN /\ IsSeated(p) /\ ready[SocketOf[p]] # "gone"
       /\ p \in Talkers
       /\ publishes[p] < MaxPublishes
       /\ publishes' = [publishes EXCEPT ![p] = @ + 1]
       /\ queue' = [queue EXCEPT ![k] = Run(@, CallOf("publish", p))]
       /\ UNCHANGED <<room, at, asked, subs, published, pulled, open, sfu,
                      asking, due, retries, refused>>

(* Refused without a seat, or when the peer publishes already.              *)
PublishStarts(s) ==
    LET k == Pub(s)
        p == queue[k].running.peer
    IN /\ Runs(k, "publish") /\ at[k] = "start"
       /\ IF ~IsSeated(p) \/ p \in published
          THEN Hand(k, Finish(queue[k]))
          ELSE at' = [at EXCEPT ![k] = "call"] /\ UNCHANGED queue
       /\ UNCHANGED <<room, asked, subs, published, pulled, open, sfu, client>>

(* Keeps no tracks of a peer that left. *)
StoredIfSeated(p) == IF IsSeated(p) THEN published \cup {p} ELSE published

(* Stored even when the peer left meanwhile: its clean-up comes after.      *)
Stored(p) == published \cup {p}

(* The room is told if the peer is still in it. *)
PublishAccepted(s) ==
    LET k == Pub(s)
        p == queue[k].running.peer
    IN /\ Runs(k, "publish") /\ at[k] = "call"
       /\ live' = live \cup {p}
       /\ published' = Stored(p)
       /\ due' = IF IsSeated(p)
                 THEN due \cup {o \in Peers \ {p} : IsSeated(o)}
                 ELSE due
       /\ Hand(k, Finish(queue[k]))
       /\ UNCHANGED <<room, asked, subs, pulled, open, offers, unclosed,
                      unread, unheard, publishes, asking, retries, refused>>

(* Some tracks were refused: those that were not are to be closed again.    *)
PublishPartly(s) ==
    LET k == Pub(s)
        p == queue[k].running.peer
    IN /\ Runs(k, "publish") /\ at[k] = "call"
       /\ live' = live \cup {p}
       /\ at' = [at EXCEPT ![k] = "undo"]
       /\ UNCHANGED <<room, queue, asked, subs, published, pulled, open, offers,
                      unclosed, unread, unheard, client>>

(* No answer to keep: tracks the push added all the same are of nobody's    *)
(* publishedTracks, and no close will name them.                            *)
PublishFails(s) ==
    LET k == Pub(s)
        p == queue[k].running.peer
    IN /\ Runs(k, "publish") /\ at[k] = "call"
       /\ \/ UNCHANGED <<live, unheard>>
          \/ live' = live \cup {p} /\ unheard' = unheard \cup {p}
       /\ Hand(k, Finish(queue[k]))
       /\ UNCHANGED <<room, asked, subs, published, pulled, open, offers,
                      unclosed, unread, client>>

(* forceCloseTracks stops the tracks it names, or fails, as a whole or track *)
(* by track, and nothing is tried again.                                    *)
CloseTracksOf(p) ==
    \/ live' = live \ ({p} \ unheard) /\ UNCHANGED unclosed
    \/ unclosed' = unclosed \cup {p} /\ UNCHANGED live

PublishUndone(s) ==
    LET k == Pub(s)
    IN /\ Runs(k, "publish") /\ at[k] = "undo"
       /\ CloseTracksOf(queue[k].running.peer)
       /\ Hand(k, Finish(queue[k]))
       /\ UNCHANGED <<room, asked, subs, published, pulled, open, offers, unread,
                      unheard, client>>

(* Closes what the peer is known to publish once its turn comes. *)
ClosePublished(s) ==
    LET k == Pub(s)
        p == queue[k].running.peer
    IN /\ Runs(k, "closePub")
       /\ IF p \in published THEN CloseTracksOf(p) ELSE UNCHANGED <<live, unclosed>>
       /\ Hand(k, Finish(queue[k]))
       /\ UNCHANGED <<room, asked, subs, published, pulled, open, offers, unread,
                      unheard, client>>

CloseReceived(s) ==
    LET k == Sub(s)
    IN /\ Runs(k, "closeSub")
       /\ Hand(k, Finish(queue[k]))
       /\ UNCHANGED <<room, asked, subs, published, pulled, open, sfu, client>>

(* The mids are forgotten before the SFU is asked to close them. *)
DropLeaver(s) ==
    LET k == Sub(s)
        call == queue[k].running
    IN /\ Runs(k, "drop")
       /\ pulled' = [pulled EXCEPT ![call.peer] = @ \ {call.leaver}]
       /\ Hand(k, Finish(queue[k]))
       /\ UNCHANGED <<room, asked, subs, published, open, sfu, client>>

-----------------------------------------------------------------------------
(* The client asks when it was told of tracks, one round at a time. *)
Subscribe(p) ==
    LET k == Sub(SocketOf[p])
    IN /\ IsSeated(p) /\ ready[SocketOf[p]] # "gone"
       /\ p \in due \ asking
       /\ due' = due \ {p}
       /\ asking' = asking \cup {p}
       /\ refused' = [refused EXCEPT ![p] = {}]
       /\ queue' = [queue EXCEPT ![k] = Run(@, CallOf("subscribe", p))]
       /\ UNCHANGED <<room, at, asked, subs, published, pulled, open, sfu,
                      publishes, retries>>

(* Without a token left the client is refused, and its round fails: it has  *)
(* asked for what is published now, and nobody asks for that again.         *)
SubscribeLimited(p) ==
    /\ IsSeated(p) /\ ready[SocketOf[p]] # "gone"
    /\ p \in due \ asking
    /\ due' = due \ {p}
    /\ refused' = [refused EXCEPT ![p] = {t \in Sockets : seats[t] \in published}]
    /\ UNCHANGED <<room, queue, at, asked, subs, published, pulled, open, sfu,
                   publishes, asking, retries>>

(* The subscribe is over with a reply that offers nothing.  A peer that     *)
(* left is not listening any more.                                          *)
ReplyTo(p, k) ==
    /\ asking' = asking \ {p}
    /\ Hand(k, Finish(queue[k]))

(* A reply without retryAfterMs. *)
NeverRetry(p) == UNCHANGED <<due, retries>>

(* SubscribeRetryScheduler.completed() of a client that is still there. *)
RetryLater(p) ==
    IF IsSeated(p) /\ retries[p] < MaxRetries
    THEN due' = due \cup {p} /\ retries' = [retries EXCEPT ![p] = @ + 1]
    ELSE UNCHANGED <<due, retries>>

NothingSkipped(p) == retries' = [retries EXCEPT ![p] = 0] /\ UNCHANGED due

(* What the room publishes now is pulled, if there is any of it. *)
Pull(p, s) ==
    LET k == Sub(s)
    IN IF MissingTracks(p) = {}
       THEN /\ ReplyTo(p, k)
            /\ NothingSkipped(p)
            /\ UNCHANGED asked
       ELSE /\ asked' = [asked EXCEPT ![s] = MissingTracks(p)]
            /\ at' = [at EXCEPT ![k] = "call"]
            /\ UNCHANGED <<queue, asking, due, retries>>

SubscribeStarts(s) ==
    LET k == Sub(s)
        p == queue[k].running.peer
    IN /\ Runs(k, "subscribe") /\ at[k] = "start"
       /\ CASE ~IsSeated(p) ->
                  ReplyTo(p, k) /\ UNCHANGED <<asked, due, retries>>
            [] IsSeated(p) /\ p \notin subs ->
                  /\ at' = [at EXCEPT ![k] = "session"]
                  /\ UNCHANGED <<queue, asked, asking, due, retries>>
            [] OTHER -> Pull(p, s)
       /\ UNCHANGED <<room, subs, published, pulled, open, sfu, publishes,
                      refused>>

SessionOpens(s) ==
    LET p == queue[Sub(s)].running.peer
    IN /\ Runs(Sub(s), "subscribe") /\ at[Sub(s)] = "session"
       /\ subs' = subs \cup {p}
       /\ Pull(p, s)
       /\ UNCHANGED <<room, published, pulled, open, sfu, publishes, refused>>

(* newSession failed, or a pull did with a status that passes for one that  *)
(* left nothing behind: ask again.                                          *)
SubscribeFails(s) ==
    LET k == Sub(s)
        p == queue[k].running.peer
    IN /\ Runs(k, "subscribe") /\ at[k] \in {"session", "call", "retry"}
       /\ \E unseen \in {{}, IF at[k] = "session" THEN {} ELSE {p} \ offers} :
             offers' = offers \cup unseen /\ unread' = unread \cup unseen
       /\ ReplyTo(p, k)
       /\ RetryLater(p)
       /\ asked' = [asked EXCEPT ![s] = {}]
       /\ UNCHANGED <<room, subs, published, pulled, open, live, unclosed,
                      unheard, publishes, refused>>

(* A pull with status 0 is asked again like any that failed. *)
PullBreaksQuietly(s) ==
    LET k == Sub(s)
        p == queue[k].running.peer
    IN /\ Runs(k, "subscribe") /\ at[k] \in {"call", "retry"}
       /\ \E unseen \in {{}, {p}} : offers' = offers \cup unseen
       /\ ReplyTo(p, k)
       /\ RetryLater(p)
       /\ asked' = [asked EXCEPT ![s] = {}]
       /\ UNCHANGED <<room, subs, published, pulled, open, live, unclosed,
                      unread, unheard, publishes, refused>>

(* BROKEN_SESSION_STATUSES: the session has, or may have, an offer nobody   *)
(* saw, or is no more.                                                      *)
PullBreaks(s) ==
    LET k == Sub(s)
        p == queue[k].running.peer
    IN /\ Runs(k, "subscribe") /\ at[k] \in {"call", "retry"}
       /\ ready' = IF IsSeated(p) THEN Close({s}) ELSE ready
       /\ \E unseen \in {{}, {p}} : offers' = offers \cup unseen
       /\ ReplyTo(p, k)
       /\ asked' = [asked EXCEPT ![s] = {}]
       /\ UNCHANGED <<seats, past, subs, published, pulled, open, live, unclosed,
                      unread, unheard, publishes, due, retries, refused>>

(* The running pull of s is carried out, as none is over an open offer.     *)
IsPulling(s) ==
    /\ Runs(Sub(s), "subscribe") /\ at[Sub(s)] \in {"call", "retry"}
    /\ queue[Sub(s)].running.peer \notin offers

(* No track came, and some had a retryable error: those are asked for once  *)
(* more, those with another error are not.                                  *)
PullAgain(s) ==
    LET p == queue[Sub(s)].running.peer
    IN /\ IsPulling(s) /\ at[Sub(s)] = "call"
       /\ \E again \in SUBSET asked[s] \ {{}} :
             /\ asked' = [asked EXCEPT ![s] = again]
             /\ refused' = [refused EXCEPT ![p] = @ \cup (asked[s] \ again)]
       /\ at' = [at EXCEPT ![Sub(s)] = "retry"]
       /\ UNCHANGED <<room, queue, subs, published, pulled, open, sfu, publishes,
                      asking, due, retries>>

(* The tracks of `late` had a retryable error, the others that did not come *)
(* are refused: the reply asks the client back for the first only.          *)
Skip(p, refusals, late) ==
    /\ refused' = [refused EXCEPT ![p] = @ \cup refusals]
    /\ IF late = {} THEN NothingSkipped(p) ELSE RetryLater(p)

(* Publishers long missing are sent to publish again. *)
RestartLost(late) ==
    \E lost \in SUBSET {t \in late : seats[t] # NoPeer} : ready' = Close(lost)

(* Not a track came, and none is to be asked for again in this call.        *)
PullComesEmpty(s) ==
    LET k == Sub(s)
        p == queue[k].running.peer
    IN /\ IsPulling(s)
       /\ \E late \in SUBSET (IF at[k] = "retry" THEN asked[s] ELSE {}) :
             Skip(p, asked[s] \ late, late) /\ RestartLost(late)
       /\ ReplyTo(p, k)
       /\ asked' = [asked EXCEPT ![s] = {}]
       /\ UNCHANGED <<seats, past, subs, published, pulled, open, sfu, publishes>>

(* The reply to a pull lost its body: it is taken for one that names no     *)
(* track, each missing_from_response, and has no offer.                     *)
PullLosesBody(s) ==
    LET k == Sub(s)
        p == queue[k].running.peer
    IN /\ IsPulling(s)
       /\ offers' = offers \cup {p}
       /\ unread' = unread \cup {p}
       /\ Skip(p, asked[s], {})
       /\ ReplyTo(p, k)
       /\ asked' = [asked EXCEPT ![s] = {}]
       /\ UNCHANGED <<room, subs, published, pulled, open, live, unclosed,
                      unheard, publishes>>

(* The session stays locked for the client's answer: the hold goes first.   *)
Offer(s, p) ==
    /\ open' = [open EXCEPT ![s] = p]
    /\ Hand(Sub(s), Finish(Hold(queue[Sub(s)], CallOf("hold", p))))

(* Some tracks arrived and the SFU made an offer.  A peer that left gets no *)
(* hold, its clean-up being next in line.  The client's retry, counted once *)
(* it has answered, cannot be sent sooner: it is still in this round.       *)
PullArrives(s) ==
    LET k == Sub(s)
        p == queue[k].running.peer
    IN /\ IsPulling(s)
       /\ \E got \in SUBSET asked[s] \ {{}} : \E late \in SUBSET (asked[s] \ got) :
             /\ pulled' = [pulled EXCEPT ![p] = @ \cup got]
             /\ Skip(p, asked[s] \ (got \cup late), late) /\ RestartLost(late)
       /\ offers' = offers \cup {p}
       /\ IF IsSeated(p) THEN Offer(s, p) /\ UNCHANGED asking
                         ELSE ReplyTo(p, k) /\ UNCHANGED open
       /\ asked' = [asked EXCEPT ![s] = {}]
       /\ UNCHANGED <<seats, past, subs, published, live, unclosed, unread,
                      unheard, publishes>>

-----------------------------------------------------------------------------
(* renegotiate(): the answer is taken out once, and the timer stopped.      *)
Answer(p) ==
    LET s == SocketOf[p]
    IN /\ IsSeated(p) /\ ready[s] # "gone"
       /\ open[s] = p
       /\ open' = [open EXCEPT ![s] = NoPeer]
       /\ at' = [at EXCEPT ![Sub(s)] = "call"]
       /\ UNCHANGED <<room, queue, asked, subs, published, pulled, sfu, client>>

AnswerAccepted(s) ==
    LET k == Sub(s)
        p == queue[k].running.peer
    IN /\ Runs(k, "hold") /\ at[k] = "call"
       /\ offers' = offers \ {p}
       /\ ReplyTo(p, k)
       /\ UNCHANGED <<room, asked, subs, published, pulled, open, live, unclosed,
                      unread, unheard, publishes, due, retries, refused>>

AnswerRefused(s) ==
    LET k == Sub(s)
        p == queue[k].running.peer
    IN /\ Runs(k, "hold") /\ at[k] = "call"
       /\ ready' = Close({s})
       /\ ReplyTo(p, k)
       /\ UNCHANGED <<seats, past, asked, subs, published, pulled, open, sfu,
                      publishes, due, retries, refused>>

(* The stages of a hold its timer still counts for. *)
NeverArmed == {}
Armed == {"start"}

(* The hold's timer: the key is free, and a client that never answered is   *)
(* made to start over.                                                      *)
AnswerTimesOut(s) ==
    LET k == Sub(s)
        p == queue[k].running.peer
    IN /\ Runs(k, "hold") /\ at[k] \in Armed
       /\ ready' = IF open[s] = NoPeer THEN ready ELSE Close({s})
       /\ open' = [open EXCEPT ![s] = NoPeer]
       /\ ReplyTo(p, k)
       /\ UNCHANGED <<seats, past, asked, subs, published, pulled, sfu,
                      publishes, due, retries, refused>>

-----------------------------------------------------------------------------
PublishStep(s) ==
    \/ PublishStarts(s) \/ PublishAccepted(s) \/ PublishPartly(s)
    \/ PublishFails(s) \/ PublishUndone(s) \/ ClosePublished(s)

SubscribeStep(s) ==
    \/ SubscribeStarts(s) \/ SessionOpens(s) \/ SubscribeFails(s)
    \/ PullBreaks(s) \/ PullAgain(s) \/ PullComesEmpty(s) \/ PullLosesBody(s)
    \/ PullArrives(s) \/ CloseReceived(s) \/ DropLeaver(s)

HoldStep(s) == AnswerAccepted(s) \/ AnswerRefused(s) \/ AnswerTimesOut(s)

ClientStep(p) ==
    \/ Join(p) \/ Publish(p) \/ Subscribe(p) \/ SubscribeLimited(p)
    \/ Answer(p)

Next ==
    \/ \E p \in Peers : ClientStep(p)
    \/ \E s \in Sockets :
          \/ Leave(s) \/ CloseSocket(s) \/ Disconnect(s)
          \/ PublishStep(s) \/ SubscribeStep(s) \/ HoldStep(s)
    \/ EndRoom

Spec == Init /\ [][Next]_vars

(* Every call to Cloudflare answers or times out, and the hold's timer      *)
(* fires.  Nothing is assumed of the clients.                               *)
FairSpec ==
    /\ Spec
    /\ \A s \in Sockets :
          WF_vars(PublishStep(s)) /\ WF_vars(SubscribeStep(s) \/ HoldStep(s))

-----------------------------------------------------------------------------
QueueType == [running : Calls \cup {Nobody}, waiting : Seq(Calls)]

(* The shape of the state: a key with a line has somebody at the front, an  *)
(* offer is open exactly while a hold waits for its answer, and only a pull *)
(* has asked for tracks.                                                    *)
TypeOK ==
    /\ ready \in [Sockets -> {"open", "closing", "gone"}]
    /\ seats \in [Sockets -> Peers \cup {NoPeer}]
    /\ past \subseteq Peers
    /\ queue \in [Keys -> QueueType]
    /\ at \in [Keys -> Stages]
    /\ asked \in [Sockets -> SUBSET Sockets]
    /\ subs \subseteq Peers /\ published \subseteq Peers
    /\ pulled \in [Peers -> SUBSET Sockets]
    /\ open \in [Sockets -> Peers \cup {NoPeer}]
    /\ offers \subseteq Peers /\ live \subseteq Peers /\ unclosed \subseteq Peers
    /\ unread \subseteq Peers /\ unheard \subseteq Peers
    /\ publishes \in [Peers -> Nat]
    /\ asking \subseteq Peers /\ due \subseteq Peers
    /\ retries \in [Peers -> Nat]
    /\ refused \in [Peers -> SUBSET Sockets]
    /\ \A k \in Keys : queue[k].running = Nobody => queue[k].waiting = <<>>
    /\ \A s \in Sockets : seats[s] # NoPeer => SocketOf[seats[s]] = s

(* A session is locked as long as an offer of it is open, for the peer it   *)
(* was made to, so that an answer is submitted by the one who has the lock. *)
OffersAreHeld ==
    \A s \in Sockets, p \in Peers :
        open[s] = p <=> /\ Runs(Sub(s), "hold") /\ at[Sub(s)] = "start"
                        /\ queue[Sub(s)].running.peer = p

(* An unanswered offer leaves a session unlocked, with its client not told  *)
(* to start over, only when it came from a pull whose reply passed for one  *)
(* without an offer; so only then is the SFU asked to pull over it.  No     *)
(* slow answer, timer, lost connection or leaving peer gets there.          *)
NoPullOverAnOffer ==
    \A s \in Sockets :
        /\ Runs(Sub(s), "subscribe") /\ at[Sub(s)] \in {"call", "retry"}
        /\ queue[Sub(s)].running.peer \in offers \ unread
        => ready[s] # "open"

(* A subscribe of p that has not looked at the room yet. *)
IsToLook(p) ==
    LET k == Sub(SocketOf[p])
    IN \/ \E i \in DOMAIN queue[k].waiting :
             queue[k].waiting[i] = CallOf("subscribe", p)
       \/ queue[k].running = CallOf("subscribe", p) /\ at[k] \in {"start", "session"}

(* A seated peer lacks a published track of another only while it is about  *)
(* to be asked for or being pulled, or when its last subscribe ended with   *)
(* that track refused: by the SFU for good, with a body that was lost, or   *)
(* for want of tokens.  Beyond that only a client out of retries misses it: *)
(* nothing that overlaps a subscribe is forgotten.                          *)
NoTrackIsMissed ==
    \A p \in Peers : \A t \in MissingTracks(p) :
        IsSeated(p) /\ ready[SocketOf[p]] = "open" =>
            \/ p \in due \/ IsToLook(p)
            \/ t \in asked[SocketOf[p]]
            \/ t \in refused[p]
            \/ retries[p] = MaxRetries

(* Once a publishing session is left alone, the SFU has tracks of a peer    *)
(* only if it is seated and the room can pull them, if the SFU did not      *)
(* close them when asked, or if the push that added them passed for failed. *)
(* Leaving during a publish, or a publish refused in part, leaves nothing.  *)
NothingLeftOnAir ==
    \A p \in live \ (unclosed \cup unheard) :
        \/ IsSeated(p) /\ p \in published
        \/ queue[Pub(SocketOf[p])] # Idle

(* Once a receiving session is left alone, its peer counts on no tracks of  *)
(* anyone who left: the next who sits there would never be pulled.          *)
LeaversAreForgotten ==
    \A p \in Peers : \A t \in pulled[p] :
        IsSeated(p) /\ seats[t] \notin published => queue[Sub(SocketOf[p])] # Idle

(* No session stays locked: every call and hold of it ends, whatever fails  *)
(* and whoever leaves.                                                      *)
QueuesDrain == \A k \in Keys : []<>(queue[k] = Idle)
=============================================================================
