# Chatofy in TLA+

Chatofy translates speech as it is spoken: between two people at one
microphone, between a person and a web meeting, and between the participants of
its own video conferences.  This directory holds TLA+ models of the parts of it
where order, failure and sharing decide whether it is right, the TLC
configurations that check them on small instances, and TLAPS proofs of the
results that matter most.

## 1. The system

| part | where | state it keeps | operations | what makes it hard |
|---|---|---|---|---|
| turn registry and admission | `apps/api/.../translate/session/{session-registry,turn-concurrency,lid-admission}.ts` | turns per socket, identification slots | open, close, close all, admit | four overlapping ceilings; slots taken by starts that are then refused |
| turn lifecycle | `translate/services/translation-session.service.ts`, `session/turn-session.ts`, `turn-speculation.ts` | phase, audio, guess, one async `end()` per turn | start, frame, speculate, end, sweep, disconnect | a dozen awaits, each of which the client may leave during; speech that runs beside the line |
| conversation context | `session/conversation-context.ts`, `held-closing-voices.ts` | last utterances, turns waiting for a cut turn | remember, recall, wait, forget | a continuation waits for its predecessor by name, with a timeout |
| block retranslation | `session/block-retranslator.ts`, `finished-segments.ts` | the last segments, one running block and a queue per connection, cuts read again | ask, read cuts, translate, polish, answer | readings that outlive their budget; blocks that grow while they wait |
| live preview | `session/live-preview.ts` | requests in flight, generations, a budget shared by all | tick, answer, commit | late answers of a superseded generation |
| provider pipeline | `services/pipeline-translator.service.ts`, `packages/ai-providers` | key rotation, cooldowns | transcribe, translate, synthesize | failover and retry |
| conference rooms | `modules/conference/conference-peer-lifecycle.service.ts` and its registries | rooms, seats, sockets, participant rows | join, leave, evict, end | a join awaits four times; the row is written by a chain per user |
| conference media | `conference/sfu-session-queue.ts`, `conference-sfu-signaling.service.ts` | SFU sessions, offers awaiting an answer | publish, subscribe, renegotiate, clean up | one mutation at a time per session, answer timeouts |
| conference relay and chat | `conference/services/*` | token buckets, persisted turns | relay, revise, chat | once-only persistence |
| sessions and refresh tokens | `modules/auth/refresh`, `session-refresh.service.ts` | token families in Redis, password epoch | login, rotate, revoke | rotation against a lost reply, reuse detection, revocation |
| password change and reset | `modules/auth/password-*.ts` | password, purpose tokens | change, reset, terminate sessions | sessions opened while it runs |
| stores | `modules/{conversations,glossaries,minutes}` | Postgres | CRUD | serialization retries |
| realtime client | `packages/realtime-client/src` | open turns, transcript, playback queue | capture, cut, speak, play | the client half of the turn protocol, in-order playback |
| web, mobile, extension | `apps/*` | token renewal, saving a conversation | | user interfaces over the client package |
| sidecars | `services/local-stt`, `services/local-tts` | inference lanes | | Python servers, external here |

Parts interact through messages on two WebSockets (`/ws/translate`,
`/ws/conference`), calls between services on one Node event loop, and writes to
Postgres and Redis.  Everything between two awaits is atomic; everything else
interleaves.

## 2. Turns on the server

`TurnRegistry` is the admission half: `open`/`owner` are
`SessionRegistry.sessions`, `meeting` the turns a meeting's speaker leg opened,
`lid` the holders of `LidAdmission`, `gone` the sockets whose `disconnect()`
ran.  `Start`, `RefuseLanguage`, `CloseTurns` and `Disconnect` are the only
operations on them, each synchronous in the code and one action here.

`TranslationTurns` extends it with the life of a turn.  `stage` says which
await of `end()` the turn is at: the reused `guess`, the `final` request, the
`respell`, the `voice` vector, the speech.  `speech` is a second thread, because
the speech of a respelled turn runs beside its line.  `sent` is what the client
received, `rows` what was filed in the metrics log.  Promises that have settled
run before the next message, timer or answer: `Continue` runs them, and every
other action waits for `Drained`.

`TurnContract` is what a client relies on, without any of that: ready, at most
one line, a label only after it, at most one fault of the turn itself, ended once
and last, and the spending on record.
`KeepsContract` states that the turns implement it; `Told` reads what a client
was told off the last event it was sent that is not audio.

A message of the client can be refused while its turn goes on: a frame that
`acceptFrame()` rejects short of the length cap (`RejectFrame`), an end for a turn
already being translated (`EndAgain`).  The client is told in a `server.error`
that names the turn, which changes nothing of the turn, so it is kept beside what
the turn says: `refused` is the set of turns it was sent for.  The contract allows
such an error of an open turn at any time; that it may come before the line, which
a comment of the code says must not happen, is noted after the runs.

Provider answers (transcription, translation, respelling, embedding, synthesis)
are external and modelled by how `end()` uses them: they answer, answer that
nothing was heard, fail, or say the engine is busy, in any order.

### Runs

* `turn` - one turn under every setting of language mode, voice vector, voice
  output, respelling and continuation; two frames of audio before the cap, two
  guesses, two clauses.  One turn is enough for what is said of a turn by
  itself: turns share only the registry.  Two frames let a guess be made of
  less audio than the turn, two guesses let one answer after the next was
  asked, two clauses let the client leave between them.  At most `MaxRefused`
  turns have a message refused: one here, none in the next run.
* `turns_of_two_sockets` - three turns of one account, on the same or on two
  sockets, with the settings that hold the registry longest: what turns do to
  each other, and the ceilings with the whole life of the turns under them.  The
  ceilings of a socket and an account (two) and one identification slot refuse
  here; the global and the meetings' ceiling never do, and are left to the proof
  of `CeilingsAlwaysHold`, which is of all of them.
* `leaving_client` - a violation.  `streamClauses()` asks whether the turn is
  held before each clause and never after the last, so a client that leaves
  during it is filed as `completed`; the comment in `end()` says such a client
  is recorded as abandoned and incomplete.

One more disagreement is known and has no run of its own.  The comment in `end()`
says that what must not overtake the final is an error, because the client forgets
a turn on a turn-scoped error and would drop the final after it.  The speech path
obeys that; a refused frame (`acceptFrame()`'s caller, line 608) or a second end (line
935) sends such an error while the turn goes on.  It takes a client that sends
either for a turn it ended, which the repository's own does not in its normal
course.  In the instance of `turn`, `[][\A t \in Turns : Contains(sent'[t], "final")
=> Contains(sent[t], "final") \/ t \notin refused]_vars` refutes it.

Fairness: every answer comes (the pipeline gives each request a timeout), the
sweep timer fires, and each turn's own continuation runs.  Nothing is assumed of
the client: it may stop sending, never end its turn, or leave.

## 3. Conference rooms

`ConferenceRooms` models who is in which room.  A socket's `join()` awaits four
times; `stage` says which await it is at, `target` the conference, `heard` the
status it read and has not acted on, `held` the room object it took with
`acquireRoom()`.  `rooms` is the registry's map, whose values have identity: a
room that was dropped and the one opened later under the same id are different
`Objects`, as they are in memory, and `IsLive` compares them the way the code
does.  `chain` is `ConferencePersistenceService.serialize()`, one line of row
writes per conference and user, `row` what they wrote.  The owner's `end()` is
two steps (`EndConference` writes, `EndRoom` clears), with everything else able
to come between, and `MarkActive` is a write that was started by a seat and may
land late.

`ConferenceMembership` is the abstract view: people are present in a conference
on one connection at a time, and each connection has a `link`: open, closing, or
gone.  A newer connection of the same person supersedes the older in one step, which
also shuts the older.  A person ceases to be present only by an act of the
connection they are present on (it leaves, moves, or goes away), by the end of the
meeting, or by being there already on a newer connection; a connection that was
shut never is present again, and an ended conference stays empty.
`KeepsMembership` maps seats to `present`, `ready` to `link` and `cleared` to
`over`: a state in which a reconnecting user has no seat, or an evicted socket that
gets one back, is no step of that view.

* `rooms` - two sockets of one account, two joins each, in one conference: the
  invariants of seats and rows, `JoinsReturn`, and the refinement, with the
  reconnections it is about.
* `rooms_crowd` - two users of one socket each and two conferences, the first
  moving between them: what people do to each other's rooms, and the order of row
  writes (`NotOverWhileOccupied` holds with one socket per user).
* `rooms_overlap` - the same property with two sockets of one user, a violation:
  the row of a user who is sitting in a room can end up `left`, and
  `conferenceEndedAt()` then reports a conference over that is going on, against
  its own comment.

Bounds: as many `Objects` as sockets, since each socket holds or occupies one
room at a time; two joins of a socket suffice for leave-and-rejoin, one socket
more than a user needs for a reconnection.  Fairness (`JoinsReturn`): every
query is answered or fails, and the chain's next write runs.

`conference.leave` during a join in flight finds no seat, and what it replies is not
modelled; the join then seats the socket.  `SeatsAgree` does not speak of it, for
the registries do agree; that the client was told otherwise is a hazard no property
covers.

A row write that fails is taken to have had no effect; what a write whose reply
was lost would do is not modelled.  `HasSeat` and the rest of a continuation
between two awaits are one step with it, as on the event loop.

## 4. Conference media

`SfuSessionQueue` is the lock of an SFU session as a value: `Run`, `Hold` and
`Finish` take a queue to the next.  `ConferenceSfu` uses one per publishing and
one per receiving session, keyed by socket as in the code, while each seat on a
socket is a peer of its own.  `at` says what the call that has the key awaits,
`asked` whose tracks the pull under way named, `pulled` the publishers a peer
counts as received, `open` the offers whose hold waits for an answer.  The SFU's
own side is `offers` (unanswered ones), `live` (sessions with tracks) and
`unclosed` (peers whose tracks were asked to close and did not).  The client is
`asking`, `due` and `retries`: one subscribe round at a time, another when it was
told of tracks during it, and a bounded number of retries.

A Cloudflare call succeeds, fails leaving nothing, or fails with its effect
unknown, and the code tells the last from the second by status 0 alone.

* Status 0 of a pull (`PullBreaks`): an offer nobody saw may be there, so the
  socket is closed, as for a 406 or a 410.
* A body lost on the way (`PullLosesBody`): `readJson()` makes `{}` of it, every
  field of the schema is optional, so the pull is a success without an offer in
  which every track is `missing_from_response`.
* A malformed 200 or a 5xx (`SubscribeFails`): taken for a failure that left nothing.

After the last two the key is given up and the client stays while the SFU may have
an unanswered offer.  `unread` is the history of the peers this happened to.  The
next pull is then refused with a 406, which closes the socket, so the code recovers
at the price of a second failure.  A push has the same gap on the other side: its
tracks are known only from its reply, and when that was lost no close names them
(`PublishFails`, `unheard`); they stay until the peer's connection goes.

A track that did not come is late or refused (`Skip`): only some errors are worth
another attempt, and only those put `retryAfterMs` in the reply.  A pull that brought
nothing is repeated once for the late ones (`PullAgain`).  A subscribe without a token
left fails the client's round (`SubscribeLimited`) and nothing asks again.  `refused`
is the history of the tracks a peer was told nothing of when it last asked.

* `sfu` - two peers one after the other on one socket, the first and second
  publishing, and a receiver on another; one publish each, one retry.  A socket
  sat on twice is the smallest instance in which a leaver can be mistaken for
  the next on its socket.  The two are interchangeable, so `FirstThenSecond`
  leaves out the runs in which the second sits first, and `ReceiverStays` those in
  which the receiver leaves with the second there, as it may with the first.  Nobody
  has to sit down or leave under the fairness, so no behaviour of those that are
  left is cut short.

Two disagreements with comments are known and have no run of their own; each is
refuted in the instance of `sfu` by the formula given.

* The class comment of the signaling service has a subscribe offer keep its session
  locked until the client's answer is in (line 93).  An offer in `unread` does not:
  `\A p \in offers : IsSeated(p) /\ ready[SocketOf[p]] = "open" =>
  Runs(Sub(SocketOf[p]), "hold")`.
* The comment in `closeOwnSessions()` has a publish still in flight land first and
  its tracks closed too (line 385).  The tracks of a push in `unheard` are not:
  `\A p \in live \ unclosed : p \in past /\ ~IsSeated(p) =>
  queue[Pub(SocketOf[p])] # Idle`.

Each of the three properties has the exceptions these gaps force, and no others.
`NoPullOverAnOffer` excepts the offers in `unread`, so it says that no slow answer,
timer, closed socket or leaving peer leads to an overlap.  `NoTrackIsMissed` excepts
tracks in `refused` and clients out of retries, so it says that nothing overlapping a
subscribe is forgotten.  `NothingLeftOnAir` excepts a close that was tried and failed
(`unclosed`) and a push in `unheard`, so it says that what the code knows it
published, it asks to close.

Fairness (`QueuesDrain`): every Cloudflare call answers or times out, and a hold's
timer fires.  Nothing is assumed of the clients.

The start of a queued call is a step of its own, for it runs in a later
microtask.  A peer's tracks are published and pulled together.  Left out: which of
its tracks a call is about, the refill of the media tokens (a subscribe may be
refused at any time), rooms with more than the 64 tracks one pull names, the cache
of ICE servers, the client's own 60 s timeout and the count of a publisher's
restarts.

## 5. Sessions

`RefreshFamilies` is the token store: families of one-use tokens, and the Lua
script as one step.  `Verdict` decides in the script's order (life, revocation,
lineage, status), one `IF` behind the other as there: the conditions overlap, and
of the arms of a `CASE` any that holds may be taken.  `Spent`, `FamilyAfter` and `Successor` are its writes.  Tokens
and families are numbered in the order of minting.

`AccountSessions` puts one account over it.  A `web` client is a browser whose
tabs share one cookie: a request carries the cookie it started with (`old`) and
writes one back when it ends, the old one when it renewed nothing, so an older
cookie can land on a newer one (`stale` counts these).  That rewriting is
next-auth's, taken from how `apps/web/auth.ts` uses it; when to renew and what an
answer means is `applyRenewal`.  A `phone` keeps one pair and shares one renewal
(`HttpAuthClient`).  `Rotate` and `Gate` are the two halves of
`SessionRefreshService.refresh()`: the answer of Redis, then the read of the
account that may have changed in between.  `Fail` is a fault or a lost answer
anywhere, `LoseCookie` a response the browser never gets, and `lost` counts, per
token, the successors that never arrived.  `BeginChange`, `StampChange`,
`WriteChange`, `MintChange` and `BeginReset`, `StampReset`, `WriteReset` are the
awaits of a password change and a reset, which can interleave with each other and
with everything else: hashing comes before the stamp is taken, and the stamp before
the transaction that writes it.  `BeginLogin` reads the hash and `Login` mints,
with the check of the password between them.

Time is the floor of the API's clock; what matters is how the grace window, a
client's abort, the life of an access token less the client's skew and the life
of a family compare.  `Tick` waits for a request at its abort limit.

A stamp is `Math.ceil` of the clock: the next whole second, or the current one while
no millisecond of it has passed.  The clock of the model has no milliseconds, so
`Ceil` allows the current second just as long as no login was minted in it; a
login in the very millisecond of the stamp is ordered after it.

* `sessions` - one client of either kind with two requests in flight, the smallest
  burst, under three bounds.  A long time under one password (eleven ticks, one
  family, four tokens, one cookie put back): four tokens reach every verdict, a lost
  successor, the forgiven repeat, its successor and the orphan.  A short one under two
  passwords with a forced renewal (one tick, two families): a family minted by a
  change, renewed within its second.  Three passwords over two ticks: a change and a
  reset, or two resets, with a login across each; two seconds pass so that a
  stamp can be behind the clock when it is written, which is when a login is spared.

`ChangeEndsEarlierSessions` has an exception, `spared`, and keeps a history to
state it narrowly.  The comment in `resetPassword()` names a login that completes
between the stamp and the commit with a second begun in between: its token is
dated at the stamp or later and survives.  A login that read the hash before the
commit and mints after it, a second later, survives in the same way, and the comment
does not name it.  The property says that these are all, and that the next
change ends them too.

`NoFalseTheft` has a premise, and needs it.  The comment above the script argues
from timescales: a burst is over long before the next generation can be used.
That holds while nothing renews a token before it is due and while tabs do not
hand an old cookie on: a chain of overlapping requests that each put back what
they started with can carry a token past the next renewal, and a renewal forced
by `update()` makes the next generation at once.  Two more things the model
shows that are no fault of it: a phone that loses two answers to one token is
signed out (`orphaned` counts as an end), and so is a browser whose burst follows
a lost `Set-Cookie`.  The web's skew is 360 s, where comments in the store speak
of a renewal every 14 minutes.

Not modelled: a request the API executes after its client gave up; the closing of
open sockets.

## 6. The client of a conversation

`OrderedPlayback` and `TurnPipeline` are two libraries of pure operators, each
over one record, because their methods call back into the session and from there
into each other within one call.  `ClientTurns` is `ConversationSession` with
both: an action reads an event, a timer or the speaker, runs the chain of
operators the code runs and takes its result.  `Plays` is `onRetired` and
`onPlayingChanged`; `OnTurnClosed` the pipeline's callback; `Forget` the
pipeline's `forget()` with it; `CompleteDrainIfDone`, called from the two edges,
the end of a drain.  `sess` holds the flags of the session and the pump, `owed`
the rows in `pendingMetrics`, `rows` what was filed.  A turn is a number in the
order of opening, which is the `order` by which the code finds the head: so the
queue is a set, `Oldest` its least, and what a loop of `pump()` retires or of
`enforceBacklog()` drops is the set of turns it would have taken one by one.

The server is what `TranslationTurns` shows of it to a client: it admits a start
or refuses it, faults or voices a turn it holds, ends each turn once, and answers
in order (`inbox`).  A start is read after the client sent it (`pipe.asked`).

* `client` - three turns at most, in six modes rather than one large instance:
  `Capturing` (three turns for two slots, a refusal, the pending ceiling of two
  blocks), `Dropping` (the socket takes nothing more, then closes), `Voicing`
  (three turns voiced at once over a backlog of one frame and two held turns),
  `Stalling` (the watchdog gives up the head), `Alternating` (one turn at a time
  with everything that can end it) and `Closing` (the end, with a block asked).
  Three turns are a head, one waiting and one that overtakes.
* `client_drain` - a violation.  `onTurnClosed` asks whether the drain is done
  after playback has already asked in the same tick: the first call offers
  `onDrained` and the second stops the run, so the caller's settling of the
  transcript comes after the socket is closed, against the comment on
  `onDrained`.

One more disagreement is known and has no run of its own.  `pump()` releases the
held frames of a new head without telling `reportPlaying()`, so when those were all
its frames `wasPlaying` is still false as they fall silent, and no edge is
reported: the end of a drain then waits for its deadline, though the comment on
`completeDrainIfDone()` has playback falling silent as an edge that ends it.  In the
instance of `client`, the mode `[Plain EXCEPT !.frames = 1, !.ends = TRUE]` alone
refutes `sess.st = "finishing" /\ ~IsBusy(play) => sess.offered` in 17 steps: the
second turn's frame is held, the first ends with no audio, and the frame plays.

The watchdog may give up on the head at any moment: its deadline is not modelled.
(It is counted from the last frame received, not heard, so audio that lasts more
than 15 s after its last frame is cut as stalled.)  A continuation is held until
older turns have started, but its start can be on the wire while the refusal of
the turn it continues is on its way back, so the order the comment in
`tryStart()` asks for is not kept in every run; no property here says it is.

The loop of `enforceBacklog()` is taken as one set of turns, counted before the
first is dropped.  The code runs `pump()` after each, so where that released or
retired the head it would count less the next time and shed fewer than the model.

Not modelled: starting and restarting (`generation`); pause and resume, which close
the captured turn, keep the microphone's blocks from the pump in between, and each
arm it for the next turn, so they are a further way a muted client listens again;
the fallback that matches an unnamed answer to the
only turn waiting, the languages of a frame, the bounds on retained
measurements, half-duplex gating, speculation.

## 7. Blocks translated again

The ceiling cuts continuous speech into turns; the client asks for the pieces
again as one text.  `BlockRetranslation` is `BlockRetranslator` with the
`FinishedSegments` it reads and the client's `pendingBlocks`.  A segment is the
number it finished as, a block a sequence of them.  `running` is the block
`retranslate()` is at and the await it is in (`reading`, `translating`);
`waiting` the queue, a map by first segment whose order is that of insertion;
`reads` the places in it of the cuts still to be read, `late` the readings in flight that nobody
waits for any more, `seamRead` what answered, kept with the left segment and
forgotten with it.  A settled promise runs before the next message: a block that
is `taken` starts before anything else happens (`Drained`).  A refused block and
a failed or empty translation are answered alike, as on the wire.

The sidecar's reading is external: it answers, fails or hangs.  The minute of
the budget is a count that goes down by one at any time.

* `block` - one connection, four segments through a window of three, the pieces
  of one sentence asked for as two, as three, and as the last two, each once (as
  `use-streaming-translate.ts` does), two requests a minute.  Two blocks that
  share a cut and one that grew out of another are the smallest set in which a
  repair can be shown and lost; a queue of one place is full at the first
  request behind it.
Fairness (`EveryAskIsAnswered`): settled promises run, the read budget is a
timer, and a model call has a deadline.  Nothing is assumed of the sidecar: a
reading may never answer.

`RepairsStay` is about blocks in which a segment is always followed by the same
one, as in the runs of consecutive segments a client makes (`OneNeighbour` in the
proofs): of blocks that follow one segment by two others it is false, since a
segment keeps the reading of one cut, the last.

Read off the code and not run: a reading that passed `SEAM_READ_BUDGET_MS` is
not recorded as asked, so a block that grew asks for the same cut again beside it
(`late` lets both run).

`NothingForNobody` is about the readings and the translation, which have an `isGone`
check before them.  The retry of a translation that leaked a foreign script
(`ScriptRetry`) and the start of the polish (in `TranslateAnswers`) have none: for a
client that left during the translation they are still made, in the model as in
the code, and the property does not speak of them.

Not modelled: where a recovered word is put, corrections, pauses and respellings
of a block, its restore and typesetting, the polish's own budget.

## 8. Turns that continue each other

A turn cut by the ceiling is continued by the next, which must be translated
against the words of the turn before it, and turns are in flight together.
`ConversationContext` is the memory of one connection: `recent` the ring of
finished utterances, `silent` that of turns that closed without one, `waiters`
those who asked for a turn still in flight, `mail` the microtasks `remember()`
queued, `answer` a promise that settled and whose asker has not run yet.  An
utterance is the pair of its turn and its piece, since a turn split between two
voices says several in one tick.

`TurnContinuations` runs the turns over it.  Turns are numbered as they open, so
the turn before `t` is `t - 1`.  `Speculate`, `End` and `UseGuess` are the places
where `continuationFor()` is asked, and `AskFor` is that call with what follows
it: at once, or after `WaitFor`, `AnswerWaiters`, `Closed` or `TimeOut` and then
`GoOn`.  `request` is what each ask came to,
`said` how many pieces the turn's text has.  `CloseTurn`, `Abandon` and
`Disconnect` are the three ways a turn leaves.  The rest of `end()` is in
`TranslationTurns`, where an await ends whenever its answer comes; this module
says why the one on a predecessor does.

* `continuations` - three turns of one connection, the second and third
  continuing the one before, in a ring of two.  Three turns are a turn that is
  waited for while it waits itself, and one that overtakes; in a ring of two
  pieces the split of a turn pushes the turn before it out, which is the one way
  a finished turn can be unknown.  The last turn may guess twice, so that two
  guesses and an end wait for the same turn at once; the others do not guess,
  for it changes only how many wait.  The second turn may be transcript-only,
  so that its words are never remembered.

Fairness (`EveryWaitEnds`): microtasks run, the waiter's timer fires, and every
provider call settles, for each has a timeout.  Nothing is assumed of clients.

Two exceptions in the properties are the code's.  `settledText()` says that null
means the turn is in flight, but a turn whose text aged out of the ring is null
too, so its asker sits out the whole of `PREDECESSOR_WAIT_MS`.  A transcript-only
turn is not remembered, and is known only once it closes.

Not modelled: the languages turns were decided in and the spellings learned; the
closing piece of a split turn whose label waits for a later turn's voice
(`held-closing-voices.ts`): it is keyed by the latest turn opened when the
closing was reached, which need not be the next turn and may be over by then.
With it an instance of this size has too many states to explore; it wants one of
its own.  A transcript that is blank is taken to be a turn that heard nothing.

## 9. What is proved

Everything below holds for every value of the constants, under the named
assumptions of the modules: finite ceilings are numbers, the null values are not
elements of the sets they are added to, and the maps from sockets and peers to
users and sockets are total.

`TurnRegistryProofs` - the four ceilings, the identification cap and that a
closed socket holds nothing (`CeilingsAlwaysHold`, `LidAlwaysWithinCap`,
`GoneAlwaysHoldsNothing`).  The type invariant alone carries them: each `Start`
counts before it opens, and the counts are cardinalities of finite sets that a
closing can only shrink.

`TranslationTurnsProofs` - every step of a turn is a step of the registry or
leaves it alone (`TurnsRefineRegistry`), so the registry's theorems carry over.
`EveryTurnAccountedOnce` needs `AccountInv`: a row is filed exactly when a turn
leaves its last stage, which is inductive only with the fact that a turn
nobody owns yet is still new (`NewUntilOpened`).
`GuessAlwaysCoversTurn` shows a reused guess was made of all of the audio.

`FlowInv` says of each turn that it stays held while it is live and its client is
there, and that what its client heard last fits its stage: nothing after `ready`
until its text is settled, a line when the voice is awaited, while it speaks a
line, a label or the fault of a format nobody can play, and `ended` once it is
over.  `TurnsKeepContract` needs it
because the contract speaks of messages and the turn decides by its stage: that
there is no second line, or no word after a fault, is the fact that the stages
in which one would be sent are left for good.  `TranslationNeverCutOff`,
`NoTurnEverDroppedSilently` and `NoSpeechEverForNobody` follow from the same
invariant, the first two from one lemma on how a turn leaves the registry
(`HowATurnLeaves`).

`ConferenceRoomsProofs` - `SeatsInv` joins what a seat, a room and a join in
flight say of each other.  The parts that make it inductive are `HeldForTarget`
(the room object a join holds is never the live room of another conference),
`EndingIsEnded` (what an end is still taking apart was marked ended first) and
`NoLateSeat` (a join that was told `joinable` before the end took the conference
away no longer holds a live room).  From it follow
agreement of seats, one seat per user, no ghosts, ended stays empty, held rooms
stay open, and `RoomsImplementMembership`.

The rows have an invariant of their own.  `RowsInv` gives the reasons a row may
say `joined`: its user sits there, a join that wrote it still holds the room and
has its checks before it, a leave is in line, or a leave was lost.  In a settled
conference nobody is in only the last is left (`LeftByAllIsAlwaysOver`).
`OnlySocketsInv` is the other direction, for a user with one connection: its
writes are asked for in its own order, so while it joins, the join is the last
write in line, and once it sits nothing is left to be written.
`OverlapAloneMakesItOver` assumes one connection for each user and proves
`NotOverWhileOccupied`; without the assumption it is false, and `rooms_overlap`
is the counterexample, so a second connection is the whole of that finding.

`ConferenceSfuProofs` - `LockInv` says, socket by socket, that an offer without
an answer, other than one in `unread`, is held, or was made to a client told to start over, or to one that
left (`CoveredAt`); that an offer is open exactly while its hold waits
(`HeldAt`); and what a call awaits fits its peer's session (`FitAt`).  `CoveredAt`
is needed because `NoPullOverAnOffer` by itself says nothing of the time between
two calls.  The lines are handled as sets: a queue only moves on, and a hold
never waits in it.

Its second half holds two invariants of one form: what a leaver leaves
is answered for by a call already in line.  `AirInv`: tracks on the air, or about
to be, of a peer that is not there to be pulled from have their closing in line,
those of a push in `unheard` excepted, which nothing names.
`ForgetInv`: tracks a seated peer counts on, or is asking for, of somebody who is
gone have their forgetting in line behind the pull.

`SeenInv` is what `TracksNeverMissed` needs, and speaks of positions: in a
receiver's line, behind every drop of somebody whose seat publishes again comes a
subscribe, or one is about to be asked for (`Follows`).  Membership in the line
is not enough, for a subscribe that ran before the drop would find the tracks
counted as received.  The exceptions are in the property, and the invariant carries
them: a track refused when its peer last asked, and a client that used up its
retries.  A track is in `refused` only as long as its peer has not asked again, and
the step that asks empties it (`SeenEmpties`), so what one round refused
excuses nothing in the next.

`AccountSessionsProofs` - `SessionsDated` is the inductive invariant of the dates:
a login's family is dated no later than the clock, and a change's no later than the
stamp; a stamp taken and not yet written is after every login except those the write
knows of (`WriteDated`), which is what makes the write end all others; the family of
an earlier password that was not spared is dated before the stamp and that of a
change at it or after; a change that has written remembers the stamp it wrote while
its password is the current one; no access token is dated before its family.
`ChangeEndsSessions` and `ChangerKeepsSession` follow, for
any number of clients, requests, changes and resets, and without any bound on
the clock's speed.

`NobodyTakenForAThief` rests on `HonestInv`: a family has one owner, and what a
rotation answers is the next generation of what it was asked with (`Lineage`);
no token is more than one generation past the last its family saw used
(`Generations`); a request ends within `Abort`, and an unforced renewal is asked
for only when the token is due (`Times`).  While the times do not overlap, nothing
kept is behind its family (`Ahead`), and of two generations kept by one browser,
one is no longer held and nothing asks with it later than `(stale + 1) * Abort`
after the newer was dated (`OneStays`).  `stale` cookies put back can each add one
request to that, which is how the premise `(stale + 2) * Abort < FreshFor` comes
about.  The proof does not use the grace window: the distance between two
renewals alone keeps honest clients from being taken for thieves, and the window
only decides whether a burst is answered or sent away to try again.

`PhonesRefusedForAReason` rests on `PhoneInv`: a phone has one renewal at a time,
asks with the token it holds, and that token was spent, or left behind by its
family's epoch, only by rotations whose answers were lost or are on their way:
one to be spent, two to be left behind (`Fit`).

`BlockRetranslationProofs` - `BlockInv`: whatever a client that is still there
waits for is the running block or in the queue, one block waits under each first
segment, and a block that was just taken has a client.  The middle part makes
the replacement of a grown block well defined, the last is what
`NothingIsDoneForNobody` needs: a client can leave only between two turns of the
event loop, so a block is never started for one that left.

`RepairsNeverGo` rests on `WordsInv`: the words a block was given (`Kept`, those of
a polish under way included) are of cuts whose reading is remembered or whose left
segment aged out, and a block under translation has every word its shorter selves
were given, as long as its segments are known.  The second half is what the answer
needs; it survives because what a connection was given grows only by the answer of
its one running block, and a block that is joinable now was when it started.  A
reading may only add to what is remembered, which is where `OneNeighbour` comes
in.  `WordStep` is what a step may do to a connection, shown once per action.

`TurnContinuationsProofs` - `ToldInv` says that whoever is waiting waits for
words that are not there, or that just came, and that an answer not acted upon
yet is what the memory says now.  It is inductive because microtasks run before
anything else can push a text out (`MailIsFresh`) and because a turn has words
only after its text arrived (`SaidIsKnown`).  `EveryRequestContinuesItsOwnCut`
follows.  `KeptInv` says that a turn that is over is known, by its words or to be
silent, unless a full memory let it go; it needs that an open turn of a connected
client is held (`HeldWhileOpen`), so that giving up without closing
(`Abandon`) happens only when nobody is left to wait.  What the ring keeps when
pieces are pushed is a lemma about sequences (`RememberEffect`).

`ClientTurnsProofs` - `IInv` is the client's invariant, for any number of turns,
any mode and any ceilings.  A handler runs through three records that call each
other back, so no property of one of them is inductive alone:

* `Audible` - what sounds or was released is the oldest turn, whatever waits is
  queued, and the watchdog is on the head.  `SpeaksInOrder` is this part.  A
  method may be entered while only `Loose` holds (`drop()` inside `push()`), and
  every one of them ends in `pump()`, which restores the rest.
* `Piped` - the pipeline's phases, the starts it sent, the turns the server has
  open and what it told of them (`Wire`): a refusal is the only word of its turn,
  an end the last one, and a turn that waits is unknown to the server.  Without
  it a late `ready` could name a turn that was sent back to wait.
  `BlocksAccounted` and `CeilingsAgree` are read off it; the second needs that no
  fault is on its way (`NoFaults`), for a fault frees the client's slot and not
  the server's.
* `Tracked` - playback has every turn the pipeline has or has dropped it; heard,
  held and unread frames of a turn that is not over add up to what the server
  voiced (`Framed`); a closed turn owes a row while playback has it and has filed
  one after (`Rows`).  That a row says `played` only when all was heard needs the
  middle part: the end of a turn is read after its audio, so nothing is unread
  when its row is decided.
* `Alternates` - a client with one turn in flight that does not listen has a turn,
  or a turn that ended and still sounds.  It is inductive with `Lone`: one turn at
  most is queued, and the session was told of what sounds.  Without the second
  half the edge that re-arms capture might never be reported, as with several
  turns it is not (see the note on `pump()` in section 6).

Of a run that stopped `IInv` keeps only that nothing is left (`Silent`).  The
loops of `startNextWaiting()` and `enforcePendingCeiling()` are recursive
functions over the turns.  That such a function exists is itself proved, from a
least round at which it would not (`LoopExists`, over the library's `WFMin`), and
what a round keeps is carried to the end the same way (`Climb`): induction over
rounds by a least counterexample, which needs no theorem with an operator as a
parameter.

The type invariants of turns, rooms, media, blocks and continuations are proved,
not run, and so are two invariants the type invariant or `LockInv` carries: that the
identification slots stay within their cap and that an offer is open exactly
while its hold waits.

Only model-checked:

* everything temporal (`EveryTurnEnds`, `EveryEndReturns`, `JoinsReturn`,
  `QueuesDrain`, `EveryAskIsAnswered`, `EveryWaitEnds`), which is out of the
  prover's reach;
* `NotOverWhileOccupied` of users with several connections, where it is false.

## 10. Not modelled, and the plan

Not modelled for good: the recognition, translation and speech models behind the
sidecars (external, in `services/`), user interfaces, audio signal processing,
HTTP validation and serialization, plain CRUD of the stores.

Left for later, in this order:

1. Held closing voices, over `ConversationContext`, in an instance of their own.
2. `LivePreview` - requests in flight, generations and the shared budget.
3. Split turns and the polish: pieces, labels and speech of one turn in order.
4. `ConferenceRelay` - who receives a line, revisions, persistence once, composed
   with `ConferenceRooms`; the relay's token buckets; the client's conference legs.
5. Conversation save and serialization retry; provider failover and cooldown.
