-------------------------- MODULE ClientTurnsProofs --------------------------
(***************************************************************************)
(* The client of a conversation, for any number of turns and any mode.     *)
(*                                                                         *)
(* IInv has one part per library and one per pair of them.  Audible is     *)
(* playback between its methods; Piped the pipeline, what it sent and what *)
(* the server still has to say of each turn; Tracked that playback has the *)
(* turns the pipeline has, that no frame is lost between the wire and the  *)
(* loudspeaker, and that a row is owed or filed for each turn closed;      *)
(* Alternates a client that answers one turn at a time.                    *)
(*                                                                         *)
(* A handler is a chain of operators over the client's record, so the      *)
(* lemmas follow the chain: what each method of the libraries does (Moves  *)
(* for playback, Keeps for the pipeline), then what the session's own      *)
(* operators make of that (PlaysEffect, ForgetEffect), then the actions.   *)
(* Inside forget() the two libraries disagree for a while on the turn that *)
(* goes; Turned says how far, and playback's next pump() settles it.       *)
(* The two loops run over the turns and are handled as functions of the    *)
(* round (LoopExists, Climb).                                              *)
(***************************************************************************)
EXTENDS ClientTurns, FiniteSetTheorems, SequenceTheorems,
        WellFoundedInduction, TLAPS

-----------------------------------------------------------------------------
(***************************************************************************)
(* The types of the records.                                               *)
(***************************************************************************)
Phases == {"none", "waiting", "handshaking", "streaming", "ending", "gone"}

Pipes ==
    [turns : SUBSET Turns, phase : [Turns -> Phases], named : SUBSET Turns,
     pending : [Turns -> Seq(Nat)], finished : SUBSET Turns,
     continues : SUBSET Turns, capturing : Turns \cup {Nobody},
     cut : BOOLEAN, retry : BOOLEAN, limit : Nat, up : BOOLEAN,
     asked : Seq(Turns), ends : SUBSET Turns,
     reached : [Turns -> Seq(Nat)], shed : [Turns -> SUBSET Nat]]

Players ==
    [queue : SUBSET Turns, ended : SUBSET Turns, released : SUBSET Turns,
     frames : [Turns -> Nat], sounding : [Turns -> Nat], due : SUBSET Turns,
     watching : Turns \cup {NoTurn}, busy : BOOLEAN, heard : [Turns -> Nat],
     dropped : SUBSET Turns]

Causes == {"none", "drained", "pressed", "timeout", "grace", "lost"}

Sessions ==
    [st : {"live", "finishing", "stopped"}, armed : BOOLEAN,
     talking : BOOLEAN, turnEnded : BOOLEAN, offered : BOOLEAN,
     settling : BOOLEAN, blocks : Nat, grace : BOOLEAN, cause : Causes]

Reasons == {"none", "completed", "error", "too_many_turns", "dropped_pending"}

Outcomes == {"played", "no_audio", "dropped", "rejected", "error"}

Clients ==
    [pipe : Pipes, play : Players, sess : Sessions,
     owed : [Turns -> Reasons], rows : [Turns -> Seq(Outcomes)]]

Events ==
    [kind : {"ready", "refused", "failed", "audio", "completed", "error"},
     turn : Turns]

-----------------------------------------------------------------------------
(***************************************************************************)
(* Playback.                                                               *)
(***************************************************************************)

(* What holds of playback while it is being changed: what sounds, and what *)
(* was released, is the oldest turn; what waits is queued.                 *)
Loose(p) ==
    /\ \A t \in Turns : p.sounding[t] > 0 =>
           t \in p.queue /\ \A u \in p.queue : t <= u
    /\ \A t \in p.released :
           t \in p.queue /\ \A u \in p.queue : t <= u
    /\ \A t \in Turns : p.frames[t] > 0 => t \in p.queue /\ t \notin p.released
    /\ p.ended \subseteq p.queue
    /\ p.queue \cap p.dropped = {}

(* What holds of playback between its methods.                             *)
Audible(p) ==
    /\ Loose(p)
    /\ p.queue = {} => p.watching = NoTurn /\ ~p.busy
    /\ p.queue # {} => p.watching = Oldest(p) /\ p.released = {Oldest(p)}

(* What every method but open() may do: turns leave, dropped, or over and  *)
(* played out, and no frame of a turn that stays is lost.  over: the turns *)
(* the method itself was told are over.                                    *)
Moves(p, r, over) ==
    /\ r.queue \subseteq p.queue
    /\ p.dropped \subseteq r.dropped
    /\ r.dropped \subseteq p.dropped \cup (p.queue \ r.queue)
    /\ r.ended = (p.ended \cup over) \cap r.queue
    /\ \A t \in r.queue : r.heard[t] + r.frames[t] = p.heard[t] + p.frames[t]
    /\ \A t \in Turns \ r.queue : r.heard[t] = p.heard[t]
    /\ \A t \in p.queue \ r.queue :
           t \in r.dropped \/ (t \in p.ended \cup over /\ p.frames[t] = 0)

(* One turn at most is queued, and the session was told of what sounds.    *)
Lone(p) ==
    /\ \A t, u \in p.queue : t = u
    /\ \A t \in Turns : p.sounding[t] > 0 => p.busy
    /\ p.ended # {} => p.busy

-----------------------------------------------------------------------------
(***************************************************************************)
(* The pipeline and the wire.                                              *)
(***************************************************************************)
Unopened(q) == {t \in Turns : q.phase[t] = "none"}

InTurn(q) == \E n \in 0 .. MaxTurns : Turns \ Unopened(q) = 1 .. n

Phased(q) ==
    /\ q.turns = {t \in Turns : q.phase[t] \notin {"none", "gone"}}
    /\ q.capturing # Nobody => q.capturing \in q.turns
    /\ \A t \in q.named : q.phase[t] \notin {"none", "waiting"}
    /\ \A i \in DOMAIN q.asked :
           /\ q.phase[q.asked[i]] \in {"handshaking", "ending"}
           /\ q.asked[i] \notin q.named
    /\ \A i, j \in DOMAIN q.asked : i # j => q.asked[i] # q.asked[j]

(* No sign of the turn at the server or on its way from there.             *)
Unknown(t, h, in) == t \notin h /\ \A i \in DOMAIN in : in[i].turn # t

Wire(q, h, in) ==
    /\ \A t \in Turns :
           q.phase[t] \in {"none", "waiting"} => Unknown(t, h, in)
    /\ \A i \in DOMAIN q.asked : Unknown(q.asked[i], h, in)
    /\ \A i \in DOMAIN in :
           /\ in[i].kind = "refused" =>
                  /\ in[i].turn \notin h
                  /\ in[i].turn \notin q.named
                  /\ \A j \in DOMAIN in : in[j].turn = in[i].turn => j = i
           /\ in[i].kind = "ready" =>
                  /\ in[i].turn \notin q.named
                  /\ \A j \in DOMAIN in : in[j].turn = in[i].turn => i <= j
           /\ in[i].kind \in {"completed", "error"} =>
                  /\ in[i].turn \notin h
                  /\ \A j \in DOMAIN in : in[j].turn = in[i].turn => j <= i

Counted(q, h) == h \subseteq AtServer(q)

NoFaults(in) == \A i \in DOMAIN in : in[i].kind # "failed"

Accounted(q, t, n) ==
    LET all == q.reached[t] \o q.pending[t]
    IN  /\ IsIncreasing(all)
        /\ ToSet(all) \cup q.shed[t] = 1 .. n
        /\ ToSet(all) \cap q.shed[t] = {}

Blocks(q, cap) ==
    \A t \in Turns :
        IF q.phase[t] = "none"
        THEN q.reached[t] = <<>> /\ q.pending[t] = <<>> /\ q.shed[t] = {}
        ELSE Accounted(q, t, cap[t])

Piped(q, cap, h, in) ==
    /\ InTurn(q) /\ Phased(q) /\ Wire(q, h, in) /\ Blocks(q, cap)
    /\ mode.faults = 0 => NoFaults(in) /\ Counted(q, h)

-----------------------------------------------------------------------------
(***************************************************************************)
(* Places, frames and rows: what playback has of the turns.                *)
(***************************************************************************)
Places(q, p) ==
    /\ q.turns \subseteq p.queue \cup p.dropped
    /\ (p.queue \cup p.dropped) \cap Unopened(q) = {}

(* Playback was told of the turns forgotten, or is now told of over.       *)
Ended(q, p, over) == (p.ended \cup over) \cap p.queue = p.queue \ q.turns

(* Audio of the turn not yet read.                                         *)
Unread(in, t) == {i \in DOMAIN in : in[i] = [kind |-> "audio", turn |-> t]}

Framed(q, p, v, in) ==
    \A t \in Turns \ p.dropped :
        q.phase[t] # "gone" =>
            p.heard[t] + p.frames[t] + Cardinality(Unread(in, t)) = v[t]

Closed(q, t) == t \in q.named /\ q.phase[t] = "gone"

(* Playback p of the turns of q, the rows o owed and w filed.              *)
Rows(q, p, o, w, h, v) ==
    \A t \in Turns :
        /\ o[t] # "none" <=> Closed(q, t) /\ t \in p.queue
        /\ w[t] # <<>> <=> Closed(q, t) /\ t \notin p.queue
        /\ Len(w[t]) <= 1
        /\ o[t] = "completed" =>
               t \notin h /\ p.heard[t] + p.frames[t] = v[t]
        /\ w[t] = <<"played">> => t \notin h /\ p.heard[t] = v[t]
        /\ w[t] = <<"no_audio">> => t \notin h /\ v[t] = 0

Filed(c, h, v) == Rows(c.pipe, c.play, c.owed, c.rows, h, v)

Tracked(c, h, v, in) ==
    Places(c.pipe, c.play) /\ Framed(c.pipe, c.play, v, in) /\ Filed(c, h, v)

-----------------------------------------------------------------------------
(* One turn at a time.                                                     *)
Alternates(c) ==
    /\ Lone(c.play)
    /\ \A t, u \in c.pipe.turns : t = u
    /\ c.sess.turnEnded => c.pipe.turns = {} /\ IsBusy(c.play)
    /\ c.sess.armed /\ ~c.sess.talking =>
           c.pipe.turns = {} /\ ~IsBusy(c.play)
    /\ ~c.sess.armed \/ c.sess.talking =>
           c.pipe.turns # {} \/ (c.sess.turnEnded /\ IsBusy(c.play))

OneByOne(c) == c.sess.st = "live" /\ Single(c) => Alternates(c)

(* Nothing is left of a run that stopped.                                  *)
Silent(c) ==
    /\ c.pipe = NoTurns(c.pipe.limit)
    /\ c.play = Silence(Turns)
    /\ ~c.sess.talking /\ ~c.sess.grace /\ c.sess.blocks = 0

Core(c, cap, h, v, in) ==
    /\ \A t \in Turns : Len(c.rows[t]) <= 1
    /\ c.sess.talking => c.sess.st = "live"
    /\ IF Stopped(c) THEN Silent(c)
       ELSE /\ Audible(c.play)
            /\ Piped(c.pipe, cap, h, in)
            /\ Ended(c.pipe, c.play, {})
            /\ Tracked(c, h, v, in)

Typed ==
    /\ mode \in Modes
    /\ Client \in Clients
    /\ captured \in [Turns -> Nat] /\ voiced \in [Turns -> Nat]
    /\ held \subseteq Turns /\ inbox \in Seq(Events)
    /\ tally \in [refusals : Nat, faults : Nat, asks : Nat]
    /\ mode.faults = 0 => tally.faults = 0
    /\ Stopped(Client) => held = {} /\ inbox = <<>>

IInv ==
    /\ Typed
    /\ Core(Client, captured, held, voiced, inbox)
    /\ OneByOne(Client)

-----------------------------------------------------------------------------
(***************************************************************************)
(* Numbers, loops and sequences.                                           *)
(***************************************************************************)

(* A set of numbers has a least one. *)
LEMMA Least ==
    ASSUME NEW T \in SUBSET Nat, T # {}
    PROVE  \E n \in T : \A m \in T : n <= m
<1> DEFINE R == {ss \in Nat \X Nat : ss[1] < ss[2]}
<1>1. IsWellFoundedOn(R, Nat)
  BY NatLessThanWellFounded DEF OpToRel
<1>2. PICK n \in T : \A m \in T : ~(<<m, n>> \in R)
  BY <1>1, WFMin
<1>3. ASSUME NEW m \in T PROVE n <= m
  <2>1. n \in Nat /\ m \in Nat
    OBVIOUS
  <2>2. ~(m < n)
    BY <1>2, <2>1
  <2> QED  BY <2>1, <2>2
<1> QED  BY <1>3

(* So the head of a queue is in it, and no turn in it is older. *)
LEMMA MinFacts ==
    ASSUME NEW T \in SUBSET Nat, T # {}
    PROVE  Min(T) \in T /\ \A m \in T : Min(T) <= m
BY Least DEF Min

(* What holds at first and is passed on by each round holds at the end. *)
LEMMA Climb ==
    ASSUME NEW N \in Nat, NEW S, 0 \in S,
           \A n \in 1 .. N : n - 1 \in S => n \in S
    PROVE  \A n \in 0 .. N : n \in S
<1> DEFINE T == {n \in 0 .. N : n \notin S}
<1>1. SUFFICES ASSUME T # {} PROVE FALSE
  OBVIOUS
<1>2. PICK n \in T : \A m \in T : n <= m
  <2>1. T \in SUBSET Nat
    OBVIOUS
  <2> HIDE DEF T
  <2> QED  BY <1>1, <2>1, Least
<1>3. n # 0 /\ n \in 1 .. N /\ n - 1 \in 0 .. N
  BY <1>2
<1>4. n - 1 \notin T
  BY <1>2, <1>3
<1> QED  BY <1>2, <1>3, <1>4

(* A loop of N rounds is a function of the round. *)
LEMMA LoopExists ==
    ASSUME NEW V, NEW v \in V, NEW N \in Nat,
           NEW Round \in [(1 .. N) \X V -> V]
    PROVE  \E f \in [0 .. N -> V] :
               f[0] = v /\ \A n \in 1 .. N : f[n] = Round[<<n, f[n - 1]>>]
<1> DEFINE Good(k) == \E f \in [0 .. k -> V] :
               f[0] = v /\ \A n \in 1 .. k : f[n] = Round[<<n, f[n - 1]>>]
<1> DEFINE S == {k \in 0 .. N : Good(k)}
<1>1. 0 \in S
  <2> DEFINE g == [k \in 0 .. 0 |-> v]
  <2>1. g \in [0 .. 0 -> V] /\ g[0] = v
    OBVIOUS
  <2>2. \A n \in 1 .. 0 : g[n] = Round[<<n, g[n - 1]>>]
    OBVIOUS
  <2>3. Good(0)
    BY <2>1, <2>2
  <2> QED  BY <2>3
<1>2. ASSUME NEW n \in 1 .. N, n - 1 \in S
      PROVE  n \in S
  <2>1. PICK f \in [0 .. n - 1 -> V] :
            f[0] = v /\ \A k \in 1 .. n - 1 : f[k] = Round[<<k, f[k - 1]>>]
    BY <1>2
  <2> DEFINE g == [k \in 0 .. n |-> IF k = n THEN Round[<<n, f[n - 1]>>]
                                    ELSE f[k]]
  <2>2. Round[<<n, f[n - 1]>>] \in V
    OBVIOUS
  <2>3. g \in [0 .. n -> V]
    BY <2>2
  <2>4. g[0] = v
    BY <2>1
  <2>5. \A k \in 1 .. n : g[k] = Round[<<k, g[k - 1]>>]
    <3> TAKE k \in 1 .. n
    <3>1. CASE k = n
      <4>1. g[n] = Round[<<n, f[n - 1]>>] /\ g[n - 1] = f[n - 1]
        OBVIOUS
      <4> QED  BY <3>1, <4>1
    <3>2. CASE k # n
      BY <3>2, <2>1
    <3> QED  BY <3>1, <3>2
  <2>6. Good(n)
    <3> HIDE DEF g
    <3> QED  BY <2>3, <2>4, <2>5
  <2> QED  BY <2>6
<1>3. N \in S
  <2> HIDE DEF S
  <2> QED  BY <1>1, <1>2, Climb
<1> QED  BY <1>3

-----------------------------------------------------------------------------
(***************************************************************************)
(* Playback.                                                               *)
(***************************************************************************)
LEMMA OldestFacts ==
    ASSUME NEW p \in Players, p.queue # {}
    PROVE  /\ Oldest(p) \in p.queue
           /\ Oldest(p) \in Turns
           /\ \A t \in p.queue : Oldest(p) <= t
           /\ \A t \in p.queue : (\A u \in p.queue : t <= u) => t = Oldest(p)
<1>1. p.queue \in SUBSET Nat /\ p.queue \subseteq Turns
  BY MaxTurnsIsNat DEF Players, Turns
<1>2. Oldest(p) \in p.queue /\ \A t \in p.queue : Oldest(p) <= t
  BY <1>1, MinFacts DEF Oldest
<1> QED  BY <1>1, <1>2

(* Retiring the oldest turns that are over loses nothing that waits.       *)
LEMMA RetiredEffect ==
    ASSUME NEW p \in Players, Loose(p)
    PROVE  LET R == Retired(p)
               q == Without(p, R)
           IN  /\ q \in Players /\ Loose(q)
               /\ q.queue = p.queue \ R /\ q.ended = p.ended \ R
               /\ q.frames = p.frames /\ q.heard = p.heard
               /\ q.dropped = p.dropped /\ q.busy = p.busy
               /\ q.sounding = p.sounding /\ q.due = p.due
               /\ R \subseteq p.queue \cap p.ended /\ \A t \in R : p.frames[t] = 0
               /\ q.queue # {} => ~IsOver(q, Oldest(q))
<1> DEFINE R == Retired(p)
<1> DEFINE q == Without(p, R)
<1>1. /\ R \subseteq p.queue \cap p.ended
      /\ \A t \in R : p.frames[t] = 0 /\ ~(p.sounding[t] > 0)
      /\ \A t \in R, u \in p.queue : u <= t => u \in R
  <2>1. p.queue \subseteq Nat
    BY MaxTurnsIsNat DEF Players, Turns
  <2>2. \A t \in R : t <= t
    BY <2>1 DEF Retired
  <2> QED  BY <2>1, <2>2 DEF Retired, IsOver, IsPlayingTurn
<1> HIDE DEF R
<1>2. p.frames \in [Turns -> Nat] /\ R \subseteq Turns
  BY <1>1 DEF Players
<1>3. [t \in DOMAIN p.frames |-> IF t \in R THEN 0 ELSE p.frames[t]] = p.frames
  BY <1>1, <1>2
<1>4. /\ q.queue = p.queue \ R /\ q.ended = p.ended \ R
      /\ q.released = p.released \ R
      /\ q.frames = p.frames /\ q.heard = p.heard
      /\ q.dropped = p.dropped /\ q.busy = p.busy /\ q.watching = p.watching
      /\ q.sounding = p.sounding /\ q.due = p.due
      /\ q \in Players
  <2>1. q = [p EXCEPT !.queue = @ \ R, !.ended = @ \ R,
                      !.released = @ \ R, !.frames = p.frames]
    BY <1>3 DEF Without
  <2> HIDE DEF q
  <2> QED  BY <2>1 DEF Players
<1> HIDE DEF q
<1>5. Loose(q)
  <2>1. \A t \in Turns : q.sounding[t] > 0 =>
            t \in q.queue /\ \A u \in q.queue : t <= u
    BY <1>1, <1>4 DEF Loose
  <2>2. \A t \in q.released :
            t \in q.queue /\ \A u \in q.queue : t <= u
    BY <1>4 DEF Loose
  <2>3. \A t \in Turns :
            q.frames[t] > 0 => t \in q.queue /\ t \notin q.released
    <3> TAKE t \in Turns
    <3>1. t \in R => ~(q.frames[t] > 0)
      BY <1>1, <1>4
    <3> QED  BY <3>1, <1>4 DEF Loose
  <2>4. q.ended \subseteq q.queue /\ q.queue \cap q.dropped = {}
    BY <1>4 DEF Loose
  <2> QED  BY <2>1, <2>2, <2>3, <2>4 DEF Loose
<1>6. ASSUME q.queue # {}, IsOver(q, Oldest(q))
      PROVE  FALSE
  <2> DEFINE h == Oldest(q)
  <2>1. h \in q.queue /\ \A t \in q.queue : h <= t
    BY <1>4, <1>6, OldestFacts
  <2>2. p.queue \subseteq Nat
    BY MaxTurnsIsNat DEF Players, Turns
  <2>3. IsOver(p, h)
    BY <1>4, <1>6 DEF IsOver, IsPlayingTurn
  <2> HIDE DEF h
  <2>4. \A u \in p.queue : u <= h => u \in R \/ u = h
    BY <1>4, <2>1, <2>2
  <2>5. \A u \in R : IsOver(p, u)
    BY <1>1, <2>2 DEF R, Retired
  <2>6. h \in R
    BY <1>4, <2>1, <2>3, <2>4, <2>5 DEF R, Retired
  <2> QED  BY <1>4, <2>1, <2>6
<1> QED  BY <1>1, <1>4, <1>5, <1>6 DEF R, q

LEMMA EnqueueEffect ==
    ASSUME NEW p \in Players, NEW t \in Turns, NEW n \in Nat
    PROVE  LET e == Enqueue(p, t, n)
           IN  /\ e \in Players
               /\ e.queue = p.queue /\ e.ended = p.ended
               /\ e.released = p.released /\ e.frames = p.frames
               /\ e.sounding = [p.sounding EXCEPT ![t] = @ + n]
               /\ e.heard = [p.heard EXCEPT ![t] = @ + n]
               /\ e.dropped = p.dropped /\ e.watching = p.watching
               /\ e.busy = p.busy
<1> DEFINE e == Enqueue(p, t, n)
<1> DEFINE due == IF n > 0 THEN p.due \ {t} ELSE p.due
<1>1. due \in SUBSET Turns
  BY DEF Players
<1>2. e = [p EXCEPT !.sounding = [p.sounding EXCEPT ![t] = @ + n],
                    !.due = due,
                    !.heard = [p.heard EXCEPT ![t] = @ + n]]
  BY DEF Enqueue, Players
<1>3. /\ [p.sounding EXCEPT ![t] = @ + n] \in [Turns -> Nat]
      /\ [p.heard EXCEPT ![t] = @ + n] \in [Turns -> Nat]
  BY DEF Players
<1> HIDE DEF e, due
<1> QED  BY <1>1, <1>2, <1>3 DEF Players, e

(* The head's frames go to the loudspeaker.                                *)
LEMMA ReleaseEffect ==
    ASSUME NEW p \in Players, Loose(p)
    PROVE  LET r == ReleaseHead(p)
           IN  /\ r \in Players /\ Audible(r)
               /\ r.queue = p.queue /\ r.ended = p.ended
               /\ r.dropped = p.dropped
               /\ \A t \in Turns : r.heard[t] + r.frames[t]
                                       = p.heard[t] + p.frames[t]
               /\ \A t \in Turns \ p.queue : r.heard[t] = p.heard[t]
               /\ r.queue # {} => r.busy = p.busy
               /\ p.queue # {} /\ p.frames[Oldest(p)] = 0 =>
                      r.sounding = p.sounding
<1> DEFINE r == ReleaseHead(p)
<1>1. CASE p.queue = {}
  <2>1. \A t \in Turns : ~(p.sounding[t] > 0)
    BY <1>1 DEF Loose
  <2>2. DOMAIN p.sounding = Turns
    BY DEF Players
  <2>3. ~IsBusy([p EXCEPT !.watching = NoTurn])
    BY <1>1, <2>1, <2>2 DEF IsBusy, IsPlayingTurn, Players
  <2>4. r = [[p EXCEPT !.watching = NoTurn] EXCEPT !.busy = FALSE]
    BY <1>1, <2>3 DEF ReleaseHead, ReportPlaying, IsBusy
  <2>5. /\ r.queue = p.queue /\ r.ended = p.ended /\ r.released = p.released
        /\ r.frames = p.frames /\ r.sounding = p.sounding
        /\ r.heard = p.heard /\ r.dropped = p.dropped
        /\ r.watching = NoTurn /\ r.busy = FALSE
        /\ r \in Players
    BY <2>4 DEF Players
  <2> HIDE DEF r
  <2>6. Audible(r)
    BY <1>1, <2>5 DEF Audible, Loose
  <2> QED  BY <1>1, <2>5, <2>6 DEF r
<1>2. CASE p.queue # {}
  <2> DEFINE h == Oldest(p)
  <2> DEFINE n == p.frames[h]
  <2>1. /\ h \in p.queue /\ h \in Turns /\ n \in Nat
        /\ \A t \in p.queue : h <= t
        /\ \A t \in p.queue : (\A u \in p.queue : t <= u) => t = h
    BY <1>2, OldestFacts DEF Players
  <2> HIDE DEF h
  <2>2. /\ r.queue = p.queue /\ r.ended = p.ended
        /\ r.released = p.released \cup {h}
        /\ r.frames = [p.frames EXCEPT ![h] = 0]
        /\ r.sounding = [p.sounding EXCEPT ![h] = @ + n]
        /\ r.heard = [p.heard EXCEPT ![h] = @ + n]
        /\ r.dropped = p.dropped /\ r.watching = h /\ r.busy = p.busy
        /\ r.due \in {p.due, p.due \ {h}}
    BY <1>2, <2>1 DEF ReleaseHead, Enqueue, Players, h
  <2>3. r \in Players
    <3> DEFINE e == Enqueue(p, h, n)
    <3>1. e \in Players
      BY <2>1, EnqueueEffect
    <3>2. r = [e EXCEPT !.frames[h] = 0, !.released = @ \cup {h},
                        !.watching = h]
      BY <1>2 DEF ReleaseHead, h
    <3> HIDE DEF e, r
    <3> QED  BY <3>1, <3>2, <2>1 DEF Players
  <2> HIDE DEF r
  <2>4. Oldest(r) = h
    BY <2>2 DEF Oldest, h
  <2>5. p.released \subseteq {h}
    BY <2>1 DEF Loose, Players
  <2>6. Loose(r)
    <3>1. \A t \in Turns : r.sounding[t] > 0 =>
              t \in r.queue /\ \A u \in r.queue : t <= u
      <4> TAKE t \in Turns
      <4>1. t # h => r.sounding[t] = p.sounding[t]
        BY <2>2 DEF Players
      <4> QED  BY <4>1, <2>1, <2>2 DEF Loose
    <3>2. \A t \in r.released :
              t \in r.queue /\ \A u \in r.queue : t <= u
      BY <2>1, <2>2, <2>5
    <3>3. \A t \in Turns :
              r.frames[t] > 0 => t \in r.queue /\ t \notin r.released
      <4> TAKE t \in Turns
      <4>1. r.frames[h] = 0 /\ (t # h => r.frames[t] = p.frames[t])
        BY <2>1, <2>2 DEF Players
      <4> QED  BY <4>1, <2>1, <2>2, <2>5 DEF Loose
    <3>4. r.ended \subseteq r.queue /\ r.queue \cap r.dropped = {}
      BY <2>2 DEF Loose
    <3> QED  BY <3>1, <3>2, <3>3, <3>4 DEF Loose
  <2>7. Audible(r)
    BY <1>2, <2>2, <2>4, <2>5, <2>6 DEF Audible
  <2>8. \A t \in Turns : r.heard[t] + r.frames[t] = p.heard[t] + p.frames[t]
    BY <2>1, <2>2 DEF Players
  <2>9. \A t \in Turns \ p.queue : r.heard[t] = p.heard[t]
    BY <2>1, <2>2 DEF Players
  <2>10. n = 0 => r.sounding = p.sounding
    BY <2>1, <2>2 DEF Players
  <2> QED  BY <1>2, <2>2, <2>3, <2>7, <2>8, <2>9, <2>10 DEF r, h
<1> QED  BY <1>1, <1>2

(* pump(), with what the session is told of a turn that is alone.          *)
LEMMA PumpEffect ==
    ASSUME NEW p \in Players, Loose(p)
    PROVE  LET r == Pump(p)
           IN  /\ r \in Players /\ Audible(r) /\ Moves(p, r, {})
               /\ r.dropped = p.dropped
               /\ r.queue # {} => r.busy = p.busy
               /\ /\ \A t, u \in p.queue : t = u
                  /\ \A t \in Turns : p.sounding[t] > 0 => p.busy
                  /\ \A t \in Turns : p.frames[t] = 0
                  => Lone(r)
<1> DEFINE R == Retired(p)
<1> DEFINE q == Without(p, R)
<1> DEFINE r == ReleaseHead(q)
<1>1. /\ q \in Players /\ Loose(q)
      /\ q.queue = p.queue \ R /\ q.ended = p.ended \ R
      /\ q.frames = p.frames /\ q.heard = p.heard
      /\ q.dropped = p.dropped /\ q.busy = p.busy
      /\ q.sounding = p.sounding
      /\ R \subseteq p.queue \cap p.ended /\ \A t \in R : p.frames[t] = 0
      /\ q.queue # {} => ~IsOver(q, Oldest(q))
  BY RetiredEffect
<1> HIDE DEF R, q
<1>2. /\ r \in Players /\ Audible(r)
      /\ r.queue = q.queue /\ r.ended = q.ended
      /\ r.dropped = q.dropped
      /\ \A t \in Turns : r.heard[t] + r.frames[t] = q.heard[t] + q.frames[t]
      /\ \A t \in Turns \ q.queue : r.heard[t] = q.heard[t]
      /\ r.queue # {} => r.busy = q.busy
      /\ q.queue # {} /\ q.frames[Oldest(q)] = 0 => r.sounding = q.sounding
  BY <1>1, ReleaseEffect
<1> HIDE DEF r
<1>3. p.ended \subseteq p.queue /\ p.queue \subseteq Turns
  BY DEF Loose, Players
<1>4. Moves(p, r, {})
  BY <1>1, <1>2, <1>3 DEF Moves
<1>5. ASSUME \A t, u \in p.queue : t = u,
             \A t \in Turns : p.sounding[t] > 0 => p.busy,
             \A t \in Turns : p.frames[t] = 0
      PROVE  Lone(r)
  <2>1. CASE q.queue = {}
    BY <1>2, <2>1 DEF Lone, Audible, Loose
  <2>2. CASE q.queue # {}
    <3>1. Oldest(q) \in q.queue /\ Oldest(q) \in Turns
      BY <1>1, <2>2, OldestFacts
    <3>2. r.sounding = p.sounding /\ r.busy = p.busy
      BY <1>1, <1>2, <1>5, <2>2, <3>1
    <3>3. \A t \in r.ended : t = Oldest(q)
      BY <1>1, <1>2, <1>3, <1>5, <3>1
    <3>4. r.ended # {} => p.sounding[Oldest(q)] > 0
      BY <1>1, <1>2, <1>5, <2>2, <3>1, <3>3 DEF IsOver, IsPlayingTurn
    <3> QED  BY <1>1, <1>2, <1>5, <3>1, <3>2, <3>4 DEF Lone
  <2> QED  BY <2>1, <2>2
<1> QED  BY <1>2, <1>1, <1>4, <1>5 DEF Pump, R, q, r

LEMMA ReportEffect ==
    ASSUME NEW p \in Players, Audible(p)
    PROVE  LET r == ReportPlaying(p)
           IN  /\ r \in Players /\ Audible(r)
               /\ r.queue = p.queue /\ r.ended = p.ended
               /\ r.frames = p.frames /\ r.heard = p.heard
               /\ r.dropped = p.dropped /\ r.sounding = p.sounding
               /\ r.busy = IsBusy(p)
               /\ (\A t, u \in p.queue : t = u) => Lone(r)
<1> DEFINE r == ReportPlaying(p)
<1>1. /\ r \in Players
      /\ r.queue = p.queue /\ r.ended = p.ended /\ r.released = p.released
      /\ r.frames = p.frames /\ r.heard = p.heard
      /\ r.dropped = p.dropped /\ r.sounding = p.sounding
      /\ r.busy = IsBusy(p) /\ r.watching = p.watching
  BY DEF ReportPlaying, Players, IsBusy
<1> HIDE DEF r
<1>2. DOMAIN p.sounding = Turns
  BY DEF Players
<1>3. \A t \in Turns : p.sounding[t] > 0 => p.queue # {} /\ IsBusy(p)
  BY <1>2 DEF Audible, Loose, IsBusy, IsPlayingTurn
<1>4. p.queue = {} => ~IsBusy(p)
  BY <1>2, <1>3 DEF IsBusy, IsPlayingTurn
<1>5. p.ended # {} => IsBusy(p)
  BY DEF Audible, Loose, IsBusy
<1>6. Oldest(r) = Oldest(p)
  BY <1>1 DEF Oldest
<1>7. Audible(r)
  BY <1>1, <1>4, <1>6 DEF Audible, Loose
<1> QED  BY <1>1, <1>3, <1>5, <1>7 DEF Lone, r

(* A turn that is alone waits for nobody, so no frame of it waits.         *)
LEMMA LoneFrames ==
    ASSUME NEW p \in Players, Audible(p), \A t, u \in p.queue : t = u
    PROVE  \A t \in Turns : p.frames[t] = 0
<1> TAKE t \in Turns
<1>1. p.frames[t] \in Nat
  BY DEF Players
<1>2. ASSUME p.frames[t] > 0 PROVE FALSE
  <2>1. t \in p.queue /\ t \notin p.released /\ p.queue # {}
    BY <1>2 DEF Audible, Loose
  <2>2. Oldest(p) \in p.queue /\ p.released = {Oldest(p)}
    BY <2>1, OldestFacts DEF Audible
  <2> QED  BY <2>1, <2>2
<1> QED  BY <1>1, <1>2

LEMMA OpenEffect ==
    ASSUME NEW p \in Players, Audible(p), NEW t \in Turns,
           t \notin p.dropped, \A u \in p.queue : u < t
    PROVE  LET r == Open(p, t)
           IN  /\ r \in Players /\ Audible(r) /\ t \in r.queue
               /\ Moves([p EXCEPT !.queue = @ \cup {t}], r, {})
               /\ p.queue = {} => Lone(r)
<1> DEFINE q == [p EXCEPT !.queue = @ \cup {t}]
<1> DEFINE r == Pump(q)
<1>1. /\ q \in Players /\ q.queue = p.queue \cup {t}
      /\ q.ended = p.ended /\ q.released = p.released
      /\ q.frames = p.frames /\ q.heard = p.heard
      /\ q.dropped = p.dropped /\ q.sounding = p.sounding
      /\ q.busy = p.busy
  BY DEF Players
<1> HIDE DEF q
<1>2. \A u \in p.queue : u <= t
  BY MaxTurnsIsNat DEF Players, Turns
<1>3. t \notin p.queue /\ t <= t
  BY MaxTurnsIsNat DEF Turns
<1>4. Loose(q)
  BY <1>1, <1>2 DEF Audible, Loose
<1>5. /\ r \in Players /\ Audible(r) /\ Moves(q, r, {})
      /\ r.dropped = q.dropped
      /\ /\ \A u, w \in q.queue : u = w
         /\ \A u \in Turns : q.sounding[u] > 0 => q.busy
         /\ \A u \in Turns : q.frames[u] = 0
         => Lone(r)
  BY <1>1, <1>4, PumpEffect
<1> HIDE DEF r
<1>6. t \in r.queue
  <2>1. t \notin q.ended
    BY <1>1, <1>3 DEF Audible, Loose
  <2> QED  BY <1>1, <1>5, <2>1 DEF Moves
<1>7. ASSUME p.queue = {}
      PROVE  Lone(r)
  <2>1. \A u \in Turns : ~(p.sounding[u] > 0) /\ p.frames[u] = 0
    BY <1>7, LoneFrames DEF Audible, Loose
  <2> QED  BY <1>1, <1>5, <1>7, <2>1
<1> QED  BY <1>5, <1>6, <1>7 DEF Open, q, r

LEMMA FinishEffect ==
    ASSUME NEW p \in Players, Audible(p), NEW t \in Turns
    PROVE  LET r == Finish(p, t)
           IN  /\ r \in Players /\ Audible(r) /\ Moves(p, r, {t})
               /\ r.dropped = p.dropped
               /\ Lone(p) => Lone(r)
<1> DEFINE q == [p EXCEPT !.ended = @ \cup {t}]
<1> DEFINE r == Pump(q)
<1>1. CASE t \in p.queue
  <2>1. /\ q \in Players /\ q.queue = p.queue
        /\ q.ended = p.ended \cup {t} /\ q.released = p.released
        /\ q.frames = p.frames /\ q.heard = p.heard
        /\ q.dropped = p.dropped /\ q.sounding = p.sounding
        /\ q.busy = p.busy
    BY DEF Players
  <2> HIDE DEF q
  <2>2. Loose(q)
    BY <1>1, <2>1 DEF Audible, Loose
  <2>3. /\ r \in Players /\ Audible(r) /\ Moves(q, r, {})
        /\ r.dropped = q.dropped
        /\ /\ \A u, w \in q.queue : u = w
           /\ \A u \in Turns : q.sounding[u] > 0 => q.busy
           /\ \A u \in Turns : q.frames[u] = 0
           => Lone(r)
    BY <2>2, <2>1, PumpEffect
  <2> HIDE DEF r
  <2>4. Moves(p, r, {t})
    BY <2>1, <2>3 DEF Moves
  <2>5. Lone(p) => Lone(r)
    BY <2>1, <2>3, LoneFrames DEF Lone
  <2>6. Finish(p, t) = r
    BY <1>1 DEF Finish, Holds, q, r
  <2> QED  BY <2>1, <2>3, <2>4, <2>5, <2>6
<1>2. CASE t \notin p.queue
  <2>1. Finish(p, t) = p
    BY <1>2 DEF Finish, Holds
  <2>2. Moves(p, p, {t})
    BY <1>2 DEF Moves, Audible, Loose
  <2> QED  BY <2>1, <2>2
<1> QED  BY <1>1, <1>2

LEMMA AbandonEffect ==
    ASSUME NEW p \in Players, Loose(p), NEW gone \in SUBSET p.queue
    PROVE  LET r == Abandon(p, gone)
           IN  /\ r \in Players /\ Audible(r) /\ Moves(p, r, {})
               /\ gone \subseteq r.dropped
               /\ /\ \A t, u \in p.queue : t = u
                  /\ \A t \in Turns : p.sounding[t] > 0 => p.busy
                  /\ \A t \in Turns : p.frames[t] = 0
                  => Lone(r)
<1> DEFINE w == Without(p, gone)
<1> DEFINE frames == [t \in Turns |-> IF t \in gone THEN 0 ELSE p.frames[t]]
<1> DEFINE sounding ==
        [t \in Turns |-> IF t \in gone THEN 0 ELSE p.sounding[t]]
<1> DEFINE q == [StopTurns(w, gone) EXCEPT !.dropped = @ \cup gone]
<1> DEFINE r == Pump(q)
<1>1. frames \in [Turns -> Nat] /\ sounding \in [Turns -> Nat]
  BY DEF Players
<1>2. /\ w \in Players /\ w.queue = p.queue \ gone
      /\ w.ended = p.ended \ gone /\ w.released = p.released \ gone
      /\ w.frames = frames /\ w.heard = p.heard
      /\ w.dropped = p.dropped /\ w.sounding = p.sounding
      /\ w.busy = p.busy /\ w.due = p.due
  <2>1. w = [p EXCEPT !.queue = @ \ gone, !.ended = @ \ gone,
                      !.released = @ \ gone, !.frames = frames]
    BY DEF Without, Players
  <2> HIDE DEF w, frames
  <2> QED  BY <1>1, <2>1 DEF Players
<1> HIDE DEF w
<1>3. /\ q \in Players /\ q.queue = p.queue \ gone
      /\ q.ended = p.ended \ gone /\ q.released = p.released \ gone
      /\ q.frames = frames /\ q.heard = p.heard
      /\ q.dropped = p.dropped \cup gone /\ q.sounding = sounding
      /\ q.busy = p.busy
  <2>1. q = [w EXCEPT !.sounding = sounding, !.due = @ \ gone,
                      !.dropped = @ \cup gone]
    BY <1>2 DEF StopTurns, Players
  <2>2. gone \subseteq Turns
    BY DEF Players
  <2> HIDE DEF q, sounding, frames
  <2> QED  BY <1>1, <1>2, <2>1, <2>2 DEF Players
<1> HIDE DEF q
<1>4. Loose(q)
  <2>1. \A t \in Turns : q.sounding[t] > 0 =>
            t \in q.queue /\ \A u \in q.queue : t <= u
    BY <1>3 DEF Loose
  <2>2. \A t \in q.released :
            t \in q.queue /\ \A u \in q.queue : t <= u
    BY <1>3 DEF Loose
  <2>3. \A t \in Turns :
            q.frames[t] > 0 => t \in q.queue /\ t \notin q.released
    BY <1>3 DEF Loose
  <2>4. q.ended \subseteq q.queue /\ q.queue \cap q.dropped = {}
    BY <1>3 DEF Loose
  <2> QED  BY <2>1, <2>2, <2>3, <2>4 DEF Loose
<1>5. /\ r \in Players /\ Audible(r) /\ Moves(q, r, {})
      /\ r.dropped = q.dropped
      /\ /\ \A u, v \in q.queue : u = v
         /\ \A u \in Turns : q.sounding[u] > 0 => q.busy
         /\ \A u \in Turns : q.frames[u] = 0
         => Lone(r)
  BY <1>3, <1>4, PumpEffect
<1> HIDE DEF r
<1>6. Moves(p, r, {})
  <2>1. r.queue \subseteq p.queue /\ r.queue \cap gone = {}
    BY <1>3, <1>5 DEF Moves
  <2>2. \A t \in Turns : t \notin gone => q.frames[t] = p.frames[t]
    BY <1>3
  <2>3. r.queue \subseteq Turns /\ p.queue \subseteq Turns
    BY <1>5 DEF Players
  <2>4. r.dropped = p.dropped \cup gone
    BY <1>3, <1>5
  <2>5. r.ended = (p.ended \cup {}) \cap r.queue
    BY <1>3, <1>5, <2>1 DEF Moves
  <2>6. \A t \in r.queue : r.heard[t] + r.frames[t] = p.heard[t] + p.frames[t]
    BY <1>3, <1>5, <2>1, <2>2, <2>3 DEF Moves
  <2>7. \A t \in Turns \ r.queue : r.heard[t] = p.heard[t]
    BY <1>3, <1>5 DEF Moves
  <2>8. \A t \in p.queue \ r.queue :
            t \in r.dropped \/ (t \in p.ended \cup {} /\ p.frames[t] = 0)
    BY <1>3, <1>5, <2>2, <2>3, <2>4 DEF Moves
  <2> QED  BY <2>1, <2>4, <2>5, <2>6, <2>7, <2>8 DEF Moves
<1>7. ASSUME \A t, u \in p.queue : t = u,
             \A t \in Turns : p.sounding[t] > 0 => p.busy,
             \A t \in Turns : p.frames[t] = 0
      PROVE  Lone(r)
  <2>1. \A t \in Turns : q.sounding[t] > 0 => q.busy
    BY <1>3, <1>7
  <2>2. \A t \in Turns : q.frames[t] = 0
    BY <1>3, <1>7
  <2> QED  BY <1>3, <1>5, <1>7, <2>1, <2>2
<1> QED  BY <1>3, <1>5, <1>6, <1>7 DEF Abandon, q, r, w

(* One more frame waits, though nothing has yet come of it.                *)
Pushed(p, t) == [p EXCEPT !.frames[t] = @ + 1]

LEMMA PushedFacts ==
    ASSUME NEW p \in Players, NEW t \in Turns
    PROVE  LET q == Pushed(p, t)
           IN  /\ q \in Players
               /\ q.frames = [p.frames EXCEPT ![t] = @ + 1]
               /\ q.queue = p.queue /\ q.ended = p.ended
               /\ q.released = p.released /\ q.sounding = p.sounding
               /\ q.heard = p.heard /\ q.dropped = p.dropped
               /\ q.watching = p.watching /\ q.busy = p.busy
BY DEF Players, Pushed

(* push(): the frame waits or sounds, whatever else leaves the queue.      *)
LEMMA PushEffect ==
    ASSUME NEW p \in Players, Audible(p), NEW t \in p.queue
    PROVE  LET r == Push(p, t)
           IN  /\ r \in Players /\ Audible(r)
               /\ Moves(Pushed(p, t), r, {})
               /\ Lone(p) => Lone(r)
<1> DEFINE q == Pushed(p, t)
<1> DEFINE e == Enqueue(p, t, 1)
<1>1. t \in Turns /\ p.queue # {} /\ Holds(p, t)
  BY DEF Players, Holds
<1>2. /\ q \in Players
      /\ q.frames = [p.frames EXCEPT ![t] = @ + 1]
      /\ q.queue = p.queue /\ q.ended = p.ended /\ q.released = p.released
      /\ q.sounding = p.sounding /\ q.heard = p.heard
      /\ q.dropped = p.dropped /\ q.watching = p.watching
      /\ q.busy = p.busy
  BY <1>1, PushedFacts
<1> HIDE DEF q
<1>3. CASE t \in p.released
  <2>1. /\ e \in Players
        /\ e.queue = p.queue /\ e.ended = p.ended
        /\ e.released = p.released /\ e.frames = p.frames
        /\ e.sounding = [p.sounding EXCEPT ![t] = @ + 1]
        /\ e.heard = [p.heard EXCEPT ![t] = @ + 1]
        /\ e.dropped = p.dropped /\ e.watching = p.watching
        /\ e.busy = p.busy
    BY <1>1, EnqueueEffect
  <2> HIDE DEF e
  <2>2. Oldest(e) = Oldest(p)
    BY <2>1 DEF Oldest
  <2>3. \A u \in Turns : e.sounding[u] > 0 =>
            u \in e.queue /\ \A w \in e.queue : u <= w
    <3> TAKE u \in Turns
    <3>1. CASE u = t
      BY <1>3, <2>1, <3>1 DEF Audible, Loose
    <3>2. CASE u # t
      BY <1>1, <2>1, <3>2 DEF Audible, Loose, Players
    <3> QED  BY <3>1, <3>2
  <2>4. Audible(e)
    BY <1>1, <2>1, <2>2, <2>3 DEF Audible, Loose
  <2> DEFINE r == ReportPlaying(e)
  <2>5. /\ r \in Players /\ Audible(r)
        /\ r.queue = e.queue /\ r.ended = e.ended
        /\ r.frames = e.frames /\ r.heard = e.heard
        /\ r.dropped = e.dropped
        /\ (\A u, w \in e.queue : u = w) => Lone(r)
    BY <2>1, <2>4, ReportEffect
  <2> HIDE DEF r
  <2>6. \A u \in Turns : r.heard[u] + r.frames[u] = q.heard[u] + q.frames[u]
    BY <1>1, <1>2, <2>1, <2>5 DEF Players
  <2>7. \A u \in Turns : u # t => r.heard[u] = q.heard[u]
    BY <1>1, <1>2, <2>1, <2>5 DEF Players
  <2>8. r.ended = (q.ended \cup {}) \cap r.queue
    BY <1>2, <2>1, <2>5 DEF Audible, Loose
  <2>9. r.queue = q.queue /\ r.dropped = q.dropped /\ r.queue \subseteq Turns
    BY <1>2, <2>1, <2>5 DEF Players
  <2>10. Moves(q, r, {})
    BY <1>1, <2>6, <2>7, <2>8, <2>9, <1>2 DEF Moves
  <2>11. Push(p, t) = r
    BY <1>1, <1>3 DEF Push, r, e
  <2> QED  BY <2>1, <2>5, <2>10, <2>11 DEF Lone, q
<1>4. CASE t \notin p.released
  <2>1. Loose(q)
    <3>1. \A u \in Turns :
              q.frames[u] > 0 => u \in q.queue /\ u \notin q.released
      <4> TAKE u \in Turns
      <4>1. CASE u = t
        BY <1>2, <1>4, <4>1
      <4>2. CASE u # t
        BY <1>1, <1>2, <4>2 DEF Audible, Loose, Players
      <4> QED  BY <4>1, <4>2
    <3> QED  BY <1>2, <3>1 DEF Audible, Loose
  <2>2. Oldest(q) = Oldest(p)
    BY <1>2 DEF Oldest
  <2>3. Audible(q)
    BY <1>1, <1>2, <2>1, <2>2 DEF Audible
  <2>4. Push(p, t) = EnforceBacklog(q)
    BY <1>1, <1>4 DEF Push, q, Pushed
  <2> DEFINE waiting == q.queue \ (q.released \cup {Oldest(q)})
  <2> DEFINE Older(u) == {w \in waiting : w < u}
  <2> DEFINE shed == {u \in waiting : OverBacklog(q, q.queue \ Older(u))}
  <2>5. EnforceBacklog(q) = IF shed = {} THEN q ELSE Abandon(q, shed)
    BY DEF EnforceBacklog
  <2>6. shed \in SUBSET q.queue
    OBVIOUS
  <2> HIDE DEF shed
  <2>7. ~Lone(p)
    <3>1. Oldest(p) \in p.queue /\ p.released = {Oldest(p)}
      BY <1>1, OldestFacts DEF Audible
    <3> QED  BY <1>4, <3>1 DEF Lone
  <2>8. CASE shed = {}
    <3>1. Moves(q, q, {})
      BY <2>1 DEF Moves, Loose
    <3> QED  BY <1>2, <2>3, <2>4, <2>5, <2>7, <2>8, <3>1 DEF q
  <2>9. CASE shed # {}
    <3> DEFINE r == Abandon(q, shed)
    <3>1. r \in Players /\ Audible(r) /\ Moves(q, r, {})
      BY <1>2, <2>1, <2>6, AbandonEffect
    <3> HIDE DEF r
    <3>2. Push(p, t) = r
      BY <2>4, <2>5, <2>9 DEF r
    <3> QED  BY <2>7, <3>1, <3>2 DEF q
  <2> QED  BY <2>8, <2>9
<1> QED  BY <1>3, <1>4

(* The drain check reports what sounds, even where pump() does not.        *)
LEMMA DrainEffect ==
    ASSUME NEW p \in Players, Audible(p), NEW t \in Turns
    PROVE  LET r == DrainCheck(p, t)
           IN  /\ r \in Players /\ Audible(r) /\ Moves(p, r, {})
               /\ Lone(p) => Lone(r)
<1> DEFINE q == [p EXCEPT !.due = @ \ {t}]
<1>1. /\ q \in Players
      /\ q.queue = p.queue /\ q.ended = p.ended /\ q.released = p.released
      /\ q.frames = p.frames /\ q.sounding = p.sounding
      /\ q.heard = p.heard /\ q.dropped = p.dropped
      /\ q.watching = p.watching /\ q.busy = p.busy
  BY DEF Players
<1> HIDE DEF q
<1>2. Oldest(q) = Oldest(p)
  BY <1>1 DEF Oldest
<1>3. Audible(q)
  BY <1>1, <1>2 DEF Audible, Loose
<1>4. CASE IsPlayingTurn(q, t)
  <2>1. DrainCheck(p, t) = q
    BY <1>4 DEF DrainCheck, q
  <2>2. Moves(p, q, {}) /\ (Lone(p) => Lone(q))
    BY <1>1 DEF Moves, Lone, Audible, Loose
  <2> QED  BY <1>1, <1>3, <2>1, <2>2
<1>5. CASE ~IsPlayingTurn(q, t)
  <2> DEFINE m == Pump(q)
  <2> DEFINE r == ReportPlaying(m)
  <2>1. m \in Players /\ Audible(m) /\ Moves(q, m, {})
    BY <1>1, <1>3, PumpEffect DEF Audible
  <2> HIDE DEF m
  <2>2. /\ r \in Players /\ Audible(r)
        /\ r.queue = m.queue /\ r.ended = m.ended
        /\ r.frames = m.frames /\ r.heard = m.heard
        /\ r.dropped = m.dropped
        /\ (\A u, w \in m.queue : u = w) => Lone(r)
    BY <2>1, ReportEffect
  <2> HIDE DEF r
  <2>3. Moves(p, r, {})
    BY <1>1, <2>1, <2>2 DEF Moves
  <2>4. Lone(p) => Lone(r)
    BY <1>1, <2>1, <2>2 DEF Lone, Moves
  <2>5. DrainCheck(p, t) = r
    BY <1>5 DEF DrainCheck, q, m, r
  <2> QED  BY <2>2, <2>3, <2>4, <2>5
<1> QED  BY <1>4, <1>5

LEMMA StallEffect ==
    ASSUME NEW p \in Players, Audible(p), p.watching # NoTurn
    PROVE  LET r == Stall(p)
           IN  /\ r \in Players /\ Audible(r) /\ Moves(p, r, {})
               /\ Lone(p) => Lone(r)
<1> DEFINE q == [p EXCEPT !.watching = NoTurn]
<1> DEFINE gone == {p.watching}
<1>1. /\ q \in Players
      /\ q.queue = p.queue /\ q.ended = p.ended /\ q.released = p.released
      /\ q.frames = p.frames /\ q.sounding = p.sounding
      /\ q.heard = p.heard /\ q.dropped = p.dropped /\ q.busy = p.busy
  BY DEF Players
<1> HIDE DEF q
<1>2. gone \in SUBSET q.queue
  BY <1>1, OldestFacts DEF Audible
<1>3. Loose(q)
  BY <1>1 DEF Audible, Loose
<1> DEFINE r == Abandon(q, gone)
<1>4. /\ r \in Players /\ Audible(r) /\ Moves(q, r, {})
      /\ /\ \A t, u \in q.queue : t = u
         /\ \A t \in Turns : q.sounding[t] > 0 => q.busy
         /\ \A t \in Turns : q.frames[t] = 0
         => Lone(r)
  BY <1>1, <1>2, <1>3, AbandonEffect
<1>5. Stall(p) = r
  BY <1>2 DEF Stall, Drop, Holds, q
<1> HIDE DEF r
<1>6. Moves(p, r, {})
  BY <1>1, <1>4 DEF Moves
<1>7. Lone(p) => Lone(r)
  BY <1>1, <1>4, LoneFrames DEF Lone
<1> QED  BY <1>4, <1>5, <1>6, <1>7

LEMMA ChunkEffect ==
    ASSUME NEW p \in Players, Audible(p), NEW t \in Turns, p.sounding[t] > 0
    PROVE  LET r == ChunkEnds(p, t)
           IN  /\ r \in Players /\ Audible(r) /\ Moves(p, r, {})
               /\ r.busy = p.busy /\ (Lone(p) => Lone(r))
<1> DEFINE r == ChunkEnds(p, t)
<1>1. /\ r \in Players
      /\ r.queue = p.queue /\ r.ended = p.ended /\ r.released = p.released
      /\ r.frames = p.frames /\ r.heard = p.heard /\ r.dropped = p.dropped
      /\ r.sounding = [p.sounding EXCEPT ![t] = @ - 1]
      /\ r.watching = p.watching /\ r.busy = p.busy
  <2>1. [p.sounding EXCEPT ![t] = @ - 1] \in [Turns -> Nat]
    BY DEF Players
  <2> QED  BY <2>1 DEF ChunkEnds, Players
<1> HIDE DEF r
<1>2. Oldest(r) = Oldest(p)
  BY <1>1 DEF Oldest
<1>3. \A u \in Turns : r.sounding[u] > 0 => p.sounding[u] > 0
  BY <1>1 DEF Players
<1>4. Audible(r)
  BY <1>1, <1>2, <1>3 DEF Audible, Loose
<1>5. Moves(p, r, {})
  BY <1>1 DEF Moves, Audible, Loose
<1> QED  BY <1>1, <1>3, <1>4, <1>5 DEF Lone, r

-----------------------------------------------------------------------------
(***************************************************************************)
(* Starting the turns that wait.                                           *)
(***************************************************************************)

(* Nothing of the pipeline but which turns were asked for.                 *)
SameBut(q, r) ==
    /\ r.turns = q.turns /\ r.named = q.named /\ r.ends = q.ends
    /\ r.pending = q.pending /\ r.reached = q.reached /\ r.shed = q.shed
    /\ r.finished = q.finished /\ r.continues = q.continues
    /\ r.capturing = q.capturing /\ r.cut = q.cut /\ r.retry = q.retry
    /\ r.limit = q.limit /\ r.up = q.up

(* Some turns that waited were asked for.                                  *)
Sends(q, r) ==
    /\ r \in Pipes /\ Phased(r) /\ SameBut(q, r)
    /\ \A t \in Turns :
           \/ r.phase[t] = q.phase[t]
           \/ q.phase[t] = "waiting" /\ r.phase[t] = "handshaking"
    /\ \A i \in DOMAIN r.asked :
           \/ \E j \in DOMAIN q.asked : r.asked[i] = q.asked[j]
           \/ q.phase[r.asked[i]] = "waiting"

LEMMA SendsNothing ==
    ASSUME NEW q \in Pipes, Phased(q)
    PROVE  Sends(q, q)
BY DEF Sends, SameBut

LEMMA SendsMore ==
    ASSUME NEW q \in Pipes, NEW r, NEW s, Sends(q, r), Sends(r, s)
    PROVE  Sends(q, s)
<1>1. SameBut(q, s)
  BY DEF Sends, SameBut
<1>2. \A t \in Turns :
          \/ s.phase[t] = q.phase[t]
          \/ q.phase[t] = "waiting" /\ s.phase[t] = "handshaking"
  BY DEF Sends
<1>3. ASSUME NEW i \in DOMAIN s.asked
      PROVE  \/ \E j \in DOMAIN q.asked : s.asked[i] = q.asked[j]
             \/ q.phase[s.asked[i]] = "waiting"
  <2>1. CASE \E j \in DOMAIN r.asked : s.asked[i] = r.asked[j]
    BY <2>1 DEF Sends
  <2>2. CASE r.phase[s.asked[i]] = "waiting"
    <3>1. s.asked[i] \in Turns
      BY <1>3 DEF Sends, Pipes
    <3> QED  BY <2>2, <3>1 DEF Sends
  <2> QED  BY <2>1, <2>2 DEF Sends
<1> QED  BY <1>1, <1>2, <1>3 DEF Sends

LEMMA TryStartEffect ==
    ASSUME NEW q \in Pipes, Phased(q), NEW t \in Turns
    PROVE  Sends(q, TryStart(q, t))
<1> DEFINE r == TryStart(q, t)
<1>1. CASE ~CanStart(q, t)
  BY <1>1, SendsNothing DEF TryStart
<1>2. CASE CanStart(q, t)
  <2> DEFINE asked == IF q.up THEN Append(q.asked, t) ELSE q.asked
  <2> DEFINE phase == [q.phase EXCEPT ![t] = "handshaking"]
  <2>1. q.phase[t] = "waiting" /\ q.phase \in [Turns -> Phases]
    BY <1>2 DEF CanStart, Pipes
  <2>2. q.asked \in Seq(Turns)
    BY DEF Pipes
  <2>3. phase \in [Turns -> Phases] /\ asked \in Seq(Turns)
    BY <2>1, <2>2 DEF Phases
  <2>4. r = [q EXCEPT !.phase = phase, !.asked = asked]
    BY <1>2 DEF TryStart, Pipes
  <2>5. \A i \in DOMAIN asked :
            \/ i \in DOMAIN q.asked /\ asked[i] = q.asked[i]
            \/ i = Len(q.asked) + 1 /\ asked[i] = t
    BY <2>2
  <2>6. \A i \in DOMAIN q.asked : q.asked[i] # t
    BY <2>1 DEF Phased
  <2> HIDE DEF r, asked
  <2>7. r \in Pipes /\ SameBut(q, r) /\ r.phase = phase /\ r.asked = asked
    BY <2>3, <2>4 DEF Pipes, SameBut
  <2>8. Phased(r)
    <3>1. r.turns = {u \in Turns : r.phase[u] \notin {"none", "gone"}}
      BY <2>1, <2>7 DEF Phased, SameBut
    <3>2. r.capturing # Nobody => r.capturing \in r.turns
      BY <2>7 DEF Phased, SameBut
    <3>3. \A u \in r.named : r.phase[u] \notin {"none", "waiting"}
      BY <2>1, <2>7 DEF Phased, SameBut
    <3>4. \A i \in DOMAIN r.asked :
              /\ r.phase[r.asked[i]] \in {"handshaking", "ending"}
              /\ r.asked[i] \notin r.named
      <4> TAKE i \in DOMAIN r.asked
      <4>1. CASE r.asked[i] = t
        BY <2>1, <2>7, <4>1 DEF Phased, SameBut
      <4>2. CASE r.asked[i] # t
        <5>1. i \in DOMAIN q.asked /\ r.asked[i] = q.asked[i]
          BY <2>5, <2>7, <4>2
        <5>2. q.asked[i] \in Turns
          BY <2>2, <5>1
        <5>3. r.phase[r.asked[i]] = q.phase[q.asked[i]]
          BY <2>1, <2>7, <4>2, <5>1, <5>2
        <5> QED  BY <2>7, <5>1, <5>3 DEF Phased, SameBut
      <4> QED  BY <4>1, <4>2
    <3>5. \A i, j \in DOMAIN r.asked : i # j => r.asked[i] # r.asked[j]
      BY <2>5, <2>6, <2>7 DEF Phased
    <3> QED  BY <3>1, <3>2, <3>3, <3>4, <3>5 DEF Phased
  <2>9. \A u \in Turns : \/ r.phase[u] = q.phase[u]
                         \/ q.phase[u] = "waiting" /\ r.phase[u] = "handshaking"
    BY <2>1, <2>7
  <2>10. \A i \in DOMAIN r.asked :
             \/ \E j \in DOMAIN q.asked : r.asked[i] = q.asked[j]
             \/ q.phase[r.asked[i]] = "waiting"
    BY <2>1, <2>5, <2>7
  <2> QED  BY <2>7, <2>8, <2>9, <2>10 DEF Sends, r
<1> QED  BY <1>1, <1>2

(* startNextWaiting(), which tries every turn.                             *)
LEMMA StartNextEffect ==
    ASSUME NEW q \in Pipes, Phased(q)
    PROVE  Sends(q, StartNextWaiting(q))
<1> DEFINE V == {r \in Pipes : Phased(r)}
<1> DEFINE Round == [nv \in (1 .. MaxTurns) \X V |-> TryStart(nv[2], nv[1])]
<1> DEFINE IsLoop(f) ==
        f = [n \in 0 .. MaxTurns |->
                IF n = 0 THEN q ELSE TryStart(f[n - 1], n)]
<1> DEFINE tried == CHOOSE f : IsLoop(f)
<1>1. \A n \in 1 .. MaxTurns, r \in V : TryStart(r, n) \in V
  BY TryStartEffect DEF Turns, Sends
<1>2. Round \in [(1 .. MaxTurns) \X V -> V]
  <2> HIDE DEF V
  <2> QED  BY <1>1
<1>3. PICK f \in [0 .. MaxTurns -> V] :
          f[0] = q /\ \A n \in 1 .. MaxTurns : f[n] = Round[<<n, f[n - 1]>>]
  <2> HIDE DEF Round
  <2>1. q \in V
    OBVIOUS
  <2> HIDE DEF V
  <2> QED  BY <1>2, <2>1, LoopExists, MaxTurnsIsNat
<1>4. \A n \in 1 .. MaxTurns : f[n] = TryStart(f[n - 1], n)
  <2> TAKE n \in 1 .. MaxTurns
  <2>1. n - 1 \in 0 .. MaxTurns
    BY MaxTurnsIsNat
  <2>2. f[n - 1] \in V
    BY <1>3, <2>1
  <2> HIDE DEF V
  <2> QED  BY <1>3, <2>2
<1>5. IsLoop(f)
  <2> HIDE DEF V, Round
  <2> QED  BY <1>3, <1>4, MaxTurnsIsNat
<1>6. IsLoop(tried)
  <2> HIDE DEF IsLoop
  <2> QED  BY <1>5
<1> HIDE DEF tried
<1> DEFINE S == {n \in 0 .. MaxTurns : Sends(q, tried[n])}
<1>7. 0 \in S
  BY <1>6, SendsNothing, MaxTurnsIsNat
<1>8. ASSUME NEW n \in 1 .. MaxTurns, n - 1 \in S
      PROVE  n \in S
  <2>1. tried[n] = TryStart(tried[n - 1], n)
    BY <1>6, MaxTurnsIsNat
  <2>2. tried[n - 1] \in Pipes /\ Phased(tried[n - 1])
    BY <1>8 DEF Sends
  <2>3. Sends(tried[n - 1], tried[n])
    BY <2>1, <2>2, TryStartEffect DEF Turns
  <2> QED  BY <1>8, <2>3, SendsMore
<1>9. MaxTurns \in S
  <2> HIDE DEF S
  <2> QED  BY <1>7, <1>8, Climb, MaxTurnsIsNat
<1> QED  BY <1>9 DEF StartNextWaiting, tried

-----------------------------------------------------------------------------
(***************************************************************************)
(* What is on its way: audio not yet read, blocks in order.                *)
(***************************************************************************)
LEMMA UnreadIsFinite ==
    ASSUME NEW in \in Seq(Events), NEW t
    PROVE  IsFiniteSet(Unread(in, t)) /\ Cardinality(Unread(in, t)) \in Nat
<1>1. IsFiniteSet(1 .. Len(in)) /\ Unread(in, t) \in SUBSET (1 .. Len(in))
  BY FS_Interval DEF Unread
<1>2. IsFiniteSet(Unread(in, t))
  BY <1>1, FS_Subset
<1> QED  BY <1>2, FS_CardinalityType

LEMMA UnreadMore ==
    ASSUME NEW in \in Seq(Events), NEW e \in Events, NEW t
    PROVE  Cardinality(Unread(Append(in, e), t))
               = IF e = [kind |-> "audio", turn |-> t]
                 THEN Cardinality(Unread(in, t)) + 1
                 ELSE Cardinality(Unread(in, t))
<1> DEFINE audio == [kind |-> "audio", turn |-> t]
<1> DEFINE n == Len(in) + 1
<1> HIDE DEF audio
<1>1. /\ DOMAIN Append(in, e) = DOMAIN in \cup {n} /\ n \notin DOMAIN in
      /\ Append(in, e)[n] = e
      /\ \A i \in DOMAIN in : Append(in, e)[i] = in[i]
  OBVIOUS
<1>2. Unread(Append(in, e), t)
          = IF e = audio THEN Unread(in, t) \cup {n} ELSE Unread(in, t)
  <2>1. Unread(in, t) = {i \in DOMAIN in : in[i] = audio}
    BY DEF Unread, audio
  <2>2. Unread(Append(in, e), t)
            = {i \in DOMAIN Append(in, e) : Append(in, e)[i] = audio}
    BY DEF Unread, audio
  <2> QED  BY <1>1, <2>1, <2>2
<1>3. n \notin Unread(in, t) /\ IsFiniteSet(Unread(in, t))
  BY <1>1, UnreadIsFinite DEF Unread
<1> QED  BY <1>2, <1>3, FS_AddElement DEF audio

LEMMA UnreadLess ==
    ASSUME NEW in \in Seq(Events), in # <<>>, NEW t
    PROVE  Cardinality(Unread(in, t))
               = IF Head(in) = [kind |-> "audio", turn |-> t]
                 THEN Cardinality(Unread(Tail(in), t)) + 1
                 ELSE Cardinality(Unread(Tail(in), t))
<1> DEFINE audio == [kind |-> "audio", turn |-> t]
<1> DEFINE S == Unread(Tail(in), t)
<1> DEFINE T == Unread(in, t) \ {1}
<1>1. /\ Tail(in) \in Seq(Events) /\ Len(Tail(in)) = Len(in) - 1
      /\ \A i \in 1 .. Len(in) - 1 : Tail(in)[i] = in[i + 1]
      /\ Len(in) \in Nat /\ Len(in) >= 1 /\ Head(in) = in[1]
  OBVIOUS
<1>2. S = {i \in 1 .. Len(in) - 1 : in[i + 1] = audio}
  <2>1. S = {i \in 1 .. Len(in) - 1 : Tail(in)[i] = audio}
    BY <1>1 DEF Unread
  <2> HIDE DEF S, audio
  <2> QED  BY <1>1, <2>1
<1>3. T = {i \in 2 .. Len(in) : in[i] = audio}
  BY <1>1 DEF Unread
<1> HIDE DEF S, T, audio
<1>4. ExistsBijection(S, T)
  <2> DEFINE f == [i \in S |-> i + 1]
  <2>1. f \in [S -> T]
    BY <1>1, <1>2, <1>3
  <2>2. IsInjective(f)
    BY <1>2 DEF IsInjective
  <2>3. \A j \in T : \E i \in S : f[i] = j
    <3> TAKE j \in T
    <3>1. j - 1 \in S /\ f[j - 1] = j
      BY <1>1, <1>2, <1>3
    <3> QED  BY <3>1
  <2> HIDE DEF f
  <2>4. f \in Bijection(S, T)
    BY <2>1, <2>2, <2>3 DEF Bijection, Injection, Surjection
  <2> QED  BY <2>4 DEF ExistsBijection
<1>5. IsFiniteSet(S) /\ IsFiniteSet(Unread(in, t))
  BY <1>1, UnreadIsFinite DEF S
<1>6. IsFiniteSet(T) /\ Cardinality(T) = Cardinality(S)
  BY <1>4, <1>5, FS_Bijection
<1>7. Unread(in, t) = IF Head(in) = audio THEN T \cup {1} ELSE T
  BY <1>1 DEF Unread, T, audio
<1>8. 1 \notin T
  BY DEF T
<1> QED  BY <1>6, <1>7, <1>8, FS_AddElement DEF S, audio

LEMMA UnreadNone ==
    ASSUME NEW in, NEW t,
           \A i \in DOMAIN in : in[i] # [kind |-> "audio", turn |-> t]
    PROVE  Cardinality(Unread(in, t)) = 0
<1>1. Unread(in, t) = {}
  BY DEF Unread
<1> QED  BY <1>1, FS_EmptySet

(* One more block than there were.                                         *)
LEMMA OneMoreBlock ==
    ASSUME NEW s \in Seq(Nat), NEW n \in Nat, IsIncreasing(s),
           NEW T, ToSet(s) \cup T = 1 .. n, ToSet(s) \cap T = {}
    PROVE  LET r == Append(s, n + 1)
           IN  /\ IsIncreasing(r) /\ ToSet(r) \cup T = 1 .. (n + 1)
               /\ ToSet(r) \cap T = {}
<1> DEFINE r == Append(s, n + 1)
<1>1. /\ DOMAIN r = 1 .. Len(s) + 1 /\ DOMAIN s = 1 .. Len(s) /\ Len(s) \in Nat
      /\ r[Len(s) + 1] = n + 1 /\ \A i \in 1 .. Len(s) : r[i] = s[i]
  OBVIOUS
<1> HIDE DEF r
<1>2. \A i \in 1 .. Len(s) : s[i] \in 1 .. n
  BY <1>1 DEF ToSet
<1>3. IsIncreasing(r)
  BY <1>1, <1>2 DEF IsIncreasing
<1>4. ToSet(r) = ToSet(s) \cup {n + 1}
  BY <1>1 DEF ToSet
<1>5. n + 1 \notin T
  BY <1>1
<1> QED  BY <1>3, <1>4, <1>5 DEF r

(* What was sent and what is held have no block in common.                 *)
LEMMA SentOrHeld ==
    ASSUME NEW s \in Seq(Nat), NEW k \in Seq(Nat), IsIncreasing(s \o k)
    PROVE  /\ IsIncreasing(s) /\ ToSet(s) \cap ToSet(k) = {}
           /\ ToSet(s \o k) = ToSet(s) \cup ToSet(k)
<1> DEFINE a == s \o k
<1>1. /\ DOMAIN a = 1 .. Len(s) + Len(k) /\ DOMAIN s = 1 .. Len(s)
      /\ DOMAIN k = 1 .. Len(k) /\ Len(s) \in Nat /\ Len(k) \in Nat
      /\ \A i \in 1 .. Len(s) : a[i] = s[i]
      /\ \A i \in 1 .. Len(k) : a[Len(s) + i] = k[i]
      /\ \A i \in DOMAIN a : a[i] \in Nat
  <2>1. a \in Seq(Nat) /\ Len(a) = Len(s) + Len(k)
    OBVIOUS
  <2>2. \A i \in 1 .. Len(s) : a[i] = s[i]
    OBVIOUS
  <2>3. \A i \in 1 .. Len(k) : a[Len(s) + i] = k[i]
    OBVIOUS
  <2> HIDE DEF a
  <2> QED  BY <2>1, <2>2, <2>3
<1>0. IsIncreasing(a)
  OBVIOUS
<1> HIDE DEF a
<1>2. IsIncreasing(s)
  BY <1>0, <1>1 DEF IsIncreasing
<1>3. \A i \in 1 .. Len(s), j \in 1 .. Len(k) : s[i] < k[j]
  <2> TAKE i \in 1 .. Len(s), j \in 1 .. Len(k)
  <2>1. i \in DOMAIN a /\ Len(s) + j \in DOMAIN a /\ i < Len(s) + j
    BY <1>1
  <2>2. a[i] < a[Len(s) + j]
    BY <1>0, <2>1 DEF IsIncreasing
  <2> QED  BY <1>1, <2>2
<1>4. ToSet(s) \cap ToSet(k) = {}
  BY <1>1, <1>3 DEF ToSet
<1>5. ToSet(a) = ToSet(s) \cup ToSet(k)
  <2>1. \A i \in DOMAIN a :
            \/ i \in 1 .. Len(s)
            \/ i - Len(s) \in 1 .. Len(k) /\ i = Len(s) + (i - Len(s))
    BY <1>1
  <2>2. \A i \in DOMAIN a : a[i] \in ToSet(s) \cup ToSet(k)
    <3> TAKE i \in DOMAIN a
    <3>1. CASE i \in 1 .. Len(s)
      BY <1>1, <3>1 DEF ToSet
    <3>2. CASE i - Len(s) \in 1 .. Len(k) /\ i = Len(s) + (i - Len(s))
      <4> DEFINE j == i - Len(s)
      <4>1. j \in DOMAIN k /\ a[i] = k[j]
        BY <1>1, <3>2
      <4> QED  BY <4>1 DEF ToSet
    <3> QED  BY <2>1, <3>1, <3>2
  <2>3. ToSet(a) \subseteq ToSet(s) \cup ToSet(k)
    BY <2>2 DEF ToSet
  <2>4. \A i \in DOMAIN s : s[i] \in ToSet(a)
    BY <1>1 DEF ToSet
  <2>5. \A j \in DOMAIN k : k[j] \in ToSet(a)
    <3> TAKE j \in DOMAIN k
    <3>1. Len(s) + j \in DOMAIN a /\ a[Len(s) + j] = k[j]
      BY <1>1
    <3> QED  BY <3>1 DEF ToSet
  <2> QED  BY <2>3, <2>4, <2>5 DEF ToSet
<1> QED  BY <1>2, <1>4, <1>5 DEF a

-----------------------------------------------------------------------------
(***************************************************************************)
(* The pipeline's operations.                                              *)
(***************************************************************************)

(* The same turns are open, and the same ones forgotten.                   *)
Keeps(q, r) ==
    /\ r \in Pipes /\ r.limit = q.limit /\ r.turns = q.turns
    /\ \A t \in Turns : /\ r.phase[t] = "none" <=> q.phase[t] = "none"
                        /\ r.phase[t] = "gone" <=> q.phase[t] = "gone"
                        /\ Closed(r, t) <=> Closed(q, t)

(* The turns that wait, are asked for or are named anew are ones the       *)
(* server has no more to say of.                                           *)
LEMMA PipedAgain ==
    ASSUME NEW q \in Pipes, NEW r \in Pipes, NEW cap, NEW ncap,
           NEW h \in SUBSET Turns, NEW in \in Seq(Events),
           Piped(q, cap, h, in), Phased(r), Blocks(r, ncap),
           \A t \in Turns : r.phase[t] = "none" <=> q.phase[t] = "none",
           r.turns = q.turns,
           \A t \in Turns :
               r.phase[t] = "waiting" =>
                   q.phase[t] = "waiting" \/ Unknown(t, h, in),
           \A i \in DOMAIN r.asked : Unknown(r.asked[i], h, in),
           \A t \in r.named \ q.named, i \in DOMAIN in :
               in[i].turn = t => in[i].kind \notin {"refused", "ready"}
    PROVE  Piped(r, ncap, h, in)
<1>1. Unopened(r) = Unopened(q)
  BY DEF Unopened
<1>2. InTurn(r)
  BY <1>1 DEF Piped, InTurn
<1>3. \A t \in Turns :
          r.phase[t] \in {"none", "waiting"} => Unknown(t, h, in)
  BY DEF Piped, Wire
<1>4. ASSUME NEW i \in DOMAIN in
      PROVE  /\ in[i].kind = "refused" =>
                    /\ in[i].turn \notin h
                    /\ in[i].turn \notin r.named
                    /\ \A j \in DOMAIN in : in[j].turn = in[i].turn => j = i
             /\ in[i].kind = "ready" =>
                    /\ in[i].turn \notin r.named
                    /\ \A j \in DOMAIN in : in[j].turn = in[i].turn => i <= j
             /\ in[i].kind \in {"completed", "error"} =>
                    /\ in[i].turn \notin h
                    /\ \A j \in DOMAIN in : in[j].turn = in[i].turn => j <= i
  BY <1>4 DEF Piped, Wire
<1>5. Wire(r, h, in)
  BY <1>3, <1>4 DEF Wire
<1>6. Counted(q, h) => Counted(r, h)
  <2> SUFFICES ASSUME Counted(q, h), NEW t \in h
               PROVE  t \in r.turns /\ r.phase[t] # "waiting"
    BY DEF Counted, AtServer, InPhase
  <2>1. t \in q.turns /\ q.phase[t] # "waiting"
    BY DEF Counted, AtServer, InPhase
  <2> QED  BY <2>1 DEF Unknown
<1> QED  BY <1>2, <1>5, <1>6 DEF Piped

LEMMA SameBlocks ==
    ASSUME NEW q, NEW r, NEW cap, Blocks(q, cap),
           r.pending = q.pending, r.reached = q.reached, r.shed = q.shed,
           \A t \in Turns : r.phase[t] = "none" <=> q.phase[t] = "none"
    PROVE  Blocks(r, cap)
BY DEF Blocks, Accounted

(* startNextWaiting() and tryStart().                                      *)
LEMMA SendsEffect ==
    ASSUME NEW q \in Pipes, NEW r, NEW cap,
           NEW h \in SUBSET Turns, NEW in \in Seq(Events),
           Piped(q, cap, h, in), Sends(q, r)
    PROVE  Keeps(q, r) /\ Piped(r, cap, h, in)
<1>1. /\ r \in Pipes /\ Phased(r) /\ r.turns = q.turns /\ r.named = q.named
      /\ r.pending = q.pending /\ r.reached = q.reached /\ r.shed = q.shed
      /\ r.limit = q.limit
  BY DEF Sends, SameBut
<1>2. \A t \in Turns :
          \/ r.phase[t] = q.phase[t]
          \/ q.phase[t] = "waiting" /\ r.phase[t] = "handshaking"
  BY DEF Sends
<1>3. Keeps(q, r)
  BY <1>1, <1>2 DEF Keeps, Closed
<1>4. \A i \in DOMAIN r.asked : Unknown(r.asked[i], h, in)
  <2> TAKE i \in DOMAIN r.asked
  <2>1. r.asked[i] \in Turns
    BY <1>1 DEF Pipes
  <2> QED  BY <2>1 DEF Sends, Piped, Wire
<1>5. Blocks(r, cap)
  BY <1>1, <1>2, SameBlocks DEF Piped
<1>6. Piped(r, cap, h, in)
  BY <1>1, <1>2, <1>4, <1>5, PipedAgain
<1> QED  BY <1>3, <1>6

LEMMA SamePipe ==
    ASSUME NEW q \in Pipes, NEW r \in Pipes, SameBut(q, r),
           r.phase = q.phase, r.asked = q.asked
    PROVE  r = q
<1>1. \A s \in Pipes :
          s = [turns |-> s.turns, phase |-> s.phase, named |-> s.named,
               pending |-> s.pending, finished |-> s.finished,
               continues |-> s.continues, capturing |-> s.capturing,
               cut |-> s.cut, retry |-> s.retry, limit |-> s.limit,
               up |-> s.up, asked |-> s.asked, ends |-> s.ends,
               reached |-> s.reached, shed |-> s.shed]
  BY DEF Pipes
<1> QED  BY <1>1 DEF SameBut

(* A run that stopped starts nothing.                                      *)
LEMMA SendsNoTurns ==
    ASSUME NEW q \in Pipes, NEW r, q = NoTurns(q.limit), Sends(q, r)
    PROVE  r = q
<1>1. q.phase = [t \in Turns |-> "none"] /\ q.asked = <<>>
  BY DEF NoTurns
<1>2. r \in Pipes /\ SameBut(q, r)
  BY DEF Sends
<1>3. \A t \in Turns : r.phase[t] = q.phase[t]
  BY <1>1 DEF Sends
<1>4. r.phase = q.phase
  BY <1>2, <1>3 DEF Pipes
<1>5. r.asked = q.asked
  <2>1. r.asked \in Seq(Turns)
    BY <1>2 DEF Pipes
  <2>2. DOMAIN r.asked = {}
    <3> SUFFICES ASSUME NEW i \in DOMAIN r.asked PROVE FALSE
      OBVIOUS
    <3>1. r.asked[i] \in Turns /\ q.phase[r.asked[i]] # "waiting"
      BY <1>1, <2>1
    <3>2. DOMAIN q.asked = {}
      BY <1>1
    <3> QED  BY <3>1, <3>2 DEF Sends
  <2>3. r.asked # <<>> => 1 \in DOMAIN r.asked
    BY <2>1
  <2> QED  BY <1>1, <2>2, <2>3
<1> QED  BY <1>2, <1>4, <1>5, SamePipe

(* Blocks of turns go out, wait or are shed: the turns stay as they were.  *)
Feeds(q, r) ==
    /\ r \in Pipes /\ r.turns = q.turns /\ r.phase = q.phase
    /\ r.named = q.named /\ r.asked = q.asked /\ r.limit = q.limit
    /\ r.capturing = q.capturing

LEMMA FeedsEffect ==
    ASSUME NEW q \in Pipes, NEW r, NEW cap, NEW ncap,
           NEW h \in SUBSET Turns, NEW in \in Seq(Events),
           Piped(q, cap, h, in), Feeds(q, r), Blocks(r, ncap)
    PROVE  Keeps(q, r) /\ Piped(r, ncap, h, in)
<1>1. Phased(r)
  BY DEF Phased, Piped, Feeds
<1>2. Keeps(q, r)
  BY DEF Keeps, Closed, Feeds
<1>3. \A i \in DOMAIN r.asked : Unknown(r.asked[i], h, in)
  BY DEF Piped, Wire, Feeds
<1>4. /\ r \in Pipes /\ r.turns = q.turns
      /\ \A u \in Turns : r.phase[u] = "none" <=> q.phase[u] = "none"
      /\ \A u \in Turns : r.phase[u] = "waiting" =>
                              q.phase[u] = "waiting" \/ Unknown(u, h, in)
      /\ \A u \in r.named \ q.named, i \in DOMAIN in :
             in[i].turn = u => in[i].kind \notin {"refused", "ready"}
  BY DEF Feeds
<1>5. Piped(r, ncap, h, in)
  BY <1>1, <1>3, <1>4, PipedAgain
<1> QED  BY <1>2, <1>5

LEMMA BlocksOfOne ==
    ASSUME NEW q, NEW r, NEW t \in Turns, NEW cap, NEW ncap,
           Blocks(q, cap), r.phase = q.phase, q.phase[t] # "none",
           \A u \in Turns \ {t} :
               /\ r.reached[u] = q.reached[u] /\ r.pending[u] = q.pending[u]
               /\ r.shed[u] = q.shed[u] /\ ncap[u] = cap[u],
           Accounted(r, t, ncap[t])
    PROVE  Blocks(r, ncap)
<1>1. ASSUME NEW u \in Turns \ {t}
      PROVE  IF r.phase[u] = "none"
             THEN r.reached[u] = <<>> /\ r.pending[u] = <<>> /\ r.shed[u] = {}
             ELSE Accounted(r, u, ncap[u])
  <2>1. r.phase[u] # "none" => Accounted(q, u, cap[u])
    BY <1>1 DEF Blocks
  <2>2. Accounted(q, u, cap[u]) => Accounted(r, u, ncap[u])
    BY <1>1 DEF Accounted
  <2>3. r.phase[u] = "none" =>
            r.reached[u] = <<>> /\ r.pending[u] = <<>> /\ r.shed[u] = {}
    BY <1>1 DEF Blocks
  <2> QED  BY <2>1, <2>2, <2>3
<1> QED  BY <1>1 DEF Blocks

(* One block more of the turn goes out or waits, after all there were.     *)
Extends(q, r, t, n) ==
    /\ Feeds(q, r) /\ r.shed = q.shed
    /\ r.reached[t] \o r.pending[t] = Append(q.reached[t] \o q.pending[t], n)
    /\ \A u \in Turns \ {t} :
           r.reached[u] = q.reached[u] /\ r.pending[u] = q.pending[u]

LEMMA ExtendsEffect ==
    ASSUME NEW q \in Pipes, NEW r, NEW t \in q.turns,
           NEW cap \in [Turns -> Nat],
           NEW h \in SUBSET Turns, NEW in \in Seq(Events),
           Piped(q, cap, h, in), Extends(q, r, t, cap[t] + 1)
    PROVE  /\ Keeps(q, r)
           /\ Piped(r, [cap EXCEPT ![t] = cap[t] + 1], h, in)
<1> DEFINE n == cap[t]
<1> DEFINE ncap == [cap EXCEPT ![t] = n + 1]
<1> DEFINE all == q.reached[t] \o q.pending[t]
<1> DEFINE more == Append(all, n + 1)
<1> DEFINE T == q.shed[t]
<1>1. t \in Turns /\ q.phase[t] # "none" /\ n \in Nat
  BY DEF Piped, Phased
<1>2. all \in Seq(Nat)
  <2>1. q.reached[t] \in Seq(Nat) /\ q.pending[t] \in Seq(Nat)
    BY <1>1 DEF Pipes
  <2> QED  BY <2>1
<1>3. /\ IsIncreasing(all) /\ ToSet(all) \cup T = 1 .. n
      /\ ToSet(all) \cap T = {}
  BY <1>1 DEF Piped, Blocks, Accounted
<1>4. /\ IsIncreasing(more) /\ ToSet(more) \cup T = 1 .. (n + 1)
      /\ ToSet(more) \cap T = {}
  <2> HIDE DEF all, n, T
  <2> QED  BY <1>1, <1>2, <1>3, OneMoreBlock
<1>5. /\ r.reached[t] \o r.pending[t] = more /\ r.shed[t] = T
      /\ ncap[t] = n + 1
  BY <1>1 DEF Extends
<1>6. \A u \in Turns \ {t} :
          /\ r.reached[u] = q.reached[u] /\ r.pending[u] = q.pending[u]
          /\ r.shed[u] = q.shed[u] /\ ncap[u] = cap[u]
  BY <1>1 DEF Extends
<1> HIDE DEF more, n, all, T, ncap
<1>7. Accounted(r, t, ncap[t])
  BY <1>4, <1>5 DEF Accounted
<1>8. Blocks(r, ncap)
  BY <1>1, <1>6, <1>7, BlocksOfOne DEF Piped, Feeds, Extends
<1>9. Keeps(q, r) /\ Piped(r, ncap, h, in)
  BY <1>8, FeedsEffect DEF Extends
<1> QED  BY <1>9 DEF ncap, n

(* pushAudio(): the block is sent after what was held, or held after it.   *)
LEMMA TakeBlockEffect ==
    ASSUME NEW q \in Pipes, NEW t \in q.turns, NEW n \in Nat
    PROVE  Extends(q, TakeBlock(q, t, n), t, n)
<1> DEFINE sent == q.reached[t]
<1> DEFINE kept == q.pending[t]
<1> DEFINE all == sent \o kept
<1> DEFINE more == Append(all, n)
<1> DEFINE r == TakeBlock(q, t, n)
<1>1. /\ t \in Turns /\ sent \in Seq(Nat) /\ kept \in Seq(Nat)
      /\ q.reached \in [Turns -> Seq(Nat)] /\ q.pending \in [Turns -> Seq(Nat)]
  BY DEF Pipes
<1>2. all \in Seq(Nat) /\ more \in Seq(Nat) /\ <<>> \in Seq(Nat)
  <2> HIDE DEF sent, kept
  <2> QED  BY <1>1
<1>3. CASE q.phase[t] = "streaming" /\ t \in q.named /\ q.up
  <2> DEFINE f == FlushPending(q, t)
  <2> DEFINE reached == [q.reached EXCEPT ![t] = more]
  <2> DEFINE pending == [q.pending EXCEPT ![t] = <<>>]
  <2>1. f = [q EXCEPT !.reached = [q.reached EXCEPT ![t] = all],
                      !.pending = pending]
    BY <1>3 DEF FlushPending
  <2>2. f.up /\ f.pending = pending /\ f.reached = [q.reached EXCEPT ![t] = all]
    <3> HIDE DEF f, all, pending
    <3> QED  BY <1>3, <2>1 DEF Pipes
  <2>3. f.pending[t] = <<>> /\ f.reached[t] = all
    BY <1>1, <2>2
  <2>4. r = [f EXCEPT !.reached = [f.reached EXCEPT ![t] = more]]
    <3> HIDE DEF all
    <3> QED  BY <1>3, <2>2, <2>3 DEF TakeBlock, SendAudio
  <2>5. more \o <<>> = more
    <3> HIDE DEF more
    <3> QED  BY <1>2, ConcatEmptySeq
  <2> HIDE DEF f, r
  <2>6. [f.reached EXCEPT ![t] = more] = reached
    <3> HIDE DEF all, more
    <3> QED  BY <1>1, <2>2
  <2> HIDE DEF more, all
  <2>7. /\ reached \in [Turns -> Seq(Nat)] /\ pending \in [Turns -> Seq(Nat)]
        /\ reached[t] = more /\ pending[t] = <<>>
        /\ \A u \in Turns \ {t} :
               reached[u] = q.reached[u] /\ pending[u] = q.pending[u]
    BY <1>1, <1>2
  <2> HIDE DEF reached, pending
  <2>8. r = [q EXCEPT !.reached = reached, !.pending = pending]
    BY <2>1, <2>4, <2>6 DEF Pipes
  <2>9. Feeds(q, r) /\ r.shed = q.shed /\ r.reached = reached
        /\ r.pending = pending
    BY <2>7, <2>8 DEF Feeds, Pipes
  <2>10. r.reached[t] \o r.pending[t] = more
    BY <2>5, <2>7, <2>9
  <2> QED  BY <2>7, <2>9, <2>10 DEF Extends, r, more, all
<1>4. CASE ~(q.phase[t] = "streaming" /\ t \in q.named /\ q.up)
  <2> DEFINE b == Append(kept, n)
  <2> DEFINE pending == [q.pending EXCEPT ![t] = b]
  <2>1. FlushPending(q, t) = q \/ ~(q.phase[t] = "streaming" /\ t \in q.named)
    BY <1>4 DEF FlushPending
  <2>2. r = Hold(q, t, n)
    BY <1>4, <2>1 DEF TakeBlock
  <2>3. r = [q EXCEPT !.pending = pending]
    BY <2>2 DEF Hold
  <2>4. b \in Seq(Nat) /\ sent \o b = more
    <3> HIDE DEF sent, kept
    <3>1. <<n>> \in Seq(Nat) /\ b \in Seq(Nat)
      BY <1>1
    <3>2. b = kept \o <<n>> /\ more = all \o <<n>>
      BY <1>1, <1>2, AppendIsConcat
    <3>3. (sent \o kept) \o <<n>> = sent \o (kept \o <<n>>)
      BY <1>1, <3>1, ConcatAssociative
    <3> QED  BY <3>1, <3>2, <3>3
  <2> HIDE DEF b, r
  <2>5. /\ pending \in [Turns -> Seq(Nat)] /\ pending[t] = b
        /\ \A u \in Turns \ {t} : pending[u] = q.pending[u]
    BY <1>1, <2>4
  <2> HIDE DEF pending
  <2>6. Feeds(q, r) /\ r.shed = q.shed /\ r.reached = q.reached
        /\ r.pending = pending
    BY <2>3, <2>5 DEF Feeds, Pipes
  <2> QED  BY <2>4, <2>5, <2>6 DEF Extends, r
<1> QED  BY <1>3, <1>4

(* Audio discarded is counted as held, and what was sent of it stays sent. *)
LEMMA DiscardEffect ==
    ASSUME NEW q \in Pipes, NEW t \in q.turns, NEW cap,
           NEW h \in SUBSET Turns, NEW in \in Seq(Events),
           Piped(q, cap, h, in)
    PROVE  Keeps(q, Discard(q, t)) /\ Piped(Discard(q, t), cap, h, in)
<1> DEFINE r == Discard(q, t)
<1> DEFINE sent == q.reached[t]
<1> DEFINE kept == q.pending[t]
<1> DEFINE T == q.shed[t]
<1> DEFINE shed == [q.shed EXCEPT ![t] = T \cup ToSet(kept)]
<1> DEFINE pending == [q.pending EXCEPT ![t] = <<>>]
<1>1. /\ t \in Turns /\ q.phase[t] # "none"
      /\ q.pending \in [Turns -> Seq(Nat)] /\ q.shed \in [Turns -> SUBSET Nat]
      /\ sent \in Seq(Nat) /\ kept \in Seq(Nat) /\ T \subseteq Nat
  BY DEF Pipes, Piped, Phased
<1>2. /\ IsIncreasing(sent \o kept) /\ ToSet(sent \o kept) \cup T = 1 .. cap[t]
      /\ ToSet(sent \o kept) \cap T = {}
  BY <1>1 DEF Piped, Blocks, Accounted
<1>3. r = [q EXCEPT !.shed = shed, !.pending = pending]
  BY DEF Discard
<1> HIDE DEF r, sent, kept, T
<1>4. /\ IsIncreasing(sent) /\ ToSet(sent) \cap ToSet(kept) = {}
      /\ ToSet(sent \o kept) = ToSet(sent) \cup ToSet(kept)
      /\ sent \o <<>> = sent
  BY <1>1, <1>2, SentOrHeld, ConcatEmptySeq
<1>5. ToSet(kept) \subseteq Nat
  BY <1>1 DEF ToSet
<1>6. /\ shed \in [Turns -> SUBSET Nat] /\ pending \in [Turns -> Seq(Nat)]
      /\ shed[t] = T \cup ToSet(kept) /\ pending[t] = <<>>
      /\ \A u \in Turns \ {t} :
             shed[u] = q.shed[u] /\ pending[u] = q.pending[u]
  <2>1. T \cup ToSet(kept) \in SUBSET Nat
    BY <1>1, <1>5
  <2>2. <<>> \in Seq(Nat)
    OBVIOUS
  <2> QED  BY <1>1, <2>1, <2>2
<1> HIDE DEF shed, pending
<1>7. /\ Feeds(q, r) /\ r.shed = shed /\ r.pending = pending
      /\ r.reached = q.reached
  BY <1>3, <1>6 DEF Feeds, Pipes
<1>8. Accounted(r, t, cap[t])
  <2>1. r.reached[t] \o r.pending[t] = sent /\ r.shed[t] = T \cup ToSet(kept)
    BY <1>4, <1>6, <1>7 DEF sent
  <2>2. ToSet(sent) \cup (T \cup ToSet(kept)) = 1 .. cap[t]
        /\ ToSet(sent) \cap (T \cup ToSet(kept)) = {}
    BY <1>2, <1>4
  <2> QED  BY <1>4, <2>1, <2>2 DEF Accounted
<1>9. Blocks(r, cap)
  BY <1>1, <1>6, <1>7, <1>8, BlocksOfOne DEF Piped, Feeds
<1> QED  BY <1>7, <1>9, FeedsEffect DEF r

LEMMA EndSessionEffect ==
    ASSUME NEW q \in Pipes, NEW t \in Turns
    PROVE  LET r == EndSession(q, t)
           IN  /\ r \in Pipes /\ r.turns = q.turns
               /\ r.named = q.named /\ r.asked = q.asked /\ r.limit = q.limit
               /\ r.pending = q.pending /\ r.reached = q.reached
               /\ r.shed = q.shed /\ r.capturing = q.capturing
               /\ r.phase = [q.phase EXCEPT ![t] = "ending"]
<1> DEFINE r == EndSession(q, t)
<1> DEFINE phase == [q.phase EXCEPT ![t] = "ending"]
<1> DEFINE ends == IF t \in q.named /\ q.up THEN q.ends \cup {t} ELSE q.ends
<1>1. phase \in [Turns -> Phases]
  BY DEF Pipes, Phases
<1>2. r = [q EXCEPT !.phase = phase, !.ends = ends]
  BY DEF EndSession
<1>3. ends \subseteq Turns
  BY DEF Pipes
<1>4. /\ r \in Pipes /\ r.turns = q.turns
      /\ r.named = q.named /\ r.asked = q.asked /\ r.limit = q.limit
      /\ r.pending = q.pending /\ r.reached = q.reached
      /\ r.shed = q.shed /\ r.capturing = q.capturing
      /\ r.phase = phase
  <2> HIDE DEF r, ends, phase
  <2> QED  BY <1>1, <1>2, <1>3 DEF Pipes
<1> QED  BY <1>4

LEMMA CloseCapturedEffect ==
    ASSUME NEW q \in Pipes, NEW cutForced \in BOOLEAN, NEW cap,
           NEW h \in SUBSET Turns, NEW in \in Seq(Events),
           Piped(q, cap, h, in)
    PROVE  LET r == CloseCaptured(q, cutForced)
           IN  Keeps(q, r) /\ Piped(r, cap, h, in)
<1> DEFINE t == q.capturing
<1> DEFINE r == CloseCaptured(q, cutForced)
<1> DEFINE c == [q EXCEPT !.capturing = Nobody, !.finished = @ \cup {t},
                          !.cut = cutForced]
<1>1. CASE t = Nobody
  <2>1. r = q
    BY <1>1 DEF CloseCaptured
  <2> QED  BY <2>1 DEF Keeps
<1>2. CASE t # Nobody
  <2>1. t \in q.turns /\ t \in Turns /\ q.phase[t] \notin {"none", "gone"}
    BY <1>2 DEF Piped, Phased
  <2>2. /\ c \in Pipes /\ c.turns = q.turns /\ c.phase = q.phase
        /\ c.named = q.named /\ c.asked = q.asked /\ c.limit = q.limit
        /\ c.pending = q.pending /\ c.reached = q.reached /\ c.shed = q.shed
        /\ c.capturing = Nobody /\ c.ends = q.ends /\ c.up = q.up
    BY <2>1 DEF Pipes, Nobody
  <2>3. CASE q.phase[t] = "waiting"
    <3>1. r = c
      BY <1>2, <2>3 DEF CloseCaptured
    <3>2. Phased(c)
      BY <2>2 DEF Piped, Phased
    <3> HIDE DEF c
    <3>3. Blocks(c, cap)
      BY <2>2, SameBlocks DEF Piped
    <3>4. \A i \in DOMAIN c.asked : Unknown(c.asked[i], h, in)
      BY <2>2 DEF Piped, Wire
    <3>5. Piped(c, cap, h, in)
      BY <2>2, <3>2, <3>3, <3>4, PipedAgain
    <3> QED  BY <2>2, <3>1, <3>5 DEF Keeps, Closed
  <2>4. CASE q.phase[t] # "waiting"
    <3> DEFINE phase == [q.phase EXCEPT ![t] = "ending"]
    <3>1. r = EndSession(c, t)
      BY <1>2, <2>4 DEF CloseCaptured
    <3> HIDE DEF c
    <3>2. phase \in [Turns -> Phases]
      BY <2>1 DEF Pipes, Phases
    <3>3. /\ r \in Pipes /\ r.turns = q.turns /\ r.phase = phase
          /\ r.named = q.named /\ r.asked = q.asked /\ r.limit = q.limit
          /\ r.pending = q.pending /\ r.reached = q.reached
          /\ r.shed = q.shed /\ r.capturing = Nobody
      <4>1. /\ r \in Pipes /\ r.turns = c.turns
            /\ r.named = c.named /\ r.asked = c.asked /\ r.limit = c.limit
            /\ r.pending = c.pending /\ r.reached = c.reached
            /\ r.shed = c.shed /\ r.capturing = c.capturing
            /\ r.phase = [c.phase EXCEPT ![t] = "ending"]
        BY <2>1, <2>2, <3>1, EndSessionEffect
      <4> QED  BY <2>2, <4>1
    <3> HIDE DEF r
    <3>4. \A u \in Turns : u # t => r.phase[u] = q.phase[u]
      BY <3>3 DEF Pipes
    <3>5. r.phase[t] = "ending"
      BY <2>1, <3>3 DEF Pipes
    <3> HIDE DEF phase
    <3>6. Phased(r)
      <4>1. r.turns = {u \in Turns : r.phase[u] \notin {"none", "gone"}}
        BY <2>1, <3>3, <3>4, <3>5 DEF Piped, Phased
      <4>2. \A u \in r.named : r.phase[u] \notin {"none", "waiting"}
        BY <3>3, <3>4, <3>5 DEF Piped, Phased, Pipes
      <4>3. \A i \in DOMAIN r.asked :
                /\ r.phase[r.asked[i]] \in {"handshaking", "ending"}
                /\ r.asked[i] \notin r.named
        <5> TAKE i \in DOMAIN r.asked
        <5>1. r.asked[i] \in Turns
          BY <3>3 DEF Pipes
        <5> QED  BY <3>3, <3>4, <3>5, <5>1 DEF Piped, Phased
      <4> QED  BY <3>3, <4>1, <4>2, <4>3 DEF Piped, Phased
    <3>7. \A u \in Turns : /\ r.phase[u] = "none" <=> q.phase[u] = "none"
                           /\ r.phase[u] = "gone" <=> q.phase[u] = "gone"
                           /\ r.phase[u] = "waiting" => q.phase[u] = "waiting"
      BY <2>1, <3>4, <3>5
    <3>8. Blocks(r, cap)
      BY <3>3, <3>7, SameBlocks DEF Piped
    <3>9. \A i \in DOMAIN r.asked : Unknown(r.asked[i], h, in)
      BY <3>3 DEF Piped, Wire
    <3>10. Piped(r, cap, h, in)
      BY <3>3, <3>6, <3>7, <3>8, <3>9, PipedAgain
    <3> QED  BY <3>3, <3>7, <3>10 DEF Keeps, Closed, r
  <2> QED  BY <2>3, <2>4
<1> QED  BY <1>1, <1>2

LEMMA FlushEffect ==
    ASSUME NEW q \in Pipes, NEW t \in Turns
    PROVE  LET r == FlushPending(q, t)
           IN  /\ Feeds(q, r) /\ r.shed = q.shed
               /\ r.reached[t] \o r.pending[t] = q.reached[t] \o q.pending[t]
               /\ \A u \in Turns \ {t} : /\ r.reached[u] = q.reached[u]
                                         /\ r.pending[u] = q.pending[u]
<1> DEFINE r == FlushPending(q, t)
<1> DEFINE all == q.reached[t] \o q.pending[t]
<1> DEFINE reached == [q.reached EXCEPT ![t] = all]
<1> DEFINE pending == [q.pending EXCEPT ![t] = <<>>]
<1>1. CASE ~(t \in q.named /\ q.up)
  <2>1. r = q
    BY <1>1 DEF FlushPending
  <2> QED  BY <2>1 DEF Feeds
<1>2. CASE t \in q.named /\ q.up
  <2>1. r = [q EXCEPT !.reached = reached, !.pending = pending]
    BY <1>2 DEF FlushPending
  <2>2. all \in Seq(Nat)
    <3>1. q.reached[t] \in Seq(Nat) /\ q.pending[t] \in Seq(Nat)
      BY DEF Pipes
    <3> QED  BY <3>1
  <2>3. <<>> \in Seq(Nat) /\ all \o <<>> = all
    <3> HIDE DEF all
    <3> QED  BY <2>2, ConcatEmptySeq
  <2> HIDE DEF r, all
  <2>4. /\ reached \in [Turns -> Seq(Nat)] /\ pending \in [Turns -> Seq(Nat)]
        /\ reached[t] = all /\ pending[t] = <<>>
        /\ \A u \in Turns \ {t} :
               reached[u] = q.reached[u] /\ pending[u] = q.pending[u]
    BY <2>2, <2>3 DEF Pipes
  <2> HIDE DEF reached, pending
  <2>5. /\ Feeds(q, r) /\ r.shed = q.shed
        /\ r.reached = reached /\ r.pending = pending
    BY <2>1, <2>4 DEF Feeds, Pipes
  <2>6. r.reached[t] \o r.pending[t] = all
    BY <2>3, <2>4, <2>5
  <2> QED  BY <2>4, <2>5, <2>6 DEF r, all
<1> QED  BY <1>1, <1>2

(* onReady(): the start was answered, and nothing more is said of it.      *)
LEMMA OnReadyEffect ==
    ASSUME NEW q \in Pipes, NEW t \in Turns, NEW cap,
           NEW h \in SUBSET Turns, NEW in \in Seq(Events),
           Piped(q, cap, h, in), q.phase[t] # "waiting",
           \A i \in DOMAIN q.asked : q.asked[i] # t,
           \A i \in DOMAIN in :
               in[i].turn = t => in[i].kind \notin {"refused", "ready"}
    PROVE  LET r == OnReady(q, t) IN Keeps(q, r) /\ Piped(r, cap, h, in)
<1> DEFINE r == OnReady(q, t)
<1>1. CASE q.phase[t] \in {"none", "gone"}
  <2>1. r = q
    BY <1>1 DEF OnReady
  <2> QED  BY <2>1 DEF Keeps
<1>2. CASE q.phase[t] \notin {"none", "gone"}
  <2> DEFINE ph == IF q.phase[t] = "handshaking" THEN "streaming"
                   ELSE q.phase[t]
  <2> DEFINE named == [q EXCEPT !.named = @ \cup {t},
                                !.phase[t] = IF @ = "handshaking"
                                             THEN "streaming" ELSE @]
  <2> DEFINE flushed == FlushPending(named, t)
  <2>1. ph \in {"streaming", "ending"}
    BY <1>2 DEF Pipes, Phases
  <2>2. /\ named \in Pipes /\ named.turns = q.turns
        /\ named.phase = [q.phase EXCEPT ![t] = ph]
        /\ named.named = q.named \cup {t} /\ named.asked = q.asked
        /\ named.pending = q.pending /\ named.reached = q.reached
        /\ named.shed = q.shed /\ named.capturing = q.capturing
        /\ named.limit = q.limit /\ named.finished = q.finished
    <3> DEFINE phase == [q.phase EXCEPT ![t] = ph]
    <3>1. phase \in [Turns -> Phases]
      BY <2>1 DEF Pipes, Phases
    <3>2. named = [q EXCEPT !.named = @ \cup {t}, !.phase = phase]
      BY DEF Pipes
    <3> HIDE DEF named, phase
    <3> QED  BY <3>1, <3>2 DEF Pipes, phase
  <2> HIDE DEF named
  <2>3. /\ Feeds(named, flushed) /\ flushed.shed = named.shed
        /\ flushed.reached[t] \o flushed.pending[t]
               = named.reached[t] \o named.pending[t]
        /\ \A u \in Turns \ {t} : /\ flushed.reached[u] = named.reached[u]
                                  /\ flushed.pending[u] = named.pending[u]
    BY <2>2, FlushEffect
  <2>4. r = IF t \in q.finished THEN EndSession(flushed, t) ELSE flushed
    BY <1>2 DEF OnReady, named
  <2> HIDE DEF flushed, r
  <2>5. /\ r \in Pipes /\ r.turns = q.turns /\ r.named = q.named \cup {t}
        /\ r.asked = q.asked /\ r.limit = q.limit
        /\ r.capturing = q.capturing /\ r.shed = q.shed
        /\ r.reached = flushed.reached /\ r.pending = flushed.pending
        /\ r.phase[t] \in {"streaming", "ending"}
        /\ \A u \in Turns \ {t} : r.phase[u] = q.phase[u]
    <3>1. CASE t \in q.finished
      <4>1. /\ r \in Pipes /\ r.turns = flushed.turns
            /\ r.named = flushed.named /\ r.asked = flushed.asked
            /\ r.limit = flushed.limit /\ r.pending = flushed.pending
            /\ r.reached = flushed.reached
            /\ r.shed = flushed.shed /\ r.capturing = flushed.capturing
            /\ r.phase = [flushed.phase EXCEPT ![t] = "ending"]
        BY <2>3, <2>4, <3>1, EndSessionEffect DEF Feeds
      <4> QED  BY <2>2, <2>3, <4>1 DEF Feeds, Pipes
    <3>2. CASE t \notin q.finished
      <4> HIDE DEF ph
      <4>1. flushed.phase = [q.phase EXCEPT ![t] = ph]
        BY <2>2, <2>3 DEF Feeds
      <4>2. DOMAIN q.phase = Turns
        BY DEF Pipes
      <4> QED  BY <2>1, <2>2, <2>3, <2>4, <3>2, <4>1, <4>2 DEF Feeds
    <3> QED  BY <3>1, <3>2
  <2>6. \A u \in Turns : /\ r.phase[u] = "none" <=> q.phase[u] = "none"
                         /\ r.phase[u] = "gone" <=> q.phase[u] = "gone"
                         /\ r.phase[u] = "waiting" => q.phase[u] = "waiting"
    BY <1>2, <2>5
  <2>7. Phased(r)
    <3>1. r.turns = {u \in Turns : r.phase[u] \notin {"none", "gone"}}
      BY <2>5, <2>6 DEF Piped, Phased
    <3>2. \A u \in r.named : r.phase[u] \notin {"none", "waiting"}
      BY <2>5 DEF Piped, Phased, Pipes
    <3>3. \A i \in DOMAIN r.asked :
              /\ r.phase[r.asked[i]] \in {"handshaking", "ending"}
              /\ r.asked[i] \notin r.named
      <4> TAKE i \in DOMAIN r.asked
      <4>1. r.asked[i] \in Turns /\ r.asked[i] # t
        BY <2>5 DEF Pipes
      <4> QED  BY <2>5, <4>1 DEF Piped, Phased
    <3> QED  BY <2>5, <3>1, <3>2, <3>3 DEF Piped, Phased
  <2>8. Blocks(r, cap)
    <3>1. \A u \in Turns :
              /\ r.reached[u] \o r.pending[u] = q.reached[u] \o q.pending[u]
              /\ r.shed[u] = q.shed[u]
      <4> TAKE u \in Turns
      <4>1. CASE u = t
        BY <2>2, <2>3, <2>5, <4>1
      <4>2. CASE u # t
        <5>1. r.reached[u] = q.reached[u] /\ r.pending[u] = q.pending[u]
          BY <2>2, <2>3, <2>5, <4>2
        <5> QED  BY <2>2, <2>3, <2>5, <5>1 DEF Feeds
      <4> QED  BY <4>1, <4>2
    <3>2. \A u \in Turns \ {t} : /\ r.reached[u] = q.reached[u]
                                 /\ r.pending[u] = q.pending[u]
      BY <2>2, <2>3, <2>5
    <3>3. \A u \in Turns : Accounted(q, u, cap[u]) => Accounted(r, u, cap[u])
      BY <3>1 DEF Accounted
    <3> QED  BY <1>2, <2>6, <3>1, <3>2, <3>3 DEF Piped, Blocks
  <2>9. \A i \in DOMAIN r.asked : Unknown(r.asked[i], h, in)
    BY <2>5 DEF Piped, Wire
  <2>10. Piped(r, cap, h, in)
    BY <2>5, <2>6, <2>7, <2>8, <2>9, PipedAgain
  <2>11. Keeps(q, r)
    BY <1>2, <2>5, <2>6 DEF Keeps, Closed
  <2> QED  BY <2>10, <2>11 DEF r
<1> QED  BY <1>1, <1>2

(* A start refused waits again: nothing of the turn is left to come.       *)
WaitsAgain(q, t, retry) == [q EXCEPT !.phase[t] = "waiting", !.retry = retry]

LEMMA WaitAgainEffect ==
    ASSUME NEW q \in Pipes, NEW t \in q.turns, NEW cap,
           NEW h \in SUBSET Turns, NEW in \in Seq(Events),
           Piped(q, cap, h, in), t \notin q.named, Unknown(t, h, in),
           \A i \in DOMAIN q.asked : q.asked[i] # t,
           NEW retry \in BOOLEAN
    PROVE  LET r == WaitsAgain(q, t, retry)
           IN  Keeps(q, r) /\ Piped(r, cap, h, in) /\ r.phase[t] = "waiting"
<1> DEFINE r == WaitsAgain(q, t, retry)
<1>1. t \in Turns /\ q.phase[t] \notin {"none", "gone"}
  BY DEF Piped, Phased
<1> DEFINE phase == [q.phase EXCEPT ![t] = "waiting"]
<1>2. /\ phase \in [Turns -> Phases] /\ phase[t] = "waiting"
      /\ \A u \in Turns \ {t} : phase[u] = q.phase[u]
  BY <1>1 DEF Pipes, Phases
<1> HIDE DEF phase
<1>3. /\ r \in Pipes /\ r.turns = q.turns /\ r.phase = phase
      /\ r.named = q.named /\ r.asked = q.asked /\ r.limit = q.limit
      /\ r.pending = q.pending /\ r.reached = q.reached
      /\ r.shed = q.shed /\ r.capturing = q.capturing
  <2>1. r = [q EXCEPT !.phase = phase, !.retry = retry]
    BY DEF phase, WaitsAgain
  <2> HIDE DEF r
  <2> QED  BY <1>2, <2>1 DEF Pipes
<1> HIDE DEF r
<1>4. Phased(r)
  <2>1. r.turns = {u \in Turns : r.phase[u] \notin {"none", "gone"}}
    BY <1>1, <1>2, <1>3 DEF Piped, Phased
  <2>2. \A u \in r.named : r.phase[u] \notin {"none", "waiting"}
    <3> TAKE u \in r.named
    <3>1. u # t /\ u \in Turns
      BY <1>3 DEF Pipes
    <3> QED  BY <1>2, <1>3, <3>1 DEF Piped, Phased
  <2>3. \A i \in DOMAIN r.asked :
            /\ r.phase[r.asked[i]] \in {"handshaking", "ending"}
            /\ r.asked[i] \notin r.named
    <3> TAKE i \in DOMAIN r.asked
    <3>1. r.asked[i] \in Turns /\ r.asked[i] # t
      BY <1>3 DEF Pipes
    <3> QED  BY <1>2, <1>3, <3>1 DEF Piped, Phased
  <2> QED  BY <1>3, <2>1, <2>2, <2>3 DEF Piped, Phased
<1>5. \A u \in Turns : /\ r.phase[u] = "none" <=> q.phase[u] = "none"
                       /\ r.phase[u] = "gone" <=> q.phase[u] = "gone"
                       /\ r.phase[u] = "waiting" =>
                              q.phase[u] = "waiting" \/ Unknown(u, h, in)
  BY <1>1, <1>2, <1>3
<1>6. Blocks(r, cap)
  <2>1. Blocks(q, cap) /\ \A u \in Turns : r.phase[u] = "none" <=> q.phase[u] = "none"
    BY <1>5 DEF Piped
  <2> QED  BY <1>3, <2>1, SameBlocks
<1>7. \A i \in DOMAIN r.asked : Unknown(r.asked[i], h, in)
  BY <1>3 DEF Piped, Wire
<1>8. Piped(r, cap, h, in)
  <2>1. \A u \in r.named \ q.named, i \in DOMAIN in :
            in[i].turn = u => in[i].kind \notin {"refused", "ready"}
    BY <1>3
  <2>2. /\ \A u \in Turns : r.phase[u] = "none" <=> q.phase[u] = "none"
        /\ \A u \in Turns : r.phase[u] = "waiting" =>
                                q.phase[u] = "waiting" \/ Unknown(u, h, in)
    BY <1>5
  <2>3. r \in Pipes /\ r.turns = q.turns
    BY <1>3
  <2> QED  BY <1>4, <1>6, <1>7, <2>1, <2>2, <2>3, PipedAgain
<1>9. Keeps(q, r)
  BY <1>3, <1>5 DEF Keeps, Closed
<1> QED  BY <1>2, <1>3, <1>8, <1>9 DEF r

(* The retry timer and the socket's state say nothing of the turns.        *)
SetAside(q, retry, up) == [q EXCEPT !.retry = retry, !.up = up]

LEMMA AsideEffect ==
    ASSUME NEW q \in Pipes, NEW cap,
           NEW h \in SUBSET Turns, NEW in \in Seq(Events),
           Piped(q, cap, h, in), NEW retry \in BOOLEAN, NEW up \in BOOLEAN
    PROVE  LET r == SetAside(q, retry, up)
           IN  Keeps(q, r) /\ Piped(r, cap, h, in)
<1> DEFINE r == SetAside(q, retry, up)
<1> USE DEF SetAside
<1>1. /\ Feeds(q, r) /\ r.pending = q.pending /\ r.reached = q.reached
      /\ r.shed = q.shed
  BY DEF Feeds, Pipes
<1> HIDE DEF r
<1>2. Blocks(r, cap)
  <2>1. Blocks(q, cap) /\ \A u \in Turns : r.phase[u] = "none" <=> q.phase[u] = "none"
    BY <1>1 DEF Piped, Feeds
  <2> QED  BY <1>1, <2>1, SameBlocks
<1> QED  BY <1>1, <1>2, FeedsEffect DEF r

(* A turn forgotten: no start of it is asked for, and the server has none  *)
(* unless it faulted it.                                                   *)
LEMMA EvictEffect ==
    ASSUME NEW q \in Pipes, NEW t \in q.turns, NEW cap,
           NEW h \in SUBSET Turns, NEW in \in Seq(Events),
           Piped(q, cap, h, in), mode.faults = 0 => t \notin h,
           \A i \in DOMAIN q.asked : q.asked[i] # t
    PROVE  LET r == Evict(q, t)
           IN  /\ r \in Pipes /\ r.turns = q.turns \ {t} /\ r.limit = q.limit
               /\ r.named = q.named /\ r.phase[t] = "gone"
               /\ \A u \in Turns \ {t} : r.phase[u] = q.phase[u]
               /\ Piped(r, cap, h, in)
<1> DEFINE r == Evict(q, t)
<1> DEFINE phase == [q.phase EXCEPT ![t] = "gone"]
<1> DEFINE cp == IF q.capturing = t THEN Nobody ELSE q.capturing
<1>1. t \in Turns /\ q.phase[t] \notin {"none", "gone"}
  BY DEF Piped, Phased
<1>2. /\ phase \in [Turns -> Phases] /\ phase[t] = "gone"
      /\ \A u \in Turns \ {t} : phase[u] = q.phase[u]
  BY <1>1 DEF Pipes, Phases
<1>3. cp \in Turns \cup {Nobody} /\ cp # t
  BY <1>1, MaxTurnsIsNat DEF Pipes, Turns, Nobody
<1>4. r = [q EXCEPT !.turns = @ \ {t}, !.phase = phase, !.capturing = cp]
  BY DEF Evict
<1> HIDE DEF r, phase
<1>5. /\ r \in Pipes /\ r.turns = q.turns \ {t} /\ r.phase = phase
      /\ r.named = q.named /\ r.asked = q.asked /\ r.limit = q.limit
      /\ r.pending = q.pending /\ r.reached = q.reached
      /\ r.shed = q.shed /\ r.capturing = cp
  <2> HIDE DEF cp
  <2> QED  BY <1>2, <1>3, <1>4 DEF Pipes
<1>6. Phased(r)
  <2>1. r.turns = {u \in Turns : r.phase[u] \notin {"none", "gone"}}
    BY <1>1, <1>2, <1>5 DEF Piped, Phased
  <2>2. \A u \in r.named : r.phase[u] \notin {"none", "waiting"}
    <3> TAKE u \in r.named
    <3>1. u \in Turns
      BY <1>5 DEF Pipes
    <3> QED  BY <1>2, <1>5, <3>1 DEF Piped, Phased
  <2>3. \A i \in DOMAIN r.asked :
            /\ r.phase[r.asked[i]] \in {"handshaking", "ending"}
            /\ r.asked[i] \notin r.named
    <3> TAKE i \in DOMAIN r.asked
    <3>1. r.asked[i] \in Turns /\ r.asked[i] # t
      BY <1>5 DEF Pipes
    <3> QED  BY <1>2, <1>5, <3>1 DEF Piped, Phased
  <2>4. r.capturing # Nobody => r.capturing \in r.turns
    BY <1>3, <1>5 DEF Piped, Phased
  <2> QED  BY <1>5, <2>1, <2>2, <2>3, <2>4 DEF Piped, Phased
<1>7. \A u \in Turns : r.phase[u] = "none" <=> q.phase[u] = "none"
  BY <1>1, <1>2, <1>5
<1>8. Unopened(r) = Unopened(q)
  BY <1>7 DEF Unopened
<1>9. InTurn(r)
  BY <1>8 DEF Piped, InTurn
<1>10. Wire(r, h, in)
  <2>1. \A u \in Turns :
            r.phase[u] \in {"none", "waiting"} => Unknown(u, h, in)
    BY <1>2, <1>5 DEF Piped, Wire
  <2>2. \A i \in DOMAIN r.asked : Unknown(r.asked[i], h, in)
    BY <1>5 DEF Piped, Wire
  <2> QED  BY <1>5, <2>1, <2>2 DEF Piped, Wire
<1>11. Blocks(r, cap)
  BY <1>5, <1>7, SameBlocks DEF Piped
<1>12. mode.faults = 0 => NoFaults(in) /\ Counted(r, h)
  <2> SUFFICES ASSUME mode.faults = 0, NEW u \in h
               PROVE  u \in r.turns /\ r.phase[u] # "waiting"
    BY DEF Piped, Counted, AtServer, InPhase
  <2>1. u \in q.turns /\ q.phase[u] # "waiting" /\ u # t
    BY DEF Piped, Counted, AtServer, InPhase
  <2> QED  BY <1>2, <1>5, <2>1
<1>13. Piped(r, cap, h, in)
  BY <1>6, <1>9, <1>10, <1>11, <1>12 DEF Piped
<1> QED  BY <1>2, <1>5, <1>13 DEF r

(* openTurn(): the next turn, with one block.                              *)
FirstBlock(cap, t) == [cap EXCEPT ![t] = 1]

(* t is the next turn to be opened.                                        *)
IsNext(q, t) ==
    /\ t \in Turns
    /\ \E n \in 0 .. MaxTurns : Turns \ Unopened(q) = 1 .. n /\ t = n + 1

Claims(q, r, t) ==
    /\ r \in Pipes /\ r.turns = q.turns \cup {t}
    /\ r.limit = q.limit /\ r.named = q.named
    /\ q.phase[t] = "none" /\ r.phase[t] = "waiting"
    /\ \A u \in Turns \ {t} : r.phase[u] = q.phase[u]

LEMMA ClaimEffect ==
    ASSUME NEW q \in Pipes, NEW t, IsNext(q, t), NEW soon \in BOOLEAN, NEW cap \in [Turns -> Nat],
           NEW h \in SUBSET Turns, NEW in \in Seq(Events),
           Piped(q, cap, h, in)
    PROVE  LET r == Claim(q, t, soon)
           IN  Claims(q, r, t) /\ Piped(r, FirstBlock(cap, t), h, in)
<1> DEFINE r == Claim(q, t, soon)
<1> DEFINE ncap == FirstBlock(cap, t)
<1> DEFINE phase == [q.phase EXCEPT ![t] = "waiting"]
<1> DEFINE pending == [q.pending EXCEPT ![t] = <<1>>]
<1> DEFINE cont == IF q.cut /\ soon THEN q.continues \cup {t} ELSE q.continues
<1>0. PICK n \in 0 .. MaxTurns : Turns \ Unopened(q) = 1 .. n /\ t = n + 1
  BY DEF IsNext
<1>1. t \in Turns /\ n \in Nat /\ t \notin 1 .. n
  BY <1>0, MaxTurnsIsNat DEF IsNext
<1>2. q.phase[t] = "none"
  BY <1>0, <1>1 DEF Unopened
<1>3. q.reached[t] = <<>> /\ q.pending[t] = <<>> /\ q.shed[t] = {}
  BY <1>1, <1>2 DEF Piped, Blocks
<1>4. /\ phase \in [Turns -> Phases] /\ phase[t] = "waiting"
      /\ \A u \in Turns \ {t} : phase[u] = q.phase[u]
  BY <1>1 DEF Pipes, Phases
<1>5. <<1>> \in Seq(Nat) /\ Append(<<>>, 1) = <<1>>
  OBVIOUS
<1>6. /\ pending \in [Turns -> Seq(Nat)] /\ pending[t] = <<1>>
      /\ \A u \in Turns \ {t} : pending[u] = q.pending[u]
  BY <1>1, <1>5 DEF Pipes
<1>7. cont \in SUBSET Turns
  BY <1>1 DEF Pipes
<1> DEFINE claimed == [q EXCEPT !.turns = @ \cup {t}, !.phase = phase,
                                !.continues = cont, !.capturing = t]
<1>8. r = Hold(claimed, t, 1)
  BY DEF Claim
<1> HIDE DEF r, phase, cont
<1>9. claimed.pending = q.pending
  BY DEF Pipes
<1>10. r = [claimed EXCEPT !.pending = pending]
  <2>1. Append(claimed.pending[t], 1) = <<1>>
    BY <1>3, <1>5, <1>9
  <2>2. r = [claimed EXCEPT !.pending =
                [claimed.pending EXCEPT ![t] = Append(claimed.pending[t], 1)]]
    BY <1>8 DEF Hold
  <2> HIDE DEF claimed
  <2> QED  BY <1>9, <2>1, <2>2
<1> HIDE DEF pending
<1>11. /\ r \in Pipes /\ r.turns = q.turns \cup {t} /\ r.phase = phase
       /\ r.named = q.named /\ r.asked = q.asked /\ r.limit = q.limit
       /\ r.pending = pending /\ r.reached = q.reached
       /\ r.shed = q.shed /\ r.capturing = t
  BY <1>1, <1>4, <1>6, <1>7, <1>10 DEF Pipes
<1> HIDE DEF claimed
<1>12. Phased(r)
  <2>1. r.turns = {u \in Turns : r.phase[u] \notin {"none", "gone"}}
    BY <1>1, <1>4, <1>11 DEF Piped, Phased
  <2>2. \A u \in r.named : r.phase[u] \notin {"none", "waiting"}
    <3> TAKE u \in r.named
    <3>1. u \in Turns /\ u # t
      BY <1>2, <1>11 DEF Pipes, Piped, Phased
    <3> QED  BY <1>4, <1>11, <3>1 DEF Piped, Phased
  <2>3. \A i \in DOMAIN r.asked :
            /\ r.phase[r.asked[i]] \in {"handshaking", "ending"}
            /\ r.asked[i] \notin r.named
    <3> TAKE i \in DOMAIN r.asked
    <3>1. r.asked[i] \in Turns
      BY <1>11 DEF Pipes
    <3>2. r.asked[i] # t
      BY <1>2, <1>11 DEF Piped, Phased
    <3> QED  BY <1>4, <1>11, <3>1, <3>2 DEF Piped, Phased
  <2> QED  BY <1>11, <2>1, <2>2, <2>3 DEF Piped, Phased
<1>13. InTurn(r)
  <2>1. Unopened(r) = Unopened(q) \ {t}
    BY <1>1, <1>4, <1>11 DEF Unopened
  <2>2. Turns \ Unopened(r) = (1 .. n) \cup {t}
    BY <1>0, <1>1, <1>2, <2>1 DEF Unopened
  <2>3. (1 .. n) \cup {t} = 1 .. t /\ t \in 0 .. MaxTurns
    BY <1>0, <1>1, MaxTurnsIsNat DEF Turns
  <2> QED  BY <2>2, <2>3 DEF InTurn
<1>14. Wire(r, h, in)
  <2>1. \A u \in Turns :
            r.phase[u] \in {"none", "waiting"} => Unknown(u, h, in)
    BY <1>1, <1>2, <1>4, <1>11 DEF Piped, Wire
  <2>2. \A i \in DOMAIN r.asked : Unknown(r.asked[i], h, in)
    BY <1>11 DEF Piped, Wire
  <2> QED  BY <1>11, <2>1, <2>2 DEF Piped, Wire
<1>15. Blocks(r, ncap)
  <2>1. Accounted(r, t, 1)
    <3>1. r.reached[t] \o r.pending[t] = <<1>> /\ r.shed[t] = {}
      <4>1. <<>> \o <<1>> = <<1>>
        BY <1>5, ConcatEmptySeq
      <4> QED  BY <1>3, <1>6, <1>11, <4>1
    <3>2. IsIncreasing(<<1>>) /\ ToSet(<<1>>) = {1} /\ 1 .. 1 = {1}
      <4>1. DOMAIN <<1>> = {1}
        OBVIOUS
      <4> QED  BY <4>1 DEF IsIncreasing, ToSet
    <3> QED  BY <3>1, <3>2 DEF Accounted
  <2>2. ncap[t] = 1 /\ \A u \in Turns \ {t} : ncap[u] = cap[u]
    BY <1>1 DEF FirstBlock
  <2> HIDE DEF ncap
  <2>3. ASSUME NEW u \in Turns \ {t}
        PROVE  IF r.phase[u] = "none"
               THEN r.reached[u] = <<>> /\ r.pending[u] = <<>> /\ r.shed[u] = {}
               ELSE Accounted(r, u, ncap[u])
    <3>1. r.phase[u] = q.phase[u] /\ r.pending[u] = q.pending[u]
      BY <1>4, <1>6, <1>11
    <3>2. Accounted(q, u, cap[u]) => Accounted(r, u, ncap[u])
      BY <1>11, <2>2, <3>1 DEF Accounted
    <3> QED  BY <1>11, <3>1, <3>2 DEF Piped, Blocks
  <2> QED  BY <1>4, <1>11, <2>1, <2>2, <2>3 DEF Blocks
<1>16. mode.faults = 0 => NoFaults(in) /\ Counted(r, h)
  <2> SUFFICES ASSUME mode.faults = 0, NEW u \in h
               PROVE  u \in r.turns /\ r.phase[u] # "waiting"
    BY DEF Piped, Counted, AtServer, InPhase
  <2>1. u \in q.turns /\ q.phase[u] # "waiting" /\ u \in Turns /\ u # t
    BY <1>2 DEF Piped, Counted, AtServer, InPhase, Phased
  <2> QED  BY <1>4, <1>11, <2>1
<1>17. Piped(r, ncap, h, in)
  BY <1>12, <1>13, <1>14, <1>15, <1>16 DEF Piped
<1> QED  BY <1>2, <1>4, <1>11, <1>17 DEF r, Claims

-----------------------------------------------------------------------------
(***************************************************************************)
(* Rows, stopping, re-arming and the drain.                                *)
(***************************************************************************)
LEMMA NothingIsTyped ==
    ASSUME NEW limit \in Nat
    PROVE  NoTurns(limit) \in Pipes /\ Silence(Turns) \in Players
<1>1. NoTurns(limit) \in Pipes
  BY DEF NoTurns, Pipes, Phases
<1>2. Silence(Turns) \in Players
  BY DEF Silence, Players
<1> QED  BY <1>1, <1>2

(* A row says what was heard.                                              *)
LEMMA OutcomeFacts ==
    ASSUME NEW p \in Players, NEW t \in Turns, NEW reason
    PROVE  LET o == OutcomeFor(p, t, reason)
           IN  /\ o \in Outcomes
               /\ o \in {"played", "no_audio"} =>
                      t \notin p.dropped /\ reason = "completed"
               /\ o = "no_audio" => p.heard[t] = 0
<1>1. p.heard[t] \in Nat
  BY DEF Players
<1> DEFINE why == IF t \in p.dropped THEN "dropped_pending" ELSE reason
<1>2. CASE why = "dropped_pending"
  BY <1>2 DEF OutcomeFor, Outcomes
<1>3. CASE why = "too_many_turns"
  BY <1>3 DEF OutcomeFor, Outcomes
<1>4. CASE why = "completed"
  BY <1>1, <1>4 DEF OutcomeFor, Outcomes
<1>5. CASE why \notin {"dropped_pending", "too_many_turns", "completed"}
  BY <1>5 DEF OutcomeFor, Outcomes
<1> QED  BY <1>2, <1>3, <1>4, <1>5

LEMMA FileOwedEffect ==
    ASSUME NEW c \in Clients, NEW gone \in SUBSET Turns
    PROVE  LET f == FileOwed(c, gone)
           IN  /\ f \in Clients
               /\ f.pipe = c.pipe /\ f.play = c.play /\ f.sess = c.sess
               /\ \A t \in Turns : f.owed[t] = IF t \in gone THEN "none"
                                               ELSE c.owed[t]
               /\ \A t \in Turns :
                      f.rows[t] = IF t \in gone /\ c.owed[t] # "none"
                                  THEN Append(c.rows[t], OutcomeFor(c.play, t,
                                                                    c.owed[t]))
                                  ELSE c.rows[t]
<1> DEFINE due == {t \in gone : c.owed[t] # "none"}
<1> DEFINE rws == [t \in Turns |-> IF t \in due
                                   THEN Append(c.rows[t], OutcomeFor(c.play, t,
                                                                     c.owed[t]))
                                   ELSE c.rows[t]]
<1> DEFINE owd == [t \in Turns |-> IF t \in due THEN "none" ELSE c.owed[t]]
<1> DEFINE f == FileOwed(c, gone)
<1>1. f = [c EXCEPT !.rows = rws, !.owed = owd]
  BY DEF FileOwed, Clients
<1>2. \A t \in Turns : OutcomeFor(c.play, t, c.owed[t]) \in Outcomes
  BY OutcomeFacts DEF Clients
<1>3. \A t \in Turns : c.rows[t] \in Seq(Outcomes)
  BY DEF Clients
<1>4. rws \in [Turns -> Seq(Outcomes)]
  BY <1>2, <1>3
<1>5. owd \in [Turns -> Reasons]
  BY DEF Clients, Reasons
<1>6. \A t \in Turns : owd[t] = IF t \in gone THEN "none" ELSE c.owed[t]
  OBVIOUS
<1>7. \A t \in Turns :
          rws[t] = IF t \in gone /\ c.owed[t] # "none"
                   THEN Append(c.rows[t], OutcomeFor(c.play, t, c.owed[t]))
                   ELSE c.rows[t]
  OBVIOUS
<1> HIDE DEF f, rws, owd
<1>8. /\ f \in Clients /\ f.owed = owd /\ f.rows = rws
      /\ f.pipe = c.pipe /\ f.play = c.play /\ f.sess = c.sess
  BY <1>1, <1>4, <1>5 DEF Clients
<1> QED  BY <1>6, <1>7, <1>8 DEF f

(* What is owed for turns that leave playback becomes their one row.       *)
LEMMA RowsOfTheGone ==
    ASSUME NEW c \in Clients, NEW gone \in SUBSET Turns,
           NEW h \in SUBSET Turns, NEW v \in [Turns -> Nat], Filed(c, h, v)
    PROVE  LET f == FileOwed(c, gone)
           IN  \A t \in Turns : Len(f.rows[t]) <= 1
<1> DEFINE f == FileOwed(c, gone)
<1> SUFFICES ASSUME NEW t \in Turns PROVE Len(f.rows[t]) <= 1
  OBVIOUS
<1>1. f.rows[t] = IF t \in gone /\ c.owed[t] # "none"
                  THEN Append(c.rows[t], OutcomeFor(c.play, t, c.owed[t]))
                  ELSE c.rows[t]
  BY FileOwedEffect
<1>2. c.rows[t] \in Seq(Outcomes) /\ OutcomeFor(c.play, t, c.owed[t]) \in Outcomes
  BY OutcomeFacts DEF Clients
<1>3. CASE t \in gone /\ c.owed[t] # "none"
  <2>1. c.rows[t] = <<>>
    BY <1>3 DEF Filed, Rows
  <2>2. f.rows[t] = <<OutcomeFor(c.play, t, c.owed[t])>>
    BY <1>1, <1>3, <2>1
  <2> QED  BY <2>2
<1>4. CASE ~(t \in gone /\ c.owed[t] # "none")
  BY <1>1, <1>4 DEF Filed, Rows
<1> QED  BY <1>3, <1>4

LEMMA StopEffect ==
    ASSUME NEW c \in Clients, NEW cause \in Causes, NEW cap,
           NEW h \in SUBSET Turns, NEW v \in [Turns -> Nat], NEW in,
           Filed(c, h, v)
    PROVE  LET r == Stop(c, cause)
           IN  r \in Clients /\ Stopped(r) /\ Core(r, cap, h, v, in)
<1> DEFINE f == FileOwed(c, Turns)
<1> DEFINE r == Stop(c, cause)
<1> DEFINE idle == [f.sess EXCEPT !.st = "stopped", !.armed = FALSE,
                                  !.talking = FALSE, !.turnEnded = FALSE,
                                  !.blocks = 0, !.grace = FALSE,
                                  !.cause = cause]
<1>1. /\ f \in Clients /\ f.pipe = c.pipe
      /\ \A t \in Turns : Len(f.rows[t]) <= 1
  BY FileOwedEffect, RowsOfTheGone
<1>2. c.pipe.limit \in Nat
  BY DEF Clients, Pipes
<1>3. r = [f EXCEPT !.pipe = NoTurns(c.pipe.limit), !.play = Silence(Turns),
                    !.sess = idle]
  BY DEF Stop
<1> HIDE DEF f
<1>4. /\ idle \in Sessions /\ idle.st = "stopped" /\ ~idle.talking
      /\ ~idle.grace /\ idle.blocks = 0
  <2>1. f.sess \in Sessions
    BY <1>1 DEF Clients
  <2> QED  BY <2>1 DEF Sessions
<1> HIDE DEF idle, r
<1>5. /\ r \in Clients /\ r.pipe = NoTurns(c.pipe.limit)
      /\ r.play = Silence(Turns) /\ r.sess = idle /\ r.rows = f.rows
  BY <1>1, <1>2, <1>3, <1>4, NothingIsTyped DEF Clients
<1>6. r.pipe.limit = c.pipe.limit
  BY <1>5 DEF NoTurns
<1>7. Silent(r) /\ Stopped(r)
  BY <1>4, <1>5, <1>6 DEF Silent, Stopped
<1>8. Core(r, cap, h, v, in)
  BY <1>1, <1>5, <1>7 DEF Core, Silent
<1> QED  BY <1>5, <1>7, <1>8 DEF r

(* Only what the session keeps for itself.                                 *)
Aside(c, d) ==
    /\ d \in Clients
    /\ d.pipe = c.pipe /\ d.play = c.play
    /\ d.owed = c.owed /\ d.rows = c.rows
    /\ Stopped(d) <=> Stopped(c)
    /\ d.sess.talking => d.sess.st = "live"
    /\ Stopped(d) => ~d.sess.talking /\ ~d.sess.grace /\ d.sess.blocks = 0

LEMMA AsideIsSound ==
    ASSUME NEW c, NEW d, NEW cap, NEW h, NEW v, NEW in,
           Core(c, cap, h, v, in), Aside(c, d)
    PROVE  Core(d, cap, h, v, in)
BY DEF Core, Aside, Silent, Tracked, Filed

(* armIfTurnComplete()                                                     *)
Rearmed(s, p) ==
    IF s.turnEnded /\ ~IsBusy(p)
    THEN [s EXCEPT !.turnEnded = FALSE, !.armed = TRUE, !.talking = FALSE]
    ELSE s

LEMMA ArmEffect ==
    ASSUME NEW c \in Clients, NEW cap, NEW h, NEW v, NEW in,
           Core(c, cap, h, v, in)
    PROVE  LET r == ArmIfTurnComplete(c)
           IN  /\ r \in Clients /\ Core(r, cap, h, v, in)
               /\ r.sess.st = c.sess.st
               /\ r.pipe = c.pipe /\ r.play = c.play
               /\ r.sess = Rearmed(c.sess, c.play)
<1> DEFINE r == ArmIfTurnComplete(c)
<1> DEFINE calm == [c.sess EXCEPT !.turnEnded = FALSE, !.armed = TRUE,
                                  !.talking = FALSE]
<1>1. c.sess \in Sessions
  BY DEF Clients
<1>2. CASE c.sess.turnEnded /\ ~IsBusy(c.play)
  <2>1. calm \in Sessions /\ calm.st = c.sess.st /\ ~calm.talking
        /\ calm.grace = c.sess.grace /\ calm.blocks = c.sess.blocks
    BY <1>1 DEF Sessions
  <2>2. r = [c EXCEPT !.sess = calm]
    BY <1>2 DEF ArmIfTurnComplete, Clients
  <2> HIDE DEF calm, r
  <2>3. /\ r \in Clients /\ r.sess = calm /\ r.pipe = c.pipe
        /\ r.play = c.play /\ r.owed = c.owed /\ r.rows = c.rows
    BY <2>1, <2>2 DEF Clients
  <2>4. Aside(c, r)
    BY <2>1, <2>3 DEF Aside, Stopped, Core, Silent
  <2>5. Core(r, cap, h, v, in)
    BY <2>4, AsideIsSound
  <2> QED  BY <1>2, <2>1, <2>3, <2>5 DEF r, calm, Rearmed
<1>3. CASE ~(c.sess.turnEnded /\ ~IsBusy(c.play))
  BY <1>3 DEF ArmIfTurnComplete, Rearmed
<1> QED  BY <1>2, <1>3

(* completeDrainIfDone(): a conversation not being ended is left alone.    *)
LEMMA DrainIfDoneEffect ==
    ASSUME NEW c \in Clients, NEW cap, NEW h \in SUBSET Turns,
           NEW v \in [Turns -> Nat], NEW in, Core(c, cap, h, v, in)
    PROVE  LET r == CompleteDrainIfDone(c)
           IN  /\ r \in Clients /\ Core(r, cap, h, v, in)
               /\ r.sess.st = "live" => r = c
               /\ c.sess.st # "finishing" => r = c
               /\ Stopped(r) \/ r.pipe = c.pipe
<1> DEFINE r == CompleteDrainIfDone(c)
<1>1. CASE c.sess.st # "finishing" \/ IsBusy(c.play)
  BY <1>1 DEF CompleteDrainIfDone
<1>2. ASSUME c.sess.st = "finishing", NEW d \in Sessions, d.st = "finishing",
             d.talking = c.sess.talking, r = [c EXCEPT !.sess = d]
      PROVE  /\ r \in Clients /\ Core(r, cap, h, v, in)
             /\ r.sess.st = "finishing" /\ r.pipe = c.pipe
  <2> HIDE DEF r
  <2>1. /\ r \in Clients /\ r.sess = d /\ r.pipe = c.pipe
        /\ r.play = c.play /\ r.owed = c.owed /\ r.rows = c.rows
    BY <1>2 DEF Clients
  <2>2. Aside(c, r)
    BY <1>2, <2>1 DEF Aside, Stopped, Core
  <2>3. Core(r, cap, h, v, in)
    BY <2>2, AsideIsSound
  <2> QED  BY <1>2, <2>1, <2>3
<1>3. c.sess \in Sessions
  BY DEF Clients
<1>4. CASE c.sess.st = "finishing" /\ ~IsBusy(c.play) /\ ~c.sess.offered
  <2> DEFINE d == [c.sess EXCEPT !.offered = TRUE, !.settling = TRUE]
  <2>1. d \in Sessions /\ d.st = "finishing" /\ d.talking = c.sess.talking
    BY <1>3, <1>4 DEF Sessions
  <2>2. r = [c EXCEPT !.sess = d]
    BY <1>4 DEF CompleteDrainIfDone, Clients
  <2> HIDE DEF d, r
  <2> QED  BY <1>2, <1>4, <2>1, <2>2 DEF r
<1>5. CASE c.sess.st = "finishing" /\ ~IsBusy(c.play) /\ c.sess.offered
           /\ c.sess.blocks > 0
  <2> DEFINE d == [c.sess EXCEPT !.grace = TRUE]
  <2>1. d \in Sessions /\ d.st = "finishing" /\ d.talking = c.sess.talking
    BY <1>3, <1>5 DEF Sessions
  <2>2. r = [c EXCEPT !.sess = d]
    BY <1>5 DEF CompleteDrainIfDone, Clients
  <2> HIDE DEF d, r
  <2> QED  BY <1>2, <1>5, <2>1, <2>2 DEF r
<1>6. CASE c.sess.st = "finishing" /\ ~IsBusy(c.play) /\ c.sess.offered
           /\ ~(c.sess.blocks > 0)
  <2>1. r = Stop(c, "drained")
    BY <1>6 DEF CompleteDrainIfDone
  <2>2. Filed(c, h, v)
    BY <1>6 DEF Core, Stopped, Tracked
  <2>3. "drained" \in Causes
    BY DEF Causes
  <2>4. r \in Clients /\ Stopped(r) /\ Core(r, cap, h, v, in)
    <3> HIDE DEF r
    <3> QED  BY <2>1, <2>2, <2>3, StopEffect
  <2> QED  BY <1>6, <2>4 DEF Stopped
<1> QED  BY <1>1, <1>4, <1>5, <1>6

-----------------------------------------------------------------------------
(***************************************************************************)
(* What playback does to the client: b is playback as the call finds it, p *)
(* as the call leaves it.                                                  *)
(***************************************************************************)
LEMMA MovedPlaces ==
    ASSUME NEW q \in Pipes, NEW b \in Players, NEW p \in Players,
           NEW over, Moves(b, p, over), Places(q, b), Ended(q, b, over)
    PROVE  Places(q, p) /\ Ended(q, p, {})
<1>1. /\ p.queue \subseteq b.queue /\ b.dropped \subseteq p.dropped
      /\ p.dropped \subseteq b.dropped \cup (b.queue \ p.queue)
      /\ p.ended = (b.ended \cup over) \cap p.queue
      /\ \A t \in b.queue \ p.queue : t \in p.dropped \/ t \in b.ended \cup over
  BY DEF Moves
<1>2. \A t \in q.turns : t \in b.queue => t \notin b.ended \cup over
  BY DEF Ended
<1>3. Places(q, p)
  BY <1>1, <1>2 DEF Places
<1>4. Ended(q, p, {})
  BY <1>1 DEF Ended
<1> QED  BY <1>3, <1>4

LEMMA MovedFrames ==
    ASSUME NEW q \in Pipes, Phased(q), NEW b \in Players, NEW p \in Players,
           NEW over, NEW v, NEW in,
           Moves(b, p, over), Places(q, b), Ended(q, b, over),
           Framed(q, b, v, in), Audible(p),
           \A t \in Turns \ b.queue : b.frames[t] = 0
    PROVE  Framed(q, p, v, in)
<1> SUFFICES ASSUME NEW t \in Turns \ p.dropped, q.phase[t] # "gone"
             PROVE  p.heard[t] + p.frames[t] + Cardinality(Unread(in, t)) = v[t]
  BY DEF Framed
<1>1. b.heard[t] + b.frames[t] + Cardinality(Unread(in, t)) = v[t]
  BY DEF Framed, Moves
<1>2. CASE t \in p.queue
  BY <1>1, <1>2 DEF Moves
<1>3. CASE t \notin p.queue
  <2>1. t \notin b.queue
    <3> SUFFICES ASSUME t \in b.queue PROVE FALSE
      OBVIOUS
    <3>1. t \in b.ended \cup over
      BY <1>3 DEF Moves
    <3>2. t \notin q.turns
      BY <3>1 DEF Ended
    <3>3. t \in Unopened(q)
      BY <3>2 DEF Phased, Unopened
    <3> QED  BY <3>3 DEF Places
  <2>2. b.frames[t] = 0 /\ p.heard[t] = b.heard[t]
    BY <1>3, <2>1 DEF Moves
  <2>3. p.frames[t] = 0
    <3>1. p.frames[t] \in Nat /\ ~(p.frames[t] > 0)
      BY <1>3 DEF Players, Audible, Loose
    <3> QED  BY <3>1
  <2> QED  BY <1>1, <2>2, <2>3
<1> QED  BY <1>2, <1>3

(* The rows owed for these turns were filed.                               *)
Refiled(p, gone, o, w, no, nw) ==
    /\ \A t \in Turns : no[t] = IF t \in gone THEN "none" ELSE o[t]
    /\ \A t \in Turns :
           nw[t] = IF t \in gone /\ o[t] # "none"
                   THEN Append(w[t], OutcomeFor(p, t, o[t])) ELSE w[t]

LEMMA MovedRows ==
    ASSUME NEW q, NEW b \in Players, NEW p \in Players, NEW over,
           NEW o \in [Turns -> Reasons], NEW w \in [Turns -> Seq(Outcomes)],
           NEW h \in SUBSET Turns, NEW v \in [Turns -> Nat],
           Moves(b, p, over), Rows(q, b, o, w, h, v),
           NEW gone \in SUBSET Turns, gone = b.queue \ p.queue,
           NEW no, NEW nw, Refiled(p, gone, o, w, no, nw)
    PROVE  Rows(q, p, no, nw, h, v)
<1> SUFFICES ASSUME NEW t \in Turns
    PROVE  /\ no[t] # "none" <=> Closed(q, t) /\ t \in p.queue
           /\ nw[t] # <<>> <=> Closed(q, t) /\ t \notin p.queue
           /\ Len(nw[t]) <= 1
           /\ no[t] = "completed" =>
                  t \notin h /\ p.heard[t] + p.frames[t] = v[t]
           /\ nw[t] = <<"played">> => t \notin h /\ p.heard[t] = v[t]
           /\ nw[t] = <<"no_audio">> => t \notin h /\ v[t] = 0
  BY DEF Rows
<1>1. /\ o[t] # "none" <=> Closed(q, t) /\ t \in b.queue
      /\ w[t] # <<>> <=> Closed(q, t) /\ t \notin b.queue
      /\ Len(w[t]) <= 1
      /\ o[t] = "completed" =>
             t \notin h /\ b.heard[t] + b.frames[t] = v[t]
      /\ w[t] = <<"played">> => t \notin h /\ b.heard[t] = v[t]
      /\ w[t] = <<"no_audio">> => t \notin h /\ v[t] = 0
  BY DEF Rows
<1>2. p.queue \subseteq b.queue
  BY DEF Moves
<1>3. /\ b.heard[t] \in Nat /\ b.frames[t] \in Nat
      /\ p.heard[t] \in Nat /\ p.frames[t] \in Nat /\ v[t] \in Nat
  BY DEF Players
<1>4. CASE t \in p.queue
  <2>1. t \notin gone /\ no[t] = o[t] /\ nw[t] = w[t]
    BY <1>4 DEF Refiled
  <2>2. p.heard[t] + p.frames[t] = b.heard[t] + b.frames[t]
    BY <1>4 DEF Moves
  <2> QED  BY <1>1, <1>2, <1>4, <2>1, <2>2
<1>5. CASE t \notin p.queue /\ t \notin b.queue
  <2>1. t \notin gone /\ no[t] = o[t] /\ nw[t] = w[t]
    BY <1>5 DEF Refiled
  <2>2. p.heard[t] = b.heard[t]
    BY <1>5 DEF Moves
  <2> QED  BY <1>1, <1>5, <2>1, <2>2
<1>6. CASE t \notin p.queue /\ t \in b.queue /\ ~Closed(q, t)
  <2>1. o[t] = "none" /\ w[t] = <<>>
    BY <1>1, <1>6
  <2>2. no[t] = "none" /\ nw[t] = w[t]
    BY <2>1 DEF Refiled
  <2> QED  BY <1>1, <1>6, <2>1, <2>2
<1>7. CASE t \notin p.queue /\ t \in b.queue /\ Closed(q, t)
  <2> DEFINE x == OutcomeFor(p, t, o[t])
  <2>1. t \in gone /\ o[t] # "none" /\ w[t] = <<>>
    BY <1>1, <1>7
  <2>2. x \in Outcomes
        /\ (x \in {"played", "no_audio"} =>
                t \notin p.dropped /\ o[t] = "completed")
        /\ (x = "no_audio" => p.heard[t] = 0)
    BY OutcomeFacts
  <2>3. no[t] = "none" /\ nw[t] = Append(<<>>, x)
    BY <2>1 DEF Refiled
  <2> HIDE DEF x
  <2>4. Append(<<>>, x) = <<x>> /\ Len(<<x>>) = 1
    OBVIOUS
  <2>5. <<x>> # <<>> /\ \A y : <<x>> = <<y>> => x = y
    OBVIOUS
  <2>6. ASSUME t \notin p.dropped, o[t] = "completed"
        PROVE  t \notin h /\ p.heard[t] = v[t]
    <3>1. b.frames[t] = 0 /\ p.heard[t] = b.heard[t]
      BY <1>7, <2>6 DEF Moves
    <3> QED  BY <1>1, <1>3, <2>6, <3>1
  <2>7. nw[t] = <<"played">> => t \notin h /\ p.heard[t] = v[t]
    BY <2>2, <2>3, <2>4, <2>5, <2>6
  <2>8. nw[t] = <<"no_audio">> => t \notin h /\ v[t] = 0
    BY <2>2, <2>3, <2>4, <2>5, <2>6
  <2>9. nw[t] # <<>> /\ Len(nw[t]) <= 1
    BY <2>3, <2>4, <2>5
  <2> QED  BY <1>7, <2>3, <2>7, <2>8, <2>9
<1> QED  BY <1>4, <1>5, <1>6, <1>7

(* From b, which agrees with the rest of the client, to p.                 *)
Turned(c, b, p, over, h, v, in) ==
    /\ b \in Players /\ p \in Players /\ Audible(p)
    /\ Moves(b, p, over)
    /\ Places(c.pipe, b) /\ Ended(c.pipe, b, over)
    /\ Framed(c.pipe, b, v, in)
    /\ Rows(c.pipe, b, c.owed, c.rows, h, v)
    /\ \A t \in Turns \ b.queue : b.frames[t] = 0
    /\ c.play.queue \ p.queue = b.queue \ p.queue
    /\ c.sess.talking => c.sess.st = "live"

(* Playback changed and what it retired has its rows.                      *)
Filing(c, p) == FileOwed([c EXCEPT !.play = p], c.play.queue \ p.queue)

LEMMA FiledEffect ==
    ASSUME NEW c \in Clients, ~Stopped(c), NEW cap, NEW h \in SUBSET Turns,
           NEW v \in [Turns -> Nat], NEW in, NEW b, NEW p, NEW over,
           Piped(c.pipe, cap, h, in), Turned(c, b, p, over, h, v, in)
    PROVE  LET f == Filing(c, p)
           IN  /\ f \in Clients /\ Core(f, cap, h, v, in)
               /\ f.pipe = c.pipe /\ f.play = p /\ f.sess = c.sess
<1> DEFINE d == [c EXCEPT !.play = p]
<1> DEFINE gone == c.play.queue \ p.queue
<1> DEFINE f == Filing(c, p)
<1>1. b \in Players /\ p \in Players /\ gone \in SUBSET Turns
      /\ gone = b.queue \ p.queue
  BY DEF Turned, Clients, Players
<1>2. /\ d \in Clients /\ d.pipe = c.pipe /\ d.play = p /\ d.sess = c.sess
      /\ d.owed = c.owed /\ d.rows = c.rows
  BY <1>1 DEF Clients
<1>3. f = FileOwed(d, gone)
  BY DEF Filing
<1> HIDE DEF d, gone, f
<1>4. /\ f \in Clients /\ f.pipe = c.pipe /\ f.play = p /\ f.sess = c.sess
      /\ Refiled(p, gone, c.owed, c.rows, f.owed, f.rows)
  BY <1>1, <1>2, <1>3, FileOwedEffect DEF Refiled
<1>5. c.pipe \in Pipes /\ c.owed \in [Turns -> Reasons]
      /\ c.rows \in [Turns -> Seq(Outcomes)]
  BY DEF Clients
<1>6. Moves(b, p, over) /\ Rows(c.pipe, b, c.owed, c.rows, h, v)
  BY DEF Turned
<1>7. Rows(c.pipe, p, f.owed, f.rows, h, v)
  BY <1>1, <1>4, <1>5, <1>6, MovedRows
<1>8. Places(c.pipe, p) /\ Ended(c.pipe, p, {})
  BY <1>1, <1>5, MovedPlaces DEF Turned
<1>9. Framed(c.pipe, p, v, in)
  BY <1>1, <1>5, MovedFrames DEF Turned, Piped
<1>10. \A t \in Turns : Len(f.rows[t]) <= 1
  BY <1>7 DEF Rows
<1>11. Core(f, cap, h, v, in)
  BY <1>4, <1>7, <1>8, <1>9, <1>10
     DEF Core, Stopped, Tracked, Filed, Turned
<1> QED  BY <1>4, <1>11 DEF f

LEMMA PlaysEffect ==
    ASSUME NEW c \in Clients, ~Stopped(c), NEW cap, NEW h \in SUBSET Turns,
           NEW v \in [Turns -> Nat], NEW in, NEW b, NEW p, NEW over,
           Piped(c.pipe, cap, h, in), Turned(c, b, p, over, h, v, in)
    PROVE  LET r == Plays(c, p)
           IN  /\ r \in Clients /\ Core(r, cap, h, v, in)
               /\ Stopped(r) \/ r.pipe = c.pipe
               /\ r.sess.st = "live" => c.sess.st = "live"
               /\ c.sess.st = "live" =>
                      /\ r.pipe = c.pipe /\ r.play = p
                      /\ r.sess = IF Single(c) /\ c.play.busy /\ ~p.busy
                                  THEN Rearmed(c.sess, p) ELSE c.sess
<1> DEFINE f == Filing(c, p)
<1> DEFINE g == ArmIfTurnComplete(f)
<1> DEFINE a == IF Single(c) THEN g ELSE f
<1> DEFINE z == CompleteDrainIfDone(a)
<1> DEFINE r == Plays(c, p)
<1>1. /\ f \in Clients /\ Core(f, cap, h, v, in)
      /\ f.pipe = c.pipe /\ f.play = p /\ f.sess = c.sess
  BY FiledEffect
<1>2. r = IF c.play.busy /\ ~p.busy THEN z ELSE f
  BY DEF Plays, Filing
<1> HIDE DEF f, r
<1>3. /\ g \in Clients /\ Core(g, cap, h, v, in)
      /\ g.sess.st = f.sess.st
      /\ g.pipe = f.pipe /\ g.play = f.play
      /\ g.sess = Rearmed(f.sess, f.play)
  BY <1>1, ArmEffect
<1> HIDE DEF g
<1>4. /\ a \in Clients /\ Core(a, cap, h, v, in)
      /\ a.pipe = c.pipe /\ a.play = p /\ a.sess.st = c.sess.st
      /\ a.sess = IF Single(c) THEN Rearmed(c.sess, p) ELSE c.sess
  BY <1>1, <1>3
<1> HIDE DEF a
<1>5. /\ z \in Clients /\ Core(z, cap, h, v, in)
      /\ z.sess.st = "live" => z = a
      /\ a.sess.st # "finishing" => z = a
      /\ Stopped(z) \/ z.pipe = a.pipe
  BY <1>4, DrainIfDoneEffect
<1> HIDE DEF z
<1>6. CASE c.play.busy /\ ~p.busy
  BY <1>2, <1>4, <1>5, <1>6 DEF r
<1>7. CASE ~(c.play.busy /\ ~p.busy)
  BY <1>1, <1>2, <1>7 DEF r
<1> QED  BY <1>6, <1>7

(* The pipeline changed, and the turns it has not.                         *)
WithPipe(c, q) == [c EXCEPT !.pipe = q]

LEMMA WithPipeEffect ==
    ASSUME NEW c \in Clients, NEW q \in Pipes
    PROVE  LET d == WithPipe(c, q)
           IN  /\ d \in Clients /\ d.pipe = q /\ d.play = c.play
               /\ d.sess = c.sess /\ d.owed = c.owed /\ d.rows = c.rows
BY DEF WithPipe, Clients

LEMMA CorePipe ==
    ASSUME NEW c \in Clients, ~Stopped(c), NEW cap, NEW ncap,
           NEW h, NEW v, NEW in, Core(c, cap, h, v, in), NEW q,
           Keeps(c.pipe, q), Piped(q, ncap, h, in)
    PROVE  LET d == WithPipe(c, q)
           IN  /\ d \in Clients /\ Core(d, ncap, h, v, in)
               /\ d.pipe = q /\ d.play = c.play /\ d.sess = c.sess
               /\ OneByOne(c) => OneByOne(d)
<1> DEFINE d == WithPipe(c, q)
<1>1. q \in Pipes /\ c.pipe \in Pipes
  BY DEF Keeps, Clients
<1>2. /\ d \in Clients /\ d.pipe = q /\ d.play = c.play
      /\ d.sess = c.sess /\ d.owed = c.owed /\ d.rows = c.rows
  BY <1>1, WithPipeEffect
<1> HIDE DEF d
<1>3. Unopened(q) = Unopened(c.pipe)
  BY DEF Keeps, Unopened
<1>4. Places(q, c.play) /\ Ended(q, c.play, {})
  BY <1>3 DEF Core, Keeps, Tracked, Places, Ended
<1>5. Framed(q, c.play, v, in)
  BY DEF Core, Tracked, Framed, Keeps
<1>6. Rows(q, c.play, c.owed, c.rows, h, v)
  BY DEF Core, Tracked, Filed, Rows, Keeps
<1>7. Core(d, ncap, h, v, in)
  BY <1>2, <1>4, <1>5, <1>6 DEF Core, Stopped, Tracked, Filed
<1>8. OneByOne(c) => OneByOne(d)
  BY <1>2 DEF OneByOne, Alternates, Single, Keeps
<1> QED  BY <1>2, <1>7, <1>8 DEF d

LEMMA CoreStart ==
    ASSUME NEW c \in Clients, NEW cap, NEW h \in SUBSET Turns, NEW v,
           NEW in \in Seq(Events), Core(c, cap, h, v, in)
    PROVE  LET d == WithPipe(c, StartNextWaiting(c.pipe))
           IN  /\ d \in Clients /\ Core(d, cap, h, v, in)
               /\ d.play = c.play /\ d.sess = c.sess
               /\ OneByOne(c) => OneByOne(d)
<1> DEFINE q == StartNextWaiting(c.pipe)
<1> DEFINE d == WithPipe(c, q)
<1>1. c.pipe \in Pipes
  BY DEF Clients
<1>2. Phased(c.pipe)
  <2>1. CASE Stopped(c)
    BY <2>1 DEF Core, Silent, NoTurns, Phased, Nobody
  <2>2. CASE ~Stopped(c)
    BY <2>2 DEF Core, Piped
  <2> QED  BY <2>1, <2>2
<1>3. Sends(c.pipe, q)
  BY <1>1, <1>2, StartNextEffect
<1> HIDE DEF q
<1>4. CASE Stopped(c)
  <2>1. q = c.pipe
    BY <1>1, <1>3, <1>4, SendsNoTurns DEF Core, Silent
  <2>2. d = c
    BY <2>1 DEF WithPipe, Clients
  <2> QED  BY <2>2 DEF q
<1>5. CASE ~Stopped(c)
  <2>1. Piped(c.pipe, cap, h, in)
    BY <1>5 DEF Core
  <2>2. Keeps(c.pipe, q) /\ Piped(q, cap, h, in)
    BY <1>1, <1>3, <2>1, SendsEffect
  <2> QED  BY <1>5, <2>2, CorePipe DEF q
<1> QED  BY <1>4, <1>5

-----------------------------------------------------------------------------
(***************************************************************************)
(* Forgetting a turn.                                                      *)
(***************************************************************************)
Forgettable(c, t, reason, h, v) ==
    /\ t \in c.pipe.turns
    /\ \A i \in DOMAIN c.pipe.asked : c.pipe.asked[i] # t
    /\ mode.faults = 0 => t \notin h
    /\ reason \in Reasons \ {"none"}
    /\ reason = "completed" =>
           /\ t \notin h
           /\ t \notin c.play.dropped =>
                  c.play.heard[t] + c.play.frames[t] = v[t]

Reported(e, t, reason) ==
    IF t \notin e.pipe.named THEN e
    ELSE IF Holds(e.play, t) THEN [e EXCEPT !.owed[t] = reason]
    ELSE FileRow(e, t, reason)

(* A turn closed that playback still has owes its row, and one playback    *)
(* has not was dropped.                                                    *)
LEMMA RowOfTheClosed ==
    ASSUME NEW c \in Clients, NEW q \in Pipes, NEW t \in Turns, NEW reason,
           NEW h \in SUBSET Turns, NEW v \in [Turns -> Nat],
           Filed(c, h, v), c.play.queue \cap c.play.dropped = {},
           c.pipe.phase[t] # "gone",
           q.named = c.pipe.named, q.phase[t] = "gone",
           \A u \in Turns \ {t} : q.phase[u] = c.pipe.phase[u],
           t \in c.play.queue \cup c.play.dropped,
           reason \in Reasons \ {"none"},
           reason = "completed" =>
               /\ t \notin h
               /\ t \notin c.play.dropped =>
                      c.play.heard[t] + c.play.frames[t] = v[t]
    PROVE  LET r == Reported(WithPipe(c, q), t, reason)
           IN  /\ r \in Clients /\ r.pipe = q /\ r.play = c.play
               /\ r.sess = c.sess /\ Filed(r, h, v)
<1> DEFINE e == WithPipe(c, q)
<1> DEFINE r == Reported(e, t, reason)
<1>1. /\ e \in Clients /\ e.pipe = q /\ e.play = c.play
      /\ e.sess = c.sess /\ e.owed = c.owed /\ e.rows = c.rows
  BY WithPipeEffect
<1> HIDE DEF e
<1>2. c.owed[t] = "none" /\ c.rows[t] = <<>>
  BY DEF Filed, Rows, Closed
<1>3. \A u \in Turns \ {t} : Closed(q, u) <=> Closed(c.pipe, u)
  BY DEF Closed
<1>4. ASSUME NEW o, NEW w, \A u \in Turns \ {t} : o[u] = c.owed[u],
             \A u \in Turns \ {t} : w[u] = c.rows[u],
             o[t] # "none" <=> Closed(q, t) /\ t \in c.play.queue,
             w[t] # <<>> <=> Closed(q, t) /\ t \notin c.play.queue,
             Len(w[t]) <= 1,
             o[t] = "completed" =>
                 t \notin h /\ c.play.heard[t] + c.play.frames[t] = v[t],
             w[t] # <<"played">>, w[t] # <<"no_audio">>
      PROVE  Rows(q, c.play, o, w, h, v)
  <2> SUFFICES ASSUME NEW u \in Turns
      PROVE  /\ o[u] # "none" <=> Closed(q, u) /\ u \in c.play.queue
             /\ w[u] # <<>> <=> Closed(q, u) /\ u \notin c.play.queue
             /\ Len(w[u]) <= 1
             /\ o[u] = "completed" =>
                    u \notin h /\ c.play.heard[u] + c.play.frames[u] = v[u]
             /\ w[u] = <<"played">> => u \notin h /\ c.play.heard[u] = v[u]
             /\ w[u] = <<"no_audio">> => u \notin h /\ v[u] = 0
    BY DEF Rows
  <2>1. CASE u = t
    BY <1>4, <2>1
  <2>2. CASE u # t
    <3>1. o[u] = c.owed[u] /\ w[u] = c.rows[u]
          /\ (Closed(q, u) <=> Closed(c.pipe, u))
      BY <1>3, <1>4, <2>2
    <3> QED  BY <3>1 DEF Filed, Rows
  <2> QED  BY <2>1, <2>2
<1>5. <<>> # <<"played">> /\ <<>> # <<"no_audio">> /\ Len(<<>>) <= 1
  OBVIOUS
<1>6. CASE t \notin q.named
  <2>1. r = e
    BY <1>1, <1>6 DEF Reported
  <2>2. Rows(q, c.play, c.owed, c.rows, h, v)
    BY <1>2, <1>4, <1>5, <1>6 DEF Closed
  <2> QED  BY <1>1, <2>1, <2>2 DEF Filed, e
<1>7. CASE t \in q.named /\ t \in c.play.queue
  <2> DEFINE o == [c.owed EXCEPT ![t] = reason]
  <2>1. o \in [Turns -> Reasons] /\ o[t] = reason
        /\ \A u \in Turns \ {t} : o[u] = c.owed[u]
    BY DEF Clients
  <2>2. r = [e EXCEPT !.owed = o]
    BY <1>1, <1>7 DEF Reported, Holds
  <2> HIDE DEF o, r
  <2>3. /\ r \in Clients /\ r.pipe = q /\ r.play = c.play
        /\ r.sess = c.sess /\ r.owed = o /\ r.rows = c.rows
    BY <1>1, <2>1, <2>2 DEF Clients
  <2>4. Rows(q, c.play, o, c.rows, h, v)
    <3>1. t \notin c.play.dropped
      BY <1>7
    <3>2. Closed(q, t)
      BY <1>7 DEF Closed
    <3> QED  BY <1>2, <1>4, <1>5, <1>7, <2>1, <3>1, <3>2
  <2> QED  BY <2>3, <2>4 DEF Filed, r, e
<1>8. CASE t \in q.named /\ t \notin c.play.queue
  <2> DEFINE x == OutcomeFor(c.play, t, reason)
  <2>1. x \in Outcomes /\ x \notin {"played", "no_audio"}
    <3>1. c.play \in Players /\ t \in c.play.dropped
      BY <1>8 DEF Clients
    <3> QED  BY <3>1, OutcomeFacts
  <2> DEFINE w == [c.rows EXCEPT ![t] = Append(c.rows[t], x)]
  <2> DEFINE o == [c.owed EXCEPT ![t] = "none"]
  <2>2. r = [e EXCEPT !.rows = w, !.owed = o]
    BY <1>1, <1>8 DEF Reported, Holds, FileRow
  <2> HIDE DEF x
  <2>3. /\ w \in [Turns -> Seq(Outcomes)] /\ w[t] = <<x>>
        /\ \A u \in Turns \ {t} : w[u] = c.rows[u]
    BY <1>2, <2>1 DEF Clients
  <2>4. /\ o \in [Turns -> Reasons] /\ o[t] = "none"
        /\ \A u \in Turns \ {t} : o[u] = c.owed[u]
    BY DEF Clients, Reasons
  <2> HIDE DEF o, w, r
  <2>5. /\ r \in Clients /\ r.pipe = q /\ r.play = c.play
        /\ r.sess = c.sess /\ r.owed = o /\ r.rows = w
    BY <1>1, <2>2, <2>3, <2>4 DEF Clients
  <2>6. /\ Len(<<x>>) <= 1 /\ <<x>> # <<>>
        /\ <<x>> # <<"played">> /\ <<x>> # <<"no_audio">>
    BY <2>1
  <2>7. Rows(q, c.play, o, w, h, v)
    <3>1. Closed(q, t)
      BY <1>8 DEF Closed
    <3> QED  BY <1>4, <1>8, <2>3, <2>4, <2>6, <3>1
  <2> QED  BY <2>5, <2>7 DEF Filed, r, e
<1> QED  BY <1>6, <1>7, <1>8

(* So playback may be told the turn is over.                               *)
LEMMA ReportedEffect ==
    ASSUME NEW c \in Clients, ~Stopped(c), NEW cap, NEW h \in SUBSET Turns,
           NEW v \in [Turns -> Nat], NEW in \in Seq(Events),
           Core(c, cap, h, v, in), NEW t, NEW reason,
           Forgettable(c, t, reason, h, v)
    PROVE  LET q == Evict(c.pipe, t)
               r == Reported(WithPipe(c, q), t, reason)
           IN  /\ r \in Clients /\ r.pipe = q /\ r.play = c.play
               /\ r.sess = c.sess /\ q.turns = c.pipe.turns \ {t}
               /\ q.limit = c.pipe.limit /\ Piped(q, cap, h, in)
               /\ Turned(r, c.play, Finish(c.play, t), {t}, h, v, in)
               /\ Lone(c.play) => Lone(Finish(c.play, t))
<1> DEFINE q == Evict(c.pipe, t)
<1> DEFINE r == Reported(WithPipe(c, q), t, reason)
<1> DEFINE p == Finish(c.play, t)
<1>1. c.pipe \in Pipes /\ c.play \in Players /\ t \in c.pipe.turns
      /\ t \in Turns
  BY DEF Clients, Pipes, Forgettable
<1>2. /\ Piped(c.pipe, cap, h, in) /\ Audible(c.play)
      /\ Ended(c.pipe, c.play, {}) /\ Places(c.pipe, c.play)
      /\ Framed(c.pipe, c.play, v, in) /\ Filed(c, h, v)
      /\ c.sess.talking => c.sess.st = "live"
  BY DEF Core, Tracked
<1>3. mode.faults = 0 => t \notin h
  BY DEF Forgettable
<1>4. \A i \in DOMAIN c.pipe.asked : c.pipe.asked[i] # t
  BY DEF Forgettable
<1>5. /\ q \in Pipes /\ q.turns = c.pipe.turns \ {t}
      /\ q.limit = c.pipe.limit
      /\ q.named = c.pipe.named /\ q.phase[t] = "gone"
      /\ \A u \in Turns \ {t} : q.phase[u] = c.pipe.phase[u]
      /\ Piped(q, cap, h, in)
  BY <1>1, <1>2, <1>3, <1>4, EvictEffect
<1> HIDE DEF q
<1>6. c.pipe.phase[t] \notin {"none", "gone"}
  BY <1>1, <1>2 DEF Piped, Phased
<1>7. t \in c.play.queue \cup c.play.dropped
  BY <1>1, <1>2 DEF Places
<1>8. c.play.queue \cap c.play.dropped = {}
  BY <1>2 DEF Audible, Loose
<1>9. /\ reason \in Reasons \ {"none"}
      /\ reason = "completed" =>
             /\ t \notin h
             /\ t \notin c.play.dropped =>
                    c.play.heard[t] + c.play.frames[t] = v[t]
  BY DEF Forgettable
<1>10. /\ r \in Clients /\ r.pipe = q /\ r.play = c.play
       /\ r.sess = c.sess /\ Filed(r, h, v)
  <2>1. c.pipe.phase[t] # "gone"
    BY <1>6
  <2> QED  BY <1>1, <1>2, <1>5, <2>1, <1>7, <1>8, <1>9, RowOfTheClosed
<1> HIDE DEF r
<1>11. /\ p \in Players /\ Audible(p) /\ Moves(c.play, p, {t})
       /\ Lone(c.play) => Lone(p)
  BY <1>1, <1>2, FinishEffect
<1> HIDE DEF p
<1>12. Unopened(q) = Unopened(c.pipe)
  BY <1>1, <1>5, <1>6 DEF Unopened
<1>13. Places(q, c.play)
  BY <1>2, <1>5, <1>12 DEF Places
<1>14. Ended(q, c.play, {t})
  <2>1. c.play.ended \subseteq c.play.queue
    BY <1>2 DEF Audible, Loose
  <2> QED  BY <1>2, <1>5, <2>1 DEF Ended
<1>15. Framed(q, c.play, v, in)
  <2> SUFFICES ASSUME NEW u \in Turns \ c.play.dropped, q.phase[u] # "gone"
      PROVE  c.play.heard[u] + c.play.frames[u]
                 + Cardinality(Unread(in, u)) = v[u]
    BY DEF Framed
  <2>1. u # t
    BY <1>5
  <2>2. c.pipe.phase[u] # "gone"
    BY <1>5, <2>1
  <2> QED  BY <1>2, <2>2 DEF Framed
<1>16. \A u \in Turns \ c.play.queue : c.play.frames[u] = 0
  BY <1>1, <1>2 DEF Audible, Loose, Players
<1>17. Turned(r, c.play, p, {t}, h, v, in)
  BY <1>1, <1>2, <1>10, <1>11, <1>13, <1>14, <1>15, <1>16 DEF Turned, Filed
<1> QED  BY <1>5, <1>10, <1>11, <1>17 DEF r, q, p

(* onTurnClosed() and forget()                                             *)
LEMMA ForgetEffect ==
    ASSUME NEW c \in Clients, ~Stopped(c), NEW cap, NEW h \in SUBSET Turns,
           NEW v \in [Turns -> Nat], NEW in \in Seq(Events),
           Core(c, cap, h, v, in), OneByOne(c), NEW t, NEW reason,
           Forgettable(c, t, reason, h, v)
    PROVE  LET d == Forget(c, t, reason)
           IN  /\ d \in Clients /\ Core(d, cap, h, v, in) /\ OneByOne(d)
               /\ c.sess.st = "live" <=> d.sess.st = "live"
<1> DEFINE q == Evict(c.pipe, t)
<1> DEFINE r == Reported(WithPipe(c, q), t, reason)
<1> DEFINE p == Finish(c.play, t)
<1> DEFINE f == Plays(r, p)
<1> DEFINE told == [f.sess EXCEPT !.turnEnded = TRUE]
<1> DEFINE e == [f EXCEPT !.sess.turnEnded = TRUE]
<1> DEFINE a == ArmIfTurnComplete(e)
<1> DEFINE k == IF Single(r) THEN a ELSE f
<1> DEFINE z == CompleteDrainIfDone(k)
<1> DEFINE d == WithPipe(z, StartNextWaiting(z.pipe))
<1>1. /\ r \in Clients /\ r.pipe = q /\ r.play = c.play
      /\ r.sess = c.sess /\ q.turns = c.pipe.turns \ {t}
      /\ q.limit = c.pipe.limit /\ Piped(q, cap, h, in)
      /\ Turned(r, c.play, p, {t}, h, v, in)
      /\ Lone(c.play) => Lone(p)
  BY ReportedEffect
<1>2. ~Stopped(r) /\ c.pipe.limit = r.pipe.limit
  BY <1>1 DEF Stopped
<1>3. Forget(c, t, reason) = d
  <2>1. [c EXCEPT !.pipe = Evict(@, t)] = WithPipe(c, q)
    BY DEF WithPipe, Clients
  <2>2. WithPipe(c, q).pipe = q /\ q \in Pipes
    BY <1>1 DEF WithPipe, Clients
  <2>3. Single(WithPipe(c, q)) <=> Single(r)
    BY <1>1, <2>2 DEF Single
  <2>4. p = Finish(r.play, t)
    BY <1>1
  <2> DEFINE w == WithPipe(c, q)
  <2>5. OnTurnClosed(w, t, reason) =
            CompleteDrainIfDone(
                IF Single(w)
                THEN ArmIfTurnComplete(
                        [Plays(r, Finish(r.play, t)) EXCEPT
                            !.sess.turnEnded = TRUE])
                ELSE Plays(r, Finish(r.play, t)))
    <3> HIDE DEF q, p, f, e, a, k, z, d
    <3> QED  BY DEF OnTurnClosed, Reported
  <2> HIDE DEF p, q, r
  <2>6. OnTurnClosed(w, t, reason) = z
    BY <2>3, <2>4, <2>5
  <2>7. Forget(c, t, reason)
            = [z EXCEPT !.pipe = StartNextWaiting(z.pipe)]
    BY <2>1, <2>6 DEF Forget
  <2> HIDE DEF z
  <2> QED  BY <2>7 DEF WithPipe
<1> HIDE DEF q, r, p
<1>4. Piped(r.pipe, cap, h, in)
  BY <1>1
<1>5. /\ f \in Clients /\ Core(f, cap, h, v, in)
      /\ Stopped(f) \/ f.pipe = r.pipe
      /\ f.sess.st = "live" => r.sess.st = "live"
      /\ r.sess.st = "live" =>
             /\ f.pipe = r.pipe /\ f.play = p
             /\ f.sess = IF Single(r) /\ r.play.busy /\ ~p.busy
                         THEN Rearmed(r.sess, p) ELSE r.sess
  BY <1>1, <1>2, <1>4, PlaysEffect
<1> HIDE DEF f
<1>6. /\ told \in Sessions /\ told.turnEnded /\ told.st = f.sess.st
      /\ told.talking = f.sess.talking /\ told.armed = f.sess.armed
      /\ told.grace = f.sess.grace /\ told.blocks = f.sess.blocks
  <2>1. f.sess \in Sessions
    BY <1>5 DEF Clients
  <2> QED  BY <2>1 DEF Sessions
<1>7. e = [f EXCEPT !.sess = told]
  BY <1>5 DEF Clients
<1> HIDE DEF told, e
<1>8. /\ e \in Clients /\ e.sess = told /\ e.pipe = f.pipe
      /\ e.play = f.play /\ e.owed = f.owed /\ e.rows = f.rows
  BY <1>5, <1>6, <1>7 DEF Clients
<1>9. Core(e, cap, h, v, in)
  <2>1. Aside(f, e)
    BY <1>5, <1>6, <1>8 DEF Aside, Stopped, Core, Silent
  <2> QED  BY <1>5, <2>1, AsideIsSound
<1>10. /\ a \in Clients /\ Core(a, cap, h, v, in)
       /\ a.sess.st = e.sess.st /\ a.pipe = e.pipe /\ a.play = e.play
       /\ a.sess = Rearmed(e.sess, e.play)
  BY <1>8, <1>9, ArmEffect
<1> HIDE DEF a
<1>11. /\ k \in Clients /\ Core(k, cap, h, v, in)
       /\ k.sess.st = f.sess.st /\ k.pipe = f.pipe /\ k.play = f.play
       /\ Single(r) => k.sess = Rearmed(told, f.play)
  BY <1>5, <1>6, <1>8, <1>10
<1> HIDE DEF k
<1>12. /\ z \in Clients /\ Core(z, cap, h, v, in)
       /\ z.sess.st = "live" => z = k
       /\ k.sess.st # "finishing" => z = k
  BY <1>11, DrainIfDoneEffect
<1> HIDE DEF z
<1>13. /\ d \in Clients /\ Core(d, cap, h, v, in)
       /\ d.play = z.play /\ d.sess = z.sess
       /\ OneByOne(z) => OneByOne(d)
  BY <1>12, CoreStart
<1> HIDE DEF d
<1>14. c.sess.st = "live" => f.sess.st = "live" /\ z = k
  <2> SUFFICES ASSUME c.sess.st = "live" PROVE f.sess.st = "live"
    BY <1>11, <1>12
  <2>1. r.sess.st = "live" /\ r.sess \in Sessions
    BY <1>1 DEF Clients
  <2>2. f.sess = Rearmed(r.sess, p) \/ f.sess = r.sess
    BY <1>5, <2>1
  <2>3. Rearmed(r.sess, p).st = r.sess.st
    BY <2>1 DEF Rearmed, Sessions
  <2> QED  BY <2>1, <2>2, <2>3
<1>15. c.sess.st = "live" <=> d.sess.st = "live"
  BY <1>1, <1>5, <1>11, <1>12, <1>13, <1>14
<1>16. OneByOne(z)
  <2> SUFFICES ASSUME z.sess.st = "live", Single(z) PROVE Alternates(z)
    BY DEF OneByOne
  <2>1. /\ c.sess.st = "live" /\ z = k /\ f.sess.st = "live"
        /\ z.pipe = r.pipe /\ z.play = p
    BY <1>1, <1>5, <1>11, <1>12
  <2>2. Single(c) /\ Single(r)
    BY <1>1, <1>2, <2>1 DEF Single
  <2>3. Alternates(c)
    BY <2>1, <2>2 DEF OneByOne
  <2>4. t \in c.pipe.turns
    BY DEF Forgettable
  <2>5. ~c.sess.turnEnded /\ ~(c.sess.armed /\ ~c.sess.talking)
    BY <2>3, <2>4 DEF Alternates
  <2>6. f.sess = c.sess
    BY <1>1, <1>5, <2>1, <2>5 DEF Rearmed
  <2>7. z.pipe.turns = {} /\ Lone(z.play)
    BY <1>1, <2>1, <2>3, <2>4 DEF Alternates
  <2>8. z.sess = Rearmed(told, p)
    BY <1>11, <2>1, <2>2
  <2>9. CASE IsBusy(p)
    <3>1. z.sess = told
      BY <2>8, <2>9 DEF Rearmed
    <3> QED  BY <1>6, <2>1, <2>5, <2>6, <2>7, <2>9, <3>1 DEF Alternates
  <2>10. CASE ~IsBusy(p)
    <3>1. ~z.sess.turnEnded /\ z.sess.armed /\ ~z.sess.talking
      BY <1>6, <2>8, <2>10 DEF Rearmed, Sessions
    <3> QED  BY <2>1, <2>7, <2>10, <3>1 DEF Alternates
  <2> QED  BY <2>9, <2>10
<1> QED  BY <1>3, <1>13, <1>15, <1>16

(* One round of enforcePendingCeiling().                                   *)
ShedOne(d, t) ==
    IF ~OverPending(d.pipe, t) THEN d
    ELSE IF d.pipe.phase[t] = "waiting" THEN Forget(d, t, "dropped_pending")
    ELSE WithPipe(d, Discard(d.pipe, t))

(* The client while it listens.                                            *)
Listens(d, cap, h, v, in) ==
    /\ d \in Clients /\ Core(d, cap, h, v, in) /\ OneByOne(d)
    /\ d.sess.st = "live"

LEMMA ShedOneEffect ==
    ASSUME NEW c, NEW cap, NEW h \in SUBSET Turns,
           NEW v \in [Turns -> Nat], NEW in \in Seq(Events),
           Listens(c, cap, h, v, in), NEW t \in Turns
    PROVE  Listens(ShedOne(c, t), cap, h, v, in)
<1>1. /\ c \in Clients /\ Core(c, cap, h, v, in) /\ OneByOne(c)
      /\ c.sess.st = "live" /\ ~Stopped(c) /\ c.pipe \in Pipes
      /\ Piped(c.pipe, cap, h, in)
  BY DEF Listens, Stopped, Clients, Core
<1>2. CASE ~OverPending(c.pipe, t)
  BY <1>2 DEF ShedOne
<1>3. CASE OverPending(c.pipe, t) /\ c.pipe.phase[t] = "waiting"
  <2>1. t \in c.pipe.turns
    BY <1>3 DEF OverPending, Sheddable
  <2>2. \A i \in DOMAIN c.pipe.asked : c.pipe.asked[i] # t
    BY <1>1, <1>3 DEF Piped, Phased
  <2>3. t \notin h
    BY <1>1, <1>3 DEF Piped, Wire, Unknown
  <2>4. "dropped_pending" \in Reasons \ {"none"}
    BY DEF Reasons
  <2>5. Forgettable(c, t, "dropped_pending", h, v)
    BY <2>1, <2>2, <2>3, <2>4 DEF Forgettable
  <2> DEFINE d == Forget(c, t, "dropped_pending")
  <2>6. /\ d \in Clients /\ Core(d, cap, h, v, in) /\ OneByOne(d)
        /\ c.sess.st = "live" <=> d.sess.st = "live"
    BY <1>1, <2>5, ForgetEffect
  <2>7. ShedOne(c, t) = d
    BY <1>3 DEF ShedOne
  <2> HIDE DEF d
  <2> QED  BY <1>1, <2>6, <2>7 DEF Listens
<1>4. CASE OverPending(c.pipe, t) /\ c.pipe.phase[t] # "waiting"
  <2> DEFINE q == Discard(c.pipe, t)
  <2> DEFINE d == WithPipe(c, q)
  <2>1. t \in c.pipe.turns
    BY <1>4 DEF OverPending, Sheddable
  <2>2. Keeps(c.pipe, q) /\ Piped(q, cap, h, in)
    BY <1>1, <2>1, DiscardEffect
  <2> HIDE DEF q
  <2>3. d \in Clients /\ Core(d, cap, h, v, in) /\ d.sess = c.sess
        /\ OneByOne(d)
    BY <1>1, <2>2, CorePipe
  <2>4. ShedOne(c, t) = d
    BY <1>4 DEF ShedOne, q
  <2> HIDE DEF d
  <2> QED  BY <1>1, <2>3, <2>4 DEF Listens
<1> QED  BY <1>2, <1>3, <1>4

(* Whatever each round keeps enforcePendingCeiling() keeps.                *)
LEMMA PendingLoop ==
    ASSUME NEW V, NEW c \in V,
           \A n \in 1 .. MaxTurns, d \in V : ShedOne(d, n) \in V
    PROVE  EnforcePendingCeiling(c) \in V
<1> DEFINE Round == [nv \in (1 .. MaxTurns) \X V |-> ShedOne(nv[2], nv[1])]
<1> DEFINE IsLoop(f) ==
        f = [n \in 0 .. MaxTurns |->
                IF n = 0 THEN c ELSE ShedOne(f[n - 1], n)]
<1> DEFINE after == CHOOSE f : IsLoop(f)
<1>1. Round \in [(1 .. MaxTurns) \X V -> V]
  OBVIOUS
<1>2. PICK f \in [0 .. MaxTurns -> V] :
          f[0] = c /\ \A n \in 1 .. MaxTurns : f[n] = Round[<<n, f[n - 1]>>]
  <2> HIDE DEF Round
  <2>1. c \in V /\ MaxTurns \in Nat
    BY MaxTurnsIsNat
  <2> QED  BY <1>1, <2>1, LoopExists, SMTT(40)
<1>3. \A n \in 1 .. MaxTurns : f[n] = ShedOne(f[n - 1], n)
  <2> TAKE n \in 1 .. MaxTurns
  <2>1. n - 1 \in 0 .. MaxTurns
    BY MaxTurnsIsNat
  <2>2. f[n - 1] \in V
    BY <1>2, <2>1
  <2> QED  BY <1>2, <2>2
<1>4. IsLoop(f)
  <2> HIDE DEF Round
  <2> QED  BY <1>2, <1>3, MaxTurnsIsNat
<1>5. IsLoop(after)
  <2> HIDE DEF IsLoop
  <2> QED  BY <1>4
<1>6. EnforcePendingCeiling(c) = after[MaxTurns]
  BY DEF EnforcePendingCeiling, ShedOne, WithPipe
<1> HIDE DEF after
<1> DEFINE S == {n \in 0 .. MaxTurns : after[n] \in V}
<1>7. 0 \in S
  BY <1>5, MaxTurnsIsNat
<1>8. ASSUME NEW n \in 1 .. MaxTurns, n - 1 \in S
      PROVE  n \in S
  BY <1>5, <1>8, MaxTurnsIsNat
<1>9. MaxTurns \in S
  <2> HIDE DEF S
  <2> QED  BY <1>7, <1>8, Climb, MaxTurnsIsNat
<1> QED  BY <1>6, <1>9

(* enforcePendingCeiling()                                                 *)
LEMMA PendingEffect ==
    ASSUME NEW c, NEW cap, NEW h \in SUBSET Turns,
           NEW v \in [Turns -> Nat], NEW in \in Seq(Events),
           Listens(c, cap, h, v, in)
    PROVE  Listens(EnforcePendingCeiling(c), cap, h, v, in)
<1> DEFINE V == {d \in Clients : Listens(d, cap, h, v, in)}
<1>1. \A n \in 1 .. MaxTurns, d \in V : ShedOne(d, n) \in V
  <2> TAKE n \in 1 .. MaxTurns, d \in V
  <2>1. Listens(ShedOne(d, n), cap, h, v, in)
    BY ShedOneEffect DEF Turns
  <2> QED  BY <2>1 DEF Listens
<1>2. c \in V
  BY DEF Listens
<1>3. EnforcePendingCeiling(c) \in V
  <2> HIDE DEF V
  <2> QED  BY <1>1, <1>2, PendingLoop
<1> QED  BY <1>3

-----------------------------------------------------------------------------
(***************************************************************************)
(* From a client to the next state.                                        *)
(***************************************************************************)
LEMMA BecomesEffect ==
    ASSUME NEW c \in Clients, Becomes(c)
    PROVE  Client' = c
BY DEF Becomes, Client, Clients

LEMMA Renewed ==
    ASSUME Typed, mode' = mode, NEW c \in Clients, Client' = c,
           captured' \in [Turns -> Nat], voiced' \in [Turns -> Nat],
           held' \subseteq Turns, inbox' \in Seq(Events),
           tally' \in [refusals : Nat, faults : Nat, asks : Nat],
           mode.faults = 0 => tally'.faults = 0,
           Stopped(c) => held' = {} /\ inbox' = <<>>,
           Core(c, captured', held', voiced', inbox'), OneByOne(c)
    PROVE  IInv'
<1>1. Typed'
  BY DEF Typed
<1>2. Core(Client, captured, held, voiced, inbox)'
  <2> USE DEF Core, Piped
  <2> QED  OBVIOUS
<1>3. OneByOne(Client)'
  OBVIOUS
<1> QED  BY <1>1, <1>2, <1>3 DEF IInv

LEMMA CoreOfTheStopped ==
    ASSUME NEW c, Stopped(c), NEW cap, NEW h, NEW v, NEW in,
           Core(c, cap, h, v, in), NEW ncap, NEW nh, NEW nv, NEW nin
    PROVE  Core(c, ncap, nh, nv, nin)
BY DEF Core

(* A run that stops hangs up.                                              *)
LEMMA HungUp ==
    ASSUME Typed, NEW c \in Clients, Becomes(c), HangUp(c),
           mode' = mode, captured' = captured, voiced' = voiced,
           tally' = tally, Core(c, captured, held, voiced, inbox),
           OneByOne(c)
    PROVE  IInv'
<1>1. Client' = c
  BY BecomesEffect
<1>2. CASE Stopped(c)
  <2>1. held' = {} /\ inbox' = <<>>
    BY <1>2 DEF HangUp
  <2>2. Core(c, captured', held', voiced', inbox')
    BY <1>2, CoreOfTheStopped
  <2> QED  BY <1>1, <2>1, <2>2, Renewed DEF Typed
<1>3. CASE ~Stopped(c)
  <2>1. held' = held /\ inbox' = inbox
    BY <1>3 DEF HangUp
  <2>2. Core(c, captured', held', voiced', inbox')
    BY <2>1
  <2> QED  BY <1>1, <1>3, <2>1, <2>2, Renewed DEF Typed
<1> QED  BY <1>2, <1>3

(* The next tiding was read.                                               *)
LEMMA Taken ==
    ASSUME Typed, NEW c \in Clients, Takes(c), inbox # <<>>,
           Core(c, captured, held, voiced, Tail(inbox)), OneByOne(c)
    PROVE  IInv'
<1>1. /\ Client' = c /\ mode' = mode /\ captured' = captured
      /\ voiced' = voiced /\ tally' = tally
  BY BecomesEffect DEF Takes
<1>2. CASE Stopped(c)
  <2>1. held' = {} /\ inbox' = <<>>
    BY <1>2 DEF Takes
  <2>2. Core(c, captured', held', voiced', inbox')
    BY <1>2, CoreOfTheStopped
  <2> QED  BY <1>1, <2>1, <2>2, Renewed DEF Typed
<1>3. CASE ~Stopped(c)
  <2>1. held' = held /\ inbox' = Tail(inbox)
    BY <1>3 DEF Takes
  <2>2. Core(c, captured', held', voiced', inbox')
    BY <1>1, <2>1
  <2>3. inbox' \in Seq(Events)
    BY <2>1 DEF Typed
  <2> QED  BY <1>1, <1>3, <2>1, <2>2, <2>3, Renewed DEF Typed
<1> QED  BY <1>2, <1>3

LEMMA Here ==
    ASSUME IInv
    PROVE  /\ Client \in Clients /\ Typed /\ OneByOne(Client)
           /\ Core(Client, captured, held, voiced, inbox)
           /\ Client.pipe = pipe /\ Client.play = play /\ Client.sess = sess
           /\ pipe \in Pipes /\ play \in Players /\ sess \in Sessions
           /\ captured \in [Turns -> Nat] /\ voiced \in [Turns -> Nat]
           /\ held \in SUBSET Turns /\ inbox \in Seq(Events)
           /\ Stopped(Client) => held = {} /\ inbox = <<>>
           /\ Stopped(Client) <=> sess.st = "stopped"
           /\ ~Stopped(Client) =>
                  /\ Audible(play) /\ Piped(pipe, captured, held, inbox)
                  /\ Ended(pipe, play, {}) /\ Places(pipe, play)
                  /\ Framed(pipe, play, voiced, inbox)
                  /\ Filed(Client, held, voiced)
                  /\ Rows(pipe, play, owed, rows, held, voiced)
           /\ sess.talking => sess.st = "live"
<1>1. /\ Client \in Clients /\ Typed /\ OneByOne(Client)
      /\ Core(Client, captured, held, voiced, inbox)
      /\ captured \in [Turns -> Nat] /\ voiced \in [Turns -> Nat]
      /\ held \in SUBSET Turns /\ inbox \in Seq(Events)
      /\ Stopped(Client) => held = {} /\ inbox = <<>>
  BY DEF IInv, Typed
<1>2. /\ Client.pipe = pipe /\ Client.play = play /\ Client.sess = sess
      /\ Client.owed = owed /\ Client.rows = rows
  BY DEF Client
<1>3. pipe \in Pipes /\ play \in Players /\ sess \in Sessions
  BY <1>1, <1>2 DEF Clients
<1>4. Stopped(Client) <=> sess.st = "stopped"
  BY <1>2 DEF Stopped
<1>5. sess.talking => sess.st = "live"
  BY <1>1, <1>2 DEF Core
<1>6. ~Stopped(Client) =>
          /\ Audible(play) /\ Piped(pipe, captured, held, inbox)
          /\ Ended(pipe, play, {}) /\ Places(pipe, play)
          /\ Framed(pipe, play, voiced, inbox)
          /\ Filed(Client, held, voiced)
          /\ Rows(pipe, play, owed, rows, held, voiced)
  BY <1>1, <1>2 DEF Core, Tracked, Filed
<1> QED  BY <1>1, <1>2, <1>3, <1>4, <1>5, <1>6

LEMMA InitEffect == Init => IInv
<1> SUFFICES ASSUME Init PROVE IInv
  OBVIOUS
<1>1. mode \in Modes /\ mode.limit \in Nat \ {0} /\ mode.faults \in Nat
  BY ModesType DEF Init
<1>2. /\ pipe = NoTurns(mode.limit) /\ play = Silence(Turns)
      /\ pipe \in Pipes /\ play \in Players
  BY <1>1, NothingIsTyped DEF Init
<1>3. /\ sess \in Sessions /\ sess.st = "live" /\ sess.armed
      /\ ~sess.talking /\ ~sess.turnEnded
  BY DEF Init, Sessions, Causes
<1>4. owed \in [Turns -> Reasons] /\ rows \in [Turns -> Seq(Outcomes)]
  BY DEF Init, Reasons
<1>5. /\ Client \in Clients /\ Client.pipe = pipe /\ Client.play = play
      /\ Client.sess = sess /\ Client.owed = owed /\ Client.rows = rows
  BY <1>2, <1>3, <1>4 DEF Client, Clients
<1>6. ~Stopped(Client)
  BY <1>3, <1>5 DEF Stopped
<1>7. /\ captured = [t \in Turns |-> 0] /\ voiced = [t \in Turns |-> 0]
      /\ held = {} /\ inbox = <<>>
      /\ tally = [refusals |-> 0, faults |-> 0, asks |-> 0]
      /\ owed = [t \in Turns |-> "none"] /\ rows = [t \in Turns |-> <<>>]
  BY DEF Init
<1>8. Typed
  BY <1>1, <1>5, <1>6, <1>7 DEF Typed
<1>9. /\ play.queue = {} /\ play.ended = {} /\ play.released = {}
      /\ play.dropped = {} /\ play.watching = NoTurn /\ ~play.busy
      /\ play.frames = [t \in Turns |-> 0] /\ play.heard = [t \in Turns |-> 0]
      /\ play.sounding = [t \in Turns |-> 0]
  BY <1>2 DEF Silence
<1>10. Audible(play) /\ Lone(play) /\ ~IsBusy(play)
  BY <1>9 DEF Audible, Loose, Lone, IsBusy, IsPlayingTurn
<1>11. /\ pipe.turns = {} /\ pipe.phase = [t \in Turns |-> "none"]
       /\ pipe.capturing = Nobody /\ pipe.named = {} /\ pipe.asked = <<>>
       /\ pipe.reached = [t \in Turns |-> <<>>]
       /\ pipe.pending = [t \in Turns |-> <<>>]
       /\ pipe.shed = [t \in Turns |-> {}]
  BY <1>2 DEF NoTurns
<1>12. Piped(pipe, captured, held, inbox)
  <2>1. InTurn(pipe)
    <3>1. Turns \ Unopened(pipe) = {} /\ 1 .. 0 = {}
      BY <1>11 DEF Unopened
    <3> QED  BY <3>1, MaxTurnsIsNat DEF InTurn
  <2>2. Phased(pipe)
    BY <1>11 DEF Phased
  <2>3. Wire(pipe, held, inbox)
    BY <1>7, <1>11 DEF Wire, Unknown
  <2>4. Blocks(pipe, captured)
    BY <1>11 DEF Blocks
  <2>5. NoFaults(inbox) /\ Counted(pipe, held)
    BY <1>7 DEF NoFaults, Counted
  <2> QED  BY <2>1, <2>2, <2>3, <2>4, <2>5 DEF Piped
<1>13. Ended(pipe, play, {}) /\ Places(pipe, play)
  BY <1>9, <1>11 DEF Ended, Places
<1>14. Framed(pipe, play, voiced, inbox)
  <2>1. \A t \in Turns : Cardinality(Unread(inbox, t)) = 0
    BY <1>7, UnreadNone
  <2> QED  BY <1>7, <1>9, <2>1 DEF Framed
<1>15. Filed(Client, held, voiced)
  <2>1. <<>> # <<"played">> /\ <<>> # <<"no_audio">> /\ Len(<<>>) <= 1
    OBVIOUS
  <2> QED  BY <1>5, <1>7, <1>9, <1>11, <2>1 DEF Filed, Rows, Closed
<1>16. Core(Client, captured, held, voiced, inbox)
  BY <1>3, <1>5, <1>6, <1>7, <1>10, <1>12, <1>13, <1>14, <1>15
     DEF Core, Tracked
<1>17. OneByOne(Client)
  BY <1>3, <1>5, <1>10, <1>11 DEF OneByOne, Alternates
<1> QED  BY <1>8, <1>16, <1>17 DEF IInv

-----------------------------------------------------------------------------
(***************************************************************************)
(* The loudspeaker and its timers.                                         *)
(***************************************************************************)

(* A client that answers one turn at a time, when playback moved.          *)
LEMMA AlternatesOn ==
    ASSUME NEW c \in Clients, Alternates(c), Audible(c.play),
           Ended(c.pipe, c.play, {}), NEW p \in Players, Audible(p), Lone(p),
           p.queue \subseteq c.play.queue, NEW r,
           r.pipe.turns = c.pipe.turns, r.play = p,
           r.sess = IF c.play.busy /\ ~p.busy THEN Rearmed(c.sess, p)
                    ELSE c.sess
    PROVE  Alternates(r)
<1>1. c.play \in Players /\ c.sess \in Sessions
  BY DEF Clients
<1>2. IsBusy(p) <=> p.queue # {}
  BY DEF Audible, Loose, IsBusy, IsPlayingTurn, Players
<1>3. IsBusy(c.play) <=> c.play.queue # {}
  BY <1>1 DEF Audible, Loose, IsBusy, IsPlayingTurn, Players
<1>4. \A t, u \in r.pipe.turns : t = u
  BY DEF Alternates
<1>5. CASE c.sess.turnEnded /\ IsBusy(p)
  <2>1. r.sess = c.sess
    BY <1>5 DEF Rearmed
  <2> QED  BY <1>4, <1>5, <2>1 DEF Alternates
<1>6. CASE c.sess.turnEnded /\ ~IsBusy(p)
  <2>1. c.pipe.turns = {} /\ c.play.queue # {}
    BY <1>3, <1>6 DEF Alternates
  <2>2. c.play.ended # {}
    BY <2>1 DEF Ended
  <2>3. c.play.busy /\ ~p.busy
    BY <1>2, <1>6, <2>2 DEF Alternates, Lone, Audible
  <2>4. ~r.sess.turnEnded /\ r.sess.armed /\ ~r.sess.talking
    BY <1>1, <1>6, <2>3 DEF Rearmed, Sessions
  <2> QED  BY <1>6, <2>1, <2>4 DEF Alternates
<1>7. CASE ~c.sess.turnEnded
  <2>1. r.sess = c.sess
    BY <1>7 DEF Rearmed
  <2>2. IsBusy(p) => IsBusy(c.play)
    BY <1>2, <1>3
  <2> QED  BY <1>4, <1>7, <2>1, <2>2 DEF Alternates
<1> QED  BY <1>5, <1>6, <1>7

LEMMA PlaysKeeps ==
    ASSUME NEW c \in Clients, ~Stopped(c), NEW cap, NEW h \in SUBSET Turns,
           NEW v \in [Turns -> Nat], NEW in, NEW b, NEW p,
           Piped(c.pipe, cap, h, in), Turned(c, b, p, {}, h, v, in),
           Audible(c.play), Ended(c.pipe, c.play, {}), OneByOne(c),
           Lone(c.play) => Lone(p), p.queue \subseteq c.play.queue
    PROVE  LET r == Plays(c, p)
           IN  r \in Clients /\ Core(r, cap, h, v, in) /\ OneByOne(r)
<1> DEFINE r == Plays(c, p)
<1>1. /\ r \in Clients /\ Core(r, cap, h, v, in)
      /\ r.sess.st = "live" => c.sess.st = "live"
      /\ c.sess.st = "live" =>
             /\ r.pipe = c.pipe /\ r.play = p
             /\ r.sess = IF Single(c) /\ c.play.busy /\ ~p.busy
                         THEN Rearmed(c.sess, p) ELSE c.sess
  BY PlaysEffect
<1> HIDE DEF r
<1>2. OneByOne(r)
  <2> SUFFICES ASSUME r.sess.st = "live", Single(r) PROVE Alternates(r)
    BY DEF OneByOne
  <2>1. c.sess.st = "live" /\ Single(c)
    BY <1>1 DEF Single
  <2>2. Alternates(c)
    BY <2>1 DEF OneByOne
  <2>3. p \in Players /\ Audible(p) /\ Lone(p)
    BY <2>2 DEF Alternates, Turned
  <2>4. /\ r.pipe.turns = c.pipe.turns /\ r.play = p
        /\ r.sess = IF c.play.busy /\ ~p.busy THEN Rearmed(c.sess, p)
                    ELSE c.sess
    BY <1>1, <2>1
  <2> QED  BY <2>2, <2>3, <2>4, AlternatesOn
<1> QED  BY <1>1, <1>2 DEF r

LEMMA PlaysOnEffect ==
    ASSUME IInv, ~Stopped(Client), NEW p \in Players, Audible(p),
           Moves(play, p, {}), Lone(play) => Lone(p), PlaysOn(p)
    PROVE  IInv'
<1> DEFINE c == Client
<1> DEFINE r == Plays(c, p)
<1>1. /\ c \in Clients /\ Typed /\ OneByOne(c)
      /\ c.pipe = pipe /\ c.play = play /\ c.sess = sess
      /\ play \in Players /\ pipe \in Pipes
      /\ voiced \in [Turns -> Nat] /\ held \in SUBSET Turns
      /\ Audible(play) /\ Piped(pipe, captured, held, inbox)
      /\ Ended(pipe, play, {}) /\ Places(pipe, play)
      /\ Framed(pipe, play, voiced, inbox)
      /\ Filed(c, held, voiced)
      /\ sess.talking => sess.st = "live"
  BY Here
<1> HIDE DEF c
<1>2. Turned(c, c.play, p, {}, held, voiced, inbox)
  <2>1. \A t \in Turns \ play.queue : play.frames[t] = 0
    BY <1>1 DEF Audible, Loose, Players
  <2> QED  BY <1>1, <2>1 DEF Turned, Filed
<1>3. /\ Piped(c.pipe, captured, held, inbox) /\ ~Stopped(c)
      /\ Audible(c.play) /\ Ended(c.pipe, c.play, {})
      /\ Lone(c.play) => Lone(p)
      /\ p.queue \subseteq c.play.queue
  BY <1>1 DEF c, Moves
<1>4. /\ Becomes(r) /\ HangUp(r) /\ mode' = mode /\ captured' = captured
      /\ voiced' = voiced /\ tally' = tally
  BY DEF PlaysOn, c
<1>5. r \in Clients /\ Core(r, captured, held, voiced, inbox) /\ OneByOne(r)
  <2>1. /\ c \in Clients /\ held \in SUBSET Turns /\ voiced \in [Turns -> Nat]
        /\ OneByOne(c)
    BY <1>1
  <2> QED  BY <1>2, <1>3, <2>1, PlaysKeeps
<1> HIDE DEF r
<1> QED  BY <1>1, <1>4, <1>5, HungUp

LEMMA LoudspeakerEffect ==
    ASSUME IInv, Loudspeaker
    PROVE  IInv'
<1>1. play \in Players /\ (~Stopped(Client) => Audible(play))
      /\ (Stopped(Client) => play = Silence(Turns))
  <2>1. Stopped(Client) => play = Silence(Turns)
    BY Here DEF Core, Silent
  <2> QED  BY <2>1, Here
<1>2. ASSUME NEW t \in Turns, ChunkIsHeard(t) PROVE IInv'
  <2>1. play.sounding[t] > 0 /\ PlaysOn(ChunkEnds(play, t))
    BY <1>2 DEF ChunkIsHeard, IsPlayingTurn
  <2>2. ~Stopped(Client)
    BY <1>1, <2>1 DEF Silence
  <2> DEFINE p == ChunkEnds(play, t)
  <2>3. /\ p \in Players /\ Audible(p) /\ Moves(play, p, {})
        /\ Lone(play) => Lone(p)
    BY <1>1, <2>1, <2>2, ChunkEffect
  <2> HIDE DEF p
  <2> QED  BY <2>1, <2>2, <2>3, PlaysOnEffect DEF p
<1>3. ASSUME NEW t \in Turns, DrainReport(t) PROVE IInv'
  <2>1. t \in play.due /\ PlaysOn(DrainCheck(play, t))
    BY <1>3 DEF DrainReport
  <2>2. ~Stopped(Client)
    BY <1>1, <2>1 DEF Silence
  <2> DEFINE p == DrainCheck(play, t)
  <2>3. /\ p \in Players /\ Audible(p) /\ Moves(play, p, {})
        /\ Lone(play) => Lone(p)
    BY <1>1, <2>2, DrainEffect
  <2> HIDE DEF p
  <2> QED  BY <2>1, <2>2, <2>3, PlaysOnEffect DEF p
<1>4. CASE StallTimer
  <2>1. play.watching # NoTurn /\ PlaysOn(Stall(play))
    BY <1>4 DEF StallTimer
  <2>2. ~Stopped(Client)
    BY <1>1, <2>1 DEF Silence
  <2> DEFINE p == Stall(play)
  <2>3. /\ p \in Players /\ Audible(p) /\ Moves(play, p, {})
        /\ Lone(play) => Lone(p)
    BY <1>1, <2>1, <2>2, StallEffect
  <2> HIDE DEF p
  <2> QED  BY <2>1, <2>2, <2>3, PlaysOnEffect DEF p
<1> QED  BY <1>2, <1>3, <1>4 DEF Loudspeaker

-----------------------------------------------------------------------------
(***************************************************************************)
(* Ending.                                                                 *)
(***************************************************************************)
WithSess(c, s) == [c EXCEPT !.sess = s]

LEMMA WithSessEffect ==
    ASSUME NEW c \in Clients, NEW cap, NEW h, NEW v, NEW in,
           Core(c, cap, h, v, in), NEW s \in Sessions,
           s.st = "stopped" <=> c.sess.st = "stopped",
           s.talking => s.st = "live",
           s.st = "stopped" => ~s.talking /\ ~s.grace /\ s.blocks = 0
    PROVE  LET d == WithSess(c, s)
           IN  /\ d \in Clients /\ Core(d, cap, h, v, in)
               /\ d.pipe = c.pipe /\ d.play = c.play /\ d.sess = s
               /\ /\ OneByOne(c)
                  /\ s.st = "live" =>
                         /\ c.sess.st = "live" /\ s.armed = c.sess.armed
                         /\ s.talking = c.sess.talking
                         /\ s.turnEnded = c.sess.turnEnded
                  => OneByOne(d)
<1> DEFINE d == WithSess(c, s)
<1>1. /\ d \in Clients /\ d.sess = s /\ d.pipe = c.pipe
      /\ d.play = c.play /\ d.owed = c.owed /\ d.rows = c.rows
  BY DEF WithSess, Clients
<1> HIDE DEF d
<1>2. Aside(c, d)
  BY <1>1 DEF Aside, Stopped
<1>3. Core(d, cap, h, v, in)
  BY <1>2, AsideIsSound
<1>4. ASSUME OneByOne(c),
             s.st = "live" =>
                 /\ c.sess.st = "live" /\ s.armed = c.sess.armed
                 /\ s.talking = c.sess.talking
                 /\ s.turnEnded = c.sess.turnEnded
      PROVE  OneByOne(d)
  BY <1>1, <1>4 DEF OneByOne, Alternates, Single
<1> QED  BY <1>1, <1>3, <1>4 DEF d

(* stop(), whatever it was called for.                                     *)
LEMMA StopsAs ==
    ASSUME IInv, ~Stopped(Client), NEW cause \in Causes,
           EndsAs(Stop(Client, cause)), tally' = tally
    PROVE  IInv'
<1> DEFINE r == Stop(Client, cause)
<1>1. /\ Client \in Clients /\ Typed /\ Filed(Client, held, voiced)
      /\ held \in SUBSET Turns /\ voiced \in [Turns -> Nat]
  BY Here
<1>2. r \in Clients /\ Stopped(r) /\ Core(r, captured, held, voiced, inbox)
  BY <1>1, StopEffect
<1>3. Becomes(r) /\ HangUp(r) /\ mode' = mode /\ captured' = captured
      /\ voiced' = voiced
  BY DEF EndsAs
<1> HIDE DEF r
<1>4. OneByOne(r)
  BY <1>2 DEF OneByOne, Stopped
<1> QED  BY <1>1, <1>2, <1>3, <1>4, HungUp

(* completeDrainIfDone() ends the call.                                    *)
LEMMA DrainsAs ==
    ASSUME Typed, NEW c \in Clients,
           Core(c, captured, held, voiced, inbox), OneByOne(c),
           EndsAs(CompleteDrainIfDone(c)), tally' = tally
    PROVE  IInv'
<1> DEFINE r == CompleteDrainIfDone(c)
<1>1. held \in SUBSET Turns /\ voiced \in [Turns -> Nat]
  BY DEF Typed
<1>2. /\ r \in Clients /\ Core(r, captured, held, voiced, inbox)
      /\ r.sess.st = "live" => r = c
  BY <1>1, DrainIfDoneEffect
<1>3. Becomes(r) /\ HangUp(r) /\ mode' = mode /\ captured' = captured
      /\ voiced' = voiced
  BY DEF EndsAs
<1> HIDE DEF r
<1>4. OneByOne(r)
  BY <1>2 DEF OneByOne
<1> QED  BY <1>2, <1>3, <1>4, HungUp

LEMMA PressEndEffect ==
    ASSUME IInv, PressEnd
    PROVE  IInv'
<1>1. /\ Client \in Clients /\ Typed /\ OneByOne(Client)
      /\ Core(Client, captured, held, voiced, inbox)
      /\ Client.pipe = pipe /\ Client.sess = sess
      /\ pipe \in Pipes /\ sess \in Sessions
      /\ held \in SUBSET Turns /\ inbox \in Seq(Events)
      /\ tally' = tally
  BY Here DEF PressEnd
<1>2. CASE sess.st = "finishing" /\ EndsAs(Stop(Client, "pressed"))
  <2>1. "pressed" \in Causes /\ ~Stopped(Client)
    BY <1>1, <1>2 DEF Causes, Stopped
  <2> QED  BY <1>1, <1>2, <2>1, StopsAs
<1>3. CASE /\ sess.st = "live"
           /\ EndsAs(CompleteDrainIfDone(
                [Client EXCEPT !.pipe = CloseCaptured(pipe, FALSE),
                               !.sess.st = "finishing",
                               !.sess.offered = FALSE,
                               !.sess.talking = FALSE,
                               !.sess.armed = TRUE]))
  <2> DEFINE q == CloseCaptured(pipe, FALSE)
  <2> DEFINE s == [sess EXCEPT !.st = "finishing", !.offered = FALSE,
                               !.talking = FALSE, !.armed = TRUE]
  <2> DEFINE c == WithPipe(Client, q)
  <2> DEFINE d == WithSess(c, s)
  <2>1. ~Stopped(Client) /\ Piped(pipe, captured, held, inbox)
    BY <1>1, <1>3 DEF Stopped, Core
  <2>2. Keeps(pipe, q) /\ Piped(q, captured, held, inbox)
    BY <1>1, <2>1, CloseCapturedEffect
  <2>3. s \in Sessions /\ s.st = "finishing" /\ ~s.talking
    BY <1>1 DEF Sessions
  <2>4. d = [Client EXCEPT !.pipe = q,
                           !.sess.st = "finishing",
                           !.sess.offered = FALSE,
                           !.sess.talking = FALSE,
                           !.sess.armed = TRUE]
    BY DEF WithPipe, WithSess, Client
  <2> HIDE DEF q, s
  <2>5. /\ c \in Clients /\ Core(c, captured, held, voiced, inbox)
        /\ c.pipe = q /\ c.sess = sess
    BY <1>1, <2>1, <2>2, CorePipe
  <2> HIDE DEF c
  <2>6. /\ d \in Clients /\ Core(d, captured, held, voiced, inbox)
        /\ d.sess = s
    BY <1>3, <2>3, <2>5, WithSessEffect
  <2>7. EndsAs(CompleteDrainIfDone(d))
    BY <1>3, <2>4 DEF q
  <2> HIDE DEF d
  <2>8. OneByOne(d)
    BY <2>3, <2>6 DEF OneByOne
  <2> QED  BY <1>1, <2>6, <2>7, <2>8, DrainsAs
<1> QED  BY <1>2, <1>3 DEF PressEnd

LEMMA SettledEffect ==
    ASSUME IInv, Settled
    PROVE  IInv'
<1> DEFINE s == [sess EXCEPT !.settling = FALSE]
<1> DEFINE c == WithSess(Client, s)
<1>1. /\ Client \in Clients /\ Typed /\ OneByOne(Client)
      /\ Core(Client, captured, held, voiced, inbox)
      /\ Client.sess = sess /\ sess \in Sessions /\ tally' = tally
      /\ sess.talking => sess.st = "live"
      /\ Stopped(Client) => held = {} /\ inbox = <<>>
  BY Here DEF Settled
<1>2. /\ s \in Sessions /\ s.st = sess.st /\ s.talking = sess.talking
      /\ s.armed = sess.armed /\ s.turnEnded = sess.turnEnded
      /\ s.grace = sess.grace /\ s.blocks = sess.blocks
  BY <1>1 DEF Sessions
<1>3. EndsAs(IF Running THEN CompleteDrainIfDone(c) ELSE c)
  <2>1. c = [Client EXCEPT !.sess.settling = FALSE]
    BY DEF WithSess, Client
  <2> QED  BY <2>1 DEF Settled
<1> HIDE DEF s
<1>4. s.st = "stopped" => ~s.talking /\ ~s.grace /\ s.blocks = 0
  BY <1>1, <1>2 DEF Core, Stopped, Silent
<1>5. /\ c \in Clients /\ Core(c, captured, held, voiced, inbox)
      /\ OneByOne(c)
  BY <1>1, <1>2, <1>4, WithSessEffect
<1> HIDE DEF c
<1>6. CASE Running
  BY <1>1, <1>3, <1>5, <1>6, DrainsAs
<1>7. CASE ~Running
  <2>1. EndsAs(c)
    BY <1>3, <1>7
  <2> QED  BY <1>1, <1>5, <2>1, HungUp DEF EndsAs
<1> QED  BY <1>6, <1>7

LEMMA AskBlockEffect ==
    ASSUME IInv, AskBlock
    PROVE  IInv'
<1> DEFINE s == [sess EXCEPT !.blocks = @ + 1]
<1> DEFINE c == WithSess(Client, s)
<1>1. /\ Client \in Clients /\ Typed /\ OneByOne(Client)
      /\ Core(Client, captured, held, voiced, inbox)
      /\ Client.sess = sess /\ sess \in Sessions
      /\ sess.talking => sess.st = "live"
      /\ sess.st # "stopped"
  BY Here DEF AskBlock, Running
<1>2. /\ s \in Sessions /\ s.st = sess.st /\ s.talking = sess.talking
      /\ s.armed = sess.armed /\ s.turnEnded = sess.turnEnded
  BY <1>1 DEF Sessions
<1>3. Becomes(c)
  <2>1. c = [Client EXCEPT !.sess.blocks = @ + 1]
    BY DEF WithSess, Client
  <2> QED  BY <2>1 DEF AskBlock
<1> HIDE DEF s
<1>4. /\ c \in Clients /\ Core(c, captured, held, voiced, inbox)
      /\ OneByOne(c) /\ c.sess = s
  BY <1>1, <1>2, WithSessEffect
<1> HIDE DEF c
<1>5. Client' = c
  BY <1>3, <1>4, BecomesEffect
<1>6. /\ mode' = mode /\ captured' = captured /\ held' = held
      /\ voiced' = voiced /\ inbox' = inbox
      /\ tally' = [tally EXCEPT !.asks = @ + 1]
  BY DEF AskBlock, serverVars
<1>7. tally' \in [refusals : Nat, faults : Nat, asks : Nat]
      /\ tally'.faults = tally.faults
  BY <1>1, <1>6 DEF Typed
<1>8. ~Stopped(c)
  BY <1>1, <1>2, <1>4 DEF Stopped
<1>9. Core(c, captured', held', voiced', inbox')
  BY <1>4, <1>6
<1> QED  BY <1>1, <1>4, <1>5, <1>6, <1>7, <1>8, <1>9, Renewed DEF Typed

LEMMA BlockTranslatedEffect ==
    ASSUME IInv, BlockTranslated
    PROVE  IInv'
<1> DEFINE s == [sess EXCEPT !.blocks = @ - 1]
<1> DEFINE c == WithSess(Client, s)
<1>1. /\ Client \in Clients /\ Typed /\ OneByOne(Client)
      /\ Core(Client, captured, held, voiced, inbox)
      /\ Client.sess = sess /\ sess \in Sessions
      /\ sess.talking => sess.st = "live"
      /\ sess.blocks > 0 /\ tally' = tally
  BY Here DEF BlockTranslated
<1>2. sess.st # "stopped"
  BY <1>1 DEF Core, Silent, Stopped
<1>3. /\ s \in Sessions /\ s.st = sess.st /\ s.talking = sess.talking
      /\ s.armed = sess.armed /\ s.turnEnded = sess.turnEnded
  BY <1>1 DEF Sessions
<1>4. EndsAs(CompleteDrainIfDone(c))
  <2>1. c = [Client EXCEPT !.sess.blocks = @ - 1]
    BY DEF WithSess, Client
  <2> QED  BY <2>1 DEF BlockTranslated
<1> HIDE DEF s
<1>5. /\ c \in Clients /\ Core(c, captured, held, voiced, inbox)
      /\ OneByOne(c)
  BY <1>1, <1>2, <1>3, WithSessEffect
<1> HIDE DEF c
<1> QED  BY <1>1, <1>4, <1>5, DrainsAs

LEMMA SocketDropsEffect ==
    ASSUME IInv, SocketDrops
    PROVE  IInv'
<1> DEFINE q == SetAside(pipe, pipe.retry, FALSE)
<1> DEFINE c == WithPipe(Client, q)
<1>1. /\ Client \in Clients /\ Typed /\ OneByOne(Client)
      /\ Core(Client, captured, held, voiced, inbox)
      /\ Client.pipe = pipe /\ Client.sess = sess /\ pipe \in Pipes
      /\ held \in SUBSET Turns /\ inbox \in Seq(Events)
      /\ ~Stopped(Client) /\ Piped(pipe, captured, held, inbox)
  BY Here DEF SocketDrops, Running
<1>2. Keeps(pipe, q) /\ Piped(q, captured, held, inbox)
  <2>1. pipe.retry \in BOOLEAN /\ FALSE \in BOOLEAN
    BY <1>1 DEF Pipes
  <2> QED  BY <1>1, <2>1, AsideEffect
<1>3. Becomes(c)
  <2>1. q = [pipe EXCEPT !.up = FALSE]
    BY <1>1 DEF Pipes, SetAside
  <2> HIDE DEF q
  <2>2. c = [Client EXCEPT !.pipe = q]
    BY DEF WithPipe
  <2>3. [Client EXCEPT !.pipe.up = FALSE] = [Client EXCEPT !.pipe = q]
    BY <2>1 DEF Client
  <2> QED  BY <2>2, <2>3 DEF SocketDrops
<1> HIDE DEF q
<1>4. /\ c \in Clients /\ Core(c, captured, held, voiced, inbox)
      /\ OneByOne(c) /\ c.sess = sess
  BY <1>1, <1>2, CorePipe
<1> HIDE DEF c
<1>5. Client' = c /\ ~Stopped(c)
  BY <1>1, <1>3, <1>4, BecomesEffect DEF Stopped
<1>6. /\ mode' = mode /\ captured' = captured /\ held' = held
      /\ voiced' = voiced /\ inbox' = inbox /\ tally' = tally
  BY DEF SocketDrops, serverVars
<1>7. Core(c, captured', held', voiced', inbox')
  BY <1>4, <1>6
<1> QED  BY <1>1, <1>4, <1>5, <1>6, <1>7, Renewed DEF Typed

LEMMA EndingEffect ==
    ASSUME IInv, Ending
    PROVE  IInv'
<1>1. CASE DrainTimer
  <2>1. "timeout" \in Causes /\ ~Stopped(Client) /\ tally' = tally
    BY <1>1, Here DEF Causes, DrainTimer
  <2> QED  BY <1>1, <2>1, StopsAs DEF DrainTimer
<1>2. CASE GraceTimer
  <2>1. ~Stopped(Client)
    BY <1>2, Here DEF GraceTimer, Core, Silent
  <2>2. "grace" \in Causes
    BY DEF Causes
  <2> QED  BY <1>2, <2>1, <2>2, StopsAs DEF GraceTimer
<1>3. CASE OnClosed
  <2>1. "lost" \in Causes /\ ~Stopped(Client)
    BY <1>3, Here DEF Causes, OnClosed, Running
  <2> QED  BY <1>3, <2>1, StopsAs DEF OnClosed
<1> QED  BY <1>1, <1>2, <1>3, PressEndEffect, SettledEffect, AskBlockEffect,
            BlockTranslatedEffect, SocketDropsEffect DEF Ending

-----------------------------------------------------------------------------
(***************************************************************************)
(* Capture.                                                                *)
(***************************************************************************)
LEMMA CloseTurnEffect ==
    ASSUME IInv, NEW cutForced \in BOOLEAN, CloseTurn(cutForced)
    PROVE  IInv'
<1> DEFINE q == CloseCaptured(pipe, cutForced)
<1> DEFINE listens == ~Single(Client)
<1> DEFINE s == [sess EXCEPT !.talking = FALSE, !.armed = listens]
<1> DEFINE c == WithPipe(Client, q)
<1> DEFINE d == WithSess(c, s)
<1>1. /\ Client \in Clients /\ Typed /\ OneByOne(Client)
      /\ Core(Client, captured, held, voiced, inbox)
      /\ Client.pipe = pipe /\ Client.play = play /\ Client.sess = sess
      /\ pipe \in Pipes /\ sess \in Sessions
      /\ held \in SUBSET Turns /\ inbox \in Seq(Events)
      /\ sess.talking /\ sess.st = "live"
  BY Here DEF CloseTurn
<1>2. ~Stopped(Client) /\ Piped(pipe, captured, held, inbox)
  BY <1>1 DEF Stopped, Core
<1>3. Keeps(pipe, q) /\ Piped(q, captured, held, inbox)
  BY <1>1, <1>2, CloseCapturedEffect
<1>4. listens \in BOOLEAN
  BY DEF Single
<1>5. Becomes(d)
  <2>1. d = [Client EXCEPT !.pipe = q, !.sess.talking = FALSE,
                           !.sess.armed = listens]
    <3> HIDE DEF q, listens
    <3> QED  BY DEF WithPipe, WithSess, Client
  <2> HIDE DEF d
  <2> QED  BY <2>1 DEF CloseTurn
<1> HIDE DEF q, listens
<1>6. /\ s \in Sessions /\ s.st = "live" /\ ~s.talking /\ s.armed = listens
      /\ s.turnEnded = sess.turnEnded
  BY <1>1, <1>4 DEF Sessions
<1> HIDE DEF s
<1>7. /\ c \in Clients /\ Core(c, captured, held, voiced, inbox)
      /\ c.pipe = q /\ c.play = play /\ c.sess = sess
  BY <1>1, <1>2, <1>3, CorePipe
<1> HIDE DEF c
<1>8. /\ d \in Clients /\ Core(d, captured, held, voiced, inbox)
      /\ d.pipe = q /\ d.play = play /\ d.sess = s
  BY <1>1, <1>6, <1>7, WithSessEffect
<1> HIDE DEF d
<1>9. OneByOne(d)
  <2> SUFFICES ASSUME Single(d) PROVE Alternates(d)
    BY DEF OneByOne
  <2>1. Single(Client) /\ pipe.limit = q.limit /\ q.turns = pipe.turns
    BY <1>1, <1>3, <1>8 DEF Keeps, Single
  <2>2. Alternates(Client)
    BY <1>1, <2>1 DEF OneByOne
  <2>3. ~d.sess.armed /\ ~d.sess.talking /\ d.sess.turnEnded = sess.turnEnded
    BY <1>6, <1>8, <2>1 DEF listens
  <2> QED  BY <1>1, <1>8, <2>1, <2>2, <2>3 DEF Alternates
<1>10. Client' = d /\ ~Stopped(d)
  BY <1>5, <1>6, <1>8, BecomesEffect DEF Stopped
<1>11. /\ mode' = mode /\ captured' = captured /\ held' = held
       /\ voiced' = voiced /\ inbox' = inbox /\ tally' = tally
  BY DEF CloseTurn, serverVars
<1>12. Core(d, captured', held', voiced', inbox')
  BY <1>8, <1>11
<1> QED  BY <1>1, <1>8, <1>9, <1>10, <1>11, <1>12, Renewed DEF Typed

LEMMA RetryTimerEffect ==
    ASSUME IInv, RetryTimer
    PROVE  IInv'
<1> DEFINE tried == StartNextWaiting(pipe)
<1> DEFINE again == InPhase(tried, "waiting") # {}
<1> DEFINE q == SetAside(tried, again, tried.up)
<1> DEFINE c == WithPipe(Client, q)
<1>1. /\ Client \in Clients /\ Typed /\ OneByOne(Client)
      /\ Core(Client, captured, held, voiced, inbox)
      /\ Client.pipe = pipe /\ Client.sess = sess /\ pipe \in Pipes
      /\ held \in SUBSET Turns /\ inbox \in Seq(Events)
  BY Here
<1>2. ~Stopped(Client) /\ Piped(pipe, captured, held, inbox)
  <2>1. pipe.retry
    BY DEF RetryTimer
  <2>2. ~Stopped(Client)
    BY <1>1, <2>1 DEF Core, Silent, NoTurns
  <2> QED  BY <1>1, <2>2 DEF Core
<1>3. Keeps(pipe, tried) /\ Piped(tried, captured, held, inbox)
      /\ tried \in Pipes
  <2>1. Sends(pipe, tried)
    BY <1>1, <1>2, StartNextEffect DEF Piped
  <2> HIDE DEF tried
  <2> QED  BY <1>1, <1>2, <2>1, SendsEffect DEF Sends
<1>4. c = [Client EXCEPT !.pipe = Retry(pipe)]
  <2> DEFINE w == tried
  <2>1. Retry(pipe) = [w EXCEPT !.retry = InPhase(w, "waiting") # {}]
    BY DEF Retry
  <2> HIDE DEF w
  <2>2. [w EXCEPT !.retry = InPhase(w, "waiting") # {}]
            = SetAside(w, InPhase(w, "waiting") # {}, w.up)
    BY <1>3 DEF SetAside, Pipes, w
  <2> QED  BY <2>1, <2>2 DEF WithPipe, w
<1> HIDE DEF tried
<1>5. Keeps(tried, q) /\ Piped(q, captured, held, inbox)
  <2>1. again \in BOOLEAN /\ tried.up \in BOOLEAN
    BY <1>3 DEF Pipes
  <2> HIDE DEF again
  <2> QED  BY <1>1, <1>3, <2>1, AsideEffect
<1> HIDE DEF q
<1>6. Keeps(pipe, q)
  BY <1>3, <1>5 DEF Keeps
<1>7. /\ c \in Clients /\ Core(c, captured, held, voiced, inbox)
      /\ OneByOne(c) /\ c.sess = sess
  <2>1. Keeps(Client.pipe, q) /\ Piped(q, captured, held, inbox)
    BY <1>1, <1>5, <1>6
  <2>2. /\ Client \in Clients /\ ~Stopped(Client) /\ OneByOne(Client)
        /\ Core(Client, captured, held, voiced, inbox)
    BY <1>1, <1>2
  <2>3. /\ c \in Clients /\ Core(c, captured, held, voiced, inbox)
        /\ c.sess = Client.sess /\ (OneByOne(Client) => OneByOne(c))
    BY <2>1, <2>2, CorePipe
  <2> HIDE DEF c
  <2> QED  BY <1>1, <2>2, <2>3
<1>8. Becomes(c)
  BY <1>4 DEF RetryTimer
<1> HIDE DEF c
<1>9. Client' = c /\ ~Stopped(c)
  BY <1>1, <1>2, <1>7, <1>8, BecomesEffect DEF Stopped
<1>10. /\ mode' = mode /\ captured' = captured /\ held' = held
       /\ voiced' = voiced /\ inbox' = inbox /\ tally' = tally
  BY DEF RetryTimer, serverVars
<1>11. Core(c, captured', held', voiced', inbox')
  BY <1>7, <1>10
<1> QED  BY <1>1, <1>7, <1>9, <1>10, <1>11, Renewed DEF Typed

LEMMA PushAudioEffect ==
    ASSUME IInv, PushAudio
    PROVE  IInv'
<1> DEFINE t == pipe.capturing
<1> DEFINE block == captured[t] + 1
<1> DEFINE q == TakeBlock(pipe, t, block)
<1> DEFINE ncap == [captured EXCEPT ![t] = captured[t] + 1]
<1> DEFINE c == WithPipe(Client, q)
<1> DEFINE d == IF q.pending[t] = <<>> THEN c ELSE EnforcePendingCeiling(c)
<1>1. /\ Client \in Clients /\ Typed /\ OneByOne(Client)
      /\ Core(Client, captured, held, voiced, inbox)
      /\ Client.pipe = pipe /\ Client.sess = sess /\ pipe \in Pipes
      /\ captured \in [Turns -> Nat] /\ voiced \in [Turns -> Nat]
      /\ held \in SUBSET Turns /\ inbox \in Seq(Events)
      /\ sess.st = "live" /\ t # Nobody
  BY Here DEF PushAudio
<1>2. ~Stopped(Client) /\ Piped(pipe, captured, held, inbox)
  BY <1>1 DEF Stopped, Core
<1>3. t \in pipe.turns /\ t \in Turns
  BY <1>1, <1>2 DEF Piped, Phased, Pipes
<1>4. block \in Nat
  BY <1>1, <1>3
<1>5. Extends(pipe, q, t, captured[t] + 1)
  BY <1>1, <1>3, <1>4, TakeBlockEffect
<1>6. Becomes(d) /\ captured' = ncap
  <2>1. c = [Client EXCEPT !.pipe = q] /\ c.pipe = q
    BY DEF WithPipe, Client
  <2> HIDE DEF q, c
  <2> QED  BY <2>1 DEF PushAudio, q
<1> HIDE DEF q, t
<1>7. Keeps(pipe, q) /\ Piped(q, ncap, held, inbox)
  BY <1>1, <1>2, <1>3, <1>5, ExtendsEffect
<1>8. ncap \in [Turns -> Nat]
  BY <1>1, <1>3
<1> HIDE DEF ncap
<1>9. Listens(c, ncap, held, voiced, inbox)
  <2>1. /\ c \in Clients /\ Core(c, ncap, held, voiced, inbox)
        /\ c.sess = sess /\ OneByOne(c)
    BY <1>1, <1>2, <1>7, CorePipe
  <2> QED  BY <1>1, <2>1 DEF Listens
<1> HIDE DEF c
<1>10. Listens(d, ncap, held, voiced, inbox)
  BY <1>1, <1>9, PendingEffect
<1> HIDE DEF d
<1>11. /\ d \in Clients /\ Core(d, ncap, held, voiced, inbox)
       /\ OneByOne(d) /\ ~Stopped(d)
  BY <1>10 DEF Listens, Stopped
<1>12. Client' = d
  BY <1>6, <1>11, BecomesEffect
<1>13. /\ mode' = mode /\ held' = held
       /\ voiced' = voiced /\ inbox' = inbox /\ tally' = tally
  BY DEF PushAudio, serverVars
<1>14. Core(d, captured', held', voiced', inbox')
  BY <1>6, <1>11, <1>13
<1> QED  BY <1>1, <1>6, <1>8, <1>11, <1>12, <1>13, <1>14, Renewed DEF Typed

(* The next turn to be opened is the first that was not.                   *)
LEMMA NextToOpen ==
    ASSUME IInv, ~Stopped(Client), Opened < mode.turns
    PROVE  /\ Opened \in 0 .. MaxTurns /\ Turns \ Unopened(pipe) = 1 .. Opened
           /\ Opened + 1 \in Turns
<1>1. InTurn(pipe)
  BY Here DEF Piped
<1>2. PICK n \in 0 .. MaxTurns : Turns \ Unopened(pipe) = 1 .. n
  BY <1>1 DEF InTurn
<1>3. {t \in Turns : pipe.phase[t] # "none"} = 1 .. n
  BY <1>2 DEF Unopened
<1>4. Cardinality(1 .. n) = n
  <2>1. n \in Nat
    BY <1>2, MaxTurnsIsNat
  <2> QED  BY <2>1, FS_Interval
<1>5. Opened = n
  BY <1>3, <1>4 DEF Opened
<1>6. mode.turns \in 0 .. MaxTurns
  BY Here, ModesType DEF Typed
<1> QED  BY <1>2, <1>5, <1>6, MaxTurnsIsNat DEF Turns

(* The place of the turn that is opened in playback.                       *)
Placed(p, t) == [p EXCEPT !.queue = @ \cup {t}]

LEMMA OpenTurned ==
    ASSUME NEW c \in Clients, NEW d \in Clients, NEW cap, NEW h \in SUBSET Turns,
           NEW v, NEW in, Core(c, cap, h, v, in), ~Stopped(c),
           NEW t \in Turns, c.pipe.phase[t] = "none",
           \A u \in Turns : u < t <=> c.pipe.phase[u] # "none",
           d.pipe.turns = c.pipe.turns \cup {t}, d.pipe.phase[t] = "waiting",
           d.pipe.named = c.pipe.named,
           \A u \in Turns \ {t} : d.pipe.phase[u] = c.pipe.phase[u],
           d.play = c.play, d.owed = c.owed, d.rows = c.rows,
           d.sess.st = "live"
    PROVE  LET p == Open(c.play, t)
           IN  /\ p \in Players /\ Audible(p)
               /\ c.play.queue = {} => Lone(p)
               /\ Turned(d, Placed(c.play, t), p, {}, h, v, in)
<1> DEFINE p == Open(c.play, t)
<1> DEFINE b == Placed(c.play, t)
<1>1. /\ c.pipe \in Pipes /\ c.play \in Players /\ Audible(c.play)
      /\ Piped(c.pipe, cap, h, in) /\ Ended(c.pipe, c.play, {})
      /\ Places(c.pipe, c.play) /\ Framed(c.pipe, c.play, v, in)
      /\ Rows(c.pipe, c.play, c.owed, c.rows, h, v)
  BY DEF Core, Tracked, Filed, Clients
<1>2. t \notin c.play.dropped /\ t \notin c.play.queue
  BY <1>1 DEF Places, Unopened
<1>3. \A u \in c.play.queue : u < t
  <2> TAKE u \in c.play.queue
  <2>1. u \in Turns /\ u \notin Unopened(c.pipe)
    BY <1>1 DEF Places, Players
  <2> QED  BY <2>1 DEF Unopened
<1>4. /\ p \in Players /\ Audible(p) /\ t \in p.queue
      /\ Moves(b, p, {})
      /\ c.play.queue = {} => Lone(p)
  BY <1>1, <1>2, <1>3, OpenEffect DEF Placed
<1>5. /\ b \in Players /\ b.queue = c.play.queue \cup {t}
      /\ b.ended = c.play.ended /\ b.dropped = c.play.dropped
      /\ b.frames = c.play.frames /\ b.heard = c.play.heard
  BY <1>1 DEF Placed, Players
<1> HIDE DEF p, b
<1>6. Unopened(d.pipe) = Unopened(c.pipe) \ {t}
  BY DEF Unopened
<1>7. Places(d.pipe, b)
  BY <1>1, <1>2, <1>5, <1>6 DEF Places
<1>8. Ended(d.pipe, b, {})
  BY <1>1, <1>2, <1>5 DEF Ended, Audible, Loose
<1>9. Framed(d.pipe, b, v, in)
  <2> SUFFICES ASSUME NEW u \in Turns \ b.dropped, d.pipe.phase[u] # "gone"
      PROVE  b.heard[u] + b.frames[u] + Cardinality(Unread(in, u)) = v[u]
    BY DEF Framed
  <2>1. c.pipe.phase[u] # "gone"
    OBVIOUS
  <2> QED  BY <1>1, <1>5, <2>1 DEF Framed
<1>10. Rows(d.pipe, b, d.owed, d.rows, h, v)
  <2> SUFFICES ASSUME NEW u \in Turns
      PROVE  /\ d.owed[u] # "none" <=> Closed(d.pipe, u) /\ u \in b.queue
             /\ d.rows[u] # <<>> <=> Closed(d.pipe, u) /\ u \notin b.queue
             /\ Len(d.rows[u]) <= 1
             /\ d.owed[u] = "completed" =>
                    u \notin h /\ b.heard[u] + b.frames[u] = v[u]
             /\ d.rows[u] = <<"played">> => u \notin h /\ b.heard[u] = v[u]
             /\ d.rows[u] = <<"no_audio">> => u \notin h /\ v[u] = 0
    BY DEF Rows
  <2>1. Closed(d.pipe, u) <=> Closed(c.pipe, u)
    BY DEF Closed
  <2>2. u = t => ~Closed(c.pipe, u)
    BY DEF Closed
  <2> QED  BY <1>1, <1>5, <2>1, <2>2 DEF Rows
<1>11. \A u \in Turns \ b.queue : b.frames[u] = 0
  BY <1>1, <1>5 DEF Audible, Loose, Players
<1>12. d.play.queue \ p.queue = b.queue \ p.queue
  BY <1>4, <1>5
<1>13. Turned(d, b, p, {}, h, v, in)
  BY <1>4, <1>5, <1>7, <1>8, <1>9, <1>10, <1>11, <1>12 DEF Turned
<1> QED  BY <1>4, <1>13 DEF p, b

LEMMA OpenTurnEffect ==
    ASSUME IInv, NEW soon \in BOOLEAN, OpenTurn(soon)
    PROVE  IInv'
<1> DEFINE n == Opened
<1> DEFINE t == n + 1
<1> DEFINE q == Claim(pipe, t, soon)
<1> DEFINE s == [sess EXCEPT !.talking = TRUE]
<1> DEFINE ncap == FirstBlock(captured, t)
<1> DEFINE d == WithSess(WithPipe(Client, q), s)
<1> DEFINE p == Open(play, t)
<1> DEFINE r == Plays(d, p)
<1> DEFINE w == TryStart(r.pipe, t)
<1> DEFINE e == WithPipe(r, w)
<1>1. /\ Client \in Clients /\ Typed /\ OneByOne(Client)
      /\ Core(Client, captured, held, voiced, inbox)
      /\ Client.pipe = pipe /\ Client.play = play /\ Client.sess = sess
      /\ pipe \in Pipes /\ play \in Players /\ sess \in Sessions
      /\ captured \in [Turns -> Nat] /\ voiced \in [Turns -> Nat]
      /\ held \in SUBSET Turns /\ inbox \in Seq(Events)
      /\ sess.st = "live" /\ sess.armed /\ ~sess.talking
      /\ Opened < mode.turns
  BY Here DEF OpenTurn
<1>2. /\ ~Stopped(Client) /\ Piped(pipe, captured, held, inbox)
      /\ Audible(play)
  BY <1>1 DEF Stopped, Core
<1>3. /\ n \in 0 .. MaxTurns /\ Turns \ Unopened(pipe) = 1 .. n
      /\ t \in Turns
  BY <1>1, <1>2, NextToOpen
<1>4. Becomes(e) /\ captured' = ncap
  <2> DEFINE claimed == [Client EXCEPT !.pipe = q, !.sess.talking = TRUE]
  <2>1. claimed = d
    <3> HIDE DEF q
    <3> QED  BY DEF WithPipe, WithSess, Client
  <2>2. e = [Plays(claimed, p) EXCEPT !.pipe = TryStart(@, t)]
    <3> HIDE DEF d, claimed, p, t
    <3> QED  BY <2>1 DEF WithPipe
  <2> HIDE DEF e, n
  <2>3. captured' = ncap
    BY DEF OpenTurn, n, FirstBlock
  <2>4. Becomes([Plays(claimed, p) EXCEPT !.pipe = TryStart(@, t)])
    BY DEF OpenTurn, n
  <2> QED  BY <2>2, <2>3, <2>4
<1>5. /\ q \in Pipes /\ q.turns = pipe.turns \cup {t}
      /\ q.limit = pipe.limit /\ q.named = pipe.named
      /\ pipe.phase[t] = "none" /\ q.phase[t] = "waiting"
      /\ \A u \in Turns \ {t} : q.phase[u] = pipe.phase[u]
      /\ Piped(q, ncap, held, inbox)
  <2>1. IsNext(pipe, t)
    BY <1>3 DEF IsNext
  <2>2. /\ pipe \in Pipes /\ captured \in [Turns -> Nat]
        /\ held \in SUBSET Turns /\ inbox \in Seq(Events)
        /\ Piped(pipe, captured, held, inbox)
    BY <1>1, <1>2
  <2> HIDE DEF t
  <2>3. Claims(pipe, q, t) /\ Piped(q, ncap, held, inbox)
    BY <2>1, <2>2, ClaimEffect
  <2> QED  BY <2>3 DEF Claims
<1>6. ncap \in [Turns -> Nat]
  BY <1>1, <1>3 DEF FirstBlock
<1>7. \A u \in Turns : u < t <=> pipe.phase[u] # "none"
  <2> TAKE u \in Turns
  <2>1. u < t <=> u \in 1 .. n
    BY <1>3, MaxTurnsIsNat DEF Turns
  <2>2. u \in 1 .. n <=> u \in Turns \ Unopened(pipe)
    BY <1>3
  <2>3. u \in Turns \ Unopened(pipe) <=> pipe.phase[u] # "none"
    BY DEF Unopened
  <2> QED  BY <2>1, <2>2, <2>3
<1> HIDE DEF q, n, t, ncap
<1>8. /\ s \in Sessions /\ s.st = "live" /\ s.talking /\ s.armed
      /\ s.turnEnded = sess.turnEnded
  BY <1>1 DEF Sessions
<1> HIDE DEF s
<1>9. /\ d \in Clients /\ d.pipe = q /\ d.play = play /\ d.sess = s
      /\ d.owed = Client.owed /\ d.rows = Client.rows
  <2> DEFINE z == WithPipe(Client, q)
  <2>1. /\ z \in Clients /\ z.pipe = q /\ z.play = play
        /\ z.owed = Client.owed /\ z.rows = Client.rows
    BY <1>1, <1>5, WithPipeEffect
  <2> HIDE DEF z
  <2>2. LET y == WithSess(z, s)
        IN  /\ y \in Clients /\ y.sess = s /\ y.pipe = z.pipe
            /\ y.play = z.play /\ y.owed = z.owed /\ y.rows = z.rows
    BY <1>8, <2>1 DEF WithSess, Clients
  <2> QED  BY <2>1, <2>2 DEF z
<1> HIDE DEF d
<1>10. /\ p \in Players /\ Audible(p)
       /\ play.queue = {} => Lone(p)
       /\ Turned(d, Placed(play, t), p, {}, held, voiced, inbox)
  <2> DEFINE pp == Open(Client.play, t)
  <2>1. /\ d.pipe.turns = Client.pipe.turns \cup {t}
        /\ d.pipe.phase[t] = "waiting" /\ d.pipe.named = Client.pipe.named
        /\ Client.pipe.phase[t] = "none" /\ d.play = Client.play
        /\ d.owed = Client.owed /\ d.rows = Client.rows
        /\ d.sess.st = "live" /\ t \in Turns
    BY <1>1, <1>3, <1>5, <1>8, <1>9
  <2>2. \A u \in Turns \ {t} : d.pipe.phase[u] = Client.pipe.phase[u]
    BY <1>1, <1>5, <1>9
  <2>3. \A u \in Turns : u < t <=> Client.pipe.phase[u] # "none"
    BY <1>1, <1>7
  <2>4. /\ pp \in Players /\ Audible(pp)
        /\ Client.play.queue = {} => Lone(pp)
        /\ Turned(d, Placed(Client.play, t), pp, {}, held, voiced, inbox)
    BY <1>1, <1>2, <1>9, <2>1, <2>2, <2>3, OpenTurned
  <2> QED  BY <1>1, <2>4
<1> HIDE DEF p
<1>11. ~Stopped(d) /\ Piped(d.pipe, ncap, held, inbox)
  BY <1>5, <1>8, <1>9 DEF Stopped
<1>12. /\ r \in Clients /\ Core(r, ncap, held, voiced, inbox)
       /\ r.pipe = q /\ r.play = p
       /\ r.sess = IF Single(d) /\ d.play.busy /\ ~p.busy
                   THEN Rearmed(s, p) ELSE s
  <2>1. /\ d \in Clients /\ held \in SUBSET Turns /\ voiced \in [Turns -> Nat]
        /\ Turned(d, Placed(play, t), p, {}, held, voiced, inbox)
    BY <1>1, <1>9, <1>10
  <2> DEFINE z == Plays(d, p)
  <2>2. /\ z \in Clients /\ Core(z, ncap, held, voiced, inbox)
        /\ d.sess.st = "live" =>
               /\ z.pipe = d.pipe /\ z.play = p
               /\ z.sess = IF Single(d) /\ d.play.busy /\ ~p.busy
                           THEN Rearmed(d.sess, p) ELSE d.sess
    BY <1>11, <2>1, PlaysEffect
  <2> HIDE DEF z, r
  <2> QED  BY <1>8, <1>9, <2>2 DEF z, r
<1> HIDE DEF r
<1>13. r.sess.st = "live" /\ ~Stopped(r)
  BY <1>8, <1>12 DEF Rearmed, Sessions, Stopped
<1>14. OneByOne(r)
  <2> SUFFICES ASSUME Single(r) PROVE Alternates(r)
    BY DEF OneByOne
  <2>1. Single(Client)
    BY <1>1, <1>5, <1>12 DEF Single
  <2>2. Alternates(Client)
    BY <1>1, <2>1 DEF OneByOne
  <2>3. pipe.turns = {} /\ ~IsBusy(play)
    BY <1>1, <2>2 DEF Alternates
  <2>4. ~sess.turnEnded
    BY <1>1, <2>2, <2>3 DEF Alternates
  <2>5. play.queue = {} /\ ~play.busy
    BY <1>2, <2>3 DEF IsBusy, Audible
  <2>6. r.sess = s
    BY <1>9, <1>12, <2>5
  <2>7. r.pipe.turns = {t} /\ Lone(r.play)
    BY <1>5, <1>10, <1>12, <2>3, <2>5
  <2>8. ~r.sess.turnEnded /\ r.sess.talking
    BY <1>8, <2>4, <2>6
  <2> QED  BY <2>7, <2>8 DEF Alternates
<1>15. Keeps(q, w) /\ Piped(w, ncap, held, inbox)
  <2>1. Phased(q)
    BY <1>5 DEF Piped
  <2>2. Sends(q, w)
    BY <1>3, <1>5, <1>12, <2>1, TryStartEffect
  <2> HIDE DEF w
  <2> QED  BY <1>1, <1>5, <2>2, SendsEffect
<1> HIDE DEF w
<1>16. /\ e \in Clients /\ Core(e, ncap, held, voiced, inbox)
       /\ e.sess = r.sess /\ OneByOne(e)
  <2>1. Keeps(r.pipe, w)
    BY <1>12, <1>15
  <2> QED  BY <1>12, <1>13, <1>14, <1>15, <2>1, CorePipe
<1> HIDE DEF e
<1>17. Client' = e /\ ~Stopped(e)
  BY <1>4, <1>13, <1>16, BecomesEffect DEF Stopped
<1>18. /\ mode' = mode /\ held' = held
       /\ voiced' = voiced /\ inbox' = inbox /\ tally' = tally
  BY DEF OpenTurn, serverVars
<1>19. Core(e, captured', held', voiced', inbox')
  BY <1>4, <1>16, <1>18
<1> QED  BY <1>1, <1>4, <1>6, <1>16, <1>17, <1>18, <1>19, Renewed DEF Typed

LEMMA SpeakerEffect ==
    ASSUME IInv, Speaker
    PROVE  IInv'
BY OpenTurnEffect, PushAudioEffect, CloseTurnEffect DEF Speaker

-----------------------------------------------------------------------------
(***************************************************************************)
(* What the server tells.                                                  *)
(***************************************************************************)
LEMMA TailFacts ==
    ASSUME NEW in \in Seq(Events), in # <<>>
    PROVE  /\ Tail(in) \in Seq(Events)
           /\ 1 \in DOMAIN in /\ Head(in) = in[1] /\ in[1] \in Events
           /\ \A i \in DOMAIN Tail(in) :
                  i \in Nat /\ i >= 1 /\ i + 1 \in DOMAIN in
                      /\ Tail(in)[i] = in[i + 1]
<1>1. Len(in) \in Nat \ {0} /\ DOMAIN in = 1 .. Len(in)
  OBVIOUS
<1>2. /\ Tail(in) \in Seq(Events) /\ Len(Tail(in)) = Len(in) - 1
      /\ \A i \in 1 .. Len(in) - 1 : Tail(in)[i] = in[i + 1]
  BY <1>1, HeadTailProperties
<1>3. DOMAIN Tail(in) = 1 .. (Len(in) - 1)
  BY <1>1, <1>2
<1> QED  BY <1>1, <1>2, <1>3

(* What holds of all that was told holds once the first of it is read.     *)
LEMMA PipedTail ==
    ASSUME NEW q, NEW cap, NEW h, NEW in \in Seq(Events), in # <<>>,
           Piped(q, cap, h, in)
    PROVE  Piped(q, cap, h, Tail(in))
<1> DEFINE rest == Tail(in)
<1>1. \A i \in DOMAIN rest : i \in Nat /\ i + 1 \in DOMAIN in
                                 /\ rest[i] = in[i + 1]
  BY TailFacts
<1> HIDE DEF rest
<1>2. ASSUME NEW t, Unknown(t, h, in) PROVE Unknown(t, h, rest)
  BY <1>1, <1>2 DEF Unknown
<1>3. ASSUME NEW i \in DOMAIN rest
      PROVE  /\ rest[i].kind = "refused" =>
                    /\ rest[i].turn \notin h
                    /\ rest[i].turn \notin q.named
                    /\ \A j \in DOMAIN rest : rest[j].turn = rest[i].turn => j = i
             /\ rest[i].kind = "ready" =>
                    /\ rest[i].turn \notin q.named
                    /\ \A j \in DOMAIN rest : rest[j].turn = rest[i].turn => i <= j
             /\ rest[i].kind \in {"completed", "error"} =>
                    /\ rest[i].turn \notin h
                    /\ \A j \in DOMAIN rest : rest[j].turn = rest[i].turn => j <= i
  <2>1. /\ in[i + 1].kind = "refused" =>
               /\ in[i + 1].turn \notin h
               /\ in[i + 1].turn \notin q.named
               /\ \A j \in DOMAIN in : in[j].turn = in[i + 1].turn => j = i + 1
        /\ in[i + 1].kind = "ready" =>
               /\ in[i + 1].turn \notin q.named
               /\ \A j \in DOMAIN in : in[j].turn = in[i + 1].turn => i + 1 <= j
        /\ in[i + 1].kind \in {"completed", "error"} =>
               /\ in[i + 1].turn \notin h
               /\ \A j \in DOMAIN in : in[j].turn = in[i + 1].turn => j <= i + 1
    BY <1>1 DEF Piped, Wire
  <2>2. \A j \in DOMAIN rest :
            /\ j \in Nat /\ j + 1 \in DOMAIN in
            /\ rest[j].turn = in[j + 1].turn
    BY <1>1
  <2>3. i \in Nat /\ rest[i] = in[i + 1]
    BY <1>1
  <2> QED  BY <2>1, <2>2, <2>3
<1>4. Wire(q, h, rest)
  <2>1. \A t \in Turns :
            q.phase[t] \in {"none", "waiting"} => Unknown(t, h, rest)
    BY <1>2 DEF Piped, Wire
  <2>2. \A i \in DOMAIN q.asked : Unknown(q.asked[i], h, rest)
    BY <1>2 DEF Piped, Wire
  <2> QED  BY <1>3, <2>1, <2>2 DEF Wire
<1>5. mode.faults = 0 => NoFaults(rest) /\ Counted(q, h)
  BY <1>1 DEF Piped, NoFaults
<1> QED  BY <1>4, <1>5 DEF Piped, rest

(* The client as it reads the next tiding, which is no more on its way.    *)
LEMMA Reading ==
    ASSUME IInv, NEW kind, NEW t, Reads(kind, t)
    PROVE  /\ inbox # <<>> /\ ~Stopped(Client) /\ Tail(inbox) \in Seq(Events)
           /\ 1 \in DOMAIN inbox /\ inbox[1] = [kind |-> kind, turn |-> t]
           /\ inbox[1] = Head(inbox) /\ t \in Turns
           /\ \A i \in DOMAIN Tail(inbox) :
                  i + 1 \in DOMAIN inbox /\ i + 1 > 1
                      /\ Tail(inbox)[i] = inbox[i + 1]
           /\ Piped(pipe, captured, held, inbox)
           /\ Piped(pipe, captured, held, Tail(inbox))
           /\ \A i \in DOMAIN pipe.asked : pipe.asked[i] # t
           /\ pipe.phase[t] # "waiting"
           /\ kind # "audio" \/ t \in play.dropped \/ t \notin pipe.turns =>
                  Core(Client, captured, held, voiced, Tail(inbox))
<1>1. inbox # <<>> /\ Head(inbox) = [kind |-> kind, turn |-> t]
  BY DEF Reads
<1>2. /\ Client \in Clients
      /\ Core(Client, captured, held, voiced, inbox)
      /\ Client.pipe = pipe /\ Client.play = play
      /\ pipe \in Pipes /\ play \in Players
      /\ inbox \in Seq(Events)
      /\ Stopped(Client) => held = {} /\ inbox = <<>>
  BY Here
<1>3. ~Stopped(Client)
  BY <1>1, <1>2
<1>4. /\ Tail(inbox) \in Seq(Events)
      /\ 1 \in DOMAIN inbox /\ Head(inbox) = inbox[1] /\ inbox[1] \in Events
      /\ \A i \in DOMAIN Tail(inbox) :
             i \in Nat /\ i >= 1 /\ i + 1 \in DOMAIN inbox
                 /\ Tail(inbox)[i] = inbox[i + 1]
  BY <1>1, <1>2, TailFacts
<1>5. t \in Turns /\ inbox[1].turn = t
  BY <1>1, <1>4 DEF Events
<1>6. Piped(pipe, captured, held, inbox)
  BY <1>2, <1>3 DEF Core
<1>7. Piped(pipe, captured, held, Tail(inbox))
  BY <1>1, <1>2, <1>6, PipedTail
<1>8. \A i \in DOMAIN pipe.asked : pipe.asked[i] # t
  BY <1>4, <1>5, <1>6 DEF Piped, Wire, Unknown
<1>9. pipe.phase[t] # "waiting"
  BY <1>4, <1>5, <1>6 DEF Piped, Wire, Unknown
<1>10. ASSUME kind # "audio" \/ t \in play.dropped \/ t \notin pipe.turns
       PROVE  Core(Client, captured, held, voiced, Tail(inbox))
  <2>1. Framed(pipe, play, voiced, Tail(inbox))
    <3> SUFFICES ASSUME NEW u \in Turns \ play.dropped,
                        pipe.phase[u] # "gone"
        PROVE  play.heard[u] + play.frames[u]
                   + Cardinality(Unread(Tail(inbox), u)) = voiced[u]
      BY DEF Framed
    <3>1. play.heard[u] + play.frames[u]
              + Cardinality(Unread(inbox, u)) = voiced[u]
      BY <1>2, <1>3 DEF Core, Tracked, Framed
    <3>2. Head(inbox) # [kind |-> "audio", turn |-> u]
      <4> SUFFICES ASSUME Head(inbox) = [kind |-> "audio", turn |-> u]
                   PROVE  FALSE
        OBVIOUS
      <4>1. kind = "audio" /\ t = u
        BY <1>1
      <4>2. u \notin pipe.turns
        BY <1>10, <4>1
      <4>3. pipe.phase[u] = "none"
        BY <1>6, <4>2 DEF Piped, Phased
      <4> QED  BY <1>4, <1>5, <1>6, <4>1, <4>3 DEF Piped, Wire, Unknown
    <3> QED  BY <1>1, <1>2, <3>1, <3>2, UnreadLess
  <2> QED  BY <1>2, <1>3, <1>7, <2>1 DEF Core, Tracked
<1> QED  BY <1>1, <1>3, <1>4, <1>5, <1>6, <1>7, <1>8, <1>9, <1>10

LEMMA HearReadyEffect ==
    ASSUME IInv, NEW t \in Turns, HearReady(t)
    PROVE  IInv'
<1> DEFINE q == OnReady(pipe, t)
<1> DEFINE c == WithPipe(Client, q)
<1>1. Reads("ready", t) /\ Takes(c)
  BY DEF HearReady, WithPipe
<1>2. /\ inbox # <<>> /\ ~Stopped(Client) /\ Tail(inbox) \in Seq(Events)
      /\ 1 \in DOMAIN inbox /\ inbox[1] = [kind |-> "ready", turn |-> t]
      /\ \A i \in DOMAIN Tail(inbox) :
             i + 1 \in DOMAIN inbox /\ i + 1 > 1
                 /\ Tail(inbox)[i] = inbox[i + 1]
      /\ Piped(pipe, captured, held, inbox)
      /\ Piped(pipe, captured, held, Tail(inbox))
      /\ \A i \in DOMAIN pipe.asked : pipe.asked[i] # t
      /\ pipe.phase[t] # "waiting"
      /\ Core(Client, captured, held, voiced, Tail(inbox))
  BY <1>1, Reading
<1>3. /\ Client \in Clients /\ Typed /\ OneByOne(Client)
      /\ Client.pipe = pipe /\ pipe \in Pipes /\ held \in SUBSET Turns
  BY Here
<1>4. \A i \in DOMAIN Tail(inbox) :
          Tail(inbox)[i].turn = t =>
              Tail(inbox)[i].kind \notin {"refused", "ready"}
  <2> SUFFICES ASSUME NEW i \in DOMAIN Tail(inbox), Tail(inbox)[i].turn = t,
                      Tail(inbox)[i].kind \in {"refused", "ready"}
               PROVE  FALSE
    OBVIOUS
  <2> DEFINE j == i + 1
  <2>1. /\ j \in DOMAIN inbox /\ j > 1 /\ inbox[j].turn = inbox[1].turn
        /\ inbox[j].kind \in {"refused", "ready"}
    BY <1>2
  <2> HIDE DEF j
  <2>2. inbox[j].kind = "ready" =>
            \A m \in DOMAIN inbox : inbox[m].turn = inbox[j].turn => j <= m
    BY <1>2, <2>1 DEF Piped, Wire
  <2>3. inbox[j].kind = "refused" =>
            \A m \in DOMAIN inbox : inbox[m].turn = inbox[j].turn => m = j
    BY <1>2, <2>1 DEF Piped, Wire
  <2>4. j <= 1 \/ 1 = j
    BY <1>2, <2>1, <2>2, <2>3
  <2> QED  BY <2>1, <2>4 DEF j
<1>5. Keeps(pipe, q) /\ Piped(q, captured, held, Tail(inbox))
  BY <1>2, <1>3, <1>4, OnReadyEffect
<1> HIDE DEF q
<1>6. /\ c \in Clients /\ Core(c, captured, held, voiced, Tail(inbox))
      /\ OneByOne(c)
  <2>1. Keeps(Client.pipe, q)
    BY <1>3, <1>5
  <2> QED  BY <1>2, <1>3, <1>5, <2>1, CorePipe
<1> HIDE DEF c
<1> QED  BY <1>1, <1>2, <1>3, <1>6, Taken

LEMMA HearRefusedEffect ==
    ASSUME IInv, NEW t \in Turns, HearRefused(t)
    PROVE  IInv'
<1>1. Reads("refused", t)
  BY DEF HearRefused
<1>2. /\ inbox # <<>> /\ ~Stopped(Client) /\ Tail(inbox) \in Seq(Events)
      /\ 1 \in DOMAIN inbox /\ inbox[1] = [kind |-> "refused", turn |-> t]
      /\ \A i \in DOMAIN Tail(inbox) :
             i + 1 \in DOMAIN inbox /\ i + 1 > 1
                 /\ Tail(inbox)[i] = inbox[i + 1]
      /\ Piped(pipe, captured, held, inbox)
      /\ Piped(pipe, captured, held, Tail(inbox))
      /\ \A i \in DOMAIN pipe.asked : pipe.asked[i] # t
      /\ Core(Client, captured, held, voiced, Tail(inbox))
  BY <1>1, Reading
<1>3. /\ Client \in Clients /\ Typed /\ OneByOne(Client)
      /\ Client.pipe = pipe /\ pipe \in Pipes
      /\ held \in SUBSET Turns /\ voiced \in [Turns -> Nat]
  BY Here
<1>4. CASE ~IsOpen(t)
  <2>1. Takes(Client)
    BY <1>4 DEF HearRefused
  <2> QED  BY <1>2, <1>3, <2>1, Taken
<1>5. CASE IsOpen(t)
  <2>1. t \in pipe.turns
    BY <1>5 DEF IsOpen
  <2>2. /\ t \notin held /\ t \notin pipe.named
        /\ \A j \in DOMAIN inbox : inbox[j].turn = t => j = 1
    BY <1>2 DEF Piped, Wire
  <2>3. Unknown(t, held, Tail(inbox))
    BY <1>2, <2>2 DEF Unknown
  <2>4. ASSUME NEW retry \in BOOLEAN
        PROVE  LET q == WaitsAgain(pipe, t, retry)
                   c == WithPipe(Client, q)
               IN  /\ q.phase[t] = "waiting" /\ q.asked = pipe.asked
                   /\ q.turns = pipe.turns
                   /\ c \in Clients /\ c.pipe = q /\ c.sess = Client.sess
                   /\ Core(c, captured, held, voiced, Tail(inbox))
                   /\ OneByOne(c)
    <3> DEFINE q == WaitsAgain(pipe, t, retry)
    <3> DEFINE c == WithPipe(Client, q)
    <3>1. /\ Keeps(pipe, q) /\ Piped(q, captured, held, Tail(inbox))
          /\ q.phase[t] = "waiting"
      <4>1. /\ pipe \in Pipes /\ t \in pipe.turns /\ held \in SUBSET Turns
            /\ Tail(inbox) \in Seq(Events)
            /\ Piped(pipe, captured, held, Tail(inbox))
            /\ t \notin pipe.named /\ Unknown(t, held, Tail(inbox))
            /\ \A i \in DOMAIN pipe.asked : pipe.asked[i] # t
        BY <1>2, <1>3, <2>1, <2>2, <2>3
      <4> DEFINE rest == Tail(inbox)
      <4>2. /\ rest \in Seq(Events) /\ Piped(pipe, captured, held, rest)
            /\ Unknown(t, held, rest)
        BY <4>1
      <4> HIDE DEF rest
      <4>3. /\ Keeps(pipe, q) /\ Piped(q, captured, held, rest)
            /\ q.phase[t] = "waiting"
        BY <4>1, <4>2, WaitAgainEffect
      <4> QED  BY <4>3 DEF rest
    <3>2. q.asked = pipe.asked
      BY <1>3 DEF WaitsAgain, Pipes
    <3> HIDE DEF q
    <3>3. Keeps(Client.pipe, q)
      BY <1>3, <3>1
    <3>4. /\ c \in Clients /\ c.pipe = q /\ c.sess = Client.sess
          /\ Core(c, captured, held, voiced, Tail(inbox))
          /\ OneByOne(c)
      <4>1. /\ Client \in Clients /\ ~Stopped(Client) /\ OneByOne(Client)
            /\ Core(Client, captured, held, voiced, Tail(inbox))
            /\ Piped(q, captured, held, Tail(inbox))
        BY <1>2, <1>3, <3>1
      <4>2. /\ c \in Clients /\ Core(c, captured, held, voiced, Tail(inbox))
            /\ c.pipe = q /\ c.sess = Client.sess
            /\ OneByOne(Client) => OneByOne(c)
        BY <3>3, <4>1, CorePipe
      <4> HIDE DEF c
      <4> QED  BY <4>1, <4>2
    <3> HIDE DEF c
    <3>5. q.turns = pipe.turns
      BY <3>1 DEF Keeps
    <3> QED  BY <3>1, <3>2, <3>4, <3>5 DEF q, c
  <2>5. CASE Takes([Client EXCEPT !.pipe = HoldForRetry(pipe, t)])
    <3> DEFINE c == WithPipe(Client, WaitsAgain(pipe, t, TRUE))
    <3>1. Takes(c)
      BY <2>5 DEF WithPipe, WaitsAgain, HoldForRetry
    <3>2. /\ c \in Clients /\ OneByOne(c)
          /\ Core(c, captured, held, voiced, Tail(inbox))
      BY <2>4
    <3> HIDE DEF c
    <3> QED  BY <1>2, <1>3, <3>1, <3>2, Taken
  <2>6. CASE Takes(Forget([Client EXCEPT !.pipe.phase[t] = "waiting"], t,
                          "too_many_turns"))
    <3> DEFINE retry == pipe.retry
    <3> DEFINE q == WaitsAgain(pipe, t, retry)
    <3> DEFINE c == WithPipe(Client, q)
    <3> DEFINE d == Forget(c, t, "too_many_turns")
    <3>1. c = [Client EXCEPT !.pipe.phase[t] = "waiting"]
      <4>1. q = [pipe EXCEPT !.phase[t] = "waiting"]
        BY <1>3 DEF WaitsAgain, Pipes
      <4> HIDE DEF q
      <4> QED  BY <1>3, <4>1 DEF WithPipe, Clients
    <3>2. Takes(d)
      <4> HIDE DEF c
      <4> QED  BY <2>6, <3>1
    <3>3. retry \in BOOLEAN
      BY <1>3 DEF Pipes
    <3> HIDE DEF retry
    <3>4. /\ q.phase[t] = "waiting" /\ q.asked = pipe.asked
          /\ q.turns = pipe.turns
          /\ c \in Clients /\ c.pipe = q /\ c.sess = Client.sess
          /\ Core(c, captured, held, voiced, Tail(inbox))
          /\ OneByOne(c)
      BY <2>4, <3>3
    <3> HIDE DEF c, q
    <3>5. ~Stopped(c)
      BY <1>2, <3>4 DEF Stopped
    <3>6. Forgettable(c, t, "too_many_turns", held, voiced)
      BY <1>2, <2>1, <2>2, <3>4 DEF Forgettable, Reasons
    <3>7. /\ d \in Clients /\ Core(d, captured, held, voiced, Tail(inbox))
          /\ OneByOne(d)
      BY <1>2, <1>3, <3>4, <3>5, <3>6, ForgetEffect
    <3> HIDE DEF d
    <3> QED  BY <1>2, <1>3, <3>2, <3>7, Taken
  <2> QED  BY <1>5, <2>5, <2>6 DEF HearRefused
<1> QED  BY <1>4, <1>5

LEMMA HearFailedEffect ==
    ASSUME IInv, NEW t \in Turns, HearFailed(t)
    PROVE  IInv'
<1>1. Reads("failed", t)
  BY DEF HearFailed
<1>2. /\ inbox # <<>> /\ ~Stopped(Client) /\ Tail(inbox) \in Seq(Events)
      /\ 1 \in DOMAIN inbox /\ inbox[1] = [kind |-> "failed", turn |-> t]
      /\ Piped(pipe, captured, held, inbox)
      /\ \A i \in DOMAIN pipe.asked : pipe.asked[i] # t
      /\ Core(Client, captured, held, voiced, Tail(inbox))
  BY <1>1, Reading
<1>3. /\ Client \in Clients /\ Typed /\ OneByOne(Client)
      /\ Client.pipe = pipe
      /\ held \in SUBSET Turns /\ voiced \in [Turns -> Nat]
  BY Here
<1>4. CASE ~IsOpen(t)
  <2>1. Takes(Client)
    BY <1>4 DEF HearFailed
  <2> QED  BY <1>2, <1>3, <2>1, Taken
<1>5. CASE IsOpen(t)
  <2> DEFINE d == Forget(Client, t, "error")
  <2>1. Takes(d) /\ t \in pipe.turns
    BY <1>5 DEF HearFailed, IsOpen
  <2>2. mode.faults # 0
    BY <1>2 DEF Piped, NoFaults
  <2>3. Forgettable(Client, t, "error", held, voiced)
    BY <1>2, <1>3, <2>1, <2>2 DEF Forgettable, Reasons
  <2>4. /\ d \in Clients /\ Core(d, captured, held, voiced, Tail(inbox))
        /\ OneByOne(d)
    BY <1>2, <1>3, <2>3, ForgetEffect
  <2> HIDE DEF d
  <2> QED  BY <1>2, <1>3, <2>1, <2>4, Taken
<1> QED  BY <1>4, <1>5

LEMMA HearEndedEffect ==
    ASSUME IInv, NEW t \in Turns, HearEnded(t)
    PROVE  IInv'
<1>1. PICK reason \in {"completed", "error"} :
          /\ Reads(reason, t)
          /\ Takes(IF IsOpen(t) THEN Forget(Client, t, reason) ELSE Client)
  BY DEF HearEnded
<1>2. /\ inbox # <<>> /\ ~Stopped(Client) /\ Tail(inbox) \in Seq(Events)
      /\ 1 \in DOMAIN inbox /\ inbox[1] = [kind |-> reason, turn |-> t]
      /\ \A i \in DOMAIN Tail(inbox) :
             i + 1 \in DOMAIN inbox /\ i + 1 > 1
                 /\ Tail(inbox)[i] = inbox[i + 1]
      /\ Piped(pipe, captured, held, inbox)
      /\ \A i \in DOMAIN pipe.asked : pipe.asked[i] # t
      /\ Core(Client, captured, held, voiced, Tail(inbox))
  BY <1>1, Reading
<1>3. /\ Client \in Clients /\ Typed /\ OneByOne(Client)
      /\ Client.pipe = pipe /\ Client.play = play /\ play \in Players
      /\ held \in SUBSET Turns /\ voiced \in [Turns -> Nat]
  BY Here
<1>4. CASE ~IsOpen(t)
  <2>1. Takes(Client)
    BY <1>1, <1>4
  <2> QED  BY <1>2, <1>3, <2>1, Taken
<1>5. CASE IsOpen(t)
  <2> DEFINE d == Forget(Client, t, reason)
  <2>1. Takes(d) /\ t \in pipe.turns
    BY <1>1, <1>5 DEF IsOpen
  <2>2. /\ t \notin held
        /\ \A j \in DOMAIN inbox : inbox[j].turn = t => j <= 1
    BY <1>1, <1>2 DEF Piped, Wire
  <2>3. Cardinality(Unread(Tail(inbox), t)) = 0
    <3>1. \A i \in DOMAIN Tail(inbox) :
              Tail(inbox)[i] # [kind |-> "audio", turn |-> t]
      BY <1>2, <2>2
    <3> QED  BY <3>1, UnreadNone
  <2>4. t \notin play.dropped => play.heard[t] + play.frames[t] = voiced[t]
    <3> SUFFICES ASSUME t \notin play.dropped
                 PROVE  play.heard[t] + play.frames[t] = voiced[t]
      OBVIOUS
    <3>1. pipe.phase[t] # "gone"
      BY <1>2, <2>1 DEF Piped, Phased
    <3>2. play.heard[t] + play.frames[t]
              + Cardinality(Unread(Tail(inbox), t)) = voiced[t]
      BY <1>2, <1>3, <3>1 DEF Core, Tracked, Framed
    <3> QED  BY <1>3, <2>3, <3>2 DEF Players
  <2>5. Forgettable(Client, t, reason, held, voiced)
    BY <1>1, <1>2, <1>3, <2>1, <2>2, <2>4 DEF Forgettable, Reasons
  <2>6. /\ d \in Clients /\ Core(d, captured, held, voiced, Tail(inbox))
        /\ OneByOne(d)
    BY <1>2, <1>3, <2>5, ForgetEffect
  <2> HIDE DEF d
  <2> QED  BY <1>2, <1>3, <2>1, <2>6, Taken
<1> QED  BY <1>4, <1>5

(* A frame that waits is no more on its way.                               *)
LEMMA PushedTurned ==
    ASSUME IInv, NEW t \in Turns, Reads("audio", t), t \in play.queue,
           t \in pipe.turns
    PROVE  LET b == Pushed(play, t)
               p == Push(play, t)
           IN  /\ Turned(Client, b, p, {}, held, voiced, Tail(inbox))
               /\ Lone(play) => Lone(p)
               /\ p.queue \subseteq play.queue
<1> DEFINE b == Pushed(play, t)
<1> DEFINE p == Push(play, t)
<1> DEFINE rest == Tail(inbox)
<1>1. /\ Client.pipe = pipe /\ Client.play = play /\ Client.sess = sess
      /\ Client.owed = owed /\ Client.rows = rows
      /\ play \in Players /\ voiced \in [Turns -> Nat]
      /\ inbox \in Seq(Events)
      /\ sess.talking => sess.st = "live"
  BY Here DEF Client
<1>2. /\ inbox # <<>> /\ ~Stopped(Client) /\ rest \in Seq(Events)
      /\ Head(inbox) = [kind |-> "audio", turn |-> t]
  BY Reading DEF Reads
<1>3. /\ Audible(play) /\ Piped(pipe, captured, held, inbox)
      /\ Ended(pipe, play, {}) /\ Places(pipe, play)
      /\ Framed(pipe, play, voiced, inbox)
      /\ Rows(pipe, play, owed, rows, held, voiced)
  BY <1>2, Here
<1>4. /\ p \in Players /\ Audible(p) /\ Moves(b, p, {})
      /\ Lone(play) => Lone(p)
  BY <1>1, <1>3, PushEffect
<1>5. /\ b \in Players
      /\ b.frames = [play.frames EXCEPT ![t] = @ + 1]
      /\ b.queue = play.queue /\ b.ended = play.ended
      /\ b.heard = play.heard /\ b.dropped = play.dropped
  BY <1>1, PushedFacts
<1>6. /\ b.frames[t] = play.frames[t] + 1
      /\ \A u \in Turns \ {t} : b.frames[u] = play.frames[u]
  BY <1>1, <1>5 DEF Players
<1> HIDE DEF b, p
<1>7. Places(pipe, b) /\ Ended(pipe, b, {})
  BY <1>3, <1>5 DEF Places, Ended
<1>8. Framed(pipe, b, voiced, rest)
  <2> SUFFICES ASSUME NEW u \in Turns \ b.dropped, pipe.phase[u] # "gone"
               PROVE  b.heard[u] + b.frames[u]
                          + Cardinality(Unread(rest, u)) = voiced[u]
    BY DEF Framed
  <2>1. play.heard[u] + play.frames[u]
            + Cardinality(Unread(inbox, u)) = voiced[u]
    BY <1>3, <1>5 DEF Framed
  <2>2. Cardinality(Unread(inbox, u))
            = IF u = t THEN Cardinality(Unread(rest, u)) + 1
              ELSE Cardinality(Unread(rest, u))
    <3>1. Head(inbox) = [kind |-> "audio", turn |-> u] <=> u = t
      <4>1. Head(inbox).turn = t
        BY <1>2
      <4>2. [kind |-> "audio", turn |-> u].turn = u
        OBVIOUS
      <4> QED  BY <1>2, <4>1, <4>2
    <3> QED  BY <1>1, <1>2, <3>1, UnreadLess
  <2>3. Cardinality(Unread(rest, u)) \in Nat
    BY <1>2, UnreadIsFinite
  <2>4. play.heard[u] \in Nat /\ play.frames[u] \in Nat
    BY <1>1 DEF Players
  <2> QED  BY <1>5, <1>6, <2>1, <2>2, <2>3, <2>4
<1>9. Rows(pipe, b, owed, rows, held, voiced)
  <2>1. pipe.phase[t] # "gone"
    BY <1>3 DEF Piped, Phased
  <2>2. owed[t] = "none"
    BY <1>3, <2>1 DEF Rows, Closed
  <2>3. \A u \in Turns : owed[u] = "completed" =>
            u \notin held /\ b.heard[u] + b.frames[u] = voiced[u]
    BY <1>3, <1>5, <1>6, <2>2 DEF Rows
  <2> QED  BY <1>3, <1>5, <2>3 DEF Rows
<1>10. \A u \in Turns \ b.queue : b.frames[u] = 0
  <2>1. \A u \in Turns \ play.queue : play.frames[u] = 0
    BY <1>1, <1>3 DEF Audible, Loose, Players
  <2> QED  BY <1>5, <1>6, <2>1
<1>11. Turned(Client, b, p, {}, held, voiced, rest)
  BY <1>1, <1>4, <1>5, <1>7, <1>8, <1>9, <1>10 DEF Turned
<1>12. p.queue \subseteq play.queue
  BY <1>4, <1>5 DEF Moves
<1> QED  BY <1>4, <1>11, <1>12 DEF b, p

(* A frame of a turn playback no longer has is lost.                       *)
LEMMA UnheldTurned ==
    ASSUME IInv, ~Stopped(Client),
           Core(Client, captured, held, voiced, Tail(inbox))
    PROVE  Turned(Client, play, play, {}, held, voiced, Tail(inbox))
<1>1. /\ Client.pipe = pipe /\ Client.play = play /\ Client.sess = sess
      /\ play \in Players
      /\ Audible(play) /\ Ended(pipe, play, {}) /\ Places(pipe, play)
  BY Here
<1>2. sess.talking => sess.st = "live"
  BY Here
<1>3. Framed(pipe, play, voiced, Tail(inbox)) /\ Filed(Client, held, voiced)
  BY <1>1 DEF Core, Tracked
<1>4. Moves(play, play, {})
  BY <1>1 DEF Moves, Audible, Loose
<1>5. \A u \in Turns \ play.queue : play.frames[u] = 0
  BY <1>1 DEF Audible, Loose, Players
<1> QED  BY <1>1, <1>2, <1>3, <1>4, <1>5 DEF Turned, Filed

LEMMA HearAudioEffect ==
    ASSUME IInv, NEW t \in Turns, HearAudio(t)
    PROVE  IInv'
<1> DEFINE rest == Tail(inbox)
<1>1. Reads("audio", t)
  BY DEF HearAudio
<1>2. /\ inbox # <<>> /\ ~Stopped(Client) /\ rest \in Seq(Events)
      /\ Piped(pipe, captured, held, rest)
      /\ t \in play.dropped \/ t \notin pipe.turns =>
             Core(Client, captured, held, voiced, rest)
  BY <1>1, Reading
<1>3. /\ Client \in Clients /\ Typed /\ OneByOne(Client)
      /\ Client.pipe = pipe /\ Client.play = play
      /\ held \in SUBSET Turns /\ voiced \in [Turns -> Nat]
  BY Here
<1>4. /\ Audible(play) /\ Ended(pipe, play, {}) /\ Places(pipe, play)
  BY <1>2, Here
<1>5. CASE ~IsOpen(t)
  <2>1. Takes(Client)
    BY <1>5 DEF HearAudio
  <2>2. Core(Client, captured, held, voiced, rest)
    BY <1>2, <1>5 DEF IsOpen
  <2> QED  BY <1>2, <1>3, <2>1, <2>2, Taken
<1>6. CASE IsOpen(t)
  <2> DEFINE p == Push(play, t)
  <2> DEFINE r == Plays(Client, p)
  <2>1. Takes(r)
    BY <1>6 DEF HearAudio
  <2>2. \E b : /\ Turned(Client, b, p, {}, held, voiced, rest)
               /\ Lone(play) => Lone(p)
               /\ p.queue \subseteq play.queue
    <3>1. CASE t \in play.queue
      BY <1>1, <1>6, <3>1, PushedTurned DEF IsOpen
    <3>2. CASE t \notin play.queue
      <4>1. t \in play.dropped
        BY <1>4, <1>6, <3>2 DEF IsOpen, Places
      <4>2. Turned(Client, play, play, {}, held, voiced, rest)
        BY <1>2, <4>1, UnheldTurned
      <4>3. p = play
        BY <3>2 DEF Push, Holds
      <4> QED  BY <4>2, <4>3
    <3> QED  BY <3>1, <3>2
  <2>3. PICK b : /\ Turned(Client, b, p, {}, held, voiced, rest)
                 /\ Lone(play) => Lone(p)
                 /\ p.queue \subseteq play.queue
    BY <2>2
  <2> HIDE DEF p, rest
  <2>4. /\ Client \in Clients /\ ~Stopped(Client)
        /\ held \in SUBSET Turns /\ voiced \in [Turns -> Nat]
        /\ Piped(Client.pipe, captured, held, rest)
        /\ Turned(Client, b, p, {}, held, voiced, rest)
        /\ Audible(Client.play) /\ Ended(Client.pipe, Client.play, {})
        /\ OneByOne(Client) /\ (Lone(Client.play) => Lone(p))
        /\ p.queue \subseteq Client.play.queue
    BY <1>2, <1>3, <1>4, <2>3
  <2>5. /\ r \in Clients /\ Core(r, captured, held, voiced, rest)
        /\ OneByOne(r)
    BY <2>4, PlaysKeeps
  <2> HIDE DEF r
  <2> QED  BY <1>2, <1>3, <2>1, <2>5, Taken DEF rest
<1> QED  BY <1>5, <1>6

LEMMA HearEffect ==
    ASSUME IInv, Hear
    PROVE  IInv'
BY HearReadyEffect, HearRefusedEffect, HearFailedEffect, HearAudioEffect,
   HearEndedEffect DEF Hear

-----------------------------------------------------------------------------
(***************************************************************************)
(* The server.                                                             *)
(***************************************************************************)
LEMMA AppendFacts ==
    ASSUME NEW in \in Seq(Events), NEW e \in Events
    PROVE  /\ Append(in, e) \in Seq(Events)
           /\ DOMAIN Append(in, e) = DOMAIN in \cup {Len(in) + 1}
           /\ Append(in, e)[Len(in) + 1] = e
           /\ \A i \in DOMAIN in :
                  /\ Append(in, e)[i] = in[i]
                  /\ i \in Nat /\ i < Len(in) + 1
OBVIOUS

(* The server reads a start.                                               *)
Served(q) == [q EXCEPT !.asked = Tail(@)]

LEMMA ServedEffect ==
    ASSUME NEW q \in Pipes, q.asked # <<>>, NEW cap,
           NEW h \in SUBSET Turns, NEW in \in Seq(Events), Piped(q, cap, h, in)
    PROVE  LET r == Served(q)
               t == Head(q.asked)
           IN  /\ Keeps(q, r) /\ Piped(r, cap, h, in)
               /\ r.phase = q.phase /\ r.turns = q.turns /\ r.named = q.named
               /\ t \in Turns /\ q.phase[t] \in {"handshaking", "ending"}
               /\ t \notin q.named /\ Unknown(t, h, in)
               /\ \A i \in DOMAIN r.asked : r.asked[i] # t
<1> DEFINE r == Served(q)
<1> DEFINE t == Head(q.asked)
<1> DEFINE rest == Tail(q.asked)
<1>1. q.asked \in Seq(Turns)
  BY DEF Pipes
<1>2. /\ rest \in Seq(Turns) /\ 1 \in DOMAIN q.asked /\ t = q.asked[1]
      /\ t \in Turns
      /\ \A i \in DOMAIN rest :
             i + 1 \in DOMAIN q.asked /\ i + 1 # 1 /\ i \in Nat
                 /\ rest[i] = q.asked[i + 1]
  <2>1. Len(q.asked) \in Nat \ {0} /\ DOMAIN q.asked = 1 .. Len(q.asked)
    BY <1>1
  <2>2. /\ rest \in Seq(Turns) /\ Len(rest) = Len(q.asked) - 1
        /\ \A i \in 1 .. Len(q.asked) - 1 : rest[i] = q.asked[i + 1]
        /\ t = q.asked[1]
    BY <1>1, <2>1, HeadTailProperties
  <2>3. DOMAIN rest = 1 .. (Len(q.asked) - 1)
    BY <2>1, <2>2
  <2> HIDE DEF rest, t
  <2> QED  BY <1>1, <2>1, <2>2, <2>3
<1> HIDE DEF rest, t
<1>3. /\ r \in Pipes /\ r.asked = rest /\ r.phase = q.phase
      /\ r.turns = q.turns /\ r.named = q.named /\ r.limit = q.limit
      /\ r.pending = q.pending /\ r.reached = q.reached
      /\ r.shed = q.shed /\ r.capturing = q.capturing
  <2>1. r = [q EXCEPT !.asked = rest]
    BY DEF Served, rest
  <2> HIDE DEF r
  <2> QED  BY <1>2, <2>1 DEF Pipes
<1> HIDE DEF r
<1>4. /\ Phased(q) /\ Wire(q, h, in) /\ Blocks(q, cap)
  BY DEF Piped
<1>5. \A i, j \in DOMAIN rest : i # j => rest[i] # rest[j]
  <2> TAKE i, j \in DOMAIN rest
  <2> SUFFICES ASSUME i # j PROVE rest[i] # rest[j]
    OBVIOUS
  <2>1. i + 1 # j + 1
    BY <1>2
  <2> QED  BY <1>2, <1>4, <2>1 DEF Phased
<1>6. \A i \in DOMAIN rest :
          /\ q.phase[rest[i]] \in {"handshaking", "ending"}
          /\ rest[i] \notin q.named /\ rest[i] # t
          /\ Unknown(rest[i], h, in)
  BY <1>2, <1>4 DEF Phased, Wire
<1>7. Phased(r)
  BY <1>3, <1>4, <1>5, <1>6 DEF Phased
<1>8. Blocks(r, cap)
  BY <1>3, <1>4, SameBlocks
<1>9. Piped(r, cap, h, in)
  <2>1. \A i \in DOMAIN r.asked : Unknown(r.asked[i], h, in)
    BY <1>3, <1>6
  <2>2. \A u \in Turns :
            r.phase[u] = "waiting" =>
                q.phase[u] = "waiting" \/ Unknown(u, h, in)
    BY <1>3
  <2>3. \A u \in r.named \ q.named, i \in DOMAIN in :
            in[i].turn = u => in[i].kind \notin {"refused", "ready"}
    BY <1>3
  <2>4. r \in Pipes /\ r.turns = q.turns
        /\ \A u \in Turns : r.phase[u] = "none" <=> q.phase[u] = "none"
    BY <1>3
  <2> QED  BY <1>7, <1>8, <2>1, <2>2, <2>3, <2>4, PipedAgain
<1>10. Keeps(q, r)
  BY <1>3 DEF Keeps, Closed
<1>11. /\ q.phase[t] \in {"handshaking", "ending"} /\ t \notin q.named
       /\ Unknown(t, h, in)
  BY <1>2, <1>4 DEF Phased, Wire
<1> QED  BY <1>2, <1>3, <1>6, <1>9, <1>10, <1>11 DEF r, t

(* What the server may tell of turn t next, with h the turns it has open.  *)
Tellable(q, h, nh, in, kind, t) ==
    /\ q.phase[t] \notin {"none", "waiting"}
    /\ \A i \in DOMAIN q.asked : q.asked[i] # t
    /\ nh \subseteq h \cup {t}
    /\ \A i \in DOMAIN in : in[i].turn = t =>
           in[i].kind \notin {"refused", "completed", "error"}
    /\ kind \in {"refused", "ready"} =>
           t \notin q.named /\ \A i \in DOMAIN in : in[i].turn # t
    /\ kind \in {"refused", "completed", "error"} => t \notin nh
    /\ mode.faults = 0 => kind # "failed" /\ nh \subseteq AtServer(q)

LEMMA PipedMore ==
    ASSUME NEW q, NEW cap, NEW h, NEW nh, NEW in \in Seq(Events),
           Piped(q, cap, h, in), NEW kind, NEW t,
           [kind |-> kind, turn |-> t] \in Events,
           Tellable(q, h, nh, in, kind, t)
    PROVE  Piped(q, cap, nh, Append(in, [kind |-> kind, turn |-> t]))
<1> DEFINE e == [kind |-> kind, turn |-> t]
<1> DEFINE more == Append(in, e)
<1> DEFINE n == Len(in) + 1
<1>1. /\ DOMAIN more = DOMAIN in \cup {n} /\ more[n] = e
      /\ \A i \in DOMAIN in : more[i] = in[i] /\ i \in Nat /\ i < n
  BY AppendFacts
<1>2. e.kind = kind /\ e.turn = t
  OBVIOUS
<1>3. n \in Nat
  OBVIOUS
<1> HIDE DEF e, more, n
<1>4. Wire(q, h, in)
  BY DEF Piped
<1>5. ASSUME NEW u, u # t, Unknown(u, h, in) PROVE Unknown(u, nh, more)
  BY <1>1, <1>2, <1>5 DEF Unknown, Tellable
<1>6. ASSUME NEW i \in DOMAIN in
      PROVE  /\ in[i].kind = "refused" =>
                    /\ in[i].turn \notin nh
                    /\ in[i].turn \notin q.named
                    /\ \A j \in DOMAIN more :
                           more[j].turn = in[i].turn => j = i
             /\ in[i].kind = "ready" =>
                    /\ in[i].turn \notin q.named
                    /\ \A j \in DOMAIN more :
                           more[j].turn = in[i].turn => i <= j
             /\ in[i].kind \in {"completed", "error"} =>
                    /\ in[i].turn \notin nh
                    /\ \A j \in DOMAIN more :
                           more[j].turn = in[i].turn => j <= i
  <2>1. /\ in[i].kind = "refused" =>
               /\ in[i].turn \notin h
               /\ in[i].turn \notin q.named
               /\ \A j \in DOMAIN in : in[j].turn = in[i].turn => j = i
        /\ in[i].kind = "ready" =>
               /\ in[i].turn \notin q.named
               /\ \A j \in DOMAIN in : in[j].turn = in[i].turn => i <= j
        /\ in[i].kind \in {"completed", "error"} =>
               /\ in[i].turn \notin h
               /\ \A j \in DOMAIN in : in[j].turn = in[i].turn => j <= i
    BY <1>4 DEF Wire
  <2>2. in[i].kind \in {"refused", "completed", "error"} => in[i].turn # t
    BY DEF Tellable
  <2>3. in[i].turn # t /\ in[i].turn \notin h => in[i].turn \notin nh
    BY DEF Tellable
  <2>4. \A j \in DOMAIN more :
            \/ j \in DOMAIN in /\ more[j] = in[j]
            \/ j = n /\ more[j].turn = t
    BY <1>1, <1>2
  <2>5. i <= n
    BY <1>1, <1>3
  <2>6. in[i].kind = "refused" =>
            /\ in[i].turn \notin nh
            /\ in[i].turn \notin q.named
            /\ \A j \in DOMAIN more : more[j].turn = in[i].turn => j = i
    BY <2>1, <2>2, <2>3, <2>4
  <2>7. in[i].kind = "ready" =>
            /\ in[i].turn \notin q.named
            /\ \A j \in DOMAIN more : more[j].turn = in[i].turn => i <= j
    BY <2>1, <2>4, <2>5
  <2>8. in[i].kind \in {"completed", "error"} =>
            /\ in[i].turn \notin nh
            /\ \A j \in DOMAIN more : more[j].turn = in[i].turn => j <= i
    BY <2>1, <2>2, <2>3, <2>4
  <2> QED  BY <2>6, <2>7, <2>8
<1>7. /\ kind = "refused" =>
             /\ t \notin nh /\ t \notin q.named
             /\ \A j \in DOMAIN more : more[j].turn = t => j = n
      /\ kind = "ready" =>
             /\ t \notin q.named
             /\ \A j \in DOMAIN more : more[j].turn = t => n <= j
      /\ kind \in {"completed", "error"} =>
             /\ t \notin nh
             /\ \A j \in DOMAIN more : more[j].turn = t => j <= n
  <2>1. \A j \in DOMAIN more :
            \/ j \in DOMAIN in /\ more[j] = in[j] /\ j <= n
            \/ j = n
    BY <1>1, <1>3
  <2>2. n <= n
    BY <1>3
  <2> QED  BY <2>1, <2>2 DEF Tellable
<1>8. Wire(q, nh, more)
  <2>1. \A u \in Turns :
            q.phase[u] \in {"none", "waiting"} => Unknown(u, nh, more)
    BY <1>4, <1>5 DEF Wire, Tellable
  <2>2. \A i \in DOMAIN q.asked : Unknown(q.asked[i], nh, more)
    BY <1>4, <1>5 DEF Wire, Tellable
  <2>3. \A i \in DOMAIN more :
            \/ i \in DOMAIN in /\ more[i] = in[i]
            \/ i = n /\ more[i].kind = kind /\ more[i].turn = t
    BY <1>1, <1>2
  <2>4. ASSUME NEW i \in DOMAIN more
        PROVE  /\ more[i].kind = "refused" =>
                      /\ more[i].turn \notin nh
                      /\ more[i].turn \notin q.named
                      /\ \A j \in DOMAIN more :
                             more[j].turn = more[i].turn => j = i
               /\ more[i].kind = "ready" =>
                      /\ more[i].turn \notin q.named
                      /\ \A j \in DOMAIN more :
                             more[j].turn = more[i].turn => i <= j
               /\ more[i].kind \in {"completed", "error"} =>
                      /\ more[i].turn \notin nh
                      /\ \A j \in DOMAIN more :
                             more[j].turn = more[i].turn => j <= i
    <3>1. CASE i \in DOMAIN in /\ more[i] = in[i]
      BY <1>6, <3>1
    <3>2. CASE i = n /\ more[i].kind = kind /\ more[i].turn = t
      BY <1>7, <3>2
    <3> QED  BY <2>3, <3>1, <3>2
  <2> QED  BY <2>1, <2>2, <2>4 DEF Wire
<1>9. mode.faults = 0 => NoFaults(more) /\ Counted(q, nh)
  BY <1>1, <1>2 DEF Piped, NoFaults, Counted, Tellable
<1> QED  BY <1>8, <1>9 DEF Piped, more, e

(* The server told something of turn t, and its own state moved with that. *)
LEMMA Told ==
    ASSUME Typed, NEW c \in Clients, ~Stopped(c), Client' = c,
           Core(c, captured, held, voiced, inbox), OneByOne(c),
           NEW kind, NEW t \in Turns, [kind |-> kind, turn |-> t] \in Events,
           Tells(kind, t), mode' = mode, captured' = captured,
           Tellable(c.pipe, held, held', inbox, kind, t),
           t \in held \/ ~Closed(c.pipe, t),
           voiced' = IF kind = "audio" THEN [voiced EXCEPT ![t] = @ + 1]
                     ELSE voiced,
           tally' \in [refusals : Nat, faults : Nat, asks : Nat],
           mode.faults = 0 => tally'.faults = 0
    PROVE  IInv'
<1> DEFINE e == [kind |-> kind, turn |-> t]
<1> DEFINE v == IF kind = "audio" THEN [voiced EXCEPT ![t] = @ + 1]
                ELSE voiced
<1> DEFINE h == held'
<1>1. /\ inbox \in Seq(Events) /\ e \in Events /\ inbox' = Append(inbox, e)
      /\ held \subseteq Turns /\ voiced \in [Turns -> Nat]
      /\ captured \in [Turns -> Nat]
  BY DEF Typed, Tells
<1>2. inbox' \in Seq(Events)
  BY <1>1, AppendFacts
<1>3. /\ v \in [Turns -> Nat]
      /\ \A u \in Turns \ {t} : v[u] = voiced[u]
      /\ kind = "audio" => v[t] = voiced[t] + 1
      /\ kind # "audio" => v[t] = voiced[t]
  BY <1>1
<1>4. h \subseteq Turns /\ h \subseteq held \cup {t}
  BY <1>1 DEF Tellable
<1> HIDE DEF h
<1>5. Piped(c.pipe, captured, h, inbox')
  <2>1. Piped(c.pipe, captured, held, inbox)
    BY DEF Core
  <2>2. Tellable(c.pipe, held, h, inbox, kind, t)
    BY DEF h
  <2>3. Piped(c.pipe, captured, h, Append(inbox, e))
    BY <1>1, <2>1, <2>2, PipedMore
  <2> QED  BY <1>1, <2>3
<1>6. Framed(c.pipe, c.play, v, inbox')
  <2> SUFFICES ASSUME NEW u \in Turns \ c.play.dropped,
                      c.pipe.phase[u] # "gone"
               PROVE  c.play.heard[u] + c.play.frames[u]
                          + Cardinality(Unread(inbox', u)) = v[u]
    BY DEF Framed
  <2>1. c.play.heard[u] + c.play.frames[u]
            + Cardinality(Unread(inbox, u)) = voiced[u]
    BY DEF Core, Tracked, Framed
  <2>2. Cardinality(Unread(inbox', u))
            = IF e = [kind |-> "audio", turn |-> u]
              THEN Cardinality(Unread(inbox, u)) + 1
              ELSE Cardinality(Unread(inbox, u))
    BY <1>1, UnreadMore
  <2>3. e = [kind |-> "audio", turn |-> u] <=> kind = "audio" /\ u = t
    <3>1. e.kind = kind /\ e.turn = t
      OBVIOUS
    <3> QED  BY <3>1
  <2>4. /\ c.play.heard[u] \in Nat /\ c.play.frames[u] \in Nat
        /\ Cardinality(Unread(inbox, u)) \in Nat
    BY <1>1, UnreadIsFinite DEF Clients, Players
  <2> HIDE DEF e, v
  <2> QED  BY <1>3, <2>1, <2>2, <2>3, <2>4
<1>7. Filed(c, h, v)
  <2> SUFFICES ASSUME NEW u \in Turns
      PROVE  /\ c.owed[u] = "completed" =>
                    /\ u \notin h
                    /\ c.play.heard[u] + c.play.frames[u] = v[u]
             /\ c.rows[u] = <<"played">> => u \notin h /\ c.play.heard[u] = v[u]
             /\ c.rows[u] = <<"no_audio">> => u \notin h /\ v[u] = 0
    BY DEF Core, Tracked, Filed, Rows
  <2>1. /\ c.owed[u] # "none" => Closed(c.pipe, u)
        /\ c.rows[u] # <<>> => Closed(c.pipe, u)
        /\ c.owed[u] = "completed" =>
               /\ u \notin held
               /\ c.play.heard[u] + c.play.frames[u] = voiced[u]
        /\ c.rows[u] = <<"played">> =>
               u \notin held /\ c.play.heard[u] = voiced[u]
        /\ c.rows[u] = <<"no_audio">> => u \notin held /\ voiced[u] = 0
    BY DEF Core, Tracked, Filed, Rows
  <2>2. CASE u = t
    <3>1. <<"played">> # <<>> /\ <<"no_audio">> # <<>>
      OBVIOUS
    <3> QED  BY <2>1, <2>2, <3>1
  <2>3. CASE u # t
    <3>1. v[u] = voiced[u] /\ (u \notin held => u \notin h)
      BY <1>3, <1>4, <2>3
    <3> QED  BY <2>1, <3>1
  <2> QED  BY <2>2, <2>3
<1>8. Core(c, captured', held', voiced', inbox')
  <2>1. Core(c, captured, h, v, inbox')
    BY <1>5, <1>6, <1>7 DEF Core, Tracked
  <2> QED  BY <2>1 DEF h, v
<1>9. voiced' \in [Turns -> Nat] /\ held' \subseteq Turns
      /\ captured' \in [Turns -> Nat]
  BY <1>1, <1>3, <1>4 DEF h
<1> QED  BY <1>2, <1>8, <1>9, Renewed

(* A turn the server has open.                                             *)
LEMMA OfTheHeld ==
    ASSUME IInv, NEW t \in held
    PROVE  /\ t \in Turns /\ ~Stopped(Client)
           /\ pipe.phase[t] \notin {"none", "waiting"}
           /\ \A i \in DOMAIN pipe.asked : pipe.asked[i] # t
           /\ \A i \in DOMAIN inbox : inbox[i].turn = t =>
                  inbox[i].kind \notin {"refused", "completed", "error"}
           /\ mode.faults = 0 => held \subseteq AtServer(pipe)
<1>1. held \in SUBSET Turns /\ (Stopped(Client) => held = {})
  BY Here
<1>2. ~Stopped(Client) /\ t \in Turns
  BY <1>1
<1>3. Wire(pipe, held, inbox) /\ (mode.faults = 0 => Counted(pipe, held))
  BY <1>2, Here DEF Piped
<1> QED  BY <1>2, <1>3 DEF Wire, Unknown, Counted

(* The server read the first start.                                        *)
LEMMA OfTheStarted ==
    ASSUME IInv, NEW t \in Turns, Start(t), held' \subseteq Turns,
           NEW c, c = WithPipe(Client, Served(pipe))
    PROVE  /\ c \in Clients /\ ~Stopped(c) /\ Client' = c
           /\ Core(c, captured, held, voiced, inbox) /\ OneByOne(c)
           /\ c.pipe.phase[t] \in {"handshaking", "ending"}
           /\ \A i \in DOMAIN c.pipe.asked : c.pipe.asked[i] # t
           /\ t \notin c.pipe.named /\ t \notin held
           /\ \A i \in DOMAIN inbox : inbox[i].turn # t
           /\ ~Closed(c.pipe, t) /\ t \in AtServer(c.pipe)
           /\ mode.faults = 0 => held \subseteq AtServer(c.pipe)
           /\ mode' = mode /\ captured' = captured /\ voiced' = voiced
<1> DEFINE q == Served(pipe)
<1>1. /\ Client \in Clients /\ OneByOne(Client) /\ Client.pipe = pipe
      /\ Core(Client, captured, held, voiced, inbox)
      /\ pipe \in Pipes /\ held \in SUBSET Turns /\ inbox \in Seq(Events)
  BY Here
<1>2. pipe.asked # <<>> /\ t = Head(pipe.asked) /\ pipe' = q
      /\ play' = play /\ sess' = sess /\ owed' = owed /\ rows' = rows
      /\ mode' = mode /\ captured' = captured /\ voiced' = voiced
  BY DEF Start, Served
<1>3. ~Stopped(Client)
  BY <1>1, <1>2 DEF Core, Silent, NoTurns
<1>4. Piped(pipe, captured, held, inbox)
  BY <1>1, <1>3 DEF Core
<1>5. /\ Keeps(pipe, q) /\ Piped(q, captured, held, inbox)
      /\ q.phase[t] \in {"handshaking", "ending"}
      /\ t \notin q.named /\ Unknown(t, held, inbox)
      /\ \A i \in DOMAIN q.asked : q.asked[i] # t
  BY <1>1, <1>2, <1>4, ServedEffect
<1> HIDE DEF q
<1>6. /\ c \in Clients /\ c.pipe = q /\ c.sess = Client.sess
      /\ Core(c, captured, held, voiced, inbox) /\ OneByOne(c)
  <2>1. /\ Client \in Clients /\ ~Stopped(Client) /\ OneByOne(Client)
        /\ Core(Client, captured, held, voiced, inbox)
        /\ Keeps(Client.pipe, q) /\ Piped(q, captured, held, inbox)
    BY <1>1, <1>3, <1>5
  <2>2. c = WithPipe(Client, q)
    BY DEF q
  <2> QED  BY <2>1, <2>2, CorePipe
<1>7. ~Stopped(c)
  BY <1>3, <1>6 DEF Stopped
<1>8. Client' = c
  <2>1. Client' = [Client EXCEPT !.pipe = pipe']
    BY <1>2 DEF Client
  <2> QED  BY <1>2, <2>1 DEF WithPipe, q
<1>9. t \in AtServer(q) /\ ~Closed(q, t)
  <2>1. t \in q.turns
    BY <1>5 DEF Piped, Phased
  <2> QED  BY <1>5, <2>1 DEF AtServer, InPhase, Closed
<1>10. mode.faults = 0 => held \subseteq AtServer(q)
  BY <1>5 DEF Piped, Counted
<1> QED  BY <1>2, <1>5, <1>6, <1>7, <1>8, <1>9, <1>10 DEF Unknown

LEMMA ServerAdmitsEffect ==
    ASSUME IInv, NEW t \in Turns, ServerAdmits(t)
    PROVE  IInv'
<1> DEFINE c == WithPipe(Client, Served(pipe))
<1>1. Typed /\ held' = held \cup {t} /\ held \subseteq Turns
      /\ Tells("ready", t) /\ tally' = tally
  BY Here DEF ServerAdmits
<1>2. Start(t) /\ held' \subseteq Turns
  BY <1>1 DEF ServerAdmits
<1>3. /\ c \in Clients /\ ~Stopped(c) /\ Client' = c
      /\ Core(c, captured, held, voiced, inbox) /\ OneByOne(c)
      /\ c.pipe.phase[t] \in {"handshaking", "ending"}
      /\ \A i \in DOMAIN c.pipe.asked : c.pipe.asked[i] # t
      /\ t \notin c.pipe.named /\ t \notin held
      /\ \A i \in DOMAIN inbox : inbox[i].turn # t
      /\ ~Closed(c.pipe, t) /\ t \in AtServer(c.pipe)
      /\ mode.faults = 0 => held \subseteq AtServer(c.pipe)
      /\ mode' = mode /\ captured' = captured /\ voiced' = voiced
  BY <1>2, OfTheStarted
<1> HIDE DEF c
<1>4. Tellable(c.pipe, held, held', inbox, "ready", t)
  BY <1>1, <1>3 DEF Tellable
<1>5. [kind |-> "ready", turn |-> t] \in Events
  BY DEF Events
<1> QED  BY <1>1, <1>3, <1>4, <1>5, Told DEF Typed

LEMMA ServerRefusesEffect ==
    ASSUME IInv, NEW t \in Turns, ServerRefuses(t)
    PROVE  IInv'
<1> DEFINE c == WithPipe(Client, Served(pipe))
<1>1. /\ Typed /\ held' = held /\ held \subseteq Turns
      /\ Tells("refused", t)
      /\ tally' \in [refusals : Nat, faults : Nat, asks : Nat]
      /\ mode.faults = 0 => tally'.faults = 0
  BY Here DEF ServerRefuses, Typed
<1>2. Start(t) /\ held' \subseteq Turns
  BY <1>1 DEF ServerRefuses
<1>3. /\ c \in Clients /\ ~Stopped(c) /\ Client' = c
      /\ Core(c, captured, held, voiced, inbox) /\ OneByOne(c)
      /\ c.pipe.phase[t] \in {"handshaking", "ending"}
      /\ \A i \in DOMAIN c.pipe.asked : c.pipe.asked[i] # t
      /\ t \notin c.pipe.named /\ t \notin held
      /\ \A i \in DOMAIN inbox : inbox[i].turn # t
      /\ ~Closed(c.pipe, t) /\ t \in AtServer(c.pipe)
      /\ mode.faults = 0 => held \subseteq AtServer(c.pipe)
      /\ mode' = mode /\ captured' = captured /\ voiced' = voiced
  BY <1>2, OfTheStarted
<1> HIDE DEF c
<1>4. Tellable(c.pipe, held, held', inbox, "refused", t)
  BY <1>1, <1>3 DEF Tellable
<1>5. [kind |-> "refused", turn |-> t] \in Events
  BY DEF Events
<1> QED  BY <1>1, <1>3, <1>4, <1>5, Told

LEMMA ServerVoicesEffect ==
    ASSUME IInv, NEW t \in Turns, ServerVoices(t)
    PROVE  IInv'
<1>1. /\ Typed /\ Client \in Clients /\ OneByOne(Client)
      /\ Core(Client, captured, held, voiced, inbox)
      /\ Client.pipe = pipe
  BY Here
<1>2. /\ t \in held /\ held' = held /\ Tells("audio", t) /\ tally' = tally
      /\ voiced' = [voiced EXCEPT ![t] = @ + 1]
      /\ mode' = mode /\ captured' = captured /\ Client' = Client
  BY DEF ServerVoices, Client
<1>3. /\ ~Stopped(Client)
      /\ pipe.phase[t] \notin {"none", "waiting"}
      /\ \A i \in DOMAIN pipe.asked : pipe.asked[i] # t
      /\ \A i \in DOMAIN inbox : inbox[i].turn = t =>
             inbox[i].kind \notin {"refused", "completed", "error"}
      /\ mode.faults = 0 => held \subseteq AtServer(pipe)
  BY <1>2, OfTheHeld
<1>4. Tellable(Client.pipe, held, held', inbox, "audio", t)
  BY <1>1, <1>2, <1>3 DEF Tellable
<1>5. [kind |-> "audio", turn |-> t] \in Events
  BY DEF Events
<1> QED  BY <1>1, <1>2, <1>3, <1>4, <1>5, Told DEF Typed

LEMMA ServerFaultsEffect ==
    ASSUME IInv, NEW t \in Turns, ServerFaults(t)
    PROVE  IInv'
<1>1. /\ Typed /\ Client \in Clients /\ OneByOne(Client)
      /\ Core(Client, captured, held, voiced, inbox)
      /\ Client.pipe = pipe /\ held \subseteq Turns
  BY Here
<1>2. /\ tally.faults < mode.faults /\ Tells("failed", t) /\ held' = held
      /\ tally' = [tally EXCEPT !.faults = @ + 1]
  BY DEF ServerFaults
<1>3. mode.faults # 0
  BY <1>1, <1>2 DEF Typed
<1>4. tally' \in [refusals : Nat, faults : Nat, asks : Nat]
  BY <1>1, <1>2 DEF Typed
<1>5. [kind |-> "failed", turn |-> t] \in Events
  BY DEF Events
<1>6. CASE Start(t)
  <2> DEFINE c == WithPipe(Client, Served(pipe))
  <2>1. /\ c \in Clients /\ ~Stopped(c) /\ Client' = c
        /\ Core(c, captured, held, voiced, inbox) /\ OneByOne(c)
        /\ c.pipe.phase[t] \in {"handshaking", "ending"}
        /\ \A i \in DOMAIN c.pipe.asked : c.pipe.asked[i] # t
        /\ \A i \in DOMAIN inbox : inbox[i].turn # t
        /\ ~Closed(c.pipe, t)
        /\ mode' = mode /\ captured' = captured /\ voiced' = voiced
    BY <1>1, <1>2, <1>6, OfTheStarted
  <2> HIDE DEF c
  <2>2. Tellable(c.pipe, held, held', inbox, "failed", t)
    BY <1>2, <1>3, <2>1 DEF Tellable
  <2> QED  BY <1>1, <1>2, <1>3, <1>4, <1>5, <2>1, <2>2, Told
<1>7. CASE t \in held /\ UNCHANGED <<mode, pipe, play, sess, owed, rows,
                                     captured, voiced>>
  <2>1. mode' = mode /\ captured' = captured /\ voiced' = voiced
        /\ Client' = Client
    BY <1>7 DEF Client
  <2>2. /\ ~Stopped(Client)
        /\ pipe.phase[t] \notin {"none", "waiting"}
        /\ \A i \in DOMAIN pipe.asked : pipe.asked[i] # t
        /\ \A i \in DOMAIN inbox : inbox[i].turn = t =>
               inbox[i].kind \notin {"refused", "completed", "error"}
    BY <1>7, OfTheHeld
  <2>3. Tellable(Client.pipe, held, held', inbox, "failed", t)
    BY <1>1, <1>2, <1>3, <2>2 DEF Tellable
  <2> QED  BY <1>1, <1>2, <1>3, <1>4, <1>5, <1>7, <2>1, <2>2, <2>3, Told
<1> QED  BY <1>6, <1>7 DEF ServerFaults

LEMMA ServerEndsEffect ==
    ASSUME IInv, NEW t \in Turns, ServerEnds(t)
    PROVE  IInv'
<1>1. /\ Typed /\ Client \in Clients /\ OneByOne(Client)
      /\ Core(Client, captured, held, voiced, inbox)
      /\ Client.pipe = pipe
  BY Here
<1>2. /\ t \in held /\ held' = held \ {t} /\ tally' = tally
      /\ voiced' = voiced
      /\ mode' = mode /\ captured' = captured /\ Client' = Client
  BY DEF ServerEnds, Client
<1>3. PICK reason \in {"completed", "error"} : Tells(reason, t)
  BY DEF ServerEnds
<1>4. /\ ~Stopped(Client)
      /\ pipe.phase[t] \notin {"none", "waiting"}
      /\ \A i \in DOMAIN pipe.asked : pipe.asked[i] # t
      /\ \A i \in DOMAIN inbox : inbox[i].turn = t =>
             inbox[i].kind \notin {"refused", "completed", "error"}
      /\ mode.faults = 0 => held \subseteq AtServer(pipe)
  BY <1>2, OfTheHeld
<1>5. Tellable(Client.pipe, held, held', inbox, reason, t)
  BY <1>1, <1>2, <1>4 DEF Tellable
<1>6. [kind |-> reason, turn |-> t] \in Events
  BY DEF Events
<1>7. reason # "audio"
  OBVIOUS
<1> QED  BY <1>1, <1>2, <1>3, <1>4, <1>5, <1>6, <1>7, Told DEF Typed

LEMMA ServerEffect ==
    ASSUME IInv, Server
    PROVE  IInv'
BY ServerAdmitsEffect, ServerRefusesEffect, ServerVoicesEffect,
   ServerFaultsEffect, ServerEndsEffect DEF Server

-----------------------------------------------------------------------------
(***************************************************************************)
(* The specification.                                                      *)
(***************************************************************************)

(* Every step of the client or of the server, and every step in which      *)
(* neither moves, leaves the invariant as it found it.                     *)
LEMMA NextEffect ==
    ASSUME IInv, [Next]_vars
    PROVE  IInv'
<1>1. CASE Next
  BY <1>1, SpeakerEffect, RetryTimerEffect, HearEffect, LoudspeakerEffect,
     EndingEffect, ServerEffect DEF Next
<1>2. CASE UNCHANGED vars
  <2>1. /\ Client' = Client /\ mode' = mode /\ captured' = captured
        /\ held' = held /\ voiced' = voiced /\ inbox' = inbox
        /\ tally' = tally
    BY <1>2 DEF vars, serverVars, Client
  <2>2. /\ Typed /\ Client \in Clients /\ OneByOne(Client)
        /\ Core(Client, captured, held, voiced, inbox)
    BY Here
  <2>3. Core(Client, captured', held', voiced', inbox')
    BY <2>1, <2>2
  <2> QED  BY <2>1, <2>2, <2>3, Renewed DEF Typed
<1> QED  BY <1>1, <1>2

(* IInv is inductive: the client's records are well formed, playback,      *)
(* pipeline and wire agree on every turn, and a client that answers one    *)
(* turn at a time listens exactly when it has none.                        *)
THEOREM InvariantHolds == Spec => []IInv
<1>1. Init => IInv
  BY InitEffect
<1>2. IInv /\ [Next]_vars => IInv'
  BY NextEffect
<1> QED  BY <1>1, <1>2, PTL DEF Spec

(* The types of the state: turns, phases, frame counts and the session's   *)
(* states stay what they are declared to be.                               *)
THEOREM TypesHold == Spec => []TypeOK
<1>1. IInv => TypeOK
  <2> SUFFICES ASSUME IInv PROVE TypeOK
    OBVIOUS
  <2>1. /\ pipe \in Pipes /\ play \in Players /\ sess \in Sessions
        /\ held \subseteq Turns
    BY Here
  <2>2. mode \in Modes
    BY Here DEF Typed
  <2> QED  BY <2>1, <2>2 DEF TypeOK, Pipes, Phases, Players, Sessions
<1> QED  BY <1>1, InvariantHolds, PTL

(* Every block captured was sent, is held or was shed and counted, once    *)
(* and in order, whichever of pushAudio(), flushPending() and              *)
(* enforcePendingCeiling() met it.                                         *)
THEOREM BlocksAccounted == Spec => []EveryBlockIsAccounted
<1>1. IInv => EveryBlockIsAccounted
  <2> SUFFICES ASSUME IInv, NEW t \in Turns, Running, pipe.phase[t] # "none"
               PROVE  Accounted(pipe, t, captured[t])
    BY DEF EveryBlockIsAccounted, Accounted
  <2>1. Blocks(pipe, captured)
    BY Here DEF Running, Piped
  <2> QED  BY <2>1 DEF Blocks
<1> QED  BY <1>1, InvariantHolds, PTL

(* Turns sound in the order they were spoken, and the watchdog is always   *)
(* on the one the others wait behind: pump(), push(), drop() and the timer *)
(* inside one another.                                                     *)
THEOREM SpeaksInOrder == Spec => []SpeakingOrder
<1>1. IInv => SpeakingOrder
  <2> SUFFICES ASSUME IInv PROVE SpeakingOrder
    OBVIOUS
  <2>1. CASE Stopped(Client)
    <3>1. play = Silence(Turns)
      BY <2>1, Here DEF Core, Silent
    <3>2. /\ play.queue = {} /\ play.watching = NoTurn
          /\ \A t \in Turns : play.sounding[t] = 0
      BY <3>1 DEF Silence
    <3> QED  BY <3>2
             DEF SpeakingOrder, SinkFollowsQueue, HeadIsWatched, IsPlayingTurn
  <2>2. CASE ~Stopped(Client)
    <3>1. play \in Players /\ Audible(play)
      BY <2>2, Here
    <3>2. SinkFollowsQueue
      <4> SUFFICES ASSUME NEW t \in Turns, IsPlayingTurn(play, t)
                   PROVE  play.queue # {} /\ t = Oldest(play)
        BY DEF SinkFollowsQueue
      <4>1. t \in play.queue /\ \A u \in play.queue : t <= u
        BY <3>1 DEF Audible, Loose, IsPlayingTurn
      <4> QED  BY <3>1, <4>1, OldestFacts
    <3>3. HeadIsWatched
      BY <3>1 DEF Audible, HeadIsWatched
    <3> QED  BY <3>2, <3>3 DEF SpeakingOrder
  <2> QED  BY <2>1, <2>2
<1> QED  BY <1>1, InvariantHolds, PTL

(* A turn files one row, once it is closed and played out, and the row is  *)
(* true of what was heard: onTurnClosed() and onRetired() in any order.    *)
THEOREM RowsAreTrue == Spec => []OneTrueRow
<1>1. IInv => OneTrueRow
  <2> SUFFICES ASSUME IInv, NEW t \in Turns
      PROVE  /\ Len(rows[t]) <= 1
             /\ Running =>
                    /\ rows[t] # <<>> <=>
                           /\ t \in pipe.named
                           /\ pipe.phase[t] = "gone"
                           /\ ~Holds(play, t)
                    /\ rows[t] = <<"played">> =>
                           /\ play.heard[t] = voiced[t]
                           /\ ~IsPlayingTurn(play, t)
                    /\ rows[t] = <<"no_audio">> => voiced[t] = 0
    BY DEF OneTrueRow
  <2>1. Len(rows[t]) <= 1
    <3>1. Core(Client, captured, held, voiced, inbox)
      BY Here
    <3> QED  BY <3>1 DEF Core, Client
  <2>2. ASSUME Running
        PROVE  /\ Rows(pipe, play, owed, rows, held, voiced)
               /\ Audible(play)
    BY <2>2, Here DEF Running
  <2>3. ASSUME Running, rows[t] # <<>>
        PROVE  ~IsPlayingTurn(play, t)
    BY <2>2, <2>3 DEF Rows, Audible, Loose, IsPlayingTurn
  <2>4. <<"played">> # <<>>
    OBVIOUS
  <2> QED  BY <2>1, <2>2, <2>3, <2>4 DEF Rows, Closed, Holds
<1> QED  BY <1>1, InvariantHolds, PTL

(* A client that answers one turn at a time never stops listening with     *)
(* nothing left to wait for: armIfTurnComplete() is called from both ends  *)
(* of the wait.                                                            *)
THEOREM NeverMutedForGood == Spec => []MutedForAReason
<1>1. IInv => MutedForAReason
  <2> SUFFICES ASSUME IInv, Single(Client), sess.st = "live", ~sess.armed
               PROVE  pipe.turns # {} \/ IsBusy(play)
    BY DEF MutedForAReason
  <2>1. OneByOne(Client) /\ Client.sess = sess
        /\ Client.pipe = pipe /\ Client.play = play
    BY Here
  <2> QED  BY <2>1 DEF OneByOne, Alternates
<1> QED  BY <1>1, InvariantHolds, PTL

(* Without a fault of the server, every turn it holds or will read a start *)
(* of is counted by the client: enforcePendingCeiling() and the refusals   *)
(* free no slot the server still has.                                      *)
THEOREM CeilingsAgree == Spec => []ServerTurnsAreCounted
<1>1. IInv => ServerTurnsAreCounted
  <2> SUFFICES ASSUME IInv, Running, mode.faults = 0
               PROVE  held \cup ToSet(pipe.asked) \subseteq AtServer(pipe)
    BY DEF ServerTurnsAreCounted
  <2>1. /\ pipe \in Pipes /\ Phased(pipe) /\ held \subseteq AtServer(pipe)
    BY Here DEF Running, Piped, Counted
  <2>2. ASSUME NEW i \in DOMAIN pipe.asked
        PROVE  pipe.asked[i] \in AtServer(pipe)
    <3>1. pipe.asked[i] \in Turns
      BY <2>1 DEF Pipes
    <3>2. pipe.phase[pipe.asked[i]] \in {"handshaking", "ending"}
      BY <2>1 DEF Phased
    <3>3. pipe.asked[i] \in pipe.turns
      BY <2>1, <3>1, <3>2 DEF Phased
    <3> QED  BY <3>2, <3>3 DEF AtServer, InPhase
  <2> QED  BY <2>1, <2>2 DEF ToSet
<1> QED  BY <1>1, InvariantHolds, PTL
=============================================================================
