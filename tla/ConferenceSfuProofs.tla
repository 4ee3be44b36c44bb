------------------------ MODULE ConferenceSfuProofs ------------------------
(***************************************************************************)
(* The locks of ConferenceSfu for any sockets, peers and bounds.  First    *)
(* the queue as a value; then the shape of the state; then, per socket,    *)
(* that an unanswered offer the code saw or may know of is held, or its    *)
(* client was told to start over, or has left.  A socket's lock depends on *)
(* its own queue, offers and seat only, so a step is proved on the socket  *)
(* it is of and leaves the others.                                         *)
(***************************************************************************)
EXTENDS ConferenceSfu, SequenceTheorems, TLAPS

-----------------------------------------------------------------------------
(* Queues, whatever is queued.                                              *)

Line(q) == {c \in Calls : \E i \in DOMAIN q.waiting : q.waiting[i] = c}

WellFormed(q) == q \in QueueType /\ (q.running = Nobody => q.waiting = <<>>)

(* Queues are records of their two fields. *)
LEMMA QueueFields ==
    /\ \A q \in QueueType :
          /\ q.running \in Calls \cup {Nobody} /\ q.waiting \in Seq(Calls)
          /\ q = [running |-> q.running, waiting |-> q.waiting]
    /\ \A r \in Calls \cup {Nobody}, w \in Seq(Calls) :
          /\ [running |-> r, waiting |-> w] \in QueueType
          /\ [running |-> r, waiting |-> w].running = r
          /\ [running |-> r, waiting |-> w].waiting = w
BY DEF QueueType

(* The first in line takes a free key, and only then does the line move.    *)
LEMMA AdvanceFacts ==
    ASSUME NEW q \in QueueType
    PROVE  /\ WellFormed(Advance(q))
           /\ q.running # Nobody => Advance(q) = q
           /\ q.running = Nobody => Advance(q).running \in Line(q) \cup {Nobody}
           /\ Line(Advance(q)) \subseteq Line(q)
           /\ Line(q) \subseteq Line(Advance(q)) \cup {Advance(q).running}
<1>1. CASE q.running # Nobody \/ q.waiting = <<>>
  <2>1. Advance(q) = q
    BY <1>1 DEF Advance
  <2>2. WellFormed(q)
    BY <1>1 DEF WellFormed
  <2>3. q.running = Nobody => Advance(q).running = Nobody
    BY <2>1
  <2> QED  BY <2>1, <2>2, <2>3
<1>2. CASE q.running = Nobody /\ q.waiting # <<>>
  <2>1. PICK w \in Seq(Calls) : w = q.waiting /\ w # <<>>
    BY <1>2, QueueFields
  <2>2. /\ Head(w) \in Calls /\ Tail(w) \in Seq(Calls)
        /\ Len(Tail(w)) = Len(w) - 1 /\ Len(w) \in Nat \ {0}
        /\ \A i \in 1 .. Len(Tail(w)) : Tail(w)[i] = w[i + 1]
        /\ DOMAIN w = 1 .. Len(w) /\ DOMAIN Tail(w) = 1 .. Len(Tail(w))
        /\ Head(w) = w[1]
    BY <2>1, HeadTailProperties, LenProperties, EmptySeq
  <2>3. /\ Advance(q).running = Head(w) /\ Advance(q).waiting = Tail(w)
        /\ Advance(q) \in QueueType
    BY <1>2, <2>1, <2>2, QueueFields DEF Advance
  <2>4. Line(Advance(q)) \subseteq Line(q)
    <3> SUFFICES ASSUME NEW c \in Calls, NEW i \in 1 .. Len(Tail(w)),
                        Tail(w)[i] = c
                 PROVE  \E j \in 1 .. Len(w) : w[j] = c
      BY <2>1, <2>2, <2>3 DEF Line
    <3>1. i + 1 \in 1 .. Len(w) /\ w[i + 1] = c
      BY <2>2
    <3> QED  BY <3>1
  <2>5. Line(q) \subseteq Line(Advance(q)) \cup {Head(w)}
    <3> SUFFICES ASSUME NEW c \in Line(q), c # Head(w)
                 PROVE  c \in Line(Advance(q))
      OBVIOUS
    <3>1. c \in Calls /\ \E j \in 1 .. Len(w) : w[j] = c
      BY <2>1, <2>2 DEF Line
    <3>2. PICK j \in 1 .. Len(w) : w[j] = c
      BY <3>1
    <3>3. j # 1
      BY <2>2, <3>2
    <3>4. j - 1 \in 1 .. Len(Tail(w)) /\ Tail(w)[j - 1] = c
      BY <2>2, <3>2, <3>3
    <3> QED  BY <2>2, <2>3, <3>1, <3>4 DEF Line
  <2>6. Head(w) \in Line(q)
    BY <2>1, <2>2 DEF Line
  <2>7. WellFormed(Advance(q))
    BY <2>2, <2>3, NobodyIsNoCall DEF WellFormed
  <2> QED  BY <1>2, <2>3, <2>4, <2>5, <2>6, <2>7
<1> QED  BY <1>1, <1>2

(* run(): the call gets a free key, or the end of the line. *)
LEMMA RunFacts ==
    ASSUME NEW q, WellFormed(q), NEW c \in Calls
    PROVE  /\ WellFormed(Run(q, c))
           /\ Run(q, c).running # Nobody
           /\ q.running # Nobody => /\ Run(q, c).running = q.running
                                    /\ Line(Run(q, c)) = Line(q) \cup {c}
           /\ q.running = Nobody => /\ Run(q, c).running = c
                                    /\ Line(Run(q, c)) = {}
<1>1. PICK w \in Seq(Calls), x \in Calls \cup {Nobody} :
          w = q.waiting /\ x = q.running /\ q = [running |-> x, waiting |-> w]
  BY QueueFields DEF WellFormed
<1>2. /\ Append(w, c) \in Seq(Calls) /\ Append(w, c) # <<>>
      /\ Len(w) \in Nat
      /\ \A i \in 1 .. Len(w) : Append(w, c)[i] = w[i]
      /\ Append(w, c)[Len(w) + 1] = c
      /\ DOMAIN w = 1 .. Len(w)
      /\ DOMAIN Append(w, c) = 1 .. Len(w) + 1
  <2>1. /\ Append(w, c) \in Seq(Calls) /\ Append(w, c) # <<>>
        /\ Len(Append(w, c)) = Len(w) + 1
        /\ \A i \in 1 .. Len(w) : Append(w, c)[i] = w[i]
        /\ Append(w, c)[Len(w) + 1] = c
    BY AppendProperties
  <2> QED  BY <2>1, LenProperties
<1> DEFINE r == [running |-> x, waiting |-> Append(w, c)]
<1>3. r \in QueueType /\ r.running = x /\ r.waiting = Append(w, c)
  BY <1>2, QueueFields
<1>4. Run(q, c) = Advance(r)
  BY <1>1 DEF Run
<1> HIDE DEF r
<1>5. CASE x # Nobody
  <2>1. Run(q, c) = r
    BY <1>3, <1>4, <1>5, AdvanceFacts
  <2>2. Line(r) = Line(q) \cup {c}
    <3>1. ASSUME NEW d \in Calls
          PROVE  d \in Line(r) <=> d \in Line(q) \/ d = c
      <4>1. d \in Line(r) <=> \E i \in 1 .. Len(w) + 1 : Append(w, c)[i] = d
        BY <1>2, <1>3 DEF Line
      <4>2. d \in Line(q) <=> \E i \in 1 .. Len(w) : w[i] = d
        BY <1>1, <1>2 DEF Line
      <4> QED  BY <1>2, <4>1, <4>2
    <3> QED  BY <3>1 DEF Line
  <2> QED  BY <1>1, <1>3, <1>5, <2>1, <2>2 DEF WellFormed
<1>6. CASE x = Nobody
  <2>1. w = <<>>
    BY <1>1, <1>6 DEF WellFormed
  <2>2. Head(Append(w, c)) = c /\ Tail(Append(w, c)) = <<>>
    BY <2>1, HeadTailAppend
  <2>3. Run(q, c).running = c /\ Run(q, c).waiting = <<>>
    BY <1>2, <1>3, <1>4, <1>6, <2>2 DEF Advance
  <2>4. Line(Run(q, c)) = {}
    BY <2>3 DEF Line
  <2> QED  BY <1>1, <1>3, <1>4, <1>6, <2>3, <2>4, NobodyIsNoCall, AdvanceFacts
<1> QED  BY <1>5, <1>6

(* finish(): the key goes to one in line, or to nobody. *)
LEMMA FinishFacts ==
    ASSUME NEW q, WellFormed(q)
    PROVE  /\ WellFormed(Finish(q))
           /\ Finish(q).running \in Line(q) \cup {Nobody}
           /\ Line(Finish(q)) \subseteq Line(q)
           /\ Line(q) \subseteq Line(Finish(q)) \cup {Finish(q).running}
<1>1. PICK r \in QueueType : /\ r = [running |-> Nobody, waiting |-> q.waiting]
                             /\ r.running = Nobody /\ r.waiting = q.waiting
  BY QueueFields DEF WellFormed
<1>2. Line(r) = Line(q)
  BY <1>1 DEF Line
<1>3. Finish(q) = Advance(r)
  BY <1>1 DEF Finish
<1> QED  BY <1>1, <1>2, <1>3, AdvanceFacts

(* A hold opened by the call that has the key is next, and changes nothing  *)
(* for those in line.                                                       *)
LEMMA HoldFacts ==
    ASSUME NEW q, WellFormed(q), q.running # Nobody, NEW c \in Calls
    PROVE  Finish(Hold(q, c)) = [running |-> c, waiting |-> q.waiting]
<1>1. PICK w \in Seq(Calls), x \in Calls :
          w = q.waiting /\ x = q.running /\ q = [running |-> x, waiting |-> w]
  BY QueueFields DEF WellFormed
<1>2. Hold(q, c) = [running |-> x, waiting |-> <<c>> \o w]
  BY <1>1 DEF Hold
<1>3. <<c>> \o w # <<>> /\ Head(<<c>> \o w) = c /\ Tail(<<c>> \o w) = w
  <2>1. /\ <<c>> \in Seq(Calls) /\ Len(<<c>>) = 1 /\ <<c>>[1] = c
        /\ <<c>> # <<>>
    OBVIOUS
  <2>2. /\ <<c>> \o w \in Seq(Calls) /\ Len(<<c>> \o w) = 1 + Len(w)
        /\ \A i \in 1 .. 1 + Len(w) : (<<c>> \o w)[i] =
               IF i <= 1 THEN <<c>>[i] ELSE w[i - 1]
        /\ Len(w) \in Nat
    BY <2>1, ConcatProperties, LenProperties
  <2>3. <<c>> \o w # <<>> /\ Head(<<c>> \o w) = c
    BY <2>1, <2>2, EmptySeq
  <2>4. /\ Tail(<<c>> \o w) \in Seq(Calls)
        /\ Len(Tail(<<c>> \o w)) = Len(w)
        /\ \A i \in 1 .. Len(w) : Tail(<<c>> \o w)[i] = (<<c>> \o w)[i + 1]
    BY <2>2, <2>3, HeadTailProperties
  <2>5. \A i \in 1 .. Len(w) : Tail(<<c>> \o w)[i] = w[i]
    BY <2>2, <2>4
  <2>6. Tail(<<c>> \o w) = w
    BY <2>4, <2>5, SeqEqual
  <2> QED  BY <2>3, <2>6
<1>4. /\ [running |-> x, waiting |-> <<c>> \o w].waiting = <<c>> \o w
      /\ [running |-> Nobody, waiting |-> <<c>> \o w].running = Nobody
      /\ [running |-> Nobody, waiting |-> <<c>> \o w].waiting = <<c>> \o w
  OBVIOUS
<1>5. Finish(Hold(q, c)) = Advance([running |-> Nobody, waiting |-> <<c>> \o w])
  BY <1>2, <1>4 DEF Finish
<1> QED  BY <1>1, <1>3, <1>4, <1>5 DEF Advance

-----------------------------------------------------------------------------
(* Keys name one session each. *)
LEMMA KeyFacts ==
    /\ \A s \in Sockets : Pub(s) \in Keys /\ Sub(s) \in Keys
    /\ \A k \in Keys : k[2] \in Sockets /\ (k = Pub(k[2]) \/ k = Sub(k[2]))
    /\ \A s, t : Sub(s) = Sub(t) => s = t
    /\ \A s, t : Pub(s) = Pub(t) => s = t
    /\ \A s, t : Pub(s) # Sub(t)
    /\ \A s : Sub(s)[2] = s /\ Pub(s)[2] = s
BY DEF Pub, Sub, Keys

-----------------------------------------------------------------------------
(* Who is in line for a session.                                            *)

(* Everyone at q sits or sat at socket x, and a hold never waits.           *)
AtPlace(q, x, P) ==
    /\ WellFormed(q)
    /\ q.running # Nobody => SocketOf[q.running.peer] = x /\ q.running.peer \in P
    /\ \A c \in Line(q) :
          SocketOf[c.peer] = x /\ c.peer \in P /\ c.what # "hold"

RoomShape ==
    /\ ready \in [Sockets -> {"open", "closing", "gone"}]
    /\ seats \in [Sockets -> Peers \cup {NoPeer}]
    /\ past \subseteq Peers
    /\ \A s \in Sockets :
          seats[s] # NoPeer => SocketOf[seats[s]] = s /\ seats[s] \in past

DataShape ==
    /\ asked \in [Sockets -> SUBSET Sockets]
    /\ subs \subseteq Peers /\ published \subseteq Peers
    /\ pulled \in [Peers -> SUBSET Sockets]
    /\ open \in [Sockets -> Peers \cup {NoPeer}]
    /\ offers \subseteq Peers /\ live \subseteq Peers /\ unclosed \subseteq Peers
    /\ unread \subseteq Peers /\ unheard \subseteq Peers
    /\ publishes \in [Peers -> Nat]
    /\ asking \subseteq Peers /\ due \subseteq Peers
    /\ retries \in [Peers -> Nat]
    /\ refused \in [Peers -> SUBSET Sockets]

QueueShape ==
    /\ queue \in [Keys -> QueueType]
    /\ at \in [Keys -> Stages]
    /\ \A k \in Keys : /\ AtPlace(queue[k], k[2], past)
                       /\ queue[k].running = Nobody => at[k] = "start"

ShapeInv == RoomShape /\ DataShape /\ QueueShape

(* A call of the socket's own peers may join its lines. *)
LEMMA PlaceRun ==
    ASSUME NEW q, NEW x, NEW P, AtPlace(q, x, P), NEW c \in Calls,
           SocketOf[c.peer] = x, c.peer \in P, c.what # "hold"
    PROVE  AtPlace(Run(q, c), x, P) /\ Run(q, c).running # Nobody
BY RunFacts DEF AtPlace

(* A hold never waits, so the end of a call never starts one. *)
LEMMA PlaceFinish ==
    ASSUME NEW q, NEW x, NEW P, AtPlace(q, x, P)
    PROVE  /\ AtPlace(Finish(q), x, P)
           /\ Finish(q).running # Nobody => Finish(q).running.what # "hold"
BY FinishFacts DEF AtPlace

(* The hold of a pull that has the key takes it over at once. *)
LEMMA PlaceHold ==
    ASSUME NEW q, NEW x, NEW P, AtPlace(q, x, P), q.running # Nobody,
           NEW c \in Calls, SocketOf[c.peer] = x, c.peer \in P
    PROVE  /\ AtPlace(Finish(Hold(q, c)), x, P)
           /\ Finish(Hold(q, c)).running = c
           /\ Line(Finish(Hold(q, c))) = Line(q)
<1>1. Finish(Hold(q, c)) = [running |-> c, waiting |-> q.waiting]
  BY HoldFacts DEF AtPlace
<1>2. q \in QueueType
  BY DEF AtPlace, WellFormed
<1>3. /\ Finish(Hold(q, c)) \in QueueType
      /\ Finish(Hold(q, c)).running = c
      /\ Finish(Hold(q, c)).waiting = q.waiting
  BY <1>1, <1>2, QueueFields
<1>4. Line(Finish(Hold(q, c))) = Line(q)
  BY <1>3 DEF Line
<1>5. WellFormed(Finish(Hold(q, c)))
  BY <1>3, NobodyIsNoCall DEF WellFormed
<1> QED  BY <1>3, <1>4, <1>5 DEF AtPlace

(* The fields of calls. *)
LEMMA CallFacts ==
    /\ \A p \in Peers, what \in {"publish", "subscribe", "hold", "closePub", "closeSub"} :
          /\ CallOf(what, p) \in Calls
          /\ CallOf(what, p).peer = p /\ CallOf(what, p).what = what
    /\ \A p \in Peers, s \in Sockets :
          /\ Drop(p, s) \in Calls
          /\ Drop(p, s).peer = p /\ Drop(p, s).what = "drop"
          /\ Drop(p, s).leaver = s
BY SocketsOfPeers DEF CallOf, Drop, Calls

(* Where a leaver's clean-up goes: to the end of each line it concerns.     *)
LEMMA UnseatFacts ==
    ASSUME ShapeInv, NEW s \in Sockets, seats[s] # NoPeer, Unseat(s)
    PROVE  /\ queue'[Pub(s)] = Run(queue[Pub(s)], CallOf("closePub", seats[s]))
           /\ queue'[Sub(s)] = Run(IF open[s] = seats[s] THEN Finish(queue[Sub(s)])
                                                         ELSE queue[Sub(s)],
                                   CallOf("closeSub", seats[s]))
           /\ \A t \in Sockets \ {s} :
                 /\ queue'[Pub(t)] = queue[Pub(t)]
                 /\ queue'[Sub(t)] = IF seats[t] = NoPeer THEN queue[Sub(t)]
                                     ELSE Run(queue[Sub(t)], Drop(seats[t], s))
           /\ queue' = [k \in Keys |-> queue'[k]]
           /\ seats' = [seats EXCEPT ![s] = NoPeer]
           /\ open' = [open EXCEPT ![s] = IF open[s] = seats[s] THEN NoPeer ELSE open[s]]
           /\ due' \subseteq due /\ asking' \subseteq asking
<1>1. SocketOf[seats[s]] = s
  BY DEF ShapeInv, RoomShape
<1>2. ClosedOwn(Pub(s), seats[s]) = Run(queue[Pub(s)], CallOf("closePub", seats[s]))
  BY <1>1, KeyFacts DEF ClosedOwn
<1>3. ClosedOwn(Sub(s), seats[s]) =
         Run(IF open[s] = seats[s] THEN Finish(queue[Sub(s)]) ELSE queue[Sub(s)],
             CallOf("closeSub", seats[s]))
  BY <1>1, KeyFacts DEF ClosedOwn
<1>4. \A t \in Sockets \ {s} :
         /\ ClosedOwn(Pub(t), seats[s]) = queue[Pub(t)]
         /\ ClosedOwn(Sub(t), seats[s]) = queue[Sub(t)]
  BY <1>1, KeyFacts DEF ClosedOwn
<1> QED  BY <1>2, <1>3, <1>4, KeyFacts DEF Unseat, Dropped

(* Closing sockets keeps their type and opens none. *)
LEMMA CloseFacts ==
    ASSUME ready \in [Sockets -> {"open", "closing", "gone"}], NEW ss
    PROVE  /\ Close(ss) \in [Sockets -> {"open", "closing", "gone"}]
           /\ \A s \in Sockets : /\ s \in ss => Close(ss)[s] # "open"
                                /\ ready[s] # "open" => Close(ss)[s] # "open"
BY DEF Close

(* Steps that leave the queues alone. *)
LEMMA QueuesStay ==
    ASSUME QueueShape, queue' = queue, at' = at, past \subseteq past'
    PROVE  QueueShape'
BY DEF QueueShape, AtPlace

(* Steps that change one queue. *)
LEMMA OneQueueMoves ==
    ASSUME QueueShape, past' = past, NEW k \in Keys, NEW q, NEW a \in Stages,
           queue' = [queue EXCEPT ![k] = q], at' = [at EXCEPT ![k] = a],
           AtPlace(q, k[2], past), q.running = Nobody => a = "start"
    PROVE  QueueShape'
<1>1. q \in QueueType
  BY DEF AtPlace, WellFormed
<1> QED  BY <1>1 DEF QueueShape

(* Steps of the call that has a key, which keeps it. *)
LEMMA OneCallMoves ==
    ASSUME QueueShape, past' = past, NEW k \in Keys, NEW a \in Stages,
           queue[k].running # Nobody, queue' = queue, at' = [at EXCEPT ![k] = a]
    PROVE  QueueShape'
BY DEF QueueShape

(* Steps that end the call that has a key. *)
LEMMA OneCallEnds ==
    ASSUME QueueShape, past' = past, NEW k \in Keys, Hand(k, Finish(queue[k]))
    PROVE  QueueShape'
<1>1. AtPlace(queue[k], k[2], past)
  BY DEF QueueShape
<1>2. AtPlace(Finish(queue[k]), k[2], past)
  BY <1>1, PlaceFinish
<1> QED  BY <1>2, OneQueueMoves DEF Hand, Stages

(* Steps that queue a call. *)
LEMMA OneCallQueues ==
    ASSUME QueueShape, past' = past, at' = at, NEW k \in Keys, NEW c \in Calls,
           queue' = [queue EXCEPT ![k] = Run(queue[k], c)],
           SocketOf[c.peer] = k[2], c.peer \in past, c.what # "hold"
    PROVE  QueueShape'
<1>1. AtPlace(queue[k], k[2], past)
  BY DEF QueueShape
<1>2. AtPlace(Run(queue[k], c), k[2], past) /\ Run(queue[k], c).running # Nobody
  BY <1>1, PlaceRun
<1>3. at[k] \in Stages /\ at' = [at EXCEPT ![k] = at[k]]
  BY DEF QueueShape
<1> QED  BY <1>2, <1>3, OneQueueMoves

-----------------------------------------------------------------------------
(* The shape of the state is kept, one action at a time.                    *)

(* A seat is taken by a peer that never sat. *)
LEMMA ShapeJoin ==
    ASSUME ShapeInv, NEW p \in Peers, Join(p)
    PROVE  ShapeInv'
<1> USE DEF ShapeInv
<1>1. RoomShape'
  BY SocketsOfPeers DEF RoomShape, Join
<1>2. DataShape'
  BY DEF DataShape, Join, sfu
<1>3. QueueShape'
  BY QueuesStay DEF Join
<1> QED  BY <1>1, <1>2, <1>3

(* A seat is given up and its clean-up queued. *)
LEMMA ShapeUnseat ==
    ASSUME ShapeInv, NEW s \in Sockets, seats[s] # NoPeer, Unseat(s),
           ready' \in [Sockets -> {"open", "closing", "gone"}],
           UNCHANGED <<past, at, asked, subs, published, pulled, sfu, publishes,
                       retries, refused>>
    PROVE  ShapeInv'
<1> USE DEF ShapeInv
<1> DEFINE p == seats[s]
<1>1. p \in Peers /\ SocketOf[p] = s /\ p \in past
  BY DEF RoomShape
<1>2. RoomShape'
  BY UnseatFacts DEF RoomShape
<1>3. DataShape'
  BY <1>1, UnseatFacts DEF DataShape, sfu
<1>4. QueueShape'
  <2>1. ASSUME NEW t \in Sockets
        PROVE  /\ AtPlace(queue'[Pub(t)], t, past)
               /\ queue'[Pub(t)].running = Nobody => at[Pub(t)] = "start"
    <3>1. /\ AtPlace(queue[Pub(t)], t, past)
          /\ queue[Pub(t)].running = Nobody => at[Pub(t)] = "start"
      BY KeyFacts DEF QueueShape
    <3>2. CASE t # s
      BY <3>1, <3>2, UnseatFacts
    <3>3. CASE t = s
      BY <1>1, <3>1, <3>3, UnseatFacts, PlaceRun, CallFacts
    <3> QED  BY <3>2, <3>3
  <2>2. ASSUME NEW t \in Sockets
        PROVE  /\ AtPlace(queue'[Sub(t)], t, past)
               /\ queue'[Sub(t)].running = Nobody => at[Sub(t)] = "start"
    <3>1. /\ AtPlace(queue[Sub(t)], t, past)
          /\ queue[Sub(t)].running = Nobody => at[Sub(t)] = "start"
      BY KeyFacts DEF QueueShape
    <3>2. CASE t # s /\ seats[t] = NoPeer
      BY <3>1, <3>2, UnseatFacts
    <3>3. CASE t # s /\ seats[t] # NoPeer
      <4>1. seats[t] \in Peers /\ SocketOf[seats[t]] = t /\ seats[t] \in past
        BY <3>3 DEF RoomShape
      <4>2. queue'[Sub(t)] = Run(queue[Sub(t)], Drop(seats[t], s))
        BY <3>3, UnseatFacts
      <4>3. /\ Drop(seats[t], s) \in Calls /\ Drop(seats[t], s).peer = seats[t]
            /\ Drop(seats[t], s).what # "hold"
        BY <4>1, CallFacts
      <4> QED  BY <3>1, <4>1, <4>2, <4>3, PlaceRun
    <3>4. CASE t = s
      <4> DEFINE q == IF open[s] = p THEN Finish(queue[Sub(s)]) ELSE queue[Sub(s)]
      <4>1. AtPlace(q, s, past)
        BY <3>1, <3>4, PlaceFinish
      <4>2. queue'[Sub(s)] = Run(q, CallOf("closeSub", p))
        BY UnseatFacts
      <4> HIDE DEF q
      <4> QED  BY <1>1, <3>4, <4>1, <4>2, PlaceRun, CallFacts
    <3> QED  BY <3>2, <3>3, <3>4
  <2>3. ASSUME NEW k \in Keys
        PROVE  /\ AtPlace(queue'[k], k[2], past)
               /\ queue'[k].running = Nobody => at[k] = "start"
    BY <2>1, <2>2, KeyFacts
  <2>4. \A k \in Keys : queue'[k] \in QueueType
    BY <2>3 DEF AtPlace, WellFormed
  <2> QED  BY <2>3, <2>4, UnseatFacts DEF QueueShape
<1> QED  BY <1>2, <1>3, <1>4

(* All seats are given up at once. *)
LEMMA ShapeEndRoom ==
    ASSUME ShapeInv, EndRoom
    PROVE  ShapeInv'
<1> USE DEF ShapeInv
<1>1. RoomShape'
  BY CloseFacts DEF RoomShape, EndRoom
<1>2. DataShape'
  BY DEF DataShape, EndRoom, sfu
<1>3. ASSUME NEW k \in Keys
      PROVE  /\ AtPlace(queue'[k], k[2], past)
             /\ queue'[k].running = Nobody => at[k] = "start"
  <2>1. /\ AtPlace(queue[k], k[2], past) /\ k[2] \in Sockets
        /\ queue[k].running = Nobody => at[k] = "start"
    BY KeyFacts DEF QueueShape
  <2>2. CASE ~ \E p \in Peers : IsSeated(p) /\ SocketOf[p] = k[2]
    BY <2>1, <2>2 DEF EndRoom
  <2>3. CASE \E p \in Peers : IsSeated(p) /\ SocketOf[p] = k[2]
    <3>1. PICK p \in Peers : IsSeated(p) /\ SocketOf[p] = k[2]
      BY <2>3
    <3>2. seats[k[2]] = p /\ p \in past
      BY <2>1, <3>1, NoPeerIsNone DEF IsSeated, RoomShape
    <3>3. queue'[k] = ClosedOwn(k, p)
      BY <3>1, <3>2 DEF EndRoom
    <3>4. CASE k = Pub(k[2])
      <4>1. queue'[k] = Run(queue[k], CallOf("closePub", p))
        BY <3>1, <3>3, <3>4, KeyFacts DEF ClosedOwn
      <4> QED  BY <2>1, <3>1, <3>2, <4>1, PlaceRun, CallFacts
    <3>5. CASE k = Sub(k[2])
      <4> DEFINE q == IF open[SocketOf[p]] = p THEN Finish(queue[k]) ELSE queue[k]
      <4>1. AtPlace(q, k[2], past)
        BY <2>1, PlaceFinish
      <4>2. queue'[k] = Run(q, CallOf("closeSub", p))
        BY <3>1, <3>3, <3>5, KeyFacts DEF ClosedOwn
      <4> HIDE DEF q
      <4> QED  BY <3>1, <3>2, <4>1, <4>2, PlaceRun, CallFacts
    <3> QED  BY <3>4, <3>5, KeyFacts
  <2> QED  BY <2>2, <2>3
<1>4. QueueShape'
  <2>1. \A k \in Keys : queue'[k] \in QueueType
    BY <1>3 DEF AtPlace, WellFormed
  <2>2. queue' = [k \in Keys |-> queue'[k]] /\ at' = at /\ past' = past
    BY DEF EndRoom
  <2> QED  BY <1>3, <2>1, <2>2 DEF QueueShape
<1> QED  BY <1>1, <1>2, <1>4

(* Who has a key sits or sat on its socket. *)
LEMMA RunningFacts ==
    ASSUME ShapeInv, NEW k \in Keys, queue[k].running # Nobody
    PROVE  LET c == queue[k].running
           IN c \in Calls /\ c.peer \in past /\ c.peer \in Peers
              /\ c.leaver \in Sockets /\ SocketOf[c.peer] = k[2]
<1>1. queue[k].running \in Calls
  BY DEF ShapeInv, QueueShape, QueueType
<1>2. queue[k].running.peer \in past /\ SocketOf[queue[k].running.peer] = k[2]
  BY DEF ShapeInv, QueueShape, AtPlace
<1>3. \A c \in Calls : c.peer \in Peers /\ c.leaver \in Sockets
  BY DEF Calls
<1> QED  BY <1>1, <1>2, <1>3

(* A step of the call that has a publishing session's key leaves the room   *)
(* and the receiving sessions alone.                                        *)
LEMMA ShapePublishing ==
    ASSUME ShapeInv, NEW s \in Sockets, PublishStep(s)
    PROVE  /\ ShapeInv'
           /\ UNCHANGED <<room, asked, subs, pulled, open, offers, unread,
                          publishes, asking, retries, refused>>
           /\ \A t \in Sockets : UNCHANGED <<queue[Sub(t)], at[Sub(t)]>>
<1> USE DEF ShapeInv
<1> DEFINE k == Pub(s)
           p == queue[k].running.peer
<1>1. k \in Keys /\ \A t \in Sockets : k # Sub(t)
  BY KeyFacts
<1>2. queue \in [Keys -> QueueType] /\ at \in [Keys -> Stages]
  BY DEF QueueShape
<1>3. {"start", "call", "undo"} \subseteq Stages
  BY DEF Stages
<1>4. CASE PublishStarts(s)
  <2>1. queue[k].running # Nobody /\ p \in Peers
    BY <1>1, <1>4, RunningFacts DEF PublishStarts, Runs
  <2>2. RoomShape'
    BY <1>4 DEF PublishStarts, room, RoomShape
  <2>3. DataShape'
    BY <1>4, <2>1 DEF PublishStarts, DataShape, client, sfu
  <2>4. past' = past
    BY <1>4 DEF PublishStarts, room
  <2>5. \/ Hand(k, Finish(queue[k]))
        \/ queue' = queue /\ at' = [at EXCEPT ![k] = "call"]
    BY <1>4 DEF PublishStarts
  <2>6. QueueShape'
    BY <1>1, <1>3, <2>1, <2>4, <2>5, OneCallMoves, OneCallEnds
  <2>7. \A t \in Sockets : UNCHANGED <<queue[Sub(t)], at[Sub(t)]>>
    BY <1>1, <1>2, <2>5, KeyFacts DEF Hand
  <2> QED  BY <1>4, <2>2, <2>3, <2>6, <2>7 DEF PublishStarts, sfu, client
<1>5. CASE PublishAccepted(s)
  <2>1. queue[k].running # Nobody /\ p \in Peers
    BY <1>1, <1>5, RunningFacts DEF PublishAccepted, Runs
  <2>2. RoomShape'
    BY <1>5 DEF PublishAccepted, room, RoomShape
  <2>3. DataShape'
    BY <1>5, <2>1 DEF PublishAccepted, DataShape, client, sfu, Stored
  <2>4. past' = past
    BY <1>5 DEF PublishAccepted, room
  <2>5. Hand(k, Finish(queue[k]))
    BY <1>5 DEF PublishAccepted
  <2>6. QueueShape'
    BY <1>1, <1>3, <2>1, <2>4, <2>5, OneCallMoves, OneCallEnds
  <2>7. \A t \in Sockets : UNCHANGED <<queue[Sub(t)], at[Sub(t)]>>
    BY <1>1, <1>2, <2>5, KeyFacts DEF Hand
  <2> QED  BY <1>5, <2>2, <2>3, <2>6, <2>7 DEF PublishAccepted, sfu, client
<1>6. CASE PublishPartly(s)
  <2>1. queue[k].running # Nobody /\ p \in Peers
    BY <1>1, <1>6, RunningFacts DEF PublishPartly, Runs
  <2>2. RoomShape'
    BY <1>6 DEF PublishPartly, room, RoomShape
  <2>3. DataShape'
    BY <1>6, <2>1 DEF PublishPartly, DataShape, client, sfu
  <2>4. past' = past
    BY <1>6 DEF PublishPartly, room
  <2>5. queue' = queue /\ at' = [at EXCEPT ![k] = "undo"]
    BY <1>6 DEF PublishPartly
  <2>6. QueueShape'
    BY <1>1, <1>3, <2>1, <2>4, <2>5, OneCallMoves, OneCallEnds
  <2>7. \A t \in Sockets : UNCHANGED <<queue[Sub(t)], at[Sub(t)]>>
    BY <1>1, <1>2, <2>5, KeyFacts DEF Hand
  <2> QED  BY <1>6, <2>2, <2>3, <2>6, <2>7 DEF PublishPartly, sfu, client
<1>7. CASE PublishFails(s)
  <2>1. queue[k].running # Nobody /\ p \in Peers
    BY <1>1, <1>7, RunningFacts DEF PublishFails, Runs
  <2>2. RoomShape'
    BY <1>7 DEF PublishFails, room, RoomShape
  <2>3. DataShape'
    BY <1>7, <2>1 DEF PublishFails, DataShape, client, sfu
  <2>4. past' = past
    BY <1>7 DEF PublishFails, room
  <2>5. Hand(k, Finish(queue[k]))
    BY <1>7 DEF PublishFails
  <2>6. QueueShape'
    BY <1>1, <1>3, <2>1, <2>4, <2>5, OneCallMoves, OneCallEnds
  <2>7. \A t \in Sockets : UNCHANGED <<queue[Sub(t)], at[Sub(t)]>>
    BY <1>1, <1>2, <2>5, KeyFacts DEF Hand
  <2> QED  BY <1>7, <2>2, <2>3, <2>6, <2>7 DEF PublishFails, sfu, client
<1>8. CASE PublishUndone(s)
  <2>1. queue[k].running # Nobody /\ p \in Peers
    BY <1>1, <1>8, RunningFacts DEF PublishUndone, Runs
  <2>2. RoomShape'
    BY <1>8 DEF PublishUndone, room, RoomShape
  <2>3. DataShape'
    BY <1>8, <2>1 DEF PublishUndone, DataShape, client, sfu, CloseTracksOf
  <2>4. past' = past
    BY <1>8 DEF PublishUndone, room
  <2>5. Hand(k, Finish(queue[k]))
    BY <1>8 DEF PublishUndone
  <2>6. QueueShape'
    BY <1>1, <1>3, <2>1, <2>4, <2>5, OneCallMoves, OneCallEnds
  <2>7. \A t \in Sockets : UNCHANGED <<queue[Sub(t)], at[Sub(t)]>>
    BY <1>1, <1>2, <2>5, KeyFacts DEF Hand
  <2> QED  BY <1>8, <2>2, <2>3, <2>6, <2>7 DEF PublishUndone, sfu, client
<1>9. CASE ClosePublished(s)
  <2>1. queue[k].running # Nobody /\ p \in Peers
    BY <1>1, <1>9, RunningFacts DEF ClosePublished, Runs
  <2>2. RoomShape'
    BY <1>9 DEF ClosePublished, room, RoomShape
  <2>3. DataShape'
    BY <1>9, <2>1 DEF ClosePublished, DataShape, client, sfu, CloseTracksOf
  <2>4. past' = past
    BY <1>9 DEF ClosePublished, room
  <2>5. Hand(k, Finish(queue[k]))
    BY <1>9 DEF ClosePublished
  <2>6. QueueShape'
    BY <1>1, <1>3, <2>1, <2>4, <2>5, OneCallMoves, OneCallEnds
  <2>7. \A t \in Sockets : UNCHANGED <<queue[Sub(t)], at[Sub(t)]>>
    BY <1>1, <1>2, <2>5, KeyFacts DEF Hand
  <2> QED  BY <1>9, <2>2, <2>3, <2>6, <2>7 DEF ClosePublished, sfu, client
<1> QED  BY <1>4, <1>5, <1>6, <1>7, <1>8, <1>9 DEF PublishStep

(* Requests of a seated client. *)
LEMMA ShapeClient ==
    ASSUME ShapeInv, OffersAreHeld, NEW p \in Peers,
           Publish(p) \/ Subscribe(p) \/ SubscribeLimited(p) \/ Answer(p)
    PROVE  ShapeInv'
<1> USE DEF ShapeInv
<1> DEFINE x == SocketOf[p]
<1>1. x \in Sockets /\ Pub(x) \in Keys /\ Sub(x) \in Keys /\ Pub(x)[2] = x /\ Sub(x)[2] = x
  BY SocketsOfPeers, KeyFacts
<1>2. IsSeated(p) => p \in past
  BY <1>1, NoPeerIsNone DEF IsSeated, RoomShape
<1>3. CASE Publish(p)
  <2>1. RoomShape' /\ DataShape'
    BY <1>3 DEF Publish, RoomShape, DataShape, room, sfu
  <2>2. QueueShape'
    <3>1. queue' = [queue EXCEPT ![Pub(x)] = Run(queue[Pub(x)], CallOf("publish", p))]
      BY <1>3 DEF Publish
    <3>2. /\ CallOf("publish", p) \in Calls
          /\ CallOf("publish", p).peer = p /\ CallOf("publish", p).what # "hold"
      BY CallFacts
    <3>3. p \in past /\ past' = past /\ at' = at
      BY <1>2, <1>3 DEF Publish, room
    <3> QED  BY <1>1, <3>1, <3>2, <3>3, OneCallQueues
  <2> QED  BY <2>1, <2>2
<1>4. CASE Subscribe(p)
  <2>1. RoomShape' /\ DataShape'
    BY <1>4 DEF Subscribe, RoomShape, DataShape, room, sfu
  <2>2. QueueShape'
    <3>1. queue' = [queue EXCEPT ![Sub(x)] = Run(queue[Sub(x)], CallOf("subscribe", p))]
      BY <1>4 DEF Subscribe
    <3>2. /\ CallOf("subscribe", p) \in Calls
          /\ CallOf("subscribe", p).peer = p /\ CallOf("subscribe", p).what # "hold"
      BY CallFacts
    <3>3. p \in past /\ past' = past /\ at' = at
      BY <1>2, <1>4 DEF Subscribe, room
    <3> QED  BY <1>1, <3>1, <3>2, <3>3, OneCallQueues
  <2> QED  BY <2>1, <2>2
<1>5. CASE Answer(p)
  <2>1. RoomShape' /\ DataShape'
    BY <1>5 DEF Answer, RoomShape, DataShape, room, sfu, client
  <2>2. queue[Sub(x)].running # Nobody
    BY <1>1, <1>5 DEF Answer, OffersAreHeld, Runs
  <2>3. QueueShape'
    BY <1>1, <1>5, <2>2, OneCallMoves DEF Answer, room, Stages
  <2> QED  BY <2>1, <2>3
<1>6. CASE SubscribeLimited(p)
  <2>1. RoomShape' /\ DataShape'
    BY <1>6 DEF SubscribeLimited, RoomShape, DataShape, room, sfu
  <2>2. QueueShape'
    BY <1>6, QueuesStay DEF SubscribeLimited, room
  <2> QED  BY <2>1, <2>2
<1> QED  BY <1>3, <1>4, <1>5, <1>6

(* Leaving, closing and disconnecting. *)
LEMMA ShapeSockets ==
    ASSUME ShapeInv, NEW s \in Sockets, Leave(s) \/ CloseSocket(s) \/ Disconnect(s)
    PROVE  ShapeInv'
<1>1. CASE Leave(s)
  BY <1>1, ShapeUnseat DEF Leave, ShapeInv, RoomShape
<1>2. CASE CloseSocket(s)
  <2>1. RoomShape' /\ DataShape' /\ QueueShape'
    BY <1>2, CloseFacts, QueuesStay
       DEF CloseSocket, ShapeInv, RoomShape, DataShape, sfu, client
  <2> QED  BY <2>1 DEF ShapeInv
<1>3. CASE Disconnect(s)
  <2>1. ready' \in [Sockets -> {"open", "closing", "gone"}]
    BY <1>3 DEF Disconnect, ShapeInv, RoomShape
  <2>2. CASE seats[s] # NoPeer
    BY <1>3, <2>1, <2>2, ShapeUnseat DEF Disconnect
  <2>3. CASE seats[s] = NoPeer
    <3>1. RoomShape' /\ DataShape' /\ QueueShape'
      BY <1>3, <2>1, <2>3, QueuesStay
         DEF Disconnect, ShapeInv, RoomShape, DataShape, sfu
    <3> QED  BY <3>1 DEF ShapeInv
  <2> QED  BY <2>2, <2>3
<1> QED  BY <1>1, <1>2, <1>3

(* readyState never goes back to open. *)
LEMMA SocketsOnlyClose ==
    ASSUME RoomShape, ready' = ready \/ \E ss \in SUBSET Sockets : ready' = Close(ss)
    PROVE  /\ ready' \in [Sockets -> {"open", "closing", "gone"}]
           /\ \A t \in Sockets : ready[t] # "open" => ready'[t] # "open"
<1>1. CASE ready' = ready
  BY <1>1 DEF RoomShape
<1>2. CASE \E ss \in SUBSET Sockets : ready' = Close(ss)
  <2>1. PICK ss \in SUBSET Sockets : ready' = Close(ss)
    BY <1>2
  <2> QED  BY <2>1 DEF Close, RoomShape
<1> QED  BY <1>1, <1>2

(* A pull that finds nothing to ask for is over. *)
LEMMA PullFacts ==
    ASSUME ShapeInv, NEW p \in Peers, NEW s \in Sockets, Pull(p, s)
    PROVE  /\ \/ Hand(Sub(s), Finish(queue[Sub(s)])) /\ asked' = asked
              \/ /\ queue' = queue /\ at' = [at EXCEPT ![Sub(s)] = "call"]
                 /\ asked' = [asked EXCEPT ![s] = MissingTracks(p)]
           /\ MissingTracks(p) \subseteq Sockets
           /\ due' = due /\ asking' \subseteq asking
           /\ retries' \in [Peers -> Nat]
BY DEF Pull, ReplyTo, NothingSkipped, MissingTracks, ShapeInv, DataShape

(* The client's retry counters stay numbers. *)
LEMMA RetryFacts ==
    ASSUME ShapeInv, NEW p \in Peers, RetryLater(p) \/ NothingSkipped(p)
    PROVE  due' \subseteq Peers /\ retries' \in [Peers -> Nat]
BY DEF RetryLater, NothingSkipped, ShapeInv, DataShape

(* What a pull skips is of the tracks it asked for. *)
LEMMA SkipFacts ==
    ASSUME ShapeInv, NEW p \in Peers, NEW refusals \in SUBSET Sockets, NEW late,
           Skip(p, refusals, late)
    PROVE  /\ due' \subseteq Peers /\ retries' \in [Peers -> Nat]
           /\ refused' \in [Peers -> SUBSET Sockets]
<1>1. RetryLater(p) \/ NothingSkipped(p)
  BY DEF Skip
<1>2. refused' \in [Peers -> SUBSET Sockets]
  BY DEF Skip, ShapeInv, DataShape
<1> QED  BY <1>1, <1>2, RetryFacts

(* Restarting publishers only closes sockets. *)
LEMMA RestartFacts ==
    ASSUME NEW late \in SUBSET Sockets, RestartLost(late)
    PROVE  \E ss \in SUBSET Sockets : ready' = Close(ss)
<1>1. PICK lost \in SUBSET {t \in late : seats[t] # NoPeer} : ready' = Close(lost)
  BY DEF RestartLost
<1> QED  BY <1>1

(* Every step of a receiving session is one of who has its key. *)
LEMMA SomebodyRuns ==
    ASSUME NEW s \in Sockets, SubscribeStep(s) \/ HoldStep(s)
    PROVE  queue[Sub(s)].running # Nobody
<1>1. CASE HoldStep(s)
  BY <1>1 DEF HoldStep, AnswerAccepted, AnswerRefused, AnswerTimesOut, Runs
<1>2. CASE \/ SubscribeStarts(s) \/ SessionOpens(s) \/ SubscribeFails(s)
           \/ CloseReceived(s) \/ DropLeaver(s)
  BY <1>2 DEF SubscribeStarts, SessionOpens, SubscribeFails, CloseReceived,
              DropLeaver, Runs
<1>3. CASE \/ PullBreaks(s) \/ PullAgain(s) \/ PullComesEmpty(s)
           \/ PullLosesBody(s) \/ PullArrives(s)
  BY <1>3 DEF PullBreaks, PullAgain, PullComesEmpty, PullLosesBody, PullArrives,
              IsPulling, Runs
<1> QED  BY <1>1, <1>2, <1>3 DEF SubscribeStep

(* A step of the call or hold that has a receiving session's key leaves the *)
(* seats, the publishing sessions and the other receiving ones alone.       *)
Receiving(s) ==
    /\ ShapeInv'
    /\ UNCHANGED <<seats, past, published, live, unclosed, unheard, publishes>>
    /\ \A t \in Sockets : ready[t] # "open" => ready'[t] # "open"
    /\ \A t \in Sockets : UNCHANGED <<queue[Pub(t)], at[Pub(t)]>>
    /\ \A t \in Sockets \ {s} :
          UNCHANGED <<queue[Sub(t)], at[Sub(t)], asked[t], open[t]>>

(* Every step of a receiving session is of the kind Receiving states. *)
LEMMA ShapeReceiving ==
    ASSUME ShapeInv, NEW s \in Sockets, SubscribeStep(s) \/ HoldStep(s)
    PROVE  Receiving(s)
<1> USE DEF ShapeInv
<1> DEFINE k == Sub(s)
           p == queue[k].running.peer
           Ends == Hand(k, Finish(queue[k]))
           Moves == /\ queue' = queue
                    /\ \E a \in Stages : at' = [at EXCEPT ![k] = a]
<1>1. /\ k \in Keys /\ k[2] = s
      /\ \A t \in Sockets : Pub(t) \in Keys /\ k # Pub(t)
      /\ \A t \in Sockets \ {s} : Sub(t) \in Keys /\ k # Sub(t)
  BY KeyFacts
<1>2. queue \in [Keys -> QueueType] /\ at \in [Keys -> Stages]
  BY DEF QueueShape
<1>3. {"start", "session", "call", "retry"} \subseteq Stages
  BY DEF Stages
<1>4. queue[k].running # Nobody /\ p \in Peers /\ p \in past /\ SocketOf[p] = s
  <2>1. queue[k].running # Nobody
    BY SomebodyRuns
  <2> QED  BY <1>1, <2>1, RunningFacts
<1>5. ASSUME past' = past, Ends \/ Moves
      PROVE  /\ QueueShape'
             /\ \A t \in Sockets : UNCHANGED <<queue[Pub(t)], at[Pub(t)]>>
             /\ \A t \in Sockets \ {s} : UNCHANGED <<queue[Sub(t)], at[Sub(t)]>>
  <2>1. QueueShape'
    BY <1>1, <1>4, <1>5, OneCallMoves, OneCallEnds
  <2>2. /\ \A t \in Sockets : UNCHANGED <<queue[Pub(t)], at[Pub(t)]>>
        /\ \A t \in Sockets \ {s} : UNCHANGED <<queue[Sub(t)], at[Sub(t)]>>
    BY <1>1, <1>2, <1>5 DEF Hand
  <2> QED  BY <2>1, <2>2
<1>6. CASE SubscribeStarts(s)
  <2>1. Ends \/ Moves
    BY <1>3, <1>4, <1>6, PullFacts DEF SubscribeStarts, ReplyTo
  <2>2. RoomShape'
    BY <1>4, <1>6 DEF SubscribeStarts, RoomShape, room
  <2>3. DataShape'
    BY <1>4, <1>6, PullFacts DEF SubscribeStarts, ReplyTo, DataShape, sfu, client
  <2>4. /\ UNCHANGED <<seats, past, published, live, unclosed, unheard, publishes>>
        /\ \A t \in Sockets : ready[t] # "open" => ready'[t] # "open"
        /\ \A t \in Sockets \ {s} : UNCHANGED <<asked[t], open[t]>>
    BY <1>4, <1>6, PullFacts DEF SubscribeStarts, ReplyTo, RoomShape, DataShape, room, sfu, client
  <2> QED  BY <1>5, <2>1, <2>2, <2>3, <2>4 DEF Receiving
<1>7. CASE SessionOpens(s)
  <2>1. Ends \/ Moves
    BY <1>3, <1>4, <1>7, PullFacts DEF SessionOpens
  <2>2. RoomShape'
    BY <1>4, <1>7 DEF SessionOpens, RoomShape, room
  <2>3. DataShape'
    BY <1>4, <1>7, PullFacts DEF SessionOpens, DataShape, sfu, client
  <2>4. /\ UNCHANGED <<seats, past, published, live, unclosed, unheard, publishes>>
        /\ \A t \in Sockets : ready[t] # "open" => ready'[t] # "open"
        /\ \A t \in Sockets \ {s} : UNCHANGED <<asked[t], open[t]>>
    BY <1>4, <1>7, PullFacts DEF SessionOpens, RoomShape, DataShape, room, sfu, client
  <2> QED  BY <1>5, <2>1, <2>2, <2>3, <2>4 DEF Receiving
<1>8. CASE SubscribeFails(s)
  <2>1. Ends \/ Moves
    BY <1>3, <1>4, <1>8 DEF SubscribeFails, ReplyTo
  <2>2. RoomShape'
    BY <1>4, <1>8 DEF SubscribeFails, RoomShape, room
  <2>3. DataShape'
    BY <1>4, <1>8, RetryFacts DEF SubscribeFails, ReplyTo, DataShape, sfu, client
  <2>4. /\ UNCHANGED <<seats, past, published, live, unclosed, unheard, publishes>>
        /\ \A t \in Sockets : ready[t] # "open" => ready'[t] # "open"
        /\ \A t \in Sockets \ {s} : UNCHANGED <<asked[t], open[t]>>
    BY <1>4, <1>8 DEF SubscribeFails, ReplyTo, RoomShape, DataShape, room, sfu, client
  <2> QED  BY <1>5, <2>1, <2>2, <2>3, <2>4 DEF Receiving
<1>9. CASE PullBreaks(s)
  <2>1. Ends \/ Moves
    BY <1>3, <1>4, <1>9 DEF PullBreaks, ReplyTo
  <2>2. RoomShape'
    BY <1>4, <1>9, CloseFacts DEF PullBreaks, RoomShape, room
  <2>3. DataShape'
    BY <1>4, <1>9 DEF PullBreaks, ReplyTo, DataShape, sfu, client
  <2>4. /\ UNCHANGED <<seats, past, published, live, unclosed, unheard, publishes>>
        /\ \A t \in Sockets \ {s} : UNCHANGED <<asked[t], open[t]>>
    BY <1>4, <1>9 DEF PullBreaks, DataShape, sfu, client
  <2>5. ready' = ready \/ \E ss \in SUBSET Sockets : ready' = Close(ss)
    BY <1>9 DEF PullBreaks, DataShape
  <2>6. \A t \in Sockets : ready[t] # "open" => ready'[t] # "open"
    BY <2>5, SocketsOnlyClose
  <2> QED  BY <1>5, <2>1, <2>2, <2>3, <2>4, <2>6 DEF Receiving
<1>10. CASE PullAgain(s)
  <2>1. Ends \/ Moves
    BY <1>3, <1>4, <1>10 DEF PullAgain, IsPulling
  <2>2. RoomShape'
    BY <1>4, <1>10 DEF PullAgain, RoomShape, room
  <2>3. DataShape'
    BY <1>4, <1>10 DEF PullAgain, DataShape, sfu, client
  <2>4. /\ UNCHANGED <<seats, past, published, live, unclosed, unheard, publishes>>
        /\ \A t \in Sockets : ready[t] # "open" => ready'[t] # "open"
        /\ \A t \in Sockets \ {s} : UNCHANGED <<asked[t], open[t]>>
    BY <1>4, <1>10 DEF PullAgain, RoomShape, DataShape, room, sfu, client
  <2> QED  BY <1>5, <2>1, <2>2, <2>3, <2>4 DEF Receiving
<1>11. CASE PullComesEmpty(s)
  <2>1. Ends \/ Moves
    BY <1>3, <1>4, <1>11 DEF PullComesEmpty, ReplyTo
  <2>2. PICK late \in SUBSET (IF at[k] = "retry" THEN asked[s] ELSE {}) :
           Skip(p, asked[s] \ late, late) /\ RestartLost(late)
    BY <1>11 DEF PullComesEmpty
  <2>3. asked[s] \in SUBSET Sockets /\ late \in SUBSET Sockets
    BY DEF DataShape
  <2>4. \E ss \in SUBSET Sockets : ready' = Close(ss)
    BY <2>2, <2>3, RestartFacts
  <2>5. RoomShape'
    BY <1>11, <2>4, SocketsOnlyClose DEF PullComesEmpty, RoomShape
  <2>6. DataShape'
    <3>1. /\ due' \subseteq Peers /\ retries' \in [Peers -> Nat]
          /\ refused' \in [Peers -> SUBSET Sockets]
      BY <1>4, <2>2, <2>3, SkipFacts
    <3> QED  BY <1>4, <1>11, <3>1 DEF PullComesEmpty, ReplyTo, DataShape, sfu
  <2>7. /\ UNCHANGED <<seats, past, published, live, unclosed, unheard, publishes>>
        /\ \A t \in Sockets \ {s} : UNCHANGED <<asked[t], open[t]>>
    BY <1>4, <1>11 DEF PullComesEmpty, DataShape, sfu
  <2>8. \A t \in Sockets : ready[t] # "open" => ready'[t] # "open"
    BY <2>4, SocketsOnlyClose
  <2> QED  BY <1>5, <2>1, <2>5, <2>6, <2>7, <2>8 DEF Receiving
<1>18. CASE PullLosesBody(s)
  <2>1. Ends \/ Moves
    BY <1>3, <1>4, <1>18 DEF PullLosesBody, ReplyTo
  <2>2. RoomShape'
    BY <1>4, <1>18 DEF PullLosesBody, RoomShape, room
  <2>3. DataShape'
    <3>1. asked[s] \in SUBSET Sockets
      BY DEF DataShape
    <3>2. /\ due' \subseteq Peers /\ retries' \in [Peers -> Nat]
          /\ refused' \in [Peers -> SUBSET Sockets]
      BY <1>4, <1>18, <3>1, SkipFacts DEF PullLosesBody
    <3> QED  BY <1>4, <1>18, <3>2 DEF PullLosesBody, ReplyTo, DataShape
  <2>4. /\ UNCHANGED <<seats, past, published, live, unclosed, unheard, publishes>>
        /\ \A t \in Sockets : ready[t] # "open" => ready'[t] # "open"
        /\ \A t \in Sockets \ {s} : UNCHANGED <<asked[t], open[t]>>
    BY <1>4, <1>18 DEF PullLosesBody, RoomShape, DataShape, room
  <2> QED  BY <1>5, <2>1, <2>2, <2>3, <2>4 DEF Receiving
<1>12. CASE CloseReceived(s)
  <2>1. Ends \/ Moves
    BY <1>3, <1>4, <1>12 DEF CloseReceived
  <2>2. RoomShape'
    BY <1>4, <1>12 DEF CloseReceived, RoomShape, room
  <2>3. DataShape'
    BY <1>4, <1>12 DEF CloseReceived, DataShape, sfu, client
  <2>4. /\ UNCHANGED <<seats, past, published, live, unclosed, unheard, publishes>>
        /\ \A t \in Sockets : ready[t] # "open" => ready'[t] # "open"
        /\ \A t \in Sockets \ {s} : UNCHANGED <<asked[t], open[t]>>
    BY <1>4, <1>12 DEF CloseReceived, RoomShape, DataShape, room, sfu, client
  <2> QED  BY <1>5, <2>1, <2>2, <2>3, <2>4 DEF Receiving
<1>13. CASE DropLeaver(s)
  <2>1. Ends \/ Moves
    BY <1>3, <1>4, <1>13 DEF DropLeaver
  <2>2. RoomShape'
    BY <1>4, <1>13 DEF DropLeaver, RoomShape, room
  <2>3. DataShape'
    BY <1>4, <1>13 DEF DropLeaver, DataShape, sfu, client
  <2>4. /\ UNCHANGED <<seats, past, published, live, unclosed, unheard, publishes>>
        /\ \A t \in Sockets : ready[t] # "open" => ready'[t] # "open"
        /\ \A t \in Sockets \ {s} : UNCHANGED <<asked[t], open[t]>>
    BY <1>4, <1>13 DEF DropLeaver, RoomShape, DataShape, room, sfu, client
  <2> QED  BY <1>5, <2>1, <2>2, <2>3, <2>4 DEF Receiving
<1>14. CASE AnswerAccepted(s)
  <2>1. Ends \/ Moves
    BY <1>3, <1>4, <1>14 DEF AnswerAccepted, ReplyTo
  <2>2. RoomShape'
    BY <1>4, <1>14 DEF AnswerAccepted, RoomShape, room
  <2>3. DataShape'
    BY <1>4, <1>14 DEF AnswerAccepted, ReplyTo, DataShape, sfu, client
  <2>4. /\ UNCHANGED <<seats, past, published, live, unclosed, unheard, publishes>>
        /\ \A t \in Sockets : ready[t] # "open" => ready'[t] # "open"
        /\ \A t \in Sockets \ {s} : UNCHANGED <<asked[t], open[t]>>
    BY <1>4, <1>14 DEF AnswerAccepted, ReplyTo, RoomShape, DataShape, room, sfu, client
  <2> QED  BY <1>5, <2>1, <2>2, <2>3, <2>4 DEF Receiving
<1>15. CASE AnswerRefused(s)
  <2>1. Ends \/ Moves
    BY <1>3, <1>4, <1>15 DEF AnswerRefused, ReplyTo
  <2>2. RoomShape'
    BY <1>4, <1>15, CloseFacts DEF AnswerRefused, RoomShape, room
  <2>3. DataShape'
    BY <1>4, <1>15 DEF AnswerRefused, ReplyTo, DataShape, sfu, client
  <2>4. /\ UNCHANGED <<seats, past, published, live, unclosed, unheard, publishes>>
        /\ \A t \in Sockets \ {s} : UNCHANGED <<asked[t], open[t]>>
    BY <1>4, <1>15 DEF AnswerRefused, DataShape, sfu, client
  <2>5. ready' = ready \/ \E ss \in SUBSET Sockets : ready' = Close(ss)
    BY <1>15 DEF AnswerRefused, DataShape
  <2>6. \A t \in Sockets : ready[t] # "open" => ready'[t] # "open"
    BY <2>5, SocketsOnlyClose
  <2> QED  BY <1>5, <2>1, <2>2, <2>3, <2>4, <2>6 DEF Receiving
<1>16. CASE AnswerTimesOut(s)
  <2>1. Ends \/ Moves
    BY <1>3, <1>4, <1>16 DEF AnswerTimesOut, ReplyTo
  <2>2. RoomShape'
    BY <1>4, <1>16, CloseFacts DEF AnswerTimesOut, RoomShape, room
  <2>3. DataShape'
    BY <1>4, <1>16 DEF AnswerTimesOut, ReplyTo, DataShape, sfu, client
  <2>4. /\ UNCHANGED <<seats, past, published, live, unclosed, unheard, publishes>>
        /\ \A t \in Sockets \ {s} : UNCHANGED <<asked[t], open[t]>>
    BY <1>4, <1>16 DEF AnswerTimesOut, DataShape, sfu, client
  <2>5. ready' = ready \/ \E ss \in SUBSET Sockets : ready' = Close(ss)
    BY <1>16 DEF AnswerTimesOut, DataShape
  <2>6. \A t \in Sockets : ready[t] # "open" => ready'[t] # "open"
    BY <2>5, SocketsOnlyClose
  <2> QED  BY <1>5, <2>1, <2>2, <2>3, <2>4, <2>6 DEF Receiving
<1>17. CASE PullArrives(s)
  <2>1. PICK got \in SUBSET asked[s] \ {{}} : \E late \in SUBSET (asked[s] \ got) :
           /\ pulled' = [pulled EXCEPT ![p] = @ \cup got]
           /\ Skip(p, asked[s] \ (got \cup late), late) /\ RestartLost(late)
    BY <1>17 DEF PullArrives
  <2>2. PICK late \in SUBSET (asked[s] \ got) :
           Skip(p, asked[s] \ (got \cup late), late) /\ RestartLost(late)
    BY <2>1
  <2>3. got \subseteq Sockets /\ asked[s] \subseteq Sockets /\ late \subseteq Sockets
    BY DEF DataShape
  <2>4. /\ ready' \in [Sockets -> {"open", "closing", "gone"}]
        /\ \A t \in Sockets : ready[t] # "open" => ready'[t] # "open"
    BY <2>2, <2>3, RestartFacts, SocketsOnlyClose
  <2>5. RoomShape'
    BY <1>17, <2>4 DEF PullArrives, RoomShape
  <2>6. /\ due' \subseteq Peers /\ retries' \in [Peers -> Nat]
        /\ refused' \in [Peers -> SUBSET Sockets]
    BY <1>4, <2>2, <2>3, SkipFacts
  <2>7. DataShape'
    <3>1. /\ pulled' \in [Peers -> SUBSET Sockets]
          /\ asked' \in [Sockets -> SUBSET Sockets]
          /\ offers' \subseteq Peers
      BY <1>4, <1>17, <2>1, <2>3 DEF PullArrives, DataShape
    <3>2. open' \in [Sockets -> Peers \cup {NoPeer}] /\ asking' \subseteq Peers
      BY <1>4, <1>17 DEF PullArrives, Offer, ReplyTo, DataShape
    <3>3. UNCHANGED <<subs, published, live, unclosed, unread, unheard, publishes>>
      BY <1>17 DEF PullArrives
    <3> QED  BY <2>6, <3>1, <3>2, <3>3 DEF DataShape
  <2>8. /\ UNCHANGED <<seats, past, published, live, unclosed, unheard, publishes>>
        /\ \A t \in Sockets \ {s} : UNCHANGED <<asked[t], open[t]>>
    BY <1>4, <1>17 DEF PullArrives, Offer, DataShape
  <2>9. /\ QueueShape'
        /\ \A t \in Sockets : UNCHANGED <<queue[Pub(t)], at[Pub(t)]>>
        /\ \A t \in Sockets \ {s} : UNCHANGED <<queue[Sub(t)], at[Sub(t)]>>
    <3>1. CASE ~IsSeated(p)
      <4>1. Ends
        BY <1>17, <3>1 DEF PullArrives, ReplyTo
      <4> QED  BY <1>5, <2>8, <4>1
    <3>2. CASE IsSeated(p)
      <4> DEFINE q == Finish(Hold(queue[k], CallOf("hold", p)))
      <4>1. Hand(k, q)
        BY <1>17, <3>2 DEF PullArrives, Offer
      <4>2. AtPlace(queue[k], s, past)
        BY <1>1 DEF QueueShape
      <4>3. /\ CallOf("hold", p) \in Calls /\ CallOf("hold", p).peer = p
        BY <1>4, CallFacts
      <4>4. AtPlace(q, s, past)
        BY <1>4, <4>2, <4>3, PlaceHold
      <4> HIDE DEF q
      <4>5. queue' = [queue EXCEPT ![k] = q] /\ at' = [at EXCEPT ![k] = "start"]
        BY <4>1 DEF Hand
      <4>6. QueueShape'
        BY <1>1, <1>3, <2>8, <4>4, <4>5, OneQueueMoves
      <4> QED  BY <1>1, <1>2, <4>5, <4>6
    <3> QED  BY <3>1, <3>2
  <2> QED  BY <2>4, <2>5, <2>7, <2>8, <2>9 DEF Receiving
<1> QED  BY <1>6, <1>7, <1>8, <1>9, <1>10, <1>11, <1>12, <1>13, <1>14, <1>15, <1>16, <1>17,
            <1>18 DEF SubscribeStep, HoldStep

-----------------------------------------------------------------------------
(* The lock of a receiving session and the Known made on it.               *)

(* The unanswered offers that the code knows of, or of which it knows that  *)
(* they may be there.                                                       *)
Known == offers \ unread

HeldAt(s) ==
    \A p \in Peers :
        open[s] = p <=> /\ Runs(Sub(s), "hold") /\ at[Sub(s)] = "start"
                        /\ queue[Sub(s)].running.peer = p

(* What a subscribe awaits fits its peer's session.                         *)
FitAt(s) ==
    LET p == queue[Sub(s)].running.peer
    IN Runs(Sub(s), "subscribe") =>
          /\ at[Sub(s)] = "session" => p \notin subs
          /\ at[Sub(s)] \in {"call", "retry"} =>
                p \in subs /\ (p \in Known => ready[s] # "open")

(* A known offer without an answer is held, or was made to a client that was     *)
(* told to start over or has left.                                          *)
CoveredAt(s) ==
    \A p \in Known : SocketOf[p] = s =>
        /\ p \in subs /\ p \in past
        /\ \/ Runs(Sub(s), "hold") /\ queue[Sub(s)].running.peer = p
           \/ ready[s] # "open"
           \/ ~IsSeated(p)

LockAt(s) == HeldAt(s) /\ FitAt(s) /\ CoveredAt(s)

LockInv == ShapeInv /\ \A s \in Sockets : LockAt(s)

(* What a step leaves of socket s's Known, seats and state: a peer that    *)
(* left does not come back, and a socket that closed does not open.         *)
OffersStay(s) ==
    /\ ready[s] # "open" => ready'[s] # "open"
    /\ past \subseteq past'
    /\ \A p \in Peers : SocketOf[p] = s => /\ p \in subs <=> p \in subs'
                                           /\ p \in Known <=> p \in Known'
                                           /\ p \in past /\ ~IsSeated(p) => ~IsSeated(p)'

(* Nobody is taken off the key. *)
LEMMA LockStays ==
    ASSUME ShapeInv, ShapeInv', NEW s \in Sockets, LockAt(s), OffersStay(s),
           open'[s] = open[s], at'[Sub(s)] = at[Sub(s)],
           queue[Sub(s)].running # Nobody =>
              queue'[Sub(s)].running = queue[Sub(s)].running,
           queue[Sub(s)].running = Nobody /\ queue'[Sub(s)].running # Nobody =>
              queue'[Sub(s)].running.what # "hold"
    PROVE  LockAt(s)'
<1>1. /\ Sub(s) \in Keys /\ Sub(s)[2] = s
      /\ Known \subseteq Peers /\ Known' \subseteq Peers
      /\ queue[Sub(s)].running = Nobody => at[Sub(s)] = "start"
  BY KeyFacts DEF ShapeInv, DataShape, QueueShape, Known
<1>2. queue[Sub(s)].running # Nobody =>
         queue[Sub(s)].running.peer \in Peers /\ SocketOf[queue[Sub(s)].running.peer] = s
  BY <1>1, RunningFacts
<1>3. HeldAt(s)'
  BY <1>1, <1>2 DEF LockAt, HeldAt, Runs
<1>4. FitAt(s)'
  BY <1>1, <1>2 DEF LockAt, FitAt, OffersStay, Runs
<1>5. CoveredAt(s)'
  BY <1>1 DEF LockAt, CoveredAt, OffersStay, Runs
<1> QED  BY <1>3, <1>4, <1>5 DEF LockAt

(* The key goes to one in line, who has not started, and no offer is open.  *)
LEMMA LockPasses ==
    ASSUME NEW s \in Sockets,
           at'[Sub(s)] = "start", open'[s] = NoPeer,
           queue'[Sub(s)].running # Nobody => queue'[Sub(s)].running.what # "hold",
           \A p \in Known' : SocketOf[p] = s =>
              /\ p \in subs' /\ p \in past'
              /\ ready'[s] # "open" \/ ~IsSeated(p)'
    PROVE  LockAt(s)'
<1>1. HeldAt(s)'
  BY NoPeerIsNone DEF HeldAt, Runs
<1>2. FitAt(s)'
  BY DEF FitAt
<1>3. CoveredAt(s)'
  BY DEF CoveredAt
<1> QED  BY <1>1, <1>2, <1>3 DEF LockAt

(* After finish() the next call has not started and is no hold. *)
LEMMA HandFacts ==
    ASSUME ShapeInv, NEW s \in Sockets, Hand(Sub(s), Finish(queue[Sub(s)]))
    PROVE  /\ at'[Sub(s)] = "start"
           /\ queue'[Sub(s)].running # Nobody => queue'[Sub(s)].running.what # "hold"
<1>1. /\ queue'[Sub(s)] = Finish(queue[Sub(s)]) /\ at'[Sub(s)] = "start"
      /\ AtPlace(queue[Sub(s)], s, past)
  BY KeyFacts DEF Hand, ShapeInv, QueueShape
<1> QED  BY <1>1, PlaceFinish

(* Joining a line takes nobody off the key. *)
LEMMA RunKeeps ==
    ASSUME NEW q, WellFormed(q), NEW c \in Calls
    PROVE  /\ q.running # Nobody => Run(q, c).running = q.running
           /\ q.running = Nobody => Run(q, c).running = c
BY RunFacts

(* A new peer has no Known. *)
LEMMA LockJoin ==
    ASSUME LockInv, ShapeInv', NEW p \in Peers, Join(p), NEW s \in Sockets
    PROVE  LockAt(s)'
<1>1. OffersStay(s)
  BY SocketsOfPeers DEF OffersStay, Join, sfu, Known, IsSeated, LockInv, ShapeInv, RoomShape
<1>2. queue' = queue /\ at' = at /\ open' = open
  BY DEF Join
<1>3. queue[Sub(s)].running = Nobody =>
         ~(queue'[Sub(s)].running # Nobody)
  BY <1>2
<1> QED  BY <1>1, <1>2, <1>3, LockStays DEF LockInv

(* A seat is given up: by its own leaving or with everyone's.               *)
LEMMA LockVacated ==
    ASSUME LockInv, ShapeInv', NEW s \in Sockets, seats[s] # NoPeer,
           seats'[s] = NoPeer, past' = past, subs' = subs, Known' = Known,
           at'[Sub(s)] = at[Sub(s)], ready[s] # "open" => ready'[s] # "open",
           open'[s] = IF open[s] = seats[s] THEN NoPeer ELSE open[s],
           queue'[Sub(s)] = Run(IF open[s] = seats[s] THEN Finish(queue[Sub(s)])
                                                     ELSE queue[Sub(s)],
                                CallOf("closeSub", seats[s]))
    PROVE  LockAt(s)'
<1> DEFINE p == seats[s]
           c == CallOf("closeSub", p)
<1>1. /\ p \in Peers /\ SocketOf[p] = s /\ p \in past
      /\ AtPlace(queue[Sub(s)], s, past) /\ LockAt(s) /\ ShapeInv
  BY KeyFacts DEF LockInv, ShapeInv, RoomShape, QueueShape
<1>2. c \in Calls /\ c.what # "hold"
  BY <1>1, CallFacts
<1>3. \A x \in Peers : SocketOf[x] = s => ~IsSeated(x)'
  BY NoPeerIsNone DEF IsSeated
<1>4. CASE open[s] = p
  <2>1. at'[Sub(s)] = "start" /\ open'[s] = NoPeer
    BY <1>1, <1>4 DEF LockAt, HeldAt
  <2>2. WellFormed(Finish(queue[Sub(s)]))
    BY <1>1, PlaceFinish DEF AtPlace
  <2>3. /\ Finish(queue[Sub(s)]).running # Nobody =>
              Finish(queue[Sub(s)]).running.what # "hold"
        /\ queue'[Sub(s)] = Run(Finish(queue[Sub(s)]), c)
    BY <1>1, <1>4, PlaceFinish
  <2>4. queue'[Sub(s)].running.what # "hold"
    BY <1>2, <2>2, <2>3, RunKeeps
  <2>5. \A x \in Known' : SocketOf[x] = s =>
           /\ x \in subs' /\ x \in past' /\ x \in Peers
    BY <1>1 DEF LockAt, CoveredAt, ShapeInv, DataShape, Known
  <2> QED  BY <1>3, <2>1, <2>4, <2>5, LockPasses
<1>5. CASE open[s] # p
  <2>1. OffersStay(s)
    BY <1>3 DEF OffersStay
  <2>2. queue'[Sub(s)] = Run(queue[Sub(s)], c) /\ WellFormed(queue[Sub(s)])
    BY <1>1, <1>5 DEF AtPlace
  <2>3. /\ queue[Sub(s)].running # Nobody =>
              queue'[Sub(s)].running = queue[Sub(s)].running
        /\ queue[Sub(s)].running = Nobody => queue'[Sub(s)].running = c
    BY <1>2, <2>2, RunKeeps
  <2> QED  BY <1>1, <1>2, <1>5, <2>1, <2>3, LockStays
<1> QED  BY <1>4, <1>5

(* A leaver's open offer is let go with its hold, nobody else's is touched. *)
LEMMA LockUnseat ==
    ASSUME LockInv, ShapeInv', NEW s \in Sockets, seats[s] # NoPeer, Unseat(s),
           ready[s] # "open" => ready'[s] # "open",
           \A t \in Sockets \ {s} : ready'[t] = ready[t],
           UNCHANGED <<past, at, subs, Known>>, NEW t \in Sockets
    PROVE  LockAt(t)'
<1>1. ShapeInv
  BY DEF LockInv
<1>2. CASE t = s
  <2>1. /\ queue'[Sub(s)] = Run(IF open[s] = seats[s] THEN Finish(queue[Sub(s)])
                                                     ELSE queue[Sub(s)],
                                CallOf("closeSub", seats[s]))
        /\ seats'[s] = NoPeer
        /\ open'[s] = IF open[s] = seats[s] THEN NoPeer ELSE open[s]
    BY <1>1, UnseatFacts DEF ShapeInv, RoomShape, DataShape
  <2> QED  BY <1>2, <2>1, LockVacated
<1>3. CASE t # s
  <2>1. /\ seats'[t] = seats[t] /\ open'[t] = open[t]
        /\ queue'[Sub(t)] = IF seats[t] = NoPeer THEN queue[Sub(t)]
                            ELSE Run(queue[Sub(t)], Drop(seats[t], s))
    BY <1>1, <1>3, UnseatFacts DEF ShapeInv, RoomShape, DataShape
  <2>2. OffersStay(t)
    BY <1>3, <2>1 DEF OffersStay, IsSeated
  <2>3. AtPlace(queue[Sub(t)], t, past) /\ (seats[t] # NoPeer => seats[t] \in Peers)
    BY <1>1, KeyFacts DEF ShapeInv, QueueShape, RoomShape
  <2>4. CASE seats[t] = NoPeer
    BY <1>1, <2>1, <2>2, <2>4, LockStays DEF LockInv
  <2>5. CASE seats[t] # NoPeer
    <3>1. /\ Drop(seats[t], s) \in Calls /\ Drop(seats[t], s).what # "hold"
          /\ WellFormed(queue[Sub(t)])
      BY <2>3, <2>5, CallFacts DEF AtPlace
    <3>2. /\ queue[Sub(t)].running # Nobody =>
                queue'[Sub(t)].running = queue[Sub(t)].running
          /\ queue[Sub(t)].running = Nobody =>
                queue'[Sub(t)].running = Drop(seats[t], s)
      BY <2>1, <2>5, <3>1, RunKeeps
    <3> QED  BY <1>1, <2>1, <2>2, <3>1, <3>2, LockStays DEF LockInv
  <2> QED  BY <2>4, <2>5
<1> QED  BY <1>2, <1>3

(* The end of a room lets go of every open offer with its hold. *)
LEMMA LockEndRoom ==
    ASSUME LockInv, ShapeInv', EndRoom, NEW s \in Sockets
    PROVE  LockAt(s)'
<1> DEFINE seated == {p \in Peers : IsSeated(p)}
<1>1. ShapeInv /\ LockAt(s) /\ Sub(s) \in Keys /\ Sub(s)[2] = s
  BY KeyFacts DEF LockInv
<1>2. open[s] \in seated <=> open[s] = seats[s] /\ seats[s] # NoPeer
  <2>1. open[s] \in Peers => SocketOf[open[s]] = s
    BY <1>1, RunningFacts DEF LockAt, HeldAt, Runs
  <2>2. seats[s] # NoPeer => seats[s] \in Peers /\ SocketOf[seats[s]] = s
    BY <1>1 DEF ShapeInv, RoomShape
  <2> QED  BY <2>1, <2>2, NoPeerIsNone DEF IsSeated
<1>3. /\ open'[s] = IF open[s] = seats[s] /\ seats[s] # NoPeer THEN NoPeer ELSE open[s]
      /\ seats'[s] = NoPeer
      /\ ready[s] # "open" => ready'[s] # "open"
      /\ UNCHANGED <<past, at, subs, Known>>
  <2>1. /\ open'[s] = IF open[s] \in seated THEN NoPeer ELSE open[s]
        /\ seats'[s] = NoPeer /\ UNCHANGED <<past, at, subs, Known>>
    BY DEF EndRoom, sfu, Known
  <2>2. ready[s] # "open" => ready'[s] # "open"
    BY <1>1 DEF EndRoom, Close, ShapeInv, RoomShape
  <2> QED  BY <1>2, <2>1, <2>2
<1>4. CASE seats[s] = NoPeer
  <2>1. ~ \E p \in seated : SocketOf[p] = Sub(s)[2]
    BY <1>1, <1>4, NoPeerIsNone DEF IsSeated
  <2>2. queue'[Sub(s)] = queue[Sub(s)] /\ open'[s] = open[s]
    BY <1>1, <1>3, <1>4, <2>1 DEF EndRoom
  <2>3. OffersStay(s)
    BY <1>3, NoPeerIsNone DEF OffersStay, IsSeated
  <2> QED  BY <1>1, <1>3, <2>2, <2>3, LockStays
<1>5. CASE seats[s] # NoPeer
  <2>1. seats[s] \in Peers /\ SocketOf[seats[s]] = s
    BY <1>1, <1>5 DEF ShapeInv, RoomShape
  <2>2. seats[s] \in seated
    BY <2>1 DEF IsSeated
  <2>3. queue'[Sub(s)] = ClosedOwn(Sub(s), seats[s])
    BY <1>1, <2>1, <2>2 DEF EndRoom
  <2>4. queue'[Sub(s)] = Run(IF open[s] = seats[s] THEN Finish(queue[Sub(s)])
                                                  ELSE queue[Sub(s)],
                             CallOf("closeSub", seats[s]))
    BY <2>1, <2>3, KeyFacts DEF ClosedOwn
  <2> QED  BY <1>3, <1>5, <2>4, LockVacated
<1> QED  BY <1>4, <1>5

(* An answer keeps the hold it is submitted under. *)
LEMMA LockClient ==
    ASSUME LockInv, ShapeInv', NEW p \in Peers,
           Publish(p) \/ Subscribe(p) \/ SubscribeLimited(p) \/ Answer(p), NEW s \in Sockets
    PROVE  LockAt(s)'
<1> DEFINE x == SocketOf[p]
<1>1. /\ ShapeInv /\ LockAt(s) /\ x \in Sockets
      /\ \A t \in Sockets : Sub(t) \in Keys /\ Sub(t) # Pub(x)
      /\ \A t \in Sockets : Sub(t) = Sub(x) => t = x
  BY SocketsOfPeers, KeyFacts DEF LockInv
<1>2. OffersStay(s)
  BY DEF Publish, Subscribe, SubscribeLimited, Answer, OffersStay, room, sfu, Known, IsSeated
<1>3. queue \in [Keys -> QueueType] /\ at \in [Keys -> Stages]
  BY <1>1 DEF ShapeInv, QueueShape
<1>4. CASE Publish(p)
  <2>1. queue'[Sub(s)] = queue[Sub(s)] /\ at' = at /\ open' = open
    BY <1>1, <1>3, <1>4 DEF Publish
  <2> QED  BY <1>1, <1>2, <2>1, LockStays
<1>5. CASE Subscribe(p)
  <2>1. /\ queue' = [queue EXCEPT ![Sub(x)] = Run(queue[Sub(x)], CallOf("subscribe", p))]
        /\ at' = at /\ open' = open
    BY <1>5 DEF Subscribe
  <2>2. CASE s # x
    <3>1. queue'[Sub(s)] = queue[Sub(s)]
      BY <1>1, <1>3, <2>1, <2>2
    <3> QED  BY <1>1, <1>2, <2>1, <3>1, LockStays
  <2>3. CASE s = x
    <3>1. /\ CallOf("subscribe", p) \in Calls /\ CallOf("subscribe", p).what # "hold"
          /\ WellFormed(queue[Sub(x)])
      BY <1>1, CallFacts DEF ShapeInv, QueueShape, AtPlace
    <3>2. queue'[Sub(s)] = Run(queue[Sub(x)], CallOf("subscribe", p))
      BY <1>1, <1>3, <2>1, <2>3
    <3>3. /\ queue[Sub(s)].running # Nobody =>
                queue'[Sub(s)].running = queue[Sub(s)].running
          /\ queue[Sub(s)].running = Nobody =>
                queue'[Sub(s)].running = CallOf("subscribe", p)
      BY <2>3, <3>1, <3>2, RunKeeps
    <3> QED  BY <1>1, <1>2, <2>1, <3>1, <3>3, LockStays
  <2> QED  BY <2>2, <2>3
<1>6. CASE Answer(p)
  <2>1. /\ queue' = queue /\ at' = [at EXCEPT ![Sub(x)] = "call"]
        /\ open' = [open EXCEPT ![x] = NoPeer] /\ open[x] = p
    BY <1>6 DEF Answer
  <2>2. CASE s # x
    <3>1. at'[Sub(s)] = at[Sub(s)] /\ open'[s] = open[s]
      BY <1>1, <1>3, <2>1, <2>2 DEF ShapeInv, DataShape
    <3> QED  BY <1>1, <1>2, <2>1, <3>1, LockStays
  <2>3. CASE s = x
    <3>1. Runs(Sub(s), "hold") /\ at'[Sub(s)] = "call" /\ open'[s] = NoPeer
      BY <1>1, <1>3, <2>1, <2>3 DEF LockAt, HeldAt, ShapeInv, DataShape
    <3>2. HeldAt(s)' /\ FitAt(s)'
      BY <2>1, <3>1, NoPeerIsNone DEF HeldAt, FitAt, Runs
    <3>3. CoveredAt(s)'
      BY <1>1, <1>6, <2>1 DEF LockAt, CoveredAt, Answer, room, sfu, Known, Runs, IsSeated
    <3> QED  BY <3>2, <3>3 DEF LockAt
  <2> QED  BY <2>2, <2>3
<1>7. CASE SubscribeLimited(p)
  <2>1. queue' = queue /\ at' = at /\ open' = open
    BY <1>7 DEF SubscribeLimited
  <2> QED  BY <1>1, <1>2, <2>1, LockStays
<1> QED  BY <1>4, <1>5, <1>6, <1>7

(* Steps of a receiving session leave the others' locks alone.              *)
LEMMA LockElsewhere ==
    ASSUME LockInv, NEW s \in Sockets, Receiving(s),
           SubscribeStep(s) \/ HoldStep(s), NEW t \in Sockets \ {s}
    PROVE  LockAt(t)'
<1> DEFINE p == queue[Sub(s)].running.peer
<1>1. ShapeInv /\ LockAt(t) /\ ShapeInv'
  BY DEF LockInv, Receiving
<1>2. queue[Sub(s)].running # Nobody
  BY SomebodyRuns
<1>3. SocketOf[p] = s
  BY <1>1, <1>2, KeyFacts, RunningFacts
<1>4. \A x \in Peers \ {p} : /\ x \in subs <=> x \in subs'
                             /\ x \in Known <=> x \in Known'
  BY DEF SubscribeStep, HoldStep, SubscribeStarts, SessionOpens, SubscribeFails,
         PullBreaks, PullAgain, PullComesEmpty, PullLosesBody, PullArrives,
         CloseReceived, DropLeaver, AnswerAccepted, AnswerRefused,
         AnswerTimesOut, sfu, Known
<1>5. OffersStay(t)
  BY <1>3, <1>4 DEF OffersStay, Receiving, IsSeated
<1> QED  BY <1>1, <1>5, LockStays DEF Receiving

(* The steps of the call that has the key, one by one. *)
LEMMA LockReceiving ==
    ASSUME LockInv, NEW s \in Sockets, Receiving(s), SubscribeStep(s) \/ HoldStep(s)
    PROVE  LockAt(s)'
<1> DEFINE k == Sub(s)
           p == queue[k].running.peer
           Ends == Hand(k, Finish(queue[k]))
           Free == /\ open[s] = NoPeer
                   /\ \A x \in Known : SocketOf[x] = s =>
                         ready[s] # "open" \/ ~IsSeated(x)
<1>1. /\ ShapeInv /\ LockAt(s) /\ ShapeInv' /\ k \in Keys /\ k[2] = s
      /\ seats' = seats /\ past' = past /\ (ready[s] # "open" => ready'[s] # "open")
  BY KeyFacts DEF LockInv, Receiving
<1>2. \A x \in Peers : IsSeated(x)' <=> IsSeated(x)
  BY <1>1 DEF IsSeated
<1>3. queue[k].running # Nobody => /\ p \in Peers /\ p \in past /\ SocketOf[p] = s
  BY <1>1, RunningFacts
<1>4. /\ at \in [Keys -> Stages] /\ open \in [Sockets -> Peers \cup {NoPeer}]
      /\ ready \in [Sockets -> {"open", "closing", "gone"}]
      /\ Known \subseteq Peers /\ Known' \subseteq Peers
  BY <1>1 DEF ShapeInv, QueueShape, DataShape, RoomShape, Known
<1>5. \A x \in Known : SocketOf[x] = s => x \in subs /\ x \in past
  BY <1>1 DEF LockAt, CoveredAt
<1>6. queue[k].running # Nobody /\ queue[k].running.what # "hold" => Free
  BY <1>1, <1>4 DEF LockAt, HeldAt, CoveredAt, Runs
<1>7. ASSUME Ends, open'[s] = NoPeer,
             \A x \in Known' : SocketOf[x] = s =>
                /\ x \in subs' /\ x \in past
                /\ ready'[s] # "open" \/ ~IsSeated(x)
      PROVE  LockAt(s)'
  BY <1>1, <1>2, <1>4, <1>7, HandFacts, LockPasses
<1>8. ASSUME Ends, Free, open' = open, subs \subseteq subs',
             \A x \in Known' : x \in Known \/ (x = p /\ p \in subs /\ (ready'[s] # "open" \/ ~IsSeated(p))),
             queue[k].running # Nobody
      PROVE  LockAt(s)'
  BY <1>1, <1>3, <1>5, <1>7, <1>8
<1>9. ASSUME Runs(k, "subscribe"), queue' = queue,
             \/ /\ at' = [at EXCEPT ![k] = "session"]
                /\ p \notin subs'
             \/ /\ \/ at' = [at EXCEPT ![k] = "call"]
                   \/ at' = [at EXCEPT ![k] = "retry"]
                /\ p \in subs' /\ (p \in Known => ready[s] # "open"),
             open' = open, Known' = Known, subs \subseteq subs', ready' = ready
      PROVE  LockAt(s)'
  <2>1. Free
    BY <1>6, <1>9 DEF Runs
  <2>2. HeldAt(s)'
    BY <1>9, <2>1, NoPeerIsNone DEF HeldAt, Runs
  <2>3. FitAt(s)'
    BY <1>1, <1>4, <1>9 DEF FitAt, Runs
  <2>4. CoveredAt(s)'
    BY <1>1, <1>2, <1>4, <1>5, <1>9, <2>1 DEF CoveredAt
  <2> QED  BY <2>2, <2>3, <2>4 DEF LockAt
<1>10. ASSUME Runs(k, "subscribe"), Pull(p, s), p \in subs', p \in Known => ready[s] # "open",
              open' = open, Known' = Known, subs \subseteq subs', ready' = ready
       PROVE  LockAt(s)'
  <2>1. Ends \/ (queue' = queue /\ at' = [at EXCEPT ![k] = "call"])
    BY <1>1, <1>3, <1>10, PullFacts DEF Runs
  <2>2. Free /\ queue[k].running # Nobody
    BY <1>6, <1>10 DEF Runs
  <2> QED  BY <1>8, <1>9, <1>10, <2>1, <2>2
<1>11. CASE SubscribeStarts(s)
  <2>1. /\ Runs(k, "subscribe") /\ open' = open /\ Known' = Known /\ subs' = subs
        /\ ready' = ready /\ queue[k].running # Nobody
    BY <1>11 DEF SubscribeStarts, sfu, Known, room, Runs
  <2>2. Free
    BY <1>6, <2>1 DEF Runs
  <2>3. CASE ~IsSeated(p)
    BY <1>8, <1>11, <2>1, <2>2, <2>3 DEF SubscribeStarts, ReplyTo
  <2>4. CASE IsSeated(p) /\ p \notin subs
    BY <1>9, <1>11, <2>1, <2>4 DEF SubscribeStarts
  <2>5. CASE IsSeated(p) /\ p \in subs
    <3>1. Pull(p, s)
      BY <1>11, <2>5 DEF SubscribeStarts
    <3>2. p \in Known => ready[s] # "open"
      BY <1>3, <2>1, <2>2, <2>5
    <3> QED  BY <1>10, <2>1, <2>5, <3>1, <3>2
  <2> QED  BY <2>3, <2>4, <2>5
<1>12. CASE SessionOpens(s)
  <2>1. /\ Runs(k, "subscribe") /\ open' = open /\ Known' = Known
        /\ subs' = subs \cup {p} /\ ready' = ready /\ Pull(p, s)
        /\ at[k] = "session"
    BY <1>12 DEF SessionOpens, sfu, Known, room
  <2>2. p \notin Known
    BY <1>1, <1>3, <1>5, <2>1 DEF LockAt, FitAt, Runs
  <2> QED  BY <1>10, <2>1, <2>2
<1>13. CASE SubscribeFails(s)
  <2>1. Known' \subseteq Known
    BY <1>13 DEF SubscribeFails, Known
  <2> QED  BY <1>6, <1>8, <1>13, <2>1 DEF SubscribeFails, ReplyTo, Runs
<1>14. CASE PullBreaks(s)
  <2>1. p \in subs /\ queue[k].running # Nobody
    BY <1>1, <1>14 DEF PullBreaks, LockAt, FitAt, Runs
  <2>2. ready'[s] # "open" \/ ~IsSeated(p)
    BY <1>4, <1>14 DEF PullBreaks, Close
  <2>3. Known' \subseteq Known \cup {p}
    BY <1>14 DEF PullBreaks, Known
  <2> QED  BY <1>6, <1>8, <1>14, <2>1, <2>2, <2>3 DEF PullBreaks, ReplyTo, Runs
<1>15. CASE PullAgain(s)
  <2>1. p \in subs /\ (p \in Known => ready[s] # "open")
    BY <1>1, <1>15 DEF PullAgain, IsPulling, LockAt, FitAt
  <2>2. Known' = Known
    BY <1>15 DEF PullAgain, sfu, Known
  <2> QED  BY <1>9, <1>15, <2>1, <2>2 DEF PullAgain, IsPulling, room
<1>16. CASE PullComesEmpty(s)
  <2>1. Known' = Known
    BY <1>16 DEF PullComesEmpty, sfu, Known
  <2> QED  BY <1>6, <1>8, <1>16, <2>1 DEF PullComesEmpty, IsPulling, ReplyTo, Runs
<1>23. CASE PullLosesBody(s)
  <2>1. Known' \subseteq Known
    BY <1>23 DEF PullLosesBody, Known
  <2> QED  BY <1>6, <1>8, <1>23, <2>1 DEF PullLosesBody, IsPulling, ReplyTo, Runs
<1>17. CASE PullArrives(s)
  <2>1. /\ p \in subs /\ queue[k].running # Nobody /\ Free
        /\ Known' \subseteq Known \cup {p} /\ subs' = subs
    <3>1. Runs(k, "subscribe") /\ at[k] \in {"call", "retry"}
      BY <1>17 DEF PullArrives, IsPulling
    <3>2. p \in subs /\ queue[k].running # Nobody /\ Free
      BY <1>1, <1>6, <3>1 DEF LockAt, FitAt, Runs
    <3>3. Known' \subseteq Known \cup {p} /\ subs' = subs
      BY <1>17 DEF PullArrives, Known
    <3> QED  BY <3>2, <3>3
  <2>2. CASE ~IsSeated(p)
    BY <1>8, <1>17, <2>1, <2>2 DEF PullArrives, ReplyTo
  <2>3. CASE IsSeated(p)
    <3> DEFINE q == Finish(Hold(queue[k], CallOf("hold", p)))
    <3>1. CallOf("hold", p) \in Calls /\ CallOf("hold", p).peer = p
          /\ CallOf("hold", p).what = "hold"
      BY <1>3, <2>1, CallFacts
    <3>2. q.running = CallOf("hold", p)
      <4>1. AtPlace(queue[k], s, past)
        BY <1>1 DEF ShapeInv, QueueShape
      <4> QED  BY <1>3, <2>1, <3>1, <4>1, PlaceHold
    <3>3. /\ Hand(k, q) /\ open' = [open EXCEPT ![s] = p]
      BY <1>17, <2>3 DEF PullArrives, Offer
    <3>4. /\ queue'[k] = q /\ at'[k] = "start" /\ open'[s] = p
      BY <1>1, <1>4, <3>3 DEF Hand, ShapeInv, QueueShape
    <3>5. queue'[k].running = CallOf("hold", p)
      BY <3>2, <3>4
    <3>6. CallOf("hold", p) # Nobody
      BY <3>1, NobodyIsNoCall
    <3> HIDE DEF q
    <3>7. HeldAt(s)'
      BY <3>1, <3>4, <3>5, <3>6 DEF HeldAt, Runs
    <3>8. FitAt(s)'
      BY <3>1, <3>5 DEF FitAt, Runs
    <3>9. CoveredAt(s)'
      BY <1>1, <1>2, <1>3, <1>4, <1>5, <2>1, <3>1, <3>5, <3>6 DEF CoveredAt, Runs
    <3> QED  BY <3>7, <3>8, <3>9 DEF LockAt
  <2> QED  BY <2>2, <2>3
<1>18. CASE CloseReceived(s)
  BY <1>6, <1>8, <1>18 DEF CloseReceived, Runs, sfu, Known
<1>19. CASE DropLeaver(s)
  BY <1>6, <1>8, <1>19 DEF DropLeaver, Runs, sfu, Known
<1>20. CASE AnswerAccepted(s)
  <2>1. /\ Runs(k, "hold") /\ at[k] = "call" /\ Known' = Known \ {p}
        /\ Ends /\ open' = open /\ subs' = subs
    BY <1>20 DEF AnswerAccepted, ReplyTo, Known
  <2>2. open'[s] = NoPeer
    BY <1>1, <1>4, <2>1 DEF LockAt, HeldAt
  <2>3. \A x \in Known' : SocketOf[x] = s => ready[s] # "open" \/ ~IsSeated(x)
    BY <1>1, <2>1 DEF LockAt, CoveredAt
  <2> QED  BY <1>1, <1>5, <1>7, <2>1, <2>2, <2>3
<1>21. CASE AnswerRefused(s)
  <2>1. /\ Runs(k, "hold") /\ at[k] = "call" /\ Known' = Known
        /\ Ends /\ open' = open /\ subs' = subs /\ ready' = Close({s})
    BY <1>21 DEF AnswerRefused, ReplyTo, sfu, Known
  <2>2. open'[s] = NoPeer /\ ready'[s] # "open"
    BY <1>1, <1>4, <2>1 DEF LockAt, HeldAt, Close
  <2> QED  BY <1>5, <1>7, <2>1, <2>2
<1>22. CASE AnswerTimesOut(s)
  <2>1. /\ Runs(k, "hold") /\ at[k] = "start" /\ Known' = Known
        /\ Ends /\ open' = [open EXCEPT ![s] = NoPeer] /\ subs' = subs
        /\ ready' = IF open[s] = NoPeer THEN ready ELSE Close({s})
    BY <1>22 DEF AnswerTimesOut, ReplyTo, sfu, Known, Armed
  <2>2. open[s] = p /\ p \in Peers
    BY <1>1, <1>3, <2>1 DEF LockAt, HeldAt, Runs
  <2>3. open'[s] = NoPeer /\ ready'[s] # "open"
    BY <1>4, <2>1, <2>2, NoPeerIsNone DEF Close
  <2> QED  BY <1>5, <1>7, <2>1, <2>3
<1> QED  BY <1>11, <1>12, <1>13, <1>14, <1>15, <1>16, <1>17, <1>18, <1>19, <1>20,
            <1>21, <1>22, <1>23 DEF SubscribeStep, HoldStep

-----------------------------------------------------------------------------
(* No offer is open at first. *)
LEMMA LockInit == Init => LockInv
<1> SUFFICES ASSUME Init PROVE LockInv
  OBVIOUS
<1>1. \A k \in Keys : queue[k] = Idle /\ at[k] = "start"
  BY DEF Init
<1>2. Idle \in QueueType /\ Idle.running = Nobody /\ Idle.waiting = <<>>
  <2>1. <<>> \in Seq(Calls)
    OBVIOUS
  <2> QED  BY <2>1, QueueFields DEF Idle
<1>3. \A x, P : AtPlace(Idle, x, P)
  BY <1>2 DEF AtPlace, WellFormed, Line
<1>4. RoomShape /\ DataShape
  BY BoundsAreNat DEF Init, RoomShape, DataShape
<1>5. QueueShape
  BY <1>1, <1>2, <1>3 DEF Init, QueueShape, Stages
<1>6. ASSUME NEW s \in Sockets PROVE LockAt(s)
  <2>1. open[s] = NoPeer /\ Known = {} /\ queue[Sub(s)].running = Nobody
    BY <1>1, <1>2, KeyFacts DEF Init, Known
  <2> QED  BY <2>1, NoPeerIsNone DEF LockAt, HeldAt, FitAt, CoveredAt, Runs
<1> QED  BY <1>4, <1>5, <1>6 DEF LockInv, ShapeInv

(* LockInv is inductive. *)
LEMMA LockStep == LockInv /\ [Next]_vars => LockInv'
<1> SUFFICES ASSUME LockInv, [Next]_vars PROVE LockInv'
  OBVIOUS
<1>1. ShapeInv /\ OffersAreHeld
  BY DEF LockInv, LockAt, HeldAt, OffersAreHeld
<1>2. ASSUME NEW p \in Peers, ClientStep(p) PROVE LockInv'
  BY <1>1, <1>2, ShapeJoin, ShapeClient, LockJoin, LockClient DEF ClientStep, LockInv
<1>3. ASSUME NEW s \in Sockets, Leave(s) PROVE LockInv'
  <2>1. ShapeInv'
    BY <1>1, <1>3, ShapeSockets
  <2> QED  BY <1>3, <2>1, LockUnseat DEF Leave, LockInv, sfu, Known
<1>4. ASSUME NEW s \in Sockets, CloseSocket(s) PROVE LockInv'
  <2>1. ShapeInv'
    BY <1>1, <1>4, ShapeSockets
  <2>2. \A t \in Sockets : ready[t] # "open" => ready'[t] # "open"
    BY <1>1, <1>4, SocketsOnlyClose DEF CloseSocket, ShapeInv
  <2>3. ASSUME NEW t \in Sockets PROVE LockAt(t)'
    <3>1. OffersStay(t)
      BY <1>4, <2>2 DEF CloseSocket, OffersStay, sfu, Known, IsSeated
    <3> QED  BY <1>1, <1>4, <2>1, <3>1, LockStays DEF CloseSocket, LockInv
  <2> QED  BY <2>1, <2>3 DEF LockInv
<1>5. ASSUME NEW s \in Sockets, Disconnect(s) PROVE LockInv'
  <2>1. ShapeInv'
    BY <1>1, <1>5, ShapeSockets
  <2>2. /\ ready'[s] # "open" /\ \A t \in Sockets \ {s} : ready'[t] = ready[t]
        /\ UNCHANGED <<past, at, subs, Known>>
    BY <1>1, <1>5 DEF Disconnect, sfu, Known, ShapeInv, RoomShape
  <2>3. CASE seats[s] # NoPeer
    BY <1>5, <2>1, <2>2, <2>3, LockUnseat DEF Disconnect, LockInv
  <2>4. CASE seats[s] = NoPeer
    <3>1. UNCHANGED <<seats, open, queue>>
      BY <1>5, <2>4 DEF Disconnect
    <3>2. ASSUME NEW t \in Sockets PROVE LockAt(t)'
      <4>1. OffersStay(t)
        BY <2>2, <3>1 DEF OffersStay, IsSeated
      <4> QED  BY <1>1, <2>1, <2>2, <3>1, <4>1, LockStays DEF LockInv
    <3> QED  BY <2>1, <3>2 DEF LockInv
  <2> QED  BY <2>3, <2>4
<1>6. CASE EndRoom
  BY <1>1, <1>6, ShapeEndRoom, LockEndRoom DEF LockInv
<1>7. ASSUME NEW s \in Sockets, PublishStep(s) PROVE LockInv'
  <2>1. /\ ShapeInv'
        /\ UNCHANGED <<room, subs, open, offers, unread>>
        /\ \A t \in Sockets : UNCHANGED <<queue[Sub(t)], at[Sub(t)]>>
    BY <1>1, <1>7, ShapePublishing
  <2>2. ASSUME NEW t \in Sockets PROVE LockAt(t)'
    <3>1. OffersStay(t)
      BY <2>1 DEF OffersStay, Known, room, IsSeated
    <3> QED  BY <1>1, <2>1, <3>1, LockStays DEF LockInv
  <2> QED  BY <2>1, <2>2 DEF LockInv
<1>8. ASSUME NEW s \in Sockets, SubscribeStep(s) \/ HoldStep(s) PROVE LockInv'
  <2>1. Receiving(s)
    BY <1>1, <1>8, ShapeReceiving
  <2> QED  BY <1>8, <2>1, LockElsewhere, LockReceiving DEF LockInv, Receiving
<1>9. CASE UNCHANGED vars
  <2>1. ShapeInv'
    BY <1>1, <1>9 DEF vars, room, sfu, Known, client, ShapeInv, RoomShape, DataShape, QueueShape
  <2>2. ASSUME NEW t \in Sockets PROVE LockAt(t)'
    <3>1. OffersStay(t)
      BY <1>9 DEF vars, room, sfu, Known, OffersStay, IsSeated
    <3> QED  BY <1>1, <1>9, <2>1, <3>1, LockStays DEF vars, LockInv
  <2> QED  BY <2>1, <2>2 DEF LockInv
<1> QED  BY <1>2, <1>3, <1>4, <1>5, <1>6, <1>7, <1>8, <1>9 DEF Next

(* ConferenceSfuSignaling: who is in line for a session, and that an offer  *)
(* made on it is held, or its client was told to start over, or has left -  *)
(* unless the reply that had the offer passed for one without (`unread`).   *)
THEOREM LocksCorrect == Spec => []LockInv
<1> QED  BY LockInit, LockStep, PTL DEF Spec

(* Everyone in line for a session sits or sat on its socket, and a key with *)
(* a line has somebody at the front.                                        *)
THEOREM SfuTypeCorrect == Spec => []TypeOK
<1>1. LockInv => TypeOK
  BY DEF LockInv, ShapeInv, RoomShape, DataShape, QueueShape, AtPlace, WellFormed, TypeOK
<1> QED  BY <1>1, LocksCorrect, PTL

(* renegotiate() finds the lock it submits its answer under: an offer is    *)
(* open exactly while a hold waits, for the peer it was made to.            *)
THEOREM OffersAlwaysHeld == Spec => []OffersAreHeld
<1>1. LockInv => OffersAreHeld
  BY DEF LockInv, LockAt, HeldAt, OffersAreHeld
<1> QED  BY <1>1, LocksCorrect, PTL

(* No pull is sent into a session whose offer is unanswered, unless its     *)
(* client was told to start over, or a reply hid the offer from the code.   *)
THEOREM NegotiationsNeverOverlap == Spec => []NoPullOverAnOffer
<1>1. LockInv => NoPullOverAnOffer
  BY DEF LockInv, LockAt, FitAt, NoPullOverAnOffer, Known
<1> QED  BY <1>1, LocksCorrect, PTL

-----------------------------------------------------------------------------
(***************************************************************************)
(* What a leaver leaves behind in ConferenceSfu: nothing on the air and    *)
(* nothing in the receivers' memory.  Both rest on the same argument: what *)
(* is left is answered for by a call that is already in line, and a line   *)
(* moves only forward.  So does the last part, on the tracks that a peer   *)
(* lacks: one is asked for by a call in line, behind every drop of it.     *)
(***************************************************************************)

(* The call is running or in line. *)
Comes(q, c) == q.running = c \/ c \in Line(q)

(* q2 came from q while nobody was taken off the key. *)
Grows(q, q2) ==
    /\ q.running # Nobody => q2.running = q.running /\ Line(q) \subseteq Line(q2)
    /\ q.running = Nobody => Line(q) = {}

(* run() only adds to a line, and what it adds will come. *)
LEMMA GrowsByRun ==
    ASSUME NEW q, WellFormed(q), NEW c \in Calls
    PROVE  Grows(q, Run(q, c)) /\ Comes(Run(q, c), c)
<1>1. q.running = Nobody => Line(q) = {}
  BY DEF WellFormed, Line
<1> QED  BY <1>1, RunFacts DEF Grows, Comes

(* A queue left alone has grown by nothing. *)
LEMMA GrowsNot ==
    ASSUME NEW q, WellFormed(q)
    PROVE  Grows(q, q)
BY DEF Grows, WellFormed, Line

(* What will come still comes when the line has only grown. *)
LEMMA StillComes ==
    ASSUME NEW q, NEW q2, Grows(q, q2), NEW c \in Calls, Comes(q, c)
    PROVE  Comes(q2, c)
BY NobodyIsNoCall DEF Grows, Comes

(* Whoever takes the key over, those in line are still to come. *)
LEMMA ComesAfterFinish ==
    ASSUME NEW q, WellFormed(q), NEW c \in Line(q)
    PROVE  Comes(Finish(q), c)
BY FinishFacts DEF Comes

-----------------------------------------------------------------------------
(* Publishing sessions.                                                     *)

ClosePub(p) == CallOf("closePub", p)

(* The peers with tracks that no failed close and no lost reply left there. *)
OnAir == live \ (unclosed \cup unheard)

(* The tracks of a peer, or those a publish of it is about to have, will be *)
(* closed, unless it is there to be pulled from.                            *)
AirAt(s) ==
    /\ \A p \in Peers :
          /\ Runs(Pub(s), "publish") /\ at[Pub(s)] = "call"
          /\ queue[Pub(s)].running.peer = p
          => IsSeated(p) \/ ClosePub(p) \in Line(queue[Pub(s)])
    /\ \A p \in OnAir : SocketOf[p] = s =>
          \/ p \in published /\ (IsSeated(p) \/ Comes(queue[Pub(s)], ClosePub(p)))
          \/ /\ Runs(Pub(s), "publish") /\ at[Pub(s)] = "undo"
             /\ queue[Pub(s)].running.peer = p

AirInv == LockInv /\ \A s \in Sockets : AirAt(s)

(* AirAt survives whatever leaves its key, its seat and its tracks alone. *)
LEMMA AirStays ==
    ASSUME ShapeInv, ShapeInv', NEW s \in Sockets, AirAt(s),
           Grows(queue[Pub(s)], queue'[Pub(s)]), at'[Pub(s)] = at[Pub(s)],
           published \subseteq published',
           \A p \in Peers : SocketOf[p] = s =>
              /\ p \in OnAir <=> p \in OnAir'
              /\ IsSeated(p) => IsSeated(p)'
    PROVE  AirAt(s)'
<1>1. /\ Pub(s) \in Keys /\ Pub(s)[2] = s
      /\ OnAir \subseteq Peers /\ OnAir' \subseteq Peers
      /\ queue[Pub(s)].running = Nobody => at[Pub(s)] = "start"
      /\ queue \in [Keys -> QueueType]
  BY KeyFacts DEF ShapeInv, DataShape, QueueShape, OnAir
<1>2. queue[Pub(s)].running # Nobody =>
         queue[Pub(s)].running.peer \in Peers /\ SocketOf[queue[Pub(s)].running.peer] = s
  BY <1>1, RunningFacts
<1>3. \A p \in Peers : ClosePub(p) \in Calls
  BY CallFacts DEF ClosePub
<1>4. \A p \in Peers : Comes(queue[Pub(s)], ClosePub(p)) => Comes(queue'[Pub(s)], ClosePub(p))
  BY <1>3, StillComes
<1>5. ASSUME NEW p \in Peers, Runs(Pub(s), "publish")', at'[Pub(s)] = "call",
             queue'[Pub(s)].running.peer = p
      PROVE  IsSeated(p)' \/ ClosePub(p) \in Line(queue'[Pub(s)])
  BY <1>1, <1>2, <1>5 DEF AirAt, Grows, Runs
<1>6. ASSUME NEW p \in OnAir', SocketOf[p] = s
      PROVE  \/ p \in published' /\ (IsSeated(p)' \/ Comes(queue'[Pub(s)], ClosePub(p)))
             \/ /\ Runs(Pub(s), "publish")' /\ at'[Pub(s)] = "undo"
                /\ queue'[Pub(s)].running.peer = p
  BY <1>1, <1>4, <1>6 DEF AirAt, Grows, Runs
<1> QED  BY <1>1, <1>5, <1>6 DEF AirAt

(* A peer gives up its seat: the closing of its tracks joins the line.      *)
LEMMA AirVacated ==
    ASSUME ShapeInv, ShapeInv', NEW s \in Sockets, AirAt(s), seats[s] # NoPeer,
           queue'[Pub(s)] = Run(queue[Pub(s)], ClosePub(seats[s])),
           at'[Pub(s)] = at[Pub(s)], UNCHANGED <<published, OnAir>>
    PROVE  AirAt(s)'
<1> DEFINE c == ClosePub(seats[s])
<1>1. /\ Pub(s) \in Keys /\ Pub(s)[2] = s /\ OnAir \subseteq Peers
      /\ queue[Pub(s)].running = Nobody => at[Pub(s)] = "start"
      /\ WellFormed(queue[Pub(s)]) /\ seats[s] \in Peers
  BY KeyFacts DEF ShapeInv, RoomShape, DataShape, QueueShape, AtPlace, OnAir
<1>2. queue[Pub(s)].running # Nobody =>
         queue[Pub(s)].running.peer \in Peers /\ SocketOf[queue[Pub(s)].running.peer] = s
  BY <1>1, RunningFacts
<1>3. c \in Calls /\ \A p \in Peers : ClosePub(p) \in Calls
  BY <1>1, CallFacts DEF ClosePub
<1>4. /\ Grows(queue[Pub(s)], queue'[Pub(s)]) /\ Comes(queue'[Pub(s)], c)
      /\ queue[Pub(s)].running # Nobody => c \in Line(queue'[Pub(s)])
  BY <1>1, <1>3, GrowsByRun, RunFacts
<1>5. \A p \in Peers : Comes(queue[Pub(s)], ClosePub(p)) => Comes(queue'[Pub(s)], ClosePub(p))
  BY <1>3, <1>4, StillComes
<1>6. \A p \in Peers : SocketOf[p] = s /\ IsSeated(p) => ClosePub(p) = c
  BY DEF IsSeated
<1>7. Runs(Pub(s), "publish")' /\ at'[Pub(s)] = "call" =>
         ClosePub(queue'[Pub(s)].running.peer) \in Line(queue'[Pub(s)])
  BY <1>1, <1>2, <1>4, <1>6 DEF AirAt, Grows, Runs
<1>8. ASSUME NEW p \in OnAir', SocketOf[p] = s
      PROVE  \/ p \in published' /\ Comes(queue'[Pub(s)], ClosePub(p))
             \/ /\ Runs(Pub(s), "publish")' /\ at'[Pub(s)] = "undo"
                /\ queue'[Pub(s)].running.peer = p
  BY <1>1, <1>4, <1>5, <1>6, <1>8 DEF AirAt, Grows, Runs
<1> QED  BY <1>7, <1>8 DEF AirAt

(* A leaver's tracks are answered for, and nobody else's are touched. *)
LEMMA AirUnseat ==
    ASSUME AirInv, ShapeInv', NEW s \in Sockets, seats[s] # NoPeer, Unseat(s),
           UNCHANGED <<at, published, OnAir>>, NEW t \in Sockets
    PROVE  AirAt(t)'
<1>1. ShapeInv /\ AirAt(t) /\ seats \in [Sockets -> Peers \cup {NoPeer}]
  BY DEF AirInv, LockInv, ShapeInv, RoomShape
<1>2. CASE t = s
  BY <1>1, <1>2, UnseatFacts, AirVacated DEF ClosePub
<1>3. CASE t # s
  <2>1. queue'[Pub(t)] = queue[Pub(t)] /\ seats'[t] = seats[t]
    BY <1>1, <1>3, UnseatFacts
  <2>2. Grows(queue[Pub(t)], queue'[Pub(t)])
    BY <1>1, <2>1, GrowsNot, KeyFacts DEF ShapeInv, QueueShape, AtPlace
  <2> QED  BY <1>1, <2>1, <2>2, AirStays DEF IsSeated
<1> QED  BY <1>2, <1>3

(* The end of a room answers for the tracks of everyone in it. *)
LEMMA AirEndRoom ==
    ASSUME AirInv, ShapeInv', EndRoom, NEW s \in Sockets
    PROVE  AirAt(s)'
<1>1. /\ ShapeInv /\ AirAt(s) /\ Pub(s) \in Keys /\ Pub(s)[2] = s
      /\ WellFormed(queue[Pub(s)])
  BY KeyFacts DEF AirInv, LockInv, ShapeInv, QueueShape, AtPlace
<1>2. UNCHANGED <<at, published, OnAir>>
  BY DEF EndRoom, sfu, OnAir
<1>3. CASE seats[s] = NoPeer
  <2>1. \A p \in Peers : SocketOf[p] = s => ~IsSeated(p)
    BY <1>3, NoPeerIsNone DEF IsSeated
  <2>2. queue'[Pub(s)] = queue[Pub(s)]
    BY <1>1, <2>1 DEF EndRoom
  <2>3. Grows(queue[Pub(s)], queue'[Pub(s)])
    BY <1>1, <2>2, GrowsNot
  <2> QED  BY <1>1, <1>2, <2>1, <2>3, AirStays
<1>4. CASE seats[s] # NoPeer
  <2>1. seats[s] \in Peers /\ SocketOf[seats[s]] = s
    BY <1>1, <1>4 DEF ShapeInv, RoomShape
  <2>2. queue'[Pub(s)] = ClosedOwn(Pub(s), seats[s])
    BY <1>1, <2>1 DEF EndRoom, IsSeated
  <2>3. queue'[Pub(s)] = Run(queue[Pub(s)], ClosePub(seats[s]))
    BY <2>1, <2>2, KeyFacts DEF ClosedOwn, ClosePub
  <2> QED  BY <1>1, <1>2, <1>4, <2>3, AirVacated
<1> QED  BY <1>3, <1>4

(* What a call of a publishing session does there.                          *)
LEMMA AirPublishing ==
    ASSUME AirInv, ShapeInv', NEW s \in Sockets, PublishStep(s), NEW t \in Sockets
    PROVE  AirAt(t)'
<1> DEFINE k == Pub(s)
           p == queue[k].running.peer
<1>1. /\ ShapeInv /\ AirAt(t) /\ AirAt(s) /\ k \in Keys /\ k[2] = s /\ Pub(t) \in Keys
      /\ queue \in [Keys -> QueueType] /\ at \in [Keys -> Stages]
      /\ WellFormed(queue[k]) /\ WellFormed(queue[Pub(t)])
      /\ OnAir \subseteq Peers /\ OnAir' \subseteq Peers
  BY KeyFacts DEF AirInv, LockInv, ShapeInv, QueueShape, AtPlace, DataShape, OnAir
<1>2. seats' = seats
  BY <1>1, ShapePublishing DEF room
<1>3. \A x \in Peers : IsSeated(x)' <=> IsSeated(x)
  BY <1>2 DEF IsSeated
<1>4. queue[k].running # Nobody /\ p \in Peers /\ SocketOf[p] = s
  <2>1. queue[k].running # Nobody
    BY DEF PublishStep, PublishStarts, PublishAccepted, PublishPartly, PublishFails,
           PublishUndone, ClosePublished, Runs
  <2> QED  BY <1>1, <2>1, RunningFacts
<1>5. /\ published \subseteq published'
      /\ \A x \in Peers \ {p} : x \in OnAir <=> x \in OnAir'
  BY DEF PublishStep, PublishStarts, PublishAccepted, PublishPartly, PublishFails,
         PublishUndone, ClosePublished, CloseTracksOf, Stored, sfu, OnAir
<1>6. \/ Hand(k, Finish(queue[k]))
      \/ queue' = queue /\ \E a \in Stages : at' = [at EXCEPT ![k] = a]
  BY DEF PublishStep, PublishStarts, PublishAccepted, PublishPartly, PublishFails,
         PublishUndone, ClosePublished, Stages
<1>7. CASE t # s
  <2>1. queue'[Pub(t)] = queue[Pub(t)] /\ at'[Pub(t)] = at[Pub(t)]
    BY <1>1, <1>6, <1>7, KeyFacts DEF Hand
  <2>2. Grows(queue[Pub(t)], queue'[Pub(t)])
    BY <1>1, <2>1, GrowsNot
  <2> QED  BY <1>1, <1>3, <1>4, <1>5, <1>7, <2>1, <2>2, AirStays
<1>8. ASSUME Hand(k, Finish(queue[k])),
             \A x \in OnAir' : SocketOf[x] = s =>
                x \in published' /\ (IsSeated(x) \/ ClosePub(x) \in Line(queue[k]))
      PROVE  AirAt(s)'
  <2>1. queue'[k] = Finish(queue[k]) /\ at'[k] = "start"
    BY <1>1, <1>8 DEF Hand
  <2>2. \A x \in Peers : ClosePub(x) \in Line(queue[k]) => Comes(queue'[k], ClosePub(x))
    BY <1>1, <2>1, ComesAfterFinish
  <2> QED  BY <1>1, <1>3, <1>8, <2>1, <2>2 DEF AirAt
<1>9. ASSUME queue[k].running.what # "closePub" \/ p \notin OnAir',
             ~(Runs(k, "publish") /\ at[k] = "undo") \/ p \notin OnAir'
      PROVE  \A x \in OnAir : SocketOf[x] = s /\ x \in OnAir' =>
                x \in published /\ (IsSeated(x) \/ ClosePub(x) \in Line(queue[k]))
  <2>1. \A x \in Peers : queue[k].running = ClosePub(x) =>
                         x = p /\ queue[k].running.what = "closePub"
    BY CallFacts DEF ClosePub
  <2> QED  BY <1>1, <1>9, <2>1 DEF AirAt, Comes
<1>10. CASE PublishStarts(s) /\ t = s
  <2>1. /\ Runs(k, "publish") /\ at[k] = "start"
        /\ UNCHANGED <<OnAir, published>>
    BY <1>10 DEF PublishStarts, sfu, OnAir
  <2>2. CASE Hand(k, Finish(queue[k]))
    <3>1. queue[k].running.what # "closePub" /\ at[k] # "undo"
      BY <2>1 DEF Runs
    <3> QED  BY <1>8, <1>9, <1>10, <2>1, <2>2, <3>1
  <2>3. CASE IsSeated(p) /\ queue' = queue /\ at' = [at EXCEPT ![k] = "call"]
    <3>1. at'[k] = "call" /\ queue'[k] = queue[k]
      BY <1>1, <2>3
    <3>2. AirAt(s)'
      BY <1>1, <1>3, <1>4, <2>1, <2>3, <3>1 DEF AirAt, Runs
    <3> QED  BY <1>10, <3>2
  <2> QED  BY <1>10, <2>2, <2>3 DEF PublishStarts
<1>11. CASE PublishAccepted(s) /\ t = s
  <2>1. /\ Runs(k, "publish") /\ at[k] = "call" /\ Hand(k, Finish(queue[k]))
        /\ OnAir' \subseteq OnAir \cup {p}
        /\ published' = published \cup {p}
    BY <1>11 DEF PublishAccepted, Stored, OnAir
  <2>2. queue[k].running.what # "closePub" /\ at[k] # "undo"
    BY <2>1 DEF Runs
  <2>3. IsSeated(p) \/ ClosePub(p) \in Line(queue[k])
    BY <1>1, <1>4, <2>1 DEF AirAt
  <2>4. \A x \in OnAir' : SocketOf[x] = s =>
           x \in published' /\ (IsSeated(x) \/ ClosePub(x) \in Line(queue[k]))
    BY <1>9, <2>1, <2>2, <2>3
  <2> QED  BY <1>8, <1>11, <2>1, <2>4
<1>12. CASE PublishPartly(s) /\ t = s
  <2>1. /\ Runs(k, "publish") /\ at[k] = "call" /\ at'[k] = "undo" /\ queue' = queue
        /\ OnAir' \subseteq OnAir \cup {p} /\ published' = published
    BY <1>1, <1>12 DEF PublishPartly, OnAir
  <2>2. AirAt(s)'
    BY <1>1, <1>3, <2>1 DEF AirAt, Runs
  <2> QED  BY <1>12, <2>2
<1>13. CASE PublishFails(s) /\ t = s
  <2>1. /\ Runs(k, "publish") /\ at[k] = "call" /\ Hand(k, Finish(queue[k]))
        /\ OnAir' \subseteq OnAir /\ published' = published
    BY <1>13 DEF PublishFails, OnAir
  <2>2. queue[k].running.what # "closePub" /\ at[k] # "undo"
    BY <2>1 DEF Runs
  <2> QED  BY <1>8, <1>9, <1>13, <2>1, <2>2
<1>14. CASE PublishUndone(s) /\ t = s
  <2>1. /\ Runs(k, "publish") /\ Hand(k, Finish(queue[k])) /\ published' = published
        /\ p \notin OnAir' /\ OnAir' \subseteq OnAir
    BY <1>14 DEF PublishUndone, CloseTracksOf, OnAir
  <2> QED  BY <1>8, <1>9, <1>14, <2>1
<1>15. CASE ClosePublished(s) /\ t = s
  <2>1. /\ Runs(k, "closePub") /\ Hand(k, Finish(queue[k])) /\ published' = published
        /\ OnAir' \subseteq OnAir
        /\ p \in published => p \notin OnAir'
    BY <1>15 DEF ClosePublished, CloseTracksOf, OnAir
  <2>2. p \notin OnAir'
    BY <1>1, <1>4, <2>1 DEF AirAt, Runs
  <2> QED  BY <1>8, <1>9, <1>15, <2>1, <2>2
<1> QED  BY <1>7, <1>10, <1>11, <1>12, <1>13, <1>14, <1>15 DEF PublishStep

(* AirInv is inductive. *)
LEMMA AirStep == AirInv /\ [Next]_vars => AirInv'
<1> SUFFICES ASSUME AirInv, [Next]_vars PROVE AirInv'
  OBVIOUS
<1>1. LockInv' /\ ShapeInv' /\ ShapeInv
  BY LockStep DEF AirInv, LockInv
<1>2. \A s \in Sockets : AirAt(s) /\ WellFormed(queue[Pub(s)]) /\ Grows(queue[Pub(s)], queue[Pub(s)])
  BY <1>1, KeyFacts, GrowsNot DEF AirInv, ShapeInv, QueueShape, AtPlace
<1>3. ASSUME \A s \in Sockets : AirAt(s)' PROVE AirInv'
  BY <1>1, <1>3 DEF AirInv
<1>4. ASSUME \A s \in Sockets : UNCHANGED <<queue[Pub(s)], at[Pub(s)]>>,
             UNCHANGED <<published, OnAir>>,
             \A x \in Peers : IsSeated(x) => IsSeated(x)'
      PROVE  AirInv'
  BY <1>1, <1>2, <1>3, <1>4, AirStays
<1>5. ASSUME NEW p \in Peers, ClientStep(p) PROVE AirInv'
  <2>1. CASE Publish(p)
    <3> DEFINE x == SocketOf[p]
               q == Run(queue[Pub(x)], CallOf("publish", p))
    <3>1. x \in Sockets /\ CallOf("publish", p) \in Calls
      BY SocketsOfPeers, CallFacts
    <3>2. /\ queue' = [queue EXCEPT ![Pub(x)] = q] /\ at' = at
          /\ UNCHANGED <<seats, published, OnAir>>
      BY <2>1 DEF Publish, room, sfu, OnAir
    <3>3. Grows(queue[Pub(x)], q)
      BY <1>2, <3>1, GrowsByRun
    <3> HIDE DEF q
    <3>4. ASSUME NEW s \in Sockets PROVE AirAt(s)'
      <4>1. queue'[Pub(s)] = IF s = x THEN q ELSE queue[Pub(s)]
        BY <1>1, <3>1, <3>2, KeyFacts DEF ShapeInv, QueueShape
      <4>2. Grows(queue[Pub(s)], queue'[Pub(s)])
        BY <1>2, <3>3, <4>1
      <4> QED  BY <1>1, <1>2, <3>2, <4>2, AirStays DEF IsSeated
    <3> QED  BY <1>3, <3>4
  <2>2. CASE Subscribe(p)
    <3> DEFINE x == SocketOf[p]
               q == Run(queue[Sub(x)], CallOf("subscribe", p))
    <3>1. /\ queue' = [queue EXCEPT ![Sub(x)] = q] /\ at' = at
          /\ UNCHANGED <<seats, published, OnAir>>
      BY <2>2 DEF Subscribe, room, sfu, OnAir
    <3> HIDE DEF q
    <3>2. \A s \in Sockets : queue'[Pub(s)] = queue[Pub(s)]
      BY <1>1, <3>1, KeyFacts DEF ShapeInv, QueueShape
    <3> QED  BY <1>4, <3>1, <3>2 DEF IsSeated
  <2>3. CASE Answer(p)
    <3>1. /\ queue' = queue /\ at' = [at EXCEPT ![Sub(SocketOf[p])] = "call"]
          /\ UNCHANGED <<seats, published, OnAir>>
      BY <2>3 DEF Answer, room, sfu, OnAir
    <3>2. \A s \in Sockets : at'[Pub(s)] = at[Pub(s)]
      BY <1>1, <3>1, KeyFacts DEF ShapeInv, QueueShape
    <3> QED  BY <1>4, <3>1, <3>2 DEF IsSeated
  <2>4. CASE Join(p)
    <3>1. UNCHANGED <<queue, at, published, OnAir>>
      BY <2>4 DEF Join, sfu, OnAir
    <3>2. \A x \in Peers : IsSeated(x) => IsSeated(x)'
      BY <1>1, <2>4, SocketsOfPeers, NoPeerIsNone DEF Join, IsSeated, ShapeInv, RoomShape
    <3> QED  BY <1>4, <3>1, <3>2
  <2>5. CASE SubscribeLimited(p)
    BY <1>4, <2>5 DEF SubscribeLimited, room, sfu, OnAir, IsSeated
  <2> QED  BY <1>5, <2>1, <2>2, <2>3, <2>4, <2>5 DEF ClientStep
<1>6. ASSUME NEW s \in Sockets, Leave(s) \/ CloseSocket(s) \/ Disconnect(s)
      PROVE  AirInv'
  <2>1. UNCHANGED <<at, published, OnAir>>
    BY <1>6 DEF Leave, CloseSocket, Disconnect, sfu, OnAir
  <2>2. CASE Unseat(s) /\ seats[s] # NoPeer
    BY <1>1, <1>3, <2>1, <2>2, AirUnseat
  <2>3. CASE UNCHANGED <<queue, seats>>
    BY <1>4, <2>1, <2>3 DEF IsSeated
  <2> QED  BY <1>6, <2>2, <2>3 DEF Leave, CloseSocket, Disconnect
<1>7. CASE EndRoom
  BY <1>1, <1>3, <1>7, AirEndRoom
<1>8. ASSUME NEW s \in Sockets, PublishStep(s) PROVE AirInv'
  BY <1>1, <1>3, <1>8, AirPublishing
<1>9. ASSUME NEW s \in Sockets, SubscribeStep(s) \/ HoldStep(s) PROVE AirInv'
  BY <1>1, <1>4, <1>9, ShapeReceiving DEF Receiving, OnAir, IsSeated
<1>10. CASE UNCHANGED vars
  BY <1>4, <1>10 DEF vars, room, sfu, OnAir, IsSeated
<1> QED  BY <1>5, <1>6, <1>7, <1>8, <1>9, <1>10 DEF Next

(* Nothing is on the air at first. *)
LEMMA AirInit == Init => AirInv
<1> SUFFICES ASSUME Init PROVE AirInv
  OBVIOUS
<1>1. \A s \in Sockets : queue[Pub(s)].running = Nobody /\ live = {}
  BY KeyFacts DEF Init, Idle
<1> QED  BY <1>1, LockInit DEF AirInv, AirAt, OnAir, Runs

(* publish() and cleanupPeer(): once a publishing session is left alone,    *)
(* the SFU has tracks on it only of a seated peer the room can pull from,   *)
(* tracks that it did not close when asked, or tracks of a push whose reply *)
(* was lost, which it is never asked to close.                              *)
THEOREM NothingStaysOnAir == Spec => []NothingLeftOnAir
<1>1. AirInv => NothingLeftOnAir
  <2> SUFFICES ASSUME AirInv, NEW p \in OnAir,
                      ~(IsSeated(p) /\ p \in published)
               PROVE  queue[Pub(SocketOf[p])] # Idle
    BY DEF NothingLeftOnAir, OnAir
  <2>1. /\ p \in Peers /\ SocketOf[p] \in Sockets /\ AirAt(SocketOf[p])
    BY SocketsOfPeers DEF AirInv, LockInv, ShapeInv, DataShape, OnAir
  <2>2. ClosePub(p) \in Calls
    BY <2>1, CallFacts DEF ClosePub
  <2>3. Idle.running = Nobody /\ Line(Idle) = {}
    BY DEF Idle, Line
  <2>4. \/ Comes(queue[Pub(SocketOf[p])], ClosePub(p))
        \/ Runs(Pub(SocketOf[p]), "publish")
    BY <2>1 DEF AirAt
  <2> QED  BY <2>2, <2>3, <2>4, NobodyIsNoCall DEF Comes, Runs
<1> QED  BY <1>1, AirInit, AirStep, PTL DEF Spec

-----------------------------------------------------------------------------
(* Receiving sessions.                                                      *)

(* The tracks a peer that is here counts as received, or those its pull     *)
(* asked for, are there to be pulled, or will be forgotten in its turn.     *)
ForgetAt(s) ==
    /\ asked[s] # {} =>
          Runs(Sub(s), "subscribe") /\ at[Sub(s)] \in {"call", "retry"}
    /\ seats[s] # NoPeer =>
          /\ \A t \in pulled[seats[s]] : seats[t] \notin published =>
                Comes(queue[Sub(s)], Drop(seats[s], t))
          /\ queue[Sub(s)].running # Nobody /\ queue[Sub(s)].running.peer = seats[s] =>
                \A t \in asked[s] : seats[t] \notin published =>
                   Drop(seats[s], t) \in Line(queue[Sub(s)])

ForgetInv ==
    /\ LockInv
    /\ published \subseteq past
    /\ \A p \in Peers : pulled[p] # {} => p \in past
    /\ \A s \in Sockets : ForgetAt(s)

(* ForgetAt survives when lines grow and nobody stops publishing. *)
LEMMA ForgetStays ==
    ASSUME ShapeInv, ShapeInv', NEW s \in Sockets, ForgetAt(s),
           Grows(queue[Sub(s)], queue'[Sub(s)]), asked'[s] = asked[s],
           asked[s] # {} => at'[Sub(s)] \in {"call", "retry"},
           seats'[s] = seats[s],
           seats[s] # NoPeer => pulled'[seats[s]] = pulled[seats[s]],
           \A t \in Sockets : seats[t] \in published => seats'[t] \in published'
    PROVE  ForgetAt(s)'
<1>1. /\ seats[s] # NoPeer => seats[s] \in Peers /\ pulled[seats[s]] \subseteq Sockets
      /\ asked[s] \subseteq Sockets
  BY DEF ShapeInv, RoomShape, DataShape
<1>2. ASSUME seats[s] # NoPeer, NEW t \in Sockets
      PROVE  /\ Comes(queue[Sub(s)], Drop(seats[s], t)) => Comes(queue'[Sub(s)], Drop(seats[s], t))
             /\ Drop(seats[s], t) \in Line(queue[Sub(s)]) => Drop(seats[s], t) \in Line(queue'[Sub(s)])
  <2>1. Drop(seats[s], t) \in Calls
    BY <1>1, <1>2, CallFacts
  <2> QED  BY <2>1, StillComes DEF Grows
<1>3. asked'[s] # {} =>
         Runs(Sub(s), "subscribe")' /\ at'[Sub(s)] \in {"call", "retry"}
  BY DEF ForgetAt, Grows, Runs
<1>4. ASSUME seats[s] # NoPeer, NEW t \in pulled[seats[s]], seats'[t] \notin published'
      PROVE  Comes(queue'[Sub(s)], Drop(seats[s], t))
  BY <1>1, <1>2, <1>4 DEF ForgetAt
<1>5. ASSUME seats[s] # NoPeer, queue'[Sub(s)].running # Nobody,
             queue'[Sub(s)].running.peer = seats[s],
             NEW t \in asked[s], seats'[t] \notin published'
      PROVE  Drop(seats[s], t) \in Line(queue'[Sub(s)])
  <2>1. queue[Sub(s)].running # Nobody
    BY DEF ForgetAt, Runs
  <2> QED  BY <1>1, <1>2, <1>5, <2>1 DEF ForgetAt, Grows
<1> QED  BY <1>3, <1>4, <1>5 DEF ForgetAt

(* Nobody sits on the socket: only the pull of a past peer is left of it.   *)
LEMMA ForgetEmpty ==
    ASSUME NEW s \in Sockets, seats'[s] = NoPeer,
           asked'[s] # {} =>
              Runs(Sub(s), "subscribe")' /\ at'[Sub(s)] \in {"call", "retry"}
    PROVE  ForgetAt(s)'
BY DEF ForgetAt

(* An empty seat has nothing to forget, and a hold had asked for nothing. *)
LEMMA ForgetVacated ==
    ASSUME ShapeInv, NEW s \in Sockets, HeldAt(s), ForgetAt(s), seats'[s] = NoPeer,
           asked'[s] = asked[s], at'[Sub(s)] = at[Sub(s)], NEW c \in Calls,
           queue'[Sub(s)] = Run(IF open[s] = seats[s] THEN Finish(queue[Sub(s)])
                                                     ELSE queue[Sub(s)], c),
           seats[s] # NoPeer
    PROVE  ForgetAt(s)'
<1>1. WellFormed(queue[Sub(s)]) /\ seats[s] \in Peers
  BY KeyFacts DEF ShapeInv, QueueShape, AtPlace, RoomShape
<1>2. CASE open[s] = seats[s]
  <2>1. asked[s] = {}
    BY <1>1, <1>2 DEF HeldAt, ForgetAt, Runs
  <2> QED  BY <2>1, ForgetEmpty
<1>3. CASE open[s] # seats[s]
  <2>1. Runs(Sub(s), "subscribe") => Runs(Sub(s), "subscribe")'
    BY <1>1, <1>3, RunFacts DEF Runs
  <2> QED  BY <2>1, ForgetEmpty DEF ForgetAt
<1> QED  BY <1>2, <1>3

(* Every receiver is told to forget the leaver, behind its own pull. *)
LEMMA ForgetUnseat ==
    ASSUME ForgetInv, ShapeInv', NEW s \in Sockets, seats[s] # NoPeer, Unseat(s),
           UNCHANGED <<at, asked, pulled, published>>, NEW t \in Sockets
    PROVE  ForgetAt(t)'
<1>1. /\ ShapeInv /\ ForgetAt(t) /\ HeldAt(t) /\ seats \in [Sockets -> Peers \cup {NoPeer}]
      /\ seats' = [seats EXCEPT ![s] = NoPeer]
      /\ WellFormed(queue[Sub(t)]) /\ seats[s] \in Peers
  BY UnseatFacts, KeyFacts
     DEF ForgetInv, LockInv, LockAt, ShapeInv, RoomShape, QueueShape, AtPlace
<1>2. CASE t = s
  <2>1. CallOf("closeSub", seats[s]) \in Calls
    BY <1>1, CallFacts
  <2> QED  BY <1>1, <1>2, <2>1, UnseatFacts, ForgetVacated
<1>3. CASE t # s /\ seats[t] = NoPeer
  <2>1. queue'[Sub(t)] = queue[Sub(t)] /\ seats'[t] = NoPeer
    BY <1>1, <1>3, UnseatFacts
  <2> QED  BY <1>1, <2>1, ForgetEmpty DEF ForgetAt, Runs
<1>4. CASE t # s /\ seats[t] # NoPeer
  <2> DEFINE d == Drop(seats[t], s)
  <2>1. /\ queue'[Sub(t)] = Run(queue[Sub(t)], d) /\ seats'[t] = seats[t]
        /\ seats[t] \in Peers /\ d \in Calls
        /\ pulled[seats[t]] \subseteq Sockets /\ asked[t] \subseteq Sockets
    BY <1>1, <1>4, UnseatFacts, CallFacts DEF ShapeInv, DataShape
  <2>2. /\ Grows(queue[Sub(t)], queue'[Sub(t)]) /\ Comes(queue'[Sub(t)], d)
        /\ queue[Sub(t)].running # Nobody => d \in Line(queue'[Sub(t)])
    BY <1>1, <2>1, GrowsByRun, RunFacts
  <2>3. asked'[t] # {} =>
           Runs(Sub(t), "subscribe")' /\ at'[Sub(t)] \in {"call", "retry"}
    BY <1>1, <2>2 DEF ForgetAt, Grows, Runs
  <2>4. ASSUME NEW x \in pulled[seats[t]], seats'[x] \notin published
        PROVE  Comes(queue'[Sub(t)], Drop(seats[t], x))
    <3>1. CASE x = s
      BY <2>2, <3>1
    <3>2. CASE x # s
      <4>1. Comes(queue[Sub(t)], Drop(seats[t], x)) /\ Drop(seats[t], x) \in Calls
        BY <1>1, <1>4, <2>1, <2>4, <3>2, CallFacts DEF ForgetAt
      <4> QED  BY <2>2, <4>1, StillComes
    <3> QED  BY <3>1, <3>2
  <2>5. ASSUME queue'[Sub(t)].running # Nobody, queue'[Sub(t)].running.peer = seats[t],
               NEW x \in asked[t], seats'[x] \notin published
        PROVE  Drop(seats[t], x) \in Line(queue'[Sub(t)])
    <3>1. queue[Sub(t)].running # Nobody
      BY <1>1 DEF ForgetAt, Runs
    <3>2. CASE x = s
      BY <2>2, <3>1, <3>2
    <3>3. CASE x # s
      BY <1>1, <1>4, <2>1, <2>2, <2>5, <3>1, <3>3 DEF ForgetAt, Grows
    <3> QED  BY <3>2, <3>3
  <2> QED  BY <2>1, <2>3, <2>4, <2>5 DEF ForgetAt
<1> QED  BY <1>2, <1>3, <1>4

(* The end of a room empties every seat. *)
LEMMA ForgetEndRoom ==
    ASSUME ForgetInv, EndRoom, NEW s \in Sockets
    PROVE  ForgetAt(s)'
<1>1. /\ ShapeInv /\ ForgetAt(s) /\ HeldAt(s) /\ Sub(s) \in Keys /\ Sub(s)[2] = s
      /\ UNCHANGED <<at, asked>> /\ seats'[s] = NoPeer
  BY KeyFacts DEF ForgetInv, LockInv, LockAt, EndRoom
<1>2. CASE seats[s] = NoPeer
  <2>1. queue'[Sub(s)] = queue[Sub(s)]
    BY <1>1, <1>2, NoPeerIsNone DEF EndRoom, IsSeated
  <2> QED  BY <1>1, <2>1, ForgetEmpty DEF ForgetAt, Runs
<1>3. CASE seats[s] # NoPeer
  <2>1. seats[s] \in Peers /\ SocketOf[seats[s]] = s
    BY <1>1, <1>3 DEF ShapeInv, RoomShape
  <2>2. queue'[Sub(s)] = ClosedOwn(Sub(s), seats[s])
    BY <1>1, <2>1 DEF EndRoom, IsSeated
  <2>3. queue'[Sub(s)] = Run(IF open[s] = seats[s] THEN Finish(queue[Sub(s)])
                                                  ELSE queue[Sub(s)],
                             CallOf("closeSub", seats[s]))
    BY <2>1, <2>2, KeyFacts DEF ClosedOwn
  <2>4. CallOf("closeSub", seats[s]) \in Calls
    BY <2>1, CallFacts
  <2> QED  BY <1>1, <1>3, <2>3, <2>4, ForgetVacated
<1> QED  BY <1>2, <1>3

(* A pull counts what it asked for, and a drop what it was queued for. *)
LEMMA ForgetReceiving ==
    ASSUME ForgetInv, NEW s \in Sockets, Receiving(s), SubscribeStep(s) \/ HoldStep(s)
    PROVE  ForgetAt(s)'
<1> DEFINE k == Sub(s)
           p == queue[k].running.peer
           Ends == Hand(k, Finish(queue[k]))
<1>1. /\ ShapeInv /\ ShapeInv' /\ ForgetAt(s) /\ k \in Keys /\ k[2] = s
      /\ AtPlace(queue[k], s, past) /\ WellFormed(queue[k])
      /\ queue \in [Keys -> QueueType] /\ at \in [Keys -> Stages]
      /\ asked \in [Sockets -> SUBSET Sockets] /\ pulled \in [Peers -> SUBSET Sockets]
  BY KeyFacts DEF ForgetInv, LockInv, Receiving, ShapeInv, QueueShape, AtPlace, DataShape
<1>2. seats' = seats /\ published' = published
  BY DEF Receiving
<1>3. queue[k].running # Nobody => p \in Peers /\ SocketOf[p] = s
  BY <1>1, RunningFacts
<1>4. seats[s] # NoPeer => seats[s] \in Peers /\ pulled[seats[s]] \subseteq Sockets
  BY <1>1 DEF ShapeInv, RoomShape
(* Whoever takes the key over, the line behind it stands.                   *)
<1>5. ASSUME Line(queue[k]) \subseteq Line(queue'[k]) \cup {queue'[k].running},
             asked'[s] = {},
             seats[s] # NoPeer => \A t \in pulled'[seats[s]] : seats[t] \notin published =>
                Drop(seats[s], t) \in Line(queue[k])
      PROVE  ForgetAt(s)'
  BY <1>2, <1>5 DEF ForgetAt, Comes
<1>6. ASSUME queue[k].running # Nobody, queue[k].running.what # "drop", seats[s] # NoPeer,
             NEW t \in pulled[seats[s]], seats[t] \notin published
      PROVE  Drop(seats[s], t) \in Line(queue[k])
  <2>1. Drop(seats[s], t).what = "drop"
    BY <1>4, <1>6, CallFacts
  <2> QED  BY <1>1, <1>6, <2>1 DEF ForgetAt, Comes
<1>7. ASSUME Ends, asked'[s] = {}, pulled' = pulled,
             queue[k].running # Nobody, queue[k].running.what # "drop"
      PROVE  ForgetAt(s)'
  <2>1. Line(queue[k]) \subseteq Line(queue'[k]) \cup {queue'[k].running}
    BY <1>1, <1>7, FinishFacts DEF Hand
  <2> QED  BY <1>5, <1>6, <1>7, <2>1
<1>8. ASSUME queue' = queue, asked'[s] = asked[s], pulled' = pulled,
             asked[s] # {} => at'[k] \in {"call", "retry"}
      PROVE  ForgetAt(s)'
  <2>1. Grows(queue[k], queue'[k])
    BY <1>1, <1>8, GrowsNot
  <2> QED  BY <1>1, <1>2, <1>8, <2>1, ForgetStays
<1>9. ASSUME Runs(k, "subscribe"), Pull(p, s), asked[s] = {}, pulled' = pulled
      PROVE  ForgetAt(s)'
  <2>1. \/ Ends /\ asked' = asked
        \/ /\ queue' = queue /\ at' = [at EXCEPT ![k] = "call"]
           /\ asked' = [asked EXCEPT ![s] = MissingTracks(p)]
    BY <1>1, <1>3, <1>9, PullFacts DEF Runs
  <2>2. CASE Ends /\ asked' = asked
    BY <1>7, <1>9, <2>2 DEF Runs
  <2>3. CASE /\ queue' = queue /\ at' = [at EXCEPT ![k] = "call"]
             /\ asked' = [asked EXCEPT ![s] = MissingTracks(p)]
    <3>1. at'[k] = "call" /\ asked'[s] = MissingTracks(p) /\ Runs(k, "subscribe")'
      BY <1>1, <1>9, <2>3 DEF Runs
    <3>2. \A t \in asked'[s] : seats[t] \in published
      BY <3>1 DEF MissingTracks
    <3> QED  BY <1>1, <1>2, <1>9, <2>3, <3>1, <3>2 DEF ForgetAt
  <2> QED  BY <2>1, <2>2, <2>3
<1>10. ~Runs(k, "subscribe") \/ at[k] \notin {"call", "retry"} => asked[s] = {}
  BY <1>1 DEF ForgetAt
<1>11. CASE SubscribeStarts(s)
  <2>1. Runs(k, "subscribe") /\ asked[s] = {} /\ pulled' = pulled
    BY <1>10, <1>11 DEF SubscribeStarts
  <2>2. CASE Pull(p, s)
    BY <1>9, <2>1, <2>2
  <2>3. CASE Ends /\ asked' = asked
    BY <1>7, <2>1, <2>3 DEF Runs
  <2>4. CASE queue' = queue /\ asked' = asked
    BY <1>8, <2>1, <2>4
  <2> QED  BY <1>11, <2>2, <2>3, <2>4 DEF SubscribeStarts, ReplyTo
<1>12. CASE SessionOpens(s)
  BY <1>9, <1>10, <1>12 DEF SessionOpens
<1>13. CASE \/ SubscribeFails(s) \/ PullBreaks(s) \/ PullComesEmpty(s)
            \/ PullLosesBody(s)
  <2>1. Ends /\ asked'[s] = {} /\ pulled' = pulled /\ Runs(k, "subscribe")
    BY <1>1, <1>13 DEF SubscribeFails, PullBreaks, PullComesEmpty, PullLosesBody,
                       IsPulling, ReplyTo
  <2> QED  BY <1>7, <2>1 DEF Runs
<1>14. CASE PullAgain(s)
  <2>1. PICK again \in SUBSET asked[s] : asked' = [asked EXCEPT ![s] = again]
    BY <1>14 DEF PullAgain
  <2>2. /\ queue' = queue /\ pulled' = pulled /\ at'[k] = "retry"
        /\ asked'[s] \subseteq asked[s] /\ Runs(k, "subscribe")
    BY <1>1, <1>14, <2>1 DEF PullAgain, IsPulling
  <2> QED  BY <1>1, <1>2, <2>2 DEF ForgetAt, Runs
<1>15. CASE PullArrives(s)
  <2>1. PICK got \in SUBSET asked[s] : pulled' = [pulled EXCEPT ![p] = @ \cup got]
    BY <1>15 DEF PullArrives
  <2>2. asked'[s] = {} /\ Runs(k, "subscribe") /\ queue[k].running # Nobody
    BY <1>1, <1>15 DEF PullArrives, IsPulling, Runs
  <2>3. ASSUME seats[s] # NoPeer, NEW t \in pulled'[seats[s]], seats[t] \notin published
        PROVE  Drop(seats[s], t) \in Line(queue[k])
    <3>1. t \in pulled[seats[s]] \/ (p = seats[s] /\ t \in asked[s])
      BY <1>1, <1>4, <2>1, <2>3
    <3>2. CASE t \in pulled[seats[s]]
      BY <1>6, <2>2, <2>3, <3>2 DEF Runs
    <3>3. CASE p = seats[s] /\ t \in asked[s]
      BY <1>1, <2>2, <2>3, <3>3 DEF ForgetAt
    <3> QED  BY <3>1, <3>2, <3>3
  <2>4. Line(queue[k]) \subseteq Line(queue'[k]) \cup {queue'[k].running}
    <3>1. CASE ~IsSeated(p)
      <4>1. Ends
        BY <1>15, <3>1 DEF PullArrives, ReplyTo
      <4> QED  BY <1>1, <4>1, FinishFacts DEF Hand
    <3>2. CASE IsSeated(p)
      <4>1. /\ CallOf("hold", p) \in Calls /\ CallOf("hold", p).peer = p
            /\ p \in past
        BY <1>1, <1>3, <2>2, CallFacts, RunningFacts
      <4>2. Hand(k, Finish(Hold(queue[k], CallOf("hold", p))))
        BY <1>15, <3>2 DEF PullArrives, Offer
      <4>3. queue'[k] = Finish(Hold(queue[k], CallOf("hold", p)))
        BY <1>1, <4>2 DEF Hand
      <4>4. Line(Finish(Hold(queue[k], CallOf("hold", p)))) = Line(queue[k])
        BY <1>1, <1>3, <2>2, <4>1, PlaceHold
      <4> QED  BY <4>3, <4>4
    <3> QED  BY <3>1, <3>2
  <2> QED  BY <1>5, <2>2, <2>3, <2>4
<1>16. CASE CloseReceived(s)
  BY <1>7, <1>10, <1>16 DEF CloseReceived, Runs
<1>17. CASE DropLeaver(s)
  <2>1. /\ Runs(k, "drop") /\ Ends /\ asked' = asked /\ asked[s] = {}
        /\ pulled' = [pulled EXCEPT ![p] = @ \ {queue[k].running.leaver}]
    BY <1>10, <1>17 DEF DropLeaver, Runs
  <2>2. Line(queue[k]) \subseteq Line(queue'[k]) \cup {queue'[k].running}
    BY <1>1, <2>1, FinishFacts DEF Hand
  <2>3. ASSUME seats[s] # NoPeer, NEW t \in pulled'[seats[s]], seats[t] \notin published
        PROVE  Drop(seats[s], t) \in Line(queue[k])
    <3>1. t \in pulled[seats[s]] /\ t \in Sockets
      BY <1>1, <1>4, <2>1, <2>3
    <3>2. p = seats[s] => t # queue[k].running.leaver
      BY <1>1, <1>4, <2>1, <2>3
    <3>3. queue[k].running # Drop(seats[s], t)
      BY <1>4, <2>3, <3>1, <3>2, CallFacts
    <3> QED  BY <1>1, <2>3, <3>1, <3>3 DEF ForgetAt, Comes
  <2> QED  BY <1>5, <2>1, <2>2, <2>3
<1>18. CASE AnswerAccepted(s) \/ AnswerRefused(s) \/ AnswerTimesOut(s)
  <2>1. Ends /\ asked' = asked /\ pulled' = pulled /\ Runs(k, "hold")
    BY <1>18 DEF AnswerAccepted, AnswerRefused, AnswerTimesOut, ReplyTo
  <2>2. asked[s] = {}
    BY <1>10, <2>1 DEF Runs
  <2> QED  BY <1>7, <2>1, <2>2 DEF Runs
<1> QED  BY <1>11, <1>12, <1>13, <1>14, <1>15, <1>16, <1>17, <1>18
         DEF SubscribeStep, HoldStep

(* ForgetInv is inductive. *)
LEMMA ForgetStep == ForgetInv /\ [Next]_vars => ForgetInv'
<1> SUFFICES ASSUME ForgetInv, [Next]_vars PROVE ForgetInv'
  OBVIOUS
<1>1. LockInv' /\ ShapeInv' /\ LockInv /\ ShapeInv
  BY LockStep DEF ForgetInv, LockInv
<1>2. \A s \in Sockets : /\ ForgetAt(s) /\ WellFormed(queue[Sub(s)])
                         /\ Grows(queue[Sub(s)], queue[Sub(s)])
                         /\ seats[s] # NoPeer => seats[s] \in Peers
  BY <1>1, KeyFacts, GrowsNot DEF ForgetInv, ShapeInv, QueueShape, AtPlace, RoomShape
<1>3. published \subseteq past /\ \A p \in Peers : pulled[p] # {} => p \in past
  BY DEF ForgetInv
<1>4. ASSUME past \subseteq past', published' = published, pulled' = pulled,
             \A s \in Sockets : ForgetAt(s)'
      PROVE  ForgetInv'
  BY <1>1, <1>3, <1>4 DEF ForgetInv
<1>5. ASSUME \A s \in Sockets : UNCHANGED <<queue[Sub(s)], at[Sub(s)], asked[s]>>,
             UNCHANGED <<seats, pulled>>, published \subseteq published', NEW s \in Sockets
      PROVE  ForgetAt(s)'
  BY <1>1, <1>2, <1>5, ForgetStays DEF ForgetAt
<1>6. ASSUME NEW p \in Peers, ClientStep(p) PROVE ForgetInv'
  <2>1. CASE Publish(p)
    <3> DEFINE x == SocketOf[p]
               q == Run(queue[Pub(x)], CallOf("publish", p))
    <3>1. /\ queue' = [queue EXCEPT ![Pub(x)] = q] /\ at' = at
          /\ UNCHANGED <<seats, past, published, pulled, asked>>
      BY <2>1 DEF Publish, room, sfu
    <3> HIDE DEF q
    <3>2. \A s \in Sockets : queue'[Sub(s)] = queue[Sub(s)]
      BY <1>1, <3>1, KeyFacts DEF ShapeInv, QueueShape
    <3> QED  BY <1>4, <1>5, <3>1, <3>2
  <2>2. CASE Subscribe(p)
    <3> DEFINE x == SocketOf[p]
               q == Run(queue[Sub(x)], CallOf("subscribe", p))
    <3>1. x \in Sockets /\ CallOf("subscribe", p) \in Calls
      BY SocketsOfPeers, CallFacts
    <3>2. /\ queue' = [queue EXCEPT ![Sub(x)] = q] /\ at' = at
          /\ UNCHANGED <<seats, past, published, pulled, asked>>
      BY <2>2 DEF Subscribe, room, sfu
    <3>3. Grows(queue[Sub(x)], q)
      BY <1>2, <3>1, GrowsByRun
    <3> HIDE DEF q
    <3>4. ASSUME NEW s \in Sockets PROVE ForgetAt(s)'
      <4>1. queue'[Sub(s)] = IF s = x THEN q ELSE queue[Sub(s)]
        BY <1>1, <3>1, <3>2, KeyFacts DEF ShapeInv, QueueShape
      <4>2. Grows(queue[Sub(s)], queue'[Sub(s)])
        BY <1>2, <3>3, <4>1
      <4> QED  BY <1>1, <1>2, <3>2, <4>2, ForgetStays DEF ForgetAt
    <3> QED  BY <1>4, <3>2, <3>4
  <2>3. CASE Answer(p)
    <3> DEFINE x == SocketOf[p]
    <3>1. /\ queue' = queue /\ at' = [at EXCEPT ![Sub(x)] = "call"]
          /\ open[x] = p /\ x \in Sockets
          /\ UNCHANGED <<seats, past, published, pulled, asked>>
      BY <2>3, SocketsOfPeers DEF Answer, room, sfu
    <3>2. Runs(Sub(x), "hold") /\ HeldAt(x)
      BY <1>1, <3>1 DEF LockInv, LockAt, HeldAt
    <3>3. asked[x] = {}
      BY <1>2, <3>1, <3>2 DEF ForgetAt, Runs
    <3>4. ASSUME NEW s \in Sockets PROVE ForgetAt(s)'
      <4>1. asked[s] # {} => at'[Sub(s)] \in {"call", "retry"}
        BY <1>1, <1>2, <3>1, <3>3, KeyFacts DEF ForgetAt, ShapeInv, QueueShape
      <4> QED  BY <1>1, <1>2, <3>1, <4>1, ForgetStays
    <3> QED  BY <1>4, <3>1, <3>4
  <2>4. CASE Join(p)
    <3> DEFINE x == SocketOf[p]
    <3>1. /\ UNCHANGED <<queue, at, asked, published, pulled>>
          /\ past' = past \cup {p} /\ seats' = [seats EXCEPT ![x] = p]
          /\ seats[x] = NoPeer /\ p \notin past /\ x \in Sockets
          /\ seats \in [Sockets -> Peers \cup {NoPeer}]
      BY <1>1, <2>4, SocketsOfPeers DEF Join, ShapeInv, RoomShape
    <3>2. /\ pulled[p] = {} /\ p \notin published /\ NoPeer \notin published
      BY <1>1, <1>3, <3>1, NoPeerIsNone DEF ShapeInv, DataShape
    <3>3. ASSUME NEW s \in Sockets PROVE ForgetAt(s)'
      <4>1. CASE s # x
        <5>1. /\ seats'[s] = seats[s]
              /\ \A t \in Sockets : seats[t] \in published => seats'[t] \in published'
          BY <3>1, <3>2, <4>1
        <5> QED  BY <1>1, <1>2, <3>1, <5>1, ForgetStays DEF ForgetAt
      <4>2. CASE s = x
        <5>1. seats'[s] = p /\ pulled'[p] = {}
          BY <3>1, <3>2, <4>2
        <5>2. queue[Sub(s)].running # Nobody => queue[Sub(s)].running.peer # p
          BY <1>1, <3>1, KeyFacts, RunningFacts
        <5> QED  BY <1>2, <3>1, <5>1, <5>2 DEF ForgetAt, Runs
      <4> QED  BY <4>1, <4>2
    <3> QED  BY <1>4, <3>1, <3>3
  <2>5. CASE SubscribeLimited(p)
    BY <1>4, <1>5, <2>5 DEF SubscribeLimited, room
  <2> QED  BY <1>6, <2>1, <2>2, <2>3, <2>4, <2>5 DEF ClientStep
<1>7. ASSUME NEW s \in Sockets, Leave(s) \/ CloseSocket(s) \/ Disconnect(s)
      PROVE  ForgetInv'
  <2>1. UNCHANGED <<past, at, asked, pulled, published>>
    BY <1>7 DEF Leave, CloseSocket, Disconnect
  <2>2. CASE Unseat(s) /\ seats[s] # NoPeer
    BY <1>1, <1>4, <2>1, <2>2, ForgetUnseat
  <2>3. CASE UNCHANGED <<queue, seats>>
    BY <1>4, <1>5, <2>1, <2>3
  <2> QED  BY <1>7, <2>2, <2>3 DEF Leave, CloseSocket, Disconnect
<1>8. CASE EndRoom
  BY <1>4, <1>8, ForgetEndRoom DEF EndRoom
<1>9. ASSUME NEW s \in Sockets, PublishStep(s) PROVE ForgetInv'
  <2>1. /\ UNCHANGED <<seats, past, asked, pulled>>
        /\ \A t \in Sockets : UNCHANGED <<queue[Sub(t)], at[Sub(t)]>>
    BY <1>1, <1>9, ShapePublishing DEF room
  <2>2. published \subseteq published' /\ published' \subseteq past
    <3>1. Runs(Pub(s), "publish") => queue[Pub(s)].running.peer \in past
      BY <1>1, KeyFacts, RunningFacts DEF Runs
    <3> QED  BY <1>3, <1>9, <3>1
             DEF PublishStep, PublishStarts, PublishAccepted, PublishPartly,
                 PublishFails, PublishUndone, ClosePublished, Stored
  <2>3. \A t \in Sockets : ForgetAt(t)'
    BY <1>5, <2>1, <2>2
  <2> QED  BY <1>1, <1>3, <2>1, <2>2, <2>3 DEF ForgetInv
<1>10. ASSUME NEW s \in Sockets, SubscribeStep(s) \/ HoldStep(s) PROVE ForgetInv'
  <2> DEFINE p == queue[Sub(s)].running.peer
  <2>1. Receiving(s)
    BY <1>1, <1>10, ShapeReceiving
  <2>2. queue[Sub(s)].running # Nobody
    BY <1>10, SomebodyRuns
  <2>3. p \in Peers /\ SocketOf[p] = s /\ p \in past
    BY <1>1, <2>2, KeyFacts, RunningFacts
  <2>4. \A x \in Peers \ {p} : pulled'[x] = pulled[x]
    <3>1. pulled \in [Peers -> SUBSET Sockets]
      BY <1>1 DEF ShapeInv, DataShape
    <3>2. CASE PullArrives(s)
      <4>1. \E got \in SUBSET asked[s] : pulled' = [pulled EXCEPT ![p] = @ \cup got]
        BY <3>2 DEF PullArrives
      <4> QED  BY <2>3, <3>1, <4>1
    <3>3. CASE DropLeaver(s)
      <4>1. pulled' = [pulled EXCEPT ![p] = @ \ {queue[Sub(s)].running.leaver}]
        BY <3>3 DEF DropLeaver
      <4> QED  BY <2>3, <3>1, <4>1
    <3>4. CASE ~PullArrives(s) /\ ~DropLeaver(s)
      <4>1. pulled' = pulled
        BY <1>10, <3>4
           DEF SubscribeStep, HoldStep, SubscribeStarts, SessionOpens, SubscribeFails,
               PullBreaks, PullAgain, PullComesEmpty, PullLosesBody, CloseReceived, AnswerAccepted,
               AnswerRefused, AnswerTimesOut
      <4> QED  BY <4>1
    <3> QED  BY <3>2, <3>3, <3>4
  <2>5. ASSUME NEW t \in Sockets PROVE ForgetAt(t)'
    <3>1. CASE t = s
      BY <1>10, <2>1, <3>1, ForgetReceiving
    <3>2. CASE t # s
      <4>1. /\ UNCHANGED <<seats, published>>
            /\ UNCHANGED <<queue[Sub(t)], at[Sub(t)], asked[t]>>
        BY <2>1, <3>2 DEF Receiving
      <4>2. seats[t] # NoPeer => pulled'[seats[t]] = pulled[seats[t]]
        BY <1>1, <1>2, <2>3, <2>4, <3>2 DEF ShapeInv, RoomShape
      <4> QED  BY <1>1, <1>2, <4>1, <4>2, ForgetStays DEF ForgetAt
    <3> QED  BY <3>1, <3>2
  <2>6. published' = published /\ past' = past
    BY <2>1 DEF Receiving
  <2> QED  BY <1>1, <1>3, <2>3, <2>4, <2>5, <2>6 DEF ForgetInv
<1>11. CASE UNCHANGED vars
  BY <1>4, <1>5, <1>11 DEF vars, room
<1> QED  BY <1>6, <1>7, <1>8, <1>9, <1>10, <1>11 DEF Next

(* Nothing was pulled at first. *)
LEMMA ForgetInit == Init => ForgetInv
BY LockInit DEF Init, ForgetInv, ForgetAt

(* cleanupPeer(): once a receiving session is left alone, its peer counts   *)
(* on no tracks of anyone who is not there to be pulled from.               *)
THEOREM LeaversAlwaysForgotten == Spec => []LeaversAreForgotten
<1>1. ForgetInv => LeaversAreForgotten
  <2> SUFFICES ASSUME ForgetInv, NEW p \in Peers, NEW t \in pulled[p],
                      IsSeated(p), seats[t] \notin published
               PROVE  queue[Sub(SocketOf[p])] # Idle
    BY DEF LeaversAreForgotten
  <2>1. /\ SocketOf[p] \in Sockets /\ seats[SocketOf[p]] = p /\ p # NoPeer
        /\ pulled[p] \subseteq Sockets
    BY SocketsOfPeers, NoPeerIsNone DEF IsSeated, ForgetInv, LockInv, ShapeInv, DataShape
  <2>2. Comes(queue[Sub(SocketOf[p])], Drop(p, t))
    BY <2>1 DEF ForgetInv, ForgetAt
  <2>3. Drop(p, t) \in Calls
    BY <2>1, CallFacts
  <2>4. Idle.running = Nobody /\ Line(Idle) = {}
    BY DEF Idle, Line
  <2> QED  BY <2>2, <2>3, <2>4, NobodyIsNoCall DEF Comes
<1> QED  BY <1>1, ForgetInit, ForgetStep, PTL DEF Spec

-----------------------------------------------------------------------------
(* Tracks that a peer lacks.                                                *)

Ask(p) == CallOf("subscribe", p)

(* Behind every c of the queue there is a d. *)
Follows(q, c, d) ==
    /\ q.running = c => d \in Line(q)
    /\ \A i \in DOMAIN q.waiting :
          q.waiting[i] = c => \E j \in DOMAIN q.waiting : i < j /\ q.waiting[j] = d

(* A line that moves on keeps its order. *)
LEMMA FollowsAdvance ==
    ASSUME NEW q \in QueueType, NEW c \in Calls, NEW d \in Calls, Follows(q, c, d)
    PROVE  Follows(Advance(q), c, d)
<1>1. CASE q.running # Nobody \/ q.waiting = <<>>
  BY <1>1 DEF Advance
<1>2. CASE q.running = Nobody /\ q.waiting # <<>>
  <2>1. PICK w \in Seq(Calls) : w = q.waiting /\ w # <<>>
    BY <1>2, QueueFields
  <2>2. /\ Head(w) = w[1] /\ Head(w) \in Calls /\ Tail(w) \in Seq(Calls)
        /\ Len(Tail(w)) = Len(w) - 1 /\ Len(w) \in Nat \ {0}
        /\ \A i \in 1 .. Len(Tail(w)) : Tail(w)[i] = w[i + 1]
        /\ DOMAIN w = 1 .. Len(w) /\ DOMAIN Tail(w) = 1 .. Len(Tail(w))
    BY <2>1, HeadTailProperties, LenProperties, EmptySeq
  <2>3. Advance(q).running = w[1] /\ Advance(q).waiting = Tail(w)
    BY <1>2, <2>1, <2>2, QueueFields DEF Advance
  <2>4. ASSUME NEW i \in 1 .. Len(w), w[i] = c
        PROVE  \E j \in 1 .. Len(Tail(w)) : i - 1 < j /\ Tail(w)[j] = d
    <3>1. PICK j \in 1 .. Len(w) : i < j /\ w[j] = d
      BY <2>1, <2>2, <2>4 DEF Follows
    <3>2. j - 1 \in 1 .. Len(Tail(w)) /\ i - 1 < j - 1 /\ Tail(w)[j - 1] = d
      BY <2>2, <3>1
    <3> QED  BY <3>2
  <2>5. ASSUME w[1] = c PROVE d \in Line(Advance(q))
    <3>1. 1 \in 1 .. Len(w)
      BY <2>2
    <3>2. \E j \in 1 .. Len(Tail(w)) : Tail(w)[j] = d
      BY <2>4, <2>5, <3>1
    <3> QED  BY <2>2, <2>3, <3>2 DEF Line
  <2>6. ASSUME NEW i \in 1 .. Len(Tail(w)), Tail(w)[i] = c
        PROVE  \E j \in 1 .. Len(Tail(w)) : i < j /\ Tail(w)[j] = d
    <3>1. i + 1 \in 1 .. Len(w) /\ w[i + 1] = c /\ (i + 1) - 1 = i
      BY <2>2, <2>6
    <3>2. \E j \in 1 .. Len(Tail(w)) : (i + 1) - 1 < j /\ Tail(w)[j] = d
      BY <2>4, <3>1
    <3> QED  BY <3>1, <3>2
  <2> QED  BY <2>2, <2>3, <2>5, <2>6 DEF Follows
<1> QED  BY <1>1, <1>2

(* Another call may join the line, and a d that joins it is behind every c. *)
LEMMA FollowsRun ==
    ASSUME NEW q, WellFormed(q), NEW c \in Calls, NEW d \in Calls, NEW e \in Calls,
           c # e, e = d \/ Follows(q, c, d)
    PROVE  Follows(Run(q, e), c, d)
<1>1. PICK w \in Seq(Calls), x \in Calls \cup {Nobody} :
          w = q.waiting /\ x = q.running /\ q = [running |-> x, waiting |-> w]
  BY QueueFields DEF WellFormed
<1>2. /\ Append(w, e) \in Seq(Calls)
      /\ Len(w) \in Nat
      /\ \A i \in 1 .. Len(w) : Append(w, e)[i] = w[i]
      /\ Append(w, e)[Len(w) + 1] = e
      /\ DOMAIN w = 1 .. Len(w)
      /\ DOMAIN Append(w, e) = 1 .. Len(w) + 1
  <2>1. /\ Append(w, e) \in Seq(Calls)
        /\ Len(Append(w, e)) = Len(w) + 1
        /\ \A i \in 1 .. Len(w) : Append(w, e)[i] = w[i]
        /\ Append(w, e)[Len(w) + 1] = e
    BY AppendProperties
  <2> QED  BY <2>1, LenProperties
<1> DEFINE r == [running |-> x, waiting |-> Append(w, e)]
<1>3. r \in QueueType /\ r.running = x /\ r.waiting = Append(w, e)
  BY <1>2, QueueFields
<1>4. Run(q, e) = Advance(r)
  BY <1>1 DEF Run
<1> HIDE DEF r
<1>5. ASSUME NEW i \in 1 .. Len(w) + 1, Append(w, e)[i] = c
      PROVE  \E j \in 1 .. Len(w) + 1 : i < j /\ Append(w, e)[j] = d
  <2>1. i \in 1 .. Len(w) /\ w[i] = c
    BY <1>2, <1>5
  <2>2. CASE e = d
    BY <1>2, <2>1, <2>2
  <2>3. CASE Follows(q, c, d)
    <3>1. PICK j \in 1 .. Len(w) : i < j /\ w[j] = d
      BY <1>1, <1>2, <2>1, <2>3 DEF Follows
    <3> QED  BY <1>2, <3>1
  <2> QED  BY <2>2, <2>3
<1>6. x = c => \E j \in 1 .. Len(w) + 1 : Append(w, e)[j] = d
  <2>1. CASE e = d
    BY <1>2, <2>1
  <2>2. CASE Follows(q, c, d)
    <3>1. x = c => \E j \in 1 .. Len(w) : w[j] = d
      BY <1>1, <1>2, <2>2 DEF Follows, Line
    <3> QED  BY <1>2, <3>1
  <2> QED  BY <2>1, <2>2
<1>7. Follows(r, c, d)
  BY <1>2, <1>3, <1>5, <1>6 DEF Follows, Line
<1> QED  BY <1>3, <1>4, <1>7, FollowsAdvance

(* Whoever takes the key over, the order behind it stands. *)
LEMMA FollowsFinish ==
    ASSUME NEW q, WellFormed(q), NEW c \in Calls, NEW d \in Calls, Follows(q, c, d)
    PROVE  Follows(Finish(q), c, d)
<1>1. PICK r \in QueueType : /\ r = [running |-> Nobody, waiting |-> q.waiting]
                             /\ r.running = Nobody /\ r.waiting = q.waiting
  BY QueueFields DEF WellFormed
<1>2. Follows(r, c, d)
  BY <1>1, NobodyIsNoCall DEF Follows
<1> QED  BY <1>1, <1>2, FollowsAdvance DEF Finish

(* A hold passes nobody who waits. *)
LEMMA FollowsHold ==
    ASSUME NEW q, WellFormed(q), q.running # Nobody, NEW c \in Calls,
           NEW d \in Calls, NEW e \in Calls, c # e, Follows(q, c, d)
    PROVE  Follows(Finish(Hold(q, e)), c, d)
<1>1. Finish(Hold(q, e)) = [running |-> e, waiting |-> q.waiting]
  BY HoldFacts
<1> QED  BY <1>1 DEF Follows

(* A subscribe of the peer has yet to look, and one that did is pulling.    *)
Looks(p) == p \in due \/ IsToLook(p)
Pulling(p) ==
    LET k == Sub(SocketOf[p])
    IN /\ Runs(k, "subscribe") /\ at[k] \in {"call", "retry"}
       /\ queue[k].running.peer = p

(* A track that is missing will be looked for or is being pulled, or was    *)
(* refused, or the retries are used up; and behind a drop of somebody whose *)
(* seat publishes again there is a subscribe to look for what the drop      *)
(* makes missing, unless that was refused already.                          *)
SeenAt(s) ==
    seats[s] # NoPeer =>
        /\ ready[s] = "open" =>
              \A t \in MissingTracks(seats[s]) :
                 \/ Looks(seats[s])
                 \/ Pulling(seats[s]) /\ t \in asked[s]
                 \/ t \in refused[seats[s]]
                 \/ ~Pulling(seats[s]) /\ retries[seats[s]] = MaxRetries
        /\ \A t \in Sockets \ {s} : seats[t] \in published =>
              \/ seats[s] \in due
              \/ Follows(queue[Sub(s)], Drop(seats[s], t), Ask(seats[s]))
              \/ t \in refused[seats[s]]

SeenInv ==
    /\ ForgetInv
    /\ \A p \in Peers : retries[p] <= MaxRetries
    /\ \A s \in Sockets : SeenAt(s)

(* What looking and pulling are in terms of the line, before and after.     *)
LEMMA AskFacts ==
    ASSUME NEW p \in Peers, NEW s \in Sockets, SocketOf[p] = s
    PROVE  /\ Ask(p) \in Calls /\ Ask(p).what = "subscribe" /\ Ask(p).peer = p
           /\ \A t \in Sockets : Drop(p, t) \in Calls /\ Drop(p, t) # Ask(p)
           /\ \A t, u \in Sockets : t # u => Drop(p, t) # Drop(p, u)
           /\ IsToLook(p) <=>
                 \/ Ask(p) \in Line(queue[Sub(s)])
                 \/ /\ queue[Sub(s)].running = Ask(p)
                    /\ at[Sub(s)] \in {"start", "session"}
           /\ IsToLook(p)' <=>
                 \/ Ask(p) \in Line(queue'[Sub(s)])
                 \/ /\ queue'[Sub(s)].running = Ask(p)
                    /\ at'[Sub(s)] \in {"start", "session"}
           /\ Pulling(p) <=> /\ queue[Sub(s)].running # Nobody
                             /\ queue[Sub(s)].running.what = "subscribe"
                             /\ queue[Sub(s)].running.peer = p
                             /\ at[Sub(s)] \in {"call", "retry"}
           /\ Pulling(p)' <=> /\ queue'[Sub(s)].running # Nobody
                              /\ queue'[Sub(s)].running.what = "subscribe"
                              /\ queue'[Sub(s)].running.peer = p
                              /\ at'[Sub(s)] \in {"call", "retry"}
<1>1. /\ Ask(p) \in Calls /\ Ask(p).what = "subscribe" /\ Ask(p).peer = p
      /\ \A t \in Sockets : /\ Drop(p, t) \in Calls /\ Drop(p, t).what = "drop"
                            /\ Drop(p, t).leaver = t
  BY CallFacts DEF Ask
<1>2. \A t \in Sockets : Drop(p, t) # Ask(p)
  BY <1>1
<1>3. \A t, u \in Sockets : t # u => Drop(p, t) # Drop(p, u)
  BY <1>1
<1>4. IsToLook(p) <=>
         \/ Ask(p) \in Line(queue[Sub(s)])
         \/ /\ queue[Sub(s)].running = Ask(p)
            /\ at[Sub(s)] \in {"start", "session"}
  BY <1>1 DEF IsToLook, Line, Ask
<1>5. IsToLook(p)' <=>
         \/ Ask(p) \in Line(queue'[Sub(s)])
         \/ /\ queue'[Sub(s)].running = Ask(p)
            /\ at'[Sub(s)] \in {"start", "session"}
  BY <1>1 DEF IsToLook, Line, Ask
<1>6. /\ Pulling(p) <=> /\ queue[Sub(s)].running # Nobody
                        /\ queue[Sub(s)].running.what = "subscribe"
                        /\ queue[Sub(s)].running.peer = p
                        /\ at[Sub(s)] \in {"call", "retry"}
      /\ Pulling(p)' <=> /\ queue'[Sub(s)].running # Nobody
                         /\ queue'[Sub(s)].running.what = "subscribe"
                         /\ queue'[Sub(s)].running.peer = p
                         /\ at'[Sub(s)] \in {"call", "retry"}
  BY DEF Pulling, Runs
<1> QED  BY <1>1, <1>2, <1>3, <1>4, <1>5, <1>6

(* What there is to know of a socket somebody sits on. *)
LEMMA SeatFacts ==
    ASSUME ShapeInv, NEW s \in Sockets, seats[s] # NoPeer
    PROVE  /\ seats[s] \in Peers /\ SocketOf[seats[s]] = s /\ IsSeated(seats[s])
           /\ WellFormed(queue[Sub(s)]) /\ Sub(s) \in Keys
           /\ queue[Sub(s)].running = Nobody => at[Sub(s)] = "start"
<1>1. seats[s] \in Peers /\ SocketOf[seats[s]] = s /\ IsSeated(seats[s])
  BY DEF ShapeInv, RoomShape, IsSeated
<1>2. /\ WellFormed(queue[Sub(s)]) /\ Sub(s) \in Keys
      /\ queue[Sub(s)].running = Nobody => at[Sub(s)] = "start"
  BY KeyFacts DEF ShapeInv, QueueShape, AtPlace
<1> QED  BY <1>1, <1>2

(* SeenAt survives when the peer goes on asking and nothing new is missing  *)
(* that it does not know of.                                                *)
LEMMA SeenStays ==
    ASSUME ShapeInv, ShapeInv', NEW s \in Sockets, SeenAt(s),
           NEW p \in Peers, seats[s] = p, seats'[s] = p,
           Looks(p) => Looks(p)',
           Pulling(p)' <=> Pulling(p),
           Pulling(p) => asked[s] \subseteq asked'[s] \cup refused'[p],
           refused[p] \subseteq refused'[p],
           retries'[p] = retries[p], pulled'[p] = pulled[p],
           ready'[s] = "open" => ready[s] = "open",
           \A t \in Sockets \ {s} : seats'[t] \in published' =>
              \/ p \in due'
              \/ /\ seats[t] \in published
                 /\ \/ p \in due
                    \/ Follows(queue[Sub(s)], Drop(p, t), Ask(p))
                    => Follows(queue'[Sub(s)], Drop(p, t), Ask(p))
    PROVE  SeenAt(s)'
<1>1. SocketOf[p] = s /\ p # NoPeer
  BY SeatFacts, NoPeerIsNone
<1>2. ASSUME ready'[s] = "open", NEW t \in MissingTracks(p)'
      PROVE  \/ Looks(p)'
             \/ Pulling(p)' /\ t \in asked'[s]
             \/ t \in refused'[p]
             \/ ~Pulling(p)' /\ retries'[p] = MaxRetries
  <2>1. t \in Sockets \ {s} /\ t \notin pulled[p] /\ seats'[t] \in published'
    BY <1>1, <1>2 DEF MissingTracks
  <2>2. CASE p \in due'
    BY <2>2 DEF Looks
  <2>3. CASE seats[t] \in published
    <3>1. t \in MissingTracks(p)
      BY <1>1, <2>1, <2>3 DEF MissingTracks
    <3>2. \/ Looks(p)
          \/ Pulling(p) /\ t \in asked[s]
          \/ t \in refused[p]
          \/ ~Pulling(p) /\ retries[p] = MaxRetries
      BY <1>1, <1>2, <3>1 DEF SeenAt
    <3> QED  BY <3>2
  <2> QED  BY <2>1, <2>2, <2>3
<1>3. ASSUME NEW t \in Sockets \ {s}, seats'[t] \in published'
      PROVE  \/ p \in due' \/ Follows(queue'[Sub(s)], Drop(p, t), Ask(p))
             \/ t \in refused'[p]
  BY <1>1, <1>3 DEF SeenAt
<1> QED  BY <1>2, <1>3 DEF SeenAt

(* A step that leaves the receiving session alone. *)
LEMMA SeenElsewhere ==
    ASSUME ShapeInv, ShapeInv', NEW s \in Sockets, SeenAt(s), seats'[s] = seats[s],
           UNCHANGED <<queue[Sub(s)], at[Sub(s)], asked[s]>>,
           seats[s] # NoPeer =>
              LET p == seats[s]
              IN /\ p \in due => p \in due'
                 /\ retries'[p] = retries[p] /\ pulled'[p] = pulled[p]
                 /\ refused[p] \subseteq refused'[p]
                 /\ ready'[s] = "open" => ready[s] = "open"
                 /\ \A t \in Sockets \ {s} : seats'[t] \in published' =>
                       p \in due' \/ seats[t] \in published
    PROVE  SeenAt(s)'
<1>1. CASE seats[s] = NoPeer
  BY <1>1 DEF SeenAt
<1>2. CASE seats[s] # NoPeer
  <2>1. PICK p \in Peers : p = seats[s]
    BY <1>2, SeatFacts
  <2>2. SocketOf[p] = s
    BY <1>2, <2>1, SeatFacts
  <2>3. /\ IsToLook(p)' <=> IsToLook(p)
        /\ Pulling(p)' <=> Pulling(p)
    BY <2>2, AskFacts
  <2>4. /\ p \in due => p \in due'
        /\ retries'[p] = retries[p] /\ pulled'[p] = pulled[p]
        /\ refused[p] \subseteq refused'[p]
        /\ ready'[s] = "open" => ready[s] = "open"
        /\ \A t \in Sockets \ {s} : seats'[t] \in published' =>
              p \in due' \/ seats[t] \in published
    BY <1>2, <2>1
  <2>5. Looks(p) => Looks(p)'
    BY <2>3, <2>4 DEF Looks
  <2> QED  BY <2>1, <2>3, <2>4, <2>5, SeenStays
<1> QED  BY <1>1, <1>2

(* A new peer looks if anybody publishes, and nobody misses what it has not *)
(* published yet.                                                           *)
LEMMA SeenJoin ==
    ASSUME SeenInv, ShapeInv', NEW p \in Peers, Join(p), NEW s \in Sockets
    PROVE  SeenAt(s)'
<1> DEFINE x == SocketOf[p]
<1>1. /\ ShapeInv /\ SeenAt(s) /\ published \subseteq past /\ past \subseteq Peers
  BY DEF SeenInv, ForgetInv, LockInv, ShapeInv, RoomShape
<1>2. /\ UNCHANGED <<ready, queue, at, asked, published, pulled, retries, refused>>
      /\ seats' = [seats EXCEPT ![x] = p] /\ seats[x] = NoPeer
      /\ p \notin past /\ due \subseteq due'
      /\ (\E t \in Sockets : seats[t] \in published) => p \in due'
      /\ seats \in [Sockets -> Peers \cup {NoPeer}] /\ x \in Sockets
  BY <1>1, SocketsOfPeers DEF Join, ShapeInv, RoomShape
<1>3. \A t \in Sockets : seats'[t] \in published' => t # x /\ seats[t] \in published
  BY <1>1, <1>2
<1>4. CASE s = x
  <2>1. seats'[s] = p
    BY <1>2, <1>4
  <2>2. \A t \in Sockets : seats'[t] \in published' => p \in due'
    BY <1>2, <1>3
  <2>3. \A t \in MissingTracks(p)' : Looks(p)'
    BY <2>2 DEF MissingTracks, Looks
  <2> QED  BY <2>1, <2>2, <2>3 DEF SeenAt
<1>5. CASE s # x
  <2>1. seats'[s] = seats[s]
    BY <1>2, <1>5
  <2> QED  BY <1>1, <1>2, <1>3, <2>1, SeenElsewhere
<1> QED  BY <1>4, <1>5

(* A round of the client's is a subscribe at the end of its line. *)
LEMMA SeenSubscribe ==
    ASSUME SeenInv, ShapeInv', NEW p \in Peers, Subscribe(p), NEW s \in Sockets
    PROVE  SeenAt(s)'
<1> DEFINE x == SocketOf[p]
           k == Sub(x)
<1>1. /\ ShapeInv /\ SeenAt(s) /\ queue \in [Keys -> QueueType] /\ x \in Sockets
      /\ seats[x] = p /\ p # NoPeer
  BY SocketsOfPeers, NoPeerIsNone
     DEF SeenInv, ForgetInv, LockInv, ShapeInv, QueueShape, Subscribe, IsSeated
<1>2. /\ UNCHANGED <<ready, seats, at, asked, published, pulled, retries>>
      /\ due' = due \ {p} /\ queue' = [queue EXCEPT ![k] = Run(queue[k], Ask(p))]
      /\ \A o \in Peers \ {p} : refused'[o] = refused[o]
  BY <1>1 DEF Subscribe, room, Ask, ShapeInv, DataShape
<1>3. CASE s # x
  <2>1. queue'[Sub(s)] = queue[Sub(s)]
    BY <1>1, <1>2, <1>3, KeyFacts
  <2>2. seats[s] # NoPeer => seats[s] \in Peers \ {p}
    BY <1>1, <1>3, SeatFacts
  <2> QED  BY <1>1, <1>2, <2>1, <2>2, SeenElsewhere
<1>4. CASE s = x
  <2>0. seats[s] = p /\ seats'[s] = p
    BY <1>1, <1>2, <1>4
  <2>1. /\ queue'[k] = Run(queue[k], Ask(p)) /\ WellFormed(queue[k])
        /\ queue[k].running = Nobody => at[k] = "start"
    BY <1>1, <1>2, SeatFacts, KeyFacts
  <2>2. Ask(p) \in Calls
    BY <1>1, AskFacts
  <2>3. /\ queue[k].running # Nobody =>
              queue'[k].running = queue[k].running /\ Ask(p) \in Line(queue'[k])
        /\ queue[k].running = Nobody => queue'[k].running = Ask(p) /\ at'[k] = "start"
    BY <1>2, <2>1, <2>2, RunFacts
  <2>4. IsToLook(p)'
    BY <1>1, <2>3, AskFacts
  <2>5. ASSUME NEW t \in Sockets
        PROVE  Follows(queue'[k], Drop(p, t), Ask(p))
    <3>1. Drop(p, t) \in Calls /\ Drop(p, t) # Ask(p)
      BY <1>1, AskFacts
    <3> QED  BY <2>1, <2>2, <3>1, FollowsRun
  <2>6. Looks(p)'
    BY <2>4 DEF Looks
  <2> QED  BY <1>4, <2>0, <2>5, <2>6 DEF SeenAt
<1> QED  BY <1>3, <1>4

(* Whatever is published is refused to who asks without a token. *)
LEMMA SeenLimited ==
    ASSUME SeenInv, ShapeInv', NEW p \in Peers, SubscribeLimited(p), NEW s \in Sockets
    PROVE  SeenAt(s)'
<1> DEFINE x == SocketOf[p]
<1>1. ShapeInv /\ SeenAt(s) /\ x \in Sockets /\ seats[x] = p
  BY SocketsOfPeers
     DEF SeenInv, ForgetInv, LockInv, SubscribeLimited, IsSeated
<1>2. /\ UNCHANGED <<ready, seats, queue, at, asked, published, pulled, retries>>
      /\ due' = due \ {p}
      /\ refused' = [refused EXCEPT ![p] = {t \in Sockets : seats[t] \in published}]
      /\ refused \in [Peers -> SUBSET Sockets]
  BY <1>1 DEF SubscribeLimited, room, ShapeInv, DataShape
<1>3. CASE s # x
  <2>1. seats[s] # NoPeer => seats[s] \in Peers \ {p}
    BY <1>1, <1>3, SeatFacts
  <2>2. seats[s] # NoPeer => refused'[seats[s]] = refused[seats[s]]
    BY <1>2, <2>1
  <2> QED  BY <1>1, <1>2, <2>1, <2>2, SeenElsewhere
<1>4. CASE s = x
  <2>1. seats'[s] = p /\ refused'[p] = {t \in Sockets : seats[t] \in published}
    BY <1>1, <1>2, <1>4
  <2>2. \A t \in Sockets : seats'[t] \in published' => t \in refused'[p]
    BY <1>2, <2>1
  <2>3. \A t \in MissingTracks(p)' : t \in refused'[p]
    BY <2>2 DEF MissingTracks
  <2> QED  BY <2>1, <2>2, <2>3 DEF SeenAt
<1> QED  BY <1>3, <1>4

(* Who is told of a leaver has heard of everyone else as before. *)
LEMMA SeenUnseat ==
    ASSUME SeenInv, ShapeInv', NEW x \in Sockets, seats[x] # NoPeer, Unseat(x),
           UNCHANGED <<at, asked, pulled, published, retries, refused>>,
           \A s \in Sockets : ready'[s] = "open" => ready[s] = "open",
           NEW s \in Sockets
    PROVE  SeenAt(s)'
<1>1. /\ ShapeInv /\ SeenAt(s) /\ seats \in [Sockets -> Peers \cup {NoPeer}]
      /\ seats' = [seats EXCEPT ![x] = NoPeer] /\ due' = due \ {seats[x]}
      /\ NoPeer \notin published
  BY UnseatFacts, NoPeerIsNone
     DEF SeenInv, ForgetInv, LockInv, ShapeInv, RoomShape, DataShape, Unseat
<1>2. CASE seats'[s] = NoPeer
  BY <1>2 DEF SeenAt
<1>3. CASE seats'[s] # NoPeer
  <2> DEFINE k == Sub(s)
  <2> PICK p \in Peers : p = seats[s]
    BY <1>1, <1>3
  <2>1. /\ s # x /\ seats'[s] = p /\ p # NoPeer /\ p # seats[x]
        /\ queue'[k] = Run(queue[k], Drop(p, x))
    BY <1>1, <1>3, UnseatFacts, SeatFacts
  <2>2. /\ WellFormed(queue[k]) /\ SocketOf[p] = s
        /\ queue[k].running = Nobody => at[k] = "start"
    BY <1>1, <2>1, SeatFacts
  <2>3. /\ Ask(p) \in Calls /\ Drop(p, x) \in Calls /\ Drop(p, x) # Ask(p)
        /\ \A t \in Sockets \ {x} : Drop(p, t) \in Calls /\ Drop(p, t) # Drop(p, x)
    BY <2>2, AskFacts
  <2>4. /\ queue[k].running # Nobody =>
              /\ queue'[k].running = queue[k].running
              /\ Line(queue'[k]) = Line(queue[k]) \cup {Drop(p, x)}
        /\ queue[k].running = Nobody =>
              queue'[k].running = Drop(p, x) /\ Line(queue[k]) = {}
    <3>1. queue[k].running = Nobody => Line(queue[k]) = {}
      BY <2>2 DEF WellFormed, Line
    <3> QED  BY <2>1, <2>2, <2>3, <3>1, RunFacts
  <2>5. /\ IsToLook(p) => IsToLook(p)'
        /\ Pulling(p)' <=> Pulling(p)
    <3>1. at'[k] = at[k]
      OBVIOUS
    <3>2. CASE queue[k].running # Nobody
      <4>1. /\ queue'[k].running = queue[k].running
            /\ Ask(p) \in Line(queue[k]) => Ask(p) \in Line(queue'[k])
        BY <2>4, <3>2
      <4> QED  BY <2>2, <3>1, <4>1, AskFacts
    <3>3. CASE queue[k].running = Nobody
      <4>1. ~IsToLook(p) /\ ~Pulling(p)
        BY <2>2, <2>3, <2>4, <3>3, AskFacts, NobodyIsNoCall
      <4>2. ~Pulling(p)'
        BY <2>2, <2>3, <2>4, <3>3, AskFacts
      <4> QED  BY <4>1, <4>2
    <3> QED  BY <3>2, <3>3
  <2>6. ASSUME NEW t \in Sockets \ {s}, seats'[t] \in published'
        PROVE  /\ seats[t] \in published
               /\ Follows(queue[k], Drop(p, t), Ask(p)) =>
                     Follows(queue'[k], Drop(p, t), Ask(p))
    <3>1. t # x /\ seats[t] \in published
      BY <1>1, <2>6
    <3> QED  BY <2>1, <2>2, <2>3, <3>1, FollowsRun
  <2>7. Looks(p) => Looks(p)'
    BY <1>1, <2>1, <2>5 DEF Looks
  <2>8. \A t \in Sockets \ {s} : seats'[t] \in published' =>
           \/ p \in due'
           \/ /\ seats[t] \in published
              /\ \/ p \in due
                 \/ Follows(queue[k], Drop(p, t), Ask(p))
                 => Follows(queue'[k], Drop(p, t), Ask(p))
    BY <1>1, <2>1, <2>6
  <2> QED  BY <1>1, <2>1, <2>5, <2>7, <2>8, SeenStays
<1> QED  BY <1>2, <1>3

(* Everyone in the room is told of tracks as they are published. *)
LEMMA SeenPublishing ==
    ASSUME SeenInv, ShapeInv', NEW x \in Sockets, PublishStep(x), NEW s \in Sockets
    PROVE  SeenAt(s)'
<1> DEFINE k == Pub(x)
           c == queue[k].running.peer
<1>1. ShapeInv /\ SeenAt(s)
  BY DEF SeenInv, ForgetInv, LockInv
<1>2. /\ UNCHANGED <<ready, seats, asked, pulled, retries, refused>>
      /\ UNCHANGED <<queue[Sub(s)], at[Sub(s)]>>
  BY <1>1, ShapePublishing DEF room
<1>3. /\ due \subseteq due'
      /\ \/ published' = published
         \/ /\ published' = published \cup {c}
            /\ IsSeated(c) => \A o \in Peers \ {c} : IsSeated(o) => o \in due'
  BY DEF PublishStep, PublishStarts, PublishAccepted, PublishPartly, PublishFails,
         PublishUndone, ClosePublished, Stored, client
<1>4. ASSUME seats[s] # NoPeer, NEW t \in Sockets \ {s}, seats'[t] \in published',
             seats[t] \notin published
      PROVE  seats[s] \in due'
  <2>1. seats[t] = c /\ published' = published \cup {c}
    BY <1>2, <1>3, <1>4
  <2>2. c # NoPeer
    <3>1. published' \subseteq Peers
      BY DEF ShapeInv, DataShape
    <3> QED  BY <2>1, <3>1, NoPeerIsNone
  <2>3. IsSeated(c) /\ SocketOf[c] = t
    BY <1>1, <2>1, <2>2, SeatFacts
  <2>4. seats[s] \in Peers /\ IsSeated(seats[s]) /\ SocketOf[seats[s]] = s
    BY <1>1, <1>4, SeatFacts
  <2>5. seats[s] # c
    BY <2>3, <2>4
  <2>6. published' # published
    BY <1>4, <2>1
  <2> QED  BY <1>3, <2>3, <2>4, <2>5, <2>6
<1> QED  BY <1>1, <1>2, <1>3, <1>4, SeenElsewhere

(* The call that has the key is over: what it was to look for is found, or  *)
(* will be looked for, or the retries are used up.                          *)
LEMMA SeenEnds ==
    ASSUME ForgetInv, ShapeInv', NEW s \in Sockets, SeenAt(s),
           seats' = seats, published' = published, due \subseteq due',
           queue'[Sub(s)] = Finish(queue[Sub(s)]), at'[Sub(s)] = "start",
           seats[s] # NoPeer /\ ready'[s] = "open" =>
              \A t \in MissingTracks(seats[s])' :
                 \/ seats[s] \in due' \/ Ask(seats[s]) \in Line(queue[Sub(s)])
                 \/ t \in refused'[seats[s]]
                 \/ retries'[seats[s]] = MaxRetries,
           seats[s] # NoPeer => refused[seats[s]] \subseteq refused'[seats[s]]
    PROVE  SeenAt(s)'
<1> SUFFICES ASSUME seats[s] # NoPeer PROVE SeenAt(s)'
  BY DEF SeenAt
<1> DEFINE k == Sub(s)
<1> PICK p \in Peers : p = seats[s]
  BY SeatFacts DEF ForgetInv, LockInv
<1>1. SocketOf[p] = s /\ WellFormed(queue[k]) /\ p # NoPeer
  BY SeatFacts DEF ForgetInv, LockInv
<1>2. Ask(p) \in Calls /\ \A t \in Sockets : Drop(p, t) \in Calls
  BY <1>1, AskFacts
<1>3. Ask(p) \in Line(queue[k]) => IsToLook(p)'
  <2>1. Ask(p) \in Line(queue[k]) =>
            Ask(p) \in Line(queue'[k]) \/ queue'[k].running = Ask(p)
    BY <1>1, FinishFacts
  <2> QED  BY <1>1, <2>1, AskFacts
<1>4. ~Pulling(p)'
  BY <1>1, AskFacts
<1>5. ASSUME ready'[s] = "open", NEW t \in MissingTracks(p)'
      PROVE  Looks(p)' \/ t \in refused'[p] \/ retries'[p] = MaxRetries
  BY <1>3, <1>5 DEF Looks
<1>6. ASSUME NEW t \in Sockets \ {s}, seats[t] \in published
      PROVE  \/ p \in due' \/ Follows(queue'[k], Drop(p, t), Ask(p))
             \/ t \in refused'[p]
  <2>1. \/ p \in due \/ Follows(queue[k], Drop(p, t), Ask(p))
        \/ t \in refused[p]
    BY <1>6 DEF SeenAt
  <2> QED  BY <1>1, <1>2, <2>1, FollowsFinish
<1> QED  BY <1>4, <1>5, <1>6 DEF SeenAt

(* A call of a peer that left is of no use to the one that sits there now.  *)
LEMMA SeenOthersEnd ==
    ASSUME ForgetInv, ShapeInv', NEW s \in Sockets, SeenAt(s),
           seats' = seats, published' = published, due \subseteq due',
           queue'[Sub(s)] = Finish(queue[Sub(s)]), at'[Sub(s)] = "start",
           seats[s] # NoPeer =>
              /\ queue[Sub(s)].running # Nobody =>
                    \/ queue[Sub(s)].running.what # "subscribe"
                    \/ queue[Sub(s)].running.peer # seats[s]
              /\ ready'[s] = "open" => ready[s] = "open"
              /\ pulled'[seats[s]] = pulled[seats[s]]
              /\ retries'[seats[s]] = retries[seats[s]]
              /\ refused[seats[s]] \subseteq refused'[seats[s]]
    PROVE  SeenAt(s)'
<1>1. ASSUME seats[s] # NoPeer, ready'[s] = "open", NEW t \in MissingTracks(seats[s])'
      PROVE  \/ seats[s] \in due' \/ Ask(seats[s]) \in Line(queue[Sub(s)])
             \/ t \in refused'[seats[s]]
             \/ retries'[seats[s]] = MaxRetries
  <2> PICK p \in Peers : p = seats[s]
    BY <1>1, SeatFacts DEF ForgetInv, LockInv
  <2>1. SocketOf[p] = s
    BY <1>1, SeatFacts DEF ForgetInv, LockInv
  <2>2. t \in MissingTracks(p)
    BY <1>1 DEF MissingTracks
  <2>3. ~Pulling(p) /\ (IsToLook(p) => Ask(p) \in Line(queue[Sub(s)]))
    <3>1. Ask(p) \in Calls /\ Ask(p).what = "subscribe" /\ Ask(p).peer = p
      BY <2>1, AskFacts
    <3>2. queue[Sub(s)].running # Ask(p)
      BY <1>1, <3>1, NobodyIsNoCall
    <3>3. ~Pulling(p)
      BY <1>1, <2>1, AskFacts
    <3> QED  BY <2>1, <3>2, <3>3, AskFacts
  <2>4. Looks(p) \/ t \in refused[p] \/ retries[p] = MaxRetries
    BY <1>1, <2>2, <2>3 DEF SeenAt
  <2> QED  BY <1>1, <2>3, <2>4 DEF Looks
<1> QED  BY <1>1, SeenEnds

(* A pull begins: it asks for everything that is missing. *)
LEMMA SeenPull ==
    ASSUME SeenInv, ShapeInv', NEW s \in Sockets,
           UNCHANGED <<ready, seats, published, pulled, refused>>,
           Runs(Sub(s), "subscribe"), at[Sub(s)] \in {"start", "session"},
           NEW c \in Peers, queue[Sub(s)].running.peer = c, Pull(c, s)
    PROVE  SeenAt(s)'
<1> DEFINE k == Sub(s)
<1>1. /\ ForgetInv /\ ShapeInv /\ SeenAt(s) /\ k \in Keys
      /\ queue \in [Keys -> QueueType] /\ at \in [Keys -> Stages]
      /\ asked \in [Sockets -> SUBSET Sockets] /\ retries \in [Peers -> Nat]
  BY KeyFacts DEF SeenInv, ForgetInv, LockInv, ShapeInv, QueueShape, DataShape
<1>2. SocketOf[c] = s /\ queue[k].running # Nobody
  BY <1>1, RunningFacts, KeyFacts DEF Runs
<1>3. CASE MissingTracks(c) = {}
  <2>1. /\ queue' = [queue EXCEPT ![k] = Finish(queue[k])]
        /\ at' = [at EXCEPT ![k] = "start"]
        /\ retries' = [retries EXCEPT ![c] = 0] /\ due' = due
    BY <1>3 DEF Pull, ReplyTo, Hand, NothingSkipped
  <2>2. queue'[k] = Finish(queue[k]) /\ at'[k] = "start"
    BY <1>1, <2>1
  <2>3. CASE seats[s] = c
    <3>1. MissingTracks(c)' = {}
      BY <1>3 DEF MissingTracks
    <3> QED  BY <1>1, <2>1, <2>2, <2>3, <3>1, SeenEnds
  <2>4. CASE seats[s] # c
    <3>1. seats[s] # NoPeer => seats[s] \in Peers
      BY <1>1, SeatFacts
    <3>2. seats[s] # NoPeer => retries'[seats[s]] = retries[seats[s]]
      BY <1>1, <2>1, <2>4, <3>1
    <3> QED  BY <1>1, <2>1, <2>2, <2>4, <3>2, SeenOthersEnd
  <2> QED  BY <2>3, <2>4
<1>4. CASE MissingTracks(c) # {}
  <2>1. /\ asked' = [asked EXCEPT ![s] = MissingTracks(c)]
        /\ at' = [at EXCEPT ![k] = "call"]
        /\ UNCHANGED <<queue, due, retries>>
    BY <1>4 DEF Pull
  <2>2. asked'[s] = MissingTracks(c) /\ at'[k] = "call"
    BY <1>1, <2>1
  <2>3. CASE seats[s] = NoPeer
    BY <2>3 DEF SeenAt
  <2>4. CASE seats[s] # NoPeer
    <3> PICK p \in Peers : p = seats[s]
      BY <1>1, <2>4, SeatFacts
    <3>1. SocketOf[p] = s /\ MissingTracks(p)' = MissingTracks(p)
      BY <1>1, <2>4, SeatFacts DEF MissingTracks
    <3>2. \A t \in Sockets \ {s} : seats[t] \in published =>
              \/ p \in due \/ Follows(queue[k], Drop(p, t), Ask(p))
              \/ t \in refused[p]
      BY <1>1, <2>4 DEF SeenAt
    <3>3. CASE c = p
      <4>1. Pulling(p)'
        BY <2>1, <2>2, <3>1, <3>3, AskFacts DEF Runs
      <4>2. \A t \in MissingTracks(p)' : t \in asked'[s]
        BY <2>2, <3>1, <3>3
      <4> QED  BY <2>1, <3>2, <4>1, <4>2 DEF SeenAt
    <3>4. CASE c # p
      <4>1. ~Pulling(p) /\ ~Pulling(p)' /\ (IsToLook(p) => IsToLook(p)')
        BY <2>1, <3>1, <3>4, AskFacts
      <4>2. Looks(p) => Looks(p)'
        BY <2>1, <4>1 DEF Looks
      <4> QED  BY <1>1, <2>1, <2>4, <4>1, <4>2, SeenStays
    <3> QED  BY <3>3, <3>4
  <2> QED  BY <2>3, <2>4
<1> QED  BY <1>3, <1>4

(* A subscribe that failed is asked again, or its retries are used up. *)
LEMMA SeenFails ==
    ASSUME SeenInv, ShapeInv', NEW s \in Sockets,
           UNCHANGED <<seats, published, pulled, refused>>,
           \A t \in Sockets : ready[t] # "open" => ready'[t] # "open",
           Runs(Sub(s), "subscribe"),
           NEW c \in Peers, queue[Sub(s)].running.peer = c, ReplyTo(c, Sub(s)),
           \/ RetryLater(c)
           \/ (IsSeated(c) => ready'[s] # "open") /\ UNCHANGED <<due, retries>>
    PROVE  SeenAt(s)'
<1> DEFINE k == Sub(s)
<1>1. /\ ForgetInv /\ ShapeInv /\ SeenAt(s) /\ k \in Keys
      /\ queue \in [Keys -> QueueType] /\ at \in [Keys -> Stages]
      /\ retries \in [Peers -> Nat] /\ retries[c] <= MaxRetries
      /\ ready \in [Sockets -> {"open", "closing", "gone"}]
  BY KeyFacts
     DEF SeenInv, ForgetInv, LockInv, ShapeInv, RoomShape, QueueShape, DataShape
<1>2. SocketOf[c] = s /\ queue[k].running # Nobody
  BY <1>1, RunningFacts, KeyFacts DEF Runs
<1>3. queue'[k] = Finish(queue[k]) /\ at'[k] = "start"
  BY <1>1 DEF ReplyTo, Hand
<1>4. due \subseteq due'
  BY DEF RetryLater
<1>5. CASE seats[s] = c
  <2>1. IsSeated(c)
    BY <1>2, <1>5 DEF IsSeated
  <2>2. CASE RetryLater(c)
    <3>1. c \in due' \/ retries'[c] = MaxRetries
      BY <1>1, <2>1, <2>2, BoundsAreNat DEF RetryLater
    <3> QED  BY <1>1, <1>3, <1>4, <1>5, <3>1, SeenEnds
  <2>3. CASE ready'[s] # "open"
    BY <1>1, <1>3, <1>4, <2>3, SeenEnds
  <2> QED  BY <2>1, <2>2, <2>3
<1>6. CASE seats[s] # c
  <2>1. ~IsSeated(c)
    BY <1>2, <1>6 DEF IsSeated
  <2>2. retries' = retries
    BY <2>1 DEF RetryLater
  <2> QED  BY <1>1, <1>3, <1>4, <1>6, <2>2, SeenOthersEnd
<1> QED  BY <1>5, <1>6

(* What a reply skips: the late is asked for again, the rest is refused.    *)
LEMMA SkipExcuses ==
    ASSUME ShapeInv, NEW c \in Peers, retries[c] <= MaxRetries,
           NEW refusals \in SUBSET Sockets, NEW late, Skip(c, refusals, late)
    PROVE  /\ \A x \in Peers \ {c} :
                 retries'[x] = retries[x] /\ refused'[x] = refused[x]
           /\ refused'[c] = refused[c] \cup refusals
           /\ due \subseteq due'
           /\ ~IsSeated(c) /\ late # {} => retries' = retries
           /\ IsSeated(c) /\ late # {} => c \in due' \/ retries'[c] = MaxRetries
<1>1. retries \in [Peers -> Nat] /\ refused \in [Peers -> SUBSET Sockets]
  BY DEF ShapeInv, DataShape
<1>2. refused' = [refused EXCEPT ![c] = @ \cup refusals]
  BY DEF Skip
<1>3. CASE late = {}
  BY <1>1, <1>2, <1>3 DEF Skip, NothingSkipped
<1>4. CASE late # {}
  BY <1>1, <1>2, <1>4, BoundsAreNat DEF Skip, RetryLater
<1> QED  BY <1>3, <1>4

(* A pull that brings nothing: each of its tracks is late or refused.       *)
LEMMA SeenEmpties ==
    ASSUME SeenInv, ShapeInv', NEW s \in Sockets,
           UNCHANGED <<seats, published, pulled>>,
           \A t \in Sockets : ready[t] # "open" => ready'[t] # "open",
           Runs(Sub(s), "subscribe"), at[Sub(s)] \in {"call", "retry"},
           NEW c \in Peers, queue[Sub(s)].running.peer = c, ReplyTo(c, Sub(s)),
           NEW late \in SUBSET asked[s], Skip(c, asked[s] \ late, late)
    PROVE  SeenAt(s)'
<1> DEFINE k == Sub(s)
<1>1. /\ ForgetInv /\ ShapeInv /\ SeenAt(s) /\ k \in Keys
      /\ queue \in [Keys -> QueueType] /\ at \in [Keys -> Stages]
      /\ asked[s] \in SUBSET Sockets /\ retries[c] <= MaxRetries
      /\ ready \in [Sockets -> {"open", "closing", "gone"}]
  BY KeyFacts
     DEF SeenInv, ForgetInv, LockInv, ShapeInv, RoomShape, QueueShape, DataShape
<1>2. SocketOf[c] = s /\ queue[k].running # Nobody
  BY <1>1, RunningFacts, KeyFacts DEF Runs
<1>3. queue'[k] = Finish(queue[k]) /\ at'[k] = "start"
  BY <1>1 DEF ReplyTo, Hand
<1>4. /\ \A x \in Peers \ {c} : retries'[x] = retries[x] /\ refused'[x] = refused[x]
      /\ refused'[c] = refused[c] \cup (asked[s] \ late)
      /\ due \subseteq due'
      /\ IsSeated(c) /\ late # {} => c \in due' \/ retries'[c] = MaxRetries
  BY <1>1, SkipExcuses
<1>5. CASE seats[s] # c
  <2>1. seats[s] # NoPeer => seats[s] \in Peers \ {c}
    BY <1>1, <1>5, SeatFacts
  <2> QED  BY <1>1, <1>3, <1>4, <1>5, <2>1, SeenOthersEnd
<1>6. CASE seats[s] = c
  <2>1. IsSeated(c) /\ c # NoPeer
    BY <1>2, <1>6, NoPeerIsNone DEF IsSeated
  <2>2. ASSUME ready'[s] = "open", NEW t \in MissingTracks(c)'
        PROVE  \/ c \in due' \/ Ask(c) \in Line(queue[k])
               \/ t \in refused'[c] \/ retries'[c] = MaxRetries
    <3>1. t \in MissingTracks(c) /\ ready[s] = "open"
      BY <1>1, <2>2 DEF MissingTracks
    <3>2. Pulling(c) /\ (IsToLook(c) => Ask(c) \in Line(queue[k]))
      BY <1>2, AskFacts DEF Runs
    <3>3. Looks(c) \/ t \in asked[s] \/ t \in refused[c]
      BY <1>1, <1>6, <2>1, <3>1, <3>2 DEF SeenAt
    <3>4. CASE Looks(c)
      BY <1>4, <3>2, <3>4 DEF Looks
    <3>5. CASE t \in asked[s] \/ t \in refused[c]
      BY <1>4, <2>1, <3>5
    <3> QED  BY <3>3, <3>4, <3>5
  <2> QED  BY <1>1, <1>3, <1>4, <1>6, <2>2, SeenEnds
<1> QED  BY <1>5, <1>6

(* What arrives is not missing, and the rest is skipped.                    *)
LEMMA SeenArrives ==
    ASSUME SeenInv, ShapeInv', NEW s \in Sockets, PullArrives(s),
           UNCHANGED <<seats, published>>,
           \A t \in Sockets : ready[t] # "open" => ready'[t] # "open",
           NEW c \in Peers, queue[Sub(s)].running.peer = c
    PROVE  SeenAt(s)'
<1> DEFINE k == Sub(s)
<1>1. /\ ForgetInv /\ ShapeInv /\ SeenAt(s) /\ k \in Keys /\ WellFormed(queue[k])
      /\ queue \in [Keys -> QueueType] /\ at \in [Keys -> Stages]
      /\ retries \in [Peers -> Nat] /\ retries[c] <= MaxRetries
      /\ pulled \in [Peers -> SUBSET Sockets]
      /\ ready \in [Sockets -> {"open", "closing", "gone"}]
  BY KeyFacts
     DEF SeenInv, ForgetInv, LockInv, ShapeInv, RoomShape, QueueShape, DataShape, AtPlace
<1>2. /\ SocketOf[c] = s /\ queue[k].running # Nobody
      /\ Runs(k, "subscribe") /\ at[k] \in {"call", "retry"}
  BY <1>1, RunningFacts, KeyFacts DEF PullArrives, IsPulling, Runs
<1>3. PICK got \in SUBSET asked[s], late \in SUBSET asked[s] :
          /\ pulled' = [pulled EXCEPT ![c] = @ \cup got]
          /\ Skip(c, asked[s] \ (got \cup late), late)
  BY DEF PullArrives
<1>4. /\ \A x \in Peers \ {c} : retries'[x] = retries[x] /\ refused'[x] = refused[x]
      /\ refused'[c] = refused[c] \cup (asked[s] \ (got \cup late))
      /\ due \subseteq due'
      /\ IsSeated(c) /\ late # {} => c \in due' \/ retries'[c] = MaxRetries
  <2>1. asked[s] \ (got \cup late) \in SUBSET Sockets
    BY <1>1 DEF ShapeInv, DataShape
  <2> QED  BY <1>1, <1>3, <2>1, SkipExcuses
<1>5. CASE seats[s] # c
  <2>1. ~IsSeated(c)
    BY <1>2, <1>5 DEF IsSeated
  <2>2. queue'[k] = Finish(queue[k]) /\ at'[k] = "start"
    BY <1>1, <2>1 DEF PullArrives, ReplyTo, Hand
  <2>3. ASSUME seats[s] # NoPeer
        PROVE  /\ pulled'[seats[s]] = pulled[seats[s]]
               /\ retries'[seats[s]] = retries[seats[s]]
               /\ refused'[seats[s]] = refused[seats[s]]
    <3>1. seats[s] \in Peers \ {c}
      BY <1>1, <1>5, <2>3, SeatFacts
    <3> QED  BY <1>1, <1>3, <1>4, <3>1
  <2> QED  BY <1>1, <1>4, <1>5, <2>2, <2>3, SeenOthersEnd
<1>6. CASE seats[s] = c
  <2>1. IsSeated(c) /\ seats'[s] = c /\ c # NoPeer
    BY <1>2, <1>6, NoPeerIsNone DEF IsSeated
  <2>2. PICK h \in Calls : h = CallOf("hold", c) /\ h.what = "hold"
    BY CallFacts
  <2>3. queue'[k] = Finish(Hold(queue[k], h)) /\ at'[k] = "start"
    <3>1. Hand(k, Finish(Hold(queue[k], h)))
      BY <2>1, <2>2 DEF PullArrives, Offer
    <3> QED  BY <1>1, <3>1 DEF Hand
  <2>4. queue'[k].running = h /\ Line(queue'[k]) = Line(queue[k])
    <3>1. Finish(Hold(queue[k], h)) = [running |-> h, waiting |-> queue[k].waiting]
      BY <1>1, <1>2, HoldFacts
    <3> QED  BY <2>3, <3>1 DEF Line
  <2>5. /\ ~Pulling(c)' /\ Pulling(c)
        /\ IsToLook(c) => IsToLook(c)'
    <3>1. ~Pulling(c)'
      BY <1>2, <2>3, AskFacts
    <3>2. Pulling(c)
      BY <1>2, AskFacts DEF Runs
    <3>3. IsToLook(c) => Ask(c) \in Line(queue[k])
      BY <1>2, AskFacts
    <3>4. Ask(c) \in Line(queue[k]) => IsToLook(c)'
      BY <1>2, <2>4, AskFacts
    <3> QED  BY <3>1, <3>2, <3>3, <3>4
  <2>6. ASSUME ready'[s] = "open", NEW t \in MissingTracks(c)'
        PROVE  Looks(c)' \/ t \in refused'[c] \/ retries'[c] = MaxRetries
    <3>1. t \in MissingTracks(c) /\ t \notin got
      BY <1>1, <1>3, <2>6 DEF MissingTracks
    <3>2. Looks(c) \/ t \in asked[s] \/ t \in refused[c]
      <4>1. ready[s] = "open"
        BY <1>1, <2>6
      <4> QED  BY <1>1, <1>6, <2>1, <2>5, <3>1, <4>1 DEF SeenAt
    <3>3. CASE Looks(c)
      BY <1>4, <2>5, <3>3 DEF Looks
    <3>4. CASE t \in asked[s]
      <4>1. t \in late \/ t \in refused'[c]
        BY <1>4, <3>1, <3>4
      <4> QED  BY <1>4, <2>1, <4>1 DEF Looks
    <3>5. CASE t \in refused[c]
      BY <1>4, <3>5
    <3> QED  BY <3>2, <3>3, <3>4, <3>5
  <2>7. ASSUME NEW t \in Sockets \ {s}, seats[t] \in published
        PROVE  \/ c \in due' \/ Follows(queue'[k], Drop(c, t), Ask(c))
               \/ t \in refused'[c]
    <3>1. \/ c \in due \/ Follows(queue[k], Drop(c, t), Ask(c))
          \/ t \in refused[c]
      BY <1>1, <1>6, <2>1, <2>7 DEF SeenAt
    <3>2. Drop(c, t) \in Calls /\ Drop(c, t) # h /\ Ask(c) \in Calls
      <4>1. Drop(c, t) \in Calls /\ Drop(c, t).what = "drop"
        BY CallFacts
      <4> QED  BY <1>2, <2>2, <4>1, AskFacts
    <3> QED  BY <1>1, <1>2, <1>4, <2>3, <3>1, <3>2, FollowsHold
  <2> QED  BY <2>1, <2>5, <2>6, <2>7 DEF SeenAt
<1> QED  BY <1>5, <1>6

(* What a call of a receiving session does there.                           *)
LEMMA SeenReceiving ==
    ASSUME SeenInv, NEW s \in Sockets, Receiving(s), SubscribeStep(s) \/ HoldStep(s)
    PROVE  SeenAt(s)'
<1> DEFINE k == Sub(s)
<1>1. /\ ShapeInv' /\ ForgetInv /\ ShapeInv /\ SeenAt(s) /\ k \in Keys
      /\ queue \in [Keys -> QueueType] /\ at \in [Keys -> Stages]
      /\ asked \in [Sockets -> SUBSET Sockets] /\ pulled \in [Peers -> SUBSET Sockets]
      /\ ready \in [Sockets -> {"open", "closing", "gone"}]
  BY KeyFacts
     DEF Receiving, SeenInv, ForgetInv, LockInv, ShapeInv, RoomShape, QueueShape,
         DataShape
<1>2. /\ seats' = seats /\ published' = published
      /\ \A t \in Sockets : ready[t] # "open" => ready'[t] # "open"
  BY DEF Receiving
<1>3. queue[k].running # Nobody
  BY SomebodyRuns
<1>4. PICK c \in Peers : c = queue[k].running.peer
  BY <1>1, <1>3, RunningFacts
<1>5. SocketOf[c] = s
  BY <1>1, <1>3, <1>4, RunningFacts, KeyFacts
<1>6. ASSUME ReplyTo(c, k) \/ Hand(k, Finish(queue[k])),
             queue[k].running.what # "subscribe" \/ ~IsSeated(c),
             UNCHANGED <<pulled, retries, due, refused>>
      PROVE  SeenAt(s)'
  <2>1. queue'[k] = Finish(queue[k]) /\ at'[k] = "start"
    BY <1>1, <1>6 DEF ReplyTo, Hand
  <2>2. seats[s] = c => IsSeated(c)
    BY <1>5 DEF IsSeated
  <2> QED  BY <1>1, <1>2, <1>4, <1>6, <2>1, <2>2, SeenOthersEnd
<1>7. CASE SubscribeStarts(s)
  <2>1. /\ Runs(k, "subscribe") /\ at[k] = "start"
        /\ UNCHANGED <<ready, pulled, refused>>
    BY <1>7 DEF SubscribeStarts, room
  <2>2. CASE ~IsSeated(c)
    BY <1>4, <1>6, <1>7, <2>2 DEF SubscribeStarts
  <2>3. CASE IsSeated(c) /\ c \notin subs
    <3>1. at' = [at EXCEPT ![k] = "session"] /\ UNCHANGED <<queue, asked, due, retries>>
      BY <1>4, <1>7, <2>3 DEF SubscribeStarts
    <3>2. at'[k] = "session"
      BY <1>1, <3>1
    <3>3. seats[s] = c
      BY <1>5, <2>3 DEF IsSeated
    <3>4. /\ Pulling(c)' <=> Pulling(c)
          /\ IsToLook(c) => IsToLook(c)'
      BY <1>5, <2>1, <3>1, <3>2, AskFacts
    <3>5. Looks(c) => Looks(c)'
      BY <3>1, <3>4 DEF Looks
    <3> QED  BY <1>1, <1>2, <2>1, <3>1, <3>3, <3>4, <3>5, SeenStays
  <2>4. CASE IsSeated(c) /\ c \in subs
    BY <1>1, <1>2, <1>4, <1>7, <2>1, <2>4, SeenPull DEF SubscribeStarts
  <2> QED  BY <2>2, <2>3, <2>4
<1>8. CASE SessionOpens(s)
  BY <1>1, <1>2, <1>4, <1>8, SeenPull DEF SessionOpens, room
<1>9. CASE SubscribeFails(s) \/ PullBreaks(s)
  <2>1. /\ Runs(k, "subscribe") /\ ReplyTo(c, k) /\ UNCHANGED <<pulled, refused>>
    BY <1>4, <1>9 DEF SubscribeFails, PullBreaks
  <2>2. CASE SubscribeFails(s)
    <3>1. RetryLater(c)
      BY <1>4, <2>2 DEF SubscribeFails
    <3> QED  BY <1>1, <1>2, <1>4, <2>1, <3>1, SeenFails
  <2>3. CASE PullBreaks(s)
    <3>1. UNCHANGED <<due, retries>> /\ (IsSeated(c) => ready' = Close({s}))
      BY <1>4, <2>3 DEF PullBreaks
    <3>2. IsSeated(c) => ready'[s] # "open"
      BY <1>1, <3>1 DEF Close
    <3> QED  BY <1>1, <1>2, <1>4, <2>1, <3>1, <3>2, SeenFails
  <2> QED  BY <1>9, <2>2, <2>3
<1>10. CASE PullAgain(s)
  <2>1. /\ Runs(k, "subscribe") /\ at[k] = "call" /\ at' = [at EXCEPT ![k] = "retry"]
        /\ UNCHANGED <<ready, queue, pulled, due, retries>>
    BY <1>10 DEF PullAgain, IsPulling, room
  <2>2. at'[k] = "retry"
    BY <1>1, <2>1
  <2>3. CASE seats[s] = NoPeer
    BY <1>2, <2>3 DEF SeenAt
  <2>4. CASE seats[s] # NoPeer
    <3> PICK p \in Peers : p = seats[s]
      BY <1>1, <2>4, SeatFacts
    <3>1. SocketOf[p] = s
      BY <1>1, <2>4, SeatFacts
    <3>2. /\ Pulling(p)' <=> Pulling(p)
          /\ IsToLook(p) => IsToLook(p)'
      BY <2>1, <2>2, <3>1, AskFacts
    <3>3. Looks(p) => Looks(p)'
      BY <2>1, <3>2 DEF Looks
    <3>4. PICK again \in SUBSET asked[s] :
             /\ asked' = [asked EXCEPT ![s] = again]
             /\ refused' = [refused EXCEPT ![c] = @ \cup (asked[s] \ again)]
      BY <1>4, <1>10 DEF PullAgain
    <3>5. refused \in [Peers -> SUBSET Sockets]
      BY <1>1 DEF ShapeInv, DataShape
    <3>6. /\ refused[p] \subseteq refused'[p]
          /\ Pulling(p) => asked[s] \subseteq asked'[s] \cup refused'[p]
      <4>1. asked'[s] = again /\ (p = c \/ refused'[p] = refused[p])
        BY <1>1, <3>4, <3>5
      <4>2. refused'[c] = refused[c] \cup (asked[s] \ again)
        BY <3>4, <3>5
      <4>3. Pulling(p) => p = c
        BY <1>4, <3>1, AskFacts
      <4> QED  BY <4>1, <4>2, <4>3
    <3> QED  BY <1>1, <1>2, <2>1, <3>2, <3>3, <3>6, SeenStays
  <2> QED  BY <2>3, <2>4
<1>11. CASE PullArrives(s)
  BY <1>1, <1>2, <1>4, <1>11, SeenArrives
<1>12. CASE CloseReceived(s)
  BY <1>6, <1>12 DEF CloseReceived, Runs, client
<1>13. CASE AnswerAccepted(s) \/ AnswerRefused(s) \/ AnswerTimesOut(s)
  <2>1. /\ Runs(k, "hold") /\ ReplyTo(c, k)
        /\ UNCHANGED <<pulled, due, retries, refused>>
    BY <1>4, <1>13 DEF AnswerAccepted, AnswerRefused, AnswerTimesOut
  <2> QED  BY <1>6, <2>1 DEF Runs
<1>14. CASE DropLeaver(s)
  <2> DEFINE d == queue[k].running
  <2>1. /\ Runs(k, "drop") /\ UNCHANGED <<ready, due, retries, refused>>
        /\ pulled' = [pulled EXCEPT ![c] = @ \ {d.leaver}]
        /\ Hand(k, Finish(queue[k]))
    BY <1>4, <1>14 DEF DropLeaver, room, client
  <2>2. queue'[k] = Finish(queue[k]) /\ at'[k] = "start"
    BY <1>1, <2>1 DEF Hand
  <2>3. CASE seats[s] # c
    <3>1. seats[s] # NoPeer => pulled'[seats[s]] = pulled[seats[s]]
      BY <1>1, <2>1, <2>3, SeatFacts
    <3> QED  BY <1>1, <1>2, <1>4, <2>1, <2>2, <3>1, SeenOthersEnd DEF Runs
  <2>4. CASE seats[s] = c
    <3>1. c # NoPeer
      BY NoPeerIsNone
    <3>2. ASSUME ready'[s] = "open", NEW t \in MissingTracks(c)'
          PROVE  \/ c \in due \/ Ask(c) \in Line(queue[k])
                 \/ t \in refused[c] \/ retries[c] = MaxRetries
      <4>1. /\ t \in Sockets \ {s} /\ seats[t] \in published
            /\ t \in pulled[c] => t = d.leaver
        BY <1>1, <1>2, <1>5, <2>1, <3>2 DEF MissingTracks
      <4>2. CASE t \in pulled[c]
        <5>1. d = Drop(c, t)
          BY <1>1, <1>3, <1>4, <2>1, <4>1, <4>2 DEF Runs, Drop, Calls, QueueType
        <5> QED  BY <1>1, <2>4, <3>1, <4>1, <5>1 DEF SeenAt, Follows
      <4>3. CASE t \notin pulled[c]
        <5>1. t \in MissingTracks(c)
          BY <1>5, <4>1, <4>3 DEF MissingTracks
        <5>2. \/ Looks(c) \/ Pulling(c)
              \/ t \in refused[c] \/ retries[c] = MaxRetries
          BY <1>1, <2>1, <2>4, <3>1, <3>2, <5>1 DEF SeenAt
        <5>3. ~Pulling(c) /\ (IsToLook(c) => Ask(c) \in Line(queue[k]))
          BY <1>5, <2>1, AskFacts DEF Runs
        <5> QED  BY <5>2, <5>3 DEF Looks
      <4> QED  BY <4>2, <4>3
    <3> QED  BY <1>1, <1>2, <2>1, <2>2, <2>4, <3>2, SeenEnds
  <2> QED  BY <2>3, <2>4
<1>15. CASE PullComesEmpty(s)
  <2>1. PICK late \in SUBSET asked[s] : Skip(c, asked[s] \ late, late)
    BY <1>4, <1>15 DEF PullComesEmpty
  <2>2. /\ Runs(k, "subscribe") /\ at[k] \in {"call", "retry"} /\ ReplyTo(c, k)
        /\ pulled' = pulled
    BY <1>4, <1>15 DEF PullComesEmpty, IsPulling
  <2> QED  BY <1>1, <1>2, <1>4, <2>1, <2>2, SeenEmpties
<1>16. CASE PullLosesBody(s)
  <2>1. {} \in SUBSET asked[s] /\ asked[s] \ {} = asked[s]
    OBVIOUS
  <2>2. /\ Runs(k, "subscribe") /\ at[k] \in {"call", "retry"} /\ ReplyTo(c, k)
        /\ pulled' = pulled /\ Skip(c, asked[s] \ {}, {})
    BY <1>4, <1>16, <2>1 DEF PullLosesBody, IsPulling
  <2> QED  BY <1>1, <1>2, <1>4, <2>1, <2>2, SeenEmpties
<1> QED  BY <1>7, <1>8, <1>9, <1>10, <1>11, <1>12, <1>13, <1>14, <1>15, <1>16
         DEF SubscribeStep, HoldStep

(* Nobody's account but c's is written to, and no retry goes past its bound. *)
Alone(c) ==
    /\ \A x \in Peers \ {c} : /\ pulled'[x] = pulled[x]
                             /\ retries'[x] = retries[x]
                             /\ refused'[x] = refused[x]
    /\ due \subseteq due'
    /\ \A x \in Peers : retries'[x] <= retries[x] \/ retries'[x] <= MaxRetries

(* So it is with every call of a receiving session, and its peer.           *)
LEMMA RunnersAlone ==
    ASSUME ShapeInv, NEW s \in Sockets, SubscribeStep(s) \/ HoldStep(s),
           NEW c \in Peers, c = queue[Sub(s)].running.peer
    PROVE  Alone(c)
<1>1. /\ pulled \in [Peers -> SUBSET Sockets] /\ retries \in [Peers -> Nat]
      /\ refused \in [Peers -> SUBSET Sockets]
  BY DEF ShapeInv, DataShape
<1>2. ASSUME \/ RetryLater(c) \/ NothingSkipped(c) \/ UNCHANGED <<due, retries>>,
             \/ pulled' = pulled \/ \E got : pulled' = [pulled EXCEPT ![c] = got],
             \/ refused' = refused \/ \E got : refused' = [refused EXCEPT ![c] = got]
      PROVE  Alone(c)
  <2>1. \A x \in Peers \ {c} : pulled'[x] = pulled[x] /\ refused'[x] = refused[x]
    BY <1>1, <1>2
  <2>2. CASE RetryLater(c)
    BY <1>1, <2>1, <2>2, BoundsAreNat DEF RetryLater, Alone
  <2>3. CASE NothingSkipped(c)
    BY <1>1, <2>1, <2>3, BoundsAreNat DEF NothingSkipped, Alone
  <2>4. CASE UNCHANGED <<due, retries>>
    BY <1>1, <2>1, <2>4 DEF Alone
  <2> QED  BY <1>2, <2>2, <2>3, <2>4
<1>3. CASE SubscribeStarts(s) \/ SessionOpens(s)
  <2>1. UNCHANGED <<pulled, refused>>
    BY <1>3 DEF SubscribeStarts, SessionOpens
  <2>2. NothingSkipped(c) \/ UNCHANGED <<due, retries>>
    BY <1>3 DEF SubscribeStarts, SessionOpens, Pull
  <2> QED  BY <1>2, <2>1, <2>2
<1>4. CASE \/ CloseReceived(s) \/ SubscribeFails(s) \/ PullBreaks(s)
  <2>1. UNCHANGED <<pulled, refused>>
    BY <1>4 DEF CloseReceived, SubscribeFails, PullBreaks, client
  <2>2. RetryLater(c) \/ UNCHANGED <<due, retries>>
    BY <1>4 DEF CloseReceived, SubscribeFails, PullBreaks, client
  <2> QED  BY <1>2, <2>1, <2>2
<1>5. CASE DropLeaver(s)
  <2>1. UNCHANGED <<due, retries, refused>> /\ \E got : pulled' = [pulled EXCEPT ![c] = got]
    BY <1>5 DEF DropLeaver, client
  <2> QED  BY <1>2, <2>1
<1>6. CASE PullAgain(s)
  <2>1. UNCHANGED <<due, retries, pulled>> /\ \E got : refused' = [refused EXCEPT ![c] = got]
    BY <1>6 DEF PullAgain
  <2> QED  BY <1>2, <2>1
<1>7. CASE PullComesEmpty(s)
  <2>1. PICK late : Skip(c, asked[s] \ late, late)
    BY <1>7 DEF PullComesEmpty
  <2>2. pulled' = pulled
    BY <1>7 DEF PullComesEmpty
  <2>3. /\ RetryLater(c) \/ NothingSkipped(c)
        /\ \E got : refused' = [refused EXCEPT ![c] = got]
    BY <2>1 DEF Skip
  <2> QED  BY <1>2, <2>2, <2>3
<1>8. CASE PullLosesBody(s)
  <2>1. pulled' = pulled /\ Skip(c, asked[s], {})
    BY <1>8 DEF PullLosesBody
  <2>2. /\ RetryLater(c) \/ NothingSkipped(c)
        /\ \E got : refused' = [refused EXCEPT ![c] = got]
    BY <2>1 DEF Skip
  <2> QED  BY <1>2, <2>1, <2>2
<1>9. CASE PullArrives(s)
  <2>1. \E got, late : /\ pulled' = [pulled EXCEPT ![c] = @ \cup got]
                        /\ Skip(c, asked[s] \ (got \cup late), late)
    BY <1>9 DEF PullArrives
  <2>2. \E got : pulled' = [pulled EXCEPT ![c] = got]
    BY <2>1
  <2>3. /\ RetryLater(c) \/ NothingSkipped(c)
        /\ \E got : refused' = [refused EXCEPT ![c] = got]
    BY <2>1 DEF Skip
  <2> QED  BY <1>2, <2>2, <2>3
<1>10. CASE HoldStep(s)
  <2>1. UNCHANGED <<due, retries, pulled, refused>>
    BY <1>10 DEF HoldStep, AnswerAccepted, AnswerRefused, AnswerTimesOut
  <2> QED  BY <1>2, <2>1
<1> QED  BY <1>3, <1>4, <1>5, <1>6, <1>7, <1>8, <1>9, <1>10 DEF SubscribeStep

(* A client's retries stay within their bound. *)
LEMMA RetriesStep ==
    ASSUME SeenInv, ShapeInv', [Next]_vars
    PROVE  \A p \in Peers : retries'[p] <= MaxRetries
<1>1. retries \in [Peers -> Nat] /\ \A p \in Peers : retries[p] <= MaxRetries
  BY DEF SeenInv, ForgetInv, LockInv, ShapeInv, DataShape
<1>2. ASSUME retries' = retries PROVE \A p \in Peers : retries'[p] <= MaxRetries
  BY <1>1, <1>2
<1>3. ASSUME NEW p \in Peers, ClientStep(p) PROVE retries' = retries
  BY <1>3 DEF ClientStep, Join, Publish, Subscribe, SubscribeLimited, Answer, client
<1>4. ASSUME NEW s \in Sockets, Leave(s) \/ CloseSocket(s) \/ Disconnect(s)
      PROVE  retries' = retries
  BY <1>4 DEF Leave, CloseSocket, Disconnect, client
<1>5. ASSUME NEW s \in Sockets, PublishStep(s) PROVE retries' = retries
  BY <1>5 DEF PublishStep, PublishStarts, PublishAccepted, PublishPartly, PublishFails,
              PublishUndone, ClosePublished, client
<1>6. ASSUME NEW s \in Sockets, SubscribeStep(s) \/ HoldStep(s)
      PROVE  \A p \in Peers : retries'[p] <= MaxRetries
  <2>1. ShapeInv /\ WellFormed(queue[Sub(s)])
    BY KeyFacts DEF SeenInv, ForgetInv, LockInv, ShapeInv, QueueShape, AtPlace
  <2>2. PICK c \in Peers : c = queue[Sub(s)].running.peer
    BY <1>6, <2>1, SomebodyRuns, KeyFacts, RunningFacts
  <2>3. \A x \in Peers : retries'[x] <= retries[x] \/ retries'[x] <= MaxRetries
    BY <1>6, <2>1, <2>2, RunnersAlone DEF Alone
  <2>4. retries' \in [Peers -> Nat]
    BY DEF ShapeInv, DataShape
  <2> QED  BY <1>1, <2>3, <2>4, BoundsAreNat
<1>7. CASE EndRoom \/ UNCHANGED vars
  BY <1>2, <1>7 DEF EndRoom, vars, client
<1> QED  BY <1>2, <1>3, <1>4, <1>5, <1>6, <1>7 DEF Next

(* SeenInv is inductive. *)
LEMMA SeenStep == SeenInv /\ [Next]_vars => SeenInv'
<1> SUFFICES ASSUME SeenInv, [Next]_vars PROVE SeenInv'
  OBVIOUS
<1>1. /\ ForgetInv' /\ ForgetInv /\ ShapeInv /\ ShapeInv' /\ LockInv
      /\ \A s \in Sockets : SeenAt(s)
      /\ ready \in [Sockets -> {"open", "closing", "gone"}]
  BY ForgetStep DEF SeenInv, ForgetInv, LockInv, ShapeInv, RoomShape
<1>2. \A p \in Peers : retries'[p] <= MaxRetries
  BY <1>1, RetriesStep
<1>3. ASSUME \A s \in Sockets : SeenAt(s)' PROVE SeenInv'
  BY <1>1, <1>2, <1>3 DEF SeenInv
<1>4. ASSUME \A s \in Sockets : UNCHANGED <<queue[Sub(s)], at[Sub(s)]>>,
             UNCHANGED <<seats, asked, published, pulled, due, retries, refused>>,
             \A s \in Sockets : ready'[s] = "open" => ready[s] = "open"
      PROVE  SeenInv'
  BY <1>1, <1>3, <1>4, SeenElsewhere
<1>5. ASSUME NEW p \in Peers, ClientStep(p) PROVE SeenInv'
  <2>1. CASE Join(p)
    BY <1>1, <1>3, <2>1, SeenJoin
  <2>2. CASE Subscribe(p)
    BY <1>1, <1>3, <2>2, SeenSubscribe
  <2>3. CASE Publish(p)
    <3>1. /\ \E q : queue' = [queue EXCEPT ![Pub(SocketOf[p])] = q]
          /\ UNCHANGED <<ready, seats, at, asked, published, pulled, due, retries,
                         refused>>
      BY <2>3 DEF Publish, room
    <3>2. \A s \in Sockets : queue'[Sub(s)] = queue[Sub(s)]
      BY <1>1, <3>1, KeyFacts DEF ShapeInv, QueueShape
    <3> QED  BY <1>4, <3>1, <3>2
  <2>4. CASE Answer(p)
    <3> DEFINE x == SocketOf[p]
    <3>1. /\ at' = [at EXCEPT ![Sub(x)] = "call"] /\ open[x] = p
          /\ seats[x] = p /\ x \in Sockets /\ p # NoPeer
          /\ UNCHANGED <<ready, queue, seats, asked, published, pulled, due, retries,
                         refused>>
      BY <2>4, SocketsOfPeers, NoPeerIsNone DEF Answer, room, client, IsSeated
    <3>2. Runs(Sub(x), "hold")
      BY <1>1, <3>1 DEF LockInv, LockAt, HeldAt
    <3>3. ASSUME NEW s \in Sockets, s # x PROVE SeenAt(s)'
      <4>1. at'[Sub(s)] = at[Sub(s)]
        BY <1>1, <3>1, <3>3, KeyFacts DEF ShapeInv, QueueShape
      <4> QED  BY <1>1, <3>1, <4>1, SeenElsewhere
    <3>4. SeenAt(x)'
      <4>1. queue[Sub(x)].running.what # "subscribe"
        BY <3>2 DEF Runs
      <4>2. queue[Sub(x)].running # Ask(p)
        BY <3>1, <4>1, AskFacts
      <4>3. /\ Pulling(p)' <=> Pulling(p)
            /\ IsToLook(p) => IsToLook(p)'
        BY <3>1, <4>1, <4>2, AskFacts
      <4>4. Looks(p) => Looks(p)'
        BY <3>1, <4>3 DEF Looks
      <4> QED  BY <1>1, <3>1, <4>3, <4>4, SeenStays
    <3> QED  BY <1>3, <3>3, <3>4
  <2>5. CASE SubscribeLimited(p)
    BY <1>1, <1>3, <2>5, SeenLimited
  <2> QED  BY <1>5, <2>1, <2>2, <2>3, <2>4, <2>5 DEF ClientStep
<1>6. ASSUME NEW s \in Sockets, Leave(s) \/ CloseSocket(s) \/ Disconnect(s)
      PROVE  SeenInv'
  <2>1. /\ UNCHANGED <<at, asked, published, pulled, retries, refused>>
        /\ \A t \in Sockets : ready'[t] = "open" => ready[t] = "open"
    BY <1>1, <1>6, CloseFacts DEF Leave, CloseSocket, Disconnect, client
  <2>2. CASE Unseat(s) /\ seats[s] # NoPeer
    BY <1>1, <1>3, <2>1, <2>2, SeenUnseat
  <2>3. CASE UNCHANGED <<queue, seats, due>>
    BY <1>4, <2>1, <2>3
  <2> QED  BY <1>6, <2>2, <2>3 DEF Leave, CloseSocket, Disconnect, client
<1>7. CASE EndRoom
  <2>1. \A s \in Sockets : seats'[s] = NoPeer
    BY <1>7 DEF EndRoom
  <2> QED  BY <1>3, <2>1 DEF SeenAt
<1>8. ASSUME NEW s \in Sockets, PublishStep(s) PROVE SeenInv'
  BY <1>1, <1>3, <1>8, SeenPublishing
<1>9. ASSUME NEW s \in Sockets, SubscribeStep(s) \/ HoldStep(s) PROVE SeenInv'
  <2>1. Receiving(s)
    BY <1>1, <1>9, ShapeReceiving
  <2>2. SeenAt(s)'
    BY <1>9, <2>1, SeenReceiving
  <2>3. queue[Sub(s)].running # Nobody
    BY <1>9, SomebodyRuns
  <2>4. PICK c \in Peers : c = queue[Sub(s)].running.peer
    BY <1>1, <2>3, KeyFacts, RunningFacts
  <2>5. SocketOf[c] = s
    BY <1>1, <2>3, <2>4, KeyFacts, RunningFacts
  <2>6. /\ \A x \in Peers \ {c} : /\ pulled'[x] = pulled[x]
                                 /\ retries'[x] = retries[x]
                                 /\ refused'[x] = refused[x]
        /\ due \subseteq due'
    BY <1>1, <1>9, <2>4, RunnersAlone DEF Alone
  <2>7. ASSUME NEW t \in Sockets, t # s PROVE SeenAt(t)'
    <3>1. /\ UNCHANGED <<seats, published>>
          /\ UNCHANGED <<queue[Sub(t)], at[Sub(t)], asked[t]>>
          /\ ready'[t] = "open" => ready[t] = "open"
      BY <1>1, <2>1, <2>7 DEF Receiving
    <3>2. seats[t] # NoPeer => seats[t] \in Peers \ {c}
      BY <1>1, <2>5, <2>7, SeatFacts
    <3> QED  BY <1>1, <2>6, <3>1, <3>2, SeenElsewhere
  <2> QED  BY <1>3, <2>2, <2>7
<1>10. CASE UNCHANGED vars
  BY <1>4, <1>10 DEF vars, room, client
<1> QED  BY <1>5, <1>6, <1>7, <1>8, <1>9, <1>10 DEF Next

(* Nobody sits anywhere at first. *)
LEMMA SeenInit == Init => SeenInv
<1> SUFFICES ASSUME Init PROVE SeenInv
  OBVIOUS
<1>1. ForgetInv
  BY ForgetInit
<1>2. (\A s \in Sockets : seats[s] = NoPeer) /\ \A p \in Peers : retries[p] = 0
  BY DEF Init
<1>3. \A p \in Peers : retries[p] <= MaxRetries
  BY <1>2, BoundsAreNat
<1> QED  BY <1>1, <1>2, <1>3 DEF SeenInv, SeenAt

(* subscribe(), the announcements of publish() and join(), and the client's *)
(* retries: whatever overlapped, a track that a peer lacks is about to be   *)
(* asked for or is being pulled, unless its retries are used up or it was   *)
(* told nothing of that track when it last asked: a track the SFU refused   *)
(* for good, one in a reply whose body was lost, or a subscribe without a   *)
(* token left.                                                              *)
THEOREM TracksNeverMissed == Spec => []NoTrackIsMissed
<1>1. SeenInv => NoTrackIsMissed
  <2> SUFFICES ASSUME SeenInv, NEW p \in Peers, NEW t \in MissingTracks(p),
                      IsSeated(p), ready[SocketOf[p]] = "open"
               PROVE  \/ p \in due \/ IsToLook(p)
                      \/ t \in asked[SocketOf[p]]
                      \/ t \in refused[p]
                      \/ retries[p] = MaxRetries
    BY DEF NoTrackIsMissed
  <2>1. SocketOf[p] \in Sockets /\ seats[SocketOf[p]] = p /\ p # NoPeer
    BY SocketsOfPeers, NoPeerIsNone DEF IsSeated
  <2> QED  BY <2>1 DEF SeenInv, SeenAt, Looks
<1> QED  BY <1>1, SeenInit, SeenStep, PTL DEF Spec
=============================================================================
